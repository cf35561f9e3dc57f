------------------------ MODULE PersistentRingProofs ------------------------
(***************************************************************************)
(* Theorems about PersistentRing, for every size of the data region, every *)
(* header size of at least two units and all payload lengths.              *)
(***************************************************************************)
EXTENDS PersistentRing, TLAPS

\* Where the records lie: inside the data region, in laps up to the current
\* one, those of the current lap below the write position.
Placed ==
    \A w \in DOMAIN log :
        /\ log[w].start + Extent(w) <= Size
        /\ log[w].lap <= control.wrap_count
        /\ log[w].lap = control.wrap_count
             => log[w].start + Extent(w) <= control.write_pos

\* A record that neither the ring nor an unfinished write has come round to is
\* in place, unit by unit.
Intact ==
    \A w \in DOMAIN log :
        Live(w) /\ Untorn(w) => HoldsRecord(log[w].start, w)

PInv == TypeOK /\ file_control = control /\ Placed /\ Intact

-----------------------------------------------------------------------------
(* Facts about the operators.                                              *)

\* A sequence over a set is a sequence over every larger set.
LEMMA SeqMono ==
  ASSUME NEW S, NEW T, S \subseteq T, NEW s \in Seq(S)
  PROVE  s \in Seq(T)
  OBVIOUS

\* Recomputing the checksum of a control block gives a control block and leaves
\* the positions alone.
LEMMA UpdateCrc ==
  ASSUME NEW c \in ControlBlocks
  PROVE  /\ update_crc(c) \in ControlBlocks
         /\ update_crc(c).write_pos = c.write_pos
         /\ update_crc(c).read_pos = c.read_pos
         /\ update_crc(c).wrap_count = c.wrap_count
  <1>1. 1 - c.crc.gen \in {0, 1} BY DEF ControlBlocks
  <1>2. crc32(c) \in [of : Nat \X Nat \X Nat, gen : {0, 1}]
    BY <1>1, SizeAssumption DEF crc32, ControlBlocks
  <1> QED BY <1>2 DEF update_crc, ControlBlocks

\* A stored checksum never matches: it is hashed together with the block.
LEMMA NeverVerifies ==
  ASSUME NEW c \in ControlBlocks
  PROVE  ~verify_crc(c)
  <1>1. c.crc.gen \in {0, 1} BY DEF ControlBlocks
  <1>2. c.crc.gen # 1 - c.crc.gen BY <1>1
  <1> QED BY <1>2 DEF verify_crc, crc32

\* Types of an entry of the history of writes.
LEMMA LogType ==
  ASSUME RegionTypeOK, NEW w \in DOMAIN log
  PROVE  /\ w \in 1 .. Len(log) /\ w \in Nat
         /\ log[w].len \in Nat /\ log[w].start \in 0 .. Size /\ log[w].start \in Nat
         /\ log[w].lap \in Nat
         /\ Extent(w) \in Nat /\ Extent(w) >= HeaderSize
  <1> DEFINE R == [len : Nat, start : 0 .. Size, lap : Nat]
  <1>1. w \in 1 .. Len(log) /\ w \in Nat BY DEF RegionTypeOK
  <1>2. log[w] \in R
    <2>1. log \in Seq(R) BY DEF RegionTypeOK
    <2> HIDE DEF R
    <2> QED BY <1>1, <2>1
  <1>3. /\ log[w].len \in Nat /\ log[w].start \in 0 .. Size /\ log[w].lap \in Nat
    BY <1>2
  <1>4. log[w].start \in Nat BY <1>3, SizeAssumption
  <1>5. Extent(w) \in Nat /\ Extent(w) >= HeaderSize
    BY <1>3, SizeAssumption DEF Extent
  <1> QED BY <1>1, <1>3, <1>4, <1>5

\* A record that read_at returns was written, is in place and ends within the
\* data region.
LEMMA ReadAtSome ==
  ASSUME RegionTypeOK, NEW p \in Nat, NEW r \in ReadAt(p), r.kind = "Some"
  PROVE  /\ r.rec \in 1 .. Len(log)
         /\ HoldsRecord(p, r.rec)
         /\ Extent(r.rec) \in Nat
         /\ p + Extent(r.rec) <= Size
  <1> DEFINE w == cells[p + HeaderSize - 1][1]
  <1>1. /\ p + HeaderSize <= Size
        /\ is_valid(p)
        /\ HoldsRecord(p, w)
        /\ r = Some(w)
    <2>1. r # None /\ r # Err BY DEF None, Err
    <2>2. ~(p + HeaderSize > Size) /\ is_valid(p) BY <2>1 DEF ReadAt
    <2>3. cells[p] = <<w, 0>> BY <2>1, <2>2 DEF ReadAt
    <2>4. HoldsRecord(p, w) /\ r = Some(w) BY <2>1, <2>2, <2>3 DEF ReadAt
    <2> QED BY <2>2, <2>4, SizeAssumption
  <1>2. p + HeaderSize - 1 \in Offsets BY <1>1, SizeAssumption DEF Offsets
  <1>3. w \in 1 .. Len(log) BY <1>1, <1>2 DEF is_valid, RegionTypeOK
  <1>4. Extent(w) \in Nat /\ Extent(w) >= HeaderSize
    <2>1. w \in DOMAIN log BY <1>3 DEF RegionTypeOK
    <2> QED BY <2>1, LogType
  <1>5. p + (Extent(w) - 1) \in Offsets
    <2>1. Extent(w) - 1 \in 0 .. Extent(w) - 1 BY <1>4, SizeAssumption
    <2> QED BY <1>1, <2>1 DEF HoldsRecord
  <1>6. p + Extent(w) <= Size BY <1>4, <1>5, SizeAssumption DEF Offsets
  <1>7. r.rec = w BY <1>1 DEF Some
  <1> QED BY <1>1, <1>3, <1>4, <1>6, <1>7

\* What holds a record reads back as that record.
LEMMA ReadAtHolds ==
  ASSUME RegionTypeOK, NEW w \in DOMAIN log, HoldsRecord(log[w].start, w)
  PROVE  ReadAt(log[w].start) = {Some(w)}
  <1> DEFINE p == log[w].start
  <1>1. w \in Nat /\ p \in Nat /\ log[w].len \in Nat
    BY LogType
  <1>2. /\ Extent(w) \in Nat /\ HeaderSize <= Extent(w)
        /\ HeaderSize - 1 \in 0 .. Extent(w) - 1 /\ 0 \in 0 .. Extent(w) - 1
    BY <1>1, SizeAssumption DEF Extent
  <1>3. /\ p + (HeaderSize - 1) \in Offsets
        /\ cells[p + (HeaderSize - 1)] = <<w, HeaderSize - 1>>
    BY <1>2 DEF HoldsRecord
  <1>4. cells[p + 0] = <<w, 0>> BY <1>2 DEF HoldsRecord
  <1>5. p + (HeaderSize - 1) = p + HeaderSize - 1 /\ p + 0 = p
    BY <1>1, SizeAssumption
  <1>6. ~(p + HeaderSize > Size) BY <1>1, <1>3, SizeAssumption DEF Offsets
  <1>7. <<w, HeaderSize - 1>> \in Nat \X Nat BY <1>1, SizeAssumption
  <1>8. is_valid(p) BY <1>3, <1>5, <1>7, BlankAssumption DEF is_valid
  <1>9. cells[p + HeaderSize - 1][1] = w BY <1>3, <1>5
  <1>10. cells[p] = <<w, 0>> BY <1>4, <1>5
  <1> QED BY <1>6, <1>8, <1>9, <1>10 DEF ReadAt

-----------------------------------------------------------------------------
(* Type correctness, action by action.                                     *)

\* The state after creation satisfies the invariant.
LEMMA InvInit == Init => PInv
  <1> SUFFICES ASSUME Init PROVE PInv OBVIOUS
  <1> DEFINE c0 == [write_pos |-> 0, read_pos |-> 0, wrap_count |-> 0,
                    crc |-> [of |-> <<0, 0, 0>>, gen |-> 0]]
  <1>1. c0 \in ControlBlocks BY SizeAssumption DEF ControlBlocks
  <1>2. control \in ControlBlocks /\ file_control = control
    BY <1>1, UpdateCrc DEF Init, NewControlBlock
  <1>3. Len(log) = 0 /\ DOMAIN log = {} BY DEF Init
  <1>4. RegionTypeOK BY DEF Init, RegionTypeOK
  <1>5. ReadTypeOK BY SizeAssumption DEF Init, ReadTypeOK
  <1>6. TypeOK BY <1>2, <1>4, <1>5 DEF Init, TypeOK, ControlTypeOK
  <1>7. Placed /\ Intact BY <1>3 DEF Placed, Intact
  <1> QED BY <1>2, <1>6, <1>7 DEF PInv

\* The position and lap that write() uses, and where it ends.
LEMMA WritePosition ==
  ASSUME TypeOK, NEW len \in Lengths, Write(len)
  PROVE  \E pos \in 0 .. Size, laps \in Nat :
           /\ HeaderSize + len \in Nat
           /\ pos + (HeaderSize + len) <= Size
           /\ \/ pos = control.write_pos /\ laps = control.wrap_count
              \/ pos = 0 /\ laps = control.wrap_count + 1
           /\ cells' = [i \in Offsets |->
                          IF i \in pos .. pos + (HeaderSize + len) - 1
                          THEN <<Len(log) + 1, i - pos>> ELSE cells[i]]
           /\ control' = update_crc([control EXCEPT
                            !.write_pos = pos + (HeaderSize + len),
                            !.wrap_count = laps])
           /\ file_control' = control'
           /\ log' = Append(log, [len |-> len, start |-> pos, lap |-> laps])
  <1> DEFINE total == HeaderSize + len
             wrap  == NeedsWrap(total)
             pos   == WritePos(total)
             laps  == IF wrap THEN control.wrap_count + 1 ELSE control.wrap_count
  <1>1. control.write_pos \in 0 .. Size /\ control.wrap_count \in Nat
    BY DEF TypeOK, ControlTypeOK, ControlBlocks
  <1>2. total \in Nat /\ total <= Size BY SizeAssumption DEF Write
  <1>3. pos \in 0 .. Size /\ laps \in Nat /\ pos + total <= Size
    BY <1>1, <1>2, SizeAssumption DEF NeedsWrap, WritePos
  <1>4. \/ pos = control.write_pos /\ laps = control.wrap_count
        \/ pos = 0 /\ laps = control.wrap_count + 1
    BY DEF WritePos
  <1>5. /\ cells' = [i \in Offsets |->
                       IF i \in pos .. pos + total - 1
                       THEN <<Len(log) + 1, i - pos>> ELSE cells[i]]
        /\ control' = update_crc([control EXCEPT !.write_pos = pos + total,
                                                 !.wrap_count = laps])
        /\ file_control' = control'
        /\ log' = Append(log, [len |-> len, start |-> pos, lap |-> laps])
    BY DEF Write, SaveControl, EndOf
  <1> QED BY <1>2, <1>3, <1>4, <1>5

\* Write keeps TypeOK.
LEMMA WriteType ==
  ASSUME PInv, NEW len \in Lengths, Write(len)
  PROVE  TypeOK' /\ file_control' = control'
  <1> USE DEF PInv, TypeOK
  <1>1. PICK pos \in 0 .. Size, laps \in Nat :
          /\ HeaderSize + len \in Nat
          /\ pos + (HeaderSize + len) <= Size
          /\ cells' = [i \in Offsets |->
                         IF i \in pos .. pos + (HeaderSize + len) - 1
                         THEN <<Len(log) + 1, i - pos>> ELSE cells[i]]
          /\ control' = update_crc([control EXCEPT
                           !.write_pos = pos + (HeaderSize + len),
                           !.wrap_count = laps])
          /\ file_control' = control'
          /\ log' = Append(log, [len |-> len, start |-> pos, lap |-> laps])
    BY WritePosition
  <1> DEFINE R == [len : Nat, start : 0 .. Size, lap : Nat]
             e == [len |-> len, start |-> pos, lap |-> laps]
  <1>2. e \in R BY SizeAssumption
  <1>3. log \in Seq(R) BY DEF RegionTypeOK
  <1>4. log' \in Seq(R) /\ Len(log') = Len(log) + 1 /\ Len(log) \in Nat
    <2> HIDE DEF R, e
    <2>1. log' = Append(log, e) BY <1>1 DEF e
    <2> QED BY <1>2, <1>3, <2>1
  <1>5. cells' \in [Offsets -> ((1 .. Len(log')) \X Nat) \cup {Blank}]
    <2> SUFFICES ASSUME NEW i \in Offsets
                 PROVE  cells'[i] \in ((1 .. Len(log')) \X Nat) \cup {Blank}
      BY <1>1
    <2>1. CASE i \in pos .. pos + (HeaderSize + len) - 1
      <3>1. cells'[i] = <<Len(log) + 1, i - pos>> BY <1>1, <2>1
      <3>2. i - pos \in Nat
        <4>1. HeaderSize + len \in Nat BY <1>1
        <4>2. i \in Nat /\ pos \in Nat /\ pos <= i
          BY <2>1, <4>1, SizeAssumption DEF Offsets
        <4> QED BY <4>2
      <3>3. Len(log) + 1 \in 1 .. Len(log') BY <1>4
      <3> QED BY <3>1, <3>2, <3>3
    <2>2. CASE i \notin pos .. pos + (HeaderSize + len) - 1
      <3>1. cells'[i] = cells[i] BY <1>1, <2>2
      <3>2. 1 .. Len(log) \subseteq 1 .. Len(log') BY <1>4
      <3>3. cells[i] \in ((1 .. Len(log)) \X Nat) \cup {Blank} BY DEF RegionTypeOK
      <3> QED BY <3>1, <3>2, <3>3
    <2> QED BY <2>1, <2>2
  <1>6. RegionTypeOK' BY <1>4, <1>5 DEF RegionTypeOK
  <1>7. ControlTypeOK'
    <2>1. pos + (HeaderSize + len) \in 0 .. Size BY <1>1, SizeAssumption
    <2>2. [control EXCEPT !.write_pos = pos + (HeaderSize + len),
                          !.wrap_count = laps] \in ControlBlocks
      BY <2>1 DEF ControlTypeOK, ControlBlocks
    <2> QED BY <1>1, <2>2, UpdateCrc DEF ControlTypeOK
  <1>8. ReadTypeOK'
    <2>1. 1 .. Len(log) \subseteq 1 .. Len(log') BY <1>4
    <2>2. records \in Seq(1 .. Len(log')) /\ returned \in Seq(1 .. Len(log'))
      BY <2>1, SeqMono DEF ReadTypeOK
    <2> QED BY <2>1, <2>2 DEF ReadTypeOK, Write, readAllVars
  <1>9. reading' \in BOOLEAN BY DEF Write, readAllVars
  <1>10. status' \in {"open", "closed", "refused"} BY DEF Write
  <1>11. torn' \subseteq Offsets /\ (status' = "open" => torn' = {})
    BY DEF Write
  <1> QED BY <1>1, <1>6, <1>7, <1>8, <1>9, <1>10, <1>11

\* ReadAllBegin keeps TypeOK.
LEMMA ReadAllBeginType ==
  ASSUME PInv, ReadAllBegin
  PROVE  TypeOK' /\ file_control' = control'
  <1> USE DEF PInv, TypeOK
  <1>1. RegionTypeOK' BY DEF RegionTypeOK, ReadAllBegin
  <1>2. ControlTypeOK' /\ file_control' = control' BY DEF ControlTypeOK, ReadAllBegin
  <1>3. ReadTypeOK' BY DEF ReadTypeOK, ReadAllBegin, ControlTypeOK, ControlBlocks
  <1>4. reading' \in BOOLEAN BY DEF ReadAllBegin
  <1>5. /\ status' \in {"open", "closed", "refused"}
        /\ torn' \subseteq Offsets /\ (status' = "open" => torn' = {})
    BY DEF ReadAllBegin
  <1> QED BY <1>1, <1>2, <1>3, <1>4, <1>5

\* ReadAllStep keeps TypeOK: a record read ends within the data region, a gap
\* starts below the write position.
LEMMA ReadAllStepType ==
  ASSUME PInv, ReadAllStep
  PROVE  TypeOK' /\ file_control' = control'
  <1> USE DEF PInv, TypeOK
  <1>1. RegionTypeOK' BY DEF RegionTypeOK, ReadAllStep
  <1>2. ControlTypeOK' /\ file_control' = control' BY DEF ControlTypeOK, ReadAllStep
  <1>3. ReadTypeOK'
    <2>1. PICK r \in ReadAt(current_pos) :
            \/ /\ r.kind = "Some"
               /\ records' = Append(records, r.rec)
               /\ current_pos' = PastRecord(r.rec)
            \/ /\ r.kind = "None"
               /\ current_pos' = PastGap
               /\ UNCHANGED records
            \/ current_pos' = 0 /\ records' = <<>>
      BY DEF ReadAllStep, ReadAllReturns
    <2>2. /\ current_pos \in Nat
          /\ current_pos < control.write_pos /\ control.write_pos \in 0 .. Size
      BY SizeAssumption DEF ReadAllStep, ReadTypeOK, ControlTypeOK, ControlBlocks
    <2>3. UNCHANGED <<log, returned, skipped>> BY DEF ReadAllStep
    <2>4. CASE /\ r.kind = "Some"
               /\ records' = Append(records, r.rec)
               /\ current_pos' = PastRecord(r.rec)
      <3>1. /\ r.rec \in 1 .. Len(log) /\ Extent(r.rec) \in Nat
            /\ current_pos + Extent(r.rec) <= Size
        BY <2>2, <2>4, ReadAtSome
      <3>2. current_pos' \in 0 .. Size + HeaderSize - 1
        BY <2>2, <2>4, <3>1, SizeAssumption DEF PastRecord
      <3>3. records' \in Seq(1 .. Len(log)) BY <2>4, <3>1 DEF ReadTypeOK
      <3> QED BY <2>3, <3>2, <3>3 DEF ReadTypeOK
    <2>5. CASE current_pos' = PastGap /\ UNCHANGED records
      <3>1. current_pos' \in 0 .. Size + HeaderSize - 1
        BY <2>2, <2>5, SizeAssumption DEF PastGap
      <3> QED BY <2>3, <2>5, <3>1 DEF ReadTypeOK
    <2>6. CASE current_pos' = 0 /\ records' = <<>>
      BY <2>3, <2>6, SizeAssumption DEF ReadTypeOK
    <2> QED BY <2>1, <2>4, <2>5, <2>6
  <1>4. reading' \in BOOLEAN BY DEF ReadAllStep, ReadAllReturns
  <1>5. /\ status' \in {"open", "closed", "refused"}
        /\ torn' \subseteq Offsets /\ (status' = "open" => torn' = {})
    BY DEF ReadAllStep
  <1> QED BY <1>1, <1>2, <1>3, <1>4, <1>5

\* ReadAllEnd keeps TypeOK.
LEMMA ReadAllEndType ==
  ASSUME PInv, ReadAllEnd
  PROVE  TypeOK' /\ file_control' = control'
  <1> USE DEF PInv, TypeOK
  <1>1. RegionTypeOK' BY DEF RegionTypeOK, ReadAllEnd
  <1>2. ControlTypeOK' /\ file_control' = control'
    <2>1. [control EXCEPT !.read_pos = ReadAllPos] \in ControlBlocks
      BY DEF ControlTypeOK, ControlBlocks, ReadAllPos, ReadTypeOK
    <2> QED BY <2>1, UpdateCrc DEF ControlTypeOK, ReadAllEnd, SaveControl
  <1>3. ReadTypeOK'
    <2>1. returned' \in Seq(1 .. Len(log)) BY DEF ReadTypeOK, ReadAllEnd
    <2> QED BY <2>1, SizeAssumption DEF ReadTypeOK, ReadAllEnd, ReadAllReturns
  <1>4. reading' \in BOOLEAN BY DEF ReadAllEnd, ReadAllReturns
  <1>5. /\ status' \in {"open", "closed", "refused"}
        /\ torn' \subseteq Offsets /\ (status' = "open" => torn' = {})
    BY DEF ReadAllEnd
  <1> QED BY <1>1, <1>2, <1>3, <1>4, <1>5

\* ReadAllFlushError keeps TypeOK.
LEMMA ReadAllFlushErrorType ==
  ASSUME PInv, ReadAllFlushError
  PROVE  TypeOK' /\ file_control' = control'
  <1> USE DEF PInv, TypeOK
  <1>1. RegionTypeOK' BY DEF RegionTypeOK, ReadAllFlushError
  <1>2. ControlTypeOK' /\ file_control' = control'
    <2>1. [control EXCEPT !.read_pos = ReadAllPos] \in ControlBlocks
      BY DEF ControlTypeOK, ControlBlocks, ReadAllPos, ReadTypeOK
    <2> QED
      BY <2>1, UpdateCrc DEF ControlTypeOK, ReadAllFlushError, SaveControl
  <1>3. ReadTypeOK'
    <2>1. Elements(records) \subseteq 1 .. Len(log)
      BY DEF ReadTypeOK, Elements
    <2> QED BY <2>1, SizeAssumption
            DEF ReadTypeOK, ReadAllFlushError, ReadAllReturns
  <1>4. reading' \in BOOLEAN BY DEF ReadAllFlushError, ReadAllReturns
  <1>5. /\ status' \in {"open", "closed", "refused"}
        /\ torn' \subseteq Offsets /\ (status' = "open" => torn' = {})
    BY DEF ReadAllFlushError
  <1> QED BY <1>1, <1>2, <1>3, <1>4, <1>5

\* ResetReadPosition keeps TypeOK.
LEMMA ResetType ==
  ASSUME PInv, ResetReadPosition
  PROVE  TypeOK' /\ file_control' = control'
  <1> USE DEF PInv, TypeOK
  <1>1. RegionTypeOK' BY DEF RegionTypeOK, ResetReadPosition
  <1>2. ControlTypeOK' /\ file_control' = control'
    <2>1. [control EXCEPT !.read_pos = control.write_pos] \in ControlBlocks
      BY SizeAssumption DEF ControlTypeOK, ControlBlocks
    <2> QED BY <2>1, UpdateCrc
            DEF ControlTypeOK, ResetReadPosition, SaveReset, SaveControl
  <1>3. ReadTypeOK'
    <2>1. DOMAIN log = 1 .. Len(log) BY DEF RegionTypeOK
    <2> QED BY <2>1 DEF ReadTypeOK, ResetReadPosition, readAllVars
  <1>4. reading' \in BOOLEAN BY DEF ResetReadPosition, readAllVars
  <1>5. /\ status' \in {"open", "closed", "refused"}
        /\ torn' \subseteq Offsets /\ (status' = "open" => torn' = {})
    BY DEF ResetReadPosition
  <1> QED BY <1>1, <1>2, <1>3, <1>4, <1>5

\* Close and Open keep TypeOK: what was torn is never opened again.
LEMMA CloseOpenType ==
  ASSUME PInv, Close \/ Open
  PROVE  TypeOK' /\ file_control' = control'
  <1> USE DEF PInv, TypeOK
  <1>1. RegionTypeOK' BY DEF RegionTypeOK, Close, Open
  <1>2. ControlTypeOK' /\ file_control' = control' BY DEF ControlTypeOK, Close, Open
  <1>3. ReadTypeOK'
    <2>1. CASE Close
      <3>1. current_pos' = 0 /\ records' = <<>> BY <2>1 DEF Close, ReadAllReturns
      <3>2. UNCHANGED <<log, returned, skipped>> BY <2>1 DEF Close
      <3>3. records' \in Seq(1 .. Len(log)) BY <3>1
      <3>4. current_pos' \in 0 .. Size + HeaderSize - 1
        BY <3>1, SizeAssumption
      <3> QED BY <3>2, <3>3, <3>4 DEF ReadTypeOK
    <2>2. CASE Open BY <2>2 DEF ReadTypeOK, Open, readAllVars
    <2> QED BY <2>1, <2>2
  <1>4. reading' \in BOOLEAN BY DEF Close, Open, ReadAllReturns, readAllVars
  <1>5. /\ status' \in {"open", "closed", "refused"}
        /\ torn' \subseteq Offsets
    BY DEF Close, Open
  <1>6. status' # "open"
    <2>1. ~verify_crc(file_control) BY NeverVerifies DEF ControlTypeOK
    <2> QED BY <2>1 DEF Close, Open
  <1> QED BY <1>1, <1>2, <1>3, <1>4, <1>5, <1>6

\* DieInWrite keeps TypeOK: the units it overwrites are in the region.
LEMMA DieInWriteType ==
  ASSUME PInv, NEW len \in Lengths, DieInWrite(len)
  PROVE  TypeOK' /\ file_control' = control'
  <1> USE DEF PInv, TypeOK
  <1>1. RegionTypeOK'
    <2>1. cells' = [i \in Offsets |-> IF i \in torn' THEN Blank ELSE cells[i]]
      BY DEF DieInWrite
    <2>2. log' = log BY DEF DieInWrite
    <2> QED BY <2>1, <2>2 DEF RegionTypeOK
  <1>2. ControlTypeOK' /\ file_control' = control'
    BY DEF ControlTypeOK, DieInWrite
  <1>3. ReadTypeOK' BY DEF ReadTypeOK, DieInWrite, readAllVars
  <1>4. reading' \in BOOLEAN BY DEF DieInWrite, readAllVars
  <1>5. status' = "closed" BY DEF DieInWrite
  <1>6. torn' \subseteq Offsets
    <2> DEFINE total == HeaderSize + len
               pos   == WritePos(total)
    <2>1. control.write_pos \in 0 .. Size BY DEF ControlTypeOK, ControlBlocks
    <2>2. total \in Nat /\ total <= Size BY SizeAssumption DEF DieInWrite
    <2>3. pos \in Nat /\ pos + total <= Size
      BY <2>1, <2>2, SizeAssumption DEF WritePos, NeedsWrap
    <2>4. PICK t \in 1 .. total : torn' = pos .. pos + t - 1
      BY DEF DieInWrite
    <2> QED BY <2>2, <2>3, <2>4, SizeAssumption DEF Offsets
  <1> QED BY <1>1, <1>2, <1>3, <1>4, <1>5, <1>6

-----------------------------------------------------------------------------
(* Placement and integrity of the records.                                 *)

\* A step that writes no record and moves neither the write position nor the
\* lap leaves every record in its place.
LEMMA QuietStep ==
  ASSUME Placed, Intact, UNCHANGED <<cells, log, torn>>,
         control'.write_pos = control.write_pos,
         control'.wrap_count = control.wrap_count
  PROVE  Placed' /\ Intact'
  <1>1. \A w : Extent(w)' = Extent(w) BY DEF Extent
  <1>2. Placed' BY <1>1 DEF Placed
  <1>3. Intact' BY <1>1 DEF Intact, Live, Untorn, HoldsRecord
  <1> QED BY <1>2, <1>3

\* What write() does to the history and to the positions: the new record, the
\* n-th, lies at pos, the write position or, after a wrap, the start of the
\* region.
Wrote(len, pos, laps, total, n) ==
    /\ total = HeaderSize + len /\ n = Len(log) + 1
    /\ pos + total <= Size
    /\ \/ pos = control.write_pos /\ laps = control.wrap_count
       \/ pos = 0 /\ laps = control.wrap_count + 1
    /\ cells' = [i \in Offsets |-> IF i \in pos .. pos + total - 1
                                   THEN <<n, i - pos>> ELSE cells[i]]
    /\ control'.write_pos = pos + total /\ control'.wrap_count = laps
    /\ control'.read_pos = control.read_pos
    /\ DOMAIN log = 1 .. Len(log) /\ DOMAIN log' = 1 .. n
    /\ n \notin DOMAIN log /\ Len(log') = n
    /\ \A w \in DOMAIN log : log'[w] = log[w]
    /\ log'[n].len = len /\ log'[n].start = pos /\ log'[n].lap = laps

\* A write has this effect.
LEMMA WriteEffect ==
  ASSUME TypeOK, NEW len \in Lengths, Write(len)
  PROVE  \E pos \in Nat, laps \in Nat, total \in Nat, n \in Nat :
            Wrote(len, pos, laps, total, n)
  <1> DEFINE total == HeaderSize + len
  <1>0. PICK n \in Nat : n = Len(log) + 1 BY DEF TypeOK, RegionTypeOK
  <1>1. PICK pos \in 0 .. Size, laps \in Nat :
          /\ total \in Nat
          /\ pos + total <= Size
          /\ \/ pos = control.write_pos /\ laps = control.wrap_count
             \/ pos = 0 /\ laps = control.wrap_count + 1
          /\ cells' = [i \in Offsets |->
                         IF i \in pos .. pos + total - 1
                         THEN <<n, i - pos>> ELSE cells[i]]
          /\ control' = update_crc([control EXCEPT !.write_pos = pos + total,
                                                   !.wrap_count = laps])
          /\ log' = Append(log, [len |-> len, start |-> pos, lap |-> laps])
    BY <1>0, WritePosition
  <1>2. RegionTypeOK /\ control \in ControlBlocks BY DEF TypeOK, ControlTypeOK
  <1>3. /\ control'.write_pos = pos + total /\ control'.wrap_count = laps
        /\ control'.read_pos = control.read_pos
    <2> DEFINE c == [control EXCEPT !.write_pos = pos + total, !.wrap_count = laps]
    <2>1. pos + total \in 0 .. Size BY <1>1, SizeAssumption
    <2>2. /\ c \in ControlBlocks /\ c.read_pos = control.read_pos
          /\ c.write_pos = pos + total /\ c.wrap_count = laps
      BY <1>2, <2>1 DEF ControlBlocks
    <2>3. control' = update_crc(c) BY <1>1
    <2> HIDE DEF c
    <2> QED BY <2>2, <2>3, UpdateCrc
  <1> DEFINE e == [len |-> len, start |-> pos, lap |-> laps]
  <1>4. /\ n \in Nat /\ DOMAIN log = 1 .. Len(log)
        /\ DOMAIN log' = 1 .. n /\ Len(log') = n /\ log'[n] = e
        /\ n \notin DOMAIN log
        /\ \A w \in DOMAIN log : log'[w] = log[w]
    <2>1. log' = Append(log, e) BY <1>1
    <2>2. log \in Seq([len : Nat, start : 0 .. Size, lap : Nat])
      BY <1>2 DEF RegionTypeOK
    <2> HIDE DEF e
    <2> QED BY <1>0, <2>1, <2>2
  <1>5. log'[n].len = len /\ log'[n].start = pos /\ log'[n].lap = laps
    BY <1>4
  <1>6. pos \in Nat BY SizeAssumption
  <1> HIDE DEF total, e
  <1>7. total = HeaderSize + len BY DEF total
  <1>8. Wrote(len, pos, laps, total, n)
    BY <1>0, <1>1, <1>3, <1>4, <1>5, <1>7, Zenon DEF Wrote
  <1> QED BY <1>0, <1>1, <1>6, <1>8

\* Records keep their extent, the new one has that of its write.
LEMMA WroteExtents ==
  ASSUME NEW len, NEW pos, NEW laps, NEW total, NEW n,
         Wrote(len, pos, laps, total, n)
  PROVE  /\ Extent(n)' = total
         /\ \A w \in DOMAIN log : Extent(w)' = Extent(w)
  BY DEF Wrote, Extent

\* Saving a read position moves nothing else.
LEMMA ReadPosMoves ==
  ASSUME control \in ControlBlocks, NEW p \in 0 .. Size + HeaderSize - 1,
         control' = update_crc([control EXCEPT !.read_pos = p])
  PROVE  /\ control'.read_pos = p
         /\ control'.write_pos = control.write_pos
         /\ control'.wrap_count = control.wrap_count
  <1> DEFINE c == [control EXCEPT !.read_pos = p]
  <1>1. /\ c \in ControlBlocks
        /\ c.read_pos = p
        /\ c.write_pos = control.write_pos
        /\ c.wrap_count = control.wrap_count
    BY DEF ControlBlocks
  <1>2. control' = update_crc(c) OBVIOUS
  <1> HIDE DEF c
  <1> QED BY <1>1, <1>2, UpdateCrc

\* Write keeps the records of the current lap below the write position, and
\* destroys only records that it passes over: a record of the last lap that
\* is still ahead of the new write position, and every record of the current
\* lap when the ring does not wrap, lies outside the units written.
LEMMA WriteKeepsRecords ==
  ASSUME PInv, NEW len \in Lengths, Write(len)
  PROVE  Placed' /\ Intact'
  <1>1. PICK pos \in Nat, laps \in Nat, total \in Nat, n \in Nat :
           Wrote(len, pos, laps, total, n)
    BY WriteEffect DEF PInv
  <1>2. RegionTypeOK /\ control \in ControlBlocks BY DEF PInv, TypeOK, ControlTypeOK
  <1>3. /\ control.write_pos \in 0 .. Size /\ control.write_pos \in Nat
        /\ control.wrap_count \in Nat
    BY <1>2, SizeAssumption DEF ControlBlocks
  <1>4. control'.write_pos = pos + total /\ control'.wrap_count = laps
    BY <1>1 DEF Wrote
  <1>5. n = Len(log) + 1 BY <1>1 DEF Wrote
  <1>6. /\ Len(log) \in Nat /\ DOMAIN log = 1 .. Len(log)
        /\ DOMAIN log' = 1 .. n
        /\ \A w \in DOMAIN log : log'[w] = log[w]
    BY <1>1, <1>2 DEF Wrote, RegionTypeOK
  <1>7. /\ Extent(n)' = total /\ log'[n].start = pos /\ log'[n].lap = laps
        /\ \A w \in DOMAIN log : Extent(w)' = Extent(w)
    BY <1>1, WroteExtents DEF Wrote
  <1>8. /\ pos \in Nat /\ total \in Nat /\ laps \in Nat /\ Size \in Nat
        /\ pos + total <= Size /\ HeaderSize \in Nat
        /\ \/ pos = control.write_pos /\ laps = control.wrap_count
           \/ pos = 0 /\ laps = control.wrap_count + 1
    BY <1>1, SizeAssumption DEF Wrote
  <1>9. \A w \in DOMAIN log' : w = n \/ w \in DOMAIN log BY <1>6, <1>5
  <1>10. Placed'
    <2> SUFFICES ASSUME NEW w \in DOMAIN log'
                 PROVE  /\ log'[w].start + Extent(w)' <= Size
                        /\ log'[w].lap <= control'.wrap_count
                        /\ log'[w].lap = control'.wrap_count
                             => log'[w].start + Extent(w)' <= control'.write_pos
      BY DEF Placed
    <2>1. CASE w = n BY <1>8, <1>4, <1>7, <2>1
    <2>2. CASE w \in DOMAIN log
      <3>1. /\ log[w].start \in Nat /\ Extent(w) \in Nat /\ log[w].lap \in Nat
        BY <1>2, <2>2, LogType
      <3>2. log'[w] = log[w] /\ Extent(w)' = Extent(w) BY <1>6, <1>7, <2>2
      <3>3. /\ log[w].start + Extent(w) <= Size
            /\ log[w].lap <= control.wrap_count
            /\ log[w].lap = control.wrap_count
                 => log[w].start + Extent(w) <= control.write_pos
        BY <2>2 DEF PInv, Placed
      <3>4. control'.wrap_count = laps /\ control'.write_pos = pos + total BY <1>4
      <3>5. log[w].lap = laps => laps = control.wrap_count /\ pos = control.write_pos
        BY <1>8, <1>3, <3>1, <3>3
      <3>6. log[w].lap = laps => log[w].start + Extent(w) <= pos + total
        BY <1>8, <1>3, <3>1, <3>3, <3>5
      <3>7. log[w].lap <= laps BY <1>8, <1>3, <3>1, <3>3
      <3> QED BY <3>2, <3>3, <3>4, <3>6, <3>7
    <2> QED BY <1>9, <2>1, <2>2
  <1>11. Intact'
    <2> SUFFICES ASSUME NEW w \in DOMAIN log', Live(w)'
                 PROVE  HoldsRecord(log[w].start, w)'
      BY DEF Intact
    <2>1. CASE w = n
      <3> SUFFICES ASSUME NEW k \in 0 .. total - 1
                   PROVE  pos + k \in Offsets /\ cells'[pos + k] = <<n, k>>
        <4>1. \A k \in 0 .. Extent(n)' - 1 :
                 log'[n].start + k \in Offsets /\ cells'[log'[n].start + k] = <<n, k>>
          BY <1>7
        <4> QED BY <2>1, <4>1 DEF HoldsRecord
      <3>1. pos + k \in Offsets /\ pos + k \in pos .. pos + total - 1 /\ (pos + k) - pos = k
        BY <1>8 DEF Offsets
      <3>2. cells'[pos + k] = <<n, (pos + k) - pos>> BY <1>1, <3>1 DEF Wrote
      <3> QED BY <3>1, <3>2
    <2>2. CASE w \in DOMAIN log
      <3>1. /\ log[w].start \in Nat /\ Extent(w) \in Nat /\ log[w].lap \in Nat
            /\ Extent(w) >= HeaderSize
        BY <1>2, <2>2, LogType
      <3>2. log'[w] = log[w] /\ Extent(w)' = Extent(w) BY <1>6, <1>7, <2>2
      <3>3. /\ log[w].lap <= control.wrap_count
            /\ log[w].lap = control.wrap_count
                 => log[w].start + Extent(w) <= control.write_pos
        BY <2>2 DEF PInv, Placed
      <3>4. \/ log[w].lap = laps
            \/ log[w].lap + 1 = laps /\ log[w].start >= pos + total
        BY <1>4, <3>2 DEF Live
      <3>5. \/ log[w].start + Extent(w) <= pos
            \/ log[w].start >= pos + total
        BY <1>8, <1>3, <3>1, <3>3, <3>4
      <3>6. Live(w)
        <4>1. \/ log[w].lap = control.wrap_count
              \/ /\ log[w].lap + 1 = control.wrap_count
                 /\ log[w].start >= control.write_pos
          BY <1>8, <1>3, <3>1, <3>3, <3>4
        <4> QED BY <4>1 DEF Live
      <3>7. HoldsRecord(log[w].start, w)
        <4>1. torn = {} BY DEF PInv, TypeOK, Write, Unlocked
        <4>2. Untorn(w) BY <4>1 DEF Untorn
        <4> QED BY <2>2, <3>6, <4>2 DEF PInv, Intact
      <3> SUFFICES ASSUME NEW k \in 0 .. Extent(w) - 1
                   PROVE  /\ log[w].start + k \in Offsets
                          /\ cells'[log[w].start + k] = <<w, k>>
        BY <3>2 DEF HoldsRecord
      <3>8. log[w].start + k \in Offsets /\ cells[log[w].start + k] = <<w, k>>
        BY <3>7 DEF HoldsRecord
      <3>9. log[w].start + k \notin pos .. pos + total - 1
        BY <1>8, <3>1, <3>5
      <3> QED BY <1>1, <3>8, <3>9 DEF Wrote
    <2> QED BY <1>9, <2>1, <2>2
  <1> QED BY <1>10, <1>11

\* The end of the process inside write leaves the records it has not reached.
LEMMA DieKeepsRecords ==
  ASSUME PInv, NEW len \in Lengths, DieInWrite(len)
  PROVE  Placed' /\ Intact'
  <1>1. /\ log' = log /\ control' = control
        /\ cells' = [i \in Offsets |-> IF i \in torn' THEN Blank ELSE cells[i]]
    BY DEF DieInWrite
  <1>2. \A w : Extent(w)' = Extent(w) BY <1>1 DEF Extent
  <1>3. Placed' BY <1>1, <1>2 DEF PInv, Placed
  <1>4. Intact'
    <2> SUFFICES ASSUME NEW w \in DOMAIN log, Live(w)', Untorn(w)'
                 PROVE  HoldsRecord(log[w].start, w)'
      BY <1>1 DEF Intact
    <2>1. Live(w) BY <1>1 DEF Live
    <2>2. Untorn(w)
      <3>1. torn = {} BY DEF PInv, TypeOK, DieInWrite, Unlocked
      <3> QED BY <3>1 DEF Untorn
    <2>3. HoldsRecord(log[w].start, w) BY <2>1, <2>2 DEF PInv, Intact
    <2> SUFFICES ASSUME NEW k \in 0 .. Extent(w) - 1
                 PROVE  /\ log[w].start + k \in Offsets
                        /\ cells'[log[w].start + k] = <<w, k>>
      BY <1>1, <1>2 DEF HoldsRecord
    <2>4. log[w].start + k \in Offsets /\ cells[log[w].start + k] = <<w, k>>
      BY <2>3 DEF HoldsRecord
    <2>5. log[w].start + k \notin torn'
      <3>1. log'[w].start = log[w].start /\ Extent(w)' = Extent(w)
        BY <1>1, <1>2
      <3>2. \A j \in 0 .. Extent(w)' - 1 : log'[w].start + j \notin torn'
        BY DEF Untorn
      <3> QED BY <3>1, <3>2
    <2> QED BY <1>1, <2>4, <2>5
  <1> QED BY <1>3, <1>4

-----------------------------------------------------------------------------
(* The theorems.                                                           *)

\* Every step keeps the invariant.
LEMMA InvNext == PInv /\ [Next]_vars => PInv'
  <1> SUFFICES ASSUME PInv, [Next]_vars PROVE PInv' OBVIOUS
  <1>0. control \in ControlBlocks /\ Placed /\ Intact
    BY DEF PInv, TypeOK, ControlTypeOK
  <1>1. ASSUME NEW len \in Lengths, Write(len) PROVE PInv'
    BY <1>1, WriteType, WriteKeepsRecords DEF PInv
  <1>2. CASE ReadAllBegin
    <2>1. Placed' /\ Intact' BY <1>0, <1>2, QuietStep DEF ReadAllBegin
    <2> QED BY <1>2, <2>1, ReadAllBeginType DEF PInv
  <1>3. CASE ReadAllStep
    <2>1. Placed' /\ Intact' BY <1>0, <1>3, QuietStep DEF ReadAllStep
    <2> QED BY <1>3, <2>1, ReadAllStepType DEF PInv
  <1>4. CASE ReadAllEnd
    <2>1. current_pos \in 0 .. Size + HeaderSize - 1
      BY DEF PInv, TypeOK, ReadTypeOK
    <2>2. /\ control'.write_pos = control.write_pos
          /\ control'.wrap_count = control.wrap_count
      BY <1>0, <1>4, <2>1, ReadPosMoves DEF ReadAllEnd, SaveControl, ReadAllPos
    <2>5. Placed' /\ Intact' BY <1>0, <1>4, <2>2, QuietStep DEF ReadAllEnd
    <2> QED BY <1>4, <2>5, ReadAllEndType DEF PInv
  <1>5. CASE ResetReadPosition
    <2>1. control.write_pos \in 0 .. Size + HeaderSize - 1
      BY <1>0, SizeAssumption DEF ControlBlocks
    <2>2. /\ control'.write_pos = control.write_pos
          /\ control'.wrap_count = control.wrap_count
      BY <1>0, <1>5, <2>1, ReadPosMoves
         DEF ResetReadPosition, SaveReset, SaveControl
    <2>5. Placed' /\ Intact' BY <1>0, <1>5, <2>2, QuietStep DEF ResetReadPosition
    <2> QED BY <1>5, <2>5, ResetType DEF PInv
  <1>6. CASE Close
    <2>1. Placed' /\ Intact' BY <1>0, <1>6, QuietStep DEF Close
    <2> QED BY <1>6, <2>1, CloseOpenType DEF PInv
  <1>7. CASE Open
    <2>1. control' = control BY <1>7 DEF Open, PInv
    <2>2. Placed' /\ Intact' BY <1>0, <1>7, <2>1, QuietStep DEF Open
    <2> QED BY <1>7, <2>2, CloseOpenType DEF PInv
  <1>8. CASE UNCHANGED vars
    <2>1. Placed' /\ Intact' BY <1>0, <1>8, QuietStep DEF vars
    <2>2. TypeOK'
      BY <1>8 DEF vars, readAllVars, PInv, TypeOK, RegionTypeOK, ControlTypeOK,
                  ReadTypeOK
    <2> QED BY <1>8, <2>1, <2>2 DEF PInv, vars
  <1>9. CASE ReadAllFlushError
    <2>1. current_pos \in 0 .. Size + HeaderSize - 1
      BY DEF PInv, TypeOK, ReadTypeOK
    <2>2. /\ control'.write_pos = control.write_pos
          /\ control'.wrap_count = control.wrap_count
      BY <1>0, <1>9, <2>1, ReadPosMoves DEF ReadAllFlushError, SaveControl, ReadAllPos
    <2>5. Placed' /\ Intact'
      BY <1>0, <1>9, <2>2, QuietStep DEF ReadAllFlushError
    <2> QED BY <1>9, <2>5, ReadAllFlushErrorType DEF PInv
  <1>10. ASSUME NEW len \in Lengths, DieInWrite(len) PROVE PInv'
    BY <1>10, DieInWriteType, DieKeepsRecords DEF PInv
  <1> QED BY <1>1, <1>2, <1>3, <1>4, <1>5, <1>6, <1>7, <1>8, <1>9, <1>10
          DEF Next, ReadAll

\* The inductive invariant holds in every reachable state.
THEOREM Invariance == Spec => []PInv
  BY InvInit, InvNext, PTL DEF Spec

\* The positions stay in their ranges whatever is written and read: the write
\* position inside the data region, the read position less than a header
\* beyond it (persistent.rs 178, 317).
THEOREM TypeCorrect == Spec => []TypeOK
  <1>1. PInv => TypeOK BY DEF PInv
  <1> QED BY <1>1, Invariance, PTL

\* read_at returns every record the ring has not come round to, at the offset
\* where write put it, for every region size and every sequence of lengths;
\* a process that ends inside write costs at most the records in its way.
THEOREM LiveRecordsReadable == Spec => []LiveReadable
  <1>1. PInv => LiveReadable
    BY ReadAtHolds DEF PInv, TypeOK, Intact, LiveReadable
  <1> QED BY <1>1, Invariance, PTL

=============================================================================
