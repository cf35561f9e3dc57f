----------------------- MODULE PersistentCursorProofs -----------------------
(***************************************************************************)
(* Theorems about PersistentCursor: what a cursor returns within a lap,    *)
(* and what readAllLogs hands to the application before the first wrap,    *)
(* whatever other threads write, read and reset between the cursor's       *)
(* accesses, for every size of the region, the header and the payloads.    *)
(***************************************************************************)
EXTENDS PersistentCursor, PersistentLogProofs

\* Every unit lies where its record was written.
CellsPlaced ==
    \A i \in Offsets : cells[i] # Blank =>
        i = log[cells[i][1]].start + cells[i][2]

\* The sequence s followed by what the running read_batch has collected.
With(s) == IF call = "some" THEN Append(s \o batch, found) ELSE s \o batch

Got == With(received)

\* Written in the current lap.
Current(w) == log[w].lap = control.wrap_count

\* Between calls nothing is collected; next() runs for a record still asked
\* for; and a record just found ends where the cursor is.
CallState ==
    /\ call \in {"some", "none"} => remaining > 0
    /\ call \in {"idle", "commit"} => batch = <<>>
    /\ call = "some" => found \in DOMAIN log /\ position.offset = End(found)

\* From its first record of the current lap on, the cursor goes from record to
\* record and stands at the end of the last one; unless at_end is set, another
\* one follows.
Contiguous ==
    position.wrap_count = control.wrap_count =>
        /\ \A j, k \in 1 .. Len(Got) :
              j < k /\ Current(Got[j]) => Current(Got[k])
        /\ \A k \in 1 .. Len(Got) - 1 : Current(Got[k]) => Got[k + 1] = Got[k] + 1
        /\ Len(Got) > 0 /\ Current(Got[Len(Got)]) =>
              /\ position.offset = End(Got[Len(Got)])
              /\ call # "none"
              /\ call # "some" /\ ~at_end => position.offset < control.write_pos

\* Before the first wrap: outside readAllLogs, what was handed out lies below
\* the read position.
HandedBelow ==
    control.wrap_count = 0 /\ client = "free" =>
        \A k \in 1 .. Len(handed) : End(handed[k]) <= control.read_pos

\* Before the first wrap: inside readAllLogs, what was handed out and is being
\* read lies in order below the cursor, which goes from record to record.
HandedInOrder ==
    control.wrap_count = 0 /\ client # "free" =>
        /\ StrictlyIncreasing(With(handed))
        /\ \A k \in 1 .. Len(With(handed)) : End(With(handed)[k]) <= position.offset
        /\ position.wrap_count = 0
        /\ position.offset <= control.write_pos
        /\ Aligned(position.offset)
        /\ call # "none"
        /\ call # "some" /\ ~at_end => position.offset < control.write_pos

ClientState ==
    /\ client = "commit" => call \in {"idle", "commit"}
    /\ client = "read" => call # "commit"

Handing == LogsOncePerThread /\ HandedBelow /\ HandedInOrder /\ ClientState

Own == CursorTypeOK /\ CallState /\ Contiguous

CursorInv == LogInv /\ CellsPlaced /\ Own /\ Handing

-----------------------------------------------------------------------------
(* Facts about sequences and about the steps of the ring.                  *)

\* Concatenation with the empty sequence, and with one that ends in x.
LEMMA ConcatEmpty ==
  ASSUME NEW S, NEW s \in Seq(S)
  PROVE  s \o <<>> = s
  OBVIOUS

LEMMA ConcatAppend ==
  ASSUME NEW S, NEW s \in Seq(S), NEW t \in Seq(S), NEW x \in S
  PROVE  s \o Append(t, x) = Append(s \o t, x)
  <1>1. s \o t \in Seq(S) /\ Len(s \o t) = Len(s) + Len(t) OBVIOUS
  <1>2. /\ s \o Append(t, x) \in Seq(S)
        /\ Len(s \o Append(t, x)) = Len(s) + Len(t) + 1
    OBVIOUS
  <1>3. Len(s \o Append(t, x)) = Len(s \o t) + 1 BY <1>1, <1>2
  <1>4. (s \o Append(t, x))[Len(s \o t) + 1] = x BY <1>1
  <1>5. ASSUME NEW k \in 1 .. Len(s \o t)
        PROVE  (s \o Append(t, x))[k] = (s \o t)[k]
    <2>1. CASE k <= Len(s) BY <1>1, <2>1
    <2>2. CASE ~(k <= Len(s))
      <3>1. k - Len(s) \in 1 .. Len(t) BY <1>1, <2>2
      <3>2. (s \o t)[k] = t[k - Len(s)] BY <1>1, <2>2, <3>1
      <3>3. (s \o Append(t, x))[k] = Append(t, x)[k - Len(s)]
        BY <1>1, <2>2, <3>1
      <3> QED BY <3>1, <3>2, <3>3
    <2> QED BY <2>1, <2>2
  <1> QED BY <1>1, <1>2, <1>3, <1>4, <1>5, AppendIs

\* The elements of a sequence over S are in S.
LEMMA ElementsTyped ==
  ASSUME NEW S, NEW s \in Seq(S)
  PROVE  \A k \in 1 .. Len(s) : s[k] \in S
  OBVIOUS

\* A step of the ring leaves the records written in place and adds at most
\* one; within a lap the write position only grows, and before the first wrap
\* the read position too.
LEMMA RingMoves ==
  ASSUME LogInv, [Next]_vars
  PROVE  /\ Len(log) \in Nat /\ Len(log') \in Nat /\ Len(log) <= Len(log')
         /\ DOMAIN log \subseteq DOMAIN log'
         /\ \A w \in DOMAIN log : log'[w] = log[w] /\ End(w)' = End(w)
         /\ \A w \in DOMAIN log' : \/ w \in DOMAIN log
                                   \/ /\ control'.wrap_count = control.wrap_count
                                      /\ log'[w].start = control.write_pos
                                   \/ control'.wrap_count > control.wrap_count
         /\ control'.wrap_count >= control.wrap_count
         /\ control'.wrap_count = control.wrap_count
               => control'.write_pos >= control.write_pos
         /\ control.wrap_count = 0 => control'.read_pos >= control.read_pos
  <1>1. PInv /\ LayoutInv /\ ReadInv BY DEF LogInv
  <1>2. /\ control.write_pos \in Nat /\ control.read_pos \in Nat
        /\ control.wrap_count \in Nat /\ current_pos \in Nat
        /\ Len(log) \in Nat /\ DOMAIN log = 1 .. Len(log)
    BY <1>1, Numbers
  <1>3. ASSUME NEW len \in Lengths, Write(len)
        PROVE  /\ Len(log') = Len(log) + 1 /\ DOMAIN log' = 1 .. Len(log) + 1
               /\ \A w \in DOMAIN log : log'[w] = log[w] /\ End(w)' = End(w)
               /\ control'.read_pos = control.read_pos
               /\ \/ /\ control'.wrap_count = control.wrap_count
                     /\ control'.write_pos >= control.write_pos
                     /\ log'[Len(log) + 1].start = control.write_pos
                  \/ control'.wrap_count = control.wrap_count + 1
    <2>1. PICK pos \in Nat, laps \in Nat, total \in Nat, n \in Nat :
             Wrote(len, pos, laps, total, n)
      BY <1>1, <1>3, WriteEffect DEF PInv
    <2>2. \A w \in DOMAIN log : log'[w] = log[w] /\ End(w)' = End(w)
      <3>1. \A w \in DOMAIN log : log'[w] = log[w] BY <2>1 DEF Wrote
      <3>2. \A w \in DOMAIN log : Extent(w)' = Extent(w) BY <2>1, WroteExtents
      <3> QED BY <3>1, <3>2 DEF End
    <2>3. /\ \/ pos = control.write_pos /\ laps = control.wrap_count
             \/ pos = 0 /\ laps = control.wrap_count + 1
          /\ control'.write_pos = pos + total /\ control'.wrap_count = laps
          /\ control'.read_pos = control.read_pos
          /\ n = Len(log) + 1 /\ DOMAIN log' = 1 .. n /\ Len(log') = n
          /\ log'[n].start = pos
      BY <1>2, <2>1 DEF Wrote
    <2> QED BY <1>2, <2>2, <2>3
  <1>4. CASE \E len \in Lengths : Write(len) BY <1>2, <1>3, <1>4
  <1>5. CASE ~\E len \in Lengths : Write(len)
    <2>1. /\ UNCHANGED log
          /\ control'.write_pos = control.write_pos
          /\ control'.wrap_count = control.wrap_count
      BY <1>1, <1>5, OnlyWrites
    <2>2. \A w : End(w)' = End(w) BY <2>1 DEF End, Extent
    <2>3. control.wrap_count = 0 => control'.read_pos >= control.read_pos
      <3>1. CASE ReadAllEnd \/ ReadAllFlushError
        <4>1. control'.read_pos = current_pos /\ reading
          BY <1>1, <3>1, ReadPosSaved DEF ReadAllEnd, ReadAllFlushError
        <4> QED BY <1>1, <1>2, <4>1 DEF ReadInv, Collected
      <3>2. CASE ResetReadPosition
        <4>1. control.write_pos \in 0 .. Size + HeaderSize - 1
          BY <1>1, Numbers, SizeAssumption
        <4>2. control'.read_pos = control.write_pos
          BY <1>1, <3>2, <4>1, Numbers, ReadPosMoves
             DEF ResetReadPosition, SaveReset, SaveControl
        <4> QED BY <1>1, <1>2, <4>2 DEF ReadInv, FirstLap
      <3>3. CASE control' = control BY <1>2, <3>3
      <3>4. CASE Open BY <1>1, <1>2, <3>4 DEF Open, PInv
      <3>5. \/ ReadAllEnd \/ ReadAllFlushError \/ ResetReadPosition \/ Open
            \/ control' = control
        BY <1>5 DEF Next, ReadAll, ReadAllBegin, ReadAllStep, Close, DieInWrite,
                    vars
      <3> QED BY <3>1, <3>2, <3>3, <3>4, <3>5
    <2> QED BY <1>2, <2>1, <2>2, <2>3
  <1> QED BY <1>4, <1>5

\* Units stay where their records were written.
LEMMA CellsNext ==
  ASSUME PInv, CellsPlaced, [Next]_vars
  PROVE  CellsPlaced'
  <1>1. ASSUME NEW len \in Lengths, Write(len) PROVE CellsPlaced'
    <2>1. PICK pos \in Nat, laps \in Nat, total \in Nat, n \in Nat :
             Wrote(len, pos, laps, total, n)
      BY <1>1, WriteEffect DEF PInv
    <2>2. /\ \A i \in Offsets : \/ cells'[i] = <<n, i - pos>>
                                \/ cells'[i] = cells[i]
          /\ \A w \in DOMAIN log : log'[w] = log[w]
          /\ log'[n].start = pos
      BY <2>1, Numbers DEF Wrote
    <2>3. \A i \in Offsets : cells[i] # Blank => cells[i][1] \in DOMAIN log
      BY DEF PInv, TypeOK, RegionTypeOK
    <2> SUFFICES ASSUME NEW i \in Offsets, cells'[i] # Blank
                 PROVE  i = log'[cells'[i][1]].start + cells'[i][2]
      BY DEF CellsPlaced
    <2>4. i \in Nat BY SizeAssumption DEF Offsets
    <2>5. CASE cells'[i] = <<n, i - pos>> BY <2>2, <2>4, <2>5
    <2>6. CASE cells'[i] = cells[i] BY <2>2, <2>3, <2>6 DEF CellsPlaced
    <2> QED BY <2>2, <2>5, <2>6
  <1>2. ASSUME NEW len \in Lengths, DieInWrite(len) PROVE CellsPlaced'
    <2>1. /\ log' = log
          /\ \A i \in Offsets : cells'[i] = Blank \/ cells'[i] = cells[i]
      BY <1>2 DEF DieInWrite
    <2> QED BY <2>1 DEF CellsPlaced
  <1>3. CASE ~\E len \in Lengths : Write(len) \/ DieInWrite(len)
    <2>1. UNCHANGED <<cells, log>>
      BY <1>3 DEF Next, ReadAll, ReadAllBegin, ReadAllStep, ReadAllEnd,
                  ReadAllFlushError, ResetReadPosition, Close, Open, vars
    <2> QED BY <2>1 DEF CellsPlaced
  <1> QED BY <1>1, <1>2, <1>3

\* A record that read_at returns starts where it was read.
LEMMA ReadPlace ==
  ASSUME PInv, CellsPlaced, NEW p \in Nat, NEW r \in ReadAt(p), r.kind = "Some"
  PROVE  /\ r.rec \in DOMAIN log /\ r.rec \in 1 .. Len(log)
         /\ log[r.rec].start = p
         /\ p + Extent(r.rec) = End(r.rec)
         /\ End(r.rec) <= Size
  <1>1. RegionTypeOK BY DEF PInv, TypeOK
  <1>2. /\ r.rec \in DOMAIN log /\ r.rec \in 1 .. Len(log)
        /\ HoldsRecord(p, r.rec)
        /\ Extent(r.rec) \in Nat /\ Extent(r.rec) >= HeaderSize
    <2>1. r.rec \in 1 .. Len(log) /\ HoldsRecord(p, r.rec) BY <1>1, ReadAtSome
    <2>2. r.rec \in DOMAIN log BY <2>1, Numbers
    <2> QED BY <1>1, <2>1, <2>2, LogType
  <1>3. p \in Offsets /\ cells[p] = <<r.rec, 0>>
    <2>1. 0 \in 0 .. Extent(r.rec) - 1 BY <1>2, SizeAssumption
    <2>2. p + 0 \in Offsets /\ cells[p + 0] = <<r.rec, 0>>
      BY <1>2, <2>1 DEF HoldsRecord
    <2> QED BY <2>2
  <1>4. cells[p] # Blank BY <1>2, <1>3, BlankAssumption
  <1>5. p = log[r.rec].start + 0 BY <1>3, <1>4 DEF CellsPlaced
  <1>6. log[r.rec].start = p BY <1>2, <1>5, Numbers
  <1>7. End(r.rec) <= Size BY <1>2 DEF PInv, Placed, End
  <1> QED BY <1>2, <1>6, <1>7 DEF End

-----------------------------------------------------------------------------
(* The cursor.                                                             *)

\* The history grows: what was well typed before a step of the ring still is.
LEMMA TypeGrows ==
  ASSUME LogInv, [Next]_vars,
         position' \in [offset : 0 .. Beyond, wrap_count : Nat],
         call' = "some" => position'.offset <= Size,
         at_end' \in BOOLEAN,
         call' \in {"idle", "next", "some", "none", "commit"},
         found' \in 0 .. Len(log), remaining' \in 0 .. MaxBatch,
         batch' \in Seq(1 .. Len(log)), received' \in Seq(1 .. Len(log)),
         client' \in {"free", "read", "commit"}, handed' \in Seq(1 .. Len(log))
  PROVE  CursorTypeOK'
  <1>1. Len(log) \in Nat /\ Len(log') \in Nat /\ Len(log) <= Len(log')
    BY RingMoves
  <1>2. 1 .. Len(log) \subseteq 1 .. Len(log') BY <1>1
  <1>3. /\ batch' \in Seq(1 .. Len(log')) /\ received' \in Seq(1 .. Len(log'))
        /\ handed' \in Seq(1 .. Len(log'))
    BY <1>2, SeqMono
  <1>4. found' \in 0 .. Len(log') BY <1>1
  <1> QED BY <1>3, <1>4 DEF CursorTypeOK, Beyond

\* Types of the sequence that a client has got so far.
LEMMA WithType ==
  ASSUME CursorTypeOK, CallState, NEW s \in Seq(1 .. Len(log))
  PROVE  With(s) \in Seq(1 .. Len(log))
  <1>1. batch \in Seq(1 .. Len(log)) BY DEF CursorTypeOK
  <1>2. s \o batch \in Seq(1 .. Len(log)) BY <1>1
  <1>3. CASE call = "some"
    <2>1. found \in 1 .. Len(log)
      BY <1>3 DEF CallState, CursorTypeOK
    <2> QED BY <1>2, <1>3, <2>1 DEF With
  <1> QED BY <1>2, <1>3 DEF With

\* What the proofs use of the types of a cursor.
LEMMA CursorNumbers ==
  ASSUME CursorInv
  PROVE  /\ PInv /\ LayoutInv /\ ReadInv
         /\ position.offset \in Nat /\ position.wrap_count \in Nat
         /\ position \in [offset : 0 .. Beyond, wrap_count : Nat]
         /\ control.wrap_count \in Nat /\ control.write_pos \in Nat
         /\ control.read_pos \in Nat /\ Beyond \in Nat
         /\ DOMAIN log = 1 .. Len(log) /\ Len(log) \in Nat
         /\ received \in Seq(1 .. Len(log)) /\ batch \in Seq(1 .. Len(log))
         /\ handed \in Seq(1 .. Len(log)) /\ handed \in Seq(Nat)
         /\ Got \in Seq(1 .. Len(log)) /\ With(handed) \in Seq(1 .. Len(log))
         /\ \A k \in 1 .. Len(Got) : Got[k] \in DOMAIN log
         /\ \A k \in 1 .. Len(With(handed)) : With(handed)[k] \in DOMAIN log
         /\ \A k \in 1 .. Len(handed) : handed[k] \in DOMAIN log
  <1>1. PInv /\ LayoutInv /\ ReadInv /\ CursorTypeOK /\ CallState
    BY DEF CursorInv, Own, LogInv
  <1>2. /\ control.wrap_count \in Nat /\ control.write_pos \in Nat
        /\ control.read_pos \in Nat
        /\ DOMAIN log = 1 .. Len(log) /\ Len(log) \in Nat
    BY <1>1, Numbers
  <1>3. Beyond \in Nat BY SizeAssumption DEF Beyond
  <1>4. /\ position \in [offset : 0 .. Beyond, wrap_count : Nat]
        /\ received \in Seq(1 .. Len(log)) /\ batch \in Seq(1 .. Len(log))
        /\ handed \in Seq(1 .. Len(log))
    BY <1>1 DEF CursorTypeOK
  <1>5. position.offset \in Nat /\ position.wrap_count \in Nat BY <1>3, <1>4
  <1>6. Got \in Seq(1 .. Len(log)) /\ With(handed) \in Seq(1 .. Len(log))
    BY <1>1, <1>4, WithType DEF Got
  <1>7. 1 .. Len(log) \subseteq Nat BY <1>2
  <1>8. handed \in Seq(Nat) BY <1>4, <1>7, SeqMono
  <1>9. /\ \A k \in 1 .. Len(Got) : Got[k] \in 1 .. Len(log)
        /\ \A k \in 1 .. Len(With(handed)) : With(handed)[k] \in 1 .. Len(log)
        /\ \A k \in 1 .. Len(handed) : handed[k] \in 1 .. Len(log)
    BY <1>4, <1>6, ElementsTyped
  <1> QED BY <1>1, <1>2, <1>3, <1>4, <1>5, <1>6, <1>8, <1>9

\* The numbers alone.
LEMMA CursorScalars ==
  ASSUME CursorInv
  PROVE  /\ position.offset \in Nat /\ position.wrap_count \in Nat
         /\ control.wrap_count \in Nat /\ control.write_pos \in Nat
         /\ control.read_pos \in Nat
  BY CursorNumbers

\* A step that leaves the cursor where it is and what it has returned and
\* collected.
LEMMA SameGot ==
  ASSUME CursorInv, [Next]_vars, position' = position, Got' = Got,
         call' = "none" => call = "none",
         /\ position.wrap_count = control.wrap_count
         /\ Len(Got) > 0 /\ Current(Got[Len(Got)])
         /\ call' # "some" /\ ~at_end'
         => position.offset < control.write_pos
  PROVE  Contiguous'
  <1> SUFFICES ASSUME position.wrap_count = control'.wrap_count
               PROVE  Contiguous'
    BY DEF Contiguous
  <1>1. /\ \A w \in DOMAIN log : log'[w] = log[w] /\ End(w)' = End(w)
        /\ control'.wrap_count >= control.wrap_count
        /\ control'.wrap_count = control.wrap_count
              => control'.write_pos >= control.write_pos
    BY RingMoves DEF CursorInv
  <1>2. /\ control.wrap_count \in Nat /\ position.wrap_count \in Nat
        /\ control.write_pos \in Nat /\ position.offset \in Nat
        /\ \A k \in 1 .. Len(Got) : Got[k] \in DOMAIN log
        /\ Got \in Seq(1 .. Len(log))
    BY CursorNumbers
  <1>3. control'.write_pos \in Nat
    <2>1. LogInv' BY LogNext DEF CursorInv
    <2> QED BY <2>1, SizeAssumption
            DEF LogInv, PInv, TypeOK, ControlTypeOK, ControlBlocks
  <1>wraps. CASE control'.wrap_count > control.wrap_count
    <2>1. \A w \in DOMAIN log : log[w].lap \in Nat /\ log[w].lap <= control.wrap_count
      BY CursorNumbers, Numbers
    <2>2. ASSUME NEW w \in DOMAIN log PROVE ~Current(w)'
      <3>1. log'[w].lap = log[w].lap BY <1>1
      <3>2. log[w].lap # control'.wrap_count BY <1>2, <1>wraps, <2>1
      <3> QED BY <3>1, <3>2 DEF Current
    <2>3. \A k \in 1 .. Len(Got') : ~Current(Got[k])' BY <1>2, <2>2
    <2>4. Len(Got') > 0 => Len(Got') \in 1 .. Len(Got') BY <1>2
    <2>5. \A k \in 1 .. Len(Got') - 1 : k \in 1 .. Len(Got') BY <1>2
    <2> QED BY <2>3, <2>4, <2>5 DEF Contiguous
  <1> SUFFICES ASSUME ~(control'.wrap_count > control.wrap_count)
               PROVE  Contiguous'
    BY <1>wraps
  <1>4. /\ control'.wrap_count = control.wrap_count
        /\ position.wrap_count = control.wrap_count
        /\ control'.write_pos >= control.write_pos
    BY <1>1, <1>2
  <1>5. \A w \in DOMAIN log : Current(w)' <=> Current(w)
    BY <1>1, <1>4 DEF Current
  <1>6. /\ \A j, k \in 1 .. Len(Got) :
              j < k /\ Current(Got[j]) => Current(Got[k])
        /\ \A k \in 1 .. Len(Got) - 1 : Current(Got[k]) => Got[k + 1] = Got[k] + 1
        /\ Len(Got) > 0 /\ Current(Got[Len(Got)]) =>
              /\ position.offset = End(Got[Len(Got)])
              /\ call # "none"
    BY <1>4 DEF CursorInv, Own, Contiguous
  <1>7. ASSUME Len(Got) > 0, Current(Got[Len(Got)])'
        PROVE  /\ position.offset = End(Got[Len(Got)])'
               /\ call' # "none"
               /\ call' # "some" /\ ~at_end' => position.offset < control'.write_pos
    <2>1. PICK w \in DOMAIN log : w = Got[Len(Got)] BY <1>2, <1>7
    <2>2. Current(w)' /\ w = Got'[Len(Got')] BY <1>7, <2>1
    <2>3. Current(w) BY <1>5, <2>2
    <2>4. position.offset = End(w) /\ call # "none" BY <1>6, <1>7, <2>1, <2>3
    <2>5. End(w)' = End(w) BY <1>1
    <2>6. call' # "some" /\ ~at_end' => position.offset < control.write_pos
      BY <1>4, <1>7, <2>1, <2>3
    <2>7. call' # "some" /\ ~at_end' => position.offset < control'.write_pos
      BY <1>2, <1>4, <1>3, <2>6
    <2> QED BY <2>1, <2>4, <2>5, <2>7
  <1>8. \A j, k \in 1 .. Len(Got) :
           j < k /\ Current(Got[j])' => Current(Got[k])'
    BY <1>2, <1>5, <1>6
  <1>9. \A k \in 1 .. Len(Got) - 1 : Current(Got[k])' => Got[k + 1] = Got[k] + 1
    <2> TAKE k \in 1 .. Len(Got) - 1
    <2>1. k \in 1 .. Len(Got) BY <1>2
    <2> QED BY <1>2, <1>5, <1>6, <2>1
  <1> QED BY <1>7, <1>8, <1>9 DEF Contiguous

\* Where a record of the current lap ends below the write position, the next
\* one written starts, and read_at returns it.
LEMMA FollowRead ==
  ASSUME PInv, LayoutInv, status = "open", NEW v \in DOMAIN log, Current(v),
         End(v) < control.write_pos
  PROVE  /\ v + 1 \in DOMAIN log /\ Current(v + 1)
         /\ ReadAt(End(v)) = {Some(v + 1)}
  <1>1. /\ DOMAIN log = 1 .. Len(log) /\ Len(log) \in Nat
        /\ \A w \in DOMAIN log :
              /\ w \in Nat /\ log[w].start \in Nat /\ log[w].lap \in Nat
              /\ End(w) \in Nat /\ log[w].start < End(w)
    BY Numbers
  <1>2. PICK w \in DOMAIN log : /\ log[w].lap = control.wrap_count
                                /\ log[w].start <= End(v) /\ End(v) < End(w)
    BY <1>1, UnitBelow DEF LayoutInv
  <1>3. v < w
    <2>1. w < v => \/ log[w].lap < log[v].lap
                   \/ log[w].lap = log[v].lap /\ End(w) <= log[v].start
      BY DEF LayoutInv, LogOrdered
    <2> QED BY <1>1, <1>2, <2>1 DEF Current
  <1>4. log[w].start = End(v)
    <2>1. \/ log[v].lap < log[w].lap
          \/ log[v].lap = log[w].lap /\ End(v) <= log[w].start
      BY <1>3 DEF LayoutInv, LogOrdered
    <2> QED BY <1>1, <1>2, <2>1 DEF Current
  <1>5. w = v + 1
    <2> SUFFICES ASSUME w # v + 1 PROVE FALSE OBVIOUS
    <2>1. PICK u \in DOMAIN log : u = v + 1 BY <1>1, <1>3
    <2>2. v < u /\ u < w BY <1>1, <1>3, <2>1
    <2>3. /\ \/ log[v].lap < log[u].lap
             \/ log[v].lap = log[u].lap /\ End(v) <= log[u].start
          /\ \/ log[u].lap < log[w].lap
             \/ log[u].lap = log[w].lap /\ End(u) <= log[w].start
      BY <2>2 DEF LayoutInv, LogOrdered
    <2> QED BY <1>1, <1>2, <1>4, <2>3 DEF Current
  <1>6. HoldsRecord(log[w].start, w) BY <1>2, OpenUntorn DEF PInv, Intact, Live
  <1>7. ReadAt(log[w].start) = {Some(w)}
    BY <1>6, ReadAtHolds DEF PInv, TypeOK
  <1> QED BY <1>2, <1>4, <1>5, <1>7 DEF Current

\* So next() returns it to a cursor of the current lap.
LEMMA ReadFollows ==
  ASSUME CursorInv, call = "next", ~at_end, status = "open",
         position.wrap_count = control.wrap_count,
         Len(Got) > 0, Current(Got[Len(Got)]),
         NEW r \in ReadAt(position.offset)
  PROVE  /\ r.kind = "Some" /\ r.rec = Got[Len(Got)] + 1
         /\ Current(r.rec)
  <1>1. /\ PInv /\ LayoutInv /\ Got \in Seq(1 .. Len(log))
        /\ \A k \in 1 .. Len(Got) : Got[k] \in DOMAIN log
    BY CursorNumbers
  <1>2. PICK v \in DOMAIN log : v = Got[Len(Got)] BY <1>1
  <1>3. position.offset = End(v) /\ position.offset < control.write_pos
    BY <1>2 DEF CursorInv, Own, Contiguous
  <1>4. /\ ReadAt(End(v)) = {Some(v + 1)} /\ Current(v + 1)
    BY <1>1, <1>2, <1>3, FollowRead
  <1>5. r = Some(v + 1) BY <1>3, <1>4
  <1> QED BY <1>2, <1>4, <1>5 DEF Some

\* A record is added to what the cursor's client has got.
LEMMA AddGot ==
  ASSUME CursorInv, UNCHANGED vars, NEW w \in DOMAIN log, Got' = Append(Got, w),
         position'.wrap_count = position.wrap_count,
         position'.offset = End(w), call' = "some",
         /\ position.wrap_count = control.wrap_count
         /\ Len(Got) > 0 /\ Current(Got[Len(Got)])
         => w = Got[Len(Got)] + 1 /\ Current(w)
  PROVE  Contiguous'
  <1> SUFFICES ASSUME position.wrap_count = control.wrap_count
               PROVE  Contiguous'
    BY DEF Contiguous, vars
  <1>1. /\ Got \in Seq(1 .. Len(log)) /\ DOMAIN log = 1 .. Len(log)
        /\ \A k \in 1 .. Len(Got) : Got[k] \in DOMAIN log
    BY CursorNumbers
  <1>2. PICK n \in Nat : n = Len(Got) BY <1>1
  <1>3. /\ Len(Got') = n + 1 /\ Got'[n + 1] = w
        /\ \A k \in 1 .. n : Got'[k] = Got[k]
    BY <1>1, <1>2
  <1>4. /\ \A j, k \in 1 .. n : j < k /\ Current(Got[j]) => Current(Got[k])
        /\ \A k \in 1 .. n - 1 : Current(Got[k]) => Got[k + 1] = Got[k] + 1
    BY <1>2 DEF CursorInv, Own, Contiguous
  <1>5. \A v : /\ Current(v)' <=> Current(v)
               /\ End(v)' = End(v)
    BY DEF Current, End, Extent, vars
  <1>6. \A k \in 1 .. n : Current(Got[k]) => Current(Got[n])
    <2> TAKE k \in 1 .. n
    <2>1. CASE k = n BY <2>1
    <2>2. CASE k # n
      <3>1. n \in 1 .. n /\ k < n BY <1>2, <2>2
      <3> QED BY <1>4, <3>1
    <2> QED BY <2>1, <2>2
  <1>7. n > 0 /\ Current(Got[n]) => w = Got[n] + 1 /\ Current(w) BY <1>2
  <1>8. ASSUME NEW j \in 1 .. n + 1, NEW k \in 1 .. n + 1, j < k,
               Current(Got'[j])
        PROVE  Current(Got'[k])
    <2>1. j \in 1 .. n /\ Current(Got[j]) BY <1>2, <1>3, <1>8
    <2>2. CASE k \in 1 .. n BY <1>3, <1>4, <1>8, <2>1, <2>2
    <2>3. CASE k = n + 1
      <3>1. n > 0 /\ Current(Got[n]) BY <1>2, <1>6, <2>1
      <3> QED BY <1>3, <1>7, <2>3, <3>1
    <2> QED BY <1>2, <2>2, <2>3
  <1>9. ASSUME NEW k \in 1 .. n, Current(Got'[k])
        PROVE  Got'[k + 1] = Got'[k] + 1
    <2>1. Current(Got[k]) BY <1>3, <1>9
    <2>2. CASE k \in 1 .. n - 1
      <3>1. k + 1 \in 1 .. n BY <1>2, <2>2
      <3> QED BY <1>3, <1>4, <2>1, <2>2, <3>1
    <2>3. CASE k = n
      <3>1. n > 0 BY <1>2, <2>3
      <3> QED BY <1>3, <1>7, <2>1, <2>3, <3>1
    <2> QED BY <1>2, <2>2, <2>3
  <1>10. \A j, k \in 1 .. Len(Got') :
            j < k /\ Current(Got[j])' => Current(Got[k])'
    BY <1>3, <1>5, <1>8
  <1>11. \A k \in 1 .. Len(Got') - 1 :
            Current(Got[k])' => Got'[k + 1] = Got'[k] + 1
    BY <1>2, <1>3, <1>5, <1>9
  <1>12. position'.offset = End(Got[Len(Got)])'
    BY <1>3, <1>5
  <1> QED BY <1>10, <1>11, <1>12 DEF Contiguous

\* The type of what a step makes of the client.
ClientStep == /\ client' \in {"free", "read", "commit"}
              /\ handed' \in Seq(1 .. Len(log))

\* Steps of other threads.
LEMMA RingOwn ==
  ASSUME CursorInv, [Next]_vars, UNCHANGED cursorVars, ClientStep
  PROVE  Own'
  <1>1. /\ position' = position /\ at_end' = at_end /\ call' = call
        /\ found' = found /\ remaining' = remaining /\ batch' = batch
        /\ received' = received
    BY DEF cursorVars
  <1>2. CursorTypeOK /\ CallState /\ Contiguous /\ LogInv BY DEF CursorInv, Own
  <1>3. CursorTypeOK'
    BY <1>1, <1>2, TypeGrows DEF CursorTypeOK, ClientStep
  <1>4. CallState'
    <2>1. call = "some" => /\ found \in DOMAIN log'
                           /\ position.offset = End(found)'
      BY <1>1, <1>2, RingMoves DEF CallState
    <2> QED BY <1>1, <1>2, <2>1 DEF CallState
  <1>5. Contiguous'
    <2>1. Got' = Got BY <1>1 DEF Got, With
    <2> QED BY <1>1, <1>2, <2>1, SameGot DEF Contiguous
  <1> QED BY <1>3, <1>4, <1>5 DEF Own

\* Calls of the cursor that leave the ring alone: the parts of Own to show.
LEMMA CursorOwn ==
  ASSUME CursorInv, UNCHANGED vars, Contiguous',
         position' \in [offset : 0 .. Beyond, wrap_count : Nat],
         call' = "some" => /\ position'.offset <= Size
                           /\ found' \in DOMAIN log
                           /\ position'.offset = End(found'),
         at_end' \in BOOLEAN,
         call' \in {"idle", "next", "some", "none", "commit"},
         call' \in {"idle", "commit"} => batch' = <<>>,
         call' \in {"some", "none"} => remaining' > 0,
         found' \in 0 .. Len(log), remaining' \in 0 .. MaxBatch,
         batch' \in Seq(1 .. Len(log)), received' \in Seq(1 .. Len(log)),
         ClientStep
  PROVE  Own'
  <1>1. CursorTypeOK' BY TypeGrows DEF CursorInv, ClientStep
  <1>2. UNCHANGED <<log, control>> BY DEF vars
  <1>3. call' = "some" => found' \in DOMAIN log' /\ position'.offset = End(found)'
    BY <1>2 DEF End, Extent
  <1>4. CallState' BY <1>2, <1>3 DEF CallState
  <1> QED BY <1>1, <1>4 DEF Own

\* Placing the cursor.
LEMMA PlaceOwn ==
  ASSUME CursorInv, ClientStep, call = "idle", NEW pos, NEW end \in BOOLEAN,
         pos \in [offset : 0 .. Beyond, wrap_count : Nat], PlaceAt(pos, end)
  PROVE  Own'
  <1>1. /\ position' = pos /\ at_end' = end /\ call' = "idle"
        /\ found' = found /\ remaining' = remaining /\ batch' = <<>>
        /\ received' = <<>> /\ UNCHANGED vars
    BY DEF PlaceAt, CursorInv, Own, CallState
  <1>2. Got' = <<>> BY <1>1 DEF Got, With
  <1>3. Len(Got') = 0 BY <1>2
  <1>4. Contiguous' BY <1>3 DEF Contiguous
  <1>5. found \in 0 .. Len(log) /\ remaining \in 0 .. MaxBatch
    BY DEF CursorInv, Own, CursorTypeOK
  <1> QED BY <1>1, <1>4, <1>5, CursorOwn

\* Calling read_batch.
LEMMA ReadBatchOwn ==
  ASSUME CursorInv, ClientStep, ReadBatch
  PROVE  Own'
  <1>1. /\ call = "idle" /\ call' = "next" /\ batch = <<>> /\ batch' = <<>>
        /\ remaining' \in 0 .. MaxBatch
        /\ position' = position /\ at_end' = at_end /\ found' = found
        /\ received' = received /\ UNCHANGED vars
    BY MaxBatchAssumption DEF ReadBatch, CursorInv, Own, CallState
  <1>2. Got' = Got BY <1>1 DEF Got, With
  <1>3. Contiguous' BY <1>1, <1>2, SameGot DEF CursorInv, Own, Contiguous
  <1>4. /\ found \in 0 .. Len(log) /\ at_end \in BOOLEAN
    BY DEF CursorInv, Own, CursorTypeOK
  <1> QED BY <1>1, <1>3, <1>4, CursorNumbers, CursorOwn

\* read_batch returns.
LEMMA ReturnOwn ==
  ASSUME CursorInv, ClientStep, ReadBatchReturn
  PROVE  Own'
  <1>1. /\ call = "next" /\ call' = "idle" /\ batch' = <<>>
        /\ received' = received \o batch
        /\ position' = position /\ at_end' = at_end /\ found' = found
        /\ remaining' = 0 /\ UNCHANGED vars
    BY DEF ReadBatchReturn
  <1>2. received \in Seq(1 .. Len(log)) /\ batch \in Seq(1 .. Len(log))
    BY CursorNumbers
  <1>3. received \o batch \in Seq(1 .. Len(log)) BY <1>2
  <1>4. Got' = Got
    <2>1. Got = received \o batch BY <1>1 DEF Got, With
    <2>2. Got' = (received \o batch) \o <<>> BY <1>1 DEF Got, With
    <2> QED BY <1>3, <2>1, <2>2, ConcatEmpty
  <1>5. Contiguous' BY <1>1, <1>4, SameGot DEF CursorInv, Own, Contiguous
  <1>6. /\ found \in 0 .. Len(log) /\ at_end \in BOOLEAN
        /\ remaining' \in 0 .. MaxBatch
    BY <1>1, MaxBatchAssumption DEF CursorInv, Own, CursorTypeOK
  <1> QED BY <1>1, <1>3, <1>5, <1>6, CursorNumbers, CursorOwn

\* What a read_at of next() does, case by case.
ReadSome(w) ==
    /\ w \in DOMAIN log /\ log[w].start = position.offset
    /\ found' = w /\ call' = "some" /\ batch' = batch /\ remaining' = remaining
    /\ position'.offset = End(w)
    /\ position'.wrap_count = position.wrap_count
    /\ position' \in [offset : 0 .. Beyond, wrap_count : Nat]
    /\ End(w) <= Size

ReadNone ==
    /\ found' = found /\ call' = "none" /\ batch' = batch
    /\ remaining' = remaining
    /\ position'.wrap_count = position.wrap_count
    /\ position' \in [offset : 0 .. Beyond, wrap_count : Nat]

ReadError ==
    /\ found' = found /\ call' = "idle" /\ batch' = <<>> /\ remaining' = 0
    /\ position' = position

\* The record, the gap or the error of a read_at.
LEMMA ReadCases ==
  ASSUME CursorInv, NextRead
  PROVE  /\ UNCHANGED vars /\ UNCHANGED <<at_end, received>>
         /\ call = "next" /\ ~at_end /\ remaining > 0 /\ status = "open"
         /\ \E r \in ReadAt(position.offset) :
               \/ r.kind = "Some" /\ ReadSome(r.rec)
               \/ r.kind = "None" /\ ReadNone
               \/ r.kind = "Err" /\ ReadError
  <1>1. /\ PInv /\ CellsPlaced /\ position.offset \in Nat
        /\ position.wrap_count \in Nat /\ Beyond \in Nat
        /\ position \in [offset : 0 .. Beyond, wrap_count : Nat]
    BY CursorNumbers DEF CursorInv
  <1>2. PICK r \in ReadAt(position.offset) :
          \/ /\ r.kind = "Some"
             /\ found' = r.rec
             /\ position' = [position EXCEPT !.offset = Advance(r.rec)]
             /\ call' = "some"
             /\ UNCHANGED <<batch, remaining>>
          \/ /\ r.kind = "None"
             /\ position' = [position EXCEPT !.offset = Saturate(@ + HeaderSize)]
             /\ call' = "none"
             /\ UNCHANGED <<found, batch, remaining>>
          \/ /\ r.kind = "Err"
             /\ call' = "idle"
             /\ batch' = <<>>
             /\ remaining' = 0
             /\ UNCHANGED <<found, position>>
    BY DEF NextRead
  <1>3. CASE /\ r.kind = "Some"
             /\ found' = r.rec
             /\ position' = [position EXCEPT !.offset = Advance(r.rec)]
             /\ call' = "some"
             /\ UNCHANGED <<batch, remaining>>
    <2>1. PICK w \in DOMAIN log :
             /\ w = r.rec /\ log[w].start = position.offset
             /\ position.offset + Extent(w) = End(w) /\ End(w) <= Size
      BY <1>1, <1>3, ReadPlace
    <2>2. Advance(r.rec) = End(w) BY <2>1 DEF Advance
    <2>3. End(w) \in 0 .. Beyond
      <3>1. End(w) \in Nat BY <1>1, Numbers
      <3> QED BY <2>1, <3>1, SizeAssumption DEF Beyond
    <2>4. /\ position'.offset = End(w)
          /\ position'.wrap_count = position.wrap_count
          /\ position' \in [offset : 0 .. Beyond, wrap_count : Nat]
      BY <1>1, <1>3, <2>2, <2>3
    <2>5. ReadSome(r.rec) BY <1>3, <2>1, <2>4 DEF ReadSome
    <2> QED BY <1>3, <2>5 DEF NextRead
  <1>4. CASE /\ r.kind = "None"
             /\ position' = [position EXCEPT !.offset = Saturate(@ + HeaderSize)]
             /\ call' = "none"
             /\ UNCHANGED <<found, batch, remaining>>
    <2>1. Saturate(position.offset + HeaderSize) \in 0 .. Beyond
      BY <1>1, SizeAssumption DEF Saturate
    <2>2. position' = [position EXCEPT !.offset =
                          Saturate(position.offset + HeaderSize)]
      BY <1>1, <1>4
    <2>3. /\ position'.wrap_count = position.wrap_count
          /\ position' \in [offset : 0 .. Beyond, wrap_count : Nat]
      BY <1>1, <2>1, <2>2
    <2>4. ReadNone BY <1>4, <2>3 DEF ReadNone
    <2> QED BY <1>4, <2>4 DEF NextRead
  <1>5. CASE /\ r.kind = "Err"
             /\ call' = "idle"
             /\ batch' = <<>>
             /\ remaining' = 0
             /\ UNCHANGED <<found, position>>
    <2>1. ReadError BY <1>5 DEF ReadError
    <2> QED BY <1>5, <2>1 DEF NextRead
  <1> QED BY <1>2, <1>3, <1>4, <1>5

\* When nothing that the client has got is of the current lap, nothing is said
\* about the next record.
LEMMA OldGot ==
  ASSUME CursorInv, UNCHANGED vars, Got \in Seq(1 .. Len(log)),
         position'.wrap_count = position.wrap_count,
         position.wrap_count = control.wrap_count
            => ~(Len(Got) > 0 /\ Current(Got[Len(Got)])),
         Len(Got') \in Nat, Len(Got') <= Len(Got),
         \A k \in 1 .. Len(Got') : Got'[k] = Got[k]
  PROVE  Contiguous'
  <1> SUFFICES ASSUME position.wrap_count = control.wrap_count
               PROVE  Contiguous'
    BY DEF Contiguous, vars
  <1>1. PICK n \in Nat : n = Len(Got) OBVIOUS
  <1>2. PICK m \in Nat : m = Len(Got') /\ m <= n BY <1>1
  <1>3. \A j, k \in 1 .. n : j < k /\ Current(Got[j]) => Current(Got[k])
    BY <1>1 DEF CursorInv, Own, Contiguous
  <1>4. \A k \in 1 .. n : ~Current(Got[k])
    <2> TAKE k \in 1 .. n
    <2>1. ~Current(Got[n]) BY <1>1
    <2>2. CASE k = n BY <2>1, <2>2
    <2>3. CASE k # n
      <3>1. n \in 1 .. n /\ k < n BY <2>3
      <3> QED BY <1>3, <2>1, <3>1
    <2> QED BY <2>2, <2>3
  <1>5. \A k \in 1 .. m : ~Current(Got'[k]) BY <1>2, <1>4
  <1>6. \A v : Current(v)' <=> Current(v) BY DEF Current, vars
  <1>7. \A k \in 1 .. Len(Got') : ~Current(Got[k])' BY <1>2, <1>5, <1>6
  <1>8. Len(Got') > 0 => Len(Got') \in 1 .. Len(Got') OBVIOUS
  <1>9. \A k \in 1 .. Len(Got') - 1 : k \in 1 .. Len(Got') OBVIOUS
  <1> QED BY <1>7, <1>8, <1>9 DEF Contiguous

\* One read_at of next().
LEMMA NextReadOwn ==
  ASSUME CursorInv, ClientStep, NextRead
  PROVE  Own'
  <1>1. /\ UNCHANGED vars /\ UNCHANGED <<at_end, received>>
        /\ call = "next" /\ ~at_end /\ remaining > 0 /\ status = "open"
    BY ReadCases
  <1>2. PICK r \in ReadAt(position.offset) :
           \/ r.kind = "Some" /\ ReadSome(r.rec)
           \/ r.kind = "None" /\ ReadNone
           \/ r.kind = "Err" /\ ReadError
    BY ReadCases
  <1>3. /\ Got \in Seq(1 .. Len(log)) /\ DOMAIN log = 1 .. Len(log)
        /\ received \in Seq(1 .. Len(log)) /\ batch \in Seq(1 .. Len(log))
        /\ Got = received \o batch
    BY <1>1, CursorNumbers DEF Got, With
  <1>4. /\ found \in 0 .. Len(log) /\ at_end \in BOOLEAN
        /\ remaining \in 0 .. MaxBatch
    BY DEF CursorInv, Own, CursorTypeOK
  <1>5. CASE r.kind = "Some" /\ ReadSome(r.rec)
    <2>1. PICK w \in DOMAIN log :
            /\ w = r.rec /\ found' = w /\ call' = "some" /\ batch' = batch
            /\ remaining' = remaining
            /\ position'.offset = End(w) /\ End(w) <= Size
            /\ position'.wrap_count = position.wrap_count
            /\ position' \in [offset : 0 .. Beyond, wrap_count : Nat]
      BY <1>5 DEF ReadSome
    <2>2. Got' = Append(Got, w) BY <1>1, <1>3, <2>1 DEF Got, With
    <2>3. /\ position.wrap_count = control.wrap_count
          /\ Len(Got) > 0 /\ Current(Got[Len(Got)])
          => w = Got[Len(Got)] + 1 /\ Current(w)
      BY <1>1, <2>1, ReadFollows
    <2>4. Contiguous' BY <1>1, <2>1, <2>2, <2>3, AddGot
    <2>5. found' \in 0 .. Len(log) BY <1>3, <2>1
    <2> QED BY <1>1, <1>3, <1>4, <2>1, <2>4, <2>5, CursorNumbers, CursorOwn
  <1>6. CASE r.kind = "None" /\ ReadNone
    <2>1. Got' = Got BY <1>1, <1>3, <1>6 DEF Got, With, ReadNone
    <2>2. position.wrap_count = control.wrap_count
             => ~(Len(Got) > 0 /\ Current(Got[Len(Got)]))
      BY <1>1, <1>6, ReadFollows
    <2>3. Contiguous' BY <1>1, <1>3, <1>6, <2>1, <2>2, OldGot DEF ReadNone
    <2> QED BY <1>1, <1>3, <1>4, <1>6, <2>3, CursorNumbers, CursorOwn
            DEF ReadNone
  <1>7. CASE r.kind = "Err" /\ ReadError
    <2>1. Got' = received BY <1>1, <1>3, <1>7, ConcatEmpty DEF Got, With, ReadError
    <2>2. position.wrap_count = control.wrap_count
             => ~(Len(Got) > 0 /\ Current(Got[Len(Got)]))
      BY <1>1, <1>7, ReadFollows
    <2>3. /\ Len(Got') \in Nat /\ Len(Got') <= Len(Got)
          /\ \A k \in 1 .. Len(Got') : Got'[k] = Got[k]
      BY <1>3, <2>1
    <2>4. Contiguous' BY <1>1, <1>3, <1>7, <2>2, <2>3, OldGot DEF ReadError
    <2>5. remaining' \in 0 .. MaxBatch BY <1>7, MaxBatchAssumption DEF ReadError
    <2> QED BY <1>1, <1>3, <1>4, <1>7, <2>4, <2>5, CursorNumbers, CursorOwn
            DEF ReadError
  <1> QED BY <1>2, <1>5, <1>6, <1>7

\* A record found is collected: what the client has got does not change.
LEMMA WithSome ==
  ASSUME CursorInv, NextSome, NEW s \in Seq(1 .. Len(log)), NEW t,
         t = Append(batch, found)
  PROVE  /\ With(s) = s \o t
         /\ found \in 1 .. Len(log) /\ t \in Seq(1 .. Len(log))
  <1>1. /\ call = "some" /\ CallState /\ batch \in Seq(1 .. Len(log))
        /\ DOMAIN log = 1 .. Len(log)
    BY CursorNumbers DEF CursorInv, Own, NextSome
  <1>2. found \in 1 .. Len(log) BY <1>1 DEF CallState
  <1>3. s \o Append(batch, found) = Append(s \o batch, found)
    BY <1>1, <1>2, ConcatAppend
  <1> QED BY <1>1, <1>2, <1>3 DEF With

\* The control block is looked at after a record.
LEMMA NextSomeOwn ==
  ASSUME CursorInv, ClientStep, NextSome
  PROVE  Own'
  <1>1. /\ call = "some" /\ call' = "next" /\ at_end' = AtWritePos(position)
        /\ batch' = Append(batch, found) /\ remaining' = remaining - 1
        /\ position' = position /\ found' = 0 /\ received' = received
        /\ UNCHANGED vars
    BY DEF NextSome
  <1>2. /\ received \in Seq(1 .. Len(log)) /\ batch' \in Seq(1 .. Len(log))
        /\ Got = received \o batch'
    <2>1. received \in Seq(1 .. Len(log)) BY CursorNumbers
    <2> QED BY <1>1, <2>1, WithSome DEF Got
  <1>3. Got' = Got BY <1>1, <1>2 DEF Got, With
  <1>4. at_end' \in BOOLEAN BY <1>1, Zenon DEF AtWritePos
  <1>5. ASSUME position.wrap_count = control.wrap_count,
               Len(Got) > 0, Current(Got[Len(Got)]), ~at_end'
        PROVE  position.offset < control.write_pos
    <2>1. PICK w \in DOMAIN log : w = Got[Len(Got)] BY <1>5, CursorNumbers
    <2>2. position.offset = End(w)
      BY <1>5, <2>1 DEF CursorInv, Own, Contiguous
    <2>3. End(w) <= control.write_pos /\ End(w) \in Nat
      BY <1>5, <2>1, CursorNumbers, Numbers DEF Current
    <2>4. position.offset # control.write_pos BY <1>1, <1>5 DEF AtWritePos
    <2> QED BY <2>2, <2>3, <2>4, CursorNumbers
  <1>6. Contiguous' BY <1>1, <1>3, <1>5, SameGot
  <1>7. /\ found' \in 0 .. Len(log) /\ remaining' \in 0 .. MaxBatch
    <2>1. remaining \in 0 .. MaxBatch /\ remaining > 0
      BY <1>1 DEF CursorInv, Own, CursorTypeOK, CallState
    <2> QED BY <1>1, <2>1, MaxBatchAssumption, CursorNumbers
  <1> QED BY <1>1, <1>2, <1>4, <1>6, <1>7, CursorNumbers, CursorOwn

\* The control block is looked at after a gap.
LEMMA NextNoneOwn ==
  ASSUME CursorInv, ClientStep, NextNone
  PROVE  Own'
  <1>1. /\ call = "none" /\ call' = "next" /\ at_end' = EndAfterGap
        /\ batch' = batch /\ remaining' = remaining
        /\ position' = position /\ found' = found /\ received' = received
        /\ UNCHANGED vars
    BY DEF NextNone
  <1>2. Got' = Got BY <1>1 DEF Got, With
  <1>3. at_end' \in BOOLEAN BY <1>1, Zenon DEF EndAfterGap
  <1>4. Contiguous' BY <1>1, <1>2, SameGot DEF CursorInv, Own, Contiguous
  <1>5. /\ found \in 0 .. Len(log) /\ remaining \in 0 .. MaxBatch
    BY DEF CursorInv, Own, CursorTypeOK
  <1> QED BY <1>1, <1>3, <1>4, <1>5, CursorNumbers, CursorOwn

\* commit checks the position ...
LEMMA CommitCheckOwn ==
  ASSUME CursorInv, ClientStep, CommitCheck
  PROVE  Own'
  <1>1. /\ call = "idle" /\ call' = "commit" /\ at_end' = at_end
        /\ batch' = batch /\ batch = <<>> /\ remaining' = remaining
        /\ position' = position /\ found' = found /\ received' = received
        /\ UNCHANGED vars
    BY DEF CommitCheck, CursorInv, Own, CallState
  <1>2. Got' = Got BY <1>1 DEF Got, With
  <1>3. Contiguous' BY <1>1, <1>2, SameGot DEF CursorInv, Own, Contiguous
  <1>4. /\ found \in 0 .. Len(log) /\ remaining \in 0 .. MaxBatch
        /\ at_end \in BOOLEAN
    BY DEF CursorInv, Own, CursorTypeOK
  <1> QED BY <1>1, <1>3, <1>4, CursorNumbers, CursorOwn

\* ... and resets the read position.
LEMMA CommitResetOwn ==
  ASSUME CursorInv, ClientStep, CommitReset
  PROVE  [Next]_vars /\ Own'
  <1>1. /\ call = "commit" /\ call' = "idle" /\ at_end' = at_end
        /\ batch' = batch /\ batch = <<>> /\ remaining' = remaining
        /\ position' = position /\ found' = found /\ received' = received
    BY DEF CommitReset, CursorInv, Own, CallState
  <1>2. [Next]_vars BY DEF CommitReset, Next
  <1>3. Got' = Got BY <1>1 DEF Got, With
  <1>4. Contiguous'
    BY <1>1, <1>2, <1>3, SameGot DEF CursorInv, Own, Contiguous
  <1>5. CursorTypeOK'
    BY <1>1, <1>2, TypeGrows DEF CursorTypeOK, ClientStep, CursorInv, Own
  <1>6. CallState' BY <1>1 DEF CallState
  <1> QED BY <1>2, <1>4, <1>5, <1>6 DEF Own

\* The positions at which a cursor is placed.
LEMMA PlacesTyped ==
  ASSUME CursorInv
  PROVE  /\ \A o \in 0 .. Beyond, n \in Nat :
               /\ Position(o, n) \in [offset : 0 .. Beyond, wrap_count : Nat]
               /\ Position(o, n).offset = o /\ Position(o, n).wrap_count = n
         /\ control.read_pos \in 0 .. Beyond /\ control.write_pos \in 0 .. Beyond
         /\ control.wrap_count \in Nat /\ 0 \in 0 .. Beyond
  <1>1. control \in ControlBlocks
    BY DEF CursorInv, LogInv, PInv, TypeOK, ControlTypeOK
  <1>2. \A o \in 0 .. Beyond, n \in Nat :
               /\ Position(o, n) \in [offset : 0 .. Beyond, wrap_count : Nat]
               /\ Position(o, n).offset = o /\ Position(o, n).wrap_count = n
    BY DEF Position
  <1> QED BY <1>1, <1>2, SizeAssumption DEF ControlBlocks, Beyond

\* The positions that a client may ask for.
LEMMA PositionsTyped ==
  ASSUME CursorInv, NEW pos \in Positions
  PROVE  pos \in [offset : 0 .. Beyond, wrap_count : Nat]
  <1>1. PICK o \in 0 .. Beyond, n \in 0 .. control.wrap_count + 1 :
           pos = Position(o, n)
    BY DEF Positions
  <1>2. n \in Nat BY PlacesTyped
  <1> QED BY <1>1, <1>2, PlacesTyped

\* Placing a new cursor, also that of readAllLogs.
LEMMA PlaceNewOwn ==
  ASSUME CursorInv, ClientStep, call = "idle", NEW pos,
         pos \in Positions \cup {Position(control.read_pos, control.wrap_count)},
         PlaceAt(pos, AtWritePos(pos))
  PROVE  Own'
  <1>1. pos \in [offset : 0 .. Beyond, wrap_count : Nat]
    BY PlacesTyped, PositionsTyped
  <1>2. AtWritePos(pos) \in BOOLEAN BY Zenon DEF AtWritePos
  <1> QED BY <1>1, <1>2, PlaceOwn

\* seek_to clamps what it is asked for to a place of the current lap, and
\* seek_to_end goes to the write position.
LEMMA SeekOwn ==
  ASSUME CursorInv, ClientStep, SeekTo \/ SeekToEnd
  PROVE  Own'
  <1>1. CASE SeekTo
    <2>1. PICK pos \in Positions :
             PlaceAt(SeekTarget(pos), AtWritePos(SeekTarget(pos)))
      BY <1>1 DEF SeekTo
    <2>2. pos \in [offset : 0 .. Beyond, wrap_count : Nat] BY PositionsTyped
    <2>3. SeekTarget(pos) \in [offset : 0 .. Beyond, wrap_count : Nat]
      BY <2>2, PlacesTyped DEF SeekTarget
    <2>4. AtWritePos(SeekTarget(pos)) \in BOOLEAN BY Zenon DEF AtWritePos
    <2>5. call = "idle" BY <1>1 DEF SeekTo
    <2> QED BY <2>1, <2>3, <2>4, <2>5, PlaceOwn
  <1>2. CASE SeekToEnd
    <2>1. /\ call = "idle"
          /\ PlaceAt(Position(control.write_pos, control.wrap_count), TRUE)
      BY <1>2 DEF SeekToEnd
    <2> QED BY <2>1, PlacesTyped, PlaceOwn
  <1> QED BY <1>1, <1>2

-----------------------------------------------------------------------------
(* What readAllLogs hands out.                                             *)

\* The first lap lasts until the first wrap.
LEMMA FirstLapSteps ==
  ASSUME CursorInv, [Next]_vars
  PROVE  /\ control'.wrap_count = 0 => control.wrap_count = 0
         /\ control'.read_pos \in Nat /\ control'.write_pos \in Nat
  <1>1. LogInv' BY LogNext DEF CursorInv
  <1>2. /\ control'.wrap_count \in Nat /\ control'.read_pos \in Nat
        /\ control'.write_pos \in Nat
    BY <1>1, SizeAssumption DEF LogInv, PInv, TypeOK, ControlTypeOK, ControlBlocks
  <1>3. control'.wrap_count >= control.wrap_count BY RingMoves DEF CursorInv
  <1> QED BY <1>2, <1>3, CursorScalars

\* Steps outside readAllLogs.
LEMMA FreeHanded ==
  ASSUME CursorInv, [Next]_vars, client = "free", client' = "free",
         handed' = handed
  PROVE  Handing'
  <1>1. Handing BY DEF CursorInv
  <1>2. LogsOncePerThread' /\ HandedInOrder' /\ ClientState'
    BY <1>1 DEF Handing, LogsOncePerThread, HandedInOrder, ClientState
  <1>3. HandedBelow'
    <2> SUFFICES ASSUME control'.wrap_count = 0, NEW k \in 1 .. Len(handed)
                 PROVE  End(handed[k])' <= control'.read_pos
      BY DEF HandedBelow
    <2>1. control.wrap_count = 0 BY FirstLapSteps
    <2>2. PICK w \in DOMAIN log : w = handed[k] BY CursorNumbers
    <2>3. End(w) <= control.read_pos BY <1>1, <2>1, <2>2 DEF Handing, HandedBelow
    <2>4. End(w)' = End(w) /\ control'.read_pos >= control.read_pos
      BY <2>1, RingMoves DEF CursorInv
    <2>5. End(w) \in Nat BY CursorNumbers, Numbers
    <2>6. End(w)' <= control'.read_pos
      BY <2>3, <2>4, <2>5, CursorScalars, FirstLapSteps
    <2> QED BY <2>2, <2>6
  <1> QED BY <1>2, <1>3 DEF Handing

\* Steps during readAllLogs that move nothing, by the cursor or by others.
LEMMA BusyHanded ==
  ASSUME CursorInv, [Next]_vars, client # "free", client' # "free",
         LogsOncePerThread', ClientState', position' = position,
         control.wrap_count = 0 => With(handed)' = With(handed),
         control.wrap_count = 0 /\ call' = "none" => call = "none",
         control.wrap_count = 0 /\ call' # "some" /\ ~at_end'
            => position.offset < control.write_pos
  PROVE  Handing'
  <1>1. HandedBelow' BY DEF HandedBelow
  <1>2. HandedInOrder'
    <2> SUFFICES ASSUME control'.wrap_count = 0 PROVE HandedInOrder'
      BY DEF HandedInOrder
    <2>1. control.wrap_count = 0 BY FirstLapSteps
    <2>2. /\ \A w \in DOMAIN log : log'[w] = log[w] /\ End(w)' = End(w)
          /\ \A w \in DOMAIN log' : \/ w \in DOMAIN log
                                    \/ log'[w].start = control.write_pos
          /\ control'.write_pos >= control.write_pos
      BY <2>1, RingMoves DEF CursorInv
    <2>3. /\ StrictlyIncreasing(With(handed))
          /\ \A k \in 1 .. Len(With(handed)) :
                End(With(handed)[k]) <= position.offset
          /\ position.wrap_count = 0
          /\ position.offset <= control.write_pos
          /\ Aligned(position.offset)
          /\ call # "none"
      BY <2>1 DEF CursorInv, Handing, HandedInOrder
    <2>4. \A k \in 1 .. Len(With(handed)) : With(handed)[k] \in DOMAIN log
      BY CursorNumbers
    <2>5. \A k \in 1 .. Len(With(handed)) :
             End(With(handed)[k])' <= position.offset
      BY <2>1, <2>2, <2>3, <2>4
    <2>6. /\ position.offset \in Nat /\ control.write_pos \in Nat
          /\ control'.write_pos \in Nat
      BY CursorNumbers, FirstLapSteps
    <2>7. position.offset <= control'.write_pos BY <2>2, <2>3, <2>6
    <2>8. Aligned(position.offset)'
      <3> SUFFICES ASSUME NEW w \in DOMAIN log'
                   PROVE  \/ End(w)' <= position.offset
                          \/ position.offset <= log'[w].start
        BY DEF Aligned
      <3>1. CASE w \in DOMAIN log BY <2>2, <2>3, <3>1 DEF Aligned
      <3>2. CASE log'[w].start = control.write_pos BY <2>3, <3>2
      <3> QED BY <2>2, <3>1, <3>2
    <2>9. call' # "some" /\ ~at_end' => position.offset < control'.write_pos
      BY <2>1, <2>2, <2>6
    <2>10. StrictlyIncreasing(With(handed))' BY <2>1, <2>3 DEF StrictlyIncreasing
    <2> QED BY <2>1, <2>3, <2>5, <2>7, <2>8, <2>9, <2>10 DEF HandedInOrder
  <1> QED BY <1>1, <1>2 DEF Handing

\* readAllLogs starts at the read position.
LEMMA StartHanded ==
  ASSUME CursorInv, SwiftReadAllLogs
  PROVE  Handing'
  <1>1. /\ client = "free" /\ client' = "read" /\ call' = "idle"
        /\ handed' = handed /\ batch' = <<>> /\ UNCHANGED vars
        /\ position' = Position(control.read_pos, control.wrap_count)
        /\ at_end' = AtWritePos(position')
    BY DEF SwiftReadAllLogs, PlaceAt, CursorInv, Own, CallState
  <1>2. position'.offset = control.read_pos /\ position'.wrap_count = control.wrap_count
    BY <1>1, PlacesTyped
  <1>3. LogsOncePerThread' BY <1>1 DEF CursorInv, Handing, LogsOncePerThread
  <1>4. HandedBelow' /\ ClientState' BY <1>1 DEF HandedBelow, ClientState
  <1>5. HandedInOrder'
    <2> SUFFICES ASSUME control.wrap_count = 0 PROVE HandedInOrder'
      BY <1>1 DEF HandedInOrder, vars
    <2>1. With(handed)' = handed
      <3>1. With(handed)' = handed \o <<>> BY <1>1 DEF With
      <3> QED BY <3>1, ConcatEmpty, CursorNumbers
    <2>2. StrictlyIncreasing(With(handed))'
      BY <2>1 DEF StrictlyIncreasing, CursorInv, Handing, LogsOncePerThread
    <2>3. \A w : End(w)' = End(w) BY <1>1 DEF End, Extent, vars
    <2>4. \A k \in 1 .. Len(handed) : End(handed[k]) <= control.read_pos
      BY <1>1 DEF CursorInv, Handing, HandedBelow
    <2>5. \A k \in 1 .. Len(With(handed)') :
             End(With(handed)[k])' <= position'.offset
      BY <1>2, <2>1, <2>3, <2>4
    <2>6. /\ control.read_pos <= control.write_pos /\ Aligned(control.read_pos)
          /\ control.read_pos \in Nat /\ control.write_pos \in Nat
      BY CursorNumbers DEF ReadInv, FirstLap
    <2>7. Aligned(position.offset)' BY <1>1, <1>2, <2>3, <2>6 DEF Aligned, vars
    <2>8. ~at_end' => control.read_pos # control.write_pos
      BY <1>1, <1>2 DEF AtWritePos
    <2> QED BY <1>1, <1>2, <2>2, <2>5, <2>6, <2>7, <2>8 DEF HandedInOrder, vars
  <1> QED BY <1>3, <1>4, <1>5 DEF Handing

\* Before the first wrap readAllLogs never meets a gap or an error.
LEMMA HandedReads ==
  ASSUME CursorInv, client # "free", control.wrap_count = 0,
         call = "next", ~at_end, status = "open", NEW r \in ReadAt(position.offset)
  PROVE  /\ r.kind = "Some" /\ r.rec \in DOMAIN log
         /\ log[r.rec].start = position.offset
  <1>1. Aligned(position.offset) /\ position.offset < control.write_pos
    BY DEF CursorInv, Handing, HandedInOrder
  <1>2. PICK w \in DOMAIN log :
           log[w].start = position.offset /\ ReadAt(position.offset) = {Some(w)}
    BY <1>1, ReadAligned, CursorNumbers DEF LayoutInv
  <1>3. r = Some(w) BY <1>2
  <1> QED BY <1>2, <1>3 DEF Some

\* Where a record of the first lap ends, no other one is cut.
LEMMA EndAligned ==
  ASSUME PInv, LayoutInv, control.wrap_count = 0, NEW w \in DOMAIN log
  PROVE  Aligned(End(w)) /\ End(w) <= control.write_pos
  <1>1. \A v \in DOMAIN log :
           /\ v \in Nat /\ log[v].start \in Nat /\ log[v].lap \in Nat
           /\ End(v) \in Nat /\ log[v].start < End(v) /\ log[v].lap = 0
           /\ End(v) <= control.write_pos
    BY Numbers
  <1>2. ASSUME NEW v \in DOMAIN log
        PROVE  End(v) <= End(w) \/ End(w) <= log[v].start
    <2>1. v < w => End(v) <= log[w].start
      BY <1>1 DEF LayoutInv, LogOrdered
    <2>2. w < v => End(w) <= log[v].start
      BY <1>1 DEF LayoutInv, LogOrdered
    <2> QED BY <1>1, <2>1, <2>2
  <1> QED BY <1>1, <1>2 DEF Aligned

\* A record found by readAllLogs comes after all that it has handed out.
LEMMA FoundHanded ==
  ASSUME CursorInv, NextRead, client = "read", client' = "read",
         handed' = handed, call' # "idle"
  PROVE  Handing'
  <1>1. /\ UNCHANGED vars /\ call = "next" /\ ~at_end /\ status = "open"
    BY ReadCases
  <1>2. PICK r \in ReadAt(position.offset) :
           \/ r.kind = "Some" /\ ReadSome(r.rec)
           \/ r.kind = "None" /\ ReadNone
           \/ r.kind = "Err" /\ ReadError
    BY ReadCases
  <1>3. LogsOncePerThread' BY DEF CursorInv, Handing, LogsOncePerThread
  <1>4. HandedBelow' BY DEF HandedBelow
  <1>5. ClientState' BY <1>2 DEF ClientState, ReadSome, ReadNone, ReadError
  <1>6. HandedInOrder'
    <2> SUFFICES ASSUME control.wrap_count = 0 PROVE HandedInOrder'
      BY <1>1 DEF HandedInOrder, vars
    <2>1. PICK w \in DOMAIN log :
            /\ w = r.rec /\ log[w].start = position.offset
            /\ found' = w /\ call' = "some" /\ batch' = batch
            /\ position'.offset = End(w)
            /\ position'.wrap_count = position.wrap_count
      BY <1>1, <1>2, HandedReads DEF ReadSome
    <2>2. /\ StrictlyIncreasing(With(handed))
          /\ \A k \in 1 .. Len(With(handed)) :
                End(With(handed)[k]) <= position.offset
          /\ position.wrap_count = 0
      BY DEF CursorInv, Handing, HandedInOrder
    <2>3. PICK s \in Seq(1 .. Len(log)) : s = With(handed) BY CursorNumbers
    <2>4. With(handed)' = Append(s, w)
      <3>1. s = handed \o batch BY <1>1, <2>3 DEF With
      <3> QED BY <2>1, <3>1 DEF With
    <2>5. /\ DOMAIN log = 1 .. Len(log) /\ Len(log) \in Nat /\ PInv /\ LayoutInv
          /\ \A k \in 1 .. Len(s) : s[k] \in DOMAIN log
      BY <2>3, CursorNumbers
    <2>6. \A v \in DOMAIN log :
             /\ v \in Nat /\ log[v].start \in Nat /\ log[v].lap = 0
             /\ End(v) \in Nat /\ log[v].start < End(v)
      BY <2>5, Numbers
    <2>7. ASSUME NEW k \in 1 .. Len(s)
          PROVE  s[k] < w /\ End(s[k]) <= End(w)
      <3>1. PICK v \in DOMAIN log : v = s[k] BY <2>5
      <3>2. End(v) <= log[w].start BY <2>1, <2>2, <2>3, <3>1
      <3>3. w \in DOMAIN log /\ LogOrdered BY <2>1, <2>5 DEF LayoutInv
      <3>4. v < w BY <2>5, <2>6, <3>2, <3>3, PlaceOrder
      <3>5. /\ End(v) \in Nat /\ log[w].start \in Nat
            /\ End(w) \in Nat /\ log[w].start < End(w)
        BY <2>6, <3>3
      <3> QED BY <3>1, <3>2, <3>4, <3>5
    <2>8. s \in Seq(Nat) /\ w \in Nat
      <3>1. 1 .. Len(log) \subseteq Nat BY <2>5
      <3> QED BY <2>6, <3>1, SeqMono
    <2>9. StrictlyIncreasing(Append(s, w))
      BY <2>2, <2>3, <2>7, <2>8, AppendIncreasing
    <2>10. \A v : End(v)' = End(v) BY <1>1 DEF End, Extent, vars
    <2>11. \A k \in 1 .. Len(Append(s, w)) : End(Append(s, w)[k]) <= End(w)
      <3> TAKE k \in 1 .. Len(Append(s, w))
      <3>1. CASE k \in 1 .. Len(s)
        <4>1. Append(s, w)[k] = s[k] BY <2>8, <3>1
        <4> QED BY <2>7, <3>1, <4>1
      <3>2. CASE k = Len(s) + 1
        <4>1. Append(s, w)[k] = w BY <2>8, <3>2
        <4> QED BY <2>6, <4>1
      <3> QED BY <2>8, <3>1, <3>2
    <2>12. Aligned(End(w)) /\ End(w) <= control.write_pos
      BY <2>5, EndAligned
    <2>13. Aligned(position.offset)'
      BY <1>1, <2>1, <2>10, <2>12 DEF Aligned, vars
    <2>14. StrictlyIncreasing(With(handed))' BY <2>4, <2>9 DEF StrictlyIncreasing
    <2>15. \A k \in 1 .. Len(With(handed)') :
              End(With(handed)[k])' <= position'.offset
      BY <2>1, <2>4, <2>10, <2>11
    <2> QED BY <1>1, <2>1, <2>2, <2>12, <2>13, <2>14, <2>15
            DEF HandedInOrder, vars
  <1> QED BY <1>3, <1>4, <1>5, <1>6 DEF Handing

\* readNextRecord returns a record, or nil.
LEMMA ReturnHanded ==
  ASSUME CursorInv, SwiftReadNextReturn
  PROVE  Handing'
  <1>1. /\ client = "read" /\ call' = "idle" /\ client' \in {"read", "commit"}
        /\ handed' = IF control.wrap_count = 0 THEN handed \o batch ELSE handed
    BY DEF SwiftReadNextReturn
  <1>2. ClientState' BY <1>1 DEF ClientState
  <1>3. CASE control.wrap_count # 0
    <2>1. UNCHANGED vars
      <3>1. CASE ReadBatchReturn BY <3>1 DEF ReadBatchReturn
      <3>2. CASE NextRead BY <3>2, ReadCases
      <3> QED BY <3>1, <3>2 DEF SwiftReadNextReturn
    <2>2. LogsOncePerThread' BY <1>1, <1>3 DEF CursorInv, Handing, LogsOncePerThread
    <2>3. control'.wrap_count # 0 BY <1>3, <2>1 DEF vars
    <2> QED BY <1>2, <2>2, <2>3 DEF Handing, HandedBelow, HandedInOrder
  <1>4. CASE control.wrap_count = 0 /\ ReadBatchReturn
    <2>1. /\ UNCHANGED vars /\ position' = position /\ at_end' = at_end
          /\ call = "next" /\ batch' = <<>>
      BY <1>4 DEF ReadBatchReturn
    <2>2. handed \o batch \in Seq(1 .. Len(log))
      BY CursorNumbers
    <2>3. With(handed) = handed \o batch BY <2>1 DEF With
    <2>4. With(handed)' = With(handed)
      <3>1. With(handed)' = (handed \o batch) \o <<>> BY <1>1, <1>4, <2>1 DEF With
      <3> QED BY <2>2, <2>3, <3>1, ConcatEmpty
    <2>5. LogsOncePerThread'
      <3>1. StrictlyIncreasing(With(handed))
        BY <1>1, <1>4 DEF CursorInv, Handing, HandedInOrder
      <3> QED BY <1>1, <1>4, <2>3, <3>1 DEF LogsOncePerThread
    <2>6. ~at_end' => position.offset < control.write_pos
      BY <1>1, <1>4, <2>1 DEF CursorInv, Handing, HandedInOrder
    <2> QED BY <1>1, <1>2, <2>1, <2>4, <2>5, <2>6, BusyHanded
  <1>5. CASE control.wrap_count = 0 /\ NextRead
    <2>1. call = "next" /\ ~at_end /\ status = "open" BY <1>5, ReadCases
    <2>2. PICK r \in ReadAt(position.offset) :
           \/ r.kind = "Some" /\ ReadSome(r.rec)
           \/ r.kind = "None" /\ ReadNone
           \/ r.kind = "Err" /\ ReadError
      BY <1>5, ReadCases
    <2>3. r.kind = "Some" BY <1>1, <1>5, <2>1, HandedReads
    <2>4. call' = "some" BY <2>2, <2>3 DEF ReadSome
    <2> QED BY <1>1, <2>4
  <1> QED BY <1>3, <1>4, <1>5 DEF SwiftReadNextReturn

\* commitCursor leaves what was handed out below the read position.
LEMMA CommitHanded ==
  ASSUME CursorInv, SwiftCommitCursor
  PROVE  Handing'
  <1>1. client = "commit" /\ handed' = handed BY DEF SwiftCommitCursor
  <1>2. LogsOncePerThread' BY <1>1 DEF CursorInv, Handing, LogsOncePerThread
  <1>3. \A k \in 1 .. Len(handed) : handed[k] \in DOMAIN log BY CursorNumbers
  <1>4. CASE CommitCheck /\ client' = client
    <2>1. /\ UNCHANGED vars /\ position' = position /\ at_end' = at_end
          /\ call = "idle" /\ call' = "commit" /\ batch' = batch
      BY <1>4 DEF CommitCheck
    <2>2. ClientState' BY <1>1, <1>4, <2>1 DEF ClientState
    <2>3. With(handed)' = With(handed) BY <1>1, <2>1 DEF With
    <2>4. control.wrap_count = 0 /\ ~at_end' => position.offset < control.write_pos
      BY <1>1, <2>1 DEF CursorInv, Handing, HandedInOrder
    <2> QED BY <1>1, <1>2, <1>4, <2>1, <2>2, <2>3, <2>4, BusyHanded
  <1>5. CASE CommitReset /\ client' = "free"
    <2>1. [Next]_vars BY <1>5 DEF CommitReset, Next
    <2>2. control'.read_pos = control.write_pos
      <3>1. control.write_pos \in 0 .. Size + HeaderSize - 1
        BY CursorNumbers, Numbers, SizeAssumption
      <3> QED BY <1>5, <3>1, CursorNumbers, Numbers, ReadPosMoves
              DEF CommitReset, ResetReadPosition, SaveReset,
                  SaveControl
    <2>3. HandedBelow'
      <3> SUFFICES ASSUME control'.wrap_count = 0, NEW k \in 1 .. Len(handed)
                   PROVE  End(handed[k])' <= control'.read_pos
        BY <1>1 DEF HandedBelow
      <3>1. control.wrap_count = 0 BY <2>1, FirstLapSteps
      <3>2. PICK w \in DOMAIN log : w = handed[k] BY <1>3
      <3>3. End(w) <= control.write_pos BY <3>1, CursorNumbers, EndAligned
      <3>4. End(w)' = End(w) BY <2>1, RingMoves DEF CursorInv
      <3> QED BY <1>1, <2>2, <3>2, <3>3, <3>4
    <2> QED BY <1>2, <1>5, <2>3 DEF Handing, HandedInOrder, ClientState
  <1>6. CASE /\ call = "idle" /\ ~MayCommit /\ client' = "free"
             /\ UNCHANGED <<vars, cursorVars>>
    <2>1. HandedBelow'
      <3> SUFFICES ASSUME control.wrap_count = 0, NEW k \in 1 .. Len(handed)
                   PROVE  End(handed[k])' <= control.read_pos
        BY <1>1, <1>6 DEF HandedBelow, vars
      <3>1. With(handed) = handed
        <4>1. With(handed) = handed \o <<>>
          BY <1>6 DEF With, CursorInv, Own, CallState
        <4> QED BY <4>1, ConcatEmpty, CursorNumbers
      <3>2. PICK w \in DOMAIN log : w = handed[k] BY <1>3
      <3>3. End(w) <= position.offset /\ position.offset <= control.write_pos
        BY <1>1, <3>1, <3>2 DEF CursorInv, Handing, HandedInOrder
      <3>4. position.wrap_count = control.wrap_count
        BY <1>1 DEF CursorInv, Handing, HandedInOrder
      <3>5. position.offset <= control.read_pos
        BY <1>6, <3>3, <3>4, CursorScalars DEF MayCommit
      <3>6. End(w) \in Nat BY CursorNumbers, Numbers
      <3>7. End(w)' = End(w) BY <1>6 DEF End, Extent, vars
      <3>8. End(w)' <= control.read_pos
        BY <3>3, <3>5, <3>6, <3>7, CursorScalars
      <3> QED BY <1>1, <3>2, <3>8
    <2> QED BY <1>2, <1>6, <2>1 DEF Handing, HandedInOrder, ClientState
  <1> QED BY <1>4, <1>5, <1>6 DEF SwiftCommitCursor

-----------------------------------------------------------------------------
(* The theorems.                                                           *)

\* The invariant holds of a new file and a new cursor.
LEMMA CursorInvInit == CursorInit => CursorInv
  <1> SUFFICES ASSUME CursorInit PROVE CursorInv OBVIOUS
  <1>1. /\ Init /\ position = Position(0, 0) /\ at_end = TRUE /\ call = "idle"
        /\ found = 0 /\ remaining = 0 /\ batch = <<>> /\ received = <<>>
        /\ client = "free" /\ handed = <<>>
    BY DEF CursorInit
  <1>2. LogInv BY <1>1, LogInit
  <1>3. CellsPlaced BY <1>1 DEF Init, CellsPlaced
  <1>4. log = <<>> /\ Len(log) = 0 BY <1>1 DEF Init
  <1>5. CursorTypeOK
    <2>1. Beyond \in Nat BY SizeAssumption DEF Beyond
    <2>2. position \in [offset : 0 .. Beyond, wrap_count : Nat]
      BY <1>1, <2>1 DEF Position
    <2>3. at_end \in BOOLEAN BY <1>1
    <2>4. remaining \in 0 .. MaxBatch BY <1>1, MaxBatchAssumption
    <2> QED BY <1>1, <1>4, <2>2, <2>3, <2>4 DEF CursorTypeOK
  <1>6. CallState BY <1>1 DEF CallState
  <1>7. Len(Got) = 0
    <2>1. Got = <<>> \o <<>> BY <1>1 DEF Got, With
    <2> QED BY <2>1
  <1>8. Contiguous BY <1>7 DEF Contiguous
  <1>9. Len(handed) = 0 BY <1>1
  <1>10. Handing
    BY <1>1, <1>9 DEF Handing, LogsOncePerThread, StrictlyIncreasing, HandedBelow,
                      HandedInOrder, ClientState
  <1> QED BY <1>2, <1>3, <1>5, <1>6, <1>8, <1>10 DEF CursorInv, Own

\* A client that stays as it is.
LEMMA SameClient ==
  ASSUME CursorInv, UNCHANGED clientVars
  PROVE  ClientStep /\ client' = client /\ handed' = handed
  BY DEF CursorInv, Own, CursorTypeOK, clientVars, ClientStep

\* Steps of other threads.
LEMMA RingKeeps ==
  ASSUME CursorInv, [Next]_vars, UNCHANGED <<cursorVars, clientVars>>
  PROVE  Own' /\ Handing'
  <1>1. ClientStep /\ client' = client /\ handed' = handed BY SameClient
  <1>2. Own' BY <1>1, RingOwn
  <1>3. /\ position' = position /\ at_end' = at_end /\ call' = call
        /\ found' = found /\ batch' = batch
    BY DEF cursorVars
  <1>4. CASE client = "free"
    <2>1. client' = "free" /\ handed' = handed BY <1>1, <1>4
    <2>2. Handing' BY <1>4, <2>1, FreeHanded
    <2> QED BY <1>2, <2>2
  <1>5. CASE client # "free"
    <2>1. Handing BY DEF CursorInv
    <2>2. LogsOncePerThread' /\ ClientState'
      BY <1>1, <1>3, <2>1 DEF Handing, LogsOncePerThread, ClientState
    <2>3. With(handed)' = With(handed) BY <1>1, <1>3 DEF With
    <2>4. control.wrap_count = 0 /\ call' # "some" /\ ~at_end'
             => position.offset < control.write_pos
      BY <1>3, <1>5, <2>1 DEF Handing, HandedInOrder
    <2> QED BY <1>1, <1>2, <1>3, <1>5, <2>2, <2>3, <2>4, BusyHanded
  <1> QED BY <1>2, <1>4, <1>5

\* Steps of a client that uses the cursor as it likes.
LEMMA FreeKeeps ==
  ASSUME CursorInv, client = "free", UNCHANGED clientVars,
         \/ CursorNew \/ SeekTo \/ SeekToEnd
         \/ ReadBatch \/ CommitCheck \/ CommitReset
         \/ ReadBatchReturn \/ NextRead \/ NextSome \/ NextNone
  PROVE  [Next]_vars /\ Own' /\ Handing'
  <1>1. ClientStep /\ client' = client /\ handed' = handed BY SameClient
  <1>2. [Next]_vars
    <2>1. CASE CommitReset BY <1>1, <2>1, CommitResetOwn
    <2>2. CASE ~CommitReset
      BY <2>2 DEF CursorNew, SeekTo, SeekToEnd, PlaceAt, ReadBatch, CommitCheck,
                  ReadBatchReturn, NextRead, NextSome, NextNone
    <2> QED BY <2>1, <2>2
  <1>3. Handing' BY <1>1, <1>2, FreeHanded
  <1>4. Own'
    <2>1. CASE CursorNew BY <1>1, <2>1, PlaceNewOwn DEF CursorNew
    <2>2. CASE SeekTo \/ SeekToEnd BY <1>1, <2>2, SeekOwn
    <2>3. CASE ReadBatch BY <1>1, <2>3, ReadBatchOwn
    <2>4. CASE CommitCheck BY <1>1, <2>4, CommitCheckOwn
    <2>5. CASE CommitReset BY <1>1, <2>5, CommitResetOwn
    <2>6. CASE ReadBatchReturn BY <1>1, <2>6, ReturnOwn
    <2>7. CASE NextRead BY <1>1, <2>7, NextReadOwn
    <2>8. CASE NextSome BY <1>1, <2>8, NextSomeOwn
    <2>9. CASE NextNone BY <1>1, <2>9, NextNoneOwn
    <2> QED BY <2>1, <2>2, <2>3, <2>4, <2>5, <2>6, <2>7, <2>8, <2>9
  <1> QED BY <1>2, <1>3, <1>4

\* Steps of next() inside readAllLogs that do not return.
LEMMA BusyKeeps ==
  ASSUME CursorInv, client # "free", UNCHANGED clientVars,
         ReadBatchReturn \/ NextRead \/ NextSome \/ NextNone,
         client = "read" => call' # "idle"
  PROVE  [Next]_vars /\ Own' /\ Handing'
  <1>1. ClientStep /\ client' = client /\ handed' = handed BY SameClient
  <1>2. call \in {"next", "some", "none"}
    BY DEF ReadBatchReturn, NextRead, NextSome, NextNone
  <1>3. client = "read" /\ call' # "idle"
    BY <1>2 DEF CursorInv, Own, CursorTypeOK, Handing, ClientState
  <1>4. CASE NextRead
    BY <1>1, <1>3, <1>4, NextReadOwn, FoundHanded DEF NextRead
  <1>5. CASE NextSome
    <2>1. /\ UNCHANGED vars /\ call' = "next" /\ position' = position
          /\ batch' = Append(batch, found) /\ at_end' = AtWritePos(position)
      BY <1>5 DEF NextSome
    <2>2. With(handed)' = With(handed)
      <3>1. With(handed) = handed \o batch' BY <1>5, <2>1, WithSome, CursorNumbers
      <3>2. With(handed)' = handed' \o batch' BY <2>1 DEF With
      <3> QED BY <1>1, <3>1, <3>2
    <2>3. LogsOncePerThread' /\ ClientState'
      BY <1>1, <1>3, <2>1 DEF CursorInv, Handing, LogsOncePerThread, ClientState
    <2>4. ASSUME control.wrap_count = 0, ~at_end'
          PROVE  position.offset < control.write_pos
      <3>1. position.offset <= control.write_pos
        BY <1>3, <2>4 DEF CursorInv, Handing, HandedInOrder
      <3>2. position.wrap_count = control.wrap_count
        BY <1>3, <2>4 DEF CursorInv, Handing, HandedInOrder
      <3>3. position.offset # control.write_pos
        BY <2>1, <2>4, <3>2 DEF AtWritePos
      <3> QED BY <3>1, <3>3, CursorNumbers
    <2>5. Handing' BY <1>1, <1>3, <2>1, <2>2, <2>3, <2>4, BusyHanded
    <2> QED BY <1>1, <1>5, <2>1, <2>5, NextSomeOwn
  <1>6. CASE NextNone
    <2>1. /\ UNCHANGED vars /\ call = "none" /\ call' = "next"
          /\ position' = position
      BY <1>6 DEF NextNone
    <2>2. control.wrap_count # 0
      BY <1>3, <2>1 DEF CursorInv, Handing, HandedInOrder
    <2>3. LogsOncePerThread' /\ ClientState'
      BY <1>1, <1>3, <2>1 DEF CursorInv, Handing, LogsOncePerThread, ClientState
    <2>4. Handing' BY <1>1, <1>3, <2>1, <2>2, <2>3, BusyHanded
    <2> QED BY <1>1, <1>6, <2>1, <2>4, NextNoneOwn
  <1>7. CASE ReadBatchReturn BY <1>3, <1>7 DEF ReadBatchReturn
  <1> QED BY <1>4, <1>5, <1>6, <1>7

\* The steps of readAllLogs itself.
LEMMA SwiftKeeps ==
  ASSUME CursorInv,
         \/ SwiftReadAllLogs \/ SwiftReadNext \/ SwiftReadNextReturn
         \/ SwiftCommitCursor
  PROVE  [Next]_vars /\ Own' /\ Handing'
  <1>1. handed \in Seq(1 .. Len(log)) /\ batch \in Seq(1 .. Len(log))
    BY CursorNumbers
  <1>2. CASE SwiftReadAllLogs
    <2>1. /\ call = "idle" /\ client' = "read" /\ handed' = handed
          /\ LET pos == Position(control.read_pos, control.wrap_count)
             IN  PlaceAt(pos, AtWritePos(pos))
      BY <1>2 DEF SwiftReadAllLogs
    <2>2. ClientStep BY <1>1, <2>1 DEF ClientStep
    <2>3. Own' BY <2>1, <2>2, PlaceNewOwn
    <2>4. [Next]_vars BY <2>1 DEF PlaceAt
    <2> QED BY <1>2, <2>3, <2>4, StartHanded
  <1>3. CASE SwiftReadNext
    <2>1. /\ client = "read" /\ ReadBatch /\ UNCHANGED clientVars
          /\ UNCHANGED vars /\ call = "idle" /\ call' = "next"
          /\ position' = position /\ at_end' = at_end
          /\ batch = <<>> /\ batch' = <<>>
      BY <1>3 DEF SwiftReadNext, ReadBatch, CursorInv, Own, CallState
    <2>2. ClientStep /\ client' = client /\ handed' = handed BY <2>1, SameClient
    <2>3. With(handed)' = With(handed) BY <2>1, <2>2 DEF With
    <2>4. LogsOncePerThread' /\ ClientState'
      BY <2>1, <2>2 DEF CursorInv, Handing, LogsOncePerThread, ClientState
    <2>5. control.wrap_count = 0 /\ ~at_end' => position.offset < control.write_pos
      BY <2>1 DEF CursorInv, Handing, HandedInOrder
    <2>6. Handing' BY <2>1, <2>2, <2>3, <2>4, <2>5, BusyHanded
    <2> QED BY <2>1, <2>2, <2>6, ReadBatchOwn
  <1>4. CASE SwiftReadNextReturn
    <2>1. handed \o batch \in Seq(1 .. Len(log)) BY <1>1
    <2>2. ClientStep BY <1>1, <1>4, <2>1 DEF SwiftReadNextReturn, ClientStep
    <2>3. CASE ReadBatchReturn
      BY <1>4, <2>2, <2>3, ReturnOwn, ReturnHanded DEF ReadBatchReturn
    <2>4. CASE NextRead
      BY <1>4, <2>2, <2>4, NextReadOwn, ReturnHanded DEF NextRead
    <2> QED BY <1>4, <2>3, <2>4 DEF SwiftReadNextReturn
  <1>5. CASE SwiftCommitCursor
    <2>1. /\ client = "commit" /\ handed' = handed
          /\ \/ CommitCheck /\ client' = client
             \/ CommitReset /\ client' = "free"
             \/ client' = "free" /\ UNCHANGED <<vars, cursorVars>>
      BY <1>5 DEF SwiftCommitCursor
    <2>2. ClientStep BY <1>1, <2>1 DEF ClientStep
    <2>3. CASE CommitCheck
      BY <1>5, <2>2, <2>3, CommitCheckOwn, CommitHanded DEF CommitCheck
    <2>4. CASE CommitReset BY <1>5, <2>2, <2>4, CommitResetOwn, CommitHanded
    <2>5. CASE UNCHANGED <<vars, cursorVars>>
      BY <1>5, <2>2, <2>5, RingOwn, CommitHanded
    <2> QED BY <2>1, <2>3, <2>4, <2>5
  <1> QED BY <1>2, <1>3, <1>4, <1>5

\* Every step keeps the invariant.
LEMMA CursorInvNext == CursorInv /\ [CursorNext]_allVars => CursorInv'
  <1> SUFFICES ASSUME CursorInv, [CursorNext]_allVars PROVE CursorInv' OBVIOUS
  <1>1. [Next]_vars /\ Own' /\ Handing'
    <2>1. CASE RingNext
      <3>1. [Next]_vars BY <2>1 DEF RingNext, Next
      <3> QED BY <2>1, <3>1, RingKeeps DEF RingNext
    <2>2. CASE UNCHANGED allVars
      BY <2>2, RingKeeps DEF allVars
    <2>3. CASE /\ client = "free"
               /\ \/ CursorNew \/ SeekTo \/ SeekToEnd
                  \/ ReadBatch \/ CommitCheck \/ CommitReset
               /\ UNCHANGED clientVars
      BY <2>3, FreeKeeps
    <2>4. CASE /\ ReadBatchReturn \/ NextRead \/ NextSome \/ NextNone
               /\ client = "read" => call' # "idle"
               /\ UNCHANGED clientVars
      <3>1. CASE client = "free" BY <2>4, <3>1, FreeKeeps
      <3>2. CASE client # "free" BY <2>4, <3>2, BusyKeeps
      <3> QED BY <3>1, <3>2
    <2>5. CASE \/ SwiftReadAllLogs \/ SwiftReadNext \/ SwiftReadNextReturn
               \/ SwiftCommitCursor
      BY <2>5, SwiftKeeps
    <2> QED BY <2>1, <2>2, <2>3, <2>4, <2>5 DEF CursorNext, NextCall
  <1>2. LogInv' BY <1>1, LogNext DEF CursorInv
  <1>3. CellsPlaced' BY <1>1, CellsNext DEF CursorInv, LogInv
  <1> QED BY <1>1, <1>2, <1>3 DEF CursorInv

\* The inductive invariant holds in every reachable state.
THEOREM CursorInvariance == CursorSpec => []CursorInv
  BY CursorInvInit, CursorInvNext, PTL DEF CursorSpec

\* Whatever offset and lap a cursor is created with or sent to, and whatever
\* is written meanwhile, a record it reads ends within the data region, a
\* batch holds records that were written, and next() counts down to zero
\* (cursor.rs 52-166).
THEOREM CursorTypeCorrect == CursorSpec => []CursorTypeOK
  <1>1. CursorInv => CursorTypeOK BY DEF CursorInv, Own
  <1> QED BY <1>1, CursorInvariance, PTL

\* From its first record of the current lap on, a cursor returns consecutive
\* records, whatever is written between read_at and control_block().
THEOREM CursorReadsConsecutive == CursorSpec => []CursorContiguous
  <1>1. CursorInv => CursorContiguous
    <2> SUFFICES ASSUME CursorInv, position.wrap_count = control.wrap_count,
                        NEW k \in 1 .. Len(received \o batch) - 1,
                        log[(received \o batch)[k]].lap = control.wrap_count
                 PROVE  (received \o batch)[k + 1] = (received \o batch)[k] + 1
      BY DEF CursorContiguous
    <2>1. PICK s \in Seq(1 .. Len(log)) : s = received \o batch
      <3>1. received \in Seq(1 .. Len(log)) /\ batch \in Seq(1 .. Len(log))
        BY CursorNumbers
      <3>2. received \o batch \in Seq(1 .. Len(log)) BY <3>1
      <3> QED BY <3>2
    <2>2. /\ Got = s \/ Got = Append(s, found)
          /\ Got \in Seq(1 .. Len(log))
      BY <2>1, CursorNumbers DEF Got, With
    <2>3. k \in 1 .. Len(Got) - 1 /\ Got[k] = s[k] /\ Got[k + 1] = s[k + 1]
      <3>1. k \in 1 .. Len(s) - 1 BY <2>1
      <3>2. CASE Got = s BY <3>1, <3>2
      <3>3. CASE Got = Append(s, found)
        <4>1. /\ Len(Append(s, found)) = Len(s) + 1
              /\ \A j \in 1 .. Len(s) : Append(s, found)[j] = s[j]
          OBVIOUS
        <4>2. k \in 1 .. Len(s) /\ k + 1 \in 1 .. Len(s) BY <3>1
        <4> QED BY <3>1, <3>3, <4>1, <4>2
      <3> QED BY <2>2, <3>2, <3>3
    <2>4. Current(Got[k]) => Got[k + 1] = Got[k] + 1
      BY <2>3 DEF CursorInv, Own, Contiguous
    <2> QED BY <2>1, <2>3, <2>4 DEF Current
  <1> QED BY <1>1, CursorInvariance, PTL

\* Before the first wrap a thread gets every record at most once and in order
\* over all its calls of readAllLogs, whatever other threads write, read,
\* reset or commit (ios/mod.rs 137-186, 290-300).  Two threads may both get a
\* record.
THEOREM ThreadGetsLogsOnce == CursorSpec => []LogsOncePerThread
  <1>1. CursorInv => LogsOncePerThread BY DEF CursorInv, Handing
  <1> QED BY <1>1, CursorInvariance, PTL

\* at_end is set after a record of the current lap only if it is the newest:
\* a write between read_at and control_block() is not overlooked.
THEOREM AtEndMeansNewest == CursorSpec => AtEndInLap
  <1>1. ASSUME CursorInv, NextSome, at_end', log[found].lap = control.wrap_count
        PROVE  found = Len(log)
    <2>1. /\ found \in DOMAIN log /\ position.offset = End(found)
          /\ position.offset = control.write_pos
      BY <1>1 DEF CursorInv, Own, CallState, NextSome, AtWritePos
    <2>2. /\ DOMAIN log = 1 .. Len(log) /\ Len(log) \in Nat
          /\ control.wrap_count \in Nat /\ PInv /\ LayoutInv
      BY <1>1, CursorNumbers
    <2>3. PICK n \in DOMAIN log : n = Len(log) BY <2>1, <2>2
    <2>4. /\ log[n].lap \in Nat /\ log[n].lap <= control.wrap_count
          /\ log[n].start \in Nat /\ End(n) \in Nat /\ log[n].start < End(n)
          /\ log[n].lap = control.wrap_count => End(n) <= control.write_pos
          /\ End(found) \in Nat
      BY <2>1, <2>2, Numbers
    <2>5. found < n => \/ log[found].lap < log[n].lap
                       \/ /\ log[found].lap = log[n].lap
                          /\ End(found) <= log[n].start
      BY <2>1, <2>2 DEF LayoutInv, LogOrdered
    <2>6. ~(found < n) BY <1>1, <2>1, <2>2, <2>4, <2>5
    <2> QED BY <2>1, <2>2, <2>3, <2>6
  <1>2. CursorInv /\ [CursorNext]_allVars =>
          [NextSome /\ at_end' /\ log[found].lap = control.wrap_count
             => found = Len(log)]_allVars
    BY <1>1
  <1> QED BY <1>2, CursorInvariance, PTL DEF CursorSpec, AtEndInLap

\* An error makes read_batch() drop no record of the current lap: what follows
\* such a record is another one or the end (read_batch 126-137).
THEOREM NoCurrentRecordDropped == CursorSpec => NoBatchDropped
  <1>1. ASSUME CursorInv, NextRead, call' = "idle",
               position.wrap_count = control.wrap_count,
               NEW k \in 1 .. Len(batch)
        PROVE  log[batch[k]].lap # control.wrap_count
    <2>1. call = "next" /\ ~at_end /\ status = "open" BY <1>1, ReadCases
    <2>2. PICK r \in ReadAt(position.offset) : r.kind = "Err"
      BY <1>1, ReadCases DEF ReadSome, ReadNone
    <2>3. ~(Len(Got) > 0 /\ Current(Got[Len(Got)]))
      BY <1>1, <2>1, <2>2, ReadFollows
    <2>4. /\ received \in Seq(1 .. Len(log)) /\ batch \in Seq(1 .. Len(log))
          /\ Got = received \o batch
      BY <1>1, <2>1, CursorNumbers DEF Got, With
    <2>5. PICK m \in Nat, n \in Nat :
             m = Len(received) + k /\ n = Len(Got) /\ m \in 1 .. n
      BY <2>4
    <2>6. Got[m] = batch[k] BY <2>4, <2>5
    <2>7. \A i, j \in 1 .. n : i < j /\ Current(Got[i]) => Current(Got[j])
      BY <1>1, <2>5 DEF CursorInv, Own, Contiguous
    <2>8. ~Current(Got[n]) BY <2>3, <2>5
    <2>9. CASE m = n BY <2>6, <2>8, <2>9 DEF Current
    <2>10. CASE m # n
      <3>1. m < n /\ n \in 1 .. n BY <2>5, <2>10
      <3>2. ~Current(Got[m]) BY <2>5, <2>7, <2>8, <3>1
      <3> QED BY <2>6, <3>2 DEF Current
    <2> QED BY <2>9, <2>10
  <1>2. CursorInv /\ [CursorNext]_allVars =>
          [NextRead /\ call' = "idle" /\ position.wrap_count = control.wrap_count
             => \A k \in 1 .. Len(batch) :
                    log[batch[k]].lap # control.wrap_count]_allVars
    BY <1>1
  <1> QED BY <1>2, CursorInvariance, PTL DEF CursorSpec, NoBatchDropped

=============================================================================
