------------------------ MODULE PersistentLogProofs ------------------------
(***************************************************************************)
(* More theorems about PersistentRing: what read_all returns over all its  *)
(* calls, and that the ring implements the abstract log of LogWindow, for  *)
(* every size of the data region, header and payload.                      *)
(***************************************************************************)
EXTENDS PersistentRingProofs, WellFoundedInduction

\* Where a record ends.
End(w) == log[w].start + Extent(w)

\* Records are written lap by lap, and in a lap one behind the other.
LogOrdered ==
    \A v, w \in DOMAIN log : v < w =>
        \/ log[v].lap < log[w].lap
        \/ log[v].lap = log[w].lap /\ End(v) <= log[w].start

\* The records of the current lap fill the region up to the write position.
Tiled ==
    \A i \in Offsets : i < control.write_pos =>
        \E w \in DOMAIN log : /\ log[w].lap = control.wrap_count
                              /\ log[w].start <= i /\ i < End(w)

\* What read_all has returned of the current lap lies below the read position.
Taken ==
    \A k \in 1 .. Len(returned) :
        log[returned[k]].lap = control.wrap_count
            => End(returned[k]) <= control.read_pos

\* What a running read_all has collected is of the current lap, in order,
\* between the read position and where it reads.
Collected ==
    reading =>
        /\ control.read_pos <= current_pos
        /\ StrictlyIncreasing(records)
        /\ \A k \in 1 .. Len(records) :
              /\ log[records[k]].lap = control.wrap_count
              /\ control.read_pos <= log[records[k]].start
              /\ End(records[k]) <= current_pos

\* Position p lies inside no record.
Aligned(p) == \A w \in DOMAIN log : End(w) <= p \/ p <= log[w].start

\* Before the first wrap reading goes from record to record, and no further
\* than the write position.
FirstLap ==
    control.wrap_count = 0 =>
        /\ control.read_pos <= control.write_pos
        /\ Aligned(control.read_pos)
        /\ reading =>
              /\ current_pos <= control.write_pos
              /\ Aligned(current_pos)
              /\ \A w \in DOMAIN log :
                    control.read_pos <= log[w].start /\ log[w].start < current_pos
                       => w \in Elements(records)

LayoutInv == LogOrdered /\ Tiled

ReadInv == ReturnedOrder /\ Taken /\ Collected /\ FirstLap /\ FirstLapExact

LogInv == PInv /\ LayoutInv /\ ReadInv

-----------------------------------------------------------------------------
(* Facts about numbers and sequences.                                      *)

\* A set of natural numbers that is not empty has a least element.
LEMMA NatMin ==
  ASSUME NEW T, T \subseteq Nat, T # {}
  PROVE  \E x \in T : \A y \in T : x <= y
  <1> DEFINE R == OpToRel(<, Nat)
  <1>1. IsWellFoundedOn(R, Nat) BY NatLessThanWellFounded
  <1>2. \A y, x \in Nat : y < x => <<y, x>> \in R BY Zenon DEF OpToRel
  <1> HIDE DEF R
  <1>3. PICK x \in T : \A y \in T : ~(<<y, x>> \in R) BY <1>1, WFMin
  <1>4. \A y \in T : ~(y < x) BY <1>2, <1>3
  <1>5. \A y \in T : x <= y BY <1>4
  <1> QED BY <1>5

\* Elements of a sequence to which another, or one element, is added.
LEMMA ElementsConcat ==
  ASSUME NEW S, NEW s \in Seq(S), NEW t \in Seq(S)
  PROVE  Elements(s \o t) = Elements(s) \cup Elements(t)
  <1>1. ASSUME NEW x \in Elements(s \o t)
        PROVE  x \in Elements(s) \cup Elements(t)
    <2>1. PICK k \in 1 .. Len(s \o t) : x = (s \o t)[k] BY <1>1 DEF Elements
    <2>2. CASE k <= Len(s)
      <3>1. k \in 1 .. Len(s) /\ x = s[k] BY <2>1, <2>2
      <3> QED BY <3>1 DEF Elements
    <2>3. CASE ~(k <= Len(s))
      <3>1. k - Len(s) \in 1 .. Len(t) /\ x = t[k - Len(s)] BY <2>1, <2>3
      <3> QED BY <3>1 DEF Elements
    <2> QED BY <2>2, <2>3
  <1>2. ASSUME NEW x \in Elements(s) PROVE x \in Elements(s \o t)
    <2>1. PICK k \in 1 .. Len(s) : x = s[k] BY <1>2 DEF Elements
    <2>2. k \in 1 .. Len(s \o t) /\ x = (s \o t)[k] BY <2>1
    <2> QED BY <2>2 DEF Elements
  <1>3. ASSUME NEW x \in Elements(t) PROVE x \in Elements(s \o t)
    <2>1. PICK k \in 1 .. Len(t) : x = t[k] BY <1>3 DEF Elements
    <2>2. k + Len(s) \in 1 .. Len(s \o t) /\ x = (s \o t)[k + Len(s)] BY <2>1
    <2> QED BY <2>2 DEF Elements
  <1> QED BY <1>1, <1>2, <1>3

LEMMA ElementsAppend ==
  ASSUME NEW S, NEW s \in Seq(S), NEW x \in S
  PROVE  Elements(Append(s, x)) = Elements(s) \cup {x}
  <1>1. ASSUME NEW y \in Elements(Append(s, x)) PROVE y \in Elements(s) \cup {x}
    <2>1. PICK k \in 1 .. Len(Append(s, x)) : y = Append(s, x)[k]
      BY <1>1 DEF Elements
    <2>2. CASE k <= Len(s)
      <3>1. k \in 1 .. Len(s) /\ y = s[k] BY <2>1, <2>2
      <3> QED BY <3>1 DEF Elements
    <2>3. CASE ~(k <= Len(s)) BY <2>1, <2>3
    <2> QED BY <2>2, <2>3
  <1>2. ASSUME NEW y \in Elements(s) PROVE y \in Elements(Append(s, x))
    <2>1. PICK k \in 1 .. Len(s) : y = s[k] BY <1>2 DEF Elements
    <2>2. k \in 1 .. Len(Append(s, x)) /\ y = Append(s, x)[k] BY <2>1
    <2> QED BY <2>2 DEF Elements
  <1>3. x \in Elements(Append(s, x))
    <2>1. /\ Len(s) + 1 \in 1 .. Len(Append(s, x))
          /\ x = Append(s, x)[Len(s) + 1]
      OBVIOUS
    <2> QED BY <2>1 DEF Elements
  <1> QED BY <1>1, <1>2, <1>3

\* The sequence that is one longer than s and ends in x is Append(s, x).
LEMMA AppendIs ==
  ASSUME NEW S, NEW s \in Seq(S), NEW x \in S, NEW t \in Seq(S),
         Len(t) = Len(s) + 1, t[Len(s) + 1] = x,
         \A k \in 1 .. Len(s) : t[k] = s[k]
  PROVE  t = Append(s, x)
  <1>1. Append(s, x) \in Seq(S) /\ Len(Append(s, x)) = Len(s) + 1 OBVIOUS
  <1>2. \A k \in 1 .. Len(s) + 1 : t[k] = Append(s, x)[k] OBVIOUS
  <1> QED BY <1>1, <1>2

\* Increasing sequences of numbers, the second beyond the first, concatenate to
\* an increasing one.
LEMMA ConcatIncreasing ==
  ASSUME NEW s \in Seq(Nat), NEW t \in Seq(Nat),
         StrictlyIncreasing(s), StrictlyIncreasing(t),
         \A j \in 1 .. Len(s), k \in 1 .. Len(t) : s[j] < t[k]
  PROVE  StrictlyIncreasing(s \o t)
  <1> SUFFICES ASSUME NEW j \in 1 .. Len(s \o t), NEW k \in 1 .. Len(s \o t),
                      j < k
               PROVE  (s \o t)[j] < (s \o t)[k]
    BY DEF StrictlyIncreasing
  <1>1. CASE k <= Len(s)
    <2>1. j \in 1 .. Len(s) /\ k \in 1 .. Len(s) BY <1>1
    <2>2. (s \o t)[j] = s[j] /\ (s \o t)[k] = s[k] BY <2>1
    <2> QED BY <2>1, <2>2 DEF StrictlyIncreasing
  <1>2. CASE j <= Len(s) /\ ~(k <= Len(s))
    <2>1. j \in 1 .. Len(s) /\ k - Len(s) \in 1 .. Len(t) BY <1>2
    <2>2. (s \o t)[j] = s[j] /\ (s \o t)[k] = t[k - Len(s)] BY <1>2, <2>1
    <2> QED BY <2>1, <2>2
  <1>3. CASE ~(j <= Len(s))
    <2>1. j - Len(s) \in 1 .. Len(t) /\ k - Len(s) \in 1 .. Len(t) BY <1>3
    <2>2. (s \o t)[j] = t[j - Len(s)] /\ (s \o t)[k] = t[k - Len(s)]
      BY <1>3, <2>1
    <2>3. j - Len(s) < k - Len(s) OBVIOUS
    <2> QED BY <2>1, <2>2, <2>3 DEF StrictlyIncreasing
  <1> QED BY <1>1, <1>2, <1>3

LEMMA AppendIncreasing ==
  ASSUME NEW s \in Seq(Nat), NEW x \in Nat, StrictlyIncreasing(s),
         \A j \in 1 .. Len(s) : s[j] < x
  PROVE  StrictlyIncreasing(Append(s, x))
  <1> SUFFICES ASSUME NEW j \in 1 .. Len(s) + 1, NEW k \in 1 .. Len(s) + 1,
                      j < k
               PROVE  Append(s, x)[j] < Append(s, x)[k]
    BY DEF StrictlyIncreasing
  <1>1. j \in 1 .. Len(s) /\ Append(s, x)[j] = s[j] OBVIOUS
  <1>2. CASE k <= Len(s)
    <2>1. k \in 1 .. Len(s) /\ Append(s, x)[k] = s[k] BY <1>2
    <2> QED BY <1>1, <2>1 DEF StrictlyIncreasing
  <1>3. CASE ~(k <= Len(s))
    <2>1. k = Len(s) + 1 BY <1>3
    <2>2. Append(s, x)[k] = x BY <2>1
    <2> QED BY <1>1, <2>2
  <1> QED BY <1>2, <1>3

-----------------------------------------------------------------------------
(* The layout of the records.                                              *)

\* Types of the positions, and of the ends of records.
LEMMA Numbers ==
  ASSUME PInv
  PROVE  /\ control \in ControlBlocks
         /\ control.write_pos \in Nat /\ control.write_pos <= Size
         /\ control.read_pos \in Nat /\ control.wrap_count \in Nat
         /\ current_pos \in Nat
         /\ DOMAIN log = 1 .. Len(log) /\ Len(log) \in Nat
         /\ \A w \in DOMAIN log :
               /\ w \in Nat /\ log[w].start \in Nat /\ log[w].lap \in Nat
               /\ End(w) \in Nat /\ log[w].start < End(w)
               /\ log[w].lap <= control.wrap_count
               /\ log[w].lap = control.wrap_count => End(w) <= control.write_pos
  <1>1. RegionTypeOK /\ control \in ControlBlocks /\ Placed
    BY DEF PInv, TypeOK, ControlTypeOK
  <1>2. /\ control.write_pos \in Nat /\ control.write_pos <= Size
        /\ control.read_pos \in Nat /\ control.wrap_count \in Nat
    BY <1>1, SizeAssumption DEF ControlBlocks
  <1>3. current_pos \in Nat BY SizeAssumption DEF PInv, TypeOK, ReadTypeOK
  <1>4. DOMAIN log = 1 .. Len(log) /\ Len(log) \in Nat BY <1>1 DEF RegionTypeOK
  <1>5. ASSUME NEW w \in DOMAIN log
        PROVE  /\ w \in Nat /\ log[w].start \in Nat /\ log[w].lap \in Nat
               /\ End(w) \in Nat /\ log[w].start < End(w)
               /\ log[w].lap <= control.wrap_count
               /\ log[w].lap = control.wrap_count => End(w) <= control.write_pos
    <2>1. /\ w \in Nat /\ log[w].start \in Nat /\ log[w].lap \in Nat
          /\ Extent(w) \in Nat /\ Extent(w) >= HeaderSize
      BY <1>1, LogType
    <2>2. End(w) \in Nat /\ log[w].start < End(w)
      BY <2>1, SizeAssumption DEF End
    <2> QED BY <1>1, <2>1, <2>2 DEF Placed, End
  <1> QED BY <1>1, <1>2, <1>3, <1>4, <1>5

\* The place of two records tells which was written first.
LEMMA PlaceOrder ==
  ASSUME PInv, LogOrdered, NEW v \in DOMAIN log, NEW w \in DOMAIN log,
         \/ log[v].lap < log[w].lap
         \/ log[v].lap = log[w].lap /\ End(v) <= log[w].start
  PROVE  v < w
  <1>1. /\ v \in Nat /\ log[v].start \in Nat /\ log[v].lap \in Nat
        /\ End(v) \in Nat /\ log[v].start < End(v)
        /\ w \in Nat /\ log[w].start \in Nat /\ log[w].lap \in Nat
        /\ End(w) \in Nat /\ log[w].start < End(w)
    BY Numbers
  <1>2. v # w BY <1>1
  <1>3. w < v => \/ log[w].lap < log[v].lap
                 \/ log[w].lap = log[v].lap /\ End(w) <= log[v].start
    BY DEF LogOrdered
  <1>4. ~(w < v) BY <1>1, <1>3
  <1> QED BY <1>1, <1>2, <1>4

\* In a buffer that is open no write was left unfinished.
LEMMA OpenUntorn ==
  ASSUME PInv, status = "open"
  PROVE  \A w : Untorn(w)
  BY DEF PInv, TypeOK, Untorn

\* Every unit below the write position belongs to a record of the lap.
LEMMA UnitBelow ==
  ASSUME PInv, Tiled, status = "open", NEW p \in Nat, p < control.write_pos
  PROVE  \E w \in DOMAIN log :
            /\ log[w].lap = control.wrap_count
            /\ log[w].start <= p /\ p < End(w)
            /\ cells[p] = <<w, p - log[w].start>>
  <1>1. control.write_pos \in Nat /\ control.write_pos <= Size BY Numbers
  <1>2. p \in Offsets BY <1>1, SizeAssumption DEF Offsets
  <1>3. PICK w \in DOMAIN log : /\ log[w].lap = control.wrap_count
                                /\ log[w].start <= p /\ p < End(w)
    BY <1>2 DEF Tiled
  <1>4. HoldsRecord(log[w].start, w)
    BY <1>3, OpenUntorn DEF PInv, Intact, Live
  <1>5. log[w].start \in Nat /\ Extent(w) \in Nat
    BY LogType DEF PInv, TypeOK
  <1>6. p - log[w].start \in 0 .. Extent(w) - 1 BY <1>3, <1>5 DEF End
  <1>7. cells[log[w].start + (p - log[w].start)] = <<w, p - log[w].start>>
    BY <1>4, <1>6 DEF HoldsRecord
  <1>8. log[w].start + (p - log[w].start) = p BY <1>5
  <1> QED BY <1>3, <1>7, <1>8

\* Below the write position read_at returns only records of the current lap,
\* at the position where they were written.
LEMMA ReadBelow ==
  ASSUME PInv, Tiled, status = "open", NEW p \in Nat, p < control.write_pos,
         NEW r \in ReadAt(p), r.kind = "Some"
  PROVE  /\ r.rec \in DOMAIN log
         /\ log[r.rec].lap = control.wrap_count
         /\ log[r.rec].start = p
         /\ p + Extent(r.rec) = End(r.rec)
  <1>1. PICK w \in DOMAIN log : /\ log[w].lap = control.wrap_count
                                /\ cells[p] = <<w, p - log[w].start>>
    BY UnitBelow
  <1>2. RegionTypeOK BY DEF PInv, TypeOK
  <1>3. /\ r.rec \in DOMAIN log /\ HoldsRecord(p, r.rec)
        /\ Extent(r.rec) \in Nat /\ Extent(r.rec) >= HeaderSize
    <2>1. r.rec \in 1 .. Len(log) /\ HoldsRecord(p, r.rec) BY <1>2, ReadAtSome
    <2>2. r.rec \in DOMAIN log BY <2>1, Numbers
    <2> QED BY <1>2, <2>1, <2>2, LogType
  <1>4. cells[p] = <<r.rec, 0>>
    <2>1. 0 \in 0 .. Extent(r.rec) - 1 BY <1>3, SizeAssumption
    <2>2. cells[p + 0] = <<r.rec, 0>> BY <1>3, <2>1 DEF HoldsRecord
    <2> QED BY <2>2
  <1>5. r.rec = w /\ p - log[w].start = 0 BY <1>1, <1>4
  <1>6. log[w].start = p BY <1>5, Numbers
  <1> QED BY <1>1, <1>3, <1>5, <1>6 DEF End

\* At the start of a record, below the write position, read_at returns it.
LEMMA ReadAligned ==
  ASSUME PInv, Tiled, status = "open",
         NEW p \in Nat, p < control.write_pos, Aligned(p)
  PROVE  \E w \in DOMAIN log : log[w].start = p /\ ReadAt(p) = {Some(w)}
  <1>1. PICK w \in DOMAIN log : /\ log[w].lap = control.wrap_count
                                /\ log[w].start <= p /\ p < End(w)
    BY UnitBelow
  <1>2. log[w].start = p BY <1>1, Numbers DEF Aligned
  <1>3. HoldsRecord(log[w].start, w)
    BY <1>1, OpenUntorn DEF PInv, Intact, Live
  <1>4. ReadAt(log[w].start) = {Some(w)}
    BY <1>3, ReadAtHolds DEF PInv, TypeOK
  <1> QED BY <1>2, <1>4

\* A write keeps the layout: the new record follows the others of its lap.
LEMMA WriteLayout ==
  ASSUME PInv, LayoutInv, NEW len \in Lengths, Write(len)
  PROVE  LayoutInv'
  <1>1. PICK pos \in Nat, laps \in Nat, total \in Nat, n \in Nat :
           Wrote(len, pos, laps, total, n)
    BY WriteEffect DEF PInv
  <1>2. /\ \/ pos = control.write_pos /\ laps = control.wrap_count
           \/ pos = 0 /\ laps = control.wrap_count + 1
        /\ control'.write_pos = pos + total /\ control'.wrap_count = laps
        /\ \A w \in DOMAIN log' : w = n \/ w \in DOMAIN log
        /\ DOMAIN log \subseteq DOMAIN log' /\ n \in DOMAIN log'
        /\ \A w \in DOMAIN log : w < n
        /\ \A w \in DOMAIN log : log'[w] = log[w]
        /\ log'[n].start = pos /\ log'[n].lap = laps
    <2>1. DOMAIN log = 1 .. Len(log) /\ Len(log) \in Nat BY Numbers
    <2> QED BY <1>1, <2>1 DEF Wrote
  <1>3. /\ End(n)' = pos + total
        /\ \A w \in DOMAIN log : End(w)' = End(w)
    BY <1>1, <1>2, WroteExtents DEF End
  <1>4. /\ control.write_pos \in Nat /\ control.wrap_count \in Nat
        /\ \A w \in DOMAIN log :
              /\ w \in Nat /\ log[w].start \in Nat /\ log[w].lap \in Nat
              /\ End(w) \in Nat
              /\ log[w].lap <= control.wrap_count
              /\ log[w].lap = control.wrap_count => End(w) <= control.write_pos
    BY Numbers
  <1>5. LogOrdered'
    <2> SUFFICES ASSUME NEW v \in DOMAIN log', NEW w \in DOMAIN log', v < w
                 PROVE  \/ log'[v].lap < log'[w].lap
                        \/ log'[v].lap = log'[w].lap /\ End(v)' <= log'[w].start
      BY DEF LogOrdered
    <2>1. CASE v \in DOMAIN log /\ w \in DOMAIN log
      BY <1>2, <1>3, <2>1 DEF LayoutInv, LogOrdered
    <2>2. CASE v \in DOMAIN log /\ w = n
      <3>1. \/ log[v].lap < laps
            \/ log[v].lap = laps /\ End(v) <= pos
        BY <1>2, <1>4, <2>2
      <3> QED BY <1>2, <1>3, <2>2, <3>1
    <2>3. CASE v = n
      <3>1. w \in DOMAIN log => w < v /\ w \in Nat BY <1>2, <1>4, <2>3
      <3>2. FALSE BY <1>2, <2>3, <3>1
      <3> QED BY <3>2
    <2> QED BY <1>2, <2>1, <2>2, <2>3
  <1>6. Tiled'
    <2> SUFFICES ASSUME NEW i \in Offsets, i < pos + total
                 PROVE  \E w \in DOMAIN log' :
                           /\ log'[w].lap = laps
                           /\ log'[w].start <= i /\ i < End(w)'
      BY <1>2 DEF Tiled
    <2>1. i \in Nat BY SizeAssumption DEF Offsets
    <2>2. CASE pos <= i BY <1>2, <1>3, <2>2
    <2>3. CASE ~(pos <= i)
      <3>1. pos = control.write_pos /\ laps = control.wrap_count
        BY <1>2, <2>1, <2>3
      <3>2. i < control.write_pos BY <2>1, <2>3, <3>1
      <3>3. PICK w \in DOMAIN log : /\ log[w].lap = control.wrap_count
                                    /\ log[w].start <= i /\ i < End(w)
        BY <3>2 DEF LayoutInv, Tiled
      <3> QED BY <1>2, <1>3, <3>1, <3>3
    <2> QED BY <2>2, <2>3
  <1> QED BY <1>5, <1>6 DEF LayoutInv

\* Other steps leave the layout alone.
LEMMA QuietLayout ==
  ASSUME LayoutInv, UNCHANGED log,
         control'.write_pos = control.write_pos,
         control'.wrap_count = control.wrap_count
  PROVE  LayoutInv'
  <1>1. \A w : End(w)' = End(w) BY DEF End, Extent
  <1>2. LogOrdered' BY <1>1 DEF LayoutInv, LogOrdered
  <1>3. Tiled' BY <1>1 DEF LayoutInv, Tiled
  <1> QED BY <1>2, <1>3 DEF LayoutInv

-----------------------------------------------------------------------------
(* What read_all collects and returns.                                     *)

\* What is collected and returned are records that were written.
LEMMA HistoryTypes ==
  ASSUME PInv
  PROVE  /\ records \in Seq(Nat) /\ returned \in Seq(Nat)
         /\ records \in Seq(1 .. Len(log)) /\ returned \in Seq(1 .. Len(log))
         /\ \A k \in 1 .. Len(records) : records[k] \in DOMAIN log
         /\ \A k \in 1 .. Len(returned) : returned[k] \in DOMAIN log
         /\ Elements(returned) \subseteq DOMAIN log
         /\ skipped \subseteq DOMAIN log
  <1>1. DOMAIN log = 1 .. Len(log) /\ Len(log) \in Nat BY Numbers
  <1>2. /\ records \in Seq(1 .. Len(log)) /\ returned \in Seq(1 .. Len(log))
        /\ skipped \subseteq 1 .. Len(log)
    BY DEF PInv, TypeOK, ReadTypeOK
  <1>3. 1 .. Len(log) \subseteq Nat OBVIOUS
  <1>4. records \in Seq(Nat) /\ returned \in Seq(Nat)
    BY <1>2, <1>3, SeqMono
  <1>5. /\ \A k \in 1 .. Len(records) : records[k] \in 1 .. Len(log)
        /\ \A k \in 1 .. Len(returned) : returned[k] \in 1 .. Len(log)
    BY <1>2
  <1>6. Elements(returned) \subseteq 1 .. Len(log) BY <1>5 DEF Elements
  <1> QED BY <1>1, <1>2, <1>4, <1>5, <1>6

\* A write does not disturb what was read.
LEMMA WriteRead ==
  ASSUME PInv, ReadInv, NEW len \in Lengths, Write(len)
  PROVE  ReadInv'
  <1>1. PICK pos \in Nat, laps \in Nat, total \in Nat, n \in Nat :
           Wrote(len, pos, laps, total, n)
    BY WriteEffect DEF PInv
  <1>2. /\ \/ pos = control.write_pos /\ laps = control.wrap_count
           \/ pos = 0 /\ laps = control.wrap_count + 1
        /\ control'.write_pos = pos + total /\ control'.wrap_count = laps
        /\ control'.read_pos = control.read_pos
        /\ \A w \in DOMAIN log' : w = n \/ w \in DOMAIN log
        /\ DOMAIN log \subseteq DOMAIN log'
        /\ \A w \in DOMAIN log : log'[w] = log[w]
        /\ log'[n].start = pos /\ log'[n].lap = laps
    <2>1. DOMAIN log = 1 .. Len(log) /\ Len(log) \in Nat BY Numbers
    <2> QED BY <1>1, <2>1 DEF Wrote
  <1>3. \A w \in DOMAIN log : End(w)' = End(w)
    BY <1>1, <1>2, WroteExtents DEF End
  <1>4. /\ control.write_pos \in Nat /\ control.wrap_count \in Nat
        /\ control.read_pos \in Nat
        /\ \A w \in DOMAIN log : /\ log[w].lap \in Nat
                                 /\ log[w].lap <= control.wrap_count
    BY Numbers
  <1>5. /\ UNCHANGED <<returned, skipped>> /\ reading' = FALSE
        /\ \A k \in 1 .. Len(returned) : returned[k] \in DOMAIN log
    BY HistoryTypes DEF Write, readAllVars, Unlocked
  <1>6. ReturnedOrder' BY <1>5 DEF ReadInv, ReturnedOrder
  <1>7. Taken'
    <2> SUFFICES ASSUME NEW k \in 1 .. Len(returned),
                        log'[returned[k]].lap = laps
                 PROVE  End(returned[k])' <= control.read_pos
      BY <1>2, <1>5 DEF Taken
    <2>1. PICK w \in DOMAIN log : w = returned[k] BY <1>5
    <2>2. log[w].lap = control.wrap_count BY <1>2, <1>4, <2>1
    <2>3. End(w) <= control.read_pos BY <2>1, <2>2 DEF ReadInv, Taken
    <2>4. End(w)' = End(w) BY <1>3
    <2> QED BY <1>5, <2>1, <2>3, <2>4
  <1>8. Collected' BY <1>5 DEF Collected
  <1>9. laps = 0 => control.wrap_count = 0 /\ pos = control.write_pos
    BY <1>2, <1>4
  <1>10. FirstLap'
    <2> SUFFICES ASSUME laps = 0
                 PROVE  /\ control.read_pos <= pos + total
                        /\ \A w \in DOMAIN log' : \/ End(w)' <= control.read_pos
                                                  \/ control.read_pos <= log'[w].start
      BY <1>2, <1>5 DEF FirstLap, Aligned
    <2>1. control.read_pos <= control.write_pos /\ Aligned(control.read_pos)
      BY <1>9 DEF ReadInv, FirstLap
    <2>2. control.read_pos <= pos BY <1>9, <2>1
    <2>3. control.read_pos <= pos + total BY <1>4, <2>2
    <2>4. \A w \in DOMAIN log : \/ End(w)' <= control.read_pos
                                \/ control.read_pos <= log'[w].start
      BY <1>2, <1>3, <2>1 DEF Aligned
    <2> QED BY <1>2, <2>2, <2>3, <2>4
  <1>11. FirstLapExact'
    <2> SUFFICES ASSUME laps = 0
                 PROVE  {w \in DOMAIN log' : log'[w].start < control.read_pos}
                            = Elements(returned) \cup skipped
      BY <1>2, <1>5 DEF FirstLapExact
    <2>1. {w \in DOMAIN log : log[w].start < control.read_pos}
             = Elements(returned) \cup skipped
      BY <1>9 DEF ReadInv, FirstLapExact
    <2>2. control.read_pos <= pos BY <1>9 DEF ReadInv, FirstLap
    <2>3. ~(log'[n].start < control.read_pos) BY <1>2, <1>4, <2>2
    <2>4. {w \in DOMAIN log' : log'[w].start < control.read_pos}
             = {w \in DOMAIN log : log[w].start < control.read_pos}
      BY <1>2, <2>3
    <2> QED BY <2>1, <2>4
  <1> QED BY <1>6, <1>7, <1>8, <1>10, <1>11 DEF ReadInv

\* A step that moves no position and returns nothing, and leaves a running
\* read_all alone or ends it.
LEMMA IdleRead ==
  ASSUME ReadInv, UNCHANGED <<log, control, returned, skipped>>,
         reading' => UNCHANGED <<reading, current_pos, records>>
  PROVE  ReadInv'
  <1>1. \A w : End(w)' = End(w) BY DEF End, Extent
  <1>2. \A p : Aligned(p)' <=> Aligned(p) BY <1>1 DEF Aligned
  <1>3. ReturnedOrder' BY DEF ReadInv, ReturnedOrder
  <1>4. Taken' BY <1>1 DEF ReadInv, Taken
  <1>5. Collected' BY <1>1 DEF ReadInv, Collected, StrictlyIncreasing
  <1>6. FirstLap' BY <1>2 DEF ReadInv, FirstLap
  <1>7. FirstLapExact' BY DEF ReadInv, FirstLapExact
  <1> QED BY <1>3, <1>4, <1>5, <1>6, <1>7 DEF ReadInv

\* read_all starts at the read position with nothing collected.
LEMMA BeginRead ==
  ASSUME PInv, ReadInv, ReadAllBegin
  PROVE  ReadInv'
  <1>1. /\ UNCHANGED <<log, control, returned, skipped>>
        /\ current_pos' = control.read_pos /\ records' = <<>>
    BY DEF ReadAllBegin
  <1>2. \A w : End(w)' = End(w) BY <1>1 DEF End, Extent
  <1>3. ReturnedOrder' BY <1>1 DEF ReadInv, ReturnedOrder
  <1>4. Taken' BY <1>1, <1>2 DEF ReadInv, Taken
  <1>5. /\ control.read_pos \in Nat
        /\ \A w \in DOMAIN log : log[w].start \in Nat
    BY Numbers
  <1>6. Len(records') = 0 BY <1>1
  <1>7. Collected' BY <1>1, <1>5, <1>6 DEF Collected, StrictlyIncreasing
  <1>8. FirstLap'
    <2> SUFFICES ASSUME control.wrap_count = 0
                 PROVE  /\ control.read_pos <= control.write_pos
                        /\ Aligned(control.read_pos)'
                        /\ \A w \in DOMAIN log :
                              control.read_pos <= log[w].start
                                 => ~(log[w].start < control.read_pos)
      BY <1>1 DEF FirstLap
    <2>1. Aligned(control.read_pos)' <=> Aligned(control.read_pos)
      BY <1>1, <1>2 DEF Aligned
    <2> QED BY <1>5, <2>1 DEF ReadInv, FirstLap
  <1>9. FirstLapExact' BY <1>1 DEF ReadInv, FirstLapExact
  <1> QED BY <1>3, <1>4, <1>7, <1>8, <1>9 DEF ReadInv

\* One read_at of read_all: a record that is collected is the next of the lap,
\* and in the first lap nothing lies between it and the one before.
LEMMA StepRead ==
  ASSUME PInv, LayoutInv, ReadInv, ReadAllStep
  PROVE  ReadInv'
  <1>1. /\ UNCHANGED <<log, control, returned, skipped>>
        /\ reading /\ current_pos < control.write_pos
    BY DEF ReadAllStep
  <1>2. \A w : End(w)' = End(w) BY <1>1 DEF End, Extent
  <1>3. /\ current_pos \in Nat /\ control.read_pos \in Nat
        /\ control.write_pos \in Nat /\ control.wrap_count \in Nat
        /\ \A w \in DOMAIN log :
              /\ w \in Nat /\ log[w].start \in Nat /\ log[w].lap \in Nat
              /\ End(w) \in Nat /\ log[w].start < End(w)
              /\ log[w].lap <= control.wrap_count
              /\ log[w].lap = control.wrap_count => End(w) <= control.write_pos
    BY Numbers
  <1>4. PICK r \in ReadAt(current_pos) :
          \/ /\ r.kind = "Some"
             /\ records' = Append(records, r.rec)
             /\ current_pos' = PastRecord(r.rec)
             /\ UNCHANGED reading
          \/ /\ r.kind = "None"
             /\ current_pos' = PastGap
             /\ UNCHANGED <<reading, records>>
          \/ /\ r.kind = "Err"
             /\ reading' = FALSE
    BY DEF ReadAllStep, ReadAllReturns
  <1>5. CASE /\ r.kind = "Some"
             /\ records' = Append(records, r.rec)
             /\ current_pos' = PastRecord(r.rec)
             /\ UNCHANGED reading
    <2>1. PICK v \in DOMAIN log :
            /\ v = r.rec /\ log[v].lap = control.wrap_count
            /\ log[v].start = current_pos /\ current_pos' = End(v)
      BY <1>1, <1>3, <1>5, ReadBelow DEF PastRecord, LayoutInv, ReadAllStep
    <2>2. /\ records \in Seq(Nat) /\ records' = Append(records, v)
          /\ \A k \in 1 .. Len(records) : records[k] \in DOMAIN log
          /\ v \in Nat
      BY <1>3, <1>5, <2>1, HistoryTypes
    <2>3. /\ Len(records') = Len(records) + 1
          /\ records'[Len(records) + 1] = v
          /\ \A k \in 1 .. Len(records) : records'[k] = records[k]
      BY <2>2
    <2>4. ReturnedOrder' BY <1>1 DEF ReadInv, ReturnedOrder
    <2>5. Taken' BY <1>1, <1>2 DEF ReadInv, Taken
    <2>6. /\ control.read_pos <= current_pos /\ StrictlyIncreasing(records)
          /\ \A k \in 1 .. Len(records) :
                /\ log[records[k]].lap = control.wrap_count
                /\ control.read_pos <= log[records[k]].start
                /\ End(records[k]) <= current_pos
      BY <1>1 DEF ReadInv, Collected
    <2>7. Collected'
      <3>1. \A k \in 1 .. Len(records) : records[k] < v
        <4> TAKE k \in 1 .. Len(records)
        <4>1. PICK u \in DOMAIN log : u = records[k] BY <2>2
        <4>2. log[u].lap = log[v].lap /\ End(u) <= log[v].start
          BY <2>1, <2>6, <4>1
        <4>3. u < v BY <4>2, PlaceOrder DEF LayoutInv
        <4> QED BY <4>1, <4>3
      <3>2. StrictlyIncreasing(records')
        BY <2>2, <2>6, <3>1, AppendIncreasing
      <3>3. control.read_pos <= current_pos' BY <1>3, <2>1, <2>6
      <3>4. ASSUME NEW k \in 1 .. Len(records')
            PROVE  /\ log[records'[k]].lap = control.wrap_count
                   /\ control.read_pos <= log[records'[k]].start
                   /\ End(records'[k]) <= current_pos'
        <4>1. CASE k \in 1 .. Len(records)
          <5>1. PICK u \in DOMAIN log : u = records[k] BY <2>2, <4>1
          <5>2. /\ log[u].lap = control.wrap_count
                /\ control.read_pos <= log[u].start
                /\ End(u) <= current_pos
            BY <2>6, <4>1, <5>1
          <5>3. End(u) <= current_pos' BY <1>3, <2>1, <5>2
          <5> QED BY <2>3, <4>1, <5>1, <5>2, <5>3
        <4>2. CASE k = Len(records) + 1
          <5>1. records'[k] = v BY <2>3, <4>2
          <5>2. End(v) <= current_pos' BY <1>3, <2>1
          <5> QED BY <2>1, <2>6, <5>1, <5>2
        <4>3. k \in 1 .. Len(records) \/ k = Len(records) + 1 BY <2>2, <2>3
        <4> QED BY <4>1, <4>2, <4>3
      <3> QED BY <1>1, <1>2, <3>2, <3>3, <3>4 DEF Collected
    <2>8. FirstLap'
      <3> SUFFICES ASSUME control.wrap_count = 0
                   PROVE  /\ control.read_pos <= control.write_pos
                          /\ Aligned(control.read_pos)'
                          /\ current_pos' <= control.write_pos
                          /\ Aligned(current_pos)'
                          /\ \A w \in DOMAIN log :
                                 /\ control.read_pos <= log[w].start
                                 /\ log[w].start < current_pos'
                                 => w \in Elements(records')
        BY <1>1 DEF FirstLap
      <3>1. /\ control.read_pos <= control.write_pos
            /\ Aligned(control.read_pos) /\ Aligned(current_pos)
            /\ \A w \in DOMAIN log :
                  control.read_pos <= log[w].start /\ log[w].start < current_pos
                     => w \in Elements(records)
        BY <1>1 DEF ReadInv, FirstLap
      <3>2. Aligned(control.read_pos)' BY <1>1, <1>2, <3>1 DEF Aligned
      <3>3. current_pos' <= control.write_pos BY <1>3, <2>1
      <3>4. \A w \in DOMAIN log : \/ End(w) <= log[v].start
                                  \/ w = v
                                  \/ End(v) <= log[w].start
        <4> TAKE w \in DOMAIN log
        <4>1. log[w].lap = 0 /\ log[v].lap = 0 BY <1>3
        <4>2. w < v \/ w = v \/ v < w BY <1>3
        <4> QED BY <4>1, <4>2 DEF LayoutInv, LogOrdered
      <3>5. Aligned(current_pos)'
        <4> SUFFICES ASSUME NEW w \in DOMAIN log
                     PROVE  End(w) <= End(v) \/ End(v) <= log[w].start
          BY <1>1, <1>2, <2>1 DEF Aligned
        <4> QED BY <1>3, <3>4
      <3>6. ASSUME NEW w \in DOMAIN log,
                   control.read_pos <= log[w].start, log[w].start < current_pos'
            PROVE  w \in Elements(records')
        <4>1. v \in Elements(records')
          BY <2>2, <2>3 DEF Elements
        <4>2. Elements(records) \subseteq Elements(records')
          BY <2>2, <2>3 DEF Elements
        <4>3. CASE w = v BY <4>1, <4>3
        <4>4. CASE End(w) <= log[v].start
          <5>1. log[w].start < current_pos BY <1>3, <2>1, <4>4
          <5> QED BY <3>1, <3>6, <4>2, <5>1
        <4>5. CASE End(v) <= log[w].start BY <1>3, <2>1, <3>6, <4>5
        <4> QED BY <3>4, <4>3, <4>4, <4>5
      <3> QED BY <3>1, <3>2, <3>3, <3>5, <3>6
    <2>9. FirstLapExact' BY <1>1 DEF ReadInv, FirstLapExact
    <2> QED BY <2>4, <2>5, <2>7, <2>8, <2>9 DEF ReadInv
  <1>6. CASE /\ r.kind = "None"
             /\ current_pos' = PastGap
             /\ UNCHANGED <<reading, records>>
    <2>1. current_pos <= current_pos' /\ current_pos' \in Nat
      BY <1>3, <1>6, SizeAssumption DEF PastGap
    <2>2. control.wrap_count # 0
      <3> SUFFICES ASSUME control.wrap_count = 0 PROVE FALSE OBVIOUS
      <3>1. Aligned(current_pos) BY <1>1 DEF ReadInv, FirstLap
      <3>2. PICK w \in DOMAIN log : ReadAt(current_pos) = {Some(w)}
        BY <1>1, <1>3, <3>1, ReadAligned DEF LayoutInv, ReadAllStep
      <3>3. r.kind = "Some" BY <3>2 DEF Some
      <3> QED BY <1>6, <3>3
    <2>3. ReturnedOrder' BY <1>1 DEF ReadInv, ReturnedOrder
    <2>4. Taken' BY <1>1, <1>2 DEF ReadInv, Taken
    <2>5. Collected'
      <3>1. /\ control.read_pos <= current_pos /\ StrictlyIncreasing(records)
            /\ \A k \in 1 .. Len(records) :
                  /\ records[k] \in DOMAIN log
                  /\ log[records[k]].lap = control.wrap_count
                  /\ control.read_pos <= log[records[k]].start
                  /\ End(records[k]) <= current_pos
        BY <1>1, HistoryTypes DEF ReadInv, Collected
      <3>2. \A k \in 1 .. Len(records) : End(records[k]) <= current_pos'
        BY <1>3, <2>1, <3>1
      <3>3. control.read_pos <= current_pos' BY <1>3, <2>1, <3>1
      <3> QED BY <1>1, <1>2, <1>6, <3>1, <3>2, <3>3
              DEF Collected, StrictlyIncreasing
    <2>6. FirstLap' /\ FirstLapExact'
      BY <1>1, <2>2 DEF FirstLap, FirstLapExact
    <2> QED BY <2>3, <2>4, <2>5, <2>6 DEF ReadInv
  <1>7. CASE r.kind = "Err" /\ reading' = FALSE BY <1>1, <1>7, IdleRead
  <1> QED BY <1>4, <1>5, <1>6, <1>7

\* Between the read position and the place where a read_all has come, in the
\* first lap, lie the records that it has collected.
LEMMA FirstLapCollected ==
  ASSUME PInv, ReadInv, reading, current_pos >= control.write_pos,
         control.wrap_count = 0
  PROVE  /\ current_pos = control.write_pos
         /\ Aligned(current_pos)
         /\ {w \in DOMAIN log : log[w].start < current_pos}
               = Elements(returned) \cup skipped \cup Elements(records)
  <1>1. /\ current_pos \in Nat /\ control.write_pos \in Nat
        /\ control.read_pos \in Nat
        /\ \A w \in DOMAIN log : /\ log[w].start \in Nat /\ End(w) \in Nat
                                 /\ log[w].start < End(w)
    BY Numbers
  <1>2. current_pos = control.write_pos /\ Aligned(current_pos)
    BY <1>1 DEF ReadInv, FirstLap
  <1>3. {w \in DOMAIN log : log[w].start < control.read_pos}
           = Elements(returned) \cup skipped
    BY DEF ReadInv, FirstLapExact
  <1>4. /\ control.read_pos <= current_pos
        /\ \A k \in 1 .. Len(records) :
              /\ records[k] \in DOMAIN log
              /\ End(records[k]) <= current_pos
    BY HistoryTypes DEF ReadInv, Collected
  <1>5. \A w \in Elements(records) : w \in DOMAIN log /\ log[w].start < current_pos
    BY <1>1, <1>4 DEF Elements
  <1>6. \A w \in DOMAIN log :
           log[w].start < current_pos /\ ~(log[w].start < control.read_pos)
               => w \in Elements(records)
    BY <1>1 DEF ReadInv, FirstLap
  <1>7. \A w \in DOMAIN log :
           log[w].start < control.read_pos => log[w].start < current_pos
    BY <1>1, <1>4
  <1> QED BY <1>2, <1>3, <1>5, <1>6, <1>7

\* What is true of the positions when a read_all has moved the read position.
LEMMA MovedRead ==
  ASSUME PInv, ReadInv, reading, current_pos >= control.write_pos,
         UNCHANGED log, control'.read_pos = current_pos,
         control'.write_pos = control.write_pos,
         control'.wrap_count = control.wrap_count, reading' = FALSE,
         Elements(returned') \cup skipped'
            = Elements(returned) \cup skipped \cup Elements(records),
         \A k \in 1 .. Len(returned') : returned'[k] \in DOMAIN log
  PROVE  Taken' /\ Collected' /\ FirstLap' /\ FirstLapExact'
  <1>1. \A w : End(w)' = End(w) BY DEF End, Extent
  <1>2. /\ current_pos \in Nat /\ control.write_pos \in Nat
        /\ \A w \in DOMAIN log :
              /\ End(w) \in Nat
              /\ log[w].lap = control.wrap_count => End(w) <= control.write_pos
    BY Numbers
  <1>3. Taken'
    <2>1. \A w \in DOMAIN log :
             log[w].lap = control.wrap_count => End(w) <= current_pos
      BY <1>2
    <2> QED BY <1>1, <2>1 DEF Taken
  <1>4. Collected' BY DEF Collected
  <1>5. FirstLap'
    <2>1. control.wrap_count = 0 => /\ current_pos <= control.write_pos
                                    /\ Aligned(current_pos)
      BY <1>2, FirstLapCollected
    <2> QED BY <1>1, <2>1 DEF FirstLap, Aligned
  <1>6. FirstLapExact' BY FirstLapCollected DEF FirstLapExact
  <1> QED BY <1>3, <1>4, <1>5, <1>6

\* The end of a read_all sets the read position to where it has come.
LEMMA ReadPosSaved ==
  ASSUME PInv, SaveControl([control EXCEPT !.read_pos = ReadAllPos])
  PROVE  /\ control'.read_pos = current_pos
         /\ control'.write_pos = control.write_pos
         /\ control'.wrap_count = control.wrap_count
  <1>1. current_pos \in 0 .. Size + HeaderSize - 1
    BY DEF PInv, TypeOK, ReadTypeOK
  <1> QED BY <1>1, Numbers, ReadPosMoves DEF SaveControl, ReadAllPos

\* What read_all has collected comes after everything returned before.
LEMMA ReturnedBelow ==
  ASSUME PInv, LayoutInv, ReadInv, reading
  PROVE  \A j \in 1 .. Len(returned), k \in 1 .. Len(records) :
            returned[j] < records[k]
  <1> TAKE j \in 1 .. Len(returned), k \in 1 .. Len(records)
  <1>1. PICK v \in DOMAIN log : v = returned[j] BY HistoryTypes
  <1>2. PICK w \in DOMAIN log : w = records[k] BY HistoryTypes
  <1>3. log[v].lap = control.wrap_count => End(v) <= control.read_pos
    BY <1>1 DEF ReadInv, Taken
  <1>4. log[w].lap = control.wrap_count /\ control.read_pos <= log[w].start
    BY <1>2 DEF ReadInv, Collected
  <1>5. /\ control.read_pos \in Nat /\ control.wrap_count \in Nat
        /\ log[v].lap \in Nat /\ log[v].lap <= control.wrap_count
        /\ End(v) \in Nat /\ log[w].start \in Nat
    BY Numbers
  <1>6. \/ log[v].lap < log[w].lap
        \/ log[v].lap = log[w].lap /\ End(v) <= log[w].start
    BY <1>3, <1>4, <1>5
  <1>7. v < w BY <1>6, PlaceOrder DEF LayoutInv
  <1> QED BY <1>1, <1>2, <1>7

\* read_all returns what it has collected.
LEMMA EndRead ==
  ASSUME PInv, LayoutInv, ReadInv, ReadAllEnd
  PROVE  ReadInv'
  <1>1. /\ reading /\ current_pos >= control.write_pos /\ reading' = FALSE
        /\ UNCHANGED <<log, skipped>> /\ returned' = returned \o records
        /\ SaveControl([control EXCEPT !.read_pos = ReadAllPos])
    BY DEF ReadAllEnd, ReadAllReturns
  <1>2. /\ records \in Seq(Nat) /\ returned \in Seq(Nat)
        /\ records \in Seq(DOMAIN log) /\ returned \in Seq(DOMAIN log)
    BY HistoryTypes, Numbers
  <1>3. StrictlyIncreasing(records) /\ StrictlyIncreasing(returned)
    BY <1>1 DEF ReadInv, Collected, ReturnedOrder
  <1>4. \A j \in 1 .. Len(returned), k \in 1 .. Len(records) :
           returned[j] < records[k]
    BY <1>1, ReturnedBelow
  <1>5. StrictlyIncreasing(returned \o records)
    BY <1>2, <1>3, <1>4, ConcatIncreasing
  <1>6. ReturnedOrder' BY <1>1, <1>5 DEF ReturnedOrder
  <1>7. Elements(returned') = Elements(returned) \cup Elements(records)
    BY <1>1, <1>2, ElementsConcat
  <1>8. \A k \in 1 .. Len(returned') : returned'[k] \in DOMAIN log
    BY <1>1, <1>2
  <1>9. /\ control'.read_pos = current_pos
        /\ control'.write_pos = control.write_pos
        /\ control'.wrap_count = control.wrap_count
    BY <1>1, ReadPosSaved
  <1>10. Taken' /\ Collected' /\ FirstLap' /\ FirstLapExact'
    BY <1>1, <1>7, <1>8, <1>9, MovedRead
  <1> QED BY <1>6, <1>10 DEF ReadInv

\* A read_all whose flush fails has moved the read position all the same.
LEMMA FlushErrorRead ==
  ASSUME PInv, ReadInv, ReadAllFlushError
  PROVE  ReadInv'
  <1>1. /\ reading /\ current_pos >= control.write_pos /\ reading' = FALSE
        /\ UNCHANGED <<log, returned>>
        /\ skipped' = skipped \cup Elements(records)
        /\ SaveControl([control EXCEPT !.read_pos = ReadAllPos])
    BY DEF ReadAllFlushError, ReadAllReturns
  <1>2. ReturnedOrder' BY <1>1 DEF ReadInv, ReturnedOrder
  <1>3. /\ control'.read_pos = current_pos
        /\ control'.write_pos = control.write_pos
        /\ control'.wrap_count = control.wrap_count
    BY <1>1, ReadPosSaved
  <1>4. \A k \in 1 .. Len(returned') : returned'[k] \in DOMAIN log
    BY <1>1, HistoryTypes
  <1>5. Elements(returned') \cup skipped'
           = Elements(returned) \cup skipped \cup Elements(records)
    BY <1>1
  <1>6. Taken' /\ Collected' /\ FirstLap' /\ FirstLapExact'
    BY <1>1, <1>3, <1>4, <1>5, MovedRead
  <1> QED BY <1>2, <1>6 DEF ReadInv

\* reset_read_position passes over everything written so far.
LEMMA ResetRead ==
  ASSUME PInv, ReadInv, ResetReadPosition
  PROVE  ReadInv'
  <1>1. /\ UNCHANGED <<log, returned>> /\ reading' = FALSE
        /\ skipped' = skipped \cup (DOMAIN log \ Elements(returned))
    BY DEF ResetReadPosition, Unlocked, readAllVars
  <1>2. /\ control'.read_pos = control.write_pos
        /\ control'.write_pos = control.write_pos
        /\ control'.wrap_count = control.wrap_count
    <2>1. control.write_pos \in 0 .. Size + HeaderSize - 1
      BY Numbers, SizeAssumption
    <2> QED BY <2>1, Numbers, ReadPosMoves
            DEF ResetReadPosition, SaveReset, SaveControl
  <1>3. \A w : End(w)' = End(w) BY <1>1 DEF End, Extent
  <1>4. /\ control.write_pos \in Nat /\ control.wrap_count \in Nat
        /\ \A w \in DOMAIN log :
              /\ log[w].start \in Nat /\ log[w].lap \in Nat
              /\ End(w) \in Nat /\ log[w].start < End(w)
              /\ log[w].lap <= control.wrap_count
              /\ log[w].lap = control.wrap_count => End(w) <= control.write_pos
    BY Numbers
  <1>5. ReturnedOrder' BY <1>1 DEF ReadInv, ReturnedOrder
  <1>6. Taken' BY <1>1, <1>2, <1>3, <1>4, HistoryTypes DEF Taken
  <1>7. Collected' BY <1>1 DEF Collected
  <1>8. control.wrap_count = 0 =>
           \A w \in DOMAIN log : /\ End(w) <= control.write_pos
                                 /\ log[w].start < control.write_pos
    BY <1>4
  <1>9. FirstLap' BY <1>1, <1>2, <1>3, <1>4, <1>8 DEF FirstLap, Aligned
  <1>10. FirstLapExact'
    <2> SUFFICES ASSUME control.wrap_count = 0
                 PROVE  {w \in DOMAIN log : log[w].start < control.write_pos}
                            = Elements(returned) \cup skipped'
      BY <1>1, <1>2 DEF FirstLapExact
    <2>1. {w \in DOMAIN log : log[w].start < control.write_pos} = DOMAIN log
      BY <1>8
    <2>2. Elements(returned) \cup skipped' = DOMAIN log
      BY <1>1, HistoryTypes
    <2> QED BY <2>1, <2>2
  <1> QED BY <1>5, <1>6, <1>7, <1>9, <1>10 DEF ReadInv

-----------------------------------------------------------------------------
(* The invariant and the theorems about read_all.                          *)

\* The invariant holds of a new file.
LEMMA LogInit == Init => LogInv
  <1> SUFFICES ASSUME Init PROVE LogInv OBVIOUS
  <1>1. /\ log = <<>> /\ returned = <<>> /\ skipped = {} /\ reading = FALSE
        /\ control.write_pos = 0 /\ control.read_pos = 0
    BY DEF Init, NewControlBlock, update_crc
  <1>2. DOMAIN log = {} /\ Len(returned) = 0 BY <1>1
  <1>3. LogOrdered BY <1>2 DEF LogOrdered
  <1>4. Tiled BY <1>1, SizeAssumption DEF Tiled, Offsets
  <1>5. ReturnedOrder /\ Taken /\ Collected
    BY <1>1, <1>2 DEF ReturnedOrder, StrictlyIncreasing, Taken, Collected
  <1>6. FirstLap BY <1>1, <1>2 DEF FirstLap, Aligned
  <1>7. FirstLapExact BY <1>1, <1>2 DEF FirstLapExact, Elements
  <1> QED BY <1>3, <1>4, <1>5, <1>6, <1>7, InvInit DEF LogInv, LayoutInv, ReadInv

\* Steps other than a write leave the records, the write position and the lap
\* alone.
LEMMA OnlyWrites ==
  ASSUME PInv, [Next]_vars, ~\E len \in Lengths : Write(len)
  PROVE  /\ UNCHANGED log
         /\ control'.write_pos = control.write_pos
         /\ control'.wrap_count = control.wrap_count
  <1>1. CASE ReadAllBegin BY <1>1 DEF ReadAllBegin
  <1>2. CASE ReadAllStep BY <1>2 DEF ReadAllStep
  <1>3. CASE ReadAllEnd BY <1>3, ReadPosSaved DEF ReadAllEnd
  <1>4. CASE ReadAllFlushError BY <1>4, ReadPosSaved DEF ReadAllFlushError
  <1>5. CASE ResetReadPosition
    <2>1. control.write_pos \in 0 .. Size + HeaderSize - 1
      BY Numbers, SizeAssumption
    <2> QED BY <1>5, <2>1, Numbers, ReadPosMoves
            DEF ResetReadPosition, SaveReset, SaveControl
  <1>6. CASE Close BY <1>6 DEF Close
  <1>7. CASE Open BY <1>7 DEF Open, PInv
  <1>8. CASE UNCHANGED vars BY <1>8 DEF vars
  <1>9. CASE \E len \in Lengths : DieInWrite(len) BY <1>9 DEF DieInWrite
  <1> QED BY <1>1, <1>2, <1>3, <1>4, <1>5, <1>6, <1>7, <1>8, <1>9
          DEF Next, ReadAll

\* Every step keeps the invariant.
LEMMA LogNext == LogInv /\ [Next]_vars => LogInv'
  <1> SUFFICES ASSUME LogInv, [Next]_vars PROVE LogInv' OBVIOUS
  <1>1. PInv /\ LayoutInv /\ ReadInv BY DEF LogInv
  <1>2. PInv' BY <1>1, InvNext
  <1>3. LayoutInv'
    <2>1. CASE \E len \in Lengths : Write(len) BY <1>1, <2>1, WriteLayout
    <2>2. CASE ~\E len \in Lengths : Write(len)
      BY <1>1, <2>2, OnlyWrites, QuietLayout
    <2> QED BY <2>1, <2>2
  <1>4. ReadInv'
    <2>1. ASSUME NEW len \in Lengths, Write(len) PROVE ReadInv'
      BY <1>1, <2>1, WriteRead
    <2>2. CASE ReadAllBegin BY <1>1, <2>2, BeginRead
    <2>3. CASE ReadAllStep BY <1>1, <2>3, StepRead
    <2>4. CASE ReadAllEnd BY <1>1, <2>4, EndRead
    <2>5. CASE ReadAllFlushError BY <1>1, <2>5, FlushErrorRead
    <2>6. CASE ResetReadPosition BY <1>1, <2>6, ResetRead
    <2>7. CASE Close BY <1>1, <2>7, IdleRead DEF Close, ReadAllReturns
    <2>8. CASE Open BY <1>1, <2>8, IdleRead DEF Open, PInv, readAllVars
    <2>9. CASE UNCHANGED vars BY <1>1, <2>9, IdleRead DEF vars, readAllVars
    <2>10. ASSUME NEW len \in Lengths, DieInWrite(len) PROVE ReadInv'
      BY <1>1, <2>10, IdleRead DEF DieInWrite, readAllVars
    <2> QED BY <2>1, <2>2, <2>3, <2>4, <2>5, <2>6, <2>7, <2>8, <2>9, <2>10
            DEF Next, ReadAll
  <1> QED BY <1>2, <1>3, <1>4 DEF LogInv

\* The inductive invariant holds in every reachable state.
THEOREM LogInvariance == Spec => []LogInv
  BY LogInit, LogNext, PTL DEF Spec

\* Over all calls, across wraps, errors and resets, read_all returns records in
\* the order they were written and none twice (persistent.rs 297-339).
THEOREM ReturnedInOrder == Spec => []ReturnedOrder
  <1>1. LogInv => ReturnedOrder BY DEF LogInv, ReadInv
  <1> QED BY <1>1, LogInvariance, PTL

\* Before the first wrap read_all loses nothing silently: what lies below the
\* read position was returned, reset over, or dropped with a flush error.
THEOREM FirstLapComplete == Spec => []FirstLapExact
  <1>1. LogInv => FirstLapExact BY DEF LogInv, ReadInv
  <1> QED BY <1>1, LogInvariance, PTL

-----------------------------------------------------------------------------
(* The ring implements the abstract log.                                   *)

\* A write appends its payload to the contents.
LEMMA WrittenAppend ==
  ASSUME PInv, NEW len \in Lengths, Write(len)
  PROVE  /\ Written' = Append(Written, len)
         /\ Len(Written) = Len(log)
  <1>1. PICK pos \in Nat, laps \in Nat, total \in Nat, n \in Nat :
           Wrote(len, pos, laps, total, n)
    BY WriteEffect DEF PInv
  <1>2. DOMAIN log = 1 .. Len(log) /\ Len(log) \in Nat BY Numbers
  <1>3. /\ n = Len(log) + 1 /\ DOMAIN log' = 1 .. n
        /\ \A w \in DOMAIN log : log'[w] = log[w]
        /\ log'[n].len = len
    BY <1>1, <1>2 DEF Wrote
  <1>4. \A w \in DOMAIN log : log[w].len \in Nat
    BY LogType DEF PInv, TypeOK
  <1>5. Written \in Seq(Nat) /\ Len(Written) = Len(log)
    BY <1>2, <1>4 DEF Written
  <1>6. len \in Nat BY SizeAssumption
  <1>7. /\ Written' \in Seq(Nat) /\ Len(Written') = Len(Written) + 1
        /\ Written'[Len(Written) + 1] = len
        /\ \A w \in 1 .. Len(Written) : Written'[w] = Written[w]
    <2>1. \A w \in 1 .. n : log'[w].len \in Nat BY <1>2, <1>3, <1>4, <1>6
    <2>2. Written' \in Seq(Nat) /\ Len(Written') = n BY <1>3, <2>1 DEF Written
    <2> QED BY <1>2, <1>3, <1>5, <2>2 DEF Written
  <1> QED BY <1>5, <1>6, <1>7, AppendIs

\* A write pushes out of the window only what is older than all that stays.
LEMMA WindowMoves ==
  ASSUME PInv, LayoutInv, NEW len \in Lengths, Write(len)
  PROVE  /\ Window' \subseteq Window \cup {Len(log) + 1}
         /\ Len(log) + 1 \in Window'
         /\ \A m \in Window', w \in Window : m <= w => w \in Window'
  <1>1. PICK pos \in Nat, laps \in Nat, total \in Nat, n \in Nat :
           Wrote(len, pos, laps, total, n)
    BY WriteEffect DEF PInv
  <1>2. /\ \/ pos = control.write_pos /\ laps = control.wrap_count
           \/ pos = 0 /\ laps = control.wrap_count + 1
        /\ control'.write_pos = pos + total /\ control'.wrap_count = laps
        /\ \A w \in DOMAIN log' : w = n \/ w \in DOMAIN log
        /\ DOMAIN log \subseteq DOMAIN log' /\ n \in DOMAIN log'
        /\ \A w \in DOMAIN log : w < n /\ w \in Nat
        /\ \A w \in DOMAIN log : log'[w] = log[w]
        /\ log'[n].lap = laps /\ n = Len(log) + 1
    <2>1. DOMAIN log = 1 .. Len(log) /\ Len(log) \in Nat BY Numbers
    <2> QED BY <1>1, <2>1 DEF Wrote
  <1>3. /\ control.write_pos \in Nat /\ control.wrap_count \in Nat
        /\ \A w \in DOMAIN log :
              /\ log[w].start \in Nat /\ log[w].lap \in Nat
              /\ End(w) \in Nat /\ log[w].start < End(w)
              /\ log[w].lap <= control.wrap_count
    BY Numbers
  <1>4. \A w \in DOMAIN log :
           Live(w)' <=> \/ log[w].lap = laps
                        \/ log[w].lap + 1 = laps /\ log[w].start >= pos + total
    BY <1>2 DEF Live
  <1>5. n \in Window' BY <1>2 DEF Window, Live
  <1>6. ASSUME NEW w \in Window', w # n PROVE w \in Window
    <2>1. w \in DOMAIN log /\ Live(w)' BY <1>2, <1>6 DEF Window
    <2>2. Live(w)
      <3>1. /\ log[w].lap \in Nat /\ log[w].start \in Nat
            /\ log[w].lap <= control.wrap_count
        BY <1>3, <2>1
      <3>2. log[w].lap = laps
              \/ (log[w].lap + 1 = laps /\ log[w].start >= pos + total)
        BY <1>4, <2>1
      <3>3. CASE pos = control.write_pos /\ laps = control.wrap_count
        BY <1>3, <3>1, <3>2, <3>3 DEF Live
      <3>4. CASE pos = 0 /\ laps = control.wrap_count + 1
        BY <1>3, <3>1, <3>2, <3>4 DEF Live
      <3> QED BY <1>2, <3>3, <3>4
    <2> QED BY <2>1, <2>2 DEF Window
  <1>7. ASSUME NEW m \in Window', NEW w \in Window, m <= w
        PROVE  w \in Window'
    <2>1. w \in DOMAIN log BY DEF Window
    <2>2. m \in DOMAIN log /\ Live(m)'
      <3>1. m \in DOMAIN log' /\ Live(m)' BY DEF Window
      <3>2. m # n BY <1>2, <1>7, <2>1
      <3> QED BY <1>2, <3>1, <3>2
    <2>3. CASE m = w BY <2>3
    <2>4. CASE m < w
      <3>1. \/ log[m].lap < log[w].lap
            \/ log[m].lap = log[w].lap /\ End(m) <= log[w].start
        BY <2>1, <2>2, <2>4 DEF LayoutInv, LogOrdered
      <3>2. \/ log[m].lap = laps
            \/ log[m].lap + 1 = laps /\ log[m].start >= pos + total
        BY <1>4, <2>2
      <3>3. \/ log[w].lap = laps
            \/ log[w].lap + 1 = laps /\ log[w].start >= pos + total
        <4>1. /\ log[w].lap \in Nat /\ log[w].lap <= laps
              /\ log[w].start \in Nat
          BY <1>2, <1>3, <2>1
        <4>2. /\ log[m].lap \in Nat /\ log[m].start \in Nat
              /\ End(m) \in Nat /\ log[m].start < End(m)
          BY <1>3, <2>2
        <4> QED BY <3>1, <3>2, <4>1, <4>2
      <3>4. Live(w)' BY <1>4, <2>1, <3>3
      <3> QED BY <1>2, <2>1, <3>4 DEF Window
    <2> QED BY <1>2, <1>7, <2>1, <2>2, <2>3, <2>4
  <1> QED BY <1>2, <1>5, <1>6, <1>7

\* A write is an append: the entries kept are those from the oldest of the new
\* window on.
LEMMA WriteAppends ==
  ASSUME PInv, LayoutInv, NEW len \in Lengths, Write(len)
  PROVE  Abstract!AppendEntry
  <1> DEFINE N == Len(log) + 1
  <1>1. Written' = Append(Written, len) /\ Len(Written) = Len(log)
    BY WrittenAppend
  <1>2. /\ Window' \subseteq Window \cup {N}
        /\ N \in Window'
        /\ \A m \in Window', w \in Window : m <= w => w \in Window'
    BY WindowMoves
  <1>3. /\ Len(log) \in Nat /\ DOMAIN log = 1 .. Len(log)
        /\ Window \subseteq 1 .. Len(log)
    BY Numbers DEF Window
  <1>4. Window' \subseteq 1 .. N BY <1>2, <1>3
  <1>5. PICK n \in Window' : \A m \in Window' : n <= m
    <2>1. Window' \subseteq Nat /\ Window' # {} BY <1>2, <1>3, <1>4
    <2> QED BY <2>1, NatMin
  <1>6. n \in 1 .. N BY <1>4
  <1>7. Window' = {w \in Window \cup {N} : w >= n}
    BY <1>2, <1>3, <1>5, <1>6
  <1>8. Abstract!Newest = N BY <1>1 DEF Abstract!Newest
  <1>9. returned' = returned BY DEF Write
  <1> QED BY <1>1, <1>6, <1>7, <1>8, <1>9 DEF Abstract!AppendEntry

\* What is written and the window, when no write happens.
LEMMA WindowStays ==
  ASSUME UNCHANGED log,
         control'.write_pos = control.write_pos,
         control'.wrap_count = control.wrap_count
  PROVE  Written' = Written /\ Window' = Window
  BY DEF Written, Window, Live

\* The end of read_all gives the consumer records of the window, in order.
LEMMA EndConsumes ==
  ASSUME LogInv, LogInv', ReadAllEnd
  PROVE  Abstract!Consume
  <1>1. /\ PInv /\ reading /\ returned' = returned \o records /\ UNCHANGED log
        /\ SaveControl([control EXCEPT !.read_pos = ReadAllPos])
    BY DEF ReadAllEnd, LogInv
  <1>2. Written' = Written /\ Window' = Window
    BY <1>1, ReadPosSaved, WindowStays
  <1>3. records \in Seq(Nat) /\ returned \in Seq(Nat) BY <1>1, HistoryTypes
  <1>4. \A k \in 1 .. Len(records) : records[k] \in Window
    BY <1>1, HistoryTypes DEF LogInv, ReadInv, Collected, Window, Live
  <1>5. Len(returned) <= Len(returned') BY <1>1, <1>3
  <1>6. \A k \in 1 .. Len(returned) : returned'[k] = returned[k] BY <1>1, <1>3
  <1>7. ASSUME NEW k \in Len(returned) + 1 .. Len(returned')
        PROVE  returned'[k] \in Window
    <2>1. /\ k - Len(returned) \in 1 .. Len(records)
          /\ returned'[k] = records[k - Len(returned)]
      BY <1>1, <1>3
    <2> QED BY <1>4, <2>1
  <1>8. \A j, k \in 1 .. Len(returned') : j < k => returned'[j] < returned'[k]
    BY DEF LogInv, ReadInv, ReturnedOrder, StrictlyIncreasing
  <1> QED BY <1>2, <1>5, <1>6, <1>7, <1>8 DEF Abstract!Consume

\* A step of the ring is a step of the abstract log, or leaves it alone.
LEMMA LogSteps ==
  LogInv /\ LogInv' /\ [Next]_vars => [Abstract!Next]_(Abstract!logVars)
  <1> SUFFICES ASSUME LogInv, LogInv', [Next]_vars
               PROVE  [Abstract!Next]_(Abstract!logVars)
    OBVIOUS
  <1>1. PInv /\ LayoutInv BY DEF LogInv
  <1>2. CASE \E len \in Lengths : Write(len)
    <2>1. Abstract!AppendEntry BY <1>1, <1>2, WriteAppends
    <2> QED BY <2>1 DEF Abstract!Next
  <1>3. CASE ReadAllEnd
    <2>1. Abstract!Consume BY <1>3, EndConsumes
    <2> QED BY <2>1 DEF Abstract!Next
  <1>4. CASE ~(\E len \in Lengths : Write(len)) /\ ~ReadAllEnd
    <2>1. Written' = Written /\ Window' = Window
      BY <1>1, <1>4, OnlyWrites, WindowStays
    <2>2. returned' = returned
      BY <1>4 DEF Next, ReadAll, ReadAllBegin, ReadAllStep, ReadAllFlushError,
                  ResetReadPosition, Close, Open, DieInWrite, vars
    <2> QED BY <2>1, <2>2 DEF Abstract!logVars
  <1> QED BY <1>2, <1>3, <1>4

\* The ring implements the abstract log, for every size of the region, the
\* header and the payloads: a write pushes only the oldest records out, reads,
\* resets, errors and restarts leave the window alone, and read_all hands out
\* records of the window in order (persistent.rs 151-360).
THEOREM RingImplementsLog == Spec => ImplementsLog
  <1>1. Init => Abstract!Init
    BY DEF Init, Abstract!Init, Written, Window
  <1>2. Spec => []LogInv BY LogInvariance
  <1> QED BY <1>1, <1>2, LogSteps, PTL DEF Spec, ImplementsLog, Abstract!Spec

=============================================================================
