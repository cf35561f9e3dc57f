------------------------- MODULE VolatileRingRecords -------------------------
(***************************************************************************)
(* Theorems about the records of VolatileRing: where a record is between   *)
(* the call that brings it and the read() that returns it.  They hold for  *)
(* every capacity, overflow bound, set of producers and number of calls.   *)
(***************************************************************************)
EXTENDS VolatileRingProofs, SequenceTheorems

-----------------------------------------------------------------------------
(* The inductive invariant.                                                *)

\* Only a drain makes the consumer reserve a slot.
ConsumerDrains ==
    pc[Consumer] \in ReservePoints \cup {"putback"} => op[Consumer] = "drain"

\* A written reservation holds its caller's record.
WrittenData ==
    SharedHandle =>
        \A t \in Threads : pc[t] = "written" => slot_data[SlotOf(t)] = rec[t]

\* The last taker of a slot is the record whose reservation is on it.
OwnTaker == \A t \in Threads : Owns(t) => taker[SlotOf(t)] = rec[t]

OwnInv == ConsumerDrains /\ WrittenData /\ OwnTaker

\* A thread with a record that is in no shared structure yet.
HandPoints == {"load", "try", "store", "setseq", "held", "written", "queue",
               "putback"}

InHand(t) == pc[t] \in HandPoints

\* Records are numbered by the calls of their producer.
Numbered(r) == r[2] <= calls[r[1]]

HandNumbered == \A t \in Threads : InHand(t) => Numbered(rec[t])

QueueNumbered ==
    \A j \in 1 .. Len(overflow_queue) : Numbered(overflow_queue[j])

SlotNumbered ==
    \A i \in SlotIds : slot_state[i] = "Ready" => Numbered(slot_data[i])

OutNumbered == \A k \in 1 .. Len(delivered) : Numbered(delivered[k])

\* A record in a thread's hand is nowhere else.
HandUnique ==
    \A t \in Threads : InHand(t) =>
        /\ \A u \in Threads : InHand(u) /\ rec[u] = rec[t] => u = t
        /\ \A j \in 1 .. Len(overflow_queue) : overflow_queue[j] # rec[t]
        /\ \A i \in SlotIds : slot_state[i] = "Ready" => slot_data[i] # rec[t]
        /\ \A k \in 1 .. Len(delivered) : delivered[k] # rec[t]

\* A record in the overflow queue is nowhere else.
QueueUnique ==
    \A j \in 1 .. Len(overflow_queue) :
        /\ \A k \in 1 .. Len(overflow_queue) :
              overflow_queue[k] = overflow_queue[j] => k = j
        /\ \A i \in SlotIds :
              slot_state[i] = "Ready" => slot_data[i] # overflow_queue[j]
        /\ \A k \in 1 .. Len(delivered) : delivered[k] # overflow_queue[j]

\* A committed record that waits for read() is nowhere else.
SlotUnique ==
    \A i \in SlotIds : slot_state[i] = "Ready" =>
        /\ \A j \in SlotIds :
              slot_state[j] = "Ready" /\ slot_data[j] = slot_data[i] => j = i
        /\ \A k \in 1 .. Len(delivered) : delivered[k] # slot_data[i]

AllNumbered == HandNumbered /\ QueueNumbered /\ SlotNumbered /\ OutNumbered

OnePlace == HandUnique /\ QueueUnique /\ SlotUnique /\ AtMostOnce

PlaceInv == AllNumbered /\ OnePlace

\* Index form of OverflowKeepsNewest: the queue, with the record read() has
\* taken from it, is the end of what was pushed.
Holding == InHand(Consumer)

KeepsNewest ==
    /\ Len(overflow_queue) + (IF Holding THEN 1 ELSE 0) <= MaxOverflow
    /\ Len(overflow_queue) + (IF Holding THEN 1 ELSE 0) <= Len(overflowed)
    /\ \A j \in 1 .. Len(overflow_queue) :
          overflow_queue[j] =
              overflowed[Len(overflowed) - Len(overflow_queue) + j]
    /\ Holding =>
          rec[Consumer] = overflowed[Len(overflowed) - Len(overflow_queue)]

\* Where a record that was accepted may be.
Returned(r) == \E k \in 1 .. Len(delivered) : delivered[k] = r

Stored(r) == \E i \in SlotIds : slot_state[i] = "Ready" /\ slot_data[i] = r

Queued(r) == \E j \in 1 .. Len(overflow_queue) : overflow_queue[j] = r

LostWithSlot(r) == \E i \in SlotIds : Leaked(i) /\ taker[i] = r

Kept(r) == \/ Returned(r) \/ Stored(r) \/ Queued(r)
           \/ r \in evicted \/ r \in Unsealed
           \/ LostWithSlot(r)
           \/ Holding /\ rec[Consumer] = r

\* What a writer is about to announce is in the ring, or read already.
CommittedKept ==
    \A t \in Threads : pc[t] \in {"seq", "notify"} =>
        Returned(rec[t]) \/ Stored(rec[t]) \/ rec[t] \in Unsealed

AcceptedKept == \A r \in accepted : Kept(r)

LossInv == CommittedKept /\ AcceptedKept

\* A producer has set ready, or is on its way to.
Announced == ready \/ \E t \in Threads : pc[t] \in {"seq", "notify"}

\* Where read() is between two scans, having looked at everything before
\* cons_seq.
Quiet == {"idle", "waiting", "lockqueue", "drain", "putback"} \cup ReservePoints

\* The scan's locals: it has consumed the slots from cons_seq to my_cons.
ScanLocals ==
    /\ pc[Consumer] \in {"scan", "recycle", "publish"} =>
          my_cons = cons_seq + checked /\ processed = checked
                                       /\ checked <= Capacity
    /\ pc[Consumer] = "recycle" => checked < Capacity

\* A slot that was filled again behind the scan is announced.
BehindScan ==
    pc[Consumer] \in {"scan", "recycle"} =>
        \A n \in Nat : cons_seq <= n /\ n < my_cons =>
            (slot_state[physical_index(n)] = "Ready" => Announced)

\* Outside a scan a readable head is announced.
HeadAnnounced ==
    /\ pc[Consumer] = "publish" =>
          (IsReadable(physical_index(my_cons), my_cons) => Announced)
    /\ pc[Consumer] \in Quiet =>
          (IsReadable(physical_index(cons_seq), cons_seq) => Announced)

WakeInv ==
    /\ ScanLocals
    /\ BehindScan
    /\ pc[Consumer] = "waiting" => ~ready
    /\ ~AllowTimeout => pc[Consumer] # "timedout" /\ HeadAnnounced

\* The next sequence number that the scan has not consumed.
Front == IF pc[Consumer] = "recycle" THEN my_cons + 1 ELSE my_cons

\* Every slot from the scan up to number a is taken.
Filled(a) ==
    /\ a <= my_cons + Capacity
    /\ \A n \in Nat : my_cons <= n /\ n < a =>
          slot_state[physical_index(n)] # "Empty"

\* Record r goes by number s: its writer works on it, or it is committed.
ClaimPoints == {"store", "setseq", "held", "written", "seq"}

Claims(r, s) ==
    \/ \E t \in Threads : pc[t] \in ClaimPoints /\ rec[t] = r /\ my_seq[t] = s
    \/ \E i \in SlotIds : /\ slot_state[i] = "Ready"
                          /\ slot_data[i] = r /\ slot_seq[i] = s

\* The scan can still come to it.
Live(r, s) == Claims(r, s) /\ s >= Front

Direct(r) == \A j \in 1 .. Len(overflowed) : overflowed[j] # r

\* The numbers in use lie beyond slots that are all taken.
NumbersFilled ==
    /\ Filled(prod_seq)
    /\ \A t \in Threads : pc[t] = "try" => Filled(my_seq[t])
    /\ \A r \in Records, s \in Nat : Live(r, s) => Filled(s + 1)

\* Live records of one producer are numbered in the order of its calls.
LiveOrdered ==
    \A r, q \in Records, s, m \in Nat :
        /\ Live(r, s) /\ Live(q, m)
        /\ r[1] = q[1] /\ Direct(r) /\ Direct(q)
        /\ r[2] <= q[2]
        => s <= m

\* They come after the producer's records that were read.
LiveAfterOut ==
    \A r \in Records, s \in Nat, k \in 1 .. Len(delivered) :
        /\ Live(r, s) /\ Direct(r) /\ Direct(delivered[k])
        /\ delivered[k][1] = r[1]
        => delivered[k][2] < r[2]

\* commit's late set_seq finds its own record, or comes after the scan.
SeqHolds ==
    \A t \in Threads : pc[t] = "seq" /\ my_seq[t] >= Front =>
        slot_state[SlotOf(t)] = "Ready" /\ slot_data[SlotOf(t)] = rec[t]

\* A late set_seq on a reserved slot leaves a number behind the scan.
SeqStored ==
    \A t \in Threads : pc[t] \in {"held", "written"} =>
        slot_seq[SlotOf(t)] = my_seq[t] \/ slot_seq[SlotOf(t)] < Front

\* What the consumer stores itself has overflowed.
DrainsOverflowed ==
    pc[Consumer] \in ClaimPoints \cup {"try"} => ~Direct(rec[Consumer])

Sequenced == NumbersFilled /\ LiveOrdered /\ LiveAfterOut /\ SeqHolds
               /\ SeqStored /\ DrainsOverflowed /\ ProducerOrder

\* A producer works on its latest call's record.
OwnRecord ==
    \A p \in Producers : pc[p] \in ReservePoints \cup {"queue"} =>
        rec[p] = <<p, calls[p]>>

\* Outside a scan the local sequence is the published one.
ConsAtRest ==
    pc[Consumer] \notin {"scan", "recycle", "publish"} => my_cons = cons_seq

OrderInv == OwnRecord /\ ConsAtRest /\ (~released => Sequenced)

RInv == IInv /\ OwnInv /\ PlaceInv /\ KeepsNewest /\ LossInv /\ WakeInv
          /\ OrderInv

-----------------------------------------------------------------------------
(* Reservations.                                                           *)

\* Every step of Next keeps ConsumerDrains.
LEMMA ConsumerDrainsStep ==
  ASSUME IInv, ConsumerDrains, Next
  PROVE  ConsumerDrains'
  <1> USE IndexType, ThreadsAssumption DEF IInv, TypeOK, SlotTypeOK, CallTypeOK,
      PcTypeOK, ReadTypeOK, Threads, slotVars, seqVars, callVars, readVars,
      history, AfterNone, AfterCommit, AfterFlagTest, ConsumerDrains,
      ReservePoints
  <1>1. ASSUME NEW p \in Producers, BeginCall(p) PROVE ConsumerDrains'
    BY <1>1 DEF BeginCall, Goto, SetState, SetSeq
  <1>2. ASSUME NEW p \in Producers, BeginOversized(p) PROVE ConsumerDrains'
    BY <1>2 DEF BeginOversized, Goto, SetState, SetSeq
  <1>3. ASSUME NEW t \in Threads, LoadProdSeq(t) PROVE ConsumerDrains'
    BY <1>3 DEF LoadProdSeq, Goto, SetState, SetSeq
  <1>4. ASSUME NEW t \in Threads, TryTransition(t) PROVE ConsumerDrains'
    BY <1>4 DEF TryTransition, Goto, SetState, SetSeq
  <1>5. ASSUME NEW t \in Threads, StoreProdSeq(t) PROVE ConsumerDrains'
    BY <1>5 DEF StoreProdSeq, Goto, SetState, SetSeq
  <1>6. ASSUME NEW t \in Threads, ReserveSetSeq(t) PROVE ConsumerDrains'
    BY <1>6 DEF ReserveSetSeq, Goto, SetState, SetSeq
  <1>7. ASSUME NEW t \in Threads, WriteData(t) PROVE ConsumerDrains'
    BY <1>7 DEF WriteData, Goto, SetState, SetSeq
  <1>8. ASSUME NEW t \in Threads, CommitTransition(t) PROVE ConsumerDrains'
    BY <1>8 DEF CommitTransition, Goto, SetState, SetSeq
  <1>9. ASSUME NEW t \in Threads, CommitSetSeq(t) PROVE ConsumerDrains'
    BY <1>9 DEF CommitSetSeq, Goto, SetState, SetSeq
  <1>10. ASSUME NEW t \in Threads, NotifyConsumer(t) PROVE ConsumerDrains'
    BY <1>10 DEF NotifyConsumer, Goto, SetState, SetSeq
  <1>11. ASSUME NEW p \in Producers, DropReservation(p) PROVE ConsumerDrains'
    BY <1>11 DEF DropReservation, Goto, SetState, SetSeq
  <1>12. ASSUME NEW p \in Producers, QueuePush(p) PROVE ConsumerDrains'
    BY <1>12 DEF QueuePush, Goto, SetState, SetSeq
  <1>13. ASSUME ReadBegin PROVE ConsumerDrains'
    BY <1>13 DEF ReadBegin, Goto, SetState, SetSeq
  <1>14. ASSUME ScanReady PROVE ConsumerDrains'
    BY <1>14 DEF ScanReady, Goto, SetState, SetSeq
  <1>15. ASSUME Recycle PROVE ConsumerDrains'
    BY <1>15 DEF Recycle, Goto, SetState, SetSeq
  <1>16. ASSUME ScanStop PROVE ConsumerDrains'
    BY <1>16 DEF ScanStop, Goto, SetState, SetSeq
  <1>17. ASSUME PublishConsSeq PROVE ConsumerDrains'
    BY <1>17 DEF PublishConsSeq, Goto, SetState, SetSeq
  <1>18. ASSUME LockQueue PROVE ConsumerDrains'
    BY <1>18 DEF LockQueue, Goto, SetState, SetSeq
  <1>19. ASSUME DrainNext PROVE ConsumerDrains'
    BY <1>19 DEF DrainNext, Goto, SetState, SetSeq
  <1>20. ASSUME PutBack PROVE ConsumerDrains'
    BY <1>20 DEF PutBack, Goto, SetState, SetSeq
  <1>21. ASSUME DrainDone PROVE ConsumerDrains'
    BY <1>21 DEF DrainDone, Goto, SetState, SetSeq
  <1>22. ASSUME WaitForData PROVE ConsumerDrains'
    BY <1>22 DEF WaitForData, Goto, SetState, SetSeq
  <1>23. ASSUME Woken PROVE ConsumerDrains'
    BY <1>23 DEF Woken, Goto, SetState, SetSeq
  <1>24. ASSUME Timeout PROVE ConsumerDrains'
    BY <1>24 DEF Timeout, Goto, SetState, SetSeq
  <1>25. ASSUME TimedOut PROVE ConsumerDrains'
    BY <1>25 DEF TimedOut, Goto, SetState, SetSeq
  <1> QED BY <1>1, <1>2, <1>3, <1>4, <1>5, <1>6, <1>7, <1>8, <1>9, <1>10, <1>11,
      <1>12, <1>13, <1>14, <1>15, <1>16, <1>17, <1>18, <1>19, <1>20, <1>21,
      <1>22, <1>23, <1>24, <1>25 DEF Next, Reserve, Commit, Read, Wait

\* Every step of Next keeps WrittenData.
LEMMA WrittenDataStep ==
  ASSUME IInv, WrittenData, Next
  PROVE  WrittenData'
  <1> USE IndexType, ThreadsAssumption DEF IInv, TypeOK, SlotTypeOK, CallTypeOK,
      PcTypeOK, ReadTypeOK, Threads, slotVars, seqVars, callVars, readVars,
      history, AfterNone, AfterCommit, AfterFlagTest, WrittenData, SlotOf,
      HasRecord, SlotOwnership, Owns
  <1>1. ASSUME NEW p \in Producers, BeginCall(p) PROVE WrittenData'
    BY <1>1 DEF BeginCall, Goto, SetState, SetSeq
  <1>2. ASSUME NEW p \in Producers, BeginOversized(p) PROVE WrittenData'
    BY <1>2 DEF BeginOversized, Goto, SetState, SetSeq
  <1>3. ASSUME NEW t \in Threads, LoadProdSeq(t) PROVE WrittenData'
    BY <1>3 DEF LoadProdSeq, Goto, SetState, SetSeq
  <1>4. ASSUME NEW t \in Threads, TryTransition(t) PROVE WrittenData'
    BY <1>4 DEF TryTransition, Goto, SetState, SetSeq
  <1>5. ASSUME NEW t \in Threads, StoreProdSeq(t) PROVE WrittenData'
    BY <1>5 DEF StoreProdSeq, Goto, SetState, SetSeq
  <1>6. ASSUME NEW t \in Threads, ReserveSetSeq(t) PROVE WrittenData'
    BY <1>6 DEF ReserveSetSeq, Goto, SetState, SetSeq
  <1>7. ASSUME NEW t \in Threads, WriteData(t) PROVE WrittenData'
    BY <1>7 DEF WriteData, Goto, SetState, SetSeq
  <1>8. ASSUME NEW t \in Threads, CommitTransition(t) PROVE WrittenData'
    BY <1>8 DEF CommitTransition, Goto, SetState, SetSeq
  <1>9. ASSUME NEW t \in Threads, CommitSetSeq(t) PROVE WrittenData'
    BY <1>9 DEF CommitSetSeq, Goto, SetState, SetSeq
  <1>10. ASSUME NEW t \in Threads, NotifyConsumer(t) PROVE WrittenData'
    BY <1>10 DEF NotifyConsumer, Goto, SetState, SetSeq
  <1>11. ASSUME NEW p \in Producers, DropReservation(p) PROVE WrittenData'
    BY <1>11 DEF DropReservation, Goto, SetState, SetSeq
  <1>12. ASSUME NEW p \in Producers, QueuePush(p) PROVE WrittenData'
    BY <1>12 DEF QueuePush, Goto, SetState, SetSeq
  <1>13. ASSUME ReadBegin PROVE WrittenData'
    BY <1>13 DEF ReadBegin, Goto, SetState, SetSeq
  <1>14. ASSUME ScanReady PROVE WrittenData'
    BY <1>14 DEF ScanReady, Goto, SetState, SetSeq
  <1>15. ASSUME Recycle PROVE WrittenData'
    BY <1>15 DEF Recycle, Goto, SetState, SetSeq
  <1>16. ASSUME ScanStop PROVE WrittenData'
    BY <1>16 DEF ScanStop, Goto, SetState, SetSeq
  <1>17. ASSUME PublishConsSeq PROVE WrittenData'
    BY <1>17 DEF PublishConsSeq, Goto, SetState, SetSeq
  <1>18. ASSUME LockQueue PROVE WrittenData'
    BY <1>18 DEF LockQueue, Goto, SetState, SetSeq
  <1>19. ASSUME DrainNext PROVE WrittenData'
    BY <1>19 DEF DrainNext, Goto, SetState, SetSeq
  <1>20. ASSUME PutBack PROVE WrittenData'
    BY <1>20 DEF PutBack, Goto, SetState, SetSeq
  <1>21. ASSUME DrainDone PROVE WrittenData'
    BY <1>21 DEF DrainDone, Goto, SetState, SetSeq
  <1>22. ASSUME WaitForData PROVE WrittenData'
    BY <1>22 DEF WaitForData, Goto, SetState, SetSeq
  <1>23. ASSUME Woken PROVE WrittenData'
    BY <1>23 DEF Woken, Goto, SetState, SetSeq
  <1>24. ASSUME Timeout PROVE WrittenData'
    BY <1>24 DEF Timeout, Goto, SetState, SetSeq
  <1>25. ASSUME TimedOut PROVE WrittenData'
    BY <1>25 DEF TimedOut, Goto, SetState, SetSeq
  <1> QED BY <1>1, <1>2, <1>3, <1>4, <1>5, <1>6, <1>7, <1>8, <1>9, <1>10, <1>11,
      <1>12, <1>13, <1>14, <1>15, <1>16, <1>17, <1>18, <1>19, <1>20, <1>21,
      <1>22, <1>23, <1>24, <1>25 DEF Next, Reserve, Commit, Read, Wait

\* Every step of Next keeps OwnTaker.
LEMMA OwnTakerStep ==
  ASSUME IInv, OwnTaker, Next
  PROVE  OwnTaker'
  <1> USE IndexType, ThreadsAssumption DEF IInv, TypeOK, SlotTypeOK, CallTypeOK,
      PcTypeOK, ReadTypeOK, HistoryTypeOK, Threads, slotVars, seqVars, callVars,
      readVars, history, AfterNone, AfterCommit, AfterFlagTest, OwnTaker,
      SlotOf, Owns, SlotOwnership
  <1>1. ASSUME NEW p \in Producers, BeginCall(p) PROVE OwnTaker'
    BY <1>1 DEF BeginCall, Goto, SetState, SetSeq
  <1>2. ASSUME NEW p \in Producers, BeginOversized(p) PROVE OwnTaker'
    BY <1>2 DEF BeginOversized, Goto, SetState, SetSeq
  <1>3. ASSUME NEW t \in Threads, LoadProdSeq(t) PROVE OwnTaker'
    BY <1>3 DEF LoadProdSeq, Goto, SetState, SetSeq
  <1>4. ASSUME NEW t \in Threads, TryTransition(t) PROVE OwnTaker'
    <2>1. /\ UNCHANGED <<my_seq, rec>> /\ ~Owns(t) /\ SlotOf(t) \in SlotIds
          /\ \A u \in Threads : Owns(u) => u # t
      BY <1>4 DEF TryTransition
    <2>2. CASE /\ slot_state[SlotOf(t)] = "Empty"
               /\ taker' = [taker EXCEPT ![SlotOf(t)] = rec[t]]
               /\ pc' = [pc EXCEPT ![t] = "store"]
      <3>1. taker'[SlotOf(t)] = rec[t] BY <2>1, <2>2
      <3>2. ASSUME NEW u \in Threads \ {t}, Owns(u)'
            PROVE  taker'[SlotOf(u)'] = rec'[u]
        <4>1. Owns(u) BY <2>2, <3>2
        <4>2. SlotOf(u) # SlotOf(t) /\ SlotOf(u) \in SlotIds
          BY <2>2, <4>1
        <4> QED BY <2>1, <2>2, <4>1, <4>2
      <3> QED BY <2>1, <3>1, <3>2
    <2>3. CASE /\ UNCHANGED taker
               /\ pc' = [pc EXCEPT ![t] = IF GivesUp(t) THEN AfterNone(t)
                                          ELSE "load"]
      <3>1. pc'[t] \notin {"store", "setseq", "held", "written"} BY <2>3
      <3>2. \A u \in Threads : Owns(u)' => Owns(u) BY <2>3, <3>1
      <3> QED BY <2>1, <2>3, <3>2
    <2> QED BY <1>4, <2>2, <2>3 DEF TryTransition, Goto, CanReserve
  <1>5. ASSUME NEW t \in Threads, StoreProdSeq(t) PROVE OwnTaker'
    BY <1>5 DEF StoreProdSeq, Goto, SetState, SetSeq
  <1>6. ASSUME NEW t \in Threads, ReserveSetSeq(t) PROVE OwnTaker'
    BY <1>6 DEF ReserveSetSeq, Goto, SetState, SetSeq
  <1>7. ASSUME NEW t \in Threads, WriteData(t) PROVE OwnTaker'
    BY <1>7 DEF WriteData, Goto, SetState, SetSeq
  <1>8. ASSUME NEW t \in Threads, CommitTransition(t) PROVE OwnTaker'
    BY <1>8 DEF CommitTransition, Goto, SetState, SetSeq, HandleState
  <1>9. ASSUME NEW t \in Threads, CommitSetSeq(t) PROVE OwnTaker'
    BY <1>9 DEF CommitSetSeq, Goto, SetState, SetSeq
  <1>10. ASSUME NEW t \in Threads, NotifyConsumer(t) PROVE OwnTaker'
    BY <1>10 DEF NotifyConsumer, Goto, SetState, SetSeq
  <1>11. ASSUME NEW p \in Producers, DropReservation(p) PROVE OwnTaker'
    BY <1>11 DEF DropReservation, Goto, SetState, SetSeq, ReleaseSlot, HandleState
  <1>12. ASSUME NEW p \in Producers, QueuePush(p) PROVE OwnTaker'
    BY <1>12 DEF QueuePush, Goto, SetState, SetSeq
  <1>13. ASSUME ReadBegin PROVE OwnTaker'
    BY <1>13 DEF ReadBegin, Goto, SetState, SetSeq
  <1>14. ASSUME ScanReady PROVE OwnTaker'
    BY <1>14 DEF ScanReady, Goto, SetState, SetSeq
  <1>15. ASSUME Recycle PROVE OwnTaker'
    BY <1>15 DEF Recycle, Goto, SetState, SetSeq
  <1>16. ASSUME ScanStop PROVE OwnTaker'
    BY <1>16 DEF ScanStop, Goto, SetState, SetSeq
  <1>17. ASSUME PublishConsSeq PROVE OwnTaker'
    BY <1>17 DEF PublishConsSeq, Goto, SetState, SetSeq
  <1>18. ASSUME LockQueue PROVE OwnTaker'
    BY <1>18 DEF LockQueue, Goto, SetState, SetSeq
  <1>19. ASSUME DrainNext PROVE OwnTaker'
    BY <1>19 DEF DrainNext, Goto, SetState, SetSeq
  <1>20. ASSUME PutBack PROVE OwnTaker'
    BY <1>20 DEF PutBack, Goto, SetState, SetSeq
  <1>21. ASSUME DrainDone PROVE OwnTaker'
    BY <1>21 DEF DrainDone, Goto, SetState, SetSeq
  <1>22. ASSUME WaitForData PROVE OwnTaker'
    BY <1>22 DEF WaitForData, Goto, SetState, SetSeq
  <1>23. ASSUME Woken PROVE OwnTaker'
    BY <1>23 DEF Woken, Goto, SetState, SetSeq
  <1>24. ASSUME Timeout PROVE OwnTaker'
    BY <1>24 DEF Timeout, Goto, SetState, SetSeq
  <1>25. ASSUME TimedOut PROVE OwnTaker'
    BY <1>25 DEF TimedOut, Goto, SetState, SetSeq
  <1> QED BY <1>1, <1>2, <1>3, <1>4, <1>5, <1>6, <1>7, <1>8, <1>9, <1>10, <1>11,
      <1>12, <1>13, <1>14, <1>15, <1>16, <1>17, <1>18, <1>19, <1>20, <1>21,
      <1>22, <1>23, <1>24, <1>25 DEF Next, Reserve, Commit, Read, Wait

\* A leaked slot is leaked for good: nobody else's handle reaches it, and it is
\* never Empty for a new taker.
LeakStays ==
    \A i \in SlotIds : Leaked(i) => Leaked(i)' /\ taker'[i] = taker[i]

\* Every step of Next leaves the leaked slots alone.
LEMMA LeakStaysStep ==
  ASSUME IInv, Next
  PROVE  LeakStays
  <1> USE IndexType, ThreadsAssumption DEF IInv, TypeOK, SlotTypeOK, CallTypeOK,
      PcTypeOK, ReadTypeOK, HistoryTypeOK, Threads, slotVars, seqVars, callVars,
      readVars, history, AfterNone, AfterCommit, AfterFlagTest, LeakStays,
      Leaked, SlotOf, Owns, SlotOwnership
  <1>1. ASSUME NEW p \in Producers, BeginCall(p) PROVE LeakStays
    BY <1>1 DEF BeginCall, Goto, SetState, SetSeq
  <1>2. ASSUME NEW p \in Producers, BeginOversized(p) PROVE LeakStays
    BY <1>2 DEF BeginOversized, Goto, SetState, SetSeq
  <1>3. ASSUME NEW t \in Threads, LoadProdSeq(t) PROVE LeakStays
    BY <1>3 DEF LoadProdSeq, Goto, SetState, SetSeq
  <1>4. ASSUME NEW t \in Threads, TryTransition(t) PROVE LeakStays
    BY <1>4 DEF TryTransition, Goto, SetState, SetSeq, CanReserve
  <1>5. ASSUME NEW t \in Threads, StoreProdSeq(t) PROVE LeakStays
    BY <1>5 DEF StoreProdSeq, Goto, SetState, SetSeq
  <1>6. ASSUME NEW t \in Threads, ReserveSetSeq(t) PROVE LeakStays
    BY <1>6 DEF ReserveSetSeq, Goto, SetState, SetSeq
  <1>7. ASSUME NEW t \in Threads, WriteData(t) PROVE LeakStays
    BY <1>7 DEF WriteData, Goto, SetState, SetSeq
  <1>8. ASSUME NEW t \in Threads, CommitTransition(t) PROVE LeakStays
    BY <1>8 DEF CommitTransition, Goto, SetState, SetSeq, HandleState
  <1>9. ASSUME NEW t \in Threads, CommitSetSeq(t) PROVE LeakStays
    BY <1>9 DEF CommitSetSeq, Goto, SetState, SetSeq
  <1>10. ASSUME NEW t \in Threads, NotifyConsumer(t) PROVE LeakStays
    BY <1>10 DEF NotifyConsumer, Goto, SetState, SetSeq
  <1>11. ASSUME NEW p \in Producers, DropReservation(p) PROVE LeakStays
    <2>1. /\ UNCHANGED <<my_seq, taker>> /\ Owns(p) /\ p \in Threads
          /\ pc' = [pc EXCEPT ![p] = "idle"]
          /\ \/ UNCHANGED slot_state
             \/ slot_state' = [slot_state EXCEPT ![SlotOf(p)] = "Empty"]
      BY <1>11 DEF DropReservation, Goto, SetState, ReleaseSlot, HandleState
    <2>2. \A t \in Threads : Owns(t)' => Owns(t) BY <2>1
    <2> QED BY <2>1, <2>2
  <1>12. ASSUME NEW p \in Producers, QueuePush(p) PROVE LeakStays
    BY <1>12 DEF QueuePush, Goto, SetState, SetSeq
  <1>13. ASSUME ReadBegin PROVE LeakStays
    BY <1>13 DEF ReadBegin, Goto, SetState, SetSeq
  <1>14. ASSUME ScanReady PROVE LeakStays
    <2>1. PICK i \in SlotIds : i = physical_index(my_cons) OBVIOUS
    <2>2. /\ UNCHANGED <<my_seq, taker>> /\ slot_state[i] = "Ready"
          /\ slot_state' = [slot_state EXCEPT ![i] = "Consumed"]
          /\ pc' = [pc EXCEPT ![Consumer] = "recycle"]
      BY <1>14, <2>1 DEF ScanReady, Goto, SetState, IsReadable
    <2>3. \A t \in Threads : Owns(t)' => Owns(t) BY <2>2
    <2> QED BY <2>2, <2>3
  <1>15. ASSUME Recycle PROVE LeakStays
    <2>1. PICK i \in SlotIds : i = physical_index(my_cons) OBVIOUS
    <2>2. /\ UNCHANGED <<my_seq, taker>> /\ slot_state[i] = "Consumed"
          /\ slot_state' = [slot_state EXCEPT ![i] = "Empty"]
          /\ pc' = [pc EXCEPT ![Consumer] = "scan"]
      BY <1>15, <2>1 DEF Recycle, Goto, SetState, RecycleConsumed
    <2>3. \A t \in Threads : Owns(t)' => Owns(t) BY <2>2
    <2> QED BY <2>2, <2>3
  <1>16. ASSUME ScanStop PROVE LeakStays
    BY <1>16 DEF ScanStop, Goto, SetState, SetSeq
  <1>17. ASSUME PublishConsSeq PROVE LeakStays
    BY <1>17 DEF PublishConsSeq, Goto, SetState, SetSeq
  <1>18. ASSUME LockQueue PROVE LeakStays
    BY <1>18 DEF LockQueue, Goto, SetState, SetSeq
  <1>19. ASSUME DrainNext PROVE LeakStays
    BY <1>19 DEF DrainNext, Goto, SetState, SetSeq
  <1>20. ASSUME PutBack PROVE LeakStays
    BY <1>20 DEF PutBack, Goto, SetState, SetSeq
  <1>21. ASSUME DrainDone PROVE LeakStays
    BY <1>21 DEF DrainDone, Goto, SetState, SetSeq
  <1>22. ASSUME WaitForData PROVE LeakStays
    BY <1>22 DEF WaitForData, Goto, SetState, SetSeq
  <1>23. ASSUME Woken PROVE LeakStays
    BY <1>23 DEF Woken, Goto, SetState, SetSeq
  <1>24. ASSUME Timeout PROVE LeakStays
    BY <1>24 DEF Timeout, Goto, SetState, SetSeq
  <1>25. ASSUME TimedOut PROVE LeakStays
    BY <1>25 DEF TimedOut, Goto, SetState, SetSeq
  <1> QED BY <1>1, <1>2, <1>3, <1>4, <1>5, <1>6, <1>7, <1>8, <1>9, <1>10, <1>11,
      <1>12, <1>13, <1>14, <1>15, <1>16, <1>17, <1>18, <1>19, <1>20, <1>21,
      <1>22, <1>23, <1>24, <1>25 DEF Next, Reserve, Commit, Read, Wait

-----------------------------------------------------------------------------
(* Every record is in one place.                                           *)

\* Append keeps the indices and adds one.
LEMMA AppendIndex ==
  ASSUME NEW S, NEW s \in Seq(S), NEW e \in S
  PROVE  /\ Len(Append(s, e)) = Len(s) + 1
         /\ Append(s, e)[Len(s) + 1] = e
         /\ \A j \in 1 .. Len(s) : Append(s, e)[j] = s[j]
  OBVIOUS

\* Tail shifts the indices down.
LEMMA TailIndex ==
  ASSUME NEW S, NEW s \in Seq(S), s # <<>>
  PROVE  /\ Len(s) \in Nat \ {0}
         /\ Tail(s) \in Seq(S)
         /\ Len(Tail(s)) = Len(s) - 1
         /\ Head(s) = s[1] /\ s[1] \in S
         /\ \A j \in 1 .. Len(s) - 1 : Tail(s)[j] = s[j + 1]
  OBVIOUS

\* push_front shifts the indices up.
LEMMA FrontIndex ==
  ASSUME NEW S, NEW s \in Seq(S), NEW e \in S
  PROVE  /\ <<e>> \o s \in Seq(S)
         /\ Len(<<e>> \o s) = Len(s) + 1
         /\ (<<e>> \o s)[1] = e
         /\ \A j \in 1 .. Len(s) : (<<e>> \o s)[j + 1] = s[j]
  OBVIOUS

\* A push appends the record, after dropping the oldest of a full queue.
LEMMA EnqueueIndex ==
  ASSUME NEW q \in Seq(Records), NEW r \in Records
  PROVE  \E d \in {0, 1} :
           /\ d <= Len(q)
           /\ d = 0 => Len(q) < MaxOverflow
           /\ d = 1 => Len(q) >= MaxOverflow
           /\ Len(Enqueue(q, r)) = Len(q) + 1 - d
           /\ Enqueue(q, r)[Len(q) + 1 - d] = r
           /\ \A j \in 1 .. Len(q) - d : Enqueue(q, r)[j] = q[j + d]
  <1>1. CASE Len(q) < MaxOverflow
    BY <1>1, AppendIndex DEF Enqueue
  <1>2. CASE Len(q) >= MaxOverflow
    <2>1. q # <<>> /\ Len(q) \in Nat BY <1>2, BoundsAssumption
    <2>2. Enqueue(q, r) = Append(Tail(q), r)
      BY <1>2, <2>1, BoundsAssumption DEF Enqueue
    <2>3. /\ Tail(q) \in Seq(Records)
          /\ Len(Tail(q)) = Len(q) - 1
          /\ \A j \in 1 .. Len(q) - 1 : Tail(q)[j] = q[j + 1]
          /\ Len(q) \in Nat \ {0}
      BY <2>1, TailIndex
    <2> DEFINE s == Tail(q)
    <2>4. /\ Len(Append(s, r)) = Len(s) + 1
          /\ Append(s, r)[Len(s) + 1] = r
          /\ \A j \in 1 .. Len(s) : Append(s, r)[j] = s[j]
      BY <2>3, AppendIndex
    <2> WITNESS 1 \in {0, 1}
    <2> QED BY <1>2, <2>2, <2>3, <2>4
  <1> QED BY <1>1, <1>2, BoundsAssumption

\* Numbers stay assigned when calls are made.
LEMMA NumberedGrows ==
  ASSUME TypeOK, TypeOK', \A p \in Producers : calls[p] <= calls'[p]
  PROVE  \A r \in Records : Numbered(r) => Numbered(r)'
  <1> SUFFICES ASSUME NEW r \in Records, Numbered(r) PROVE Numbered(r)'
    OBVIOUS
  <1>1. r[1] \in Producers /\ r[2] \in Nat BY BoundsAssumption DEF Records
  <1> QED BY <1>1, BoundsAssumption DEF Numbered, TypeOK, CallTypeOK

\* A step that moves no record keeps every record in its place.
LEMMA PlaceFrame ==
  ASSUME IInv, TypeOK', PlaceInv,
         UNCHANGED <<rec, overflow_queue, delivered>>,
         \A t \in Threads : InHand(t)' => InHand(t),
         \A i \in SlotIds : slot_state'[i] = "Ready" =>
             slot_state[i] = "Ready" /\ slot_data'[i] = slot_data[i],
         \A p \in Producers : calls[p] <= calls'[p]
  PROVE  PlaceInv'
  <1>1. \A r \in Records : Numbered(r) => Numbered(r)'
    BY NumberedGrows DEF IInv
  <1>2. \A t \in Threads : InHand(t) => rec[t] \in Records
    BY DEF IInv, HasRecord, InHand, HandPoints, ReservePoints
  <1>3. AllNumbered'
    <2>1. HandNumbered' BY <1>1, <1>2 DEF PlaceInv, AllNumbered, HandNumbered
    <2>2. QueueNumbered'
      BY <1>1 DEF PlaceInv, AllNumbered, QueueNumbered, IInv, TypeOK,
         SharedTypeOK
    <2>3. SlotNumbered'
      BY <1>1 DEF PlaceInv, AllNumbered, SlotNumbered, IInv, ReadyHasData
    <2>4. OutNumbered'
      BY <1>1 DEF PlaceInv, AllNumbered, OutNumbered, IInv, TypeOK,
         HistoryTypeOK
    <2> QED BY <2>1, <2>2, <2>3, <2>4 DEF AllNumbered
  <1>4. HandUnique' BY DEF PlaceInv, OnePlace, HandUnique
  <1>5. QueueUnique' BY DEF PlaceInv, OnePlace, QueueUnique
  <1>6. SlotUnique' BY DEF PlaceInv, OnePlace, SlotUnique
  <1>7. AtMostOnce' BY DEF PlaceInv, OnePlace, AtMostOnce
  <1> QED BY <1>3, <1>4, <1>5, <1>6, <1>7 DEF PlaceInv, OnePlace

\* BeginCall puts a record with a new number in the producer's hand.
LEMMA BeginCallPlace ==
  ASSUME IInv, TypeOK', PlaceInv, NEW p \in Producers, BeginCall(p)
  PROVE  PlaceInv'
  <1>0. PICK r : r = <<p, calls[p] + 1>> OBVIOUS
  <1> p \in Threads BY DEF Threads
  <1>1. /\ rec' = [rec EXCEPT ![p] = r]
        /\ pc' = [pc EXCEPT ![p] = "load"]
        /\ calls' = [calls EXCEPT ![p] = @ + 1]
        /\ UNCHANGED <<slot_state, slot_data, overflow_queue, delivered>>
    BY <1>0 DEF BeginCall, Goto, slotVars, history
  <1>2. calls \in [Producers -> 0 .. MaxCalls] /\ r \in Records
    BY <1>0, BoundsAssumption DEF IInv, TypeOK, CallTypeOK, BeginCall, Records
  <1>3. /\ \A q \in Producers : calls[q] <= calls'[q]
        /\ ~Numbered(r) /\ Numbered(r)'
    BY <1>0, <1>1, <1>2, BoundsAssumption DEF Numbered
  <1>4. \A x \in Records : Numbered(x) => Numbered(x)'
    BY <1>3, NumberedGrows DEF IInv
  <1>5. \A t \in Threads : InHand(t) => rec[t] \in Records
    BY DEF IInv, HasRecord, InHand, HandPoints, ReservePoints
  <1>6. /\ rec \in [Threads -> Records \cup {NoRecord}]
        /\ pc \in [Threads -> PcValues \cup ConsumerPcValues]
    BY DEF IInv, TypeOK, CallTypeOK, PcTypeOK
  <1>7. /\ InHand(p)' /\ rec'[p] = r /\ ~InHand(p)
        /\ \A t \in Threads \ {p} : (InHand(t)' <=> InHand(t))
                                        /\ rec'[t] = rec[t]
    BY <1>1, <1>6 DEF InHand, HandPoints, BeginCall
  <1>8. AllNumbered'
    <2>1. HandNumbered'
      BY <1>3, <1>4, <1>5, <1>7 DEF PlaceInv, AllNumbered, HandNumbered
    <2>2. QueueNumbered'
      BY <1>1, <1>4 DEF PlaceInv, AllNumbered, QueueNumbered, IInv, TypeOK,
         SharedTypeOK
    <2>3. SlotNumbered'
      BY <1>1, <1>4 DEF PlaceInv, AllNumbered, SlotNumbered, IInv, ReadyHasData
    <2>4. OutNumbered'
      BY <1>1, <1>4 DEF PlaceInv, AllNumbered, OutNumbered, IInv, TypeOK,
         HistoryTypeOK
    <2> QED BY <2>1, <2>2, <2>3, <2>4 DEF AllNumbered
  <1>9. HandUnique'
    <2>1. /\ \A t \in Threads : InHand(t) => rec[t] # r
          /\ \A j \in 1 .. Len(overflow_queue) : overflow_queue[j] # r
          /\ \A i \in SlotIds : slot_state[i] = "Ready" => slot_data[i] # r
          /\ \A k \in 1 .. Len(delivered) : delivered[k] # r
      BY <1>3 DEF PlaceInv, AllNumbered, HandNumbered, QueueNumbered,
         SlotNumbered, OutNumbered
    <2> QED BY <1>1, <1>7, <2>1 DEF PlaceInv, OnePlace, HandUnique
  <1>10. QueueUnique' /\ SlotUnique' /\ AtMostOnce'
    BY <1>1 DEF PlaceInv, OnePlace, QueueUnique, SlotUnique, AtMostOnce
  <1> QED BY <1>8, <1>9, <1>10 DEF PlaceInv, OnePlace

\* CommitTransition moves the record from its writer's hand to the slot.
LEMMA CommitPlace ==
  ASSUME IInv, TypeOK', WrittenData, PlaceInv, NEW t \in Threads,
         CommitTransition(t)
  PROVE  PlaceInv'
  <1> DEFINE i == SlotOf(t)
  <1>1. /\ UNCHANGED <<rec, overflow_queue, delivered, slot_data, calls>>
        /\ i \in SlotIds
    BY IndexType DEF CommitTransition, callVars, SlotOf, IInv, TypeOK,
       CallTypeOK
  <1>2. /\ InHand(t) /\ ~InHand(t)'
        /\ \A u \in Threads : InHand(u)' => InHand(u) /\ u # t
    BY DEF CommitTransition, InHand, HandPoints, Goto, AfterCommit, IInv,
       TypeOK, PcTypeOK
  <1>3. \A p \in Producers : calls[p] <= calls'[p]
    BY <1>1, BoundsAssumption DEF IInv, TypeOK, CallTypeOK
  <1>4. CASE HandleState(t) = "Reserved"
    <2>1. /\ slot_state' = [slot_state EXCEPT ![i] = "Ready"]
          /\ slot_data[i] = rec[t] /\ rec[t] \in Records
      BY <1>4, HandleShared DEF CommitTransition, SetState, SlotOf, WrittenData,
         IInv, HasRecord, ReservePoints
    <2>2. \A j \in SlotIds : slot_state'[j] = "Ready" <=>
                                j = i \/ slot_state[j] = "Ready"
      BY <1>1, <2>1 DEF IInv, TypeOK, SlotTypeOK
    <2> HIDE DEF i
    <2>3. \A x \in Records : Numbered(x) => Numbered(x)'
      BY <1>3, NumberedGrows DEF IInv
    <2>4. AllNumbered'
      BY <1>1, <1>2, <2>1, <2>2 DEF PlaceInv, AllNumbered, HandNumbered,
         QueueNumbered, SlotNumbered, OutNumbered, Numbered
    <2>5. HandUnique'
      BY <1>1, <1>2, <2>1, <2>2 DEF PlaceInv, OnePlace, HandUnique
    <2>6. QueueUnique'
      BY <1>1, <1>2, <2>1, <2>2 DEF PlaceInv, OnePlace, HandUnique, QueueUnique
    <2>7. SlotUnique'
      BY <1>1, <1>2, <2>1, <2>2 DEF PlaceInv, OnePlace, HandUnique, SlotUnique
    <2>8. AtMostOnce' BY <1>1 DEF PlaceInv, OnePlace, AtMostOnce
    <2> QED BY <2>4, <2>5, <2>6, <2>7, <2>8 DEF PlaceInv, OnePlace
  <1>5. CASE HandleState(t) # "Reserved"
    <2>1. UNCHANGED slot_state BY <1>5 DEF CommitTransition
    <2> QED BY <1>1, <1>2, <1>3, <2>1, PlaceFrame
  <1> QED BY <1>4, <1>5

\* QueuePush moves the record from the writer's hand to the queue.
LEMMA PushPlace ==
  ASSUME IInv, TypeOK', PlaceInv, NEW p \in Producers, QueuePush(p)
  PROVE  PlaceInv'
  <1> p \in Threads BY DEF Threads
  <1>1. /\ UNCHANGED <<rec, slot_state, delivered, slot_data, calls>>
        /\ overflow_queue' = Enqueue(overflow_queue, rec[p])
        /\ rec[p] \in Records
    BY DEF QueuePush, callVars, slotVars, IInv, HasRecord
  <1>2. /\ InHand(p) /\ ~InHand(p)'
        /\ \A u \in Threads : InHand(u)' => InHand(u) /\ u # p
    BY DEF QueuePush, InHand, HandPoints, Goto, IInv, TypeOK, PcTypeOK
  <1>3. overflow_queue \in Seq(Records) BY DEF IInv, TypeOK, SharedTypeOK
  <1>4. PICK d \in {0, 1} :
           /\ d <= Len(overflow_queue)
           /\ Len(overflow_queue') = Len(overflow_queue) + 1 - d
           /\ overflow_queue'[Len(overflow_queue) + 1 - d] = rec[p]
           /\ \A j \in 1 .. Len(overflow_queue) - d :
                overflow_queue'[j] = overflow_queue[j + d]
    BY <1>1, <1>3, EnqueueIndex
  <1>5. Len(overflow_queue) \in Nat BY <1>3
  <1>6. \A j \in 1 .. Len(overflow_queue') :
           \/ j = Len(overflow_queue') /\ overflow_queue'[j] = rec[p]
           \/ /\ j + d \in 1 .. Len(overflow_queue)
              /\ overflow_queue'[j] = overflow_queue[j + d]
              /\ j < Len(overflow_queue')
    BY <1>4, <1>5
  <1>7. AllNumbered'
    BY <1>1, <1>2, <1>6 DEF PlaceInv, AllNumbered, HandNumbered, QueueNumbered,
       SlotNumbered, OutNumbered, Numbered
  <1>8. HandUnique'
    BY <1>1, <1>2, <1>6 DEF PlaceInv, OnePlace, HandUnique
  <1>9. QueueUnique'
    <2> SUFFICES ASSUME NEW j \in 1 .. Len(overflow_queue')
                 PROVE  /\ \A k \in 1 .. Len(overflow_queue') :
                              overflow_queue'[k] = overflow_queue'[j] => k = j
                        /\ \A i \in SlotIds : slot_state[i] = "Ready" =>
                              slot_data[i] # overflow_queue'[j]
                        /\ \A k \in 1 .. Len(delivered) :
                              delivered[k] # overflow_queue'[j]
      BY <1>1 DEF QueueUnique
    <2>1. CASE j = Len(overflow_queue') /\ overflow_queue'[j] = rec[p]
      BY <1>2, <1>6, <2>1 DEF PlaceInv, OnePlace, HandUnique
    <2>2. CASE /\ j + d \in 1 .. Len(overflow_queue)
               /\ overflow_queue'[j] = overflow_queue[j + d]
               /\ j < Len(overflow_queue')
      BY <1>2, <1>4, <1>5, <1>6, <2>2 DEF PlaceInv, OnePlace, HandUnique,
         QueueUnique
    <2> QED BY <1>6, <2>1, <2>2
  <1>10. SlotUnique' /\ AtMostOnce'
    BY <1>1 DEF PlaceInv, OnePlace, SlotUnique, AtMostOnce
  <1> QED BY <1>7, <1>8, <1>9, <1>10 DEF PlaceInv, OnePlace

\* ScanReady moves the record from its slot to the records returned.
LEMMA ScanPlace ==
  ASSUME IInv, TypeOK', PlaceInv, ScanReady
  PROVE  PlaceInv'
  <1>1. PICK i \in SlotIds : i = physical_index(my_cons)
    BY IndexType DEF IInv, TypeOK, ReadTypeOK
  <1>2. PICK r : r = slot_data[i] OBVIOUS
  <1>3. /\ UNCHANGED <<rec, overflow_queue, slot_data, calls>>
        /\ delivered' = delivered \/ delivered' = Append(delivered, r)
        /\ slot_state[i] = "Ready"
        /\ slot_state' = [slot_state EXCEPT ![i] = "Consumed"]
    BY <1>1, <1>2 DEF ScanReady, IsReadable, SetState, callVars
  <1>4. r \in Records /\ delivered \in Seq(Records)
    BY <1>2, <1>3 DEF IInv, ReadyHasData, TypeOK, HistoryTypeOK
  <1>5. /\ Len(delivered) \in Nat
        /\ \A k \in 1 .. Len(delivered') :
             \/ k \in 1 .. Len(delivered) /\ delivered'[k] = delivered[k]
             \/ k = Len(delivered) + 1 /\ delivered'[k] = r
    <2>1. CASE delivered' = delivered BY <1>4, <2>1
    <2>2. CASE delivered' = Append(delivered, r) BY <1>4, <2>2, AppendIndex
    <2> QED BY <1>3, <2>1, <2>2
  <1>6. \A j \in SlotIds : slot_state'[j] = "Ready" =>
                              j # i /\ slot_state[j] = "Ready"
    BY <1>3 DEF IInv, TypeOK, SlotTypeOK
  <1>7. \A t \in Threads : InHand(t)' => InHand(t)
    BY DEF ScanReady, Goto, InHand, HandPoints, IInv, TypeOK, PcTypeOK
  <1>8. AllNumbered'
    BY <1>2, <1>3, <1>5, <1>6, <1>7 DEF PlaceInv, AllNumbered, HandNumbered,
       QueueNumbered, SlotNumbered, OutNumbered, Numbered
  <1>9. HandUnique'
    BY <1>2, <1>3, <1>5, <1>6, <1>7 DEF PlaceInv, OnePlace, HandUnique
  <1>10. QueueUnique'
    BY <1>2, <1>3, <1>5, <1>6 DEF PlaceInv, OnePlace, QueueUnique
  <1>11. SlotUnique'
    BY <1>2, <1>3, <1>5, <1>6 DEF PlaceInv, OnePlace, SlotUnique
  <1>12. AtMostOnce'
    BY <1>2, <1>3, <1>5 DEF PlaceInv, OnePlace, SlotUnique, AtMostOnce
  <1> QED BY <1>8, <1>9, <1>10, <1>11, <1>12 DEF PlaceInv, OnePlace

\* DrainNext moves the oldest queued record to the consumer's hand.
LEMMA DrainPlace ==
  ASSUME IInv, TypeOK', PlaceInv, DrainNext
  PROVE  PlaceInv'
  <1> Consumer \in Threads BY DEF Threads
  <1>1. overflow_queue \in Seq(Records) /\ overflow_queue # <<>>
    BY DEF IInv, TypeOK, SharedTypeOK, DrainNext
  <1>2. PICK n \in Nat \ {0} : n = Len(overflow_queue)
    BY <1>1, TailIndex
  <1>3. /\ UNCHANGED <<delivered, slot_state, slot_data, calls>>
        /\ rec' = [rec EXCEPT ![Consumer] = overflow_queue[1]]
        /\ overflow_queue' = Tail(overflow_queue)
        /\ pc' = [pc EXCEPT ![Consumer] = "load"]
        /\ pc[Consumer] = "drain"
    BY <1>1, TailIndex DEF DrainNext, Popped, slotVars, history, Goto
  <1>4. /\ Len(overflow_queue') = n - 1
        /\ \A j \in 1 .. n - 1 : overflow_queue'[j] = overflow_queue[j + 1]
    BY <1>1, <1>2, <1>3, TailIndex
  <1>5. /\ InHand(Consumer)' /\ rec'[Consumer] = overflow_queue[1]
        /\ \A u \in Threads \ {Consumer} : (InHand(u)' <=> InHand(u))
                                               /\ rec'[u] = rec[u]
    BY <1>3 DEF InHand, HandPoints, IInv, TypeOK, PcTypeOK, CallTypeOK
  <1>6. AllNumbered'
    <2>1. HandNumbered' /\ QueueNumbered'
      BY <1>2, <1>3, <1>4, <1>5 DEF PlaceInv, AllNumbered, HandNumbered,
         QueueNumbered, Numbered
    <2>2. SlotNumbered' /\ OutNumbered'
      BY <1>3 DEF PlaceInv, AllNumbered, SlotNumbered, OutNumbered, Numbered
    <2> QED BY <2>1, <2>2 DEF AllNumbered
  <1>7. HandUnique'
    BY <1>2, <1>3, <1>4, <1>5 DEF PlaceInv, OnePlace, HandUnique, QueueUnique
  <1>8. QueueUnique'
    BY <1>2, <1>3, <1>4 DEF PlaceInv, OnePlace, QueueUnique
  <1>9. SlotUnique' /\ AtMostOnce'
    BY <1>3 DEF PlaceInv, OnePlace, SlotUnique, AtMostOnce
  <1> QED BY <1>6, <1>7, <1>8, <1>9 DEF PlaceInv, OnePlace

\* PutBack moves the record from the consumer's hand to the queue's front.
LEMMA PutBackPlace ==
  ASSUME IInv, TypeOK', PlaceInv, PutBack
  PROVE  PlaceInv'
  <1> Consumer \in Threads BY DEF Threads
  <1>1. /\ UNCHANGED <<rec, delivered, slot_state, slot_data, calls>>
        /\ overflow_queue' = <<rec[Consumer]>> \o overflow_queue
        /\ rec[Consumer] \in Records
        /\ overflow_queue \in Seq(Records)
    BY DEF PutBack, Restored, slotVars, callVars, history, IInv, HasRecord,
       TypeOK, SharedTypeOK
  <1>2. PICK n \in Nat : n = Len(overflow_queue) BY <1>1
  <1>3. /\ Len(overflow_queue') = n + 1
        /\ overflow_queue'[1] = rec[Consumer]
        /\ \A j \in 1 .. n : overflow_queue'[j + 1] = overflow_queue[j]
    BY <1>1, <1>2, FrontIndex
  <1>4. \A j \in 1 .. n + 1 :
           \/ j = 1 /\ overflow_queue'[j] = rec[Consumer]
           \/ j - 1 \in 1 .. n /\ overflow_queue'[j] = overflow_queue[j - 1]
    <2> TAKE j \in 1 .. n + 1
    <2>1. CASE j = 1 BY <1>3, <2>1
    <2>2. CASE j # 1
      <3>1. j - 1 \in 1 .. n /\ (j - 1) + 1 = j BY <2>2
      <3> QED BY <1>3, <3>1
    <2> QED BY <2>1, <2>2
  <1>5. /\ InHand(Consumer) /\ ~InHand(Consumer)'
        /\ \A u \in Threads : InHand(u)' => InHand(u) /\ u # Consumer
    BY DEF PutBack, Goto, InHand, HandPoints, IInv, TypeOK, PcTypeOK
  <1>6. AllNumbered'
    BY <1>1, <1>2, <1>3, <1>4, <1>5 DEF PlaceInv, AllNumbered, HandNumbered,
       QueueNumbered, SlotNumbered, OutNumbered, Numbered
  <1>7. HandUnique'
    BY <1>1, <1>2, <1>3, <1>4, <1>5 DEF PlaceInv, OnePlace, HandUnique
  <1>8. QueueUnique'
    <2> SUFFICES ASSUME NEW j \in 1 .. n + 1
                 PROVE  /\ \A k \in 1 .. n + 1 :
                              overflow_queue'[k] = overflow_queue'[j] => k = j
                        /\ \A i \in SlotIds : slot_state[i] = "Ready" =>
                              slot_data[i] # overflow_queue'[j]
                        /\ \A k \in 1 .. Len(delivered) :
                              delivered[k] # overflow_queue'[j]
      BY <1>1, <1>3 DEF QueueUnique
    <2>1. CASE j = 1 /\ overflow_queue'[j] = rec[Consumer]
      BY <1>2, <1>4, <1>5, <2>1 DEF PlaceInv, OnePlace, HandUnique
    <2>2. CASE j - 1 \in 1 .. n /\ overflow_queue'[j] = overflow_queue[j - 1]
      <3>1. PICK a \in 1 .. n :
               a = j - 1 /\ overflow_queue'[j] = overflow_queue[a]
        BY <2>2
      <3>2. /\ \A i \in SlotIds : slot_state[i] = "Ready" =>
                  slot_data[i] # overflow_queue[a]
            /\ \A k \in 1 .. Len(delivered) : delivered[k] # overflow_queue[a]
            /\ \A k \in 1 .. n : overflow_queue[k] = overflow_queue[a] => k = a
        BY <1>2 DEF PlaceInv, OnePlace, QueueUnique
      <3>3. rec[Consumer] # overflow_queue[a]
        BY <1>2, <1>5 DEF PlaceInv, OnePlace, HandUnique
      <3>4. ASSUME NEW k \in 1 .. n + 1, overflow_queue'[k] = overflow_queue[a]
            PROVE  k = j
        <4>1. CASE k = 1 /\ overflow_queue'[k] = rec[Consumer]
          BY <3>3, <3>4, <4>1
        <4>2. CASE /\ k - 1 \in 1 .. n
                   /\ overflow_queue'[k] = overflow_queue[k - 1]
          <5>1. k - 1 = a BY <3>2, <3>4, <4>2
          <5> QED BY <3>1, <5>1
        <4> QED BY <1>4, <4>1, <4>2
      <3> QED BY <3>1, <3>2, <3>4
    <2> QED BY <1>4, <2>1, <2>2
  <1>9. SlotUnique' /\ AtMostOnce'
    BY <1>1 DEF PlaceInv, OnePlace, SlotUnique, AtMostOnce
  <1> QED BY <1>6, <1>7, <1>8, <1>9 DEF PlaceInv, OnePlace

\* A step takes no record in hand, moves none and commits none.
Still ==
    /\ UNCHANGED <<rec, overflow_queue, delivered, overflowed, evicted>>
    /\ \A t \in Threads : InHand(t)' => InHand(t)
    /\ \A i \in SlotIds : slot_state'[i] = "Ready" =>
          slot_state[i] = "Ready" /\ slot_data'[i] = slot_data[i]
    /\ \A p \in Producers : calls[p] <= calls'[p]

\* All but six actions move no record.
LEMMA StillSteps ==
  ASSUME IInv, Next,
         \A p \in Producers : ~BeginCall(p) /\ ~QueuePush(p),
         \A t \in Threads : ~CommitTransition(t),
         ~ScanReady, ~DrainNext, ~PutBack
  PROVE  Still
  <1> USE IndexType, ThreadsAssumption, BoundsAssumption DEF IInv, TypeOK,
      SlotTypeOK, CallTypeOK, PcTypeOK, ReadTypeOK, Still, InHand, HandPoints,
      slotVars, seqVars, callVars, readVars, history, AfterNone, AfterCommit,
      AfterFlagTest, Threads
  <1>1. ASSUME NEW p \in Producers, BeginOversized(p) PROVE Still
    BY <1>1 DEF BeginOversized, Goto
  <1>2. ASSUME NEW t \in Threads, LoadProdSeq(t) PROVE Still
    BY <1>2 DEF LoadProdSeq, Goto
  <1>3. ASSUME NEW t \in Threads, TryTransition(t) PROVE Still
    BY <1>3 DEF TryTransition, Goto, SetState, CanReserve
  <1>4. ASSUME NEW t \in Threads, StoreProdSeq(t) PROVE Still
    BY <1>4 DEF StoreProdSeq, Goto
  <1>5. ASSUME NEW t \in Threads, ReserveSetSeq(t) PROVE Still
    BY <1>5 DEF ReserveSetSeq, Goto, SetSeq
  <1>6. ASSUME NEW t \in Threads, WriteData(t) PROVE Still
    BY <1>6 DEF WriteData, Goto, SlotOwnership, SlotOf, Owns
  <1>7. ASSUME NEW t \in Threads, CommitSetSeq(t) PROVE Still
    BY <1>7 DEF CommitSetSeq, Goto, SetSeq
  <1>8. ASSUME NEW t \in Threads, NotifyConsumer(t) PROVE Still
    BY <1>8 DEF NotifyConsumer, Goto
  <1>9. ASSUME NEW p \in Producers, DropReservation(p) PROVE Still
    BY <1>9 DEF DropReservation, Goto, ReleaseSlot, SetState
  <1>10. ASSUME ReadBegin PROVE Still
    BY <1>10 DEF ReadBegin, Goto
  <1>11. ASSUME Recycle PROVE Still
    BY <1>11 DEF Recycle, Goto, SetState
  <1>12. ASSUME ScanStop PROVE Still
    BY <1>12 DEF ScanStop, Goto
  <1>13. ASSUME PublishConsSeq PROVE Still
    BY <1>13 DEF PublishConsSeq, Goto
  <1>14. ASSUME LockQueue PROVE Still
    BY <1>14 DEF LockQueue, Goto
  <1>15. ASSUME DrainDone PROVE Still
    <2>1. /\ UNCHANGED <<rec, overflow_queue, delivered, overflowed, evicted,
                      slot_state, slot_data, calls>>
          /\ pc' = [pc EXCEPT ![Consumer] = "idle"]
      BY <1>15, Zenon DEF DrainDone, Goto, slotVars, callVars, history
    <2> QED BY <2>1
  <1>16. ASSUME WaitForData PROVE Still
    BY <1>16 DEF WaitForData, Goto
  <1>17. ASSUME Woken PROVE Still
    BY <1>17 DEF Woken, Goto
  <1>18. ASSUME Timeout PROVE Still
    BY <1>18 DEF Timeout, Goto
  <1>19. ASSUME TimedOut PROVE Still
    BY <1>19 DEF TimedOut, Goto
  <1> QED BY <1>1, <1>2, <1>3, <1>4, <1>5, <1>6, <1>7, <1>8, <1>9, <1>10, <1>11,
      <1>12, <1>13, <1>14, <1>15, <1>16, <1>17, <1>18, <1>19 DEF Next, Reserve,
      Commit, Read, Wait

\* Every step of Next keeps every record in one place.
LEMMA PlaceStep ==
  ASSUME IInv, WrittenData, PlaceInv, Next
  PROVE  PlaceInv'
  <1>1. TypeOK' BY TypeStep
  <1>2. ASSUME NEW p \in Producers, BeginCall(p) PROVE PlaceInv'
    BY <1>1, <1>2, BeginCallPlace
  <1>3. ASSUME NEW p \in Producers, QueuePush(p) PROVE PlaceInv'
    BY <1>1, <1>3, PushPlace
  <1>4. ASSUME NEW t \in Threads, CommitTransition(t) PROVE PlaceInv'
    BY <1>1, <1>4, CommitPlace
  <1>5. CASE ScanReady BY <1>1, <1>5, ScanPlace
  <1>6. CASE DrainNext BY <1>1, <1>6, DrainPlace
  <1>7. CASE PutBack BY <1>1, <1>7, PutBackPlace
  <1>8. CASE Still BY <1>1, <1>8, PlaceFrame DEF Still
  <1> QED BY <1>2, <1>3, <1>4, <1>5, <1>6, <1>7, <1>8, StillSteps

-----------------------------------------------------------------------------
(* The overflow queue.                                                     *)

\* A step that leaves the queue alone and takes nothing in hand.
LEMMA NewestFrame ==
  ASSUME IInv, KeepsNewest, UNCHANGED <<overflow_queue, overflowed>>,
         Holding' => Holding /\ rec'[Consumer] = rec[Consumer]
  PROVE  KeepsNewest'
  <1>1. Len(overflow_queue) \in Nat /\ Len(overflowed) \in Nat
    BY DEF IInv, TypeOK, SharedTypeOK, HistoryTypeOK
  <1>2. (IF Holding' THEN 1 ELSE 0) <= (IF Holding THEN 1 ELSE 0)
    OBVIOUS
  <1> QED BY <1>1, <1>2, BoundsAssumption DEF KeepsNewest

\* QueuePush appends to what was pushed and drops the oldest of a full queue.
\* It waits for the lock, so read() holds nothing then.
LEMMA PushNewest ==
  ASSUME IInv, KeepsNewest, NEW p \in Producers, QueuePush(p)
  PROVE  KeepsNewest'
  <1> p \in Threads BY DEF Threads
  <1>1. /\ overflow_queue' = Enqueue(overflow_queue, rec[p])
        /\ overflowed' = Append(overflowed, rec[p])
        /\ rec[p] \in Records
        /\ overflow_queue \in Seq(Records) /\ overflowed \in Seq(Records)
    BY DEF QueuePush, IInv, HasRecord, TypeOK, SharedTypeOK, HistoryTypeOK
  <1>2. ~Holding /\ ~Holding'
    BY ThreadsAssumption DEF QueuePush, Draining, Holding, InHand, HandPoints,
       ReservePoints, Goto, IInv, TypeOK, PcTypeOK, ConsumerPcValues
  <1>3. PICK d \in {0, 1} :
           /\ d <= Len(overflow_queue)
           /\ d = 0 => Len(overflow_queue) < MaxOverflow
           /\ Len(overflow_queue') = Len(overflow_queue) + 1 - d
           /\ overflow_queue'[Len(overflow_queue) + 1 - d] = rec[p]
           /\ \A j \in 1 .. Len(overflow_queue) - d :
                overflow_queue'[j] = overflow_queue[j + d]
    BY <1>1, EnqueueIndex
  <1>4. PICK n \in Nat, m \in Nat :
           n = Len(overflow_queue) /\ m = Len(overflowed)
    BY <1>1
  <1>5. /\ Len(overflowed') = m + 1
        /\ overflowed'[m + 1] = rec[p]
        /\ \A j \in 1 .. m : overflowed'[j] = overflowed[j]
    BY <1>1, <1>4, AppendIndex
  <1>6. /\ n <= MaxOverflow /\ n <= m
        /\ \A j \in 1 .. n : overflow_queue[j] = overflowed[m - n + j]
    BY <1>2, <1>4 DEF KeepsNewest
  <1>7. n + 1 - d <= MaxOverflow /\ n + 1 - d <= m + 1
    BY <1>3, <1>4, <1>6, BoundsAssumption
  <1>8. \A j \in 1 .. n + 1 - d :
           overflow_queue'[j] = overflowed'[(m + 1) - (n + 1 - d) + j]
    <2> TAKE j \in 1 .. n + 1 - d
    <2>1. CASE j = n + 1 - d BY <1>3, <1>4, <1>5, <2>1
    <2>2. CASE j # n + 1 - d
      <3>1. /\ j \in 1 .. n - d /\ j + d \in 1 .. n
            /\ m - n + (j + d) \in 1 .. m
            /\ (m + 1) - (n + 1 - d) + j = m - n + (j + d)
        BY <1>6, <2>2
      <3> QED BY <1>3, <1>4, <1>5, <1>6, <3>1
    <2> QED BY <2>1, <2>2
  <1>9. Len(overflow_queue') = n + 1 - d BY <1>3, <1>4
  <1>10. PICK l : l = n + 1 - d OBVIOUS
  <1>11. \A j \in 1 .. l : overflow_queue'[j] = overflowed'[(m + 1) - l + j]
    BY <1>8, <1>10
  <1>12. l <= MaxOverflow /\ l <= m + 1 /\ l \in Nat
    BY <1>3, <1>4, <1>7, <1>9, <1>10
  <1>13. /\ Len(overflow_queue') = l /\ Len(overflowed') = m + 1
         /\ l + 0 = l
    BY <1>5, <1>9, <1>10, <1>12
  <1> QED BY <1>2, <1>11, <1>12, <1>13 DEF KeepsNewest

\* DrainNext takes the oldest queued record in hand.
LEMMA DrainNewest ==
  ASSUME IInv, KeepsNewest, DrainNext
  PROVE  KeepsNewest'
  <1> Consumer \in Threads BY DEF Threads
  <1>1. overflow_queue \in Seq(Records) /\ overflow_queue # <<>>
    BY DEF IInv, TypeOK, SharedTypeOK, DrainNext
  <1>2. PICK n \in Nat \ {0}, m \in Nat :
           n = Len(overflow_queue) /\ m = Len(overflowed)
    BY <1>1, TailIndex DEF IInv, TypeOK, HistoryTypeOK
  <1>3. /\ UNCHANGED overflowed
        /\ rec' = [rec EXCEPT ![Consumer] = overflow_queue[1]]
        /\ overflow_queue' = Tail(overflow_queue)
        /\ pc' = [pc EXCEPT ![Consumer] = "load"]
        /\ pc[Consumer] = "drain"
    BY <1>1, TailIndex DEF DrainNext, Popped, history, Goto
  <1>4. /\ Len(overflow_queue') = n - 1
        /\ \A j \in 1 .. n - 1 : overflow_queue'[j] = overflow_queue[j + 1]
    BY <1>1, <1>2, <1>3, TailIndex
  <1>5. ~Holding /\ Holding' /\ rec'[Consumer] = overflow_queue[1]
    BY <1>3 DEF Holding, InHand, HandPoints, IInv, TypeOK, PcTypeOK, CallTypeOK
  <1>6. /\ n <= MaxOverflow /\ n <= m
        /\ \A j \in 1 .. n : overflow_queue[j] = overflowed[m - n + j]
    BY <1>2, <1>5 DEF KeepsNewest
  <1>7. \A j \in 1 .. n - 1 : overflow_queue'[j] = overflowed[m - (n - 1) + j]
    <2> TAKE j \in 1 .. n - 1
    <2>1. j + 1 \in 1 .. n /\ m - n + (j + 1) = m - (n - 1) + j OBVIOUS
    <2> QED BY <1>4, <1>6, <2>1
  <1>8. rec'[Consumer] = overflowed[m - (n - 1)]
    <2>1. 1 \in 1 .. n /\ m - n + 1 = m - (n - 1) OBVIOUS
    <2> QED BY <1>5, <1>6, <2>1
  <1> QED BY <1>2, <1>3, <1>4, <1>5, <1>6, <1>7, <1>8, BoundsAssumption
          DEF KeepsNewest

\* PutBack restores the record at the front.
LEMMA PutBackNewest ==
  ASSUME IInv, KeepsNewest, PutBack
  PROVE  KeepsNewest'
  <1> Consumer \in Threads BY DEF Threads
  <1>1. /\ UNCHANGED <<rec, overflowed>>
        /\ overflow_queue' = <<rec[Consumer]>> \o overflow_queue
        /\ rec[Consumer] \in Records
        /\ overflow_queue \in Seq(Records)
    BY DEF PutBack, Restored, callVars, history, IInv, HasRecord, TypeOK,
       SharedTypeOK
  <1>2. PICK n \in Nat, m \in Nat :
           n = Len(overflow_queue) /\ m = Len(overflowed)
    BY <1>1 DEF IInv, TypeOK, HistoryTypeOK
  <1>3. /\ Len(overflow_queue') = n + 1
        /\ overflow_queue'[1] = rec[Consumer]
        /\ \A j \in 1 .. n : overflow_queue'[j + 1] = overflow_queue[j]
    BY <1>1, <1>2, FrontIndex
  <1>4. Holding /\ ~Holding'
    BY DEF PutBack, Goto, Holding, InHand, HandPoints, IInv, TypeOK, PcTypeOK
  <1>5. /\ n + 1 <= MaxOverflow /\ n + 1 <= m
        /\ rec[Consumer] = overflowed[m - n]
        /\ \A j \in 1 .. n : overflow_queue[j] = overflowed[m - n + j]
    BY <1>2, <1>4 DEF KeepsNewest
  <1>6. \A j \in 1 .. n + 1 : overflow_queue'[j] = overflowed[m - (n + 1) + j]
    <2> TAKE j \in 1 .. n + 1
    <2>1. CASE j = 1 BY <1>3, <1>5, <2>1
    <2>2. CASE j # 1
      <3>1. /\ j - 1 \in 1 .. n /\ (j - 1) + 1 = j
            /\ m - n + (j - 1) = m - (n + 1) + j
        BY <2>2
      <3> QED BY <1>3, <1>5, <3>1
    <2> QED BY <2>1, <2>2
  <1> QED BY <1>1, <1>2, <1>3, <1>4, <1>5, <1>6, BoundsAssumption
          DEF KeepsNewest

\* Every step of Next keeps KeepsNewest.
LEMMA NewestStep ==
  ASSUME IInv, KeepsNewest, Next
  PROVE  KeepsNewest'
  <1> USE ThreadsAssumption DEF IInv, TypeOK, PcTypeOK, CallTypeOK, Threads,
      callVars, history
  <1>1. ASSUME NEW p \in Producers, BeginCall(p) PROVE KeepsNewest'
    BY <1>1, NewestFrame DEF BeginCall, Goto, Holding, InHand
  <1>2. ASSUME NEW p \in Producers, QueuePush(p) PROVE KeepsNewest'
    BY <1>2, PushNewest
  <1>3. ASSUME NEW t \in Threads, CommitTransition(t) PROVE KeepsNewest'
    BY <1>3, NewestFrame DEF CommitTransition, Goto, Holding, InHand,
       HandPoints, AfterCommit
  <1>4. CASE ScanReady
    BY <1>4, NewestFrame DEF ScanReady, Goto, Holding, InHand, HandPoints
  <1>5. CASE DrainNext BY <1>5, DrainNewest
  <1>6. CASE PutBack BY <1>6, PutBackNewest
  <1>7. CASE Still BY <1>7, NewestFrame DEF Still, Holding
  <1> QED BY <1>1, <1>2, <1>3, <1>4, <1>5, <1>6, <1>7, StillSteps

\* The index form says that the queue is a suffix of what was pushed.
LEMMA NewestSuffix ==
  ASSUME IInv, KeepsNewest
  PROVE  OverflowKeepsNewest
  <1>1. DrainHeld = IF Holding THEN <<rec[Consumer]>> ELSE <<>>
    BY DEF DrainHeld, Holding, InHand, HandPoints, IInv, TypeOK, PcTypeOK,
       ConsumerPcValues, ReservePoints
  <1>2. PICK q : q = DrainHeld \o overflow_queue OBVIOUS
  <1>3. PICK n \in Nat, m \in Nat :
           n = Len(overflow_queue) /\ m = Len(overflowed)
    BY DEF IInv, TypeOK, SharedTypeOK, HistoryTypeOK
  <1>4. overflow_queue \in Seq(Records) /\ overflowed \in Seq(Records)
    BY DEF IInv, TypeOK, SharedTypeOK, HistoryTypeOK
  <1>5. PICK l \in 0 .. m :
           /\ q \in Seq(Records) /\ Len(q) = l /\ l <= MaxOverflow
           /\ \A j \in 1 .. l : q[j] = overflowed[m - l + j]
    <2>1. CASE Holding
      <3>1. rec[Consumer] \in Records
        BY <2>1 DEF IInv, HasRecord, Holding, InHand, HandPoints, ReservePoints,
           Threads
      <3>2. /\ q = <<rec[Consumer]>> \o overflow_queue
            /\ q \in Seq(Records) /\ Len(q) = n + 1 /\ q[1] = rec[Consumer]
            /\ \A j \in 1 .. n : q[j + 1] = overflow_queue[j]
        BY <1>1, <1>2, <1>3, <1>4, <2>1, <3>1, FrontIndex
      <3>3. /\ n + 1 <= MaxOverflow /\ n + 1 <= m
            /\ rec[Consumer] = overflowed[m - n]
            /\ \A j \in 1 .. n : overflow_queue[j] = overflowed[m - n + j]
        BY <1>3, <2>1 DEF KeepsNewest
      <3>4. \A j \in 1 .. n + 1 : q[j] = overflowed[m - (n + 1) + j]
        <4> TAKE j \in 1 .. n + 1
        <4>1. CASE j = 1 BY <3>2, <3>3, <4>1
        <4>2. CASE j # 1
          <5>1. /\ j - 1 \in 1 .. n /\ (j - 1) + 1 = j
                /\ m - n + (j - 1) = m - (n + 1) + j
            BY <4>2
          <5> QED BY <3>2, <3>3, <5>1
        <4> QED BY <4>1, <4>2
      <3>5. n + 1 \in 0 .. m BY <3>3
      <3> QED BY <3>2, <3>3, <3>4, <3>5
    <2>2. CASE ~Holding
      <3>1. q = <<>> \o overflow_queue BY <1>1, <1>2, <2>2
      <3>2. q = overflow_queue BY <1>4, <3>1
      <3>3. /\ n <= MaxOverflow /\ n <= m
            /\ \A j \in 1 .. n : overflow_queue[j] = overflowed[m - n + j]
        BY <1>3, <2>2 DEF KeepsNewest
      <3>4. n \in 0 .. m BY <3>3
      <3> QED BY <1>3, <1>4, <3>2, <3>3, <3>4
    <2> QED BY <2>1, <2>2
  <1>6. q = SubSeq(overflowed, (m - l) + 1, m)
    <2>1. PICK s : s = SubSeq(overflowed, (m - l) + 1, m) OBVIOUS
    <2>2. /\ s \in Seq(Records) /\ Len(s) = l
          /\ \A j \in 1 .. l : s[j] = overflowed[m - l + j]
      <3>0. PICK a : a = (m - l) + 1 OBVIOUS
      <3>1. /\ a \in 1 .. Len(overflowed) + 1
            /\ m \in a - 1 .. Len(overflowed)
        BY <1>3, <3>0
      <3>2. /\ s \in Seq(Records)
            /\ Len(s) = m - a + 1
            /\ \A j \in 1 .. m - a + 1 : s[j] = overflowed[a + j - 1]
        BY <1>4, <2>1, <3>0, <3>1, SubSeqProperties
      <3>3. /\ m - a + 1 = l
            /\ \A j \in 1 .. l : a + j - 1 = m - l + j
        BY <1>3, <3>0
      <3> QED BY <3>2, <3>3
    <2>3. \A j \in 1 .. l : q[j] = s[j] BY <1>5, <2>2
    <2> QED BY <1>5, <2>1, <2>2, <2>3
  <1>7. m - l \in 0 .. Len(overflowed) BY <1>3
  <1>8. IsSuffixOf(q, overflowed) BY <1>3, <1>6, <1>7 DEF IsSuffixOf
  <1> QED BY <1>2, <1>5, <1>8 DEF OverflowKeepsNewest

-----------------------------------------------------------------------------
(* No accepted record is lost but with its slot.                           *)

\* A step that accepts, moves and removes no record, and commits none.
Keeps ==
    /\ UNCHANGED <<delivered, overflow_queue, evicted, accepted>>
    /\ \A i \in SlotIds : slot_state[i] = "Ready" =>
          slot_state'[i] = "Ready" /\ slot_data'[i] = slot_data[i]
    /\ Holding => Holding' /\ rec'[Consumer] = rec[Consumer]
    /\ \A t \in Threads : pc'[t] \in {"seq", "notify"} =>
          pc[t] \in {"seq", "notify"} /\ rec'[t] = rec[t]

\* All but six actions do so.
LEMMA KeepsSteps ==
  ASSUME IInv, ConsumerDrains, Next,
         \A p \in Producers : ~QueuePush(p),
         \A t \in Threads : ~CommitTransition(t) /\ ~NotifyConsumer(t),
         ~ScanReady, ~DrainNext, ~PutBack
  PROVE  Keeps
  <1> USE IndexType, ThreadsAssumption DEF IInv, TypeOK, SlotTypeOK, CallTypeOK,
      PcTypeOK, ReadTypeOK, Keeps, Holding, InHand, HandPoints, slotVars,
      seqVars, callVars, readVars, history, AfterNone, AfterCommit,
      AfterFlagTest, Threads
  <1>1. ASSUME NEW p \in Producers, BeginCall(p) PROVE Keeps
    BY <1>1 DEF BeginCall, Goto
  <1>2. ASSUME NEW p \in Producers, BeginOversized(p) PROVE Keeps
    BY <1>2 DEF BeginOversized, Goto
  <1>3. ASSUME NEW t \in Threads, LoadProdSeq(t) PROVE Keeps
    BY <1>3 DEF LoadProdSeq, Goto
  <1>4. ASSUME NEW t \in Threads, TryTransition(t) PROVE Keeps
    BY <1>4 DEF TryTransition, Goto, SetState, CanReserve, ConsumerDrains,
        ReservePoints
  <1>5. ASSUME NEW t \in Threads, StoreProdSeq(t) PROVE Keeps
    BY <1>5 DEF StoreProdSeq, Goto
  <1>6. ASSUME NEW t \in Threads, ReserveSetSeq(t) PROVE Keeps
    BY <1>6 DEF ReserveSetSeq, Goto, SetSeq
  <1>7. ASSUME NEW t \in Threads, WriteData(t) PROVE Keeps
    BY <1>7 DEF WriteData, Goto, SlotOwnership, SlotOf, Owns
  <1>8. ASSUME NEW t \in Threads, CommitSetSeq(t) PROVE Keeps
    BY <1>8 DEF CommitSetSeq, Goto, SetSeq
  <1>9. ASSUME NEW p \in Producers, DropReservation(p) PROVE Keeps
    BY <1>9 DEF DropReservation, Goto, ReleaseSlot, SetState, HandleState
  <1>10. ASSUME ReadBegin PROVE Keeps
    BY <1>10 DEF ReadBegin, Goto
  <1>11. ASSUME Recycle PROVE Keeps
    BY <1>11 DEF Recycle, Goto, SetState, RecycleConsumed
  <1>12. ASSUME ScanStop PROVE Keeps
    BY <1>12 DEF ScanStop, Goto
  <1>13. ASSUME PublishConsSeq PROVE Keeps
    BY <1>13 DEF PublishConsSeq, Goto
  <1>14. ASSUME LockQueue PROVE Keeps
    BY <1>14 DEF LockQueue, Goto
  <1>15. ASSUME DrainDone PROVE Keeps
    <2>1. /\ UNCHANGED <<rec, overflow_queue, delivered, evicted, accepted,
                      slot_state, slot_data>>
          /\ pc' = [pc EXCEPT ![Consumer] = "idle"] /\ pc[Consumer] = "drain"
      BY <1>15, Zenon DEF DrainDone, Goto, slotVars, callVars, history
    <2> QED BY <2>1
  <1>16. ASSUME WaitForData PROVE Keeps
    BY <1>16 DEF WaitForData, Goto
  <1>17. ASSUME Woken PROVE Keeps
    BY <1>17 DEF Woken, Goto
  <1>18. ASSUME Timeout PROVE Keeps
    BY <1>18 DEF Timeout, Goto
  <1>19. ASSUME TimedOut PROVE Keeps
    BY <1>19 DEF TimedOut, Goto
  <1> QED BY <1>1, <1>2, <1>3, <1>4, <1>5, <1>6, <1>7, <1>8, <1>9, <1>10, <1>11,
      <1>12, <1>13, <1>14, <1>15, <1>16, <1>17, <1>18, <1>19 DEF Next, Reserve,
      Commit, Read, Wait

\* Such a step keeps every record where it is.
LEMMA KeepsFrame ==
  ASSUME LossInv, Keeps, LeakStays
  PROVE  LossInv'
  <1>1. \A r : Returned(r) \/ Stored(r) => (Returned(r) \/ Stored(r))'
    BY DEF Keeps, Returned, Stored
  <1>2. \A r : Kept(r) => Kept(r)'
    BY <1>1 DEF Keeps, Kept, Queued, LeakStays, LostWithSlot
  <1>3. CommittedKept' BY <1>1 DEF Keeps, LossInv, CommittedKept
  <1>4. AcceptedKept' BY <1>2 DEF Keeps, LossInv, AcceptedKept
  <1> QED BY <1>3, <1>4 DEF LossInv

\* A commit makes the slot Ready; the record is then in the ring.
LEMMA CommitKept ==
  ASSUME IInv, OwnInv, LossInv, LeakStays, NEW t \in Threads,
         CommitTransition(t)
  PROVE  LossInv'
  <1>1. PICK i \in SlotIds : i = SlotOf(t)
    BY IndexType DEF SlotOf, IInv, TypeOK, CallTypeOK
  <1>2. /\ slot_state[i] = "Reserved"
        /\ SharedHandle => slot_data[i] = rec[t]
        /\ taker[i] = rec[t]
    BY <1>1 DEF IInv, SlotOwnership, Owns, OwnInv, WrittenData, OwnTaker,
       CommitTransition
  <1>3. /\ UNCHANGED <<delivered, overflow_queue, evicted, rec, slot_data,
                      taker, my_seq>>
        /\ \/ /\ SharedHandle /\ UNCHANGED accepted
              /\ slot_state' = [slot_state EXCEPT ![i] = "Ready"]
              /\ pc' = [pc EXCEPT ![t] = "seq"]
           \/ /\ accepted' = accepted \cup {rec[t]}
              /\ UNCHANGED slot_state
              /\ pc' = [pc EXCEPT ![t] = AfterCommit(t)]
    BY <1>1 DEF CommitTransition, HandleState, Goto, SetState, SlotOf, callVars
  <1>4. \A r : Returned(r) \/ Stored(r) => (Returned(r) \/ Stored(r))'
    BY <1>2, <1>3 DEF Returned, Stored, IInv, TypeOK, SlotTypeOK
  <1>5. Kept(rec[t])' /\ rec'[t] = rec[t]
    <2>1. CASE /\ SharedHandle
               /\ slot_state' = [slot_state EXCEPT ![i] = "Ready"]
      <3>1. Stored(rec[t])' /\ rec'[t] = rec[t]
        BY <1>2, <1>3, <2>1 DEF Stored, IInv, TypeOK, SlotTypeOK
      <3> QED BY <3>1, <1>3 DEF Kept, Stored
    <2>2. CASE /\ UNCHANGED slot_state
               /\ pc' = [pc EXCEPT ![t] = AfterCommit(t)]
      <3>1. pc'[t] \in {"idle", "drain"}
        BY <2>2 DEF AfterCommit, IInv, TypeOK, PcTypeOK
      <3>2. \A u \in Threads : Owns(u)' => u # t /\ Owns(u) /\ pc'[u] = pc[u]
        BY <2>2, <3>1 DEF Owns, IInv, TypeOK, PcTypeOK
      <3>3. Owns(t) BY DEF Owns, CommitTransition
      <3>4. \A u \in Threads : Owns(u)' => SlotOf(u)' # i
        BY <1>1, <1>3, <3>2, <3>3 DEF IInv, SlotOwnership, SlotOf
      <3>5. Leaked(i)' BY <1>2, <2>2, <3>4 DEF Leaked
      <3>6. taker'[i] = rec[t] /\ rec' = rec BY <1>2, <1>3
      <3>7. LostWithSlot(rec[t])' BY <3>5, <3>6 DEF LostWithSlot
      <3> QED BY <3>6, <3>7 DEF Kept, LostWithSlot
    <2> QED BY <1>3, <2>1, <2>2
  <1>6. CommittedKept'
    <2>1. CASE /\ SharedHandle
               /\ slot_state' = [slot_state EXCEPT ![i] = "Ready"]
               /\ pc' = [pc EXCEPT ![t] = "seq"]
      <3>1. Stored(rec[t])' /\ rec'[t] = rec[t]
        BY <1>2, <1>3, <2>1 DEF Stored, IInv, TypeOK, SlotTypeOK
      <3> QED BY <1>3, <1>4, <2>1, <3>1
              DEF LossInv, CommittedKept, IInv, TypeOK, PcTypeOK
    <2>2. CASE pc' = [pc EXCEPT ![t] = AfterCommit(t)]
      <3>1. \A u \in Threads : pc'[u] \in {"seq", "notify"} =>
              pc[u] \in {"seq", "notify"} /\ rec'[u] = rec[u]
        BY <1>3, <2>2 DEF AfterCommit, IInv, TypeOK, PcTypeOK
      <3> QED BY <1>4, <3>1 DEF LossInv, CommittedKept
    <2> QED BY <1>3, <2>1, <2>2
  <1>7. \A r : Kept(r) => Kept(r)'
    <2> SUFFICES ASSUME NEW r, Kept(r) PROVE Kept(r)' OBVIOUS
    <2>1. CASE Holding /\ rec[Consumer] = r
      <3>1. CASE t = Consumer BY <1>5, <2>1, <3>1
      <3>2. CASE t # Consumer
        <4>1. Holding' /\ rec'[Consumer] = r
          BY <1>3, <2>1, <3>2 DEF Holding, InHand, IInv, TypeOK, PcTypeOK,
             Threads
        <4> QED BY <4>1 DEF Kept
      <3> QED BY <3>1, <3>2
    <2>2. CASE Returned(r) \/ Stored(r) BY <1>4, <2>2 DEF Kept
    <2>3. CASE Queued(r) \/ r \in evicted \/ r \in Unsealed
      BY <1>3, <2>3 DEF Kept, Queued
    <2>4. CASE LostWithSlot(r) BY <2>4 DEF Kept, LostWithSlot, LeakStays
    <2> QED BY <2>1, <2>2, <2>3, <2>4 DEF Kept
  <1>8. AcceptedKept' BY <1>3, <1>5, <1>7 DEF LossInv, AcceptedKept
  <1> QED BY <1>6, <1>8 DEF LossInv

\* The announced record, accepted now, is in the ring or read already.
LEMMA NotifyKept ==
  ASSUME IInv, LossInv, LeakStays, NEW t \in Threads, NotifyConsumer(t)
  PROVE  LossInv'
  <1>1. /\ UNCHANGED <<delivered, overflow_queue, evicted, rec, slot_state,
                      slot_data>>
        /\ accepted' = accepted \cup {rec[t]}
        /\ \A u \in Threads : pc'[u] \in {"seq", "notify"} =>
              pc[u] \in {"seq", "notify"}
        /\ Holding => Holding'
    BY DEF NotifyConsumer, slotVars, callVars, AfterCommit, Holding, InHand,
       HandPoints, Threads
  <1>2. \A r : /\ Returned(r)' <=> Returned(r)
               /\ Stored(r)' <=> Stored(r)
               /\ Kept(r) => Kept(r)'
    BY <1>1 DEF Returned, Stored, Kept, Queued, LeakStays, LostWithSlot
  <1>3. Kept(rec[t])
    BY DEF NotifyConsumer, LossInv, CommittedKept, Kept
  <1>4. CommittedKept' BY <1>1, <1>2 DEF LossInv, CommittedKept
  <1>5. AcceptedKept' BY <1>1, <1>2, <1>3 DEF LossInv, AcceptedKept
  <1> QED BY <1>4, <1>5 DEF LossInv

\* A push queues the record; the one it drops is evicted.
LEMMA PushKept ==
  ASSUME IInv, LossInv, LeakStays, NEW p \in Producers, QueuePush(p)
  PROVE  LossInv'
  <1> p \in Threads BY DEF Threads
  <1>1. /\ UNCHANGED <<delivered, rec, slot_state, slot_data>>
        /\ overflow_queue' = Enqueue(overflow_queue, rec[p])
        /\ evicted' = IF Len(overflow_queue) < MaxOverflow THEN evicted
                      ELSE evicted \cup {Head(overflow_queue)}
        /\ accepted' = accepted \cup {rec[p]}
        /\ pc' = [pc EXCEPT ![p] = "idle"]
        /\ rec[p] \in Records
        /\ overflow_queue \in Seq(Records)
    BY DEF QueuePush, slotVars, callVars, Goto, IInv, HasRecord, TypeOK,
       SharedTypeOK
  <1>2. PICK d \in {0, 1} :
           /\ d <= Len(overflow_queue)
           /\ d = 1 => Len(overflow_queue) >= MaxOverflow
           /\ Len(overflow_queue') = Len(overflow_queue) + 1 - d
           /\ overflow_queue'[Len(overflow_queue) + 1 - d] = rec[p]
           /\ \A j \in 1 .. Len(overflow_queue) - d :
                overflow_queue'[j] = overflow_queue[j + d]
    BY <1>1, EnqueueIndex
  <1>3. PICK n \in Nat : n = Len(overflow_queue) BY <1>1
  <1>4. Queued(rec[p])'
    <2>1. n + 1 - d \in 1 .. Len(overflow_queue') BY <1>2, <1>3
    <2>2. \E j \in 1 .. Len(overflow_queue') : overflow_queue'[j] = rec[p]
      BY <1>2, <1>3, <2>1
    <2> QED BY <1>1, <2>2 DEF Queued
  <1>5. \A r : Queued(r) => Queued(r)' \/ r \in evicted'
    <2> SUFFICES ASSUME NEW j \in 1 .. n, NEW r, r = overflow_queue[j]
                 PROVE  Queued(r)' \/ r \in evicted'
      BY <1>3 DEF Queued
    <2>1. CASE j - d \in 1 .. n - d
      <3>1. /\ overflow_queue'[j - d] = r
            /\ j - d \in 1 .. Len(overflow_queue')
        BY <1>2, <1>3, <2>1
      <3> QED BY <3>1 DEF Queued
    <2>2. CASE j - d \notin 1 .. n - d
      <3>1. d = 1 /\ j = 1 BY <2>2
      <3>2. n >= MaxOverflow /\ overflow_queue # <<>>
        BY <1>2, <1>3, <3>1, BoundsAssumption
      <3>3. r = Head(overflow_queue) BY <1>1, <3>1, <3>2, TailIndex
      <3>4. ~(n < MaxOverflow) BY <3>2, BoundsAssumption
      <3> QED BY <1>1, <1>3, <3>3, <3>4
    <2> QED BY <2>1, <2>2
  <1>6. evicted \subseteq evicted' BY <1>1
  <1>7. Holding => Holding'
    BY <1>1, ThreadsAssumption DEF Holding, InHand, IInv, TypeOK, PcTypeOK,
       Threads
  <1>8. \A r : Returned(r)' <=> Returned(r) BY <1>1 DEF Returned
  <1>9. \A r : Stored(r)' <=> Stored(r) BY <1>1 DEF Stored
  <1>10. \A r : Kept(r) => Kept(r)'
    BY <1>1, <1>5, <1>6, <1>7, <1>8, <1>9 DEF Kept, LeakStays, LostWithSlot
  <1>11. CommittedKept'
    BY <1>1, <1>8, <1>9 DEF LossInv, CommittedKept, IInv, TypeOK, PcTypeOK
  <1>12. AcceptedKept'
    BY <1>1, <1>4, <1>10 DEF LossInv, AcceptedKept, Kept
  <1> QED BY <1>11, <1>12 DEF LossInv

\* The scan moves the record to what read() returns.
LEMMA ScanKept ==
  ASSUME IInv, LossInv, LeakStays, ScanReady
  PROVE  LossInv'
  <1>1. PICK i \in SlotIds : i = physical_index(my_cons)
    BY IndexType DEF IInv, TypeOK, ReadTypeOK
  <1>2. PICK x : x = slot_data[i] OBVIOUS
  <1>3. /\ UNCHANGED <<rec, overflow_queue, slot_data, evicted, accepted>>
        /\ delivered' = IF x \in Unsealed THEN delivered
                        ELSE Append(delivered, x)
        /\ slot_state[i] = "Ready"
        /\ slot_state' = [slot_state EXCEPT ![i] = "Consumed"]
        /\ pc' = [pc EXCEPT ![Consumer] = "recycle"]
        /\ pc[Consumer] = "scan"
    BY <1>1, <1>2 DEF ScanReady, IsReadable, SetState, callVars, Goto
  <1>4. x \in Records /\ delivered \in Seq(Records)
    BY <1>2, <1>3 DEF IInv, ReadyHasData, TypeOK, HistoryTypeOK
  <1>5. x \notin Unsealed =>
          /\ Len(delivered') = Len(delivered) + 1 /\ Len(delivered) \in Nat
          /\ delivered'[Len(delivered) + 1] = x
          /\ \A k \in 1 .. Len(delivered) : delivered'[k] = delivered[k]
    BY <1>3, <1>4, AppendIndex
  <1>6. \A r : Returned(r) => Returned(r)' BY <1>3, <1>5 DEF Returned
  <1>7. Returned(x)' \/ x \in Unsealed
    <2>1. x \notin Unsealed => \E k \in 1 .. Len(delivered') : delivered'[k] = x
      BY <1>5
    <2> QED BY <2>1, Zenon DEF Returned
  <1>8. \A r : Stored(r) => Stored(r)' \/ Returned(r)' \/ r \in Unsealed
    BY <1>2, <1>3, <1>7 DEF Stored, IInv, TypeOK, SlotTypeOK
  <1>9. ~Holding
    BY <1>3 DEF Holding, InHand, HandPoints
  <1>10. \A r : Kept(r) => Kept(r)'
    BY <1>3, <1>6, <1>8, <1>9 DEF Kept, Queued, LeakStays, LostWithSlot
  <1>11. CommittedKept'
    BY <1>3, <1>6, <1>8 DEF LossInv, CommittedKept, IInv, TypeOK, PcTypeOK
  <1>12. AcceptedKept' BY <1>3, <1>10 DEF LossInv, AcceptedKept
  <1> QED BY <1>11, <1>12 DEF LossInv

\* The drain takes the record in hand.
LEMMA DrainKept ==
  ASSUME IInv, LossInv, LeakStays, DrainNext
  PROVE  LossInv'
  <1> Consumer \in Threads BY DEF Threads
  <1>1. overflow_queue \in Seq(Records) /\ overflow_queue # <<>>
    BY DEF IInv, TypeOK, SharedTypeOK, DrainNext
  <1>2. PICK n \in Nat \ {0} : n = Len(overflow_queue)
    BY <1>1, TailIndex
  <1>3. /\ UNCHANGED <<delivered, slot_state, slot_data, evicted, accepted>>
        /\ rec' = [rec EXCEPT ![Consumer] = overflow_queue[1]]
        /\ overflow_queue' = Tail(overflow_queue)
        /\ pc' = [pc EXCEPT ![Consumer] = "load"]
        /\ pc[Consumer] = "drain"
    BY <1>1, TailIndex DEF DrainNext, Popped, slotVars, history, Goto
  <1>4. /\ Len(overflow_queue') = n - 1
        /\ \A j \in 1 .. n - 1 : overflow_queue'[j] = overflow_queue[j + 1]
    BY <1>1, <1>2, <1>3, TailIndex
  <1>5. Holding' /\ ~Holding /\ rec'[Consumer] = overflow_queue[1]
    BY <1>3 DEF Holding, InHand, HandPoints, IInv, TypeOK, PcTypeOK, CallTypeOK
  <1>6. \A r : Queued(r) => Queued(r)' \/ r = rec'[Consumer]
    <2> SUFFICES ASSUME NEW j \in 1 .. n, NEW r, r = overflow_queue[j]
                 PROVE  Queued(r)' \/ r = rec'[Consumer]
      BY <1>2 DEF Queued
    <2>1. CASE j = 1 BY <1>5, <2>1
    <2>2. CASE j # 1
      <3>1. j - 1 \in 1 .. n - 1 /\ (j - 1) + 1 = j BY <2>2
      <3>2. overflow_queue'[j - 1] = r BY <1>4, <3>1
      <3> QED BY <1>4, <3>1, <3>2 DEF Queued
    <2> QED BY <2>1, <2>2
  <1>7. \A r : Returned(r)' <=> Returned(r) BY <1>3 DEF Returned
  <1>8. \A r : Stored(r)' <=> Stored(r) BY <1>3 DEF Stored
  <1>9. \A r : Kept(r) => Kept(r)'
    BY <1>3, <1>5, <1>6, <1>7, <1>8 DEF Kept, LeakStays, LostWithSlot
  <1>10. CommittedKept'
    BY <1>3, <1>7, <1>8 DEF LossInv, CommittedKept, IInv, TypeOK, PcTypeOK,
       CallTypeOK
  <1>11. AcceptedKept' BY <1>3, <1>9 DEF LossInv, AcceptedKept
  <1> QED BY <1>10, <1>11 DEF LossInv

\* The record that found no slot is queued again.
LEMMA PutBackKept ==
  ASSUME IInv, LossInv, LeakStays, PutBack
  PROVE  LossInv'
  <1> Consumer \in Threads BY DEF Threads
  <1>1. /\ UNCHANGED <<rec, delivered, slot_state, slot_data, evicted,
                      accepted>>
        /\ overflow_queue' = <<rec[Consumer]>> \o overflow_queue
        /\ rec[Consumer] \in Records
        /\ overflow_queue \in Seq(Records)
        /\ pc' = [pc EXCEPT ![Consumer] = "idle"]
    BY DEF PutBack, Restored, slotVars, callVars, history, IInv, HasRecord,
       TypeOK, SharedTypeOK, Goto
  <1>2. PICK n \in Nat : n = Len(overflow_queue) BY <1>1
  <1>3. /\ Len(overflow_queue') = n + 1
        /\ overflow_queue'[1] = rec[Consumer]
        /\ \A j \in 1 .. n : overflow_queue'[j + 1] = overflow_queue[j]
    BY <1>1, <1>2, FrontIndex
  <1>4. Queued(rec[Consumer])'
    <2>1. \E j \in 1 .. Len(overflow_queue') :
            overflow_queue'[j] = rec[Consumer]
      BY <1>3
    <2> QED BY <1>1, <2>1 DEF Queued
  <1>5. \A r : Queued(r) => Queued(r)'
    <2> SUFFICES ASSUME NEW j \in 1 .. n, NEW r, r = overflow_queue[j]
                 PROVE  Queued(r)'
      BY <1>2 DEF Queued
    <2>1. j + 1 \in 1 .. n + 1 /\ overflow_queue'[j + 1] = r BY <1>3
    <2> QED BY <1>3, <2>1 DEF Queued
  <1>6. \A r : Returned(r)' <=> Returned(r) BY <1>1 DEF Returned
  <1>7. \A r : Stored(r)' <=> Stored(r) BY <1>1 DEF Stored
  <1>8. \A r : Kept(r) => Kept(r)'
    BY <1>1, <1>4, <1>5, <1>6, <1>7 DEF Kept, LeakStays, LostWithSlot
  <1>9. CommittedKept'
    BY <1>1, <1>6, <1>7 DEF LossInv, CommittedKept, IInv, TypeOK, PcTypeOK
  <1>10. AcceptedKept' BY <1>1, <1>8 DEF LossInv, AcceptedKept
  <1> QED BY <1>9, <1>10 DEF LossInv

\* Every step of Next keeps LossInv.
LEMMA LossStep ==
  ASSUME IInv, OwnInv, LossInv, Next
  PROVE  LossInv'
  <1>0. LeakStays BY LeakStaysStep
  <1>1. ASSUME NEW p \in Producers, QueuePush(p) PROVE LossInv'
    BY <1>0, <1>1, PushKept
  <1>2. ASSUME NEW t \in Threads, CommitTransition(t) PROVE LossInv'
    BY <1>0, <1>2, CommitKept
  <1>3. ASSUME NEW t \in Threads, NotifyConsumer(t) PROVE LossInv'
    BY <1>0, <1>3, NotifyKept
  <1>4. CASE ScanReady BY <1>0, <1>4, ScanKept
  <1>5. CASE DrainNext BY <1>0, <1>5, DrainKept
  <1>6. CASE PutBack BY <1>0, <1>6, PutBackKept
  <1>7. CASE Keeps BY <1>0, <1>7, KeepsFrame
  <1> QED BY <1>1, <1>2, <1>3, <1>4, <1>5, <1>6, <1>7, KeepsSteps DEF OwnInv

\* The pointwise form says what LossIsLeak says.
LEMMA KeptLossIsLeak ==
  ASSUME IInv, LossInv
  PROVE  LossIsLeak
  <1> SUFFICES ASSUME NEW r \in accepted
               PROVE  \/ r \in UNION {Elements(delivered), InRing, evicted,
                                     Unsealed,
                                     Elements(DrainHeld \o overflow_queue)}
                      \/ \E i \in SlotIds : Leaked(i) /\ taker[i] = r
    BY DEF LossIsLeak
  <1>0. Kept(r) BY DEF LossInv, AcceptedKept
  <1>1. overflow_queue \in Seq(Records)
    BY DEF IInv, TypeOK, SharedTypeOK
  <1>2. PICK q : q = DrainHeld \o overflow_queue OBVIOUS
  <1>3. DrainHeld = IF Holding THEN <<rec[Consumer]>> ELSE <<>>
    BY DEF DrainHeld, Holding, InHand, HandPoints, IInv, TypeOK, PcTypeOK,
       ConsumerPcValues, ReservePoints
  <1>4. /\ Queued(r) => r \in Elements(q)
        /\ Holding /\ rec[Consumer] = r => r \in Elements(q)
    <2>1. CASE Holding
      <3>1. rec[Consumer] \in Records
        BY <2>1 DEF IInv, HasRecord, Holding, InHand, HandPoints, ReservePoints,
           Threads
      <3>2. q = <<rec[Consumer]>> \o overflow_queue BY <1>2, <1>3, <2>1
      <3>3. /\ Len(q) = Len(overflow_queue) + 1 /\ q[1] = rec[Consumer]
            /\ \A j \in 1 .. Len(overflow_queue) : q[j + 1] = overflow_queue[j]
            /\ Len(overflow_queue) \in Nat
        BY <1>1, <3>1, <3>2, FrontIndex
      <3>4. Queued(r) => \E j \in 1 .. Len(q) : q[j] = r
        BY <3>3 DEF Queued
      <3>5. rec[Consumer] = r => \E j \in 1 .. Len(q) : q[j] = r
        BY <3>3
      <3> QED BY <3>4, <3>5 DEF Elements
    <2>2. CASE ~Holding
      <3>1. q = <<>> \o overflow_queue BY <1>2, <1>3, <2>2
      <3>2. q = overflow_queue BY <1>1, <3>1
      <3> QED BY <2>2, <3>2 DEF Queued, Elements
    <2> QED BY <2>1, <2>2
  <1>5. Returned(r) => r \in Elements(delivered) BY DEF Returned, Elements
  <1>6. Stored(r) => r \in InRing BY DEF Stored, InRing
  <1>7. \/ r \in Elements(delivered) \/ r \in InRing \/ r \in evicted
        \/ r \in Unsealed \/ r \in Elements(DrainHeld \o overflow_queue)
        \/ LostWithSlot(r)
    <2>1. Elements(DrainHeld \o overflow_queue) = Elements(q) BY <1>2
    <2>2. r \in evicted \/ r \in Elements(delivered) \/ r \in InRing
            \/ r \in Elements(q) \/ r \in Unsealed \/ LostWithSlot(r)
      BY <1>0, <1>4, <1>5, <1>6 DEF Kept
    <2> QED BY <2>1, <2>2
  <1> QED BY <1>7 DEF LostWithSlot

-----------------------------------------------------------------------------
(* The consumer's wakeup.                                                  *)

\* The division that physical_index is the remainder of.
LEMMA IndexDivision ==
  ASSUME NEW n \in Nat
  PROVE  \E q \in Int : n = Capacity * q + physical_index(n)
  <1>1. /\ n = Capacity * (n \div Capacity) + (n % Capacity)
        /\ n \div Capacity \in Int
    BY CapacityAssumption, SMT
  <1> QED BY <1>1 DEF physical_index

\* Zero is the only multiple of the capacity that is less than a lap away.
LEMMA SmallMultiple ==
  ASSUME NEW k \in Int, NEW d \in Int, Capacity * k = d,
         d < Capacity, -d < Capacity
  PROVE  k = 0
  <1>1. CASE k >= 1
    <2>1. Capacity * k >= Capacity BY <1>1, CapacityAssumption, SMT
    <2> QED BY <2>1, CapacityAssumption
  <1>2. CASE k <= -1
    <2>1. Capacity * k <= -Capacity BY <1>2, CapacityAssumption, SMT
    <2> QED BY <2>1, CapacityAssumption
  <1> QED BY <1>1, <1>2

\* Sequence numbers one lap apart share a slot.
LEMMA IndexLap ==
  ASSUME NEW n \in Nat
  PROVE  physical_index(n + Capacity) = physical_index(n)
  <1>1. n + Capacity \in Nat /\ Capacity \in Nat BY CapacityAssumption
  <1>2. PICK i \in 0 .. Capacity - 1, j \in 0 .. Capacity - 1 :
           i = physical_index(n) /\ j = physical_index(n + Capacity)
    BY <1>1, IndexType DEF SlotIds
  <1>3. PICK q \in Int : n = Capacity * q + i BY <1>2, IndexDivision
  <1>4. PICK r \in Int : n + Capacity = Capacity * r + j
    BY <1>1, <1>2, IndexDivision
  <1>5. Capacity * (r - q - 1) = i - j
    <2>1. Capacity * (r - q - 1) = Capacity * r - Capacity * q - Capacity
      BY <1>1, SMT
    <2>2. Capacity * r \in Int /\ Capacity * q \in Int BY <1>1
    <2> QED BY <1>1, <1>3, <1>4, <2>1, <2>2
  <1>6. r - q - 1 = 0 BY <1>1, <1>5, SmallMultiple
  <1>7. i - j = 0 BY <1>1, <1>5, <1>6
  <1> QED BY <1>2, <1>7

\* The part of Next that is not the consumer's own loop.
Calling ==
    \/ \E p \in Producers : BeginCall(p) \/ BeginOversized(p)
                              \/ DropReservation(p) \/ QueuePush(p)
    \/ \E t \in Threads : Reserve(t) \/ Commit(t)

\* Such a step announces what it makes readable and leaves the scan alone.
Announces ==
    /\ UNCHANGED <<cons_seq, my_cons, checked, processed>>
    /\ pc'[Consumer] \in Quiet => pc[Consumer] \in Quiet
    /\ pc'[Consumer] \notin Quiet =>
          \/ pc'[Consumer] = pc[Consumer]
          \/ pc'[Consumer] = "woken" /\ pc[Consumer] = "waiting"
    /\ pc'[Consumer] = "waiting" => pc[Consumer] = "waiting" /\ ready' = ready
    /\ Announced => Announced'
    /\ \A i \in SlotIds :
          slot_state'[i] = "Ready" => slot_state[i] = "Ready" \/ Announced'
    /\ \A i \in SlotIds : slot_state'[i] = "Ready" =>
          slot_seq'[i] = slot_seq[i] \/ Announced'

\* Every step of a call does so.
LEMMA CallingSteps ==
  ASSUME IInv, Calling
  PROVE  Announces
  <1> USE IndexType, ThreadsAssumption DEF IInv, TypeOK, SlotTypeOK, CallTypeOK,
      PcTypeOK, Announces, Announced, Quiet, ReservePoints, slotVars, seqVars,
      callVars, readVars, AfterNone, AfterCommit, Threads
  <1>1. ASSUME NEW p \in Producers, BeginCall(p) PROVE Announces
    BY <1>1 DEF BeginCall, Goto
  <1>2. ASSUME NEW p \in Producers, BeginOversized(p) PROVE Announces
    BY <1>2 DEF BeginOversized, Goto
  <1>3. ASSUME NEW t \in Threads, LoadProdSeq(t) PROVE Announces
    BY <1>3 DEF LoadProdSeq, Goto
  <1>4. ASSUME NEW t \in Threads, TryTransition(t) PROVE Announces
    BY <1>4 DEF TryTransition, Goto, SetState, CanReserve
  <1>5. ASSUME NEW t \in Threads, StoreProdSeq(t) PROVE Announces
    BY <1>5 DEF StoreProdSeq, Goto
  <1>6. ASSUME NEW t \in Threads, ReserveSetSeq(t) PROVE Announces
    BY <1>6 DEF ReserveSetSeq, Goto, SetSeq, SlotOwnership, Owns, SlotOf
  <1>7. ASSUME NEW t \in Threads, WriteData(t) PROVE Announces
    BY <1>7 DEF WriteData, Goto
  <1>8. ASSUME NEW t \in Threads, CommitTransition(t) PROVE Announces
    BY <1>8 DEF CommitTransition, Goto, SetState
  <1>9. ASSUME NEW t \in Threads, CommitSetSeq(t) PROVE Announces
    BY <1>9 DEF CommitSetSeq, Goto, SetSeq
  <1>10. ASSUME NEW t \in Threads, NotifyConsumer(t) PROVE Announces
    BY <1>10 DEF NotifyConsumer, Goto
  <1>11. ASSUME NEW p \in Producers, DropReservation(p) PROVE Announces
    BY <1>11 DEF DropReservation, Goto, ReleaseSlot, SetState, HandleState
  <1>12. ASSUME NEW p \in Producers, QueuePush(p) PROVE Announces
    BY <1>12 DEF QueuePush, Goto
  <1> QED BY <1>1, <1>2, <1>3, <1>4, <1>5, <1>6, <1>7, <1>8, <1>9, <1>10, <1>11,
      <1>12 DEF Calling, Reserve, Commit

\* A step of a call keeps WakeInv.
LEMMA CallingWake ==
  ASSUME IInv, WakeInv, Calling
  PROVE  WakeInv'
  <1>1. Announces BY CallingSteps
  <1>2. cons_seq \in Nat /\ my_cons \in Nat
    BY DEF IInv, TypeOK, SharedTypeOK, ReadTypeOK
  <1>3. \A n \in Nat : physical_index(n) \in SlotIds BY IndexType
  <1>4. ScanLocals'
    BY <1>1 DEF Announces, WakeInv, ScanLocals, Quiet, ReservePoints
  <1>5. BehindScan'
    BY <1>1, <1>2, <1>3 DEF Announces, WakeInv, BehindScan, Quiet, ReservePoints
  <1>6. (pc[Consumer] = "waiting" => ~ready)' BY <1>1 DEF Announces, WakeInv
  <1>7. ASSUME ~AllowTimeout
        PROVE  pc'[Consumer] # "timedout" /\ HeadAnnounced'
    <2>1. pc'[Consumer] # "timedout"
      BY <1>1, <1>7 DEF Announces, WakeInv, Quiet, ReservePoints
    <2>2. \A n \in Nat : IsReadable(physical_index(n), n)' =>
                            IsReadable(physical_index(n), n) \/ Announced'
      BY <1>1, <1>3 DEF Announces, IsReadable, physical_index
    <2> QED BY <1>1, <1>2, <1>7, <2>1, <2>2
            DEF Announces, WakeInv, HeadAnnounced, Quiet, ReservePoints
  <1> QED BY <1>4, <1>5, <1>6, <1>7 DEF WakeInv

\* A step of the consumer's loop keeps WakeInv.  A scan that stops at its
\* bound has come round to cons_seq, which BehindScan covers.
LEMMA LoopWake ==
  ASSUME IInv, WakeInv, Read \/ Wait
  PROVE  WakeInv'
  <1> Consumer \in Threads BY DEF Threads
  <1> USE IndexType, CapacityAssumption DEF IInv, TypeOK, SlotTypeOK, PcTypeOK,
      SharedTypeOK, ReadTypeOK, WakeInv, ScanLocals, BehindScan, HeadAnnounced,
      Announced, Quiet, ReservePoints, IsReadable, slotVars, seqVars, Goto
  <1>1. ASSUME ReadBegin PROVE WakeInv'
    BY <1>1 DEF ReadBegin, readVars
  <1>2. ASSUME ScanReady PROVE WakeInv'
    <2>1. /\ pc[Consumer] = "scan" /\ checked < Capacity
          /\ pc' = [pc EXCEPT ![Consumer] = "recycle"]
          /\ slot_state' = [slot_state EXCEPT
                               ![physical_index(my_cons)] = "Consumed"]
          /\ UNCHANGED <<cons_seq, my_cons, checked, processed, ready>>
      BY <1>2 DEF ScanReady, SetState, readVars
    <2>2. Announced' <=> Announced BY <2>1 DEF Threads
    <2>3. \A i \in SlotIds : slot_state'[i] = "Ready" => slot_state[i] = "Ready"
      BY <2>1
    <2>4. ScanLocals' BY <2>1
    <2>5. BehindScan' BY <2>1, <2>2, <2>3
    <2> QED BY <2>1, <2>4, <2>5
  <1>3. ASSUME Recycle PROVE WakeInv'
    <2>1. /\ pc[Consumer] = "recycle"
          /\ pc' = [pc EXCEPT ![Consumer] = "scan"]
          /\ slot_state' = [slot_state EXCEPT
                               ![physical_index(my_cons)] = "Empty"]
          /\ my_cons' = my_cons + 1
          /\ checked' = checked + 1 /\ processed' = processed + 1
          /\ UNCHANGED <<cons_seq, ready>>
      BY <1>3 DEF Recycle, SetState
    <2>2. Announced' <=> Announced BY <2>1 DEF Threads
    <2>3. \A i \in SlotIds :
            slot_state'[i] = "Ready" =>
                slot_state[i] = "Ready" /\ i # physical_index(my_cons)
      BY <2>1
    <2>4. ScanLocals' BY <2>1
    <2>5. BehindScan'
      <3> SUFFICES ASSUME NEW n \in Nat, cons_seq <= n, n < my_cons + 1,
                          slot_state'[physical_index(n)] = "Ready"
                   PROVE  Announced'
        BY <2>1
      <3>1. n # my_cons BY <2>3
      <3>2. n < my_cons BY <3>1
      <3> QED BY <2>1, <2>2, <2>3, <3>2
    <2> QED BY <2>1, <2>4, <2>5
  <1>4. ASSUME ScanStop PROVE WakeInv'
    <2>1. /\ pc[Consumer] = "scan"
          /\ pc' = [pc EXCEPT ![Consumer] = IF processed > 0 THEN "publish"
                                             ELSE "idle"]
          /\ UNCHANGED <<slot_state, slot_seq, cons_seq, my_cons, checked,
                        processed, ready>>
          /\ checked < Capacity => ~IsReadable(physical_index(my_cons), my_cons)
      BY <1>4 DEF ScanStop, readVars
    <2>2. Announced' <=> Announced BY <2>1 DEF Threads
    <2>3. ScanLocals' BY <2>1
    <2>4. IsReadable(physical_index(my_cons), my_cons) => Announced
      <3>1. CASE checked < Capacity BY <2>1, <3>1
      <3>2. CASE ~(checked < Capacity)
        <4>1. my_cons = cons_seq + Capacity BY <2>1, <3>2
        <4>2. physical_index(my_cons) = physical_index(cons_seq)
          BY <4>1, IndexLap
        <4>3. slot_state[physical_index(cons_seq)] = "Ready" => Announced
          BY <2>1, <4>1
        <4> QED BY <4>2, <4>3
      <3> QED BY <3>1, <3>2
    <2>5. processed = 0 => my_cons = cons_seq BY <2>1
    <2>6. HeadAnnounced' BY <2>1, <2>2, <2>4, <2>5
    <2> QED BY <2>1, <2>3, <2>6
  <1>5. ASSUME PublishConsSeq PROVE WakeInv'
    BY <1>5 DEF PublishConsSeq, readVars
  <1>6. ASSUME LockQueue PROVE WakeInv'
    BY <1>6 DEF LockQueue, readVars
  <1>7. ASSUME DrainNext PROVE WakeInv'
    BY <1>7 DEF DrainNext, readVars
  <1>8. ASSUME PutBack PROVE WakeInv'
    BY <1>8 DEF PutBack, readVars
  <1>9. ASSUME DrainDone PROVE WakeInv'
    BY <1>9 DEF DrainDone, readVars
  <1>10. ASSUME WaitForData PROVE WakeInv'
    BY <1>10 DEF WaitForData, AfterFlagTest
  <1>11. ASSUME Woken PROVE WakeInv'
    BY <1>11 DEF Woken, readVars
  <1>12. ASSUME Timeout PROVE WakeInv'
    BY <1>12 DEF Timeout, readVars
  <1>13. ASSUME TimedOut PROVE WakeInv'
    BY <1>13 DEF TimedOut, readVars
  <1> QED BY <1>1, <1>2, <1>3, <1>4, <1>5, <1>6, <1>7, <1>8, <1>9, <1>10, <1>11,
      <1>12, <1>13 DEF Read, Wait

-----------------------------------------------------------------------------
(* The order of one producer's records.                                    *)

\* Every step of Next keeps OwnRecord.
LEMMA OwnRecordStep ==
  ASSUME IInv, OwnRecord, Next
  PROVE  OwnRecord'
  <1> USE IndexType, ThreadsAssumption DEF IInv, TypeOK, SlotTypeOK, CallTypeOK,
      PcTypeOK, ReadTypeOK, SharedTypeOK, Threads, slotVars, seqVars, callVars,
      readVars, history, AfterNone, AfterCommit, AfterFlagTest, OwnRecord,
      ReservePoints
  <1>1. ASSUME NEW p \in Producers, BeginCall(p) PROVE OwnRecord'
    BY <1>1 DEF BeginCall, Goto
  <1>2. ASSUME NEW p \in Producers, BeginOversized(p) PROVE OwnRecord'
    BY <1>2 DEF BeginOversized, Goto
  <1>3. ASSUME NEW t \in Threads, LoadProdSeq(t) PROVE OwnRecord'
    BY <1>3 DEF LoadProdSeq, Goto
  <1>4. ASSUME NEW t \in Threads, TryTransition(t) PROVE OwnRecord'
    BY <1>4 DEF TryTransition, Goto
  <1>5. ASSUME NEW t \in Threads, StoreProdSeq(t) PROVE OwnRecord'
    BY <1>5 DEF StoreProdSeq, Goto
  <1>6. ASSUME NEW t \in Threads, ReserveSetSeq(t) PROVE OwnRecord'
    BY <1>6 DEF ReserveSetSeq, Goto
  <1>7. ASSUME NEW t \in Threads, WriteData(t) PROVE OwnRecord'
    BY <1>7 DEF WriteData, Goto
  <1>8. ASSUME NEW t \in Threads, CommitTransition(t) PROVE OwnRecord'
    BY <1>8 DEF CommitTransition, Goto
  <1>9. ASSUME NEW t \in Threads, CommitSetSeq(t) PROVE OwnRecord'
    BY <1>9 DEF CommitSetSeq, Goto
  <1>10. ASSUME NEW t \in Threads, NotifyConsumer(t) PROVE OwnRecord'
    BY <1>10 DEF NotifyConsumer, Goto
  <1>11. ASSUME NEW p \in Producers, DropReservation(p) PROVE OwnRecord'
    BY <1>11 DEF DropReservation, Goto
  <1>12. ASSUME NEW p \in Producers, QueuePush(p) PROVE OwnRecord'
    BY <1>12 DEF QueuePush, Goto
  <1>13. ASSUME ReadBegin PROVE OwnRecord'
    BY <1>13 DEF ReadBegin, Goto
  <1>14. ASSUME ScanReady PROVE OwnRecord'
    BY <1>14 DEF ScanReady, Goto
  <1>15. ASSUME Recycle PROVE OwnRecord'
    BY <1>15 DEF Recycle, Goto
  <1>16. ASSUME ScanStop PROVE OwnRecord'
    BY <1>16 DEF ScanStop, Goto
  <1>17. ASSUME PublishConsSeq PROVE OwnRecord'
    BY <1>17 DEF PublishConsSeq, Goto
  <1>18. ASSUME LockQueue PROVE OwnRecord'
    BY <1>18 DEF LockQueue, Goto
  <1>19. ASSUME DrainNext PROVE OwnRecord'
    BY <1>19 DEF DrainNext, Goto
  <1>20. ASSUME PutBack PROVE OwnRecord'
    BY <1>20 DEF PutBack, Goto
  <1>21. ASSUME DrainDone PROVE OwnRecord'
    BY <1>21 DEF DrainDone, Goto
  <1>22. ASSUME WaitForData PROVE OwnRecord'
    BY <1>22 DEF WaitForData, Goto
  <1>23. ASSUME Woken PROVE OwnRecord'
    BY <1>23 DEF Woken, Goto
  <1>24. ASSUME Timeout PROVE OwnRecord'
    BY <1>24 DEF Timeout, Goto
  <1>25. ASSUME TimedOut PROVE OwnRecord'
    BY <1>25 DEF TimedOut, Goto
  <1> QED BY <1>1, <1>2, <1>3, <1>4, <1>5, <1>6, <1>7, <1>8, <1>9, <1>10, <1>11,
      <1>12, <1>13, <1>14, <1>15, <1>16, <1>17, <1>18, <1>19, <1>20, <1>21,
      <1>22, <1>23, <1>24, <1>25 DEF Next, Reserve, Commit, Read, Wait

\* Every step of Next keeps ConsAtRest.
LEMMA AtRestStep ==
  ASSUME IInv, WakeInv, ConsAtRest, Next
  PROVE  ConsAtRest'
  <1> USE IndexType, ThreadsAssumption DEF IInv, TypeOK, SlotTypeOK, CallTypeOK,
      PcTypeOK, ReadTypeOK, SharedTypeOK, Threads, slotVars, seqVars, callVars,
      readVars, history, AfterNone, AfterCommit, AfterFlagTest, ConsAtRest
  <1>1. ASSUME NEW p \in Producers, BeginCall(p) PROVE ConsAtRest'
    BY <1>1 DEF BeginCall, Goto
  <1>2. ASSUME NEW p \in Producers, BeginOversized(p) PROVE ConsAtRest'
    BY <1>2 DEF BeginOversized, Goto
  <1>3. ASSUME NEW t \in Threads, LoadProdSeq(t) PROVE ConsAtRest'
    BY <1>3 DEF LoadProdSeq, Goto
  <1>4. ASSUME NEW t \in Threads, TryTransition(t) PROVE ConsAtRest'
    BY <1>4 DEF TryTransition, Goto
  <1>5. ASSUME NEW t \in Threads, StoreProdSeq(t) PROVE ConsAtRest'
    BY <1>5 DEF StoreProdSeq, Goto
  <1>6. ASSUME NEW t \in Threads, ReserveSetSeq(t) PROVE ConsAtRest'
    BY <1>6 DEF ReserveSetSeq, Goto
  <1>7. ASSUME NEW t \in Threads, WriteData(t) PROVE ConsAtRest'
    BY <1>7 DEF WriteData, Goto
  <1>8. ASSUME NEW t \in Threads, CommitTransition(t) PROVE ConsAtRest'
    BY <1>8 DEF CommitTransition, Goto
  <1>9. ASSUME NEW t \in Threads, CommitSetSeq(t) PROVE ConsAtRest'
    BY <1>9 DEF CommitSetSeq, Goto
  <1>10. ASSUME NEW t \in Threads, NotifyConsumer(t) PROVE ConsAtRest'
    BY <1>10 DEF NotifyConsumer, Goto
  <1>11. ASSUME NEW p \in Producers, DropReservation(p) PROVE ConsAtRest'
    BY <1>11 DEF DropReservation, Goto
  <1>12. ASSUME NEW p \in Producers, QueuePush(p) PROVE ConsAtRest'
    BY <1>12 DEF QueuePush, Goto
  <1>13. ASSUME ReadBegin PROVE ConsAtRest'
    BY <1>13 DEF ReadBegin, Goto
  <1>14. ASSUME ScanReady PROVE ConsAtRest'
    BY <1>14 DEF ScanReady, Goto
  <1>15. ASSUME Recycle PROVE ConsAtRest'
    BY <1>15 DEF Recycle, Goto
  <1>16. ASSUME ScanStop PROVE ConsAtRest'
    BY <1>16 DEF ScanStop, Goto, WakeInv, ScanLocals
  <1>17. ASSUME PublishConsSeq PROVE ConsAtRest'
    BY <1>17 DEF PublishConsSeq, Goto
  <1>18. ASSUME LockQueue PROVE ConsAtRest'
    BY <1>18 DEF LockQueue, Goto
  <1>19. ASSUME DrainNext PROVE ConsAtRest'
    BY <1>19 DEF DrainNext, Goto
  <1>20. ASSUME PutBack PROVE ConsAtRest'
    BY <1>20 DEF PutBack, Goto
  <1>21. ASSUME DrainDone PROVE ConsAtRest'
    BY <1>21 DEF DrainDone, Goto
  <1>22. ASSUME WaitForData PROVE ConsAtRest'
    BY <1>22 DEF WaitForData, Goto
  <1>23. ASSUME Woken PROVE ConsAtRest'
    BY <1>23 DEF Woken, Goto
  <1>24. ASSUME Timeout PROVE ConsAtRest'
    BY <1>24 DEF Timeout, Goto
  <1>25. ASSUME TimedOut PROVE ConsAtRest'
    BY <1>25 DEF TimedOut, Goto
  <1> QED BY <1>1, <1>2, <1>3, <1>4, <1>5, <1>6, <1>7, <1>8, <1>9, <1>10, <1>11,
      <1>12, <1>13, <1>14, <1>15, <1>16, <1>17, <1>18, <1>19, <1>20, <1>21,
      <1>22, <1>23, <1>24, <1>25 DEF Next, Reserve, Commit, Read, Wait

\* No step moves the scan back.
FrontMoves == my_cons' \in {my_cons, my_cons + 1} /\ Front <= Front'

\* Every step moves the scan in that way.
LEMMA FrontSteps ==
  ASSUME IInv, ConsAtRest, Next
  PROVE  FrontMoves
  <1> USE DEF IInv, TypeOK, PcTypeOK, ReadTypeOK, SharedTypeOK, FrontMoves,
      Front, ConsAtRest, readVars, Goto, AfterFlagTest
  <1> Consumer \in Threads BY DEF Threads
  <1>0. ASSUME Calling PROVE FrontMoves
    BY <1>0, CallingSteps DEF Announces, Quiet, ReservePoints
  <1>1. ASSUME ReadBegin PROVE FrontMoves BY <1>1 DEF ReadBegin
  <1>2. ASSUME ScanReady PROVE FrontMoves BY <1>2 DEF ScanReady
  <1>3. ASSUME Recycle PROVE FrontMoves BY <1>3 DEF Recycle
  <1>4. ASSUME ScanStop PROVE FrontMoves BY <1>4 DEF ScanStop
  <1>5. ASSUME PublishConsSeq PROVE FrontMoves BY <1>5 DEF PublishConsSeq
  <1>6. ASSUME LockQueue PROVE FrontMoves BY <1>6 DEF LockQueue
  <1>7. ASSUME DrainNext PROVE FrontMoves BY <1>7 DEF DrainNext
  <1>8. ASSUME PutBack PROVE FrontMoves BY <1>8 DEF PutBack
  <1>9. ASSUME DrainDone PROVE FrontMoves BY <1>9 DEF DrainDone
  <1>10. ASSUME WaitForData PROVE FrontMoves BY <1>10 DEF WaitForData
  <1>11. ASSUME Woken PROVE FrontMoves BY <1>11 DEF Woken
  <1>12. ASSUME Timeout PROVE FrontMoves BY <1>12 DEF Timeout
  <1>13. ASSUME TimedOut PROVE FrontMoves BY <1>13 DEF TimedOut
  <1> QED BY <1>0, <1>1, <1>2, <1>3, <1>4, <1>5, <1>6, <1>7, <1>8, <1>9, <1>10,
      <1>11, <1>12, <1>13 DEF Next, Calling, Read, Wait

\* A slot becomes Empty when the scan has passed it, unless a reservation is
\* dropped.
Empties ==
    \A i \in SlotIds : slot_state'[i] = "Empty" =>
        \/ slot_state[i] = "Empty"
        \/ i = physical_index(my_cons) /\ my_cons' = my_cons + 1

\* Every step empties slots in that way.
LEMMA EmptySteps ==
  ASSUME IInv, Next, ~released'
  PROVE  Empties
  <1> USE IndexType, ThreadsAssumption DEF IInv, TypeOK, SlotTypeOK, CallTypeOK,
      PcTypeOK, ReadTypeOK, SharedTypeOK, Threads, slotVars, seqVars, callVars,
      readVars, history, AfterNone, AfterCommit, AfterFlagTest, Empties
  <1>1. ASSUME NEW p \in Producers, BeginCall(p) PROVE Empties
    BY <1>1 DEF BeginCall, Goto
  <1>2. ASSUME NEW p \in Producers, BeginOversized(p) PROVE Empties
    BY <1>2 DEF BeginOversized, Goto
  <1>3. ASSUME NEW t \in Threads, LoadProdSeq(t) PROVE Empties
    BY <1>3 DEF LoadProdSeq, Goto
  <1>4. ASSUME NEW t \in Threads, TryTransition(t) PROVE Empties
    BY <1>4 DEF TryTransition, Goto, SetState
  <1>5. ASSUME NEW t \in Threads, StoreProdSeq(t) PROVE Empties
    BY <1>5 DEF StoreProdSeq, Goto
  <1>6. ASSUME NEW t \in Threads, ReserveSetSeq(t) PROVE Empties
    BY <1>6 DEF ReserveSetSeq, Goto
  <1>7. ASSUME NEW t \in Threads, WriteData(t) PROVE Empties
    BY <1>7 DEF WriteData, Goto
  <1>8. ASSUME NEW t \in Threads, CommitTransition(t) PROVE Empties
    BY <1>8 DEF CommitTransition, Goto, SetState
  <1>9. ASSUME NEW t \in Threads, CommitSetSeq(t) PROVE Empties
    BY <1>9 DEF CommitSetSeq, Goto
  <1>10. ASSUME NEW t \in Threads, NotifyConsumer(t) PROVE Empties
    BY <1>10 DEF NotifyConsumer, Goto
  <1>11. ASSUME NEW p \in Producers, DropReservation(p) PROVE Empties
    BY <1>11 DEF DropReservation, Goto
  <1>12. ASSUME NEW p \in Producers, QueuePush(p) PROVE Empties
    BY <1>12 DEF QueuePush, Goto
  <1>13. ASSUME ReadBegin PROVE Empties
    BY <1>13 DEF ReadBegin, Goto
  <1>14. ASSUME ScanReady PROVE Empties
    BY <1>14 DEF ScanReady, Goto, SetState
  <1>15. ASSUME Recycle PROVE Empties
    BY <1>15 DEF Recycle, Goto, SetState
  <1>16. ASSUME ScanStop PROVE Empties
    BY <1>16 DEF ScanStop, Goto
  <1>17. ASSUME PublishConsSeq PROVE Empties
    BY <1>17 DEF PublishConsSeq, Goto
  <1>18. ASSUME LockQueue PROVE Empties
    BY <1>18 DEF LockQueue, Goto
  <1>19. ASSUME DrainNext PROVE Empties
    BY <1>19 DEF DrainNext, Goto
  <1>20. ASSUME PutBack PROVE Empties
    BY <1>20 DEF PutBack, Goto
  <1>21. ASSUME DrainDone PROVE Empties
    BY <1>21 DEF DrainDone, Goto
  <1>22. ASSUME WaitForData PROVE Empties
    BY <1>22 DEF WaitForData, Goto
  <1>23. ASSUME Woken PROVE Empties
    BY <1>23 DEF Woken, Goto
  <1>24. ASSUME Timeout PROVE Empties
    BY <1>24 DEF Timeout, Goto
  <1>25. ASSUME TimedOut PROVE Empties
    BY <1>25 DEF TimedOut, Goto
  <1> QED BY <1>1, <1>2, <1>3, <1>4, <1>5, <1>6, <1>7, <1>8, <1>9, <1>10, <1>11,
      <1>12, <1>13, <1>14, <1>15, <1>16, <1>17, <1>18, <1>19, <1>20, <1>21,
      <1>22, <1>23, <1>24, <1>25 DEF Next, Reserve, Commit, Read, Wait

\* Where the numbers that a step stores or loads come from.
Loads ==
    /\ \/ prod_seq' = prod_seq
       \/ \E t \in Threads : pc[t] = "store" /\ prod_seq' = my_seq[t] + 1
    /\ \A t \in Threads : pc'[t] = "try" =>
          \/ pc[t] = "try" /\ my_seq'[t] = my_seq[t]
          \/ my_seq'[t] = prod_seq

\* Every step loads and stores numbers in that way.
LEMMA LoadSteps ==
  ASSUME IInv, Next
  PROVE  Loads
  <1> USE IndexType, ThreadsAssumption DEF IInv, TypeOK, SlotTypeOK, CallTypeOK,
      PcTypeOK, ReadTypeOK, SharedTypeOK, Threads, slotVars, seqVars, callVars,
      readVars, history, AfterNone, AfterCommit, AfterFlagTest, Loads
  <1>1. ASSUME NEW p \in Producers, BeginCall(p) PROVE Loads
    BY <1>1 DEF BeginCall, Goto
  <1>2. ASSUME NEW p \in Producers, BeginOversized(p) PROVE Loads
    BY <1>2 DEF BeginOversized, Goto
  <1>3. ASSUME NEW t \in Threads, LoadProdSeq(t) PROVE Loads
    BY <1>3 DEF LoadProdSeq, Goto
  <1>4. ASSUME NEW t \in Threads, TryTransition(t) PROVE Loads
    BY <1>4 DEF TryTransition, Goto
  <1>5. ASSUME NEW t \in Threads, StoreProdSeq(t) PROVE Loads
    BY <1>5 DEF StoreProdSeq, Goto, NextSeq
  <1>6. ASSUME NEW t \in Threads, ReserveSetSeq(t) PROVE Loads
    BY <1>6 DEF ReserveSetSeq, Goto
  <1>7. ASSUME NEW t \in Threads, WriteData(t) PROVE Loads
    BY <1>7 DEF WriteData, Goto
  <1>8. ASSUME NEW t \in Threads, CommitTransition(t) PROVE Loads
    BY <1>8 DEF CommitTransition, Goto
  <1>9. ASSUME NEW t \in Threads, CommitSetSeq(t) PROVE Loads
    BY <1>9 DEF CommitSetSeq, Goto
  <1>10. ASSUME NEW t \in Threads, NotifyConsumer(t) PROVE Loads
    BY <1>10 DEF NotifyConsumer, Goto
  <1>11. ASSUME NEW p \in Producers, DropReservation(p) PROVE Loads
    BY <1>11 DEF DropReservation, Goto
  <1>12. ASSUME NEW p \in Producers, QueuePush(p) PROVE Loads
    BY <1>12 DEF QueuePush, Goto
  <1>13. ASSUME ReadBegin PROVE Loads
    BY <1>13 DEF ReadBegin, Goto
  <1>14. ASSUME ScanReady PROVE Loads
    BY <1>14 DEF ScanReady, Goto
  <1>15. ASSUME Recycle PROVE Loads
    BY <1>15 DEF Recycle, Goto
  <1>16. ASSUME ScanStop PROVE Loads
    BY <1>16 DEF ScanStop, Goto
  <1>17. ASSUME PublishConsSeq PROVE Loads
    BY <1>17 DEF PublishConsSeq, Goto
  <1>18. ASSUME LockQueue PROVE Loads
    BY <1>18 DEF LockQueue, Goto
  <1>19. ASSUME DrainNext PROVE Loads
    BY <1>19 DEF DrainNext, Goto
  <1>20. ASSUME PutBack PROVE Loads
    BY <1>20 DEF PutBack, Goto
  <1>21. ASSUME DrainDone PROVE Loads
    BY <1>21 DEF DrainDone, Goto
  <1>22. ASSUME WaitForData PROVE Loads
    BY <1>22 DEF WaitForData, Goto
  <1>23. ASSUME Woken PROVE Loads
    BY <1>23 DEF Woken, Goto
  <1>24. ASSUME Timeout PROVE Loads
    BY <1>24 DEF Timeout, Goto
  <1>25. ASSUME TimedOut PROVE Loads
    BY <1>25 DEF TimedOut, Goto
  <1> QED BY <1>1, <1>2, <1>3, <1>4, <1>5, <1>6, <1>7, <1>8, <1>9, <1>10, <1>11,
      <1>12, <1>13, <1>14, <1>15, <1>16, <1>17, <1>18, <1>19, <1>20, <1>21,
      <1>22, <1>23, <1>24, <1>25 DEF Next, Reserve, Commit, Read, Wait

\* A step that leaves the slots and the claims on them alone.
Calm ==
    /\ UNCHANGED slotVars
    /\ \A t \in Threads : pc'[t] \in ClaimPoints =>
          /\ pc[t] \in ClaimPoints
          /\ pc'[t] \in {"held", "written", "seq"} => pc[t] = pc'[t]
          /\ rec'[t] = rec[t] /\ my_seq'[t] = my_seq[t]

\* All but eight actions do so.
LEMMA CalmSteps ==
  ASSUME IInv, Next,
         \A p \in Producers : ~DropReservation(p),
         \A t \in Threads : /\ ~TryTransition(t) /\ ~ReserveSetSeq(t)
                            /\ ~WriteData(t) /\ ~CommitTransition(t)
                            /\ ~CommitSetSeq(t),
         ~ScanReady, ~Recycle
  PROVE  Calm
  <1> USE ThreadsAssumption DEF IInv, TypeOK, CallTypeOK, PcTypeOK, Calm,
      ClaimPoints, callVars, AfterNone, AfterCommit, AfterFlagTest, Threads
  <1>1. ASSUME NEW p \in Producers, BeginCall(p) PROVE Calm
    BY <1>1 DEF BeginCall, Goto
  <1>2. ASSUME NEW p \in Producers, BeginOversized(p) PROVE Calm
    BY <1>2 DEF BeginOversized, Goto
  <1>3. ASSUME NEW t \in Threads, LoadProdSeq(t) PROVE Calm
    BY <1>3 DEF LoadProdSeq, Goto
  <1>4. ASSUME NEW t \in Threads, StoreProdSeq(t) PROVE Calm
    BY <1>4 DEF StoreProdSeq, Goto
  <1>5. ASSUME NEW t \in Threads, NotifyConsumer(t) PROVE Calm
    BY <1>5 DEF NotifyConsumer, Goto
  <1>6. ASSUME NEW p \in Producers, QueuePush(p) PROVE Calm
    BY <1>6 DEF QueuePush, Goto
  <1>7. ASSUME ReadBegin PROVE Calm
    BY <1>7 DEF ReadBegin, Goto
  <1>8. ASSUME ScanStop PROVE Calm
    BY <1>8 DEF ScanStop, Goto
  <1>9. ASSUME PublishConsSeq PROVE Calm
    BY <1>9 DEF PublishConsSeq, Goto
  <1>10. ASSUME LockQueue PROVE Calm
    BY <1>10 DEF LockQueue, Goto
  <1>11. ASSUME DrainNext PROVE Calm
    BY <1>11 DEF DrainNext, Goto
  <1>12. ASSUME PutBack PROVE Calm
    BY <1>12 DEF PutBack, Goto
  <1>13. ASSUME DrainDone PROVE Calm
    BY <1>13 DEF DrainDone, Goto
  <1>14. ASSUME WaitForData PROVE Calm
    BY <1>14 DEF WaitForData, Goto
  <1>15. ASSUME Woken PROVE Calm
    BY <1>15 DEF Woken, Goto
  <1>16. ASSUME Timeout PROVE Calm
    BY <1>16 DEF Timeout, Goto
  <1>17. ASSUME TimedOut PROVE Calm
    BY <1>17 DEF TimedOut, Goto
  <1> QED BY <1>1, <1>2, <1>3, <1>4, <1>5, <1>6, <1>7, <1>8, <1>9, <1>10, <1>11,
      <1>12, <1>13, <1>14, <1>15, <1>16, <1>17 DEF Next, Reserve, Commit, Read,
      Wait

\* Thread t wins the compare-exchange on its slot.
Takes(t) == /\ pc[t] = "try" /\ pc'[t] = "store"
            /\ slot_state[SlotOf(t)] = "Empty"
            /\ slot_state'[SlotOf(t)] # "Empty"

\* Where a thread's claim comes from.
ThreadClaims ==
    /\ \A t \in Threads : pc'[t] \in ClaimPoints =>
          /\ rec'[t] = rec[t] /\ my_seq'[t] = my_seq[t]
          /\ pc[t] \in ClaimPoints \/ Takes(t)
    /\ \A t, u \in Threads : Takes(t) /\ Takes(u) => t = u

\* Where the claim of a committed slot comes from.
SlotClaims ==
    \A i \in SlotIds : slot_state'[i] = "Ready" =>
        \/ /\ slot_state[i] = "Ready"
           /\ slot_data'[i] = slot_data[i] /\ slot_seq'[i] = slot_seq[i]
        \/ slot_seq'[i] < Front
        \/ \E t \in Threads : /\ pc[t] \in ClaimPoints
                              /\ slot_data'[i] = rec[t]
                              /\ slot_seq'[i] = my_seq[t]

\* A committed slot stays until the scan takes it.
ReadyStays ==
    \A i \in SlotIds : slot_state[i] = "Ready" =>
        \/ slot_state'[i] = "Ready" /\ slot_data'[i] = slot_data[i]
        \/ i = physical_index(my_cons) /\ Front' = my_cons + 1

\* A thread that comes to its late set_seq has just committed its slot.
SeqFrom ==
    \A t \in Threads : pc'[t] = "seq" =>
        \/ pc[t] = "seq"
        \/ slot_state'[SlotOf(t)] = "Ready" /\ slot_data'[SlotOf(t)] = rec[t]

\* The number of a reserved slot is its owner's, or behind the scan.
StoredFrom ==
    \A t \in Threads : pc'[t] \in {"held", "written"} =>
        slot_seq'[SlotOf(t)] = my_seq[t] \/ slot_seq'[SlotOf(t)] < Front

Traces == ThreadClaims /\ SlotClaims /\ ReadyStays /\ SeqFrom /\ StoredFrom

\* A calm step traces.
LEMMA CalmTraces ==
  ASSUME IInv, SeqStored, Calm
  PROVE  Traces
  BY DEF Traces, Calm, ThreadClaims, SlotClaims, ReadyStays, SeqFrom,
     StoredFrom, ClaimPoints, Takes, slotVars, SeqStored

\* So do the steps that change slots, each because of who owns the slot.
LEMMA TraceSteps ==
  ASSUME IInv, WrittenData, SeqHolds, SeqStored, Next, ~released'
  PROVE  Traces
  <1> USE IndexType, ThreadsAssumption DEF IInv, TypeOK, SlotTypeOK, CallTypeOK,
      PcTypeOK, ReadTypeOK, Traces, ClaimPoints, Takes, SlotOf, callVars,
      readVars
  <1>1. ASSUME NEW t \in Threads, TryTransition(t) PROVE Traces
    <2>1. /\ pc[t] = "try" /\ UNCHANGED <<rec, my_seq, slot_seq, slot_data>>
          /\ \/ /\ slot_state[SlotOf(t)] = "Empty"
                /\ slot_state' = [slot_state EXCEPT ![SlotOf(t)] = "Reserved"]
                /\ pc' = [pc EXCEPT ![t] = "store"]
             \/ /\ UNCHANGED slot_state
                /\ \E l \in {"load", "queue", "putback", "idle"} :
                     pc' = [pc EXCEPT ![t] = l]
      BY <1>1 DEF TryTransition, CanReserve, SetState, Goto, AfterNone
    <2>2. ThreadClaims BY <2>1 DEF ThreadClaims
    <2>3. SlotClaims /\ ReadyStays BY <2>1 DEF SlotClaims, ReadyStays
    <2>4. SeqFrom /\ StoredFrom BY <2>1 DEF SeqFrom, StoredFrom, SeqStored
    <2> QED BY <2>2, <2>3, <2>4
  <1>2. ASSUME NEW t \in Threads, ReserveSetSeq(t) PROVE Traces
    <2>1. /\ pc[t] = "setseq"
          /\ UNCHANGED <<rec, my_seq, slot_state, slot_data>>
          /\ slot_seq' = [slot_seq EXCEPT ![SlotOf(t)] = my_seq[t]]
          /\ pc' = [pc EXCEPT ![t] = "held"]
      BY <1>2 DEF ReserveSetSeq, SetSeq, Goto
    <2>2. /\ slot_state[SlotOf(t)] = "Reserved"
          /\ \A u \in Threads \ {t} : Owns(u) => SlotOf(u) # SlotOf(t)
      BY <2>1 DEF SlotOwnership, Owns
    <2>3. ThreadClaims BY <2>1 DEF ThreadClaims
    <2>4. SlotClaims /\ ReadyStays BY <2>1, <2>2 DEF SlotClaims, ReadyStays
    <2>5. SeqFrom BY <2>1 DEF SeqFrom
    <2>6. StoredFrom BY <2>1, <2>2 DEF StoredFrom, SeqStored, Owns
    <2> QED BY <2>3, <2>4, <2>5, <2>6
  <1>3. ASSUME NEW t \in Threads, WriteData(t) PROVE Traces
    <2>1. /\ pc[t] = "held" /\ UNCHANGED <<rec, my_seq, slot_state, slot_seq>>
          /\ pc' = [pc EXCEPT ![t] = "written"]
          /\ \A i \in SlotIds \ {SlotOf(t)} : slot_data'[i] = slot_data[i]
      BY <1>3 DEF WriteData, Goto
    <2>2. slot_state[SlotOf(t)] = "Reserved" BY <2>1 DEF SlotOwnership, Owns
    <2>3. ThreadClaims BY <2>1 DEF ThreadClaims
    <2>4. SlotClaims /\ ReadyStays BY <2>1, <2>2 DEF SlotClaims, ReadyStays
    <2>5. SeqFrom BY <2>1 DEF SeqFrom
    <2>6. StoredFrom BY <2>1 DEF StoredFrom, SeqStored
    <2> QED BY <2>3, <2>4, <2>5, <2>6
  <1>4. ASSUME NEW t \in Threads, CommitTransition(t) PROVE Traces
    <2>1. /\ pc[t] = "written" /\ UNCHANGED <<rec, my_seq, slot_seq, slot_data>>
          /\ \/ /\ HandleState(t) = "Reserved"
                /\ slot_state' = [slot_state EXCEPT ![SlotOf(t)] = "Ready"]
                /\ pc' = [pc EXCEPT ![t] = "seq"]
             \/ /\ UNCHANGED slot_state
                /\ \E l \in {"drain", "idle"} : pc' = [pc EXCEPT ![t] = l]
      BY <1>4 DEF CommitTransition, SetState, Goto, AfterCommit
    <2>2. HandleState(t) = "Reserved" => slot_data[SlotOf(t)] = rec[t]
      BY <2>1, HandleShared DEF WrittenData
    <2>3. slot_seq[SlotOf(t)] = my_seq[t] \/ slot_seq[SlotOf(t)] < Front
      BY <2>1 DEF SeqStored
    <2>4. ThreadClaims BY <2>1 DEF ThreadClaims
    <2>5. SlotClaims BY <2>1, <2>2, <2>3 DEF SlotClaims
    <2>6. ReadyStays BY <2>1 DEF ReadyStays
    <2>7. SeqFrom BY <2>1, <2>2 DEF SeqFrom
    <2>8. StoredFrom BY <2>1 DEF StoredFrom, SeqStored
    <2> QED BY <2>4, <2>5, <2>6, <2>7, <2>8
  <1>5. ASSUME NEW t \in Threads, CommitSetSeq(t) PROVE Traces
    <2>1. /\ pc[t] = "seq" /\ UNCHANGED <<rec, my_seq, slot_state, slot_data>>
          /\ slot_seq' = [slot_seq EXCEPT ![SlotOf(t)] = my_seq[t]]
          /\ pc' = [pc EXCEPT ![t] = "notify"]
      BY <1>5 DEF CommitSetSeq, SetSeq, Goto
    <2>2. \/ my_seq[t] < Front
          \/ /\ slot_state[SlotOf(t)] = "Ready"
             /\ slot_data[SlotOf(t)] = rec[t]
      BY <2>1 DEF SeqHolds, Front
    <2>3. ThreadClaims BY <2>1 DEF ThreadClaims
    <2>4. SlotClaims BY <2>1, <2>2 DEF SlotClaims
    <2>5. ReadyStays /\ SeqFrom BY <2>1 DEF ReadyStays, SeqFrom
    <2>6. StoredFrom
      <3> SUFFICES ASSUME NEW u \in Threads, pc[u] \in {"held", "written"}
                   PROVE  \/ slot_seq'[SlotOf(u)] = my_seq[u]
                          \/ slot_seq'[SlotOf(u)] < Front
        BY <2>1 DEF StoredFrom
      <3>1. slot_state[SlotOf(u)] = "Reserved" BY DEF SlotOwnership, Owns
      <3>2. CASE SlotOf(u) = SlotOf(t) BY <2>1, <2>2, <3>1, <3>2
      <3>3. CASE SlotOf(u) # SlotOf(t) BY <2>1, <3>3 DEF SeqStored
      <3> QED BY <3>2, <3>3
    <2> QED BY <2>3, <2>4, <2>5, <2>6
  <1>6. ASSUME ScanReady PROVE Traces
    <2>1. /\ pc[Consumer] = "scan" /\ Front' = my_cons + 1
          /\ UNCHANGED <<rec, my_seq, slot_seq, slot_data>>
          /\ slot_state' = [slot_state EXCEPT
                               ![physical_index(my_cons)] = "Consumed"]
          /\ pc' = [pc EXCEPT ![Consumer] = "recycle"]
      BY <1>6 DEF ScanReady, SetState, Goto, Front, Threads
    <2>2. ThreadClaims BY <2>1 DEF ThreadClaims
    <2>3. SlotClaims /\ ReadyStays BY <2>1 DEF SlotClaims, ReadyStays
    <2>4. SeqFrom /\ StoredFrom BY <2>1 DEF SeqFrom, StoredFrom, SeqStored
    <2> QED BY <2>2, <2>3, <2>4
  <1>7. ASSUME Recycle PROVE Traces
    <2>1. /\ pc[Consumer] = "recycle"
          /\ UNCHANGED <<rec, my_seq, slot_seq, slot_data>>
          /\ slot_state' = [slot_state EXCEPT
                               ![physical_index(my_cons)] = "Empty"]
          /\ slot_state[physical_index(my_cons)] = "Consumed"
          /\ pc' = [pc EXCEPT ![Consumer] = "scan"]
      BY <1>7 DEF Recycle, SetState, Goto, RecycleConsumed
    <2>2. ThreadClaims BY <2>1 DEF ThreadClaims
    <2>3. SlotClaims /\ ReadyStays BY <2>1 DEF SlotClaims, ReadyStays
    <2>4. SeqFrom /\ StoredFrom BY <2>1 DEF SeqFrom, StoredFrom, SeqStored
    <2> QED BY <2>2, <2>3, <2>4
  <1>8. \A p \in Producers : ~DropReservation(p) BY DEF DropReservation
  <1>9. CASE Calm BY <1>9, CalmTraces
  <1> QED BY <1>1, <1>2, <1>3, <1>4, <1>5, <1>6, <1>7, <1>8, <1>9, CalmSteps

\* Numbers less than a lap apart have different slots.
LEMMA IndexApart ==
  ASSUME NEW n \in Nat, NEW m \in Nat, n < m, m < n + Capacity
  PROVE  physical_index(n) # physical_index(m)
  <1>1. Capacity \in Nat BY CapacityAssumption
  <1>2. PICK i \in 0 .. Capacity - 1, j \in 0 .. Capacity - 1 :
           i = physical_index(n) /\ j = physical_index(m)
    BY IndexType DEF SlotIds
  <1>3. PICK q \in Int : n = Capacity * q + i BY <1>2, IndexDivision
  <1>4. PICK r \in Int : m = Capacity * r + j BY <1>2, IndexDivision
  <1> SUFFICES ASSUME i = j PROVE FALSE BY <1>2
  <1>5. Capacity * (r - q) = m - n
    <2>1. Capacity * (r - q) = Capacity * r - Capacity * q BY <1>1, SMT
    <2>2. Capacity * r \in Int /\ Capacity * q \in Int BY <1>1
    <2> QED BY <1>1, <1>3, <1>4, <2>1, <2>2
  <1>6. r - q = 0 BY <1>1, <1>5, SmallMultiple
  <1>7. m - n = 0 BY <1>1, <1>5, <1>6
  <1> QED BY <1>7

\* Nothing is required up to the front of the scan.
LEMMA FilledLow ==
  ASSUME IInv, NEW a \in Nat, a <= Front
  PROVE  Filled(a)
  BY CapacityAssumption DEF Filled, Front, IInv, RecycleConsumed, TypeOK,
     ReadTypeOK

\* What is filled stays so.
LEMMA FilledStays ==
  ASSUME IInv, FrontMoves, Empties, NEW a \in Nat, Filled(a)
  PROVE  Filled(a)'
  <1>1. my_cons \in Nat BY DEF IInv, TypeOK, ReadTypeOK
  <1>0. Capacity \in Nat BY CapacityAssumption
  <1>2. a <= my_cons' + Capacity
    <2>1. a <= my_cons + Capacity BY DEF Filled
    <2>2. CASE my_cons' = my_cons BY <2>1, <2>2
    <2>3. CASE my_cons' = my_cons + 1 BY <1>0, <1>1, <2>1, <2>3
    <2> QED BY <2>2, <2>3 DEF FrontMoves
  <1>3. ASSUME NEW n \in Nat, my_cons' <= n, n < a
        PROVE  slot_state'[physical_index(n)] # "Empty"
    <2>1. my_cons <= n /\ n < my_cons + Capacity
      BY <1>1, <1>3, CapacityAssumption DEF Filled, FrontMoves
    <2>2. my_cons' = my_cons + 1 => physical_index(n) # physical_index(my_cons)
      BY <1>1, <1>3, <2>1, IndexApart
    <2>3. physical_index(n) \in SlotIds BY IndexType
    <2> QED BY <1>3, <2>1, <2>2, <2>3 DEF Filled, Empties
  <1> QED BY <1>2, <1>3 DEF Filled

\* A slot that is taken fills one more.
LEMMA FilledTaken ==
  ASSUME IInv, FrontMoves, Empties, NEW a \in Nat, Filled(a),
         slot_state[physical_index(a)] = "Empty",
         slot_state'[physical_index(a)] # "Empty"
  PROVE  Filled(a + 1)'
  <1>1. my_cons \in Nat /\ my_cons' \in Nat /\ Capacity \in Nat \ {0}
    BY CapacityAssumption DEF IInv, TypeOK, ReadTypeOK, FrontMoves
  <1>2. Filled(a)' BY FilledStays
  <1>3. a # my_cons + Capacity
    <2> SUFFICES ASSUME a = my_cons + Capacity PROVE FALSE OBVIOUS
    <2>1. physical_index(a) = physical_index(my_cons) BY <1>1, IndexLap
    <2>2. my_cons < a BY <1>1
    <2> QED BY <1>1, <2>1, <2>2 DEF Filled
  <1>4. a + 1 <= my_cons' + Capacity
    <2>1. a <= my_cons + Capacity BY DEF Filled
    <2>2. a + 1 <= my_cons + Capacity BY <1>1, <1>3, <2>1
    <2>3. CASE my_cons' = my_cons BY <2>2, <2>3
    <2>4. CASE my_cons' = my_cons + 1 BY <1>1, <2>2, <2>4
    <2> QED BY <2>3, <2>4 DEF FrontMoves
  <1>5. ASSUME NEW n \in Nat, my_cons' <= n, n < a + 1
        PROVE  slot_state'[physical_index(n)] # "Empty"
    <2>1. CASE n = a BY <2>1
    <2>2. CASE n # a BY <1>2, <1>5, <2>2 DEF Filled
    <2> QED BY <2>1, <2>2
  <1> QED BY <1>4, <1>5 DEF Filled

\* What a thread claims lies beyond filled slots.
LEMMA OwnFilled ==
  ASSUME IInv, NumbersFilled, NEW t \in Threads, pc[t] \in ClaimPoints
  PROVE  Filled(my_seq[t] + 1)
  <1>1. my_seq[t] \in Nat BY DEF IInv, TypeOK, CallTypeOK
  <1>2. Front \in Nat BY DEF Front, IInv, TypeOK, ReadTypeOK
  <1>3. rec[t] \in Records
    BY DEF IInv, HasRecord, ClaimPoints, ReservePoints
  <1>4. CASE my_seq[t] >= Front
    <2>1. Live(rec[t], my_seq[t]) BY <1>4 DEF Live, Claims
    <2> QED BY <1>1, <1>3, <2>1 DEF NumbersFilled
  <1>5. CASE ~(my_seq[t] >= Front)
    <2>1. my_seq[t] + 1 \in Nat /\ my_seq[t] + 1 <= Front BY <1>1, <1>2, <1>5
    <2> QED BY <2>1, FilledLow
  <1> QED BY <1>4, <1>5

\* A live claim was live before, or its slot was just taken.
LEMMA LiveTrace ==
  ASSUME IInv, IInv', FrontMoves, Traces, NEW r, NEW s \in Nat, Live(r, s)'
  PROVE  \/ Live(r, s)
         \/ \E t \in Threads : Takes(t) /\ rec[t] = r /\ my_seq[t] = s
  <1>1. Front \in Nat /\ Front' \in Nat /\ Front <= Front' /\ s >= Front'
    BY DEF Front, IInv, TypeOK, ReadTypeOK, FrontMoves, Live
  <1>2. s >= Front BY <1>1
  <1>3. ASSUME NEW t \in Threads, pc'[t] \in ClaimPoints, rec'[t] = r,
               my_seq'[t] = s
        PROVE  Claims(r, s) \/ (Takes(t) /\ rec[t] = r /\ my_seq[t] = s)
    BY <1>3 DEF Traces, ThreadClaims, Claims
  <1>4. ASSUME NEW i \in SlotIds, slot_state'[i] = "Ready", slot_data'[i] = r,
               slot_seq'[i] = s
        PROVE  Claims(r, s)
    <2>1. ~(s < Front) BY <1>1, <1>2
    <2> QED BY <1>4, <2>1 DEF Traces, SlotClaims, Claims
  <1>5. Claims(r, s)' BY DEF Live
  <1> QED BY <1>2, <1>3, <1>4, <1>5 DEF Live, Claims

\* A number that is taken now and that the scan will meet is the highest.
LEMMA TakenHighest ==
  ASSUME IInv, NumbersFilled, NEW t \in Threads, Takes(t), my_seq[t] >= Front,
         NEW r \in Records, NEW s \in Nat, Live(r, s)
  PROVE  s < my_seq[t]
  <1>1. /\ my_seq[t] \in Nat /\ my_cons \in Nat
        /\ my_cons <= Front /\ Front \in Nat
    BY DEF IInv, TypeOK, CallTypeOK, ReadTypeOK, Front
  <1>2. Filled(s + 1) BY DEF NumbersFilled
  <1> SUFFICES ASSUME my_seq[t] <= s PROVE FALSE BY <1>1
  <1>3. my_cons <= my_seq[t] /\ my_seq[t] < s + 1 BY <1>1
  <1> QED BY <1>1, <1>2, <1>3 DEF Filled, Takes, SlotOf

\* A producer that takes a slot has made no later call than its record's.
LEMMA CallHighest ==
  ASSUME IInv, PlaceInv, OwnRecord, DrainsOverflowed, NEW p \in Producers,
         pc[p] = "try", NEW r \in Records, Direct(r), r[1] = p
  PROVE  /\ rec[p] = <<p, calls[p]>>
         /\ \A s : Claims(r, s) => r[2] < calls[p]
         /\ \A k \in 1 .. Len(delivered) : delivered[k] = r => r[2] < calls[p]
  <1> p \in Threads BY DEF Threads
  <1>1. rec[p] = <<p, calls[p]>> BY DEF OwnRecord, ReservePoints
  <1>2. r = <<p, r[2]>> /\ r[2] \in Nat /\ calls[p] \in Nat
    BY BoundsAssumption DEF Records, IInv, TypeOK, CallTypeOK
  <1>3. r # rec[p] /\ r[2] <= calls[p] => r[2] < calls[p] BY <1>1, <1>2
  <1>4. InHand(p) BY DEF InHand, HandPoints
  <1>5. ASSUME NEW i \in SlotIds, slot_state[i] = "Ready", slot_data[i] = r
        PROVE  r[2] < calls[p]
    BY <1>3, <1>4, <1>5 DEF PlaceInv, AllNumbered, SlotNumbered, Numbered,
       OnePlace, HandUnique
  <1>6. ASSUME NEW k \in 1 .. Len(delivered), delivered[k] = r
        PROVE  r[2] < calls[p]
    BY <1>3, <1>4, <1>6 DEF PlaceInv, AllNumbered, OutNumbered, Numbered,
       OnePlace, HandUnique
  <1>7. ASSUME NEW u \in Threads, pc[u] \in ClaimPoints, rec[u] = r
        PROVE  FALSE
    <2>1. CASE u = Consumer BY <1>7, <2>1 DEF DrainsOverflowed
    <2>2. CASE u \in Producers
      <3>1. rec[u] = <<u, calls[u]>>
        BY <1>7, <2>2 DEF OwnRecord, ClaimPoints, ReservePoints
      <3>2. u = p BY <1>2, <1>7, <3>1
      <3> QED BY <1>7, <3>2 DEF ClaimPoints
    <2> QED BY <2>1, <2>2 DEF Threads
  <1> QED BY <1>1, <1>5, <1>6, <1>7 DEF Claims

\* The histories grow only by a push and by a read.
Histories ==
    /\ \/ overflowed' = overflowed
       \/ \E p \in Producers :
             rec[p] \in Records /\ overflowed' = Append(overflowed, rec[p])
    /\ delivered' = delivered \/ ScanReady

\* Every step is such a step.
LEMMA HistorySteps ==
  ASSUME IInv, Next
  PROVE  Histories
  <1> USE DEF Histories
  <1>1. ASSUME NEW p \in Producers, BeginCall(p) PROVE Histories
    BY <1>1 DEF BeginCall, history
  <1>2. ASSUME NEW p \in Producers, QueuePush(p) PROVE Histories
    <2>1. rec[p] \in Records
      BY <1>2 DEF QueuePush, IInv, HasRecord, Threads
    <2> QED BY <1>2, <2>1 DEF QueuePush
  <1>3. ASSUME NEW t \in Threads, CommitTransition(t) PROVE Histories
    BY <1>3 DEF CommitTransition
  <1>4. ASSUME ScanReady PROVE Histories BY <1>4 DEF ScanReady
  <1>5. ASSUME DrainNext PROVE Histories BY <1>5 DEF DrainNext, history
  <1>6. ASSUME PutBack PROVE Histories BY <1>6 DEF PutBack, history
  <1>7. CASE Still BY <1>7 DEF Still
  <1> QED BY <1>1, <1>2, <1>3, <1>4, <1>5, <1>6, <1>7, StillSteps

\* What the order of records rests on in a step.
Advance == FrontMoves /\ Empties /\ Loads /\ Traces /\ Histories

\* A record that has not overflowed had not before.
LEMMA DirectShrinks ==
  ASSUME IInv, Histories, NEW r, Direct(r)'
  PROVE  Direct(r)
  <1>1. overflowed \in Seq(Records) BY DEF IInv, TypeOK, HistoryTypeOK
  <1>2. CASE overflowed' = overflowed BY <1>2 DEF Direct
  <1>3. ASSUME NEW e \in Records, overflowed' = Append(overflowed, e)
        PROVE  Direct(r)
    <2>1. /\ Len(overflowed') = Len(overflowed) + 1
          /\ \A j \in 1 .. Len(overflowed) : overflowed'[j] = overflowed[j]
      BY <1>1, <1>3, AppendIndex
    <2>2. Len(overflowed) \in Nat BY <1>1
    <2> QED BY <2>1, <2>2 DEF Direct
  <1> QED BY <1>2, <1>3 DEF Histories

\* A record that was read had been read before, or was the scan's.
LEMMA OutTrace ==
  ASSUME IInv, IInv', Histories, NEW k \in 1 .. Len(delivered'), NEW d,
         d = delivered'[k]
  PROVE  /\ d \in Records
         /\ \/ k \in 1 .. Len(delivered) /\ delivered[k] = d
            \/ /\ k = Len(delivered) + 1 /\ ScanReady
               /\ Live(d, my_cons) /\ Front' = my_cons + 1
  <1>1. delivered \in Seq(Records) /\ delivered' \in Seq(Records)
    BY DEF IInv, TypeOK, HistoryTypeOK
  <1>2. d \in Records BY <1>1
  <1>3. CASE delivered' = delivered BY <1>2, <1>3
  <1>4. CASE ScanReady /\ delivered' # delivered
    <2>1. physical_index(my_cons) \in SlotIds
      BY IndexType DEF IInv, TypeOK, ReadTypeOK
    <2>2. PICK e : e = slot_data[physical_index(my_cons)] OBVIOUS
    <2>3. /\ pc[Consumer] = "scan" /\ pc'[Consumer] = "recycle"
          /\ UNCHANGED my_cons
          /\ IsReadable(physical_index(my_cons), my_cons)
          /\ delivered' = Append(delivered, e)
      BY <1>4, <2>2 DEF ScanReady, Goto, readVars, IInv, TypeOK, PcTypeOK,
         Threads
    <2>4. e \in Records
      BY <2>1, <2>2, <2>3 DEF IsReadable, IInv, ReadyHasData
    <2>5. /\ Len(delivered') = Len(delivered) + 1
          /\ delivered'[Len(delivered) + 1] = e
          /\ \A j \in 1 .. Len(delivered) : delivered'[j] = delivered[j]
      BY <1>1, <2>3, <2>4, AppendIndex
    <2>6. Live(e, my_cons)
      BY <2>1, <2>2, <2>3 DEF Live, Claims, IsReadable, Front, IInv, TypeOK,
         ReadTypeOK
    <2>7. Front' = my_cons + 1 BY <2>3 DEF Front
    <2>8. Len(delivered) \in Nat BY <1>1
    <2>9. k \in 1 .. Len(delivered) \/ k = Len(delivered) + 1
      BY <2>5, <2>8
    <2> QED BY <1>2, <1>4, <2>5, <2>6, <2>7, <2>9
  <1> QED BY <1>3, <1>4 DEF Histories

\* Every step keeps NumbersFilled.
LEMMA FilledStep ==
  ASSUME IInv, IInv', NumbersFilled, Advance
  PROVE  NumbersFilled'
  <1> USE DEF Advance
  <1>1. /\ prod_seq \in Nat /\ prod_seq' \in Nat
        /\ \A t \in Threads : my_seq[t] \in Nat /\ my_seq'[t] \in Nat
    BY DEF IInv, TypeOK, SharedTypeOK, CallTypeOK
  <1>2. ASSUME NEW a \in Nat, a = prod_seq PROVE Filled(a)'
    BY <1>2, FilledStays DEF NumbersFilled
  <1>3. ASSUME NEW t \in Threads, pc[t] = "store", NEW a \in Nat,
               a = my_seq[t] + 1
        PROVE  Filled(a)'
    BY <1>3, FilledStays, OwnFilled DEF ClaimPoints
  <1>4. ASSUME NEW a \in Nat, a = prod_seq' PROVE Filled(a)'
    <2>1. CASE prod_seq' = prod_seq BY <1>2, <1>4, <2>1
    <2>2. ASSUME NEW t \in Threads, pc[t] = "store",
                 prod_seq' = my_seq[t] + 1
          PROVE  Filled(a)'
      BY <1>3, <1>4, <2>2
    <2> QED BY <2>1, <2>2 DEF Loads
  <1>5. ASSUME NEW t \in Threads, pc'[t] = "try", NEW a \in Nat,
               a = my_seq'[t]
        PROVE  Filled(a)'
    <2>1. CASE pc[t] = "try" /\ my_seq'[t] = my_seq[t]
      BY <1>5, <2>1, FilledStays DEF NumbersFilled
    <2>2. CASE my_seq'[t] = prod_seq BY <1>2, <1>5, <2>2
    <2> QED BY <1>5, <2>1, <2>2 DEF Loads
  <1>6. ASSUME NEW r \in Records, NEW s \in Nat, Live(r, s)'
        PROVE  Filled(s + 1)'
    <2>1. CASE Live(r, s)
      <3>1. Filled(s + 1) /\ s + 1 \in Nat BY <2>1 DEF NumbersFilled
      <3> QED BY <3>1, FilledStays
    <2>2. ASSUME NEW t \in Threads, Takes(t), my_seq[t] = s
          PROVE  Filled(s + 1)'
      <3>1. Filled(s) BY <2>2 DEF Takes, NumbersFilled
      <3>2. /\ slot_state[physical_index(s)] = "Empty"
            /\ slot_state'[physical_index(s)] # "Empty"
        BY <2>2 DEF Takes, SlotOf
      <3> QED BY <3>1, <3>2, FilledTaken
    <2> QED BY <1>6, <2>1, <2>2, LiveTrace
  <1>7. Filled(prod_seq)' BY <1>1, <1>4 DEF Filled
  <1>8. \A t \in Threads : pc'[t] = "try" => Filled(my_seq[t])'
    BY <1>1, <1>5 DEF Filled
  <1> QED BY <1>6, <1>7, <1>8 DEF NumbersFilled

\* A slot taken for a record that never overflows is taken by its producer,
\* which has no later record.
LEMMA TakerLatest ==
  ASSUME IInv, PlaceInv, OwnRecord, DrainsOverflowed, NEW t \in Threads,
         Takes(t), NEW r \in Records, r = rec[t], Direct(r),
         NEW q \in Records, Direct(q), q[1] = r[1]
  PROVE  /\ t \in Producers
         /\ \A s : Claims(q, s) => q[2] < r[2]
         /\ \A k \in 1 .. Len(delivered) : delivered[k] = q => q[2] < r[2]
  <1>1. t \in Producers BY DEF Threads, Takes, DrainsOverflowed
  <1>2. r = <<t, calls[t]>> BY <1>1 DEF OwnRecord, Takes, ReservePoints
  <1>3. q[1] = t /\ r[2] = calls[t] BY <1>2
  <1> QED BY <1>1, <1>3, CallHighest DEF Takes

\* The front of the scan is a number that does not go back.
LEMMA FrontTypes ==
  ASSUME IInv, Advance
  PROVE  /\ Front \in Nat /\ Front' \in Nat /\ Front <= Front'
         /\ my_cons \in Nat
  <1>0. my_cons \in Nat BY DEF IInv, TypeOK, ReadTypeOK
  <1>f. FrontMoves BY DEF Advance
  <1>1. my_cons \in Nat /\ my_cons' \in Nat BY <1>0, <1>f DEF FrontMoves
  <1>2. \A n \in Nat : n + 1 \in Nat OBVIOUS
  <1>3. Front \in Nat BY <1>1, <1>2 DEF Front
  <1>4. Front' \in Nat BY <1>1, <1>2 DEF Front
  <1> QED BY <1>1, <1>3, <1>4, <1>f DEF FrontMoves

\* Every step keeps LiveOrdered: a new claim has the highest number, and its
\* record is its producer's latest.
LEMMA LiveOrderedStep ==
  ASSUME IInv, IInv', PlaceInv, OwnRecord, NumbersFilled, LiveOrdered,
         DrainsOverflowed, Advance
  PROVE  LiveOrdered'
  <1> SUFFICES ASSUME NEW r \in Records, NEW q \in Records,
                      NEW s \in Nat, NEW m \in Nat,
                      Live(r, s)', Live(q, m)', r[1] = q[1],
                      Direct(r)', Direct(q)', r[2] <= q[2]
               PROVE  s <= m
    BY DEF LiveOrdered
  <1>1. Direct(r) /\ Direct(q) BY DirectShrinks DEF Advance
  <1>2. /\ Front \in Nat /\ Front' \in Nat /\ Front <= Front'
        /\ s >= Front' /\ m >= Front'
    BY FrontTypes DEF Live
  <1>3. s >= Front /\ m >= Front BY <1>2
  <1>4. r[2] \in Nat /\ q[2] \in Nat BY BoundsAssumption DEF Records
  <1>5. CASE Live(r, s) /\ Live(q, m) BY <1>1, <1>5 DEF LiveOrdered
  <1>6. ASSUME Live(r, s), NEW t \in Threads, Takes(t), my_seq[t] = m
        PROVE  s <= m
    <2>1. s < m BY <1>3, <1>6, TakenHighest
    <2> QED BY <2>1
  <1>7. ASSUME NEW t \in Threads, Takes(t), rec[t] = r, Live(q, m)
        PROVE  FALSE
    <2>1. Claims(q, m) BY <1>7 DEF Live
    <2>2. q[2] < r[2] BY <1>1, <1>7, <2>1, TakerLatest
    <2> QED BY <1>4, <2>2
  <1>8. ASSUME NEW t \in Threads, Takes(t), my_seq[t] = s,
               NEW u \in Threads, Takes(u), my_seq[u] = m
        PROVE  s <= m
    BY <1>8 DEF Advance, Traces, ThreadClaims
  <1>9. /\ \/ Live(r, s)
           \/ \E t \in Threads : Takes(t) /\ rec[t] = r /\ my_seq[t] = s
        /\ \/ Live(q, m)
           \/ \E t \in Threads : Takes(t) /\ rec[t] = q /\ my_seq[t] = m
    BY LiveTrace DEF Advance
  <1> QED BY <1>5, <1>6, <1>7, <1>8, <1>9

\* Every step keeps LiveAfterOut: the scan takes the lowest live number.
LEMMA LiveAfterOutStep ==
  ASSUME IInv, IInv', PlaceInv, OwnRecord, LiveOrdered, LiveAfterOut,
         DrainsOverflowed, Advance
  PROVE  LiveAfterOut'
  <1> SUFFICES ASSUME NEW r \in Records, NEW s \in Nat,
                      NEW k \in 1 .. Len(delivered'), NEW d,
                      d = delivered'[k],
                      Live(r, s)', Direct(r)', Direct(d)', d[1] = r[1]
               PROVE  d[2] < r[2]
    BY DEF LiveAfterOut, Direct
  <1>1. Direct(r) /\ Direct(d) BY DirectShrinks DEF Advance
  <1>2. Front' \in Nat /\ s >= Front' /\ my_cons \in Nat
    BY FrontTypes DEF Live
  <1>3. /\ d \in Records
        /\ \/ k \in 1 .. Len(delivered) /\ delivered[k] = d
           \/ /\ k = Len(delivered) + 1 /\ ScanReady
              /\ Live(d, my_cons) /\ Front' = my_cons + 1
    BY OutTrace DEF Advance
  <1>4. r[2] \in Nat /\ d[2] \in Nat BY <1>3, BoundsAssumption DEF Records
  <1>5. \/ Live(r, s)
        \/ \E t \in Threads : Takes(t) /\ rec[t] = r /\ my_seq[t] = s
    BY LiveTrace DEF Advance
  <1>6. CASE Live(r, s) /\ k \in 1 .. Len(delivered) /\ delivered[k] = d
    BY <1>1, <1>6 DEF LiveAfterOut
  <1>7. CASE Live(r, s) /\ Live(d, my_cons) /\ Front' = my_cons + 1
    <2>1. r[2] <= d[2] => s <= my_cons
      BY <1>1, <1>2, <1>3, <1>7 DEF LiveOrdered
    <2>2. ~(s <= my_cons) BY <1>2, <1>7
    <2> QED BY <1>4, <2>1, <2>2
  <1>8. ASSUME NEW t \in Threads, Takes(t), rec[t] = r,
               k \in 1 .. Len(delivered), delivered[k] = d
        PROVE  d[2] < r[2]
    BY <1>1, <1>3, <1>8, TakerLatest
  <1>9. ASSUME NEW t \in Threads, Takes(t), ScanReady PROVE FALSE
    BY <1>9 DEF Takes, ScanReady, Goto, IInv, TypeOK, PcTypeOK
  <1> QED BY <1>3, <1>5, <1>6, <1>7, <1>8, <1>9

\* Every step keeps SeqHolds: the scan passes the slot of a number only with
\* the number itself.
LEMMA SeqHoldsStep ==
  ASSUME IInv, IInv', NumbersFilled, SeqHolds, Advance
  PROVE  SeqHolds'
  <1> SUFFICES ASSUME NEW t \in Threads, pc'[t] = "seq", my_seq'[t] >= Front'
               PROVE  /\ slot_state'[SlotOf(t)'] = "Ready"
                      /\ slot_data'[SlotOf(t)'] = rec'[t]
    BY DEF SeqHolds
  <1>1. /\ my_seq'[t] = my_seq[t] /\ rec'[t] = rec[t]
        /\ pc[t] \in ClaimPoints \/ Takes(t)
    BY DEF Advance, Traces, ThreadClaims, ClaimPoints
  <1>2. SlotOf(t)' = SlotOf(t) BY <1>1 DEF SlotOf
  <1>3. /\ Front \in Nat /\ Front' \in Nat /\ Front <= Front'
        /\ my_seq[t] \in Nat /\ my_cons \in Nat /\ Capacity \in Nat
    BY CapacityAssumption, FrontTypes DEF IInv, TypeOK, CallTypeOK
  <1>4. my_seq[t] >= Front BY <1>1, <1>3
  <1>5. CASE pc[t] = "seq"
    <2>1. slot_state[SlotOf(t)] = "Ready" /\ slot_data[SlotOf(t)] = rec[t]
      BY <1>4, <1>5 DEF SeqHolds
    <2>2. SlotOf(t) \in SlotIds BY <1>3, IndexType DEF SlotOf
    <2>3. ~(SlotOf(t) = physical_index(my_cons) /\ Front' = my_cons + 1)
      <3> SUFFICES ASSUME SlotOf(t) = physical_index(my_cons),
                          Front' = my_cons + 1
                   PROVE  FALSE
        OBVIOUS
      <3>1. my_cons < my_seq[t] BY <1>1, <1>3
      <3>2. Filled(my_seq[t] + 1) BY <1>5, OwnFilled DEF ClaimPoints
      <3>3. my_seq[t] + 1 <= my_cons + Capacity BY <3>2 DEF Filled
      <3>4. my_seq[t] < my_cons + Capacity BY <1>3, <3>3
      <3> QED BY <1>3, <3>1, <3>4, IndexApart DEF SlotOf
    <2> QED BY <1>1, <1>2, <2>1, <2>2, <2>3 DEF Advance, Traces, ReadyStays
  <1>6. CASE pc[t] # "seq"
    BY <1>1, <1>2, <1>6 DEF Advance, Traces, SeqFrom
  <1> QED BY <1>5, <1>6

\* Every step keeps SeqStored.
LEMMA SeqStoredStep ==
  ASSUME IInv, IInv', Advance
  PROVE  SeqStored'
  <1> SUFFICES ASSUME NEW t \in Threads, pc'[t] \in {"held", "written"}
               PROVE  \/ slot_seq'[SlotOf(t)'] = my_seq'[t]
                      \/ slot_seq'[SlotOf(t)'] < Front'
    BY DEF SeqStored
  <1>1. my_seq'[t] = my_seq[t]
    BY DEF Advance, Traces, ThreadClaims, ClaimPoints
  <1>2. SlotOf(t)' = SlotOf(t) BY <1>1 DEF SlotOf
  <1>3. Front \in Nat /\ Front' \in Nat /\ Front <= Front'
    BY FrontTypes
  <1>4. SlotOf(t)' \in SlotIds BY IndexType DEF SlotOf, IInv, TypeOK, CallTypeOK
  <1>5. slot_seq'[SlotOf(t)'] \in Nat
    BY <1>4 DEF IInv, TypeOK, SlotTypeOK
  <1>6. slot_seq'[SlotOf(t)] = my_seq[t] \/ slot_seq'[SlotOf(t)] < Front
    BY DEF Advance, Traces, StoredFrom
  <1> QED BY <1>1, <1>2, <1>3, <1>5, <1>6

\* Every step keeps DrainsOverflowed.
LEMMA DrainsStep ==
  ASSUME IInv, IInv', DrainsOverflowed, KeepsNewest', Advance
  PROVE  DrainsOverflowed'
  <1> SUFFICES ASSUME pc'[Consumer] \in ClaimPoints \cup {"try"},
                      NEW r, r = rec'[Consumer], Direct(r)'
               PROVE  FALSE
    BY DEF DrainsOverflowed, Direct
  <1> Consumer \in Threads BY DEF Threads
  <1>1. CASE pc'[Consumer] = "seq"
    <2>1. rec'[Consumer] = rec[Consumer] /\ pc[Consumer] \in ClaimPoints
      BY <1>1 DEF Advance, Traces, ThreadClaims, ClaimPoints, Takes
    <2>2. Direct(r) BY DirectShrinks DEF Advance
    <2> QED BY <2>1, <2>2 DEF DrainsOverflowed
  <1>2. CASE pc'[Consumer] # "seq"
    <2>1. Holding' BY <1>2 DEF Holding, InHand, HandPoints, ClaimPoints
    <2>2. /\ Len(overflow_queue') + 1 <= Len(overflowed')
          /\ r = overflowed'[Len(overflowed') - Len(overflow_queue')]
      BY <2>1 DEF KeepsNewest
    <2>3. Len(overflow_queue') \in Nat /\ Len(overflowed') \in Nat
      BY DEF IInv, TypeOK, SharedTypeOK, HistoryTypeOK
    <2>4. Len(overflowed') - Len(overflow_queue') \in 1 .. Len(overflowed')
      BY <2>2, <2>3
    <2> QED BY <2>2, <2>4 DEF Direct
  <1> QED BY <1>1, <1>2

\* Every step keeps ProducerOrder: what the scan delivers was live.
LEMMA ProducerOrderStep ==
  ASSUME IInv, IInv', LiveAfterOut, ProducerOrder, Advance, ~released
  PROVE  ProducerOrder'
  <1> SUFFICES ASSUME NEW j \in 1 .. Len(delivered'),
                      NEW k \in 1 .. Len(delivered'), j < k,
                      NEW c, c = delivered'[j], NEW d, d = delivered'[k],
                      c[1] = d[1],
                      {c, d} \cap Elements(overflowed)' = {}
               PROVE  c[2] < d[2]
    BY DEF ProducerOrder
  <1>1. Direct(c)' /\ Direct(d)' BY DEF Direct, Elements
  <1>2. Direct(c) /\ Direct(d) BY <1>1, DirectShrinks DEF Advance
  <1>3. {c, d} \cap Elements(overflowed) = {} BY <1>2 DEF Direct, Elements
  <1>4. Len(delivered) \in Nat BY DEF IInv, TypeOK, HistoryTypeOK
  <1>5. /\ \/ j \in 1 .. Len(delivered) /\ delivered[j] = c
           \/ j = Len(delivered) + 1
        /\ \/ k \in 1 .. Len(delivered) /\ delivered[k] = d
           \/ k = Len(delivered) + 1 /\ Live(d, my_cons)
        /\ d \in Records /\ k <= Len(delivered) + 1
    <2>1. /\ \/ j \in 1 .. Len(delivered) /\ delivered[j] = c
             \/ j = Len(delivered) + 1
      BY OutTrace DEF Advance
    <2>2. /\ \/ k \in 1 .. Len(delivered) /\ delivered[k] = d
             \/ k = Len(delivered) + 1 /\ Live(d, my_cons)
          /\ d \in Records
      BY OutTrace DEF Advance
    <2>3. k <= Len(delivered) + 1 BY <1>4, <2>2
    <2> QED BY <2>1, <2>2, <2>3
  <1>6. j \in 1 .. Len(delivered) /\ delivered[j] = c BY <1>4, <1>5
  <1>7. CASE k \in 1 .. Len(delivered) /\ delivered[k] = d
    BY <1>3, <1>6, <1>7 DEF ProducerOrder
  <1>8. CASE Live(d, my_cons)
    <2>1. my_cons \in Nat BY DEF IInv, TypeOK, ReadTypeOK
    <2> QED BY <1>2, <1>5, <1>6, <1>8, <2>1 DEF LiveAfterOut
  <1> QED BY <1>5, <1>7, <1>8

\* A drop is not forgotten.
LEMMA ReleasedStays ==
  ASSUME Next, released
  PROVE  released'
  BY DEF Next, BeginCall, BeginOversized, DropReservation, QueuePush, Reserve,
     LoadProdSeq, TryTransition, StoreProdSeq, ReserveSetSeq, Commit, WriteData,
     CommitTransition, CommitSetSeq, NotifyConsumer, Read, ReadBegin, ScanReady,
     Recycle, ScanStop, PublishConsSeq, LockQueue, DrainNext, PutBack,
     DrainDone, Wait, WaitForData, Woken, Timeout, TimedOut, history

\* Every step of Next keeps OrderInv.
LEMMA OrderStep ==
  ASSUME IInv, IInv', OwnInv, PlaceInv, KeepsNewest', WakeInv, OrderInv, Next
  PROVE  OrderInv'
  <1>1. OwnRecord' BY OwnRecordStep DEF OrderInv
  <1>2. ConsAtRest' BY AtRestStep DEF OrderInv
  <1>3. ASSUME ~released' PROVE Sequenced'
    <2>1. ~released BY <1>3, ReleasedStays
    <2>2. Sequenced /\ OwnRecord /\ ConsAtRest BY <2>1 DEF OrderInv
    <2>3. Advance
      BY <1>3, <2>2, FrontSteps, EmptySteps, LoadSteps, TraceSteps, HistorySteps
         DEF Advance, Sequenced, OwnInv
    <2>4. NumbersFilled' BY <2>2, <2>3, FilledStep DEF Sequenced
    <2>5. LiveOrdered' BY <2>2, <2>3, LiveOrderedStep DEF Sequenced
    <2>6. LiveAfterOut' BY <2>2, <2>3, LiveAfterOutStep DEF Sequenced
    <2>7. SeqHolds' /\ SeqStored'
      BY <2>2, <2>3, SeqHoldsStep, SeqStoredStep DEF Sequenced
    <2>8. DrainsOverflowed' BY <2>2, <2>3, DrainsStep DEF Sequenced
    <2>9. ProducerOrder' BY <2>1, <2>2, <2>3, ProducerOrderStep DEF Sequenced
    <2> QED BY <2>4, <2>5, <2>6, <2>7, <2>8, <2>9 DEF Sequenced
  <1> QED BY <1>1, <1>2, <1>3 DEF OrderInv

-----------------------------------------------------------------------------
(* Invariance.                                                             *)

\* RInv holds initially.
LEMMA RecordsInit == Init => RInv
  <1> SUFFICES ASSUME Init PROVE RInv OBVIOUS
  <1> Consumer \in Threads BY DEF Threads
  <1>1. pc[Consumer] = "idle" /\ \A t \in Threads : pc[t] = "idle"
    BY DEF Init
  <1>2. /\ \A i \in SlotIds : slot_state[i] = "Empty"
        /\ Len(overflow_queue) = 0 /\ Len(delivered) = 0 /\ Len(overflowed) = 0
        /\ ~ready /\ accepted = {}
    BY DEF Init
  <1>3. OwnInv
    BY <1>1, <1>2 DEF OwnInv, ConsumerDrains, WrittenData, OwnTaker, Owns,
       ReservePoints
  <1>4. \A t \in Threads : ~InHand(t) BY <1>1 DEF InHand, HandPoints
  <1>5. PlaceInv
    BY <1>2, <1>4 DEF PlaceInv, AllNumbered, HandNumbered, QueueNumbered,
       SlotNumbered, OutNumbered, OnePlace, HandUnique, QueueUnique, SlotUnique,
       AtMostOnce
  <1>6. KeepsNewest
    BY <1>2, <1>4, BoundsAssumption DEF KeepsNewest, Holding
  <1>7. LossInv
    BY <1>1, <1>2 DEF LossInv, CommittedKept, AcceptedKept
  <1>8. WakeInv
    <2>1. physical_index(cons_seq) \in SlotIds BY IndexType DEF Init
    <2> QED BY <1>1, <1>2, <2>1 DEF WakeInv, ScanLocals, BehindScan,
                HeadAnnounced, IsReadable
  <1>9. OrderInv
    <2>1. OwnRecord /\ ConsAtRest
      BY <1>1 DEF OwnRecord, ConsAtRest, Threads, ReservePoints, Init
    <2>2. \A t \in Threads : pc[t] \notin ClaimPoints \cup {"try"}
      BY <1>1 DEF ClaimPoints
    <2>3. \A r, s : ~Claims(r, s) BY <1>2, <2>2 DEF Claims
    <2>4. Filled(prod_seq)
      <3>1. prod_seq = 0 /\ my_cons = 0 /\ Capacity \in Nat
        BY CapacityAssumption DEF Init
      <3> QED BY <3>1 DEF Filled
    <2>5. NumbersFilled BY <2>2, <2>3, <2>4 DEF NumbersFilled, Live
    <2>6. LiveOrdered /\ LiveAfterOut
      BY <2>3 DEF LiveOrdered, LiveAfterOut, Live
    <2>7. SeqHolds /\ SeqStored /\ DrainsOverflowed
      BY <2>2 DEF SeqHolds, SeqStored, DrainsOverflowed, ClaimPoints
    <2>8. ProducerOrder BY <1>2 DEF ProducerOrder
    <2> QED BY <2>1, <2>5, <2>6, <2>7, <2>8 DEF OrderInv, Sequenced
  <1> QED BY <1>3, <1>5, <1>6, <1>7, <1>8, <1>9, InvInit DEF RInv

\* Stuttering keeps RInv.
LEMMA RecordsStutter == ASSUME RInv, UNCHANGED vars PROVE RInv'
  <1> USE DEF RInv, vars, slotVars, seqVars, callVars, readVars, history
  <1>1. IInv' BY InvStutter
  <1>2. OwnInv'
    BY DEF OwnInv, ConsumerDrains, WrittenData, OwnTaker, SlotOf, Owns
  <1>3. PlaceInv'
    BY DEF PlaceInv, AllNumbered, HandNumbered, QueueNumbered, SlotNumbered,
       OutNumbered, Numbered, OnePlace, HandUnique, QueueUnique, SlotUnique,
       AtMostOnce, InHand
  <1>4. KeepsNewest' BY DEF KeepsNewest, Holding, InHand
  <1>5. LossInv'
    BY DEF LossInv, CommittedKept, AcceptedKept, Kept, Returned, Stored, Queued,
       LostWithSlot, Leaked, Owns, SlotOf, Holding, InHand
  <1>6. WakeInv'
    BY DEF WakeInv, ScanLocals, BehindScan, HeadAnnounced, Announced, IsReadable
  <1>7. OwnRecord' /\ ConsAtRest'
    BY DEF OrderInv, OwnRecord, ConsAtRest
  <1>8. ASSUME ~released' PROVE Sequenced'
    <2>1. Sequenced BY <1>8 DEF OrderInv
    <2>2. NumbersFilled'
      BY <2>1 DEF Sequenced, NumbersFilled, Filled, Live, Claims, Front
    <2>3. LiveOrdered' /\ LiveAfterOut'
      BY <2>1 DEF Sequenced, LiveOrdered, LiveAfterOut, Live, Claims, Front,
         Direct
    <2>4. SeqHolds' /\ SeqStored' /\ DrainsOverflowed'
      BY <2>1 DEF Sequenced, SeqHolds, SeqStored, DrainsOverflowed, Front,
         SlotOf, Direct
    <2>5. ProducerOrder'
      <3>1. ProducerOrder /\ UNCHANGED <<delivered, overflowed, released>>
        BY <2>1 DEF Sequenced
      <3>2. Elements(overflowed)' = Elements(overflowed) BY <3>1 DEF Elements
      <3> QED BY <3>1, <3>2 DEF ProducerOrder
    <2> QED BY <2>2, <2>3, <2>4, <2>5 DEF Sequenced
  <1>9. OrderInv' BY <1>7, <1>8 DEF OrderInv
  <1> QED BY <1>1, <1>2, <1>3, <1>4, <1>5, <1>6, <1>9

\* RInv is inductive.
LEMMA RecordsNext == RInv /\ [Next]_vars => RInv'
  <1> SUFFICES ASSUME RInv, [Next]_vars PROVE RInv' OBVIOUS
  <1>1. CASE Next
    <2>1. IInv' BY <1>1, InvNext DEF RInv
    <2>2. ConsumerDrains' /\ WrittenData' /\ OwnTaker'
      BY <1>1, ConsumerDrainsStep, WrittenDataStep, OwnTakerStep
         DEF RInv, OwnInv
    <2>3. PlaceInv' BY <1>1, PlaceStep DEF RInv, OwnInv
    <2>4. KeepsNewest' BY <1>1, NewestStep DEF RInv
    <2>5. LossInv' BY <1>1, LossStep DEF RInv
    <2>6. WakeInv'
      <3>1. CASE Calling BY <3>1, CallingWake DEF RInv
      <3>2. CASE Read \/ Wait BY <3>2, LoopWake DEF RInv
      <3> QED BY <1>1, <3>1, <3>2 DEF Next, Calling
    <2>7. OrderInv' BY <1>1, <2>1, <2>4, OrderStep DEF RInv
    <2> QED BY <2>1, <2>2, <2>3, <2>4, <2>5, <2>6, <2>7 DEF RInv, OwnInv
  <1>2. CASE UNCHANGED vars BY <1>2, RecordsStutter
  <1> QED BY <1>1, <1>2

\* The records' invariant holds in every reachable state.
THEOREM RecordsInvariance == Spec => []RInv
  BY RecordsInit, RecordsNext, PTL DEF Spec

\* read() returns no record twice.
THEOREM DeliveredOnce == Spec => []AtMostOnce
  <1>1. RInv => AtMostOnce BY DEF RInv, PlaceInv, OnePlace
  <1> QED BY <1>1, RecordsInvariance, PTL

\* The overflow queue is bounded and holds the newest records pushed, in
\* order, across evictions, pops and put-backs.
THEOREM OverflowNewest == Spec => []OverflowKeepsNewest
  <1>1. RInv => OverflowKeepsNewest BY NewestSuffix DEF RInv
  <1> QED BY <1>1, RecordsInvariance, PTL

\* For both values of SharedHandle, an accepted record disappears only by
\* eviction from the full overflow queue, by its missing CRC, or with a slot
\* that stays Reserved for good, one record per slot.
THEOREM LossBounded == Spec => []LossIsLeak
  <1>1. RInv => LossIsLeak BY KeptLossIsLeak DEF RInv
  <1> QED BY <1>1, RecordsInvariance, PTL

\* Without a timeout, the consumer never sleeps on a readable head slot.
THEOREM WakeupKept == Spec => [](~AllowTimeout => NoLostWakeup)
  <1>1. RInv => (~AllowTimeout => NoLostWakeup)
    <2> SUFFICES ASSUME RInv, ~AllowTimeout, pc[Consumer] = "waiting"
                 PROVE  /\ ~ready
                        /\ IsReadable(physical_index(cons_seq), cons_seq) =>
                             \E t \in Threads : pc[t] \in {"seq", "notify"}
      BY DEF NoLostWakeup
    <2>1. ~ready /\ HeadAnnounced BY DEF RInv, WakeInv
    <2> QED BY <2>1 DEF HeadAnnounced, Quiet, Announced
  <1> QED BY <1>1, RecordsInvariance, PTL

\* As long as no reservation is dropped uncommitted, read() returns the
\* records of one producer that never overflowed in the order of its calls,
\* whatever prod_seq and slot.seq went through in between.
THEOREM ReadInCallOrder == Spec => []ProducerOrder
  <1>1. RInv => ProducerOrder BY DEF RInv, OrderInv, Sequenced, ProducerOrder
  <1> QED BY <1>1, RecordsInvariance, PTL

=============================================================================
