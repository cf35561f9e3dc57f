------------------------ MODULE VolatileRingAsCoded ------------------------
(***************************************************************************)
(* Theorems about VolatileRing as the code is written: a Reservation       *)
(* refers to a clone of the buffer, so SharedHandle is FALSE.              *)
(***************************************************************************)
EXTENDS VolatileRingProofs

\* Neither commit nor drop ever reaches the parent's slots, so the consumer
\* finds nothing to recycle.
OnlyReserved ==
    /\ \A i \in SlotIds : slot_state[i] \in {"Empty", "Reserved"}
    /\ pc[Consumer] # "recycle"

\* A loaded production sequence may be stale, never ahead.
LoadedNotAhead == \A t \in Threads : pc[t] = "try" => my_seq[t] <= prod_seq

CodeInv == IInv /\ OnlyReserved /\ LoadedNotAhead /\ ProdSeqExact

\* Sequence numbers below the capacity are their own slot, the next is slot 0.
LEMMA IndexBelow ==
  /\ \A n \in Nat : n < Capacity => physical_index(n) = n
  /\ physical_index(Capacity) = 0
  BY CapacityAssumption, SMT DEF physical_index

\* Comparisons of slot numbers with a sequence number.
LEMMA SlotOrder ==
  ASSUME NEW n \in Nat
  PROVE  \A j \in SlotIds : /\ j <= n <=> (j < n \/ j = n)
                            /\ j < n + 1 <=> (j < n \/ j = n)
  BY CapacityAssumption, SMT DEF SlotIds

\* A step that neither touches the slots' states nor prod_seq, and moves no
\* thread into or out of the store, keeps ProdSeqExact.
LEMMA ExactFrame ==
  ASSUME ProdSeqExact, UNCHANGED <<slot_state, prod_seq>>,
         \A u \in Threads : pc'[u] = "store" <=> pc[u] = "store",
         \A u \in Threads : pc'[u] = "store" => my_seq'[u] = my_seq[u]
  PROVE  ProdSeqExact'
  BY Zenon DEF ProdSeqExact

\* The invariant holds initially.
LEMMA CodeInit == Init => CodeInv
  <1> SUFFICES ASSUME Init PROVE CodeInv OBVIOUS
  <1>1. OnlyReserved BY DEF Init, OnlyReserved, Threads
  <1>2. LoadedNotAhead BY DEF Init, LoadedNotAhead
  <1>3. ProdSeqExact BY CapacityAssumption DEF Init, ProdSeqExact, SlotIds
  <1> QED BY InvInit, <1>1, <1>2, <1>3 DEF CodeInv

\* Every step keeps OnlyReserved.
LEMMA OnlyReservedStep ==
  ASSUME ~SharedHandle, CodeInv, Next
  PROVE  OnlyReserved'
  <1> USE IndexType DEF CodeInv, IInv, TypeOK, SlotTypeOK, CallTypeOK,
      PcTypeOK, ReadTypeOK,
             SharedTypeOK, OnlyReserved, HandleState, IsReadable, CanReserve, AfterNone, AfterCommit, AfterFlagTest, Threads, ReleaseSlot, slotVars, seqVars, callVars, readVars
  <1>1. ASSUME NEW p \in Producers, BeginCall(p) PROVE OnlyReserved'
    BY <1>1 DEF BeginCall, Goto, SetState, SetSeq
  <1>2. ASSUME NEW p \in Producers, BeginOversized(p) PROVE OnlyReserved'
    BY <1>2 DEF BeginOversized, Goto, SetState, SetSeq
  <1>3. ASSUME NEW t \in Threads, LoadProdSeq(t) PROVE OnlyReserved'
    BY <1>3 DEF LoadProdSeq, Goto, SetState, SetSeq
  <1>4. ASSUME NEW t \in Threads, TryTransition(t) PROVE OnlyReserved'
    BY <1>4 DEF TryTransition, Goto, SetState, SetSeq
  <1>5. ASSUME NEW t \in Threads, StoreProdSeq(t) PROVE OnlyReserved'
    BY <1>5 DEF StoreProdSeq, Goto, SetState, SetSeq
  <1>6. ASSUME NEW t \in Threads, ReserveSetSeq(t) PROVE OnlyReserved'
    BY <1>6 DEF ReserveSetSeq, Goto, SetState, SetSeq
  <1>7. ASSUME NEW t \in Threads, WriteData(t) PROVE OnlyReserved'
    BY <1>7 DEF WriteData, Goto, SetState, SetSeq
  <1>8. ASSUME NEW t \in Threads, CommitTransition(t) PROVE OnlyReserved'
    BY <1>8 DEF CommitTransition, Goto, SetState, SetSeq
  <1>9. ASSUME NEW t \in Threads, CommitSetSeq(t) PROVE OnlyReserved'
    BY <1>9 DEF CommitSetSeq, Goto, SetState, SetSeq
  <1>10. ASSUME NEW t \in Threads, NotifyConsumer(t) PROVE OnlyReserved'
    BY <1>10 DEF NotifyConsumer, Goto, SetState, SetSeq
  <1>11. ASSUME NEW p \in Producers, DropReservation(p) PROVE OnlyReserved'
    BY <1>11 DEF DropReservation, Goto, SetState, SetSeq
  <1>12. ASSUME NEW p \in Producers, QueuePush(p) PROVE OnlyReserved'
    BY <1>12 DEF QueuePush, Goto, SetState, SetSeq
  <1>13. ASSUME ReadBegin PROVE OnlyReserved'
    BY <1>13 DEF ReadBegin, Goto, SetState, SetSeq
  <1>14. ASSUME ScanReady PROVE OnlyReserved'
    BY <1>14 DEF ScanReady, Goto, SetState, SetSeq
  <1>15. ASSUME Recycle PROVE OnlyReserved'
    BY <1>15 DEF Recycle, Goto, SetState, SetSeq
  <1>16. ASSUME ScanStop PROVE OnlyReserved'
    BY <1>16 DEF ScanStop, Goto, SetState, SetSeq
  <1>17. ASSUME PublishConsSeq PROVE OnlyReserved'
    BY <1>17 DEF PublishConsSeq, Goto, SetState, SetSeq
  <1>18. ASSUME LockQueue PROVE OnlyReserved'
    BY <1>18 DEF LockQueue, Goto, SetState, SetSeq
  <1>19. ASSUME DrainNext PROVE OnlyReserved'
    BY <1>19 DEF DrainNext, Goto, SetState, SetSeq
  <1>20. ASSUME PutBack PROVE OnlyReserved'
    BY <1>20 DEF PutBack, Goto, SetState, SetSeq
  <1>21. ASSUME DrainDone PROVE OnlyReserved'
    BY <1>21 DEF DrainDone, Goto, SetState, SetSeq
  <1>22. ASSUME WaitForData PROVE OnlyReserved'
    BY <1>22 DEF WaitForData, Goto, SetState, SetSeq
  <1>23. ASSUME Woken PROVE OnlyReserved'
    BY <1>23 DEF Woken, Goto, SetState, SetSeq
  <1>24. ASSUME Timeout PROVE OnlyReserved'
    BY <1>24 DEF Timeout, Goto, SetState, SetSeq
  <1>25. ASSUME TimedOut PROVE OnlyReserved'
    BY <1>25 DEF TimedOut, Goto, SetState, SetSeq
  <1> QED BY <1>1, <1>2, <1>3, <1>4, <1>5, <1>6, <1>7, <1>8, <1>9, <1>10,
      <1>11, <1>12, <1>13, <1>14, <1>15, <1>16, <1>17, <1>18, <1>19, <1>20,
      <1>21, <1>22, <1>23, <1>24, <1>25 DEF Next, Reserve, Commit, Read, Wait

\* Every step keeps LoadedNotAhead.
LEMMA LoadedStep ==
  ASSUME ~SharedHandle, CodeInv, Next
  PROVE  LoadedNotAhead'
  <1> USE IndexType DEF CodeInv, IInv, TypeOK, SlotTypeOK, CallTypeOK,
      PcTypeOK, ReadTypeOK,
             SharedTypeOK, LoadedNotAhead, ProdSeqExact, NextSeq, AfterNone, AfterCommit, AfterFlagTest, Threads, ReleaseSlot, slotVars, seqVars, callVars, readVars
  <1>1. ASSUME NEW p \in Producers, BeginCall(p) PROVE LoadedNotAhead'
    BY <1>1 DEF BeginCall, Goto, SetState, SetSeq
  <1>2. ASSUME NEW p \in Producers, BeginOversized(p) PROVE LoadedNotAhead'
    BY <1>2 DEF BeginOversized, Goto, SetState, SetSeq
  <1>3. ASSUME NEW t \in Threads, LoadProdSeq(t) PROVE LoadedNotAhead'
    BY <1>3 DEF LoadProdSeq, Goto, SetState, SetSeq
  <1>4. ASSUME NEW t \in Threads, TryTransition(t) PROVE LoadedNotAhead'
    BY <1>4 DEF TryTransition, Goto, SetState, SetSeq
  <1>5. ASSUME NEW t \in Threads, StoreProdSeq(t) PROVE LoadedNotAhead'
    <2>1. prod_seq' = prod_seq + 1 /\ UNCHANGED my_seq /\ prod_seq \in Nat
      BY <1>5 DEF StoreProdSeq
    <2>2. \A u \in Threads : pc'[u] = "try" => my_seq[u] <= prod_seq /\ my_seq[u] \in Nat
      BY <1>5 DEF StoreProdSeq, Goto
    <2>3. \A n \in Nat : n <= prod_seq => n <= prod_seq + 1 BY <2>1
    <2> QED BY <2>1, <2>2, <2>3
  <1>6. ASSUME NEW t \in Threads, ReserveSetSeq(t) PROVE LoadedNotAhead'
    BY <1>6 DEF ReserveSetSeq, Goto, SetState, SetSeq
  <1>7. ASSUME NEW t \in Threads, WriteData(t) PROVE LoadedNotAhead'
    BY <1>7 DEF WriteData, Goto, SetState, SetSeq
  <1>8. ASSUME NEW t \in Threads, CommitTransition(t) PROVE LoadedNotAhead'
    BY <1>8 DEF CommitTransition, Goto, SetState, SetSeq
  <1>9. ASSUME NEW t \in Threads, CommitSetSeq(t) PROVE LoadedNotAhead'
    BY <1>9 DEF CommitSetSeq, Goto, SetState, SetSeq
  <1>10. ASSUME NEW t \in Threads, NotifyConsumer(t) PROVE LoadedNotAhead'
    BY <1>10 DEF NotifyConsumer, Goto, SetState, SetSeq
  <1>11. ASSUME NEW p \in Producers, DropReservation(p) PROVE LoadedNotAhead'
    BY <1>11 DEF DropReservation, Goto, SetState, SetSeq
  <1>12. ASSUME NEW p \in Producers, QueuePush(p) PROVE LoadedNotAhead'
    BY <1>12 DEF QueuePush, Goto, SetState, SetSeq
  <1>13. ASSUME ReadBegin PROVE LoadedNotAhead'
    BY <1>13 DEF ReadBegin, Goto, SetState, SetSeq
  <1>14. ASSUME ScanReady PROVE LoadedNotAhead'
    BY <1>14 DEF ScanReady, Goto, SetState, SetSeq
  <1>15. ASSUME Recycle PROVE LoadedNotAhead'
    BY <1>15 DEF Recycle, Goto, SetState, SetSeq
  <1>16. ASSUME ScanStop PROVE LoadedNotAhead'
    BY <1>16 DEF ScanStop, Goto, SetState, SetSeq
  <1>17. ASSUME PublishConsSeq PROVE LoadedNotAhead'
    BY <1>17 DEF PublishConsSeq, Goto, SetState, SetSeq
  <1>18. ASSUME LockQueue PROVE LoadedNotAhead'
    BY <1>18 DEF LockQueue, Goto, SetState, SetSeq
  <1>19. ASSUME DrainNext PROVE LoadedNotAhead'
    BY <1>19 DEF DrainNext, Goto, SetState, SetSeq
  <1>20. ASSUME PutBack PROVE LoadedNotAhead'
    BY <1>20 DEF PutBack, Goto, SetState, SetSeq
  <1>21. ASSUME DrainDone PROVE LoadedNotAhead'
    BY <1>21 DEF DrainDone, Goto, SetState, SetSeq
  <1>22. ASSUME WaitForData PROVE LoadedNotAhead'
    BY <1>22 DEF WaitForData, Goto, SetState, SetSeq
  <1>23. ASSUME Woken PROVE LoadedNotAhead'
    BY <1>23 DEF Woken, Goto, SetState, SetSeq
  <1>24. ASSUME Timeout PROVE LoadedNotAhead'
    BY <1>24 DEF Timeout, Goto, SetState, SetSeq
  <1>25. ASSUME TimedOut PROVE LoadedNotAhead'
    BY <1>25 DEF TimedOut, Goto, SetState, SetSeq
  <1> QED BY <1>1, <1>2, <1>3, <1>4, <1>5, <1>6, <1>7, <1>8, <1>9, <1>10,
      <1>11, <1>12, <1>13, <1>14, <1>15, <1>16, <1>17, <1>18, <1>19, <1>20,
      <1>21, <1>22, <1>23, <1>24, <1>25 DEF Next, Reserve, Commit, Read, Wait

\* Every step keeps ProdSeqExact.
LEMMA ExactStep ==
  ASSUME ~SharedHandle, CodeInv, Next
  PROVE  ProdSeqExact'
  <1> USE IndexType, CapacityAssumption DEF CodeInv, IInv, TypeOK, SlotTypeOK,
      CallTypeOK, PcTypeOK, ReadTypeOK,
             SharedTypeOK, OnlyReserved, HandleState, IsReadable, AfterNone, AfterCommit, AfterFlagTest, Threads, ReleaseSlot, slotVars, seqVars, callVars, readVars
  <1>1. ASSUME NEW p \in Producers, BeginCall(p) PROVE ProdSeqExact'
    <2>1. UNCHANGED <<slot_state, prod_seq>> BY <1>1 DEF BeginCall
    <2>2. \A u \in Threads : /\ pc'[u] = "store" <=> pc[u] = "store"
                             /\ pc'[u] = "store" => my_seq'[u] = my_seq[u]
      BY <1>1 DEF BeginCall, Goto
    <2> QED BY <2>1, <2>2, ExactFrame
  <1>2. ASSUME NEW p \in Producers, BeginOversized(p) PROVE ProdSeqExact'
    <2>1. UNCHANGED <<slot_state, prod_seq>> BY <1>2 DEF BeginOversized
    <2>2. \A u \in Threads : /\ pc'[u] = "store" <=> pc[u] = "store"
                             /\ pc'[u] = "store" => my_seq'[u] = my_seq[u]
      BY <1>2 DEF BeginOversized, Goto
    <2> QED BY <2>1, <2>2, ExactFrame
  <1>3. ASSUME NEW t \in Threads, LoadProdSeq(t) PROVE ProdSeqExact'
    <2>1. UNCHANGED <<slot_state, prod_seq>> BY <1>3 DEF LoadProdSeq
    <2>2. \A u \in Threads : /\ pc'[u] = "store" <=> pc[u] = "store"
                             /\ pc'[u] = "store" => my_seq'[u] = my_seq[u]
      BY <1>3 DEF LoadProdSeq, Goto
    <2> QED BY <2>1, <2>2, ExactFrame
  <1>4. ASSUME NEW t \in Threads, TryTransition(t) PROVE ProdSeqExact'
    <2> DEFINE i == SlotOf(t)
    <2>0. i \in SlotIds /\ my_seq[t] \in Nat BY DEF SlotOf
    <2>1. CASE slot_state[i] = "Empty"
      <3>1. /\ slot_state' = [slot_state EXCEPT ![i] = "Reserved"]
            /\ pc' = [pc EXCEPT ![t] = "store"]
            /\ UNCHANGED <<my_seq, prod_seq>>
        BY <1>4, <2>1 DEF TryTransition, Goto, SetState, SlotOf, CanReserve
      <3>2. my_seq[t] <= prod_seq /\ prod_seq <= Capacity
        BY <1>4 DEF TryTransition, LoadedNotAhead, ProdSeqExact
      <3>3. my_seq[t] < Capacity
        <4> SUFFICES ASSUME my_seq[t] = Capacity PROVE FALSE
          BY <2>0, <3>2, CapacityAssumption
        <4>1. i = 0 /\ 0 < prod_seq BY <3>2, IndexBelow, CapacityAssumption
            DEF SlotOf
        <4> QED BY <2>0, <2>1, <4>1 DEF ProdSeqExact
      <3>4. i = my_seq[t] BY <2>0, <3>3, IndexBelow DEF SlotOf
      <3>5. my_seq[t] = prod_seq
        BY <2>0, <2>1, <3>2, <3>4 DEF ProdSeqExact
      <3>6. \A u \in Threads : pc[u] # "store"
        BY <2>0, <2>1, <3>4, <3>5 DEF ProdSeqExact
      <3>7. \A u \in Threads : pc'[u] = "store" => u = t
        BY <3>1, <3>6
      <3>8. pc'[t] = "store" BY <3>1
      <3>9. \A j \in SlotIds : slot_state'[j] # "Empty" <=> j <= prod_seq
        <4> TAKE j \in SlotIds
        <4>1. CASE j = i BY <2>0, <3>1, <3>4, <3>5, <4>1 DEF SlotIds
        <4>2. CASE j # i
          <5>1. slot_state'[j] = slot_state[j] BY <2>0, <3>1, <4>2
          <5>2. slot_state[j] # "Empty" <=> j < prod_seq
            BY <3>4, <3>5, <3>6, <4>2 DEF ProdSeqExact
          <5>3. j <= prod_seq <=> j < prod_seq BY <3>4, <3>5, <4>2, SlotOrder
          <5> QED BY <5>1, <5>2, <5>3
        <4> QED BY <4>1, <4>2
      <3>10. \A j \in SlotIds : j <= prod_seq <=> (j < prod_seq \/ j = prod_seq)
        BY SlotOrder
      <3> QED BY <3>1, <3>2, <3>3, <3>5, <3>7, <3>8, <3>9, <3>10 DEF
          ProdSeqExact
    <2>2. CASE slot_state[i] # "Empty"
      <3>1. UNCHANGED <<slot_state, my_seq, prod_seq>>
            /\ \A u \in Threads : pc'[u] = "store" <=> pc[u] = "store"
        BY <1>4, <2>2 DEF TryTransition, Goto, SlotOf, CanReserve, AfterNone
      <3> QED BY <3>1, ExactFrame
    <2> QED BY <2>1, <2>2
  <1>5. ASSUME NEW t \in Threads, StoreProdSeq(t) PROVE ProdSeqExact'
    <2>1. /\ my_seq[t] = prod_seq /\ prod_seq < Capacity /\ prod_seq \in Nat
          /\ pc[t] = "store"
      BY <1>5 DEF StoreProdSeq, ProdSeqExact
    <2>2. prod_seq' = prod_seq + 1 /\ UNCHANGED <<slot_state, my_seq>>
          /\ pc' = [pc EXCEPT ![t] = "setseq"]
      BY <1>5, <2>1 DEF StoreProdSeq, NextSeq, Goto
    <2>3. \A u \in Threads \ {t} : pc[u] # "store"
      BY <2>1 DEF SlotOwnership, Owns, SlotOf, ProdSeqExact
    <2>4. \A u \in Threads : pc'[u] # "store" BY <2>2, <2>3
    <2>5. \A j \in SlotIds : slot_state[j] # "Empty" <=> (j < prod_seq \/ j = prod_seq)
      BY <2>1 DEF ProdSeqExact
    <2>6. \A j \in SlotIds : j < prod_seq + 1 <=> (j < prod_seq \/ j = prod_seq)
      BY <2>1, SlotOrder
    <2>7. prod_seq + 1 <= Capacity BY <2>1, CapacityAssumption
    <2> QED BY <2>2, <2>4, <2>5, <2>6, <2>7 DEF ProdSeqExact
  <1>6. ASSUME NEW t \in Threads, ReserveSetSeq(t) PROVE ProdSeqExact'
    <2>1. UNCHANGED <<slot_state, prod_seq>> BY <1>6 DEF ReserveSetSeq
    <2>2. \A u \in Threads : /\ pc'[u] = "store" <=> pc[u] = "store"
                             /\ pc'[u] = "store" => my_seq'[u] = my_seq[u]
      BY <1>6 DEF ReserveSetSeq, Goto
    <2> QED BY <2>1, <2>2, ExactFrame
  <1>7. ASSUME NEW t \in Threads, WriteData(t) PROVE ProdSeqExact'
    <2>1. UNCHANGED <<slot_state, prod_seq>> BY <1>7 DEF WriteData
    <2>2. \A u \in Threads : /\ pc'[u] = "store" <=> pc[u] = "store"
                             /\ pc'[u] = "store" => my_seq'[u] = my_seq[u]
      BY <1>7 DEF WriteData, Goto
    <2> QED BY <2>1, <2>2, ExactFrame
  <1>8. ASSUME NEW t \in Threads, CommitTransition(t) PROVE ProdSeqExact'
    <2>1. UNCHANGED <<slot_state, prod_seq>> BY <1>8 DEF CommitTransition
    <2>2. \A u \in Threads : /\ pc'[u] = "store" <=> pc[u] = "store"
                             /\ pc'[u] = "store" => my_seq'[u] = my_seq[u]
      BY <1>8 DEF CommitTransition, Goto
    <2> QED BY <2>1, <2>2, ExactFrame
  <1>9. ASSUME NEW t \in Threads, CommitSetSeq(t) PROVE ProdSeqExact'
    <2>1. UNCHANGED <<slot_state, prod_seq>> BY <1>9 DEF CommitSetSeq
    <2>2. \A u \in Threads : /\ pc'[u] = "store" <=> pc[u] = "store"
                             /\ pc'[u] = "store" => my_seq'[u] = my_seq[u]
      BY <1>9 DEF CommitSetSeq, Goto
    <2> QED BY <2>1, <2>2, ExactFrame
  <1>10. ASSUME NEW t \in Threads, NotifyConsumer(t) PROVE ProdSeqExact'
    <2>1. UNCHANGED <<slot_state, prod_seq>> BY <1>10 DEF NotifyConsumer
    <2>2. \A u \in Threads : /\ pc'[u] = "store" <=> pc[u] = "store"
                             /\ pc'[u] = "store" => my_seq'[u] = my_seq[u]
      BY <1>10 DEF NotifyConsumer, Goto
    <2> QED BY <2>1, <2>2, ExactFrame
  <1>11. ASSUME NEW p \in Producers, DropReservation(p) PROVE ProdSeqExact'
    <2>1. UNCHANGED <<slot_state, prod_seq>> BY <1>11 DEF DropReservation
    <2>2. \A u \in Threads : /\ pc'[u] = "store" <=> pc[u] = "store"
                             /\ pc'[u] = "store" => my_seq'[u] = my_seq[u]
      BY <1>11 DEF DropReservation, Goto
    <2> QED BY <2>1, <2>2, ExactFrame
  <1>12. ASSUME NEW p \in Producers, QueuePush(p) PROVE ProdSeqExact'
    <2>1. UNCHANGED <<slot_state, prod_seq>> BY <1>12 DEF QueuePush
    <2>2. \A u \in Threads : /\ pc'[u] = "store" <=> pc[u] = "store"
                             /\ pc'[u] = "store" => my_seq'[u] = my_seq[u]
      BY <1>12 DEF QueuePush, Goto
    <2> QED BY <2>1, <2>2, ExactFrame
  <1>13. ASSUME ReadBegin PROVE ProdSeqExact'
    <2>1. UNCHANGED <<slot_state, prod_seq>> BY <1>13 DEF ReadBegin
    <2>2. \A u \in Threads : /\ pc'[u] = "store" <=> pc[u] = "store"
                             /\ pc'[u] = "store" => my_seq'[u] = my_seq[u]
      BY <1>13 DEF ReadBegin, Goto
    <2> QED BY <2>1, <2>2, ExactFrame
  <1>14. ASSUME ScanReady PROVE ProdSeqExact'
    <2>1. UNCHANGED <<slot_state, prod_seq>> BY <1>14 DEF ScanReady
    <2>2. \A u \in Threads : /\ pc'[u] = "store" <=> pc[u] = "store"
                             /\ pc'[u] = "store" => my_seq'[u] = my_seq[u]
      BY <1>14 DEF ScanReady, Goto
    <2> QED BY <2>1, <2>2, ExactFrame
  <1>15. ASSUME Recycle PROVE ProdSeqExact'
    <2>1. UNCHANGED <<slot_state, prod_seq>> BY <1>15 DEF Recycle
    <2>2. \A u \in Threads : /\ pc'[u] = "store" <=> pc[u] = "store"
                             /\ pc'[u] = "store" => my_seq'[u] = my_seq[u]
      BY <1>15 DEF Recycle, Goto
    <2> QED BY <2>1, <2>2, ExactFrame
  <1>16. ASSUME ScanStop PROVE ProdSeqExact'
    <2>1. UNCHANGED <<slot_state, prod_seq>> BY <1>16 DEF ScanStop
    <2>2. \A u \in Threads : /\ pc'[u] = "store" <=> pc[u] = "store"
                             /\ pc'[u] = "store" => my_seq'[u] = my_seq[u]
      BY <1>16 DEF ScanStop, Goto
    <2> QED BY <2>1, <2>2, ExactFrame
  <1>17. ASSUME PublishConsSeq PROVE ProdSeqExact'
    <2>1. UNCHANGED <<slot_state, prod_seq>> BY <1>17 DEF PublishConsSeq
    <2>2. \A u \in Threads : /\ pc'[u] = "store" <=> pc[u] = "store"
                             /\ pc'[u] = "store" => my_seq'[u] = my_seq[u]
      BY <1>17 DEF PublishConsSeq, Goto
    <2> QED BY <2>1, <2>2, ExactFrame
  <1>18. ASSUME LockQueue PROVE ProdSeqExact'
    <2>1. UNCHANGED <<slot_state, prod_seq>> BY <1>18 DEF LockQueue
    <2>2. \A u \in Threads : /\ pc'[u] = "store" <=> pc[u] = "store"
                             /\ pc'[u] = "store" => my_seq'[u] = my_seq[u]
      BY <1>18 DEF LockQueue, Goto
    <2> QED BY <2>1, <2>2, ExactFrame
  <1>19. ASSUME DrainNext PROVE ProdSeqExact'
    <2>1. UNCHANGED <<slot_state, prod_seq>> BY <1>19 DEF DrainNext
    <2>2. \A u \in Threads : /\ pc'[u] = "store" <=> pc[u] = "store"
                             /\ pc'[u] = "store" => my_seq'[u] = my_seq[u]
      BY <1>19 DEF DrainNext, Goto
    <2> QED BY <2>1, <2>2, ExactFrame
  <1>20. ASSUME PutBack PROVE ProdSeqExact'
    <2>1. UNCHANGED <<slot_state, prod_seq>> BY <1>20 DEF PutBack
    <2>2. \A u \in Threads : /\ pc'[u] = "store" <=> pc[u] = "store"
                             /\ pc'[u] = "store" => my_seq'[u] = my_seq[u]
      BY <1>20 DEF PutBack, Goto
    <2> QED BY <2>1, <2>2, ExactFrame
  <1>21. ASSUME DrainDone PROVE ProdSeqExact'
    <2>1. UNCHANGED <<slot_state, prod_seq>> BY <1>21 DEF DrainDone
    <2>2. \A u \in Threads : /\ pc'[u] = "store" <=> pc[u] = "store"
                             /\ pc'[u] = "store" => my_seq'[u] = my_seq[u]
      BY <1>21 DEF DrainDone, Goto
    <2> QED BY <2>1, <2>2, ExactFrame
  <1>22. ASSUME WaitForData PROVE ProdSeqExact'
    <2>1. UNCHANGED <<slot_state, prod_seq>> BY <1>22 DEF WaitForData
    <2>2. \A u \in Threads : /\ pc'[u] = "store" <=> pc[u] = "store"
                             /\ pc'[u] = "store" => my_seq'[u] = my_seq[u]
      BY <1>22 DEF WaitForData, Goto
    <2> QED BY <2>1, <2>2, ExactFrame
  <1>23. ASSUME Woken PROVE ProdSeqExact'
    <2>1. UNCHANGED <<slot_state, prod_seq>> BY <1>23 DEF Woken
    <2>2. \A u \in Threads : /\ pc'[u] = "store" <=> pc[u] = "store"
                             /\ pc'[u] = "store" => my_seq'[u] = my_seq[u]
      BY <1>23 DEF Woken, Goto
    <2> QED BY <2>1, <2>2, ExactFrame
  <1>24. ASSUME Timeout PROVE ProdSeqExact'
    <2>1. UNCHANGED <<slot_state, prod_seq>> BY <1>24 DEF Timeout
    <2>2. \A u \in Threads : /\ pc'[u] = "store" <=> pc[u] = "store"
                             /\ pc'[u] = "store" => my_seq'[u] = my_seq[u]
      BY <1>24 DEF Timeout, Goto
    <2> QED BY <2>1, <2>2, ExactFrame
  <1>25. ASSUME TimedOut PROVE ProdSeqExact'
    <2>1. UNCHANGED <<slot_state, prod_seq>> BY <1>25 DEF TimedOut
    <2>2. \A u \in Threads : /\ pc'[u] = "store" <=> pc[u] = "store"
                             /\ pc'[u] = "store" => my_seq'[u] = my_seq[u]
      BY <1>25 DEF TimedOut, Goto
    <2> QED BY <2>1, <2>2, ExactFrame
  <1> QED BY <1>1, <1>2, <1>3, <1>4, <1>5, <1>6, <1>7, <1>8, <1>9, <1>10,
      <1>11, <1>12, <1>13, <1>14, <1>15, <1>16, <1>17, <1>18, <1>19, <1>20,
      <1>21, <1>22, <1>23, <1>24, <1>25 DEF Next, Reserve, Commit, Read, Wait

\* The invariant is inductive.
LEMMA CodeNext == ASSUME ~SharedHandle PROVE CodeInv /\ [Next]_vars => CodeInv'
  <1> SUFFICES ASSUME CodeInv, [Next]_vars PROVE CodeInv' OBVIOUS
  <1>1. IInv' BY InvNext DEF CodeInv
  <1>2. CASE Next
    BY <1>1, <1>2, OnlyReservedStep, LoadedStep, ExactStep DEF CodeInv
  <1>3. CASE UNCHANGED vars
    <2> USE <1>3 DEF vars, slotVars, seqVars, callVars, CodeInv
    <2>1. OnlyReserved' BY DEF OnlyReserved
    <2>2. LoadedNotAhead' BY DEF LoadedNotAhead
    <2>3. ProdSeqExact' BY DEF ProdSeqExact
    <2> QED BY <1>1, <2>1, <2>2, <2>3
  <1> QED BY <1>2, <1>3

\* As coded, the slots taken are exactly those below prod_seq and each slot is
\* taken at most once in the life of the buffer: prod_seq stops at the capacity
\* and usage_percent() never exceeds 100.
THEOREM CounterExact == ASSUME ~SharedHandle PROVE Spec => []ProdSeqExact
  <1>1. CodeInv => ProdSeqExact BY DEF CodeInv
  <1> QED BY <1>1, CodeInit, CodeNext, PTL DEF Spec

\* As coded, the plain store of prod_seq never moves it back, although any
\* number of producers load it at any time before: a stale value always finds
\* its slot taken.
THEOREM CounterMonotone == ASSUME ~SharedHandle PROVE Spec => NoRollback
  <1>1. CodeInv /\ [Next]_vars => [prod_seq' >= prod_seq]_prod_seq
    <2> SUFFICES ASSUME CodeInv, Next, prod_seq' # prod_seq
                 PROVE  prod_seq' >= prod_seq
      BY DEF vars, seqVars
    <2>1. PICK t \in Threads : StoreProdSeq(t)
      BY DEF Next, Reserve, Commit, Read, Wait, seqVars,
             BeginCall, BeginOversized, LoadProdSeq, TryTransition,
             ReserveSetSeq, WriteData, CommitTransition, CommitSetSeq,
             NotifyConsumer, DropReservation, QueuePush, ReadBegin,
             ScanReady, Recycle, ScanStop, PublishConsSeq, LockQueue,
             DrainNext, PutBack, DrainDone, WaitForData, Woken, Timeout,
             TimedOut
    <2> QED BY <2>1 DEF StoreProdSeq, NextSeq, CodeInv, ProdSeqExact, IInv,
        TypeOK,
            SharedTypeOK
  <1> QED BY <1>1, CodeInit, CodeNext, PTL DEF Spec, NoRollback

=============================================================================
