------------------------- MODULE VolatileRingProofs -------------------------
(***************************************************************************)
(* Theorems about VolatileRing, for every capacity, every set of producers *)
(* and both values of SharedHandle.                                        *)
(***************************************************************************)
EXTENDS VolatileRing, TLAPS

\* A thread inside reserve, a reservation or the queueing of a record has a
\* record in hand.
HasRecord ==
    \A t \in Threads : pc[t] \in ReservePoints \cup {"queue", "putback"}
                           => rec[t] \in Records

\* What a committed slot holds was written by its owner.
ReadyHasData ==
    /\ \A i \in SlotIds : slot_state[i] = "Ready" => slot_data[i] \in Records
    /\ SharedHandle =>
         \A t \in Threads : pc[t] = "written" => slot_data[SlotOf(t)] \in Records

\* The slot that read() is about to recycle is still Consumed.
RecycleConsumed ==
    pc[Consumer] = "recycle" => slot_state[physical_index(my_cons)] = "Consumed"

IInv == TypeOK /\ HasRecord /\ ReadyHasData /\ RecycleConsumed /\ SlotOwnership

\* physical_index maps every sequence number to a slot.
LEMMA IndexType == \A n \in Nat : physical_index(n) \in SlotIds
  BY CapacityAssumption, SMT DEF physical_index, SlotIds

\* The initial state has the right types.
LEMMA InitType == Init => TypeOK
  <1> SUFFICES ASSUME Init PROVE TypeOK OBVIOUS
  <1>1. SlotTypeOK BY DEF Init, SlotTypeOK, SlotStates
  <1>2. SharedTypeOK BY DEF Init, SharedTypeOK
  <1>3. PcTypeOK BY DEF Init, PcTypeOK, PcValues, ConsumerPcValues, Threads
  <1>4. CallTypeOK BY BoundsAssumption DEF Init, CallTypeOK, Threads
  <1>5. ReadTypeOK BY DEF Init, ReadTypeOK
  <1>6. HistoryTypeOK
    <2>1. released \in BOOLEAN BY DEF Init
    <2> QED BY <2>1 DEF Init, HistoryTypeOK
  <1>7. ready \in BOOLEAN BY DEF Init
  <1> QED BY <1>1, <1>2, <1>3, <1>4, <1>5, <1>6, <1>7 DEF TypeOK

\* Pushing a record to the overflow queue gives a queue of records.
LEMMA EnqueueType ==
  ASSUME NEW q \in Seq(Records), NEW r \in Records
  PROVE  Enqueue(q, r) \in Seq(Records)
  <1>1. CASE Len(q) < MaxOverflow BY <1>1 DEF Enqueue
  <1>2. CASE ~(Len(q) < MaxOverflow) /\ q # <<>>
    <2>1. Tail(q) \in Seq(Records) BY <1>2
    <2> QED BY <1>2, <2>1 DEF Enqueue
  <1>3. CASE ~(Len(q) < MaxOverflow) /\ q = <<>> BY <1>3 DEF Enqueue
  <1> QED BY <1>1, <1>2, <1>3

\* Where a call goes after reserve returned None, or after its reservation.
LEMMA AfterType ==
  ASSUME CallTypeOK
  PROVE  /\ \A p \in Producers : AfterNone(p) \in {"queue", "idle"}
         /\ AfterNone(Consumer) \in {"putback", "idle"}
         /\ \A p \in Producers : AfterCommit(p) = "idle"
         /\ AfterCommit(Consumer) \in {"drain", "idle"}
  BY DEF CallTypeOK, AfterNone, AfterCommit

\* BeginCall keeps TypeOK.
LEMMA BeginCallType ==
  ASSUME IInv, NEW p \in Producers, BeginCall(p)
  PROVE  TypeOK'
  <1> USE DEF IInv, TypeOK
  <1>1. PcTypeOK'
    BY ThreadsAssumption DEF PcTypeOK, Goto, PcValues, ConsumerPcValues,
        ReservePoints, Threads, BeginCall
  <1>2. CallTypeOK'
    <2>1. calls[p] + 1 \in 1 .. MaxCalls
      BY BoundsAssumption DEF CallTypeOK, BeginCall
    <2>2. calls' \in [Producers -> 0 .. MaxCalls]
      BY <2>1 DEF CallTypeOK, BeginCall
    <2>3. rec' \in [Threads -> Records \cup {NoRecord}]
      BY <2>1 DEF CallTypeOK, BeginCall, Records, Threads
    <2>4. PICK c \in Calls : op' = [op EXCEPT ![p] = c]
      BY DEF BeginCall
    <2>5. /\ op' \in [Threads -> Calls \cup {"none", "drain"}]
          /\ \A q \in Producers : op'[q] # "drain"
          /\ op'[Consumer] \in {"none", "drain"}
      BY <2>4, CallsAssumption, ThreadsAssumption DEF CallTypeOK, Threads
    <2>6. tries' \in [Threads -> Nat] /\ my_seq' \in [Threads -> Nat]
      BY DEF CallTypeOK, BeginCall
    <2> QED BY <2>2, <2>3, <2>5, <2>6 DEF CallTypeOK
  <1>3. SlotTypeOK' /\ SharedTypeOK' /\ ReadTypeOK' /\ HistoryTypeOK'
    BY DEF SlotTypeOK, SharedTypeOK, ReadTypeOK, HistoryTypeOK, slotVars,
        seqVars, readVars, history, BeginCall
  <1>4. (ready \in BOOLEAN)' BY DEF BeginCall
  <1> QED BY <1>1, <1>2, <1>3, <1>4

\* BeginOversized keeps TypeOK.
LEMMA BeginOversizedType ==
  ASSUME IInv, NEW p \in Producers, BeginOversized(p)
  PROVE  TypeOK'
  <1> USE DEF IInv, TypeOK
  <1>1. PcTypeOK'
    BY ThreadsAssumption DEF PcTypeOK, Goto, PcValues, ConsumerPcValues,
        ReservePoints, Threads, BeginOversized
  <1>2. CallTypeOK'
    <2>1. calls[p] + 1 \in 0 .. MaxCalls
      BY BoundsAssumption DEF CallTypeOK, BeginOversized
    <2>2. calls' \in [Producers -> 0 .. MaxCalls]
      BY <2>1 DEF CallTypeOK, BeginOversized
    <2> QED BY <2>2 DEF CallTypeOK, BeginOversized
  <1>3. SlotTypeOK' /\ SharedTypeOK' /\ ReadTypeOK' /\ HistoryTypeOK'
    BY DEF SlotTypeOK, SharedTypeOK, ReadTypeOK, HistoryTypeOK, slotVars,
        seqVars, readVars, history, BeginOversized
  <1>4. (ready \in BOOLEAN)' BY DEF BeginOversized
  <1> QED BY <1>1, <1>2, <1>3, <1>4

\* LoadProdSeq keeps TypeOK.
LEMMA LoadProdSeqType ==
  ASSUME IInv, NEW t \in Threads, LoadProdSeq(t)
  PROVE  TypeOK'
  <1> USE DEF IInv, TypeOK
  <1>1. PcTypeOK'
    BY ThreadsAssumption DEF PcTypeOK, Goto, PcValues, ConsumerPcValues,
        ReservePoints, Threads, LoadProdSeq
  <1>2. CallTypeOK' BY DEF CallTypeOK, SharedTypeOK, LoadProdSeq
  <1>3. SlotTypeOK' /\ SharedTypeOK' /\ ReadTypeOK' /\ HistoryTypeOK'
    BY DEF SlotTypeOK, SharedTypeOK, ReadTypeOK, HistoryTypeOK, slotVars,
        seqVars, readVars, history, LoadProdSeq
  <1>4. (ready \in BOOLEAN)' BY DEF LoadProdSeq
  <1> QED BY <1>1, <1>2, <1>3, <1>4

\* TryTransition keeps TypeOK.
LEMMA TryTransitionType ==
  ASSUME IInv, NEW t \in Threads, TryTransition(t)
  PROVE  TypeOK'
  <1> USE DEF IInv, TypeOK
  <1>1. SlotTypeOK'
    BY IndexType DEF SlotTypeOK, SlotStates, CallTypeOK, ReadTypeOK,
        TryTransition, SetState
  <1>2. PcTypeOK'
    <2>1. pc' = [pc EXCEPT ![t] = "store"] \/ pc' = [pc EXCEPT ![t] = "load"]
             \/ pc' = [pc EXCEPT ![t] = AfterNone(t)]
      BY DEF TryTransition, Goto
    <2> QED BY <2>1, AfterType, ThreadsAssumption
            DEF PcTypeOK, PcValues, ConsumerPcValues, ReservePoints, Threads
  <1>3. CallTypeOK'
    <2>1. \E n \in Nat : tries' = [tries EXCEPT ![t] = n]
      <3>1. tries[t] \in Nat BY DEF CallTypeOK
      <3>2. CASE tries' = tries
        BY <3>1, <3>2 DEF CallTypeOK
      <3>3. CASE tries' = [tries EXCEPT ![t] =
                             IF op[t] = "block" \/ GivesUp(t) THEN 0 ELSE @ + 1]
        <4>1. (IF op[t] = "block" \/ GivesUp(t) THEN 0 ELSE tries[t] + 1) \in Nat
          BY <3>1
        <4> QED BY <3>3, <4>1
      <3> QED BY <3>2, <3>3 DEF TryTransition
    <2> QED BY <2>1 DEF CallTypeOK, TryTransition
  <1>4. SharedTypeOK' /\ ReadTypeOK'
    BY DEF SharedTypeOK, ReadTypeOK, seqVars, readVars, TryTransition
  <1>5. HistoryTypeOK'
    <2>1. /\ taker \in [SlotIds -> Records \cup {NoRecord}]
          /\ rec[t] \in Records \cup {NoRecord}
      BY DEF HistoryTypeOK, CallTypeOK
    <2>2. taker' \in [SlotIds -> Records \cup {NoRecord}]
      BY <2>1 DEF TryTransition
    <2> QED BY <2>2 DEF HistoryTypeOK, TryTransition
  <1>6. (ready \in BOOLEAN)' BY DEF TryTransition
  <1> QED BY <1>1, <1>2, <1>3, <1>4, <1>5, <1>6

\* StoreProdSeq keeps TypeOK.
LEMMA StoreProdSeqType ==
  ASSUME IInv, NEW t \in Threads, StoreProdSeq(t)
  PROVE  TypeOK'
  <1> USE DEF IInv, TypeOK
  <1>1. SharedTypeOK'
    <2>1. NextSeq(t) \in Nat BY DEF CallTypeOK, NextSeq
    <2> QED BY <2>1 DEF SharedTypeOK, StoreProdSeq
  <1>2. PcTypeOK'
    BY ThreadsAssumption DEF PcTypeOK, Goto, PcValues, ConsumerPcValues,
        ReservePoints, Threads, StoreProdSeq
  <1>3. SlotTypeOK' /\ CallTypeOK' /\ ReadTypeOK' /\ HistoryTypeOK'
    BY DEF SlotTypeOK, CallTypeOK, ReadTypeOK, HistoryTypeOK, slotVars,
        callVars, readVars, history, StoreProdSeq
  <1>4. (ready \in BOOLEAN)' BY DEF StoreProdSeq
  <1> QED BY <1>1, <1>2, <1>3, <1>4

\* ReserveSetSeq keeps TypeOK.
LEMMA ReserveSetSeqType ==
  ASSUME IInv, NEW t \in Threads, ReserveSetSeq(t)
  PROVE  TypeOK'
  <1> USE DEF IInv, TypeOK
  <1>1. SlotTypeOK'
    BY IndexType DEF SlotTypeOK, SlotStates, CallTypeOK, ReadTypeOK,
        ReserveSetSeq, SetSeq
  <1>2. PcTypeOK'
    BY ThreadsAssumption DEF PcTypeOK, Goto, PcValues, ConsumerPcValues,
        ReservePoints, Threads, ReserveSetSeq
  <1>3. SharedTypeOK' /\ CallTypeOK' /\ ReadTypeOK' /\ HistoryTypeOK'
    BY DEF SharedTypeOK, CallTypeOK, ReadTypeOK, HistoryTypeOK, seqVars,
        callVars, readVars, history, ReserveSetSeq
  <1>4. (ready \in BOOLEAN)' BY DEF ReserveSetSeq
  <1> QED BY <1>1, <1>2, <1>3, <1>4

\* WriteData keeps TypeOK.
LEMMA WriteDataType ==
  ASSUME IInv, NEW t \in Threads, WriteData(t)
  PROVE  TypeOK'
  <1> USE DEF IInv, TypeOK
  <1>1. SlotTypeOK'
    <2>1. rec[t] \in Records BY DEF HasRecord, WriteData, ReservePoints
    <2>2. CASE slot_data' = [slot_data EXCEPT ![physical_index(my_seq[t])] = rec[t]]
      BY <2>1, <2>2 DEF SlotTypeOK, WriteData
    <2>3. CASE UNCHANGED slot_data BY <2>3 DEF SlotTypeOK, WriteData
    <2> QED BY <2>2, <2>3 DEF WriteData
  <1>2. PcTypeOK'
    BY ThreadsAssumption DEF PcTypeOK, Goto, PcValues, ConsumerPcValues,
        ReservePoints, Threads, WriteData
  <1>3. SharedTypeOK' /\ CallTypeOK' /\ ReadTypeOK' /\ HistoryTypeOK'
    BY DEF SharedTypeOK, CallTypeOK, ReadTypeOK, HistoryTypeOK, seqVars,
        callVars, readVars, history, WriteData
  <1>4. (ready \in BOOLEAN)' BY DEF WriteData
  <1> QED BY <1>1, <1>2, <1>3, <1>4

\* CommitTransition keeps TypeOK.
LEMMA CommitTransitionType ==
  ASSUME IInv, NEW t \in Threads, CommitTransition(t)
  PROVE  TypeOK'
  <1> USE DEF IInv, TypeOK
  <1>1. SlotTypeOK'
    BY IndexType DEF SlotTypeOK, SlotStates, CallTypeOK, ReadTypeOK,
        CommitTransition, SetState
  <1>2. PcTypeOK'
    <2>1. pc' = [pc EXCEPT ![t] = "seq"] \/ pc' = [pc EXCEPT ![t] = AfterCommit(t)]
      BY DEF CommitTransition, Goto
    <2> QED BY <2>1, AfterType, ThreadsAssumption
            DEF PcTypeOK, PcValues, ConsumerPcValues, ReservePoints, Threads
  <1>3. HistoryTypeOK'
    <2>1. rec[t] \in Records BY DEF HasRecord, CommitTransition, ReservePoints
    <2>2. accepted' \subseteq Records BY <2>1 DEF HistoryTypeOK,
        CommitTransition
    <2> QED BY <2>2 DEF HistoryTypeOK, CommitTransition
  <1>4. SharedTypeOK' /\ CallTypeOK' /\ ReadTypeOK'
    BY DEF SharedTypeOK, CallTypeOK, ReadTypeOK, seqVars, callVars, readVars,
        CommitTransition
  <1>5. (ready \in BOOLEAN)' BY DEF CommitTransition
  <1> QED BY <1>1, <1>2, <1>3, <1>4, <1>5

\* CommitSetSeq keeps TypeOK.
LEMMA CommitSetSeqType ==
  ASSUME IInv, NEW t \in Threads, CommitSetSeq(t)
  PROVE  TypeOK'
  <1> USE DEF IInv, TypeOK
  <1>1. SlotTypeOK'
    BY IndexType DEF SlotTypeOK, SlotStates, CallTypeOK, ReadTypeOK,
        CommitSetSeq, SetSeq
  <1>2. PcTypeOK'
    BY ThreadsAssumption DEF PcTypeOK, Goto, PcValues, ConsumerPcValues,
        ReservePoints, Threads, CommitSetSeq
  <1>3. SharedTypeOK' /\ CallTypeOK' /\ ReadTypeOK' /\ HistoryTypeOK'
    BY DEF SharedTypeOK, CallTypeOK, ReadTypeOK, HistoryTypeOK, seqVars,
        callVars, readVars, history, CommitSetSeq
  <1>4. (ready \in BOOLEAN)' BY DEF CommitSetSeq
  <1> QED BY <1>1, <1>2, <1>3, <1>4

\* NotifyConsumer keeps TypeOK.
LEMMA NotifyConsumerType ==
  ASSUME IInv, NEW t \in Threads, NotifyConsumer(t)
  PROVE  TypeOK'
  <1> USE DEF IInv, TypeOK
  <1>1. PcTypeOK'
    <2>1. \A u \in Threads :
             pc'[u] = IF u = t THEN AfterCommit(t)
                      ELSE IF pc[u] = "waiting" THEN "woken" ELSE pc[u]
      BY DEF NotifyConsumer
    <2>2. pc' = [u \in Threads |-> pc'[u]] BY <2>1 DEF NotifyConsumer
    <2> QED BY <2>1, <2>2, AfterType, ThreadsAssumption
            DEF PcTypeOK, PcValues, ConsumerPcValues, ReservePoints, Threads
  <1>2. HistoryTypeOK'
    <2>1. rec[t] \in Records BY DEF HasRecord, NotifyConsumer, ReservePoints
    <2>2. accepted' \subseteq Records BY <2>1 DEF HistoryTypeOK, NotifyConsumer
    <2> QED BY <2>2 DEF HistoryTypeOK, NotifyConsumer
  <1>3. SlotTypeOK' /\ SharedTypeOK' /\ CallTypeOK' /\ ReadTypeOK'
    BY DEF SlotTypeOK, SharedTypeOK, CallTypeOK, ReadTypeOK, slotVars,
        seqVars, callVars, readVars, NotifyConsumer
  <1>4. (ready \in BOOLEAN)' BY DEF NotifyConsumer
  <1> QED BY <1>1, <1>2, <1>3, <1>4

\* DropReservation keeps TypeOK.
LEMMA DropReservationType ==
  ASSUME IInv, NEW p \in Producers, DropReservation(p)
  PROVE  TypeOK'
  <1> USE DEF IInv, TypeOK
  <1>1. SlotTypeOK'
    BY IndexType DEF SlotTypeOK, SlotStates, CallTypeOK, DropReservation,
        ReleaseSlot,
       SetState, Threads
  <1>2. PcTypeOK'
    BY ThreadsAssumption DEF PcTypeOK, Goto, PcValues, ConsumerPcValues,
        ReservePoints, Threads, DropReservation
  <1>3. SharedTypeOK' /\ CallTypeOK' /\ ReadTypeOK' /\ HistoryTypeOK'
    BY DEF SharedTypeOK, CallTypeOK, ReadTypeOK, HistoryTypeOK, seqVars,
        callVars, readVars, history, DropReservation
  <1>4. (ready \in BOOLEAN)' BY DEF DropReservation
  <1> QED BY <1>1, <1>2, <1>3, <1>4

\* QueuePush keeps TypeOK.
LEMMA QueuePushType ==
  ASSUME IInv, NEW p \in Producers, QueuePush(p)
  PROVE  TypeOK'
  <1> USE DEF IInv, TypeOK
  <1>1. SharedTypeOK'
    <2>1. rec[p] \in Records BY DEF HasRecord, QueuePush, Threads
    <2>2. overflow_queue' \in Seq(Records)
      BY <2>1, EnqueueType DEF SharedTypeOK, QueuePush
    <2> QED BY <2>2 DEF SharedTypeOK, QueuePush, seqVars
  <1>2. PcTypeOK'
    BY ThreadsAssumption DEF PcTypeOK, Goto, PcValues, ConsumerPcValues,
        ReservePoints, Threads, QueuePush
  <1>3. HistoryTypeOK'
    <2>1. rec[p] \in Records BY DEF HasRecord, QueuePush, Threads
    <2>2. overflowed' \in Seq(Records) /\ accepted' \subseteq Records
      BY <2>1 DEF HistoryTypeOK, QueuePush
    <2>3. CASE Len(overflow_queue) < MaxOverflow
      BY <2>2, <2>3 DEF HistoryTypeOK, QueuePush
    <2>4. CASE ~(Len(overflow_queue) < MaxOverflow)
      <3>1. overflow_queue # <<>> BY <2>4, BoundsAssumption
      <3>2. Head(overflow_queue) \in Records BY <3>1 DEF SharedTypeOK
      <3>3. evicted' \subseteq Records BY <2>4, <3>2 DEF HistoryTypeOK,
          QueuePush
      <3> QED BY <2>2, <3>3 DEF HistoryTypeOK, QueuePush
    <2> QED BY <2>3, <2>4
  <1>4. SlotTypeOK' /\ CallTypeOK' /\ ReadTypeOK'
    BY DEF SlotTypeOK, CallTypeOK, ReadTypeOK, slotVars, callVars, readVars,
        QueuePush
  <1>5. (ready \in BOOLEAN)' BY DEF QueuePush
  <1> QED BY <1>1, <1>2, <1>3, <1>4, <1>5

\* ReadBegin keeps TypeOK.
LEMMA ReadBeginType == ASSUME IInv, ReadBegin PROVE TypeOK'
  <1> USE DEF IInv, TypeOK
  <1>1. PcTypeOK'
    BY ThreadsAssumption DEF PcTypeOK, Goto, PcValues, ConsumerPcValues,
        ReservePoints, Threads, ReadBegin
  <1>2. ReadTypeOK' BY DEF ReadTypeOK, SharedTypeOK, ReadBegin
  <1>3. SlotTypeOK' /\ SharedTypeOK' /\ CallTypeOK' /\ HistoryTypeOK'
    BY DEF SlotTypeOK, SharedTypeOK, CallTypeOK, HistoryTypeOK, slotVars,
        seqVars, callVars, history, ReadBegin
  <1>4. (ready \in BOOLEAN)' BY DEF ReadBegin
  <1> QED BY <1>1, <1>2, <1>3, <1>4

\* ScanReady keeps TypeOK.
LEMMA ScanReadyType == ASSUME IInv, ScanReady PROVE TypeOK'
  <1> USE DEF IInv, TypeOK
  <1>1. SlotTypeOK'
    BY IndexType DEF SlotTypeOK, SlotStates, CallTypeOK, ReadTypeOK,
        ScanReady, SetState
  <1>2. PcTypeOK'
    BY ThreadsAssumption DEF PcTypeOK, Goto, PcValues, ConsumerPcValues,
        ReservePoints, Threads, ScanReady
  <1>3. HistoryTypeOK'
    <2>1. slot_data[physical_index(my_cons)] \in Records
      BY IndexType DEF ReadyHasData, ReadTypeOK, ScanReady, IsReadable
    <2>2. delivered' \in Seq(Records) BY <2>1 DEF HistoryTypeOK, ScanReady
    <2> QED BY <2>2 DEF HistoryTypeOK, ScanReady
  <1>4. SharedTypeOK' /\ CallTypeOK' /\ ReadTypeOK'
    BY DEF SharedTypeOK, CallTypeOK, ReadTypeOK, seqVars, callVars, readVars,
        ScanReady
  <1>5. (ready \in BOOLEAN)' BY DEF ScanReady
  <1> QED BY <1>1, <1>2, <1>3, <1>4, <1>5

\* Recycle keeps TypeOK.
LEMMA RecycleType == ASSUME IInv, Recycle PROVE TypeOK'
  <1> USE DEF IInv, TypeOK
  <1>1. SlotTypeOK'
    BY IndexType DEF SlotTypeOK, SlotStates, CallTypeOK, ReadTypeOK, Recycle,
        SetState
  <1>2. PcTypeOK'
    BY ThreadsAssumption DEF PcTypeOK, Goto, PcValues, ConsumerPcValues,
        ReservePoints, Threads, Recycle
  <1>3. ReadTypeOK' BY DEF ReadTypeOK, Recycle
  <1>4. SharedTypeOK' /\ CallTypeOK' /\ HistoryTypeOK'
    BY DEF SharedTypeOK, CallTypeOK, HistoryTypeOK, seqVars, callVars,
        history, Recycle
  <1>5. (ready \in BOOLEAN)' BY DEF Recycle
  <1> QED BY <1>1, <1>2, <1>3, <1>4, <1>5

\* ScanStop keeps TypeOK.
LEMMA ScanStopType == ASSUME IInv, ScanStop PROVE TypeOK'
  <1> USE DEF IInv, TypeOK
  <1>1. PcTypeOK'
    BY ThreadsAssumption DEF PcTypeOK, Goto, PcValues, ConsumerPcValues,
        ReservePoints, Threads, ScanStop
  <1>2. SlotTypeOK' /\ SharedTypeOK' /\ CallTypeOK' /\ ReadTypeOK' /\ HistoryTypeOK'
    BY DEF SlotTypeOK, SharedTypeOK, CallTypeOK, ReadTypeOK, HistoryTypeOK,
        slotVars, seqVars, callVars, readVars, history, ScanStop
  <1>3. (ready \in BOOLEAN)' BY DEF ScanStop
  <1> QED BY <1>1, <1>2, <1>3

\* PublishConsSeq keeps TypeOK.
LEMMA PublishConsSeqType == ASSUME IInv, PublishConsSeq PROVE TypeOK'
  <1> USE DEF IInv, TypeOK
  <1>1. SharedTypeOK' BY DEF SharedTypeOK, ReadTypeOK, PublishConsSeq
  <1>2. PcTypeOK'
    BY ThreadsAssumption DEF PcTypeOK, Goto, PcValues, ConsumerPcValues,
        ReservePoints, Threads, PublishConsSeq
  <1>3. SlotTypeOK' /\ CallTypeOK' /\ ReadTypeOK' /\ HistoryTypeOK'
    BY DEF SlotTypeOK, CallTypeOK, ReadTypeOK, HistoryTypeOK, slotVars,
        callVars, readVars, history, PublishConsSeq
  <1>4. (ready \in BOOLEAN)' BY DEF PublishConsSeq
  <1> QED BY <1>1, <1>2, <1>3, <1>4

\* LockQueue keeps TypeOK.
LEMMA LockQueueType == ASSUME IInv, LockQueue PROVE TypeOK'
  <1> USE DEF IInv, TypeOK
  <1>1. PcTypeOK'
    BY ThreadsAssumption DEF PcTypeOK, Goto, PcValues, ConsumerPcValues,
        ReservePoints, Threads, LockQueue
  <1>2. SlotTypeOK' /\ SharedTypeOK' /\ CallTypeOK' /\ ReadTypeOK' /\ HistoryTypeOK'
    BY DEF SlotTypeOK, SharedTypeOK, CallTypeOK, ReadTypeOK, HistoryTypeOK,
        slotVars, seqVars, callVars, readVars, history, LockQueue
  <1>3. (ready \in BOOLEAN)' BY DEF LockQueue
  <1> QED BY <1>1, <1>2, <1>3

\* DrainNext keeps TypeOK.
LEMMA DrainNextType == ASSUME IInv, DrainNext PROVE TypeOK'
  <1> USE DEF IInv, TypeOK
  <1>1. SharedTypeOK' BY DEF SharedTypeOK, DrainNext, Popped, seqVars
  <1>2. PcTypeOK'
    BY ThreadsAssumption DEF PcTypeOK, Goto, PcValues, ConsumerPcValues,
        ReservePoints, Threads, DrainNext
  <1>3. CallTypeOK'
    <2>1. Head(overflow_queue) \in Records BY DEF SharedTypeOK, DrainNext
    <2>2. rec' \in [Threads -> Records \cup {NoRecord}]
      BY <2>1 DEF CallTypeOK, DrainNext
    <2>3. /\ op' \in [Threads -> Calls \cup {"none", "drain"}]
          /\ \A q \in Producers : op'[q] # "drain"
          /\ op'[Consumer] \in {"none", "drain"}
      BY ThreadsAssumption DEF CallTypeOK, DrainNext, Threads
    <2>4. tries' \in [Threads -> Nat] BY DEF CallTypeOK, DrainNext
    <2> QED BY <2>2, <2>3, <2>4 DEF CallTypeOK, DrainNext
  <1>4. SlotTypeOK' /\ ReadTypeOK' /\ HistoryTypeOK'
    BY DEF SlotTypeOK, ReadTypeOK, HistoryTypeOK, slotVars, readVars, history,
        DrainNext
  <1>5. (ready \in BOOLEAN)' BY DEF DrainNext
  <1> QED BY <1>1, <1>2, <1>3, <1>4, <1>5

\* PutBack keeps TypeOK.
LEMMA PutBackType == ASSUME IInv, PutBack PROVE TypeOK'
  <1> USE DEF IInv, TypeOK
  <1>1. SharedTypeOK'
    BY DEF SharedTypeOK, HasRecord, Restored, PutBack, Threads, seqVars
  <1>2. PcTypeOK'
    BY ThreadsAssumption DEF PcTypeOK, Goto, PcValues, ConsumerPcValues,
        ReservePoints, Threads, PutBack
  <1>3. SlotTypeOK' /\ CallTypeOK' /\ ReadTypeOK' /\ HistoryTypeOK'
    BY DEF SlotTypeOK, CallTypeOK, ReadTypeOK, HistoryTypeOK, slotVars,
        callVars, readVars, history, PutBack
  <1>4. (ready \in BOOLEAN)' BY DEF PutBack
  <1> QED BY <1>1, <1>2, <1>3, <1>4

\* DrainDone keeps TypeOK.
LEMMA DrainDoneType == ASSUME IInv, DrainDone PROVE TypeOK'
  <1> USE DEF IInv, TypeOK
  <1>1. PcTypeOK'
    BY ThreadsAssumption DEF PcTypeOK, Goto, PcValues, ConsumerPcValues,
        ReservePoints, Threads, DrainDone
  <1>2. SlotTypeOK' /\ SharedTypeOK' /\ CallTypeOK' /\ ReadTypeOK' /\ HistoryTypeOK'
    BY DEF SlotTypeOK, SharedTypeOK, CallTypeOK, ReadTypeOK, HistoryTypeOK,
        slotVars, seqVars, callVars, readVars, history, DrainDone
  <1>3. (ready \in BOOLEAN)' BY DEF DrainDone
  <1> QED BY <1>1, <1>2, <1>3

\* WaitForData keeps TypeOK.
LEMMA WaitForDataType == ASSUME IInv, WaitForData PROVE TypeOK'
  <1> USE DEF IInv, TypeOK
  <1>1. PcTypeOK'
    BY ThreadsAssumption DEF PcTypeOK, Goto, PcValues, ConsumerPcValues,
        Threads,
       WaitForData, AfterFlagTest
  <1>2. SlotTypeOK' /\ SharedTypeOK' /\ CallTypeOK' /\ ReadTypeOK' /\ HistoryTypeOK'
    BY DEF SlotTypeOK, SharedTypeOK, CallTypeOK, ReadTypeOK, HistoryTypeOK,
        slotVars, seqVars, callVars, readVars, history, WaitForData
  <1>3. (ready \in BOOLEAN)' BY DEF WaitForData
  <1> QED BY <1>1, <1>2, <1>3

\* Woken keeps TypeOK.
LEMMA WokenType == ASSUME IInv, Woken PROVE TypeOK'
  <1> USE DEF IInv, TypeOK
  <1>1. PcTypeOK'
    BY ThreadsAssumption DEF PcTypeOK, Goto, PcValues, ConsumerPcValues,
        ReservePoints, Threads, Woken
  <1>2. SlotTypeOK' /\ SharedTypeOK' /\ CallTypeOK' /\ ReadTypeOK' /\ HistoryTypeOK'
    BY DEF SlotTypeOK, SharedTypeOK, CallTypeOK, ReadTypeOK, HistoryTypeOK,
        slotVars, seqVars, callVars, readVars, history, Woken
  <1>3. (ready \in BOOLEAN)' BY DEF Woken
  <1> QED BY <1>1, <1>2, <1>3

\* Timeout keeps TypeOK.
LEMMA TimeoutType == ASSUME IInv, Timeout PROVE TypeOK'
  <1> USE DEF IInv, TypeOK
  <1>1. PcTypeOK'
    BY ThreadsAssumption DEF PcTypeOK, Goto, PcValues, ConsumerPcValues,
        ReservePoints, Threads, Timeout
  <1>2. SlotTypeOK' /\ SharedTypeOK' /\ CallTypeOK' /\ ReadTypeOK' /\ HistoryTypeOK'
    BY DEF SlotTypeOK, SharedTypeOK, CallTypeOK, ReadTypeOK, HistoryTypeOK,
        slotVars, seqVars, callVars, readVars, history, Timeout
  <1>3. (ready \in BOOLEAN)' BY DEF Timeout
  <1> QED BY <1>1, <1>2, <1>3

\* TimedOut keeps TypeOK.
LEMMA TimedOutType == ASSUME IInv, TimedOut PROVE TypeOK'
  <1> USE DEF IInv, TypeOK
  <1>1. PcTypeOK'
    BY ThreadsAssumption DEF PcTypeOK, Goto, PcValues, ConsumerPcValues,
        ReservePoints, Threads, TimedOut
  <1>2. SlotTypeOK' /\ SharedTypeOK' /\ CallTypeOK' /\ ReadTypeOK' /\ HistoryTypeOK'
    BY DEF SlotTypeOK, SharedTypeOK, CallTypeOK, ReadTypeOK, HistoryTypeOK,
        slotVars, seqVars, callVars, readVars, history, TimedOut
  <1>3. (ready \in BOOLEAN)' BY DEF TimedOut
  <1> QED BY <1>1, <1>2, <1>3

\* Only a handle on the parent buffer sees its slot Reserved.
LEMMA HandleShared ==
  ASSUME NEW t \in Threads, HandleState(t) = "Reserved"
  PROVE  SharedHandle /\ slot_state[SlotOf(t)] = "Reserved"
  BY DEF HandleState, SlotOf

\* Every step of Next keeps HasRecord.
LEMMA HasRecordStep ==
  ASSUME IInv, Next
  PROVE  HasRecord'
  <1> USE BoundsAssumption, ThreadsAssumption DEF IInv, TypeOK, SlotTypeOK,
      CallTypeOK, PcTypeOK, ReadTypeOK, SharedTypeOK, HasRecord,
      ReservePoints, Threads, Records, AfterNone, AfterCommit, AfterFlagTest,
      slotVars, seqVars, callVars, readVars
  <1>1. ASSUME NEW p \in Producers, BeginCall(p) PROVE HasRecord'
    BY <1>1, SMTT(30) DEF BeginCall, Goto
  <1>2. ASSUME NEW p \in Producers, BeginOversized(p) PROVE HasRecord'
    BY <1>2 DEF BeginOversized, Goto, SetState, SetSeq
  <1>3. ASSUME NEW t \in Threads, LoadProdSeq(t) PROVE HasRecord'
    BY <1>3 DEF LoadProdSeq, Goto, SetState, SetSeq
  <1>4. ASSUME NEW t \in Threads, TryTransition(t) PROVE HasRecord'
    BY <1>4 DEF TryTransition, Goto, SetState, SetSeq
  <1>5. ASSUME NEW t \in Threads, StoreProdSeq(t) PROVE HasRecord'
    BY <1>5 DEF StoreProdSeq, Goto, SetState, SetSeq
  <1>6. ASSUME NEW t \in Threads, ReserveSetSeq(t) PROVE HasRecord'
    BY <1>6 DEF ReserveSetSeq, Goto, SetState, SetSeq
  <1>7. ASSUME NEW t \in Threads, WriteData(t) PROVE HasRecord'
    BY <1>7 DEF WriteData, Goto, SetState, SetSeq
  <1>8. ASSUME NEW t \in Threads, CommitTransition(t) PROVE HasRecord'
    BY <1>8 DEF CommitTransition, Goto, SetState, SetSeq
  <1>9. ASSUME NEW t \in Threads, CommitSetSeq(t) PROVE HasRecord'
    BY <1>9 DEF CommitSetSeq, Goto, SetState, SetSeq
  <1>10. ASSUME NEW t \in Threads, NotifyConsumer(t) PROVE HasRecord'
    BY <1>10 DEF NotifyConsumer, Goto, SetState, SetSeq
  <1>11. ASSUME NEW p \in Producers, DropReservation(p) PROVE HasRecord'
    BY <1>11 DEF DropReservation, Goto, SetState, SetSeq
  <1>12. ASSUME NEW p \in Producers, QueuePush(p) PROVE HasRecord'
    BY <1>12 DEF QueuePush, Goto, SetState, SetSeq
  <1>13. ASSUME ReadBegin PROVE HasRecord'
    BY <1>13 DEF ReadBegin, Goto, SetState, SetSeq
  <1>14. ASSUME ScanReady PROVE HasRecord'
    BY <1>14 DEF ScanReady, Goto, SetState, SetSeq
  <1>15. ASSUME Recycle PROVE HasRecord'
    BY <1>15 DEF Recycle, Goto, SetState, SetSeq
  <1>16. ASSUME ScanStop PROVE HasRecord'
    BY <1>16 DEF ScanStop, Goto, SetState, SetSeq
  <1>17. ASSUME PublishConsSeq PROVE HasRecord'
    BY <1>17 DEF PublishConsSeq, Goto, SetState, SetSeq
  <1>18. ASSUME LockQueue PROVE HasRecord'
    BY <1>18 DEF LockQueue, Goto, SetState, SetSeq
  <1>19. ASSUME DrainNext PROVE HasRecord'
    BY <1>19 DEF DrainNext, Goto, SetState, SetSeq
  <1>20. ASSUME PutBack PROVE HasRecord'
    BY <1>20 DEF PutBack, Goto, SetState, SetSeq
  <1>21. ASSUME DrainDone PROVE HasRecord'
    BY <1>21 DEF DrainDone, Goto, SetState, SetSeq
  <1>22. ASSUME WaitForData PROVE HasRecord'
    BY <1>22 DEF WaitForData, Goto, SetState, SetSeq
  <1>23. ASSUME Woken PROVE HasRecord'
    BY <1>23 DEF Woken, Goto, SetState, SetSeq
  <1>24. ASSUME Timeout PROVE HasRecord'
    BY <1>24 DEF Timeout, Goto, SetState, SetSeq
  <1>25. ASSUME TimedOut PROVE HasRecord'
    BY <1>25 DEF TimedOut, Goto, SetState, SetSeq
  <1> QED BY <1>1, <1>2, <1>3, <1>4, <1>5, <1>6, <1>7, <1>8, <1>9, <1>10,
      <1>11, <1>12, <1>13, <1>14, <1>15, <1>16, <1>17, <1>18, <1>19, <1>20,
      <1>21, <1>22, <1>23, <1>24, <1>25 DEF Next, Reserve, Commit, Read, Wait

\* Every step of Next keeps ReadyHasData.
LEMMA ReadyStep ==
  ASSUME IInv, Next
  PROVE  ReadyHasData'
  <1> USE IndexType DEF IInv, TypeOK, SlotTypeOK, CallTypeOK, PcTypeOK,
      ReadTypeOK, SharedTypeOK, HasRecord, ReadyHasData, SlotOf, HandleState,
      ReservePoints, Threads, AfterNone, AfterCommit, AfterFlagTest,
      ReleaseSlot, slotVars, seqVars, callVars, readVars
  <1>1. ASSUME NEW p \in Producers, BeginCall(p) PROVE ReadyHasData'
    BY <1>1 DEF BeginCall, Goto, SetState, SetSeq
  <1>2. ASSUME NEW p \in Producers, BeginOversized(p) PROVE ReadyHasData'
    BY <1>2 DEF BeginOversized, Goto, SetState, SetSeq
  <1>3. ASSUME NEW t \in Threads, LoadProdSeq(t) PROVE ReadyHasData'
    BY <1>3 DEF LoadProdSeq, Goto, SetState, SetSeq
  <1>4. ASSUME NEW t \in Threads, TryTransition(t) PROVE ReadyHasData'
    BY <1>4 DEF TryTransition, Goto, SetState, SetSeq
  <1>5. ASSUME NEW t \in Threads, StoreProdSeq(t) PROVE ReadyHasData'
    BY <1>5 DEF StoreProdSeq, Goto, SetState, SetSeq
  <1>6. ASSUME NEW t \in Threads, ReserveSetSeq(t) PROVE ReadyHasData'
    BY <1>6 DEF ReserveSetSeq, Goto, SetState, SetSeq
  <1>7. ASSUME NEW t \in Threads, WriteData(t) PROVE ReadyHasData'
    BY <1>7, ZenonT(40) DEF WriteData, Goto
  <1>8. ASSUME NEW t \in Threads, CommitTransition(t) PROVE ReadyHasData'
    BY <1>8 DEF CommitTransition, Goto, SetState, SetSeq
  <1>9. ASSUME NEW t \in Threads, CommitSetSeq(t) PROVE ReadyHasData'
    BY <1>9 DEF CommitSetSeq, Goto, SetState, SetSeq
  <1>10. ASSUME NEW t \in Threads, NotifyConsumer(t) PROVE ReadyHasData'
    BY <1>10 DEF NotifyConsumer, Goto, SetState, SetSeq
  <1>11. ASSUME NEW p \in Producers, DropReservation(p) PROVE ReadyHasData'
    BY <1>11 DEF DropReservation, Goto, SetState, SetSeq
  <1>12. ASSUME NEW p \in Producers, QueuePush(p) PROVE ReadyHasData'
    BY <1>12 DEF QueuePush, Goto, SetState, SetSeq
  <1>13. ASSUME ReadBegin PROVE ReadyHasData'
    BY <1>13 DEF ReadBegin, Goto, SetState, SetSeq
  <1>14. ASSUME ScanReady PROVE ReadyHasData'
    BY <1>14 DEF ScanReady, Goto, SetState, SetSeq
  <1>15. ASSUME Recycle PROVE ReadyHasData'
    BY <1>15 DEF Recycle, Goto, SetState, SetSeq
  <1>16. ASSUME ScanStop PROVE ReadyHasData'
    BY <1>16 DEF ScanStop, Goto, SetState, SetSeq
  <1>17. ASSUME PublishConsSeq PROVE ReadyHasData'
    BY <1>17 DEF PublishConsSeq, Goto, SetState, SetSeq
  <1>18. ASSUME LockQueue PROVE ReadyHasData'
    BY <1>18 DEF LockQueue, Goto, SetState, SetSeq
  <1>19. ASSUME DrainNext PROVE ReadyHasData'
    BY <1>19 DEF DrainNext, Goto, SetState, SetSeq
  <1>20. ASSUME PutBack PROVE ReadyHasData'
    BY <1>20 DEF PutBack, Goto, SetState, SetSeq
  <1>21. ASSUME DrainDone PROVE ReadyHasData'
    BY <1>21 DEF DrainDone, Goto, SetState, SetSeq
  <1>22. ASSUME WaitForData PROVE ReadyHasData'
    BY <1>22 DEF WaitForData, Goto, SetState, SetSeq
  <1>23. ASSUME Woken PROVE ReadyHasData'
    BY <1>23 DEF Woken, Goto, SetState, SetSeq
  <1>24. ASSUME Timeout PROVE ReadyHasData'
    BY <1>24 DEF Timeout, Goto, SetState, SetSeq
  <1>25. ASSUME TimedOut PROVE ReadyHasData'
    BY <1>25 DEF TimedOut, Goto, SetState, SetSeq
  <1> QED BY <1>1, <1>2, <1>3, <1>4, <1>5, <1>6, <1>7, <1>8, <1>9, <1>10,
      <1>11, <1>12, <1>13, <1>14, <1>15, <1>16, <1>17, <1>18, <1>19, <1>20,
      <1>21, <1>22, <1>23, <1>24, <1>25 DEF Next, Reserve, Commit, Read, Wait

\* Every step of Next keeps RecycleConsumed.
LEMMA RecycleStep ==
  ASSUME IInv, Next
  PROVE  RecycleConsumed'
  <1> USE IndexType DEF IInv, TypeOK, SlotTypeOK, CallTypeOK, PcTypeOK,
      ReadTypeOK, SharedTypeOK, RecycleConsumed, HandleState, CanReserve,
      Threads, ReleaseSlot, AfterNone, AfterCommit, AfterFlagTest, slotVars,
      seqVars, callVars, readVars
  <1>1. ASSUME NEW p \in Producers, BeginCall(p) PROVE RecycleConsumed'
    BY <1>1 DEF BeginCall, Goto, SetState, SetSeq
  <1>2. ASSUME NEW p \in Producers, BeginOversized(p) PROVE RecycleConsumed'
    BY <1>2 DEF BeginOversized, Goto, SetState, SetSeq
  <1>3. ASSUME NEW t \in Threads, LoadProdSeq(t) PROVE RecycleConsumed'
    BY <1>3 DEF LoadProdSeq, Goto, SetState, SetSeq
  <1>4. ASSUME NEW t \in Threads, TryTransition(t) PROVE RecycleConsumed'
    BY <1>4 DEF TryTransition, Goto, SetState, SetSeq
  <1>5. ASSUME NEW t \in Threads, StoreProdSeq(t) PROVE RecycleConsumed'
    BY <1>5 DEF StoreProdSeq, Goto, SetState, SetSeq
  <1>6. ASSUME NEW t \in Threads, ReserveSetSeq(t) PROVE RecycleConsumed'
    BY <1>6 DEF ReserveSetSeq, Goto, SetState, SetSeq
  <1>7. ASSUME NEW t \in Threads, WriteData(t) PROVE RecycleConsumed'
    BY <1>7 DEF WriteData, Goto, SetState, SetSeq
  <1>8. ASSUME NEW t \in Threads, CommitTransition(t) PROVE RecycleConsumed'
    BY <1>8 DEF CommitTransition, Goto, SetState, SetSeq
  <1>9. ASSUME NEW t \in Threads, CommitSetSeq(t) PROVE RecycleConsumed'
    BY <1>9 DEF CommitSetSeq, Goto, SetState, SetSeq
  <1>10. ASSUME NEW t \in Threads, NotifyConsumer(t) PROVE RecycleConsumed'
    BY <1>10 DEF NotifyConsumer, Goto, SetState, SetSeq
  <1>11. ASSUME NEW p \in Producers, DropReservation(p) PROVE RecycleConsumed'
    BY <1>11 DEF DropReservation, Goto, SetState, SetSeq
  <1>12. ASSUME NEW p \in Producers, QueuePush(p) PROVE RecycleConsumed'
    BY <1>12 DEF QueuePush, Goto, SetState, SetSeq
  <1>13. ASSUME ReadBegin PROVE RecycleConsumed'
    BY <1>13 DEF ReadBegin, Goto, SetState, SetSeq
  <1>14. ASSUME ScanReady PROVE RecycleConsumed'
    BY <1>14 DEF ScanReady, Goto, SetState, SetSeq
  <1>15. ASSUME Recycle PROVE RecycleConsumed'
    BY <1>15 DEF Recycle, Goto, SetState, SetSeq
  <1>16. ASSUME ScanStop PROVE RecycleConsumed'
    BY <1>16 DEF ScanStop, Goto, SetState, SetSeq
  <1>17. ASSUME PublishConsSeq PROVE RecycleConsumed'
    BY <1>17 DEF PublishConsSeq, Goto, SetState, SetSeq
  <1>18. ASSUME LockQueue PROVE RecycleConsumed'
    BY <1>18 DEF LockQueue, Goto, SetState, SetSeq
  <1>19. ASSUME DrainNext PROVE RecycleConsumed'
    BY <1>19 DEF DrainNext, Goto, SetState, SetSeq
  <1>20. ASSUME PutBack PROVE RecycleConsumed'
    BY <1>20 DEF PutBack, Goto, SetState, SetSeq
  <1>21. ASSUME DrainDone PROVE RecycleConsumed'
    BY <1>21 DEF DrainDone, Goto, SetState, SetSeq
  <1>22. ASSUME WaitForData PROVE RecycleConsumed'
    BY <1>22 DEF WaitForData, Goto, SetState, SetSeq
  <1>23. ASSUME Woken PROVE RecycleConsumed'
    BY <1>23 DEF Woken, Goto, SetState, SetSeq
  <1>24. ASSUME Timeout PROVE RecycleConsumed'
    BY <1>24 DEF Timeout, Goto, SetState, SetSeq
  <1>25. ASSUME TimedOut PROVE RecycleConsumed'
    BY <1>25 DEF TimedOut, Goto, SetState, SetSeq
  <1> QED BY <1>1, <1>2, <1>3, <1>4, <1>5, <1>6, <1>7, <1>8, <1>9, <1>10,
      <1>11, <1>12, <1>13, <1>14, <1>15, <1>16, <1>17, <1>18, <1>19, <1>20,
      <1>21, <1>22, <1>23, <1>24, <1>25 DEF Next, Reserve, Commit, Read, Wait

\* A slot that no owner works on after the step may change its state.
LEMMA OwnershipFrame ==
  ASSUME TypeOK, SlotOwnership, NEW i \in SlotIds, NEW s,
         slot_state' = [slot_state EXCEPT ![i] = s], UNCHANGED my_seq,
         \A u \in Threads : Owns(u)' => Owns(u) /\ SlotOf(u) # i
  PROVE  SlotOwnership'
  <1> SUFFICES ASSUME NEW t \in Threads, Owns(t)'
               PROVE  /\ slot_state'[SlotOf(t)] = "Reserved"
                      /\ \A u \in Threads \ {t} : Owns(u)' => SlotOf(u) # SlotOf(t)
    BY DEF SlotOwnership, SlotOf
  <1>1. Owns(t) /\ SlotOf(t) # i OBVIOUS
  <1>2. SlotOf(t) \in SlotIds BY IndexType DEF SlotOf, TypeOK, CallTypeOK
  <1>3. slot_state'[SlotOf(t)] = slot_state[SlotOf(t)]
    BY <1>1, <1>2 DEF TypeOK, SlotTypeOK
  <1> QED BY <1>1, <1>3 DEF SlotOwnership

\* Every step of Next keeps SlotOwnership.  Only five actions change a slot's
\* state; each of them owns the slot, finds it Empty, or is the consumer.
LEMMA OwnershipStep ==
  ASSUME IInv, Next
  PROVE  SlotOwnership'
  <1> USE IndexType DEF IInv, TypeOK, SlotTypeOK, CallTypeOK, PcTypeOK,
      ReadTypeOK
  <1>1. ASSUME NEW p \in Producers, BeginCall(p) PROVE SlotOwnership'
    BY <1>1 DEF BeginCall, Goto, SlotOwnership, Owns, SlotOf, Threads, slotVars,
       callVars, AfterCommit, AfterFlagTest
  <1>2. ASSUME NEW p \in Producers, BeginOversized(p) PROVE SlotOwnership'
    BY <1>2 DEF BeginOversized, Goto, SlotOwnership, Owns, SlotOf, Threads,
        slotVars,
       callVars, AfterCommit, AfterFlagTest
  <1>3. ASSUME NEW t \in Threads, LoadProdSeq(t) PROVE SlotOwnership'
    BY <1>3 DEF LoadProdSeq, Goto, SlotOwnership, Owns, SlotOf, Threads,
        slotVars,
       callVars, AfterCommit, AfterFlagTest
  <1>4. ASSUME NEW t \in Threads, TryTransition(t) PROVE SlotOwnership'
    <2> DEFINE i == SlotOf(t)
    <2>1. i \in SlotIds BY DEF SlotOf
    <2>2. CASE slot_state[i] = "Empty"
      <3>1. /\ slot_state' = [slot_state EXCEPT ![i] = "Reserved"]
            /\ pc' = [pc EXCEPT ![t] = "store"]
            /\ UNCHANGED my_seq
        BY <1>4, <2>2 DEF TryTransition, Goto, SetState, SlotOf, CanReserve
      <3>2. \A u \in Threads \ {t} : Owns(u)' => Owns(u) /\ SlotOf(u) # i
        BY <2>2, <3>1 DEF SlotOwnership, Owns
      <3>3. \A u \in Threads \ {t} : Owns(u)' => slot_state'[SlotOf(u)] = "Reserved"
        BY <2>1, <3>1, <3>2 DEF SlotOwnership, SlotOf
      <3>4. slot_state'[i] = "Reserved" BY <2>1, <3>1
      <3>5. \A u \in Threads : SlotOf(u)' = SlotOf(u) BY <3>1 DEF SlotOf
      <3>6. \A u, v \in Threads \ {t} : Owns(u)' /\ Owns(v)' /\ u # v
                                            => SlotOf(u) # SlotOf(v)
        BY <3>2 DEF SlotOwnership
      <3> SUFFICES ASSUME NEW a \in Threads, Owns(a)'
                   PROVE  /\ slot_state'[SlotOf(a)] = "Reserved"
                          /\ \A b \in Threads \ {a} : Owns(b)' => SlotOf(b) # SlotOf(a)
        BY <3>5, Zenon DEF SlotOwnership
      <3>7. CASE a = t BY <3>2, <3>4, <3>7
      <3>8. CASE a # t
        <4>1. slot_state'[SlotOf(a)] = "Reserved" BY <3>3, <3>8
        <4>2. ASSUME NEW b \in Threads \ {a}, Owns(b)' PROVE SlotOf(b) # SlotOf(a)
          BY <3>2, <3>6, <3>8, <4>2
        <4> QED BY <4>1, <4>2
      <3> QED BY <3>7, <3>8
    <2>3. CASE slot_state[i] # "Empty"
      <3>1. UNCHANGED slot_state /\ \E l \in {"load", "queue", "putback", "idle"} :
              pc' = [pc EXCEPT ![t] = l] /\ UNCHANGED my_seq
        BY <1>4, <2>3 DEF TryTransition, Goto, SlotOf, CanReserve, AfterNone
      <3> QED BY <3>1 DEF SlotOwnership, Owns, SlotOf
    <2> QED BY <2>2, <2>3
  <1>5. ASSUME NEW t \in Threads, StoreProdSeq(t) PROVE SlotOwnership'
    BY <1>5 DEF StoreProdSeq, Goto, SlotOwnership, Owns, SlotOf, Threads,
        slotVars,
       callVars, AfterCommit, AfterFlagTest
  <1>6. ASSUME NEW t \in Threads, ReserveSetSeq(t) PROVE SlotOwnership'
    BY <1>6 DEF ReserveSetSeq, Goto, SlotOwnership, Owns, SlotOf, Threads,
        slotVars,
       callVars, AfterCommit, AfterFlagTest
  <1>7. ASSUME NEW t \in Threads, WriteData(t) PROVE SlotOwnership'
    BY <1>7 DEF WriteData, Goto, SlotOwnership, Owns, SlotOf, Threads, slotVars,
       callVars, AfterCommit, AfterFlagTest
  <1>8. ASSUME NEW t \in Threads, CommitTransition(t) PROVE SlotOwnership'
    <2>1. CASE HandleState(t) = "Reserved"
      <3>1. /\ slot_state' = [slot_state EXCEPT ![SlotOf(t)] = "Ready"]
            /\ pc' = [pc EXCEPT ![t] = "seq"]
            /\ UNCHANGED my_seq
        BY <1>8, <2>1 DEF CommitTransition, Goto, SetState, SlotOf, callVars
      <3>2. Owns(t) BY <1>8 DEF CommitTransition, Owns
      <3>3. \A u \in Threads : Owns(u)' => Owns(u) /\ SlotOf(u) # SlotOf(t)
        BY <3>1, <3>2 DEF SlotOwnership, Owns
      <3>4. SlotOf(t) \in SlotIds BY DEF SlotOf
      <3> QED BY <3>1, <3>3, <3>4, OwnershipFrame
    <2>2. CASE HandleState(t) # "Reserved"
      <3>1. UNCHANGED slot_state /\ \E l \in {"drain", "idle"} :
              pc' = [pc EXCEPT ![t] = l] /\ UNCHANGED my_seq
        BY <1>8, <2>2 DEF CommitTransition, Goto, AfterCommit, callVars
      <3> QED BY <3>1 DEF SlotOwnership, Owns, SlotOf
    <2> QED BY <2>1, <2>2
  <1>9. ASSUME NEW t \in Threads, CommitSetSeq(t) PROVE SlotOwnership'
    BY <1>9 DEF CommitSetSeq, Goto, SlotOwnership, Owns, SlotOf, Threads,
        slotVars,
       callVars, AfterCommit, AfterFlagTest
  <1>10. ASSUME NEW t \in Threads, NotifyConsumer(t) PROVE SlotOwnership'
    BY <1>10 DEF NotifyConsumer, Goto, SlotOwnership, Owns, SlotOf, Threads,
        slotVars,
       callVars, AfterCommit, AfterFlagTest
  <1>11. ASSUME NEW p \in Producers, DropReservation(p) PROVE SlotOwnership'
    <2> p \in Threads BY DEF Threads
    <2>1. pc' = [pc EXCEPT ![p] = "idle"] /\ UNCHANGED my_seq
      BY <1>11 DEF DropReservation, Goto, callVars
    <2>2. CASE HandleState(p) = "Reserved"
      <3>1. slot_state' = [slot_state EXCEPT ![SlotOf(p)] = "Empty"]
        BY <1>11, <2>2 DEF DropReservation, ReleaseSlot, SetState, SlotOf
      <3>2. Owns(p) BY <1>11 DEF DropReservation, Owns
      <3>3. \A u \in Threads : Owns(u)' => Owns(u) /\ SlotOf(u) # SlotOf(p)
        BY <2>1, <3>2 DEF SlotOwnership, Owns
      <3>4. SlotOf(p) \in SlotIds BY DEF SlotOf
      <3> QED BY <2>1, <3>1, <3>3, <3>4, OwnershipFrame
    <2>3. CASE HandleState(p) # "Reserved"
      <3>1. UNCHANGED slot_state BY <1>11, <2>3 DEF DropReservation, ReleaseSlot
      <3> QED BY <2>1, <3>1 DEF SlotOwnership, Owns, SlotOf
    <2> QED BY <2>2, <2>3
  <1>12. ASSUME NEW p \in Producers, QueuePush(p) PROVE SlotOwnership'
    BY <1>12 DEF QueuePush, Goto, SlotOwnership, Owns, SlotOf, Threads,
        slotVars,
       callVars, AfterCommit, AfterFlagTest
  <1>13. ASSUME ReadBegin PROVE SlotOwnership'
    BY <1>13 DEF ReadBegin, Goto, SlotOwnership, Owns, SlotOf, Threads,
        slotVars,
       callVars, AfterCommit, AfterFlagTest
  <1>14. ASSUME ScanReady PROVE SlotOwnership'
    <2> Consumer \in Threads BY DEF Threads
    <2> DEFINE i == physical_index(my_cons)
    <2>1. slot_state[i] = "Ready" BY <1>14 DEF ScanReady, IsReadable,
        RecycleConsumed
    <2>2. /\ slot_state' = [slot_state EXCEPT ![i] = "Consumed"]
          /\ pc' = [pc EXCEPT ![Consumer] = "recycle"]
          /\ UNCHANGED my_seq
      BY <1>14 DEF ScanReady, Goto, SetState, callVars
    <2>3. \A u \in Threads : Owns(u)' => Owns(u) /\ SlotOf(u) # i
      BY <2>1, <2>2 DEF SlotOwnership, Owns
    <2>4. i \in SlotIds OBVIOUS
    <2> QED BY <2>2, <2>3, <2>4, OwnershipFrame
  <1>15. ASSUME Recycle PROVE SlotOwnership'
    <2> Consumer \in Threads BY DEF Threads
    <2> DEFINE i == physical_index(my_cons)
    <2>1. slot_state[i] = "Consumed" BY <1>15 DEF Recycle, IsReadable,
        RecycleConsumed
    <2>2. /\ slot_state' = [slot_state EXCEPT ![i] = "Empty"]
          /\ pc' = [pc EXCEPT ![Consumer] = "scan"]
          /\ UNCHANGED my_seq
      BY <1>15 DEF Recycle, Goto, SetState, callVars
    <2>3. \A u \in Threads : Owns(u)' => Owns(u) /\ SlotOf(u) # i
      BY <2>1, <2>2 DEF SlotOwnership, Owns
    <2>4. i \in SlotIds OBVIOUS
    <2> QED BY <2>2, <2>3, <2>4, OwnershipFrame
  <1>16. ASSUME ScanStop PROVE SlotOwnership'
    BY <1>16 DEF ScanStop, Goto, SlotOwnership, Owns, SlotOf, Threads, slotVars,
       callVars, AfterCommit, AfterFlagTest
  <1>17. ASSUME PublishConsSeq PROVE SlotOwnership'
    BY <1>17 DEF PublishConsSeq, Goto, SlotOwnership, Owns, SlotOf, Threads,
        slotVars,
       callVars, AfterCommit, AfterFlagTest
  <1>18. ASSUME LockQueue PROVE SlotOwnership'
    BY <1>18 DEF LockQueue, Goto, SlotOwnership, Owns, SlotOf, Threads,
        slotVars,
       callVars, AfterCommit, AfterFlagTest
  <1>19. ASSUME DrainNext PROVE SlotOwnership'
    BY <1>19 DEF DrainNext, Goto, SlotOwnership, Owns, SlotOf, Threads,
        slotVars,
       callVars, AfterCommit, AfterFlagTest
  <1>20. ASSUME PutBack PROVE SlotOwnership'
    BY <1>20 DEF PutBack, Goto, SlotOwnership, Owns, SlotOf, Threads, slotVars,
       callVars, AfterCommit, AfterFlagTest
  <1>21. ASSUME DrainDone PROVE SlotOwnership'
    BY <1>21 DEF DrainDone, Goto, SlotOwnership, Owns, SlotOf, Threads,
        slotVars,
       callVars, AfterCommit, AfterFlagTest
  <1>22. ASSUME WaitForData PROVE SlotOwnership'
    BY <1>22 DEF WaitForData, Goto, SlotOwnership, Owns, SlotOf, Threads,
        slotVars,
       callVars, AfterCommit, AfterFlagTest
  <1>23. ASSUME Woken PROVE SlotOwnership'
    BY <1>23 DEF Woken, Goto, SlotOwnership, Owns, SlotOf, Threads, slotVars,
       callVars, AfterCommit, AfterFlagTest
  <1>24. ASSUME Timeout PROVE SlotOwnership'
    BY <1>24 DEF Timeout, Goto, SlotOwnership, Owns, SlotOf, Threads, slotVars,
       callVars, AfterCommit, AfterFlagTest
  <1>25. ASSUME TimedOut PROVE SlotOwnership'
    BY <1>25 DEF TimedOut, Goto, SlotOwnership, Owns, SlotOf, Threads, slotVars,
       callVars, AfterCommit, AfterFlagTest
  <1> QED BY <1>1, <1>2, <1>3, <1>4, <1>5, <1>6, <1>7, <1>8, <1>9, <1>10,
      <1>11, <1>12, <1>13, <1>14, <1>15, <1>16, <1>17, <1>18, <1>19, <1>20,
      <1>21, <1>22, <1>23, <1>24, <1>25 DEF Next, Reserve, Commit, Read, Wait

\* The strengthened invariant holds initially.
LEMMA InvInit == Init => IInv
  <1> SUFFICES ASSUME Init PROVE IInv OBVIOUS
  <1>1. TypeOK BY InitType
  <1>2. HasRecord BY DEF Init, HasRecord, ReservePoints
  <1>3. ReadyHasData BY DEF Init, ReadyHasData
  <1>4. RecycleConsumed BY DEF Init, RecycleConsumed, Threads
  <1>5. SlotOwnership BY DEF Init, SlotOwnership, Owns
  <1> QED BY <1>1, <1>2, <1>3, <1>4, <1>5 DEF IInv

\* Every step of Next keeps TypeOK.
LEMMA TypeStep == ASSUME IInv, Next PROVE TypeOK'
  BY BeginCallType, BeginOversizedType, LoadProdSeqType, TryTransitionType, 
     StoreProdSeqType, ReserveSetSeqType, WriteDataType, CommitTransitionType, 
     CommitSetSeqType, NotifyConsumerType, DropReservationType, QueuePushType, 
     ReadBeginType, ScanReadyType, RecycleType, ScanStopType, 
     PublishConsSeqType, LockQueueType, DrainNextType, PutBackType, 
     DrainDoneType, WaitForDataType, WokenType, TimeoutType, 
     TimedOutType
  DEF Next, Reserve, Commit, Read, Wait

\* Stuttering keeps the strengthened invariant.
LEMMA InvStutter == ASSUME IInv, UNCHANGED vars PROVE IInv'
  <1> USE DEF vars, slotVars, seqVars, callVars, readVars, history, IInv
  <1>1. TypeOK'
    BY DEF TypeOK, SlotTypeOK, SharedTypeOK, PcTypeOK, CallTypeOK, ReadTypeOK,
           HistoryTypeOK
  <1>2. HasRecord' BY DEF HasRecord
  <1>3. ReadyHasData' BY DEF ReadyHasData, SlotOf
  <1>4. RecycleConsumed' BY DEF RecycleConsumed
  <1>5. SlotOwnership' BY DEF SlotOwnership, Owns, SlotOf
  <1> QED BY <1>1, <1>2, <1>3, <1>4, <1>5

\* The strengthened invariant is inductive.
LEMMA InvNext == IInv /\ [Next]_vars => IInv'
  <1> SUFFICES ASSUME IInv, [Next]_vars PROVE IInv' OBVIOUS
  <1>1. CASE Next
    <2>1. TypeOK' /\ HasRecord' /\ ReadyHasData' /\ RecycleConsumed' /\ SlotOwnership'
      BY <1>1, TypeStep, HasRecordStep, ReadyStep, RecycleStep, OwnershipStep
    <2> QED BY <2>1 DEF IInv
  <1>2. CASE UNCHANGED vars BY <1>2, InvStutter
  <1> QED BY <1>1, <1>2

\* The strengthened invariant holds in every reachable state.
THEOREM Invariance == Spec => []IInv
  BY InvInit, InvNext, PTL DEF Spec

\* Every variable keeps its type; in particular read() returns only records
\* that were written to their slot before it became Ready.
THEOREM TypeCorrect == Spec => []TypeOK
  <1>1. IInv => TypeOK BY DEF IInv
  <1> QED BY <1>1, Invariance, PTL

\* Two threads never fill the same slot, for every number of producers, every
\* capacity and every interleaving with the consumer.
THEOREM Ownership == Spec => []SlotOwnership
  <1>1. IInv => SlotOwnership BY DEF IInv
  <1> QED BY <1>1, Invariance, PTL

=============================================================================
