------------------------- MODULE FlushDaemonProofs -------------------------
(***************************************************************************)
(* Theorems about FlushDaemon: the daemon drives the ring by steps of the  *)
(* ring, so everything proved of VolatileRing holds under it; and what is  *)
(* on disk is what read() returned, in order and without holes.            *)
(***************************************************************************)
EXTENDS FlushDaemon, VolatileRingRecords

-----------------------------------------------------------------------------
(* The inductive invariant.                                                *)

\* The current read() has returned at most one record for each slot it has
\* consumed.
FetchCount ==
    /\ stage = "fetch" /\ pc[Consumer] = "scan" =>
          Len(delivered) <= taken + checked
    /\ stage = "fetch" /\ pc[Consumer] = "recycle" =>
          Len(delivered) <= taken + checked + 1
    /\ stage \in {"fetch", "write"} => Len(delivered) <= taken + Capacity

\* Where the writing of the batch is.
BatchPlace ==
    /\ stage = "write" => taken + next <= Len(delivered) + 1
    /\ MinBatch <= batch_size

\* The records that the daemon has been through: all that were read before
\* the current read(), and those of its batch before the next one.
Reached == IF stage = "fetch" THEN taken
           ELSE IF stage = "write" THEN taken + next - 1
           ELSE Len(delivered)

\* What is on disk was read.
DiskRead ==
    \A i \in 1 .. Len(disk) : \E x \in 1 .. Reached : disk[i] = delivered[x]

\* It is there in the order in which it was read.
DiskOrdered ==
    \A i, j \in 1 .. Len(disk), x, y \in 1 .. Len(delivered) :
        i < j /\ disk[i] = delivered[x] /\ disk[j] = delivered[y] => x < y

\* The end of the last batch that is complete.
Ended == IF stage = "fetch" THEN taken ELSE Len(delivered)

\* A batch is a run of what was read.
BatchRead ==
    \A k \in 1 .. Len(batches) : \E s \in 0 .. Len(delivered) :
        /\ s + Len(batches[k]) <= Ended
        /\ \A n \in 1 .. Len(batches[k]) : batches[k][n] = delivered[s + n]

\* Batches come in the order in which they were read.
BatchOrdered ==
    \A k, l \in 1 .. Len(batches), x, y \in 1 .. Len(delivered) :
        /\ k < l
        /\ \E n \in 1 .. Len(batches[k]) : batches[k][n] = delivered[x]
        /\ \E n \in 1 .. Len(batches[l]) : batches[l][n] = delivered[y]
        => x < y

\* The batch being written is the last one, and on disk up to the next record.
CurrentWritten ==
    stage = "write" =>
        /\ Len(batches) > 0
        /\ Len(batches[Len(batches)]) = Len(delivered) - taken
        /\ \A n \in 1 .. Len(delivered) - taken :
              batches[Len(batches)][n] = delivered[taken + n]
        /\ \A n \in 1 .. next - 1 :
              \E h \in 1 .. Len(disk) : disk[h] = delivered[taken + n]

\* Batches are on disk without holes.
NoHoles ==
    \A i \in 1 .. Len(disk), k \in 1 .. Len(batches) :
        \A n \in 1 .. Len(batches[k]) : HasEarlier(i, batches[k], n)

\* Where a record that the daemon is done with may be.
OnDisk(r) == \E h \in 1 .. Len(disk) : disk[h] = r

BeyondSize(r) ==
    \E k \in 1 .. Len(batches) : \E n \in 1 .. Len(batches[k]) :
        n > MinBatch /\ batches[k][n] = r

\* Index form of NoErrorNoLoss.
PassedWritten ==
    ~failed =>
        \A x \in 1 .. (IF stage \in {"fetch", "write"}
                       THEN taken ELSE Len(delivered)) :
            OnDisk(delivered[x]) \/ BeyondSize(delivered[x])

DiskInv == DiskRead /\ DiskOrdered /\ NoHoles

BatchInv == BatchRead /\ BatchOrdered /\ CurrentWritten

DaemonInv == RInv /\ DaemonTypeOK /\ FetchCount /\ BatchPlace /\ DiskInv
               /\ BatchInv /\ PassedWritten

-----------------------------------------------------------------------------
(* The daemon drives the ring by its own steps.                            *)

\* A step of the system is a step of the ring, or leaves the ring alone.
LEMMA RingSteps ==
  ASSUME DaemonNext
  PROVE  [Next]_vars
  <1> Consumer \in Threads BY DEF Threads
  <1>1. CASE StopFlushDaemon BY <1>1 DEF StopFlushDaemon
  <1>2. CASE LoadRunning \/ TakeUsage BY <1>2 DEF LoadRunning, TakeUsage
  <1>3. CASE DaemonWait \/ NothingToFlush
    BY <1>3 DEF DaemonWait, WaitStep, NothingToFlush, Next, Wait
  <1>4. CASE FetchBegin BY <1>4 DEF FetchBegin, Next, Read
  <1>5. CASE FetchStep BY <1>5 DEF FetchStep, Next, Read
  <1>6. CASE FetchEnd \/ WriteToDisk \/ DiskError \/ BatchDone
    BY <1>6 DEF FetchEnd, WriteToDisk, DiskError, BatchDone
  <1>7. CASE ProducersNext
    BY <1>7 DEF ProducersNext, ProducerStep, Next, Threads
  <1> QED BY <1>1, <1>2, <1>3, <1>4, <1>5, <1>6, <1>7 DEF DaemonNext, Daemon

\* What a call does to the histories is not a read.
LEMMA CallingReads ==
  ASSUME Calling
  PROVE  delivered' = delivered
  <1>1. ASSUME NEW p \in Producers,
               BeginCall(p) \/ BeginOversized(p) \/ DropReservation(p)
                 \/ QueuePush(p)
        PROVE  delivered' = delivered
    BY <1>1 DEF BeginCall, BeginOversized, DropReservation, QueuePush, history
  <1>2. ASSUME NEW t \in Threads, Reserve(t) PROVE delivered' = delivered
    BY <1>2 DEF Reserve, LoadProdSeq, TryTransition, StoreProdSeq,
       ReserveSetSeq, history
  <1>3. ASSUME NEW t \in Threads, Commit(t) PROVE delivered' = delivered
    BY <1>3 DEF Commit, WriteData, CommitTransition, CommitSetSeq,
       NotifyConsumer, history
  <1> QED BY <1>1, <1>2, <1>3 DEF Calling

\* Nor is a step of read() other than the copy of a slot, nor a wait.
LEMMA LoopReads ==
  ASSUME Read \/ Wait, ~ScanReady
  PROVE  delivered' = delivered
  BY DEF Read, Wait, ReadBegin, Recycle, ScanStop, PublishConsSeq, LockQueue,
     DrainNext, PutBack, DrainDone, WaitForData, Woken, Timeout, TimedOut,
     history

\* That copy appends a record, or none when the CRC is wrong.
LEMMA ScanAppends ==
  ASSUME RInv, ScanReady
  PROVE  \/ delivered' = delivered
         \/ \E r \in Records : delivered' = Append(delivered, r)
  <1>1. PICK r : r = slot_data[physical_index(my_cons)] OBVIOUS
  <1>2. /\ IsReadable(physical_index(my_cons), my_cons)
        /\ delivered' = delivered \/ delivered' = Append(delivered, r)
    BY <1>1 DEF ScanReady
  <1>3. physical_index(my_cons) \in SlotIds
    BY IndexType DEF RInv, IInv, TypeOK, ReadTypeOK
  <1>4. r \in Records
    BY <1>1, <1>2, <1>3 DEF RInv, IInv, ReadyHasData, IsReadable
  <1> QED BY <1>2, <1>4

-----------------------------------------------------------------------------
(* The steps as the disk sees them.                                        *)

\* A step outside the fetching and writing of a batch, or beside it.
Idles ==
    /\ UNCHANGED <<disk, batches, failed, delivered, taken, next>>
    /\ \/ UNCHANGED stage
       \/ stage \notin {"fetch", "write"} /\ stage' \notin {"fetch", "write"}

\* read() copies one more record.
Returns ==
    /\ stage = "fetch"
    /\ UNCHANGED <<disk, batches, failed, stage, taken, next>>
    /\ \E r \in Records : delivered' = Append(delivered, r)

\* read() is called.
Begins ==
    /\ stage \notin {"fetch", "write"} /\ stage' = "fetch"
    /\ taken' = Len(delivered)
    /\ UNCHANGED <<disk, batches, failed, delivered, next>>

\* Every step of the system is one of these, or one of the daemon's own.
LEMMA DiskSteps ==
  ASSUME RInv, DaemonNext
  PROVE  \/ Idles \/ Returns \/ Begins \/ FetchEnd
         \/ WriteToDisk \/ DiskError \/ BatchDone
  <1>1. CASE StopFlushDaemon
    BY <1>1 DEF StopFlushDaemon, Idles, loopVars, diskVars, vars, history
  <1>2. CASE LoadRunning \/ TakeUsage
    BY <1>2 DEF LoadRunning, TakeUsage, Idles, diskVars, vars, history
  <1>3. CASE DaemonWait
    <2>1. Wait /\ ~ScanReady /\ UNCHANGED <<stage, taken, next, diskVars>>
      BY <1>3 DEF DaemonWait, WaitStep, Wait, WaitForData, Woken, Timeout,
         ScanReady, daemonVars, loopVars
    <2> QED BY <2>1, LoopReads DEF Idles, diskVars
  <1>4. CASE NothingToFlush
    BY <1>4 DEF NothingToFlush, TimedOut, Idles, diskVars, history
  <1>5. CASE FetchBegin
    BY <1>5 DEF FetchBegin, ReadBegin, Begins, diskVars, history
  <1>6. CASE FetchStep
    <2>1. /\ stage = "fetch"
          /\ UNCHANGED <<stage, taken, next, disk, batches, failed>>
      BY <1>6 DEF FetchStep, daemonVars, loopVars, diskVars
    <2>2. CASE ScanReady BY <2>1, <2>2, ScanAppends DEF Returns, Idles
    <2>3. CASE ~ScanReady
      <3>1. Read \/ Calling
        BY <1>6 DEF FetchStep, Read, Calling, Threads
      <3>2. delivered' = delivered BY <2>3, <3>1, LoopReads, CallingReads
      <3> QED BY <2>1, <3>2 DEF Idles
    <2> QED BY <2>2, <2>3
  <1>7. CASE ProducersNext
    <2>1. Calling BY <1>7 DEF ProducersNext, ProducerStep, Calling, Threads
    <2>2. UNCHANGED <<stage, taken, next, disk, batches, failed>>
      BY <1>7 DEF ProducersNext, daemonVars, loopVars, diskVars
    <2> QED BY <2>1, <2>2, CallingReads DEF Idles
  <1> QED BY <1>1, <1>2, <1>3, <1>4, <1>5, <1>6, <1>7 DEF DaemonNext, Daemon

-----------------------------------------------------------------------------
(* The size of a batch.                                                    *)

\* What read() returned, by index.
LEMMA FetchedFacts ==
  ASSUME RInv, DaemonTypeOK
  PROVE  /\ Len(delivered) \in Nat /\ taken \in Nat /\ taken <= Len(delivered)
         /\ Fetched \in Seq(Records)
         /\ Len(Fetched) = Len(delivered) - taken
         /\ \A n \in 1 .. Len(delivered) - taken :
               Fetched[n] = delivered[taken + n]
         /\ Fetched = <<>> <=> taken = Len(delivered)
  <1>1. delivered \in Seq(Records) BY DEF RInv, IInv, TypeOK, HistoryTypeOK
  <1>2. PICK m \in Nat : m = Len(delivered) BY <1>1
  <1>3. taken \in Nat /\ taken <= m BY <1>2 DEF DaemonTypeOK
  <1>4. PICK a \in Nat : a = taken + 1 BY <1>3
  <1>5. \A i \in a .. m : delivered[i] \in Records BY <1>1, <1>2, <1>3, <1>4
  <1>6. PICK f : f = SubSeq(delivered, a, m) OBVIOUS
  <1>7. /\ f \in Seq(Records)
        /\ Len(f) = IF a <= m THEN m - a + 1 ELSE 0
        /\ \A i \in 1 .. m - a + 1 : f[i] = delivered[a + i - 1]
    BY <1>5, <1>6, SubSeqProperties
  <1>8. Len(f) = m - taken BY <1>3, <1>4, <1>7
  <1>9. \A n \in 1 .. m - taken : f[n] = delivered[taken + n]
    <2> TAKE n \in 1 .. m - taken
    <2>1. n \in 1 .. m - a + 1 /\ a + n - 1 = taken + n BY <1>3, <1>4
    <2> QED BY <1>7, <2>1
  <1>10. f = <<>> <=> taken = m
    <2>1. f = <<>> <=> Len(f) = 0 BY <1>7, EmptySeq
    <2> QED BY <1>3, <1>8, <2>1
  <1>11. f = Fetched BY <1>2, <1>4, <1>6 DEF Fetched
  <1> QED BY <1>2, <1>3, <1>7, <1>8, <1>9, <1>10, <1>11

\* The adapted size is within its bounds.
LEMMA SizeBounds ==
  /\ AdaptedSize \in Nat
  /\ AdaptedSize <= (3 * MaxRecords) \div 2
  /\ 1 <= (3 * MaxRecords) \div 2
  /\ MaxRecords <= (3 * MaxRecords) \div 2
  /\ MinBatch \in Nat /\ MinBatch <= MaxRecords
  /\ MinBatch <= (IF AdaptedSize = 0 THEN 1 ELSE AdaptedSize)
  <1>1. MaxRecords \in Nat \ {0} /\ Capacity \in Nat \ {0}
    BY DaemonAssumption, CapacityAssumption
  <1>2. AdaptedSize \in {(3 * MaxRecords) \div 2, MaxRecords \div 2, MaxRecords}
    BY DEF AdaptedSize
  <1>3. PICK h : h = MaxRecords \div 2 OBVIOUS
  <1>4. PICK m : m = (3 * MaxRecords) \div 2 OBVIOUS
  <1>5. m \in Nat /\ h \in Nat /\ MaxRecords <= m /\ h <= MaxRecords
    BY <1>1, <1>3, <1>4
  <1>6. MinBatch = IF h = 0 THEN 1 ELSE h BY <1>3 DEF MinBatch
  <1>7. MinBatch \in Nat /\ MinBatch <= MaxRecords /\ 1 <= MinBatch
    BY <1>1, <1>5, <1>6
  <1>8. PICK a : a = AdaptedSize OBVIOUS
  <1>9. a \in {m, h, MaxRecords} BY <1>2, <1>3, <1>4, <1>8
  <1>10. MinBatch <= (IF a = 0 THEN 1 ELSE a)
    BY <1>1, <1>5, <1>6, <1>7, <1>9
  <1>11. a \in Nat /\ a <= m BY <1>1, <1>5, <1>9
  <1> QED BY <1>1, <1>4, <1>5, <1>7, <1>8, <1>10, <1>11

\* Every step keeps FetchCount.
LEMMA CountStep ==
  ASSUME RInv, DaemonTypeOK, FetchCount, DaemonNext
  PROVE  FetchCount'
  <1> Consumer \in Threads BY DEF Threads
  <1>0. /\ Len(delivered) \in Nat /\ taken \in Nat /\ checked \in Nat
        /\ Capacity \in Nat /\ delivered \in Seq(Records)
        /\ pc \in [Threads -> PcValues \cup ConsumerPcValues]
    BY FetchedFacts, CapacityAssumption
       DEF RInv, IInv, TypeOK, ReadTypeOK, HistoryTypeOK, PcTypeOK
  <1>1. ASSUME UNCHANGED <<delivered, taken, checked>>, stage' = stage,
               pc'[Consumer] \in {"scan", "recycle"} =>
                  pc'[Consumer] = pc[Consumer]
        PROVE  FetchCount'
    BY <1>1 DEF FetchCount
  <1>2. ASSUME Calling, UNCHANGED <<stage, taken>> PROVE FetchCount'
    <2>1. Announces BY <1>2, CallingSteps DEF RInv
    <2>2. delivered' = delivered BY <1>2, CallingReads
    <2> QED BY <1>1, <1>2, <2>1, <2>2 DEF Announces, Quiet, ReservePoints
  <1>3. CASE StopFlushDaemon
    BY <1>1, <1>3 DEF StopFlushDaemon, loopVars, vars, history, readVars
  <1>4. CASE LoadRunning \/ TakeUsage
    BY <1>4 DEF LoadRunning, TakeUsage, FetchCount
  <1>5. CASE DaemonWait \/ NothingToFlush
    BY <1>5 DEF DaemonWait, NothingToFlush, FetchCount, daemonVars, loopVars
  <1>6. CASE FetchBegin
    BY <1>0, <1>6 DEF FetchBegin, ReadBegin, Goto, FetchCount, history
  <1>7. CASE FetchStep
    <2>1. stage = "fetch" /\ UNCHANGED <<stage, taken>>
      BY <1>7 DEF FetchStep, daemonVars, loopVars
    <2>2. CASE ScanReady
      <3>1. /\ pc[Consumer] = "scan" /\ pc'[Consumer] = "recycle"
            /\ checked < Capacity /\ UNCHANGED checked
        BY <1>0, <2>2 DEF ScanReady, Goto, readVars
      <3>2. \/ Len(delivered') = Len(delivered) + 1
            \/ Len(delivered') = Len(delivered)
        BY <1>0, <2>2, ScanAppends, AppendIndex
      <3> QED BY <1>0, <2>1, <3>1, <3>2 DEF FetchCount
    <2>3. CASE Recycle
      BY <1>0, <2>1, <2>3 DEF Recycle, Goto, FetchCount, history
    <2>4. CASE ScanStop
      BY <1>0, <1>1, <2>1, <2>4 DEF ScanStop, Goto, readVars, history
    <2>5. CASE PublishConsSeq \/ LockQueue
      BY <1>0, <1>1, <2>1, <2>5 DEF PublishConsSeq, LockQueue, Goto, readVars,
         history
    <2>6. CASE DrainNext \/ PutBack \/ DrainDone
      BY <1>0, <1>1, <2>1, <2>6 DEF DrainNext, PutBack, DrainDone, Goto,
         readVars, history
    <2>7. CASE Reserve(Consumer) \/ Commit(Consumer)
      BY <1>2, <2>1, <2>7 DEF Calling
    <2> QED BY <1>7, <2>2, <2>3, <2>4, <2>5, <2>6, <2>7 DEF FetchStep
  <1>8. CASE FetchEnd \/ WriteToDisk \/ DiskError \/ BatchDone
    BY <1>8 DEF FetchEnd, WriteToDisk, DiskError, BatchDone, AfterError,
       FetchCount, vars, history, readVars
  <1>9. CASE ProducersNext
    <2>1. Calling BY <1>9 DEF ProducersNext, ProducerStep, Calling, Threads
    <2>2. UNCHANGED <<stage, taken>>
      BY <1>9 DEF ProducersNext, daemonVars, loopVars
    <2> QED BY <1>2, <2>1, <2>2
  <1> QED BY <1>3, <1>4, <1>5, <1>6, <1>7, <1>8, <1>9 DEF DaemonNext, Daemon

-----------------------------------------------------------------------------
(* Types.                                                                  *)

\* The loop's control keeps its type, and the batch size its bounds.
LEMMA ControlStep ==
  ASSUME DaemonTypeOK, BatchPlace, DaemonNext
  PROVE  /\ running' \in BOOLEAN /\ failed' \in BOOLEAN
         /\ stage' \in {"check", "usage", "wait", "read", "fetch", "write",
                        "ended"}
         /\ batch_size' \in 1 .. (3 * MaxRecords) \div 2
         /\ MinBatch <= batch_size'
  <1> USE DEF daemonVars, loopVars, diskVars
  <1>0. /\ running \in BOOLEAN /\ failed \in BOOLEAN
        /\ stage \in {"check", "usage", "wait", "read", "fetch", "write",
                      "ended"}
        /\ batch_size \in 1 .. (3 * MaxRecords) \div 2
        /\ MinBatch <= batch_size
    BY DEF DaemonTypeOK, BatchPlace
  <1>1. CASE TakeUsage
    <2>1. /\ UNCHANGED <<running, failed>> /\ stage' \in {"read", "wait"}
          /\ batch_size' = IF AdaptedSize = 0 THEN 1 ELSE AdaptedSize
      BY <1>1 DEF TakeUsage
    <2>2. (3 * MaxRecords) \div 2 \in Nat BY DaemonAssumption
    <2>3. batch_size' \in 1 .. (3 * MaxRecords) \div 2
      BY <2>1, <2>2, SizeBounds
    <2>4. MinBatch <= batch_size' BY <2>1, SizeBounds
    <2> QED BY <1>0, <2>1, <2>3, <2>4
  <1>2. CASE StopFlushDaemon BY <1>0, <1>2 DEF StopFlushDaemon
  <1>3. CASE LoadRunning BY <1>0, <1>3 DEF LoadRunning
  <1>4. CASE DaemonWait \/ NothingToFlush
    BY <1>0, <1>4 DEF DaemonWait, NothingToFlush
  <1>5. CASE FetchBegin \/ FetchStep \/ FetchEnd
    BY <1>0, <1>5 DEF FetchBegin, FetchStep, FetchEnd
  <1>6. CASE WriteToDisk \/ DiskError \/ BatchDone
    BY <1>0, <1>6 DEF WriteToDisk, DiskError, BatchDone, AfterError
  <1>7. CASE ProducersNext BY <1>0, <1>7 DEF ProducersNext
  <1> QED BY <1>1, <1>2, <1>3, <1>4, <1>5, <1>6, <1>7 DEF DaemonNext, Daemon

\* The record about to be written.
LEMMA NextRecord ==
  ASSUME RInv, DaemonTypeOK, FetchCount, stage = "write", MoreToWrite
  PROVE  /\ next \in Nat /\ 1 <= next /\ taken + next <= Len(delivered)
         /\ next <= Capacity
         /\ Fetched[next] = delivered[taken + next]
         /\ Fetched[next] \in Records
  <1>1. /\ Len(delivered) \in Nat /\ taken \in Nat /\ taken <= Len(delivered)
        /\ Fetched \in Seq(Records) /\ Len(Fetched) = Len(delivered) - taken
        /\ \A n \in 1 .. Len(delivered) - taken :
              Fetched[n] = delivered[taken + n]
    BY FetchedFacts
  <1>2. next \in Nat /\ 1 <= next /\ Capacity \in Nat
    BY CapacityAssumption DEF DaemonTypeOK
  <1>3. next <= Len(Fetched) /\ Len(delivered) <= taken + Capacity
    BY DEF MoreToWrite, FetchCount
  <1>4. next \in 1 .. Len(Fetched) /\ next \in 1 .. Len(delivered) - taken
    BY <1>1, <1>2, <1>3
  <1> QED BY <1>1, <1>2, <1>3, <1>4

\* What was read stays, in its place.
Grows ==
    /\ Len(delivered) \in Nat /\ Len(delivered') \in Nat
    /\ Len(delivered) <= Len(delivered')
    /\ \A x \in 1 .. Len(delivered) : delivered'[x] = delivered[x]

\* Every step only appends to what was read.
LEMMA GrowsSteps ==
  ASSUME RInv, DaemonNext
  PROVE  Grows
  <1>1. delivered \in Seq(Records) BY DEF RInv, IInv, TypeOK, HistoryTypeOK
  <1>2. Len(delivered) \in Nat BY <1>1
  <1>3. CASE delivered' = delivered BY <1>2, <1>3 DEF Grows
  <1>4. CASE Returns
    <2>1. PICK r \in Records : delivered' = Append(delivered, r)
      BY <1>4 DEF Returns
    <2>2. /\ Len(delivered') = Len(delivered) + 1
          /\ \A x \in 1 .. Len(delivered) : delivered'[x] = delivered[x]
      BY <1>1, <2>1, AppendIndex
    <2> QED BY <1>2, <2>2 DEF Grows
  <1>5. CASE FetchEnd \/ WriteToDisk \/ DiskError \/ BatchDone
    BY <1>3, <1>5 DEF FetchEnd, WriteToDisk, DiskError, BatchDone, vars, history
  <1> QED BY <1>3, <1>4, <1>5, DiskSteps DEF Idles, Begins

\* Append stays in its type.
LEMMA AppendType ==
  ASSUME NEW S, NEW s \in Seq(S), NEW e \in S
  PROVE  Append(s, e) \in Seq(S)
  OBVIOUS

\* Every step keeps DaemonTypeOK and BatchPlace.
LEMMA DaemonTypeStep ==
  ASSUME RInv, DaemonTypeOK, FetchCount, BatchPlace, DaemonNext
  PROVE  DaemonTypeOK' /\ BatchPlace'
  <1>0. /\ taken \in Nat /\ taken <= Len(delivered) /\ Len(delivered) \in Nat
        /\ next \in 1 .. Capacity + 1 /\ Capacity \in Nat
        /\ disk \in Seq(Records) /\ batches \in Seq(Seq(Records))
    BY FetchedFacts, CapacityAssumption DEF DaemonTypeOK
  <1> DEFINE Typed == /\ taken' \in 0 .. Len(delivered')
                      /\ next' \in 1 .. Capacity + 1
                      /\ disk' \in Seq(Records)
                      /\ batches' \in Seq(Seq(Records))
                      /\ stage' = "write" =>
                            taken' + next' <= Len(delivered') + 1
  <1>1. ASSUME Idles PROVE Typed BY <1>0, <1>1 DEF Idles, BatchPlace
  <1>2. ASSUME Returns PROVE Typed
    BY <1>0, <1>2, GrowsSteps DEF Returns, Grows
  <1>3. ASSUME Begins PROVE Typed BY <1>0, <1>3 DEF Begins
  <1>4. ASSUME FetchEnd PROVE Typed
    <2>1. /\ next' = 1 /\ UNCHANGED <<taken, disk, delivered>>
          /\ \/ batches' = batches \/ batches' = Append(batches, Fetched)
      BY <1>4 DEF FetchEnd, vars, history
    <2>2. Fetched \in Seq(Records) BY FetchedFacts
    <2>3. batches' \in Seq(Seq(Records)) BY <1>0, <2>1, <2>2, AppendType
    <2> QED BY <1>0, <2>1, <2>3
  <1>5. ASSUME WriteToDisk PROVE Typed
    <2>1. /\ next' = next + 1 /\ UNCHANGED <<taken, batches, delivered>>
          /\ disk' = Append(disk, Fetched[next])
      BY <1>5 DEF WriteToDisk, vars, history
    <2>2. /\ next <= Capacity /\ taken + next <= Len(delivered)
          /\ Fetched[next] \in Records
      BY <1>5, NextRecord DEF WriteToDisk
    <2>3. disk' \in Seq(Records) BY <1>0, <2>1, <2>2, AppendType
    <2> QED BY <1>0, <2>1, <2>2, <2>3
  <1>6. ASSUME DiskError PROVE Typed
    <2>1. /\ stage' = "check" /\ UNCHANGED <<next, taken, batches, delivered>>
          /\ disk' \in {disk, Append(disk, Fetched[next])}
      BY <1>6 DEF DiskError, AfterError, vars, history
    <2>2. Fetched[next] \in Records BY <1>6, NextRecord DEF DiskError
    <2>3. Append(disk, Fetched[next]) \in Seq(Records)
      BY <1>0, <2>2, AppendType
    <2>4. disk' \in Seq(Records) BY <1>0, <2>1, <2>3
    <2> QED BY <1>0, <2>1, <2>4
  <1>7. ASSUME BatchDone PROVE Typed
    BY <1>0, <1>7 DEF BatchDone, diskVars, vars, history
  <1>8. Typed BY <1>1, <1>2, <1>3, <1>4, <1>5, <1>6, <1>7, DiskSteps
  <1>9. /\ running' \in BOOLEAN /\ failed' \in BOOLEAN
        /\ stage' \in {"check", "usage", "wait", "read", "fetch", "write",
                       "ended"}
        /\ batch_size' \in 1 .. (3 * MaxRecords) \div 2
        /\ MinBatch <= batch_size'
    BY ControlStep
  <1>10. DaemonTypeOK' BY <1>8, <1>9 DEF DaemonTypeOK
  <1>11. BatchPlace' BY <1>8, <1>9 DEF BatchPlace
  <1> QED BY <1>10, <1>11

-----------------------------------------------------------------------------
(* What is on disk.                                                        *)

\* Neither mark goes back.
LEMMA MarksGrow ==
  ASSUME RInv, DaemonTypeOK, BatchPlace, FetchCount, DaemonNext
  PROVE  /\ Reached \in Nat /\ Reached <= Len(delivered)
         /\ Reached' \in Nat /\ Reached <= Reached'
         /\ Ended \in Nat /\ Ended <= Len(delivered)
         /\ Ended' \in Nat /\ Ended <= Ended'
  <1>0. /\ taken \in Nat /\ taken <= Len(delivered) /\ Len(delivered) \in Nat
        /\ next \in Nat /\ 1 <= next
        /\ stage = "write" => taken + next <= Len(delivered) + 1
    BY FetchedFacts, CapacityAssumption DEF DaemonTypeOK, BatchPlace
  <1>1. /\ Reached \in Nat /\ Reached <= Len(delivered)
        /\ Ended \in Nat /\ Ended <= Len(delivered)
    BY <1>0 DEF Reached, Ended
  <1> DEFINE Grown == /\ Reached' \in Nat /\ Reached <= Reached'
                      /\ Ended' \in Nat /\ Ended <= Ended'
  <1>2. ASSUME Idles PROVE Grown BY <1>0, <1>2 DEF Idles, Reached, Ended
  <1>3. ASSUME Returns PROVE Grown BY <1>0, <1>3 DEF Returns, Reached, Ended
  <1>4. ASSUME Begins PROVE Grown BY <1>0, <1>4 DEF Begins, Reached, Ended
  <1>5. ASSUME FetchEnd PROVE Grown
    BY <1>0, <1>5 DEF FetchEnd, vars, history, Reached, Ended
  <1>6. ASSUME WriteToDisk PROVE Grown
    BY <1>0, <1>6 DEF WriteToDisk, vars, history, Reached, Ended
  <1>7. ASSUME DiskError PROVE Grown
    BY <1>0, <1>7 DEF DiskError, AfterError, vars, history, Reached, Ended
  <1>8. ASSUME BatchDone PROVE Grown
    BY <1>0, <1>8 DEF BatchDone, vars, history, Reached, Ended
  <1>9. Grown BY <1>2, <1>3, <1>4, <1>5, <1>6, <1>7, <1>8, DiskSteps
  <1> QED BY <1>1, <1>9

\* The next record of the batch goes to the disk.
Puts ==
    /\ stage = "write" /\ Reached = taken + next - 1
    /\ taken + next \in 1 .. Len(delivered) /\ taken + next <= Reached'
    /\ next \in Nat /\ 1 <= next
    /\ UNCHANGED <<batches, delivered, taken>>
    /\ Len(disk') = Len(disk) + 1
    /\ disk'[Len(disk) + 1] = delivered[taken + next]
    /\ \A i \in 1 .. Len(disk) : disk'[i] = disk[i]

\* Every step leaves the disk alone, or does that.
LEMMA PutSteps ==
  ASSUME RInv, DaemonTypeOK, BatchPlace, FetchCount, DaemonNext
  PROVE  disk' = disk \/ Puts
  <1>0. disk \in Seq(Records) /\ taken \in Nat /\ Len(delivered) \in Nat
    BY FetchedFacts DEF DaemonTypeOK
  <1>1. ASSUME stage = "write", MoreToWrite,
               disk' = Append(disk, Fetched[next]),
               UNCHANGED <<batches, delivered, taken>>,
               Reached' \in {taken + next, Len(delivered)}
        PROVE  Puts
    <2>1. /\ next \in Nat /\ 1 <= next /\ taken + next <= Len(delivered)
          /\ Fetched[next] = delivered[taken + next]
          /\ Fetched[next] \in Records
      BY <1>1, NextRecord
    <2>2. /\ Len(disk') = Len(disk) + 1
          /\ disk'[Len(disk) + 1] = Fetched[next]
          /\ \A i \in 1 .. Len(disk) : disk'[i] = disk[i]
      BY <1>0, <1>1, <2>1, AppendIndex
    <2>3. Reached = taken + next - 1 BY <1>1 DEF Reached
    <2>4. taken + next \in 1 .. Len(delivered) /\ taken + next <= Reached'
      BY <1>0, <1>1, <2>1
    <2> QED BY <1>1, <2>1, <2>2, <2>3, <2>4 DEF Puts
  <1>2. CASE WriteToDisk
    <2>1. next \in Nat /\ taken \in Nat BY <1>0 DEF DaemonTypeOK
    <2>2. Reached' = taken' + next' - 1 /\ next' = next + 1 /\ taken' = taken
      BY <1>2 DEF WriteToDisk, Reached
    <2>3. Reached' = taken + next BY <2>1, <2>2
    <2> QED BY <1>1, <1>2, <2>3 DEF WriteToDisk, vars, history
  <1>3. CASE DiskError
    <2>1. Reached' = Len(delivered)
      BY <1>3 DEF DiskError, AfterError, Reached, vars, history
    <2> QED BY <1>1, <1>3, <2>1 DEF DiskError, vars, history
  <1>4. CASE FetchEnd \/ BatchDone BY <1>4 DEF FetchEnd, BatchDone, diskVars
  <1> QED BY <1>2, <1>3, <1>4, DiskSteps DEF Idles, Returns, Begins

\* A record that was read is at one place of what was read.
LEMMA OneIndex ==
  ASSUME RInv, NEW x \in 1 .. Len(delivered), NEW y \in 1 .. Len(delivered),
         delivered[x] = delivered[y]
  PROVE  x = y
  BY DEF RInv, PlaceInv, OnePlace, AtMostOnce

\* Every step keeps DiskRead.
LEMMA DiskReadStep ==
  ASSUME RInv, DaemonTypeOK, BatchPlace, FetchCount, DiskRead, DaemonNext
  PROVE  DiskRead'
  <1>1. /\ Reached \in Nat /\ Reached <= Len(delivered)
        /\ Reached' \in Nat /\ Reached <= Reached' /\ Grows
    BY MarksGrow, GrowsSteps
  <1>2. ASSUME NEW i \in 1 .. Len(disk)
        PROVE  \E x \in 1 .. Reached' : disk[i] = delivered'[x]
    <2>1. PICK x \in 1 .. Reached : disk[i] = delivered[x] BY DEF DiskRead
    <2>2. x \in 1 .. Reached' /\ x \in 1 .. Len(delivered)
      BY <1>1, <2>1 DEF Grows
    <2> QED BY <1>1, <2>1, <2>2 DEF Grows
  <1>3. CASE disk' = disk BY <1>2, <1>3 DEF DiskRead
  <1>4. CASE Puts
    <2> SUFFICES ASSUME NEW i \in 1 .. Len(disk')
                 PROVE  \E x \in 1 .. Reached' : disk'[i] = delivered'[x]
      BY DEF DiskRead
    <2>1. Len(disk) \in Nat BY DEF DaemonTypeOK
    <2>2. CASE i \in 1 .. Len(disk) BY <1>2, <1>4, <2>2 DEF Puts
    <2>3. CASE i = Len(disk) + 1
      <3>1. taken + next \in 1 .. Reached' BY <1>1, <1>4 DEF Puts
      <3> QED BY <1>4, <2>3, <3>1 DEF Puts
    <2> QED BY <1>4, <2>1, <2>2, <2>3 DEF Puts
  <1> QED BY <1>3, <1>4, PutSteps

\* Every step keeps DiskOrdered.
LEMMA DiskOrderedStep ==
  ASSUME RInv, RInv', DaemonTypeOK, BatchPlace, FetchCount, DiskRead,
         DiskOrdered, DaemonNext
  PROVE  DiskOrdered'
  <1>0. /\ Reached \in Nat /\ Reached <= Len(delivered) /\ Grows
        /\ Len(disk) \in Nat
    BY MarksGrow, GrowsSteps DEF DaemonTypeOK
  <1>1. \A x, y \in 1 .. Len(delivered') :
           delivered'[x] = delivered'[y] => x = y
    BY DEF RInv, PlaceInv, OnePlace, AtMostOnce
  <1>2. ASSUME NEW i \in 1 .. Len(disk), NEW x \in 1 .. Len(delivered'),
               disk[i] = delivered'[x]
        PROVE  x \in 1 .. Reached /\ disk[i] = delivered[x]
    <2>1. PICK y \in 1 .. Reached : disk[i] = delivered[y] BY DEF DiskRead
    <2>2. y \in 1 .. Len(delivered) /\ y \in 1 .. Len(delivered')
      BY <1>0, <2>1 DEF Grows
    <2>3. delivered'[y] = delivered'[x] BY <1>0, <1>2, <2>1, <2>2 DEF Grows
    <2>4. x = y BY <1>1, <2>2, <2>3
    <2> QED BY <2>1, <2>4
  <1>3. ASSUME NEW i \in 1 .. Len(disk), NEW j \in 1 .. Len(disk),
               NEW x \in 1 .. Len(delivered'), NEW y \in 1 .. Len(delivered'),
               i < j, disk[i] = delivered'[x], disk[j] = delivered'[y]
        PROVE  x < y
    <2>1. /\ x \in 1 .. Reached /\ disk[i] = delivered[x]
          /\ y \in 1 .. Reached /\ disk[j] = delivered[y]
      BY <1>2, <1>3
    <2>2. x \in 1 .. Len(delivered) /\ y \in 1 .. Len(delivered)
      BY <1>0, <2>1 DEF Grows
    <2> QED BY <1>3, <2>1, <2>2 DEF DiskOrdered
  <1>4. CASE disk' = disk BY <1>3, <1>4 DEF DiskOrdered
  <1>5. CASE Puts
    <2> SUFFICES ASSUME NEW i \in 1 .. Len(disk'), NEW j \in 1 .. Len(disk'),
                        NEW x \in 1 .. Len(delivered'),
                        NEW y \in 1 .. Len(delivered'),
                        i < j,
                        disk'[i] = delivered'[x], disk'[j] = delivered'[y]
                 PROVE  x < y
      BY DEF DiskOrdered
    <2>0. Len(disk') = Len(disk) + 1 BY <1>5 DEF Puts
    <2>1. i \in 1 .. Len(disk) /\ (j \in 1 .. Len(disk) \/ j = Len(disk) + 1)
      BY <1>0, <2>0
    <2>2. CASE j \in 1 .. Len(disk) BY <1>3, <1>5, <2>1, <2>2 DEF Puts
    <2>3. CASE j = Len(disk) + 1
      <3>1. taken + next \in 1 .. Len(delivered')
              /\ delivered'[y] = delivered'[taken + next]
        BY <1>5, <2>3 DEF Puts
      <3>2. y = taken + next BY <1>1, <3>1
      <3>3. x \in 1 .. Reached BY <1>2, <1>5, <2>1 DEF Puts
      <3>4. Reached = taken + next - 1 BY <1>5 DEF Puts
      <3>5. PICK z \in Nat : z = y BY <1>0 DEF Grows
      <3>6. taken \in Nat /\ next \in Nat BY <1>5, FetchedFacts DEF Puts
      <3>7. x < z BY <1>0, <3>2, <3>3, <3>4, <3>5, <3>6
      <3> QED BY <3>5, <3>7
    <2> QED BY <2>1, <2>2, <2>3
  <1> QED BY <1>4, <1>5, PutSteps

-----------------------------------------------------------------------------
(* Batches.                                                                *)

\* A step that completes no batch.
SameBatches == batches' = batches

\* A step that completes one.
Completes ==
    /\ stage = "fetch" /\ stage' = "write"
    /\ taken < Len(delivered) /\ next' = 1
    /\ UNCHANGED <<disk, delivered, taken>>
    /\ Len(batches') = Len(batches) + 1
    /\ \A k \in 1 .. Len(batches) : batches'[k] = batches[k]
    /\ Len(batches'[Len(batches) + 1]) = Len(delivered) - taken
    /\ \A n \in 1 .. Len(delivered) - taken :
          batches'[Len(batches) + 1][n] = delivered[taken + n]

\* Every step is one or the other.
LEMMA BatchSteps ==
  ASSUME RInv, DaemonTypeOK, DaemonNext
  PROVE  SameBatches \/ Completes
  <1>1. CASE FetchEnd
    <2>1. CASE Fetched # <<>>
      <3>1. PICK f : f = Fetched OBVIOUS
      <3>2. /\ f \in Seq(Records) /\ Len(f) = Len(delivered) - taken
            /\ \A n \in 1 .. Len(delivered) - taken :
                  f[n] = delivered[taken + n]
            /\ taken < Len(delivered)
        BY <2>1, <3>1, FetchedFacts
      <3>3. /\ stage = "fetch" /\ stage' = "write" /\ next' = 1
            /\ UNCHANGED <<disk, delivered, taken>>
            /\ batches' = Append(batches, f)
        BY <1>1, <2>1, <3>1 DEF FetchEnd, vars, history
      <3>4. batches \in Seq(Seq(Records)) BY DEF DaemonTypeOK
      <3>5. /\ Len(batches') = Len(batches) + 1
            /\ batches'[Len(batches) + 1] = f
            /\ \A k \in 1 .. Len(batches) : batches'[k] = batches[k]
        BY <3>2, <3>3, <3>4, AppendIndex
      <3> QED BY <3>2, <3>3, <3>5 DEF Completes
    <2>2. CASE Fetched = <<>> BY <1>1, <2>2 DEF FetchEnd, SameBatches
    <2> QED BY <2>1, <2>2
  <1>2. CASE WriteToDisk \/ DiskError \/ BatchDone
    BY <1>2 DEF WriteToDisk, DiskError, BatchDone, diskVars, SameBatches
  <1> QED BY <1>1, <1>2, DiskSteps DEF Idles, Returns, Begins, SameBatches

\* Every step keeps BatchRead.
LEMMA BatchReadStep ==
  ASSUME RInv, DaemonTypeOK, BatchPlace, FetchCount, BatchRead, DaemonNext
  PROVE  BatchRead'
  <1>0. /\ Ended \in Nat /\ Ended <= Len(delivered) /\ Ended' \in Nat
        /\ Ended <= Ended' /\ Grows /\ Len(batches) \in Nat
        /\ taken \in Nat /\ Len(delivered) \in Nat
    BY MarksGrow, GrowsSteps, FetchedFacts DEF DaemonTypeOK
  <1>1. ASSUME NEW k \in 1 .. Len(batches)
        PROVE  \E s \in 0 .. Len(delivered') :
                 /\ s + Len(batches[k]) <= Ended'
                 /\ \A n \in 1 .. Len(batches[k]) :
                       batches[k][n] = delivered'[s + n]
    <2>1. PICK s \in 0 .. Len(delivered) :
             /\ s + Len(batches[k]) <= Ended
             /\ \A n \in 1 .. Len(batches[k]) : batches[k][n] = delivered[s + n]
      BY DEF BatchRead
    <2>2. Len(batches[k]) \in Nat BY DEF DaemonTypeOK
    <2>3. \A n \in 1 .. Len(batches[k]) : s + n \in 1 .. Len(delivered)
      BY <1>0, <2>1, <2>2
    <2>4. \A n \in 1 .. Len(batches[k]) : batches[k][n] = delivered'[s + n]
      BY <1>0, <2>1, <2>3 DEF Grows
    <2>5. s \in 0 .. Len(delivered') /\ s + Len(batches[k]) <= Ended'
      BY <1>0, <2>1, <2>2 DEF Grows
    <2> QED BY <2>4, <2>5
  <1>2. CASE SameBatches BY <1>1, <1>2 DEF SameBatches, BatchRead
  <1>3. CASE Completes
    <2> SUFFICES ASSUME NEW k \in 1 .. Len(batches')
                 PROVE  \E s \in 0 .. Len(delivered') :
                          /\ s + Len(batches'[k]) <= Ended'
                          /\ \A n \in 1 .. Len(batches'[k]) :
                                batches'[k][n] = delivered'[s + n]
      BY DEF BatchRead
    <2>1. CASE k \in 1 .. Len(batches)
      <3>1. batches'[k] = batches[k] BY <1>3, <2>1 DEF Completes
      <3> QED BY <1>1, <2>1, <3>1
    <2>2. CASE k = Len(batches) + 1
      <3>1. Ended' = Len(delivered) BY <1>3 DEF Completes, Ended
      <3>2. /\ taken \in 0 .. Len(delivered')
            /\ taken + Len(batches'[k]) <= Ended'
        BY <1>0, <1>3, <2>2, <3>1 DEF Completes
      <3>3. \A n \in 1 .. Len(batches'[k]) :
               batches'[k][n] = delivered'[taken + n]
        BY <1>3, <2>2 DEF Completes
      <3> QED BY <3>2, <3>3
    <2>3. Len(batches') = Len(batches) + 1 BY <1>3 DEF Completes
    <2> QED BY <1>0, <2>1, <2>2, <2>3
  <1> QED BY <1>2, <1>3, BatchSteps

\* The records of a batch are no later than its end.
LEMMA BatchIndex ==
  ASSUME RInv, DaemonTypeOK, BatchRead, Ended \in Nat, Ended <= Len(delivered),
         NEW k \in 1 .. Len(batches), NEW n \in 1 .. Len(batches[k])
  PROVE  \E y \in 1 .. Ended : batches[k][n] = delivered[y]
  <1>1. PICK s \in 0 .. Len(delivered) :
           /\ s + Len(batches[k]) <= Ended
           /\ \A m \in 1 .. Len(batches[k]) : batches[k][m] = delivered[s + m]
    BY DEF BatchRead
  <1>2. Len(batches[k]) \in Nat BY DEF DaemonTypeOK
  <1>3. s + n \in 1 .. Ended BY <1>1, <1>2
  <1> QED BY <1>1, <1>3

\* Every step keeps BatchOrdered.
LEMMA BatchOrderedStep ==
  ASSUME RInv, RInv', DaemonTypeOK, BatchPlace, FetchCount, BatchRead,
         BatchOrdered, DaemonNext
  PROVE  BatchOrdered'
  <1>0. /\ Ended \in Nat /\ Ended <= Len(delivered) /\ Grows
        /\ Len(batches) \in Nat /\ taken \in Nat
    BY MarksGrow, GrowsSteps, FetchedFacts DEF DaemonTypeOK
  <1>1. \A x, y \in 1 .. Len(delivered') :
           delivered'[x] = delivered'[y] => x = y
    BY DEF RInv, PlaceInv, OnePlace, AtMostOnce
  <1>2. ASSUME NEW k \in 1 .. Len(batches), NEW n \in 1 .. Len(batches[k]),
               NEW x \in 1 .. Len(delivered'), batches[k][n] = delivered'[x]
        PROVE  x \in 1 .. Ended /\ batches[k][n] = delivered[x]
    <2>1. PICK y \in 1 .. Ended : batches[k][n] = delivered[y]
      BY <1>0, BatchIndex
    <2>2. y \in 1 .. Len(delivered) /\ y \in 1 .. Len(delivered')
      BY <1>0, <2>1 DEF Grows
    <2>3. delivered'[y] = delivered'[x] BY <1>0, <1>2, <2>1, <2>2 DEF Grows
    <2>4. x = y BY <1>1, <2>2, <2>3
    <2> QED BY <2>1, <2>4
  <1>3. ASSUME NEW k \in 1 .. Len(batches), NEW l \in 1 .. Len(batches),
               NEW x \in 1 .. Len(delivered'), NEW y \in 1 .. Len(delivered'),
               k < l,
               NEW n \in 1 .. Len(batches[k]), batches[k][n] = delivered'[x],
               NEW m \in 1 .. Len(batches[l]), batches[l][m] = delivered'[y]
        PROVE  x < y
    <2>1. /\ x \in 1 .. Ended /\ batches[k][n] = delivered[x]
          /\ y \in 1 .. Ended /\ batches[l][m] = delivered[y]
      BY <1>2, <1>3
    <2>2. x \in 1 .. Len(delivered) /\ y \in 1 .. Len(delivered)
      BY <1>0, <2>1, SMTT(30) DEF Grows
    <2> QED BY <1>3, <2>1, <2>2 DEF BatchOrdered
  <1> SUFFICES ASSUME NEW k \in 1 .. Len(batches'),
                      NEW l \in 1 .. Len(batches'),
                      NEW x \in 1 .. Len(delivered'),
                      NEW y \in 1 .. Len(delivered'), k < l,
                      NEW n \in 1 .. Len(batches'[k]),
                      batches'[k][n] = delivered'[x],
                      NEW m \in 1 .. Len(batches'[l]),
                      batches'[l][m] = delivered'[y]
               PROVE  x < y
    BY DEF BatchOrdered
  <1>4. CASE SameBatches BY <1>3, <1>4 DEF SameBatches
  <1>5. CASE Completes
    <2>0. Len(batches') = Len(batches) + 1 BY <1>5 DEF Completes
    <2>1. /\ k \in 1 .. Len(batches)
          /\ l \in 1 .. Len(batches) \/ l = Len(batches) + 1
      <3>1. Len(batches) \in Nat BY DEF DaemonTypeOK
      <3> QED BY <2>0, <3>1, SMTT(30)
    <2>2. batches'[k] = batches[k] BY <1>5, <2>1 DEF Completes
    <2>3. CASE l \in 1 .. Len(batches)
      <3>1. batches'[l] = batches[l] BY <1>5, <2>3 DEF Completes
      <3> QED BY <1>3, <2>1, <2>2, <2>3, <3>1
    <2>4. CASE l = Len(batches) + 1
      <3>1. Ended = taken /\ UNCHANGED delivered BY <1>5 DEF Completes, Ended
      <3>2. x \in 1 .. taken BY <1>2, <2>1, <2>2, <3>1
      <3>3. /\ m \in 1 .. Len(delivered) - taken
            /\ delivered[taken + m] = delivered[y]
        BY <1>5, <2>4, <3>1 DEF Completes
      <3>4. taken + m \in 1 .. Len(delivered) BY <1>0, <3>3 DEF Grows
      <3>5. y = taken + m BY <1>1, <3>1, <3>3, <3>4
      <3> QED BY <1>0, <3>2, <3>3, <3>5
    <2> QED BY <2>1, <2>3, <2>4
  <1> QED BY <1>4, <1>5, BatchSteps

\* Every step keeps CurrentWritten.
LEMMA CurrentStep ==
  ASSUME RInv, DaemonTypeOK, BatchPlace, FetchCount, CurrentWritten, DaemonNext
  PROVE  CurrentWritten'
  <1> SUFFICES ASSUME stage' = "write" PROVE CurrentWritten'
    BY DEF CurrentWritten
  <1>0. /\ Len(batches) \in Nat /\ next \in Nat /\ Len(disk) \in Nat
        /\ taken \in Nat
    BY FetchedFacts DEF DaemonTypeOK
  <1>1. CASE Idles BY <1>1 DEF Idles, CurrentWritten
  <1>2. CASE Returns \/ Begins BY <1>2 DEF Returns, Begins
  <1>3. CASE FetchEnd
    <2>1. CASE SameBatches
      <3>1. batches' = Append(batches, Fetched) BY <1>3 DEF FetchEnd
      <3>2. batches \in Seq(Seq(Records)) /\ Fetched \in Seq(Records)
        BY FetchedFacts DEF DaemonTypeOK
      <3>3. Len(batches') = Len(batches) + 1 BY <3>1, <3>2, AppendIndex
      <3> QED BY <1>0, <2>1, <3>3 DEF SameBatches
    <2>2. CASE Completes
      <3>1. Len(batches') > 0 /\ Len(batches') = Len(batches) + 1
        BY <1>0, <2>2 DEF Completes
      <3>2. 1 .. next' - 1 = {} BY <2>2 DEF Completes
      <3> QED BY <2>2, <3>1, <3>2 DEF Completes, CurrentWritten
    <2> QED BY <2>1, <2>2, BatchSteps
  <1>4. CASE WriteToDisk
    <2>1. /\ stage = "write" /\ next' = next + 1
          /\ UNCHANGED <<batches, delivered, taken>>
          /\ disk' = Append(disk, Fetched[next]) /\ MoreToWrite
      BY <1>4 DEF WriteToDisk, vars, history
    <2>2. /\ Len(batches) > 0
          /\ Len(batches[Len(batches)]) = Len(delivered) - taken
          /\ \A n \in 1 .. Len(delivered) - taken :
                batches[Len(batches)][n] = delivered[taken + n]
          /\ \A n \in 1 .. next - 1 :
                \E h \in 1 .. Len(disk) : disk[h] = delivered[taken + n]
      BY <2>1 DEF CurrentWritten
    <2>3. /\ Len(disk') = Len(disk) + 1
          /\ disk'[Len(disk) + 1] = delivered[taken + next]
          /\ \A i \in 1 .. Len(disk) : disk'[i] = disk[i]
      <3>1. disk \in Seq(Records) BY DEF DaemonTypeOK
      <3>2. /\ Fetched[next] \in Records
            /\ Fetched[next] = delivered[taken + next]
        BY <2>1, NextRecord
      <3> QED BY <2>1, <3>1, <3>2, AppendIndex
    <2>4. ASSUME NEW n \in 1 .. next
          PROVE  \E h \in 1 .. Len(disk') : disk'[h] = delivered[taken + n]
      <3>1. CASE n = next
        <4>1. Len(disk) + 1 \in 1 .. Len(disk') BY <1>0, <2>3
        <4> QED BY <2>3, <3>1, <4>1
      <3>2. CASE n # next
        <4>1. n \in 1 .. next - 1 BY <1>0, <3>2
        <4>2. PICK h \in 1 .. Len(disk) : disk[h] = delivered[taken + n]
          BY <2>2, <4>1
        <4>3. h \in 1 .. Len(disk') BY <1>0, <2>3
        <4> QED BY <2>3, <4>2, <4>3
      <3> QED BY <3>1, <3>2
    <2>5. next' - 1 = next BY <1>0, <2>1
    <2> QED BY <2>1, <2>2, <2>4, <2>5 DEF CurrentWritten
  <1>5. CASE DiskError \/ BatchDone BY <1>5 DEF DiskError, AfterError, BatchDone
  <1> QED BY <1>1, <1>2, <1>3, <1>4, <1>5, DiskSteps

-----------------------------------------------------------------------------
(* No hole inside a batch, and no loss without an error.                   *)

\* Every step keeps NoHoles: what is written next has all of its batch before
\* it on disk.
LEMMA NoHolesStep ==
  ASSUME RInv, RInv', DaemonTypeOK, BatchPlace, FetchCount, DiskRead, NoHoles,
         BatchOrdered, CurrentWritten, DaemonNext
  PROVE  NoHoles'
  <1>0. Len(batches) \in Nat /\ Len(disk) \in Nat BY DEF DaemonTypeOK
  <1> SUFFICES ASSUME NEW i \in 1 .. Len(disk'), NEW k \in 1 .. Len(batches'),
                      NEW n \in 1 .. Len(batches'[k]),
                      disk'[i] = batches'[k][n], NEW m \in 1 .. n - 1
               PROVE  \E h \in 1 .. i - 1 : disk'[h] = batches'[k][m]
    BY DEF NoHoles, HasEarlier
  <1> PICK b : b = batches'[k] OBVIOUS
  <1> SUFFICES \E h \in 1 .. i - 1 : disk'[h] = b[m] OBVIOUS
  <1> n \in 1 .. Len(b) /\ disk'[i] = b[n] OBVIOUS
  <1>1. ASSUME i \in 1 .. Len(disk), disk[i] = b[n], k \in 1 .. Len(batches),
               b = batches[k]
        PROVE  \E h \in 1 .. i - 1 : disk[h] = b[m]
    BY <1>1, ZenonT(30) DEF NoHoles, HasEarlier
  <1>2. CASE disk' = disk /\ SameBatches BY <1>1, <1>2 DEF SameBatches
  <1>3. CASE disk' = disk /\ Completes
    <2>0. Len(batches') = Len(batches) + 1 BY <1>3 DEF Completes
    <2>1. CASE k \in 1 .. Len(batches)
      <3>1. b = batches[k] BY <1>3, <2>1 DEF Completes
      <3> QED BY <1>1, <1>3, <2>1, <3>1
    <2>2. CASE k = Len(batches) + 1
      <3>1. /\ n \in 1 .. Len(delivered) - taken /\ b[n] = delivered[taken + n]
            /\ stage = "fetch"
        BY <1>3, <2>2 DEF Completes
      <3>2. PICK x \in 1 .. taken : disk[i] = delivered[x]
        BY <1>3, <3>1 DEF DiskRead, Reached
      <3>3. taken \in Nat /\ Len(delivered) \in Nat /\ taken <= Len(delivered)
        BY FetchedFacts
      <3>4. x \in 1 .. Len(delivered) /\ taken + n \in 1 .. Len(delivered)
        BY <3>1, <3>3, SMTT(30)
      <3>5. x = taken + n BY <1>3, <3>1, <3>2, <3>4, OneIndex
      <3> QED BY <3>1, <3>2, <3>3, <3>5
    <2> QED BY <1>0, <2>0, <2>1, <2>2
  <1>4. CASE Puts
    <2>0. b = batches[k] /\ k \in 1 .. Len(batches) BY <1>4 DEF Puts
    <2>1. i \in 1 .. Len(disk) \/ i = Len(disk) + 1
      <3>1. Len(disk') = Len(disk) + 1 BY <1>4 DEF Puts
      <3> QED BY <1>0, <3>1
    <2>2. CASE i \in 1 .. Len(disk)
      <3>1. PICK h \in 1 .. i - 1 : disk[h] = b[m]
        BY <1>1, <1>4, <2>0, <2>2 DEF Puts
      <3>2. h \in 1 .. Len(disk) BY <1>0, <2>2
      <3> QED BY <1>4, <3>1, <3>2 DEF Puts
    <2>3. CASE i = Len(disk) + 1
      <3>1. /\ stage = "write" /\ taken + next \in 1 .. Len(delivered)
            /\ delivered[taken + next] = b[n] /\ next \in Nat /\ 1 <= next
        BY <1>4, <2>3 DEF Puts
      <3>2. PICK c : c = batches[Len(batches)] OBVIOUS
      <3>3. /\ Len(batches) \in 1 .. Len(batches)
            /\ Len(c) = Len(delivered) - taken
            /\ \A a \in 1 .. Len(delivered) - taken :
                  c[a] = delivered[taken + a]
            /\ \A a \in 1 .. next - 1 :
                  \E h \in 1 .. Len(disk) : disk[h] = delivered[taken + a]
        BY <1>0, <3>1, <3>2 DEF CurrentWritten
      <3>4. taken \in Nat /\ Len(delivered) \in Nat BY FetchedFacts
      <3>5. next \in 1 .. Len(c) /\ c[next] = delivered[taken + next]
        <4>1. next \in 1 .. Len(delivered) - taken BY <3>1, <3>4
        <4> QED BY <3>3, <4>1
      <3>6. k = Len(batches)
        <4> SUFFICES ASSUME k < Len(batches) PROVE FALSE BY <1>0, <2>0
        <4>1. taken + next < taken + next
          BY <2>0, <3>1, <3>2, <3>3, <3>5 DEF BatchOrdered
        <4> QED BY <3>1, <3>4, <4>1
      <3>7. n \in 1 .. Len(delivered) - taken /\ b[n] = delivered[taken + n]
        BY <2>0, <3>2, <3>3, <3>6
      <3>8. taken + n \in 1 .. Len(delivered)
        BY <3>4, <3>7, SMTT(30)
      <3>9. taken + n = taken + next BY <3>1, <3>7, <3>8, OneIndex
      <3>10. n = next BY <3>1, <3>4, <3>7, <3>9
      <3>11. PICK h \in 1 .. Len(disk) : disk[h] = delivered[taken + m]
        BY <3>3, <3>10
      <3>12. m \in 1 .. Len(delivered) - taken BY <3>4, <3>7
      <3>13. disk'[h] = b[m]
        BY <1>4, <2>0, <3>2, <3>3, <3>6, <3>11, <3>12 DEF Puts
      <3>14. h \in 1 .. i - 1 BY <1>0, <2>3
      <3> QED BY <3>13, <3>14
    <2> QED BY <2>1, <2>2, <2>3
  <1>5. disk' = disk \/ Puts BY PutSteps
  <1>6. SameBatches \/ Completes BY BatchSteps
  <1> QED BY <1>2, <1>3, <1>4, <1>5, <1>6

\* What is on disk, or was beyond the size, stays so.
LEMMA PlacesStay ==
  ASSUME RInv, DaemonTypeOK, FetchCount, BatchPlace, DaemonNext, NEW r,
         OnDisk(r) \/ BeyondSize(r)
  PROVE  OnDisk(r)' \/ BeyondSize(r)'
  <1>0. Len(disk) \in Nat /\ Len(batches) \in Nat BY DEF DaemonTypeOK
  <1>1. CASE OnDisk(r)
    <2>1. PICK h \in 1 .. Len(disk) : disk[h] = r BY <1>1 DEF OnDisk
    <2>2. CASE disk' = disk BY <2>1, <2>2 DEF OnDisk
    <2>3. CASE Puts
      <3>1. Len(disk') = Len(disk) + 1 /\ disk'[h] = disk[h] BY <2>3 DEF Puts
      <3>2. h \in 1 .. Len(disk') BY <1>0, <3>1
      <3> QED BY <2>1, <3>1, <3>2 DEF OnDisk
    <2> QED BY <2>2, <2>3, PutSteps
  <1>2. CASE BeyondSize(r)
    <2>1. PICK k \in 1 .. Len(batches) : \E n \in 1 .. Len(batches[k]) :
              n > MinBatch /\ batches[k][n] = r
      BY <1>2 DEF BeyondSize
    <2>2. CASE SameBatches BY <2>1, <2>2 DEF SameBatches, BeyondSize
    <2>3. CASE Completes
      <3>1. /\ Len(batches') = Len(batches) + 1
            /\ batches'[k] = batches[k]
        BY <2>3 DEF Completes
      <3>2. k \in 1 .. Len(batches') BY <1>0, <3>1
      <3> QED BY <2>1, <3>1, <3>2 DEF BeyondSize
    <2> QED BY <2>2, <2>3, BatchSteps
  <1> QED BY <1>1, <1>2

\* Every step keeps PassedWritten: when a batch ends without an error, what is
\* not on disk is beyond the batch size.
LEMMA PassedStep ==
  ASSUME RInv, DaemonTypeOK, FetchCount, BatchPlace, CurrentWritten,
         PassedWritten, DaemonNext
  PROVE  PassedWritten'
  <1> SUFFICES ASSUME ~failed',
                      NEW x \in 1 .. (IF stage' \in {"fetch", "write"}
                                      THEN taken' ELSE Len(delivered')),
                      NEW r, r = delivered'[x]
               PROVE  OnDisk(r)' \/ BeyondSize(r)'
    BY DEF PassedWritten
  <1>0. /\ taken \in Nat /\ Len(delivered) \in Nat /\ taken <= Len(delivered)
        /\ next \in Nat /\ batch_size \in Nat /\ MinBatch \in Nat
        /\ MinBatch <= batch_size /\ Len(batches) \in Nat
        /\ Len(Fetched) = Len(delivered) - taken
    BY FetchedFacts, SizeBounds DEF DaemonTypeOK, BatchPlace
  <1>1. ASSUME ~failed, delivered[x] = r,
               x \in 1 .. (IF stage \in {"fetch", "write"}
                           THEN taken ELSE Len(delivered))
        PROVE  OnDisk(r)' \/ BeyondSize(r)'
    BY <1>1, PlacesStay DEF PassedWritten
  <1>2. CASE Idles BY <1>1, <1>2 DEF Idles
  <1>3. CASE Returns
    <2>1. x \in 1 .. taken /\ ~failed /\ stage = "fetch"
      BY <1>3 DEF Returns
    <2>2. x \in 1 .. Len(delivered) BY <1>0, <2>1
    <2>3. delivered'[x] = delivered[x] BY <2>2, GrowsSteps DEF Grows
    <2> QED BY <1>1, <2>1, <2>3
  <1>4. CASE Begins BY <1>1, <1>4 DEF Begins
  <1>5. CASE FetchEnd
    <2>1. /\ stage = "fetch" /\ UNCHANGED <<delivered, failed, taken>>
          /\ \/ stage' = "write"
             \/ (stage' = "check" /\ Fetched = <<>>)
      BY <1>5 DEF FetchEnd, vars, history
    <2>2. Fetched = <<>> => taken = Len(delivered) BY FetchedFacts
    <2> QED BY <1>1, <2>1, <2>2
  <1>6. CASE WriteToDisk
    <2>1. /\ stage = "write" /\ stage' = "write"
          /\ UNCHANGED <<delivered, failed, taken>>
      BY <1>6 DEF WriteToDisk, vars, history
    <2> QED BY <1>1, <2>1
  <1>7. CASE DiskError BY <1>7 DEF DiskError
  <1>8. CASE BatchDone
    <2>1. /\ stage = "write" /\ stage' = "check" /\ ~MoreToWrite
          /\ UNCHANGED <<disk, batches, delivered, failed>>
      BY <1>8 DEF BatchDone, diskVars, vars, history
    <2>2. CASE x \in 1 .. taken BY <1>1, <2>1, <2>2
    <2>3. CASE x \notin 1 .. taken
      <3>1. x \in 1 .. Len(delivered) BY <2>1
      <3>2. PICK a \in Nat : a = x - taken /\ 1 <= a /\ x = taken + a
        BY <1>0, <2>3, <3>1
      <3>3. a \in 1 .. Len(delivered) - taken BY <1>0, <3>1, <3>2
      <3>4. CASE a < next
        <4>1. a \in 1 .. next - 1 BY <1>0, <3>2, <3>4
        <4>2. OnDisk(r) BY <2>1, <3>2, <4>1 DEF CurrentWritten, OnDisk
        <4> QED BY <4>2, PlacesStay
      <3>5. CASE ~(a < next)
        <4>1. next > batch_size
          BY <1>0, <2>1, <3>3, <3>5 DEF MoreToWrite
        <4>2. a > MinBatch BY <1>0, <3>5, <4>1
        <4>3. PICK k : k = Len(batches) OBVIOUS
        <4>4. /\ k \in 1 .. Len(batches)
              /\ Len(batches[k]) = Len(delivered) - taken
              /\ batches[k][a] = delivered[taken + a]
          BY <1>0, <2>1, <3>3, <4>3 DEF CurrentWritten
        <4>5. a \in 1 .. Len(batches[k]) /\ batches[k][a] = r
          BY <2>1, <3>2, <3>3, <4>4
        <4>6. BeyondSize(r) BY <4>2, <4>4, <4>5 DEF BeyondSize
        <4> QED BY <4>6, PlacesStay
      <3> QED BY <3>4, <3>5
    <2> QED BY <2>2, <2>3
  <1> QED BY <1>2, <1>3, <1>4, <1>5, <1>6, <1>7, <1>8, DiskSteps

-----------------------------------------------------------------------------
(* Invariance.                                                             *)

\* DaemonInv holds initially.
LEMMA DaemonInvInit == DaemonInit => DaemonInv
  <1> SUFFICES ASSUME DaemonInit PROVE DaemonInv OBVIOUS
  <1>1. RInv BY RecordsInit DEF DaemonInit
  <1>2. /\ stage = "check" /\ running = TRUE /\ batch_size = MaxRecords
        /\ taken = 0 /\ next = 1 /\ disk = <<>> /\ batches = <<>>
        /\ failed = FALSE /\ delivered = <<>>
    BY DEF DaemonInit, Init
  <1>3. /\ MaxRecords \in Nat \ {0} /\ Capacity \in Nat \ {0}
        /\ MaxRecords <= (3 * MaxRecords) \div 2
    BY DaemonAssumption, CapacityAssumption, SizeBounds
  <1>4. Len(disk) = 0 /\ Len(batches) = 0 /\ Len(delivered) = 0 BY <1>2
  <1>5. DaemonTypeOK
    <2>1. PICK top : top = (3 * MaxRecords) \div 2 OBVIOUS
    <2>2. top \in Nat BY <1>3, <2>1
    <2>3. batch_size \in 1 .. top BY <1>2, <1>3, <2>1, <2>2
    <2>4. taken \in 0 .. Len(delivered) BY <1>2, <1>4
    <2>5. next \in 1 .. Capacity + 1 BY <1>2, <1>3
    <2>6. disk \in Seq(Records) BY <1>2
    <2>7. batches \in Seq(Seq(Records)) BY <1>2
    <2> QED BY <1>2, <2>1, <2>3, <2>4, <2>5, <2>6, <2>7 DEF DaemonTypeOK
  <1>6. FetchCount /\ BatchPlace
    BY <1>2, <1>3, <1>4, SizeBounds DEF FetchCount, BatchPlace
  <1>7. DiskInv
    BY <1>4 DEF DiskInv, DiskRead, DiskOrdered, NoHoles
  <1>8. BatchInv
    BY <1>2, <1>4 DEF BatchInv, BatchRead, BatchOrdered, CurrentWritten
  <1>9. PassedWritten BY <1>2, <1>4 DEF PassedWritten
  <1> QED BY <1>1, <1>5, <1>6, <1>7, <1>8, <1>9 DEF DaemonInv

\* DaemonInv is inductive.
LEMMA DaemonInvNext == DaemonInv /\ [DaemonNext]_systemVars => DaemonInv'
  <1> SUFFICES ASSUME DaemonInv, [DaemonNext]_systemVars PROVE DaemonInv'
    OBVIOUS
  <1>1. CASE DaemonNext
    <2> USE <1>1 DEF DaemonInv, DiskInv, BatchInv
    <2>1. RInv' BY RingSteps, RecordsNext
    <2>2. FetchCount' BY CountStep
    <2>3. DaemonTypeOK' /\ BatchPlace' BY DaemonTypeStep
    <2>4. DiskRead' /\ DiskOrdered'
      BY <2>1, DiskReadStep, DiskOrderedStep
    <2>5. BatchRead' /\ BatchOrdered' /\ CurrentWritten'
      BY <2>1, BatchReadStep, BatchOrderedStep, CurrentStep
    <2>6. NoHoles' BY <2>1, NoHolesStep
    <2>7. PassedWritten' BY PassedStep
    <2> QED BY <2>1, <2>2, <2>3, <2>4, <2>5, <2>6, <2>7
  <1>2. CASE UNCHANGED systemVars
    <2> USE <1>2 DEF DaemonInv, systemVars, daemonVars, loopVars, diskVars
    <2>1. RInv' BY RecordsStutter
    <2>2. UNCHANGED <<delivered, pc, checked>>
      BY DEF vars, history, readVars
    <2>3. DaemonTypeOK' /\ FetchCount' /\ BatchPlace'
      BY <2>2 DEF DaemonTypeOK, FetchCount, BatchPlace
    <2>4. DiskInv'
      <3>1. DiskRead' BY <2>2 DEF DiskInv, DiskRead, Reached
      <3>2. DiskOrdered'
        <4>1. disk' = disk /\ delivered' = delivered /\ DiskOrdered
          BY <2>2 DEF DiskInv
        <4> QED BY ONLY <4>1 DEF DiskOrdered
      <3>3. NoHoles'
        <4>1. disk' = disk /\ batches' = batches /\ NoHoles
          BY <2>2 DEF DiskInv
        <4> QED BY ONLY <4>1 DEF NoHoles, HasEarlier
      <3> QED BY <3>1, <3>2, <3>3 DEF DiskInv
    <2>5. BatchInv'
      <3>1. BatchRead' BY <2>2 DEF BatchInv, BatchRead, Ended
      <3>2. BatchOrdered'
        <4>1. batches' = batches /\ delivered' = delivered /\ BatchOrdered
          BY <2>2 DEF BatchInv
        <4> QED BY ONLY <4>1 DEF BatchOrdered
      <3>3. CurrentWritten' BY <2>2 DEF BatchInv, CurrentWritten
      <3> QED BY <3>1, <3>2, <3>3 DEF BatchInv
    <2>6. PassedWritten' BY <2>2 DEF PassedWritten, OnDisk, BeyondSize
    <2> QED BY <2>1, <2>3, <2>4, <2>5, <2>6
  <1> QED BY <1>1, <1>2

\* The daemon's invariant holds in every reachable state.
THEOREM DaemonInvariance == DaemonSpec => []DaemonInv
  BY DaemonInvInit, DaemonInvNext, PTL DEF DaemonSpec

\* The daemon with its producers implements the ring: every theorem about
\* VolatileRing holds of it.
THEOREM DaemonImplementsRing == DaemonSpec => Spec
  <1>1. DaemonInit => Init BY DEF DaemonInit
  <1>2. [DaemonNext]_systemVars => [Next]_vars
    BY RingSteps DEF systemVars
  <1> QED BY <1>1, <1>2, PTL DEF DaemonSpec, Spec

\* The loop's state keeps its type: the adapted batch size stays within its
\* bounds, and the index into the batch within the slots of the ring.
THEOREM DaemonTypeCorrect == DaemonSpec => []DaemonTypeOK
  <1>1. DaemonInv => DaemonTypeOK BY DEF DaemonInv
  <1> QED BY <1>1, DaemonInvariance, PTL

\* DaemonInv gives the prefix property.
LEMMA PrefixesFromInv == DaemonInv => DiskHoldsPrefixes
  <1> SUFFICES ASSUME DaemonInv PROVE DiskHoldsPrefixes OBVIOUS
  <1> USE DEF DaemonInv, DiskInv, BatchInv
  <1>0. Len(disk) \in Nat /\ Len(batches) \in Nat /\ Len(delivered) \in Nat
    BY FetchedFacts DEF DaemonTypeOK
  <1>1. ASSUME NEW i \in 1 .. Len(disk)
        PROVE  \E x \in 1 .. Len(delivered) : disk[i] = delivered[x]
    <2>1. PICK x \in 1 .. Reached : disk[i] = delivered[x] BY DEF DiskRead
    <2>2. Reached \in Nat /\ Reached <= Len(delivered)
      BY <1>0, FetchedFacts DEF Reached, BatchPlace, DaemonTypeOK
    <2>3. x \in 1 .. Len(delivered) BY <1>0, <2>2
    <2> QED BY <2>1, <2>3
  <1>2. ASSUME NEW i \in 1 .. Len(disk), NEW j \in 1 .. Len(disk), i < j,
               disk[i] = disk[j]
        PROVE  FALSE
    <2>1. PICK x \in 1 .. Len(delivered) : disk[i] = delivered[x] BY <1>1
    <2>2. x < x BY <1>2, <2>1 DEF DiskOrdered
    <2> QED BY <1>0, <2>2
  <1>3. \A i, j \in 1 .. Len(disk) : disk[i] = disk[j] => i = j BY <1>0, <1>2
  <1>4. ASSUME NEW i \in 1 .. Len(disk), NEW j \in 1 .. Len(disk),
               NEW k \in 1 .. Len(batches), NEW l \in 1 .. Len(batches), i < j,
               disk[i] \in Elements(batches[k]),
               disk[j] \in Elements(batches[l])
        PROVE  k <= l
    <2> SUFFICES ASSUME l < k PROVE FALSE BY <1>0
    <2>1. PICK x \in 1 .. Len(delivered) : disk[i] = delivered[x] BY <1>1
    <2>2. PICK y \in 1 .. Len(delivered) : disk[j] = delivered[y] BY <1>1
    <2>3. x < y BY <1>4, <2>1, <2>2 DEF DiskOrdered
    <2>4. /\ \E n \in 1 .. Len(batches[k]) : batches[k][n] = delivered[x]
          /\ \E n \in 1 .. Len(batches[l]) : batches[l][n] = delivered[y]
      BY <1>4, <2>1, <2>2 DEF Elements
    <2>5. y < x BY <2>4 DEF BatchOrdered
    <2> QED BY <1>0, <2>3, <2>5
  <1>5. NoHoles OBVIOUS
  <1> QED BY <1>3, <1>4, <1>5 DEF DiskHoldsPrefixes, NoHoles

\* Whatever the usage, the timeouts and the moment of an error, the disk holds
\* a prefix of every batch, no record twice, and batches in order.
THEOREM DiskKeepsPrefixes == DaemonSpec => []DiskHoldsPrefixes
  BY PrefixesFromInv, DaemonInvariance, PTL

\* Without a disk error, and whatever the usage was when the size was taken,
\* the daemon loses only records that stood beyond half the configured maximum
\* in what one read() returned.
THEOREM LossBeyondBatch == DaemonSpec => []NoErrorNoLoss
  <1>1. ASSUME DaemonInv, ~failed, NEW r \in Passed
        PROVE  \/ r \in Elements(disk)
               \/ \E k \in 1 .. Len(batches) : \E n \in 1 .. Len(batches[k]) :
                     n > MinBatch /\ batches[k][n] = r
    <2>1. PICK x \in 1 .. (IF stage \in {"fetch", "write"}
                          THEN taken ELSE Len(delivered)) : r = delivered[x]
      BY DEF Passed
    <2>2. OnDisk(r) \/ BeyondSize(r)
      BY <1>1, <2>1 DEF DaemonInv, PassedWritten
    <2> QED BY <2>2 DEF OnDisk, BeyondSize, Elements
  <1>2. DaemonInv => NoErrorNoLoss BY <1>1 DEF NoErrorNoLoss
  <1> QED BY <1>2, DaemonInvariance, PTL

=============================================================================
