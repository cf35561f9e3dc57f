---------------------------- MODULE FlushDaemon ----------------------------
(***************************************************************************)
(* The flush daemon of src/lib.rs as the consumer of the volatile ring:    *)
(* it checks the running flag, takes the usage, waits or reads, and writes *)
(* what read() returned to disk, up to the adapted batch size.  The ring   *)
(* and its producers are those of module VolatileRing, step by step; the   *)
(* daemon decides when the consumer's actions happen.                      *)
(*                                                                         *)
(* The disk is the sequence of records whose bytes reached the persistent  *)
(* ring.  Its write() fails in two ways: refused before anything is        *)
(* written, or with the record in the map and the final flush failing.     *)
(* The flush() after a batch changes no state, and its error is logged     *)
(* only.  A stopped daemon is not started again here: see Lifecycle.       *)
(***************************************************************************)
EXTENDS VolatileRing

CONSTANTS
    HighWatermark,  \* high_watermark_percent
    MaxRecords,     \* max_records_per_flush
    SeqModulus,     \* 2^64, the range of the sequence numbers
    AllowDiskError  \* whether a write to disk may fail

ASSUME DaemonAssumption ==
    /\ HighWatermark \in Nat
    /\ MaxRecords \in Nat \ {0}
    /\ SeqModulus \in Nat \ {0}
    /\ AllowDiskError \in BOOLEAN

VARIABLES
    running,        \* FLUSH_DAEMON_RUNNING
    stage,          \* where the daemon's loop is
    batch_size,     \* batch_size
    taken,          \* number of records delivered before the current read()
    next,           \* index of the next record of the batch to write
    disk,           \* records on disk, in the order written
    batches,        \* history: what each non-empty read() returned
    failed          \* history: whether a write to disk has failed

loopVars == <<stage, batch_size, taken, next>>
diskVars == <<disk, batches, failed>>
daemonVars == <<running, loopVars, diskVars>>
systemVars == <<vars, daemonVars>>

\* start_flush_daemon on new buffers.
DaemonInit ==
    /\ Init
    /\ running = TRUE
    /\ stage = "check"
    /\ batch_size = MaxRecords
    /\ taken = 0
    /\ next = 1
    /\ disk = <<>>
    /\ batches = <<>>
    /\ failed = FALSE

\* stop_flush_daemon, by any thread.
StopFlushDaemon ==
    /\ running
    /\ running' = FALSE
    /\ UNCHANGED <<vars, loopVars, diskVars>>

-----------------------------------------------------------------------------
(* The head of the loop.                                                   *)

LoadRunning ==
    /\ stage = "check"
    /\ stage' = IF running THEN "usage" ELSE "ended"
    /\ UNCHANGED <<vars, running, batch_size, taken, next, diskVars>>

\* Slots in use by the counters: prod_seq.wrapping_sub(cons_seq).
UsedSlots == (prod_seq + SeqModulus - cons_seq) % SeqModulus

\* usage_percent() against percent p, in integers.
UsageAbove(p) == UsedSlots * 100 > p * Capacity
UsageBelow(p) == UsedSlots * 100 < p * Capacity

\* Mutant: the size is doubled under load.
AdaptedSize_Double ==
    IF UsageAbove(HighWatermark) THEN 2 * MaxRecords
    ELSE IF UsedSlots * 200 < HighWatermark * Capacity THEN MaxRecords \div 2
    ELSE MaxRecords

\* Half as much again above the watermark, half below half of it.
AdaptedSize ==
    IF UsageAbove(HighWatermark) THEN (3 * MaxRecords) \div 2
    ELSE IF UsedSlots * 200 < HighWatermark * Capacity THEN MaxRecords \div 2
    ELSE MaxRecords

\* usage >= high_watermark_percent, which spares the wait.
FlushAtOnce == ~UsageBelow(HighWatermark)

\* usage_percent(), the batch size, and the first operand of should_flush.
TakeUsage ==
    /\ stage = "usage"
    /\ batch_size' = IF AdaptedSize = 0 THEN 1 ELSE AdaptedSize
    /\ stage' = IF FlushAtOnce THEN "read" ELSE "wait"
    /\ UNCHANGED <<vars, running, taken, next, diskVars>>

-----------------------------------------------------------------------------
(* should_flush and read(): the consumer's actions of the ring.            *)

\* Mutant: the daemon waits without a timeout.
WaitStep_Untimed == WaitForData \/ Woken

\* wait_for_data(Some(interval_ms)), up to its result.
WaitStep == WaitForData \/ Woken \/ Timeout

DaemonWait ==
    /\ stage = "wait"
    /\ WaitStep
    /\ UNCHANGED daemonVars

\* The wait returned false: sleep, and back to the head of the loop.
NothingToFlush ==
    /\ stage = "wait"
    /\ TimedOut
    /\ stage' = "check"
    /\ UNCHANGED <<running, batch_size, taken, next, diskVars>>

\* read() is called: usage is at the watermark, or the wait returned true.
FetchBegin ==
    /\ \/ stage = "read"
       \/ stage = "wait" /\ pc[Consumer] = "notified"
    /\ ReadBegin
    /\ stage' = "fetch"
    /\ taken' = Len(delivered)
    /\ UNCHANGED <<running, batch_size, next, diskVars>>

\* The rest of read(), the drain of the overflow queue included.
FetchStep ==
    /\ stage = "fetch"
    /\ \/ ScanReady \/ Recycle \/ ScanStop \/ PublishConsSeq \/ LockQueue
       \/ DrainNext \/ PutBack \/ DrainDone
       \/ Reserve(Consumer) \/ Commit(Consumer)
    /\ UNCHANGED daemonVars

\* What the last read() returned.
Fetched == SubSeq(delivered, taken + 1, Len(delivered))

FetchEnd ==
    /\ stage = "fetch"
    /\ pc[Consumer] = "idle"
    /\ next' = 1
    /\ \/ /\ Fetched = <<>>
          /\ stage' = "check"
          /\ UNCHANGED batches
       \/ /\ Fetched # <<>>
          /\ stage' = "write"
          /\ batches' = Append(batches, Fetched)
    /\ UNCHANGED <<vars, running, batch_size, taken, disk, failed>>

-----------------------------------------------------------------------------
(* Writing the batch.                                                      *)

\* Mutant: the last record of the batch size is left out.
MoreToWrite_Short == next <= Len(Fetched) /\ next < batch_size

\* records.iter().take(batch_size) has another record.
MoreToWrite == next <= Len(Fetched) /\ next <= batch_size

WriteToDisk ==
    /\ stage = "write"
    /\ MoreToWrite
    /\ disk' = Append(disk, Fetched[next])
    /\ next' = next + 1
    /\ UNCHANGED <<vars, running, stage, batch_size, taken, batches, failed>>

\* Mutant: the loop goes on with the next record.
AfterError_Continue == /\ next' = next + 1
                       /\ UNCHANGED stage

\* break: the rest of the batch is dropped.
AfterError == /\ stage' = "check"
              /\ UNCHANGED next

\* write() returns an error, with the record in the map or not.
DiskError ==
    /\ AllowDiskError
    /\ stage = "write"
    /\ MoreToWrite
    /\ disk' \in {disk, Append(disk, Fetched[next])}
    /\ failed' = TRUE
    /\ AfterError
    /\ UNCHANGED <<vars, running, batch_size, taken, batches>>

BatchDone ==
    /\ stage = "write"
    /\ ~MoreToWrite
    /\ stage' = "check"
    /\ UNCHANGED <<vars, running, batch_size, taken, next, diskVars>>

-----------------------------------------------------------------------------
Daemon == LoadRunning \/ TakeUsage \/ DaemonWait \/ NothingToFlush \/ FetchBegin
            \/ FetchStep \/ FetchEnd \/ WriteToDisk \/ DiskError \/ BatchDone

ProducerStep(p) == Reserve(p) \/ Commit(p) \/ QueuePush(p)

ProducersNext ==
    /\ \E p \in Producers : BeginCall(p) \/ BeginOversized(p)
                              \/ DropReservation(p) \/ ProducerStep(p)
    /\ UNCHANGED daemonVars

DaemonNext == Daemon \/ StopFlushDaemon \/ ProducersNext

DaemonSpec == DaemonInit /\ [][DaemonNext]_systemVars

\* The daemon's thread is scheduled and its timeouts expire; producers finish
\* the calls they have begun, and get the overflow queue's lock in the end.
\* Nobody has to call, to stop the daemon or to make a write fail.
FairDaemonSpec ==
    /\ DaemonSpec
    /\ WF_systemVars(Daemon)
    /\ \A p \in Producers :
          SF_systemVars(ProducerStep(p) /\ UNCHANGED daemonVars)

-----------------------------------------------------------------------------
(* Properties.                                                             *)

\* Types of the loop's state (lib.rs 161-219).  Whatever the usage, the batch
\* size is between 1 and one and a half times the configured maximum, and the
\* next record to write is one of the batch or the one after it.
DaemonTypeOK ==
    /\ running \in BOOLEAN
    /\ stage \in {"check", "usage", "wait", "read", "fetch", "write", "ended"}
    /\ batch_size \in 1 .. (3 * MaxRecords) \div 2
    /\ taken \in 0 .. Len(delivered)
    /\ next \in 1 .. Capacity + 1
    /\ disk \in Seq(Records)
    /\ batches \in Seq(Seq(Records))
    /\ failed \in BOOLEAN

\* Record n of batch b is at place i of the disk, with those before it in the
\* batch at earlier places.
HasEarlier(i, b, n) ==
    disk[i] = b[n] => \A m \in 1 .. n - 1 : \E h \in 1 .. i - 1 : disk[h] = b[m]

\* The disk holds a prefix of every batch: it never has a hole inside what one
\* read() returned, a record twice or two records in another order than they
\* were read, also when a write failed halfway ("Break on first error to
\* prevent further damage").
DiskHoldsPrefixes ==
    /\ \A i, j \in 1 .. Len(disk) : disk[i] = disk[j] => i = j
    /\ \A i \in 1 .. Len(disk), k \in 1 .. Len(batches) :
          \A n \in 1 .. Len(batches[k]) : HasEarlier(i, batches[k], n)
    /\ \A i, j \in 1 .. Len(disk), k, l \in 1 .. Len(batches) :
          /\ i < j
          /\ disk[i] \in Elements(batches[k])
          /\ disk[j] \in Elements(batches[l])
          => k <= l

\* Records returned by read() and not in the batch being written.
Passed == {delivered[k] : k \in 1 .. (IF stage \in {"fetch", "write"}
                                      THEN taken ELSE Len(delivered))}

\* The smallest batch size the daemon adapts to.
MinBatch == IF MaxRecords \div 2 = 0 THEN 1 ELSE MaxRecords \div 2

\* What the daemon can lose without a disk error: a record that read() returned
\* and that is not on disk stood at a place beyond half the configured maximum
\* in its batch, whatever happened between the usage the size was taken from
\* and the end of read() (take(batch_size); the rest of the vector is dropped).
\* With max_records_per_flush at twice the capacity there is no such place.
NoErrorNoLoss ==
    ~failed =>
        \A r \in Passed :
            \/ r \in Elements(disk)
            \/ \E k \in 1 .. Len(batches) :
                  \E n \in 1 .. Len(batches[k]) :
                     n > MinBatch /\ batches[k][n] = r

\* After stop_flush_daemon the daemon leaves its loop, wherever it is: no wait
\* outlasts its interval.
StopEndsDaemon == ~running ~> (stage = "ended")

=============================================================================
