---------------------------- MODULE VolatileRing ----------------------------
(***************************************************************************)
(* The volatile multi-producer, single-consumer ring buffer of             *)
(* src/memory/volatile.rs and src/memory/mod.rs: slots that move between   *)
(* Empty, Reserved, Ready and Consumed by atomic operations, an overflow   *)
(* queue behind a lock, and a condition variable that wakes the consumer.  *)
(*                                                                         *)
(* One action is one atomic access, or one critical section, of one        *)
(* thread.  Memory is sequentially consistent; a stale Relaxed load of     *)
(* prod_seq appears as the interleavings between LoadProdSeq and           *)
(* TryTransition.  Sequence numbers are natural numbers: the 64-bit        *)
(* counters of the code do not wrap within the calls considered.           *)
(*                                                                         *)
(* A record is <<p, n>>, the argument of the n-th call of producer p.      *)
(***************************************************************************)
EXTENDS Naturals, Sequences, FiniteSets

CONSTANTS
    Producers,      \* threads that call write() and reserve()
    Consumer,       \* the thread that calls wait_for_data() and read()
    Capacity,       \* number of slots, after rounding to a power of two
    MaxOverflow,    \* max_overflow
    MaxTries,       \* failed attempts before a non-blocking reserve gives up
    MaxCalls,       \* bound: calls made by each producer
    Calls,          \* calls made: a subset of {"write", "reserve", "block"}
    AllowDrop,      \* whether a reservation may be dropped uncommitted
    AllowOversized, \* whether a call may ask for more than a slot holds
    AllowTimeout,   \* whether wait_for_data is given a timeout
    SharedHandle,   \* FALSE: Reservation.buffer is self.clone(), as written;
                    \* TRUE: it is the parent buffer, as its comment says
    Unsealed,       \* records whose header a client left without its CRC
    NoRecord        \* content of a slot nobody wrote to

Threads == Producers \cup {Consumer}
Records == Producers \X (1 .. MaxCalls)
SlotIds == 0 .. Capacity - 1
SlotStates == {"Empty", "Reserved", "Ready", "Consumed"}

ASSUME CapacityAssumption ==
    /\ Capacity \in Nat \ {0}
    /\ \E k \in 0 .. Capacity : Capacity = 2 ^ k

ASSUME ThreadsAssumption == Consumer \notin Producers

ASSUME BoundsAssumption ==
    /\ MaxOverflow \in Nat \ {0}
    /\ MaxTries \in Nat \ {0}
    /\ MaxCalls \in Nat

ASSUME CallsAssumption ==
    /\ Calls \subseteq {"write", "reserve", "block"}
    /\ {AllowDrop, AllowOversized, AllowTimeout, SharedHandle} \subseteq BOOLEAN

ASSUME RecordsAssumption ==
    /\ Unsealed \subseteq Records
    /\ NoRecord \notin Records

VARIABLES
    slot_state,     \* slots[i].state
    slot_seq,       \* slots[i].seq
    slot_data,      \* the record held by slot i of data
    prod_seq,       \* next sequence number to produce
    cons_seq,       \* next sequence number to consume
    overflow_queue, \* overflow_queue
    ready,          \* the flag guarded by consumer_signal's mutex
    pc,             \* where each thread is
    op,             \* the call that each thread is in; "drain" is read()'s own
    rec,            \* the record of that call
    my_seq,         \* prod_seq as loaded by the call; Reservation.seq later
    tries,          \* spins
    my_cons,        \* read(): cons_seq as advanced by the scan
    checked,        \* read(): slots checked so far
    processed,      \* read(): slots consumed so far
    calls,          \* number of calls begun by each producer
    delivered,      \* history: records returned by read(), in order
    accepted,       \* history: records whose write() or commit() returned
    overflowed,     \* history: records pushed to the overflow queue, in order
    evicted,        \* history: records evicted from the overflow queue
    taker,          \* history: the last record that slot i was reserved for
    released        \* history: a reservation has been dropped uncommitted

slotVars == <<slot_state, slot_seq, slot_data>>
seqVars == <<prod_seq, cons_seq>>
callVars == <<op, rec, my_seq, tries, calls>>
readVars == <<my_cons, checked, processed>>
history == <<delivered, accepted, overflowed, evicted, taker, released>>
vars == <<slotVars, seqVars, overflow_queue, ready, pc, callVars, readVars,
          history>>

-----------------------------------------------------------------------------
(* AtomicIndex and Slot.                                                   *)

\* The capacity is a power of two, so masking is the remainder.
physical_index(seq) == seq % Capacity

Goto(t, l) == pc' = [pc EXCEPT ![t] = l]

\* slot.set_state by a thread that needs no comparison.
SetState(i, s) == slot_state' = [slot_state EXCEPT ![i] = s]

SetSeq(i, n) == slot_seq' = [slot_seq EXCEPT ![i] = n]

-----------------------------------------------------------------------------
Init ==
    /\ slot_state = [i \in SlotIds |-> "Empty"]
    /\ slot_seq = [i \in SlotIds |-> 0]
    /\ slot_data = [i \in SlotIds |-> NoRecord]
    /\ prod_seq = 0
    /\ cons_seq = 0
    /\ overflow_queue = <<>>
    /\ ready = FALSE
    /\ pc = [t \in Threads |-> "idle"]
    /\ op = [t \in Threads |-> "none"]
    /\ rec = [t \in Threads |-> NoRecord]
    /\ my_seq = [t \in Threads |-> 0]
    /\ tries = [t \in Threads |-> 0]
    /\ my_cons = 0
    /\ checked = 0
    /\ processed = 0
    /\ calls = [p \in Producers |-> 0]
    /\ delivered = <<>>
    /\ accepted = {}
    /\ overflowed = <<>>
    /\ evicted = {}
    /\ taker = [i \in SlotIds |-> NoRecord]
    /\ released = FALSE

-----------------------------------------------------------------------------
(* Entering a call.                                                        *)

\* A producer calls write(record), reserve(size, false) or
\* reserve(size, true) for its next record.
BeginCall(p) ==
    /\ pc[p] = "idle"
    /\ calls[p] < MaxCalls
    /\ calls' = [calls EXCEPT ![p] = @ + 1]
    /\ \E c \in Calls : op' = [op EXCEPT ![p] = c]
    /\ rec' = [rec EXCEPT ![p] = <<p, calls[p] + 1>>]
    /\ tries' = [tries EXCEPT ![p] = 0]
    /\ Goto(p, "load")
    /\ UNCHANGED <<slotVars, seqVars, overflow_queue, ready, my_seq, readVars,
                   history>>

\* reserve's assertion on the size: the call panics, holding nothing.
BeginOversized(p) ==
    /\ AllowOversized
    /\ pc[p] = "idle"
    /\ calls[p] < MaxCalls
    /\ calls' = [calls EXCEPT ![p] = @ + 1]
    /\ Goto(p, "panicked")
    /\ UNCHANGED <<slotVars, seqVars, overflow_queue, ready, op, rec, my_seq,
                   tries, readVars, history>>

-----------------------------------------------------------------------------
(* VolatileRingBuffer::reserve.                                            *)

LoadProdSeq(t) ==
    /\ pc[t] = "load"
    /\ my_seq' = [my_seq EXCEPT ![t] = prod_seq]
    /\ Goto(t, "try")
    /\ UNCHANGED <<slotVars, seqVars, overflow_queue, ready, op, rec, tries,
                   calls, readVars, history>>

\* Mutant: write() asks for a reservation again.
AfterNone_Retry(t) == CASE op[t] = "write" -> "load"
                        [] op[t] = "drain" -> "putback"
                        [] OTHER           -> "idle"

\* Where a call continues when reserve returns None.
AfterNone(t) == CASE op[t] = "write" -> "queue"
                  [] op[t] = "drain" -> "putback"
                  [] OTHER           -> "idle"

\* A blocking reserve sleeps and starts over; another gives up after
\* MaxTries failures.
GivesUp(t) == op[t] # "block" /\ tries[t] + 1 >= MaxTries

\* Mutant: the slot is taken although it is already reserved.
CanReserve_Twice(i) == slot_state[i] \in {"Empty", "Reserved"}

\* The compare-exchange from Empty to Reserved can succeed.
CanReserve(i) == slot_state[i] = "Empty"

\* The loop body after the load.  The state check and the compare-exchange
\* are one step: only the compare-exchange can take the slot, and both
\* failures lead to the next spin.
TryTransition(t) ==
    /\ pc[t] = "try"
    /\ LET i == physical_index(my_seq[t]) IN
       \/ /\ CanReserve(i)
          /\ SetState(i, "Reserved")
          /\ taker' = [taker EXCEPT ![i] = rec[t]]
          /\ Goto(t, "store")
          /\ UNCHANGED tries
       \/ /\ ~CanReserve(i)
          /\ tries' = [tries EXCEPT ![t] =
                          IF op[t] = "block" \/ GivesUp(t) THEN 0 ELSE @ + 1]
          /\ Goto(t, IF GivesUp(t) THEN AfterNone(t) ELSE "load")
          /\ UNCHANGED <<slot_state, taker>>
    /\ UNCHANGED <<slot_seq, slot_data, seqVars, overflow_queue, ready, op, rec,
                   my_seq, calls, readVars, delivered, accepted, overflowed,
                   evicted, released>>

\* Mutant: the increment is missing.
NextSeq_Same(t) == my_seq[t]

NextSeq(t) == my_seq[t] + 1

\* prod_seq.store(prod_seq + 1): a plain store of what was loaded.
StoreProdSeq(t) ==
    /\ pc[t] = "store"
    /\ prod_seq' = NextSeq(t)
    /\ Goto(t, "setseq")
    /\ UNCHANGED <<slotVars, cons_seq, overflow_queue, ready, callVars,
                   readVars, history>>

\* slot.set_seq(prod_seq), then the Reservation is returned.
ReserveSetSeq(t) ==
    /\ pc[t] = "setseq"
    /\ SetSeq(physical_index(my_seq[t]), my_seq[t])
    /\ Goto(t, "held")
    /\ UNCHANGED <<slot_state, slot_data, seqVars, overflow_queue, ready,
                   callVars, readVars, history>>

-----------------------------------------------------------------------------
(* Reservation.  Its buffer is Arc::new(self.clone()), and clone() makes   *)
(* an empty buffer: only consumer_signal is shared with the parent.        *)

\* State of the reserved slot in the buffer the reservation refers to.
HandleState(t) == IF SharedHandle THEN slot_state[physical_index(my_seq[t])]
                                  ELSE "Empty"

\* Reservation::write copies header and data to the handle's slot.  When its
\* assertion on the size fails, the reservation is dropped by the panic: that
\* is DropReservation.
WriteData(t) ==
    /\ pc[t] = "held"
    /\ IF SharedHandle
       THEN slot_data' =
              [slot_data EXCEPT ![physical_index(my_seq[t])] = rec[t]]
       ELSE UNCHANGED slot_data
    /\ Goto(t, "written")
    /\ UNCHANGED <<slot_state, slot_seq, seqVars, overflow_queue, ready,
                   callVars, readVars, history>>

\* Where a call continues when its reservation is gone.
AfterCommit(t) == IF op[t] = "drain" THEN "drain" ELSE "idle"

\* Reservation::commit, the transition from Reserved to Ready.  When it
\* fails, Drop tries Reserved to Empty on the same slot, which fails too;
\* the call returns all the same.
CommitTransition(t) ==
    /\ pc[t] = "written"
    /\ \/ /\ HandleState(t) = "Reserved"
          /\ SetState(physical_index(my_seq[t]), "Ready")
          /\ Goto(t, "seq")
          /\ UNCHANGED accepted
       \/ /\ HandleState(t) # "Reserved"
          /\ Goto(t, AfterCommit(t))
          /\ accepted' = accepted \cup {rec[t]}
          /\ UNCHANGED slot_state
    /\ UNCHANGED <<slot_seq, slot_data, seqVars, overflow_queue, ready,
                   callVars, readVars, delivered, overflowed, evicted,
                   taker, released>>

\* commit's own set_seq comes after the slot is visible to the consumer.
CommitSetSeq(t) ==
    /\ pc[t] = "seq"
    /\ SetSeq(physical_index(my_seq[t]), my_seq[t])
    /\ Goto(t, "notify")
    /\ UNCHANGED <<slot_state, slot_data, seqVars, overflow_queue, ready,
                   callVars, readVars, history>>

\* notify_consumer: set the flag and wake the waiter, under the mutex.
NotifyConsumer(t) ==
    /\ pc[t] = "notify"
    /\ ready' = TRUE
    /\ pc' = [u \in Threads |-> IF u = t THEN AfterCommit(t)
                               ELSE IF pc[u] = "waiting" THEN "woken"
                               ELSE pc[u]]
    /\ accepted' = accepted \cup {rec[t]}
    /\ UNCHANGED <<slotVars, seqVars, overflow_queue, callVars, readVars,
                   delivered, overflowed, evicted, taker, released>>

\* Drop for Reservation: try the transition from Reserved to Empty.
ReleaseSlot(t) == IF HandleState(t) = "Reserved"
                  THEN SetState(physical_index(my_seq[t]), "Empty")
                  ELSE UNCHANGED slot_state

\* The client of reserve() drops its Reservation uncommitted, by itself or by
\* a panic that unwinds through it.
DropReservation(t) ==
    /\ AllowDrop
    /\ pc[t] \in {"held", "written"}
    /\ op[t] \in {"reserve", "block"}
    /\ ReleaseSlot(t)
    /\ released' = TRUE
    /\ Goto(t, "idle")
    /\ UNCHANGED <<slot_seq, slot_data, seqVars, overflow_queue, ready,
                   callVars, readVars, delivered, accepted, overflowed,
                   evicted, taker>>

-----------------------------------------------------------------------------
(* The overflow queue.  read() holds its lock while it drains it.          *)

ReservePoints == {"load", "try", "store", "setseq", "held", "written", "seq",
                  "notify"}

Draining == pc[Consumer] \in {"drain", "putback"} \cup ReservePoints

\* Mutant: a full queue refuses the new record.
Enqueue_DropNewest(q, r) == IF Len(q) < MaxOverflow THEN Append(q, r) ELSE q

\* push_back, after evicting the oldest record of a full queue.
Enqueue(q, r) == IF Len(q) < MaxOverflow THEN Append(q, r)
                 ELSE IF q # <<>> THEN Append(Tail(q), r)
                 ELSE q

\* write(): reserve returned None.
QueuePush(t) ==
    /\ pc[t] = "queue"
    /\ ~Draining
    /\ overflow_queue' = Enqueue(overflow_queue, rec[t])
    /\ evicted' = IF Len(overflow_queue) < MaxOverflow THEN evicted
                  ELSE evicted \cup {Head(overflow_queue)}
    /\ overflowed' = Append(overflowed, rec[t])
    /\ accepted' = accepted \cup {rec[t]}
    /\ Goto(t, "idle")
    /\ UNCHANGED <<slotVars, seqVars, ready, callVars, readVars, delivered,
                   taker, released>>

-----------------------------------------------------------------------------
(* VolatileRingBuffer::read, by the holder of consumer_lock.               *)

ReadBegin ==
    /\ pc[Consumer] \in {"idle", "notified"}
    /\ my_cons' = cons_seq
    /\ checked' = 0
    /\ processed' = 0
    /\ Goto(Consumer, "scan")
    /\ UNCHANGED <<slotVars, seqVars, overflow_queue, ready, callVars, history>>

\* Mutants: the slot is read before it is committed; the sequence is not
\* compared.
IsReadable_Uncommitted(i, n) == slot_state[i] # "Empty" /\ slot_seq[i] = n

IsReadable_AnySeq(i, n) == slot_state[i] = "Ready"

\* The test that lets the consumer take a slot.
IsReadable(i, n) == slot_state[i] = "Ready" /\ slot_seq[i] = n

\* Copy the record out, keep it when its CRC is right, and mark the slot
\* Consumed either way.  Producers do not write to a Ready slot, so the CRC
\* fails only for a header that the client left without one.
ScanReady ==
    /\ pc[Consumer] = "scan"
    /\ checked < Capacity
    /\ IsReadable(physical_index(my_cons), my_cons)
    /\ LET r == slot_data[physical_index(my_cons)] IN
       delivered' = IF r \in Unsealed THEN delivered ELSE Append(delivered, r)
    /\ SetState(physical_index(my_cons), "Consumed")
    /\ Goto(Consumer, "recycle")
    /\ UNCHANGED <<slot_seq, slot_data, seqVars, overflow_queue, ready,
                   callVars, readVars, accepted, overflowed, evicted, taker,
                   released>>

\* Advance the local sequence and mark the slot Empty.
Recycle ==
    /\ pc[Consumer] = "recycle"
    /\ SetState(physical_index(my_cons), "Empty")
    /\ my_cons' = my_cons + 1
    /\ checked' = checked + 1
    /\ processed' = processed + 1
    /\ Goto(Consumer, "scan")
    /\ UNCHANGED <<slot_seq, slot_data, seqVars, overflow_queue, ready,
                   callVars, history>>

\* The scan ends; with nothing processed neither cons_seq nor the overflow
\* queue is touched.
ScanStop ==
    /\ pc[Consumer] = "scan"
    /\ checked < Capacity => ~IsReadable(physical_index(my_cons), my_cons)
    /\ Goto(Consumer, IF processed > 0 THEN "publish" ELSE "idle")
    /\ UNCHANGED <<slotVars, seqVars, overflow_queue, ready, callVars, readVars,
                   history>>

PublishConsSeq ==
    /\ pc[Consumer] = "publish"
    /\ cons_seq' = my_cons
    /\ Goto(Consumer, "lockqueue")
    /\ UNCHANGED <<slotVars, prod_seq, overflow_queue, ready, callVars,
                   readVars, history>>

\* overflow_queue.write(): pushes are single steps, so it is never held here.
LockQueue ==
    /\ pc[Consumer] = "lockqueue"
    /\ Goto(Consumer, "drain")
    /\ UNCHANGED <<slotVars, seqVars, overflow_queue, ready, callVars, readVars,
                   history>>

\* Mutants: the record is looked at and not removed; it is not put back; it is
\* put back at the end.
Popped_Peek == overflow_queue

Restored_Nothing == overflow_queue

Restored_Back == Append(overflow_queue, rec[Consumer])

\* What pop_front leaves, and what push_front restores.
Popped == Tail(overflow_queue)

Restored == <<rec[Consumer]>> \o overflow_queue

\* pop_front, and reserve for the record popped.
DrainNext ==
    /\ pc[Consumer] = "drain"
    /\ overflow_queue # <<>>
    /\ rec' = [rec EXCEPT ![Consumer] = Head(overflow_queue)]
    /\ overflow_queue' = Popped
    /\ op' = [op EXCEPT ![Consumer] = "drain"]
    /\ tries' = [tries EXCEPT ![Consumer] = 0]
    /\ Goto(Consumer, "load")
    /\ UNCHANGED <<slotVars, seqVars, ready, my_seq, calls, readVars, history>>

\* No space: push_front and stop.
PutBack ==
    /\ pc[Consumer] = "putback"
    /\ overflow_queue' = Restored
    /\ Goto(Consumer, "idle")
    /\ UNCHANGED <<slotVars, seqVars, ready, callVars, readVars, history>>

\* The queue is empty: read() returns and releases its locks.
DrainDone ==
    /\ pc[Consumer] = "drain"
    /\ overflow_queue = <<>>
    /\ Goto(Consumer, "idle")
    /\ UNCHANGED <<slotVars, seqVars, overflow_queue, ready, callVars, readVars,
                   history>>

-----------------------------------------------------------------------------
(* VolatileRingBuffer::wait_for_data.  A true result makes the caller      *)
(* read, as the flush daemon does.                                         *)

\* Mutant: the wait starts without testing the flag.
AfterFlagTest_None == "waiting"

\* The flag is tested before the wait.
AfterFlagTest == IF ready THEN "notified" ELSE "waiting"

WaitForData ==
    /\ pc[Consumer] = "idle"
    /\ Goto(Consumer, AfterFlagTest)
    /\ ready' = FALSE
    /\ UNCHANGED <<slotVars, seqVars, overflow_queue, callVars, readVars,
                   history>>

\* The waiter has the mutex again.
Woken ==
    /\ pc[Consumer] = "woken"
    /\ ready' = FALSE
    /\ Goto(Consumer, "notified")
    /\ UNCHANGED <<slotVars, seqVars, overflow_queue, callVars, readVars,
                   history>>

\* The timeout ends the wait; the mutex is not yet held again.
Timeout ==
    /\ AllowTimeout
    /\ pc[Consumer] = "waiting"
    /\ Goto(Consumer, "timedout")
    /\ UNCHANGED <<slotVars, seqVars, overflow_queue, ready, callVars, readVars,
                   history>>

\* The flag is cleared on this path too, and the result is false.
TimedOut ==
    /\ pc[Consumer] = "timedout"
    /\ ready' = FALSE
    /\ Goto(Consumer, "idle")
    /\ UNCHANGED <<slotVars, seqVars, overflow_queue, callVars, readVars,
                   history>>

-----------------------------------------------------------------------------
Reserve(t) == LoadProdSeq(t) \/ TryTransition(t) \/ StoreProdSeq(t)
                \/ ReserveSetSeq(t)

Commit(t) == WriteData(t) \/ CommitTransition(t) \/ CommitSetSeq(t)
                \/ NotifyConsumer(t)

Read == ReadBegin \/ ScanReady \/ Recycle \/ ScanStop \/ PublishConsSeq
          \/ LockQueue \/ DrainNext \/ PutBack \/ DrainDone

Wait == WaitForData \/ Woken \/ Timeout \/ TimedOut

Next ==
    \/ \E p \in Producers : BeginCall(p) \/ BeginOversized(p)
                              \/ DropReservation(p) \/ QueuePush(p)
    \/ \E t \in Threads : Reserve(t) \/ Commit(t)
    \/ Read
    \/ Wait

Spec == Init /\ [][Next]_vars

-----------------------------------------------------------------------------
(* Properties.                                                             *)

PcValues == {"idle", "panicked", "queue"} \cup ReservePoints

ConsumerPcValues ==
    {"idle", "scan", "recycle", "publish", "lockqueue", "drain", "putback",
     "waiting", "woken", "timedout", "notified"} \cup ReservePoints

SlotTypeOK ==
    /\ slot_state \in [SlotIds -> SlotStates]
    /\ slot_seq \in [SlotIds -> Nat]
    /\ slot_data \in [SlotIds -> Records \cup {NoRecord}]

SharedTypeOK ==
    /\ prod_seq \in Nat
    /\ cons_seq \in Nat
    /\ overflow_queue \in Seq(Records)

PcTypeOK ==
    /\ pc \in [Threads -> PcValues \cup ConsumerPcValues]
    /\ \A p \in Producers : pc[p] \in PcValues
    /\ pc[Consumer] \in ConsumerPcValues

CallTypeOK ==
    /\ op \in [Threads -> Calls \cup {"none", "drain"}]
    /\ \A p \in Producers : op[p] # "drain"
    /\ op[Consumer] \in {"none", "drain"}
    /\ rec \in [Threads -> Records \cup {NoRecord}]
    /\ my_seq \in [Threads -> Nat]
    /\ tries \in [Threads -> Nat]
    /\ calls \in [Producers -> 0 .. MaxCalls]

ReadTypeOK ==
    /\ my_cons \in Nat
    /\ checked \in Nat
    /\ processed \in Nat

HistoryTypeOK ==
    /\ delivered \in Seq(Records)
    /\ accepted \subseteq Records
    /\ overflowed \in Seq(Records)
    /\ evicted \subseteq Records
    /\ taker \in [SlotIds -> Records \cup {NoRecord}]
    /\ released \in BOOLEAN

\* Types of the ring's state and of the threads' locals (volatile.rs 27-38,
\* 104-127).  Only written records are delivered: no slot is handed out before
\* its bytes are there.
TypeOK == /\ SlotTypeOK /\ SharedTypeOK /\ PcTypeOK /\ CallTypeOK
          /\ ReadTypeOK /\ HistoryTypeOK /\ ready \in BOOLEAN

\* A thread between its successful compare-exchange and the end of its
\* reservation, and the slot it works on.
Owns(t) == pc[t] \in {"store", "setseq", "held", "written"}

SlotOf(t) == physical_index(my_seq[t])

\* Whatever the interleaving, stale loads of prod_seq included, a slot being
\* filled is Reserved and belongs to one thread: two threads never write the
\* same slot's bytes (reserve, Reservation::write).
SlotOwnership ==
    \A t \in Threads : Owns(t) =>
        /\ slot_state[SlotOf(t)] = "Reserved"
        /\ \A u \in Threads \ {t} : Owns(u) => SlotOf(u) # SlotOf(t)

Elements(s) == {s[k] : k \in 1 .. Len(s)}

\* The record read() has popped and not yet made Ready or put back.
DrainHeld == IF pc[Consumer] \in {"load", "try", "store", "setseq", "held",
                                 "written", "putback"}
             THEN <<rec[Consumer]>> ELSE <<>>

InRing == {slot_data[i] : i \in {j \in SlotIds : slot_state[j] = "Ready"}}

\* A record whose write() or commit() has returned is in the ring, in the
\* overflow queue or delivered, unless the full overflow queue evicted it.
NoSilentLoss ==
    accepted \subseteq UNION {Elements(delivered), InRing, evicted,
                             Elements(DrainHeld \o overflow_queue)}

\* A slot that nobody can give back: Reserved, and its reservation is gone.
Leaked(i) ==
    /\ slot_state[i] = "Reserved"
    /\ \A t \in Threads : Owns(t) => SlotOf(t) # i

\* What the clone in the reservation costs, and no more: an accepted record is
\* delivered, waits in the ring or the overflow queue, was evicted from the
\* full queue or rejected by its CRC, or it took the last reservation of a
\* slot that is leaked for good (reserve, commit, Drop, write, read).  So at
\* most one record is lost per slot.
LossIsLeak ==
    \A r \in accepted :
        \/ r \in UNION {Elements(delivered), InRing, evicted, Unsealed,
                        Elements(DrainHeld \o overflow_queue)}
        \/ \E i \in SlotIds : Leaked(i) /\ taker[i] = r

\* read() returns no record twice, whatever moves through the overflow queue
\* and however sequence numbers are reused.
AtMostOnce ==
    \A j, k \in 1 .. Len(delivered) :
        delivered[j] = delivered[k] => j = k

\* Records of one producer that never overflow are read in the order of its
\* calls, as long as no reservation is dropped uncommitted.  (A drop frees a
\* slot below prod_seq; a thread that loaded prod_seq before can take it, and
\* its store then turns prod_seq back.)
ProducerOrder ==
    \A j, k \in 1 .. Len(delivered) :
        /\ j < k
        /\ ~released
        /\ delivered[j][1] = delivered[k][1]
        /\ {delivered[j], delivered[k]} \cap Elements(overflowed) = {}
        => delivered[j][2] < delivered[k][2]

IsSuffixOf(s, full) ==
    \E k \in 0 .. Len(full) : s = SubSeq(full, k + 1, Len(full))

\* The overflow queue stays within max_overflow, keeps the newest of the
\* records pushed, and keeps them in order across pops and put-backs.
OverflowKeepsNewest ==
    /\ Len(DrainHeld \o overflow_queue) <= MaxOverflow
    /\ IsSuffixOf(DrainHeld \o overflow_queue, overflowed)

\* The consumer never sleeps on data: while it waits, the flag is down and a
\* readable head slot has a producer on its way to notify_consumer.
NoLostWakeup ==
    pc[Consumer] = "waiting" =>
        /\ ~ready
        /\ IsReadable(physical_index(cons_seq), cons_seq) =>
              \E t \in Threads : pc[t] \in {"seq", "notify"}

\* The production sequence never goes back: the plain store after the
\* compare-exchange is never overtaken.
NoRollback == [][prod_seq' >= prod_seq]_prod_seq

\* Reserved slots are exactly the first prod_seq ones and the one whose taker
\* is about to store prod_seq + 1: the counter and the slot states agree up to
\* the one store in flight, and usage_percent() stays within 100 percent.
ProdSeqExact ==
    /\ prod_seq <= Capacity
    /\ \A t \in Threads : pc[t] = "store" => my_seq[t] = prod_seq
                                              /\ prod_seq < Capacity
    /\ \A i \in SlotIds :
          slot_state[i] # "Empty" <=>
              \/ i < prod_seq
              \/ i = prod_seq /\ \E t \in Threads : pc[t] = "store"

\* write() never blocks for ever: while the ring stays full it gives up and
\* gets the overflow queue's lock, which read() holds across the reservations
\* of its own drain.
WriteReturns ==
    \A p \in Producers :
        (pc[p] = "load" /\ op[p] = "write") ~> (pc[p] = "idle")

=============================================================================
