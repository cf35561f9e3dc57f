# A TLA+ model of the Sherlog ring buffer

Sherlog is a logging library in Rust: application threads put records into a
ring buffer in memory, a flush daemon moves them to a ring buffer in a mapped
file, and readers take them from there, directly or through a cursor.  This
directory holds TLA+ modules of the two rings, the cursor, the daemon and the
process around them, the TLC configurations that check them on small instances,
and TLAPS proofs of the properties that matter most.

Source files are named relative to the crate: `memory/volatile.rs` is
`src/memory/volatile.rs` of the repository.  Numbers in parentheses are lines.

## 1. Inventory

| Component | State | Operations | What makes it correct |
|---|---|---|---|
| Volatile ring (`memory/volatile.rs`, `memory/mod.rs`) | slots with state and sequence number, slot bytes, `prod_seq`, `cons_seq` | `reserve`, `write`, `read`, `usage_percent` | a slot has one writer; a record whose `write` returned is read once, in its producer's order, or is known to have been evicted; space is given back |
| Reservation (`memory/volatile.rs`) | slot, sequence number, handle on the buffer | `write`, `commit`, drop | commit publishes, drop releases |
| Overflow queue (`memory/volatile.rs`) | bounded queue behind a lock | push by `write`, pop and put-back by `read` | bounded, newest records kept, in order |
| Consumer signal (`memory/volatile.rs`) | flag, mutex, condition variable | `notify_consumer`, `wait_for_data` | no lost wake-up |
| Persistent ring (`disk/persistent.rs`) | mapped region, control block in memory and in the file | `new`, `write`, `read_at`, `read_all`, `reset_read_position`, `flush` | positions in range; undamaged records readable; read once and in order; reopening works |
| Control block, header (`disk/mod.rs`) | positions, lap counter, CRC; size, CRC, marker | `update_crc`, `verify_crc`, `is_valid` | a stored block verifies |
| Cursor (`disk/cursor.rs`) | offset and lap, `at_end` | `new`, `next`, `read_batch`, `seek_to`, `seek_to_end`, `commit` | consecutive records, terminating reads, an honest `at_end` |
| Flush daemon (`lib.rs`) | running flag, batch size | start, stop, loop | what `read` returns reaches the file |
| Global instances (`lib.rs`) | two `OnceCell`s | `init_*`, `get_*`, `write`, `reserve` | all callers share one buffer |
| iOS and JNI bindings (`ios/mod.rs`, `jni/mod.rs`) | daemon handle (mutex; `static mut`) | initialize, shutdown, forwarding | one daemon, shutdown ends |

Producers, the consumer and the overflow queue share the volatile ring without
a lock on the slots: ownership passes by compare-exchange on the slot state and
by plain stores of sequence numbers.  The persistent ring serialises `write`,
`read_all` and `reset_read_position` by the control lock, but `read_at` takes
the mmap lock only, and a cursor combines two such accesses without a lock in
between.  The hard behaviours are therefore: interleavings of producers with
stale values of `prod_seq`; the notification protocol; the competition of the
overflow drain with producers; records cut by the next lap of the ring; a cursor
overtaken by the writer; the end of the process between two calls or inside one.  The daemon
is the consumer of the first ring and a writer of the second; it decides on a
usage and a running flag that are old when it acts on them.  The bindings start
and stop it from any thread, on iOS with its handle behind a mutex, in the JNI
binding with a `static mut`.  The list with source lines is `hazards` in
`PROJECT.json`.

## 2. Modules

| Module | Extends | Models |
|---|---|---|
| `VolatileRing` | | volatile ring, reservation, overflow queue, consumer signal |
| `VolatileRingProofs` | `VolatileRing` | its inductive invariant; types, slot ownership |
| `VolatileRingAsCoded` | `VolatileRingProofs` | the counter when reservations hold a clone |
| `VolatileRingRecords` | `VolatileRingProofs` | theorems about records: what can be lost, once, in order, announced |
| `PersistentRing` | | persistent ring, control block, header, the end of the process and reopening |
| `PersistentRingProofs` | `PersistentRing` | positions, integrity of records |
| `PersistentLogProofs` | `PersistentRingProofs` | what `read_all` returns; the refinement of `LogWindow` |
| `LogWindow` | | abstract specification of the persistent ring: a log with a window |
| `PersistentCursor` | `PersistentRing` | a cursor with other threads on the ring; `readAllLogs` of the Swift interface |
| `PersistentCursorProofs` | `PersistentCursor`, `PersistentLogProofs` | theorems about the cursor and `readAllLogs` |
| `FlushDaemon` | `VolatileRing` | the flush daemon as consumer of the volatile ring, the disk as a sequence |
| `FlushDaemonProofs` | `FlushDaemon`, `VolatileRingRecords` | the daemon implements the ring; what is on disk |
| `Lifecycle` | | global instances, starting and stopping daemons, the bindings' calls |
| `LifecycleProofs` | `Lifecycle` | types, one log, ownership of the handle, one daemon at a time |
| `MC*` | one of the above | sets and symmetry for TLC |

### VolatileRing

One action is one atomic access or one critical section.  A thread's `pc` walks
through the code:

* `reserve`: `LoadProdSeq` (187), `TryTransition` (194-242, the check of the
  state and the compare-exchange), `StoreProdSeq` (200), `ReserveSetSeq` (203);
* the reservation: `WriteData` (51), `CommitTransition` (78), `CommitSetSeq`
  (82), `NotifyConsumer` (285), or `DropReservation` (92);
* `write` when `reserve` gives up: `QueuePush` (263-273);
* `read`: `ReadBegin`, `ScanReady`, `Recycle`, `ScanStop`, `PublishConsSeq`,
  `LockQueue`, `DrainNext`, `PutBack`, `DrainDone` (326-406).  The drain runs
  the same `reserve` and `commit` steps, as thread `Consumer`;
* `wait_for_data`: `WaitForData`, `Woken`, `Timeout`, `TimedOut` (297-319).

A record is the pair of its producer and the number of the call, so equality
of records is identity.  `delivered`, `accepted`, `overflowed`, `evicted`,
`taker` (the record a slot was last reserved for) and `released` (a reservation
was dropped) are history variables.  `Unsealed` are the records whose header a
client of `reserve` left without its CRC, as `test_crc_integrity` does: `read`
consumes them and does not return them (364).  `MaxTries`
stands for the eleven spins of a non-blocking call; the value does not matter,
since every attempt that fails is the same step.

**The handle of a reservation.**  `reserve` stores `Arc::new(self.clone())` in
the reservation (210), and `clone` (431) builds a new, empty buffer that shares
nothing but the consumer signal.  The field's comment says "Reference to the
parent buffer", and every test relies on that.  The constant `SharedHandle`
selects between the two: FALSE is the code as written, TRUE is the documented
handle, with every other line of the code the same.

With FALSE nothing written through a reservation reaches the ring: `read` returns
no record, nobody is notified, and the overflow queue is never drained.  Many
questions about slots, sequence numbers and notifications have an empty answer
then.  The runs `VR_shared` and `FD_daemon` ask them with TRUE, to check the rest
of the protocol and to find what a repair of the handle would lay bare.  Only
properties that the code as written has too are checked there: `TypeOK`,
`SlotOwnership`, `LossIsLeak`, `AtMostOnce`, `NoLostWakeup`, `ProducerOrder`,
`OverflowKeepsNewest`, `DaemonTypeOK`, `DiskHoldsPrefixes` and `NoErrorNoLoss` are
proved for both values, some of them being about nothing with FALSE, and
`FD_daemon` passes with FALSE as well, `WriteReturns` and `StopEndsDaemon`
included.  Nothing is claimed to be delivered, and no space to be released.  The
code as written has runs of its own, `VR_code` and `VR_code_loss`.

### PersistentRing

The region is `Size` units; a record takes `HeaderSize` units for its header
and one for each unit of payload.  The first header unit stands for size and
CRC, the last for the marker, which is how the 24 bytes are laid out.  A unit
knows which record and which place of it was written there last, so "the CRC
matches" is "all units of the record are in place", and a header whose front
was overwritten shows a valid marker with a meaningless size: `ReadAt` then
yields either of the outcomes that code has for it.  `write` and
`reset_read_position` are single steps because they hold the control lock and
write the map under the mmap lock; `read_all` is one step per `read_at`.  What
another process start would see of an unfinished `write` is `DieInWrite` (below).

The checksum of the control block is modelled by which bytes it covers.  The
structure is 48 bytes with four bytes of tail padding, and both functions hash
the first 44, which include the `crc32` field itself: the digest of a block
depends on the digest stored in it.

The final `mmap.flush()` of a call may fail.  In `write` and
`reset_read_position` that changes nothing that a model of the state can see; in
`read_all` the read position has moved and the caller gets no records
(`ReadAllFlushError`).

**The abstract log.**  `LogWindow` says what the ring promises: entries are
appended, a window of the newest can be read back, an append may push only the
oldest out, nothing else changes the window, and the consumer is given entries
of the window in order and at most once.  `PersistentRing!Abstract` maps the
lengths written to the entries, the records the ring has not come round to
(`Live`) to the window, and what `read_all` returned to the consumed entries.
`ImplementsLog` is the refinement.  Together with `LiveReadable`, which says that
the window can indeed be read, it is the contract of the ring.

`Close` is the end of the process outside `write`, orderly or by a crash: the
pages of a shared mapping belong to the file.  `DieInWrite` is its end inside
`write`, between the first byte copied (200) and the copy of the control block
(220): the file has the old positions and some units of the new record, which
`torn` remembers.  `LiveReadable` says that no record but those in their way is
damaged.  In `read_all` and `reset_read_position` nothing but the control block
changes, so that an end before its copy leaves the file as it was.  A crash of
the machine, and an end in the middle of copying the control block, are not
modelled.  `Open` is `new` on such a file.

### PersistentCursor

The cursor's client runs concurrently with everything else the ring does.
`next` is `NextRead` (the `read_at` under the mmap lock), then `NextSome` or
`NextNone` (the `control_block()` after it, which needs the control lock).
`read_batch` repeats it; `commit` is `CommitCheck` and `CommitReset`.  `CursorNew`
and `SeekTo` take any offset of any lap up to the one after the ring's
(`Positions`), inside a record, past the write position or in the future;
`new` uses them as they are, `seek_to` clamps.  Offsets saturate at `Beyond`, past
which all offsets behave alike; those near 2^64, where an addition would
overflow, are excluded.

The client calls these functions in any order, or it runs `readAllLogs` of the
Swift interface that `ios/mod.rs` generates (290-300): `SwiftReadAllLogs` creates
a cursor, `SwiftReadNext` and `SwiftReadNextReturn` are the calls of
`readNextRecord`, which turns an error into nil (154), and `SwiftCommitCursor`
commits.  What the calls of this one thread hand out before the first wrap is
recorded in `handed`.  `readAllLogs` takes no lock, so other threads may run it
meanwhile: their reads change nothing and their commits are
`ResetReadPosition`, which `RingNext` allows at any moment.

### FlushDaemon

The daemon drives the consumer's actions of `VolatileRing`; producers and ring
are those of that module, unchanged.  `stage` is the place in the loop of
`lib.rs` 163-220: `LoadRunning` (163), `TakeUsage` (165-183), `DaemonWait` and
`NothingToFlush` (184, 217), `FetchBegin`, `FetchStep`, `FetchEnd` (188),
`WriteToDisk`, `DiskError`, `BatchDone` (195-214).  Percentages are compared in
integers, multiplied out.  The disk is the sequence of records whose bytes
reached the persistent ring; a failed write may or may not have put its record
there.  That a write goes where it should is the subject of `PersistentRing`.

### Lifecycle

A buffer is only its identity here: the number of its creation, or its path.
Threads call `initialize`, `shutdown`, `write`, `createCursor` and `closeCursor`;
`initialize` is the sequence `init_memory_buffer`, `init_persistent_buffer`,
`RaiseRunning`, `SpawnDaemon` and the store of the handle.  `init_persistent_buffer`
is `OpenBufferFile` (the look at the file's length, `persistent.rs` 80) and
`CreateBuffer` (its set-up and the cell), so two calls can find one file empty
and both set it up; the cell keeps one of the two buffers.  The two bindings
differ in that store and in `take`: one step under the mutex on iOS
(`StoreHandle`, `TakeHandle`, with the mutex held during the join), a read and a
write in the JNI binding (`LoadOldHandle`, `AssignHandle`, `LoadHandle`,
`ClearHandle`).  A daemon alternates between looking at the flag and a pass of
its loop.  A panic that leaves a function called from Swift or Java ends the
process (`Abort`).  `overlapped` records whether clients have used the library in
a way the bindings do not order: `initialize` on a library that is started or
beside another call, and with JNI any two calls at a time.

## 3. Runs

| Run | Instance | Checks | Result |
|---|---|---|---|
| `VR_shared` | documented handle, 2 producers, 2 slots, overflow 1, 2 calls each, all calls, drops, panics, one record without CRC | `TypeOK`, `SlotOwnership`, `LossIsLeak`, `AtMostOnce`, `NoLostWakeup`, `ProducerOrder` | hold |
| `VR_code` | as written, 2 producers, 4 slots, overflow 1, 3 calls each, timeouts | `ProdSeqExact`, `SlotOwnership`, `LossIsLeak`, `NoRollback` | hold |
| `VR_code_loss` | as written, 1 producer | `NoSilentLoss` | violated |
| `PR_ring` | 8 units, payloads 0, 1, 3, 6 writes, flush errors, ends of the process, fair | `TypeOK`, `LiveReadable`, `ReturnedOrder`, `FirstLapExact`, `ReadAllTerminates`, `ImplementsLog` | hold |
| `PR_readall`, `PR_reopen` | 6 units | `ReadAllComplete`; `Reopens` | violated |
| `PC_cursor` | 4 units, payloads 0, 1, 3 writes, batches of 2, every position, fair | `CursorTypeOK`, `CursorContiguous`, `LogsOncePerThread`, `NextReturnsInLap`, `AtEndInLap`, `NoBatchDropped` | hold |
| `PC_wrap`, `PC_commit` | 4 units; 6 units | `NextReturns`; `CommitsPosition` | violated |
| `FD_daemon` | documented handle, 1 producer, 2 slots, overflow 2, 5 writes, one record without CRC, watermark 50, batch 2, timeouts, disk errors, stop, fair | `DaemonTypeOK`, `DiskHoldsPrefixes`, `NoErrorNoLoss`, `OverflowKeepsNewest`, `WriteReturns`, `StopEndsDaemon` | hold |
| `LC_calls` | 2 threads, 2 paths, 4 calls, both bindings, fair | `TypeOK`, `OneLog`, `HandleOwnedOnce`, `OneFlusher`, `CallsReturn` | hold |
| `LC_path` | the same with 2 calls | `TempReplaced` | violated |

**Bounds.**  Two producers are enough for every race between a producer's load,
its compare-exchange and its store; the drain adds a third thread that
reserves.  Two slots with four records make every slot be recycled, so stale
sequence numbers occur.  `VR_code` has four slots because without recycling the
question is how calls fill the ring.  In `PR_ring` six records of 2, 3 and 5
units in 8 units give up to three laps, records that end exactly at the end of
the region, and cuts at every offset of a header and a payload.  The cursor
runs need wraps after the cursor was placed and headers cut by them: each
record of 2 or 3 units to 4 units wraps or fills the region.
For the daemon five calls over two slots fill the ring, put two records into a
queue of two, evict one, and let the drain pop one record, fail and put it back
before another; the batch of two can be adapted to one, so that a `read` returns
more than is written.  A wait may time out between any two steps of a call.
Four calls of two threads give initialize, shutdown and initialize again beside
a fourth call.  The proofs carry the safety properties to all other sizes.
Producers are interchangeable in `VR_code`, hence its symmetry.

**Deadlock** is checked except in the runs where the system may stop: in
`VR_shared` and `VR_code_loss` a consumer without timeout waits for ever when the
producers have made their calls, in `FD_daemon` the daemon ends, in `LC_*` the
threads have made their calls or a panic has ended the process.

**Fairness.**  `PersistentRing!FairSpec` has weak fairness for a running
`read_all`: threads are scheduled.  `FairCursorSpec` has strong fairness for the
cursor's steps, because they wait for the control lock that other threads take
again and again, and parking_lot's locks are eventually fair; no fairness for
writes.
`FairDaemonSpec` has weak fairness for the daemon's thread, whose waits time
out, and strong fairness for the calls that producers have begun, because they
wait for the lock of the overflow queue (of parking_lot too), which the daemon
takes again and again; nobody has to call, to stop the daemon or to fail a
write.  `Lifecycle!FairSpec` has weak fairness for each thread inside a call and
for each daemon.

**Violated runs** state what a comment or a test of the repository says, and the
finding in `PROJECT.json` quotes it.  In short: a reservation's handle is a
copy, so records are lost, slots leak and blocking callers hang; the control
block's checksum covers itself, so a file is never opened again; `read_all` does
not follow the ring round; `next` never returns for a cursor of an earlier lap;
`commit` moves the read position to the write position instead of the cursor's;
a temporary file that a cursor has opened is never replaced.

Further facts, seen with other instances of the same modules.  About the
volatile ring as written:

* `commit` on the clone always fails, so nothing is notified and `read` returns
  nothing; the ring is full after one record per slot, and all later ones go to
  the overflow queue, which keeps the newest and is never drained.  A blocking
  `reserve` hangs from then on ("Blocking reservation should eventually succeed",
  `tests/memory_buffer_tests.rs` 275).  What is lost is bounded by `LossIsLeak`.

About the same ring with the documented handle, faults that a repair of the
handle alone would lay bare:

* With two producers `NoRollback` fails: a producer delayed between load and
  store for a lap puts an old number back.  `VR_shared` asks whether anything is
  duplicated or reordered in spite of it; nothing is, and that is proved.
* With two producers a committed record may never be read: `commit` stores the
  sequence number a second time after the slot is Ready (82).  When the consumer
  has recycled the slot and another producer has filled it before that store,
  the newer record gets the older number, no `read` accepts it, and the ring
  stands still behind it.  The drain of the overflow queue is such a second
  producer.  `test_concurrent_writers` would meet this.
* With timeouts `NoLostWakeup` fails: the path that times out clears the flag of
  a producer that has just set it.  The daemon makes up for it when usage has
  reached the watermark; below it the record stays until the next write.
* A record queued just after `read` emptied the ring stays in the overflow queue
  until a later write, since queueing does not notify.
* A dropped reservation leaves a sequence number without a record, at which the
  consumer stops for ever, unless a thread that had loaded that number before
  takes the slot; then the order of a producer's calls may be lost (section 4).
* `read` consumes a record without its CRC and does not return it, although
  `test_crc_integrity` expects it ("The record is still read").
* The daemon drops what `read` returned beyond its batch size (`lib.rs` 195).
  `NoErrorNoLoss` says which places of a batch are concerned: those beyond half of
  `max_records_per_flush`.  With twice the capacity there would be none, but the
  bindings configure 100 for rings of thousands of slots, and the tests are no
  different.

About the persistent ring and the cursor:

* A new cursor pairs a read position of the last lap with the current lap
  counter (`cursor.rs` 62).  After a record of the last lap it can meet the write
  position by accident and report the end with the current lap unread; that is
  why `AtEndInLap` speaks of records of the current lap.
* The commit of `readAllLogs` also skips a record written between its last
  `readNextRecord` and the commit: that record is never handed out.
* Two threads in `readAllLogs` at the same time start from the same read
  position and hand out the same records; `LogsOncePerThread` is about one.
* An error in `read_batch` does drop records of the last lap that were collected
  before it (`NoBatchDropped` is about the current lap).
* After a wrap the commit of `readAllLogs` is refused, its offset being beyond
  the write position, and the next call hands out the tail of the last lap
  again.  That is why `handed` stops at the first wrap.

About the process:

* On iOS `shutdown` may hang: an `initialize` in another thread raises the flag
  again while `shutdown` joins the old daemon with the mutex locked, and then
  waits for the mutex.  `CallsReturn` therefore excludes overlapping calls.
* Two overlapping calls of `initialize` leave a daemon without a handle, which
  runs beside the next one; the two can write batches in another order than the
  ring had them.
* A cursor created before `initialize` panics when an earlier process left the
  temporary file.
* Two `initialize` calls with a path that does not exist yet may both set the file
  up.  One buffer stays in the cell, but the other call may write a fresh
  control block over the first one's.
* A second `initialize` with the same path panics, because the file is refused.

## 4. Proofs

All proofs are checked by TLAPS for every value of the constants that satisfies
the named assumptions.

**VolatileRingProofs** (assumptions: capacity a positive power of two, the
consumer is not a producer, bounds are natural numbers, `NoRecord` is no
record).  `IInv` strengthens `TypeOK /\ SlotOwnership` by `HasRecord` (a thread
inside a reservation carries a record), `ReadyHasData` (a Ready slot holds a
record; without it delivery is not well typed) and `RecycleConsumed` (the slot
being recycled is Consumed, so that recycling does not take a slot from its
owner).  `Invariance` proves `Spec => []IInv` action by action; `TypeCorrect` and
`Ownership` follow.  Ownership needs no fact about sequence numbers at all: the
compare-exchange alone carries it, which is why stale loads do no harm to it.

**VolatileRingAsCoded** (additionally `~SharedHandle`).  Since nothing becomes
Ready, slots are only ever taken, in order.  `CodeInv` adds `OnlyReserved` (slots
are Empty or Reserved) and `LoadedNotAhead` (no thread holds a number beyond
`prod_seq`) to `ProdSeqExact`: a thread whose compare-exchange succeeds at a
stale number would have found the slot taken, so its number is current and its
plain store only increments.  `CounterExact` and `CounterMonotone` follow.

**VolatileRingRecords** (same assumptions) follows a record from the call that
brings it to the `read` that returns it.  `RInv` is `IInv` with six parts:

* `OwnInv`: a written reservation holds its caller's record, and the slot a thread
  owns was last taken for that record (`OwnTaker`).
* `PlaceInv`: a record is in one place only, the hand of one thread, the
  overflow queue, a Ready slot, or what was delivered.  None of these facts is
  inductive alone, since each move of a record takes it from one place to the
  next; new records differ from all others because they carry the number of a
  call not made before (`AllNumbered`).  It gives `DeliveredOnce`.
* `KeepsNewest`: the queue, and before it the record a drain has taken, agree
  place by place with the end of what was pushed.  This index form is what an
  eviction, a pop and a put-back preserve; `OverflowNewest` follows.
* `LossInv`: what was accepted, and what a writer is about to announce, is in one
  of those places, evicted, without its CRC, or the last taker of a leaked slot.
  A leaked slot stays leaked (`LeakStaysStep`): it is never Empty for a new taker
  and no handle that is left reaches it.  It gives `LossBounded`, for both values
  of `SharedHandle`; with the documented handle no slot leaks.
* `WakeInv`: outside a scan a readable head slot is announced, by the flag or by
  a producer before `notify_consumer`.  During a scan the same is said of slots
  that were filled again behind it (`BehindScan`), because a scan of a full lap
  ends at a number whose slot it has recycled itself.  It gives `WakeupKept`.
* `OrderInv`: every number in use lies beyond slots that are all taken
  (`Filled`), and the records that the scan can still reach (`Live`) are numbered
  in the order of their producers' calls and come after what was read.  A stale
  number is harmless for the order although it makes `prod_seq` go back: the
  slot of a number at or beyond the scan was Empty, so all numbers of the
  producer's earlier live records are smaller.  A late `set_seq` of `commit`
  writes either its own number or one behind the scan (`SeqHolds`, `SeqStored`).
  It gives `ReadInCallOrder`.

None of these has a hypothesis on `SharedHandle`.  `WakeupKept` has
`~AllowTimeout`, as its run has.

**PersistentRingProofs** (assumptions: header of at least two units, natural
sizes, `Blank` is no unit of a record).  `PInv` is `TypeOK`, equality of the two
control blocks, `Placed` (records lie inside the region, those of the current
lap below the write position) and `Intact` (a record of the current lap, or of
the last one at or beyond the write position, that no unfinished write has
reached is in place unit by unit).  The
write step is the heart: the units written lie behind every record of the last
lap that stays live and beyond every record of the current lap, unless the ring
wraps, when the current lap becomes the last one.  `TypeCorrect`
and `LiveRecordsReadable` follow; `ReadAtHolds` connects being in place with the
result of `read_at`.  `NeverVerifies` is the fact behind `Reopens`: no control
block matches its checksum, so a region with an unfinished write is never
written again.

**PersistentLogProofs** (same assumptions).  `LogInv` adds `LayoutInv` to `PInv`:
records lie lap by lap and one behind the other (`LogOrdered`), and those of the
current lap fill the region below the write position without a gap (`Tiled`).
`Tiled` is what shows that a record `read_all` finds below the write position is
of the current lap.  `ReadInv`
says where `read_all` is: what it returned of the current lap ends below the read
position (`Taken`), what a running call has collected is of the current lap and
in order (`Collected`), and before the first wrap positions lie on borders of
records (`FirstLap`).  `ReturnedInOrder` and `FirstLapComplete` follow.
`RingImplementsLog` is the refinement of `LogWindow`.  The step to show is that a
`write` takes only the oldest records out of the window: the least record that
stays live exists by the well-ordering of the numbers (`NatMin`), and with
`LogOrdered` every later one stays too.

**PersistentCursorProofs** (additionally the bound on batches is positive).
`CursorInv` is `LogInv` with `CellsPlaced` (every unit of the region lies where its
record was written, so `read_at` at an offset can find only the record that
starts there), `Contiguous` (the cursor stands at the end of the last record it
returned of the current lap, and another one follows unless `at_end` is set)
and, for `readAllLogs` before the first wrap, `HandedBelow` and `HandedInOrder`
(what was handed out lies in order below the cursor, and below the read position
once the call has committed).  `Contiguous` is about what was returned together
with what the running `next` has found: between the two critical sections of
`next` the ring may move on, and the invariant says what stays true then.
`CursorTypeCorrect`, `CursorReadsConsecutive`, `ThreadGetsLogsOnce`, and the action
properties `AtEndMeansNewest` and `NoCurrentRecordDropped` follow; the last one
because `read_at` cannot fail where `Contiguous` says that a record follows.

**FlushDaemonProofs** (the assumptions of the ring and a positive batch size).
`RingSteps` shows that each step of the system is a step of `VolatileRing` or
leaves the ring alone; hence `DaemonImplementsRing`, `DaemonSpec => Spec`, and
`RInv` holds under the daemon.  `DaemonInv` adds `FetchCount` (a `read` has
returned at most one record for each slot it has consumed, hence for each slot of
the ring), `DiskInv` (what is on disk was read, in that order, and without a
hole inside a batch), `BatchInv` (a batch is a run of what was read, and the one
being written is on disk up to the next record) and `PassedWritten` (without an
error, what the daemon is done with is on disk or stood beyond half the
configured size in its batch).  Because
no record is delivered twice (`AtMostOnce`), a record has one index in
`delivered`, and order on disk and between batches becomes order of indices.
`DaemonTypeCorrect`, `DiskKeepsPrefixes` and `LossBeyondBatch` follow; the last one
rests on the batch size never being below half the configured one, whatever the
usage was.

**LifecycleProofs** (assumption `CallersAssumption`: `Nobody` is no thread and
no path, the temporary file is not one of the clients' paths, files left over
are among these, the bound on calls is a natural number).
`LInv` strengthens `TypeOK`, `OneLog` and `HandleOwnedOnce` by `Prepared` (a
thread that has come to a step of `initialize` finds filled the cells that the
step uses; without it a daemon could start on a buffer that does not exist) and
`Exclusive` (with the mutex no thread is between the halves of an unlocked access,
and a daemon just spawned is known to its spawner only; without it storing the
handle could give a daemon a second owner).  The key fact is `Kept`: no step
empties a `OnceCell` or exchanges what is in it.  `TypeCorrect`, `SharedLog` and
`HandleOwnership` follow.  `SingleFlusher` rests on a second invariant, `Orderly`,
for clients whose calls do not overlap a start: `InitializeAlone` (nobody else is
inside a call while the library starts), `OthersWait` (with the mutex the thread
that joins holds it, without it every call runs alone) and `Traced` (the live
daemon is the one that the handle, or the thread at work on the handle, refers
to).  Only `SpawnDaemon` adds a live daemon, and it runs where `Traced` says
that there is none.

**Only model-checked**: liveness (`ReadAllTerminates`, `NextReturnsInLap`,
`WriteReturns`, `StopEndsDaemon`, `CallsReturn`), which the prover does not do
under fairness.  Every invariant of a passing run, and every action property and
refinement, is stated by a theorem.

**What the proofs changed.**  Two properties that held in the instances of the
runs turned out not to be provable, and larger instances showed why:

* `ProducerOrder` failed after a dropped reservation (4 slots, 2 producers, 4
  calls of `reserve`): the drop frees a slot below `prod_seq`, a thread with an
  older `prod_seq` takes it and stores that number plus one, and later records
  of a producer get smaller numbers than its earlier ones.  It is now stated
  for behaviours without a drop, which the history variable `released` records.
* `CursorContiguous` failed for a cursor placed at a read position of the last
  lap (8 units, payloads 0 and 2, 6 writes): its first records may be of that
  lap, and it jumps from them into the current one.  It is now stated from the
  cursor's first record of the current lap on.

`DiskHoldsPrefixes` is stated by indices instead of a filtered sequence, with
the same meaning.

## 5. What is left out

* Weak memory: atomics are sequentially consistent.  The `Relaxed` load of
  `prod_seq` can in addition be stale; a stale value is one that an earlier
  load of the same thread could have returned, and `LoadProdSeq` and
  `TryTransition` are separate steps.
* Wrap-around of the 64-bit counters and lap counter.
* Clients that write after commit or never write a reservation before
  committing it; payloads that contain the marker; CRC collisions.
* Errors of the operating system, other than a failing flush or write: opening
  and mapping the file, spawning a thread.  The end of the process while a new
  file is being set up or in the middle of the copy of the control block, and a
  loss of power.  What a second set-up of the same new file does to records
  already in it.
* Cursor offsets so large that adding a header overflows 64 bits.
* The library's functions called directly, without a binding: `init_*` returns
  its own buffer even when the global one is another, which the bindings ignore.
* In the bindings the conversion of strings, records and objects, and a cursor
  pointer shared by several Java threads.
* Time: an interval is a timeout that may expire at any moment.
* The Swift demo, the usage example and the Kotlin and Swift interface texts,
  apart from `readAllLogs`: clients without logic of their own.

## 6. Plan

Done: the volatile ring, the persistent ring with its abstract specification,
the cursor, the flush daemon on the volatile ring, the process with both
bindings; theorems for every invariant of the passing runs, for the action
properties of the cursor and for the refinement of `LogWindow`.
Left, in this order:

1. An abstract bounded queue that `VolatileRing` implements with one producer
   once reservations refer to their parent.
2. Facts about the states that precede the violations, such as what `read_all`
   does return after a wrap, as theorems.
