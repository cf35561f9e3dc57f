-------------------------- MODULE PersistentCursor --------------------------
(***************************************************************************)
(* The cursor of src/disk/cursor.rs on the persistent ring: a client reads *)
(* batches through its cursor while other threads write, read and reset.   *)
(* Cursor::next holds no lock from one of its accesses to the next, so a   *)
(* read_at and the control_block() after it are separate steps.            *)
(*                                                                         *)
(* The client is one thread.  It uses the cursor as it likes, or runs      *)
(* readAllLogs of the Swift interface in src/ios/mod.rs: a new cursor,     *)
(* readNextRecord until it returns nil, commitCursor.  readAllLogs takes   *)
(* no lock, so other threads may run it at the same time: all it does to   *)
(* the ring is reset_read_position, which RingNext allows at any time.     *)
(*                                                                         *)
(* next() is read_batch(1).  Offsets are kept up to Beyond: all larger     *)
(* ones compare alike with the positions of the ring and read nothing.     *)
(***************************************************************************)
EXTENDS PersistentRing

CONSTANTS
    MaxBatch        \* largest max_count given to read_batch

ASSUME MaxBatchAssumption == MaxBatch \in Nat \ {0}

VARIABLES
    position,       \* position: offset and wrap_count
    at_end,         \* at_end
    call,           \* where the cursor's client is
    found,          \* next(): the record read, before at_end is updated, or 0
    remaining,      \* read_batch: records still asked for, 0 outside it
    batch,          \* read_batch: records collected
    received,       \* history: records returned since the cursor was placed
    client,         \* readAllLogs: "read", then "commit"; "free" outside it
    handed          \* history: what the client's calls of readAllLogs got
                    \* before the first wrap

cursorVars == <<position, at_end, call, found, remaining, batch, received>>
clientVars == <<client, handed>>
allVars == <<vars, cursorVars, clientVars>>

Beyond == Size + HeaderSize

Saturate(n) == IF n > Beyond THEN Beyond ELSE n

Position(o, n) == [offset |-> o, wrap_count |-> n]

\* Mutant: the end is where no header fits before the write position.
AtWritePos_Early(pos) == /\ pos.offset + HeaderSize >= control.write_pos
                         /\ pos.wrap_count = control.wrap_count

AtWritePos(pos) == /\ pos.offset = control.write_pos
                   /\ pos.wrap_count = control.wrap_count

\* Place the cursor; the history of what it returned starts anew.
PlaceAt(pos, end) ==
    /\ position' = pos
    /\ at_end' = end
    /\ received' = <<>>
    /\ UNCHANGED <<vars, call, found, remaining, batch>>

CursorInit ==
    /\ Init
    /\ position = Position(0, 0)
    /\ at_end = TRUE
    /\ call = "idle"
    /\ found = 0
    /\ remaining = 0
    /\ batch = <<>>
    /\ received = <<>>
    /\ client = "free"
    /\ handed = <<>>

-----------------------------------------------------------------------------
\* Positions a client may ask for: any offset in any lap.  (Bound: laps up to
\* the one after the ring's; later ones compare alike.)
Positions ==
    {Position(o, n) : o \in 0 .. Beyond, n \in 0 .. control.wrap_count + 1}

\* Cursor::new: None is the buffer's read position; a position that is given
\* is used as it is, one of the future too.
CursorNew ==
    /\ call = "idle"
    /\ Unlocked
    /\ \E pos \in Positions
                   \cup {Position(control.read_pos, control.wrap_count)} :
          PlaceAt(pos, AtWritePos(pos))

InFuture(pos) == \/ pos.wrap_count > control.wrap_count
                 \/ /\ pos.wrap_count = control.wrap_count
                    /\ pos.offset > control.write_pos

\* seek_to: the future is clamped to the end, an earlier lap to the start of
\* the current one, whose write position is then not 0.
SeekTarget(pos) ==
    IF InFuture(pos) THEN Position(control.write_pos, control.wrap_count)
    ELSE IF pos.wrap_count < control.wrap_count
    THEN Position(0, control.wrap_count)
    ELSE pos

SeekTo ==
    /\ call = "idle"
    /\ Unlocked
    /\ \E pos \in Positions :
          PlaceAt(SeekTarget(pos), AtWritePos(SeekTarget(pos)))

SeekToEnd ==
    /\ call = "idle"
    /\ Unlocked
    /\ PlaceAt(Position(control.write_pos, control.wrap_count), TRUE)

-----------------------------------------------------------------------------
(* read_batch and next.                                                    *)

ReadBatch ==
    /\ call = "idle"
    /\ status = "open"
    /\ remaining' \in 1 .. MaxBatch
    /\ batch' = <<>>
    /\ call' = "next"
    /\ UNCHANGED <<vars, position, at_end, found, received>>

\* The batch is full, or next() finds at_end set and returns None.
ReadBatchReturn ==
    /\ call = "next"
    /\ remaining = 0 \/ at_end
    /\ call' = "idle"
    /\ received' = received \o batch
    /\ batch' = <<>>
    /\ remaining' = 0
    /\ UNCHANGED <<vars, position, at_end, found>>

\* Mutants: the cursor moves by the payload only, by two headers, one unit
\* short.
Advance_NoHeader(w) == position.offset + log[w].len

Advance_TwoHeaders(w) == position.offset + Extent(w) + HeaderSize

Advance_Short(w) == position.offset + Extent(w) - 1

Advance(w) == position.offset + Extent(w)

\* read_at under the mmap lock alone.  An error is returned at once: the
\* records collected so far are dropped, the cursor stays behind them.
NextRead ==
    /\ call = "next"
    /\ remaining > 0
    /\ ~at_end
    /\ status = "open"
    /\ \E r \in ReadAt(position.offset) :
          \/ /\ r.kind = "Some"
             /\ found' = r.rec
             /\ position' = [position EXCEPT !.offset = Advance(r.rec)]
             /\ call' = "some"
             /\ UNCHANGED <<batch, remaining>>
          \/ /\ r.kind = "None"
             /\ position' =
                  [position EXCEPT !.offset = Saturate(@ + HeaderSize)]
             /\ call' = "none"
             /\ UNCHANGED <<found, batch, remaining>>
          \/ /\ r.kind = "Err"
             /\ call' = "idle"
             /\ batch' = <<>>
             /\ remaining' = 0
             /\ UNCHANGED <<found, position>>
    /\ UNCHANGED <<vars, at_end, received>>

\* control_block() after a record: update at_end and return the record.
NextSome ==
    /\ call = "some"
    /\ Unlocked
    /\ at_end' = AtWritePos(position)
    /\ batch' = Append(batch, found)
    /\ found' = 0
    /\ remaining' = remaining - 1
    /\ call' = "next"
    /\ UNCHANGED <<vars, position, received>>

\* Mutant: the end is recognised only at the very write position.
EndAfterGap_Exact == AtWritePos(position)

EndAfterGap == /\ position.offset >= control.write_pos
               /\ position.wrap_count >= control.wrap_count

\* control_block() after a gap: return None at the end, else next() again.
NextNone ==
    /\ call = "none"
    /\ Unlocked
    /\ at_end' = EndAfterGap
    /\ call' = "next"
    /\ UNCHANGED <<vars, position, found, remaining, batch, received>>

-----------------------------------------------------------------------------
(* Cursor::commit: the check on a copy of the control block, then          *)
(* reset_read_position.  The copy's new read position goes nowhere.        *)

\* Mutant: a cursor at the write position has nothing to commit.
MayCommit_Before ==
    /\ position.wrap_count = control.wrap_count
    /\ position.offset > control.read_pos
    /\ position.offset < control.write_pos

MayCommit ==
    /\ position.wrap_count = control.wrap_count
    /\ position.offset > control.read_pos
    /\ position.offset <= control.write_pos

CommitCheck ==
    /\ call = "idle"
    /\ Unlocked
    /\ MayCommit
    /\ call' = "commit"
    /\ UNCHANGED <<vars, position, at_end, found, remaining, batch, received>>

CommitReset ==
    /\ call = "commit"
    /\ ResetReadPosition
    /\ call' = "idle"
    /\ UNCHANGED <<position, at_end, found, remaining, batch, received>>

-----------------------------------------------------------------------------
(* readAllLogs of the Swift interface.                                     *)

\* createCursor.
SwiftReadAllLogs ==
    /\ client = "free"
    /\ call = "idle"
    /\ Unlocked
    /\ LET pos == Position(control.read_pos, control.wrap_count)
       IN  PlaceAt(pos, AtWritePos(pos))
    /\ client' = "read"
    /\ UNCHANGED handed

\* readNextRecord is called ...
SwiftReadNext ==
    /\ client = "read"
    /\ ReadBatch
    /\ remaining' = 1
    /\ UNCHANGED clientVars

\* ... and returns: on nil, which an error becomes too, the loop ends.
SwiftReadNextReturn ==
    /\ client = "read"
    /\ ReadBatchReturn \/ NextRead
    /\ call' = "idle"
    /\ client' = IF batch = <<>> THEN "commit" ELSE "read"
    /\ handed' = IF control.wrap_count = 0 THEN handed \o batch ELSE handed

\* commitCursor, which may have nothing to do.
SwiftCommitCursor ==
    /\ client = "commit"
    /\ \/ CommitCheck /\ UNCHANGED client
       \/ CommitReset /\ client' = "free"
       \/ /\ call = "idle"
          /\ Unlocked
          /\ ~MayCommit
          /\ client' = "free"
          /\ UNCHANGED <<vars, cursorVars>>
    /\ UNCHANGED handed

-----------------------------------------------------------------------------
\* The ring's own operations by other threads.  The process stays up: the
\* cursor does not outlive it.
RingNext ==
    /\ \/ \E len \in Lengths : Write(len)
       \/ ReadAll
       \/ ResetReadPosition
    /\ UNCHANGED <<cursorVars, clientVars>>

\* The steps of next() and read_batch(); those that return from it in
\* readAllLogs are SwiftReadNextReturn.
NextCall ==
    \/ /\ ReadBatchReturn \/ NextRead \/ NextSome \/ NextNone
       /\ client = "read" => call' # "idle"
       /\ UNCHANGED clientVars
    \/ SwiftReadNextReturn

CursorNext ==
    \/ RingNext
    \/ /\ client = "free"
       /\ \/ CursorNew \/ SeekTo \/ SeekToEnd
          \/ ReadBatch \/ CommitCheck \/ CommitReset
       /\ UNCHANGED clientVars
    \/ NextCall
    \/ SwiftReadAllLogs \/ SwiftReadNext \/ SwiftCommitCursor

CursorSpec == CursorInit /\ [][CursorNext]_allVars

\* Calls that have begun are scheduled until they return: the cursor's and the
\* read_all that may hold the control lock.  The lock is eventually fair, so
\* a cursor that waits for it gets it although others take it again and again.
FairCursorSpec ==
    /\ CursorSpec
    /\ SF_allVars(NextCall)
    /\ WF_allVars((ReadAllStep \/ ReadAllEnd \/ ReadAllFlushError)
                   /\ UNCHANGED <<cursorVars, clientVars>>)

-----------------------------------------------------------------------------
(* Properties.                                                             *)

\* Types of the cursor's state (cursor.rs 20-49).  A record it has just read
\* ends within the data region, whatever position the cursor was sent to.
CursorTypeOK ==
    /\ position \in [offset : 0 .. Beyond, wrap_count : Nat]
    /\ call = "some" => position.offset <= Size
    /\ at_end \in BOOLEAN
    /\ call \in {"idle", "next", "some", "none", "commit"}
    /\ found \in 0 .. Len(log)
    /\ remaining \in 0 .. MaxBatch
    /\ batch \in Seq(1 .. Len(log))
    /\ received \in Seq(1 .. Len(log))
    /\ client \in {"free", "read", "commit"}
    /\ handed \in Seq(1 .. Len(log))

\* While the ring stays in the lap the cursor was placed in, its client gets
\* consecutive records from the first one of that lap on: a concurrent write
\* between read_at and control_block() neither hides nor repeats one.  (A
\* cursor placed at a read position of an earlier lap may return records of
\* that lap first, and jump from them.)
CursorContiguous ==
    position.wrap_count = control.wrap_count =>
        LET got == received \o batch IN
        \A k \in 1 .. Len(got) - 1 :
            log[got[k]].lap = control.wrap_count => got[k + 1] = got[k] + 1

\* When at_end is set after a record of the current lap, that record is the
\* newest: a write between read_at and control_block() is not overlooked, so a
\* batch loop that stops at at_end leaves nothing behind (next 98-103).
AtEndInLap ==
    [][NextSome /\ at_end' /\ log[found].lap = control.wrap_count
         => found = Len(log)]_allVars

\* When an error makes read_batch() drop what it has collected, no record of
\* the current lap is among it: such a record is followed by another one or by
\* the end, never by a damaged header (read_batch 126-137).
NoBatchDropped ==
    [][NextRead /\ call' = "idle" /\ position.wrap_count = control.wrap_count
         => \A k \in 1 .. Len(batch) :
                log[batch[k]].lap # control.wrap_count]_allVars

\* next() and read_batch() return unless the ring wraps past the cursor's lap:
\* the retries over unreadable positions come to an end, also for a cursor
\* placed in a lap that the ring has not reached.
NextReturnsInLap ==
    (call = "next") ~>
        (call = "idle" \/ position.wrap_count < control.wrap_count)

\* next() and read_batch() return, "across buffer wrap-arounds" too.
NextReturns == (call = "next") ~> (call = "idle")

\* "Commit the current position as the new read position in the buffer": after
\* a commit in the cursor's lap, by a client that has read through the cursor,
\* the read position is the cursor's.
CommitsPosition ==
    [][CommitReset /\ position.wrap_count = control.wrap_count
         /\ received # <<>>
         => control'.read_pos = position.offset]_allVars

\* Before the first wrap a thread that calls readAllLogs again and again gets
\* each record at most once and in order: what a cursor has returned is below
\* the read position where the next one starts, whatever other threads write,
\* read, reset or commit meanwhile (ios/mod.rs 137-186, 290-300).  Nothing is
\* said of two threads: overlapping calls may both get a record.
LogsOncePerThread == StrictlyIncreasing(handed)

=============================================================================
