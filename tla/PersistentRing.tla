--------------------------- MODULE PersistentRing ---------------------------
(***************************************************************************)
(* The memory-mapped ring buffer of src/disk/persistent.rs with the        *)
(* control block and the record header of src/disk/mod.rs: write, read_at, *)
(* read_all, reset_read_position, and closing and reopening the file.      *)
(*                                                                         *)
(* The data region is Size units long.  A record is HeaderSize units of    *)
(* header followed by its payload; the first header unit holds the size    *)
(* and the CRC, the last one the marker.  A unit holds <<w, k>>, unit k of *)
(* the w-th record written, or Blank.  Records are overwritten from their  *)
(* first byte on, so a header can lose its size and keep its marker.       *)
(* Payload bytes are taken not to look like a marker, and a CRC is taken   *)
(* not to match bytes it was not computed from.                            *)
(*                                                                         *)
(* write and reset_read_position run under the control lock and the mmap   *)
(* lock and are one step.  read_all keeps the control lock for as long as  *)
(* it runs and takes the mmap lock anew for each read_at, so it is one     *)
(* step per read_at.  The final mmap.flush() of a call can fail: its error *)
(* leaves the state as it is, but the caller of read_all gets no records.  *)
(* The process may end at any moment, in the middle of a write too.        *)
(***************************************************************************)
EXTENDS Naturals, Sequences

CONSTANTS
    Size,           \* length of the data region
    HeaderSize,     \* Header::SIZE
    Lengths,        \* payload lengths that are written
    MaxWrites,      \* bound: successful writes
    Blank           \* a unit never written

ASSUME SizeAssumption ==
    /\ Size \in Nat
    /\ HeaderSize \in Nat \ {0, 1}
    /\ Lengths \subseteq Nat
    /\ MaxWrites \in Nat

ASSUME BlankAssumption == Blank \notin Nat \X Nat

VARIABLES
    cells,          \* the data region of the mapped file
    control,        \* the control block in memory
    file_control,   \* the control block in the mapped file
    status,         \* "open"; "closed"; "refused" by PersistentRingBuffer::new
    torn,           \* history: offsets overwritten by a write that the
                    \* process did not live to complete
    reading,        \* whether a read_all is running
    current_pos,    \* read_all: current_pos, 0 outside it
    records,        \* read_all: the records read so far, empty outside it
    log,            \* history: every record written
    returned,       \* history: records returned by read_all, in order
    skipped         \* history: records passed over by reset_read_position or
                    \* by a read_all whose flush failed

readAllVars == <<reading, current_pos, records>>
vars == <<cells, control, file_control, status, torn, readAllVars, log,
          returned, skipped>>

Offsets == 0 .. Size - 1

-----------------------------------------------------------------------------
(* ControlBlock.  Both checksum functions hash all but the last four bytes *)
(* of the 48-byte structure; those four are padding, so the hashed bytes   *)
(* include the crc32 field.  A digest is the hashed position fields and a  *)
(* bit that tells it from the digest it was computed over.                 *)

crc32(c) == [of |-> <<c.write_pos, c.read_pos, c.wrap_count>>,
             gen |-> 1 - c.crc.gen]

update_crc(c) == [c EXCEPT !.crc = crc32(c)]

verify_crc(c) == c.crc = crc32(c)

NewControlBlock ==
    update_crc([write_pos |-> 0, read_pos |-> 0, wrap_count |-> 0,
                crc |-> [of |-> <<0, 0, 0>>, gen |-> 0]])

\* The change of the control block, in memory and in the mapped file.
SaveControl(c) ==
    /\ control' = update_crc(c)
    /\ file_control' = update_crc(c)

-----------------------------------------------------------------------------
(* PersistentRingBuffer::read_at.                                          *)

None == [kind |-> "None", rec |-> 0]
Err == [kind |-> "Err", rec |-> 0]
Some(w) == [kind |-> "Some", rec |-> w]

Extent(w) == HeaderSize + log[w].len

\* The header's marker is in place at position p.
is_valid(p) == /\ cells[p + HeaderSize - 1] # Blank
               /\ cells[p + HeaderSize - 1][2] = HeaderSize - 1

\* All units of record w are in place at position p.
HoldsRecord(p, w) ==
    \A k \in 0 .. Extent(w) - 1 : p + k \in Offsets /\ cells[p + k] = <<w, k>>

\* The possible results: an overwritten size is any number, so the data
\* either reaches beyond the map or fails its CRC.
ReadAt(p) ==
    IF p + HeaderSize > Size THEN {None}
    ELSE IF ~is_valid(p) THEN {None}
    ELSE LET w == cells[p + HeaderSize - 1][1] IN
         IF cells[p] # <<w, 0>> THEN {None, Err}
         ELSE IF HoldsRecord(p, w) THEN {Some(w)}
         ELSE {Err}

-----------------------------------------------------------------------------
\* PersistentRingBuffer::new on a file that does not exist.
Init ==
    /\ cells = [i \in Offsets |-> Blank]
    /\ control = NewControlBlock
    /\ file_control = NewControlBlock
    /\ status = "open"
    /\ torn = {}
    /\ reading = FALSE
    /\ current_pos = 0
    /\ records = <<>>
    /\ log = <<>>
    /\ returned = <<>>
    /\ skipped = {}

\* No call holds the control lock.
Unlocked == status = "open" /\ ~reading

-----------------------------------------------------------------------------
(* PersistentRingBuffer::write.                                            *)

\* Mutant: the record may run over the end of the data region.
NeedsWrap_Never(total) == FALSE

NeedsWrap(total) == control.write_pos + total > Size

\* Mutant: the position is advanced one unit short.
EndOf_Short(p, total) == p + total - 1

EndOf(p, total) == p + total

\* Where a record of this extent is put.
WritePos(total) == IF NeedsWrap(total) THEN 0 ELSE control.write_pos

\* A record that cannot fit is refused with InvalidRecord and nothing changes.
Write(len) ==
    LET total == HeaderSize + len
        pos   == WritePos(total)
        laps  == IF NeedsWrap(total) THEN control.wrap_count + 1
                                     ELSE control.wrap_count
        w     == Len(log) + 1
    IN  /\ Unlocked
        /\ Len(log) < MaxWrites
        /\ total <= Size
        /\ cells' = [i \in Offsets |-> IF i \in pos .. pos + total - 1
                                       THEN <<w, i - pos>> ELSE cells[i]]
        /\ SaveControl([control EXCEPT !.write_pos = EndOf(pos, total),
                                       !.wrap_count = laps])
        /\ log' = Append(log, [len |-> len, start |-> pos, lap |-> laps])
        /\ UNCHANGED <<status, torn, readAllVars, returned, skipped>>

\* The process ends inside write, before the control block is copied into the
\* map: the first units of the record are there, the positions in the file
\* are the old ones and those in memory are gone.  What the copied units hold
\* is of no use to anyone and stands as Blank.
DieInWrite(len) ==
    LET total == HeaderSize + len
        pos   == WritePos(total)
    IN  /\ Unlocked
        /\ Len(log) < MaxWrites
        /\ total <= Size
        /\ \E t \in 1 .. total : torn' = pos .. pos + t - 1
        /\ cells' = [i \in Offsets |-> IF i \in torn' THEN Blank ELSE cells[i]]
        /\ status' = "closed"
        /\ UNCHANGED <<control, file_control, readAllVars, log, returned,
                       skipped>>

-----------------------------------------------------------------------------
(* PersistentRingBuffer::read_all.                                         *)

\* With nothing to read the call returns at once.
ReadAllBegin ==
    /\ Unlocked
    /\ control.read_pos # control.write_pos
    /\ reading' = TRUE
    /\ current_pos' = control.read_pos
    /\ records' = <<>>
    /\ UNCHANGED <<cells, control, file_control, status, torn, log, returned,
                   skipped>>

\* Mutant: a record is skipped by two headers.
PastRecord_Far(w) == current_pos + Extent(w) + HeaderSize

PastRecord(w) == current_pos + Extent(w)

\* Mutant: an unreadable position is tried again.
PastGap_Stay == current_pos

PastGap == current_pos + HeaderSize

\* read_all returns, and its variables are gone.
ReadAllReturns ==
    /\ reading' = FALSE
    /\ current_pos' = 0
    /\ records' = <<>>

\* One read_at of the loop.  An error ends the call and leaves the read
\* position where it was.
ReadAllStep ==
    /\ status = "open"
    /\ reading
    /\ current_pos < control.write_pos
    /\ \E r \in ReadAt(current_pos) :
          \/ /\ r.kind = "Some"
             /\ records' = Append(records, r.rec)
             /\ current_pos' = PastRecord(r.rec)
             /\ UNCHANGED reading
          \/ /\ r.kind = "None"
             /\ current_pos' = PastGap
             /\ UNCHANGED <<reading, records>>
          \/ /\ r.kind = "Err"
             /\ ReadAllReturns
    /\ UNCHANGED <<cells, control, file_control, status, torn, log, returned,
                   skipped>>

\* Mutant: the read position is not advanced.
ReadAllPos_Stale == control.read_pos

ReadAllPos == current_pos

ReadAllEnd ==
    /\ status = "open"
    /\ reading
    /\ current_pos >= control.write_pos
    /\ ReadAllReturns
    /\ SaveControl([control EXCEPT !.read_pos = ReadAllPos])
    /\ returned' = returned \o records
    /\ UNCHANGED <<cells, status, torn, log, skipped>>

Elements(s) == {s[k] : k \in 1 .. Len(s)}

\* mmap.flush() fails: the read position has moved in memory and in the map,
\* and the records collected are dropped with the error.
ReadAllFlushError ==
    /\ status = "open"
    /\ reading
    /\ current_pos >= control.write_pos
    /\ ReadAllReturns
    /\ SaveControl([control EXCEPT !.read_pos = ReadAllPos])
    /\ skipped' = skipped \cup Elements(records)
    /\ UNCHANGED <<cells, status, torn, log, returned>>

-----------------------------------------------------------------------------
\* Mutant: the lap counter starts over.
SaveReset_FirstLap(c) == SaveControl([c EXCEPT !.wrap_count = 0])

SaveReset(c) == SaveControl(c)

ResetReadPosition ==
    /\ Unlocked
    /\ SaveReset([control EXCEPT !.read_pos = control.write_pos])
    /\ skipped' = skipped \cup (DOMAIN log \ Elements(returned))
    /\ UNCHANGED <<cells, status, torn, readAllVars, log, returned>>

-----------------------------------------------------------------------------
(* The end of the process outside write, orderly or not, and the next      *)
(* start.  The mapped pages belong to the file, so they survive; locks,    *)
(* calls and the control block in memory do not.  A process that ends in   *)
(* read_all or reset_read_position before the new control block is copied  *)
(* into the map leaves the file as it was before the call.                 *)

Close ==
    /\ status = "open"
    /\ status' = "closed"
    /\ ReadAllReturns
    /\ UNCHANGED <<cells, control, file_control, torn, log, returned, skipped>>

\* PersistentRingBuffer::new on the existing file.
Open ==
    /\ status \in {"closed", "refused"}
    /\ status' = IF verify_crc(file_control) THEN "open" ELSE "refused"
    /\ control' = IF verify_crc(file_control) THEN file_control ELSE control
    /\ UNCHANGED <<cells, file_control, torn, readAllVars, log, returned,
                   skipped>>

-----------------------------------------------------------------------------
ReadAll == ReadAllBegin \/ ReadAllStep \/ ReadAllEnd \/ ReadAllFlushError

Next ==
    \/ \E len \in Lengths : Write(len) \/ DieInWrite(len)
    \/ ReadAll
    \/ ResetReadPosition
    \/ Close
    \/ Open

Spec == Init /\ [][Next]_vars

\* A running read_all is scheduled until it returns.
FairSpec == Spec /\ WF_vars(ReadAllStep \/ ReadAllEnd \/ ReadAllFlushError)

-----------------------------------------------------------------------------
(* Properties.                                                             *)

ControlBlocks ==
    [write_pos : 0 .. Size, read_pos : 0 .. Size + HeaderSize - 1,
     wrap_count : Nat, crc : [of : Nat \X Nat \X Nat, gen : {0, 1}]]

RegionTypeOK ==
    /\ cells \in [Offsets -> ((1 .. Len(log)) \X Nat) \cup {Blank}]
    /\ log \in Seq([len : Nat, start : 0 .. Size, lap : Nat])

ControlTypeOK ==
    /\ control \in ControlBlocks
    /\ file_control \in ControlBlocks

ReadTypeOK ==
    /\ current_pos \in 0 .. Size + HeaderSize - 1
    /\ records \in Seq(1 .. Len(log))
    /\ returned \in Seq(1 .. Len(log))
    /\ skipped \subseteq 1 .. Len(log)

\* Types, and the ranges of the positions: the write position never leaves the
\* data region and the read position overshoots it by less than a header,
\* although read_all skips ahead by headers (persistent.rs 178, 317).
TypeOK ==
    /\ RegionTypeOK /\ ControlTypeOK /\ ReadTypeOK
    /\ reading \in BOOLEAN
    /\ status \in {"open", "closed", "refused"}
    /\ torn \subseteq Offsets
    /\ status = "open" => torn = {}

\* Written in the current lap, or in the one before and beyond the write
\* position.
Live(w) ==
    \/ log[w].lap = control.wrap_count
    \/ /\ log[w].lap + 1 = control.wrap_count
       /\ log[w].start >= control.write_pos

\* The unfinished write reached none of the record's units.
Untorn(w) == \A k \in 0 .. Extent(w) - 1 : log[w].start + k \notin torn

\* Until the ring comes round to it, a record can be read back at the offset
\* where it was written: no write damages a record ahead of the write
\* position, the wrap splits none (write 174-207, read_at), and a process
\* that ends inside write takes with it no record but those in the way of
\* the one being written.
LiveReadable ==
    \A w \in DOMAIN log :
        Live(w) /\ Untorn(w) => ReadAt(log[w].start) = {Some(w)}

StrictlyIncreasing(s) == \A j, k \in 1 .. Len(s) : j < k => s[j] < s[k]

\* Over all calls, across wraps, errors and resets, read_all returns records in
\* the order they were written and none twice.
ReturnedOrder == StrictlyIncreasing(returned)

\* Before the first wrap read_all loses nothing silently: the records below
\* the read position are those returned, skipped by a reset, or collected by
\* a call whose flush failed.
FirstLapExact ==
    control.wrap_count = 0 =>
        {w \in DOMAIN log : log[w].start < control.read_pos}
            = Elements(returned) \cup skipped

\* Contents of the abstract log: the payload lengths.
Written == [w \in DOMAIN log |-> log[w].len]

Window == {w \in DOMAIN log : Live(w)}

Abstract == INSTANCE LogWindow WITH Contents <- Lengths, entries <- Written,
                                    window <- Window, consumed <- returned

\* The ring implements the abstract log: whatever the sizes of records and the
\* places of the wraps, a write pushes only the oldest records out of the
\* window, reads, resets, errors and restarts leave it alone, and read_all
\* hands out records of the window, in order (persistent.rs 151-360).
ImplementsLog == Abstract!Spec

\* read_all ends, whatever the data region holds.
ReadAllTerminates == reading ~> ~reading

\* "Read all available records from the current read position": when read_all
\* returns, no record of the current lap is left unread.
ReadAllComplete ==
    [][ReadAllEnd => \A w \in DOMAIN log :
                        log[w].lap = control.wrap_count
                            => w \in Elements(returned') \cup skipped]_vars

\* A buffer that was closed can be opened again.
Reopens == status # "refused"

=============================================================================
