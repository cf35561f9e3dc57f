----------------------------- MODULE Lifecycle -----------------------------
(***************************************************************************)
(* The process around the buffers: the global instances of src/lib.rs, the *)
(* start and stop of flush daemons, and initialize, shutdown, write,       *)
(* createCursor and closeCursor of the bindings in src/ios/mod.rs and      *)
(* src/jni/mod.rs, called by any number of threads.                        *)
(*                                                                         *)
(* A volatile buffer is the number of its creation, a persistent buffer is *)
(* its path: new() refuses a file that has contents (module                *)
(* PersistentRing, Reopens).  Two initialize calls can find the same file  *)
(* empty and make two buffers on it, but at most one of them stays: the    *)
(* bindings drop what init_persistent_buffer returns and the cell keeps    *)
(* one.  A refusal is a panic in a function called from Swift or Java,     *)
(* which ends the process and its threads.                                 *)
(*                                                                         *)
(* On iOS the daemon's handle is behind a mutex.  In the JNI binding it is *)
(* a static mut: an assignment reads the old handle to drop it and then    *)
(* stores, take() reads and then stores None, and nothing keeps another    *)
(* thread from coming in between.                                          *)
(***************************************************************************)
EXTENDS Naturals, Sequences, FiniteSets

CONSTANTS
    Callers,        \* application threads
    Paths,          \* paths given to initialize
    TempPath,       \* sherlog_temp.dat in the directory for temporary files
    Leftover,       \* files that an earlier process may have left behind
    MaxCalls,       \* bound: calls made by all threads
    Bindings,       \* bindings in use: a subset of {"ios", "jni"}
    Nobody          \* no thread; no buffer

ASSUME CallersAssumption ==
    /\ Nobody \notin Callers \cup Paths \cup {TempPath}
    /\ TempPath \notin Paths
    /\ Leftover \subseteq Paths \cup {TempPath}
    /\ MaxCalls \in Nat
    /\ Bindings \subseteq {"ios", "jni"}

VARIABLES
    binding,            \* the binding that the process was built with
    volatile_buffer,    \* VOLATILE_BUFFER: 0 until it is initialised
    persistent_buffer,  \* PERSISTENT_BUFFER: Nobody until it is initialised
    created,            \* number of volatile buffers created
    files,              \* paths of buffer files that exist
    running,            \* FLUSH_DAEMON_RUNNING
    daemons,            \* every daemon spawned: its state and its buffers
    handle,             \* FLUSH_DAEMON_HANDLE: a daemon, or 0 for None
    mutex,              \* iOS: the holder of the handle's mutex
    pc,                 \* where each thread is
    path,               \* initialize: disk_path
    spawned,            \* initialize: the daemon spawned, not yet stored
    got,                \* the handle a thread has taken out, or 0
    calls,              \* number of calls begun
    cursor,             \* the buffer of each thread's cursor, or Nobody
    written,            \* history: the volatile buffers that write() used
    started,            \* history: an initialize began, no shutdown returned
    overlapped          \* history: calls overlapped, see Overlaps

bufferVars == <<binding, volatile_buffer, persistent_buffer, created, files>>
daemonVars == <<running, daemons>>
handleVars == <<handle, mutex, got>>
callVars == <<path, spawned, calls>>
userVars == <<cursor, written, started, overlapped>>
vars == <<bufferVars, daemonVars, handleVars, callVars, userVars, pc>>

\* A new process.
Init ==
    /\ binding \in Bindings
    /\ volatile_buffer = 0
    /\ persistent_buffer = Nobody
    /\ created = 0
    /\ files \in SUBSET Leftover
    /\ running = FALSE
    /\ daemons = <<>>
    /\ handle = 0
    /\ mutex = Nobody
    /\ pc = [t \in Callers |-> "idle"]
    /\ path = [t \in Callers |-> Nobody]
    /\ spawned = [t \in Callers |-> 0]
    /\ got = [t \in Callers |-> 0]
    /\ calls = 0
    /\ cursor = [t \in Callers |-> Nobody]
    /\ written = {}
    /\ started = FALSE
    /\ overlapped = FALSE

Goto(t, l) == pc' = [pc EXCEPT ![t] = l]

Alive(d) == daemons[d].state # "ended"

InitializePoints == {"memory", "persistent", "create", "start", "spawn",
                     "store", "assign"}

\* Uses that the bindings do not order: a call beside a running initialize,
\* initialize beside a running shutdown or on a library that is started, and
\* with the static mut of the JNI binding any two calls at a time.
Overlaps(t, initialize) ==
    \/ initialize /\ started
    \/ \E u \in Callers \ {t} :
          \/ pc[u] \in InitializePoints
          \/ pc[u] # "idle" /\ (initialize \/ binding = "jni")

BeginCall(t) ==
    /\ pc[t] = "idle"
    /\ calls < MaxCalls
    /\ calls' = calls + 1

NoteOverlap(t, initialize) ==
    overlapped' = (overlapped \/ Overlaps(t, initialize))

-----------------------------------------------------------------------------
(* The global instances.                                                   *)

\* Mutant: the cell stays empty.
OnceOrKeep_Never(old, new, none) == old

\* OnceCell::get_or_init.
OnceOrKeep(old, new, none) == IF old = none THEN new ELSE old

\* init_memory_buffer: a buffer is created even when the cell has one.
init_memory_buffer(t) ==
    /\ pc[t] = "memory"
    /\ created' = created + 1
    /\ volatile_buffer' = OnceOrKeep(volatile_buffer, created + 1, 0)
    /\ Goto(t, "persistent")
    /\ UNCHANGED <<binding, persistent_buffer, files, daemonVars, handleVars,
                   callVars, userVars>>

\* A panic that reaches the caller's language: all threads are gone.
Abort ==
    /\ pc' = [t \in Callers |-> "gone"]
    /\ daemons' = [d \in DOMAIN daemons |->
                      [daemons[d] EXCEPT !.state = "ended"]]

\* PersistentRingBuffer::new looks at the file's length: one with contents is
\* refused, complete or not, and init_persistent_buffer panics.
OpenBufferFile(t) ==
    /\ pc[t] = "persistent"
    /\ \/ /\ path[t] \notin files
          /\ Goto(t, "create")
          /\ UNCHANGED daemons
       \/ /\ path[t] \in files
          /\ Abort
    /\ UNCHANGED <<bufferVars, running, handleVars, callVars, userVars>>

\* It gives the file its length and its control block, even if another thread
\* has done so meanwhile, and the cell gets the buffer if it is empty.
CreateBuffer(t) ==
    /\ pc[t] = "create"
    /\ files' = files \cup {path[t]}
    /\ persistent_buffer' = OnceOrKeep(persistent_buffer, path[t], Nobody)
    /\ Goto(t, "start")
    /\ UNCHANGED <<binding, volatile_buffer, created, daemonVars, handleVars,
                   callVars, userVars>>

init_persistent_buffer(t) == OpenBufferFile(t) \/ CreateBuffer(t)

\* Mutant: every call makes a default buffer.
get_memory_buffer_Anew ==
    /\ created' = created + 1
    /\ volatile_buffer' = created + 1

\* get_memory_buffer, which creates a default buffer if need be.
get_memory_buffer ==
    /\ created' = IF volatile_buffer = 0 THEN created + 1 ELSE created
    /\ volatile_buffer' = OnceOrKeep(volatile_buffer, created + 1, 0)

\* write() of the bindings, on the buffer that get_memory_buffer returns.
Write(t) ==
    /\ BeginCall(t)
    /\ get_memory_buffer
    /\ written' = written \cup {volatile_buffer'}
    /\ UNCHANGED <<binding, persistent_buffer, files, daemonVars, handleVars,
                   path, spawned, cursor, started, overlapped, pc>>

\* createCursor on get_persistent_buffer().
CreateCursor(t) ==
    /\ BeginCall(t)
    /\ cursor[t] = Nobody
    /\ persistent_buffer # Nobody
    /\ cursor' = [cursor EXCEPT ![t] = persistent_buffer]
    /\ UNCHANGED <<bufferVars, daemonVars, handleVars, path, spawned, written,
                   started, overlapped, pc>>

\* The same before any initialize: get_persistent_buffer() falls back to a
\* temporary file, and panics if new() refuses it.  The cell lets one thread
\* at a time create its contents, so this is one step.
CreateCursorEarly(t) ==
    /\ BeginCall(t)
    /\ cursor[t] = Nobody
    /\ persistent_buffer = Nobody
    /\ \/ /\ TempPath \notin files
          /\ files' = files \cup {TempPath}
          /\ persistent_buffer' = TempPath
          /\ cursor' = [cursor EXCEPT ![t] = TempPath]
          /\ UNCHANGED <<pc, daemons>>
       \/ /\ TempPath \in files
          /\ Abort
          /\ UNCHANGED <<files, persistent_buffer, cursor>>
    /\ UNCHANGED <<binding, volatile_buffer, created, running, handleVars,
                   path, spawned, written, started, overlapped>>

\* closeCursor drops the box.
CloseCursor(t) ==
    /\ BeginCall(t)
    /\ cursor[t] # Nobody
    /\ cursor' = [cursor EXCEPT ![t] = Nobody]
    /\ UNCHANGED <<bufferVars, daemonVars, handleVars, path, spawned, written,
                   started, overlapped, pc>>

-----------------------------------------------------------------------------
(* initialize: both buffers, the daemon, its handle.                       *)

Initialize(t) ==
    /\ BeginCall(t)
    /\ NoteOverlap(t, TRUE)
    /\ \E p \in Paths : path' = [path EXCEPT ![t] = p]
    /\ started' = TRUE
    /\ Goto(t, "memory")
    /\ UNCHANGED <<bufferVars, daemonVars, handleVars, spawned, cursor,
                   written>>

\* start_flush_daemon raises the flag first ...
RaiseRunning(t) ==
    /\ pc[t] = "start"
    /\ running' = TRUE
    /\ Goto(t, "spawn")
    /\ UNCHANGED <<bufferVars, daemons, handleVars, callVars, userVars>>

\* ... and then spawns a thread with the buffers of the cells, which
\* initialize has filled.
SpawnDaemon(t) ==
    /\ pc[t] = "spawn"
    /\ daemons' = Append(daemons, [state  |-> "check",
                                  memory |-> volatile_buffer,
                                  disk   |-> persistent_buffer])
    /\ spawned' = [spawned EXCEPT ![t] = Len(daemons) + 1]
    /\ Goto(t, "store")
    /\ UNCHANGED <<bufferVars, running, handleVars, path, calls, userVars>>

\* Mutant: the handle is a static mut on iOS too.
HandleIsLocked_Never == FALSE

\* Mutex<Option<JoinHandle>> or static mut.
HandleIsLocked == binding = "ios"

\* iOS: lock, assign, unlock.  The handle that was there is dropped, which
\* detaches its thread.
StoreHandle(t) ==
    /\ HandleIsLocked
    /\ pc[t] = "store"
    /\ mutex = Nobody
    /\ handle' = spawned[t]
    /\ spawned' = [spawned EXCEPT ![t] = 0]
    /\ Goto(t, "idle")
    /\ UNCHANGED <<bufferVars, daemonVars, mutex, got, path, calls, userVars>>

\* JNI: read the old handle to drop it ...
LoadOldHandle(t) ==
    /\ ~HandleIsLocked
    /\ pc[t] = "store"
    /\ got' = [got EXCEPT ![t] = handle]
    /\ Goto(t, "assign")
    /\ UNCHANGED <<bufferVars, daemonVars, handle, mutex, callVars, userVars>>

\* ... and store the new one.
AssignHandle(t) ==
    /\ pc[t] = "assign"
    /\ handle' = spawned[t]
    /\ spawned' = [spawned EXCEPT ![t] = 0]
    /\ got' = [got EXCEPT ![t] = 0]
    /\ Goto(t, "idle")
    /\ UNCHANGED <<bufferVars, daemonVars, mutex, path, calls, userVars>>

-----------------------------------------------------------------------------
(* shutdown: lower the flag, take the handle, join.                        *)

\* Mutant: the flag is left up.
stop_flush_daemon_Missing == UNCHANGED running

stop_flush_daemon == running' = FALSE

Shutdown(t) ==
    /\ BeginCall(t)
    /\ NoteOverlap(t, FALSE)
    /\ stop_flush_daemon
    /\ Goto(t, "take")
    /\ UNCHANGED <<bufferVars, daemons, handleVars, path, spawned, cursor,
                   written, started>>

\* Mutant: shutdown returns without waiting.
NeedsJoin_Never(d) == FALSE

\* With no handle there is nothing to wait for.
NeedsJoin(d) == d # 0

\* shutdown waits for daemon d, or returns.
JoinOrReturn(t, d) ==
    /\ Goto(t, IF NeedsJoin(d) THEN "join" ELSE "idle")
    /\ started' = (started /\ NeedsJoin(d))
    /\ got' = [got EXCEPT ![t] = IF NeedsJoin(d) THEN d ELSE 0]

\* iOS: lock and take; the mutex stays locked during the join.
TakeHandle(t) ==
    /\ HandleIsLocked
    /\ pc[t] = "take"
    /\ mutex = Nobody
    /\ mutex' = IF NeedsJoin(handle) THEN t ELSE Nobody
    /\ handle' = 0
    /\ JoinOrReturn(t, handle)
    /\ UNCHANGED <<bufferVars, daemonVars, callVars, cursor, written,
                   overlapped>>

\* JNI: take() reads the handle ...
LoadHandle(t) ==
    /\ ~HandleIsLocked
    /\ pc[t] = "take"
    /\ got' = [got EXCEPT ![t] = handle]
    /\ Goto(t, "clear")
    /\ UNCHANGED <<bufferVars, daemonVars, handle, mutex, callVars, userVars>>

\* ... and stores None.
ClearHandle(t) ==
    /\ pc[t] = "clear"
    /\ handle' = 0
    /\ JoinOrReturn(t, got[t])
    /\ UNCHANGED <<bufferVars, daemonVars, mutex, callVars, cursor, written,
                   overlapped>>

\* join() returns when the daemon's thread has ended.
Join(t) ==
    /\ pc[t] = "join"
    /\ ~Alive(got[t])
    /\ got' = [got EXCEPT ![t] = 0]
    /\ mutex' = Nobody
    /\ started' = FALSE
    /\ Goto(t, "idle")
    /\ UNCHANGED <<bufferVars, daemonVars, handle, callVars, cursor, written,
                   overlapped>>

-----------------------------------------------------------------------------
(* A daemon: it looks at the flag, works, and looks again.                 *)

CheckRunning(d) ==
    /\ daemons[d].state = "check"
    /\ daemons' = [daemons EXCEPT ![d].state =
                                     IF running THEN "work" ELSE "ended"]
    /\ UNCHANGED <<bufferVars, running, handleVars, callVars, userVars, pc>>

\* One pass of the loop, which FlushDaemon describes.
FlushPass(d) ==
    /\ daemons[d].state = "work"
    /\ daemons' = [daemons EXCEPT ![d].state = "check"]
    /\ UNCHANGED <<bufferVars, running, handleVars, callVars, userVars, pc>>

-----------------------------------------------------------------------------
\* The steps of a call that has begun.
CallStep(t) ==
    \/ init_memory_buffer(t) \/ init_persistent_buffer(t)
    \/ RaiseRunning(t) \/ SpawnDaemon(t)
    \/ StoreHandle(t) \/ LoadOldHandle(t) \/ AssignHandle(t)
    \/ TakeHandle(t) \/ LoadHandle(t) \/ ClearHandle(t) \/ Join(t)

DaemonStep(d) == CheckRunning(d) \/ FlushPass(d)

Next ==
    \/ \E t \in Callers : \/ Initialize(t) \/ Shutdown(t) \/ Write(t)
                         \/ CreateCursor(t) \/ CreateCursorEarly(t)
                         \/ CloseCursor(t) \/ CallStep(t)
    \/ \E d \in DOMAIN daemons : DaemonStep(d)

Spec == Init /\ [][Next]_vars

\* Threads in a call and daemons are scheduled while the process lives.
FairSpec ==
    /\ Spec
    /\ \A t \in Callers : WF_vars(CallStep(t))
    /\ \A d \in 1 .. MaxCalls :
          WF_vars(d \in DOMAIN daemons /\ DaemonStep(d))

-----------------------------------------------------------------------------
(* Properties.                                                             *)

Handles == 0 .. Len(daemons)

DaemonRecords == [state : {"check", "work", "ended"}, memory : 1 .. created,
                  disk : files]

BufferTypeOK ==
    /\ binding \in Bindings
    /\ created \in Nat
    /\ volatile_buffer \in 0 .. created
    /\ files \subseteq Paths \cup {TempPath}
    /\ persistent_buffer \in files \cup {Nobody}

DaemonTypeOK == running \in BOOLEAN /\ daemons \in Seq(DaemonRecords)

HandleTypeOK ==
    /\ handle \in Handles
    /\ mutex \in Callers \cup {Nobody}
    /\ got \in [Callers -> Handles]

CallTypeOK ==
    /\ pc \in [Callers -> InitializePoints
                             \cup {"idle", "take", "clear", "join", "gone"}]
    /\ path \in [Callers -> Paths \cup {Nobody}]
    /\ spawned \in [Callers -> Handles]
    /\ calls \in 0 .. MaxCalls

UserTypeOK ==
    /\ cursor \in [Callers -> files \cup {Nobody}]
    /\ written \subseteq 1 .. created
    /\ started \in BOOLEAN
    /\ overlapped \in BOOLEAN

\* Types of the process's state (lib.rs 54-60, ios 31, jni 33): in particular
\* no daemon is started before both cells hold a buffer.
TypeOK == BufferTypeOK /\ DaemonTypeOK /\ HandleTypeOK /\ CallTypeOK
            /\ UserTypeOK

\* However initialisations, writes and cursors of several threads race, they
\* all meet in one ring and one file: the ring that write() fills is the one
\* every daemon empties, and cursors read the file every daemon writes
\* (init_*, get_*).  Which file that is, is another matter: see TempReplaced.
OneLog ==
    /\ written \subseteq {volatile_buffer}
    /\ \A d \in DOMAIN daemons : /\ daemons[d].memory = volatile_buffer
                                 /\ daemons[d].disk = persistent_buffer
    /\ \A t \in Callers : cursor[t] \in {persistent_buffer, Nobody}

\* "Default: use a temporary file, this will be replaced in
\* init_persistent_buffer": once that function has returned, the log is not in
\* the temporary file any more.
TempReplaced ==
    \A t \in Callers : pc[t] = "start" => persistent_buffer # TempPath

\* On iOS a daemon's handle is in one place only, whatever overlaps: joined or
\* dropped by one caller, or stored.
HandleOwnedOnce ==
    binding = "ios" =>
        \A t, u \in Callers :
            /\ got[t] # 0 => got[t] # handle
            /\ got[t] # 0 /\ t # u => got[t] # got[u]

LiveDaemons == {d \in DOMAIN daemons : Alive(d)}

\* As long as clients start the library only when it is stopped, there is never
\* more than one daemon, and none when shutdown has returned ("Wait for the
\* daemon to terminate"): the persistent ring has a single producer.
OneFlusher ==
    ~overlapped => /\ Cardinality(LiveDaemons) <= 1
                   /\ ~started => LiveDaemons = {}

\* Calls of such clients return: the daemon sees the flag go down and shutdown's
\* join comes back, on iOS also when several threads shut down at once and
\* wait for each other's mutex.
CallsReturn ==
    \A t \in Callers :
        (pc[t] # "idle") ~> (pc[t] \in {"idle", "gone"} \/ overlapped)

=============================================================================
