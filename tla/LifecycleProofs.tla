-------------------------- MODULE LifecycleProofs --------------------------
(***************************************************************************)
(* Proofs about Lifecycle, for any number of threads, paths and calls and  *)
(* for both bindings: types, one ring and one file for everybody, on iOS   *)
(* one owner of each daemon handle, and one daemon at a time.              *)
(***************************************************************************)
EXTENDS Lifecycle, SequenceTheorems, FiniteSetTheorems, TLAPS

-----------------------------------------------------------------------------
(* The inductive invariant.                                                *)

\* A thread inside initialize has a path, and has filled the cells that its
\* next steps use.
Prepared ==
    \A t \in Callers :
        /\ pc[t] \in {"memory", "persistent", "create"} => path[t] \in Paths
        /\ pc[t] \in {"persistent", "create", "start", "spawn"}
              => volatile_buffer # 0
        /\ pc[t] \in {"start", "spawn"} => persistent_buffer # Nobody

\* On iOS no thread is between the two halves of an unlocked access, and a
\* daemon just spawned is not yet stored, taken or known to another thread.
Exclusive ==
    binding = "ios" =>
        \A t \in Callers :
            /\ pc[t] \notin {"assign", "clear"}
            /\ spawned[t] # 0 => spawned[t] # handle
            /\ \A u \in Callers :
                  /\ spawned[t] # 0 => spawned[t] # got[u]
                  /\ spawned[t] # 0 /\ t # u => spawned[t] # spawned[u]

LInv == TypeOK /\ OneLog /\ Prepared /\ HandleOwnedOnce /\ Exclusive

\* The parts of OneLog.
WritersMeet == written \subseteq {volatile_buffer}

DaemonsMeet ==
    \A d \in DOMAIN daemons : /\ daemons[d].memory = volatile_buffer
                              /\ daemons[d].disk = persistent_buffer

CursorsMeet == \A t \in Callers : cursor[t] \in {persistent_buffer, Nobody}

\* What no step does to the buffers: empty a cell or exchange its buffer.
Kept ==
    /\ binding' = binding
    /\ created <= created'
    /\ files \subseteq files'
    /\ volatile_buffer # 0 => volatile_buffer' = volatile_buffer
    /\ persistent_buffer # Nobody => persistent_buffer' = persistent_buffer

-----------------------------------------------------------------------------
\* The buffers stay well typed and in their cells.
LEMMA BufferStep ==
  ASSUME LInv, [Next]_vars
  PROVE  BufferTypeOK' /\ Kept
  <1> USE DEF LInv, TypeOK, BufferTypeOK, Kept
  <1>1. ASSUME NEW t \in Callers, init_memory_buffer(t)
        PROVE  BufferTypeOK' /\ Kept
    BY <1>1 DEF init_memory_buffer, OnceOrKeep
  <1>2. ASSUME NEW t \in Callers, init_persistent_buffer(t)
        PROVE  BufferTypeOK' /\ Kept
    <2>1. CASE OpenBufferFile(t) BY <2>1 DEF OpenBufferFile, bufferVars
    <2>2. CASE CreateBuffer(t)
      <3>1. path[t] \in Paths BY <2>2 DEF CreateBuffer, Prepared
      <3> QED BY <2>2, <3>1 DEF CreateBuffer, OnceOrKeep
    <2> QED BY <1>2, <2>1, <2>2 DEF init_persistent_buffer
  <1>3. ASSUME NEW t \in Callers, Write(t)
        PROVE  BufferTypeOK' /\ Kept
    BY <1>3 DEF Write, get_memory_buffer, OnceOrKeep
  <1>4. ASSUME NEW t \in Callers, CreateCursorEarly(t)
        PROVE  BufferTypeOK' /\ Kept
    BY <1>4 DEF CreateCursorEarly
  <1>5. CASE UNCHANGED bufferVars BY <1>5 DEF bufferVars
  <1>6. ASSUME NEW t \in Callers, CallStep(t)
        PROVE  \/ init_memory_buffer(t) \/ init_persistent_buffer(t)
               \/ UNCHANGED bufferVars
    BY <1>6 DEF CallStep, RaiseRunning, SpawnDaemon, StoreHandle,
         LoadOldHandle, AssignHandle, TakeHandle, LoadHandle, ClearHandle, Join
  <1>7. ASSUME NEW t \in Callers,
               Initialize(t) \/ Shutdown(t) \/ CreateCursor(t) \/ CloseCursor(t)
        PROVE  UNCHANGED bufferVars
    BY <1>7 DEF Initialize, Shutdown, CreateCursor, CloseCursor
  <1>8. ASSUME NEW d \in DOMAIN daemons, DaemonStep(d)
        PROVE  UNCHANGED bufferVars
    BY <1>8 DEF DaemonStep, CheckRunning, FlushPass
  <1>9. UNCHANGED vars => UNCHANGED bufferVars BY DEF vars
  <1> HIDE DEF LInv, TypeOK, BufferTypeOK, Kept
  <1> QED BY <1>1, <1>2, <1>3, <1>4, <1>5, <1>6, <1>7, <1>8, <1>9 DEF Next

\* A daemon record stays one when the buffers grow.
LEMMA RecordsGrow ==
  ASSUME LInv, Kept, BufferTypeOK'
  PROVE  /\ Len(daemons) \in Nat
         /\ DOMAIN daemons = 1 .. Len(daemons)
         /\ daemons \in Seq(DaemonRecords')
         /\ \A d \in DOMAIN daemons :
               /\ daemons[d] \in DaemonRecords'
               /\ daemons[d].memory = volatile_buffer'
               /\ daemons[d].disk = persistent_buffer'
  <1>1. daemons \in Seq(DaemonRecords) BY DEF LInv, TypeOK, DaemonTypeOK
  <1>2. Len(daemons) \in Nat /\ DOMAIN daemons = 1 .. Len(daemons)
    BY <1>1, LenProperties
  <1>3. DaemonRecords \subseteq DaemonRecords'
    BY DEF DaemonRecords, Kept, LInv, TypeOK, BufferTypeOK
  <1>4. daemons \in Seq(DaemonRecords') BY <1>1, <1>3, SeqMonotonic
  <1>5. ASSUME NEW d \in DOMAIN daemons
        PROVE  /\ daemons[d] \in DaemonRecords'
               /\ daemons[d].memory = volatile_buffer'
               /\ daemons[d].disk = persistent_buffer'
    <2>1. daemons[d] \in DaemonRecords BY <1>1, <1>2, ElementOfSeq
    <2>2. daemons[d].memory = volatile_buffer /\ daemons[d].disk = persistent_buffer
      BY DEF LInv, OneLog
    <2>3. daemons[d].memory # 0 /\ daemons[d].disk # Nobody
      BY <2>1, CallersAssumption DEF DaemonRecords, LInv, TypeOK, BufferTypeOK
    <2> QED BY <1>3, <2>1, <2>2, <2>3 DEF Kept
  <1> QED BY <1>2, <1>4, <1>5

\* A change of one daemon's state keeps the daemons well typed and together.
LEMMA OneDaemonMoves ==
  ASSUME LInv, Kept, BufferTypeOK', running' \in BOOLEAN,
         NEW d \in DOMAIN daemons, NEW x \in {"check", "work", "ended"},
         daemons' = [daemons EXCEPT ![d].state = x]
  PROVE  DaemonTypeOK' /\ Len(daemons') = Len(daemons) /\ DaemonsMeet'
  <1> DEFINE R == DaemonRecords'
             e == [daemons[d] EXCEPT !.state = x]
  <1>1. /\ Len(daemons) \in Nat /\ DOMAIN daemons = 1 .. Len(daemons)
        /\ daemons \in Seq(R)
        /\ \A k \in DOMAIN daemons : /\ daemons[k] \in R
                                     /\ daemons[k].memory = volatile_buffer'
                                     /\ daemons[k].disk = persistent_buffer'
    BY RecordsGrow
  <1>2. e \in R /\ e.memory = volatile_buffer' /\ e.disk = persistent_buffer'
    BY <1>1 DEF DaemonRecords
  <1>3. daemons' = [daemons EXCEPT ![d] = e] OBVIOUS
  <1> HIDE DEF R, e
  <1>4. /\ daemons' \in Seq(R) /\ Len(daemons') = Len(daemons)
        /\ \A k \in 1 .. Len(daemons) :
              daemons'[k] = IF k = d THEN e ELSE daemons[k]
    BY <1>1, <1>2, <1>3, ExceptSeq
  <1>5. DOMAIN daemons' = 1 .. Len(daemons) BY <1>4, LenProperties
  <1>6. DaemonsMeet' BY <1>1, <1>2, <1>4, <1>5 DEF DaemonsMeet
  <1> QED BY <1>4, <1>6 DEF DaemonTypeOK, R

\* A panic ends all daemons and moves none to another buffer.
LEMMA AbortKeepsDaemons ==
  ASSUME LInv, Kept, BufferTypeOK', running' \in BOOLEAN, Abort
  PROVE  DaemonTypeOK' /\ Len(daemons') = Len(daemons) /\ DaemonsMeet'
  <1> DEFINE R == DaemonRecords'
  <1>1. /\ Len(daemons) \in Nat /\ DOMAIN daemons = 1 .. Len(daemons)
        /\ \A k \in DOMAIN daemons : /\ daemons[k] \in R
                                     /\ daemons[k].memory = volatile_buffer'
                                     /\ daemons[k].disk = persistent_buffer'
    BY RecordsGrow
  <1>2. daemons' = [k \in 1 .. Len(daemons) |->
                      [daemons[k] EXCEPT !.state = "ended"]]
    BY <1>1 DEF Abort
  <1>3. ASSUME NEW k \in 1 .. Len(daemons)
        PROVE  /\ daemons'[k] \in R
               /\ daemons'[k].memory = volatile_buffer'
               /\ daemons'[k].disk = persistent_buffer'
    BY <1>1, <1>2 DEF DaemonRecords
  <1> HIDE DEF R
  <1>4. daemons' \in [1 .. Len(daemons) -> R] BY <1>2, <1>3
  <1>5. daemons' \in Seq(R) BY <1>1, <1>4, SeqDef
  <1>6. DOMAIN daemons' = 1 .. Len(daemons) BY <1>4
  <1>7. Len(daemons') = Len(daemons)
    BY <1>1, <1>5, <1>6, LenProperties
  <1>8. DaemonsMeet' BY <1>3, <1>6 DEF DaemonsMeet
  <1> QED BY <1>5, <1>7, <1>8 DEF DaemonTypeOK, R

\* A new daemon gets the buffers of the cells.
LEMMA SpawnKeepsDaemons ==
  ASSUME LInv, Kept, BufferTypeOK', NEW t \in Callers, SpawnDaemon(t)
  PROVE  /\ DaemonTypeOK' /\ Len(daemons') = Len(daemons) + 1 /\ DaemonsMeet'
         /\ Len(daemons) \in Nat
  <1> DEFINE R == DaemonRecords'
             e == [state |-> "check", memory |-> volatile_buffer,
                   disk |-> persistent_buffer]
  <1>1. /\ Len(daemons) \in Nat /\ DOMAIN daemons = 1 .. Len(daemons)
        /\ daemons \in Seq(R)
        /\ \A k \in DOMAIN daemons : /\ daemons[k] \in R
                                     /\ daemons[k].memory = volatile_buffer'
                                     /\ daemons[k].disk = persistent_buffer'
    BY RecordsGrow
  <1>2. volatile_buffer # 0 /\ persistent_buffer # Nobody
    BY DEF SpawnDaemon, LInv, Prepared
  <1>3. volatile_buffer' = volatile_buffer /\ persistent_buffer' = persistent_buffer
    BY <1>2 DEF Kept
  <1>4. e \in R /\ e.memory = volatile_buffer' /\ e.disk = persistent_buffer'
    BY <1>2, <1>3 DEF DaemonRecords, BufferTypeOK
  <1>5. daemons' = Append(daemons, e) BY DEF SpawnDaemon
  <1>6. running' \in BOOLEAN BY DEF SpawnDaemon, LInv, TypeOK, DaemonTypeOK
  <1> HIDE DEF R, e
  <1>7. /\ daemons' \in Seq(R) /\ Len(daemons') = Len(daemons) + 1
        /\ \A k \in 1 .. Len(daemons) : daemons'[k] = daemons[k]
        /\ daemons'[Len(daemons) + 1] = e
    BY <1>1, <1>4, <1>5, AppendProperties
  <1>8. DOMAIN daemons' = 1 .. Len(daemons) + 1 BY <1>7, LenProperties
  <1>9. DaemonsMeet'
    <2> SUFFICES ASSUME NEW k \in 1 .. Len(daemons) + 1
                 PROVE  /\ daemons'[k].memory = volatile_buffer'
                        /\ daemons'[k].disk = persistent_buffer'
      BY <1>8 DEF DaemonsMeet
    <2>1. CASE k \in 1 .. Len(daemons) BY <1>1, <1>7, <2>1
    <2>2. CASE k = Len(daemons) + 1 BY <1>4, <1>7, <2>2
    <2> QED BY <1>1, <2>1, <2>2
  <1> QED BY <1>1, <1>6, <1>7, <1>9 DEF DaemonTypeOK, R

\* Every step keeps the daemons well typed and on the buffers of the cells, and
\* forgets none.
LEMMA DaemonsStep ==
  ASSUME LInv, [Next]_vars
  PROVE  /\ DaemonTypeOK' /\ DaemonsMeet'
         /\ Len(daemons) \in Nat /\ Len(daemons') \in Nat
         /\ Len(daemons) <= Len(daemons')
  <1> DEFINE Goal == /\ DaemonTypeOK' /\ DaemonsMeet'
                     /\ Len(daemons) <= Len(daemons')
  <1>1. BufferTypeOK' /\ Kept BY BufferStep
  <1>2. /\ Len(daemons) \in Nat /\ daemons \in Seq(DaemonRecords')
        /\ \A d \in DOMAIN daemons : /\ daemons[d].memory = volatile_buffer'
                                     /\ daemons[d].disk = persistent_buffer'
    BY <1>1, RecordsGrow
  <1>3. running \in BOOLEAN BY DEF LInv, TypeOK, DaemonTypeOK
  <1>4. ASSUME daemons' = daemons, running' \in BOOLEAN PROVE Goal
    BY <1>2, <1>4 DEF DaemonTypeOK, DaemonsMeet
  <1>5. ASSUME NEW t \in Callers, init_persistent_buffer(t) PROVE Goal
    <2>1. running' \in BOOLEAN
      BY <1>3, <1>5 DEF init_persistent_buffer, OpenBufferFile, CreateBuffer,
                        daemonVars
    <2>2. daemons' = daemons \/ Abort
      BY <1>5 DEF init_persistent_buffer, OpenBufferFile, CreateBuffer,
                  daemonVars
    <2> QED BY <1>1, <1>2, <1>4, <2>1, <2>2, AbortKeepsDaemons
  <1>6. ASSUME NEW t \in Callers, CreateCursorEarly(t) PROVE Goal
    <2>1. running' \in BOOLEAN BY <1>3, <1>6 DEF CreateCursorEarly
    <2>2. daemons' = daemons \/ Abort BY <1>6 DEF CreateCursorEarly
    <2> QED BY <1>1, <1>2, <1>4, <2>1, <2>2, AbortKeepsDaemons
  <1>7. ASSUME NEW t \in Callers, SpawnDaemon(t) PROVE Goal
    BY <1>1, <1>2, <1>7, SpawnKeepsDaemons
  <1>8. ASSUME NEW d \in DOMAIN daemons, DaemonStep(d) PROVE Goal
    <2>1. PICK x \in {"check", "work", "ended"} :
             /\ daemons' = [daemons EXCEPT ![d].state = x]
             /\ running' = running
      BY <1>8 DEF DaemonStep, CheckRunning, FlushPass
    <2>2. DaemonTypeOK' /\ Len(daemons') = Len(daemons) /\ DaemonsMeet'
      BY <1>1, <1>3, <2>1, OneDaemonMoves
    <2> QED BY <1>2, <2>2
  <1>9. ASSUME NEW t \in Callers, CallStep(t)
        PROVE  \/ init_persistent_buffer(t) \/ SpawnDaemon(t)
               \/ daemons' = daemons /\ running' \in BOOLEAN
    BY <1>3, <1>9 DEF CallStep, init_memory_buffer, RaiseRunning, StoreHandle,
         LoadOldHandle, AssignHandle, TakeHandle, LoadHandle, ClearHandle, Join,
         daemonVars
  <1>10. ASSUME NEW t \in Callers,
                \/ Initialize(t) \/ Shutdown(t) \/ Write(t)
                \/ CreateCursor(t) \/ CloseCursor(t)
         PROVE  daemons' = daemons /\ running' \in BOOLEAN
    BY <1>3, <1>10 DEF Initialize, Shutdown, Write, CreateCursor, CloseCursor,
         stop_flush_daemon, daemonVars
  <1>11. UNCHANGED vars => daemons' = daemons /\ running' \in BOOLEAN
    BY <1>3 DEF vars, daemonVars
  <1>12. Goal
    <2> HIDE DEF Goal
    <2> QED BY <1>4, <1>5, <1>6, <1>7, <1>8, <1>9, <1>10, <1>11 DEF Next
  <1>13. Len(daemons') \in Nat BY <1>12, LenProperties DEF DaemonTypeOK
  <1> QED BY <1>2, <1>12, <1>13

-----------------------------------------------------------------------------
(* The rest of the state.                                                  *)

\* Handles stay numbers of daemons.
LEMMA HandleStep ==
  ASSUME LInv, [Next]_vars
  PROVE  HandleTypeOK' /\ spawned' \in [Callers -> Handles']
  <1> DEFINE Goal == HandleTypeOK' /\ spawned' \in [Callers -> Handles']
  <1>1. /\ Handles \subseteq Handles' /\ 0 \in Handles'
        /\ Len(daemons') \in Handles'
    BY DaemonsStep DEF Handles
  <1>2. /\ handle \in Handles' /\ mutex \in Callers \cup {Nobody}
        /\ got \in [Callers -> Handles'] /\ spawned \in [Callers -> Handles']
    BY <1>1 DEF LInv, TypeOK, HandleTypeOK, CallTypeOK
  <1> USE DEF HandleTypeOK
  <1>3. ASSUME UNCHANGED <<handleVars, spawned>> PROVE Goal
    BY <1>2, <1>3 DEF handleVars
  <1>4. ASSUME NEW t \in Callers, SpawnDaemon(t) PROVE Goal
    <2>1. Len(daemons') = Len(daemons) + 1
      BY <1>4, BufferStep, SpawnKeepsDaemons
    <2> QED BY <1>1, <1>2, <1>4, <2>1 DEF SpawnDaemon, handleVars
  <1>5. ASSUME NEW t \in Callers, StoreHandle(t) PROVE Goal
    BY <1>1, <1>2, <1>5 DEF StoreHandle
  <1>6. ASSUME NEW t \in Callers, LoadOldHandle(t) \/ LoadHandle(t) PROVE Goal
    BY <1>2, <1>6 DEF LoadOldHandle, LoadHandle, callVars
  <1>7. ASSUME NEW t \in Callers, AssignHandle(t) PROVE Goal
    BY <1>1, <1>2, <1>7 DEF AssignHandle
  <1>8. ASSUME NEW t \in Callers, TakeHandle(t) PROVE Goal
    BY <1>1, <1>2, <1>8 DEF TakeHandle, JoinOrReturn, callVars
  <1>9. ASSUME NEW t \in Callers, ClearHandle(t) PROVE Goal
    BY <1>1, <1>2, <1>9 DEF ClearHandle, JoinOrReturn, callVars
  <1>10. ASSUME NEW t \in Callers, Join(t) PROVE Goal
    BY <1>1, <1>2, <1>10 DEF Join, callVars
  <1>11. ASSUME NEW t \in Callers,
                \/ init_memory_buffer(t) \/ init_persistent_buffer(t)
                \/ RaiseRunning(t) \/ Initialize(t) \/ Shutdown(t) \/ Write(t)
                \/ CreateCursor(t) \/ CreateCursorEarly(t) \/ CloseCursor(t)
         PROVE  UNCHANGED <<handleVars, spawned>>
    BY <1>11 DEF init_memory_buffer, init_persistent_buffer, OpenBufferFile,
         CreateBuffer, RaiseRunning, Initialize, Shutdown, Write, CreateCursor,
         CreateCursorEarly, CloseCursor, callVars
  <1>12. ASSUME NEW d \in DOMAIN daemons, DaemonStep(d)
         PROVE  UNCHANGED <<handleVars, spawned>>
    BY <1>12 DEF DaemonStep, CheckRunning, FlushPass, callVars
  <1>13. UNCHANGED vars => UNCHANGED <<handleVars, spawned>>
    BY DEF vars, callVars
  <1> HIDE DEF Goal, HandleTypeOK
  <1>14. ASSUME NEW t \in Callers, CallStep(t) PROVE Goal
    BY <1>3, <1>4, <1>5, <1>6, <1>7, <1>8, <1>9, <1>10, <1>11, <1>14
       DEF CallStep
  <1>15. Goal BY <1>3, <1>11, <1>12, <1>13, <1>14 DEF Next
  <1> QED BY <1>15 DEF Goal

\* Threads stay at known places of the code, and prepared for their next step.
LEMMA CallsStep ==
  ASSUME LInv, [Next]_vars
  PROVE  CallTypeOK' /\ Prepared'
  <1> DEFINE Goal == CallTypeOK' /\ Prepared'
  <1>1. Kept BY BufferStep
  <1>2. spawned' \in [Callers -> Handles'] BY HandleStep
  <1>3. CallTypeOK /\ Prepared BY DEF LInv, TypeOK
  <1> USE DEF CallTypeOK, Prepared, InitializePoints, Goto
  <1>4. ASSUME UNCHANGED <<pc, path>>, calls' \in 0 .. MaxCalls PROVE Goal
    BY <1>1, <1>2, <1>3, <1>4 DEF Kept
  <1>5. ASSUME NEW t \in Callers, BeginCall(t) PROVE calls' \in 0 .. MaxCalls
    BY <1>3, <1>5, CallersAssumption DEF BeginCall
  <1>6. ASSUME NEW t \in Callers,
               Write(t) \/ CreateCursor(t) \/ CloseCursor(t)
        PROVE  Goal
    BY <1>4, <1>5, <1>6 DEF Write, CreateCursor, CloseCursor
  <1>7. ASSUME NEW t \in Callers, CreateCursorEarly(t) PROVE Goal
    BY <1>1, <1>2, <1>3, <1>5, <1>7 DEF CreateCursorEarly, Abort, Kept
  <1>8. ASSUME NEW t \in Callers, Initialize(t) PROVE Goal
    BY <1>1, <1>2, <1>3, <1>5, <1>8 DEF Initialize, Kept
  <1>9. ASSUME NEW t \in Callers, Shutdown(t) PROVE Goal
    BY <1>1, <1>2, <1>3, <1>5, <1>9 DEF Shutdown, Kept
  <1>10. ASSUME NEW t \in Callers, init_memory_buffer(t) PROVE Goal
    <2>1. volatile_buffer' # 0
      BY <1>10 DEF init_memory_buffer, OnceOrKeep, LInv, TypeOK, BufferTypeOK
    <2> QED BY <1>1, <1>2, <1>3, <1>10, <2>1 DEF init_memory_buffer, callVars, Kept
  <1>11. ASSUME NEW t \in Callers, init_persistent_buffer(t) PROVE Goal
    <2>1. CASE OpenBufferFile(t) /\ Abort
      BY <1>2, <1>3, <2>1 DEF OpenBufferFile, Abort, callVars
    <2>2. CASE OpenBufferFile(t) /\ Goto(t, "create")
      BY <1>1, <1>2, <1>3, <2>2 DEF OpenBufferFile, callVars, Kept
    <2>3. CASE CreateBuffer(t)
      <3>1. path[t] # Nobody BY <1>3, <2>3, CallersAssumption DEF CreateBuffer
      <3>2. persistent_buffer' # Nobody BY <2>3, <3>1 DEF CreateBuffer, OnceOrKeep
      <3> QED BY <1>1, <1>2, <1>3, <2>3, <3>2 DEF CreateBuffer, callVars, Kept
    <2> QED BY <1>11, <2>1, <2>2, <2>3
            DEF init_persistent_buffer, OpenBufferFile
  <1>12. ASSUME NEW t \in Callers, RaiseRunning(t) PROVE Goal
    BY <1>1, <1>2, <1>3, <1>12 DEF RaiseRunning, callVars, Kept
  <1>13. ASSUME NEW t \in Callers, SpawnDaemon(t) PROVE Goal
    BY <1>1, <1>2, <1>3, <1>13 DEF SpawnDaemon, Kept
  <1>14. ASSUME NEW t \in Callers, StoreHandle(t) \/ AssignHandle(t) PROVE Goal
    BY <1>1, <1>2, <1>3, <1>14 DEF StoreHandle, AssignHandle, Kept
  <1>15. ASSUME NEW t \in Callers, LoadOldHandle(t) \/ LoadHandle(t) PROVE Goal
    BY <1>1, <1>2, <1>3, <1>15 DEF LoadOldHandle, LoadHandle, callVars, Kept
  <1>16. ASSUME NEW t \in Callers, TakeHandle(t) PROVE Goal
    BY <1>1, <1>2, <1>3, <1>16 DEF TakeHandle, JoinOrReturn, callVars, Kept
  <1>17. ASSUME NEW t \in Callers, ClearHandle(t) PROVE Goal
    BY <1>1, <1>2, <1>3, <1>17 DEF ClearHandle, JoinOrReturn, callVars, Kept
  <1>18. ASSUME NEW t \in Callers, Join(t) PROVE Goal
    BY <1>1, <1>2, <1>3, <1>18 DEF Join, callVars, Kept
  <1>19. ASSUME NEW d \in DOMAIN daemons, DaemonStep(d) PROVE Goal
    BY <1>3, <1>4, <1>19 DEF DaemonStep, CheckRunning, FlushPass, callVars
  <1>20. UNCHANGED vars => Goal BY <1>3, <1>4 DEF vars, callVars
  <1> HIDE DEF Goal, CallTypeOK, Prepared, InitializePoints, Goto
  <1>21. ASSUME NEW t \in Callers, CallStep(t) PROVE Goal
    BY <1>10, <1>11, <1>12, <1>13, <1>14, <1>15, <1>16, <1>17, <1>18, <1>21
       DEF CallStep
  <1>22. Goal BY <1>6, <1>7, <1>8, <1>9, <1>19, <1>20, <1>21 DEF Next
  <1> QED BY <1>22 DEF Goal

\* Writers and cursors stay with the buffers of the cells.
LEMMA UsersStep ==
  ASSUME LInv, [Next]_vars
  PROVE  UserTypeOK' /\ WritersMeet' /\ CursorsMeet'
  <1> DEFINE Goal == UserTypeOK' /\ WritersMeet' /\ CursorsMeet'
             Noted == started' \in BOOLEAN /\ overlapped' \in BOOLEAN
  <1>1. BufferTypeOK' /\ Kept BY BufferStep
  <1>2. BufferTypeOK /\ UserTypeOK /\ WritersMeet /\ CursorsMeet
    BY DEF LInv, TypeOK, OneLog, WritersMeet, CursorsMeet
  <1>3. written \subseteq 1 .. created' /\ written \subseteq {volatile_buffer'}
    BY <1>1, <1>2 DEF Kept, BufferTypeOK, UserTypeOK, WritersMeet
  <1>4. /\ cursor \in [Callers -> files' \cup {Nobody}]
        /\ \A t \in Callers : cursor[t] \in {persistent_buffer', Nobody}
    BY <1>1, <1>2 DEF Kept, UserTypeOK, CursorsMeet
  <1>5. started \in BOOLEAN /\ overlapped \in BOOLEAN BY <1>2 DEF UserTypeOK
  <1>6. ASSUME UNCHANGED <<cursor, written>>, Noted PROVE Goal
    BY <1>3, <1>4, <1>6 DEF UserTypeOK, WritersMeet, CursorsMeet
  <1>7. ASSUME NEW t \in Callers, Write(t) PROVE Goal
    <2>1. volatile_buffer' \in 1 .. created'
      BY <1>2, <1>7 DEF Write, get_memory_buffer, OnceOrKeep, BufferTypeOK
    <2>2. UNCHANGED <<cursor, started, overlapped>> BY <1>7 DEF Write
    <2>3. written' = written \cup {volatile_buffer'} BY <1>7 DEF Write
    <2> QED BY <1>3, <1>4, <1>5, <2>1, <2>2, <2>3
            DEF UserTypeOK, WritersMeet, CursorsMeet
  <1>8. ASSUME NEW t \in Callers, NEW c \in {persistent_buffer', Nobody},
               cursor' = [cursor EXCEPT ![t] = c],
               UNCHANGED <<written, started, overlapped>>
        PROVE  Goal
    <2>1. c \in files' \cup {Nobody} BY <1>1 DEF BufferTypeOK
    <2> QED BY <1>3, <1>4, <1>5, <1>8, <2>1
            DEF UserTypeOK, WritersMeet, CursorsMeet
  <1>9. ASSUME NEW t \in Callers, CreateCursor(t) PROVE Goal
    BY <1>8, <1>9 DEF CreateCursor, bufferVars
  <1>10. ASSUME NEW t \in Callers, CreateCursorEarly(t) PROVE Goal
    BY <1>5, <1>6, <1>8, <1>10 DEF CreateCursorEarly
  <1>11. ASSUME NEW t \in Callers, CloseCursor(t) PROVE Goal
    BY <1>8, <1>11 DEF CloseCursor
  <1>12. ASSUME NEW t \in Callers, Initialize(t) \/ Shutdown(t) PROVE Goal
    BY <1>5, <1>6, <1>12 DEF Initialize, Shutdown, NoteOverlap
  <1>13. ASSUME NEW t \in Callers,
                TakeHandle(t) \/ ClearHandle(t) \/ Join(t)
         PROVE  Goal
    BY <1>5, <1>6, <1>13 DEF TakeHandle, ClearHandle, Join, JoinOrReturn
  <1>14. ASSUME UNCHANGED userVars PROVE Goal BY <1>5, <1>6, <1>14 DEF userVars
  <1>15. ASSUME NEW t \in Callers,
                \/ init_memory_buffer(t) \/ init_persistent_buffer(t)
                \/ RaiseRunning(t) \/ SpawnDaemon(t) \/ StoreHandle(t)
                \/ LoadOldHandle(t) \/ AssignHandle(t) \/ LoadHandle(t)
         PROVE  UNCHANGED userVars
    BY <1>15 DEF init_memory_buffer, init_persistent_buffer, OpenBufferFile,
         CreateBuffer, RaiseRunning, SpawnDaemon, StoreHandle, LoadOldHandle,
         AssignHandle, LoadHandle
  <1>16. ASSUME NEW d \in DOMAIN daemons, DaemonStep(d)
         PROVE  UNCHANGED userVars
    BY <1>16 DEF DaemonStep, CheckRunning, FlushPass
  <1>17. UNCHANGED vars => UNCHANGED userVars BY DEF vars
  <1> HIDE DEF Goal, Noted
  <1>18. ASSUME NEW t \in Callers, CallStep(t) PROVE Goal
    BY <1>13, <1>14, <1>15, <1>18 DEF CallStep
  <1>19. Goal
    BY <1>7, <1>9, <1>10, <1>11, <1>12, <1>14, <1>16, <1>17, <1>18 DEF Next
  <1> QED BY <1>19 DEF Goal

\* On iOS a handle keeps one owner.  Only the steps under the mutex move one,
\* and a new daemon has a number that nobody holds yet.
LEMMA OwnersStep ==
  ASSUME LInv, [Next]_vars
  PROVE  HandleOwnedOnce' /\ Exclusive'
  <1> DEFINE Goal == HandleOwnedOnce' /\ Exclusive'
  <1>1. binding' = binding BY BufferStep DEF Kept
  <1>2. /\ HandleOwnedOnce /\ Exclusive
        /\ handle \in Handles /\ got \in [Callers -> Handles]
        /\ spawned \in [Callers -> Handles] /\ DOMAIN pc = Callers
    BY DEF LInv, TypeOK, HandleTypeOK, CallTypeOK
  <1>3. CASE binding # "ios" BY <1>1, <1>3 DEF HandleOwnedOnce, Exclusive
  <1>4. CASE binding = "ios"
    <2> USE <1>1, <1>2, <1>4 DEF HandleOwnedOnce, Exclusive, Goto
    <2>1. ASSUME UNCHANGED <<handle, got, spawned>>,
                 \A t \in Callers : pc'[t] \notin {"assign", "clear"}
          PROVE  Goal
      BY <2>1
    <2>2. ASSUME NEW t \in Callers, SpawnDaemon(t) PROVE Goal
      <3>1. Len(daemons) \in Nat BY DaemonsStep
      <3>2. Len(daemons) + 1 \notin Handles /\ Len(daemons) + 1 # 0
        BY <3>1 DEF Handles
      <3> QED BY <2>2, <3>2 DEF SpawnDaemon, handleVars
    <2>3. ASSUME NEW t \in Callers, StoreHandle(t) PROVE Goal
      BY <2>3 DEF StoreHandle
    <2>4. ASSUME NEW t \in Callers, TakeHandle(t) PROVE Goal
      BY <2>4 DEF TakeHandle, JoinOrReturn, NeedsJoin, callVars
    <2>5. ASSUME NEW t \in Callers, Join(t) PROVE Goal
      BY <2>5 DEF Join, callVars
    <2>6. ASSUME NEW t \in Callers,
                 \/ LoadOldHandle(t) \/ AssignHandle(t)
                 \/ LoadHandle(t) \/ ClearHandle(t)
          PROVE  FALSE
      BY <2>6 DEF LoadOldHandle, AssignHandle, LoadHandle, ClearHandle,
           HandleIsLocked
    <2>7. ASSUME NEW t \in Callers,
                 \/ init_memory_buffer(t) \/ init_persistent_buffer(t)
                 \/ RaiseRunning(t) \/ Initialize(t) \/ Shutdown(t)
          PROVE  Goal
      BY <2>1, <2>7, ZenonT(40) DEF init_memory_buffer, init_persistent_buffer,
           OpenBufferFile, CreateBuffer, Abort, RaiseRunning, Initialize,
           Shutdown, handleVars, callVars
    <2>8. ASSUME NEW t \in Callers,
                 \/ Write(t) \/ CreateCursor(t) \/ CreateCursorEarly(t)
                 \/ CloseCursor(t)
          PROVE  Goal
      BY <2>1, <2>8 DEF Write, CreateCursor, CreateCursorEarly, Abort,
           CloseCursor, handleVars
    <2>9. ASSUME NEW d \in DOMAIN daemons, DaemonStep(d) PROVE Goal
      BY <2>1, <2>9 DEF DaemonStep, CheckRunning, FlushPass, handleVars, callVars
    <2>10. UNCHANGED vars => Goal BY <2>1 DEF vars, handleVars, callVars
    <2> HIDE DEF Goal, HandleOwnedOnce, Exclusive, Goto
    <2>11. ASSUME NEW t \in Callers, CallStep(t) PROVE Goal
      BY <2>2, <2>3, <2>4, <2>5, <2>6, <2>7, <2>11 DEF CallStep
    <2>12. Goal BY <2>7, <2>8, <2>9, <2>10, <2>11 DEF Next
    <2> QED BY <2>12 DEF Goal
  <1> QED BY <1>3, <1>4

-----------------------------------------------------------------------------
(* The theorems.                                                           *)

\* Initially both cells are empty and no call runs: the invariant holds.
LEMMA InvInit == Init => LInv
  <1> SUFFICES ASSUME Init PROVE LInv OBVIOUS
  <1>1. daemons \in Seq(DaemonRecords) /\ Len(daemons) = 0 /\ DOMAIN daemons = {}
    BY EmptySeq DEF Init
  <1>2. TypeOK
    <2>1. BufferTypeOK BY CallersAssumption DEF Init, BufferTypeOK
    <2>2. DaemonTypeOK BY <1>1 DEF Init, DaemonTypeOK
    <2>3. 0 \in Handles BY <1>1 DEF Handles
    <2>4. HandleTypeOK BY <2>3 DEF Init, HandleTypeOK
    <2>5. CallTypeOK BY <2>3, CallersAssumption DEF Init, CallTypeOK
    <2>6. UserTypeOK BY DEF Init, UserTypeOK
    <2> QED BY <2>1, <2>2, <2>4, <2>5, <2>6 DEF TypeOK
  <1>3. OneLog BY <1>1 DEF Init, OneLog
  <1>4. Prepared /\ HandleOwnedOnce /\ Exclusive
    BY DEF Init, Prepared, HandleOwnedOnce, Exclusive
  <1> QED BY <1>2, <1>3, <1>4 DEF LInv

\* Every step keeps the invariant.
LEMMA InvNext == LInv /\ [Next]_vars => LInv'
  <1> SUFFICES ASSUME LInv, [Next]_vars PROVE LInv' OBVIOUS
  <1>1. TypeOK'
    BY BufferStep, DaemonsStep, HandleStep, CallsStep, UsersStep DEF TypeOK
  <1>2. OneLog'
    BY DaemonsStep, UsersStep DEF OneLog, WritersMeet, DaemonsMeet, CursorsMeet
  <1> QED BY <1>1, <1>2, CallsStep, OwnersStep DEF LInv

\* The inductive invariant holds in every reachable state.
THEOREM Invariance == Spec => []LInv
  BY InvInit, InvNext, PTL DEF Spec

\* The process's state is well typed whatever is called when: in particular a
\* daemon always starts on two buffers that exist (lib.rs 149-160).
THEOREM TypeCorrect == Spec => []TypeOK
  <1>1. LInv => TypeOK BY DEF LInv
  <1> QED BY <1>1, Invariance, PTL

\* However initialisations, writes, cursors and panics of any number of threads
\* interleave, everybody works on one ring and one file (lib.rs 67-118).
THEOREM SharedLog == Spec => []OneLog
  <1>1. LInv => OneLog BY DEF LInv
  <1> QED BY <1>1, Invariance, PTL

\* On iOS, for any number of threads that initialise and shut down at once, no
\* daemon is joined twice and no handle is lost to two owners (ios 111-127).
THEOREM HandleOwnership == Spec => []HandleOwnedOnce
  <1>1. LInv => HandleOwnedOnce BY DEF LInv
  <1> QED BY <1>1, Invariance, PTL

-----------------------------------------------------------------------------
(* One daemon at a time, for clients whose calls do not overlap.           *)

\* initialize runs alone and on a library that counts as started.
InitializeAlone ==
    \A t \in Callers : pc[t] \in InitializePoints =>
        /\ started
        /\ \A u \in Callers \ {t} : pc[u] = "idle"

\* With the static mut every call runs alone; on iOS a thread that joins holds
\* the mutex.
OthersWait ==
    \A t \in Callers :
        /\ binding = "ios" /\ pc[t] = "join" => mutex = t
        /\ binding # "ios" /\ pc[t] \notin {"idle", "gone"} =>
              \A u \in Callers \ {t} : pc[u] = "idle"

\* The live daemon, if any, is the one that the handle, or the thread at work
\* on it, refers to.
Traced ==
    /\ ~started => LiveDaemons = {}
    /\ \A t \in Callers :
          /\ pc[t] \in {"memory", "persistent", "create", "start", "spawn"}
                => LiveDaemons = {}
          /\ pc[t] \in {"store", "assign"} => LiveDaemons \subseteq {spawned[t]}
          /\ pc[t] \in {"join", "clear"} => LiveDaemons \subseteq {got[t]}
    /\ (\A t \in Callers : pc[t] \notin InitializePoints \cup {"join", "clear"})
          => LiveDaemons \subseteq {handle}

Orderly == ~overlapped => InitializeAlone /\ OthersWait /\ Traced

\* Only SpawnDaemon brings a daemon to life, a new one.
LEMMA LiveStep ==
  ASSUME LInv, [Next]_vars
  PROVE  /\ 0 \notin LiveDaemons
         /\ \/ LiveDaemons' \subseteq LiveDaemons
            \/ \E t \in Callers :
                  /\ SpawnDaemon(t)
                  /\ LiveDaemons' \subseteq LiveDaemons \cup {Len(daemons) + 1}
  <1> DEFINE Fewer == LiveDaemons' \subseteq LiveDaemons
  <1>1. Len(daemons) \in Nat /\ DOMAIN daemons = 1 .. Len(daemons)
    BY BufferStep, RecordsGrow
  <1>2. daemons \in Seq(DaemonRecords) BY DEF LInv, TypeOK, DaemonTypeOK
  <1>3. daemons' = daemons => Fewer BY DEF LiveDaemons, Alive
  <1>4. Abort => Fewer BY DEF Abort, LiveDaemons, Alive
  <1>5. ASSUME NEW d \in DOMAIN daemons, DaemonStep(d) PROVE Fewer
    <2>1. PICK x \in {"check", "work", "ended"} :
             daemons' = [daemons EXCEPT ![d].state = x]
      BY <1>5 DEF DaemonStep, CheckRunning, FlushPass
    <2>2. DOMAIN daemons' = DOMAIN daemons BY <2>1
    <2>3. ASSUME NEW k \in DOMAIN daemons, k # d PROVE daemons'[k] = daemons[k]
      BY <2>1, <2>3
    <2>4. Alive(d) BY <1>5 DEF DaemonStep, CheckRunning, FlushPass, Alive
    <2> QED BY <2>2, <2>3, <2>4 DEF LiveDaemons, Alive
  <1>6. ASSUME NEW t \in Callers, SpawnDaemon(t)
        PROVE  LiveDaemons' \subseteq LiveDaemons \cup {Len(daemons) + 1}
    <2> DEFINE e == [state |-> "check", memory |-> volatile_buffer,
                     disk |-> persistent_buffer]
    <2>1. daemons' = Append(daemons, e) BY <1>6 DEF SpawnDaemon
    <2> HIDE DEF e
    <2>2. /\ DOMAIN daemons' = 1 .. Len(daemons) + 1
          /\ \A k \in 1 .. Len(daemons) : daemons'[k] = daemons[k]
      BY <1>1, <1>2, <2>1
    <2> QED BY <1>1, <2>2 DEF LiveDaemons, Alive
  <1>7. ASSUME NEW t \in Callers, CallStep(t)
        PROVE  SpawnDaemon(t) \/ daemons' = daemons \/ Abort
    BY <1>7 DEF CallStep, init_memory_buffer, init_persistent_buffer,
         OpenBufferFile, CreateBuffer, RaiseRunning, StoreHandle,
         LoadOldHandle, AssignHandle, TakeHandle, LoadHandle, ClearHandle,
         Join, daemonVars
  <1>8. ASSUME NEW t \in Callers,
               \/ Initialize(t) \/ Shutdown(t) \/ Write(t) \/ CreateCursor(t)
               \/ CreateCursorEarly(t) \/ CloseCursor(t)
        PROVE  daemons' = daemons \/ Abort
    BY <1>8 DEF Initialize, Shutdown, Write, CreateCursor, CreateCursorEarly,
         CloseCursor, daemonVars
  <1>9. UNCHANGED vars => daemons' = daemons BY DEF vars, daemonVars
  <1>10. 0 \notin LiveDaemons BY <1>1 DEF LiveDaemons
  <1> HIDE DEF Fewer
  <1>11. Fewer \/ \E t \in Callers : SpawnDaemon(t)
    BY <1>3, <1>4, <1>5, <1>7, <1>8, <1>9 DEF Next
  <1> QED BY <1>6, <1>10, <1>11 DEF Fewer

\* Every step keeps the calls orderly as long as they do not overlap.
LEMMA OrderlyNext ==
  ASSUME LInv, Orderly, [Next]_vars
  PROVE  Orderly'
  <1> DEFINE Alone == InitializeAlone /\ OthersWait /\ Traced
             Goal == ~overlapped' => (InitializeAlone' /\ OthersWait' /\ Traced')
  <1>1. binding' = binding BY BufferStep DEF Kept
  <1>2. /\ pc \in [Callers -> InitializePoints
                                \cup {"idle", "take", "clear", "join", "gone"}]
        /\ got \in [Callers -> Handles] /\ spawned \in [Callers -> Handles]
    BY DEF LInv, TypeOK, HandleTypeOK, CallTypeOK
  <1>3. binding = "ios" => \A t \in Callers : pc[t] \notin {"assign", "clear"}
    BY DEF LInv, Exclusive
  <1>4. 0 \notin LiveDaemons BY LiveStep
  <1>5. ~overlapped => Alone BY DEF Orderly
  <1> USE DEF InitializeAlone, OthersWait, Traced, InitializePoints, Goto
  <1>6. ASSUME LiveDaemons' \subseteq LiveDaemons,
               UNCHANGED <<pc, started, overlapped, mutex, handle, got, spawned>>
        PROVE  Goal
    BY <1>1, <1>5, <1>6
  <1>7. ASSUME NEW t \in Callers, Initialize(t),
               LiveDaemons' \subseteq LiveDaemons
        PROVE  Goal
    <2> SUFFICES ASSUME ~overlapped'
                 PROVE  InitializeAlone' /\ OthersWait' /\ Traced'
      OBVIOUS
    <2>1. ~overlapped /\ ~started /\ \A u \in Callers \ {t} : pc[u] = "idle"
      BY <1>7 DEF Initialize, NoteOverlap, Overlaps
    <2>2. LiveDaemons' = {} BY <1>5, <1>7, <2>1
    <2>3. pc' = [pc EXCEPT ![t] = "memory"] /\ started'
      BY <1>7 DEF Initialize
    <2> QED BY <1>1, <1>2, <2>1, <2>2, <2>3
  <1>8. ASSUME NEW t \in Callers, Shutdown(t),
               LiveDaemons' \subseteq LiveDaemons
        PROVE  Goal
    <2> SUFFICES ASSUME ~overlapped'
                 PROVE  InitializeAlone' /\ OthersWait' /\ Traced'
      OBVIOUS
    <2>1. /\ ~overlapped
          /\ \A u \in Callers \ {t} : pc[u] \notin InitializePoints
          /\ binding = "jni" => \A u \in Callers \ {t} : pc[u] = "idle"
      BY <1>8 DEF Shutdown, NoteOverlap, Overlaps
    <2>2. binding \in {"ios", "jni"}
      BY CallersAssumption DEF LInv, TypeOK, BufferTypeOK
    <2>3. /\ pc[t] = "idle" /\ pc' = [pc EXCEPT ![t] = "take"]
          /\ UNCHANGED <<started, mutex, handle, got, spawned>>
      BY <1>8 DEF Shutdown, BeginCall, handleVars
    <2>4. InitializeAlone' BY <1>2, <1>5, <2>1, <2>3
    <2>5. OthersWait' BY <1>1, <1>2, <1>5, <2>1, <2>2, <2>3
    <2>6. Traced' BY <1>2, <1>5, <1>8, <2>1, <2>3
    <2> HIDE DEF InitializeAlone, OthersWait, Traced
    <2> QED BY <2>4, <2>5, <2>6
  <1>9. ASSUME NEW t \in Callers,
               pc[t] \in {"memory", "persistent", "create", "start"},
               NEW l \in {"persistent", "create", "start", "spawn"},
               pc' = [pc EXCEPT ![t] = l],
               LiveDaemons' \subseteq LiveDaemons,
               UNCHANGED <<started, overlapped, mutex, handle, got, spawned>>
        PROVE  Goal
    BY <1>1, <1>2, <1>5, <1>9
  <1>10. ASSUME Abort, UNCHANGED <<started, overlapped>> PROVE Goal
    <2>1. LiveDaemons' = {} BY <1>10 DEF Abort, LiveDaemons, Alive
    <2>2. \A t \in Callers : pc'[t] = "gone" BY <1>10 DEF Abort
    <2> QED BY <2>1, <2>2
  <1>11. ASSUME NEW t \in Callers, SpawnDaemon(t),
                LiveDaemons' \subseteq LiveDaemons \cup {Len(daemons) + 1}
         PROVE  Goal
    <2>1. /\ pc[t] = "spawn" /\ pc' = [pc EXCEPT ![t] = "store"]
          /\ spawned' = [spawned EXCEPT ![t] = Len(daemons) + 1]
          /\ UNCHANGED <<started, overlapped, mutex, handle, got>>
      BY <1>11 DEF SpawnDaemon, handleVars, userVars
    <2>2. spawned'[t] = Len(daemons) + 1 BY <1>2, <2>1
    <2>3. ~overlapped => LiveDaemons' \subseteq {spawned'[t]}
      BY <1>5, <1>11, <2>1, <2>2
    <2> QED BY <1>1, <1>2, <1>5, <2>1, <2>3
  <1>12. ASSUME NEW t \in Callers, StoreHandle(t) \/ AssignHandle(t),
                LiveDaemons' \subseteq LiveDaemons
         PROVE  Goal
    <2>1. /\ pc[t] \in {"store", "assign"} /\ pc' = [pc EXCEPT ![t] = "idle"]
          /\ handle' = spawned[t]
          /\ UNCHANGED <<started, overlapped, mutex>>
      BY <1>12 DEF StoreHandle, AssignHandle, userVars
    <2>2. ~overlapped => /\ LiveDaemons' \subseteq {handle'} /\ started
                         /\ \A u \in Callers : pc'[u] = "idle"
      BY <1>2, <1>5, <1>12, <2>1
    <2> QED BY <2>1, <2>2
  <1>13. ASSUME NEW t \in Callers, LoadOldHandle(t),
                LiveDaemons' \subseteq LiveDaemons
         PROVE  Goal
    <2>1. /\ pc[t] = "store" /\ pc' = [pc EXCEPT ![t] = "assign"]
          /\ got' = [got EXCEPT ![t] = handle]
          /\ UNCHANGED <<started, overlapped, mutex, handle, spawned>>
      BY <1>13 DEF LoadOldHandle, userVars, callVars
    <2> QED BY <1>1, <1>2, <1>5, <1>13, <2>1
  <1>14. ASSUME NEW t \in Callers, LoadHandle(t),
                LiveDaemons' \subseteq LiveDaemons
         PROVE  Goal
    <2>1. /\ pc[t] = "take" /\ pc' = [pc EXCEPT ![t] = "clear"]
          /\ got' = [got EXCEPT ![t] = handle] /\ binding # "ios"
          /\ UNCHANGED <<started, overlapped, mutex, handle, spawned>>
      BY <1>14 DEF LoadHandle, HandleIsLocked, userVars, callVars
    <2>2. ~overlapped => /\ LiveDaemons' \subseteq {got'[t]}
                         /\ \A u \in Callers \ {t} : pc'[u] = "idle"
      BY <1>2, <1>5, <1>14, <2>1
    <2> QED BY <1>1, <1>2, <1>5, <1>14, <2>1, <2>2
  <1>15. ASSUME NEW t \in Callers, NEW d, JoinOrReturn(t, d),
                LiveDaemons' \subseteq LiveDaemons,
                ~overlapped => LiveDaemons \subseteq {d},
                ~overlapped => pc[t] \in {"take", "clear"},
                ~overlapped /\ NeedsJoin(d) =>
                   /\ \A u \in Callers \ {t} : pc[u] \notin {"join", "clear"}
                   /\ binding = "ios" => mutex' = t,
                handle' = 0, UNCHANGED <<overlapped, spawned>>,
                ~NeedsJoin(d) => UNCHANGED mutex
         PROVE  Goal
    <2>1. CASE ~NeedsJoin(d)
      <3>1. ~overlapped => LiveDaemons' = {}
        BY <1>4, <1>15, <2>1 DEF NeedsJoin
      <3>2. pc' = [pc EXCEPT ![t] = "idle"] /\ ~started'
        BY <1>15, <2>1 DEF JoinOrReturn
      <3> QED BY <1>1, <1>2, <1>5, <1>15, <2>1, <3>1, <3>2
    <2>2. CASE NeedsJoin(d)
      <3>1. /\ pc' = [pc EXCEPT ![t] = "join"] /\ started' = started
            /\ got' = [got EXCEPT ![t] = d]
        BY <1>15, <2>2 DEF JoinOrReturn, LInv, TypeOK, UserTypeOK
      <3> QED BY <1>1, <1>2, <1>5, <1>15, <2>2, <3>1
    <2> QED BY <2>1, <2>2
  <1>16. ASSUME NEW t \in Callers, TakeHandle(t),
                LiveDaemons' \subseteq LiveDaemons
         PROVE  Goal
    <2>1. /\ binding = "ios" /\ pc[t] = "take" /\ mutex = Nobody
          /\ mutex' = IF NeedsJoin(handle) THEN t ELSE Nobody
          /\ handle' = 0 /\ JoinOrReturn(t, handle)
          /\ UNCHANGED <<overlapped, spawned>>
      BY <1>16 DEF TakeHandle, HandleIsLocked, callVars
    <2>2. ~overlapped => \A u \in Callers : pc[u] \notin {"join", "clear"}
      BY <1>3, <1>5, <2>1, CallersAssumption
    <2>3. ~overlapped => LiveDaemons \subseteq {handle}
      BY <1>5, <2>1, <2>2
    <2> HIDE DEF Goal, InitializeAlone, OthersWait, Traced
    <2> QED BY <1>15, <1>16, <2>1, <2>2, <2>3
  <1>17. ASSUME NEW t \in Callers, ClearHandle(t),
                LiveDaemons' \subseteq LiveDaemons
         PROVE  Goal
    <2>1. /\ binding # "ios" /\ pc[t] = "clear" /\ mutex' = mutex
          /\ handle' = 0 /\ JoinOrReturn(t, got[t])
          /\ UNCHANGED <<overlapped, spawned>>
      BY <1>3, <1>17 DEF ClearHandle, callVars
    <2>2. ~overlapped => /\ LiveDaemons \subseteq {got[t]}
                         /\ \A u \in Callers \ {t} : pc[u] = "idle"
      BY <1>5, <2>1
    <2> HIDE DEF Goal, InitializeAlone, OthersWait, Traced
    <2> QED BY <1>15, <1>17, <2>1, <2>2
  <1>18. ASSUME NEW t \in Callers, Join(t),
                LiveDaemons' \subseteq LiveDaemons
         PROVE  Goal
    <2>1. /\ pc[t] = "join" /\ pc' = [pc EXCEPT ![t] = "idle"]
          /\ ~started' /\ UNCHANGED <<overlapped, spawned, handle>>
          /\ ~Alive(got[t])
      BY <1>18 DEF Join, callVars
    <2>2. got[t] \notin LiveDaemons BY <2>1 DEF LiveDaemons
    <2>3. ~overlapped => LiveDaemons' = {} BY <1>5, <1>18, <2>1, <2>2
    <2>4. ~overlapped /\ binding = "ios" =>
             \A u \in Callers : pc'[u] # "join"
      BY <1>2, <1>5, <2>1
    <2>5. ~overlapped => InitializeAlone' BY <1>2, <1>5, <2>1
    <2>6. ~overlapped => OthersWait' BY <1>1, <1>2, <1>5, <2>1, <2>4
    <2>7. ~overlapped => Traced' BY <2>3
    <2> HIDE DEF InitializeAlone, OthersWait, Traced
    <2> QED BY <2>1, <2>5, <2>6, <2>7
  <1> HIDE DEF Goal, Alone, InitializeAlone, OthersWait, Traced,
               InitializePoints
  <1>19. ASSUME NEW t \in Callers,
                init_memory_buffer(t) \/ RaiseRunning(t),
                LiveDaemons' \subseteq LiveDaemons
         PROVE  Goal
    BY <1>9, <1>19 DEF init_memory_buffer, RaiseRunning, handleVars, callVars,
         userVars
  <1>20. ASSUME NEW t \in Callers, init_persistent_buffer(t),
                LiveDaemons' \subseteq LiveDaemons
         PROVE  Goal
    BY <1>9, <1>10, <1>20 DEF init_persistent_buffer, OpenBufferFile,
         CreateBuffer, handleVars, callVars, userVars
  <1>21. ASSUME NEW t \in Callers,
                \/ Write(t) \/ CreateCursor(t) \/ CreateCursorEarly(t)
                \/ CloseCursor(t),
                LiveDaemons' \subseteq LiveDaemons
         PROVE  Goal
    BY <1>6, <1>10, <1>21 DEF Write, CreateCursor, CreateCursorEarly,
         CloseCursor, handleVars
  <1>22. ASSUME NEW d \in DOMAIN daemons, DaemonStep(d),
                LiveDaemons' \subseteq LiveDaemons
         PROVE  Goal
    BY <1>6, <1>22 DEF DaemonStep, CheckRunning, FlushPass, handleVars,
         callVars, userVars
  <1>23. ASSUME UNCHANGED vars, LiveDaemons' \subseteq LiveDaemons PROVE Goal
    BY <1>6, <1>23 DEF vars, handleVars, callVars, userVars
  <1>24. ASSUME NEW t \in Callers, CallStep(t),
                LiveDaemons' \subseteq LiveDaemons
         PROVE  Goal
    <2>1. LiveDaemons' \subseteq LiveDaemons \cup {Len(daemons) + 1} BY <1>24
    <2> QED BY <1>11, <1>12, <1>13, <1>14, <1>16, <1>17, <1>18, <1>19, <1>20,
               <1>24, <2>1 DEF CallStep
  <1>25. ASSUME LiveDaemons' \subseteq LiveDaemons PROVE Goal
    BY <1>7, <1>8, <1>21, <1>22, <1>23, <1>24, <1>25 DEF Next
  <1>26. Goal BY <1>11, <1>25, LiveStep
  <1> QED BY <1>26 DEF Goal, Orderly

\* An orderly library has at most one live daemon.
LEMMA OrderlyOneFlusher == Orderly => OneFlusher
  <1> SUFFICES ASSUME Orderly, ~overlapped
               PROVE  /\ Cardinality(LiveDaemons) <= 1
                      /\ ~started => LiveDaemons = {}
    BY DEF OneFlusher
  <1>1. Traced BY DEF Orderly
  <1>2. PICK d : LiveDaemons \subseteq {d}
    BY <1>1 DEF Traced, InitializePoints
  <1>3. IsFiniteSet({d}) /\ Cardinality({d}) = 1 BY FS_Singleton
  <1>4. Cardinality(LiveDaemons) <= Cardinality({d}) BY <1>2, <1>3, FS_Subset
  <1> QED BY <1>1, <1>3, <1>4 DEF Traced

\* Whatever the number of threads and calls, a client that starts the library
\* only when it is stopped never has two flush daemons, and none when shutdown
\* has returned, with either binding (ios 111-127, jni 75-101).
THEOREM SingleFlusher == Spec => []OneFlusher
  <1>1. Init => Orderly
    <2> SUFFICES ASSUME Init PROVE Orderly OBVIOUS
    <2>1. LiveDaemons = {} BY DEF Init, LiveDaemons
    <2>2. \A t \in Callers : pc[t] = "idle" BY DEF Init
    <2> QED BY <2>1, <2>2 DEF Orderly, InitializeAlone, OthersWait, Traced,
                               InitializePoints
  <1>2. LInv /\ Orderly /\ [Next]_vars => Orderly' BY OrderlyNext
  <1> QED BY <1>1, <1>2, Invariance, OrderlyOneFlusher, PTL DEF Spec

=============================================================================
