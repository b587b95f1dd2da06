--------------------------- MODULE LifecycleProofs --------------------------
(***************************************************************************)
(* Proofs about Lifecycle, for any number of requests and any sizes: every *)
(* event is accounted for once, the worker leaves nothing behind, and a    *)
(* stop that reports no error has lost nothing.                            *)
(***************************************************************************)
EXTENDS Lifecycle, FiniteSetTheorems, TLAPS


\* Requests that have emitted their event, that the coordinator tracks, and
\* that it has bound.
Emitted == {r \in Requests : req[r] \in {"logged", "released", "gone"}}
Tracked == {r \in Requests :
              req[r] \in {"tracked", "refused", "bound", "settled", "logged", "released"}}
Bound == {r \in Requests : req[r] \in {"bound", "settled", "logged"}}

\* The log's life and the coordinator's follow the application's.
InStep ==
    /\ closing <=> stage \notin {"start", "serve"}
    /\ state = "new" <=> stage = "start"
    /\ StopRequested <=> stage \in {"logswait", "close", "stopped"}
    /\ pc = "none" <=> state = "new"
    /\ canceled => failure /\ StopRequested
    /\ stage \in {"drain", "logs", "logswait", "close", "stopped"} => channel = zero

\* The coordinator counts each handler and each binding once; once Wait has
\* returned no handler is left.
Counted ==
    /\ active = Cardinality(Tracked) + Cardinality(Bound)
    /\ stage \in {"logs", "logswait", "close", "stopped"} /\ ~err => Tracked = {}

\* Once the worker drains, the queue is closed; its last write finds it empty.
Drained ==
    /\ pc \in {"none", "select", "read", "ack", "final", "done"} => batch = 0
    /\ pc \in {"drain", "final", "done"} => StopRequested
    /\ pc \in {"write", "read", "ack"} /\ then # "select" => StopRequested
    /\ pc \in {"write", "read", "ack"} /\ then = "final" => queue = 0
    /\ pc \in {"final", "done"} => queue = 0

\* What a stop loses shows in an error.
Reported ==
    /\ pc = "done" /\ ~failure /\ ~err => dirty = 0
    /\ count["shutdown"] > 0 => failure
    /\ count["stopping"] > 0 => err
    /\ state = "stopped" => pc = "done"
    /\ stage \in {"close", "stopped"} /\ ~err => state = "stopped" /\ ~failure

-----------------------------------------------------------------------------
(* Types. *)

\* Every step keeps the types.
LEMMA TypeStep ==
    ASSUME TypeOK, [Next]_vars
    PROVE  TypeOK'
  <1> USE SizesAssumption DEF TypeOK, LogTypeOK, States, Places, Points, Stages,
          logVars, workerVars, httpVars, stopVars, appVars
  <1>1. CASE UNCHANGED vars
    BY <1>1 DEF vars
  <1>2. ASSUME NEW r \in Requests, Track(r) \/ Bind(r)
        PROVE  TypeOK'
    BY <1>2 DEF Track, Bind, Move, AddActive
  <1>3. ASSUME NEW r \in Requests, Settle(r)
        PROVE  TypeOK'
    BY <1>3 DEF Settle, Mark, Move
  <1>4. ASSUME NEW r \in Requests, Log(r)
        PROVE  TypeOK'
    <2>1. count' \in [Counters -> Nat]
      BY <1>4 DEF Log, Emit, Add, Counters
    <2> QED
      BY <1>4, <2>1 DEF Log, Emit, Move, Accepts, HasRoom
  <1>5. ASSUME NEW r \in Requests, Release(r) \/ Leave(r)
        PROVE  TypeOK'
    BY <1>5 DEF Release, Leave, Move, LeaveActive, Left
  <1>6. CASE StartApp
    BY <1>6, Zenon DEF StartApp, Step, Start, Goto
  <1>7. CASE BeginShutdown
    BY <1>7 DEF BeginShutdown, Step
  <1>8. CASE RuntimeEnds
    BY <1>8 DEF RuntimeEnds, Step
  <1>9. CASE Expire
    BY <1>9 DEF Expire
  <1>11. CASE StopStep
    <2>1. CASE ShutServer
      <3>1. err' \in BOOLEAN
        BY <2>1, Zenon DEF ShutServer, Step
      <3> QED
        BY <2>1 DEF ShutServer, Step
    <2>2. CASE AwaitRuntime
      <3>1. err' \in BOOLEAN
        BY <2>2, Zenon DEF AwaitRuntime, Step
      <3> QED
        BY <2>2 DEF AwaitRuntime, Step
    <2>3. CASE ReadZero
      BY <2>3 DEF ReadZero
    <2>4. CASE AwaitHandlers
      <3>1. err' \in BOOLEAN
        BY <2>4, Zenon DEF AwaitHandlers, Step
      <3> QED
        BY <2>4, <3>1 DEF AwaitHandlers, Step
    <2>5. CASE StopLogs
      <3>1. err' \in BOOLEAN
        BY <2>5, Zenon DEF StopLogs, Step
      <3> QED
        BY <2>5 DEF StopLogs, Step, RequestStop
    <2>6. CASE AwaitLogs
      <3>1. err' \in BOOLEAN
        BY <2>6, Zenon DEF AwaitLogs, Step
      <3>2. canceled' \in BOOLEAN /\ failure' \in BOOLEAN
        BY <2>6, Zenon DEF AwaitLogs, CancelShutdown
      <3> QED
        BY <2>6, <3>1, <3>2 DEF AwaitLogs, Step, CancelShutdown
    <2>7. CASE CloseStores
      <3>1. err' \in BOOLEAN
        BY <2>7, Zenon DEF CloseStores, Step
      <3> QED
        BY <2>7 DEF CloseStores, Step
    <2> QED
      BY <1>11, <2>1, <2>2, <2>3, <2>4, <2>5, <2>6, <2>7, Zenon DEF StopStep
  <1>10. CASE LogWorker
    <2>1. CASE Drop
      <3>1. count' \in [Counters -> Nat]
        BY <2>1 DEF Drop, Add, Counters, Unattempted
      <3> QED
        BY <1>10, <2>1, <3>1 DEF LogWorker, Drop
    <2>2. CASE TakeEvent
      BY <1>10, <2>2 DEF LogWorker, TakeEvent
    <2>10. CASE TakeWake
      <3>1. wake' \in BOOLEAN
        BY <2>10, Zenon DEF TakeWake
      <3> QED
        BY <1>10, <2>10, <3>1 DEF LogWorker, TakeWake, Goto
    <2>6. CASE SelectStop \/ Flush
      BY <1>10, <2>6 DEF LogWorker, SelectStop, Flush, Goto, WriteThen
    <2>7. CASE Drain
      BY <1>10, <2>7 DEF LogWorker, Drain, WriteThen
    <2>3. CASE Write(stage # "stopped")
      <3>1. count' \in [Counters -> Nat]
        BY <2>3 DEF Write, Counters
      <3> QED
        BY <1>10, <2>3, <3>1 DEF LogWorker, Write
    <2>4. CASE ReadUsage(stage # "stopped")
      BY <1>10, <2>4 DEF LogWorker, ReadUsage, Goto
    <2>8. CASE AckUsage(stage # "stopped")
      <3>1. wake' \in BOOLEAN
        BY <2>8, Zenon DEF AckUsage
      <3> QED
        BY <1>10, <2>8 DEF LogWorker, AckUsage, Goto
    <2>9. CASE UsageFails
      <3>1. wake' \in BOOLEAN /\ failure' \in BOOLEAN
        BY <2>9, Zenon DEF UsageFails
      <3> QED
        BY <1>10, <2>9, <3>1 DEF LogWorker, UsageFails, Goto
    <2>5. CASE Finish \/ FinishShutdown
      BY <1>10, <2>5 DEF LogWorker, Finish, FinishShutdown, Goto
    <2> QED
      BY <1>10, <2>1, <2>2, <2>3, <2>4, <2>5, <2>6, <2>7, <2>8, <2>9, <2>10, Zenon DEF LogWorker,
         WorkerStep
  <1> QED
    BY <1>1, <1>2, <1>3, <1>4, <1>5, <1>6, <1>7, <1>8, <1>9, <1>10, <1>11, Zenon DEF Next

-----------------------------------------------------------------------------
(* The queue and the worker. *)

\* What the handlers do to the log: they mark usage, emit, or leave it alone.
Touch == Mark \/ Emit \/ UNCHANGED logVars

\* A handler leaves the application alone and touches the log as Touch says.
LEMMA HandlersTouch ==
    ASSUME NEW r \in Requests,
           Track(r) \/ Bind(r) \/ Settle(r) \/ Log(r) \/ Release(r) \/ Leave(r)
    PROVE  Touch /\ UNCHANGED <<closing, appVars>>
  BY Zenon DEF Touch, Track, Bind, Settle, Log, Release, Leave

\* Every step keeps the phases together.
LEMMA InStepStep ==
    ASSUME TypeOK, InStep, [Next]_vars
    PROVE  InStep'
  <1> USE DEF TypeOK, LogTypeOK, States, Stages, InStep, StopRequested, logVars, workerVars,
              httpVars, stopVars, appVars
  <1>1. CASE UNCHANGED vars
    BY <1>1, Zenon DEF vars
  <1>2. ASSUME NEW r \in Requests, Track(r) \/ Bind(r)
        PROVE  InStep'
    BY <1>2 DEF Track, Bind, AddActive
  <1>3. ASSUME NEW r \in Requests, Settle(r) \/ Log(r) \/ Release(r) \/ Leave(r)
        PROVE  InStep'
    BY <1>3 DEF Settle, Log, Release, Leave, LeaveActive, Mark, Emit
  <1>4. CASE StartApp
    BY <1>4, Zenon DEF StartApp, Step, Start, Goto
  <1>5. CASE BeginShutdown \/ RuntimeEnds \/ Expire
    BY <1>5 DEF BeginShutdown, RuntimeEnds, Expire, Step
  <1>6. CASE StopStep
    <2>1. CASE ShutServer \/ AwaitRuntime \/ ReadZero \/ AwaitHandlers
      BY <2>1 DEF ShutServer, AwaitRuntime, ReadZero, AwaitHandlers, Step
    <2>2. CASE StopLogs
      BY <2>2, Zenon DEF StopLogs, RequestStop, Step
    <2>3. CASE AwaitLogs
      BY <2>3 DEF AwaitLogs, CancelShutdown, Step
    <2>4. CASE CloseStores
      BY <2>4, Zenon DEF CloseStores, Step
    <2> QED
      BY <1>6, <2>1, <2>2, <2>3, <2>4, Zenon DEF StopStep
  <1>7. CASE LogWorker
    <2>1. CASE Drop \/ TakeEvent \/ TakeWake \/ SelectStop
      BY <1>7, <2>1 DEF LogWorker, Drop, TakeEvent, TakeWake, SelectStop, Goto
    <2>2. CASE Flush \/ Drain \/ Write(stage # "stopped")
      BY <1>7, <2>2 DEF LogWorker, Flush, Drain, Write, WriteThen
    <2>3. CASE ReadUsage(stage # "stopped") \/ AckUsage(stage # "stopped")
      BY <1>7, <2>3 DEF LogWorker, ReadUsage, AckUsage, Goto
    <2>4. CASE UsageFails \/ Finish \/ FinishShutdown
      BY <1>7, <2>4 DEF LogWorker, UsageFails, Finish, FinishShutdown, Goto
    <2> QED
      BY <1>7, <2>1, <2>2, <2>3, <2>4, Zenon DEF LogWorker, WorkerStep
  <1> QED
    BY <1>1, <1>2, <1>3, <1>4, <1>5, <1>6, <1>7, Zenon DEF Next

\* Every step keeps the drain's promise: a closed queue is not filled again.
LEMMA DrainedStep ==
    ASSUME TypeOK, InStep, Drained, [Next]_vars
    PROVE  Drained'
  <1> USE SizesAssumption DEF TypeOK, LogTypeOK, States, Places, InStep, Drained, StopRequested,
              logVars, workerVars, httpVars, stopVars, appVars
  <1>1. CASE UNCHANGED vars
    BY <1>1, Zenon DEF vars
  <1>2. ASSUME Touch
        PROVE  Drained'
    BY <1>2, Zenon DEF Touch, Mark, Emit, Accepts
  <1>3. CASE StartApp
    BY <1>3, Zenon DEF StartApp, Step, Start, Goto
  <1>4. CASE BeginShutdown \/ RuntimeEnds \/ Expire
    BY <1>4, Zenon DEF BeginShutdown, RuntimeEnds, Expire
  <1>5. CASE StopStep
    BY <1>5, Zenon DEF StopStep, ShutServer, AwaitRuntime, ReadZero, AwaitHandlers, StopLogs,
       RequestStop, AwaitLogs, CancelShutdown, CloseStores
  <1>6. CASE LogWorker
    <2>1. CASE Drop \/ TakeEvent \/ TakeWake \/ SelectStop
      BY <1>6, <2>1, Zenon DEF Drop, TakeEvent, TakeWake, SelectStop, Goto
    <2>2. CASE Flush \/ Drain \/ Write(stage # "stopped")
      BY <1>6, <2>2, Zenon DEF Flush, Drain, Write, WriteThen
    <2>3. CASE ReadUsage(stage # "stopped") \/ AckUsage(stage # "stopped")
      BY <1>6, <2>3, Zenon DEF ReadUsage, AckUsage, Goto
    <2>4. CASE UsageFails \/ Finish \/ FinishShutdown
      BY <1>6, <2>4, Zenon DEF UsageFails, Finish, FinishShutdown, Goto
    <2> QED
      BY <1>6, <2>1, <2>2, <2>3, <2>4, Zenon DEF LogWorker, WorkerStep
  <1> QED
    BY <1>1, <1>2, <1>3, <1>4, <1>5, <1>6, HandlersTouch, Zenon DEF Next

-----------------------------------------------------------------------------
(* The coordinator's count. *)

\* The sets of requests are finite.
LEMMA FiniteParts ==
    /\ IsFiniteSet(Tracked) /\ IsFiniteSet(Bound) /\ IsFiniteSet(Emitted)
    /\ Cardinality(Tracked) \in Nat /\ Cardinality(Bound) \in Nat /\ Cardinality(Emitted) \in Nat
  <1>1. Tracked \subseteq Requests /\ Bound \subseteq Requests /\ Emitted \subseteq Requests
    BY DEF Tracked, Bound, Emitted
  <1>2. IsFiniteSet(Tracked) /\ IsFiniteSet(Bound) /\ IsFiniteSet(Emitted)
    BY <1>1, RequestsAssumption, FS_Subset, Zenon
  <1> QED
    BY <1>2, FS_CardinalityType, Zenon

\* How a handler's step changes the three sets.
LEMMA PartsMove ==
    ASSUME TypeOK, NEW r \in Requests, NEW to \in Points, Move(r, to)
    PROVE  /\ Tracked' = IF to \in {"tracked", "refused", "bound", "settled", "logged", "released"}
                           THEN Tracked \cup {r} ELSE Tracked \ {r}
           /\ Bound' = IF to \in {"bound", "settled", "logged"}
                         THEN Bound \cup {r} ELSE Bound \ {r}
           /\ Emitted' = IF to \in {"logged", "released", "gone"}
                           THEN Emitted \cup {r} ELSE Emitted \ {r}
  BY Zenon DEF TypeOK, Points, Move, Tracked, Bound, Emitted

\* What each move of a handler does to the requests tracked and bound.
LEMMA HandlerMoves ==
    ASSUME TypeOK, NEW r \in Requests
    PROVE  /\ Move(r, "tracked") => Tracked' = Tracked \cup {r} /\ Bound' = Bound \ {r}
           /\ Move(r, "refused") => Tracked' = Tracked \cup {r} /\ Bound' = Bound \ {r}
           /\ Move(r, "bound") => Tracked' = Tracked \cup {r} /\ Bound' = Bound \cup {r}
           /\ Move(r, "settled") => Tracked' = Tracked \cup {r} /\ Bound' = Bound \cup {r}
           /\ Move(r, "logged") => Tracked' = Tracked \cup {r} /\ Bound' = Bound \cup {r}
           /\ Move(r, "released") => Tracked' = Tracked \cup {r} /\ Bound' = Bound \ {r}
           /\ Move(r, "gone") => Tracked' = Tracked \ {r} /\ Bound' = Bound \ {r}
           /\ Move(r, "rejected") => Tracked' = Tracked \ {r} /\ Bound' = Bound \ {r}
  BY PartsMove, Zenon DEF Points

\* Every step keeps the coordinator's count exact.
LEMMA CountedStep ==
    ASSUME TypeOK, InStep, Counted, [Next]_vars
    PROVE  Counted'
  <1> USE DEF Points
  <1>1. ASSUME UNCHANGED req
        PROVE  Tracked' = Tracked /\ Bound' = Bound
    BY <1>1, Zenon DEF Tracked, Bound
  <1>2. CASE UNCHANGED vars
    BY <1>1, <1>2, Zenon DEF Counted, vars, httpVars, appVars, stopVars
  <1>3. ASSUME NEW r \in Requests,
               Track(r) \/ Bind(r) \/ Settle(r) \/ Log(r) \/ Release(r) \/ Leave(r)
        PROVE  Counted'
    <2> USE FiniteParts
    <2>0. UNCHANGED <<stage, err>>
      BY <1>3, HandlersTouch, Zenon DEF appVars, stopVars
    <2>1. CASE Track(r)
      <3>1. CASE closing
        <4>1. r \notin Tracked /\ r \notin Bound
          BY <2>1, Zenon DEF Track, Tracked, Bound
        <4>2. Tracked' = Tracked /\ Bound' = Bound
          <5>1. Move(r, "rejected")
            BY <2>1, <3>1, Zenon DEF Track
          <5> QED
            BY <4>1, <5>1, HandlerMoves, Zenon
        <4> QED
          BY <2>0, <2>1, <3>1, <4>2, Zenon DEF Track, Counted
      <3>2. CASE ~closing
        <4>1. r \notin Tracked /\ r \notin Bound
          BY <2>1, Zenon DEF Track, Tracked, Bound
        <4>2. Tracked' = Tracked \cup {r} /\ Bound' = Bound
          BY <2>1, <3>2, <4>1, HandlerMoves, Zenon DEF Track
        <4>3. Cardinality(Tracked') = Cardinality(Tracked) + 1
          BY <4>1, <4>2, FS_AddElement, Zenon
        <4> QED
          BY <2>0, <2>1, <3>2, <4>2, <4>3 DEF Track, AddActive, Counted, InStep
      <3> QED
        BY <3>1, <3>2, Zenon
    <2>2. CASE Bind(r)
      <3>1. r \in Tracked /\ r \notin Bound
        BY <2>2, Zenon DEF Bind, Tracked, Bound
      <3>2. CASE closing
        <4>1. Tracked' = Tracked /\ Bound' = Bound
          BY <2>2, <3>1, <3>2, HandlerMoves, Zenon DEF Bind
        <4> QED
          BY <2>0, <2>2, <3>2, <4>1, Zenon DEF Bind, Counted
      <3>3. CASE ~closing
        <4>1. Tracked' = Tracked /\ Bound' = Bound \cup {r}
          <5>1. Move(r, "bound")
            BY <2>2, <3>3, Zenon DEF Bind
          <5>2. Tracked' = Tracked \cup {r} /\ Bound' = Bound \cup {r}
            BY <5>1, HandlerMoves, Zenon
          <5>3. Tracked \cup {r} = Tracked
            BY <3>1, Zenon
          <5> QED
            BY <5>2, <5>3, Zenon
        <4>2. Cardinality(Bound') = Cardinality(Bound) + 1
          BY <3>1, <4>1, FS_AddElement, Zenon
        <4> QED
          BY <2>0, <2>2, <3>3, <4>1, <4>2 DEF Bind, AddActive, Counted
      <3> QED
        BY <3>2, <3>3, Zenon
    <2>3. CASE Settle(r) \/ Log(r)
      <3>1. r \in Tracked /\ r \in Bound
        BY <2>3, Zenon DEF Settle, Log, Tracked, Bound
      <3>2. Tracked' = Tracked /\ Bound' = Bound
        BY <2>3, <3>1, HandlerMoves, Zenon DEF Settle, Log
      <3> QED
        BY <2>0, <2>3, <3>2, Zenon DEF Settle, Log, Counted
    <2>4. CASE Release(r)
      <3>1. r \in Tracked /\ r \in Bound
        BY <2>4, Zenon DEF Release, Tracked, Bound
      <3>2. Tracked' = Tracked /\ Bound' = Bound \ {r}
        BY <2>4, <3>1, HandlerMoves, Zenon DEF Release
      <3>3. Cardinality(Bound') = Cardinality(Bound) - 1
        BY <3>1, <3>2, FS_RemoveElement, Zenon
      <3>4. Cardinality(Bound) > 0
        BY <3>1, FS_EmptySet
      <3> QED
        BY <2>0, <2>4, <3>2, <3>3, <3>4 DEF Release, LeaveActive, Left, Counted
    <2>5. CASE Leave(r)
      <3>1. r \in Tracked /\ r \notin Bound
        BY <2>5, Zenon DEF Leave, Tracked, Bound
      <3>2. Tracked' = Tracked \ {r} /\ Bound' = Bound
        <4>1. Move(r, "gone") \/ Move(r, "rejected")
          BY <2>5, Zenon DEF Leave
        <4>2. Tracked' = Tracked \ {r} /\ Bound' = Bound \ {r}
          BY <4>1, HandlerMoves, Zenon
        <4> QED
          BY <3>1, <4>2, Zenon
      <3>3. Cardinality(Tracked') = Cardinality(Tracked) - 1
        BY <3>1, <3>2, FS_RemoveElement, Zenon
      <3>4. Cardinality(Tracked) > 0
        BY <3>1, FS_EmptySet
      <3> QED
        BY <2>0, <2>5, <3>2, <3>3, <3>4 DEF Leave, LeaveActive, Left, Counted
    <2> QED
      BY <1>3, <2>1, <2>2, <2>3, <2>4, <2>5, Zenon
  <1>4. CASE StartApp \/ BeginShutdown \/ RuntimeEnds \/ Expire
    BY <1>1, <1>4, Zenon DEF StartApp, BeginShutdown, RuntimeEnds, Expire, Step, Counted, httpVars,
       stopVars
  <1>5. CASE AwaitHandlers
    <2>1. UNCHANGED <<req, active>>
      BY <1>5, Zenon DEF AwaitHandlers, httpVars
    <2>2. CASE Closed(channel) /\ Step("drain", "logs", FALSE)
      <3>1. channel = zero /\ zero \in Nat
        BY <2>2, Zenon DEF Step, InStep, TypeOK
      <3>2. active = 0
        BY <2>2, <3>1 DEF Closed
      <3>3. Cardinality(Tracked) = 0
        BY <3>2, FiniteParts DEF Counted
      <3>4. Tracked = {}
        BY <3>3, FiniteParts, FS_EmptySet, Zenon
      <3> QED
        BY <1>1, <2>1, <3>4, Zenon DEF Counted
    <2>3. CASE Step("drain", "logs", TRUE)
      BY <1>1, <2>1, <2>3, Zenon DEF Step, Counted
    <2> QED
      BY <1>5, <2>2, <2>3, Zenon DEF AwaitHandlers
  <1>6. CASE ShutServer \/ AwaitRuntime \/ ReadZero \/ StopLogs \/ AwaitLogs \/ CloseStores
    <2>1. UNCHANGED <<req, active>>
      BY <1>6, Zenon DEF ShutServer, AwaitRuntime, ReadZero, StopLogs, AwaitLogs, CloseStores,
         httpVars
    <2>2. \/ stage' \in {"runtime", "wait", "drain"}
          \/ stage \in {"logs", "logswait", "close"} /\ (~err' => ~err)
      BY <1>6, Zenon DEF ShutServer, AwaitRuntime, ReadZero, StopLogs, AwaitLogs, CloseStores, Step
    <2> QED
      BY <1>1, <2>1, <2>2, Zenon DEF Counted
  <1>7. CASE LogWorker
    BY <1>1, <1>7, Zenon DEF LogWorker, Counted, httpVars, appVars, stopVars
  <1> QED
    BY <1>2, <1>3, <1>4, <1>5, <1>6, <1>7, Zenon DEF Next, StopStep

-----------------------------------------------------------------------------
(* Errors and statistics. *)

\* Every step that loses something records an error.
LEMMA ReportedStep ==
    ASSUME TypeOK, InStep, Counted, Drained, Reported, [Next]_vars
    PROVE  Reported'
  <1> USE DEF Reported, logVars, workerVars, stopVars, appVars
  <1>0. count \in [Counters -> Nat] /\ {"shutdown", "stopping"} \subseteq Counters
    BY Zenon DEF TypeOK, LogTypeOK, Counters
  <1>1. CASE UNCHANGED vars
    BY <1>1, Zenon DEF vars
  <1>2. ASSUME NEW r \in Requests, Track(r) \/ Bind(r) \/ Release(r) \/ Leave(r)
        PROVE  Reported'
    BY <1>2 DEF Track, Bind, Release, Leave
  <1>3. ASSUME NEW r \in Requests, Settle(r) \/ Log(r)
        PROVE  Reported'
    <2>1. r \in Tracked
      BY <1>3, Zenon DEF Settle, Log, Tracked
    <2>2. StopRequested => err
      BY <2>1, Zenon DEF InStep, Counted
    <2>3. pc = "done" => err
      BY <2>2, Zenon DEF Drained
    <2>4. CASE Settle(r)
      BY <2>3, <2>4, Zenon DEF Settle, Mark
    <2>5. CASE Log(r)
      <3>1. /\ count'["shutdown"] = count["shutdown"]
            /\ count'["stopping"] > 0 => (count["stopping"] > 0 \/ StopRequested)
        BY <1>0, <2>5, Zenon DEF Log, Emit, Add, Accepts, StopRequested, TypeOK, LogTypeOK, States
      <3> QED
        BY <2>2, <2>5, <3>1, Zenon DEF Log, Emit
    <2> QED
      BY <1>3, <2>4, <2>5, Zenon
  <1>4. CASE StartApp
    BY <1>4, Zenon DEF StartApp, Step, Start, Goto
  <1>5. CASE BeginShutdown \/ RuntimeEnds \/ Expire
    <2>1. CASE BeginShutdown
      BY <2>1, Zenon DEF BeginShutdown, Step
    <2>2. CASE RuntimeEnds
      BY <2>2, Zenon DEF RuntimeEnds, Step
    <2>3. CASE Expire
      BY <2>3, Zenon DEF Expire
    <2> QED
      BY <1>5, <2>1, <2>2, <2>3, Zenon
  <1>6. CASE StopStep
    <2>1. CASE ShutServer \/ AwaitRuntime \/ ReadZero \/ AwaitHandlers
      BY <2>1, Zenon DEF ShutServer, AwaitRuntime, ReadZero, AwaitHandlers, Step
    <2>2. CASE StopLogs
      BY <2>2, Zenon DEF StopLogs, RequestStop, Step, InStep
    <2>3. CASE AwaitLogs
      <3>1. CASE state = "stopped" /\ Step("logswait", "close", failure) /\ UNCHANGED logVars
        BY <3>1, Zenon DEF Step
      <3>2. CASE CancelShutdown /\ Step("logswait", "close", TRUE)
        BY <3>2, Zenon DEF CancelShutdown, Step
      <3> QED
        BY <2>3, <3>1, <3>2, Zenon DEF AwaitLogs
    <2>4. CASE CloseStores
      BY <2>4, Zenon DEF CloseStores, Step
    <2> QED
      BY <1>6, <2>1, <2>2, <2>3, <2>4, Zenon DEF StopStep
  <1>7. CASE LogWorker
    <2>0. UNCHANGED <<stage, err>>
      BY <1>7, Zenon DEF LogWorker
    <2>1. CASE Drop
      <3>1. count'["stopping"] = count["stopping"]
        BY <1>0, <2>1, Zenon DEF Drop, Add
      <3>2. failure
        BY <2>1, Zenon DEF Drop, InStep
      <3> QED
        BY <2>0, <2>1, <3>1, <3>2, Zenon DEF Drop
    <2>2. CASE TakeEvent \/ TakeWake \/ SelectStop \/ Flush \/ Drain
      BY <2>0, <2>2, Zenon DEF TakeEvent, TakeWake, SelectStop, Flush, Drain, Goto, WriteThen
    <2>3. CASE Write(stage # "stopped")
      <3>1. count'["stopping"] = count["stopping"] /\ count'["shutdown"] = count["shutdown"]
        BY <1>0, <2>3, Zenon DEF Write
      <3> QED
        BY <2>0, <2>3, <3>1, Zenon DEF Write
    <2>4. CASE ReadUsage(stage # "stopped") \/ AckUsage(stage # "stopped")
      BY <2>0, <2>4, Zenon DEF ReadUsage, AckUsage, Goto, TypeOK, LogTypeOK
    <2>5. CASE UsageFails
      BY <2>0, <2>5, Zenon DEF UsageFails, Goto, TypeOK, LogTypeOK
    <2>6. CASE Finish
      BY <2>0, <2>6, Zenon DEF Finish, Goto, InStep
    <2>7. CASE FinishShutdown
      BY <2>0, <2>7, Zenon DEF FinishShutdown
    <2> QED
      BY <1>7, <2>1, <2>2, <2>3, <2>4, <2>5, <2>6, <2>7, Zenon DEF LogWorker, WorkerStep
  <1> QED
    BY <1>1, <1>2, <1>3, <1>4, <1>5, <1>6, <1>7, Zenon DEF Next

\* Every step keeps the statistics exact.
LEMMA AccountedStep ==
    ASSUME TypeOK, Drained, EventsAreAccounted, [Next]_vars
    PROVE  EventsAreAccounted'
  <1> USE FiniteParts DEF EventsAreAccounted, logVars, workerVars
  <1>0. /\ count \in [Counters -> Nat] /\ queue \in Nat /\ batch \in Nat
        /\ Counters = {"enqueued", "persisted", "notRunning", "queueFull", "stopping",
                       "persistFailed", "shutdown"}
    BY DEF TypeOK, LogTypeOK, Counters
  <1>1. ASSUME UNCHANGED req
        PROVE  Emitted' = Emitted
    BY <1>1, Zenon DEF Emitted
  <1>2. EventsAreAccounted <=>
          /\ Cardinality(Emitted) =
               count["enqueued"] + count["notRunning"] + count["queueFull"] + count["stopping"]
          /\ count["enqueued"] = count["persisted"] + count["persistFailed"]
                                   + count["shutdown"] + queue + batch
    BY Zenon DEF Emitted
  <1>3. EventsAreAccounted' <=>
          /\ Cardinality(Emitted') = count'["enqueued"] + count'["notRunning"]
                                       + count'["queueFull"] + count'["stopping"]
          /\ count'["enqueued"] = count'["persisted"] + count'["persistFailed"]
                                    + count'["shutdown"] + queue' + batch'
    BY Zenon DEF Emitted
  <1>4. ASSUME Emitted' = Emitted, UNCHANGED <<count, queue, batch>>
        PROVE  EventsAreAccounted'
    BY <1>2, <1>3, <1>4, Zenon
  <1>5. CASE UNCHANGED vars
    BY <1>1, <1>4, <1>5, Zenon DEF vars, httpVars
  <1>6. ASSUME NEW r \in Requests, Log(r)
        PROVE  EventsAreAccounted'
    <2>1. r \notin Emitted
      BY <1>6, Zenon DEF Log, Emitted
    <2>2. Emitted' = Emitted \cup {r}
      BY <1>6, PartsMove, Zenon DEF Log, Points
    <2>3. Cardinality(Emitted') = Cardinality(Emitted) + 1
      BY <2>1, <2>2, FS_AddElement, Zenon
    <2> QED
      BY <1>0, <1>2, <1>3, <1>6, <2>3 DEF Log, Emit, Add
  <1>7. ASSUME NEW r \in Requests, Track(r) \/ Bind(r) \/ Settle(r) \/ Release(r) \/ Leave(r)
        PROVE  EventsAreAccounted'
    <2>1. Emitted' = Emitted
      BY <1>7, Zenon DEF Track, Bind, Settle, Release, Leave, Move, Emitted, TypeOK
    <2> QED
      BY <1>4, <1>7, <2>1, Zenon DEF Track, Bind, Settle, Release, Leave, Mark
  <1>8. CASE StartApp \/ BeginShutdown \/ RuntimeEnds \/ Expire
    BY <1>1, <1>4, <1>8, Zenon DEF StartApp, BeginShutdown, RuntimeEnds, Expire, Start, Goto,
       httpVars
  <1>9. CASE StopStep
    BY <1>1, <1>4, <1>9, Zenon DEF StopStep, ShutServer, AwaitRuntime, ReadZero, AwaitHandlers,
       StopLogs, RequestStop, AwaitLogs, CancelShutdown, CloseStores, httpVars
  <1>10. CASE LogWorker
    <2>0. Emitted' = Emitted
      BY <1>1, <1>10, Zenon DEF LogWorker, httpVars
    <2>1. CASE Drop
      BY <1>0, <1>2, <1>3, <2>0, <2>1 DEF Drop, Add, Unattempted
    <2>2. CASE TakeEvent \/ Drain
      BY <1>0, <1>2, <1>3, <2>0, <2>2 DEF TakeEvent, Drain, WriteThen
    <2>3. CASE Write(stage # "stopped")
      <3>1. PICK n \in 0..batch :
              count' = [count EXCEPT !["persisted"] = @ + n,
                                     !["persistFailed"] = @ + (batch - n)]
        BY <2>3, Zenon DEF Write
      <3>2. /\ count'["persisted"] = count["persisted"] + n
            /\ count'["persistFailed"] = count["persistFailed"] + (batch - n)
            /\ \A k \in Counters \ {"persisted", "persistFailed"} : count'[k] = count[k]
        BY <1>0, <3>1, Zenon
      <3> QED
        BY <1>0, <1>2, <1>3, <2>0, <2>3 DEF Write
    <2>4. CASE TakeWake \/ SelectStop \/ Flush \/ Finish \/ FinishShutdown
      BY <1>4, <2>0, <2>4, Zenon DEF TakeWake, SelectStop, Flush, Finish, FinishShutdown, Goto,
         WriteThen
    <2>5. CASE ReadUsage(stage # "stopped") \/ AckUsage(stage # "stopped") \/ UsageFails
      BY <1>4, <2>0, <2>5, Zenon DEF ReadUsage, AckUsage, UsageFails, Goto
    <2> QED
      BY <1>10, <2>1, <2>2, <2>3, <2>4, <2>5, Zenon DEF LogWorker, WorkerStep
  <1> QED
    BY <1>5, <1>6, <1>7, <1>8, <1>9, <1>10, Zenon DEF Next

-----------------------------------------------------------------------------
(* The theorems. *)

Inv == TypeOK /\ InStep /\ Counted /\ Drained /\ Reported /\ EventsAreAccounted

\* The inductive invariant: the count of handlers, the phases of the log and
\* the errors of the stop go together, in every order of steps.
THEOREM Invariant == Spec => []Inv
  <1>1. Init => Inv
    <2> SUFFICES ASSUME Init PROVE Inv
      OBVIOUS
    <2> USE DEF Init, LogInit
    <2>0. count \in [Counters -> Nat] /\ req \in [Requests -> Points]
      BY DEF Points
    <2>1. TypeOK
      <3>1. canceled \in BOOLEAN /\ failure \in BOOLEAN /\ wake \in BOOLEAN
            /\ closing \in BOOLEAN /\ expired \in BOOLEAN /\ err \in BOOLEAN
        BY Zenon
      <3> QED
        BY <2>0, <3>1, SizesAssumption DEF TypeOK, LogTypeOK, States, Places, Stages
    <2>2. InStep /\ Drained
      BY DEF InStep, Drained, StopRequested
    <2>3. Tracked = {} /\ Bound = {} /\ Emitted = {}
      BY DEF Tracked, Bound, Emitted
    <2>4. Counted
      BY <2>3, FS_EmptySet DEF Counted
    <2>5. \A k \in Counters : count[k] = 0
      OBVIOUS
    <2>6. Reported
      BY <2>5 DEF Reported, Counters
    <2>7. EventsAreAccounted
      BY FS_EmptySet DEF EventsAreAccounted, Emitted, Counters
    <2> QED
      BY <2>1, <2>2, <2>4, <2>6, <2>7, Zenon DEF Inv
  <1>2. Inv /\ [Next]_vars => Inv'
    BY TypeStep, InStepStep, CountedStep, DrainedStep, ReportedStep, AccountedStep, Zenon DEF Inv
  <1> QED
    BY <1>1, <1>2, PTL DEF Spec

\* Every variable keeps its type: in particular no counter of handlers, queued
\* events or dirty marks goes below zero, and no place of the worker or stage of
\* the stop is left for an unknown one.
THEOREM TypeCorrect == Spec => []TypeOK
  <1>1. Inv => TypeOK
    BY DEF Inv
  <1> QED
    BY <1>1, Invariant, PTL

\* The statistics account for every event once.
THEOREM Accounted == Spec => []EventsAreAccounted
  <1>1. Inv => EventsAreAccounted
    BY DEF Inv
  <1> QED
    BY <1>1, Invariant, PTL

\* The worker ends with an empty queue.
THEOREM Emptied == Spec => []NothingIsStranded
  <1>1. Inv => NothingIsStranded
    BY DEF Inv, Drained, NothingIsStranded
  <1> QED
    BY <1>1, Invariant, PTL

\* A stop that reports no error has lost nothing.
THEOREM CleanStop == Spec => []CleanStopLosesNothing
  <1>1. Inv => CleanStopLosesNothing
    <2> SUFFICES ASSUME Inv, stage = "stopped", ~err
                 PROVE  /\ \A r \in Requests : req[r] \in {"idle", "gone", "rejected"}
                        /\ pc = "done" /\ dirty = 0
                        /\ count["stopping"] = 0 /\ count["shutdown"] = 0
      BY DEF CleanStopLosesNothing
    <2>1. \A r \in Requests : req[r] \in {"idle", "gone", "rejected"}
      BY Zenon DEF Inv, TypeOK, Points, Counted, Tracked
    <2>2. pc = "done" /\ dirty = 0
      BY DEF Inv, Reported
    <2>3. count["stopping"] = 0 /\ count["shutdown"] = 0
      BY DEF Inv, Reported, TypeOK, LogTypeOK, Counters
    <2> QED
      BY <2>1, <2>2, <2>3, Zenon
  <1> QED
    BY <1>1, Invariant, PTL

=============================================================================
