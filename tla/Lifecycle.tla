----------------------------- MODULE Lifecycle ------------------------------
(***************************************************************************)
(* The life of one process: the coordinator that tracks HTTP handlers, the *)
(* handlers with what they leave behind (marked usage and a log event),    *)
(* the request log of module RequestLog, and the stop of the application,  *)
(* which takes them down in order under one deadline.                      *)
(*                                                                         *)
(* Sources: internal/httplifecycle/coordinator.go, internal/app/app.go,    *)
(* internal/gateway/http_routes.go, internal/gateway/request_log.go.       *)
(***************************************************************************)
EXTENDS RequestLog, FiniteSets

CONSTANTS
    Requests, \* data-plane requests (bound)
    Sockets   \* those that take over their connection

ASSUME RequestsAssumption == IsFiniteSet(Requests) /\ Sockets \subseteq Requests

VARIABLES
    closing, \* the coordinator refuses new handlers
    active,  \* its count of handlers and bindings
    zero,    \* its current channel: channels are numbered as they are made
    req,     \* where each request is
    stage,   \* where the goroutine is that starts and stops the application
    channel, \* the channel that Wait has read
    err,     \* Stop has met an error
    expired  \* the deadline of Stop has passed

httpVars == <<closing, active, zero, req>>
stopVars == <<stage, channel, err>>
appVars == <<stopVars, expired>>
vars == <<logVars, httpVars, appVars>>

-----------------------------------------------------------------------------
(* Types and initial state. *)

Points == {"idle", "tracked", "refused", "bound", "settled", "logged", "released", "gone",
           "rejected"}

Stages == {"start", "serve", "http", "runtime", "wait", "drain", "logs",
           "logswait", "close", "stopped"}

Init ==
    /\ LogInit
    /\ closing = FALSE
    /\ active = 0
    /\ zero = 0
    /\ req = [r \in Requests |-> "idle"]
    /\ stage = "start" /\ channel = 0 /\ err = FALSE
    /\ expired = FALSE

-----------------------------------------------------------------------------
(* The coordinator. *)

\* addActiveLocked: the first one in makes a new channel.
AddActive ==
    /\ active' = active + 1
    /\ zero' = IF active = 0 THEN zero + 1 ELSE zero

\* Mutant of Left: the count falls by two.
LeftTwice == IF active > 1 THEN active - 2 ELSE 0

Left == IF active = 0 THEN 0 ELSE active - 1

LeaveActive == active' = Left /\ UNCHANGED zero

\* A channel is closed when the count returns to zero.
Closed(c) == c < zero \/ active = 0

-----------------------------------------------------------------------------
(* The handler of a request. *)

Move(r, to) == req' = [req EXCEPT ![r] = to]

\* The server's connections are open.
Accepting == stage \in {"serve", "http"}

\* TrackAll.
Track(r) ==
    /\ req[r] = "idle" /\ Accepting
    /\ IF closing
         THEN Move(r, "rejected") /\ UNCHANGED <<active, zero>>
         ELSE Move(r, "tracked") /\ AddActive
    /\ UNCHANGED <<logVars, closing, appVars>>

\* BindData.
Bind(r) ==
    /\ req[r] = "tracked"
    /\ IF closing
         THEN Move(r, "refused") /\ UNCHANGED <<active, zero>>
         ELSE Move(r, "bound") /\ AddActive
    /\ UNCHANGED <<logVars, closing, appVars>>

\* The quota settlement of the request, while Redis can be reached.
Settle(r) ==
    /\ req[r] = "bound" /\ stage # "stopped"
    /\ Move(r, "settled")
    /\ Mark
    /\ UNCHANGED <<closing, active, zero, appVars>>

\* The event of the request; not every request had something to settle.
Log(r) ==
    /\ req[r] \in {"bound", "settled"}
    /\ Move(r, "logged")
    /\ Emit
    /\ UNCHANGED <<closing, active, zero, appVars>>

\* The deferred release of the binding.
Release(r) ==
    /\ req[r] = "logged"
    /\ Move(r, "released")
    /\ LeaveActive
    /\ UNCHANGED <<logVars, closing, appVars>>

\* The deferred part of TrackAll.
Leave(r) ==
    /\ req[r] \in {"released", "refused"}
    /\ Move(r, IF req[r] = "released" THEN "gone" ELSE "rejected")
    /\ LeaveActive
    /\ UNCHANGED <<logVars, closing, appVars>>

-----------------------------------------------------------------------------
(* The application. *)

Step(from, to, failed) ==
    /\ stage = from
    /\ stage' = to
    /\ err' = (err \/ failed)

\* The end of App.Start: the log runs before the server accepts requests.
StartApp ==
    /\ Step("start", "serve", FALSE)
    /\ Start
    /\ UNCHANGED <<httpVars, channel, expired>>

\* Stop begins: the coordinator's BeginShutdown, and the runtime is canceled.
BeginShutdown ==
    /\ Step("serve", "http", FALSE)
    /\ closing' = TRUE
    /\ UNCHANGED <<logVars, active, zero, req, channel, expired>>

\* The connection of r is the server's: a handler that takes it over, which it
\* does when it is bound, is not waited for.
Connected(r) ==
    \/ req[r] \in {"tracked", "refused"}
    \/ req[r] \in {"bound", "settled", "logged", "released"} /\ r \notin Sockets

\* server.Shutdown; past the deadline server.Close.
ShutServer ==
    /\ \/ (\A r \in Requests : ~Connected(r)) /\ Step("http", "runtime", FALSE)
       \/ expired /\ Step("http", "runtime", TRUE)
    /\ UNCHANGED <<logVars, httpVars, channel, expired>>

\* The control runtime ends when it ends ...
RuntimeEnds ==
    /\ Step("runtime", "wait", FALSE)
    /\ UNCHANGED <<logVars, httpVars, channel, expired>>

\* ... and is waited for until the deadline.
AwaitRuntime ==
    /\ expired
    /\ Step("runtime", "wait", TRUE)
    /\ UNCHANGED <<logVars, httpVars, channel, expired>>

\* Wait reads the channel once ...
ReadZero ==
    /\ stage = "wait"
    /\ stage' = "drain" /\ channel' = zero
    /\ UNCHANGED <<logVars, httpVars, err, expired>>

\* Mutant of GivesUp: handlers are waited for however long they take.
NeverGivesUp == FALSE

GivesUp == expired

\* ... and waits for it.
AwaitHandlers ==
    /\ \/ Closed(channel) /\ Step("drain", "logs", FALSE)
       \/ GivesUp /\ Step("drain", "logs", TRUE)
    /\ UNCHANGED <<logVars, httpVars, channel, expired>>

StopLogs ==
    /\ Step("logs", "logswait", FALSE)
    /\ RequestStop
    /\ UNCHANGED <<httpVars, channel, expired>>

\* waitForShutdown, cancelShutdown.
AwaitLogs ==
    /\ \/ state = "stopped" /\ Step("logswait", "close", failure) /\ UNCHANGED logVars
       \/ expired /\ CancelShutdown /\ Step("logswait", "close", TRUE)
    /\ UNCHANGED <<httpVars, channel, expired>>

CloseStores ==
    /\ \E failed \in BOOLEAN : Step("close", "stopped", failed)
    /\ UNCHANGED <<logVars, httpVars, channel, expired>>

Expire ==
    /\ stage \notin {"start", "serve", "stopped"} /\ ~expired
    /\ expired' = TRUE
    /\ UNCHANGED <<logVars, httpVars, stopVars>>

StopStep ==
    \/ ShutServer \/ AwaitRuntime \/ ReadZero \/ AwaitHandlers
    \/ StopLogs \/ AwaitLogs \/ CloseStores

LogWorker == WorkerStep(stage # "stopped") /\ UNCHANGED <<httpVars, appVars>>

Next ==
    \/ \E r \in Requests : Track(r) \/ Bind(r) \/ Settle(r) \/ Log(r) \/ Release(r) \/ Leave(r)
    \/ StartApp \/ BeginShutdown \/ StopStep \/ RuntimeEnds \/ Expire
    \/ LogWorker

Spec == Init /\ [][Next]_vars

\* Stop's goroutine runs and its deadline comes.  The worker runs, each call it
\* makes returns, and a select that finds an event again and again takes one.
\* Nothing is assumed of handlers or of the control runtime.
FairSpec ==
    /\ Spec
    /\ WF_vars(StopStep) /\ WF_vars(Expire)
    /\ WF_vars(LogWorker)
    /\ SF_vars(TakeEvent /\ UNCHANGED <<httpVars, appVars>>)

-----------------------------------------------------------------------------
(* Properties. *)

\* Type invariant.
TypeOK ==
    /\ LogTypeOK
    /\ closing \in BOOLEAN /\ expired \in BOOLEAN
    /\ active \in Nat /\ zero \in Nat
    /\ req \in [Requests -> Points]
    /\ stage \in Stages /\ channel \in Nat /\ err \in BOOLEAN

\* The statistics account for every event once, in any order of emission,
\* batching, failure and shutdown: each emitted event was queued or dropped for
\* one reason, and each queued one is written, lost for one reason, or still
\* in the queue or the batch.
EventsAreAccounted ==
    /\ Cardinality({r \in Requests : req[r] \in {"logged", "released", "gone"}}) =
         count["enqueued"] + count["notRunning"] + count["queueFull"] + count["stopping"]
    /\ count["enqueued"] =
         count["persisted"] + count["persistFailed"] + count["shutdown"] + queue + batch

\* When the worker has ended nothing is left behind in the queue, whatever the
\* handlers did while it drained.
NothingIsStranded == pc = "done" => queue = 0 /\ batch = 0

\* A stop that reports no error has lost nothing: no handler runs on, no event
\* was refused or dropped because of it, and the usage that requests have
\* marked is in the database.
CleanStopLosesNothing ==
    stage = "stopped" /\ ~err =>
        /\ \A r \in Requests : req[r] \in {"idle", "gone", "rejected"}
        /\ pc = "done" /\ dirty = 0
        /\ count["stopping"] = 0 /\ count["shutdown"] = 0

\* Stop returns, even if handlers and the control runtime never end.
StopEnds == closing ~> stage = "stopped"

\* A queued event does not wait forever, not even next to checkpoints that
\* fail and are asked for again.
EventsAreWritten == queue + batch > 0 ~> queue + batch = 0

=============================================================================
