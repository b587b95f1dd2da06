----------------------------- MODULE RequestLog -----------------------------
(***************************************************************************)
(* The request log service: a bounded queue of events, one worker that     *)
(* writes them in batches and then checkpoints marked cost-limit usage,    *)
(* and a stop that drains both.  Events differ in nothing that matters     *)
(* here, so the queue and the batch are numbers.                           *)
(*                                                                         *)
(* Sources: internal/requestlog/service.go, go.                     *)
(***************************************************************************)
EXTENDS Naturals

CONSTANTS
    QueueCapacity, \* queueCapacity
    BatchSize      \* batchSize

ASSUME SizesAssumption == QueueCapacity \in Nat \ {0} /\ BatchSize \in Nat \ {0}

VARIABLES
    state,     \* the lifecycle of the service
    queue,     \* events in the queue
    pc,        \* where the worker goroutine is
    then,      \* where its write leads; "final" is the last one of a drain
    batch,     \* events in its batch
    canceled,  \* the worker's context was canceled
    failure,   \* shutdownErr is set
    count,     \* the statistics
    wake,      \* quotaWake holds a signal
    dirty      \* usage to checkpoint: 0 none, 1 as read by a pass, 2 marked since

workerVars == <<pc, then, batch>>
logVars == <<state, queue, workerVars, canceled, failure, count, wake, dirty>>

-----------------------------------------------------------------------------
(* Types and initial state. *)

States == {"new", "running", "stopping", "stopped"}

Places == {"none", "select", "collect", "drain", "write", "read", "ack", "final", "done"}

Counters == {"enqueued", "persisted", "notRunning", "queueFull", "stopping",
             "persistFailed", "shutdown"}

LogInit ==
    /\ state = "new"
    /\ queue = 0
    /\ pc = "none" /\ then = "select" /\ batch = 0
    /\ canceled = FALSE
    /\ failure = FALSE
    /\ count = [k \in Counters |-> 0]
    /\ wake = FALSE
    /\ dirty = 0

Goto(place) == pc' = place /\ UNCHANGED <<then, batch>>

WriteThen(place) == pc' = "write" /\ then' = place /\ UNCHANGED batch

Add(k, n) == count' = [count EXCEPT ![k] = @ + n]

-----------------------------------------------------------------------------
(* The callers. *)

Start ==
    /\ state = "new"
    /\ state' = "running"
    /\ Goto("select")
    /\ wake' = (wake \/ dirty > 0)
    /\ UNCHANGED <<queue, canceled, failure, count, dirty>>

\* Mutant of Accepts: the queue is open until the worker has ended.
AcceptsUntilStopped == state \in {"running", "stopping"}

Accepts == state = "running"

\* Mutant of HasRoom: off by one.
HasRoomAtLimit == queue <= QueueCapacity

HasRoom == queue < QueueCapacity

\* The state is read and the event is queued under one lock.
Emit ==
    /\ IF Accepts /\ HasRoom
         THEN queue' = queue + 1 /\ Add("enqueued", 1)
         ELSE /\ Add(IF Accepts THEN "queueFull" ELSE IF state = "new" THEN "notRunning"
                                                                        ELSE "stopping", 1)
              /\ UNCHANGED queue
    /\ UNCHANGED <<state, workerVars, canceled, failure, wake, dirty>>

\* A settlement marks usage and wakes the 
Mark ==
    /\ dirty' = 2
    /\ wake' = TRUE
    /\ UNCHANGED <<state, queue, workerVars, canceled, failure, count>>

\* Stop closes the queue to new events and asks the worker to drain it.
RequestStop ==
    /\ state \in {"new", "running"}
    /\ state' = IF state = "new" THEN "stopped" ELSE "stopping"
    /\ UNCHANGED <<queue, workerVars, canceled, failure, count, wake, dirty>>

\* Stop has waited for the worker until its deadline.  A failure the worker has
\* recorded shows that it is about to end, and is left to it.
CancelShutdown ==
    /\ state = "stopping"
    /\ canceled' = (canceled \/ ~failure)
    /\ failure' = TRUE
    /\ UNCHANGED <<state, queue, workerVars, count, wake, dirty>>

FinishShutdown ==
    /\ pc = "done" /\ state = "stopping"
    /\ state' = "stopped"
    /\ UNCHANGED <<queue, workerVars, canceled, failure, count, wake, dirty>>

-----------------------------------------------------------------------------
(* The  *)

StopRequested == state \in {"stopping", "stopped"}

\* Mutant of Unattempted: the batch in hand is forgotten.
UnattemptedInQueue == queue

Unattempted == queue + batch

\* dropUnattempted: the queue is closed by then.
Drop ==
    /\ canceled
    /\ pc \in {"select", "collect", "drain"}
    /\ queue' = 0
    /\ Add("shutdown", Unattempted)
    /\ pc' = "done" /\ batch' = 0 /\ UNCHANGED then
    /\ UNCHANGED <<state, canceled, failure, wake, dirty>>

\* The selects of runWorker and collectAndWrite; the first one takes an event
\* or a signal to start a batch.
TakeEvent ==
    /\ pc \in {"select", "collect"} /\ batch < BatchSize
    /\ queue > 0
    /\ queue' = queue - 1
    /\ pc' = "collect" /\ batch' = batch + 1 /\ UNCHANGED then
    /\ UNCHANGED <<state, canceled, failure, count, wake, dirty>>

TakeWake ==
    /\ pc \in {"select", "collect"} /\ batch < BatchSize
    /\ wake
    /\ wake' = FALSE
    /\ Goto("collect")
    /\ UNCHANGED <<state, queue, canceled, failure, count, dirty>>

SelectStop ==
    /\ pc \in {"select", "collect"} /\ batch < BatchSize
    /\ StopRequested
    /\ Goto("drain")
    /\ UNCHANGED <<state, queue, canceled, failure, count, wake, dirty>>

\* Mutant of TimerFires: a batch waits until it is full.
TimerNeverFires == FALSE

TimerFires == TRUE

\* The timer has fired, or the batch is full and the context is not canceled.
Flush ==
    /\ pc = "collect"
    /\ IF batch = BatchSize THEN ~canceled ELSE TimerFires
    /\ WriteThen("select")
    /\ UNCHANGED <<state, queue, canceled, failure, count, wake, dirty>>

\* drain fills and writes batches until the queue is empty.
Drain ==
    /\ pc = "drain" /\ ~canceled
    /\ \/ /\ batch = BatchSize
          /\ WriteThen("drain")
          /\ UNCHANGED queue
       \/ /\ batch < BatchSize /\ queue > 0
          /\ queue' = queue - 1
          /\ batch' = batch + 1 /\ UNCHANGED <<pc, then>>
       \/ /\ batch < BatchSize /\ queue = 0
          /\ WriteThen("final")
          /\ UNCHANGED queue
    /\ UNCHANGED <<state, canceled, failure, count, wake, dirty>>

\* writeBatch: events that have no row, and all of them if the transaction
\* fails, are counted as lost.  up: the stores are open.
Write(up) ==
    /\ pc = "write"
    /\ \E n \in 0..batch :
           /\ n > 0 => up /\ ~canceled
           /\ count' = [count EXCEPT !["persisted"] = @ + n,
                                     !["persistFailed"] = @ + (batch - n)]
    /\ pc' = "read" /\ batch' = 0 /\ UNCHANGED then
    /\ UNCHANGED <<state, queue, canceled, failure, wake, dirty>>

\* A pass reads the marked usage; what has been superseded is dropped.
ReadUsage(up) ==
    /\ pc = "read"
    /\ \/ dirty = 0 /\ Goto(then) /\ UNCHANGED dirty
       \/ dirty > 0 /\ up /\ ~canceled /\ Goto("ack") /\ dirty' = 1
       \/ dirty > 0 /\ up /\ ~canceled /\ Goto(then) /\ dirty' = 0
    /\ UNCHANGED <<state, queue, canceled, failure, count, wake>>

\* It writes it and takes back the marks that are no newer.
AckUsage(up) ==
    /\ pc = "ack" /\ up /\ ~canceled
    /\ dirty' = IF dirty = 2 THEN 2 ELSE 0
    /\ wake' = (wake \/ dirty = 2)
    /\ Goto(then)
    /\ UNCHANGED <<state, queue, canceled, failure, count>>

\* A pass that fails is asked for again; the last one ends the drain.
UsageFails ==
    /\ pc \in {"read", "ack"} /\ dirty > 0
    /\ wake' = TRUE
    /\ IF then = "final"
         THEN Goto("done") /\ failure' = TRUE
         ELSE Goto(then) /\ UNCHANGED failure
    /\ UNCHANGED <<state, queue, canceled, count, dirty>>

\* The drain's last passes.
Finish ==
    /\ pc = "final"
    /\ Goto(IF dirty = 0 \/ canceled THEN "done" ELSE "read")
    /\ UNCHANGED <<state, queue, canceled, failure, count, wake, dirty>>

WorkerStep(up) ==
    \/ Drop \/ TakeEvent \/ TakeWake \/ SelectStop \/ Flush \/ Drain \/ Write(up)
    \/ ReadUsage(up) \/ AckUsage(up) \/ UsageFails \/ Finish \/ FinishShutdown

LogTypeOK ==
    /\ state \in States
    /\ queue \in 0..QueueCapacity
    /\ pc \in Places /\ then \in {"select", "drain", "final"} /\ batch \in 0..BatchSize
    /\ canceled \in BOOLEAN /\ failure \in BOOLEAN /\ wake \in BOOLEAN
    /\ count \in [Counters -> Nat]
    /\ dirty \in 0..2

=============================================================================
