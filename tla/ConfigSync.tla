----------------------------- MODULE ConfigSync -----------------------------
(***************************************************************************)
(* Configuration writes, idempotent control operations and reloads at      *)
(* several instances that share a database.  A commit moves the cluster's  *)
(* revision; the writer publishes the new configuration to its own         *)
(* process, and every instance, the writer included, reloads on a notice   *)
(* or when a poll finds a newer revision.  The row of an operation records *)
(* the furthest stage of its publication at any instance.                  *)
(*                                                                         *)
(* Configuration is what it contains: the set of writes.  It has two parts *)
(* that are published one after the other, the price table and the         *)
(* snapshot.  Groups of the registry are published between them by the     *)
(* same steps and are not told apart here.                                 *)
(*                                                                         *)
(* Sources: internal/control/service.go, cluster_config_sync.go,           *)
(* cluster_reload.go, cluster_revision.go, idempotency_operation.go,       *)
(* operation_recovery.go, internal/cluster/config_events.go.               *)
(***************************************************************************)
EXTENDS Naturals, FiniteSets

CONSTANTS
    Instances,
    Writes,     \* control writes, each made once (bound)
    Operations, \* those that carry an idempotency key and may be sent to any instance
    MaxFaults   \* bound: faults of any kind

ASSUME WritesAssumption == Operations \subseteq Writes /\ MaxFaults \in Nat

VARIABLES
    rev,      \* the cluster's revision
    at,       \* the revision each write was committed with, 0 if it was not
    row,      \* the stage in the row of each operation, 0 if there is none
    view,     \* what each instance serves, by part
    applied,  \* lastApplied
    recover,  \* the recovery loop was woken or has a retry due
    run,      \* the holder of each instance's write lock
    asked,    \* bound: the instances a write may not be sent to any more
    answer,   \* history: how an instance answered an operation
    stranded, \* history: committed operations that nobody has in hand or is to drain
    faults

db == <<rev, at, row>>
loops == <<applied, recover>>
vars == <<db, view, loops, run, asked, answer, stranded, faults>>

-----------------------------------------------------------------------------
(* Types and initial state. *)

Parts == {"prices", "snapshot"}

\* Stages of an operation that creates a group: 1 committed, 2 prices published,
\* 3 snapshot published, 4 completed.  Other kinds have fewer.
Completed == 4
PartOf(stage) == IF stage = 2 THEN "prices" ELSE "snapshot"

\* job: what holds the lock.  known: the stage of the row its request found,
\* or 1 once it is being replayed.
\* seen, got: the configuration it is to publish, and its revision.  todo: pending operations it read,
\* with their stage then.  cur, stage, next: the operation it recovers, its
\* stage as this instance knows it, and the stage it is to run.
Jobs == {"none", "write", "group", "config", "drain", "reload"}
Run == [job : Jobs, id : Writes \cup {"-"}, known : 0..Completed,
        pc : {"-", "pending", "barrier", "commit", "prices", "snapshot", "reprice", "republish",
              "run", "own"},
        seen : SUBSET Writes, got : 0..rev, todo : SUBSET (Operations \X (1..(Completed - 1))),
        cur : Operations \cup {"-"}, stage : 0..Completed, next : 0..Completed]

Free == [job |-> "none", id |-> "-", known |-> 0, pc |-> "-", seen |-> {}, got |-> 0, todo |-> {},
         cur |-> "-", stage |-> 0, next |-> 0]

Done == {w \in Writes : at[w] > 0}

Init ==
    /\ rev = 0
    /\ at = [w \in Writes |-> 0]
    /\ row = [o \in Operations |-> 0]
    /\ view = [i \in Instances |-> [p \in Parts |-> {}]]
    /\ applied = [i \in Instances |-> 0]
    /\ recover = [i \in Instances |-> FALSE]
    /\ run = [i \in Instances |-> Free]
    /\ asked = [w \in Writes |-> {}]
    /\ answer = [o \in Operations |-> [i \in Instances |-> "-"]]
    /\ stranded = {}
    /\ faults = 0

Fault == faults < MaxFaults /\ faults' = faults + 1

\* Instance i holds its lock at pc.
At(i, pc) == run[i].pc = pc

Becomes(i, r) == run' = [run EXCEPT ![i] = r]
Goto(i, pc) == Becomes(i, [run[i] EXCEPT !.pc = pc])

Serve(i, p, content) == view' = [view EXCEPT ![i][p] = content]

-----------------------------------------------------------------------------
(* Pending operations. *)

\* recoverPendingOperationsLocked reads the rows once: all of them, or, for an
\* operation that has a row, those inserted before it.  Transactions of two
\* instances may commit in another order than they insert their rows, so these
\* may be any of the others.
Pending == {<<o, row[o]>> : o \in {x \in Operations : row[x] \in 1..(Completed - 1)}}
Earlier(i) ==
    IF run[i].known > 0 THEN SUBSET {t \in Pending : t[1] # run[i].id} ELSE {Pending}

\* A drain sees to what it has read, until it is done: a failed one is retried.
Drained(i, todo) == IF run[i].job = "drain" THEN {t[1] : t \in todo} ELSE {}

ReadPending(i) ==
    /\ At(i, "pending")
    /\ \E todo \in Earlier(i) :
           /\ Becomes(i, [run[i] EXCEPT !.pc = "barrier", !.todo = todo])
           /\ stranded' = stranded \ Drained(i, todo)
    /\ UNCHANGED <<db, view, loops, asked, answer, faults>>

\* Recovery of o starts after the stage it was read with: at the barrier ("run")
\* or as the request's own operation ("own").
Recovering(r, pc, o, stage) ==
    [r EXCEPT !.pc = pc, !.cur = o, !.stage = stage, !.next = stage + 1]

\* The pending operations, in the order of their rows.
StartRecovery(i) ==
    /\ At(i, "barrier")
    /\ \E t \in run[i].todo :
           Becomes(i, Recovering([run[i] EXCEPT !.todo = @ \ {t}], "run", t[1], t[2]))
    /\ UNCHANGED <<db, view, loops, asked, answer, stranded, faults>>

\* Mutant of Swaps: the stage is written whatever the row holds.
SwapsAlways(i) == run[i].stage < run[i].next

\* The row is still at the stage this instance knows.
Swaps(i) == run[i].stage < run[i].next /\ row[run[i].cur] = run[i].stage

\* Mutant of NextStage: stages that another instance has run are skipped.
NextStageAdopted(i, stage) == (IF stage > run[i].next THEN stage ELSE run[i].next) + 1

NextStage(i, stage) == run[i].next + 1

\* Where the lock's holder goes when an operation is recovered.
Recovered(i) ==
    IF At(i, "own")
      THEN /\ Becomes(i, Free)
           /\ answer' = [answer EXCEPT ![run[i].id][i] =
                           IF run[i].known > 0 THEN "replayed" ELSE "done"]
      ELSE /\ Becomes(i, [run[i] EXCEPT !.pc = "barrier", !.cur = "-", !.stage = 0, !.next = 0])
           /\ UNCHANGED answer

Last(n) == n > Completed

Recovers(i) == run[i].pc \in {"run", "own"}

\* A stage publishes what the database holds now.
Effect(i) ==
    IF run[i].next < Completed
      THEN Serve(i, PartOf(run[i].next), Done)
      ELSE UNCHANGED view

\* advanceOperationStageLocked: swap the stage, or adopt one that is further.
RunStage(i) ==
    /\ Recovers(i)
    /\ Effect(i)
    /\ LET r == run[i]
           stage == IF r.stage >= r.next THEN r.stage
                    ELSE IF Swaps(i) THEN r.next ELSE row[r.cur]
       IN /\ row' = IF Swaps(i) THEN [row EXCEPT ![r.cur] = r.next] ELSE row
          /\ IF Last(NextStage(i, stage))
               THEN Recovered(i)
               ELSE /\ Becomes(i, [r EXCEPT !.stage = stage, !.next = NextStage(i, stage)])
                    /\ UNCHANGED answer
    /\ UNCHANGED <<rev, at, loops, asked, stranded, faults>>

\* Mutant of Wakes: a failure waits for the next write.
WakesNever(i) == FALSE

\* A failed operation of one's own wakes the recovery loop, and a failed drain
\* has a retry.  A write that fails at the barrier wakes nobody.
Wakes(i) == run[i].job = "drain" \/ At(i, "own")

\* The pending rows cannot be read, or a stage fails before its effect or after
\* it, when the row cannot be written.
StageFails(i) ==
    /\ \/ run[i].pc \in {"pending", "barrier"} /\ UNCHANGED view
       \/ Recovers(i) /\ (UNCHANGED view \/ Effect(i))
    /\ Fault
    /\ Becomes(i, Free)
    /\ recover' = [recover EXCEPT ![i] = @ \/ Wakes(i)]
    /\ UNCHANGED <<db, applied, asked, answer, stranded>>

\* DrainCommittedOperations, from the recovery loop.
StartDrain(i) ==
    /\ run[i].job = "none" /\ recover[i]
    /\ Becomes(i, [Free EXCEPT !.job = "drain", !.pc = "pending"])
    /\ recover' = [recover EXCEPT ![i] = FALSE]
    /\ UNCHANGED <<db, view, applied, asked, answer, stranded, faults>>

EndDrain(i) ==
    /\ run[i].job = "drain" /\ At(i, "barrier") /\ run[i].todo = {}
    /\ Becomes(i, Free)
    /\ UNCHANGED <<db, view, loops, asked, answer, stranded, faults>>

-----------------------------------------------------------------------------
(* Control writes. *)

\* The lock is taken and an operation's row is looked for.
StartWrite(i, w) ==
    /\ run[i].job = "none"
    /\ i \notin asked[w]
    /\ asked' = [asked EXCEPT ![w] = IF w \in Operations THEN @ \cup {i} ELSE Instances]
    /\ Becomes(i, [Free EXCEPT !.job = "write", !.id = w, !.pc = "pending",
                               !.known = IF w \in Operations THEN row[w] ELSE 0])
    /\ UNCHANGED <<db, view, loops, answer, stranded, faults>>

Passed(i) == At(i, "barrier") /\ run[i].todo = {}

\* Mutant of Built: the configuration is derived from the one in memory.
BuiltInMemory(i) == view[i]["snapshot"] \cup {run[i].id}

\* The transaction reads what is committed, besides its own change.
Built(i) == Done \cup {run[i].id}

Build(i) ==
    /\ Passed(i) /\ run[i].id # "-" /\ run[i].known = 0
    /\ Becomes(i, [run[i] EXCEPT !.pc = "commit",
                     !.seen = IF run[i].id \in Operations THEN {} ELSE Built(i)])
    /\ UNCHANGED <<db, view, loops, asked, answer, stranded, faults>>

\* replayIdempotentOperationLocked, with the row at the stage it was read.
Replay(i, stage) ==
    /\ IF stage = Completed
         THEN /\ Becomes(i, Free)
              /\ answer' = [answer EXCEPT ![run[i].id][i] = "replayed"]
         ELSE /\ Becomes(i, Recovering([run[i] EXCEPT !.known = 1], "own", run[i].id, stage))
              /\ UNCHANGED answer
    /\ stranded' = stranded \ {run[i].id}
    /\ UNCHANGED <<db, view, loops, asked, faults>>

ReplayKnown(i) == Passed(i) /\ run[i].known > 0 /\ Replay(i, run[i].known)

HasRow(w) == w \in Operations /\ row[w] > 0

\* A peer has committed the operation since, or this instance has and was told
\* otherwise.
ReplayFound(i) == At(i, "commit") /\ HasRow(run[i].id) /\ Replay(i, row[run[i].id])

\* Mutant of Credited: the writer takes its own revision for applied.
CreditedOwn(i) == rev + 1

\* A commit does not count as applied, at the writer either.
Credited(i) == applied[i]

Committed(w) ==
    /\ rev' = rev + 1
    /\ at' = [at EXCEPT ![w] = rev + 1]
    /\ row' = IF w \in Operations THEN [row EXCEPT ![w] = 1] ELSE row

\* The revision moves with the change.  It is announced to every instance: see
\* StartReload.
Commits(i, w) ==
    /\ Committed(w)
    /\ applied' = [applied EXCEPT ![i] = Credited(i)]
    /\ UNCHANGED <<view, recover, answer, stranded, faults>>

\* An operation goes on with its stages; writeGroupConfig publishes both parts,
\* writeConfig the snapshot alone.
Commit(i) ==
    /\ At(i, "commit") /\ ~HasRow(run[i].id)
    /\ Commits(i, run[i].id)
    /\ IF run[i].id \in Operations
         THEN Becomes(i, Recovering(run[i], "own", run[i].id, 1))
         ELSE \/ Becomes(i, [run[i] EXCEPT !.job = "group", !.pc = "prices"])
              \/ Becomes(i, [run[i] EXCEPT !.job = "config", !.pc = "snapshot"])
    /\ UNCHANGED asked

\* CommitCredentialState, which a refresh calls without the lock.
CommitCredential(i, w) ==
    /\ w \notin Operations /\ asked[w] = {}
    /\ asked' = [asked EXCEPT ![w] = Instances]
    /\ Commits(i, w)
    /\ UNCHANGED run

\* The transaction fails, or is made and reported to have failed.  An operation
\* then looks for its row, unless its client has gone: the commit and the lookup
\* have the context of one request, and both fail.
CommitFails(i) ==
    /\ At(i, "commit") /\ ~HasRow(run[i].id)
    /\ Fault
    /\ \/ Becomes(i, Free) /\ UNCHANGED <<db, stranded>>
       \/ /\ Committed(run[i].id)
          /\ stranded' = stranded \cup ({run[i].id} \cap Operations)
          /\ \/ Becomes(i, Free)
             \/ run[i].id \in Operations /\ UNCHANGED run
    /\ UNCHANGED <<view, loops, asked, answer>>

\* The row cannot be read after a failed commit.
LookupFails(i) ==
    /\ At(i, "commit") /\ HasRow(run[i].id)
    /\ Fault
    /\ Becomes(i, Free)
    /\ UNCHANGED <<db, view, loops, asked, answer, stranded>>

-----------------------------------------------------------------------------
(* Publication by a write or by a reload. *)

PublishPrices(i) ==
    /\ At(i, "prices")
    /\ Serve(i, "prices", run[i].seen)
    /\ Goto(i, "snapshot")
    /\ UNCHANGED <<db, loops, asked, answer, stranded, faults>>

\* The last step of a reload lets its revision count as applied.  (The lock is
\* given back just before; whoever compares revisions in between would only ask
\* for one more reload.)
PublishSnapshot(i) ==
    /\ At(i, "snapshot")
    /\ Serve(i, "snapshot", run[i].seen)
    /\ applied' = [applied EXCEPT ![i] = IF run[i].got > @ THEN run[i].got ELSE @]
    /\ Becomes(i, Free)
    /\ UNCHANGED <<db, recover, asked, answer, stranded, faults>>

\* The registry or the snapshot refuses what a write is to publish:
\* recoverCommittedRuntime reads the database again.
PublishFails(i) ==
    /\ At(i, "snapshot") /\ run[i].job \in {"group", "config"}
    /\ Fault
    /\ Becomes(i, [run[i] EXCEPT !.seen = Done,
                     !.pc = IF run[i].job = "group" THEN "reprice" ELSE "republish"])
    /\ UNCHANGED <<db, view, loops, asked, answer, stranded>>

Reprice(i) ==
    /\ At(i, "reprice")
    /\ Serve(i, "prices", Done)
    /\ Goto(i, "republish")
    /\ UNCHANGED <<db, loops, asked, answer, stranded, faults>>

Republish(i) ==
    /\ At(i, "republish")
    /\ Serve(i, "snapshot", run[i].seen)
    /\ Becomes(i, Free)
    /\ UNCHANGED <<db, loops, asked, answer, stranded, faults>>

\* The fault that failed the publication fails its repair too.
RecoverRuntimeFails(i) ==
    /\ run[i].pc \in {"reprice", "republish"}
    /\ Becomes(i, Free)
    /\ UNCHANGED <<db, view, loops, asked, answer, stranded, faults>>

-----------------------------------------------------------------------------
(* The sync loop. *)

\* Mutant of Newer: one revision behind counts as current.
NewerByTwo(i, r) == r > applied[i] + 1

Newer(i, r) == r > applied[i]

\* A reload is asked for by the notice of a newer revision, which may be late,
\* repeated, out of order or lost, or by a comparison with the revision itself:
\* at a poll, or when the subscription is made anew.  The signal waits in a
\* channel of one for a loop that does nothing else; one that is left over makes
\* a reload that changes nothing.  Under the lock, one read gives the
\* configuration and its revision.
StartReload(i) ==
    /\ run[i].job = "none"
    /\ \E r \in 1..rev : Newer(i, r)
    /\ Becomes(i, [Free EXCEPT !.job = "reload", !.pc = "prices", !.seen = Done, !.got = rev])
    /\ UNCHANGED <<db, view, loops, asked, answer, stranded, faults>>

ReloadFails(i) ==
    /\ run[i].job = "reload"
    /\ Fault
    /\ Becomes(i, Free)
    /\ UNCHANGED <<db, view, loops, asked, answer, stranded>>

\* The process ends and starts again.  It loads the configuration, drains the
\* operations before it listens, and then runs the sync loop, which reloads.
Restart(i) ==
    /\ Fault
    /\ view' = [view EXCEPT ![i] = [p \in Parts |-> Done]]
    /\ applied' = [applied EXCEPT ![i] = 0]
    /\ recover' = [recover EXCEPT ![i] = FALSE]
    /\ Becomes(i, [Free EXCEPT !.job = "drain", !.pc = "pending"])
    /\ UNCHANGED <<db, asked, answer, stranded>>

-----------------------------------------------------------------------------
(* Specification. *)

\* What the holder of a lock does next, and the loops: they never wait for a
\* client or a peer.
Holder(i) ==
    \/ ReadPending(i) \/ StartRecovery(i) \/ RunStage(i) \/ EndDrain(i)
    \/ Build(i) \/ ReplayKnown(i) \/ ReplayFound(i) \/ Commit(i)
    \/ PublishPrices(i) \/ PublishSnapshot(i) \/ Reprice(i) \/ Republish(i)

Failure(i) ==
    \/ StageFails(i) \/ CommitFails(i) \/ LookupFails(i) \/ PublishFails(i)
    \/ RecoverRuntimeFails(i) \/ ReloadFails(i) \/ Restart(i)

Next ==
    \E i \in Instances :
        \/ Holder(i) \/ StartReload(i) \/ StartDrain(i) \/ Failure(i)
        \/ \E w \in Writes : StartWrite(i, w) \/ CommitCredential(i, w)

Spec == Init /\ [][Next]_vars

FairSpec ==
    /\ Spec
    /\ \A i \in Instances : WF_vars(Holder(i)) /\ WF_vars(StartReload(i)) /\ WF_vars(StartDrain(i))

-----------------------------------------------------------------------------
(* Properties. *)

\* The types of the variables; ConfigSyncProofs proves them, bounds aside.
TypeOK ==
    /\ rev \in 0..Cardinality(Writes)
    /\ at \in [Writes -> 0..Cardinality(Writes)]
    /\ row \in [Operations -> 0..Completed]
    /\ view \in [Instances -> [Parts -> SUBSET Writes]]
    /\ applied \in [Instances -> 0..rev]
    /\ recover \in [Instances -> BOOLEAN]
    /\ run \in [Instances -> Run]
    /\ asked \in [Writes -> SUBSET Instances]
    /\ answer \in [Operations -> [Instances -> {"-", "done", "replayed"}]]
    /\ stranded \subseteq Operations
    /\ faults \in 0..MaxFaults

\* handle's comment: "the applied revision only advances after a reload has
\* read it, so a peer commit that lost its own event is still picked up".  An
\* instance that counts a revision as applied serves every write up to it, in
\* both parts; otherwise no poll would ever repair it.
AppliedIsServed ==
    \A i \in Instances, p \in Parts, w \in Writes :
        at[w] \in 1..applied[i] => w \in view[i][p]

\* A write built in a transaction, a stage read from the database and a reload
\* are published in the order they were read, because the write lock is held
\* from the read to the publication: no part ever loses a write it served.
ViewsDoNotGoBack ==
    [][\A i \in Instances, p \in Parts : view[i][p] \subseteq view'[i][p]]_vars

\* The row records the furthest stage in the cluster: instances that run the
\* stages of one operation at the same time never move it back.
StagesDoNotGoBack == [][\A o \in Operations : row'[o] >= row[o]]_vars

\* An instance that answers an operation as its own serves it, in both parts,
\* whatever stages its peers ran; and the row is complete, so the client may
\* repeat the request anywhere.
AnswersAreServed ==
    \A o \in Operations, i \in Instances :
        /\ answer[o][i] # "-" => row[o] = Completed
        /\ answer[o][i] = "done" => \A p \in Parts : o \in view[i][p]

\* Every instance comes to serve everything that was committed, in both parts,
\* even if every notice is lost, a reload fails halfway or a commit was made
\* and reported as failed.
ViewsConverge == <>[](\A i \in Instances, p \in Parts : view[i][p] = Done)

\* A committed operation reaches its last stage: its instance wakes the recovery
\* loop when a stage fails, and drains what is pending when it restarts.  The one
\* exception is an operation that was committed while its request was told that
\* the commit had failed, and the lookup of the row failed too: nobody is woken.
\* It may stay as it is, but only until it is repeated or a drain reads its row.
OperationsComplete ==
    \A o \in Operations : row[o] > 0 ~> row[o] = Completed \/ o \in stranded

=============================================================================
