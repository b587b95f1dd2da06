-------------------------- MODULE CredentialHealth --------------------------
(***************************************************************************)
(* The health of one credential, shared by every gateway instance.         *)
(*                                                                         *)
(* Redis holds the record; each instance keeps a mirror of it in its       *)
(* registry.  A health decision runs one atomic script, applies the record *)
(* the script returns to the local mirror, and publishes it to the peers.  *)
(* A periodic reconciliation repairs what an event missed, and a decision  *)
(* that cannot reach Redis is applied to the local mirror alone.  An edit  *)
(* of the credential writes a snapshot of the whole entry back, its health *)
(* included.                                                               *)
(*                                                                         *)
(* Sources: internal/cluster/credential_health.go,                         *)
(* credential_health_scripts.go, internal/state/shared_health.go,          *)
(* registry.go, model_cooldown.go, internal/gateway/handler.go,            *)
(* internal/control/validation.go, credential_mutations.go.                *)
(***************************************************************************)
EXTENDS Integers, Sequences

CONSTANTS
    Instances,    \* gateway processes
    Calls,        \* health decisions; each one is made once
    Ops,          \* the operations each one may be, with their arguments
    Models,       \* model names
    Threshold,    \* BlacklistThreshold of the group; 0 never blacklists
    MaxIdentity,  \* bound: last identity generation of the credential
    MaxSecret,    \* bound: last secret version of the credential
    MaxFaults,    \* bound: lost calls, events and records, and restarts
    Editors,      \* the instances at which an operator edits the credential
    MaxEdits      \* bound: edits of the credential by an operator

ASSUME BoundsAssumption == /\ Threshold \in Nat /\ MaxFaults \in Nat /\ MaxEdits \in Nat
                           /\ MaxIdentity \in Nat \ {0} /\ MaxSecret \in Nat \ {0}

VARIABLES
    row,      \* the database: identity generation and secret version
    record,   \* the hash of the credential in Redis
    mirror,   \* the registry entry of each instance
    events,   \* the events on their way to each instance
    reading,  \* the record the reconciliation of each instance has read
    edit,     \* the edit each instance has under way, with its snapshot
    call,     \* the health decisions
    flight,   \* the calls whose script was sent and has not run
    epochs,   \* number of record epochs used so far
    faults,   \* number of faults so far
    edits     \* number of edits so far

vars == <<row, record, mirror, events, reading, edit, call, flight, epochs, faults, edits>>

-----------------------------------------------------------------------------
(* Health, records, mirrors and calls. *)

\* A deadline of 0 is no deadline.
Healthy == [cd |-> 0, bl |-> FALSE, fc |-> 0, fg |-> 0, mg |-> 0, m |-> [x \in Models |-> 0]]

\* History: gen is the call that last changed the failure generation.
Nobody == 0

\* An epoch of 0 is the empty epoch: there is no record.
NoRecord == [ep |-> 0, ver |-> 0, idg |-> 0, h |-> Healthy, asv |-> 0, gen |-> Nobody]

\* A registry entry loaded from the database.
Entry(idg, ver) == [idg |-> idg, ver |-> ver, ep |-> 0, sv |-> 0, h |-> Healthy,
                    local |-> FALSE]

NoRead == <<>>
NoEdit == [pc |-> "none"]
NoCall == [pc |-> "new"]

Init ==
    /\ row = [idg |-> 1, ver |-> 1]
    /\ record = NoRecord
    /\ mirror = [i \in Instances |-> Entry(1, 1)]
    /\ events = [i \in Instances |-> <<>>]
    /\ reading = [i \in Instances |-> NoRead]
    /\ edit = [i \in Instances |-> NoEdit]
    /\ call = [c \in Calls |-> NoCall]
    /\ flight = {}
    /\ epochs = 0
    /\ faults = 0
    /\ edits = 0

-----------------------------------------------------------------------------
(* The operations, on the health h of a credential.                        *)

Later(a, b) == IF a > b THEN a ELSE b

Cooldown(h, until) == [h EXCEPT !.cd = Later(until, @)]

\* The count reaches the threshold: one more generation for the blacklist.
Fail(h) ==
    LET bl == Threshold > 0 /\ h.fc + 1 >= Threshold /\ ~h.bl
    IN  [h EXCEPT !.fc = @ + 1, !.fg = @ + IF bl THEN 2 ELSE 1, !.bl = @ \/ bl]

ClearFailure(h) == IF h.fc = 0 THEN h ELSE [h EXCEPT !.fc = 0, !.fg = @ + 1]

Pruned(h, now) == [h EXCEPT !.m = [x \in Models |-> IF h.m[x] <= now THEN 0 ELSE h.m[x]]]

ModelCooldown(h, model, until, now) ==
    LET p == Pruned(h, now) IN [p EXCEPT !.m[model] = Later(until, @)]

RestoreRuntime(h) == [h EXCEPT !.cd = 0, !.bl = FALSE, !.fc = 0, !.fg = @ + 1]
ClearModels(h) == [h EXCEPT !.m = [x \in Models |-> 0], !.mg = @ + 1]

Restore(h, runtime, models) ==
    LET r == IF runtime THEN RestoreRuntime(h) ELSE h
    IN  IF models THEN ClearModels(r) ELSE r

Recover(h, cooldown) ==
    [h EXCEPT !.cd = IF cooldown THEN 0 ELSE @, !.bl = FALSE, !.fc = 0, !.fg = @ + 1]

-----------------------------------------------------------------------------
(* The script.  A call k carries its operation and the reference it read.  *)

\* The record the operation of k runs on: a new one, or one reset because its
\* identity generation is not the caller's.
Opened(r, k, ep) ==
    CASE r.ep = 0 -> [NoRecord EXCEPT !.ep = ep, !.idg = k.idg]
      [] r.ep # 0 /\ r.idg # k.idg -> [NoRecord EXCEPT !.ep = r.ep, !.ver = r.ver, !.idg = k.idg]
      [] OTHER -> r

\* Mutant of Accepts: a recovery does not compare the failure generation.
AcceptsAnyFailure(r, k) ==
    CASE k.op.op = "recover" -> r.h.bl /\ (k.op.cooldown => r.h.cd = k.ref.cd)
      [] OTHER -> TRUE

Accepts(r, k) ==
    CASE k.op.op = "cooldown" -> k.op.versioned /\ r.asv # 0 => r.asv = k.ref.ver
      [] k.op.op = "model_cooldown" -> r.h.mg = k.ref.mg
      [] k.op.op = "recover" -> /\ r.h.bl
                                /\ r.h.fg = k.ref.fg
                                /\ k.op.cooldown => r.h.cd = k.ref.cd
      [] k.op.op = "clear_cooldown" -> r.h.cd = k.ref.cd
      [] k.op.op = "auth" -> r.asv <= k.ref.ver
      [] OTHER -> TRUE

Applied(h, k) ==
    CASE k.op.op = "cooldown" -> Cooldown(h, k.op.until)
      [] k.op.op = "fail" -> Fail(h)
      [] k.op.op = "clear_failure" -> ClearFailure(h)
      [] k.op.op = "model_cooldown" -> ModelCooldown(h, k.op.model, k.op.until, k.op.now)
      [] k.op.op = "restore" -> Restore(h, k.op.runtime, k.op.models)
      [] k.op.op = "recover" -> Recover(h, k.op.cooldown)
      [] k.op.op = "clear_cooldown" -> [h EXCEPT !.cd = 0]
      [] OTHER -> h

\* Mutants of Moves: a dropped model cooldown does not move the version; an
\* authorization write that changes the secret version alone does not.
MovesOnExtension(r, opened, h, k) ==
    \/ opened # r
    \/ k.op.op = "model_cooldown" /\ h.m[k.op.model] > opened.h.m[k.op.model]
    \/ k.op.op # "model_cooldown" /\ h # opened.h
MovesOnHealth(r, opened, h, k) == opened # r \/ h # opened.h \/ k.op.op = "restore"

\* Does the script move the version?  It does when it opened or reset the
\* record or changed the health, a dropped model cooldown included, and on
\* every restore and every accepted authorization write.
Moves(r, opened, h, k) ==
    \/ opened # r
    \/ h # opened.h
    \/ k.op.op = "restore"
    \/ k.op.op = "auth" /\ Accepts(opened, k)

\* The record after the script of k.
Scripted(r, k, ep) ==
    LET opened == Opened(r, k, ep)
        h == IF Accepts(opened, k) THEN Applied(opened.h, k) ELSE opened.h
    IN  [opened EXCEPT !.h = h,
                       !.ver = @ + IF Moves(r, opened, h, k) THEN 1 ELSE 0,
                       !.asv = IF k.op.op = "auth" /\ Accepts(opened, k) THEN k.ref.ver ELSE @,
                       !.gen = IF opened # r \/ h.fg # opened.h.fg THEN k.id ELSE @]

-----------------------------------------------------------------------------
(* The mirror. *)

\* Mutants of Mirrored: the version is not compared; an equal version is not
\* applied again.
MirroredAnyVersion(e, r) ==
    IF r.ep = 0
      THEN IF e.ep = 0 THEN e ELSE Entry(e.idg, e.ver)
      ELSE IF r.idg # e.idg
             THEN e
             ELSE [e EXCEPT !.ep = r.ep, !.sv = r.ver, !.h = r.h, !.local = FALSE]
MirroredNewer(e, r) ==
    IF r.ep = 0
      THEN IF e.ep = 0 THEN e ELSE Entry(e.idg, e.ver)
      ELSE IF r.idg # e.idg \/ (r.ep = e.ep /\ r.ver <= e.sv)
             THEN e
             ELSE [e EXCEPT !.ep = r.ep, !.sv = r.ver, !.h = r.h, !.local = FALSE]

\* ApplySharedHealth: the entry e after the record r is mirrored.
Mirrored(e, r) ==
    IF r.ep = 0
      THEN IF e.ep = 0 THEN e ELSE Entry(e.idg, e.ver)
      ELSE IF r.idg # e.idg \/ (r.ep = e.ep /\ r.ver < e.sv)
             THEN e
             ELSE [e EXCEPT !.ep = r.ep, !.sv = r.ver, !.h = r.h, !.local = FALSE]

\* preserveSharedHealth: the entry e after the row is loaded again.
Loaded(e) == IF e.idg = row.idg THEN [e EXCEPT !.ver = row.ver] ELSE Entry(row.idg, row.ver)

\* The matching mutation of the local registry, for an entry e that a store
\* failure leaves without the script.
FellBack(e, k) ==
    LET h == Applied(e.h, k)
        gated == CASE k.op.op = "cooldown" -> k.op.versioned => e.ver = k.ref.ver
                   [] k.op.op = "model_cooldown" -> e.h.mg = k.ref.mg
                   [] k.op.op = "clear_cooldown" -> e.h.cd = k.ref.cd
                   [] OTHER -> k.op.op \in {"fail", "clear_failure"}
        target == k.op.op = "clear_cooldown" \/ e.idg = k.idg
    IN  IF target /\ gated /\ h # e.h
          THEN [e EXCEPT !.h = h, !.local = TRUE]
          ELSE e

-----------------------------------------------------------------------------
(* A health decision. *)

\* History: the calls whose decision has been recorded, in Redis or locally.
Recorded == {c \in Calls : call[c].pc \in {"run", "done"}}

\* A call that is over; its script may still be on its way.
Over(c) == IF c \in flight
             THEN [call[c] EXCEPT !.pc = "done", !.reply = NoRecord]
             ELSE [pc |-> "done", on |-> call[c].on]

\* An attempt, a probe or an operator takes a reference to the credential.
\* Only a blacklisted credential is probed for recovery.
Capture(c, i, op) ==
    /\ call[c].pc = "new"
    /\ op.op = "recover" => mirror[i].h.bl
    /\ call' = [call EXCEPT ![c] =
                  [id |-> c, pc |-> "ref", on |-> i, op |-> op, idg |-> mirror[i].idg,
                   ref |-> [idg |-> mirror[i].idg, ver |-> mirror[i].ver, fg |-> mirror[i].h.fg,
                            mg |-> mirror[i].h.mg, cd |-> mirror[i].h.cd,
                            past |-> IF op.op = "recover" THEN Recorded ELSE {}],
                   reply |-> NoRecord]]
    /\ UNCHANGED <<row, record, mirror, events, reading, flight, epochs, faults, edit, edits>>

\* The checks against the local registry before the script is sent.
Current(k) ==
    LET e == mirror[k.on]
    IN  CASE k.op.op = "cooldown" -> e.idg = k.ref.idg /\ (k.op.versioned => e.ver = k.ref.ver)
          [] k.op.op \in {"fail", "model_cooldown"} -> e.idg = k.ref.idg
          [] k.op.op = "clear_failure" -> e.idg = k.ref.idg /\ e.h.fc > 0
          [] k.op.op = "recover" -> e.idg = k.ref.idg /\ e.ver = k.ref.ver
          [] k.op.op = "clear_cooldown" -> k.ref.cd # 0
          [] OTHER -> TRUE

\* The reference of a cleared refresh cooldown and of an authorization write
\* is read again when the script is sent.
SentIdentity(k) == IF k.op.op \in {"clear_cooldown", "auth"} THEN mirror[k.on].idg ELSE k.ref.idg

Send(c) ==
    /\ call[c].pc = "ref"
    /\ IF Current(call[c])
         THEN /\ call' = [call EXCEPT ![c].pc = "sent", ![c].idg = SentIdentity(call[c])]
              /\ flight' = flight \cup {c}
         ELSE /\ call' = [call EXCEPT ![c] = Over(c)]
              /\ UNCHANGED flight
    /\ UNCHANGED <<row, record, mirror, events, reading, epochs, faults, edit, edits>>

\* The script runs, also when its caller has given up.  The record it leaves
\* is returned, and published when its version moved.
Script(c) ==
    LET next == Scripted(record, call[c], epochs + 1)
    IN  /\ c \in flight
        /\ flight' = flight \ {c}
        /\ record' = next
        /\ epochs' = Later(epochs, next.ep)
        /\ events' = [i \in Instances |-> IF i # call[c].on /\ next.ver # record.ver
                                            THEN Append(events[i], next)
                                            ELSE events[i]]
        /\ call' = IF call[c].pc = "sent"
                     THEN [call EXCEPT ![c].pc = "run", ![c].reply = next]
                     ELSE [call EXCEPT ![c] = [pc |-> "done", on |-> @.on]]
        /\ UNCHANGED <<row, mirror, reading, faults, edit, edits>>

Reply(c) ==
    /\ call[c].pc = "run"
    /\ mirror' = [mirror EXCEPT ![call[c].on] = Mirrored(@, call[c].reply)]
    /\ call' = [call EXCEPT ![c] = Over(c)]
    /\ UNCHANGED <<row, record, events, reading, flight, epochs, faults, edit, edits>>

\* The call fails or times out, whether the script runs or not.
Unavailable(c) ==
    /\ call[c].pc \in {"sent", "run"}
    /\ faults < MaxFaults
    /\ faults' = faults + 1
    /\ mirror' = [mirror EXCEPT ![call[c].on] = FellBack(@, call[c])]
    /\ call' = [call EXCEPT ![c] = Over(c)]
    /\ UNCHANGED <<row, record, events, reading, flight, epochs, edit, edits>>

\* The script of a caller that gave up never reaches Redis.
ScriptLost(c) ==
    /\ c \in flight /\ call[c].pc = "done"
    /\ flight' = flight \ {c}
    /\ call' = [call EXCEPT ![c] = [pc |-> "done", on |-> @.on]]
    /\ UNCHANGED <<row, record, mirror, events, reading, epochs, faults, edit, edits>>

-----------------------------------------------------------------------------
(* Events and reconciliation. *)

Handle(i) ==
    /\ events[i] # <<>>
    /\ mirror' = [mirror EXCEPT ![i] = Mirrored(@, Head(events[i]))]
    /\ events' = [events EXCEPT ![i] = Tail(@)]
    /\ UNCHANGED <<row, record, reading, call, flight, epochs, faults, edit, edits>>

\* The subscription drops an event.
EventLost(i) ==
    /\ events[i] # <<>>
    /\ faults < MaxFaults
    /\ faults' = faults + 1
    /\ events' = [events EXCEPT ![i] = Tail(@)]
    /\ UNCHANGED <<row, record, mirror, reading, call, flight, epochs, edit, edits>>

\* Hydrate, in two steps: the record is read, and then mirrored.
HydrateReads(i) ==
    /\ reading[i] = NoRead
    /\ reading' = [reading EXCEPT ![i] = <<record>>]
    /\ UNCHANGED <<row, record, mirror, events, call, flight, epochs, faults, edit, edits>>

HydrateApplies(i) ==
    /\ reading[i] # NoRead
    /\ mirror' = [mirror EXCEPT ![i] = Mirrored(@, reading[i][1])]
    /\ reading' = [reading EXCEPT ![i] = NoRead]
    /\ UNCHANGED <<row, record, events, call, flight, epochs, faults, edit, edits>>

-----------------------------------------------------------------------------
(* An edit of the credential: its status or its weight.  The write lock and  *)
(* the stripe of the credential keep reloads out until it is over; replies,  *)
(* events and reads take the lock of the registry alone.                     *)

\* A snapshot of the entry is taken.  The edit has compared it with the row before,
\* which may have moved on since: that is loaded after the edit.
TakeEntry(i) ==
    /\ edit[i] = NoEdit
    /\ i \in Editors
    /\ edits < MaxEdits
    /\ edit' = [edit EXCEPT ![i] = [pc |-> "taken", entry |-> mirror[i]]]
    /\ edits' = edits + 1
    /\ UNCHANGED <<row, record, mirror, events, reading, call, flight, epochs, faults>>

\* Restore: the snapshot, with its epoch, its version and its health, replaces
\* the entry.  A disable that the database then refuses restores it again.
RestoreEntry(i) ==
    /\ edit[i] # NoEdit
    /\ mirror' = [mirror EXCEPT ![i] = edit[i].entry]
    /\ edit' = [edit EXCEPT ![i] = IF @.pc = "taken"
                                      THEN [pc |-> "restored", entry |-> @.entry]
                                      ELSE NoEdit]
    /\ UNCHANGED <<row, record, events, reading, call, flight, epochs, faults, edits>>

\* The edit is over, or an enable that the database refuses ends before its
\* Restore.
EndEdit(i) ==
    /\ edit[i] # NoEdit
    /\ edit' = [edit EXCEPT ![i] = NoEdit]
    /\ UNCHANGED <<row, record, mirror, events, reading, call, flight, epochs, faults, edits>>

-----------------------------------------------------------------------------
(* The environment. *)

\* An operator moves the credential to another target.
ChangeTarget ==
    /\ row.idg < MaxIdentity
    /\ row' = [row EXCEPT !.idg = @ + 1]
    /\ UNCHANGED <<record, mirror, events, reading, call, flight, epochs, faults, edit, edits>>

\* A refresh commits another secret.
Rotate ==
    /\ row.ver < MaxSecret
    /\ row' = [row EXCEPT !.ver = @ + 1]
    /\ UNCHANGED <<record, mirror, events, reading, call, flight, epochs, faults, edit, edits>>

Reload(i) ==
    /\ edit[i] = NoEdit
    /\ mirror[i].idg # row.idg \/ mirror[i].ver # row.ver
    /\ mirror' = [mirror EXCEPT ![i] = Loaded(@)]
    /\ UNCHANGED <<row, record, events, reading, call, flight, epochs, faults, edit, edits>>

\* The process dies and starts again, without its mirror, events, edit
\* and calls.
Restart(i) ==
    /\ faults < MaxFaults
    /\ faults' = faults + 1
    /\ mirror' = [mirror EXCEPT ![i] = Entry(row.idg, row.ver)]
    /\ events' = [events EXCEPT ![i] = <<>>]
    /\ reading' = [reading EXCEPT ![i] = NoRead]
    /\ edit' = [edit EXCEPT ![i] = NoEdit]
    /\ call' = [c \in Calls |-> IF call[c].pc # "new" /\ call[c].on = i
                                  THEN Over(c)
                                  ELSE call[c]]
    /\ UNCHANGED <<row, record, flight, epochs, edits>>

\* The record expires or Redis loses it.
LoseRecord ==
    /\ record.ep # 0
    /\ faults < MaxFaults
    /\ faults' = faults + 1
    /\ record' = NoRecord
    /\ UNCHANGED <<row, mirror, events, reading, call, flight, epochs, edit, edits>>

-----------------------------------------------------------------------------

CallStep(c) ==
    \/ \E i \in Instances, op \in Ops[c] : Capture(c, i, op)
    \/ Send(c) \/ Script(c) \/ Reply(c) \/ Unavailable(c) \/ ScriptLost(c)

MirrorStep(i) == Handle(i) \/ EventLost(i) \/ HydrateReads(i) \/ HydrateApplies(i)

EditStep(i) == TakeEntry(i) \/ RestoreEntry(i) \/ EndEdit(i)

Next ==
    \/ \E c \in Calls : CallStep(c)
    \/ \E i \in Instances : MirrorStep(i) \/ EditStep(i) \/ Reload(i) \/ Restart(i)
    \/ ChangeTarget \/ Rotate \/ LoseRecord

Spec == Init /\ [][Next]_vars

\* Every instance reconciles on its interval.  Nothing is assumed of calls,
\* events, edits and reloads.
Fairness == \A i \in Instances : WF_vars(HydrateReads(i) \/ HydrateApplies(i))

FairSpec == Spec /\ Fairness

-----------------------------------------------------------------------------
(* Properties. *)

\* The ranges of the variables: no epoch is used before it is drawn, no
\* mirror is ahead of the database, and none is ahead of the record.
TypeOK ==
    /\ row.idg \in 1..MaxIdentity /\ row.ver \in 1..MaxSecret
    /\ record.ep \in 0..epochs
    /\ \A i \in Instances : /\ mirror[i].ep \in 0..epochs
                            /\ mirror[i].idg \in 1..row.idg
                            /\ mirror[i].ver \in 1..row.ver
                            /\ record.ep # 0 /\ mirror[i].ep = record.ep =>
                                   mirror[i].sv \in 1..record.ver
    /\ flight \subseteq Calls
    /\ faults \in 0..MaxFaults /\ edits \in 0..MaxEdits

Copies ==
    {record} \cup {call[c].reply : c \in {d \in Calls : call[d].pc = "run"}}
             \cup (UNION {{events[i][n] : n \in 1..Len(events[i])} : i \in Instances})
             \cup {reading[i][1] : i \in {j \in Instances : reading[j] # NoRead}}

\* "the store bumps the version on every change, so it carries the same
\* content" (shared_health.go:83-84): any two copies of the record with the same
\* epoch and version, stored, read, returned or published, are equal, and a
\* mirror that no local fallback has touched, one put back by an edit
\* included, is such a copy.
VersionDeterminesContent ==
    /\ \A a, b \in Copies : a.ep # 0 /\ a.ep = b.ep /\ a.ver = b.ver => a = b
    /\ \A i \in Instances, a \in Copies :
           mirror[i].ep # 0 /\ ~mirror[i].local
           /\ a.ep = mirror[i].ep /\ a.ver = mirror[i].sv
           => a.h = mirror[i].h /\ a.idg = mirror[i].idg

\* "within one epoch an older version never applies, so reordered deliveries
\* converge" (shared_health.go:82-83): in whatever order replies, events and
\* reads arrive, and whatever falls back or reloads in between, a mirror goes
\* back within an epoch of the record only to the snapshot of an edit that is
\* under way at its instance.
MirrorsDoNotGoBack ==
    [][\A i \in Instances :
          /\ mirror[i].ep # 0 /\ mirror'[i].ep = mirror[i].ep
          /\ mirror'[i].sv < mirror[i].sv
          => edit[i] # NoEdit /\ mirror'[i] = edit[i].entry]_vars

\* "A tested credential is recovered only while its blacklist, failure
\* generation, and cooldown are still the tested ones"
\* (credential_mutations.go:455-456): a recovery never lifts the blacklist of a
\* failure that was recorded after its probe took the reference it tested.
RecoveriesAreOfTheTested ==
    [][\A c \in Calls :
          c \in flight \ flight' /\ call[c].op.op = "recover" /\ record.h.bl /\ ~record'.h.bl
          => record.gen \in call[c].ref.past]_vars

\* Reconciliation repairs whatever events and replies missed: in the end
\* every mirror of the identity the record has is the record, and no mirror
\* keeps what Redis has lost or what an edit has put back.
MirrorsConverge ==
    \A i \in Instances :
        <>[](/\ record.ep # 0 /\ record.idg = mirror[i].idg =>
                    /\ mirror[i].ep = record.ep /\ mirror[i].sv = record.ver
                    /\ mirror[i].h = record.h
             /\ record.ep = 0 => mirror[i].ep = 0)

=============================================================================
