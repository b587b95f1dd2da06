---------------------------- MODULE AccessQuota ----------------------------
(***************************************************************************)
(* The cost limits of one access key, shared by every gateway instance.    *)
(*                                                                         *)
(* Usage is counted in Redis by three atomic scripts; the database holds a *)
(* checkpoint of each rule, from which a missing Redis hash is rebuilt.    *)
(* Each instance remembers the rules it changed (its dirty marks) and the  *)
(* worker of its request log copies the marked rules back to the database. *)
(*                                                                         *)
(* Sources: internal/cluster/access_quota.go, access_quota_scripts.go,     *)
(* internal/accessquota/runtime.go, internal/requestlog/worker.go,         *)
(* access_quota_checkpoint.go, internal/control/access_key_cost_limits.go, *)
(* internal/gateway/handler.go, access_quota_gate.go.                      *)
(***************************************************************************)
EXTENDS Integers, FiniteSets, FiniteSetsExt

CONSTANTS
    Instances,      \* gateway processes
    Requests,       \* client requests; each one is made once
    Rules,          \* cost-limit rules of the access key
    PeriodicRules,  \* those of kind "periodic"; the others are of kind "total"
    Period,         \* length of a periodic window
    Limits,         \* limits an operator may give a rule
    Deletable,      \* rules an operator may delete
    Modes,          \* calls a request may make: "check" and "admit"
    Costs,          \* settled costs; a negative one is a faulty estimate
    MaxUsed,        \* saturation point of a counter (MaxInt64)
    Skew,           \* how far each instance's clock is ahead
    MaxClock,       \* bound: last value of the clock
    MaxRevision,    \* bound: last revision of a rule
    MaxFaults       \* bound: crashes, broken connections and losses of a Redis key

ASSUME RulesAssumption == PeriodicRules \subseteq Rules /\ Deletable \subseteq Rules
ASSUME ModesAssumption == Modes \subseteq {"check", "admit"}
ASSUME AmountsAssumption == /\ Period \in Nat \ {0}
                            /\ Limits \subseteq Nat \ {0} /\ Limits # {}
                            /\ Costs \subseteq Int
                            /\ MaxUsed \in Nat \ {0}
ASSUME ClockAssumption == Skew \in [Instances -> Nat] /\ MaxClock \in Nat
ASSUME BoundsAssumption == MaxRevision \in Nat \ {0} /\ MaxFaults \in Nat

VARIABLES
    clock,   \* time, in units of which the epoch is 0
    redis,   \* the hash of each rule in Redis
    db,      \* the checkpoint row of each rule
    rule,    \* the definition row of each rule
    cfg,     \* the definitions each instance has loaded
    dirty,   \* the dirty mark of each rule at each instance
    wake,    \* quotaWake: a checkpoint pass is requested at the instance
    worker,  \* the checkpoint pass of each instance
    req,     \* the requests
    faults,  \* number of faults so far
    orphan,  \* history: the last change of the rule lost its mark to a fault
    forked   \* history: Redis lost a state of the rule that nobody had saved

vars == <<clock, redis, db, rule, cfg, dirty, wake, worker, req, faults, orphan, forked>>
env == <<clock, rule, cfg>>
history == <<faults, orphan, forked>>

-----------------------------------------------------------------------------
(* Rule states.  Revisions, versions and times are positive, so an absent  *)
(* hash, row or mark is the one at revision 0, and an absent window (ws    *)
(* and we empty) is the one from 0 to 0.                                    *)

State == [rev : Nat, used : Nat, ws : Nat, we : Nat, gen : Nat, ver : Nat]
Absent == [rev |-> 0, used |-> 0, ws |-> 0, we |-> 0, gen |-> 0, ver |-> 0]

Mark == [rev : Nat, ver : Nat]
Clean == [rev |-> 0, ver |-> 0]

Definition == [rev : Nat, limit : Nat]
NoRule == [rev |-> 0, limit |-> 0]

Ticket == [rev : Nat, gen : Nat]
NoTicket == [rev |-> 0, gen |-> 0]

MarkOf(s) == [rev |-> s.rev, ver |-> s.ver]

\* A checkpoint s includes the change that mark m recorded.
CoveredBy(m, s) == s.rev > m.rev \/ (s.rev = m.rev /\ s.ver >= m.ver)

\* The row written when a rule is created, reset or given another period.
FreshState(rev) == [Absent EXCEPT !.rev = rev, !.ver = 1]

\* Mutant: a window is over as soon as it has started.
InactiveFromStart(r, s, now) == r \in PeriodicRules /\ (s.ws = 0 \/ s.we = 0 \/ now >= s.ws)

\* A periodic rule without a window, or whose window is over at time now.
Inactive(r, s, now) == r \in PeriodicRules /\ (s.ws = 0 \/ s.we = 0 \/ now >= s.we)

\* Mutant: the window keeps its generation.
OpenSameGeneration(s, now) == [s EXCEPT !.used = 0, !.ws = now, !.we = now + Period,
                                        !.ver = @ + 1]

\* The state with a window opened at time now.
Open(s, now) == [s EXCEPT !.used = 0, !.ws = now, !.we = now + Period,
                          !.gen = @ + 1, !.ver = @ + 1]

\* Mutant: a negative estimate is added like any other.
ChargeNegative(used, cost) == IF used > MaxUsed - cost THEN MaxUsed ELSE used + cost

\* Mutant: the sum is not saturated.
ChargeUnsaturated(used, cost) == IF cost < 0 THEN MaxUsed ELSE used + cost

\* The usage after a cost is added: it saturates at MaxUsed, at once if the
\* estimate is negative.  The headroom test is used > MaxUsed - cost.
Charge(used, cost) ==
    IF cost < 0 \/ used > MaxUsed - cost THEN MaxUsed ELSE used + cost

\* The state after a settlement; a saturated one does not change.
Settled(s, cost) ==
    IF Charge(s.used, cost) = s.used
    THEN s
    ELSE [s EXCEPT !.used = Charge(s.used, cost), !.ver = @ + 1]

\* What ValidateRestoredState accepts of a checkpoint of rule r.
Restorable(r, s) ==
    /\ s.rev > 0 /\ s.ver > 0 /\ (s.ws = 0 <=> s.we = 0)
    /\ IF r \notin PeriodicRules THEN s.ws = 0 /\ s.gen = 0
       ELSE IF s.ws = 0 THEN s.used = 0 /\ s.gen = 0
       ELSE s.gen > 0 /\ s.we - s.ws = Period

-----------------------------------------------------------------------------
(* Requests and checkpoint passes.                                         *)

\* The rules of the configuration a request was authorized against.
RulesOf(q) == {r \in Rules : req[q].rules[r].rev > 0}

NewRequest(i) ==
    [pc |-> "new", mode |-> "admit", inst |-> i, now |-> 0,
     rules |-> [r \in Rules |-> NoRule], hydrated |-> FALSE,
     missing |-> {}, read |-> [r \in Rules |-> Absent],
     ticket |-> [r \in Rules |-> NoTicket],
     marks |-> [r \in Rules |-> Clean], cost |-> 0, settled |-> 0]

\* A finished request keeps its ticket and cost once they are settled; settled
\* is the number of times the settlement script was run for it.
Ended(e, pc) ==
    [NewRequest(e.inst) EXCEPT !.pc = pc, !.mode = e.mode, !.settled = e.settled,
         !.ticket = IF e.settled > 0 THEN e.ticket ELSE @,
         !.cost = IF e.settled > 0 THEN e.cost ELSE @]

IdlePass == [pc |-> "idle", cand |-> [r \in Rules |-> Clean],
             snap |-> [r \in Rules |-> Absent]]

HasDirty(i) == \E r \in Rules : dirty[i][r] # Clean

Over == {"new", "done", "failed"}

Init ==
    /\ clock = 1
    /\ redis = [r \in Rules |-> Absent]
    /\ \E limit \in [Rules -> Limits] :
          rule = [r \in Rules |-> [rev |-> 1, limit |-> limit[r]]]
    /\ db = [r \in Rules |-> FreshState(1)]
    /\ cfg = [i \in Instances |-> rule]
    /\ dirty = [i \in Instances |-> [r \in Rules |-> Clean]]
    /\ wake = [i \in Instances |-> FALSE]
    /\ worker = [i \in Instances |-> IdlePass]
    /\ req \in [Requests -> {NewRequest(i) : i \in Instances}]
    /\ faults = 0
    /\ orphan = [r \in Rules |-> FALSE]
    /\ forked = [r \in Rules |-> FALSE]

-----------------------------------------------------------------------------
(* A request: Check or Admit, then Complete.                               *)

\* Check, Admit: a key without rules is allowed at once and leaves no ticket.
Begin(q, mode) ==
    LET i == req[q].inst IN
    /\ req[q].pc = "new"
    /\ req' = [req EXCEPT ![q] =
                  IF \E r \in Rules : cfg[i][r].rev > 0
                  THEN [@ EXCEPT !.pc = "evaluate", !.mode = mode,
                                 !.now = clock + Skew[i], !.rules = cfg[i]]
                  ELSE Ended(@, "done")]
    /\ UNCHANGED <<env, redis, db, dirty, wake, worker, history>>

Stale(q) == \E r \in RulesOf(q) : redis[r].rev > req[q].rules[r].rev
Missing(q) == {r \in RulesOf(q) : redis[r].rev < req[q].rules[r].rev}

\* The script answers STALE, or NEED_INIT for a second time: the call fails.
EvaluateFails(q) ==
    /\ req[q].pc = "evaluate"
    /\ Stale(q) \/ (Missing(q) # {} /\ req[q].hydrated)
    /\ req' = [req EXCEPT ![q] = Ended(@, "failed")]
    /\ UNCHANGED <<env, redis, db, dirty, wake, worker, history>>

\* The script answers NEED_INIT with the missing or older rules.
EvaluateNeedsInit(q) ==
    /\ req[q].pc = "evaluate"
    /\ ~Stale(q) /\ Missing(q) # {} /\ ~req[q].hydrated
    /\ req' = [req EXCEPT ![q].pc = "hydrate", ![q].missing = Missing(q)]
    /\ UNCHANGED <<env, redis, db, dirty, wake, worker, history>>

Blocks(q, r) == /\ ~Inactive(r, redis[r], req[q].now)
                /\ redis[r].used >= req[q].rules[r].limit

Allowed(q) == \A r \in RulesOf(q) : ~Blocks(q, r)

\* The script answers OK for a check, or for an admission that is refused.
EvaluateRefusesOrChecks(q) ==
    /\ req[q].pc = "evaluate"
    /\ ~Stale(q) /\ Missing(q) = {}
    /\ req[q].mode = "check" \/ ~Allowed(q)
    /\ req' = [req EXCEPT ![q] = Ended(@, "done")]
    /\ UNCHANGED <<env, redis, db, dirty, wake, worker, history>>

Opened(q) == {r \in RulesOf(q) : Inactive(r, redis[r], req[q].now)}

\* The script admits the request and opens the windows that are over.  The
\* marks of the opened rules are made when the reply arrives.
EvaluateAdmits(q) ==
    /\ req[q].pc = "evaluate" /\ req[q].mode = "admit"
    /\ ~Stale(q) /\ Missing(q) = {} /\ Allowed(q)
    /\ redis' = [r \in Rules |-> IF r \in Opened(q) THEN Open(redis[r], req[q].now)
                                 ELSE redis[r]]
    /\ req' = [req EXCEPT
          ![q].pc = IF Opened(q) = {} THEN "admitted" ELSE "admitting",
          ![q].now = IF Opened(q) = {} THEN 0 ELSE @,
          ![q].ticket = [r \in Rules |-> IF r \in RulesOf(q)
                            THEN [rev |-> req[q].rules[r].rev, gen |-> redis'[r].gen]
                            ELSE NoTicket],
          ![q].marks = [r \in Rules |-> IF r \in Opened(q)
                            THEN MarkOf(redis'[r]) ELSE Clean]]
    /\ orphan' = [r \in Rules |-> orphan[r] /\ r \notin Opened(q)]
    /\ UNCHANGED <<env, db, dirty, wake, worker, faults, forked>>

\* hydrate: the checkpoints of the missing rules are read from the database.
HydrateReads(q) ==
    /\ req[q].pc = "hydrate"
    /\ \A r \in req[q].missing : /\ db[r].rev = req[q].rules[r].rev
                                 /\ Restorable(r, db[r])
    /\ req' = [req EXCEPT ![q].pc = "init", ![q].read = db]
    /\ UNCHANGED <<env, redis, db, dirty, wake, worker, history>>

\* hydrate: a checkpoint is gone, of another revision, or not a legal state.
HydrateFails(q) ==
    /\ req[q].pc = "hydrate"
    /\ \E r \in req[q].missing : db[r].rev # req[q].rules[r].rev \/ ~Restorable(r, db[r])
    /\ req' = [req EXCEPT ![q] = Ended(@, "failed")]
    /\ UNCHANGED <<env, redis, db, dirty, wake, worker, history>>

\* Mutant: a hash at the same revision is overwritten.
HydratedOver(hash, read) == IF hash.rev <= read.rev THEN read ELSE hash

\* A hash at the same or a newer revision is kept.
Hydrated(hash, read) == IF hash.rev < read.rev THEN read ELSE hash

\* initScript, for the rules the first evaluation reported.
InitScript(q) ==
    /\ req[q].pc = "init"
    /\ redis' = [r \in Rules |-> IF r \in req[q].missing
                                 THEN Hydrated(redis[r], req[q].read[r]) ELSE redis[r]]
    /\ req' = [req EXCEPT ![q].pc = "evaluate", ![q].hydrated = TRUE,
                          ![q].missing = {}, ![q].read = [r \in Rules |-> Absent]]
    /\ orphan' = [r \in Rules |-> orphan[r] /\ redis'[r] = redis[r]]
    /\ UNCHANGED <<env, db, dirty, wake, worker, faults, forked>>

\* Mutant: the window generation of the ticket is not compared.
MatchedAnyWindow(q) == {r \in RulesOf(q) : redis[r].rev = req[q].ticket[r].rev}

\* The rules the settlement of q still matches, and those it changes.
Matched(q) == {r \in RulesOf(q) : /\ redis[r].rev = req[q].ticket[r].rev
                                  /\ redis[r].gen = req[q].ticket[r].gen}
Changed(q, cost) == {r \in Matched(q) : Settled(redis[r], cost) # redis[r]}

\* A run of the settle script with a cost counts as one settlement of it.
Completed(e, cost) ==
    [e EXCEPT !.cost = cost, !.settled = IF cost = 0 THEN @ ELSE @ + 1]

\* Complete: the script charges the cost to every ticket rule that is still
\* at its revision and window; a cost of zero is not sent.  Nothing in the
\* script tells a settlement that is sent again from a new one.
Complete(q, cost) ==
    /\ req[q].pc = "admitted"
    /\ req[q].settled > 0 => cost = req[q].cost
    /\ redis' = [r \in Rules |-> IF cost # 0 /\ r \in Matched(q)
                                 THEN Settled(redis[r], cost) ELSE redis[r]]
    /\ req' = [req EXCEPT ![q] =
          IF cost = 0 \/ Changed(q, cost) = {} THEN Ended(Completed(@, cost), "done")
          ELSE [Completed(@, cost) EXCEPT !.pc = "settling",
                    !.marks = [r \in Rules |-> IF r \in Changed(q, cost)
                                               THEN MarkOf(redis'[r]) ELSE Clean]]]
    /\ orphan' = [r \in Rules |-> orphan[r] /\ (cost = 0 \/ r \notin Changed(q, cost))]
    /\ UNCHANGED <<env, db, dirty, wake, worker, faults, forked>>

\* A call that could not reach Redis or the database fails the request; for
\* Complete, only the accounting of this request is lost.
CallFails(q) ==
    /\ req[q].pc \in {"evaluate", "hydrate", "init", "admitted"}
    /\ req' = [req EXCEPT ![q] = Ended(@, "failed")]
    /\ UNCHANGED <<env, redis, db, dirty, wake, worker, history>>

\* markDirty keeps the newest change.
Marked(old, new) ==
    IF new = Clean \/ (old # Clean /\ CoveredBy(new, old)) THEN old ELSE new

\* The reply of a script that changed a rule arrives: markDirty, notifyDirty.
ReplyArrives(q) ==
    LET i == req[q].inst IN
    /\ req[q].pc \in {"admitting", "settling"}
    /\ dirty' = [dirty EXCEPT ![i] = [r \in Rules |-> Marked(dirty[i][r], req[q].marks[r])]]
    /\ wake' = [wake EXCEPT ![i] = TRUE]
    /\ req' = [req EXCEPT ![q] =
                  IF @.pc = "settling" THEN Ended(@, "done")
                  ELSE [@ EXCEPT !.pc = "admitted", !.now = 0,
                                 !.marks = [r \in Rules |-> Clean]]]
    /\ UNCHANGED <<env, redis, db, worker, history>>

\* Mark m records the last change of rule r.
Latest(m, r) == m # Clean /\ m = MarkOf(redis[r])

\* The reply is lost after the script ran: the caller sees a failure and
\* makes no mark.
ReplyLost(q) ==
    /\ req[q].pc \in {"admitting", "settling"} /\ faults < MaxFaults
    /\ req' = [req EXCEPT ![q] = Ended(@, "failed")]
    /\ faults' = faults + 1
    /\ orphan' = [r \in Rules |-> orphan[r] \/ Latest(req[q].marks[r], r)]
    /\ UNCHANGED <<env, redis, db, dirty, wake, worker, forked>>

\* The connection breaks after the script ran, and the client sends the script
\* again within the deadline of the call.
Resend(q) ==
    /\ req[q].pc \in {"admitting", "settling"} /\ faults < MaxFaults
    /\ req' = [req EXCEPT ![q] =
                  IF @.pc = "settling"
                  THEN [@ EXCEPT !.pc = "admitted", !.marks = [r \in Rules |-> Clean]]
                  ELSE [@ EXCEPT !.pc = "evaluate", !.marks = [r \in Rules |-> Clean],
                                 !.ticket = [r \in Rules |-> NoTicket]]]
    /\ faults' = faults + 1
    /\ orphan' = [r \in Rules |-> orphan[r] \/ Latest(req[q].marks[r], r)]
    /\ UNCHANGED <<env, redis, db, dirty, wake, worker, forked>>

-----------------------------------------------------------------------------
(* The checkpoint pass of the request log worker.                          *)

\* A pass starts because of a wake-up, which it consumes, or for a batch of
\* log events.  DirtySnapshots copies the marks under the lock.
StartPass(i, woken) ==
    /\ worker[i].pc = "idle"
    /\ woken => wake[i]
    /\ wake' = [wake EXCEPT ![i] = @ /\ ~woken]
    /\ worker' = [worker EXCEPT ![i].pc = IF HasDirty(i) THEN "read" ELSE "idle",
                                ![i].cand = dirty[i]]
    /\ UNCHANGED <<env, redis, db, dirty, req, history>>

\* DirtySnapshots reads the marked rules from Redis without the lock.
ReadDirty(i) ==
    /\ worker[i].pc = "read"
    /\ worker' = [worker EXCEPT ![i].pc = "filter",
                     ![i].snap = [r \in Rules |-> IF worker[i].cand[r] = Clean THEN Absent
                                                  ELSE redis[r]]]
    /\ UNCHANGED <<env, redis, db, dirty, wake, req, history>>

\* Rules that vanished or regressed lose their mark if it is still the one
\* observed; the others are returned.  A pass with nothing to write is over.
FilterDirty(i) ==
    LET cand == worker[i].cand
        snap == worker[i].snap
        kept == {r \in Rules : cand[r] # Clean /\ CoveredBy(cand[r], snap[r])}
        left == [r \in Rules |-> IF r \notin kept /\ dirty[i][r] = cand[r] THEN Clean
                                 ELSE dirty[i][r]]
    IN
    /\ worker[i].pc = "filter"
    /\ dirty' = [dirty EXCEPT ![i] = left]
    /\ worker' = [worker EXCEPT ![i] =
                     IF kept = {} THEN IdlePass
                     ELSE [pc |-> "write", cand |-> IdlePass.cand,
                           snap |-> [r \in Rules |-> IF r \in kept THEN snap[r] ELSE Absent]]]
    /\ wake' = [wake EXCEPT ![i] = @ \/ (kept = {} /\ \E r \in Rules : left[r] # Clean)]
    /\ UNCHANGED <<env, redis, db, req, history>>

\* The row is replaced only at the same revision and by a newer version.
Persisted(row, snap) == IF row.rev = snap.rev /\ row.ver < snap.ver THEN snap ELSE row

\* WriteSnapshots: one transaction for the whole pass.
WriteSnapshots(i) ==
    /\ worker[i].pc = "write"
    /\ db' = [r \in Rules |-> Persisted(db[r], worker[i].snap[r])]
    /\ worker' = [worker EXCEPT ![i].pc = "ack"]
    /\ UNCHANGED <<env, redis, dirty, wake, req, history>>

\* Mutant: a later change of the rule is forgotten too.
AckedAlways(mark, snap) == IF snap # Absent THEN Clean ELSE mark

\* Ack: a later local change keeps the rule dirty.
Acked(mark, snap) == IF CoveredBy(mark, snap) THEN Clean ELSE mark

\* Ack forgets the marks the written checkpoints include; marks that are left
\* request another pass.
AckSnapshots(i) ==
    LET left == [r \in Rules |-> Acked(dirty[i][r], worker[i].snap[r])] IN
    /\ worker[i].pc = "ack"
    /\ dirty' = [dirty EXCEPT ![i] = left]
    /\ worker' = [worker EXCEPT ![i] = IdlePass]
    /\ wake' = [wake EXCEPT ![i] = @ \/ \E r \in Rules : left[r] # Clean]
    /\ UNCHANGED <<env, redis, db, req, history>>

\* Mutant: the failed pass does not request another.
PassFailsSilently(i) ==
    /\ worker[i].pc \in {"read", "write"}
    /\ worker' = [worker EXCEPT ![i] = IdlePass]
    /\ UNCHANGED <<env, redis, db, dirty, wake, req, history>>

\* Redis or the database refuses the pass: the marks stay and it is retried.
PassFails(i) ==
    /\ worker[i].pc \in {"read", "write"}
    /\ worker' = [worker EXCEPT ![i] = IdlePass]
    /\ wake' = [wake EXCEPT ![i] = TRUE]
    /\ UNCHANGED <<env, redis, db, dirty, req, history>>

-----------------------------------------------------------------------------
(* Operators, configuration, time and faults.                              *)

\* A reset, or an edit that changes the period: the rule and its checkpoint
\* move to the next revision in one transaction.
ReviseRule(r, limit) ==
    /\ rule[r].rev \in 1..(MaxRevision - 1)
    /\ rule' = [rule EXCEPT ![r] = [rev |-> @.rev + 1, limit |-> limit]]
    /\ db' = [db EXCEPT ![r] = FreshState(rule[r].rev + 1)]
    /\ UNCHANGED <<clock, redis, cfg, dirty, wake, worker, req, history>>

\* An edit of the limit alone keeps the revision and the usage.
EditLimit(r, limit) ==
    /\ rule[r].rev > 0 /\ limit # rule[r].limit
    /\ rule' = [rule EXCEPT ![r].limit = limit]
    /\ UNCHANGED <<clock, redis, db, cfg, dirty, wake, worker, req, history>>

\* The checkpoint is deleted with its rule.
DeleteRule(r) ==
    /\ rule[r].rev > 0 /\ r \in Deletable
    /\ rule' = [rule EXCEPT ![r] = NoRule]
    /\ db' = [db EXCEPT ![r] = Absent]
    /\ UNCHANGED <<clock, redis, cfg, dirty, wake, worker, req, history>>

\* An instance publishes the current configuration.
Reload(i) ==
    /\ cfg[i] # rule
    /\ cfg' = [cfg EXCEPT ![i] = rule]
    /\ UNCHANGED <<clock, rule, redis, db, dirty, wake, worker, req, history>>

Tick ==
    /\ clock < MaxClock
    /\ clock' = clock + 1
    /\ UNCHANGED <<rule, cfg, redis, db, dirty, wake, worker, req, history>>

\* A crash loses the marks and the requests of the instance; it restarts with
\* the current configuration.
Crash(i) ==
    LET dead == {q \in Requests : req[q].inst = i /\ req[q].pc \notin Over} IN
    /\ faults < MaxFaults
    /\ faults' = faults + 1
    /\ dirty' = [dirty EXCEPT ![i] = [r \in Rules |-> Clean]]
    /\ wake' = [wake EXCEPT ![i] = FALSE]
    /\ worker' = [worker EXCEPT ![i] = IdlePass]
    /\ cfg' = [cfg EXCEPT ![i] = rule]
    /\ req' = [q \in Requests |->
                  IF q \in dead THEN Ended(req[q], "failed") ELSE req[q]]
    /\ orphan' = [r \in Rules |-> \/ orphan[r]
                                  \/ Latest(dirty[i][r], r)
                                  \/ \E q \in dead : Latest(req[q].marks[r], r)]
    /\ UNCHANGED <<clock, rule, redis, db, forked>>

\* Redis loses the hash of a rule (an eviction, or a failover to an empty node).
LoseKey(r) ==
    /\ redis[r] # Absent /\ faults < MaxFaults
    /\ redis' = [redis EXCEPT ![r] = Absent]
    /\ faults' = faults + 1
    /\ forked' = [forked EXCEPT ![r] = TRUE]
    /\ UNCHANGED <<env, db, dirty, wake, worker, req, orphan>>

\* No request or pass is under way on rule r, and no instance has it marked.
Quiet(r) ==
    /\ \A q \in Requests : req[q].pc \in Over \/ r \notin RulesOf(q)
    /\ \A i \in Instances : /\ dirty[i][r] = Clean
                            /\ worker[i].cand[r] = Clean /\ worker[i].snap[r] = Absent

\* The database lacks the state of rule r that Redis holds.
Behind(r) == db[r].rev = redis[r].rev /\ db[r].ver < redis[r].ver

\* The sliding TTL of seven days runs out.  It is far longer than a request
\* or the retries of a checkpoint take, so nothing is under way.
ExpireKey(r) ==
    /\ redis[r] # Absent /\ Quiet(r)
    /\ redis' = [redis EXCEPT ![r] = Absent]
    /\ forked' = [forked EXCEPT ![r] = @ \/ Behind(r)]
    /\ UNCHANGED <<env, db, dirty, wake, worker, req, faults, orphan>>

RequestStep(q) ==
    \/ \E mode \in Modes : Begin(q, mode)
    \/ EvaluateFails(q) \/ EvaluateNeedsInit(q)
    \/ EvaluateRefusesOrChecks(q) \/ EvaluateAdmits(q)
    \/ HydrateReads(q) \/ HydrateFails(q) \/ InitScript(q)
    \/ \E cost \in Costs : Complete(q, cost)
    \/ CallFails(q) \/ ReplyArrives(q) \/ ReplyLost(q) \/ Resend(q)

WorkerStep(i) ==
    \/ \E woken \in BOOLEAN : StartPass(i, woken)
    \/ ReadDirty(i) \/ FilterDirty(i) \/ WriteSnapshots(i) \/ AckSnapshots(i)
    \/ PassFails(i)

OperatorStep(r) ==
    \/ \E limit \in Limits : ReviseRule(r, limit) \/ EditLimit(r, limit)
    \/ DeleteRule(r)

Next ==
    \/ \E q \in Requests : RequestStep(q)
    \/ \E i \in Instances : WorkerStep(i) \/ Reload(i) \/ Crash(i)
    \/ \E r \in Rules : OperatorStep(r) \/ LoseKey(r) \/ ExpireKey(r)
    \/ Tick

Spec == Init /\ [][Next]_vars

\* A reply arrives unless it is lost, a wake-up starts a pass, and Redis and
\* the database answer again after any outage.
Fairness ==
    /\ \A q \in Requests : WF_vars(ReplyArrives(q))
    /\ \A i \in Instances :
          /\ WF_vars(StartPass(i, TRUE))
          /\ SF_vars(ReadDirty(i)) /\ WF_vars(FilterDirty(i))
          /\ SF_vars(WriteSnapshots(i)) /\ WF_vars(AckSnapshots(i))

FairSpec == Spec /\ Fairness

-----------------------------------------------------------------------------
(* Properties.                                                             *)

Pass == [pc : {"idle", "read", "filter", "write", "ack"},
         cand : [Rules -> Mark], snap : [Rules -> State]]

Request == [pc : Over \cup {"evaluate", "hydrate", "init", "admitting", "admitted", "settling"},
            mode : {"check", "admit"}, inst : Instances, now : Nat,
            rules : [Rules -> Definition], hydrated : BOOLEAN, missing : SUBSET Rules,
            read : [Rules -> State], ticket : [Rules -> Ticket], marks : [Rules -> Mark],
            cost : Int, settled : Nat]

\* The type of every variable: in particular no version, generation, usage or
\* window bound of a rule ever becomes negative.
TypeOK ==
    /\ clock \in Nat /\ faults \in Nat
    /\ redis \in [Rules -> State] /\ db \in [Rules -> State]
    /\ rule \in [Rules -> Definition]
    /\ cfg \in [Instances -> [Rules -> Definition]]
    /\ dirty \in [Instances -> [Rules -> Mark]]
    /\ wake \in [Instances -> BOOLEAN]
    /\ worker \in [Instances -> Pass]
    /\ req \in [Requests -> Request]
    /\ orphan \in [Rules -> BOOLEAN] /\ forked \in [Rules -> BOOLEAN]

Tracked(r) ==
    Behind(r) /\ redis[r].rev > 0 /\ ~orphan[r] /\ ~forked[r] =>
        \/ \E i \in Instances : Latest(dirty[i][r], r)
        \/ \E q \in Requests : Latest(req[q].marks[r], r)

\* While Redis holds a change the database lacks, some instance is marked for
\* it or is about to be: the change reaches a checkpoint unless a crash or a
\* lost reply took the mark of the last change (DirtySnapshots, Ack, markDirty).
\* The script that is sent again after a lost reply finds the window open, and
\* does not report the change either.
ChangesAreTracked == \A r \in Rules : Tracked(r)

IsSnapshot(r) ==
    redis[r].rev > 0 /\ db[r].rev > 0 /\ ~forked[r] =>
        /\ redis[r].rev <= db[r].rev
        /\ redis[r].rev = db[r].rev => db[r].ver <= redis[r].ver
        /\ MarkOf(redis[r]) = MarkOf(db[r]) => redis[r] = db[r]

\* A checkpoint is a state Redis held: never newer than the hash, and equal to
\* it at the same version, so "already current" is true when it is reported.
CheckpointsAreSnapshots == \A r \in Rules : IsSnapshot(r)

\* Every checkpoint passes the validation a hydration applies to it: no key is
\* locked out by a state its own gateway saved.
CheckpointsAreRestorable == \A r \in Rules : db[r].rev > 0 => Restorable(r, db[r])

\* The requests among rq that settled on tickets of the window of state s of
\* rule r.
WindowCosts(rq, r, s) ==
    {q \in Requests : rq[q].settled > 0 /\ rq[q].ticket[r] = [rev |-> s.rev, gen |-> s.gen]}

\* What the settlements of a request have charged to a rule it still matches.
Charged(e) == e.settled * e.cost

Total(rq, W) == MapThenSumSet(LAMBDA q : Charged(rq[q]), W)

\* What a set of requests have charged, saturated.
Summed(rq, W) ==
    IF \E q \in W : rq[q].cost < 0 THEN MaxUsed
    ELSE IF Total(rq, W) > MaxUsed THEN MaxUsed ELSE Total(rq, W)

\* The usage of a window is what was settled on tickets of that window and
\* revision, saturated: a ticket of an earlier window or revision never charges
\* a later one.  A cost is counted once for every time its script was run: once,
\* unless the connection broke and the client sent the settlement again.
UsageIsExact ==
    \A r \in Rules :
        redis[r].rev > 0 /\ ~forked[r] =>
            redis[r].used = Summed(req, WindowCosts(req, r, redis[r]))

\* The hash of rule r leaves its window only for the next one, once it is over.
ToNextWindow(r) ==
    redis[r].rev > 0 /\ redis'[r].rev = redis[r].rev /\ redis'[r].gen # redis[r].gen =>
        redis'[r].gen = redis[r].gen + 1 /\ redis'[r].ws >= redis[r].we

\* A window is replaced only by the next one, which starts after it ended,
\* whatever the skew between the clocks of the instances.
WindowsDoNotOverlap == [][\A r \in Rules : ToNextWindow(r)]_vars

\* A change of a rule is checkpointed in the end, however often the passes fail,
\* unless a fault took its mark or its hash.
ChangesAreCheckpointed ==
    \A r \in Rules :
        (Behind(r) /\ redis[r].rev > 0) ~> (~Behind(r) \/ orphan[r] \/ forked[r])

-----------------------------------------------------------------------------
(* The inductive strengthening of ChangesAreTracked and of                 *)
(* CheckpointsAreSnapshots, for a rule whose hash was never lost unsaved.  *)

\* Redis is at least as new as every mark and snapshot of the rule.
MarksAreOld(r) ==
    /\ \A i \in Instances : /\ CoveredBy(dirty[i][r], redis[r])
                            /\ CoveredBy(worker[i].cand[r], redis[r])
                            /\ CoveredBy(worker[i].snap[r], redis[r])
    /\ \A q \in Requests : CoveredBy(req[q].marks[r], redis[r])

\* A snapshot at the version of the hash is the hash; a snapshot includes the
\* change it was read for, and the row is not behind it once it was written.
SnapshotsAreSound(r) ==
    \A i \in Instances :
        LET snap == worker[i].snap[r] IN
        /\ snap.rev > 0 /\ MarkOf(snap) = MarkOf(redis[r]) => snap = redis[r]
        /\ worker[i].pc = "filter" => CoveredBy(worker[i].cand[r], snap)
        /\ worker[i].pc = "ack" => db[r].rev = 0 \/ CoveredBy(snap, db[r])

\* What a hydration has read is the row, unless the row moved on: then the
\* rule has a newer revision, or its hash exists already.
HydrationsAreCurrent(r) ==
    \A q \in Requests :
        LET read == req[q].read[r] IN
        req[q].pc = "init" /\ r \in req[q].missing =>
            \/ db[r].rev = 0 \/ read.rev < db[r].rev
            \/ read.rev = db[r].rev /\ (redis[r].rev = read.rev \/ read = db[r])

\* The row is deleted and revised with its rule; only a request waiting for a
\* reply has marks, and only a hydrating one missing rules, all of its own.
Bookkeeping(r) ==
    /\ db[r].rev = rule[r].rev
    /\ \A q \in Requests :
          /\ req[q].marks[r] # Clean => req[q].pc \in {"admitting", "settling"} /\ r \in RulesOf(q)
          /\ r \in req[q].missing => req[q].pc \in {"hydrate", "init"} /\ r \in RulesOf(q)

RuleInv(r) ==
    /\ Bookkeeping(r) /\ Tracked(r) /\ IsSnapshot(r)
    /\ ~forked[r] => MarksAreOld(r) /\ SnapshotsAreSound(r) /\ HydrationsAreCurrent(r)

TrackingInv == TypeOK /\ \A r \in Rules : RuleInv(r)

-----------------------------------------------------------------------------
(* The inductive strengthening of CheckpointsAreRestorable, from which     *)
(* WindowsDoNotOverlap follows too.                                        *)

Legal(r, s) == s.rev = 0 \/ Restorable(r, s)

\* Every copy of a rule's state is legal, time is positive, and a ticket of a
\* periodic rule names a window.
LegalityInv ==
    /\ TypeOK /\ clock > 0
    /\ \A r \in Rules : Legal(r, redis[r]) /\ Legal(r, db[r])
    /\ \A i \in Instances, r \in Rules : Legal(r, worker[i].snap[r])
    /\ \A q \in Requests :
          /\ req[q].pc \in {"evaluate", "hydrate", "init", "admitting"} => req[q].now > 0
          /\ \A r \in Rules : Legal(r, req[q].read[r])
          /\ req[q].pc \in {"admitting", "admitted", "settling"} =>
                \A r \in RulesOf(q) \cap PeriodicRules : req[q].ticket[r].gen > 0

-----------------------------------------------------------------------------
(* The inductive strengthening of UsageIsExact.                            *)

\* Ticket t is of the window of state s or of an earlier one.
NotAfter(t, s) == t.rev < s.rev \/ (t.rev = s.rev /\ t.gen <= s.gen)

\* State s of rule r counts the settled costs of its window, and no request has
\* a ticket of a later one.
CountsAll(rq, r, s) ==
    /\ s.used = Summed(rq, WindowCosts(rq, r, s))
    /\ \A q \in Requests : NotAfter(rq[q].ticket[r], s)

\* The hash counts all; so does what would rebuild it, the row and what a
\* hydration has read, while the hash is of an earlier revision.  The hash
\* exists while an admitted request may charge it.
UsageInv(r) ==
    /\ redis[r].rev > 0 => CountsAll(req, r, redis[r])
    /\ redis[r].rev < db[r].rev => CountsAll(req, r, db[r])
    /\ \A q \in Requests :
          /\ req[q].pc = "init" /\ r \in req[q].missing /\ redis[r].rev < req[q].read[r].rev =>
                CountsAll(req, r, req[q].read[r])
          /\ req[q].pc \in {"admitting", "admitted", "settling"} /\ req[q].ticket[r].rev > 0 =>
                redis[r].rev > 0

\* A request that is settled was admitted; until its end its tickets are of its
\* own rules.
TicketsInv ==
    /\ IsFiniteSet({q \in Requests : req[q].settled > 0})
    /\ \A q \in Requests :
          /\ req[q].settled > 0 => req[q].pc \in {"admitted", "settling", "done", "failed"}
          /\ \A r \in Rules : req[q].ticket[r].rev > 0 =>
                \/ req[q].pc \in {"done", "failed"}
                \/ req[q].pc \in {"admitting", "admitted", "settling"} /\ r \in RulesOf(q)

ExactInv == TicketsInv /\ \A r \in Rules : ~forked[r] => UsageInv(r)

=============================================================================
