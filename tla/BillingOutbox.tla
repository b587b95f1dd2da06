--------------------------- MODULE BillingOutbox ---------------------------
(***************************************************************************)
(* The outbox of usage reports for the external billing system, Lingying.  *)
(*                                                                         *)
(* A finished request stores its report in a table.  Every replica claims  *)
(* the reports that are due, posts them in one batch, and removes, parks   *)
(* or leaves each one by its result.  A claim schedules the next attempt,  *)
(* so that a report whose delivery dies comes back later.                  *)
(*                                                                         *)
(* Time is discrete and relative to the true time: a row's due says in how *)
(* many ticks its next attempt comes on a clock that is right, and replica *)
(* i's clock is ahead of that one by Skew[i].                              *)
(*                                                                         *)
(* Sources: internal/integration/ly/outbox.go, deliverer.go, client.go,    *)
(* report.go.                                                              *)
(***************************************************************************)
EXTENDS Integers, FiniteSets

CONSTANTS
    Replicas,      \* gateway processes; each one runs a delivery loop
    Reports,       \* usage reports, named by the request they belong to
    Valid,         \* external: the reports Lingying does not reject
    BatchSize,     \* deliveryBatchSize
    ReportTimeout, \* reportTimeout, in ticks
    MinBackoff,    \* the first backoff, of one second, in ticks
    MaxBackoff,    \* maxBackoff, in ticks
    MaxTries,      \* the number of doublings after which the backoff stops growing
    Skew,          \* how far the clock of each replica is ahead
    MaxSkew,       \* bound: the largest such lead
    MaxLatency,    \* bound: ticks from reading the clock to posting the batch
    MaxFaults      \* bound: failed statements and posts, and crashes

ASSUME SetsAssumption == Valid \subseteq Reports
ASSUME TimesAssumption ==
    /\ ReportTimeout \in Nat /\ MaxBackoff \in Nat /\ MaxTries \in Nat
    /\ MaxSkew \in Nat /\ MaxLatency \in Nat /\ Skew \in [Replicas -> 0..MaxSkew]
ASSUME CountsAssumption == BatchSize \in Nat \ {0} /\ MaxFaults \in Nat

\* Mutant of Backoff: no cap.
BackoffUncapped(n) == MinBackoff * 2^n

\* The backoff of a report that was tried n times.
Backoff(n) == IF MinBackoff * 2^n < MaxBackoff THEN MinBackoff * 2^n ELSE MaxBackoff

\* The clocks agree, and the database answers, to less than any backoff.
ASSUME BackoffAssumption ==
    \A n \in 0..MaxTries : MinBackoff * 2^n \in Nat /\ Backoff(n) > MaxSkew + MaxLatency

VARIABLES
    serving,   \* the reports of requests that have not ended
    row,       \* the table
    delivery,  \* the delivery loop of each replica
    wire,      \* the reports that Lingying may be working on
    charged,   \* external: the reports Lingying has charged
    faults     \* number of faults so far

vars == <<serving, row, delivery, wire, charged, faults>>

-----------------------------------------------------------------------------
(* Types and initial state. *)

Horizon == MaxSkew + ReportTimeout + MaxBackoff
Past == -MaxLatency

Row == [at : {"none", "queued", "parked"}, due : Past..Horizon, tries : 0..MaxTries]
NoRow == [at |-> "none", due |-> 0, tries |-> 0]

\* "claim": the clock was read, lag ticks ago; "claimed": the rows are
\* scheduled; "post": the batch was posted; "settle": the results are being
\* recorded, ok and bad are the reports still to be removed and parked;
\* "sleep": nothing was due, and the loop waits for the poll interval.
Delivery == [pc : {"sleep", "idle", "claim", "claimed", "post", "settle"}, lag : 0..MaxLatency,
             batch : SUBSET Reports, ok : SUBSET Reports, bad : SUBSET Reports]
Idle == [pc |-> "idle", lag |-> 0, batch |-> {}, ok |-> {}, bad |-> {}]
Asleep == [Idle EXCEPT !.pc = "sleep"]

Message == [report : Reports, by : Replicas, age : 0..ReportTimeout]

Init ==
    /\ serving = Reports
    /\ row = [r \in Reports |-> NoRow]
    /\ delivery = [i \in Replicas |-> Idle]
    /\ wire = {}
    /\ charged = {}
    /\ faults = 0

Fault == faults < MaxFaults /\ faults' = faults + 1

-----------------------------------------------------------------------------
(* A request ends. *)

Stored(r, i) == [row EXCEPT ![r] = [at |-> "queued", due |-> Skew[i], tries |-> 0]]

\* Record stores the report; an insert that was reported as failed may have
\* been made.
Record(r, i) ==
    /\ r \in serving
    /\ serving' = serving \ {r}
    /\ row' = Stored(r, i)
    /\ UNCHANGED <<delivery, wire, charged, faults>>

\* The insert fails and the report is logged, or the process dies before it.
RecordFails(r) ==
    /\ r \in serving
    /\ Fault
    /\ serving' = serving \ {r}
    /\ UNCHANGED <<row, delivery, wire, charged>>

-----------------------------------------------------------------------------
(* Delivery. *)

\* deliverBatch reads the clock.
StartClaim(i) ==
    /\ delivery[i].pc = "idle"
    /\ delivery' = [delivery EXCEPT ![i].pc = "claim"]
    /\ UNCHANGED <<serving, row, wire, charged, faults>>

\* The time of replica i's claim, read lag ticks ago.
Now(i) == Skew[i] - delivery[i].lag

Due(i) == {r \in Reports : row[r].at = "queued" /\ row[r].due <= Now(i)}

\* The reports a claim may take: the oldest of those that are due.
Claimable(i) ==
    {S \in SUBSET Due(i) :
        /\ Cardinality(S) <= BatchSize
        /\ Cardinality(S) < BatchSize => S = Due(i)
        /\ \A r \in S, q \in Due(i) \ S : row[r].due <= row[q].due}

\* Mutants of Scheduled: the time a delivery takes is left out; a claimed report
\* is out of the queue until its result puts it back.
ScheduledAfterBackoff(i, r) ==
    [row[r] EXCEPT !.due = Now(i) + Backoff(row[r].tries),
                   !.tries = IF @ < MaxTries THEN @ + 1 ELSE @]
ScheduledOnOutcome(i, r) == [row[r] EXCEPT !.at = "parked"]

\* The row of r after replica i has claimed it.
Scheduled(i, r) ==
    [at |-> "queued",
     due |-> Now(i) + ReportTimeout + Backoff(row[r].tries),
     tries |-> IF row[r].tries < MaxTries THEN row[r].tries + 1 ELSE row[r].tries]

\* claim: one statement; the rows another claim has are locked, and skipped.
Claim(i) ==
    /\ delivery[i].pc = "claim"
    /\ \E S \in Claimable(i) :
           /\ row' = [r \in Reports |-> IF r \in S THEN Scheduled(i, r) ELSE row[r]]
           /\ delivery' = [delivery EXCEPT ![i] =
                              IF S = {} THEN Asleep ELSE [@ EXCEPT !.pc = "claimed", !.batch = S]]
    /\ UNCHANGED <<serving, wire, charged, faults>>

Post(i) ==
    /\ delivery[i].pc = "claimed"
    /\ delivery' = [delivery EXCEPT ![i].pc = "post", ![i].lag = 0]
    /\ wire' = wire \cup [report : delivery[i].batch, by : {i}, age : {0}]
    /\ UNCHANGED <<serving, row, charged, faults>>

\* The claim fails, made or not, or the post does, whether or not Lingying
\* still works on it, or the delete, or the process dies and another one takes
\* its place: the rows stay as the claim has scheduled them.
DeliveryFails(i) ==
    /\ delivery[i].pc \notin {"sleep", "idle"}
    /\ Fault
    /\ delivery' = [delivery EXCEPT ![i] =
                       IF @.pc \in {"claim", "claimed"} THEN Asleep ELSE Idle]
    /\ UNCHANGED <<serving, row, wire, charged>>

Posted(i) == {m \in wire : m.by = i /\ m.report \in delivery[i].batch}

\* Lingying answers with a result for each report.  A report whose result is
\* neither an acceptance nor a rejection, or is missing, is left for a retry.
Reply(i) ==
    /\ delivery[i].pc = "post"
    /\ delivery[i].batch \cap Valid \subseteq charged
    /\ delivery' = [delivery EXCEPT ![i].pc = "settle",
                                    ![i].ok = delivery[i].batch \cap Valid,
                                    ![i].bad = delivery[i].batch \ Valid]
    /\ wire' = wire \ Posted(i)
    /\ UNCHANGED <<serving, row, charged, faults>>

ReplyInPart(i) ==
    /\ delivery[i].pc = "post"
    /\ Fault
    /\ \E S \in SUBSET delivery[i].batch :
           /\ S \cap Valid \subseteq charged
           /\ delivery' = [delivery EXCEPT ![i].pc = "settle", ![i].ok = S \cap Valid,
                                           ![i].bad = S \ Valid]
    /\ wire' = wire \ Posted(i)
    /\ UNCHANGED <<serving, row, charged>>

\* park: a rejected report is not due any more.
Park(i, r) ==
    /\ delivery[i].pc = "settle" /\ r \in delivery[i].bad
    /\ row' = IF row[r].at = "none"
                 THEN row ELSE [row EXCEPT ![r] = [@ EXCEPT !.at = "parked", !.due = 0]]
    /\ delivery' = [delivery EXCEPT ![i].bad = @ \ {r}]
    /\ UNCHANGED <<serving, wire, charged, faults>>

ParkFails(i, r) ==
    /\ delivery[i].pc = "settle" /\ r \in delivery[i].bad
    /\ Fault
    /\ delivery' = [delivery EXCEPT ![i].bad = @ \ {r}]
    /\ UNCHANGED <<serving, row, wire, charged>>

\* Mutant of Accepted: the whole batch is removed.
AcceptedAll(i) == delivery[i].batch

Accepted(i) == delivery[i].ok

\* remove, after the last report was parked.
Remove(i) ==
    /\ delivery[i].pc = "settle" /\ delivery[i].bad = {}
    /\ row' = [r \in Reports |-> IF r \in Accepted(i) THEN NoRow ELSE row[r]]
    /\ delivery' = [delivery EXCEPT ![i] = Idle]
    /\ UNCHANGED <<serving, wire, charged, faults>>

-----------------------------------------------------------------------------
(* Lingying and time. *)

\* Lingying charges a report, once for each request.
LyCharges(m) ==
    /\ m \in wire /\ m.report \in Valid
    /\ charged' = charged \cup {m.report}
    /\ UNCHANGED <<serving, row, delivery, wire, faults>>

\* Lingying is done with a report whose caller has given up.
LyEnds(m) ==
    /\ m \in wire
    /\ ~(delivery[m.by].pc = "post" /\ m.report \in delivery[m.by].batch)
    /\ wire' = wire \ {m}
    /\ UNCHANGED <<serving, row, delivery, charged, faults>>

\* The post times out and Lingying's own deadline for a batch is shorter; a
\* statement takes no longer than the bound.
MayTick ==
    /\ \A m \in wire : m.age < ReportTimeout
    /\ \A i \in Replicas : delivery[i].pc \in {"claim", "claimed"} => delivery[i].lag < MaxLatency

Tick ==
    /\ MayTick
    /\ row' = [r \in Reports |-> [row[r] EXCEPT !.due = IF row[r].at = "queued" /\ @ > Past
                                                           THEN @ - 1 ELSE @]]
    /\ delivery' = [i \in Replicas |-> [delivery[i] EXCEPT
                        !.lag = IF delivery[i].pc \in {"claim", "claimed"} THEN @ + 1 ELSE @,
                        !.pc = IF @ = "sleep" THEN "idle" ELSE @]]
    /\ wire' = {[m EXCEPT !.age = @ + 1] : m \in wire}
    /\ UNCHANGED <<serving, charged, faults>>

-----------------------------------------------------------------------------

DeliveryStep(i) ==
    \/ StartClaim(i) \/ Claim(i) \/ Post(i) \/ Reply(i) \/ Remove(i)
    \/ \E r \in Reports : Park(i, r)

FaultStep(i) == DeliveryFails(i) \/ ReplyInPart(i) \/ \E r \in Reports : ParkFails(i, r)

Next ==
    \/ \E r \in Reports : RecordFails(r) \/ \E i \in Replicas : Record(r, i)
    \/ \E i \in Replicas : DeliveryStep(i) \/ FaultStep(i)
    \/ \E m \in wire : LyCharges(m) \/ LyEnds(m)
    \/ Tick

Spec == Init /\ [][Next]_vars

\* The delivery loops run, Lingying works on what it gets, and time passes.
Fairness ==
    /\ \A i \in Replicas : WF_vars(DeliveryStep(i))
    /\ \A r \in Reports : WF_vars(\E m \in wire : m.report = r /\ LyCharges(m))
    /\ WF_vars(\E m \in wire : LyEnds(m))
    /\ WF_vars(Tick)

FairSpec == Spec /\ Fairness

-----------------------------------------------------------------------------
(* Properties. *)

\* The type of every variable; in particular no report is put off by more than
\* a delivery and the longest backoff (outbox.go:11).
TypeOK ==
    /\ serving \subseteq Reports
    /\ row \in [Reports -> Row]
    /\ delivery \in [Replicas -> Delivery]
    /\ wire \subseteq Message
    /\ charged \subseteq Reports
    /\ faults \in 0..MaxFaults

\* "another replica cannot take them while the delivery may still be in
\* flight" (outbox.go:42-43): Lingying never works on one report for two posts,
\* although the claims of two replicas read clocks that disagree and are late.
DeliveriesDoNotOverlap == \A m, n \in wire : m.report = n.report => m = n

\* What the table and Lingying together say of a report.
Bill(r) ==
    IF r \in serving THEN "open"
    ELSE IF r \in charged THEN "charged"
    ELSE IF row[r].at = "queued" THEN "owed"
    ELSE IF row[r].at = "parked" THEN "refused"
    ELSE "unbilled"

Bills == [r \in Reports |-> Bill(r)]

Ledger == INSTANCE BillingLedger WITH bill <- Bills

\* The outbox implements the ledger: whatever statements and posts fail and
\* whichever replicas die, a stored report leaves the table only after
\* Lingying charged it, and is parked only if it was never charged.
ImplementsLedger == Ledger!Spec

\* A stored report is charged and leaves the table, or is parked if Lingying
\* rejects it, although replicas die and statements fail while they deliver it
\* (deliverer.go:86-87, outbox.go:41-43).
ReportsAreSettled ==
    \A r \in Reports :
        row[r].at = "queued" ~> IF r \in Valid THEN r \in charged /\ row[r] = NoRow
                                               ELSE row[r].at = "parked"

=============================================================================
