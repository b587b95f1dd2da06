------------------------- MODULE CredentialRefresh -------------------------
(***************************************************************************)
(* The refresh of one subscription credential.                             *)
(*                                                                         *)
(* The refresh token of a credential is good for one use: upstream answers *)
(* it with the next one.  A refresh takes a cluster lease, then the        *)
(* mutation lock of its instance, reads the row, marks it refreshing,      *)
(* presents the token, and commits the token it got under the next secret  *)
(* version.  A periodic sweep marks the refreshes whose holder is gone,    *)
(* and aligns the authorization state that instances share through Redis   *)
(* with the database.                                                      *)
(*                                                                         *)
(* Sources: internal/subscription/credential_manager.go,                   *)
(* internal/cluster/refresh_lease.go, credential_health_scripts.go,        *)
(* internal/control/refresh_sweep.go, credential_stages.go,                *)
(* internal/state/registry.go, shared_health.go.                           *)
(***************************************************************************)
EXTENDS Integers, FiniteSets

CONSTANTS
    Instances,   \* gateway processes
    Pollers,     \* bound: the instances that sweep and align
    Calls,       \* refreshes; each one is made once
    Kinds,       \* the kinds of refresh made: a subset of AllKinds
    MaxGrants,   \* bound: times an operator authorizes the account again
    MaxFaults,   \* bound: failed or delayed calls to Redis and the database, crashes
    MaxLosses    \* bound: leases that expire under a holder that is alive

\* A refresh of an expired secret, one a request or a probe forces, and one an
\* operator starts to recover the account from a failed state.
AllKinds == {"expired", "forced", "recovery"}

ASSUME RefreshAssumption ==
    /\ Kinds \subseteq AllKinds /\ Pollers \subseteq Instances
    /\ MaxGrants \in Nat /\ MaxFaults \in Nat /\ MaxLosses \in Nat

VARIABLES
    row,        \* the database: secret version, authorization state, token
    record,     \* Redis: shared authorization state, its secret version, record version
    entry,      \* the registry entry of each instance
    lease,      \* the call that owns the refresh lease
    stripe,     \* the call that holds the mutation lock, at each instance
    call,       \* the refreshes
    poll,       \* the sweep and the alignment, at each instance
    connected,  \* rows an authorization committed and has to load, at each instance
    strays,     \* authorization writes given up that may still reach Redis
    valid,      \* upstream: the tokens it will answer
    issued,     \* upstream: number of tokens issued so far
    spent,      \* history: tokens presented
    deferred,   \* history: tokens last answered with a failure that may be retried
    dropped,    \* history: tokens lost with a reply, a process or a failed write
    grants, faults, losses

vars == <<row, record, entry, lease, stripe, call, poll, connected, strays,
          valid, issued, spent, deferred, dropped, grants, faults, losses>>

upstream == <<valid, issued, spent, deferred>>
counters == <<grants, faults, losses>>

-----------------------------------------------------------------------------

NoOne == "none"

ASSUME CallsAssumption == NoOne \notin Calls

States == {"ready", "refreshing", "unknown", "rejected"}

NoRow == [ver |-> 0, auth |-> "none", token |-> 0]
NewCall == [pc |-> "new"]
Over == [pc |-> "done"]
IdlePoll == [pc |-> "idle"]
Unloaded == <<>>

\* A registry entry loaded from the database row r.
Entry(r) == [ver |-> r.ver, auth |-> r.auth, n |-> 0]

Init ==
    /\ row = [ver |-> 1, auth |-> "ready", token |-> 1]
    /\ record = [n |-> 0, auth |-> "none", asv |-> 0]
    /\ entry = [i \in Instances |-> Entry(row)]
    /\ lease = NoOne
    /\ stripe = [i \in Instances |-> NoOne]
    /\ call = [c \in Calls |-> NewCall]
    /\ poll = [i \in Instances |-> IdlePoll]
    /\ connected = [i \in Instances |-> Unloaded]
    /\ strays = {}
    /\ valid = {1} /\ issued = 1 /\ spent = {} /\ deferred = {} /\ dropped = {}
    /\ grants = 0 /\ faults = 0 /\ losses = 0

Fault == faults < MaxFaults /\ faults' = faults + 1 /\ UNCHANGED <<grants, losses>>
NoFault == UNCHANGED counters

-----------------------------------------------------------------------------
(* Shared and local authorization state. *)

\* The auth script: a write of an older secret version is refused, any other
\* one moves the record.
Shared(r, auth, asv) == IF r.asv > asv THEN r ELSE [n |-> r.n + 1, auth |-> auth, asv |-> asv]

\* ApplySharedHealth: the state of another secret version is not taken.
Mirrored(e, r) ==
    IF r.n = 0 \/ r.n < e.n
      THEN e
      ELSE [e EXCEPT !.n = r.n, !.auth = IF r.asv = e.ver THEN r.auth ELSE @]

\* ReconcileGroup and preserveSharedHealth: an entry of this version is kept.
Loaded(e, r) == IF e.ver = r.ver THEN e ELSE [e EXCEPT !.ver = r.ver, !.auth = r.auth]

Stray(auth, asv) == strays' = strays \cup {[auth |-> auth, asv |-> asv]}

\* The write is made.  If its connection breaks, the client makes it again.
Shares(auth, asv) ==
    /\ record' = Shared(record, auth, asv)
    /\ \/ UNCHANGED strays /\ NoFault
       \/ Stray(auth, asv) /\ Fault

\* shareAuthState: the instance mirrors what it has written.
ShareDone(i, auth, asv) ==
    /\ Shares(auth, asv)
    /\ entry' = [entry EXCEPT ![i] = Mirrored(@, record')]

\* The write fails, or seems to and reaches Redis later.
ShareFailed(auth, asv) ==
    /\ UNCHANGED strays \/ Stray(auth, asv)
    /\ UNCHANGED record
    /\ Fault

\* publishAuthState: whatever Redis answers, the local entry has the state.
Published(i, auth, asv) ==
    /\ Shares(auth, asv) \/ ShareFailed(auth, asv)
    /\ entry' = [entry EXCEPT ![i] =
                   [IF record' = record THEN @ ELSE Mirrored(@, record') EXCEPT !.auth = auth]]

\* Mutant of Restored: a failed refresh always leaves the account ready.
RestoredReady(auth) == "ready"

\* refreshRestoreState: what a refresh without a new secret goes back to.
Restored(auth) == IF auth = "refreshing" THEN "unknown" ELSE auth

-----------------------------------------------------------------------------
(* A refresh: the lease, the lock and the row. *)

Goto(c, pc) == call' = [call EXCEPT ![c].pc = pc]

\* setAuthState will write auth under the version at, for the reason why.
Writing(c, why, auth) ==
    call' = [call EXCEPT ![c].pc = "write", ![c].why = why, ![c].auth = auth]

Begin(c, i, kind) ==
    /\ call[c].pc = "new"
    /\ call' = [call EXCEPT ![c] = [pc |-> "lease", on |-> i, kind |-> kind,
                                    expected |-> entry[i].ver, row |-> NoRow, at |-> 0,
                                    why |-> "none", auth |-> "none", got |-> 0]]
    /\ UNCHANGED <<row, record, entry, lease, stripe, poll, connected, strays, upstream, dropped,
                   counters>>

\* Mutant of Grants: the lease is given to every caller.
GrantsAll(c) == TRUE

\* SET NX on the key of the lease.
Grants(c) == lease = NoOne

Acquire(c) ==
    /\ call[c].pc = "lease"
    /\ Grants(c)
    /\ lease' = c
    /\ Goto(c, "lock")
    /\ UNCHANGED <<row, record, entry, stripe, poll, connected, strays, upstream, dropped, counters>>

\* The wait is over, or the caller has gone.
GiveUp(c) ==
    /\ call[c].pc = "lease"
    /\ call' = [call EXCEPT ![c] = Over]
    /\ UNCHANGED <<row, record, entry, lease, stripe, poll, connected, strays, upstream, dropped,
                   counters>>

\* Redis does not answer: the refresh fails, and a lease it may have taken is
\* left to expire.
AcquireFails(c) ==
    /\ call[c].pc = "lease"
    /\ lease' \in IF lease = NoOne THEN {NoOne, c} ELSE {lease}
    /\ call' = [call EXCEPT ![c] = Over]
    /\ Fault
    /\ UNCHANGED <<row, record, entry, stripe, poll, connected, strays, upstream, dropped>>

\* The connection breaks after the lease was taken.  The client sends the command
\* again, and is told that somebody has it: nobody renews this lease, and the
\* caller waits for it.
AcquireAgain(c) ==
    /\ call[c].pc = "lease"
    /\ Grants(c)
    /\ lease' = c
    /\ Fault
    /\ UNCHANGED <<row, record, entry, stripe, call, poll, connected, strays, upstream, dropped>>

\* The row is refreshing while k holds the lease: its holder is gone.
Interrupted(k) == row.auth = "refreshing" /\ k.kind # "recovery"

NotReady(k) == row.auth # "ready" /\ k.kind # "recovery"

\* Another refresh has committed a newer secret, which is ready.
Superseded(k) == k.kind # "expired" /\ row.ver > k.expected /\ row.auth = "ready"

\* The lock of the instance is taken and the row is read.  A request stops at
\* a secret that is no longer about to expire, or at a refresh cooldown.
Read(c) ==
    LET k == call[c]
        taken == [k EXCEPT !.row = row, !.at = row.ver]
    IN  /\ k.pc = "lock"
        /\ stripe[k.on] = NoOne
        /\ stripe' = [stripe EXCEPT ![k.on] = c]
        /\ \/ /\ Interrupted(k)
              /\ call' = [call EXCEPT ![c] = [taken EXCEPT !.pc = "write", !.why = "interrupted",
                                                           !.auth = Restored(row.auth)]]
           \/ /\ ~Interrupted(k) /\ NotReady(k)
              /\ Goto(c, "release")
           \/ /\ ~Interrupted(k) /\ ~NotReady(k) /\ Superseded(k)
              /\ call' = [call EXCEPT ![c] = [taken EXCEPT !.pc = "repair"]]
           \/ /\ ~Interrupted(k) /\ ~NotReady(k) /\ ~Superseded(k)
              /\ \/ /\ k.kind # "recovery"
                    /\ Goto(c, "release")
                 \/ call' = [call EXCEPT ![c] = [taken EXCEPT !.pc = "write", !.why = "start",
                                                              !.auth = "refreshing"]]
        /\ UNCHANGED <<row, record, entry, lease, poll, connected, strays, upstream, dropped,
                       counters>>

\* ensureRuntimeMatchesDurableSecret: an entry of this version is made ready, and
\* another one is read again from the database, if it answers.
Repair(c) ==
    LET k == call[c]
        e == entry[k.on]
    IN  /\ k.pc = "repair"
        /\ \/ /\ e.ver = k.row.ver /\ NoFault
              /\ entry' = [entry EXCEPT ![k.on].auth = "ready"]
           \/ /\ e.ver # k.row.ver /\ NoFault
              /\ entry' = [entry EXCEPT ![k.on] = Loaded(e, row)]
           \/ /\ e.ver # k.row.ver /\ Fault
              /\ UNCHANGED entry
        /\ Goto(c, "release")
        /\ UNCHANGED <<row, record, lease, stripe, poll, connected, strays, upstream, dropped>>

-----------------------------------------------------------------------------
(* A refresh: the transitions of the authorization state. *)

\* Where a refresh goes when its write under why does not change the row.
\* A failed start is undone, and some other failures are marked locally.
AfterFailedWrite(k) ==
    CASE k.why = "start" -> [k EXCEPT !.why = "undo", !.auth = Restored(k.row.auth)]
      [] OTHER -> [k EXCEPT !.pc = "release"]

MarkedLocally(why) == why \in {"undo", "failed", "mismatch"}

\* setAuthState.  A write that the database reports as failed may have been made.
Write(c) ==
    LET k == call[c]
        matches == row.ver = k.at
    IN  /\ k.pc = "write"
        /\ \/ /\ matches /\ NoFault
              /\ row' = [row EXCEPT !.auth = k.auth]
              /\ Goto(c, "publish")
              /\ UNCHANGED entry
           \/ /\ IF matches THEN Fault ELSE NoFault
              /\ row' \in IF matches THEN {row, [row EXCEPT !.auth = k.auth]} ELSE {row}
              /\ call' = [call EXCEPT ![c] = AfterFailedWrite(k)]
              /\ entry' = IF MarkedLocally(k.why)
                            THEN [entry EXCEPT ![k.on].auth = "unknown"]
                            ELSE entry
        /\ UNCHANGED <<record, lease, stripe, poll, connected, strays, upstream, dropped>>

Publish(c) ==
    LET k == call[c] IN
    /\ k.pc = "publish"
    /\ Published(k.on, k.auth, k.at)
    /\ Goto(c, IF k.why = "start" THEN "upstream" ELSE "release")
    /\ UNCHANGED <<row, lease, stripe, poll, connected, upstream, dropped>>

-----------------------------------------------------------------------------
(* A refresh: upstream and the commit. *)

\* What an uncertain outcome leaves.
Uncertain(auth) == IF Restored(auth) = "ready" THEN "unknown" ELSE Restored(auth)

Present(t) == spent' = spent \cup {t} /\ deferred' = deferred \ {t}

\* Upstream puts the next token in the place of t.
Rotated(t) ==
    /\ t \in valid
    /\ issued' = issued + 1
    /\ valid' = (valid \ {t}) \cup {issued + 1}

\* Upstream answers the token with the next one.
Rotates(c) ==
    LET t == call[c].row.token IN
    /\ call[c].pc = "upstream"
    /\ Rotated(t)
    /\ Present(t)
    /\ \/ /\ call' = [call EXCEPT ![c].pc = "commit", ![c].got = issued + 1]
          /\ UNCHANGED dropped
       \/ \* ... and the answer is lost
          /\ Writing(c, "failed", Uncertain(call[c].row.auth))
          /\ dropped' = dropped \cup {issued + 1}
    /\ UNCHANGED <<row, record, entry, lease, stripe, poll, connected, strays, counters>>

\* Upstream refuses the token, or answers it for another account.
Rejects(c) ==
    LET t == call[c].row.token IN
    /\ call[c].pc = "upstream"
    /\ valid' = valid \ {t}
    /\ Present(t)
    /\ Writing(c, "failed", "rejected")
    /\ UNCHANGED <<row, record, entry, lease, stripe, poll, connected, strays, issued, dropped,
                   counters>>

\* The answer is a failure that may be retried: too many requests, or an error of
\* the server.  The token is taken for unused.  It may be: or upstream has rotated
\* it, and a gateway before it has answered in its place.  The cooldown of the
\* credential, which can always be set in the registry, is left out.
Postpones(c) ==
    LET t == call[c].row.token IN
    /\ call[c].pc = "upstream"
    /\ \/ UNCHANGED <<valid, issued, dropped>>
       \/ Rotated(t) /\ dropped' = dropped \cup {issued + 1}
    /\ spent' = spent \cup {t}
    /\ deferred' = deferred \cup {t}
    /\ Writing(c, "failed", Restored(call[c].row.auth))
    /\ UNCHANGED <<row, record, entry, lease, stripe, poll, connected, strays, counters>>

\* The request does not get to upstream, and the code cannot tell.
NotServed(c) ==
    /\ call[c].pc = "upstream"
    /\ Writing(c, "failed", Uncertain(call[c].row.auth))
    /\ UNCHANGED <<row, record, entry, lease, stripe, poll, connected, strays, upstream, dropped,
                   counters>>

\* Mutant of Commits: only a row that is refreshing is committed to.
CommitsRefreshing(k) == row.ver = k.row.ver /\ row.auth = "refreshing"

\* "The commit is conditioned on the secret version alone."
Commits(k) == row.ver = k.row.ver

\* CommitCredentialState.  Its transaction, too, may be committed and reported
\* as failed.
Commit(c) ==
    LET k == call[c]
        next == [ver |-> k.row.ver + 1, auth |-> "ready", token |-> k.got]
    IN
    /\ k.pc = "commit"
    /\ \/ /\ Commits(k) /\ NoFault
          /\ row' = next
          /\ Goto(c, "replace")
          /\ UNCHANGED dropped
       \/ /\ Commits(k) /\ Fault
          /\ row' = next
          /\ Writing(c, "uncommitted", "unknown")
          /\ UNCHANGED dropped
       \/ /\ IF Commits(k) THEN Fault ELSE NoFault
          /\ Writing(c, "uncommitted", "unknown")
          /\ dropped' = IF faults' # faults \/ row.ver # k.row.ver
                          THEN dropped \cup {k.got}
                          ELSE dropped
          /\ UNCHANGED row
    /\ UNCHANGED <<record, entry, lease, stripe, poll, connected, strays, upstream>>

\* The secret is replaced in the registry, or the group is read again.
Replace(c) ==
    LET k == call[c]
        e == entry[k.on]
        next == k.row.ver + 1
    IN  /\ k.pc = "replace"
        /\ \/ /\ e.ver = k.row.ver
              /\ entry' = [entry EXCEPT ![k.on].ver = next, ![k.on].auth = "ready"]
              /\ Goto(c, "share") /\ NoFault
           \/ /\ e.ver # k.row.ver
              /\ entry' = [entry EXCEPT ![k.on] = Loaded(e, row)]
              /\ Goto(c, "share") /\ NoFault
           \/ /\ e.ver # k.row.ver
              /\ call' = [call EXCEPT ![c].pc = "write", ![c].why = "mismatch",
                                      ![c].auth = "unknown", ![c].at = next]
              /\ Fault /\ UNCHANGED entry
        /\ UNCHANGED <<row, record, lease, stripe, poll, connected, strays, upstream, dropped>>

Share(c) ==
    LET k == call[c] IN
    /\ k.pc = "share"
    /\ \/ ShareDone(k.on, "ready", k.row.ver + 1)
       \/ ShareFailed("ready", k.row.ver + 1) /\ UNCHANGED entry
    /\ Goto(c, "release")
    /\ UNCHANGED <<row, lease, stripe, poll, connected, upstream, dropped>>

\* The lock is released and then the lease, if it is still this call's.
Release(c) ==
    LET k == call[c] IN
    /\ k.pc = "release"
    /\ stripe' = [stripe EXCEPT ![k.on] = NoOne]
    /\ \/ lease' = (IF lease = c THEN NoOne ELSE lease) /\ NoFault
       \/ UNCHANGED lease /\ Fault
    /\ call' = [call EXCEPT ![c] = Over]
    /\ UNCHANGED <<row, record, entry, poll, connected, strays, upstream, dropped>>

-----------------------------------------------------------------------------
(* The sweep of interrupted refreshes. *)

PollIs(i, p) == poll' = [poll EXCEPT ![i] = p]

SweepReads(i) ==
    /\ poll[i].pc = "idle"
    /\ PollIs(i, IF row.auth = "refreshing" THEN [pc |-> "seen", ver |-> row.ver]
                                            ELSE [pc |-> "align"])
    /\ UNCHANGED <<row, record, entry, lease, stripe, call, connected, strays, upstream, dropped,
                   counters>>

\* Held: is there a lease?
SweepChecks(i) ==
    /\ poll[i].pc = "seen"
    /\ PollIs(i, IF lease = NoOne THEN [poll[i] EXCEPT !.pc = "orphan"] ELSE [pc |-> "align"])
    /\ UNCHANGED <<row, record, entry, lease, stripe, call, connected, strays, upstream, dropped,
                   counters>>

\* Mutant of Sweepable: only a row of another version is marked.
SweepableOther(p) == row.auth = "refreshing" /\ row.ver # p.ver

Sweepable(p) == row.auth = "refreshing" /\ row.ver = p.ver

SweepMarks(i) ==
    /\ poll[i].pc = "orphan"
    /\ IF Sweepable(poll[i])
         THEN /\ row' = [row EXCEPT !.auth = "unknown"]
              /\ PollIs(i, [poll[i] EXCEPT !.pc = "swept"])
         ELSE /\ PollIs(i, [pc |-> "align"])
              /\ UNCHANGED row
    /\ UNCHANGED <<record, entry, lease, stripe, call, connected, strays, upstream, dropped, counters>>

SweepShares(i) ==
    /\ poll[i].pc = "swept"
    /\ \/ ShareDone(i, "unknown", poll[i].ver)
       \/ ShareFailed("unknown", poll[i].ver) /\ UNCHANGED entry
    /\ PollIs(i, [pc |-> "align"])
    /\ UNCHANGED <<row, lease, stripe, call, connected, upstream, dropped>>

-----------------------------------------------------------------------------
(* The alignment of the shared state with the database. *)

\* Redis is read before the database.
AlignReadsRecord(i) ==
    /\ poll[i].pc = "align"
    /\ PollIs(i, [pc |-> "compare", record |-> record])
    /\ UNCHANGED <<row, record, entry, lease, stripe, call, connected, strays, upstream, dropped,
                   counters>>

\* Mutant of Misaligned: only the failed states are shared again.
MisalignedFailure(r) ==
    r.n # 0 /\ r.asv = row.ver /\ r.auth # row.auth /\ row.auth # "ready"

\* The record r is of the version of the row and has another state.
Misaligned(r) == r.n # 0 /\ r.asv = row.ver /\ r.auth # row.auth

\* The row is read, and the record is to be corrected.
AlignReadsRow(i) ==
    LET r == poll[i].record IN
    /\ poll[i].pc = "compare"
    /\ PollIs(i, IF Misaligned(r)
                   THEN [pc |-> "correct", record |-> r, auth |-> row.auth]
                   ELSE IdlePoll)
    /\ UNCHANGED <<row, record, entry, lease, stripe, call, connected, strays, upstream, dropped,
                   counters>>

\* Mutant of Unmoved: the correction is made whatever was written since.
UnmovedAlways(r) == TRUE

Unmoved(r) == record.n = r.n

\* ReplaceAuthState: refused when the record has moved since it was read, also
\* by the write itself when it is sent twice.  A write that fails may have been
\* made.
AlignCorrects(i) ==
    LET p == poll[i] IN
    /\ p.pc = "correct"
    /\ \/ /\ Unmoved(p.record)
          /\ record' = Shared(record, p.auth, p.record.asv)
          /\ entry' = [entry EXCEPT ![i] = Mirrored(@, record')]
          /\ UNCHANGED strays /\ NoFault
       \/ /\ ~Unmoved(p.record)
          /\ entry' = [entry EXCEPT ![i] = Mirrored(@, record)]
          /\ UNCHANGED <<record, strays>> /\ NoFault
       \/ /\ record' \in {record, IF Unmoved(p.record)
                                  THEN Shared(record, p.auth, p.record.asv)
                                  ELSE record}
          /\ UNCHANGED <<entry, strays>> /\ Fault
    /\ PollIs(i, IdlePoll)
    /\ UNCHANGED <<row, lease, stripe, call, connected, upstream, dropped>>

\* Redis or the database fails a step of the poll: a failed sweep goes on to the
\* alignment, and may have marked the row; a failed alignment ends the poll.
PollFails(i) ==
    LET p == poll[i] IN
    /\ p.pc \in {"idle", "seen", "orphan", "align", "compare"}
    /\ row' \in {row, IF p.pc = "orphan" /\ Sweepable(p)
                         THEN [row EXCEPT !.auth = "unknown"]
                         ELSE row}
    /\ PollIs(i, IF p.pc \in {"align", "compare"} THEN IdlePoll ELSE [pc |-> "align"])
    /\ Fault
    /\ UNCHANGED <<record, entry, lease, stripe, call, connected, strays, upstream, dropped>>

-----------------------------------------------------------------------------
(* Mirrors, operators and the environment. *)

\* An event or the reconciliation of shared health.
Mirror(i) ==
    /\ entry[i] # Mirrored(entry[i], record)
    /\ entry' = [entry EXCEPT ![i] = Mirrored(@, record)]
    /\ UNCHANGED <<row, record, lease, stripe, call, poll, connected, strays, upstream, dropped,
                   counters>>

\* A configuration event or poll.  It takes the write lock of the control plane,
\* which an authorization holds until it has loaded its row, and then the
\* mutation lock, which a refresh holds until it ends.
Reload(i) ==
    /\ entry[i].ver # row.ver
    /\ connected[i] = Unloaded /\ stripe[i] = NoOne
    /\ entry' = [entry EXCEPT ![i] = Loaded(@, row)]
    /\ UNCHANGED <<row, record, lease, stripe, call, poll, connected, strays, upstream, dropped,
                   counters>>

\* An operator authorizes a failed account again, at instance i.
Reauthorize(i) ==
    /\ row.auth \in {"rejected", "unknown"}
    /\ connected[i] = Unloaded
    /\ grants < MaxGrants
    /\ grants' = grants + 1
    /\ issued' = issued + 1
    /\ valid' = valid \cup {issued + 1}
    /\ dropped' = dropped \cup {row.token}
    /\ row' = [ver |-> row.ver + 1, auth |-> "ready", token |-> issued + 1]
    /\ connected' = [connected EXCEPT ![i] = <<row'>>]
    /\ UNCHANGED <<record, entry, lease, stripe, call, poll, strays, spent, deferred, faults, losses>>

\* ... and then loads what it committed.
Connect(i) ==
    /\ connected[i] # Unloaded
    /\ entry' = [entry EXCEPT ![i] = Loaded(@, connected[i][1])]
    /\ connected' = [connected EXCEPT ![i] = Unloaded]
    /\ UNCHANGED <<row, record, lease, stripe, call, poll, strays, upstream, dropped, counters>>

StrayRuns(w) ==
    /\ w \in strays
    /\ strays' = strays \ {w}
    /\ record' \in {record, Shared(record, w.auth, w.asv)}
    /\ UNCHANGED <<row, entry, lease, stripe, call, poll, connected, upstream, dropped, counters>>

Alive(c) == call[c].pc \notin {"new", "done"}

Renews(c) == call[c].pc \notin {"new", "done", "lease"}

\* Nobody renews the lease of a call that is over or does not know of it.
LeaseExpires ==
    /\ lease # NoOne
    /\ ~Renews(lease)
    /\ lease' = NoOne
    /\ UNCHANGED <<row, record, entry, stripe, call, poll, connected, strays, upstream, dropped,
                   counters>>

\* The renewals of a live holder do not reach Redis in time.
LeaseLost ==
    /\ lease # NoOne
    /\ Renews(lease)
    /\ losses < MaxLosses
    /\ losses' = losses + 1
    /\ lease' = NoOne
    /\ UNCHANGED <<row, record, entry, stripe, call, poll, connected, strays, upstream, dropped,
                   grants, faults>>

\* The process dies and starts again.
Crash(i) ==
    LET mine == {c \in Calls : Alive(c) /\ call[c].on = i} IN
    /\ Fault
    /\ call' = [c \in Calls |-> IF c \in mine THEN Over ELSE call[c]]
    /\ dropped' = dropped \cup {call[c].got : c \in {d \in mine : call[d].pc = "commit"}}
    /\ stripe' = [stripe EXCEPT ![i] = NoOne]
    /\ poll' = [poll EXCEPT ![i] = IdlePoll]
    /\ connected' = [connected EXCEPT ![i] = Unloaded]
    /\ entry' = [entry EXCEPT ![i] = Entry(row)]
    /\ UNCHANGED <<row, record, lease, strays, upstream>>

-----------------------------------------------------------------------------

RefreshStep(c) ==
    \/ Acquire(c) \/ GiveUp(c) \/ AcquireFails(c) \/ AcquireAgain(c) \/ Read(c) \/ Repair(c)
    \/ Write(c) \/ Publish(c)
    \/ Rotates(c) \/ Rejects(c) \/ Postpones(c) \/ NotServed(c)
    \/ Commit(c) \/ Replace(c) \/ Share(c) \/ Release(c)

PollStep(i) ==
    \/ SweepReads(i) \/ SweepChecks(i) \/ SweepMarks(i) \/ SweepShares(i)
    \/ AlignReadsRecord(i) \/ AlignReadsRow(i) \/ AlignCorrects(i) \/ PollFails(i)

Next ==
    \/ \E c \in Calls : \/ \E i \in Instances, kind \in Kinds : Begin(c, i, kind)
                        \/ RefreshStep(c)
    \/ \E i \in Pollers : PollStep(i)
    \/ \E i \in Instances : \/ Mirror(i) \/ Reload(i)
                            \/ Reauthorize(i) \/ Connect(i) \/ Crash(i)
    \/ \E w \in strays : StrayRuns(w)
    \/ LeaseExpires \/ LeaseLost

Spec == Init /\ [][Next]_vars

\* Every call to Redis, the database and upstream ends or times out, a lease
\* nobody renews expires, and a poll is made again and again.
Fairness ==
    /\ \A c \in Calls : WF_vars(RefreshStep(c))
    /\ \A i \in Pollers : WF_vars(PollStep(i))
    /\ WF_vars(\E w \in strays : StrayRuns(w))
    /\ WF_vars(LeaseExpires)

\* Every instance mirrors, reloads and loads what it has committed.
EntriesFollow ==
    \A i \in Instances : WF_vars(Mirror(i)) /\ WF_vars(Reload(i)) /\ WF_vars(Connect(i))

FairSpec == Spec /\ Fairness
FollowingSpec == FairSpec /\ EntriesFollow

-----------------------------------------------------------------------------
(* Properties. *)

\* The ranges of the variables; a holder of the lock is at work under it, and
\* the token of the row was issued.
TypeOK ==
    /\ row.auth \in States /\ row.ver \in Nat /\ row.token \in 1..issued
    /\ lease \in Calls \cup {NoOne}
    /\ \A i \in Instances : /\ stripe[i] # NoOne => Alive(stripe[i]) /\ call[stripe[i]].on = i
                            /\ entry[i].auth \in States
                            /\ entry[i].ver <= row.ver
    /\ record.asv <= row.ver
    /\ valid \subseteq 1..issued

\* "refreshing without the lease ... could spend a one-time refresh token
\* twice" (credential_manager.go:202-203): unless a live holder loses its
\* lease, no refresh but an operator's is about to present a token that another
\* one has presented, however that one ended, except after an answer that
\* TokenEndpointFailureRetryable takes for "safe and useful to retry".
TokensArePresentedOnce ==
    losses = 0 =>
        \A c \in Calls : call[c].pc = "upstream" /\ call[c].kind # "recovery"
                         => call[c].row.token \notin spent \ deferred

\* "No provider request is sent after an uncertain refresh outcome"
\* (credential_manager.go:122): unless a live holder loses its lease, a row
\* that is ready holds a token that upstream will still answer, or one that was
\* last answered with a failure taken for retryable, which may hide a rotation.
ReadyTokensAreValid == losses = 0 /\ row.auth = "ready" => row.token \in valid \cup deferred

\* "a sweep that wrongly judged this refresh interrupted (a lost lease, a
\* startup reset) must not discard the rotated token"
\* (credential_manager.go:423-425): a token upstream will answer is in the row, or
\* in the hands of a refresh that is about to commit it, unless a reply, a
\* process or a write was lost, or a new authorization took its place.
RotatedTokensAreKept ==
    valid \subseteq {row.token} \cup dropped
                    \cup {call[c].got : c \in {d \in Calls : call[d].pc = "commit"}}

\* "any auth write after that read moves the record version, so a correction
\* never overwrites a newer state" (refresh_sweep.go:119-121): when every write
\* gets to Redis and no live holder loses its lease, the shared state is that
\* of the row as soon as the refreshes and the poll under way have ended.
SettledStateIsShared ==
    /\ faults = 0 /\ losses = 0
    /\ \A c \in Calls : ~Alive(c)
    /\ \A i \in Instances : poll[i] = IdlePoll
    => (record.asv = row.ver => record.auth = row.auth)

\* Whatever crashes, a row does not stay refreshing: the refresh ends, the next
\* one finds it interrupted, or a sweep does.
RefreshesEnd == row.auth = "refreshing" ~> row.auth # "refreshing"

\* "republishSubscriptionAuth restores PostgreSQL as the only source of truth"
\* (refresh_sweep.go:115-116): in the end the shared state is that of the row,
\* if it is of the same secret version, also after writes that failed or came
\* late.
SharedStateConverges == <>[](record.asv = row.ver => record.auth = row.auth)

\* The same of the registries that requests are scheduled from: in the end
\* every entry has the secret version and the authorization state of the row.
EntriesConverge ==
    <>[](\A i \in Instances : entry[i].ver = row.ver /\ entry[i].auth = row.auth)

=============================================================================
