# A TLA+ model of the gateway's shared state

The repository is an AI gateway: a client sends a request with an access key, the
gateway picks a credential of an upstream provider, forwards the request, and
settles its cost. Several instances run side by side. They share PostgreSQL, which
holds the configuration and every durable fact, and Redis, which holds what changes
with each request. This project models the state that instances share, checks it
with TLC on small instances, and proves part of it with TLAPS for all constants.

## 1. The system

Paths are relative to `src/internal/`. `docs/upstream-core-flow-review.md` of the
repository describes the flow; the models follow the code.

**Start.** `app` runs the migrations, writes the initial state, loads the catalog,
resumes control operations, hydrates shared health, starts the runtimes, opens the
listeners and starts the request log worker.

**Configuration.** A control operation commits to PostgreSQL with a new
`config_revision`, publishes to its own process, and sends a Redis notice. Peers
reload on the notice or when a poll finds a newer revision (`control/cluster_*`).

**A request.** Authentication; the slots of the cluster and of the key; the quota
`Check`; the rate limit; candidates from the scheduler; for each attempt the slot of
the group and of the credential, the quota `Admit`, the upstream call, the release of
the two slots, the quota `Complete` and the health decision; then the log event and
the release of the request's slots.

| Part | State it owns | Operations that change it | Model |
|---|---|---|---|
| Cost quota: `cluster/access_quota*.go`, `accessquota`, `requestlog/access_quota_checkpoint.go` | a Redis hash and a database row per rule; dirty marks per instance | admit, hydrate, complete, pass (read, filter, write, ack), reset, edit, delete, reload | `AccessQuota` |
| Concurrency limits: `cluster/concurrency.go`, `gateway/concurrency.go` | a sorted set per scope; held tokens and a renewal goroutine per instance | acquire, release, renew, expire | `Concurrency` |
| Credential health: `cluster/credential_health*.go`, `state/shared_health.go` | a Redis hash per credential; a mirror per instance | cooldown, fail, clear failure, model cooldown, restore, recover, clear cooldown, auth; event, reconcile, local fallback, edit | `CredentialHealth` |
| Subscription refresh: `subscription/credential_manager.go`, `cluster/refresh_lease.go`, `control/refresh_sweep.go` | the credential row, a lease, the shared authorization state, a lock per instance | prepare, refresh, commit, publish, sweep, align, reauthorize, reload | `CredentialRefresh` |
| Billing outbox: `integration/ly` | a table of usage reports | record, claim, post, settle, park, remove | `BillingOutbox`, which implements `BillingLedger` |
| Request log: `requestlog` | queue, batch, counters, phase | start, emit, write, checkpoint, stop, drain | `RequestLog` |
| HTTP lifecycle and the application's stop: `httplifecycle`, `app` | handlers, their count, the stop and its deadline | track, bind, release, leave; the steps of `Stop` | `Lifecycle`, which composes `RequestLog` with them |
| Configuration writes, control operations and reloads: `control/service.go`, `idempotency_operation.go`, `operation_recovery.go`, `cluster_config_sync.go`, `cluster_reload.go` | the revision, operation rows, what each instance serves, its applied revision, its write lock | write, replay, recover, advance, publish, repair, notice, poll, reload | `ConfigSync` |
| Registry: `state/registry.go` | entries, buckets, scheduling views | load, reconcile, mutate | one entry, in `CredentialHealth` and `CredentialRefresh` |

`PROJECT.json` lists every component, those left out with the reason, and maps each
definition to the lines it models.

**What makes it hard.** Scripts are atomic but their replies are lost, and the client
then sends them again; a call that timed out may still run; instances read configuration at different times and have
clocks that disagree; a hash can vanish and be rebuilt; a process dies between two
steps; a commit is made and reported as failed; and a refresh token is good for one
use. `PROJECT.json` lists these hazards at the line where each one bites, with the
properties that would catch it.

## 2. The modules

Every module has its bounds among its CONSTANTS and marks them "bound". Operators
whose comment begins with "Mutant" are plausible errors in the definition that follows
them; no specification uses them. They show that a property can fail.

### AccessQuota

A rule's hash in Redis and its row in the database have the same shape: revision, used
cost, window, generation and version. A request is charged by a settlement script
under the ticket (revision, generation) it was admitted with. Each instance marks the
rules it changed, and its log worker copies marked rules to the database.

| Code | Definition |
|---|---|
| the check and admit scripts | `EvaluateNeedsInit`, `EvaluateRefusesOrChecks`, `EvaluateAdmits`, `EvaluateFails`, after `Begin` has read the rules and the clock |
| hydration and its script | `HydrateReads`, `HydrateFails`, `InitScript` |
| the settlement script | `Complete`; a request that fails before it, `CallFails` |
| `markDirty`, after the reply | `ReplyArrives`; a lost reply is `ReplyLost`, or `Resend` if the client still has time to send the script again |
| `DirtySnapshots` | `StartPass`, `ReadDirty`, then `FilterDirty`, which drops marks |
| `CheckpointAccessQuota`, `Ack` | `WriteSnapshots`, `AckSnapshots`, `PassFails` |
| an operator's changes | `ReviseRule`, `EditLimit`, `DeleteRule`; an instance sees them after `Reload` |
| time and faults | `Tick`, `Crash`, `LoseKey`, `ExpireKey` |

`orphan` and `forked` are history: a fault took a change's mark, or Redis lost a state
nobody had saved. `settled` counts the runs of a request's settlement script. Money is a
small number; `MaxUsed` stands for MaxInt64, at which the
script saturates.

### Concurrency

A scope holds the remaining life of each token. A call takes the slots of its path one
by one; each script is sent and runs as two steps, so it may run after its caller gave
up. Release is the code's two halves: the token leaves the instance's set, then Redis.
The renewal goroutine copies the held tokens, sends one script per scope, and exits when
nothing is held. The limits are read by each call when it begins, so calls with
different limits meet in one scope. The code renews every 10 seconds a slot that lives
for 30. The model asks how many renewals in a row may fail: with latencies of a tick,
`TTL` must be at least `(MaxMissed + 1) * Every + 3`.

### CredentialHealth

The record has an epoch, a version, an identity and the health proper; a mirror adds
whether it was changed locally. `Script` is the Lua script with its eight operations,
each an operator on health; the local fallback uses the same operators, as the code's
two implementations are meant to agree. `ApplySharedHealth` is one operator, used for
replies, events and reconciliation reads. An edit of the credential (`UpdateGroupCredential`,
`BatchGroupCredentials`) takes a snapshot of the registry entry, `TakeEntry`, and later
writes it back with everything it holds, `RestoreEntry`; a disable that the database
refuses writes it back once more. Its locks keep reloads out in between, not replies,
events and reads. `gen` is history: the call that last moved the failure generation.

### CredentialRefresh

A call follows `Prepare`: look at the entry, take the lease, take the mutation lock,
read the row, mark it refreshing, present the token, commit, publish. A failed database
write may have been made, and a failed write of shared state may reach Redis later
(`strays`), as may one that was made and is sent again. A lease that was taken and is asked
for again is refused to its own caller (`AcquireAgain`). Upstream answers with a new token
(`Rotates`), a rejection (`Rejects`), a failure the code takes for retryable (`Postpones`),
or not at all (`NotServed`, and the lost answer of `Rotates`). A retryable failure may come
from a gateway in front of an upstream that has rotated the token; `deferred` is history,
the tokens last answered so. A poll is the sweep (read rows, look at the leases, mark the orphan) followed by
the alignment of the shared state, step by step. `Connect` is the compare-and-swap of a
reauthorization and the load that follows it.

The refresh and the health of a credential live in one Redis hash. `CredentialHealth`
has its version and mirror protocol with the secret version as data; `CredentialRefresh`
has the authorization state with a reliable mirror.

### BillingLedger and BillingOutbox

The ledger is the promise: a report is open while its request runs, then owed or
unbilled; an owed report is charged or refused, once, and nothing else happens to it.
The outbox is the code: `Record` stores a row when a request ends; a replica reads its
clock (`StartClaim`), puts due rows off by a delivery and a backoff (`Claim`), posts
them (`Post`), and removes or parks what Lingying answered (`Reply`, `ReplyInPart`,
`Park`, `Remove`), or leaves the rows for the next claim (`DeliveryFails`). Lingying is
external: it charges a report once, by its request, also for a post whose client has
given up. The refinement mapping `Bill` reads a report's state off the table and
Lingying's books.

### RequestLog and Lifecycle

`RequestLog` has the queue, the worker's batch, the counters of `Stats` and the phases
of the service. `Lifecycle` extends it with the handlers of requests, the coordinator
that counts them, and the goroutine that stops the application: refuse handlers, shut
the server, wait for the control runtime, for handlers and for the log, close the
stores. One deadline may pass at any step. A request in `Sockets` takes over its
connection, so the server does not wait for it and only the coordinator does. The
coordinator's channels are numbered as they are made, because `Wait` reads one channel
and waits for that one.

### ConfigSync

Configuration is the set of writes it contains. It has two parts, published one after
the other: the price table and the snapshot. `run[i]` is the holder of instance i's
write lock: a write, an operation, a drain of pending operations or a reload.

| Code | Definition |
|---|---|
| `executeIdempotentOperation` | `StartWrite`, `ReadPending`, `StartRecovery`, `Build`, `Commit`, `ReplayKnown`, `ReplayFound` |
| `recoverOperationLocked`, `advanceOperationStageLocked` | `RunStage` with `Effect`, `Swaps` and `NextStage`; `StageFails` |
| `writeConfig`, `writeGroupConfig` and `recoverCommittedRuntime` | `Build`, `Commit`, `PublishPrices`, `PublishSnapshot`, `PublishFails`, `Reprice`, `Republish`, `RecoverRuntimeFails` |
| `CommitCredentialState` | `CommitCredential`, without the lock |
| `RunOperationRecovery`, `DrainCommittedOperations` | `StartDrain`, `EndDrain`, and `recover`, the wake-up or the retry that is due |
| `ClusterConfigSync` | `StartReload`, `ReloadFails`, and the end of `PublishSnapshot`, which advances `applied` |

Abstractions: the registry is published between the two parts by the same steps and is
not told apart from the snapshot. The wake-up channel of the sync loop is its condition,
a newer revision than the applied one; a signal left in it makes a reload that changes
nothing. `advanceApplied` happens with the last publication of a reload. An operation is
the creation of a group, the kind with the most stages. `stranded` is history: the
operations that were committed and reported as failed, until somebody repeats them or a
drain reads their row. The effect of a stage and its
row update are one step, and a failure may fall between them.

## 3. What the runs show

| Run | Instance | Shows |
|---|---|---|
| `usage` | 2 instances with clocks one apart, 2 requests, a periodic rule, windows of one tick, one fault | `UsageIsExact`, `WindowsDoNotOverlap`, `CheckpointsAreSnapshots`, `CheckpointsAreRestorable` |
| `checkpointed` | a total rule, edited, reset and deleted; costs 1 and -1; a counter that saturates at 2; one fault | `TypeOK`, `ChangesAreTracked`, `UsageIsExact`; liveness: `ChangesAreCheckpointed` |
| `slots` | 2 instances, a call on two scopes and a call on one, limits 0 (none) and 1 | `WorkWithinLimit`, `HeldSlotsAreLive`, `EndedCallsHoldNothing`, `NoSlotIsRevived`; liveness: `EndedCallsAreFreed` |
| `records` | 3 calls at 2 instances, 2 models, clocks that disagree | `VersionDeterminesContent`, `RecoveriesAreOfTheTested` |
| `identities` | 2 calls, a change of identity and of secret | `VersionDeterminesContent` |
| `converge` | a failure and a restore, one fault, an edit at one instance | `MirrorsDoNotGoBack`; liveness: `MirrorsConverge` |
| `refreshes` | 2 refreshes and a poll, one fault | `TokensArePresentedOnce`, `ReadyTokensAreValid`, `SettledStateIsShared` |
| `ends` | a refresh, a poll, a reauthorization, one fault and the loss of a live lease | `RotatedTokensAreKept`; liveness: `RefreshesEnd`, `SharedStateConverges` |
| `outbox` | 2 replicas with clocks one apart, 3 reports in batches of 2, one fault | `TypeOK`, `DeliveriesDoNotOverlap`, the refinement `ImplementsLedger`; liveness: `ReportsAreSettled` |
| `stop` | 2 requests, one with a socket, a queue of 1, batches of 2 | `TypeOK`, `EventsAreAccounted`, `NothingIsStranded`, `CleanStopLosesNothing`; liveness: `StopEnds`, `EventsAreWritten` |
| `config` | 2 instances, a write and an operation that is sent to both, one fault | `AppliedIsServed`, `AnswersAreServed`, `ViewsDoNotGoBack`, `StagesDoNotGoBack`; liveness: `ViewsConverge`, `OperationsComplete` |
| `aligned` | 2 refreshes, a poll and a reauthorization, no fault | violates `EntriesConverge`, see section 5 |

**Bounds.** Two instances and two actors reach every pairwise race; where a race needs
a third party (a probe between two failures, a rejected report next to an accepted one
in a second batch) there are three. One fault is enough for each kind of fault in each
place, because a fault may be taken at any step; what two faults add is in section 5. Clocks
are one tick apart, as are windows, so a window may be over for one instance and open
for the other. A queue of one is full and empty within two events. In `slots` `TTL` is
5 and `Every` 1, the smallest values at which one missed renewal is tolerated.
The safety properties that are proved (section 4) do not depend on these bounds, and
some cases are covered by the theorems alone, because TLC would need too long:

- a reset while two instances use a rule: `usage` has no reset, and `checkpointed`, which
  has one, has one instance (`SnapshotsCorrect`, `UsageCorrect`);
- edits while identities change or while several calls record failures: `converge` is the
  only run with an edit (`NeverBack`, `VersionIsContent`, `RecoveriesTested`);
- a delay between a replica's reading of its clock and its post: `outbox` has none
  (`NoOverlap`).

**Deadlock** is checked except in `outbox`, `stop` and `config`, where the system may
come to rest: all reports settled, the application stopped, all writes made.

**Fairness** is what the code's scheduling gives. Calls to Redis and the database return
or time out (weak fairness of the call's next step, failure included). Background loops
run on timers: passes, renewals, reconciliation, polls, drains, deliveries. Time passes.
In `CredentialHealth` nothing but the reconciliation is assumed: no event, no reply and no
end of an edit. In `CredentialRefresh` the liveness of `ends` assumes nothing of mirrors
and reloads; `aligned`, which is about the entries, has them fair too (`FollowingSpec`), so
that its counterexample is not an instance that never reloads.
Strong fairness appears twice. Passes that fail are tried again until Redis and the
database answer (`ReadDirty`, `WriteSnapshots`). The worker's `select` picks among ready
channels at random, so an event that is ready again and again is taken (`TakeEvent`).
Nothing is assumed of clients, handlers, the work of a request, or the control runtime.

## 4. What is proved

TLAPS checks these theorems for every value of the constants that the named assumptions
allow. Each rests on an inductive invariant.

**AccessQuota** (`AccessQuotaProofs`, `AccessQuotaUsageProofs`). `TypeCorrect`.
`TrackingCorrect` and `SnapshotsCorrect` follow from `TrackingInv`: every mark and snapshot is at most as
new as the hash (`MarksAreOld`), a snapshot at the hash's version is the hash
(`SnapshotsAreSound`), and what a hydration has read is the row unless the hash exists
already (`HydrationsAreCurrent`). Without the last one a late hydration could bring an
old state back. `RestorableCorrect` and `WindowsCorrect` follow from `LegalityInv`: every
copy of a rule's state, wherever it is on its way, passes the validation.
`UsageCorrect` follows from `ExactInv` beside `TrackingInv`. Not only the hash counts
all that was settled on its window: so does everything that could rebuild the hash, the
row and what a hydration has read, while the hash is of an earlier revision (`UsageInv`).
No ticket is of a later window than these (`NotAfter`), so a window that opens has no
costs yet, and a settlement charges one window only. A settlement that is sent again keeps
its ticket and its cost, so the runs of its script charge the same window or nothing, and
the sum counts a cost once for each of them (`Charged`). A checkpoint never brings a row of
a revision that Redis has not reached, and a saved hash that expires leaves a row equal to
it; both are facts of `TrackingInv`. The usage is a fold over a finite set of requests.
That a cost can be taken out of the sum in any order is shown on a smallest set for which
it would be false (`MinimalMember`), which the library's well-founded orders provide
without an induction rule.

**BillingOutbox** (`BillingOutboxProofs`). `NoOverlap` follows from `Margin`: a row that
was claimed is not due before the post it was claimed for has ended. It needs
`BackoffAssumption`: the lead of a clock and the delay between reading it and the post
are together less than the shortest backoff. `Refinement` follows from `Booked`: a report
leaves the table only when it is charged, and is parked only when it was refused.
`TypeCorrect` bounds how long a report is put off.

**Lifecycle** (`LifecycleProofs`). `Accounted`, `Emptied` and `CleanStop` follow from one
invariant: the coordinator's count is the number of handlers plus the number of bindings
(`Counted`, with the cardinality theorems of the library), the phases of the log follow
those of the stop (`InStep`), the queue is closed before the worker's last look at it
(`Drained`), and what a stop loses shows in an error (`Reported`). `TypeCorrect` has the
count, the queue and the batch within their bounds.

**ConfigSync** (`ConfigSyncProofs`). `AppliedCorrect`, `AnswersCorrect`, `ViewsCorrect` and
`StagesCorrect`. The argument is about the holder of each write lock: what it is to
publish was read when the view held no more (`Covers`), because nobody else publishes at
that instance while it holds the lock; a reload has read every write up to its revision
(`Reads`); the stage it knows of an operation is not ahead of the row and at most one
behind the stage it runs (`Stages`, `Listed`), so a failed swap means that the row is at
least there; and its own operation is in the parts it has passed (`Owns`). An answer that replays a
completed row says nothing of what its instance serves, and the theorem does not either. Every action
keeps this at its own instance (`Good`) and touches no other (`Alone`, `OthersKeep`).

**Concurrency** (`ConcurrencyProofs`). `SlotsLive`, `WithinLimit`, `EndedHoldNothing` and
`NeverRevived`, for any paths and limits. The invariant has three parts. `Token` says of
each token who holds it, which is its caller's instance and exactly for the places of the
path that are behind the caller (`Taken`), and why it may be in Redis: it is held, its
reply is on the way, it is about to be removed, or it was lost. `ScopeInv` bounds the live
tokens of a scope and has the sorted set outlive them. `Timed` is the arithmetic of the
renewal: a held token has the life that it needs (`Need`), which is the time to the next
renewal, the latencies, and one interval for each failure that may still come (`Slack`).
A token that is taken while a renewal is under way is not in its batch, and needs all of
them. It rests on `RenewalAssumption`; one tick less, and TLC finds a held slot that has
expired. `WithinLimit` then holds because a call at work has a live slot in each limited
scope of its path, and a script adds one only while there are fewer than its limit.

**CredentialHealth** (`CredentialHealthProofs`). `VersionIsContent`, `NeverBack` and
`NoMirrorIsAhead`, whatever the operations do to the health. The argument is about the
copies of the record, stored, returned, published or read. A script leaves the record as
it is or takes it to a version, or to an epoch, that no copy has (`Fresh`); every other
step only passes copies on or drops them. So two copies of one epoch and version are one
record, and none of the epoch of the record is newer than it (`Coherent`). A reply, an
event or a read only ever takes a mirror to a copy that is not older, and the mirror has its
content until a local fallback marks it (`Follows`). The snapshot of an edit was a mirror,
and follows the record as one does (`Held`): written back it is older, never wrong, and
`NeverBack` says that nothing else is older. The lost record is why epochs are in the invariant: the version starts
again at 1 after it, under an epoch that no copy has.

`RecoveriesTested` has hypotheses, each of them needed (section 5): the identity stays and
no mirror is touched by a local fallback (`Undisturbed`), and the record is not lost
(`RecordStays`). Then the failure generation of the record only grows, no copy or mirror is
ahead of it (`Within`), and whoever holds a reference with the generation of the record
took it after the call that last moved it had run (`Knows`). A recovery takes effect only
at that generation, so the failure it lifts was recorded before its probe.

**CredentialRefresh** (`CredentialRefreshProofs`). `TokensKept`, `ReadyIsValid` and
`PresentedOnce`. The argument follows the row that a refresh has read (`Sound`): until the
secret version moves on, its token is the token of the database, and once upstream has
answered, that token is good for nothing, so the commit that replaces it loses nothing.
A token that was answered with a retryable failure is in `deferred` until it is presented
again, and the row may be ready with it; every other failure leaves the row not ready, so
that nobody but an operator presents its token.
While no live holder loses its lease, whoever has read the row has the lease (`Alone`), so
nobody else presents the token in between. `CallsAssumption` says that no refresh is the
value that stands for a free lease.

`StateShared` follows from `Sharing`, which holds while nothing fails. A record that has the
version of the row and another state (`Differs`) is owed a write (`Owed`): by the refresh
that changed the row and has not published it (`Finishing`), or by a poll that is still to
compare, or to correct the record it has read to the state of the row (`Aligning`). A poll
may also be about to write a state that the row no longer has. Then the row was changed
after the poll had read it, by a refresh or a sweep that has still to share it (`Changed`).
If the poll writes first, that write is owed; if it comes first, it moves the record's
number, and the poll's correction is refused.

**Only model-checked.** The liveness properties: `ChangesAreCheckpointed`,
`EndedCallsAreFreed`, `MirrorsConverge`, `RefreshesEnd`, `SharedStateConverges`,
`ReportsAreSettled`, `StopEnds`, `EventsAreWritten`, `ViewsConverge` and
`OperationsComplete`. They need fairness and `ENABLED`, which the prover does not handle.
Every other property of a passing run is a theorem.

## 5. Disagreements and limits

- **`aligned`, a finding.** `publishAuthState` sets the local state of an entry without
  comparing secret versions (`subscription/credential_manager.go:619`), although
  `control/refresh_sweep.go:115-116` and `156-157` say that PostgreSQL is restored as the
  only source of truth and that records of another version need no correction. A refresh
  that fails under version 1 may publish its state onto an entry that a reauthorization
  has just loaded with version 2, and nothing repairs the entry.
- **Recoveries during an outage.** `recover_if_match` compares the failure generation by
  number (`cluster/credential_health_scripts.go:107`). A local fallback advances that number
  without the record, so a probe of such a failure may lift the blacklist of a peer's
  later failure with the same number. A lost record starts its generations again, with the
  same effect, and a caller of an old identity resets the record, as the script's comment
  accepts. TLC shows each of the three. `RecoveriesAreOfTheTested` is checked, and proved,
  while Redis answers, the record is there and the identity stays.
- **A swept holder.** The sweep's update is conditioned on the state and the secret
  version, not on the lease it looked at, so it may mark the row of a refresh that has
  started since. `RotatedTokensAreKept` shows that the holder still commits its token.
- **A dropped mark.** A pass drops the mark of a hash that vanished
  (`cluster/access_quota.go:243`). If the hash was rebuilt to the same revision and version
  meanwhile, its last change waits for the next one to be marked. `forked` excuses it.
- **An idle hash whose change lost its mark** to a crash or a lost reply expires with
  usage that the database lacks. `orphan` excuses it.
- **Settlements sent again.** The Redis client sends a command again when its connection
  breaks (`MaxRetries`, `cluster/client.go:46`), and a settlement has two seconds for it.
  `completeScript` adds the cost with `HINCRBY` and cannot tell the second run from another
  request, so the cost is charged twice. `UsageIsExact` counts runs of the script, not
  requests; with requests in their place TLC finds the double charge at once.
- **Other scripts sent again.** An admission or a hydration sent again changes the hash no
  further, though the mark of its first run may be lost with the reply (`orphan`). A
  lease is refused to its own caller, who waits for it to expire (`AcquireAgain`). Two cases
  are not modelled: a `fail` sent again counts two failures, and an acquire script that took
  the last slot answers its own second run that the scope is full, so the slot stays taken
  until it expires. The first makes a blacklist come early; no property says that a failure
  counts once. The second leaves what a lost reply leaves (`leaked` in `Concurrency`): calls
  are refused for the life of a slot, and the limit is kept.
- **Answers taken for retryable.** `TokenEndpointFailureRetryable` calls a 429 or 5xx "safe and
  useful to retry without changing the credential" (`subscription/runtime/runtime.go:101-102`).
  After such an answer the row goes back to ready and the token is presented again. If it
  came from a gateway in front of an upstream that had rotated the token, the row is ready
  with a token that no longer works, and the new one is lost. `TokensArePresentedOnce` and
  `ReadyTokensAreValid` except the tokens last answered so (`deferred`).
- **Snapshots written back.** `state/shared_health.go:82-83` says that "within one epoch an
  older version never applies". `RestoreGroupCredentialEntriesExact` compares no version: an
  edit that took its snapshot before an event was applied undoes the event, for example a
  blacklist. `MirrorsDoNotGoBack` excepts exactly this; without the exception TLC finds it.
  The next event or reconciliation repairs the mirror (`MirrorsConverge`).
- **Entries after two faults.** If the write that starts a refresh and the one that undoes
  it both fail, the local entry stays `outcome_unknown` while the row is ready. It only
  holds a credential back.
- **Operations whose client has gone.** The commit of an operation and the lookup after a
  failed commit have the context of one request. If it is cancelled while the database
  commits, both fail, and nobody wakes the recovery loop: the operation stays pending until
  its request is repeated, another control write passes the barrier, or a drain runs, as it
  does at a restart. One fault is enough, and the run `config` has it. `OperationsComplete`
  excepts an operation while it is in this state (`stranded`), and no other.
- **Lock order.** A reload takes the write lock and then every mutation lock; a refresh
  commits under its mutation lock without the write lock. Each lock is in one module
  (`ConfigSync`, `CredentialRefresh`), so that no cycle exists is argued, not checked.

## 6. Not modelled

- The scheduler's fairness ledger: virtual times in one process under one mutex; its
  questions are about arithmetic over long runs. Scheduling views of the registry,
  buckets and candidate collection go with it.
- Retry over candidates, forwarding, streaming, WebSocket frames, protocol dialects and
  provider adapters: payload, with no shared state beyond the calls modelled here.
- Credential staging dialogues, probe scheduling, catalog downloads, request audit and
  redaction, read views and the web interface: state of one client and one row, or none.
- The job lease (the source says that every job is safe to run twice), the rate limit, the
  authentication throttle and response bindings: one atomic Redis command each.
- The balance cache of the billing admission, passive quota observations, log retention,
  and the compaction of completed operations after seven days.
- Price and usage arithmetic, result classification, and the compilation of snapshots:
  pure functions of one process.
- The Bifrost runtime manager: reference counts inside one process.
- The start of the application before its listeners open: nothing runs beside it.
