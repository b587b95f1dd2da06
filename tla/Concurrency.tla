---------------------------- MODULE Concurrency ----------------------------
(***************************************************************************)
(* The concurrency limits shared by every gateway instance.                *)
(*                                                                         *)
(* A scope (the cluster, an access key, a group, a credential, the manual  *)
(* proxy tests) is a Redis sorted set of tokens, each scored with the time *)
(* at which it expires.  A caller takes the slots of its path one by one   *)
(* and gives the earlier ones back when a later one is refused.  Each      *)
(* instance has one renewal goroutine that extends the slots it holds.     *)
(*                                                                         *)
(* Time is discrete and relative: slot[s][c] is what is left of the life   *)
(* of a token, 0 when it has expired or was removed.  The two cannot be    *)
(* told apart, since every script first drops the expired tokens.          *)
(*                                                                         *)
(* Sources: internal/cluster/concurrency.go, internal/gateway/             *)
(* concurrency.go, internal/gateway/handler.go.                            *)
(***************************************************************************)
EXTENDS Integers, FiniteSets, Sequences

CONSTANTS
    Instances,  \* gateway processes
    Calls,      \* callers; each one takes the slots of its path once
    Scopes,     \* sorted sets
    Homes,      \* the instances each call may come to
    Path,       \* the scopes each call takes, in order
    Limits,     \* limits an operator may give a scope; 0 is unlimited
    MaxLimit,   \* the largest of them
    TTL,        \* concurrencyTTL, in ticks
    Every,      \* concurrencyRenewInterval, in ticks
    MaxMissed   \* bound: renewals of an instance that fail in a row

ASSUME HomesAssumption == Homes \in [Calls -> SUBSET Instances]
ASSUME PathAssumption ==
    /\ Path \in [Calls -> Seq(Scopes)]
    /\ \A c \in Calls : \A a, b \in 1..Len(Path[c]) : Path[c][a] = Path[c][b] => a = b
ASSUME LimitsAssumption == /\ MaxLimit \in Nat \ {0}
                           /\ Limits \subseteq 0..MaxLimit
                           /\ MaxLimit \in Limits
ASSUME TimeAssumption == TTL \in Nat \ {0} /\ Every \in Nat \ {0} /\ MaxMissed \in Nat
\* A slot outlives the renewals that fail, one tick in which its reply is on the
\* way and one in which its renewal is: 30 s against 10 s in the code.
ASSUME RenewalAssumption == TTL >= (MaxMissed + 1) * Every + 3

VARIABLES
    slot,    \* remaining life of the token of each call in each scope
    expiry,  \* remaining life of the sorted set of each scope
    held,    \* the tokens each instance holds, as pairs <<scope, call>>
    renewal, \* the renewal goroutine of each instance
    call,    \* the callers
    flight,  \* the acquire scripts sent to Redis that have not run
    leaked   \* history: slots whose release or whose reply was lost

vars == <<slot, expiry, held, renewal, call, flight, leaked>>

-----------------------------------------------------------------------------
(* Types and initial state. *)

Tokens == Scopes \X Calls

\* "ask": about to take the slot of Path[at]; "wait": its script was sent;
\* "drop", "remove": the two halves of release, on the slot of Path[at].
Call == [pc : {"new", "ask", "wait", "work", "drop", "remove", "end"},
         on : Instances,
         limits : Seq(Limits),
         at : Nat,
         reply : {"none", "taken", "full"},
         aged : BOOLEAN]

\* todo holds the tokens of the pipeline's scripts that have not yet run.
Renewal == [renewing : BOOLEAN, next : 0..Every, todo : SUBSET Tokens,
            aged : BOOLEAN, missed : 0..MaxMissed]

Idle == [renewing |-> FALSE, next |-> 0, todo |-> {}, aged |-> FALSE, missed |-> 0]

Init ==
    /\ slot = [s \in Scopes |-> [c \in Calls |-> 0]]
    /\ expiry = [s \in Scopes |-> 0]
    /\ held = [i \in Instances |-> {}]
    /\ renewal = [i \in Instances |-> Idle]
    /\ call \in [Calls -> [pc : {"new"}, on : Instances, limits : {<<>>}, at : {0},
                           reply : {"none"}, aged : {FALSE}]]
    /\ \A c \in Calls : call[c].on \in Homes[c]
    /\ flight = {}
    /\ leaked = {}

Live(s) == {c \in Calls : slot[s][c] > 0}

-----------------------------------------------------------------------------
(* Acquire. *)

Size(c) == Len(Path[c])
Scope(c) == Path[c][call[c].at]
Index(c, s) == CHOOSE n \in 1..Size(c) : Path[c][n] = s
Limit(c) == call[c].limits[call[c].at]

\* The limits are those of one snapshot, read before the first slot is taken.
\* An operator may change a limit at any time, so callers may have read any.
Begin(c, limits) ==
    /\ call[c].pc = "new"
    /\ call' = [call EXCEPT ![c].pc = IF Size(c) = 0 THEN "work" ELSE "ask",
                            ![c].at = 1, ![c].limits = limits]
    /\ UNCHANGED <<slot, expiry, held, renewal, flight, leaked>>

\* The call of c after it has its slot of Path[at].
Granted(c) ==
    [call[c] EXCEPT !.pc = IF call[c].at = Size(c) THEN "work" ELSE "ask",
                    !.at = IF call[c].at = Size(c) THEN @ ELSE @ + 1,
                    !.reply = "none", !.aged = FALSE]

\* Mutant of Refused: the earlier slots are not given back.
RefusedKeepsEarlier(c) == [call[c] EXCEPT !.pc = "end", !.at = 0, !.reply = "none", !.aged = FALSE]

\* The call of c when it is refused: the slots before Path[at] are given back.
Refused(c) ==
    [call[c] EXCEPT !.pc = IF call[c].at = 1 THEN "end" ELSE "drop",
                    !.at = @ - 1,
                    !.reply = "none", !.aged = FALSE]

\* A limit of zero takes no slot.
AskUnlimited(c) ==
    /\ call[c].pc = "ask"
    /\ Limit(c) = 0
    /\ call' = [call EXCEPT ![c] = Granted(c)]
    /\ UNCHANGED <<slot, expiry, held, renewal, flight, leaked>>

Ask(c) ==
    /\ call[c].pc = "ask"
    /\ Limit(c) > 0
    /\ call' = [call EXCEPT ![c].pc = "wait", ![c].aged = FALSE]
    /\ flight' = flight \cup {<<Scope(c), c>>}
    /\ UNCHANGED <<slot, expiry, held, renewal, leaked>>

\* The scope s after its sorted set changes to tokens: an empty one is deleted.
SetScope(s, tokens, ttl) ==
    /\ slot' = [slot EXCEPT ![s] = tokens]
    /\ expiry' = [expiry EXCEPT ![s] = IF \E c \in Calls : tokens[c] > 0 THEN ttl ELSE 0]

\* Mutant of Fits: a full scope takes one more.
FitsOneMore(s, n) == Cardinality(Live(s)) <= n

Fits(s, n) == Cardinality(Live(s)) < n

\* acquireSlotScript.  It may still run after its caller has given up; the
\* slot it takes then belongs to nobody.
AcquireScript(s, c) ==
    /\ <<s, c>> \in flight
    /\ flight' = flight \ {<<s, c>>}
    /\ LET waiting == call[c].pc = "wait" /\ Scope(c) = s
           taken == Fits(s, call[c].limits[Index(c, s)])
       IN  /\ IF taken
                THEN SetScope(s, [slot[s] EXCEPT ![c] = TTL], TTL)
                ELSE UNCHANGED <<slot, expiry>>
           /\ call' = IF waiting
                        THEN [call EXCEPT ![c].reply = IF taken THEN "taken" ELSE "full"]
                        ELSE call
    /\ UNCHANGED <<held, renewal, leaked>>

\* Mutant of Hold: the renewal goroutine is only started by the first slot ever.
HoldStartsOnce(i, token) ==
    /\ held' = [held EXCEPT ![i] = @ \cup {token}]
    /\ renewal' = IF renewal[i].renewing \/ \E c \in Calls : call[c].on = i /\ call[c].pc = "end"
                    THEN renewal
                    ELSE [renewal EXCEPT ![i] = [Idle EXCEPT !.renewing = TRUE, !.next = Every]]

\* hold: the renewal goroutine is started when it is not running.
Hold(i, token) ==
    /\ held' = [held EXCEPT ![i] = @ \cup {token}]
    /\ renewal' = IF renewal[i].renewing
                    THEN renewal
                    ELSE [renewal EXCEPT ![i] = [Idle EXCEPT !.renewing = TRUE, !.next = Every]]

AcquireTaken(c) ==
    /\ call[c].pc = "wait" /\ call[c].reply = "taken"
    /\ Hold(call[c].on, <<Scope(c), c>>)
    /\ call' = [call EXCEPT ![c] = Granted(c)]
    /\ UNCHANGED <<slot, expiry, flight, leaked>>

AcquireFull(c) ==
    /\ call[c].pc = "wait" /\ call[c].reply = "full"
    /\ call' = [call EXCEPT ![c] = Refused(c)]
    /\ UNCHANGED <<slot, expiry, held, renewal, flight, leaked>>

\* The call to Redis fails or times out, whether the script runs or not.
AcquireFails(c) ==
    /\ call[c].pc = "wait"
    /\ call' = [call EXCEPT ![c] = Refused(c)]
    /\ leaked' = leaked \cup {<<Scope(c), c>>}
    /\ UNCHANGED <<slot, expiry, held, renewal, flight>>

\* The script of a caller that gave up never reaches Redis.
ScriptLost(s, c) ==
    /\ <<s, c>> \in flight
    /\ ~(call[c].pc = "wait" /\ Scope(c) = s)
    /\ flight' = flight \ {<<s, c>>}
    /\ UNCHANGED <<slot, expiry, held, renewal, call, leaked>>

-----------------------------------------------------------------------------
(* Release, from the last slot of the path to the first. *)

\* The work is done; its slots are released.
Finish(c) ==
    /\ call[c].pc = "work"
    /\ call' = [call EXCEPT ![c].pc = IF Size(c) = 0 THEN "end" ELSE "drop"]
    /\ UNCHANGED <<slot, expiry, held, renewal, flight, leaked>>

\* The call of c once the slot of Path[at] is behind it.
Released(c) ==
    [call[c] EXCEPT !.pc = IF call[c].at = 1 THEN "end" ELSE "drop", !.at = @ - 1]

\* A scope that was unlimited has nothing to release.
DropUnlimited(c) ==
    /\ call[c].pc = "drop"
    /\ Limit(c) = 0
    /\ call' = [call EXCEPT ![c] = Released(c)]
    /\ UNCHANGED <<slot, expiry, held, renewal, flight, leaked>>

\* Mutant of Drop: the token stays in the set that is renewed.
DropKeepsToken(c) ==
    /\ call[c].pc = "drop"
    /\ Limit(c) > 0
    /\ call' = [call EXCEPT ![c].pc = "remove"]
    /\ UNCHANGED <<slot, expiry, held, renewal, flight, leaked>>

Drop(c) ==
    /\ call[c].pc = "drop"
    /\ Limit(c) > 0
    /\ held' = [held EXCEPT ![call[c].on] = @ \ {<<Scope(c), c>>}]
    /\ call' = [call EXCEPT ![c].pc = "remove"]
    /\ UNCHANGED <<slot, expiry, renewal, flight, leaked>>

Remove(c) ==
    /\ call[c].pc = "remove"
    /\ SetScope(Scope(c), [slot[Scope(c)] EXCEPT ![c] = 0], expiry[Scope(c)])
    /\ call' = [call EXCEPT ![c] = Released(c)]
    /\ UNCHANGED <<held, renewal, flight, leaked>>

\* The slot is left to expire on its own.
RemoveFails(c) ==
    /\ call[c].pc = "remove"
    /\ call' = [call EXCEPT ![c] = Released(c)]
    /\ leaked' = leaked \cup {<<Scope(c), c>>}
    /\ UNCHANGED <<slot, expiry, held, renewal, flight>>

-----------------------------------------------------------------------------
(* The renewal goroutine. *)

\* The ticker fires with nothing held: the goroutine clears its flag and exits.
StopRenewing(i) ==
    /\ renewal[i].renewing /\ renewal[i].next = 0 /\ renewal[i].todo = {}
    /\ held[i] = {}
    /\ renewal' = [renewal EXCEPT ![i] = Idle]
    /\ UNCHANGED <<slot, expiry, held, call, flight, leaked>>

\* The ticker fires: the held tokens are copied and the lock is released.
StartRenewal(i) ==
    /\ renewal[i].renewing /\ renewal[i].next = 0 /\ renewal[i].todo = {}
    /\ held[i] # {}
    /\ renewal' = [renewal EXCEPT ![i].todo = held[i], ![i].next = Every, ![i].aged = FALSE]
    /\ UNCHANGED <<slot, expiry, held, call, flight, leaked>>

\* Mutant of Extended: the score of the token is not looked up.
ExtendedAlways(s, c) == TTL

\* The life of the token of c in s after a renewal: an expired one stays so.
Extended(s, c) == IF slot[s][c] > 0 THEN TTL ELSE slot[s][c]

\* renewSlotsScript: one script of the pipeline, for one scope.
RenewScript(i, s) ==
    LET tokens == {t \in renewal[i].todo : t[1] = s}
        left == renewal[i].todo \ tokens
    IN  /\ tokens # {}
        /\ SetScope(s, [c \in Calls |-> IF <<s, c>> \in tokens THEN Extended(s, c) ELSE slot[s][c]],
                    IF \E t \in tokens : slot[s][t[2]] > 0 THEN TTL ELSE expiry[s])
        /\ renewal' = [renewal EXCEPT ![i].todo = left,
                                      ![i].aged = @ /\ left # {},
                                      ![i].missed = IF left = {} THEN 0 ELSE @]
        /\ UNCHANGED <<held, call, flight, leaked>>

\* The pipeline fails after some of its scripts have run.
RenewalFails(i) ==
    /\ renewal[i].todo # {}
    /\ renewal[i].missed < MaxMissed
    /\ renewal' = [renewal EXCEPT ![i].todo = {}, ![i].aged = FALSE,
                                  ![i].missed = @ + 1]
    /\ UNCHANGED <<slot, expiry, held, call, flight, leaked>>

-----------------------------------------------------------------------------
(* The environment. *)

\* The process dies; its calls die with it and its slots are left to expire.
\* It comes back with nothing held.
Crash(i) ==
    /\ \E c \in Calls : call[c].on = i /\ call[c].pc \notin {"new", "end"}
    /\ held' = [held EXCEPT ![i] = {}]
    /\ renewal' = [renewal EXCEPT ![i] = Idle]
    /\ call' = [c \in Calls |-> IF call[c].on = i /\ call[c].pc # "new"
                                  THEN [call[c] EXCEPT !.pc = "end", !.at = 0,
                                                       !.reply = "none", !.aged = FALSE]
                                  ELSE call[c]]
    /\ leaked' = leaked \cup {t \in Tokens : call[t[2]].on = i /\ call[t[2]].pc \notin {"new", "end"}}
    /\ UNCHANGED <<slot, expiry, flight>>

\* A tick is longer than the timeouts of the calls to Redis, so that a call
\* spans at most one, and the ticker of an instance is never late.
MayTick ==
    /\ \A c \in Calls : call[c].pc = "wait" => ~call[c].aged
    /\ \A i \in Instances : /\ renewal[i].todo # {} => ~renewal[i].aged
                            /\ renewal[i].renewing => renewal[i].next > 0

Less(n) == IF n = 0 THEN 0 ELSE n - 1

Tick ==
    /\ MayTick
    /\ expiry' = [s \in Scopes |-> Less(expiry[s])]
    /\ slot' = [s \in Scopes |-> [c \in Calls |->
                    IF expiry[s] <= 1 THEN 0 ELSE Less(slot[s][c])]]
    /\ call' = [c \in Calls |-> [call[c] EXCEPT !.aged = @ \/ call[c].pc = "wait"]]
    /\ renewal' = [i \in Instances |->
                    [renewal[i] EXCEPT !.next = Less(@),
                                       !.aged = @ \/ renewal[i].todo # {}]]
    /\ UNCHANGED <<held, flight, leaked>>

-----------------------------------------------------------------------------

CallStep(c) ==
    \/ \E limits \in [1..Size(c) -> Limits] : Begin(c, limits)
    \/ AskUnlimited(c) \/ Ask(c)
    \/ AcquireTaken(c) \/ AcquireFull(c) \/ AcquireFails(c)
    \/ Finish(c) \/ DropUnlimited(c) \/ Drop(c) \/ Remove(c) \/ RemoveFails(c)

RedisStep(s, c) == AcquireScript(s, c) \/ ScriptLost(s, c)

RenewalStep(i) ==
    \/ StopRenewing(i) \/ StartRenewal(i)
    \/ \E s \in Scopes : RenewScript(i, s)
    \/ RenewalFails(i)

Next ==
    \/ \E c \in Calls : CallStep(c)
    \/ \E s \in Scopes, c \in Calls : RedisStep(s, c)
    \/ \E i \in Instances : RenewalStep(i)
    \/ \E i \in Instances : Crash(i)
    \/ Tick

Spec == Init /\ [][Next]_vars

\* The calls to Redis time out, the goroutines are scheduled and time passes.
\* Nothing is assumed of how long the work of a call takes.
Fairness ==
    /\ \A c \in Calls : WF_vars(AcquireTaken(c) \/ AcquireFull(c) \/ AcquireFails(c))
    /\ \A s \in Scopes, c \in Calls : WF_vars(RedisStep(s, c))
    /\ \A i \in Instances : WF_vars(RenewalStep(i))
    /\ WF_vars(Tick)

FairSpec == Spec /\ Fairness

-----------------------------------------------------------------------------
(* Properties. *)

\* The type of every variable.
TypeOK ==
    /\ slot \in [Scopes -> [Calls -> 0..TTL]]
    /\ expiry \in [Scopes -> 0..TTL]
    /\ held \in [Instances -> SUBSET Tokens]
    /\ renewal \in [Instances -> Renewal]
    /\ call \in [Calls -> Call]
    /\ flight \subseteq Tokens
    /\ leaked \subseteq Tokens

\* A held slot is live: as long as no more than MaxMissed renewals in a row
\* fail, the instance that holds a slot renews it before Redis drops it, also
\* when the slot was taken while a renewal was under way or as the renewal
\* goroutine was about to exit.
HeldSlotsAreLive == \A i \in Instances : \A t \in held[i] : slot[t[1]][t[2]] > 0

Counted(s) == {c \in Calls : /\ call[c].pc = "work"
                             /\ \E n \in 1..Size(c) : Path[c][n] = s /\ call[c].limits[n] > 0}

\* The promise of the limiter: over all instances, the calls that are doing
\* their work under the limit of a scope never exceed it, whatever slots
\* expire, however replies are lost and whichever instances crash.
WorkWithinLimit == \A s \in Scopes : Cardinality(Counted(s)) <= MaxLimit

\* "a rejected request holds nothing" (concurrency.go:108), and neither does
\* a finished one: a call that has ended is renewed by no instance, and what
\* is left of it in Redis is a slot whose release or whose reply was lost.
EndedCallsHoldNothing ==
    \A c \in Calls, s \in Scopes :
        call[c].pc = "end" =>
            /\ \A i \in Instances : <<s, c>> \notin held[i]
            /\ slot[s][c] > 0 \/ <<s, c>> \in flight => <<s, c>> \in leaked

\* "a lost slot is never revived" (concurrency.go:41-43): a token comes into
\* its sorted set only by the script that takes it, never by a renewal that
\* was under way when it was released or expired.
NoSlotIsRevived ==
    [][\A s \in Scopes, c \in Calls :
          slot[s][c] = 0 /\ slot'[s][c] > 0 => <<s, c>> \in flight]_vars

\* A call that has ended, by its own release or by a crash, in the end has no
\* slot, and gets none again: "a crashed instance's slots expire within one
\* TTL" (concurrency.go:15-17).
EndedCallsAreFreed ==
    \A c \in Calls :
        [](call[c].pc = "end" => <>[](\A s \in Scopes : slot[s][c] = 0))

=============================================================================
