------------------------- MODULE ConcurrencyProofs -------------------------
(***************************************************************************)
(* Proofs about Concurrency, for any instances, calls, scopes, paths and   *)
(* limits, and any lease that outlives the renewals that fail: a held slot *)
(* is live, the work under a limit never exceeds it, a call that has ended *)
(* holds nothing, and no slot is revived.                                  *)
(***************************************************************************)
EXTENDS Concurrency, FiniteSetTheorems, TLAPS

-----------------------------------------------------------------------------
(* The inductive invariant. *)

\* The places of the path of c whose slot its instance holds for it.
Taken(c) ==
    {n \in 1..Size(c) :
        /\ \/ call[c].pc \in {"ask", "wait", "remove"} /\ n < call[c].at
           \/ call[c].pc \in {"work", "drop"} /\ n <= call[c].at
        /\ call[c].limits[n] > 0}

Has(c, s) == \E n \in Taken(c) : Path[c][n] = s

\* Where a call can be on its path.
Shape(c) ==
    /\ call[c].pc # "new" => call[c].limits \in [1..Size(c) -> Limits]
    /\ call[c].pc \in {"ask", "wait", "drop", "remove"} => call[c].at \in 1..Size(c)
    /\ call[c].pc \in {"wait", "remove"} => Limit(c) > 0
    /\ call[c].pc = "work" => call[c].at = Size(c) \/ Size(c) = 0
    /\ call[c].pc # "wait" => call[c].reply = "none"

Age(c) == IF call[c].aged THEN 1 ELSE 0

\* What is known of the token of c in s: who holds it, why its script may be
\* under way, and why it may be in Redis.
Token(s, c) ==
    /\ \A i \in Instances : <<s, c>> \in held[i] <=> call[c].on = i /\ Has(c, s)
    /\ <<s, c>> \in flight =>
         /\ call[c].pc # "new" /\ \E n \in 1..Size(c) : Path[c][n] = s
         /\ \/ <<s, c>> \in leaked
            \/ call[c].pc = "wait" /\ call[c].reply = "none" /\ Scope(c) = s
    /\ <<s, c>> \in leaked => call[c].pc \in {"drop", "remove", "end"}
    /\ slot[s][c] > 0 =>
         \/ <<s, c>> \in leaked
         \/ Has(c, s)
         \/ call[c].pc = "wait" /\ call[c].reply = "taken" /\ Scope(c) = s
         \/ call[c].pc = "remove" /\ Scope(c) = s
    /\ call[c].pc = "wait" /\ call[c].reply = "taken" /\ Scope(c) = s =>
         slot[s][c] >= TTL - Age(c)

CallInv(c) == Shape(c) /\ \A s \in Scopes : Token(s, c)

\* A sorted set outlives its tokens, and holds no more of them than allowed.
ScopeInv(s) ==
    /\ \A c \in Calls : slot[s][c] <= expiry[s]
    /\ IsFiniteSet(Live(s)) /\ Cardinality(Live(s)) <= MaxLimit

\* The time that the renewals that may yet fail take, after m that did.
Slack(m) == (MaxMissed - m) * Every

\* The life a held token needs: the renewal under way may fail for a token
\* that it is to renew, and does not renew one that was taken since it began.
Need(g, t) ==
    g.next + 2 + (IF t \in g.todo THEN Slack(g.missed) - Every
                  ELSE Slack(IF g.todo = {} THEN g.missed ELSE 0))

Timed(i) ==
    /\ held[i] # {} => renewal[i].renewing
    /\ renewal[i].todo # {} => renewal[i].next >= Every - (IF renewal[i].aged THEN 1 ELSE 0)
    /\ \A t \in held[i] : slot[t[1]][t[2]] >= Need(renewal[i], t)

Inv ==
    /\ TypeOK
    /\ \A c \in Calls : CallInv(c)
    /\ \A s \in Scopes : ScopeInv(s)
    /\ \A i \in Instances : Timed(i)

-----------------------------------------------------------------------------
(* Facts about the constants, the paths and the types. *)

LEMMA SlackFacts ==
    /\ Slack(0) \in Nat /\ TTL >= Slack(0) + Every + 3
    /\ \A m \in 0..MaxMissed : /\ Slack(m) \in Nat /\ Slack(m) <= Slack(0)
                               /\ m < MaxMissed => Slack(m + 1) = Slack(m) - Every
<1>1. Slack(0) \in Nat /\ TTL >= Slack(0) + Every + 3
  BY TimeAssumption, RenewalAssumption DEF Slack
<1>2. ASSUME NEW m \in 0..MaxMissed
      PROVE  /\ Slack(m) \in Nat /\ Slack(m) <= Slack(0)
             /\ m < MaxMissed => Slack(m + 1) = Slack(m) - Every
  BY TimeAssumption DEF Slack
<1> QED
  BY <1>1, <1>2

LEMMA PathFacts ==
    ASSUME NEW c \in Calls
    PROVE  /\ Size(c) \in Nat
           /\ \A n \in 1..Size(c) : Path[c][n] \in Scopes
           /\ \A a, b \in 1..Size(c) : Path[c][a] = Path[c][b] => a = b
BY PathAssumption DEF Size

\* The type of the limits a call has read.
LEMMA LimitsType ==
    ASSUME NEW c \in Calls, NEW limits \in [1..Size(c) -> Limits]
    PROVE  limits \in Seq(Limits)
BY PathFacts

LEMMA CallFields ==
    ASSUME NEW k \in Call
    PROVE  /\ k.pc \in {"new", "ask", "wait", "work", "drop", "remove", "end"}
           /\ k.on \in Instances /\ k.limits \in Seq(Limits) /\ k.at \in Nat
           /\ k.reply \in {"none", "taken", "full"} /\ k.aged \in BOOLEAN
BY DEF Call

LEMMA TypeFacts ==
    ASSUME TypeOK
    PROVE  /\ \A c \in Calls : call[c] \in Call
           /\ \A s \in Scopes : expiry[s] \in 0..TTL
           /\ \A s \in Scopes, c \in Calls : slot[s][c] \in 0..TTL
           /\ \A i \in Instances : renewal[i] \in Renewal /\ held[i] \subseteq Tokens
BY Zenon DEF TypeOK

LEMMA RenewalFields ==
    ASSUME NEW g \in Renewal
    PROVE  /\ g.renewing \in BOOLEAN /\ g.next \in Nat /\ g.next <= Every
           /\ g.todo \in SUBSET Tokens /\ g.aged \in BOOLEAN /\ g.missed \in 0..MaxMissed
BY TimeAssumption DEF Renewal

\* The life a token needs is a number, and no more than a fresh one has.
LEMMA NeedType ==
    ASSUME NEW g \in Renewal, NEW t
    PROVE  Need(g, t) \in Int /\ Need(g, t) <= TTL - 1
<1>1. g.next \in Nat /\ g.next <= Every /\ g.missed \in 0..MaxMissed
  BY RenewalFields, Zenon
<1> DEFINE x == IF t \in g.todo THEN Slack(g.missed) - Every
                ELSE Slack(IF g.todo = {} THEN g.missed ELSE 0)
<1>2. x \in Int /\ x <= Slack(0)
  <2>1. Slack(g.missed) \in Nat /\ Slack(g.missed) <= Slack(0) /\ Slack(0) \in Nat
    BY <1>1, SlackFacts, Zenon
  <2>2. Slack(g.missed) - Every \in Int /\ Slack(g.missed) - Every <= Slack(0)
    BY <2>1, TimeAssumption
  <2>3. Slack(0) \in Int /\ Slack(0) <= Slack(0) /\ Slack(g.missed) \in Int
    BY <2>1
  <2> QED
    BY <2>1, <2>2, <2>3, Zenon
<1>3. Need(g, t) = g.next + 2 + x
  BY Zenon DEF Need
<1> HIDE DEF x
<1> QED
  BY <1>1, <1>2, <1>3, SlackFacts, TimeAssumption

\* The scope a call is at is one of its path, and no scope of it comes twice.
LEMMA ScopeFacts ==
    ASSUME NEW c \in Calls, call[c].at \in 1..Size(c)
    PROVE  /\ Scope(c) \in Scopes
           /\ \A n \in 1..Size(c) : Path[c][n] = Scope(c) => n = call[c].at
BY PathFacts, Zenon DEF Scope

LEMMA HasFacts ==
    ASSUME NEW c \in Calls
    PROVE  /\ Taken(c)' = Taken(c) => \A s : Has(c, s)' = Has(c, s)
           /\ call[c].pc \in {"new", "end"} => \A s : ~Has(c, s)
           /\ call[c].pc \in {"wait", "remove"} /\ call[c].at \in 1..Size(c) => ~Has(c, Scope(c))
<1>1. Taken(c)' = Taken(c) => \A s : Has(c, s)' = Has(c, s)
  BY Zenon DEF Has
<1>2. call[c].pc \in {"new", "end"} => Taken(c) = {}
  BY DEF Taken
<1>3. ASSUME call[c].pc \in {"wait", "remove"}, call[c].at \in 1..Size(c), Has(c, Scope(c))
      PROVE  FALSE
  <2>1. PICK n \in Taken(c) : Path[c][n] = Scope(c)
    BY <1>3, Zenon DEF Has
  <2>2. n \in 1..Size(c) /\ n < call[c].at
    BY <1>3, <2>1 DEF Taken
  <2>3. n = call[c].at
    BY <1>3, <2>1, <2>2, ScopeFacts, Zenon
  <2> QED
    BY <1>3, <2>2, <2>3, PathFacts
<1> QED
  BY <1>1, <1>2, <1>3, Zenon DEF Has

-----------------------------------------------------------------------------
(* What a step leaves alone. *)

\* A call that does not move, while its tokens may run out or be renewed.
LEMMA CallKept ==
    ASSUME NEW c \in Calls, CallInv(c),
           call'[c].pc = call[c].pc, call'[c].on = call[c].on, call'[c].at = call[c].at,
           call'[c].limits = call[c].limits, call'[c].reply = call[c].reply,
           \A s \in Scopes : /\ \A i \in Instances : <<s, c>> \in held'[i] <=> <<s, c>> \in held[i]
                             /\ <<s, c>> \in flight' => <<s, c>> \in flight
                             /\ <<s, c>> \in leaked' <=> <<s, c>> \in leaked
                             /\ slot'[s][c] > 0 => slot[s][c] > 0
                             /\ call[c].pc = "wait" /\ slot[s][c] >= TTL - Age(c) =>
                                  slot'[s][c] >= TTL - Age(c)'
    PROVE  CallInv(c)'
<1>1. Shape(c)'
  BY Zenon DEF CallInv, Shape, Limit, Size
<1>2. Taken(c)' = Taken(c) /\ Scope(c)' = Scope(c)
  BY Zenon DEF Taken, Scope, Size
<1>3. \A s : Has(c, s)' = Has(c, s)
  BY <1>2, HasFacts, Zenon
<1>4. ASSUME NEW s \in Scopes PROVE Token(s, c)'
  <2>1. Token(s, c)
    BY Zenon DEF CallInv
  <2> QED
    BY <1>2, <1>3, <2>1, Zenon DEF Token, Size
<1> QED
  BY <1>1, <1>4, Zenon DEF CallInv

\* A call moves, and no token of another one changes.
LEMMA OthersKept ==
    ASSUME Inv, NEW c \in Calls, NEW k \in Call, call' = [call EXCEPT ![c] = k],
           \A d \in Calls \ {c}, s \in Scopes :
              /\ \A i \in Instances : <<s, d>> \in held'[i] <=> <<s, d>> \in held[i]
              /\ <<s, d>> \in flight' => <<s, d>> \in flight
              /\ <<s, d>> \in leaked' <=> <<s, d>> \in leaked
              /\ slot'[s][d] = slot[s][d]
    PROVE  /\ call' \in [Calls -> Call] /\ call'[c] = k
           /\ CallInv(c)' => \A d \in Calls : CallInv(d)'
<1>1. call \in [Calls -> Call]
  BY Zenon DEF Inv, TypeOK
<1>2. /\ call' \in [Calls -> Call] /\ call'[c] = k
      /\ \A d \in Calls \ {c} : call'[d] = call[d]
  BY <1>1, Zenon
<1>3. ASSUME NEW d \in Calls, d # c PROVE CallInv(d)'
  <2>1. CallInv(d) /\ call'[d] = call[d] /\ Age(d)' = Age(d)
    BY <1>2, <1>3, Zenon DEF Inv, Age
  <2> QED
    BY <1>3, <2>1, CallKept, Zenon
<1> QED
  BY <1>2, <1>3, Zenon

LEMMA ScopeKept ==
    ASSUME NEW s \in Scopes, ScopeInv(s), slot'[s] = slot[s], expiry'[s] = expiry[s]
    PROVE  ScopeInv(s)'
<1>1. Live(s)' = Live(s)
  BY Zenon DEF Live
<1> QED
  BY <1>1, Zenon DEF ScopeInv

\* An instance takes no new token, and its tokens lose no life.
LEMMA TimedKept ==
    ASSUME NEW i \in Instances, Timed(i), renewal'[i] = renewal[i], held'[i] \subseteq held[i],
           \A t \in held'[i] : slot[t[1]][t[2]] >= Need(renewal[i], t) => slot'[t[1]][t[2]] >= Need(renewal[i], t)
    PROVE  Timed(i)'
<1>1. \A t : Need(renewal'[i], t) = Need(renewal[i], t)
  BY Zenon
<1> QED
  BY <1>1, Zenon DEF Timed

\* A step of a call that leaves Redis and the renewals alone.
LEMMA QuietStep ==
    ASSUME Inv, NEW c \in Calls, NEW k \in Call, call' = [call EXCEPT ![c] = k],
           UNCHANGED <<slot, expiry, renewal>>, held' \in [Instances -> SUBSET Tokens],
           \A i \in Instances : held'[i] \subseteq held[i],
           \A d \in Calls \ {c}, s \in Scopes, i \in Instances :
              <<s, d>> \in held[i] => <<s, d>> \in held'[i],
           flight' \subseteq Tokens, leaked' \subseteq Tokens,
           \A d \in Calls \ {c}, s \in Scopes : /\ <<s, d>> \in flight' => <<s, d>> \in flight
                                                /\ <<s, d>> \in leaked' <=> <<s, d>> \in leaked,
           CallInv(c)'
    PROVE  Inv'
<1>1. call' \in [Calls -> Call] /\ \A d \in Calls : CallInv(d)'
  <2>1. \A d \in Calls \ {c}, s \in Scopes :
              /\ \A i \in Instances : <<s, d>> \in held'[i] <=> <<s, d>> \in held[i]
              /\ <<s, d>> \in flight' => <<s, d>> \in flight
              /\ <<s, d>> \in leaked' <=> <<s, d>> \in leaked
              /\ slot'[s][d] = slot[s][d]
    BY Zenon
  <2> QED
    BY <2>1, OthersKept, Zenon
<1>2. TypeOK'
  BY <1>1, Zenon DEF Inv, TypeOK
<1>3. \A s \in Scopes : ScopeInv(s)'
  BY ScopeKept, Zenon DEF Inv
<1>4. ASSUME NEW i \in Instances PROVE Timed(i)'
  BY TimedKept, Zenon DEF Inv
<1> QED
  BY <1>1, <1>2, <1>3, <1>4, Zenon DEF Inv

-----------------------------------------------------------------------------
(* The steps of a call. *)

\* The tokens of a call that moves without a script under way or a slot to
\* remove, or was refused.
LEMMA OwnQuiet ==
    ASSUME NEW c \in Calls, CallInv(c), UNCHANGED <<slot, held, flight, leaked>>,
           call'[c].on = call[c].on, Taken(c)' = Taken(c),
           call[c].pc # "remove", call[c].pc = "wait" => call[c].reply = "full",
           call'[c].pc \notin {"new", "wait", "remove"},
           call[c].pc \in {"drop", "end"} => call'[c].pc \in {"drop", "end"}
    PROVE  \A s \in Scopes : Token(s, c)'
<1> TAKE s \in Scopes
<1>1. Token(s, c) /\ Has(c, s)' = Has(c, s)
  BY HasFacts, Zenon DEF CallInv
<1>2. <<s, c>> \in flight => <<s, c>> \in leaked
  BY <1>1, Zenon DEF Token
<1>3. slot[s][c] > 0 => <<s, c>> \in leaked \/ Has(c, s)
  BY <1>1, Zenon DEF Token
<1> QED
  BY <1>1, <1>2, <1>3, Zenon DEF Token, Size

\* The tokens of a call that goes on without knowing what became of one.
LEMMA OwnLeaks ==
    ASSUME NEW c \in Calls, CallInv(c), UNCHANGED <<slot, held, flight>>,
           leaked' = leaked \cup {<<Scope(c), c>>},
           call'[c].on = call[c].on, Taken(c)' = Taken(c),
           call[c].pc \in {"wait", "remove"}, call'[c].pc \in {"drop", "end"}
    PROVE  \A s \in Scopes : Token(s, c)'
<1> TAKE s \in Scopes
<1>1. Token(s, c) /\ Has(c, s)' = Has(c, s)
  BY HasFacts, Zenon DEF CallInv
<1>2. <<s, c>> \in flight => <<s, c>> \in leaked'
  BY <1>1, Zenon DEF Token
<1>3. slot[s][c] > 0 => <<s, c>> \in leaked' \/ Has(c, s)
  BY <1>1, Zenon DEF Token
<1> QED
  BY <1>1, <1>2, <1>3, Zenon DEF Token, Size

\* A call reads its limits, and is at its first scope.
LEMMA BeginStep ==
    ASSUME Inv, NEW c \in Calls, NEW limits \in [1..Size(c) -> Limits], Begin(c, limits)
    PROVE  Inv'
<1> DEFINE p == IF Size(c) = 0 THEN "work" ELSE "ask"
           k == [call[c] EXCEPT !.pc = p, !.at = 1, !.limits = limits]
<1>1. call[c] \in Call /\ CallInv(c) /\ call[c].pc = "new"
  BY Zenon DEF Inv, TypeOK, Begin
<1>2. call' = [call EXCEPT ![c] = k] /\ UNCHANGED <<slot, expiry, held, renewal, flight, leaked>>
  BY Zenon DEF Begin
<1>p. p \in {"work", "ask"}
  OBVIOUS
<1> HIDE DEF p
<1>3. /\ k \in Call /\ k.pc = p /\ k.at = 1 /\ k.limits = limits /\ k.on = call[c].on
      /\ k.reply = call[c].reply
  BY <1>1, <1>p, LimitsType, Zenon DEF Call
<1> HIDE DEF k
<1>4. call'[c] = k
  BY <1>2, Zenon DEF Inv, TypeOK
<1>5. call[c].reply = "none"
  BY <1>1, Zenon DEF CallInv, Shape
<1>6. Shape(c)'
  BY <1>3, <1>4, <1>5, <1>p, PathFacts DEF Shape, Limit, Size, p
<1>7. Taken(c)' = {} /\ Taken(c) = {}
  BY <1>1, <1>3, <1>4, PathFacts DEF Taken, Size, p
<1>8. \A s \in Scopes : Token(s, c)'
  BY <1>1, <1>2, <1>3, <1>4, <1>7, <1>p, OwnQuiet, Zenon
<1>9. CallInv(c)'
  BY <1>6, <1>8, Zenon DEF CallInv
<1> QED
  BY <1>2, <1>3, <1>9, QuietStep, Zenon DEF Inv, TypeOK

\* The call after it has the slot it is at.
LEMMA GrantedFields ==
    ASSUME NEW c \in Calls, call[c] \in Call, call[c].at \in 1..Size(c)
    PROVE  /\ Granted(c) \in Call
           /\ Granted(c).pc = IF call[c].at = Size(c) THEN "work" ELSE "ask"
           /\ Granted(c).at = IF call[c].at = Size(c) THEN call[c].at ELSE call[c].at + 1
           /\ Granted(c).limits = call[c].limits /\ Granted(c).on = call[c].on
           /\ Granted(c).reply = "none"
<1>1. call[c].at + 1 \in Nat /\ call[c].at \in Nat
  BY PathFacts
<1> DEFINE p == IF call[c].at = Size(c) THEN "work" ELSE "ask"
           a == IF call[c].at = Size(c) THEN call[c].at ELSE call[c].at + 1
<1>2. p \in {"work", "ask"} /\ a \in Nat
  BY <1>1
<1>3. Granted(c) = [call[c] EXCEPT !.pc = p, !.at = a, !.reply = "none", !.aged = FALSE]
  BY Zenon DEF Granted, Call
<1> HIDE DEF p, a
<1>4. /\ Granted(c) \in Call /\ Granted(c).pc = p /\ Granted(c).at = a
      /\ Granted(c).limits = call[c].limits /\ Granted(c).on = call[c].on
      /\ Granted(c).reply = "none"
  BY <1>2, <1>3, Zenon DEF Call
<1> QED
  BY <1>4, Zenon DEF p, a

\* The call after it has left the slot it is at behind.
LEMMA LeftFields ==
    ASSUME NEW c \in Calls, call[c] \in Call, call[c].at \in 1..Size(c),
           NEW k \in {Refused(c), Released(c)}, k = Released(c) => call[c].reply = "none"
    PROVE  /\ k \in Call
           /\ k.pc = IF call[c].at = 1 THEN "end" ELSE "drop"
           /\ k.at = call[c].at - 1
           /\ k.limits = call[c].limits /\ k.on = call[c].on
           /\ k.reply = "none"
<1>1. call[c].at - 1 \in Nat
  BY PathFacts
<1> DEFINE p == IF call[c].at = 1 THEN "end" ELSE "drop"
<1>2. p \in {"end", "drop"}
  OBVIOUS
<1>3. \/ k = [call[c] EXCEPT !.pc = p, !.at = call[c].at - 1, !.reply = "none", !.aged = FALSE]
      \/ k = [call[c] EXCEPT !.pc = p, !.at = call[c].at - 1] /\ call[c].reply = "none"
  BY Zenon DEF Refused, Released, Call
<1> HIDE DEF p
<1>4. /\ k \in Call /\ k.pc = p /\ k.at = call[c].at - 1
      /\ k.limits = call[c].limits /\ k.on = call[c].on /\ k.reply = "none"
  BY <1>1, <1>2, <1>3, Zenon DEF Call
<1> QED
  BY <1>4, Zenon DEF p

\* What moving on does to the slots a call has.
LEMMA TakenAfterGrant ==
    ASSUME NEW c \in Calls, call[c].at \in 1..Size(c), call[c].pc \in {"ask", "wait"},
           call'[c].limits = call[c].limits,
           call'[c].pc = IF call[c].at = Size(c) THEN "work" ELSE "ask",
           call'[c].at = IF call[c].at = Size(c) THEN call[c].at ELSE call[c].at + 1
    PROVE  /\ Limit(c) > 0 => Taken(c)' = Taken(c) \cup {call[c].at}
           /\ ~(Limit(c) > 0) => Taken(c)' = Taken(c)
<1>1. \A n \in 1..Size(c) : \/ n < call'[c].at /\ call'[c].pc = "ask"
                            \/ n <= call'[c].at /\ call'[c].pc = "work"
                            <=> n < call[c].at \/ n = call[c].at
  BY PathFacts
<1>2. Taken(c) = {n \in 1..Size(c) : n < call[c].at /\ call[c].limits[n] > 0}
  BY Zenon DEF Taken
<1>3. Taken(c)' = {n \in 1..Size(c) : (n < call[c].at \/ n = call[c].at) /\ call[c].limits[n] > 0}
  BY <1>1, Zenon DEF Taken, Size
<1> QED
  BY <1>2, <1>3, Zenon DEF Limit

LEMMA TakenAfterLeaving ==
    ASSUME NEW c \in Calls, call[c].at \in 1..Size(c), call[c].pc \in {"wait", "remove", "drop"},
           call[c].pc = "drop" => ~(Limit(c) > 0),
           call'[c].limits = call[c].limits,
           call'[c].pc = IF call[c].at = 1 THEN "end" ELSE "drop",
           call'[c].at = call[c].at - 1
    PROVE  Taken(c)' = Taken(c)
<1>1. \A n \in 1..Size(c) : call'[c].pc = "drop" /\ n <= call'[c].at <=> n < call[c].at
  BY PathFacts
<1>2. \A n \in 1..Size(c) : n <= call[c].at <=> n < call[c].at \/ n = call[c].at
  BY PathFacts
<1>3. Taken(c) = {n \in 1..Size(c) : n < call[c].at /\ call[c].limits[n] > 0}
  BY <1>2, Zenon DEF Taken, Limit
<1>4. Taken(c)' = {n \in 1..Size(c) : n < call[c].at /\ call[c].limits[n] > 0}
  BY <1>1, Zenon DEF Taken, Size
<1> QED
  BY <1>3, <1>4, Zenon

\* What is known of a call that is at a scope of its path.
LEMMA AtFacts ==
    ASSUME Inv, NEW c \in Calls
    PROVE  /\ call \in [Calls -> Call] /\ call[c] \in Call /\ CallInv(c) /\ Shape(c)
           /\ call[c].pc \in {"ask", "wait", "drop", "remove"} => call[c].at \in 1..Size(c)
           /\ held \in [Instances -> SUBSET Tokens] /\ flight \subseteq Tokens /\ leaked \subseteq Tokens
BY Zenon DEF Inv, TypeOK, CallInv, Shape

LEMMA ShapeAfterGrant ==
    ASSUME NEW c \in Calls, Shape(c), call[c].at \in 1..Size(c), call[c].pc \in {"ask", "wait"},
           call'[c] = Granted(c), call[c] \in Call
    PROVE  Shape(c)'
<1>1. call[c].at = Size(c) \/ call[c].at + 1 \in 1..Size(c)
  BY PathFacts
<1>2. call[c].limits \in [1..Size(c) -> Limits]
  BY Zenon DEF Shape
<1> QED
  BY <1>1, <1>2, GrantedFields, Zenon DEF Shape, Size, Limit

LEMMA ShapeAfterLeaving ==
    ASSUME NEW c \in Calls, Shape(c), call[c].at \in 1..Size(c),
           call[c].pc \in {"wait", "remove", "drop"},
           NEW k \in {Refused(c), Released(c)}, k = Released(c) => call[c].reply = "none",
           call'[c] = k, call[c] \in Call
    PROVE  Shape(c)'
<1>1. call[c].at = 1 \/ call[c].at - 1 \in 1..Size(c)
  BY PathFacts
<1>2. call[c].limits \in [1..Size(c) -> Limits]
  BY Zenon DEF Shape
<1> QED
  BY <1>1, <1>2, LeftFields, Zenon DEF Shape, Size, Limit

\* A limit of zero takes no slot.
LEMMA AskUnlimitedStep ==
    ASSUME Inv, NEW c \in Calls, AskUnlimited(c)
    PROVE  Inv'
<1>1. call[c].pc = "ask" /\ ~(Limit(c) > 0)
  BY DEF AskUnlimited
<1>2. call' = [call EXCEPT ![c] = Granted(c)] /\ UNCHANGED <<slot, expiry, held, renewal, flight, leaked>>
  BY Zenon DEF AskUnlimited
<1>3. call'[c] = Granted(c)
  BY <1>2, AtFacts, Zenon
<1>4. Taken(c)' = Taken(c)
  BY <1>1, <1>3, AtFacts, GrantedFields, TakenAfterGrant, Zenon
<1>5. Shape(c)'
  BY <1>1, <1>3, AtFacts, ShapeAfterGrant, Zenon
<1>6. Granted(c).pc \in {"work", "ask"} /\ Granted(c).on = call[c].on /\ Granted(c) \in Call
  BY <1>1, AtFacts, GrantedFields, Zenon
<1>7. \A s \in Scopes : Token(s, c)'
  BY <1>1, <1>2, <1>3, <1>4, <1>6, AtFacts, OwnQuiet, Zenon
<1>8. CallInv(c)'
  BY <1>5, <1>7, Zenon DEF CallInv
<1> QED
  BY <1>2, <1>6, <1>8, AtFacts, QuietStep, Zenon

\* The script of a call is sent.
LEMMA AskStep ==
    ASSUME Inv, NEW c \in Calls, Ask(c)
    PROVE  Inv'
<1> DEFINE k == [call[c] EXCEPT !.pc = "wait", !.aged = FALSE]
<1>1. call[c].pc = "ask" /\ Limit(c) > 0 /\ call[c].at \in 1..Size(c) /\ call[c].reply = "none"
  BY AtFacts, Zenon DEF Ask, Shape
<1>2. /\ call' = [call EXCEPT ![c] = k] /\ flight' = flight \cup {<<Scope(c), c>>}
      /\ UNCHANGED <<slot, expiry, held, renewal, leaked>>
  BY Zenon DEF Ask
<1>3. /\ k \in Call /\ k.pc = "wait" /\ k.at = call[c].at /\ k.limits = call[c].limits
      /\ k.on = call[c].on /\ k.reply = call[c].reply
  BY AtFacts, Zenon DEF Call
<1> HIDE DEF k
<1>4. call'[c] = k
  BY <1>2, AtFacts, Zenon
<1>5. Shape(c)'
  BY <1>1, <1>3, <1>4, AtFacts, Zenon DEF Shape, Size, Limit
<1>6. Taken(c)' = Taken(c) /\ Scope(c)' = Scope(c)
  BY <1>1, <1>3, <1>4, Zenon DEF Taken, Scope, Size
<1>7. Scope(c) \in Scopes /\ \E n \in 1..Size(c) : Path[c][n] = Scope(c)
  BY <1>1, ScopeFacts, Zenon DEF Scope
<1>8. ASSUME NEW s \in Scopes PROVE Token(s, c)'
  <2>1. Token(s, c) /\ Has(c, s)' = Has(c, s)
    BY <1>6, AtFacts, HasFacts, Zenon DEF CallInv
  <2>2. <<s, c>> \notin flight /\ <<s, c>> \notin leaked
    BY <1>1, <2>1, Zenon DEF Token
  <2>3. slot[s][c] > 0 => Has(c, s)
    BY <1>1, <2>1, <2>2, Zenon DEF Token
  <2>4. <<s, c>> \in flight' => s = Scope(c)
    BY <1>2, <2>2, Zenon
  <2> QED
    <3>1. \A i \in Instances : <<s, c>> \in held'[i] <=> call'[c].on = i /\ Has(c, s)'
      BY <1>2, <1>3, <1>4, <2>1, Zenon DEF Token
    <3>2. call'[c].pc = "wait" /\ call'[c].reply = "none" /\ Scope(c)' = Scope(c)
      BY <1>1, <1>3, <1>4, <1>6, Zenon
    <3>3. slot'[s][c] > 0 => Has(c, s)'
      BY <1>2, <2>1, <2>3, Zenon
    <3>4. <<s, c>> \in flight' => \E n \in 1..Size(c) : Path[c][n] = s
      BY <1>7, <2>4, Zenon
    <3>5. <<s, c>> \notin leaked'
      BY <1>2, <2>2, Zenon
    <3> QED
      BY <2>4, <3>1, <3>2, <3>3, <3>4, <3>5, Zenon DEF Token, Size
<1>9. CallInv(c)'
  BY <1>5, <1>8, Zenon DEF CallInv
<1>10. flight' \subseteq Tokens
  <2>1. <<Scope(c), c>> \in Tokens
    BY <1>7 DEF Tokens
  <2> QED
    BY <1>2, <2>1, AtFacts, Zenon
<1>11. \A d \in Calls \ {c}, s \in Scopes : <<s, d>> \in flight' => <<s, d>> \in flight
  BY <1>2
<1> QED
  BY <1>2, <1>3, <1>9, <1>10, <1>11, AtFacts, QuietStep, Zenon

\* A call is refused, and gives back the slots it has.
LEMMA AcquireFullStep ==
    ASSUME Inv, NEW c \in Calls, AcquireFull(c)
    PROVE  Inv'
<1>1. call[c].pc = "wait" /\ call[c].reply = "full"
  BY Zenon DEF AcquireFull
<1>2. call' = [call EXCEPT ![c] = Refused(c)] /\ UNCHANGED <<slot, expiry, held, renewal, flight, leaked>>
  BY Zenon DEF AcquireFull
<1>3. call'[c] = Refused(c) /\ (Refused(c) = Released(c) => call[c].reply = "none")
  <2>1. Refused(c).reply = "none" /\ Released(c).reply = call[c].reply
    BY AtFacts DEF Refused, Released, Call
  <2> QED
    BY <1>2, <2>1, AtFacts, Zenon
<1>4. /\ Refused(c) \in Call /\ Refused(c).pc \in {"end", "drop"} /\ Refused(c).on = call[c].on
      /\ Taken(c)' = Taken(c) /\ Shape(c)'
  BY <1>1, <1>3, AtFacts, LeftFields, TakenAfterLeaving, ShapeAfterLeaving, Zenon
<1>5. \A s \in Scopes : Token(s, c)'
  BY <1>1, <1>2, <1>3, <1>4, AtFacts, OwnQuiet, Zenon
<1>6. CallInv(c)'
  BY <1>4, <1>5, Zenon DEF CallInv
<1> QED
  BY <1>2, <1>4, <1>6, AtFacts, QuietStep, Zenon

\* A call gives up on the slot it is at, or on removing it.
LEMMA FailsStep ==
    ASSUME Inv, NEW c \in Calls, AcquireFails(c) \/ RemoveFails(c)
    PROVE  Inv'
<1> DEFINE k == IF call[c].pc = "wait" THEN Refused(c) ELSE Released(c)
<1>1. /\ call[c].pc \in {"wait", "remove"} /\ call[c].at \in 1..Size(c)
      /\ call' = [call EXCEPT ![c] = k] /\ leaked' = leaked \cup {<<Scope(c), c>>}
      /\ UNCHANGED <<slot, expiry, held, renewal, flight>>
  BY AtFacts, Zenon DEF AcquireFails, RemoveFails
<1>2. k \in {Refused(c), Released(c)} /\ (k = Released(c) => call[c].reply = "none")
  <2>1. CASE call[c].pc = "wait"
    <3>1. Refused(c).reply = "none" /\ Released(c).reply = call[c].reply
      BY AtFacts DEF Refused, Released, Call
    <3> QED
      BY <2>1, <3>1, Zenon
  <2>2. CASE call[c].pc # "wait"
    BY <2>2, AtFacts, Zenon DEF Shape
  <2> QED
    BY <2>1, <2>2, Zenon
<1> HIDE DEF k
<1>3. call'[c] = k
  BY <1>1, AtFacts, Zenon
<1>4. /\ k \in Call /\ k.pc \in {"end", "drop"} /\ k.on = call[c].on
      /\ Taken(c)' = Taken(c) /\ Shape(c)'
  BY <1>1, <1>2, <1>3, AtFacts, LeftFields, TakenAfterLeaving, ShapeAfterLeaving, Zenon
<1>5. \A s \in Scopes : Token(s, c)'
  BY <1>1, <1>3, <1>4, AtFacts, OwnLeaks, Zenon
<1>6. CallInv(c)'
  BY <1>4, <1>5, Zenon DEF CallInv
<1>7. leaked' \subseteq Tokens
  <2>1. <<Scope(c), c>> \in Tokens
    BY <1>1, ScopeFacts DEF Tokens
  <2> QED
    BY <1>1, <2>1, AtFacts, Zenon
<1>8. \A d \in Calls \ {c}, s \in Scopes : <<s, d>> \in leaked' <=> <<s, d>> \in leaked
  BY <1>1
<1> QED
  BY <1>1, <1>4, <1>6, <1>7, <1>8, AtFacts, QuietStep, Zenon

\* The work of a call is done.
LEMMA FinishStep ==
    ASSUME Inv, NEW c \in Calls, Finish(c)
    PROVE  Inv'
<1> DEFINE p == IF Size(c) = 0 THEN "end" ELSE "drop"
           k == [call[c] EXCEPT !.pc = p]
<1>1. call[c].pc = "work" /\ (call[c].at = Size(c) \/ Size(c) = 0) /\ call[c].reply = "none"
  BY AtFacts, Zenon DEF Finish, Shape
<1>2. call' = [call EXCEPT ![c] = k] /\ UNCHANGED <<slot, expiry, held, renewal, flight, leaked>>
  BY Zenon DEF Finish
<1>p. p \in {"end", "drop"}
  OBVIOUS
<1> HIDE DEF p
<1>3. /\ k \in Call /\ k.pc = p /\ k.at = call[c].at /\ k.limits = call[c].limits
      /\ k.on = call[c].on /\ k.reply = call[c].reply
  BY <1>p, AtFacts, Zenon DEF Call
<1> HIDE DEF k
<1>4. call'[c] = k
  BY <1>2, AtFacts, Zenon
<1>5. Size(c) # 0 => call[c].at \in 1..Size(c)
  BY <1>1, PathFacts
<1>6. Shape(c)'
  BY <1>1, <1>3, <1>4, <1>5, <1>p, AtFacts, Zenon DEF Shape, Size, Limit, p
<1>7. Taken(c)' = Taken(c)
  <2>1. CASE Size(c) = 0
    BY <2>1, PathFacts DEF Taken, Size
  <2>2. CASE Size(c) # 0
    BY <1>1, <1>3, <1>4, <2>2, Zenon DEF Taken, Size, p
  <2> QED
    BY <2>1, <2>2, Zenon
<1>8. \A s \in Scopes : Token(s, c)'
  BY <1>1, <1>2, <1>3, <1>4, <1>7, <1>p, AtFacts, OwnQuiet, Zenon
<1>9. CallInv(c)'
  BY <1>6, <1>8, Zenon DEF CallInv
<1> QED
  BY <1>2, <1>3, <1>9, AtFacts, QuietStep, Zenon

\* A scope that was unlimited has nothing to release.
LEMMA DropUnlimitedStep ==
    ASSUME Inv, NEW c \in Calls, DropUnlimited(c)
    PROVE  Inv'
<1>1. call[c].pc = "drop" /\ ~(Limit(c) > 0) /\ call[c].reply = "none"
  <2>1. call[c].pc = "drop" /\ ~(Limit(c) > 0)
    BY DEF DropUnlimited
  <2> QED
    BY <2>1, AtFacts, Zenon DEF Shape
<1>2. call' = [call EXCEPT ![c] = Released(c)] /\ UNCHANGED <<slot, expiry, held, renewal, flight, leaked>>
  BY Zenon DEF DropUnlimited
<1>3. call'[c] = Released(c)
  BY <1>2, AtFacts, Zenon
<1>4. /\ Released(c) \in Call /\ Released(c).pc \in {"end", "drop"} /\ Released(c).on = call[c].on
      /\ Taken(c)' = Taken(c) /\ Shape(c)'
  BY <1>1, <1>3, AtFacts, LeftFields, TakenAfterLeaving, ShapeAfterLeaving, Zenon
<1>5. \A s \in Scopes : Token(s, c)'
  BY <1>1, <1>2, <1>3, <1>4, AtFacts, OwnQuiet, Zenon
<1>6. CallInv(c)'
  BY <1>4, <1>5, Zenon DEF CallInv
<1> QED
  BY <1>2, <1>4, <1>6, AtFacts, QuietStep, Zenon

\* What taking or dropping the slot a call is at does to the slots it has.
LEMMA HasAfter ==
    ASSUME NEW c \in Calls, call[c].at \in 1..Size(c)
    PROVE  /\ Taken(c)' = Taken(c) \cup {call[c].at} =>
                \A s : Has(c, s)' <=> Has(c, s) \/ s = Scope(c)
           /\ Taken(c)' = Taken(c) \ {call[c].at} =>
                \A s : Has(c, s)' <=> Has(c, s) /\ s # Scope(c)
<1>1. \A n \in Taken(c) : n \in 1..Size(c)
  BY Zenon DEF Taken
<1>2. Path[c][call[c].at] = Scope(c)
  BY Zenon DEF Scope
<1>3. \A n \in Taken(c) : n = call[c].at <=> Path[c][n] = Scope(c)
  BY <1>1, <1>2, ScopeFacts, Zenon
<1>4. Taken(c)' = Taken(c) \cup {call[c].at} => \A s : Has(c, s)' <=> Has(c, s) \/ s = Scope(c)
  BY <1>2, <1>3, Zenon DEF Has
<1>5. Taken(c)' = Taken(c) \ {call[c].at} => \A s : Has(c, s)' <=> Has(c, s) /\ s # Scope(c)
  BY <1>2, <1>3, Zenon DEF Has
<1> QED
  BY <1>4, <1>5, Zenon

\* A call forgets the token of the slot it is at.
LEMMA DropStep ==
    ASSUME Inv, NEW c \in Calls, Drop(c)
    PROVE  Inv'
<1> DEFINE k == [call[c] EXCEPT !.pc = "remove"]
<1>1. call[c].pc = "drop" /\ Limit(c) > 0 /\ call[c].at \in 1..Size(c) /\ call[c].reply = "none"
  BY AtFacts, Zenon DEF Drop, Shape
<1>2. /\ call' = [call EXCEPT ![c] = k] /\ UNCHANGED <<slot, expiry, renewal, flight, leaked>>
      /\ held' = [held EXCEPT ![call[c].on] = held[call[c].on] \ {<<Scope(c), c>>}]
  BY Zenon DEF Drop
<1>3. /\ k \in Call /\ k.pc = "remove" /\ k.at = call[c].at /\ k.limits = call[c].limits
      /\ k.on = call[c].on /\ k.reply = call[c].reply
  BY AtFacts, Zenon DEF Call
<1> HIDE DEF k
<1>4. call'[c] = k
  BY <1>2, AtFacts, Zenon
<1>5. Shape(c)'
  BY <1>1, <1>3, <1>4, AtFacts, Zenon DEF Shape, Size, Limit
<1>6. Taken(c)' = Taken(c) \ {call[c].at} /\ Scope(c)' = Scope(c)
  <2>1. \A n \in 1..Size(c) : n < call[c].at <=> n <= call[c].at /\ n # call[c].at
    BY <1>1, PathFacts
  <2>2. Taken(c) = {n \in 1..Size(c) : n <= call[c].at /\ call[c].limits[n] > 0}
    BY <1>1, Zenon DEF Taken
  <2>3. Taken(c)' = {n \in 1..Size(c) : n < call[c].at /\ call[c].limits[n] > 0}
    BY <1>3, <1>4, Zenon DEF Taken, Size
  <2>4. Scope(c)' = Scope(c)
    BY <1>3, <1>4, Zenon DEF Scope
  <2>5. \A n : n \in Taken(c)' <=> n \in Taken(c) /\ n # call[c].at
    BY <2>1, <2>2, <2>3, Zenon
  <2>6. Taken(c)' = Taken(c) \ {call[c].at}
    BY <2>5
  <2> QED
    BY <2>4, <2>6, Zenon
<1>7. /\ held' \in [Instances -> SUBSET Tokens]
      /\ \A i \in Instances :
           held'[i] = IF i = call[c].on THEN held[i] \ {<<Scope(c), c>>} ELSE held[i]
  BY <1>2, AtFacts, Zenon
<1>8. ASSUME NEW s \in Scopes PROVE Token(s, c)'
  <2>1. Token(s, c) /\ (Has(c, s)' <=> Has(c, s) /\ s # Scope(c))
    BY <1>1, <1>6, AtFacts, HasAfter, Zenon DEF CallInv
  <2>2. \A i \in Instances : <<s, c>> \in held'[i] <=> <<s, c>> \in held[i] /\ (i = call[c].on => s # Scope(c))
    BY <1>7
  <2>3. \A i \in Instances : <<s, c>> \in held'[i] <=> call[c].on = i /\ Has(c, s)'
    BY <2>1, <2>2, Zenon DEF Token
  <2>4. <<s, c>> \in flight => <<s, c>> \in leaked
    BY <1>1, <2>1, Zenon DEF Token
  <2>5. slot[s][c] > 0 => <<s, c>> \in leaked \/ Has(c, s)' \/ s = Scope(c)
    BY <1>1, <2>1, Zenon DEF Token
  <2>6. <<s, c>> \in flight => \E n \in 1..Size(c) : Path[c][n] = s
    BY <2>1, Zenon DEF Token
  <2>7. call'[c].pc = "remove" /\ call'[c].on = call[c].on /\ Scope(c)' = Scope(c)
    BY <1>3, <1>4, <1>6, Zenon
  <2> QED
    BY <1>2, <2>3, <2>4, <2>5, <2>6, <2>7, Zenon DEF Token, Size
<1>9. CallInv(c)'
  BY <1>5, <1>8, Zenon DEF CallInv
<1>10. /\ \A i \in Instances : held'[i] \subseteq held[i]
       /\ \A d \in Calls \ {c}, s \in Scopes, i \in Instances :
            <<s, d>> \in held[i] => <<s, d>> \in held'[i]
  BY <1>7
<1> QED
  BY <1>2, <1>3, <1>7, <1>9, <1>10, AtFacts, QuietStep, Zenon

-----------------------------------------------------------------------------
(* The sorted sets. *)

\* A sorted set changes: it outlives its tokens still.
LEMMA ScopeSet ==
    ASSUME TypeOK, NEW s \in Scopes, NEW tokens \in [Calls -> 0..TTL], NEW ttl \in 0..TTL,
           SetScope(s, tokens, ttl), \A c \in Calls : tokens[c] <= ttl
    PROVE  /\ slot' \in [Scopes -> [Calls -> 0..TTL]] /\ expiry' \in [Scopes -> 0..TTL]
           /\ slot'[s] = tokens /\ \A c \in Calls : slot'[s][c] <= expiry'[s]
           /\ \A r \in Scopes \ {s} : slot'[r] = slot[r] /\ expiry'[r] = expiry[r]
<1> DEFINE e == IF \E c \in Calls : tokens[c] > 0 THEN ttl ELSE 0
<1>1. 0 \in 0..TTL
  BY TimeAssumption
<1>2. e \in 0..TTL
  BY <1>1, Zenon
<1>3. slot' = [slot EXCEPT ![s] = tokens] /\ expiry' = [expiry EXCEPT ![s] = e]
  BY Zenon DEF SetScope
<1>4. ASSUME NEW c \in Calls PROVE tokens[c] <= e
  <2>1. tokens[c] \in 0..TTL
    BY Zenon
  <2>2. tokens[c] > 0 \/ tokens[c] = 0
    BY <2>1, TimeAssumption
  <2>3. CASE tokens[c] > 0
    BY <2>3, Zenon
  <2>4. CASE ~(\E d \in Calls : tokens[d] > 0)
    <3>1. tokens[c] = 0 /\ e = 0
      BY <2>2, <2>4, Zenon
    <3> HIDE DEF e
    <3> QED
      BY <3>1
  <2>5. CASE \E d \in Calls : tokens[d] > 0
    BY <2>5, Zenon
  <2> QED
    BY <2>4, <2>5, Zenon
<1> HIDE DEF e
<1> QED
  BY <1>2, <1>3, <1>4, Zenon DEF TypeOK

\* A sorted set that gets no new token holds no more than allowed.
LEMMA FewerLive ==
    ASSUME NEW s \in Scopes, ScopeInv(s), Live(s)' \subseteq Live(s),
           \A c \in Calls : slot'[s][c] <= expiry'[s]
    PROVE  ScopeInv(s)'
<1>1. /\ IsFiniteSet(Live(s)') /\ Cardinality(Live(s)') <= Cardinality(Live(s))
      /\ Cardinality(Live(s)) \in Nat /\ Cardinality(Live(s)') \in Nat
  BY FS_Subset, FS_CardinalityType, Zenon DEF ScopeInv
<1>2. Cardinality(Live(s)) <= MaxLimit
  BY Zenon DEF ScopeInv
<1>3. Cardinality(Live(s)') <= MaxLimit
  BY <1>1, <1>2, LimitsAssumption
<1> QED
  BY <1>1, <1>3, Zenon DEF ScopeInv

\* The slot a call has dropped is removed.
LEMMA RemoveStep ==
    ASSUME Inv, NEW c \in Calls, Remove(c)
    PROVE  Inv'
<1>1. call[c].pc = "remove" /\ call[c].at \in 1..Size(c) /\ call[c].reply = "none"
  BY AtFacts, Zenon DEF Remove, Shape
<1>r. PICK r \in Scopes : r = Scope(c)
  BY <1>1, ScopeFacts, Zenon
<1> DEFINE tokens == [slot[r] EXCEPT ![c] = 0]
<1>2. /\ call' = [call EXCEPT ![c] = Released(c)] /\ UNCHANGED <<held, renewal, flight, leaked>>
      /\ SetScope(r, tokens, expiry[r])
  BY <1>r, Zenon DEF Remove
<1>3. TypeOK /\ ScopeInv(r) /\ slot[r] \in [Calls -> 0..TTL] /\ expiry[r] \in 0..TTL /\ 0 \in 0..TTL
  BY <1>1, TimeAssumption DEF Inv, TypeOK
<1>4. /\ tokens \in [Calls -> 0..TTL] /\ tokens[c] = 0
      /\ \A d \in Calls \ {c} : tokens[d] = slot[r][d]
  BY <1>3, Zenon
<1> HIDE DEF tokens
<1>5. \A d \in Calls : tokens[d] <= expiry[r]
  <2>1. 0 <= expiry[r]
    BY <1>3, TimeAssumption
  <2> QED
    BY <1>3, <1>4, <2>1, Zenon DEF ScopeInv
<1>6. /\ slot' \in [Scopes -> [Calls -> 0..TTL]] /\ expiry' \in [Scopes -> 0..TTL]
      /\ slot'[r] = tokens /\ \A d \in Calls : slot'[r][d] <= expiry'[r]
      /\ \A s \in Scopes \ {r} : slot'[s] = slot[s] /\ expiry'[s] = expiry[s]
  BY <1>1, <1>2, <1>3, <1>4, <1>5, ScopeSet, Zenon
<1>7. \A s \in Scopes : ScopeInv(s)'
  <2>1. ~(0 > 0)
    OBVIOUS
  <2>2. Live(r)' \subseteq Live(r)
    BY <1>4, <1>6, <2>1, Zenon DEF Live
  <2>3. ScopeInv(r)'
    BY <1>1, <1>3, <1>6, <2>2, FewerLive, Zenon
  <2> QED
    BY <1>6, <2>3, ScopeKept, Zenon DEF Inv
<1>8. call'[c] = Released(c)
  BY <1>2, AtFacts, Zenon
<1>9. /\ Released(c) \in Call /\ Released(c).pc \in {"end", "drop"} /\ Released(c).on = call[c].on
      /\ Taken(c)' = Taken(c) /\ Shape(c)'
  BY <1>1, <1>8, AtFacts, LeftFields, TakenAfterLeaving, ShapeAfterLeaving, Zenon
<1>10. ASSUME NEW s \in Scopes PROVE Token(s, c)'
  <2>1. Token(s, c) /\ Has(c, s)' = Has(c, s)
    BY <1>9, AtFacts, HasFacts, Zenon DEF CallInv
  <2>2. slot'[s][c] > 0 => s # r /\ slot'[s] = slot[s]
    <3>1. ~(0 > 0)
      OBVIOUS
    <3> QED
      BY <1>4, <1>6, <3>1, Zenon
  <2>3. slot'[s][c] > 0 => <<s, c>> \in leaked \/ Has(c, s)
    BY <1>1, <1>r, <2>1, <2>2, Zenon DEF Token
  <2>4. <<s, c>> \in flight => <<s, c>> \in leaked
    BY <1>1, <2>1, Zenon DEF Token
  <2> QED
    BY <1>1, <1>2, <1>8, <1>9, <2>1, <2>3, <2>4, Zenon DEF Token, Size
<1>11. CallInv(c)'
  BY <1>9, <1>10, Zenon DEF CallInv
<1>12. \A s \in Scopes, d \in Calls \ {c} : slot'[s][d] = slot[s][d]
  BY <1>4, <1>6, Zenon
<1>13. call' \in [Calls -> Call] /\ \A d \in Calls : CallInv(d)'
  <2> DEFINE k == Released(c)
  <2>1. k \in Call /\ call' = [call EXCEPT ![c] = k]
    BY <1>2, <1>9, Zenon
  <2> HIDE DEF k
  <2>2. call' \in [Calls -> Call] /\ (CallInv(c)' => \A d \in Calls : CallInv(d)')
    BY <1>2, <1>12, <2>1, OthersKept, Zenon
  <2> QED
    BY <1>11, <2>2, Zenon
<1>14. TypeOK'
  BY <1>2, <1>6, <1>13, Zenon DEF Inv, TypeOK
<1>15. ASSUME NEW i \in Instances PROVE Timed(i)'
  <2>1. ASSUME NEW t \in held[i] PROVE slot'[t[1]][t[2]] = slot[t[1]][t[2]]
    <3>1. t \in Tokens
      BY <2>1, AtFacts, Zenon
    <3>2. t[1] \in Scopes /\ t[2] \in Calls /\ t = <<t[1], t[2]>>
      BY <3>1 DEF Tokens
    <3>3. CASE t[2] = c
      <4>1. Token(t[1], c) /\ <<t[1], c>> \in held[i]
        BY <2>1, <3>2, <3>3, AtFacts, Zenon DEF CallInv
      <4>2. Has(c, t[1])
        BY <4>1, Zenon DEF Token
      <4>3. t[1] # r
        BY <1>1, <1>r, <4>2, HasFacts, Zenon
      <4> QED
        BY <1>6, <3>2, <4>3, Zenon
    <3>4. CASE t[2] # c
      BY <1>12, <3>2, <3>4, Zenon
    <3> QED
      BY <3>3, <3>4, Zenon
  <2> QED
    BY <1>2, <2>1, TimedKept, Zenon DEF Inv
<1> QED
  BY <1>7, <1>13, <1>14, <1>15, Zenon DEF Inv

\* A slot is taken only in a scope that holds less than some limit.
LEMMA OneMoreFits ==
    ASSUME Inv, NEW s \in Scopes, NEW c \in Calls, <<s, c>> \in flight,
           Fits(s, call[c].limits[Index(c, s)]), Live(s)' \subseteq Live(s) \cup {c}
    PROVE  IsFiniteSet(Live(s)') /\ Cardinality(Live(s)') <= MaxLimit
<1>1. Token(s, c) /\ Shape(c) /\ ScopeInv(s)
  BY Zenon DEF Inv, CallInv
<1>2. call[c].limits \in [1..Size(c) -> Limits] /\ \E n \in 1..Size(c) : Path[c][n] = s
  BY <1>1, Zenon DEF Token, Shape
<1>3. Index(c, s) \in 1..Size(c)
  BY <1>2, Zenon DEF Index
<1>4. call[c].limits[Index(c, s)] \in Limits
  BY <1>2, <1>3, Zenon
<1>5. call[c].limits[Index(c, s)] \in Nat /\ call[c].limits[Index(c, s)] <= MaxLimit
  <2>1. call[c].limits[Index(c, s)] \in 0..MaxLimit
    BY <1>4, LimitsAssumption, Zenon
  <2>2. \A n \in 0..MaxLimit : n \in Nat /\ n <= MaxLimit
    BY LimitsAssumption
  <2> QED
    BY <2>1, <2>2, Zenon
<1>6. /\ IsFiniteSet(Live(s)) /\ Cardinality(Live(s)) \in Nat
      /\ Cardinality(Live(s)) < call[c].limits[Index(c, s)]
  BY <1>1, FS_CardinalityType, Zenon DEF ScopeInv, Fits
<1>7. /\ IsFiniteSet(Live(s) \cup {c}) /\ Cardinality(Live(s) \cup {c}) \in Nat
      /\ \/ Cardinality(Live(s) \cup {c}) = Cardinality(Live(s))
         \/ Cardinality(Live(s) \cup {c}) = Cardinality(Live(s)) + 1
  BY <1>6, FS_AddElement, FS_CardinalityType
<1>8. /\ IsFiniteSet(Live(s)') /\ Cardinality(Live(s)') \in Nat
      /\ Cardinality(Live(s)') <= Cardinality(Live(s) \cup {c})
  BY <1>7, FS_Subset, FS_CardinalityType, Zenon
<1> QED
  BY <1>5, <1>6, <1>7, <1>8, LimitsAssumption

\* The script that takes a slot runs, whether its caller waits for it or not.
LEMMA AcquireScriptStep ==
    ASSUME Inv, NEW s \in Scopes, NEW c \in Calls, AcquireScript(s, c)
    PROVE  Inv'
<1> DEFINE waiting == call[c].pc = "wait" /\ Scope(c) = s
           taken == Fits(s, call[c].limits[Index(c, s)])
           answer == IF taken THEN "taken" ELSE "full"
           k == IF waiting THEN [call[c] EXCEPT !.reply = answer] ELSE call[c]
           tokens == [slot[s] EXCEPT ![c] = TTL]
<1>1. /\ <<s, c>> \in flight /\ flight' = flight \ {<<s, c>>} /\ UNCHANGED <<held, renewal, leaked>>
      /\ IF taken THEN SetScope(s, tokens, TTL) ELSE UNCHANGED <<slot, expiry>>
  BY Zenon DEF AcquireScript
<1>2. call' = [call EXCEPT ![c] = k]
  BY AtFacts, Zenon DEF AcquireScript
<1>a. answer \in {"taken", "full"} /\ (answer = "taken" <=> taken)
  OBVIOUS
<1> HIDE DEF taken, answer
<1>3. /\ k \in Call /\ k.pc = call[c].pc /\ k.at = call[c].at /\ k.limits = call[c].limits
      /\ k.on = call[c].on /\ k.aged = call[c].aged
      /\ k.reply = IF waiting THEN answer ELSE call[c].reply
  <2>1. CASE waiting
    <3>1. k = [call[c] EXCEPT !.reply = answer]
      BY <2>1, Zenon
    <3> HIDE DEF k
    <3> QED
      BY <1>a, <2>1, <3>1, AtFacts, Zenon DEF Call
  <2>2. CASE ~waiting
    BY <2>2, AtFacts, Zenon
  <2> QED
    BY <2>1, <2>2, Zenon
<1> HIDE DEF k, waiting
<1>4. call'[c] = k
  BY <1>2, AtFacts, Zenon
<1>5. Taken(c)' = Taken(c) /\ Scope(c)' = Scope(c) /\ Age(c)' = Age(c) /\ Limit(c)' = Limit(c)
  BY <1>3, <1>4, Zenon DEF Taken, Scope, Size, Age, Limit
<1>6. Shape(c)'
  BY <1>3, <1>4, <1>5, AtFacts, Zenon DEF Shape, Size, waiting
<1>7. TypeOK /\ ScopeInv(s) /\ slot[s] \in [Calls -> 0..TTL] /\ TTL \in 0..TTL /\ TTL \in Nat
  BY TimeAssumption DEF Inv, TypeOK
<1>8. tokens \in [Calls -> 0..TTL] /\ tokens[c] = TTL /\ \A d \in Calls \ {c} : tokens[d] = slot[s][d]
  BY <1>7, Zenon
<1> HIDE DEF tokens
<1>9. /\ slot' \in [Scopes -> [Calls -> 0..TTL]] /\ expiry' \in [Scopes -> 0..TTL]
      /\ \A d \in Calls : slot'[s][d] <= expiry'[s]
      /\ slot'[s] = IF taken THEN tokens ELSE slot[s]
      /\ \A r \in Scopes \ {s} : slot'[r] = slot[r] /\ expiry'[r] = expiry[r]
  <2>1. CASE taken
    <3>1. \A d \in Calls : tokens[d] <= TTL
      BY <1>7, <1>8
    <3>2. SetScope(s, tokens, TTL)
      BY <1>1, <2>1, Zenon
    <3> QED
      BY <1>7, <1>8, <2>1, <3>1, <3>2, ScopeSet, Zenon
  <2>2. CASE ~taken
    BY <1>1, <1>7, <2>2, Zenon DEF TypeOK, ScopeInv
  <2> QED
    BY <2>1, <2>2, Zenon
<1>10. \A r \in Scopes, d \in Calls : slot'[r][d] = slot[r][d] \/ (r = s /\ d = c /\ taken /\ slot'[r][d] = TTL)
  BY <1>8, <1>9, Zenon
<1>11. \A r \in Scopes : ScopeInv(r)'
  <2>1. CASE taken
    <3>1. Live(s)' \subseteq Live(s) \cup {c}
      BY <1>10, Zenon DEF Live
    <3>2. IsFiniteSet(Live(s)') /\ Cardinality(Live(s)') <= MaxLimit
      BY <1>1, <2>1, <3>1, OneMoreFits, Zenon DEF taken
    <3>3. ScopeInv(s)'
      BY <1>9, <3>2, Zenon DEF ScopeInv
    <3> QED
      BY <1>9, <3>3, ScopeKept, Zenon DEF Inv
  <2>2. CASE ~taken
    BY <1>1, <2>2, ScopeKept, Zenon DEF Inv
  <2> QED
    BY <2>1, <2>2, Zenon
<1>12. ASSUME NEW r \in Scopes PROVE Token(r, c)'
  <2>1. Token(r, c) /\ Token(s, c) /\ Has(c, r)' = Has(c, r)
    BY <1>5, AtFacts, HasFacts, Zenon DEF CallInv
  <2>2. waiting => /\ call[c].pc = "wait" /\ Scope(c) = s /\ call[c].reply = "none"
                   /\ <<s, c>> \notin leaked /\ <<r, c>> \notin leaked /\ ~Has(c, s)
    BY <1>1, <2>1, AtFacts, HasFacts, Zenon DEF Token, waiting
  <2>3. ~waiting => <<s, c>> \in leaked
    BY <1>1, <2>1, Zenon DEF Token, waiting
  <2>4. <<r, c>> \in flight' => <<r, c>> \in flight /\ r # s
    BY <1>1
  <2>5. <<r, c>> \in flight' =>
           /\ call[c].pc # "new" /\ \E n \in 1..Size(c) : Path[c][n] = r
           /\ \/ <<r, c>> \in leaked
              \/ call[c].pc = "wait" /\ k.reply = "none" /\ Scope(c) = r
    BY <1>3, <2>1, <2>2, <2>4, Zenon DEF Token
  <2>6. slot'[r][c] > 0 =>
           \/ <<r, c>> \in leaked
           \/ Has(c, r)
           \/ call[c].pc = "wait" /\ k.reply = "taken" /\ Scope(c) = r
           \/ call[c].pc = "remove" /\ Scope(c) = r
    <3>1. CASE waiting
      BY <1>10, <1>3, <1>a, <2>1, <2>2, <3>1, Zenon DEF Token
    <3>2. CASE ~waiting
      BY <1>10, <1>3, <2>1, <2>3, <3>2, Zenon DEF Token
    <3> QED
      BY <3>1, <3>2, Zenon
  <2>7. call[c].pc = "wait" /\ k.reply = "taken" /\ Scope(c) = r => slot'[r][c] >= TTL - Age(c)
    <3>1. CASE waiting
      <4>1. TTL >= TTL - Age(c)
        BY <1>7 DEF Age
      <4>2. k.reply = "taken" => taken
        BY <1>3, <1>a, <3>1, Zenon
      <4>3. taken => slot'[s][c] = TTL
        BY <1>8, <1>9, Zenon
      <4> QED
        BY <2>2, <3>1, <4>1, <4>2, <4>3, Zenon
    <3>2. CASE ~waiting
      BY <1>10, <1>3, <2>1, <3>2, Zenon DEF Token, waiting
    <3> QED
      BY <3>1, <3>2, Zenon
  <2> QED
    BY <1>1, <1>3, <1>4, <1>5, <2>1, <2>5, <2>6, <2>7, Zenon DEF Token, Size
<1>13. CallInv(c)'
  BY <1>6, <1>12, Zenon DEF CallInv
<1>14. call' \in [Calls -> Call] /\ \A d \in Calls : CallInv(d)'
  <2>1. \A d \in Calls \ {c}, r \in Scopes : slot'[r][d] = slot[r][d]
    BY <1>10, Zenon
  <2>2. \A d \in Calls \ {c}, r \in Scopes : <<r, d>> \in flight' => <<r, d>> \in flight
    BY <1>1, Zenon
  <2> QED
    BY <1>1, <1>2, <1>3, <1>13, <2>1, <2>2, OthersKept, Zenon
<1>15. TypeOK'
  BY <1>1, <1>9, <1>14, Zenon DEF Inv, TypeOK
<1>16. ASSUME NEW i \in Instances PROVE Timed(i)'
  <2>1. ASSUME NEW t \in held[i], slot[t[1]][t[2]] >= Need(renewal[i], t)
        PROVE  slot'[t[1]][t[2]] >= Need(renewal[i], t)
    <3>1. t \in Tokens
      BY <2>1, AtFacts, Zenon
    <3>2. t[1] \in Scopes /\ t[2] \in Calls
      BY <3>1 DEF Tokens
    <3>3. slot'[t[1]][t[2]] = slot[t[1]][t[2]] \/ slot'[t[1]][t[2]] = TTL
      BY <1>10, <3>2, Zenon
    <3>4. slot[t[1]][t[2]] \in 0..TTL /\ Need(renewal[i], t) \in Int
      BY <1>7, <3>2, NeedType, TypeFacts, Zenon
    <3> QED
      BY <1>7, <2>1, <3>3, <3>4
  <2> QED
    BY <1>1, <2>1, TimedKept, Zenon DEF Inv
<1> QED
  BY <1>11, <1>14, <1>15, <1>16, Zenon DEF Inv

\* The script of a caller that gave up is lost.
LEMMA ScriptLostStep ==
    ASSUME Inv, NEW s \in Scopes, NEW c \in Calls, ScriptLost(s, c)
    PROVE  Inv'
<1>1. flight' = flight \ {<<s, c>>} /\ UNCHANGED <<slot, expiry, held, renewal, call, leaked>>
  BY Zenon DEF ScriptLost
<1>2. \A d \in Calls, r \in Scopes : <<r, d>> \in flight' => <<r, d>> \in flight
  BY <1>1, Zenon
<1>3. ASSUME NEW d \in Calls PROVE CallInv(d)'
  <2>1. CallInv(d) /\ Age(d)' = Age(d)
    BY <1>1, Zenon DEF Inv, Age
  <2> QED
    BY <1>1, <1>2, <2>1, CallKept, Zenon
<1>4. TypeOK'
  BY <1>1, Zenon DEF Inv, TypeOK
<1>5. \A r \in Scopes : ScopeInv(r)'
  BY <1>1, ScopeKept, Zenon DEF Inv
<1>6. \A i \in Instances : Timed(i)'
  BY <1>1, TimedKept, Zenon DEF Inv
<1> QED
  BY <1>3, <1>4, <1>5, <1>6, Zenon DEF Inv

-----------------------------------------------------------------------------
(* The renewals. *)

LEMMA IdleType == /\ Idle \in Renewal /\ Idle.todo = {} /\ Idle.renewing = FALSE
                  /\ [Idle EXCEPT !.renewing = TRUE, !.next = Every] \in Renewal
<1>1. 0 \in 0..Every /\ Every \in 0..Every /\ 0 \in 0..MaxMissed
  BY TimeAssumption
<1> QED
  BY <1>1, Zenon DEF Idle, Renewal

\* What the tokens an instance holds are.
LEMMA HeldFacts ==
    ASSUME Inv, NEW i \in Instances, NEW t \in held[i]
    PROVE  /\ t[1] \in Scopes /\ t[2] \in Calls /\ t = <<t[1], t[2]>>
           /\ slot[t[1]][t[2]] \in Nat /\ slot[t[1]][t[2]] <= TTL
           /\ slot[t[1]][t[2]] >= Need(renewal[i], t)
           /\ renewal[i] \in Renewal /\ renewal[i].renewing
<1>1. t \in Tokens /\ TypeOK /\ Timed(i)
  BY Zenon DEF Inv, TypeOK
<1>2. t[1] \in Scopes /\ t[2] \in Calls /\ t = <<t[1], t[2]>>
  BY <1>1 DEF Tokens
<1>3. slot[t[1]][t[2]] \in 0..TTL
  BY <1>1, <1>2, TypeFacts, Zenon
<1>4. slot[t[1]][t[2]] \in Nat /\ slot[t[1]][t[2]] <= TTL
  BY <1>3, TimeAssumption
<1> QED
  BY <1>1, <1>2, <1>4, TypeFacts, Zenon DEF Timed

\* A held token lives, and lives on through a tick.
LEMMA NeedIsPositive ==
    ASSUME NEW g \in Renewal, NEW t,
           g.todo # {} => g.next >= Every - (IF g.aged THEN 1 ELSE 0)
    PROVE  /\ Need(g, t) >= 1
           /\ g.todo # {} /\ ~g.aged => Need(g, t) >= 2
           /\ g.todo = {} => Need(g, t) >= 2
<1>1. g.next \in Nat /\ g.missed \in 0..MaxMissed
  BY RenewalFields, Zenon
<1>2. Slack(g.missed) \in Nat /\ Slack(0) \in Nat
  BY <1>1, SlackFacts, Zenon
<1>3. CASE t \in g.todo
  <2>1. Need(g, t) = g.next + 2 + (Slack(g.missed) - Every) /\ g.todo # {}
    BY <1>3, Zenon DEF Need
  <2>2. \/ ~g.aged /\ g.next >= Every - 0
        \/ g.aged /\ g.next >= Every - 1
    BY <2>1, Zenon
  <2>3. g.next >= Every - 0 => Need(g, t) >= 2
    BY <1>1, <1>2, <2>1, TimeAssumption
  <2>4. g.next >= Every - 1 => Need(g, t) >= 1
    BY <1>1, <1>2, <2>1, TimeAssumption
  <2>5. Need(g, t) \in Int /\ (Need(g, t) >= 2 => Need(g, t) >= 1)
    BY NeedType
  <2> QED
    BY <2>1, <2>2, <2>3, <2>4, <2>5, Zenon
<1>4. CASE t \notin g.todo
  <2>1. Need(g, t) = g.next + 2 + Slack(g.missed) \/ Need(g, t) = g.next + 2 + Slack(0)
    BY <1>4, Zenon DEF Need
  <2> QED
    BY <1>1, <1>2, <2>1
<1> QED
  BY <1>3, <1>4, Zenon

\* A step of the renewal goroutine that leaves Redis alone.
LEMMA RenewalOnly ==
    ASSUME Inv, NEW i \in Instances, NEW g \in Renewal, renewal' = [renewal EXCEPT ![i] = g],
           UNCHANGED <<slot, expiry, held, call, flight, leaked>>,
           held[i] # {} => g.renewing,
           g.todo # {} => g.next >= Every - (IF g.aged THEN 1 ELSE 0),
           \A t \in held[i] : slot[t[1]][t[2]] >= Need(g, t)
    PROVE  Inv'
<1>1. renewal \in [Instances -> Renewal]
  BY Zenon DEF Inv, TypeOK
<1>2. /\ renewal' \in [Instances -> Renewal] /\ renewal'[i] = g
      /\ \A j \in Instances \ {i} : renewal'[j] = renewal[j]
  BY <1>1, Zenon
<1>3. TypeOK'
  BY <1>2, Zenon DEF Inv, TypeOK
<1>4. ASSUME NEW d \in Calls PROVE CallInv(d)'
  <2>1. CallInv(d) /\ Age(d)' = Age(d)
    BY Zenon DEF Inv, Age
  <2> QED
    BY <2>1, CallKept, Zenon
<1>5. \A r \in Scopes : ScopeInv(r)'
  BY ScopeKept, Zenon DEF Inv
<1>6. ASSUME NEW j \in Instances PROVE Timed(j)'
  <2>1. CASE j = i
    BY <1>2, <2>1, Zenon DEF Timed
  <2>2. CASE j # i
    BY <1>2, <2>2, TimedKept, Zenon DEF Inv
  <2> QED
    BY <2>1, <2>2, Zenon
<1> QED
  BY <1>3, <1>4, <1>5, <1>6, Zenon DEF Inv

LEMMA StopRenewingStep ==
    ASSUME Inv, NEW i \in Instances, StopRenewing(i)
    PROVE  Inv'
BY RenewalOnly, IdleType, Zenon DEF StopRenewing

\* The tokens held are copied, to be renewed.
LEMMA StartRenewalStep ==
    ASSUME Inv, NEW i \in Instances, StartRenewal(i)
    PROVE  Inv'
<1> DEFINE g == [renewal[i] EXCEPT !.todo = held[i], !.next = Every, !.aged = FALSE]
<1>1. /\ renewal[i].renewing /\ renewal[i].next = 0 /\ renewal[i].todo = {}
      /\ renewal' = [renewal EXCEPT ![i] = g] /\ UNCHANGED <<slot, expiry, held, call, flight, leaked>>
  BY Zenon DEF StartRenewal
<1>2. renewal[i] \in Renewal /\ held[i] \in SUBSET Tokens /\ Every \in 0..Every /\ Every >= Every - 0
  BY TimeAssumption, TypeFacts DEF Inv
<1>3. /\ g \in Renewal /\ g.todo = held[i] /\ g.next = Every /\ g.aged = FALSE
      /\ g.missed = renewal[i].missed /\ g.renewing = renewal[i].renewing
  BY <1>2, Zenon DEF Renewal
<1> HIDE DEF g
<1>4. ASSUME NEW t \in held[i] PROVE slot[t[1]][t[2]] >= Need(g, t)
  <2>1. Need(g, t) = Every + 2 + (Slack(renewal[i].missed) - Every)
    BY <1>3, Zenon DEF Need
  <2>2. Need(renewal[i], t) = 0 + 2 + Slack(renewal[i].missed)
    BY <1>1, Zenon DEF Need
  <2>3. Slack(renewal[i].missed) \in Nat
    BY <1>2, RenewalFields, SlackFacts, Zenon
  <2> QED
    BY <2>1, <2>2, <2>3, HeldFacts, TimeAssumption
<1>5. g.next >= Every - (IF g.aged THEN 1 ELSE 0)
  BY <1>2, <1>3, Zenon
<1> QED
  BY <1>1, <1>3, <1>4, <1>5, RenewalOnly, Zenon

\* One more renewal is missed: the tokens it was to renew had the life for it.
LEMMA RenewalFailsStep ==
    ASSUME Inv, NEW i \in Instances, RenewalFails(i)
    PROVE  Inv'
<1> DEFINE m == renewal[i].missed
           g == [renewal[i] EXCEPT !.todo = {}, !.aged = FALSE, !.missed = m + 1]
<1>1. /\ renewal[i].todo # {} /\ m < MaxMissed
      /\ renewal' = [renewal EXCEPT ![i] = g] /\ UNCHANGED <<slot, expiry, held, call, flight, leaked>>
  BY Zenon DEF RenewalFails
<1>2. renewal[i] \in Renewal /\ m \in 0..MaxMissed /\ renewal[i].next \in Nat
  BY TypeFacts, RenewalFields, Zenon DEF Inv
<1>3. m + 1 \in 0..MaxMissed
  BY <1>1, <1>2, TimeAssumption
<1>4. /\ g \in Renewal /\ g.todo = {} /\ g.next = renewal[i].next
      /\ g.missed = m + 1 /\ g.renewing = renewal[i].renewing
  BY <1>2, <1>3, Zenon DEF Renewal
<1> HIDE DEF g
<1>5. ASSUME NEW t \in held[i] PROVE slot[t[1]][t[2]] >= Need(g, t)
  <2>1. Need(g, t) = renewal[i].next + 2 + Slack(m + 1)
    BY <1>4, Zenon DEF Need
  <2>2. \/ Need(renewal[i], t) = renewal[i].next + 2 + (Slack(m) - Every)
        \/ Need(renewal[i], t) = renewal[i].next + 2 + Slack(0)
    BY <1>1, Zenon DEF Need
  <2>3. /\ Slack(m + 1) = Slack(m) - Every /\ Slack(m) \in Nat /\ Slack(0) \in Nat
        /\ Slack(m + 1) <= Slack(0)
    BY <1>1, <1>2, <1>3, SlackFacts, Zenon
  <2>4. slot[t[1]][t[2]] \in Nat /\ slot[t[1]][t[2]] >= Need(renewal[i], t)
    BY HeldFacts, Zenon
  <2> HIDE DEF m
  <2> QED
    BY <1>2, <2>1, <2>2, <2>3, <2>4, TimeAssumption
<1>6. held[i] # {} => g.renewing
  BY <1>4, HeldFacts, Zenon
<1> QED
  BY <1>1, <1>4, <1>5, <1>6, RenewalOnly, Zenon

\* A script of the pipeline runs: the tokens that live are renewed.
LEMMA RenewScriptStep ==
    ASSUME Inv, NEW i \in Instances, NEW s \in Scopes, RenewScript(i, s)
    PROVE  Inv'
<1> DEFINE tokens == {t \in renewal[i].todo : t[1] = s}
           left == renewal[i].todo \ tokens
           f == [c \in Calls |-> IF <<s, c>> \in tokens THEN Extended(s, c) ELSE slot[s][c]]
           ttl == IF \E t \in tokens : slot[s][t[2]] > 0 THEN TTL ELSE expiry[s]
           a == renewal[i].aged /\ left # {}
           m == IF left = {} THEN 0 ELSE renewal[i].missed
           g == [renewal[i] EXCEPT !.todo = left, !.aged = a, !.missed = m]
<1>1. /\ tokens # {} /\ SetScope(s, f, ttl) /\ renewal' = [renewal EXCEPT ![i] = g]
      /\ UNCHANGED <<held, call, flight, leaked>>
  BY Zenon DEF RenewScript
<1>2. /\ TypeOK /\ ScopeInv(s) /\ Timed(i) /\ renewal \in [Instances -> Renewal]
      /\ renewal[i] \in Renewal /\ expiry[s] \in 0..TTL
      /\ TTL \in 0..TTL /\ TTL \in Nat /\ \A c \in Calls : slot[s][c] \in 0..TTL
  BY TimeAssumption, TypeFacts DEF Inv, TypeOK
<1>3. \A c \in Calls : \/ f[c] = slot[s][c] /\ (<<s, c>> \in tokens => ~(slot[s][c] > 0))
                       \/ f[c] = TTL /\ slot[s][c] > 0 /\ <<s, c>> \in tokens
  BY Zenon DEF Extended
<1>4. f \in [Calls -> 0..TTL] /\ ttl \in 0..TTL
  <2>1. f \in [Calls -> 0..TTL]
    BY <1>2, <1>3, Zenon
  <2> QED
    BY <1>2, <2>1, Zenon
<1>5. ASSUME NEW c \in Calls PROVE f[c] <= ttl
  <2>1. slot[s][c] <= expiry[s]
    BY <1>2, Zenon DEF ScopeInv
  <2>2. expiry[s] <= TTL /\ TTL <= TTL /\ slot[s][c] <= TTL
    BY <1>2
  <2>3. \/ ttl = TTL
        \/ ttl = expiry[s] /\ ~(\E t \in tokens : slot[s][t[2]] > 0)
    <3> HIDE DEF tokens
    <3>1. CASE \E t \in tokens : slot[s][t[2]] > 0
      BY <3>1
    <3>2. CASE ~(\E t \in tokens : slot[s][t[2]] > 0)
      BY <3>2
    <3> QED
      BY <3>1, <3>2, Zenon
  <2>4. CASE f[c] = TTL /\ slot[s][c] > 0 /\ <<s, c>> \in tokens
    <3>1. <<s, c>>[2] = c
      OBVIOUS
    <3>2. ttl = TTL
      BY <2>3, <2>4, <3>1, Zenon
    <3> HIDE DEF ttl, f
    <3> QED
      BY <2>2, <2>4, <3>2, Zenon
  <2>5. CASE f[c] = slot[s][c]
    <3> HIDE DEF ttl, f
    <3> QED
      BY <2>1, <2>2, <2>3, <2>5, Zenon
  <2> QED
    BY <1>3, <2>4, <2>5, Zenon
<1> HIDE DEF f, ttl
<1>6. /\ slot' \in [Scopes -> [Calls -> 0..TTL]] /\ expiry' \in [Scopes -> 0..TTL]
      /\ slot'[s] = f /\ \A c \in Calls : slot'[s][c] <= expiry'[s]
      /\ \A r \in Scopes \ {s} : slot'[r] = slot[r] /\ expiry'[r] = expiry[r]
  BY <1>1, <1>2, <1>4, <1>5, ScopeSet, Zenon
<1>7. \A r \in Scopes, c \in Calls :
         \/ slot'[r][c] = slot[r][c] /\ (<<r, c>> \in tokens => ~(slot[r][c] > 0))
         \/ slot'[r][c] = TTL /\ slot[r][c] > 0
  <2>1. \A r \in Scopes, c \in Calls : <<r, c>> \in tokens => r = s
    OBVIOUS
  <2> QED
    BY <1>3, <1>6, <2>1, Zenon
<1>8. \A r \in Scopes : ScopeInv(r)'
  <2>1. Live(s)' \subseteq Live(s)
    BY <1>7, Zenon DEF Live
  <2>2. ScopeInv(s)'
    BY <1>2, <1>6, <2>1, FewerLive, Zenon
  <2> QED
    BY <1>6, <2>2, ScopeKept, Zenon DEF Inv
<1>9. ASSUME NEW r \in Scopes, NEW c \in Calls, NEW n \in Int, slot[r][c] >= n PROVE slot'[r][c] >= n
  <2>1. slot[r][c] \in 0..TTL
    BY <1>2, TypeFacts, Zenon
  <2>2. slot'[r][c] = slot[r][c] \/ slot'[r][c] = TTL
    BY <1>7, Zenon
  <2> QED
    BY <1>2, <1>9, <2>1, <2>2
<1>10. ASSUME NEW c \in Calls PROVE CallInv(c)'
  <2>1. CallInv(c) /\ Age(c)' = Age(c)
    BY <1>1, Zenon DEF Inv, Age
  <2>2. TTL - Age(c) \in Int
    BY <1>2 DEF Age
  <2>3. \A r \in Scopes : /\ slot'[r][c] > 0 => slot[r][c] > 0
                          /\ slot[r][c] >= TTL - Age(c) => slot'[r][c] >= TTL - Age(c)
    BY <1>7, <1>9, <2>2, Zenon
  <2> QED
    BY <1>1, <2>1, <2>3, CallKept, Zenon
<1>11. /\ left \in SUBSET Tokens /\ left \subseteq renewal[i].todo /\ a \in BOOLEAN /\ m \in 0..MaxMissed
       /\ left = {} => m = 0
       /\ left # {} => m = renewal[i].missed /\ a = renewal[i].aged
  <2>1. /\ renewal[i].todo \in SUBSET Tokens /\ renewal[i].aged \in BOOLEAN
        /\ renewal[i].missed \in 0..MaxMissed /\ 0 \in 0..MaxMissed
    BY <1>2, RenewalFields, TimeAssumption
  <2>2. left \subseteq renewal[i].todo
    BY Zenon
  <2> HIDE DEF left
  <2> QED
    BY <2>1, <2>2, Zenon
<1> HIDE DEF a, m, left
<1>12. /\ g \in Renewal /\ g.todo = left /\ g.aged = a /\ g.missed = m
       /\ g.next = renewal[i].next /\ g.renewing = renewal[i].renewing
  BY <1>2, <1>11, Zenon DEF Renewal
<1> HIDE DEF g
<1>13. /\ renewal' \in [Instances -> Renewal] /\ renewal'[i] = g
       /\ \A j \in Instances \ {i} : renewal'[j] = renewal[j]
  BY <1>1, <1>2, <1>12, Zenon
<1>14. ASSUME NEW j \in Instances, j # i PROVE Timed(j)'
  <2>1. ASSUME NEW t \in held[j], slot[t[1]][t[2]] >= Need(renewal[j], t)
        PROVE  slot'[t[1]][t[2]] >= Need(renewal[j], t)
    <3>1. Need(renewal[j], t) \in Int /\ t[1] \in Scopes /\ t[2] \in Calls
      BY HeldFacts, NeedType, Zenon
    <3> QED
      BY <1>9, <2>1, <3>1, Zenon
  <2> QED
    BY <1>1, <1>13, <1>14, <2>1, TimedKept, Zenon DEF Inv
<1>15. Timed(i)'
  <2>1. held[i] # {} => g.renewing
    BY <1>2, <1>12, Zenon DEF Timed
  <2>2. g.todo # {} => g.next >= Every - (IF g.aged THEN 1 ELSE 0)
    BY <1>1, <1>2, <1>11, <1>12, Zenon DEF Timed
  <2>3. ASSUME NEW t \in held[i] PROVE slot'[t[1]][t[2]] >= Need(g, t)
    <3>1. /\ t[1] \in Scopes /\ t[2] \in Calls /\ t = <<t[1], t[2]>>
          /\ slot[t[1]][t[2]] \in Nat /\ slot[t[1]][t[2]] >= Need(renewal[i], t)
      BY HeldFacts, Zenon
    <3>2. Need(g, t) \in Int /\ Need(g, t) <= TTL - 1 /\ Need(renewal[i], t) \in Int
      BY <1>2, <1>12, NeedType, Zenon
    <3>3. CASE t \in tokens
      <4>1. Need(renewal[i], t) >= 1
        BY <1>2, NeedIsPositive, Zenon DEF Timed
      <4>2. slot[t[1]][t[2]] > 0
        BY <3>1, <3>2, <4>1
      <4>3. slot'[t[1]][t[2]] = TTL
        BY <1>7, <3>1, <3>3, <4>2, Zenon
      <4> QED
        BY <1>2, <3>2, <4>3
    <3>4. CASE t \notin tokens
      <4>1. t \in renewal[i].todo <=> t \in left
        BY <3>4, Zenon DEF left
      <4>2. Need(g, t) = Need(renewal[i], t)
        <5>1. renewal[i].todo # {}
          BY <1>1, Zenon
        <5>2. CASE left = {}
          <6>1. /\ Need(renewal[i], t) = renewal[i].next + 2 + Slack(0)
                /\ Need(g, t) = g.next + 2 + Slack(g.missed)
            BY <1>12, <4>1, <5>1, <5>2, Zenon DEF Need
          <6> QED
            BY <1>11, <1>12, <5>2, <6>1, Zenon
        <5>3. CASE left # {}
          BY <1>11, <1>12, <4>1, <5>1, <5>3, Zenon DEF Need
        <5> QED
          BY <5>2, <5>3, Zenon
      <4> QED
        BY <1>9, <3>1, <3>2, <4>2, Zenon
    <3> QED
      BY <3>3, <3>4, Zenon
  <2> QED
    BY <1>1, <1>13, <2>1, <2>2, <2>3, Zenon DEF Timed
<1>16. TypeOK'
  BY <1>1, <1>6, <1>13, Zenon DEF Inv, TypeOK
<1> QED
  BY <1>8, <1>10, <1>14, <1>15, <1>16, Zenon DEF Inv

\* The slot was taken: it has the life that the next renewals take.
LEMMA AcquireTakenStep ==
    ASSUME Inv, NEW c \in Calls, AcquireTaken(c)
    PROVE  Inv'
<1>1. /\ call[c].pc = "wait" /\ call[c].reply = "taken" /\ call[c].at \in 1..Size(c)
      /\ Limit(c) > 0 /\ call[c].on \in Instances
  <2>1. call[c].pc = "wait" /\ call[c].reply = "taken"
    BY Zenon DEF AcquireTaken
  <2> QED
    BY <2>1, AtFacts, CallFields, Zenon DEF Shape
<1>2. PICK i \in Instances : i = call[c].on
  BY <1>1, Zenon
<1>3. PICK r \in Scopes : r = Scope(c)
  BY <1>1, ScopeFacts, Zenon
<1> DEFINE t0 == <<r, c>>
           fresh == [Idle EXCEPT !.renewing = TRUE, !.next = Every]
           g == IF renewal[i].renewing THEN renewal[i] ELSE fresh
<1>4. /\ call' = [call EXCEPT ![c] = Granted(c)] /\ UNCHANGED <<slot, expiry, flight, leaked>>
      /\ held' = [held EXCEPT ![i] = held[i] \cup {t0}]
      /\ renewal' = IF renewal[i].renewing THEN renewal ELSE [renewal EXCEPT ![i] = fresh]
  BY <1>2, <1>3, Zenon DEF AcquireTaken, Hold
<1>5. call'[c] = Granted(c)
  BY <1>4, AtFacts, Zenon
<1>6. Granted(c).on = call[c].on /\ Granted(c) \in Call /\ Granted(c).pc \in {"work", "ask"}
  BY <1>1, AtFacts, GrantedFields, Zenon
<1>7. Shape(c)' /\ Taken(c)' = Taken(c) \cup {call[c].at}
  BY <1>1, <1>5, AtFacts, GrantedFields, TakenAfterGrant, ShapeAfterGrant, Zenon
<1>8. /\ held' \in [Instances -> SUBSET Tokens] /\ held'[i] = held[i] \cup {t0}
      /\ \A j \in Instances \ {i} : held'[j] = held[j]
  <2>1. t0 \in Tokens
    BY DEF Tokens
  <2> HIDE DEF t0
  <2> QED
    BY <1>4, <2>1, AtFacts, Zenon
<1>9. ASSUME NEW s \in Scopes PROVE Token(s, c)'
  <2>1. Token(s, c) /\ (Has(c, s)' <=> Has(c, s) \/ s = r)
    BY <1>1, <1>3, <1>7, AtFacts, HasAfter, Zenon DEF CallInv
  <2>2. \A j \in Instances : <<s, c>> \in held'[j] <=> <<s, c>> \in held[j] \/ (j = i /\ s = r)
    <3>1. <<s, c>> = t0 <=> s = r
      OBVIOUS
    <3> HIDE DEF t0
    <3> QED
      BY <1>8, <3>1, Zenon
  <2>3. <<s, c>> \notin leaked
    BY <1>1, <2>1, Zenon DEF Token
  <2>4. <<s, c>> \notin flight
    BY <1>1, <2>1, <2>3, Zenon DEF Token
  <2>5. slot[s][c] > 0 => Has(c, s)'
    BY <1>1, <1>3, <2>1, <2>3, Zenon DEF Token
  <2>6. \A j \in Instances : <<s, c>> \in held'[j] <=> call[c].on = j /\ Has(c, s)'
    BY <1>2, <2>1, <2>2, Zenon DEF Token
  <2> QED
    BY <1>4, <1>5, <1>6, <2>3, <2>4, <2>5, <2>6, Zenon DEF Token
<1>10. CallInv(c)'
  BY <1>7, <1>9, Zenon DEF CallInv
<1>11. call' \in [Calls -> Call] /\ \A d \in Calls : CallInv(d)'
  <2>1. ASSUME NEW d \in Calls \ {c}, NEW s \in Scopes, NEW j \in Instances
        PROVE  <<s, d>> \in held'[j] <=> <<s, d>> \in held[j]
    <3>1. <<s, d>> # t0
      OBVIOUS
    <3> HIDE DEF t0
    <3>2. CASE j = i
      BY <1>8, <3>1, <3>2, Zenon
    <3>3. CASE j # i
      BY <1>8, <3>3, Zenon
    <3> QED
      BY <3>2, <3>3, Zenon
  <2> QED
    BY <1>4, <1>6, <1>10, <2>1, OthersKept, Zenon
<1>12. renewal \in [Instances -> Renewal] /\ fresh \in Renewal /\ Timed(i)
  BY IdleType, Zenon DEF Inv, TypeOK
<1>13. fresh.renewing = TRUE /\ fresh.todo = {}
  BY Zenon DEF Idle
<1> HIDE DEF fresh
<1>14. /\ renewal' \in [Instances -> Renewal] /\ renewal'[i] = g
       /\ \A j \in Instances \ {i} : renewal'[j] = renewal[j]
  BY <1>4, <1>12, Zenon
<1>15. TypeOK'
  BY <1>4, <1>8, <1>11, <1>14, Zenon DEF Inv, TypeOK
<1>16. \A s \in Scopes : ScopeInv(s)'
  BY <1>4, ScopeKept, Zenon DEF Inv
<1>17. ASSUME NEW j \in Instances, j # i PROVE Timed(j)'
  BY <1>4, <1>8, <1>14, <1>17, TimedKept, Zenon DEF Inv
<1>18. Timed(i)'
  <2>1. g \in Renewal /\ g.renewing
    BY <1>12, <1>13, Zenon
  <2>2. g.todo # {} => g.next >= Every - (IF g.aged THEN 1 ELSE 0)
    BY <1>12, <1>13, Zenon DEF Timed
  <2>3. ASSUME NEW t \in held[i] PROVE slot[t[1]][t[2]] >= Need(g, t)
    BY HeldFacts, Zenon
  <2> HIDE DEF g
  <2>4. slot[r][c] >= Need(g, t0)
    <3>1. slot[r][c] >= TTL - Age(c) /\ slot[r][c] \in 0..TTL
      <4>1. Token(r, c)
        BY AtFacts, Zenon DEF CallInv
      <4> QED
        BY <1>1, <1>3, <4>1, TypeFacts, Zenon DEF Token, Inv
    <3>2. Need(g, t0) \in Int /\ Need(g, t0) <= TTL - 1 /\ Age(c) \in {0, 1}
      BY <2>1, NeedType, Zenon DEF Age
    <3> HIDE DEF t0
    <3> QED
      BY <3>1, <3>2, TimeAssumption
  <2>5. \A t \in held'[i] : slot'[t[1]][t[2]] >= Need(g, t)
    <3>1. t0[1] = r /\ t0[2] = c
      OBVIOUS
    <3> HIDE DEF t0
    <3> QED
      BY <1>4, <1>8, <2>3, <2>4, <3>1, Zenon
  <2> QED
    BY <1>14, <2>1, <2>2, <2>5, Zenon DEF Timed
<1> QED
  BY <1>11, <1>15, <1>16, <1>17, <1>18, Zenon DEF Inv

-----------------------------------------------------------------------------
(* The environment. *)

\* A process dies: its calls have ended, and their tokens count as leaked.
LEMMA CrashStep ==
    ASSUME Inv, NEW i \in Instances, Crash(i)
    PROVE  Inv'
<1>1. /\ held' = [held EXCEPT ![i] = {}] /\ renewal' = [renewal EXCEPT ![i] = Idle]
      /\ leaked' = leaked \cup {t \in Tokens : call[t[2]].on = i /\ call[t[2]].pc \notin {"new", "end"}}
      /\ UNCHANGED <<slot, expiry, flight>>
  BY Zenon DEF Crash
<1>2. call' = [c \in Calls |-> IF call[c].on = i /\ call[c].pc # "new"
                                 THEN [call[c] EXCEPT !.pc = "end", !.at = 0,
                                                      !.reply = "none", !.aged = FALSE]
                                 ELSE call[c]]
  BY Zenon DEF Crash
<1>3. /\ held' \in [Instances -> SUBSET Tokens] /\ held'[i] = {}
      /\ \A j \in Instances \ {i} : held'[j] = held[j]
  BY <1>1, Zenon DEF Inv, TypeOK
<1>4. /\ renewal' \in [Instances -> Renewal] /\ renewal'[i] = Idle
      /\ \A j \in Instances \ {i} : renewal'[j] = renewal[j]
  BY <1>1, IdleType, Zenon DEF Inv, TypeOK
<1>5. ASSUME NEW s \in Scopes, NEW c \in Calls
      PROVE  <<s, c>> \in leaked' <=>
                <<s, c>> \in leaked \/ (call[c].on = i /\ call[c].pc \notin {"new", "end"})
  <2>1. <<s, c>> \in Tokens /\ <<s, c>>[2] = c
    BY DEF Tokens
  <2> QED
    BY <1>1, <2>1, Zenon
<1>6. ASSUME NEW c \in Calls, call[c].on = i, call[c].pc # "new"
      PROVE  call'[c] \in Call /\ CallInv(c)'
  <2>1. 0 \in Nat
    OBVIOUS
  <2>2. call'[c] = [call[c] EXCEPT !.pc = "end", !.at = 0, !.reply = "none", !.aged = FALSE]
    BY <1>2, <1>6, Zenon
  <2>3. /\ call'[c] \in Call /\ call'[c].pc = "end" /\ call'[c].reply = "none"
        /\ call'[c].limits = call[c].limits /\ call'[c].on = i
    BY <1>6, <2>1, <2>2, AtFacts, Zenon DEF Call
  <2>4. Shape(c)'
    BY <1>6, <2>3, AtFacts, Zenon DEF Shape, Size
  <2>5. \A s : ~Has(c, s)'
    BY <2>3, Zenon DEF Has, Taken
  <2>6. ASSUME NEW s \in Scopes PROVE Token(s, c)'
    <3>1. Token(s, c)
      BY AtFacts, Zenon DEF CallInv
    <3>2. \A j \in Instances : <<s, c>> \notin held'[j]
      BY <1>3, <1>6, <3>1, Zenon DEF Token
    <3>3. call[c].pc # "end" => <<s, c>> \in leaked'
      BY <1>5, <1>6, Zenon
    <3>4. call[c].pc = "end" => ~Has(c, s)
      BY HasFacts, Zenon
    <3>5. <<s, c>> \in flight => <<s, c>> \in leaked' /\ \E n \in 1..Size(c) : Path[c][n] = s
      BY <1>5, <3>1, <3>3, Zenon DEF Token
    <3>6. slot[s][c] > 0 => <<s, c>> \in leaked'
      BY <1>5, <3>1, <3>3, <3>4, Zenon DEF Token
    <3> QED
      BY <1>1, <2>3, <2>5, <3>2, <3>5, <3>6, Zenon DEF Token, Size
  <2> QED
    BY <2>3, <2>4, <2>6, Zenon DEF CallInv
<1>7. ASSUME NEW c \in Calls, ~(call[c].on = i /\ call[c].pc # "new")
      PROVE  call'[c] \in Call /\ CallInv(c)'
  <2>1. call'[c] = call[c] /\ call[c] \in Call /\ CallInv(c)
    BY <1>2, <1>7, AtFacts, Zenon
  <2>2. ASSUME NEW s \in Scopes PROVE \A j \in Instances : <<s, c>> \in held'[j] <=> <<s, c>> \in held[j]
    <3>1. Token(s, c)
      BY <2>1, Zenon DEF CallInv
    <3>2. <<s, c>> \notin held[i]
      BY <1>7, <3>1, HasFacts, Zenon DEF Token
    <3> QED
      BY <1>3, <3>2, Zenon
  <2>3. \A s \in Scopes : <<s, c>> \in leaked' <=> <<s, c>> \in leaked
    BY <1>5, <1>7, Zenon
  <2>4. Age(c)' = Age(c)
    BY <2>1, Zenon DEF Age
  <2> QED
    BY <1>1, <2>1, <2>2, <2>3, <2>4, CallKept, Zenon
<1>8. call' \in [Calls -> Call] /\ \A c \in Calls : CallInv(c)'
  BY <1>2, <1>6, <1>7, Zenon
<1>9. leaked' \subseteq Tokens
  BY <1>1, AtFacts, Zenon DEF Inv, TypeOK
<1>10. TypeOK'
  BY <1>1, <1>3, <1>4, <1>8, <1>9, Zenon DEF Inv, TypeOK
<1>11. \A s \in Scopes : ScopeInv(s)'
  BY <1>1, ScopeKept, Zenon DEF Inv
<1>12. ASSUME NEW j \in Instances PROVE Timed(j)'
  <2>1. CASE j = i
    BY <1>3, <1>4, <2>1, IdleType, Zenon DEF Timed
  <2>2. CASE j # i
    BY <1>1, <1>3, <1>4, <2>2, TimedKept, Zenon DEF Inv
  <2> QED
    BY <2>1, <2>2, Zenon
<1> QED
  BY <1>8, <1>10, <1>11, <1>12, Zenon DEF Inv

\* What a tick does to a token and to its sorted set.
LEMMA TickSlot ==
    ASSUME Inv, Tick, NEW s \in Scopes, NEW c \in Calls
    PROVE  /\ slot'[s][c] \in 0..TTL /\ expiry'[s] \in 0..TTL /\ slot'[s][c] <= expiry'[s]
           /\ slot'[s][c] > 0 => slot[s][c] > 0
           /\ slot[s][c] >= 2 => slot'[s][c] = slot[s][c] - 1
<1> DEFINE x == slot[s][c]
           y == expiry[s]
<1>1. x \in 0..TTL /\ y \in 0..TTL /\ x <= y
  BY TypeFacts, Zenon DEF Inv, ScopeInv
<1>2. expiry'[s] = Less(y) /\ slot'[s][c] = IF y <= 1 THEN 0 ELSE Less(x)
  BY Zenon DEF Tick
<1> HIDE DEF x, y
<1>3. /\ (IF y <= 1 THEN 0 ELSE Less(x)) \in 0..TTL /\ Less(y) \in 0..TTL
      /\ (IF y <= 1 THEN 0 ELSE Less(x)) <= Less(y)
      /\ (IF y <= 1 THEN 0 ELSE Less(x)) > 0 => x > 0
      /\ x >= 2 => (IF y <= 1 THEN 0 ELSE Less(x)) = x - 1
  BY <1>1, TimeAssumption DEF Less
<1> QED
  BY <1>2, <1>3, Zenon DEF x, y

\* What a tick does to a renewal goroutine, and to the life its tokens need.
LEMMA TickRenewal ==
    ASSUME Inv, Tick, NEW i \in Instances
    PROVE  /\ renewal'[i] \in Renewal /\ renewal'[i].renewing = renewal[i].renewing
           /\ renewal'[i].todo = renewal[i].todo
           /\ renewal'[i].todo # {} => renewal'[i].next >= Every - (IF renewal'[i].aged THEN 1 ELSE 0)
           /\ renewal[i].renewing =>
                \A t : /\ Need(renewal[i], t) >= 2
                       /\ Need(renewal'[i], t) = Need(renewal[i], t) - 1
<1> DEFINE g == renewal[i]
           h == renewal'[i]
<1>1. g \in Renewal /\ Timed(i)
  BY TypeFacts, Zenon DEF Inv
<1>2. h = [g EXCEPT !.next = Less(@), !.aged = @ \/ g.todo # {}]
  BY Zenon DEF Tick
<1>3. (g.todo # {} => ~g.aged) /\ (g.renewing => g.next > 0)
  BY Zenon DEF Tick, MayTick
<1>4. g.todo # {} => g.next >= Every - (IF g.aged THEN 1 ELSE 0)
  BY <1>1, Zenon DEF Timed
<1> HIDE DEF g, h
<1>5. g.next \in Nat /\ g.next <= Every /\ g.aged \in BOOLEAN
  BY <1>1, RenewalFields, Zenon
<1>6. /\ Less(g.next) \in 0..Every /\ (g.next > 0 => Less(g.next) = g.next - 1)
      /\ g.next >= Every - 0 => Less(g.next) >= Every - 1
  BY <1>5, TimeAssumption DEF Less
<1>7. /\ h \in Renewal /\ h.renewing = g.renewing /\ h.todo = g.todo /\ h.missed = g.missed
      /\ h.next = Less(g.next) /\ h.aged = (g.aged \/ g.todo # {})
  BY <1>1, <1>2, <1>5, <1>6, Zenon DEF Renewal
<1>8. h.todo # {} => h.next >= Every - (IF h.aged THEN 1 ELSE 0)
  <2> SUFFICES ASSUME h.todo # {} PROVE h.next >= Every - (IF h.aged THEN 1 ELSE 0)
    OBVIOUS
  <2>1. g.next >= Every - 0
    BY <1>3, <1>4, <1>7, Zenon
  <2>2. h.next >= Every - 1 /\ h.aged
    BY <1>6, <1>7, <2>1, Zenon
  <2> QED
    BY <2>2, Zenon
<1>9. ASSUME g.renewing, NEW t
      PROVE  Need(g, t) >= 2 /\ Need(h, t) = Need(g, t) - 1
  <2>1. Need(g, t) >= 2
    BY <1>1, <1>3, <1>4, NeedIsPositive, Zenon
  <2> DEFINE x == IF t \in g.todo THEN Slack(g.missed) - Every
                  ELSE Slack(IF g.todo = {} THEN g.missed ELSE 0)
  <2>2. x \in Int
    <3>1. Slack(g.missed) \in Nat /\ Slack(0) \in Nat
      BY <1>1, RenewalFields, SlackFacts, Zenon
    <3>2. Slack(g.missed) - Every \in Int /\ Slack(g.missed) \in Int /\ Slack(0) \in Int
      BY <3>1, TimeAssumption
    <3> QED
      BY <3>2, Zenon
  <2>3. Need(g, t) = g.next + 2 + x /\ Need(h, t) = h.next + 2 + x
    BY <1>7, Zenon DEF Need
  <2>4. h.next = g.next - 1
    BY <1>3, <1>6, <1>7, <1>9, Zenon
  <2> HIDE DEF x
  <2> QED
    BY <1>5, <2>1, <2>2, <2>3, <2>4
<1> QED
  BY <1>7, <1>8, <1>9, Zenon DEF g, h

\* A tick passes: nothing under way is aged, so every token has the life it needs.
LEMMA TickStep ==
    ASSUME Inv, Tick
    PROVE  Inv'
<1>1. /\ UNCHANGED <<held, flight, leaked>>
      /\ \A c \in Calls : call[c].pc = "wait" => ~call[c].aged
      /\ call' = [c \in Calls |-> [call[c] EXCEPT !.aged = @ \/ call[c].pc = "wait"]]
  BY Zenon DEF Tick, MayTick
<1>2. /\ slot' \in [Scopes -> [Calls -> 0..TTL]] /\ expiry' \in [Scopes -> 0..TTL]
  <2>1. /\ slot' = [s \in Scopes |-> [c \in Calls |-> IF expiry[s] <= 1 THEN 0 ELSE Less(slot[s][c])]]
        /\ expiry' = [s \in Scopes |-> Less(expiry[s])]
    BY Zenon DEF Tick
  <2>2. \A s \in Scopes, c \in Calls : slot'[s][c] \in 0..TTL
    BY TickSlot, Zenon
  <2>3. ASSUME NEW s \in Scopes PROVE expiry'[s] \in 0..TTL
    <3>1. expiry[s] \in 0..TTL /\ expiry'[s] = Less(expiry[s])
      BY <2>1, TypeFacts, Zenon DEF Inv
    <3> QED
      BY <3>1, TimeAssumption DEF Less
  <2> QED
    BY <2>1, <2>2, <2>3, Zenon
<1>3. renewal' \in [Instances -> Renewal]
  <2>1. \A i \in Instances : renewal'[i] \in Renewal
    BY TickRenewal, Zenon
  <2>2. renewal' = [i \in Instances |->
                    [renewal[i] EXCEPT !.next = Less(@), !.aged = @ \/ renewal[i].todo # {}]]
    BY Zenon DEF Tick
  <2> QED
    BY <2>1, <2>2, Zenon
<1>4. ASSUME NEW c \in Calls PROVE call'[c] \in Call /\ CallInv(c)'
  <2>1. call[c] \in Call /\ CallInv(c) /\ call[c].aged \in BOOLEAN
    BY AtFacts, CallFields, Zenon
  <2>2. call'[c] = [call[c] EXCEPT !.aged = @ \/ call[c].pc = "wait"]
    BY <1>1, Zenon
  <2>3. /\ call'[c] \in Call /\ call'[c].pc = call[c].pc /\ call'[c].on = call[c].on
        /\ call'[c].at = call[c].at /\ call'[c].limits = call[c].limits /\ call'[c].reply = call[c].reply
        /\ call'[c].aged = (call[c].aged \/ call[c].pc = "wait")
    BY <2>1, <2>2, Zenon DEF Call
  <2>4. call[c].pc = "wait" => Age(c) = 0 /\ Age(c)' = 1
    BY <1>1, <2>3, Zenon DEF Age
  <2>5. ASSUME NEW s \in Scopes, call[c].pc = "wait", slot[s][c] >= TTL - Age(c)
        PROVE  slot'[s][c] >= TTL - Age(c)'
    <3>1. slot[s][c] \in 0..TTL /\ slot[s][c] >= TTL - 0
      BY <2>4, <2>5, TypeFacts, Zenon DEF Inv
    <3>2. TTL >= 2
      BY SlackFacts, TimeAssumption
    <3>3. slot[s][c] >= 2 /\ slot[s][c] - 1 >= TTL - 1
      BY <3>1, <3>2, TimeAssumption
    <3> QED
      BY <2>4, <2>5, <3>3, TickSlot, Zenon
  <2>6. \A s \in Scopes : slot'[s][c] > 0 => slot[s][c] > 0
    BY TickSlot, Zenon
  <2>7. CallInv(c)'
    BY <1>1, <2>1, <2>3, <2>5, <2>6, CallKept, Zenon
  <2> QED
    BY <2>3, <2>7, Zenon
<1>5. TypeOK'
  BY <1>1, <1>2, <1>3, <1>4, Zenon DEF Inv, TypeOK
<1>6. ASSUME NEW s \in Scopes PROVE ScopeInv(s)'
  <2>1. Live(s)' \subseteq Live(s)
    BY TickSlot, Zenon DEF Live
  <2> QED
    BY <2>1, TickSlot, FewerLive, Zenon DEF Inv
<1>7. ASSUME NEW i \in Instances PROVE Timed(i)'
  <2>1. ASSUME NEW t \in held[i] PROVE slot'[t[1]][t[2]] >= Need(renewal'[i], t)
    <3>1. /\ t[1] \in Scopes /\ t[2] \in Calls /\ slot[t[1]][t[2]] \in Nat
          /\ slot[t[1]][t[2]] >= Need(renewal[i], t) /\ renewal[i] \in Renewal /\ renewal[i].renewing
      BY HeldFacts, Zenon
    <3>2. Need(renewal[i], t) >= 2 /\ Need(renewal'[i], t) = Need(renewal[i], t) - 1
      BY <3>1, TickRenewal, Zenon
    <3>3. Need(renewal[i], t) \in Int
      BY <3>1, NeedType, Zenon
    <3>4. /\ slot[t[1]][t[2]] >= 2
          /\ slot[t[1]][t[2]] - 1 >= Need(renewal[i], t) - 1
      BY <3>1, <3>2, <3>3
    <3> QED
      BY <3>1, <3>2, <3>4, TickSlot, Zenon
  <2>2. held'[i] = held[i]
    BY <1>1, Zenon
  <2>3. held[i] # {} => renewal[i].renewing
    BY Zenon DEF Inv, Timed
  <2> QED
    BY <2>1, <2>2, <2>3, TickRenewal, Zenon DEF Timed
<1> QED
  BY <1>4, <1>5, <1>6, <1>7, Zenon DEF Inv

-----------------------------------------------------------------------------
(* The invariant holds. *)

LEMMA InitInv ==
    ASSUME Init
    PROVE  Inv
<1>1. /\ slot = [s \in Scopes |-> [c \in Calls |-> 0]] /\ expiry = [s \in Scopes |-> 0]
      /\ held = [i \in Instances |-> {}] /\ renewal = [i \in Instances |-> Idle]
      /\ call \in [Calls -> [pc : {"new"}, on : Instances, limits : {<<>>}, at : {0},
                             reply : {"none"}, aged : {FALSE}]]
      /\ flight = {} /\ leaked = {}
  BY Zenon DEF Init
<1>2. 0 \in 0..TTL /\ 0 \in Nat /\ ~(0 > 0) /\ 0 <= 0 /\ <<>> \in Seq(Limits)
  BY TimeAssumption
<1>3. ASSUME NEW c \in Calls
      PROVE  call[c] \in Call /\ call[c].pc = "new" /\ call[c].reply = "none"
  BY <1>1, <1>2, Zenon DEF Call
<1>4. TypeOK
  <2>1. slot \in [Scopes -> [Calls -> 0..TTL]] /\ expiry \in [Scopes -> 0..TTL]
    BY <1>1, <1>2, Zenon
  <2>2. held \in [Instances -> SUBSET Tokens] /\ renewal \in [Instances -> Renewal]
    BY <1>1, IdleType, Zenon
  <2>3. call \in [Calls -> Call]
    BY <1>1, <1>3, Zenon
  <2> QED
    BY <1>1, <2>1, <2>2, <2>3, Zenon DEF TypeOK
<1>5. ASSUME NEW c \in Calls PROVE CallInv(c)
  <2>1. Shape(c)
    BY <1>3, Zenon DEF Shape
  <2>2. \A s : ~Has(c, s)
    BY <1>3, HasFacts, Zenon
  <2>3. ASSUME NEW s \in Scopes PROVE Token(s, c)
    <3>1. slot[s][c] = 0 /\ \A i \in Instances : held[i] = {}
      BY <1>1, Zenon
    <3> QED
      BY <1>1, <1>2, <1>3, <2>2, <3>1, Zenon DEF Token
  <2> QED
    BY <2>1, <2>3, Zenon DEF CallInv
<1>6. ASSUME NEW s \in Scopes PROVE ScopeInv(s)
  <2>1. \A c \in Calls : slot[s][c] = 0 /\ expiry[s] = 0
    BY <1>1, Zenon
  <2>2. Live(s) = {}
    BY <1>2, <2>1, Zenon DEF Live
  <2>3. IsFiniteSet({}) /\ Cardinality({}) = 0
    BY FS_EmptySet, Zenon
  <2>4. 0 <= MaxLimit
    BY LimitsAssumption
  <2> QED
    BY <1>2, <2>1, <2>2, <2>3, <2>4, Zenon DEF ScopeInv
<1>7. ASSUME NEW i \in Instances PROVE Timed(i)
  <2>1. held[i] = {} /\ renewal[i] = Idle
    BY <1>1, Zenon
  <2> QED
    BY <2>1, IdleType, Zenon DEF Timed
<1> QED
  BY <1>4, <1>5, <1>6, <1>7, Zenon DEF Inv

LEMMA StutterInv ==
    ASSUME Inv, UNCHANGED vars
    PROVE  Inv'
<1>1. UNCHANGED <<slot, expiry, held, renewal, call, flight, leaked>>
  BY Zenon DEF vars
<1>2. TypeOK'
  BY <1>1, Zenon DEF Inv, TypeOK
<1>3. ASSUME NEW c \in Calls PROVE CallInv(c)'
  <2>1. Age(c)' = Age(c) /\ CallInv(c)
    BY <1>1, Zenon DEF Age, Inv
  <2> QED
    BY <1>1, <2>1, CallKept, Zenon
<1>4. \A s \in Scopes : ScopeInv(s)'
  BY <1>1, ScopeKept, Zenon DEF Inv
<1>5. \A i \in Instances : Timed(i)'
  BY <1>1, TimedKept, Zenon DEF Inv
<1> QED
  BY <1>2, <1>3, <1>4, <1>5, Zenon DEF Inv

\* Every step keeps the invariant.
LEMMA NextInv ==
    ASSUME Inv, [Next]_vars
    PROVE  Inv'
<1>1. ASSUME NEW c \in Calls, CallStep(c) PROVE Inv'
  <2>1. CASE \E limits \in [1..Size(c) -> Limits] : Begin(c, limits)
    BY <2>1, BeginStep, Zenon
  <2>2. CASE AskUnlimited(c) \/ Ask(c)
    BY <2>2, AskUnlimitedStep, AskStep, Zenon
  <2>3. CASE AcquireTaken(c) \/ AcquireFull(c)
    BY <2>3, AcquireTakenStep, AcquireFullStep, Zenon
  <2>4. CASE AcquireFails(c) \/ RemoveFails(c)
    BY <2>4, FailsStep, Zenon
  <2>5. CASE Finish(c) \/ DropUnlimited(c)
    BY <2>5, FinishStep, DropUnlimitedStep, Zenon
  <2>6. CASE Drop(c) \/ Remove(c)
    BY <2>6, DropStep, RemoveStep, Zenon
  <2> QED
    BY <1>1, <2>1, <2>2, <2>3, <2>4, <2>5, <2>6, Zenon DEF CallStep
<1>2. ASSUME NEW s \in Scopes, NEW c \in Calls, RedisStep(s, c) PROVE Inv'
  BY <1>2, AcquireScriptStep, ScriptLostStep, Zenon DEF RedisStep
<1>3. ASSUME NEW i \in Instances, RenewalStep(i) PROVE Inv'
  <2>1. CASE StopRenewing(i) \/ StartRenewal(i)
    BY <2>1, StopRenewingStep, StartRenewalStep, Zenon
  <2>2. CASE \E s \in Scopes : RenewScript(i, s)
    BY <2>2, RenewScriptStep, Zenon
  <2>3. CASE RenewalFails(i)
    BY <2>3, RenewalFailsStep, Zenon
  <2> QED
    BY <1>3, <2>1, <2>2, <2>3, Zenon DEF RenewalStep
<1>4. ASSUME NEW i \in Instances, Crash(i) PROVE Inv'
  BY <1>4, CrashStep, Zenon
<1>5. CASE Tick
  BY <1>5, TickStep, Zenon
<1>6. CASE UNCHANGED vars
  BY <1>6, StutterInv, Zenon
<1> QED
  BY <1>1, <1>2, <1>3, <1>4, <1>5, <1>6, Zenon DEF Next

-----------------------------------------------------------------------------
(* The theorems. *)

\* The inductive invariant holds in every state, whatever the processes, calls,
\* scopes, paths and limits, and whatever fails: types, who holds each token,
\* why a token is in Redis, and the life that each held token has left.
THEOREM Invariant == Spec => []Inv
<1>1. Init => Inv
  BY InitInv
<1>2. Inv /\ [Next]_vars => Inv'
  BY NextInv
<1> QED
  BY <1>1, <1>2, PTL DEF Spec

\* The slot of every token that an instance holds is live in Redis
\* (concurrency.go, renewLoop), for every lease of at least one interval for
\* each renewal that fails in a row, one more, and three ticks.
THEOREM SlotsLive == Spec => []HeldSlotsAreLive
<1>1. Inv => HeldSlotsAreLive
  <2> SUFFICES ASSUME Inv, NEW i \in Instances, NEW t \in held[i]
               PROVE  slot[t[1]][t[2]] > 0
    BY Zenon DEF HeldSlotsAreLive
  <2>1. /\ slot[t[1]][t[2]] \in Nat /\ slot[t[1]][t[2]] >= Need(renewal[i], t)
        /\ renewal[i] \in Renewal
    BY HeldFacts, Zenon
  <2>2. Need(renewal[i], t) >= 1 /\ Need(renewal[i], t) \in Int
    BY <2>1, NeedIsPositive, NeedType, Zenon DEF Inv, Timed
  <2> QED
    BY <2>1, <2>2
<1> QED
  BY <1>1, Invariant, PTL

\* A call that is doing its work has a live slot in each limited scope of its
\* path.
LEMMA WorkIsCounted ==
    ASSUME Inv, HeldSlotsAreLive, NEW s \in Scopes
    PROVE  Counted(s) \subseteq Live(s)
<1> SUFFICES ASSUME NEW c \in Counted(s) PROVE c \in Live(s)
  OBVIOUS
<1>1. c \in Calls /\ call[c].pc = "work"
  BY Zenon DEF Counted
<1>2. PICK n \in 1..Size(c) : Path[c][n] = s /\ call[c].limits[n] > 0
  BY Zenon DEF Counted
<1>3. call[c].at = Size(c) \/ Size(c) = 0
  BY <1>1, AtFacts, Zenon DEF Shape
<1>4. n <= call[c].at
  BY <1>1, <1>2, <1>3, PathFacts
<1>5. Has(c, s)
  BY <1>1, <1>2, <1>4, Zenon DEF Has, Taken
<1>6. call[c].on \in Instances /\ Token(s, c)
  BY <1>1, AtFacts, CallFields, Zenon DEF CallInv
<1>7. <<s, c>> \in held[call[c].on]
  BY <1>5, <1>6, Zenon DEF Token
<1>8. slot[<<s, c>>[1]][<<s, c>>[2]] > 0
  BY <1>6, <1>7, Zenon DEF HeldSlotsAreLive
<1>9. <<s, c>>[1] = s /\ <<s, c>>[2] = c
  OBVIOUS
<1> QED
  BY <1>1, <1>8, <1>9, Zenon DEF Live

\* The promise of the limiter (acquireSlotScript, concurrency.go): over all
\* instances, the calls that work under the limit of a scope never exceed it.
THEOREM WithinLimit == Spec => []WorkWithinLimit
<1>1. Inv /\ HeldSlotsAreLive => WorkWithinLimit
  <2> SUFFICES ASSUME Inv, HeldSlotsAreLive, NEW s \in Scopes
               PROVE  Cardinality(Counted(s)) <= MaxLimit
    BY Zenon DEF WorkWithinLimit
  <2>1. /\ IsFiniteSet(Live(s)) /\ Cardinality(Live(s)) <= MaxLimit
        /\ Counted(s) \subseteq Live(s)
    BY WorkIsCounted, Zenon DEF Inv, ScopeInv
  <2>2. /\ Cardinality(Counted(s)) \in Nat /\ Cardinality(Live(s)) \in Nat
        /\ Cardinality(Counted(s)) <= Cardinality(Live(s))
    BY <2>1, FS_Subset, FS_CardinalityType, Zenon
  <2> QED
    BY <2>1, <2>2, LimitsAssumption
<1> QED
  BY <1>1, Invariant, SlotsLive, PTL

\* A call that has ended, rejected, finished or crashed, is held by no instance,
\* and what it has left in Redis is a slot whose release or reply was lost
\* (concurrency.go, acquireSlots and release).
THEOREM EndedHoldNothing == Spec => []EndedCallsHoldNothing
<1>1. Inv => EndedCallsHoldNothing
  <2> SUFFICES ASSUME Inv, NEW c \in Calls, NEW s \in Scopes, call[c].pc = "end"
               PROVE  /\ \A i \in Instances : <<s, c>> \notin held[i]
                      /\ slot[s][c] > 0 \/ <<s, c>> \in flight => <<s, c>> \in leaked
    BY Zenon DEF EndedCallsHoldNothing
  <2>1. Token(s, c) /\ ~Has(c, s)
    BY AtFacts, HasFacts, Zenon DEF CallInv
  <2> QED
    BY <2>1, Zenon DEF Token
<1> QED
  BY <1>1, Invariant, PTL

\* Only the script that takes a slot makes it live: no renewal, release or
\* passing of time does (renewSlotsScript, concurrency.go).
LEMMA OnlyTaken ==
    ASSUME Inv, [Next]_vars, NEW s \in Scopes, NEW c \in Calls, slot[s][c] = 0, slot'[s][c] > 0
    PROVE  <<s, c>> \in flight
<1>1. ~(0 > 0)
  OBVIOUS
<1>2. slot \in [Scopes -> [Calls -> 0..TTL]]
  BY Zenon DEF Inv, TypeOK
<1>3. CASE UNCHANGED slot
  BY <1>1, <1>3, Zenon
<1>4. ASSUME NEW r \in Scopes, NEW d \in Calls, AcquireScript(r, d) PROVE <<s, c>> \in flight
  <2>1. CASE r = s /\ d = c
    BY <1>4, <2>1, Zenon DEF AcquireScript
  <2>2. CASE ~(r = s /\ d = c)
    <3>1. slot' = slot \/ slot' = [slot EXCEPT ![r] = [slot[r] EXCEPT ![d] = TTL]]
      BY <1>4, Zenon DEF AcquireScript, SetScope
    <3>2. slot'[s][c] = slot[s][c]
      BY <1>2, <2>2, <3>1, Zenon
    <3> QED
      BY <1>1, <3>2, Zenon
  <2> QED
    BY <2>1, <2>2, Zenon
<1>5. ASSUME NEW d \in Calls, Remove(d) PROVE <<s, c>> \in flight
  <2>1. PICK r \in Scopes : r = Scope(d)
    BY <1>5, AtFacts, ScopeFacts, Zenon DEF Remove
  <2>2. slot' = [slot EXCEPT ![r] = [slot[r] EXCEPT ![d] = 0]]
    BY <1>5, <2>1, Zenon DEF Remove, SetScope
  <2>3. slot'[s][c] = slot[s][c] \/ slot'[s][c] = 0
    BY <1>2, <2>2, Zenon
  <2> QED
    BY <1>1, <2>3, Zenon
<1>6. ASSUME NEW i \in Instances, NEW r \in Scopes, RenewScript(i, r) PROVE <<s, c>> \in flight
  <2> DEFINE tokens == {t \in renewal[i].todo : t[1] = r}
  <2>1. slot' = [slot EXCEPT ![r] = [d \in Calls |-> IF <<r, d>> \in tokens THEN Extended(r, d) ELSE slot[r][d]]]
    BY <1>6, Zenon DEF RenewScript, SetScope
  <2> HIDE DEF tokens
  <2>2. slot'[s][c] = slot[s][c] \/ slot'[s][c] = Extended(s, c)
    BY <1>2, <2>1, Zenon
  <2>3. Extended(s, c) = slot[s][c]
    BY <1>1, Zenon DEF Extended
  <2> QED
    BY <1>1, <2>2, <2>3, Zenon
<1>7. CASE Tick
  BY <1>1, <1>7, TickSlot, Zenon
<1>8. ASSUME NEW d \in Calls, CallStep(d) PROVE UNCHANGED slot \/ Remove(d)
  BY <1>8, Zenon DEF CallStep, Begin, AskUnlimited, Ask, AcquireTaken, AcquireFull, AcquireFails,
     Finish, DropUnlimited, Drop, RemoveFails
<1>9. ASSUME NEW r \in Scopes, NEW d \in Calls, RedisStep(r, d)
      PROVE  UNCHANGED slot \/ AcquireScript(r, d)
  BY <1>9, Zenon DEF RedisStep, ScriptLost
<1>10. ASSUME NEW i \in Instances, RenewalStep(i)
       PROVE  UNCHANGED slot \/ \E r \in Scopes : RenewScript(i, r)
  BY <1>10, Zenon DEF RenewalStep, StopRenewing, StartRenewal, RenewalFails
<1>11. ASSUME NEW i \in Instances, Crash(i) PROVE UNCHANGED slot
  BY <1>11, Zenon DEF Crash
<1>12. UNCHANGED vars => UNCHANGED slot
  BY Zenon DEF vars
<1> QED
  BY <1>3, <1>4, <1>5, <1>6, <1>7, <1>8, <1>9, <1>10, <1>11, <1>12, Zenon DEF Next

\* A lost slot is never revived (concurrency.go, renewSlotsScript): a token
\* comes into its sorted set only by the script that takes it.
THEOREM NeverRevived == Spec => NoSlotIsRevived
<1>1. Inv /\ [Next]_vars =>
        [\A s \in Scopes, c \in Calls :
           slot[s][c] = 0 /\ slot'[s][c] > 0 => <<s, c>> \in flight]_vars
  BY OnlyTaken, Zenon
<1> QED
  BY <1>1, Invariant, PTL DEF Spec, NoSlotIsRevived

=============================================================================
