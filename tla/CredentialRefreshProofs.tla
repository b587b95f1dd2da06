---------------------- MODULE CredentialRefreshProofs ----------------------
(***************************************************************************)
(* What is proved of the refresh of a credential, for any number of        *)
(* instances and refreshes and any faults: the tokens upstream will answer *)
(* are kept, and, unless a live holder loses its lease, a ready row holds  *)
(* such a token and no token is presented twice, except after an answer    *)
(* that may be retried.  When no write fails either, the shared state is   *)
(* that of the row once everybody has ended.                               *)
(*                                                                         *)
(* The argument follows the row that a refresh has read.  Until the secret *)
(* version moves on, its token is the token of the database; when upstream *)
(* has answered it, it is good for nothing, so the commit that replaces it *)
(* loses nothing (Sound).  While no lease is lost, whoever has read the    *)
(* row has the lease (Alone), so between the read and the request nobody   *)
(* else presents the token, and nobody writes the row except the sweep and *)
(* an operator: neither makes a row with that token ready.                 *)
(*                                                                         *)
(* The shared state is followed from the row to the record (Sharing).  A   *)
(* record of the version of the row that has another state is owed a       *)
(* write, by the refresh or the sweep that changed the row or by a poll    *)
(* that has yet to compare the two.  A correction that has become wrong is *)
(* one whose row was changed after it was read: that change is owed too.   *)
(***************************************************************************)
EXTENDS CredentialRefresh, TLAPS

Auths == States \cup {"none"}
Stages == {"lease", "lock", "repair", "write", "publish", "upstream", "commit", "replace",
           "share", "release"}

\* The record of a refresh that is under way.
Working(k) ==
    k \in [pc : Stages, on : Instances, kind : AllKinds, expected : {k.expected},
           row : [ver : Nat, auth : Auths, token : Nat], at : Nat,
           why : {"none", "interrupted", "start", "undo", "failed", "uncommitted", "mismatch"},
           auth : Auths, got : Nat]

Shape == /\ call = [c \in Calls |-> call[c]]
         /\ \A c \in Calls : call[c] \in {NewCall, Over} \/ Working(call[c])

Types ==
    /\ row \in [ver : Nat, auth : Auths, token : Nat]
    /\ lease \in Calls \cup {NoOne}
    /\ issued \in Nat /\ row.token \in 1..issued
    /\ valid \subseteq 1..issued /\ spent \subseteq 1..issued
    /\ losses \in Nat

\* The refresh has read the row, and acts on what it read.
HasRead(k) == k.pc \in {"write", "publish", "upstream", "commit", "replace"}

\* It is on its way to present the token.
Starting(k) == k.pc = "upstream" \/ (k.pc \in {"write", "publish"} /\ k.why = "start")

\* It has not presented the token, or is to write that nothing has changed.
Unused(k) == Starting(k) \/ (k.pc = "write" /\ (k.why = "undo" \/ k.auth = "ready"))

\* What a refresh knows, whatever happens to the leases.
Sound(k) ==
    /\ HasRead(k) => /\ k.row.token \in 1..issued
                     /\ k.row.ver <= row.ver
                     /\ k.row.ver = row.ver => k.row.token = row.token
    /\ k.pc = "commit" => k.row.token \notin valid /\ k.got \in 1..issued
    /\ k.pc = "write" /\ k.auth = "ready" => k.row.auth = "ready" /\ k.at = k.row.ver
    /\ k.pc = "write" /\ k.why = "start" => k.auth = "refreshing"
    /\ Starting(k) => k.at = k.row.ver
    /\ Starting(k) /\ k.kind # "recovery" => k.row.auth = "ready"

Holds(k) == k.pc \notin {"new", "done", "lease"}

\* What it knows while no live holder has lost its lease.
Alone(c) ==
    LET k == call[c] IN
    /\ Holds(k) => lease = c
    /\ Starting(k) /\ k.pc # "write" /\ row.auth = "ready" => row.token # k.row.token
    /\ Unused(k) /\ k.row.auth = "ready" => k.row.token \in valid \cup deferred
    /\ k.pc = "commit" => k.got \in valid

\* A token that was presented is good only if the answer left it so.
Disjoint == valid \cap spent \subseteq deferred

Tokens == losses = 0 => (\A c \in Calls : Alone(c)) /\ ReadyTokensAreValid

Inv == /\ Types /\ Shape /\ Disjoint /\ RotatedTokensAreKept
       /\ \A c \in Calls : Sound(call[c])
       /\ Tokens

-----------------------------------------------------------------------------
(* What a step does to the records of the refreshes. *)

\* A step of the refresh c leaves the records of the others alone.
Moves(c) == /\ call' = [d \in Calls |-> call'[d]]
            /\ \A d \in Calls \ {c} : call'[d] = call[d]

\* It keeps what c has read.
Keeps(c) == /\ Working(call'[c])
            /\ call'[c].row = call[c].row /\ call'[c].kind = call[c].kind
            /\ call'[c].at = call[c].at

LEMMA IsWorking ==
  ASSUME Shape, NEW c \in Calls, call[c].pc \notin {"new", "done"}
  PROVE  Working(call[c])
  BY DEF Shape, NewCall, Over

\* The record of one refresh is replaced.
LEMMA SetsCall ==
  ASSUME Shape, NEW c \in Calls, NEW k, call' = [call EXCEPT ![c] = k]
  PROVE  Moves(c) /\ call'[c] = k
  BY DEF Shape, Moves

LEMMA GotoMoves ==
  ASSUME Shape, NEW c \in Calls, NEW p \in Stages, Working(call[c]), Goto(c, p)
  PROVE  /\ Moves(c) /\ Keeps(c) /\ call'[c].pc = p
         /\ call'[c].why = call[c].why /\ call'[c].auth = call[c].auth
         /\ call'[c].got = call[c].got
<1> DEFINE k == [call[c] EXCEPT !.pc = p]
<1>1. Moves(c) /\ call'[c] = k
  BY SetsCall, Zenon DEF Goto
<1>2. /\ Working(k) /\ k.pc = p /\ k.row = call[c].row /\ k.kind = call[c].kind
      /\ k.at = call[c].at /\ k.why = call[c].why /\ k.auth = call[c].auth /\ k.got = call[c].got
  BY Zenon DEF Working
<1> QED
  BY <1>1, <1>2, Zenon DEF Keeps

LEMMA WritingMoves ==
  ASSUME Shape, NEW c \in Calls, Working(call[c]), NEW why, NEW auth \in Auths,
         why \in {"failed", "uncommitted"}, Writing(c, why, auth)
  PROVE  /\ Moves(c) /\ Keeps(c) /\ call'[c].pc = "write"
         /\ call'[c].why = why /\ call'[c].auth = auth
<1> DEFINE k == [call[c] EXCEPT !.pc = "write", !.why = why, !.auth = auth]
<1>1. Moves(c) /\ call'[c] = k
  <2>1. /\ call' = [d \in Calls |-> call'[d]]
        /\ \A d \in Calls \ {c} : call'[d] = call[d]
    BY Zenon DEF Writing, Shape
  <2>2. call'[c] = k
    BY DEF Writing, Shape
  <2> QED
    BY <2>1, <2>2 DEF Moves
<1>2. /\ Working(k) /\ k.pc = "write" /\ k.row = call[c].row /\ k.kind = call[c].kind
      /\ k.at = call[c].at /\ k.why = why /\ k.auth = auth
  BY Zenon DEF Working, Stages
<1> QED
  BY <1>1, <1>2 DEF Keeps

\* What is left of the shape after a step of one refresh.
LEMMA ShapeKept ==
  ASSUME Shape, NEW c \in Calls, Moves(c), call'[c] = Over \/ Working(call'[c])
  PROVE  Shape'
  BY Zenon DEF Shape, Moves, Working

-----------------------------------------------------------------------------
(* What a step leaves of the invariant. *)

\* Tokens are issued in order, and a secret version has one token.
Grows == /\ Types' /\ issued <= issued'
         /\ \A t \in valid' : t \in valid \/ t > issued
         /\ row.ver <= row'.ver
         /\ row'.ver = row.ver => row'.token = row.token

\* A refresh whose record is left alone knows what it knew.
LEMMA SoundKept ==
  ASSUME Types, Shape, NEW d \in Calls, Sound(call[d]), call'[d] = call[d], Grows
  PROVE  Sound(call[d])'
<1> DEFINE k == call[d]
<1>1. CASE HasRead(k)
  <2>1. Working(k)
    BY <1>1, IsWorking, Zenon DEF HasRead
  <2>2. k.row.ver \in Nat /\ k.row.token \in Nat /\ row.ver \in Nat /\ row'.ver \in Nat
        /\ issued \in Nat /\ issued' \in Nat
    BY <2>1, Zenon DEF Working, Types, Grows
  <2>3. k.row.token \in 1..issued'
    BY <1>1, <2>2 DEF Sound, Grows
  <2>4. k.row.ver <= row'.ver /\ (k.row.ver = row'.ver => k.row.token = row'.token)
    BY <1>1, <2>2 DEF Sound, Grows
  <2>5. k.pc = "commit" => k.row.token \notin valid' /\ k.got \in 1..issued'
    BY <1>1, <2>2 DEF Sound, Grows
  <2> QED
    BY <2>3, <2>4, <2>5, Zenon DEF Sound, HasRead, Starting
<1>2. CASE ~HasRead(k)
  BY <1>2, Zenon DEF Sound, HasRead, Starting
<1> QED
  BY <1>1, <1>2, Zenon

\* A refresh without a row has nothing to know.
LEMMA RestSound ==
  ASSUME NEW c \in Calls, call'[c].pc \notin {"write", "publish", "upstream", "commit", "replace"}
  PROVE  Sound(call[c])' /\ (lease' = c => Alone(c)')
  BY Zenon DEF Sound, HasRead, Starting, Alone, Unused, Holds

\* ... nor has one that does not hold the lease.
LEMMA IdleAlone ==
  ASSUME NEW d \in Calls, ~Holds(call'[d])
  PROVE  Sound(call[d])' /\ Alone(d)'
  BY Zenon DEF Sound, HasRead, Starting, Alone, Unused, Holds

LEMMA SameAlone ==
  ASSUME NEW d \in Calls, Alone(d), call'[d] = call[d], UNCHANGED <<row, valid, deferred, lease>>
  PROVE  Alone(d)'
  BY Zenon DEF Alone

LEMMA OneHolder ==
  ASSUME NEW c, NEW d \in Calls, d # c, lease = c, Alone(d)
  PROVE  ~Holds(call[d])
  BY Zenon DEF Alone

\* A step of a refresh that has the lease, if no lease was lost.
LEMMA HolderStep ==
  ASSUME Inv, NEW c \in Calls, Holds(call[c]), Moves(c),
         call'[c] = Over \/ Working(call'[c]),
         Grows, Sound(call[c])', Disjoint', RotatedTokensAreKept', losses' = losses,
         losses = 0 => Alone(c)' /\ ReadyTokensAreValid'
  PROVE  Inv'
<1>1. Types' /\ Shape'
  BY ShapeKept, Zenon DEF Inv, Grows
<1>2. ASSUME NEW d \in Calls PROVE Sound(call[d])'
  <2>1. CASE d # c
    <3>1. call'[d] = call[d] /\ Types /\ Shape /\ Sound(call[d])
      BY <2>1, Zenon DEF Moves, Inv
    <3> QED
      BY <3>1, SoundKept, Zenon
  <2> QED
    BY <2>1, Zenon
<1>3. ASSUME losses = 0, NEW d \in Calls PROVE Alone(d)'
  <2>1. CASE d # c
    <3>1. call'[d] = call[d] /\ Alone(c) /\ Alone(d)
      BY <1>3, <2>1, Zenon DEF Moves, Inv, Tokens
    <3>2. lease = c
      BY <3>1, Zenon DEF Alone
    <3>3. ~Holds(call'[d])
      BY <2>1, <3>1, <3>2, OneHolder, Zenon
    <3> QED
      BY <3>3, IdleAlone, Zenon
  <2> QED
    BY <1>3, <2>1, Zenon
<1>4. Tokens'
  BY <1>3, Zenon DEF Tokens
<1> QED
  BY <1>1, <1>2, <1>4, Zenon DEF Inv

\* A step that does not touch the tokens.
Still == UNCHANGED <<row, valid, issued, spent, deferred, losses>>

LEMMA StillGrows ==
  ASSUME Types, Still, lease' \in Calls \cup {NoOne}
  PROVE  Grows
  BY DEF Types, Still, Grows

LEMMA StillDisjoint ==
  ASSUME Disjoint, Still
  PROVE  Disjoint'
  BY DEF Disjoint, Still

\* RotatedTokensAreKept, token by token.
Kept(t) == \/ t = row.token \/ t \in dropped
           \/ \E c \in Calls : call[c].pc = "commit" /\ t = call[c].got

LEMMA KeptMeans ==
  /\ RotatedTokensAreKept <=> \A t \in valid : Kept(t)
  /\ RotatedTokensAreKept' <=> \A t \in valid' : Kept(t)'
  BY Zenon DEF RotatedTokensAreKept, Kept

\* A token that is kept stays so while the refreshes that hold one do.
LEMMA StaysKept ==
  ASSUME NEW t, Kept(t), row'.token = row.token, dropped \subseteq dropped',
         \A d \in Calls : call[d].pc = "commit" =>
             call'[d].pc = "commit" /\ call'[d].got = call[d].got
  PROVE  Kept(t)'
  BY Zenon DEF Kept

\* The tokens are kept if the refresh that steps had none to commit.
LEMMA StillKept ==
  ASSUME RotatedTokensAreKept, NEW c \in Calls, Moves(c), call[c].pc # "commit",
         row'.token = row.token, dropped' = dropped, valid' \subseteq valid
  PROVE  RotatedTokensAreKept'
<1>1. ASSUME NEW d \in Calls, call[d].pc = "commit"
      PROVE  call'[d].pc = "commit" /\ call'[d].got = call[d].got
  BY <1>1, Zenon DEF Moves
<1>2. ASSUME NEW t \in valid' PROVE Kept(t)'
  BY <1>1, KeptMeans, StaysKept, Zenon
<1> QED
  BY <1>2, KeptMeans, Zenon

LEMMA StillStep ==
  ASSUME Inv, NEW c \in Calls, Holds(call[c]), call[c].pc # "commit", Moves(c),
         Still, UNCHANGED <<lease, dropped>>,
         Working(call'[c]), Sound(call[c])', losses = 0 => Alone(c)'
  PROVE  Inv'
<1>1. Types /\ Disjoint /\ RotatedTokensAreKept /\ Tokens
  BY DEF Inv
<1>2. Grows
  BY <1>1, StillGrows, Zenon DEF Types
<1>3. Disjoint'
  BY <1>1, StillDisjoint, Zenon
<1>4. RotatedTokensAreKept'
  BY <1>1, StillKept, Zenon DEF Still
<1>5. losses = 0 => ReadyTokensAreValid'
  BY <1>1, Zenon DEF Tokens, ReadyTokensAreValid, Still
<1>6. losses' = losses
  BY DEF Still
<1> QED
  BY <1>2, <1>3, <1>4, <1>5, <1>6, HolderStep, Zenon

\* ... and ends in the release, the lock or the repair of the registry.
LEMMA RestStep ==
  ASSUME Inv, NEW c \in Calls, Holds(call[c]), call[c].pc # "commit", Moves(c),
         Still, UNCHANGED <<lease, dropped>>, Working(call'[c]),
         call'[c].pc \in {"release", "lock", "repair", "share"}
  PROVE  Inv'
<1>1. Sound(call[c])' /\ (lease' = c => Alone(c)')
  BY RestSound, Zenon
<1>2. losses = 0 => lease' = c
  BY Zenon DEF Inv, Tokens, Alone
<1> QED
  BY <1>1, <1>2, StillStep, Zenon

-----------------------------------------------------------------------------
(* The lease. *)

\* A step of a refresh that does not hold the lease.
LEMMA WaitingStep ==
  ASSUME Inv, NEW c \in Calls, ~Holds(call[c]), Moves(c), Still, dropped' = dropped,
         call'[c] = Over \/ Working(call'[c]), Sound(call[c])',
         lease' \in Calls \cup {NoOne},
         losses = 0 => Alone(c)',
         losses = 0 => lease' = lease \/ \A d \in Calls \ {c} : ~Holds(call[d])
  PROVE  Inv'
<1>1. Types /\ Shape /\ Disjoint /\ RotatedTokensAreKept /\ Tokens
  BY DEF Inv
<1>2. Grows /\ Disjoint'
  BY <1>1, StillGrows, StillDisjoint, Zenon
<1>3. Types' /\ Shape'
  BY <1>1, <1>2, ShapeKept, Zenon DEF Grows
<1>4. RotatedTokensAreKept'
  BY <1>1, StillKept, Zenon DEF Still, Holds
<1>5. ASSUME NEW d \in Calls PROVE Sound(call[d])'
  <2>1. CASE d # c
    <3>1. call'[d] = call[d] /\ Sound(call[d])
      BY <2>1, Zenon DEF Moves, Inv
    <3> QED
      BY <1>1, <1>2, <3>1, SoundKept, Zenon
  <2> QED
    BY <2>1, Zenon
<1>6. ASSUME losses = 0, NEW d \in Calls PROVE Alone(d)'
  <2>1. CASE d # c
    <3>1. call'[d] = call[d] /\ Alone(d) /\ UNCHANGED <<row, valid, deferred>>
      BY <1>1, <1>6, <2>1, Zenon DEF Moves, Tokens, Still
    <3>2. CASE lease' = lease
      BY <3>1, <3>2, SameAlone, Zenon
    <3>3. CASE ~Holds(call[d])
      BY <3>1, <3>3, IdleAlone, Zenon
    <3> QED
      BY <1>6, <2>1, <3>2, <3>3, Zenon
  <2> QED
    BY <1>6, <2>1, Zenon
<1>7. Tokens'
  BY <1>1, <1>6, Zenon DEF Tokens, Still, ReadyTokensAreValid
<1> QED
  BY <1>2, <1>3, <1>4, <1>5, <1>7, Zenon DEF Inv

\* While nobody has the lease, nobody is past it.
LEMMA NoHolder ==
  ASSUME Inv, losses = 0, lease = NoOne, NEW d \in Calls
  PROVE  ~Holds(call[d])
  BY CallsAssumption, Zenon DEF Inv, Tokens, Alone

LEMMA BeginStep ==
  ASSUME Inv, NEW c \in Calls, NEW i \in Instances, NEW kind \in Kinds, Begin(c, i, kind)
  PROVE  Inv'
<1> DEFINE k == [pc |-> "lease", on |-> i, kind |-> kind,
                 expected |-> entry[i].ver, row |-> NoRow, at |-> 0,
                 why |-> "none", auth |-> "none", got |-> 0]
<1>1. Moves(c) /\ call'[c] = k
  BY SetsCall, Zenon DEF Begin, Inv
<1>2. Working(k) /\ ~Holds(k) /\ ~Holds(call[c])
  BY RefreshAssumption, Zenon DEF Begin, Working, Holds, NoRow, Auths, Stages
<1>3. Still /\ dropped' = dropped /\ lease' = lease /\ lease \in Calls \cup {NoOne}
  BY Zenon DEF Begin, Still, upstream, counters, Inv, Types
<1>4. Sound(call[c])' /\ Alone(c)'
  BY <1>1, <1>2, IdleAlone, Zenon
<1> QED
  BY <1>1, <1>2, <1>3, <1>4, WaitingStep, Zenon

LEMMA AcquireStep ==
  ASSUME Inv, NEW c \in Calls, Acquire(c)
  PROVE  Inv'
<1>1. Working(call[c]) /\ ~Holds(call[c])
  BY IsWorking, Zenon DEF Inv, Acquire, Holds
<1>2. Moves(c) /\ Working(call'[c]) /\ call'[c].pc = "lock"
  BY <1>1, GotoMoves, Zenon DEF Inv, Acquire, Stages, Keeps
<1>3. Still /\ dropped' = dropped /\ lease = NoOne /\ lease' = c
  BY DEF Acquire, Still, upstream, counters, Grants
<1>4. Sound(call[c])' /\ Alone(c)'
  BY <1>2, <1>3, RestSound, Zenon
<1> QED
  BY <1>1, <1>2, <1>3, <1>4, NoHolder, WaitingStep, Zenon

\* The refresh is over before it has the lease.
LEMMA GiveUpStep ==
  ASSUME Inv, NEW c \in Calls, GiveUp(c) \/ AcquireFails(c)
  PROVE  Inv'
<1>1. call[c].pc = "lease" /\ Moves(c) /\ call'[c] = Over
  BY SetsCall, Zenon DEF Inv, GiveUp, AcquireFails
<1>2. ~Holds(call[c]) /\ ~Holds(call'[c])
  BY <1>1 DEF Holds, Over
<1>3. Still /\ dropped' = dropped
  BY Zenon DEF GiveUp, AcquireFails, Still, upstream, counters, Fault
<1>4. lease \in Calls \cup {NoOne}
  BY DEF Inv, Types
<1>5. lease' \in Calls \cup {NoOne} /\ (lease' = lease \/ lease = NoOne)
  BY <1>4, Zenon DEF GiveUp, AcquireFails
<1>6. Sound(call[c])' /\ Alone(c)'
  BY <1>2, IdleAlone, Zenon
<1> QED
  BY <1>1, <1>2, <1>3, <1>5, <1>6, NoHolder, WaitingStep, Zenon

\* It has the lease and does not know.
LEMMA AcquireAgainStep ==
  ASSUME Inv, NEW c \in Calls, AcquireAgain(c)
  PROVE  Inv'
<1>1. call[c].pc = "lease" /\ call' = call /\ lease = NoOne /\ lease' = c /\ Shape
  BY Zenon DEF Inv, AcquireAgain, Grants
<1>2. ~Holds(call[c]) /\ ~Holds(call'[c]) /\ Working(call'[c])
  BY <1>1, IsWorking, Zenon DEF Holds
<1>3. Moves(c)
  BY <1>1, Zenon DEF Shape, Moves
<1>4. Still /\ dropped' = dropped
  BY Zenon DEF AcquireAgain, Still, upstream, Fault
<1>5. Sound(call[c])' /\ Alone(c)'
  BY <1>2, IdleAlone, Zenon
<1> QED
  BY <1>1, <1>2, <1>3, <1>4, <1>5, NoHolder, WaitingStep, Zenon

-----------------------------------------------------------------------------
(* The read of the row, and the steps that leave the tokens alone. *)

\* The refresh takes the row it reads, to mark it or to repair the registry.
LEMMA ReadWrites ==
  ASSUME Inv, NEW c \in Calls, call[c].pc = "lock", Still, UNCHANGED <<lease, dropped>>,
         NEW why, NEW auth,
         \/ why = "interrupted" /\ auth = "unknown"
         \/ /\ why = "start" /\ auth = "refreshing"
            /\ call[c].kind # "recovery" => row.auth = "ready",
         call' = [call EXCEPT ![c] = [call[c] EXCEPT !.row = row, !.at = row.ver, !.pc = "write",
                                                     !.why = why, !.auth = auth]]
  PROVE  Inv'
<1> DEFINE k == [call[c] EXCEPT !.row = row, !.at = row.ver, !.pc = "write",
                                !.why = why, !.auth = auth]
<1>1. Working(call[c]) /\ Holds(call[c])
  BY IsWorking, Zenon DEF Inv, Holds
<1>2. Moves(c) /\ call'[c] = k
  BY SetsCall, Zenon DEF Inv
<1>3. /\ row \in [ver : Nat, auth : Auths, token : Nat] /\ row.token \in 1..issued
      /\ row.ver \in Nat
  BY Zenon DEF Inv, Types
<1>4. /\ Working(k) /\ k.pc = "write" /\ k.row = row /\ k.at = row.ver /\ k.why = why
      /\ k.auth = auth /\ k.kind = call[c].kind
  BY <1>1, <1>3, Zenon DEF Working, Stages, Auths, States
<1>5. Sound(call[c])'
  BY <1>3 DEF Sound, HasRead, Starting, Still
<1>6. ASSUME losses = 0 PROVE Alone(c)'
  <2>1. Alone(c) /\ ReadyTokensAreValid
    BY <1>6, Zenon DEF Inv, Tokens
  <2>2. lease' = c
    BY <1>1, <2>1, Zenon DEF Alone
  <2>3. row.auth = "ready" => row.token \in valid \cup deferred
    BY <1>6, <2>1, Zenon DEF ReadyTokensAreValid
  <2> QED
    BY <2>2, <2>3 DEF Alone, Starting, Unused, Still
<1> QED
  BY <1>1, <1>2, <1>4, <1>5, <1>6, StillStep, Zenon

LEMMA ReadStep ==
  ASSUME Inv, NEW c \in Calls, Read(c)
  PROVE  Inv'
<1>1. Working(call[c]) /\ Holds(call[c]) /\ call[c].pc = "lock"
  BY IsWorking, Zenon DEF Inv, Holds, Read
<1>2. Still /\ UNCHANGED <<lease, dropped>>
  BY Zenon DEF Read, Still, upstream, counters
<1> DEFINE taken == [call[c] EXCEPT !.row = row, !.at = row.ver]
<1>3. CASE /\ Interrupted(call[c])
           /\ call' = [call EXCEPT ![c] = [taken EXCEPT !.pc = "write", !.why = "interrupted",
                                                        !.auth = Restored(row.auth)]]
  <2>1. Restored(row.auth) = "unknown"
    BY <1>3 DEF Interrupted, Restored
  <2> QED
    BY <1>1, <1>2, <1>3, <2>1, ReadWrites, Zenon
<1>4. CASE Goto(c, "release")
  BY <1>1, <1>2, <1>4, GotoMoves, RestStep, Zenon DEF Inv, Stages, Keeps
<1>5. CASE call' = [call EXCEPT ![c] = [taken EXCEPT !.pc = "repair"]]
  <2>1. Moves(c) /\ call'[c] = [taken EXCEPT !.pc = "repair"]
    BY <1>5, SetsCall, Zenon DEF Inv
  <2>2. Working([taken EXCEPT !.pc = "repair"]) /\ [taken EXCEPT !.pc = "repair"].pc = "repair"
    BY <1>1, Zenon DEF Working, Stages, Inv, Types
  <2> QED
    BY <1>1, <1>2, <2>1, <2>2, RestStep, Zenon
<1>6. CASE /\ ~NotReady(call[c])
           /\ call' = [call EXCEPT ![c] = [taken EXCEPT !.pc = "write", !.why = "start",
                                                        !.auth = "refreshing"]]
  <2>1. call[c].kind # "recovery" => row.auth = "ready"
    BY <1>6, Zenon DEF NotReady
  <2> QED
    BY <1>1, <1>2, <1>6, <2>1, ReadWrites, Zenon
<1> QED
  BY <1>3, <1>4, <1>5, <1>6, Zenon DEF Read

\* The registry is repaired or the new secret shared, and the lease is to be released.
LEMMA EndStep ==
  ASSUME Inv, NEW c \in Calls, Repair(c) \/ Share(c)
  PROVE  Inv'
<1>1. Goto(c, "release") /\ call[c].pc \in {"repair", "share"}
  BY Zenon DEF Repair, Share
<1>2. Still /\ UNCHANGED <<lease, dropped>>
  BY Zenon DEF Repair, Share, ShareDone, Shares, ShareFailed, Still, upstream, counters, Fault,
     NoFault
<1>3. Working(call[c]) /\ Holds(call[c])
  BY <1>1, IsWorking, Zenon DEF Inv, Holds
<1> QED
  BY <1>1, <1>2, <1>3, GotoMoves, RestStep, Zenon DEF Inv, Stages, Keeps

LEMMA PublishStep ==
  ASSUME Inv, NEW c \in Calls, Publish(c)
  PROVE  Inv'
<1>1. Working(call[c]) /\ Holds(call[c]) /\ call[c].pc = "publish"
  BY IsWorking, Zenon DEF Inv, Holds, Publish
<1>2. Still /\ UNCHANGED <<lease, dropped>>
  BY Zenon DEF Publish, Published, Shares, ShareFailed, Still, upstream, counters, Fault, NoFault
<1>3. CASE Goto(c, "release")
  BY <1>1, <1>2, <1>3, GotoMoves, RestStep, Zenon DEF Inv, Stages, Keeps
<1>4. CASE call[c].why = "start" /\ Goto(c, "upstream")
  <2>1. Moves(c) /\ Keeps(c) /\ call'[c].pc = "upstream"
    BY <1>1, <1>4, GotoMoves, Zenon DEF Inv, Stages
  <2>2. Sound(call[c])'
    BY <1>1, <1>2, <1>4, <2>1, Zenon DEF Inv, Sound, HasRead, Starting, Keeps, Still
  <2>3. ASSUME losses = 0 PROVE Alone(c)'
    <3>1. Alone(c)
      BY <2>3, Zenon DEF Inv, Tokens
    <3> QED
      BY <1>1, <1>2, <1>4, <2>1, <3>1, Zenon DEF Alone, Holds, Starting, Unused, Keeps, Still
  <2> QED
    BY <1>1, <1>2, <2>1, <2>2, <2>3, StillStep, Zenon DEF Keeps
<1> QED
  BY <1>3, <1>4, Zenon DEF Publish

-----------------------------------------------------------------------------
(* The writes of the authorization state. *)

\* The state of the row changes, or does not.
Marks(auth) == row' = row \/ row' = [row EXCEPT !.auth = auth]

LEMMA MarksFields ==
  ASSUME Types, NEW auth \in Auths, Marks(auth)
  PROVE  /\ row' \in [ver : Nat, auth : Auths, token : Nat]
         /\ row'.ver = row.ver /\ row'.token = row.token
         /\ row'.auth \in {row.auth, auth}
  BY DEF Types, Marks

LEMMA MarksGrows ==
  ASSUME Types, NEW auth \in Auths, Marks(auth),
         UNCHANGED <<lease, valid, issued, spent, deferred, losses>>
  PROVE  Grows
<1>1. /\ row' \in [ver : Nat, auth : Auths, token : Nat]
      /\ row'.ver = row.ver /\ row'.token = row.token
  BY MarksFields, Zenon
<1>2. Types'
  BY <1>1, Zenon DEF Types
<1>3. row.ver \in Nat
  BY DEF Types
<1> QED
  BY <1>1 DEF Grows, Types

\* A refresh only writes a state it may, for the version it has read.
LEMMA WriteIsValid ==
  ASSUME Inv, NEW c \in Calls, call[c].pc = "write", row.ver = call[c].at,
         losses = 0, call[c].auth = "ready"
  PROVE  row.token \in valid \cup deferred
<1>1. Sound(call[c]) /\ Alone(c)
  BY Zenon DEF Inv, Tokens
<1>2. call[c].row.auth = "ready" /\ call[c].row.ver = row.ver
  BY <1>1, Zenon DEF Sound
<1>3. call[c].row.token = row.token
  BY <1>1, <1>2, Zenon DEF Sound, HasRead
<1>4. Unused(call[c])
  BY DEF Unused
<1> QED
  BY <1>1, <1>2, <1>3, <1>4, Zenon DEF Alone

\* A write that goes on to the record k.
LEMMA WriteGoesOn ==
  ASSUME Inv, NEW c \in Calls, call[c].pc = "write",
         \/ row' = row
         \/ row.ver = call[c].at /\ row' = [row EXCEPT !.auth = call[c].auth],
         UNCHANGED <<lease, valid, issued, spent, deferred, dropped, losses>>,
         Moves(c), Working(call'[c]), Sound(call[c])', losses = 0 => Alone(c)'
  PROVE  Inv'
<1>1. Types /\ Disjoint /\ RotatedTokensAreKept /\ Tokens /\ Shape
  BY DEF Inv
<1>2. Holds(call[c]) /\ Working(call[c])
  BY <1>1, IsWorking, Zenon DEF Holds
<1>3. call[c].auth \in Auths /\ Marks(call[c].auth)
  BY <1>2, Zenon DEF Working, Marks
<1>4. Grows /\ row'.token = row.token /\ row'.auth \in {row.auth, call[c].auth}
  BY <1>1, <1>3, MarksGrows, MarksFields, Zenon
<1>5. Disjoint'
  BY <1>1, Zenon DEF Disjoint
<1>6. RotatedTokensAreKept'
  BY <1>1, <1>4, StillKept, Zenon
<1>7. ASSUME losses = 0 PROVE ReadyTokensAreValid'
  <2>1. CASE row' = row
    BY <1>1, <1>7, <2>1, Zenon DEF Tokens, ReadyTokensAreValid
  <2>2. CASE row.ver = call[c].at
    BY <1>1, <1>4, <1>7, <2>2, WriteIsValid, Zenon DEF Tokens, ReadyTokensAreValid
  <2> QED
    BY <2>1, <2>2, Zenon
<1> QED
  BY <1>2, <1>4, <1>5, <1>6, <1>7, HolderStep, Zenon

LEMMA WriteStep ==
  ASSUME Inv, NEW c \in Calls, Write(c)
  PROVE  Inv'
<1> DEFINE k == call[c]
<1>1. Shape /\ Types /\ Working(k) /\ Holds(k) /\ k.pc = "write" /\ Sound(k)
  BY IsWorking, Zenon DEF Inv, Holds, Write
<1>2. UNCHANGED <<lease, valid, issued, spent, deferred, dropped, losses>>
  BY Zenon DEF Write, upstream, counters, Fault, NoFault
<1>3. losses = 0 => Alone(c)
  BY DEF Inv, Tokens
<1>4. \/ row' = row
      \/ row.ver = k.at /\ row' = [row EXCEPT !.auth = k.auth]
  BY Zenon DEF Write
<1>5. k.auth \in Auths /\ Marks(k.auth)
  BY <1>1, <1>4, Zenon DEF Working, Marks
<1>6. row'.ver = row.ver /\ row'.token = row.token
  BY <1>1, <1>5, MarksFields, Zenon
<1>7. CASE row' = [row EXCEPT !.auth = k.auth] /\ Goto(c, "publish")
  <2>1. /\ Moves(c) /\ Keeps(c) /\ call'[c].pc = "publish"
        /\ call'[c].why = k.why /\ call'[c].auth = k.auth
    BY <1>1, <1>7, GotoMoves, Zenon DEF Stages
  <2>2. Sound(call[c])'
    BY <1>1, <1>2, <1>6, <2>1, Zenon DEF Sound, HasRead, Starting, Keeps
  <2>3. row'.auth = k.auth
    BY <1>1, <1>7, Zenon DEF Types
  <2>4. k.why = "start" => row'.auth # "ready"
    BY <1>1, <2>3, Zenon DEF Sound
  <2>5. ASSUME losses = 0 PROVE Alone(c)'
    <3>1. lease' = c
      BY <1>1, <1>2, <1>3, <2>5, Zenon DEF Alone
    <3>2. k.why = "start" /\ k.row.auth = "ready" => k.row.token \in valid \cup deferred
      BY <1>1, <1>3, <2>5, Zenon DEF Alone, Unused, Starting
    <3> QED
      BY <1>2, <2>1, <2>4, <3>1, <3>2, Zenon DEF Alone, Starting, Unused, Keeps
  <2> QED
    BY <1>1, <1>2, <1>4, <2>1, <2>2, <2>5, WriteGoesOn, Zenon DEF Keeps
<1>8. CASE k.why # "start" /\ call' = [call EXCEPT ![c] = AfterFailedWrite(k)]
  <2>1. Goto(c, "release")
    BY <1>8, Zenon DEF AfterFailedWrite, Goto
  <2>2. Moves(c) /\ Working(call'[c]) /\ call'[c].pc = "release"
    BY <1>1, <2>1, GotoMoves, Zenon DEF Stages, Keeps
  <2>3. Sound(call[c])' /\ (losses = 0 => Alone(c)')
    BY <1>1, <1>2, <1>3, <2>2, RestSound, Zenon DEF Alone
  <2> QED
    BY <1>1, <1>2, <1>4, <2>2, <2>3, WriteGoesOn, Zenon
<1>9. CASE k.why = "start" /\ call' = [call EXCEPT ![c] = AfterFailedWrite(k)]
  <2> DEFINE undo == [k EXCEPT !.why = "undo", !.auth = Restored(k.row.auth)]
  <2>1. Moves(c) /\ call'[c] = undo
    BY <1>1, <1>9, SetsCall, Zenon DEF AfterFailedWrite
  <2>2. /\ Working(undo) /\ undo.pc = "write" /\ undo.row = k.row /\ undo.at = k.at
        /\ undo.why = "undo" /\ undo.kind = k.kind
        /\ undo.auth = "ready" => k.row.auth = "ready"
    <3>1. k.row.auth \in Auths
      BY <1>1, Zenon DEF Working
    <3>2. Restored(k.row.auth) \in Auths /\ (Restored(k.row.auth) = "ready" => k.row.auth = "ready")
      BY <3>1, Zenon DEF Restored, Auths, States
    <3> QED BY <1>1, <3>2, Zenon DEF Working
  <2> HIDE DEF undo
  <2>3. Sound(call[c])'
    BY <1>1, <1>2, <1>6, <1>9, <2>1, <2>2, Zenon DEF Sound, HasRead, Starting
  <2>4. ASSUME losses = 0 PROVE Alone(c)'
    <3>1. lease' = c
      BY <1>1, <1>2, <1>3, <2>4, Zenon DEF Alone
    <3>2. k.row.auth = "ready" => k.row.token \in valid \cup deferred
      BY <1>1, <1>3, <1>9, <2>4, Zenon DEF Alone, Unused, Starting
    <3> QED
      BY <1>2, <2>1, <2>2, <3>1, <3>2, Zenon DEF Alone, Starting, Unused
  <2> QED
    BY <1>1, <1>2, <1>4, <2>1, <2>2, <2>3, <2>4, WriteGoesOn, Zenon
<1> QED
  BY <1>7, <1>8, <1>9, Zenon DEF Write

-----------------------------------------------------------------------------
(* Upstream. *)

\* A refresh at upstream has a token that was issued, and is not that of a ready row.
LEMMA AtUpstream ==
  ASSUME Inv, NEW c \in Calls, call[c].pc = "upstream"
  PROVE  /\ Working(call[c]) /\ Holds(call[c]) /\ call[c].row.token \in 1..issued
         /\ losses = 0 => /\ lease = c
                          /\ row.auth = "ready" =>
                               row.token \in (valid \cup deferred) \ {call[c].row.token}
<1>1. Working(call[c]) /\ Holds(call[c])
  BY IsWorking, Zenon DEF Inv, Holds
<1>2. call[c].row.token \in 1..issued
  BY Zenon DEF Inv, Sound, HasRead
<1>3. ASSUME losses = 0
      PROVE  /\ lease = c
             /\ row.auth = "ready" => row.token \in (valid \cup deferred) \ {call[c].row.token}
  <2>1. Alone(c) /\ ReadyTokensAreValid
    BY <1>3, Zenon DEF Inv, Tokens
  <2> QED
    BY <1>1, <1>3, <2>1, Zenon DEF Alone, Starting, ReadyTokensAreValid
<1> QED
  BY <1>1, <1>2, <1>3, Zenon

\* A failed request is written as a state that does not call the token unused.
LEMMA FailedIsSound ==
  ASSUME Inv, NEW c \in Calls, call[c].pc = "upstream", Keeps(c), Grows, row' = row,
         call'[c].pc = "write", call'[c].why \in {"failed", "uncommitted"},
         call'[c].auth # "ready", lease' = lease
  PROVE  Sound(call[c])' /\ (losses = 0 => Alone(c)')
<1>1. Sound(call[c]) /\ Holds(call[c]) /\ Types /\ Types'
  BY Zenon DEF Inv, Holds, Grows
<1>2. call[c].row.token \in 1..issued'
  BY <1>1 DEF Sound, HasRead, Grows, Types
<1>3. Sound(call[c])'
  BY <1>1, <1>2, Zenon DEF Sound, HasRead, Starting, Keeps
<1>4. losses = 0 => lease' = c
  BY <1>1, Zenon DEF Inv, Tokens, Alone
<1> QED
  BY <1>3, <1>4, Zenon DEF Alone, Starting, Unused

LEMMA UncertainType ==
  ASSUME NEW auth \in Auths
  PROVE  Uncertain(auth) \in Auths /\ Uncertain(auth) # "ready"
  BY DEF Uncertain, Restored, Auths, States

\* What the answer of upstream leaves of the tokens.
LEMMA RotatesTokens ==
  ASSUME Inv, NEW c \in Calls, Rotates(c)
  PROVE  /\ Grows /\ Disjoint' /\ UNCHANGED <<row, lease, losses>>
         /\ call[c].row.token \notin valid' /\ issued + 1 \in valid'
         /\ losses = 0 => ReadyTokensAreValid'
<1> DEFINE t == call[c].row.token
<1>1. Types /\ Disjoint /\ t \in 1..issued /\ issued \in Nat
  BY AtUpstream, Zenon DEF Inv, Types, Rotates
<1>2. /\ issued' = issued + 1 /\ valid' = (valid \ {t}) \cup {issued + 1}
      /\ spent' = spent \cup {t} /\ deferred' = deferred \ {t} /\ UNCHANGED <<row, lease, losses>>
  BY Zenon DEF Rotates, Rotated, Present, counters
<1>3. Types'
  <2>1. \A x : x \in 1..issued => x \in 1..issued'
    BY <1>1, <1>2
  <2>2. issued + 1 \in 1..issued' /\ issued' \in Nat
    BY <1>1, <1>2
  <2>3. valid' \subseteq 1..issued' /\ spent' \subseteq 1..issued' /\ row'.token \in 1..issued'
    BY <1>1, <1>2, <2>1, <2>2, Zenon DEF Types
  <2> QED
    BY <1>1, <1>2, <2>2, <2>3, Zenon DEF Types
<1>4. Grows
  BY <1>1, <1>2, <1>3 DEF Grows, Types
<1>5. Disjoint'
  <2>1. issued + 1 \notin spent \cup {t}
    BY <1>1 DEF Types
  <2> QED
    BY <1>1, <1>2, <2>1, Zenon DEF Disjoint
<1>6. t \notin valid' /\ issued + 1 \in valid'
  BY <1>1, <1>2
<1>7. losses = 0 => ReadyTokensAreValid'
  <2>1. losses = 0 /\ row.auth = "ready" => row.token \in (valid \cup deferred) \ {t}
    BY AtUpstream, Zenon DEF Rotates
  <2> QED BY <1>2, <2>1, Zenon DEF ReadyTokensAreValid
<1> QED
  BY <1>2, <1>4, <1>5, <1>6, <1>7, Zenon

LEMMA RotatesStep ==
  ASSUME Inv, NEW c \in Calls, Rotates(c)
  PROVE  Inv'
<1> DEFINE k == call[c]
           t == call[c].row.token
<1>1. k.pc = "upstream" /\ Working(k) /\ Holds(k) /\ t \in 1..issued /\ Shape /\ Sound(k)
  BY AtUpstream, Zenon DEF Inv, Rotates
<1>2. /\ Grows /\ Disjoint' /\ UNCHANGED <<row, lease, losses>> /\ t \notin valid'
      /\ issued + 1 \in valid'
      /\ losses = 0 => ReadyTokensAreValid'
  BY RotatesTokens, Zenon
<1>3. issued \in Nat /\ \A x \in valid' : x \in valid \/ x = issued + 1
  BY Zenon DEF Inv, Types, Rotates, Rotated
<1>4. RotatedTokensAreKept
  BY DEF Inv
<1>5. CASE /\ call' = [call EXCEPT ![c].pc = "commit", ![c].got = issued + 1]
           /\ UNCHANGED dropped
  <2> DEFINE n == [k EXCEPT !.pc = "commit", !.got = issued + 1]
  <2>1. Moves(c) /\ call'[c] = n
    <3>1. call' = [d \in Calls |-> call'[d]] /\ \A d \in Calls \ {c} : call'[d] = call[d]
      BY <1>1, <1>5, Zenon DEF Shape
    <3>2. call'[c] = n
      BY <1>1, <1>5, Zenon DEF Shape
    <3> QED
      BY <3>1, <3>2, Zenon DEF Moves
  <2>2. Working(n) /\ n.pc = "commit" /\ n.row = k.row /\ n.got = issued + 1
    <3>1. issued + 1 \in Nat
      BY <1>3
    <3> QED
      BY <1>1, <3>1, Zenon DEF Working, Stages
  <2> HIDE DEF n
  <2>3. Sound(call[c])'
    <3>1. t \in 1..issued' /\ issued + 1 \in 1..issued'
      <4>1. issued' = issued + 1
        BY Zenon DEF Rotates, Rotated
      <4> QED BY <1>1, <1>3, <4>1
    <3> QED
      BY <1>1, <1>2, <2>1, <2>2, <3>1, Zenon DEF Sound, HasRead, Starting
  <2>4. losses = 0 => Alone(c)'
    BY <1>1, <1>2, <2>1, <2>2, AtUpstream, Zenon DEF Alone, Starting, Unused
  <2>5. RotatedTokensAreKept'
    <3>1. ASSUME NEW d \in Calls, call[d].pc = "commit"
          PROVE  call'[d].pc = "commit" /\ call'[d].got = call[d].got
      BY <1>1, <2>1, <3>1, Zenon DEF Moves
    <3>2. call'[c].pc = "commit" /\ call'[c].got = issued + 1
      BY <2>1, <2>2, Zenon
    <3>3. ASSUME NEW x \in valid PROVE Kept(x)'
      BY <1>2, <1>4, <1>5, <3>1, KeptMeans, StaysKept, Zenon
    <3>4. ASSUME NEW x, x = issued + 1 PROVE Kept(x)'
      BY <3>2, <3>4, Zenon DEF Kept
    <3> QED
      BY <1>3, <3>3, <3>4, KeptMeans, Zenon
  <2> QED
    BY <1>1, <1>2, <2>1, <2>2, <2>3, <2>4, <2>5, HolderStep, Zenon
<1>6. CASE Writing(c, "failed", Uncertain(k.row.auth)) /\ dropped' = dropped \cup {issued + 1}
  <2>1. k.row.auth \in Auths
    BY <1>1, Zenon DEF Working
  <2>2. /\ Moves(c) /\ Keeps(c) /\ call'[c].pc = "write" /\ call'[c].why = "failed"
        /\ call'[c].auth # "ready"
    BY <1>1, <1>6, <2>1, UncertainType, WritingMoves
  <2>3. Sound(call[c])' /\ (losses = 0 => Alone(c)')
    BY <1>1, <1>2, <2>2, FailedIsSound, Zenon
  <2>4. RotatedTokensAreKept'
    <3>1. ASSUME NEW d \in Calls, call[d].pc = "commit"
          PROVE  call'[d].pc = "commit" /\ call'[d].got = call[d].got
      BY <1>1, <2>2, <3>1, Zenon DEF Moves
    <3>2. ASSUME NEW x \in valid PROVE Kept(x)'
      BY <1>2, <1>4, <1>6, <3>1, KeptMeans, StaysKept, Zenon
    <3>3. ASSUME NEW x, x = issued + 1 PROVE Kept(x)'
      BY <1>6, <3>3, Zenon DEF Kept
    <3> QED
      BY <1>3, <3>2, <3>3, KeptMeans, Zenon
  <2> QED
    BY <1>1, <1>2, <2>2, <2>3, <2>4, HolderStep, Zenon DEF Keeps
<1> QED
  BY <1>5, <1>6, Zenon DEF Rotates

LEMMA RejectsStep ==
  ASSUME Inv, NEW c \in Calls, Rejects(c)
  PROVE  Inv'
<1> DEFINE t == call[c].row.token
<1>1. /\ call[c].pc = "upstream" /\ Working(call[c]) /\ Holds(call[c]) /\ t \in 1..issued
      /\ Types /\ Disjoint /\ RotatedTokensAreKept /\ Shape
  BY AtUpstream, Zenon DEF Inv, Rejects
<1>2. /\ valid' = valid \ {t} /\ spent' = spent \cup {t} /\ deferred' = deferred \ {t}
      /\ UNCHANGED <<row, lease, issued, dropped, losses>>
  BY Zenon DEF Rejects, Present, counters
<1>3. Grows
  <2>1. Types'
    BY <1>1, <1>2, Zenon DEF Types
  <2> QED
    BY <1>2, <2>1 DEF Grows, Types
<1>4. Disjoint'
  BY <1>1, <1>2, Zenon DEF Disjoint
<1>5. /\ Moves(c) /\ Keeps(c) /\ call'[c].pc = "write" /\ call'[c].why = "failed"
      /\ call'[c].auth = "rejected"
  BY <1>1, WritingMoves, Zenon DEF Rejects, Auths, States
<1>6. Sound(call[c])' /\ (losses = 0 => Alone(c)')
  BY <1>1, <1>2, <1>3, <1>5, FailedIsSound, Zenon
<1>7. RotatedTokensAreKept'
  BY <1>1, <1>2, <1>5, StillKept, Zenon
<1>8. losses = 0 => ReadyTokensAreValid'
  <2>1. losses = 0 /\ row.auth = "ready" => row.token \in (valid \cup deferred) \ {t}
    BY <1>1, AtUpstream, Zenon
  <2> QED BY <1>2, <2>1, Zenon DEF ReadyTokensAreValid
<1> QED
  BY <1>1, <1>2, <1>3, <1>4, <1>5, <1>6, <1>7, <1>8, HolderStep, Zenon DEF Keeps

\* What an answer that may be retried leaves of the tokens.
LEMMA PostponesTokens ==
  ASSUME Inv, NEW c \in Calls, Postpones(c)
  PROVE  /\ Grows /\ Disjoint' /\ UNCHANGED <<row, lease, losses>>
         /\ valid' \subseteq valid \cup {issued + 1}
         /\ issued + 1 \in valid' => dropped' = dropped \cup {issued + 1}
         /\ dropped \subseteq dropped'
         /\ call[c].row.token \in deferred'
         /\ losses = 0 => ReadyTokensAreValid'
<1> DEFINE t == call[c].row.token
<1>1. Types /\ Disjoint /\ t \in 1..issued /\ issued \in Nat
  BY AtUpstream, Zenon DEF Inv, Types, Postpones
<1>2. /\ spent' = spent \cup {t} /\ deferred' = deferred \cup {t}
      /\ UNCHANGED <<row, lease, losses>>
  BY Zenon DEF Postpones, counters
<1>3. \/ UNCHANGED <<valid, issued, dropped>>
      \/ /\ issued' = issued + 1 /\ valid' = (valid \ {t}) \cup {issued + 1}
         /\ dropped' = dropped \cup {issued + 1}
  BY Zenon DEF Postpones, Rotated
<1>4. issued + 1 \notin spent \cup {t} /\ issued + 1 \notin valid
  BY <1>1 DEF Types
<1>5. Types'
  <2>1. issued' \in Nat /\ \A x : x \in 1..issued => x \in 1..issued'
    BY <1>1, <1>3
  <2>2. issued' = issued + 1 => issued + 1 \in 1..issued'
    BY <1>1
  <2>3. valid' \subseteq 1..issued' /\ spent' \subseteq 1..issued' /\ row'.token \in 1..issued'
    BY <1>1, <1>2, <1>3, <2>1, <2>2, Zenon DEF Types
  <2> QED
    BY <1>1, <1>2, <2>1, <2>3, Zenon DEF Types
<1>6. Grows
  BY <1>1, <1>2, <1>3, <1>5 DEF Grows, Types
<1>7. Disjoint'
  BY <1>1, <1>2, <1>3, <1>4, Zenon DEF Disjoint
<1>8. losses = 0 => ReadyTokensAreValid'
  <2>1. losses = 0 /\ row.auth = "ready" => row.token \in (valid \cup deferred) \ {t}
    BY AtUpstream, Zenon DEF Postpones
  <2> QED BY <1>2, <1>3, <2>1, Zenon DEF ReadyTokensAreValid
<1>9. /\ valid' \subseteq valid \cup {issued + 1} /\ dropped \subseteq dropped'
      /\ issued + 1 \in valid' => dropped' = dropped \cup {issued + 1}
  BY <1>3, <1>4, Zenon
<1> QED
  BY <1>2, <1>6, <1>7, <1>8, <1>9, Zenon

LEMMA PostponesStep ==
  ASSUME Inv, NEW c \in Calls, Postpones(c)
  PROVE  Inv'
<1> DEFINE k == call[c]
           t == call[c].row.token
<1>1. k.pc = "upstream" /\ Working(k) /\ Holds(k) /\ Shape /\ Sound(k) /\ RotatedTokensAreKept
  BY AtUpstream, Zenon DEF Inv, Postpones
<1>2. /\ Grows /\ Disjoint' /\ UNCHANGED <<row, lease, losses>> /\ t \in deferred'
      /\ losses = 0 => ReadyTokensAreValid'
  BY PostponesTokens, Zenon
<1>3. k.row.auth \in Auths
  BY <1>1, Zenon DEF Working
<1>4. Restored(k.row.auth) \in Auths /\ (Restored(k.row.auth) = "ready" => k.row.auth = "ready")
  BY <1>3, Zenon DEF Restored, Auths, States
<1>5. /\ Moves(c) /\ Keeps(c) /\ call'[c].pc = "write" /\ call'[c].why = "failed"
      /\ call'[c].auth = Restored(k.row.auth)
  BY <1>1, <1>4, WritingMoves, Zenon DEF Postpones
<1>6. k.at = k.row.ver
  BY <1>1, Zenon DEF Sound, Starting
<1>7. k.row.token \in 1..issued'
  <2>1. t \in 1..issued /\ issued \in Nat /\ issued' \in Nat /\ issued <= issued'
    BY <1>1, <1>2, AtUpstream, Zenon DEF Grows, Inv, Types
  <2> QED BY <2>1
<1>8. Sound(call[c])'
  BY <1>1, <1>2, <1>4, <1>5, <1>6, <1>7, Zenon DEF Sound, HasRead, Starting, Keeps
<1>9. losses = 0 => lease' = c
  BY <1>1, <1>2, AtUpstream, Zenon
<1>10. losses = 0 => Alone(c)'
  BY <1>2, <1>5, <1>9, Zenon DEF Alone, Starting, Unused, Keeps
<1>11. RotatedTokensAreKept'
  <2>1. ASSUME NEW d \in Calls, call[d].pc = "commit"
        PROVE  call'[d].pc = "commit" /\ call'[d].got = call[d].got
    BY <1>1, <1>5, <2>1, Zenon DEF Moves
  <2>2. ASSUME NEW x \in valid PROVE Kept(x)'
    BY <1>1, <1>2, <2>1, PostponesTokens, KeptMeans, StaysKept, Zenon
  <2>3. ASSUME NEW x \in valid', x = issued + 1 PROVE Kept(x)'
    BY <2>3, PostponesTokens, Zenon DEF Kept
  <2> QED
    BY <2>2, <2>3, PostponesTokens, KeptMeans, Zenon
<1> QED
  BY <1>1, <1>2, <1>5, <1>8, <1>10, <1>11, HolderStep, Zenon DEF Keeps

LEMMA NotServedStep ==
  ASSUME Inv, NEW c \in Calls, NotServed(c)
  PROVE  Inv'
<1> DEFINE k == call[c]
<1>1. k.pc = "upstream" /\ Working(k) /\ Holds(k) /\ Shape /\ Types
  BY AtUpstream, Zenon DEF Inv, NotServed
<1>2. Still /\ UNCHANGED <<lease, dropped>>
  BY Zenon DEF NotServed, Still, upstream, counters
<1>3. k.row.auth \in Auths
  BY <1>1, Zenon DEF Working
<1>4. /\ Moves(c) /\ Keeps(c) /\ call'[c].pc = "write" /\ call'[c].why = "failed"
      /\ call'[c].auth # "ready"
  BY <1>1, <1>3, WritingMoves, UncertainType DEF NotServed
<1>5. Grows
  BY <1>1, <1>2, StillGrows, Zenon DEF Types
<1>6. Sound(call[c])' /\ (losses = 0 => Alone(c)')
  BY <1>1, <1>2, <1>4, <1>5, FailedIsSound, Zenon DEF Still
<1> QED
  BY <1>1, <1>2, <1>4, <1>6, StillStep, Zenon DEF Keeps

-----------------------------------------------------------------------------
(* The commit and what follows it. *)

LEMMA AtCommit ==
  ASSUME Inv, NEW c \in Calls, call[c].pc = "commit"
  PROVE  /\ Working(call[c]) /\ Holds(call[c]) /\ Sound(call[c])
         /\ call[c].row.ver \in Nat /\ call[c].got \in 1..issued
         /\ call[c].row.token \notin valid /\ call[c].row.ver <= row.ver
         /\ row.ver = call[c].row.ver => row.token = call[c].row.token
         /\ losses = 0 => lease = c /\ call[c].got \in valid
<1>1. Working(call[c]) /\ Holds(call[c]) /\ Sound(call[c])
  BY IsWorking, Zenon DEF Inv, Holds
<1>2. call[c].row.ver \in Nat
  BY <1>1, Zenon DEF Working
<1>3. losses = 0 => lease = c /\ call[c].got \in valid
  BY <1>1, Zenon DEF Inv, Tokens, Alone
<1> QED
  BY <1>1, <1>2, <1>3, Zenon DEF Sound, HasRead

\* The new token is in the row, or was lost.
LEMMA CommitKeeps ==
  ASSUME Inv, NEW c \in Calls, call[c].pc = "commit", Moves(c),
         \/ row'.token = call[c].got /\ row.token \notin valid /\ dropped' = dropped
         \/ row' = row /\ dropped' = dropped \cup {call[c].got},
         valid' = valid
  PROVE  RotatedTokensAreKept'
<1>1. \A x \in valid : Kept(x)
  BY KeptMeans, Zenon DEF Inv
<1>2. ASSUME NEW x \in valid PROVE Kept(x)'
  <2>1. CASE x = row.token \/ x \in dropped
    BY <2>1, Zenon DEF Kept
  <2>2. CASE x = call[c].got
    BY <2>2, Zenon DEF Kept
  <2>3. CASE \E d \in Calls \ {c} : call[d].pc = "commit" /\ x = call[d].got
    BY <2>3, Zenon DEF Kept, Moves
  <2> QED
    BY <1>1, <2>1, <2>2, <2>3, Zenon DEF Kept
<1> QED
  BY <1>2, KeptMeans, Zenon

\* A new row, or the old one.
LEMMA CommitGrows ==
  ASSUME Inv, NEW c \in Calls, call[c].pc = "commit",
         \/ row' = row
         \/ /\ row.ver = call[c].row.ver
            /\ row' = [ver |-> call[c].row.ver + 1, auth |-> "ready", token |-> call[c].got],
         UNCHANGED <<lease, valid, issued, spent, deferred, losses>>
  PROVE  Grows
<1>1. Types /\ call[c].got \in 1..issued /\ call[c].row.ver \in Nat
  BY AtCommit, Zenon DEF Inv
<1>2. CASE row' = row
  BY <1>1, <1>2, StillGrows, Zenon DEF Still, Types
<1>3. CASE /\ row.ver = call[c].row.ver
           /\ row' = [ver |-> call[c].row.ver + 1, auth |-> "ready", token |-> call[c].got]
  <2>1. row'.ver = row.ver + 1 /\ row'.token = call[c].got /\ row.ver \in Nat
    BY <1>1, <1>3, Zenon
  <2>2. row' \in [ver : Nat, auth : Auths, token : Nat]
    BY <1>1, <1>3 DEF Auths, States
  <2>3. Types'
    BY <1>1, <2>1, <2>2, Zenon DEF Types
  <2> QED
    BY <2>1, <2>3 DEF Grows, Types
<1> QED
  BY <1>2, <1>3, Zenon

LEMMA CommitStep ==
  ASSUME Inv, faults \in Nat, NEW c \in Calls, Commit(c)
  PROVE  Inv'
<1> DEFINE k == call[c]
           next == [ver |-> k.row.ver + 1, auth |-> "ready", token |-> k.got]
<1>1. k.pc = "commit" /\ Shape /\ Disjoint /\ Tokens
  BY Zenon DEF Commit, Inv
<1>2. /\ Working(k) /\ Holds(k) /\ Sound(k) /\ k.row.ver \in Nat /\ k.row.token \notin valid
      /\ k.row.ver <= row.ver
      /\ row.ver = k.row.ver => row.token = k.row.token
      /\ losses = 0 => lease = c /\ k.got \in valid
  BY <1>1, AtCommit, Zenon
<1>3. UNCHANGED <<lease, valid, issued, spent, deferred, losses>>
  BY Zenon DEF Commit, upstream, counters, Fault, NoFault
<1>4. \/ row' = next /\ row.ver = k.row.ver /\ dropped' = dropped
      \/ row' = row /\ dropped' = dropped \cup {k.got}
  <2>1. Fault => faults' # faults
    BY DEF Fault
  <2> QED
    BY <2>1, Zenon DEF Commit, Commits
<1>5. Grows
  BY <1>1, <1>3, <1>4, CommitGrows, Zenon
<1>6. Disjoint'
  BY <1>1, <1>3, Zenon DEF Disjoint
<1>7. losses = 0 => ReadyTokensAreValid'
  BY <1>1, <1>2, <1>3, <1>4 DEF Tokens, ReadyTokensAreValid
<1>8. \/ Goto(c, "replace")
      \/ Writing(c, "uncommitted", "unknown")
  BY Zenon DEF Commit
<1>9. /\ Moves(c) /\ Keeps(c)
      /\ \/ call'[c].pc = "replace"
         \/ call'[c].pc = "write" /\ call'[c].why = "uncommitted" /\ call'[c].auth = "unknown"
  <2>1. "replace" \in Stages /\ "unknown" \in Auths
    BY DEF Auths, States, Stages
  <2>2. CASE Goto(c, "replace")
    BY <1>1, <1>2, <2>1, <2>2, GotoMoves, Zenon
  <2>3. CASE Writing(c, "uncommitted", "unknown")
    <3>1. PICK why \in {"failed", "uncommitted"} : why = "uncommitted"
      OBVIOUS
    <3>2. Writing(c, why, "unknown")
      BY <2>3, <3>1, Zenon
    <3>3. /\ Moves(c) /\ Keeps(c) /\ call'[c].pc = "write"
          /\ call'[c].why = why /\ call'[c].auth = "unknown"
      <4>1. Working(call[c]) /\ Shape
        BY <1>1, <1>2, Zenon
      <4> HIDE DEF k, next
      <4> QED
        BY <2>1, <3>2, <4>1, WritingMoves
    <3> QED
      BY <3>1, <3>3, Zenon
  <2> QED
    BY <1>8, <2>2, <2>3, Zenon
<1>10. RotatedTokensAreKept'
  BY <1>1, <1>2, <1>3, <1>4, <1>9, CommitKeeps
<1>11. Sound(call[c])'
  <2>1. k.row.token \in 1..issued' /\ row'.ver \in Nat /\ row.ver \in Nat
    BY <1>1, <1>2, <1>3, <1>5, Zenon DEF Sound, HasRead, Grows, Types, Inv
  <2>2. k.row.ver <= row'.ver /\ (k.row.ver = row'.ver => k.row.token = row'.token)
    BY <1>2, <1>5, <2>1 DEF Grows
  <2> QED
    BY <1>9, <2>1, <2>2, Zenon DEF Sound, HasRead, Starting, Keeps
<1>12. losses = 0 => Alone(c)'
  BY <1>2, <1>3, <1>9, Zenon DEF Alone, Starting, Unused
<1> QED
  BY <1>2, <1>3, <1>5, <1>6, <1>7, <1>9, <1>10, <1>11, <1>12, HolderStep, Zenon DEF Keeps

LEMMA ReplaceStep ==
  ASSUME Inv, NEW c \in Calls, Replace(c)
  PROVE  Inv'
<1> DEFINE k == call[c]
<1>1. k.pc = "replace" /\ Working(k) /\ Holds(k) /\ Shape /\ Sound(k)
  BY IsWorking, Zenon DEF Inv, Holds, Replace
<1>2. Still /\ UNCHANGED <<lease, dropped>>
  BY Zenon DEF Replace, Still, upstream, counters, Fault, NoFault
<1>3. CASE Goto(c, "share")
  BY <1>1, <1>2, <1>3, GotoMoves, RestStep, Zenon DEF Stages, Keeps
<1>4. CASE call' = [call EXCEPT ![c].pc = "write", ![c].why = "mismatch",
                                ![c].auth = "unknown", ![c].at = k.row.ver + 1]
  <2> DEFINE n == [k EXCEPT !.pc = "write", !.why = "mismatch", !.auth = "unknown",
                            !.at = k.row.ver + 1]
  <2>1. Moves(c) /\ call'[c] = n
    <3>1. call' = [d \in Calls |-> call'[d]] /\ \A d \in Calls \ {c} : call'[d] = call[d]
      BY <1>1, <1>4, Zenon DEF Shape
    <3>2. call'[c] = n
      BY <1>1, <1>4, Zenon DEF Shape
    <3> QED
      BY <3>1, <3>2, Zenon DEF Moves
  <2>2. k.row.ver + 1 \in Nat
    BY <1>1 DEF Working
  <2>3. /\ Working(n) /\ n.pc = "write" /\ n.why = "mismatch" /\ n.auth = "unknown"
        /\ n.row = k.row
    BY <1>1, <2>2, Zenon DEF Working, Stages, Auths, States
  <2> HIDE DEF n
  <2>4. Sound(call[c])'
    BY <1>1, <1>2, <2>1, <2>3, Zenon DEF Sound, HasRead, Starting, Still
  <2>5. losses = 0 => Alone(c)'
    <3>1. losses = 0 => lease' = c
      BY <1>1, <1>2, Zenon DEF Inv, Tokens, Alone
    <3> QED
      BY <2>1, <2>3, <3>1, Zenon DEF Alone, Starting, Unused
  <2> QED
    BY <1>1, <1>2, <2>1, <2>3, <2>4, <2>5, StillStep, Zenon
<1> QED
  BY <1>3, <1>4, Zenon DEF Replace

LEMMA ReleaseStep ==
  ASSUME Inv, NEW c \in Calls, Release(c)
  PROVE  Inv'
<1>1. /\ call[c].pc = "release" /\ Types /\ Shape /\ Disjoint /\ RotatedTokensAreKept /\ Tokens
      /\ lease \in Calls \cup {NoOne}
  BY Zenon DEF Inv, Release, Types
<1>2. Still /\ dropped' = dropped /\ lease' \in {lease, NoOne}
  BY Zenon DEF Release, Still, upstream, counters, Fault, NoFault
<1>3. Moves(c) /\ call'[c] = Over
  BY <1>1, SetsCall, Zenon DEF Release
<1>4. Holds(call[c]) /\ ~Holds(call'[c])
  BY <1>1, <1>3 DEF Holds, Over
<1>5. Sound(call[c])' /\ Alone(c)'
  BY <1>4, IdleAlone, Zenon
<1>6. Grows /\ Disjoint'
  BY <1>1, <1>2, StillGrows, StillDisjoint, Zenon
<1>7. RotatedTokensAreKept'
  BY <1>1, <1>2, <1>3, StillKept, Zenon DEF Still
<1>8. losses' = losses /\ (losses = 0 => ReadyTokensAreValid')
  BY <1>1, <1>2, Zenon DEF Tokens, ReadyTokensAreValid, Still
<1> QED
  BY <1>3, <1>4, <1>5, <1>6, <1>7, <1>8, HolderStep, Zenon

LEMMA RefreshStepKeeps ==
  ASSUME Inv, faults \in Nat, NEW c \in Calls, RefreshStep(c)
  PROVE  Inv'
  BY AcquireStep, GiveUpStep, AcquireAgainStep, ReadStep, EndStep, WriteStep, PublishStep,
     RotatesStep, RejectsStep, PostponesStep, NotServedStep, CommitStep, ReplaceStep, ReleaseStep,
     Zenon DEF RefreshStep

-----------------------------------------------------------------------------
(* The sweep, operators and the environment. *)

\* A step of no refresh, which may mark the row unknown.
LEMMA MarksStep ==
  ASSUME Inv, call' = call, Marks("unknown"),
         UNCHANGED <<lease, valid, issued, spent, deferred, dropped, losses>>
  PROVE  Inv'
<1>1. Types /\ Shape /\ Disjoint /\ RotatedTokensAreKept /\ Tokens
  BY DEF Inv
<1>2. row'.token = row.token /\ (row'.auth = "ready" => row.auth = "ready")
  BY <1>1, MarksFields DEF Auths, States
<1>3. Grows
  BY <1>1, MarksGrows, Zenon DEF Auths, States
<1>4. Types' /\ Shape' /\ Disjoint'
  BY <1>1, <1>3, Zenon DEF Shape, Disjoint, Grows, Working
<1>5. RotatedTokensAreKept'
  BY <1>1, <1>2, KeptMeans, StaysKept, Zenon
<1>6. ASSUME NEW d \in Calls PROVE Sound(call[d])'
  BY <1>1, <1>3, SoundKept, Zenon DEF Inv
<1>7. Tokens'
  <2>1. ASSUME NEW d \in Calls, Alone(d) PROVE Alone(d)'
    BY <1>2, <2>1, Zenon DEF Alone
  <2>2. ReadyTokensAreValid => ReadyTokensAreValid'
    BY <1>2, Zenon DEF ReadyTokensAreValid
  <2> QED
    BY <1>1, <2>1, <2>2, Zenon DEF Tokens
<1> QED
  BY <1>4, <1>5, <1>6, <1>7, Zenon DEF Inv

LEMMA PollStepKeeps ==
  ASSUME Inv, NEW i \in Pollers, PollStep(i)
  PROVE  Inv'
<1>1. call' = call /\ UNCHANGED <<lease, valid, issued, spent, deferred, dropped, losses>>
  BY Zenon DEF PollStep, SweepReads, SweepChecks, SweepMarks, SweepShares, AlignReadsRecord,
     AlignReadsRow, AlignCorrects, PollFails, ShareDone, Shares, ShareFailed, Fault, NoFault,
     upstream, counters
<1>2. Marks("unknown")
  BY Zenon DEF PollStep, SweepReads, SweepChecks, SweepMarks, SweepShares, AlignReadsRecord,
     AlignReadsRow, AlignCorrects, PollFails, Marks
<1> QED
  BY <1>1, <1>2, MarksStep, Zenon

\* Mirrors, reloads, late writes to Redis, and steps that change nothing.
LEMMA MirrorStep ==
  ASSUME Inv, \/ \E i \in Instances : Mirror(i) \/ Reload(i) \/ Connect(i)
              \/ \E w \in strays : StrayRuns(w)
              \/ UNCHANGED vars
  PROVE  Inv'
<1>1. call' = call /\ UNCHANGED <<row, lease, valid, issued, spent, deferred, dropped, losses>>
  BY Zenon DEF Mirror, Reload, Connect, StrayRuns, vars, upstream, counters
<1> QED
  BY <1>1, MarksStep, Zenon DEF Marks

LEMMA ReauthorizeStep ==
  ASSUME Inv, NEW i \in Instances, Reauthorize(i)
  PROVE  Inv'
<1>1. Types /\ Shape /\ Disjoint /\ RotatedTokensAreKept /\ Tokens
  BY DEF Inv
<1>2. /\ call' = call /\ issued' = issued + 1 /\ valid' = valid \cup {issued + 1}
      /\ dropped' = dropped \cup {row.token}
      /\ row' = [ver |-> row.ver + 1, auth |-> "ready", token |-> issued + 1]
      /\ UNCHANGED <<lease, spent, deferred, losses>>
  BY Zenon DEF Reauthorize
<1>3. row'.ver = row.ver + 1 /\ row'.token = issued + 1 /\ row.ver \in Nat /\ issued \in Nat
  BY <1>1, <1>2, Zenon DEF Types
<1>4. Types'
  <2>1. row' \in [ver : Nat, auth : Auths, token : Nat]
    BY <1>2, <1>3 DEF Auths, States
  <2>2. /\ \A x : x \in 1..issued => x \in 1..issued'
        /\ issued + 1 \in 1..issued' /\ issued' \in Nat
    BY <1>2, <1>3
  <2> QED
    BY <1>1, <1>2, <1>3, <2>1, <2>2, Zenon DEF Types
<1>5. Grows
  BY <1>2, <1>3, <1>4 DEF Grows
<1>6. Disjoint'
  <2>1. issued + 1 \notin spent
    BY <1>1 DEF Types
  <2> QED
    BY <1>1, <1>2, <2>1, Zenon DEF Disjoint
<1>7. RotatedTokensAreKept'
  <2>1. ASSUME NEW x \in valid PROVE Kept(x)'
    <3>1. Kept(x)
      BY <1>1, KeptMeans, Zenon
    <3> QED
      BY <1>2, <3>1, Zenon DEF Kept
  <2>2. ASSUME NEW x, x = issued + 1 PROVE Kept(x)'
    BY <1>3, <2>2, Zenon DEF Kept
  <2> QED
    BY <1>2, <2>1, <2>2, KeptMeans, Zenon
<1>8. ASSUME NEW d \in Calls PROVE Sound(call[d])'
  BY <1>1, <1>2, <1>5, SoundKept, Zenon DEF Inv
<1>9. Tokens'
  <2>1. ASSUME NEW d \in Calls, Alone(d) PROVE Alone(d)'
    <3>1. Starting(call[d]) => call[d].row.token \in 1..issued
      BY Zenon DEF Inv, Sound, HasRead, Starting
    <3>2. Starting(call[d]) => call[d].row.token # row'.token
      BY <1>3, <3>1
    <3> QED
      BY <1>2, <2>1, <3>2, Zenon DEF Alone
  <2>2. ReadyTokensAreValid'
    BY <1>2, <1>3, Zenon DEF ReadyTokensAreValid
  <2> QED
    BY <1>1, <1>2, <2>1, <2>2, Zenon DEF Tokens
<1> QED
  BY <1>2, <1>4, <1>6, <1>7, <1>8, <1>9, Zenon DEF Inv, Shape, Working

LEMMA CrashStep ==
  ASSUME Inv, NEW i \in Instances, Crash(i)
  PROVE  Inv'
<1> DEFINE mine == {c \in Calls : Alive(c) /\ call[c].on = i}
<1>1. Types /\ Shape /\ Disjoint /\ RotatedTokensAreKept /\ Tokens
  BY DEF Inv
<1>2. /\ Still /\ lease' = lease
      /\ call' = [c \in Calls |-> IF c \in mine THEN Over ELSE call[c]]
      /\ dropped' = dropped \cup {call[c].got : c \in {d \in mine : call[d].pc = "commit"}}
  BY Zenon DEF Crash, Still, upstream, Fault
<1>3. \A d \in Calls : call'[d] = Over \/ call'[d] = call[d]
  BY <1>2, Zenon
<1>4. Grows /\ Types' /\ Disjoint'
  BY <1>1, <1>2, StillGrows, StillDisjoint, Zenon DEF Types, Grows
<1>5. Shape'
  BY <1>1, <1>2, <1>3, Zenon DEF Shape, Working
<1>6. ASSUME NEW d \in Calls PROVE Sound(call[d])' /\ (Alone(d) => Alone(d)')
  <2>1. CASE call'[d] = Over
    <3>1. ~Holds(call'[d])
      BY <2>1 DEF Holds, Over
    <3> QED
      BY <3>1, IdleAlone, Zenon
  <2>2. CASE call'[d] = call[d]
    <3>1. Sound(call[d])'
      BY <1>1, <1>4, <2>2, SoundKept, Zenon DEF Inv
    <3>2. Alone(d) => Alone(d)'
      BY <1>2, <2>2, SameAlone, Zenon DEF Still
    <3> QED
      BY <3>1, <3>2, Zenon
  <2> QED
    BY <1>3, <2>1, <2>2, Zenon
<1>7. RotatedTokensAreKept'
  <2>1. ASSUME NEW x \in valid PROVE Kept(x)'
    <3>1. Kept(x) /\ row' = row
      BY <1>1, <1>2, KeptMeans, Zenon DEF Still
    <3>2. CASE x = row.token \/ x \in dropped
      BY <1>2, <3>1, <3>2, Zenon DEF Kept
    <3>3. ASSUME NEW d \in Calls, call[d].pc = "commit", x = call[d].got PROVE Kept(x)'
      <4>1. CASE d \in mine
        BY <1>2, <3>3, <4>1, Zenon DEF Kept
      <4>2. CASE d \notin mine
        BY <1>2, <3>3, <4>2, Zenon DEF Kept
      <4> QED
        BY <4>1, <4>2, Zenon
    <3> QED
      BY <3>1, <3>2, <3>3, Zenon DEF Kept
  <2> QED
    BY <1>2, <2>1, KeptMeans, Zenon DEF Still
<1>8. Tokens'
  BY <1>1, <1>2, <1>6, Zenon DEF Tokens, ReadyTokensAreValid, Still
<1> QED
  BY <1>4, <1>5, <1>6, <1>7, <1>8, Zenon DEF Inv

LEMMA LeaseStep ==
  ASSUME Inv, LeaseExpires \/ LeaseLost
  PROVE  Inv'
<1>1. Types /\ Shape /\ Disjoint /\ RotatedTokensAreKept /\ Tokens
  BY DEF Inv
<1>2. UNCHANGED <<row, call, valid, issued, spent, deferred, dropped>> /\ lease' = NoOne
  BY Zenon DEF LeaseExpires, LeaseLost, upstream
<1>3. losses' = losses \/ losses' = losses + 1
  BY Zenon DEF LeaseExpires, LeaseLost, counters
<1>4. losses' = 0 => losses = 0 /\ ~Renews(lease)
  BY <1>1 DEF Types, LeaseExpires, LeaseLost, counters
<1>5. Types' /\ Shape' /\ Disjoint'
  BY <1>1, <1>2, <1>3 DEF Types, Shape, Disjoint
<1>6. RotatedTokensAreKept'
  BY <1>1, <1>2, KeptMeans, StaysKept, Zenon
<1>7. Grows
  BY <1>2, <1>5 DEF Grows, Types
<1>8. ASSUME NEW d \in Calls PROVE Sound(call[d])'
  BY <1>1, <1>2, <1>7, SoundKept, Zenon DEF Inv
<1>9. Tokens'
  <2>1. ASSUME NEW d \in Calls, losses' = 0 PROVE Alone(d)'
    <3>1. Alone(d) /\ ~Renews(lease)
      BY <1>1, <1>4, <2>1, Zenon DEF Tokens
    <3>2. ~Holds(call'[d])
      BY <1>2, <3>1, Zenon DEF Alone, Renews, Holds
    <3> QED
      BY <3>2, IdleAlone, Zenon
  <2>2. losses' = 0 => ReadyTokensAreValid'
    BY <1>1, <1>2, <1>4, Zenon DEF Tokens, ReadyTokensAreValid
  <2> QED
    BY <2>1, <2>2, Zenon DEF Tokens
<1> QED
  BY <1>5, <1>6, <1>8, <1>9, Zenon DEF Inv

-----------------------------------------------------------------------------
(* Every step, and what follows. *)

LEMMA InitInv == Init => Inv /\ faults \in Nat
<1> SUFFICES ASSUME Init PROVE Inv /\ faults \in Nat
  OBVIOUS
<1>1. /\ row = [ver |-> 1, auth |-> "ready", token |-> 1] /\ lease = NoOne
      /\ call = [c \in Calls |-> NewCall]
      /\ valid = {1} /\ issued = 1 /\ spent = {} /\ deferred = {} /\ losses = 0 /\ faults = 0
  BY Zenon DEF Init
<1>2. Types
  BY <1>1 DEF Types, Auths, States
<1>3. Shape /\ Disjoint /\ RotatedTokensAreKept
  BY <1>1, Zenon DEF Shape, Disjoint, RotatedTokensAreKept
<1>4. \A c \in Calls : Sound(call[c]) /\ Alone(c)
  BY <1>1, Zenon DEF Sound, HasRead, Starting, Unused, Alone, Holds, NewCall
<1>5. Tokens
  BY <1>1, <1>4, Zenon DEF Tokens, ReadyTokensAreValid
<1> QED
  BY <1>1, <1>2, <1>3, <1>4, <1>5, Zenon DEF Inv

LEMMA NextKeeps ==
  ASSUME Inv, faults \in Nat, [Next]_vars
  PROVE  Inv'
<1>1. CASE \E c \in Calls, i \in Instances, kind \in Kinds : Begin(c, i, kind)
  BY <1>1, BeginStep, Zenon
<1>2. CASE \E c \in Calls : RefreshStep(c)
  BY <1>2, RefreshStepKeeps, Zenon
<1>3. CASE \E i \in Pollers : PollStep(i)
  BY <1>3, PollStepKeeps, Zenon
<1>4. CASE \/ \E i \in Instances : Mirror(i) \/ Reload(i) \/ Connect(i)
           \/ \E w \in strays : StrayRuns(w)
           \/ UNCHANGED vars
  BY <1>4, MirrorStep, Zenon
<1>5. CASE \E i \in Instances : Reauthorize(i) \/ Crash(i)
  BY <1>5, ReauthorizeStep, CrashStep, Zenon
<1>6. CASE LeaseExpires \/ LeaseLost
  BY <1>6, LeaseStep, Zenon
<1> QED
  BY <1>1, <1>2, <1>3, <1>4, <1>5, <1>6, Zenon DEF Next

\* A step adds at most one fault.
LEMMA FaultsCounted ==
  ASSUME faults \in Nat, [Next]_vars
  PROVE  faults' \in Nat
<1> SUFFICES faults' = faults \/ faults' = faults + 1
  OBVIOUS
<1>1. Fault => faults' = faults + 1
  BY DEF Fault
<1>2. NoFault => faults' = faults
  BY DEF NoFault, counters
<1>3. ASSUME NEW c \in Calls, RefreshStep(c) PROVE faults' = faults \/ faults' = faults + 1
  <2>1. Fault \/ faults' = faults
    BY <1>2, <1>3, Zenon DEF RefreshStep, Acquire, GiveUp, AcquireFails, AcquireAgain, Read,
       Repair, Write, Publish, Published, Rotates, Rejects, Postpones, NotServed, Commit, Replace,
       Share, ShareDone, Shares, ShareFailed, Release, counters
  <2> QED
    BY <1>1, <2>1, Zenon
<1>4. ASSUME NEW i \in Pollers, PollStep(i) PROVE faults' = faults \/ faults' = faults + 1
  <2>1. Fault \/ faults' = faults
    BY <1>2, <1>4, Zenon DEF PollStep, SweepReads, SweepChecks, SweepMarks, SweepShares, ShareDone,
       Shares, ShareFailed, AlignReadsRecord, AlignReadsRow, AlignCorrects, PollFails, counters
  <2> QED
    BY <1>1, <2>1, Zenon
<1>5. ASSUME NEW i \in Instances,
             Mirror(i) \/ Reload(i) \/ Reauthorize(i) \/ Connect(i) \/ Crash(i)
      PROVE  faults' = faults \/ faults' = faults + 1
  BY <1>1, <1>5, Zenon DEF Mirror, Reload, Reauthorize, Connect, Crash, counters
<1>6. ASSUME \/ \E c \in Calls, i \in Instances, kind \in Kinds : Begin(c, i, kind)
             \/ \E w \in strays : StrayRuns(w)
             \/ LeaseExpires \/ LeaseLost \/ UNCHANGED vars
      PROVE  faults' = faults
  BY <1>6, Zenon DEF Begin, StrayRuns, LeaseExpires, LeaseLost, counters, vars
<1> QED
  BY <1>3, <1>4, <1>5, <1>6, Zenon DEF Next

\* The invariant: what the refreshes under way know of the row and of upstream.
THEOREM Invariant == Spec => [](Inv /\ faults \in Nat)
<1>1. Inv /\ faults \in Nat /\ [Next]_vars => (Inv /\ faults \in Nat)'
  BY NextKeeps, FaultsCounted, Zenon
<1> QED
  BY InitInv, <1>1, PTL DEF Spec

\* Whatever is lost, crashes or expires, the next token is not dropped by a
\* commit or a sweep: it is in the row or about to be committed, unless a
\* reply, a process or a write was lost, or an operator replaced it.
THEOREM TokensKept == Spec => []RotatedTokensAreKept
<1>1. Inv => RotatedTokensAreKept
  BY DEF Inv
<1> QED
  BY Invariant, <1>1, PTL

\* While no live holder loses its lease, a ready row has a token that upstream
\* will answer, or that was last answered with a failure taken for retryable.
THEOREM ReadyIsValid == Spec => []ReadyTokensAreValid
<1>1. Inv => ReadyTokensAreValid
  BY DEF Inv, Tokens, ReadyTokensAreValid
<1> QED
  BY Invariant, <1>1, PTL

\* While no live holder loses its lease, a refresh that is not an operator's
\* presents no token that was presented before, except after a failure taken
\* for retryable.
THEOREM PresentedOnce == Spec => []TokensArePresentedOnce
<1>1. ASSUME Inv PROVE TokensArePresentedOnce
  <2>1. ASSUME losses = 0, NEW c \in Calls, call[c].pc = "upstream", call[c].kind # "recovery"
        PROVE  call[c].row.token \notin spent \ deferred
    <3>1. Sound(call[c]) /\ Alone(c) /\ Disjoint
      BY <1>1, <2>1, Zenon DEF Inv, Tokens
    <3>2. Starting(call[c]) /\ Unused(call[c])
      BY <2>1, Zenon DEF Starting, Unused
    <3>3. call[c].row.auth = "ready"
      BY <2>1, <3>1, <3>2, Zenon DEF Sound
    <3>4. call[c].row.token \in valid \cup deferred
      BY <3>1, <3>2, <3>3, Zenon DEF Alone
    <3> QED
      BY <3>1, <3>4, Zenon DEF Disjoint
  <2> QED
    BY <2>1, Zenon DEF TokensArePresentedOnce
<1> QED
  BY Invariant, <1>1, PTL

-----------------------------------------------------------------------------
(* The shared state.  While every write gets to Redis and no lease is lost,  *)
(* the record may differ from a row of its version only while somebody is    *)
(* still to share the state of the row.                                      *)

\* The steps of a poll.
IsPoll(p) ==
    \/ p.pc \in {"idle", "align"} /\ p = [pc |-> p.pc]
    \/ p.pc \in {"seen", "orphan", "swept"} /\ p.ver \in Nat /\ p = [pc |-> p.pc, ver |-> p.ver]
    \/ p.pc = "compare" /\ p = [pc |-> p.pc, record |-> p.record]
    \/ p.pc = "correct" /\ p = [pc |-> p.pc, record |-> p.record, auth |-> p.auth]

\* The poll p knows no version that the row r has not reached, and the record
\* it has read is the record s, if that has not moved.
Behind(p, r, s) ==
    /\ p.pc \in {"seen", "orphan", "swept"} => p.ver <= r.ver
    /\ p.pc \in {"compare", "correct"} =>
          p.record.n \in Nat /\ p.record.n <= s.n /\ (p.record.n = s.n => p.record = s)

\* What the refresh k knows of the row r: its last write is still there.
Timely(k, r) ==
    /\ k.pc \in {"write", "publish", "upstream", "commit"} => k.at <= r.ver
    /\ k.pc \in {"write", "publish"} /\ k.why # "start" => k.auth # "refreshing"
    /\ k.pc = "publish" /\ k.at = r.ver /\ k.why # "start" => r.auth = k.auth
    /\ k.pc \in {"replace", "share"} => r.ver = k.row.ver + 1 /\ r.auth = "ready"

\* It is still to share the state it leaves the row r in.
Finishing(k, r) ==
    \/ k.pc \in {"write", "publish"} /\ k.at = r.ver
    \/ k.pc \in {"upstream", "commit"} /\ k.row.ver = r.ver
    \/ k.pc \in {"replace", "share"}

\* The poll p is still to compare the record s with the row r, or to correct it.
Aligning(p, r, s) ==
    \/ p.pc \in {"swept", "align"}
    \/ p.pc = "compare" /\ p.record.n = s.n
    \/ p.pc = "correct" /\ p.record.n = s.n /\ p.auth = r.auth

\* Somebody has changed the row r and has not shared it.
Changed(r) ==
    \/ \E c \in Calls : call[c].pc = "publish" /\ call[c].at = r.ver
    \/ \E i \in Instances : poll[i].pc = "swept" /\ poll[i].ver = r.ver

Differs(r, s) == s.asv = r.ver /\ s.auth # r.auth

Owed == \/ \E c \in Calls : Finishing(call[c], row)
        \/ \E i \in Instances : Aligning(poll[i], row, record)

Sharing ==
    /\ strays = {}
    /\ row.ver \in Nat \ {0}
    /\ record = [n |-> record.n, auth |-> record.auth, asv |-> record.asv]
    /\ record.n \in Nat /\ record.asv \in Nat /\ record.asv <= row.ver
    /\ record.asv # 0 => record.n # 0
    /\ poll = [i \in Instances |-> poll[i]]
    /\ \A i \in Instances : IsPoll(poll[i]) /\ Behind(poll[i], row, record)
    /\ \A c \in Calls : Timely(call[c], row)
    /\ \A i \in Instances :
           /\ poll[i].pc = "correct" /\ poll[i].record.n = record.n
           /\ record.asv = row.ver /\ poll[i].auth # row.auth
           => Changed(row)
    /\ Differs(row, record) => Owed

-----------------------------------------------------------------------------
(* What a step leaves of it. *)

\* A refresh that is not between its read and its last share owes nothing.
LEMMA RestTimely ==
  ASSUME NEW k, NEW r,
         k.pc \notin {"write", "publish", "upstream", "commit", "replace", "share"}
  PROVE  Timely(k, r) /\ ~Finishing(k, r) /\ k.pc # "publish"
<1>1. /\ k.pc \notin {"write", "publish", "upstream", "commit"} /\ k.pc \notin {"write", "publish"}
      /\ k.pc \notin {"upstream", "commit"} /\ k.pc \notin {"replace", "share"} /\ k.pc # "publish"
  BY SMT
<1> QED BY <1>1, Zenon DEF Timely, Finishing

\* A step of the poll of one instance leaves the others alone.
PollMoves(i) == /\ poll' = [j \in Instances |-> poll'[j]]
                /\ \A j \in Instances \ {i} : poll'[j] = poll[j]

LEMMA PollIsMoves ==
  ASSUME poll = [j \in Instances |-> poll[j]], NEW i \in Instances, NEW p, PollIs(i, p)
  PROVE  PollMoves(i) /\ poll'[i] = p
  BY Zenon DEF PollIs, PollMoves

\* The polls, when none steps.
LEMMA PollsStay ==
  ASSUME Sharing, UNCHANGED <<record, poll>>, NEW r, r.ver \in Nat, row.ver <= r.ver
  PROVE  /\ poll' = [i \in Instances |-> poll'[i]]
         /\ \A i \in Instances : IsPoll(poll'[i]) /\ Behind(poll'[i], r, record')
<1>1. ASSUME NEW i \in Instances PROVE IsPoll(poll'[i]) /\ Behind(poll'[i], r, record')
  <2>1. IsPoll(poll[i]) /\ Behind(poll[i], row, record) /\ row.ver \in Nat
    BY Zenon DEF Sharing
  <2>2. poll[i].pc \in {"seen", "orphan", "swept"} => poll[i].ver \in Nat
    BY <2>1, Zenon DEF IsPoll
  <2>3. poll[i].pc \in {"seen", "orphan", "swept"} => poll[i].ver <= r.ver
    BY <2>1, <2>2 DEF Behind
  <2> QED BY <2>1, <2>3, Zenon DEF Behind
<1> QED BY <1>1, Zenon DEF Sharing

\* A refresh goes on, and leaves the row, the record and the polls alone.
LEMMA CallMovesOn ==
  ASSUME Sharing, UNCHANGED <<row, record, poll, strays>>, NEW c \in Calls,
         \A d \in Calls \ {c} : call'[d] = call[d],
         Timely(call'[c], row), Finishing(call[c], row) => Finishing(call'[c], row),
         call[c].pc = "publish" => call[c].at # row.ver
  PROVE  Sharing'
<1>1. \A d \in Calls : Timely(call'[d], row)
  BY Zenon DEF Sharing
<1>2. Changed(row) => Changed(row)'
  BY Zenon DEF Changed
<1>3. Owed => Owed'
  <2>1. \A d \in Calls : Finishing(call[d], row) => Finishing(call'[d], row')
    BY Zenon
  <2> QED BY <2>1, Zenon DEF Owed
<1> QED BY <1>1, <1>2, <1>3, Zenon DEF Sharing

\* No refresh, poll or write does anything.
LEMMA NothingMoves ==
  ASSUME Sharing, UNCHANGED <<row, record, poll, strays, call>>
  PROVE  Sharing'
<1>1. (Changed(row) => Changed(row)') /\ (Owed => Owed')
  BY Zenon DEF Changed, Owed
<1> QED BY <1>1, Zenon DEF Sharing

\* The poll of an instance goes on, and leaves the row and the record alone.
LEMMA PollMovesOn ==
  ASSUME Sharing, UNCHANGED <<row, record, strays, call>>, NEW i \in Instances, PollMoves(i),
         IsPoll(poll'[i]), Behind(poll'[i], row, record),
         poll[i].pc = "swept" => poll[i].ver # row.ver,
         Differs(row, record) /\ Aligning(poll[i], row, record)
             => Aligning(poll'[i], row, record),
         poll'[i].pc = "correct" => poll'[i].auth = row.auth
  PROVE  Sharing'
<1>1. /\ poll' = [j \in Instances |-> poll'[j]]
      /\ \A j \in Instances \ {i} : poll'[j] = poll[j]
  BY Zenon DEF PollMoves
<1>2. \A j \in Instances : IsPoll(poll'[j]) /\ Behind(poll'[j], row, record)
  BY <1>1, Zenon DEF Sharing
<1>3. Changed(row) => Changed(row)'
  BY <1>1, Zenon DEF Changed
<1>4. Differs(row, record) => Owed'
  <2>1. ASSUME Differs(row, record) PROVE Owed'
    <3>1. \A j \in Instances : Aligning(poll[j], row, record) => Aligning(poll'[j], row', record')
      BY <1>1, <2>1, Zenon
    <3>2. Owed
      BY <2>1, Zenon DEF Sharing
    <3> QED BY <3>1, <3>2, Zenon DEF Owed
  <2> QED BY <2>1
<1>5. ASSUME NEW j \in Instances, poll'[j].pc = "correct", poll'[j].record.n = record.n,
             record.asv = row.ver, poll'[j].auth # row.auth
      PROVE  Changed(row)'
  <2>1. j # i
    BY <1>5, Zenon
  <2>2. poll'[j] = poll[j]
    BY <1>1, <2>1, Zenon
  <2> QED BY <1>3, <1>5, <2>2, Zenon DEF Sharing
<1> QED BY <1>1, <1>2, <1>4, <1>5, Zenon DEF Sharing

\* The state of the row changes, and whoever changed it is still to share it.
LEMMA RowMarked ==
  ASSUME Sharing, row'.ver = row.ver, UNCHANGED <<record, strays>>,
         poll' = [i \in Instances |-> poll'[i]],
         \A i \in Instances : IsPoll(poll'[i]) /\ Behind(poll'[i], row', record),
         \A c \in Calls : Timely(call'[c], row'), Changed(row)'
  PROVE  Sharing'
<1>1. Owed'
  BY Zenon DEF Changed, Owed, Finishing, Aligning
<1>2. /\ strays' = {}
      /\ row'.ver \in Nat \ {0}
      /\ record' = [n |-> record'.n, auth |-> record'.auth, asv |-> record'.asv]
      /\ record'.n \in Nat /\ record'.asv \in Nat /\ record'.asv <= row'.ver
      /\ record'.asv # 0 => record'.n # 0
  BY Zenon DEF Sharing
<1> QED BY <1>1, <1>2, Zenon DEF Sharing

\* The version of the row moves on: the record is of an older one.
LEMMA VersionMoves ==
  ASSUME Sharing, row'.ver = row.ver + 1, UNCHANGED <<record, strays, poll>>,
         \A c \in Calls : Timely(call'[c], row')
  PROVE  Sharing'
<1>1. /\ row.ver \in Nat \ {0} /\ record.asv \in Nat /\ record.asv <= row.ver
  BY Zenon DEF Sharing
<1>2. /\ row'.ver \in Nat \ {0} /\ row'.ver \in Nat /\ row.ver <= row'.ver
      /\ record.asv <= row'.ver /\ record.asv # row'.ver
  BY <1>1
<1>3. /\ poll' = [i \in Instances |-> poll'[i]]
      /\ \A i \in Instances : IsPoll(poll'[i]) /\ Behind(poll'[i], row', record')
  BY <1>2, PollsStay, Zenon
<1>4. ~Differs(row', record')
  BY <1>2, Zenon DEF Differs
<1>5. /\ strays' = {}
      /\ record' = [n |-> record'.n, auth |-> record'.auth, asv |-> record'.asv]
      /\ record'.n \in Nat /\ record'.asv \in Nat /\ record'.asv <= row'.ver
      /\ record'.asv # 0 => record'.n # 0
  BY <1>2, Zenon DEF Sharing
<1> QED BY <1>2, <1>3, <1>4, <1>5, Zenon DEF Sharing

\* The record moves on.
LEMMA RecordMoves ==
  ASSUME Sharing, UNCHANGED <<row, strays>>, NEW auth, NEW asv \in Nat, asv <= row.ver,
         record' = [n |-> record.n + 1, auth |-> auth, asv |-> asv],
         poll' = [i \in Instances |-> poll'[i]],
         \A i \in Instances : poll'[i] = poll[i] \/ poll'[i] = IdlePoll
                                 \/ poll'[i] = [pc |-> "align"],
         \A c \in Calls : Timely(call'[c], row),
         asv = row.ver /\ auth # row.auth => Owed'
  PROVE  Sharing'
<1>1. record.n \in Nat
  BY Zenon DEF Sharing
<1>2. /\ record' = [n |-> record'.n, auth |-> record'.auth, asv |-> record'.asv]
      /\ record'.n = record.n + 1 /\ record'.auth = auth /\ record'.asv = asv
  BY Zenon
<1>3. record'.n \in Nat /\ record'.n # 0
  BY <1>1, <1>2
<1>4. ASSUME NEW m \in Nat, m <= record.n PROVE m <= record'.n /\ m # record'.n
  BY <1>1, <1>2, <1>4
<1>5. ASSUME NEW i \in Instances
      PROVE  /\ IsPoll(poll'[i]) /\ Behind(poll'[i], row, record')
             /\ ~(poll'[i].pc = "correct" /\ poll'[i].record.n = record'.n)
  <2>1. CASE poll'[i] = poll[i]
    <3>1. IsPoll(poll[i]) /\ Behind(poll[i], row, record)
      BY Zenon DEF Sharing
    <3>2. poll[i].pc \in {"compare", "correct"} =>
              /\ poll[i].record.n \in Nat /\ poll[i].record.n <= record'.n
              /\ poll[i].record.n # record'.n
      BY <1>4, <3>1, Zenon DEF Behind
    <3> QED BY <2>1, <3>1, <3>2, Zenon DEF Behind
  <2>2. CASE poll'[i] = IdlePoll \/ poll'[i] = [pc |-> "align"]
    <3>1. poll'[i] = [pc |-> poll'[i].pc] /\ poll'[i].pc \in {"idle", "align"}
      BY <2>2 DEF IdlePoll
    <3>2. /\ poll'[i].pc \notin {"seen", "orphan", "swept"}
          /\ poll'[i].pc \notin {"compare", "correct"} /\ poll'[i].pc # "correct"
      BY <3>1, Zenon
    <3> QED BY <3>1, <3>2, Zenon DEF IsPoll, Behind
  <2> QED BY <2>1, <2>2, Zenon
<1>6. Differs(row', record') => Owed'
  BY <1>2, Zenon DEF Differs
<1> QED BY <1>2, <1>3, <1>5, <1>6, Zenon DEF Sharing

\* A write of the auth script is refused for an older version, and moves the
\* record otherwise.
LEMMA SharedCases ==
  ASSUME Sharing, NEW auth, NEW asv \in Nat, record' = Shared(record, auth, asv)
  PROVE  \/ record' = record /\ asv < record.asv
         \/ record.asv <= asv /\ record' = [n |-> record.n + 1, auth |-> auth, asv |-> asv]
<1>1. record.asv \in Nat
  BY Zenon DEF Sharing
<1>2. record.asv > asv \/ record.asv <= asv
  BY <1>1
<1>3. record.asv > asv => asv < record.asv
  BY <1>1
<1> QED BY <1>2, <1>3, Zenon DEF Shared

-----------------------------------------------------------------------------
(* The steps of a refresh.  While no lease is lost, the others are idle.  *)

\* Whoever is past the lease has it, so no other refresh has read the row.
LEMMA OthersIdle ==
  ASSUME Inv, losses = 0, NEW c \in Calls, Holds(call[c]), NEW d \in Calls, d # c, NEW r
  PROVE  Timely(call[d], r) /\ ~Finishing(call[d], r)
<1>1. Alone(c) /\ Alone(d)
  BY Zenon DEF Inv, Tokens
<1>2. ~Holds(call[d])
  BY <1>1, OneHolder, Zenon DEF Alone
<1>3. call[d].pc \notin {"write", "publish", "upstream", "commit", "replace", "share"}
  BY <1>2, Zenon DEF Holds
<1> QED BY <1>3, RestTimely, Zenon

\* A refresh at rest is still at rest.
LEMMA RestShares ==
  ASSUME Sharing, UNCHANGED <<row, record, poll, strays>>, NEW c \in Calls, Moves(c),
         call[c].pc \notin {"write", "publish", "upstream", "commit", "replace", "share"},
         call'[c].pc \notin {"write", "publish", "upstream", "commit", "replace", "share"}
  PROVE  Sharing'
  BY RestTimely, CallMovesOn, Zenon DEF Moves

LEMMA BeginShares ==
  ASSUME Inv, Sharing, NEW c \in Calls, NEW i \in Instances, NEW kind \in Kinds, Begin(c, i, kind)
  PROVE  Sharing'
<1> DEFINE k == [pc |-> "lease", on |-> i, kind |-> kind,
                 expected |-> entry[i].ver, row |-> NoRow, at |-> 0,
                 why |-> "none", auth |-> "none", got |-> 0]
<1>1. Moves(c) /\ call'[c].pc = "lease" /\ call[c].pc = "new"
  <2>1. Moves(c) /\ call'[c] = k /\ call[c].pc = "new"
    BY SetsCall, Zenon DEF Begin, Inv
  <2>2. k.pc = "lease"
    BY Zenon
  <2> QED BY <2>1, <2>2, Zenon
<1>2. UNCHANGED <<row, record, poll, strays>>
  BY Zenon DEF Begin
<1> QED BY <1>1, <1>2, RestShares, Zenon

\* The lease is given, or waited for in vain.
LEMMA LeasedShares ==
  ASSUME Inv, Sharing, NEW c \in Calls, Acquire(c) \/ GiveUp(c) \/ Repair(c) \/ Release(c)
  PROVE  Sharing'
<1>1. UNCHANGED <<row, record, poll, strays>> /\ call[c].pc \in {"lease", "repair", "release"}
  BY Zenon DEF Acquire, GiveUp, Repair, Release
<1>2. Working(call[c]) /\ Shape
  BY <1>1, IsWorking, Zenon DEF Inv
<1>3. Moves(c) /\ call'[c].pc \in {"lock", "done", "release"}
  <2>1. CASE Goto(c, "lock") \/ Goto(c, "release")
    <3>1. "lock" \in Stages /\ "release" \in Stages
      BY Zenon DEF Stages
    <3>2. Goto(c, "lock") => Moves(c) /\ call'[c].pc = "lock"
      BY <1>2, <3>1, GotoMoves, Zenon
    <3>3. Goto(c, "release") => Moves(c) /\ call'[c].pc = "release"
      BY <1>2, <3>1, GotoMoves, Zenon
    <3> QED BY <2>1, <3>2, <3>3, Zenon
  <2>2. CASE call' = [call EXCEPT ![c] = Over]
    <3>1. Moves(c) /\ call'[c] = Over
      BY <1>2, <2>2, SetsCall, Zenon
    <3>2. Over.pc = "done"
      BY Zenon DEF Over
    <3> QED BY <3>1, <3>2, Zenon
  <2> QED BY <2>1, <2>2, Zenon DEF Acquire, GiveUp, Repair, Release
<1> QED BY <1>1, <1>3, RestShares, Zenon

\* A write to the version of the row is in time.
LEMMA WriteTimely ==
  ASSUME NEW k, NEW r, k.pc = "write", k.at <= r.ver, k.why # "start" => k.auth # "refreshing"
  PROVE  Timely(k, r)
  BY Zenon DEF Timely

LEMMA ReadShares ==
  ASSUME Inv, Sharing, NEW c \in Calls, Read(c)
  PROVE  Sharing'
<1>1. Working(call[c]) /\ Shape /\ Types /\ call[c].pc = "lock"
  BY IsWorking, Zenon DEF Inv, Read
<1>2. UNCHANGED <<row, record, poll, strays>>
  BY Zenon DEF Read
<1>3. ~Finishing(call[c], row) /\ call[c].pc # "publish"
  BY <1>1, RestTimely, Zenon
<1>4. row \in [ver : Nat, auth : Auths, token : Nat] /\ row.ver \in Nat /\ row.ver <= row.ver
  BY <1>1 DEF Types
<1> DEFINE taken == [call[c] EXCEPT !.row = row, !.at = row.ver]
<1>5. ASSUME NEW why, NEW auth, auth = "refreshing" => why = "start",
             call' = [call EXCEPT ![c] = [taken EXCEPT !.pc = "write", !.why = why,
                                                       !.auth = auth]]
      PROVE  Sharing'
  <2> DEFINE k == [call[c] EXCEPT !.row = row, !.at = row.ver, !.pc = "write",
                                  !.why = why, !.auth = auth]
  <2>1. Moves(c) /\ call'[c] = k
    BY <1>1, <1>5, SetsCall, Zenon
  <2>2. k.pc = "write" /\ k.at = row.ver /\ k.why = why /\ k.auth = auth
    BY <1>1, <1>4, Zenon DEF Working
  <2> HIDE DEF k
  <2>3. Timely(k, row)
    BY <1>4, <1>5, <2>2, WriteTimely, Zenon
  <2> QED BY <1>2, <1>3, <2>1, <2>3, CallMovesOn, Zenon DEF Moves
<1>6. CASE Goto(c, "release")
  <2>1. Moves(c) /\ call'[c].pc = "release"
    BY <1>1, <1>6, GotoMoves, Zenon DEF Stages
  <2> QED BY <1>1, <1>2, <2>1, RestShares, Zenon
<1>7. CASE call' = [call EXCEPT ![c] = [taken EXCEPT !.pc = "repair"]]
  <2>1. Moves(c) /\ call'[c] = [taken EXCEPT !.pc = "repair"]
    BY <1>1, <1>7, SetsCall, Zenon
  <2>2. [taken EXCEPT !.pc = "repair"].pc = "repair"
    BY <1>1, Zenon DEF Working
  <2> QED BY <1>1, <1>2, <2>1, <2>2, RestShares, Zenon
<1>8. Restored(row.auth) # "refreshing"
  BY Zenon DEF Restored
<1> QED BY <1>5, <1>6, <1>7, <1>8, Zenon DEF Read

\* A holder's step that leaves the row, the record and the polls alone.
LEMMA HolderShares ==
  ASSUME Sharing, UNCHANGED <<row, record, poll, strays>>, NEW c \in Calls, Moves(c),
         call[c].pc # "publish", Timely(call'[c], row),
         Finishing(call[c], row) => Finishing(call'[c], row)
  PROVE  Sharing'
  BY CallMovesOn, Zenon DEF Moves

\* A failed state is not refreshing.
LEMMA RestoredState ==
  ASSUME NEW auth
  PROVE  Restored(auth) # "refreshing" /\ Uncertain(auth) # "refreshing"
  BY Zenon DEF Restored, Uncertain

\* Upstream has answered, or has not.
LEMMA UpstreamShares ==
  ASSUME Inv, Sharing, NEW c \in Calls, Rotates(c) \/ Rejects(c) \/ Postpones(c) \/ NotServed(c)
  PROVE  Sharing'
<1> DEFINE k == call[c]
<1>1. k.pc = "upstream" /\ UNCHANGED <<row, record, poll, strays>>
  BY Zenon DEF Rotates, Rejects, Postpones, NotServed
<1>2. Shape /\ Types /\ Working(k) /\ Sound(k) /\ Timely(k, row)
  BY <1>1, AtUpstream, Zenon DEF Inv, Sharing
<1>3. k.at = k.row.ver /\ k.at <= row.ver
  BY <1>1, <1>2, Zenon DEF Sound, Starting, Timely
<1>4. ASSUME NEW auth \in Auths, auth # "refreshing", Writing(c, "failed", auth) PROVE Sharing'
  <2>1. /\ Moves(c) /\ Keeps(c) /\ call'[c].pc = "write"
        /\ call'[c].why = "failed" /\ call'[c].auth = auth
    BY <1>2, <1>4, WritingMoves, Zenon
  <2>2. Timely(call'[c], row)
    BY <1>3, <1>4, <2>1, WriteTimely, Zenon DEF Keeps
  <2>3. Finishing(k, row) => Finishing(call'[c], row)
    BY <1>1, <1>3, <2>1, Zenon DEF Finishing, Keeps
  <2> QED BY <1>1, <2>1, <2>2, <2>3, HolderShares, Zenon
<1>5. ASSUME call' = [call EXCEPT ![c].pc = "commit", ![c].got = issued + 1] PROVE Sharing'
  <2> DEFINE n == [k EXCEPT !.pc = "commit", !.got = issued + 1]
  <2>1. Moves(c) /\ call'[c] = n
    <3>1. call' = [d \in Calls |-> call'[d]] /\ \A d \in Calls \ {c} : call'[d] = call[d]
      BY <1>2, <1>5, Zenon DEF Shape
    <3>2. call'[c] = n
      BY <1>2, <1>5, Zenon DEF Shape
    <3> QED BY <3>1, <3>2, Zenon DEF Moves
  <2>2. n.pc = "commit" /\ n.row = k.row /\ n.at = k.at
    BY <1>2, Zenon DEF Working
  <2> HIDE DEF n
  <2>3. Timely(n, row)
    BY <1>3, <2>2, Zenon DEF Timely
  <2>4. Finishing(k, row) => Finishing(n, row)
    BY <1>1, <2>2, Zenon DEF Finishing
  <2> QED BY <1>1, <2>1, <2>3, <2>4, HolderShares, Zenon
<1>6. k.row.auth \in Auths
  BY <1>2, Zenon DEF Working
<1>7. /\ Uncertain(k.row.auth) \in Auths /\ Uncertain(k.row.auth) # "refreshing"
      /\ Restored(k.row.auth) \in Auths /\ Restored(k.row.auth) # "refreshing"
      /\ "rejected" \in Auths
  BY <1>6, UncertainType, RestoredState, Zenon DEF Restored, Auths, States
<1> QED BY <1>4, <1>5, <1>7, Zenon DEF Rotates, Rejects, Postpones, NotServed

\* The row is marked, and the mark is to be published; or its version has moved on.
LEMMA WriteShares ==
  ASSUME Inv, Sharing, losses = 0, NEW c \in Calls, Write(c), ~Fault
  PROVE  Sharing'
<1> DEFINE k == call[c]
<1>1. Shape /\ Types /\ Working(k) /\ Holds(k) /\ k.pc = "write" /\ Timely(k, row)
  BY IsWorking, Zenon DEF Inv, Holds, Write, Sharing
<1>2. UNCHANGED <<record, poll, strays>>
  BY Zenon DEF Write
<1>3. k.at <= row.ver /\ (k.why # "start" => k.auth # "refreshing")
  BY <1>1, Zenon DEF Timely
<1>4. CASE row.ver = k.at /\ row' = [row EXCEPT !.auth = k.auth] /\ Goto(c, "publish")
  <2>1. /\ Moves(c) /\ Keeps(c) /\ call'[c].pc = "publish"
        /\ call'[c].why = k.why /\ call'[c].auth = k.auth
    BY <1>1, <1>4, GotoMoves, Zenon DEF Stages
  <2>2. row'.ver = row.ver /\ row'.auth = k.auth /\ row.ver \in Nat /\ row.ver <= row'.ver
    BY <1>1, <1>4 DEF Types
  <2>3. Timely(call'[c], row')
    BY <1>3, <2>1, <2>2, Zenon DEF Timely, Keeps
  <2>4. \A d \in Calls : Timely(call'[d], row')
    BY <1>1, <2>1, <2>3, OthersIdle, Zenon DEF Moves
  <2>5. Changed(row)'
    BY <1>4, <2>1, <2>2, Zenon DEF Changed, Keeps
  <2>6. /\ poll' = [i \in Instances |-> poll'[i]]
        /\ \A i \in Instances : IsPoll(poll'[i]) /\ Behind(poll'[i], row', record)
    BY <1>2, <2>2, PollsStay, Zenon
  <2> QED BY <1>2, <2>2, <2>4, <2>5, <2>6, RowMarked, Zenon
<1>5. CASE row.ver # k.at /\ row' = row /\ call' = [call EXCEPT ![c] = AfterFailedWrite(k)]
  <2>1. ~Finishing(k, row)
    BY <1>1, <1>5, Zenon DEF Finishing
  <2>2. CASE k.why # "start"
    <3>1. Goto(c, "release")
      BY <1>5, <2>2, Zenon DEF AfterFailedWrite, Goto
    <3>2. Moves(c) /\ call'[c].pc = "release"
      BY <1>1, <3>1, GotoMoves, Zenon DEF Stages
    <3>3. Timely(call'[c], row)
      BY <3>2, RestTimely, Zenon
    <3> QED BY <1>1, <1>2, <1>5, <2>1, <3>2, <3>3, HolderShares, Zenon
  <2>3. CASE k.why = "start"
    <3> DEFINE undo == [k EXCEPT !.why = "undo", !.auth = Restored(k.row.auth)]
    <3>1. Moves(c) /\ call'[c] = undo
      BY <1>1, <1>5, <2>3, SetsCall, Zenon DEF AfterFailedWrite
    <3>2. undo.pc = "write" /\ undo.at = k.at /\ undo.auth # "refreshing"
      BY <1>1, RestoredState, Zenon DEF Working
    <3> HIDE DEF undo
    <3>3. Timely(undo, row)
      BY <1>3, <3>2, WriteTimely, Zenon
    <3> QED BY <1>1, <1>2, <1>5, <2>1, <3>1, <3>3, HolderShares, Zenon
  <2> QED BY <2>2, <2>3, Zenon
<1> QED BY <1>4, <1>5, Zenon DEF Write

LEMMA PublishShares ==
  ASSUME Inv, Sharing, losses = 0, NEW c \in Calls, Publish(c), ~Fault
  PROVE  Sharing'
<1> DEFINE k == call[c]
<1>1. /\ Shape /\ Types /\ Working(k) /\ Holds(k) /\ k.pc = "publish" /\ Timely(k, row)
      /\ Sound(k)
  BY IsWorking, Zenon DEF Inv, Holds, Publish, Sharing
<1>2. UNCHANGED <<row, poll, strays>> /\ record' = Shared(record, k.auth, k.at)
  BY Zenon DEF Publish, Published, Shares, ShareFailed
<1>3. k.at \in Nat /\ row.ver \in Nat /\ k.at <= row.ver /\ record.asv \in Nat
      /\ record.asv <= row.ver
  BY <1>1, Zenon DEF Working, Timely, Types, Sharing
<1>4. Moves(c) /\ Keeps(c) /\ call'[c].pc = IF k.why = "start" THEN "upstream" ELSE "release"
  <2>1. "upstream" \in Stages /\ "release" \in Stages
    BY Zenon DEF Stages
  <2> QED BY <1>1, <2>1, GotoMoves, Zenon DEF Publish
<1>5. Timely(call'[c], row)
  BY <1>3, <1>4, Zenon DEF Timely, Keeps
<1>6. CASE record' = record /\ k.at < record.asv
  <2>1. k.at # row.ver
    BY <1>3, <1>6
  <2>2. ~Finishing(k, row)
    BY <1>1, <2>1, Zenon DEF Finishing
  <2> QED BY <1>2, <1>4, <1>5, <1>6, <2>1, <2>2, CallMovesOn, Zenon DEF Moves
<1>7. CASE record' = [n |-> record.n + 1, auth |-> k.auth, asv |-> k.at]
  <2>1. \A d \in Calls : Timely(call'[d], row)
    BY <1>1, <1>4, <1>5, OthersIdle, Zenon DEF Moves
  <2>2. ASSUME k.at = row.ver, k.auth # row.auth PROVE Owed'
    <3>1. k.why = "start"
      BY <1>1, <2>2, Zenon DEF Timely
    <3>2. k.at = k.row.ver
      BY <1>1, <3>1, Zenon DEF Sound, Starting
    <3>3. Finishing(call'[c], row')
      BY <1>2, <1>4, <2>2, <3>1, <3>2, Zenon DEF Finishing, Keeps
    <3> QED BY <3>3, Zenon DEF Owed
  <2>3. poll' = [i \in Instances |-> poll'[i]]
    BY <1>2, Zenon DEF Sharing
  <2> QED BY <1>2, <1>3, <1>7, <2>1, <2>2, <2>3, RecordMoves, Zenon
<1> QED BY <1>2, <1>3, <1>6, <1>7, SharedCases, Zenon

LEMMA CommitShares ==
  ASSUME Inv, Sharing, losses = 0, NEW c \in Calls, Commit(c), ~Fault
  PROVE  Sharing'
<1> DEFINE k == call[c]
           next == [ver |-> k.row.ver + 1, auth |-> "ready", token |-> k.got]
<1>1. Shape /\ k.pc = "commit" /\ Working(k) /\ Holds(k) /\ Timely(k, row)
  BY AtCommit, Zenon DEF Commit, Inv, Sharing
<1>2. UNCHANGED <<record, poll, strays>>
  BY Zenon DEF Commit
<1>3. k.at <= row.ver
  BY <1>1, Zenon DEF Timely
<1>4. CASE row.ver = k.row.ver /\ row' = next /\ Goto(c, "replace")
  <2>1. Moves(c) /\ Keeps(c) /\ call'[c].pc = "replace"
    BY <1>1, <1>4, GotoMoves, Zenon DEF Stages
  <2>2. row'.ver = k.row.ver + 1 /\ row'.auth = "ready"
    BY <1>4, Zenon
  <2>3. Timely(call'[c], row')
    BY <2>1, <2>2, Zenon DEF Timely, Keeps
  <2>4. \A d \in Calls : Timely(call'[d], row')
    BY <1>1, <2>1, <2>3, OthersIdle, Zenon DEF Moves
  <2>5. row'.ver = row.ver + 1
    BY <1>4, <2>2, Zenon
  <2> QED BY <1>2, <2>4, <2>5, VersionMoves, Zenon
<1>5. CASE row.ver # k.row.ver /\ row' = row /\ Writing(c, "uncommitted", "unknown")
  <2>1. "unknown" \in Auths /\ "uncommitted" \in {"failed", "uncommitted"}
    BY Zenon DEF Auths, States
  <2>2. /\ Moves(c) /\ Keeps(c) /\ call'[c].pc = "write"
        /\ call'[c].why = "uncommitted" /\ call'[c].auth = "unknown"
    <3>1. Writing(c, "uncommitted", "unknown") /\ Working(call[c]) /\ Shape
      BY <1>1, <1>5, Zenon
    <3> HIDE DEF k, next
    <3> QED BY <2>1, <3>1, WritingMoves
  <2>3. Timely(call'[c], row)
    BY <1>3, <2>2, WriteTimely, Zenon DEF Keeps
  <2>4. ~Finishing(k, row)
    BY <1>1, <1>5, Zenon DEF Finishing
  <2> QED BY <1>1, <1>2, <1>5, <2>2, <2>3, <2>4, HolderShares, Zenon
<1> QED BY <1>4, <1>5, Zenon DEF Commit, Commits

LEMMA ReplaceShares ==
  ASSUME Inv, Sharing, NEW c \in Calls, Replace(c), ~Fault
  PROVE  Sharing'
<1> DEFINE k == call[c]
<1>1. k.pc = "replace" /\ Working(k) /\ Shape /\ Timely(k, row)
  BY IsWorking, Zenon DEF Inv, Replace, Sharing
<1>2. UNCHANGED <<row, record, poll, strays>> /\ Goto(c, "share")
  BY Zenon DEF Replace
<1>3. Moves(c) /\ Keeps(c) /\ call'[c].pc = "share"
  BY <1>1, <1>2, GotoMoves, Zenon DEF Stages
<1>4. Timely(call'[c], row) /\ Finishing(call'[c], row)
  BY <1>1, <1>3, Zenon DEF Timely, Finishing, Keeps
<1> QED BY <1>1, <1>2, <1>3, <1>4, HolderShares, Zenon

LEMMA ShareShares ==
  ASSUME Inv, Sharing, losses = 0, NEW c \in Calls, Share(c), ~Fault
  PROVE  Sharing'
<1> DEFINE k == call[c]
<1>1. k.pc = "share" /\ Working(k) /\ Shape /\ Timely(k, row) /\ Holds(k)
  BY IsWorking, Zenon DEF Inv, Share, Sharing, Holds
<1>2. row.ver = k.row.ver + 1 /\ row.auth = "ready"
  BY <1>1, Zenon DEF Timely
<1>3. UNCHANGED <<row, poll, strays>> /\ record' = Shared(record, "ready", row.ver)
  BY <1>2, Zenon DEF Share, ShareDone, Shares, ShareFailed
<1>4. row.ver \in Nat /\ row.ver <= row.ver /\ record.asv \in Nat /\ record.asv <= row.ver
  BY DEF Sharing
<1>5. ~(row.ver < record.asv)
  BY <1>4
<1>6. record' = [n |-> record.n + 1, auth |-> "ready", asv |-> row.ver]
  BY <1>3, <1>4, <1>5, SharedCases, Zenon
<1>7. Moves(c) /\ call'[c].pc = "release"
  BY <1>1, GotoMoves, Zenon DEF Stages, Share
<1>8. \A d \in Calls : Timely(call'[d], row)
  BY <1>1, <1>7, OthersIdle, RestTimely, Zenon DEF Moves
<1>9. poll' = [i \in Instances |-> poll'[i]]
  BY <1>3, Zenon DEF Sharing
<1> QED BY <1>2, <1>3, <1>4, <1>6, <1>8, <1>9, RecordMoves, Zenon

\* A step of a refresh, when nothing fails.
LEMMA RefreshShares ==
  ASSUME Inv, Sharing, losses = 0, NEW c \in Calls, RefreshStep(c), ~Fault
  PROVE  Sharing'
<1>1. ~AcquireFails(c) /\ ~AcquireAgain(c)
  BY Zenon DEF AcquireFails, AcquireAgain
<1> QED
  BY <1>1, LeasedShares, ReadShares, WriteShares, PublishShares, UpstreamShares, CommitShares,
     ReplaceShares, ShareShares, Zenon DEF RefreshStep

-----------------------------------------------------------------------------
(* The steps of the poll. *)

\* What the invariant says of one poll.
LEMMA PollKnows ==
  ASSUME Sharing, NEW i \in Instances
  PROVE  /\ IsPoll(poll[i]) /\ Behind(poll[i], row, record)
         /\ poll = [j \in Instances |-> poll[j]]
         /\ row.ver \in Nat \ {0} /\ record.n \in Nat /\ record.asv \in Nat
         /\ record.asv <= row.ver
  BY Zenon DEF Sharing

\* A poll that goes on to a record without anything to correct.
LEMMA RestPoll ==
  ASSUME NEW p, NEW r, NEW s, p = IdlePoll \/ p = [pc |-> "align"]
  PROVE  /\ IsPoll(p) /\ Behind(p, r, s) /\ p.pc # "correct"
         /\ p = [pc |-> "align"] => Aligning(p, r, s)
<1>1. p = [pc |-> p.pc] /\ p.pc \in {"idle", "align"}
  BY DEF IdlePoll
<1>2. p.pc \notin {"seen", "orphan", "swept"} /\ p.pc \notin {"compare", "correct"}
      /\ p.pc # "correct"
  BY <1>1, Zenon
<1>3. p = [pc |-> "align"] => p.pc = "align"
  OBVIOUS
<1> QED BY <1>1, <1>2, <1>3, Zenon DEF IsPoll, Behind, Aligning

\* A poll that holds a version of the row.
LEMMA VersionPoll ==
  ASSUME NEW p, NEW r, NEW s, NEW v \in Nat, v <= r.ver,
         \/ p = [pc |-> "seen", ver |-> v]
         \/ p = [pc |-> "orphan", ver |-> v]
         \/ p = [pc |-> "swept", ver |-> v]
  PROVE  /\ IsPoll(p) /\ Behind(p, r, s) /\ p.ver = v /\ p.pc # "correct"
         /\ p = [pc |-> "swept", ver |-> v] => p.pc = "swept"
<1>1. p.pc \in {"seen", "orphan", "swept"} /\ p.ver = v /\ p = [pc |-> p.pc, ver |-> p.ver]
  OBVIOUS
<1>2. p = [pc |-> "swept", ver |-> v] => p.pc = "swept"
  OBVIOUS
<1>3. p.pc \notin {"compare", "correct"} /\ p.pc # "correct"
  BY <1>1, Zenon
<1>4. IsPoll(p)
  BY <1>1, Zenon DEF IsPoll
<1>5. Behind(p, r, s)
  BY <1>1, <1>3, Zenon DEF Behind
<1> QED BY <1>1, <1>2, <1>3, <1>4, <1>5, Zenon

LEMMA SweepReadsShares ==
  ASSUME Sharing, NEW i \in Instances, SweepReads(i)
  PROVE  Sharing'
<1>1. /\ poll[i].pc = "idle" /\ UNCHANGED <<row, record, strays, call>>
      /\ poll = [j \in Instances |-> poll[j]]
  BY PollKnows, Zenon DEF SweepReads
<1>2. row.ver \in Nat /\ row.ver <= row.ver
  BY PollKnows
<1>3. PICK p : PollIs(i, p) /\ (p = [pc |-> "seen", ver |-> row.ver] \/ p = [pc |-> "align"])
  BY Zenon DEF SweepReads
<1>4. PollMoves(i) /\ poll'[i] = p
  BY <1>1, <1>3, PollIsMoves, Zenon
<1>5. IsPoll(p) /\ Behind(p, row, record) /\ p.pc # "correct"
  <2>1. CASE p = [pc |-> "seen", ver |-> row.ver]
    BY <1>2, <2>1, VersionPoll, Zenon
  <2>2. CASE p = [pc |-> "align"]
    BY <2>2, RestPoll, Zenon
  <2> QED BY <1>3, <2>1, <2>2, Zenon
<1>6. ~Aligning(poll[i], row, record) /\ poll[i].pc # "swept"
  BY <1>1, Zenon DEF Aligning
<1> QED BY <1>1, <1>4, <1>5, <1>6, PollMovesOn, Zenon

LEMMA SweepChecksShares ==
  ASSUME Sharing, NEW i \in Instances, SweepChecks(i)
  PROVE  Sharing'
<1>1. /\ poll[i].pc = "seen" /\ UNCHANGED <<row, record, strays, call>>
      /\ poll = [j \in Instances |-> poll[j]]
  BY PollKnows, Zenon DEF SweepChecks
<1>2. /\ poll[i].ver \in Nat /\ poll[i].ver <= row.ver
      /\ poll[i] = [pc |-> "seen", ver |-> poll[i].ver]
  BY <1>1, PollKnows, Zenon DEF IsPoll, Behind
<1>3. [poll[i] EXCEPT !.pc = "orphan"] = [pc |-> "orphan", ver |-> poll[i].ver]
  BY <1>2
<1>4. PICK p : /\ PollIs(i, p)
               /\ p = [pc |-> "orphan", ver |-> poll[i].ver] \/ p = [pc |-> "align"]
  BY <1>3, Zenon DEF SweepChecks
<1>5. PollMoves(i) /\ poll'[i] = p
  BY <1>1, <1>4, PollIsMoves, Zenon
<1>6. IsPoll(p) /\ Behind(p, row, record) /\ p.pc # "correct"
  <2>1. CASE p = [pc |-> "orphan", ver |-> poll[i].ver]
    BY <1>2, <2>1, VersionPoll, Zenon
  <2>2. CASE p = [pc |-> "align"]
    BY <2>2, RestPoll, Zenon
  <2> QED BY <1>4, <2>1, <2>2, Zenon
<1>7. ~Aligning(poll[i], row, record) /\ poll[i].pc # "swept"
  BY <1>1, Zenon DEF Aligning
<1> QED BY <1>1, <1>5, <1>6, <1>7, PollMovesOn, Zenon

\* The row is marked and the mark is to be shared, or it is no longer the one seen.
LEMMA SweepMarksShares ==
  ASSUME Inv, Sharing, NEW i \in Instances, SweepMarks(i)
  PROVE  Sharing'
<1>1. /\ poll[i].pc = "orphan" /\ UNCHANGED <<record, strays, call>>
      /\ poll = [j \in Instances |-> poll[j]] /\ Types
  BY PollKnows, Zenon DEF SweepMarks, Inv
<1>2. /\ poll[i].ver \in Nat /\ poll[i].ver <= row.ver
      /\ poll[i] = [pc |-> "orphan", ver |-> poll[i].ver]
  BY <1>1, PollKnows, Zenon DEF IsPoll, Behind
<1>3. [poll[i] EXCEPT !.pc = "swept"] = [pc |-> "swept", ver |-> poll[i].ver]
  BY <1>2
<1>4. CASE Sweepable(poll[i])
  <2>0. PICK p : PollIs(i, p) /\ p = [pc |-> "swept", ver |-> poll[i].ver]
    BY <1>3, <1>4, Zenon DEF SweepMarks
  <2>1. /\ row.auth = "refreshing" /\ row.ver = poll[i].ver
        /\ row' = [row EXCEPT !.auth = "unknown"]
        /\ PollMoves(i) /\ poll'[i] = p
    BY <1>1, <1>4, <2>0, PollIsMoves, Zenon DEF SweepMarks, Sweepable
  <2>2. row'.ver = row.ver /\ row.ver \in Nat /\ row.ver <= row.ver
    BY <1>1, <2>1 DEF Types
  <2>3. /\ IsPoll(poll'[i]) /\ Behind(poll'[i], row', record)
        /\ poll'[i].pc = "swept" /\ poll'[i].ver = row.ver
    <3>1. poll[i].ver \in Nat /\ poll[i].ver <= row'.ver
      BY <1>2, <2>2, Zenon
    <3>2. IsPoll(p) /\ Behind(p, row', record) /\ p.pc = "swept" /\ p.ver = poll[i].ver
      BY <2>0, <3>1, VersionPoll, Zenon
    <3> QED BY <2>1, <3>2, Zenon
  <2>4. ASSUME NEW j \in Instances PROVE IsPoll(poll'[j]) /\ Behind(poll'[j], row', record)
    <3>1. CASE j # i
      <4>1. poll'[j] = poll[j] /\ IsPoll(poll[j]) /\ Behind(poll[j], row, record)
        BY <2>1, <3>1, PollKnows, Zenon DEF PollMoves
      <4> QED BY <2>2, <4>1, Zenon DEF Behind
    <3> QED BY <2>3, <3>1, Zenon
  <2>5. ASSUME NEW c \in Calls PROVE Timely(call'[c], row')
    <3>1. Timely(call[c], row) /\ call'[c] = call[c]
      BY <1>1, Zenon DEF Sharing
    <3> QED BY <2>1, <2>2, <3>1, Zenon DEF Timely
  <2>6. Changed(row)'
    BY <2>2, <2>3, Zenon DEF Changed
  <2> QED BY <1>1, <2>1, <2>2, <2>4, <2>5, <2>6, RowMarked, Zenon DEF PollMoves
<1>5. CASE ~Sweepable(poll[i])
  <2>1. PollMoves(i) /\ poll'[i] = [pc |-> "align"] /\ row' = row
    BY <1>1, <1>5, PollIsMoves, Zenon DEF SweepMarks
  <2>2. IsPoll(poll'[i]) /\ Behind(poll'[i], row, record) /\ poll'[i].pc # "correct"
    BY <2>1, RestPoll, Zenon
  <2>3. ~Aligning(poll[i], row, record) /\ poll[i].pc # "swept"
    BY <1>1, Zenon DEF Aligning
  <2> QED BY <1>1, <2>1, <2>2, <2>3, PollMovesOn, Zenon
<1> QED BY <1>4, <1>5, Zenon

LEMMA SweepSharesShares ==
  ASSUME Sharing, NEW i \in Instances, SweepShares(i), ~Fault
  PROVE  Sharing'
<1>1. /\ poll[i].pc = "swept" /\ UNCHANGED <<row, strays, call>>
      /\ record' = Shared(record, "unknown", poll[i].ver)
      /\ poll = [j \in Instances |-> poll[j]]
  BY PollKnows, Zenon DEF SweepShares, ShareDone, Shares, ShareFailed
<1>2. /\ poll[i].ver \in Nat /\ poll[i].ver <= row.ver /\ row.ver \in Nat
      /\ record.asv \in Nat /\ record.asv <= row.ver
  BY <1>1, PollKnows, Zenon DEF IsPoll, Behind
<1>3. PollMoves(i) /\ poll'[i] = [pc |-> "align"]
  BY <1>1, PollIsMoves, Zenon DEF SweepShares
<1>4. \A r, s : IsPoll(poll'[i]) /\ Behind(poll'[i], r, s) /\ poll'[i].pc # "correct"
                /\ Aligning(poll'[i], r, s)
  BY <1>3, RestPoll, Zenon
<1>5. CASE record' = record /\ poll[i].ver < record.asv
  <2>1. poll[i].ver # row.ver
    BY <1>2, <1>5
  <2> QED BY <1>1, <1>3, <1>4, <1>5, <2>1, PollMovesOn, Zenon
<1>6. CASE record' = [n |-> record.n + 1, auth |-> "unknown", asv |-> poll[i].ver]
  <2>1. Owed'
    BY <1>4, Zenon DEF Owed
  <2>2. \A c \in Calls : Timely(call'[c], row)
    BY <1>1, Zenon DEF Sharing
  <2>3. /\ poll' = [j \in Instances |-> poll'[j]]
        /\ \A j \in Instances : poll'[j] = poll[j] \/ poll'[j] = IdlePoll
                                   \/ poll'[j] = [pc |-> "align"]
    BY <1>3, Zenon DEF PollMoves
  <2> QED BY <1>1, <1>2, <1>6, <2>1, <2>2, <2>3, RecordMoves, Zenon
<1> QED BY <1>1, <1>2, <1>5, <1>6, SharedCases, Zenon

LEMMA AlignReadsRecordShares ==
  ASSUME Sharing, NEW i \in Instances, AlignReadsRecord(i)
  PROVE  Sharing'
<1>1. /\ poll[i].pc = "align" /\ UNCHANGED <<row, record, strays, call>>
      /\ poll = [j \in Instances |-> poll[j]]
  BY PollKnows, Zenon DEF AlignReadsRecord
<1>2. PollMoves(i) /\ poll'[i] = [pc |-> "compare", record |-> record]
  BY <1>1, PollIsMoves, Zenon DEF AlignReadsRecord
<1> DEFINE p == poll'[i]
<1>3. p.pc = "compare" /\ p.record = record /\ p = [pc |-> p.pc, record |-> p.record]
  BY <1>2
<1>4. record.n \in Nat /\ record.n <= record.n
  BY PollKnows
<1> HIDE DEF p
<1>5. p.pc \notin {"seen", "orphan", "swept"} /\ p.pc # "correct"
  BY <1>3, Zenon
<1>6. IsPoll(p) /\ Behind(p, row, record) /\ Aligning(p, row, record)
  BY <1>3, <1>4, <1>5, Zenon DEF IsPoll, Behind, Aligning
<1> QED BY <1>1, <1>2, <1>5, <1>6, PollMovesOn, Zenon DEF p

LEMMA AlignReadsRowShares ==
  ASSUME Sharing, NEW i \in Instances, AlignReadsRow(i)
  PROVE  Sharing'
<1> DEFINE r == poll[i].record
<1>1. /\ poll[i].pc = "compare" /\ UNCHANGED <<row, record, strays, call>>
      /\ poll = [j \in Instances |-> poll[j]]
  BY PollKnows, Zenon DEF AlignReadsRow
<1>2. r.n \in Nat /\ r.n <= record.n /\ (r.n = record.n => r = record)
  BY <1>1, PollKnows, Zenon DEF Behind
<1>3. CASE Misaligned(r)
  <2>1. PICK p : PollIs(i, p) /\ p = [pc |-> "correct", record |-> r, auth |-> row.auth]
    BY <1>3, Zenon DEF AlignReadsRow
  <2>2. PollMoves(i) /\ poll'[i] = p
    BY <1>1, <2>1, PollIsMoves, Zenon
  <2>3. /\ p.pc = "correct" /\ p.record = r /\ p.auth = row.auth
        /\ p = [pc |-> p.pc, record |-> p.record, auth |-> p.auth]
    BY <2>1
  <2>4. p.pc \notin {"seen", "orphan", "swept"}
    BY <2>3, Zenon
  <2>5. IsPoll(p) /\ Behind(p, row, record)
    BY <1>2, <2>3, <2>4, Zenon DEF IsPoll, Behind
  <2>6. Aligning(poll[i], row, record) => Aligning(p, row, record)
    BY <1>1, <2>3, Zenon DEF Aligning
  <2> QED BY <1>1, <2>2, <2>3, <2>5, <2>6, PollMovesOn, Zenon
<1>4. CASE ~Misaligned(r)
  <2>1. PollMoves(i) /\ poll'[i] = IdlePoll
    BY <1>1, <1>4, PollIsMoves, Zenon DEF AlignReadsRow
  <2>2. IsPoll(poll'[i]) /\ Behind(poll'[i], row, record) /\ poll'[i].pc # "correct"
    BY <2>1, RestPoll, Zenon
  <2>3. ~(Differs(row, record) /\ Aligning(poll[i], row, record))
    <3>1. Aligning(poll[i], row, record) => r.n = record.n
      BY <1>1, Zenon DEF Aligning
    <3>2. Differs(row, record) => record.n # 0
      <4>1. row.ver # 0
        BY PollKnows
      <4> QED BY <4>1, Zenon DEF Differs, Sharing
    <3> QED BY <1>2, <1>4, <3>1, <3>2, Zenon DEF Differs, Misaligned
  <2> QED BY <1>1, <2>1, <2>2, <2>3, PollMovesOn, Zenon
<1> QED BY <1>3, <1>4, Zenon

\* The correction is that of the row; or the row has changed since it was read,
\* and whoever changed it is still to share it.
LEMMA AlignCorrectsShares ==
  ASSUME Sharing, NEW i \in Instances, AlignCorrects(i), ~Fault
  PROVE  Sharing'
<1> DEFINE p == poll[i]
<1>1. /\ p.pc = "correct" /\ UNCHANGED <<row, strays, call>>
      /\ poll = [j \in Instances |-> poll[j]]
  BY PollKnows, Zenon DEF AlignCorrects
<1>2. PollMoves(i) /\ poll'[i] = IdlePoll
  BY <1>1, PollIsMoves, Zenon DEF AlignCorrects
<1>3. IsPoll(poll'[i]) /\ Behind(poll'[i], row, record) /\ poll'[i].pc # "correct"
  BY <1>2, RestPoll, Zenon
<1>4. p.record.n = record.n => p.record = record
  BY <1>1, PollKnows, Zenon DEF Behind
<1>5. CASE ~Unmoved(p.record)
  <2>1. record' = record
    BY <1>5, Zenon DEF AlignCorrects
  <2>2. ~Aligning(p, row, record) /\ p.pc # "swept"
    BY <1>1, <1>5, Zenon DEF Aligning, Unmoved
  <2> QED BY <1>1, <1>2, <1>3, <2>1, <2>2, PollMovesOn, Zenon
<1>6. CASE Unmoved(p.record)
  <2>1. p.record = record /\ p.record.n = record.n
    BY <1>4, <1>6, Zenon DEF Unmoved
  <2>2. record.asv \in Nat /\ record.asv <= row.ver
    BY PollKnows, Zenon
  <2>3. record' = Shared(record, p.auth, record.asv)
    BY <1>6, <2>1, Zenon DEF AlignCorrects
  <2>4. ~(record.asv < record.asv)
    BY <2>2
  <2>5. record' = [n |-> record.n + 1, auth |-> p.auth, asv |-> record.asv]
    BY <2>2, <2>3, <2>4, SharedCases, Zenon
  <2>6. ASSUME record.asv = row.ver, p.auth # row.auth PROVE Owed'
    <3>1. Changed(row)
      BY <1>1, <2>1, <2>6, Zenon DEF Sharing
    <3>2. Changed(row)'
      <4>1. ASSUME NEW j \in Instances, poll[j].pc = "swept" PROVE poll'[j] = poll[j]
        <5>1. j # i
          BY <1>1, <4>1, Zenon
        <5> QED BY <1>2, <5>1, Zenon DEF PollMoves
      <4> QED BY <1>1, <3>1, <4>1, Zenon DEF Changed
    <3> QED BY <3>2, Zenon DEF Changed, Owed, Finishing, Aligning
  <2>7. \A c \in Calls : Timely(call'[c], row)
    BY <1>1, Zenon DEF Sharing
  <2>8. /\ poll' = [j \in Instances |-> poll'[j]]
        /\ \A j \in Instances : poll'[j] = poll[j] \/ poll'[j] = IdlePoll
                                   \/ poll'[j] = [pc |-> "align"]
    BY <1>2, Zenon DEF PollMoves
  <2> QED BY <1>1, <2>2, <2>5, <2>6, <2>7, <2>8, RecordMoves, Zenon
<1> QED BY <1>5, <1>6, Zenon

\* A step of the poll, when nothing fails.
LEMMA PollShares ==
  ASSUME Inv, Sharing, NEW i \in Pollers, PollStep(i), ~Fault
  PROVE  Sharing'
<1>1. i \in Instances /\ ~PollFails(i)
  BY RefreshAssumption, Zenon DEF PollFails
<1> QED
  BY <1>1, SweepReadsShares, SweepChecksShares, SweepMarksShares, SweepSharesShares,
     AlignReadsRecordShares, AlignReadsRowShares, AlignCorrectsShares, Zenon DEF PollStep

-----------------------------------------------------------------------------
(* Every step, and what follows. *)

\* An operator's new authorization has a version that was never shared.
LEMMA ReauthorizeShares ==
  ASSUME Inv, Sharing, NEW i \in Instances, Reauthorize(i)
  PROVE  Sharing'
<1>1. /\ row.auth \in {"rejected", "unknown"} /\ UNCHANGED <<record, strays, poll, call>>
      /\ row' = [ver |-> row.ver + 1, auth |-> "ready", token |-> issued + 1]
  BY Zenon DEF Reauthorize
<1>2. row'.ver = row.ver + 1 /\ row.auth # "ready" /\ row.ver \in Nat
  BY <1>1 DEF Sharing
<1>3. ASSUME NEW c \in Calls PROVE Timely(call'[c], row')
  <2> DEFINE k == call[c]
  <2>1. Timely(k, row) /\ call'[c] = k
    BY <1>1, Zenon DEF Sharing
  <2>2. k.pc \notin {"replace", "share"}
    BY <1>2, <2>1, Zenon DEF Timely
  <2>3. CASE k.pc \in {"write", "publish", "upstream", "commit"}
    <3>1. Working(k)
      BY <2>3, IsWorking, Zenon DEF Inv
    <3>2. k.at \in Nat /\ k.at <= row.ver
      BY <2>1, <2>3, <3>1, Zenon DEF Working, Timely
    <3>3. k.at <= row'.ver /\ k.at # row'.ver
      BY <1>2, <3>2
    <3> QED BY <2>1, <2>2, <3>3, Zenon DEF Timely
  <2>4. CASE k.pc \notin {"write", "publish", "upstream", "commit"}
    <3>1. k.pc \notin {"write", "publish", "upstream", "commit", "replace", "share"}
      BY <2>2, <2>4, Zenon
    <3> QED BY <2>1, <3>1, RestTimely, Zenon
  <2> QED BY <2>3, <2>4, Zenon
<1> QED BY <1>1, <1>2, <1>3, VersionMoves, Zenon

\* A step that adds no fault and loses no lease.
LEMMA StepShares ==
  ASSUME Inv, Sharing, losses = 0, [Next]_vars, ~Fault, ~LeaseLost
  PROVE  Sharing'
<1>1. CASE \E c \in Calls, i \in Instances, kind \in Kinds : Begin(c, i, kind)
  BY <1>1, BeginShares, Zenon
<1>2. CASE \E c \in Calls : RefreshStep(c)
  BY <1>2, RefreshShares, Zenon
<1>3. CASE \E i \in Pollers : PollStep(i)
  BY <1>3, PollShares, Zenon
<1>4. CASE \/ \E i \in Instances : Mirror(i) \/ Reload(i) \/ Connect(i)
           \/ LeaseExpires \/ UNCHANGED vars
  <2>1. UNCHANGED <<row, record, poll, strays, call>>
    BY <1>4, Zenon DEF Mirror, Reload, Connect, LeaseExpires, vars
  <2> QED BY <2>1, NothingMoves, Zenon
<1>5. CASE \E i \in Instances : Reauthorize(i)
  BY <1>5, ReauthorizeShares, Zenon
<1>6. \A i \in Instances : ~Crash(i)
  BY Zenon DEF Crash
<1>7. \A w \in strays : ~StrayRuns(w)
  BY Zenon DEF Sharing
<1> QED BY <1>1, <1>2, <1>3, <1>4, <1>5, <1>6, <1>7, Zenon DEF Next

\* Faults and losses are not forgotten.
LEMMA NothingFailed ==
  ASSUME faults \in Nat, losses \in Nat, [Next]_vars, faults' = 0, losses' = 0
  PROVE  faults = 0 /\ losses = 0 /\ ~Fault /\ ~LeaseLost
<1>1. ~Fault /\ ~LeaseLost
  BY DEF Fault, LeaseLost
<1>2. NoFault => UNCHANGED <<faults, losses>>
  BY DEF NoFault, counters
<1>3. ASSUME NEW c \in Calls, RefreshStep(c) PROVE UNCHANGED <<faults, losses>>
  BY <1>1, <1>2, <1>3, Zenon DEF RefreshStep, Acquire, GiveUp, AcquireFails, AcquireAgain, Read,
     Repair, Write, Publish, Published, Rotates, Rejects, Postpones, NotServed, Commit, Replace,
     Share, ShareDone, Shares, ShareFailed, Release, counters
<1>4. ASSUME NEW i \in Pollers, PollStep(i) PROVE UNCHANGED <<faults, losses>>
  BY <1>1, <1>2, <1>4, Zenon DEF PollStep, SweepReads, SweepChecks, SweepMarks, SweepShares,
     ShareDone, Shares, ShareFailed, AlignReadsRecord, AlignReadsRow, AlignCorrects, PollFails,
     counters
<1>5. ASSUME \/ \E i \in Instances : Mirror(i) \/ Reload(i) \/ Reauthorize(i) \/ Connect(i)
             \/ \E i \in Instances : Crash(i)
             \/ \E c \in Calls, i \in Instances, kind \in Kinds : Begin(c, i, kind)
             \/ \E w \in strays : StrayRuns(w)
             \/ LeaseExpires \/ UNCHANGED vars
      PROVE  UNCHANGED <<faults, losses>>
  BY <1>1, <1>5, Zenon DEF Mirror, Reload, Reauthorize, Connect, Crash, Begin, StrayRuns,
     LeaseExpires, counters, vars
<1>6. UNCHANGED <<faults, losses>>
  BY <1>1, <1>3, <1>4, <1>5, Zenon DEF Next
<1> QED BY <1>1, <1>6, Zenon

\* The state of the row is shared, or somebody is to share it.
SharingInv == faults = 0 /\ losses = 0 => Sharing

LEMMA InitSharing == Init => SharingInv
<1> SUFFICES ASSUME Init PROVE Sharing
  BY DEF SharingInv
<1>1. /\ row = [ver |-> 1, auth |-> "ready", token |-> 1]
      /\ record = [n |-> 0, auth |-> "none", asv |-> 0]
      /\ call = [c \in Calls |-> NewCall] /\ poll = [i \in Instances |-> IdlePoll]
      /\ strays = {}
  BY Zenon DEF Init
<1>2. /\ row.ver = 1 /\ record.n = 0 /\ record.asv = 0
      /\ record = [n |-> record.n, auth |-> record.auth, asv |-> record.asv]
  BY <1>1
<1>3. /\ row.ver \in Nat \ {0} /\ record.n \in Nat /\ record.asv \in Nat /\ record.asv <= row.ver
      /\ record.asv # row.ver
  BY <1>2
<1>4. ASSUME NEW i \in Instances
      PROVE  IsPoll(poll[i]) /\ Behind(poll[i], row, record) /\ poll[i].pc # "correct"
  <2>1. poll[i] = IdlePoll
    BY <1>1, Zenon
  <2> QED BY <2>1, RestPoll, Zenon
<1>5. ASSUME NEW c \in Calls PROVE Timely(call[c], row)
  <2>1. call[c] = NewCall /\ NewCall.pc = "new"
    BY <1>1, Zenon DEF NewCall
  <2> QED BY <2>1, RestTimely, Zenon
<1>6. ~Differs(row, record)
  BY <1>3, Zenon DEF Differs
<1>7. poll = [i \in Instances |-> poll[i]]
  BY <1>1, Zenon
<1> QED BY <1>1, <1>2, <1>3, <1>4, <1>5, <1>6, <1>7, Zenon DEF Sharing

LEMMA NextSharing ==
  Inv /\ faults \in Nat /\ SharingInv /\ [Next]_vars => SharingInv'
<1> SUFFICES ASSUME Inv, faults \in Nat, SharingInv, [Next]_vars, faults' = 0, losses' = 0
             PROVE  Sharing'
  BY Zenon DEF SharingInv
<1>1. losses \in Nat
  BY Zenon DEF Inv, Types
<1>2. faults = 0 /\ losses = 0 /\ ~Fault /\ ~LeaseLost
  BY <1>1, NothingFailed, Zenon
<1>3. Sharing
  BY <1>2, Zenon DEF SharingInv
<1> QED BY <1>2, <1>3, StepShares, Zenon

\* With every write made and no lease lost, whatever refreshes, sweeps,
\* corrections and authorizations interleave: once they have all ended, a
\* record of the version of the row has the state of the row.
THEOREM StateShared == Spec => []SettledStateIsShared
<1>1. ASSUME SharingInv PROVE SettledStateIsShared
  <2> SUFFICES ASSUME faults = 0, losses = 0, \A c \in Calls : ~Alive(c),
                      \A i \in Instances : poll[i] = IdlePoll, Differs(row, record)
               PROVE  FALSE
    BY Zenon DEF SettledStateIsShared, Differs
  <2>1. Owed
    BY <1>1, Zenon DEF SharingInv, Sharing
  <2>2. ASSUME NEW c \in Calls PROVE ~Finishing(call[c], row)
    <3>1. call[c].pc \in {"new", "done"}
      BY Zenon DEF Alive
    <3>2. call[c].pc \notin {"write", "publish", "upstream", "commit", "replace", "share"}
      BY <3>1, Zenon
    <3> QED BY <3>2, RestTimely, Zenon
  <2>3. ASSUME NEW i \in Instances PROVE ~Aligning(poll[i], row, record)
    <3>1. poll[i].pc = "idle"
      BY DEF IdlePoll
    <3> QED BY <3>1, Zenon DEF Aligning
  <2> QED BY <2>1, <2>2, <2>3, Zenon DEF Owed
<1> QED BY Invariant, InitSharing, NextSharing, <1>1, PTL DEF Spec

=============================================================================
