------------------------- MODULE AccessQuotaProofs --------------------------
(***************************************************************************)
(* Type correctness of the cost limits of an access key; proofs that every *)
(* saved state of a rule can be restored, that the windows of a periodic   *)
(* rule do not overlap, that every change of a rule is tracked until it is *)
(* saved, and that every checkpoint is a state Redis held.                 *)
(***************************************************************************)
EXTENDS AccessQuota, TLAPS

-----------------------------------------------------------------------------
(* Types. *)

\* The constructors of rule states, marks and passes are well typed.
LEMMA ConstructorTypes ==
    /\ Absent \in State /\ Clean \in Mark /\ NoRule \in Definition /\ NoTicket \in Ticket
    /\ \A s \in State : MarkOf(s) \in Mark
    /\ \A rev \in Nat : FreshState(rev) \in State
    /\ \A s \in State, now \in Nat : Open(s, now) \in State
    /\ \A s \in State, cost \in Int : Settled(s, cost) \in State
    /\ IdlePass \in Pass
<1>1. Absent \in State /\ Clean \in Mark /\ NoRule \in Definition /\ NoTicket \in Ticket
  BY Zenon DEF Absent, State, Clean, Mark, NoRule, Definition, NoTicket, Ticket
<1>2. \A s \in State : MarkOf(s) \in Mark
  BY DEF MarkOf, State, Mark
<1>3. \A rev \in Nat : FreshState(rev) \in State
  BY Zenon DEF FreshState, State, Absent
<1>4. \A s \in State, now \in Nat : Open(s, now) \in State
  <2> TAKE s \in State, now \in Nat
  <2>1. s.gen + 1 \in Nat /\ s.ver + 1 \in Nat /\ now + Period \in Nat /\ 0 \in Nat
    BY AmountsAssumption DEF State, AmountsAssumption
  <2> QED
    BY <2>1, Zenon DEF State, Open
<1>5. \A s \in State, cost \in Int : Settled(s, cost) \in State
  <2> TAKE s \in State, cost \in Int
  <2>1. Charge(s.used, cost) \in Nat /\ s.ver + 1 \in Nat
    BY AmountsAssumption DEF State, AmountsAssumption, Charge
  <2> QED
    BY <2>1, Zenon DEF State, Settled
<1>6. IdlePass \in Pass
  BY <1>1 DEF IdlePass, Pass
<1> QED
  BY <1>1, <1>2, <1>3, <1>4, <1>5, <1>6, Zenon

\* A new request and a finished one are requests.
LEMMA RequestTypes ==
    /\ \A i \in Instances : NewRequest(i) \in Request
    /\ \A e \in Request, pc \in {"done", "failed"} : Ended(e, pc) \in Request
<1>1. ASSUME NEW i \in Instances PROVE NewRequest(i) \in Request
  <2>1. 0 \in Nat /\ 0 \in Int
    OBVIOUS
  <2> QED
    BY <2>1, ConstructorTypes, Zenon DEF NewRequest, Request, Over
<1>2. ASSUME NEW e \in Request, NEW pc \in {"done", "failed"} PROVE Ended(e, pc) \in Request
  <2> DEFINE n == NewRequest(e.inst)
  <2>1. n \in Request
    BY <1>1, Zenon DEF Request
  <2>2. /\ (IF e.settled > 0 THEN e.ticket ELSE n.ticket) \in [Rules -> Ticket]
        /\ (IF e.settled > 0 THEN e.cost ELSE n.cost) \in Int
        /\ e.mode \in {"check", "admit"} /\ e.settled \in Nat
    BY <2>1, Zenon DEF Request
  <2>3. pc \in Over
    BY DEF Over
  <2> HIDE DEF n
  <2>4. [n EXCEPT !.pc = pc, !.mode = e.mode, !.settled = e.settled,
             !.ticket = IF e.settled > 0 THEN e.ticket ELSE @,
             !.cost = IF e.settled > 0 THEN e.cost ELSE @] \in Request
    BY <2>1, <2>2, <2>3, Zenon DEF Request
  <2> QED
    BY <2>4 DEF n, Ended
<1> QED
  BY <1>1, <1>2

\* A step of a request keeps the types.
LEMMA RequestStepType ==
    ASSUME TypeOK, NEW q \in Requests, RequestStep(q)
    PROVE  TypeOK'
<1> USE DEF TypeOK, env, history
<1>0. /\ req[q] \in Request /\ req[q].inst \in Instances
      /\ req[q].rules \in [Rules -> Definition] /\ req[q].marks \in [Rules -> Mark]
      /\ req[q].read \in [Rules -> State] /\ req[q].now \in Nat
      /\ req[q].missing \subseteq Rules
  BY Zenon DEF Request, Over
<1>e. \A p \in {"done", "failed"} : Ended(req[q], p) \in Request
  BY <1>0, RequestTypes, Zenon
<1>i. \A r \in Rules : redis[r] \in State /\ db[r] \in State
  OBVIOUS
<1>1. ASSUME NEW mode \in Modes, Begin(q, mode) PROVE TypeOK'
  <2>1. clock + Skew[req[q].inst] \in Nat /\ mode \in {"check", "admit"}
        /\ cfg[req[q].inst] \in [Rules -> Definition]
    BY <1>0, ClockAssumption, ModesAssumption DEF ClockAssumption
  <2>2. [req[q] EXCEPT !.pc = "evaluate", !.mode = mode,
                       !.now = clock + Skew[req[q].inst], !.rules = cfg[req[q].inst]] \in Request
    BY <1>0, <2>1, Zenon DEF Request
  <2> QED
    BY <1>1, <1>e, <2>2, Zenon DEF Begin
<1>2. CASE EvaluateFails(q)
  BY <1>2, <1>e, Zenon DEF EvaluateFails
<1>3. CASE EvaluateNeedsInit(q)
  <2>1. [req[q] EXCEPT !.pc = "hydrate", !.missing = Missing(q)] \in Request
    <3>1. Missing(q) \in SUBSET Rules
      BY Zenon DEF Missing, RulesOf
    <3> QED
      BY <1>0, <3>1, Zenon DEF Request
  <2> QED
    BY <1>3, <2>1, Zenon DEF EvaluateNeedsInit
<1>4. CASE EvaluateRefusesOrChecks(q)
  BY <1>4, <1>e, Zenon DEF EvaluateRefusesOrChecks
<1>5. CASE EvaluateAdmits(q)
  <2>1. redis' \in [Rules -> State]
    BY <1>5, <1>0, <1>i, ConstructorTypes, Zenon DEF EvaluateAdmits
  <2> DEFINE ticket == [r \in Rules |-> IF r \in RulesOf(q)
                           THEN [rev |-> req[q].rules[r].rev, gen |-> redis'[r].gen]
                           ELSE NoTicket]
             marks == [r \in Rules |-> IF r \in Opened(q) THEN MarkOf(redis'[r]) ELSE Clean]
  <2>2. ticket \in [Rules -> Ticket]
    BY <1>0, <2>1, Zenon DEF Ticket, NoTicket, State, Definition
  <2>3. marks \in [Rules -> Mark]
    BY <2>1, ConstructorTypes, Zenon
  <2>4. [req[q] EXCEPT !.pc = IF Opened(q) = {} THEN "admitted" ELSE "admitting",
                       !.now = IF Opened(q) = {} THEN 0 ELSE @,
                       !.ticket = ticket, !.marks = marks] \in Request
    <3>1. (IF Opened(q) = {} THEN 0 ELSE req[q].now) \in Nat
      BY <1>0
    <3> HIDE DEF ticket, marks
    <3> QED
      BY <1>0, <2>2, <2>3, <3>1, Zenon DEF Request
  <2>5. orphan' \in [Rules -> BOOLEAN]
    BY <1>5, Zenon DEF EvaluateAdmits
  <2> QED
    BY <1>5, <2>1, <2>4, <2>5, Zenon DEF EvaluateAdmits
<1>6. CASE HydrateReads(q)
  <2>1. [req[q] EXCEPT !.pc = "init", !.read = db] \in Request
    BY <1>0, Zenon DEF Request
  <2> QED
    BY <1>6, <2>1, Zenon DEF HydrateReads
<1>7. CASE HydrateFails(q)
  BY <1>7, <1>e, Zenon DEF HydrateFails
<1>8. CASE InitScript(q)
  <2>1. redis' \in [Rules -> State]
    BY <1>8, <1>0, <1>i, Zenon DEF InitScript, Hydrated
  <2>2. [req[q] EXCEPT !.pc = "evaluate", !.hydrated = TRUE, !.missing = {},
                       !.read = [r \in Rules |-> Absent]] \in Request
    BY <1>0, ConstructorTypes, Zenon DEF Request
  <2>3. orphan' \in [Rules -> BOOLEAN]
    BY <1>8, Zenon DEF InitScript
  <2> QED
    BY <1>8, <2>1, <2>2, <2>3, Zenon DEF InitScript
<1>9. ASSUME NEW cost \in Costs, Complete(q, cost) PROVE TypeOK'
  <2>0. cost \in Int
    BY AmountsAssumption, Zenon DEF AmountsAssumption
  <2>1. redis' \in [Rules -> State]
    BY <1>9, <1>i, <2>0, ConstructorTypes, Zenon DEF Complete
  <2> DEFINE e == Completed(req[q], cost)
             marks == [r \in Rules |-> IF r \in Changed(q, cost)
                                       THEN MarkOf(redis'[r]) ELSE Clean]
  <2>2. e \in Request
    <3>1. req[q].settled \in Nat
      BY <1>0, Zenon DEF Request
    <3>2. (IF cost = 0 THEN req[q].settled ELSE req[q].settled + 1) \in Nat
      BY <3>1
    <3> QED
      BY <1>0, <2>0, <3>2, Zenon DEF Request, Completed
  <2>3. marks \in [Rules -> Mark]
    BY <2>1, ConstructorTypes, Zenon
  <2>4. [e EXCEPT !.pc = "settling", !.marks = marks] \in Request
    <3> HIDE DEF e, marks
    <3> QED
      BY <2>2, <2>3, Zenon DEF Request
  <2>5. Ended(e, "done") \in Request
    BY <2>2, RequestTypes, Zenon
  <2>6. orphan' \in [Rules -> BOOLEAN]
    BY <1>9, Zenon DEF Complete
  <2>7. req' = [req EXCEPT ![q] = IF cost = 0 \/ Changed(q, cost) = {} THEN Ended(e, "done")
                                  ELSE [e EXCEPT !.pc = "settling", !.marks = marks]]
    BY <1>9, Zenon DEF Complete
  <2>8. req' \in [Requests -> Request]
    <3> HIDE DEF e, marks
    <3> QED
      BY <2>4, <2>5, <2>7, Zenon
  <2> QED
    BY <1>9, <2>1, <2>6, <2>8, Zenon DEF Complete
<1>10. CASE CallFails(q)
  BY <1>10, <1>e, Zenon DEF CallFails
<1>11. CASE ReplyArrives(q)
  <2>1. dirty' \in [Instances -> [Rules -> Mark]]
    BY <1>11, <1>0, Zenon DEF ReplyArrives, Marked
  <2>2. wake' \in [Instances -> BOOLEAN]
    BY <1>11, Zenon DEF ReplyArrives
  <2>3. [req[q] EXCEPT !.pc = "admitted", !.now = 0, !.marks = [r \in Rules |-> Clean]] \in Request
    <3>1. 0 \in Nat
      OBVIOUS
    <3> QED
      BY <1>0, <3>1, ConstructorTypes, Zenon DEF Request
  <2> QED
    BY <1>11, <1>e, <2>1, <2>2, <2>3, Zenon DEF ReplyArrives
<1>12. CASE ReplyLost(q)
  <2>1. orphan' \in [Rules -> BOOLEAN]
    BY <1>12, Zenon DEF ReplyLost
  <2> QED
    BY <1>12, <1>e, <2>1 DEF ReplyLost
<1>13. CASE Resend(q)
  <2>1. orphan' \in [Rules -> BOOLEAN]
    BY <1>13, Zenon DEF Resend
  <2>2. [req[q] EXCEPT !.pc = "admitted", !.marks = [r \in Rules |-> Clean]] \in Request
    BY <1>0, ConstructorTypes, Zenon DEF Request
  <2>3. [req[q] EXCEPT !.pc = "evaluate", !.marks = [r \in Rules |-> Clean],
                       !.ticket = [r \in Rules |-> NoTicket]] \in Request
    BY <1>0, ConstructorTypes, Zenon DEF Request
  <2>4. req' \in [Requests -> Request]
    BY <1>13, <2>2, <2>3, Zenon DEF Resend
  <2>5. faults' \in Nat
    BY <1>13 DEF Resend
  <2> QED
    BY <1>13, <2>1, <2>4, <2>5, Zenon DEF Resend
<1> QED
  BY <1>1, <1>2, <1>3, <1>4, <1>5, <1>6, <1>7, <1>8, <1>9, <1>10, <1>11, <1>12, <1>13, Zenon DEF
     RequestStep

\* A step of a checkpoint pass keeps the types.
LEMMA WorkerStepType ==
    ASSUME TypeOK, NEW i \in Instances, WorkerStep(i)
    PROVE  TypeOK'
<1> USE DEF TypeOK, env, history
<1>0. /\ worker[i] \in Pass /\ dirty[i] \in [Rules -> Mark]
      /\ worker[i].cand \in [Rules -> Mark] /\ worker[i].snap \in [Rules -> State]
  BY Zenon DEF Pass
<1>1. ASSUME NEW woken \in BOOLEAN, StartPass(i, woken) PROVE TypeOK'
  <2>1. [worker[i] EXCEPT !.pc = IF HasDirty(i) THEN "read" ELSE "idle",
                          !.cand = dirty[i]] \in Pass
    BY <1>0, Zenon DEF Pass
  <2>2. wake' \in [Instances -> BOOLEAN]
    BY <1>1, Zenon DEF StartPass
  <2> QED
    BY <1>1, <2>1, <2>2, Zenon DEF StartPass
<1>2. CASE ReadDirty(i)
  <2> DEFINE snap == [r \in Rules |-> IF worker[i].cand[r] = Clean THEN Absent ELSE redis[r]]
  <2>1. snap \in [Rules -> State]
    BY ConstructorTypes, Zenon
  <2>2. [worker[i] EXCEPT !.pc = "filter", !.snap = snap] \in Pass
    <3> HIDE DEF snap
    <3> QED
      BY <1>0, <2>1, Zenon DEF Pass
  <2> QED
    BY <1>2, <2>2, Zenon DEF ReadDirty
<1>3. CASE FilterDirty(i)
  <2> DEFINE kept == {r \in Rules : worker[i].cand[r] # Clean /\ CoveredBy(worker[i].cand[r], worker[i].snap[r])}
             left == [r \in Rules |-> IF r \notin kept /\ dirty[i][r] = worker[i].cand[r] THEN Clean
                                      ELSE dirty[i][r]]
             snap == [r \in Rules |-> IF r \in kept THEN worker[i].snap[r] ELSE Absent]
  <2>1. left \in [Rules -> Mark] /\ snap \in [Rules -> State]
    BY <1>0, ConstructorTypes, Zenon
  <2>2. IdlePass.cand \in [Rules -> Mark]
    BY ConstructorTypes, Zenon DEF Pass
  <2>3. [pc |-> "write", cand |-> IdlePass.cand, snap |-> snap] \in Pass
    <3> HIDE DEF snap
    <3> QED
      BY <2>1, <2>2, Zenon DEF Pass
  <2>4. wake' \in [Instances -> BOOLEAN]
    BY <1>3, Zenon DEF FilterDirty
  <2>5. /\ dirty' = [dirty EXCEPT ![i] = left]
        /\ worker' = [worker EXCEPT ![i] = IF kept = {} THEN IdlePass
                          ELSE [pc |-> "write", cand |-> IdlePass.cand, snap |-> snap]]
    BY <1>3, Zenon DEF FilterDirty
  <2> HIDE DEF kept, left, snap
  <2>6. dirty' \in [Instances -> [Rules -> Mark]] /\ worker' \in [Instances -> Pass]
    BY <2>1, <2>3, <2>5, ConstructorTypes, Zenon
  <2> QED
    BY <1>3, <2>4, <2>6, Zenon DEF FilterDirty
<1>4. CASE WriteSnapshots(i)
  <2>1. db' \in [Rules -> State]
    BY <1>4, <1>0, Zenon DEF WriteSnapshots, Persisted
  <2>2. [worker[i] EXCEPT !.pc = "ack"] \in Pass
    BY <1>0, Zenon DEF Pass
  <2> QED
    BY <1>4, <2>1, <2>2, Zenon DEF WriteSnapshots
<1>5. CASE AckSnapshots(i)
  <2>1. dirty' \in [Instances -> [Rules -> Mark]]
    BY <1>5, <1>0, ConstructorTypes, Zenon DEF AckSnapshots, Acked
  <2>2. wake' \in [Instances -> BOOLEAN]
    BY <1>5, Zenon DEF AckSnapshots
  <2> QED
    BY <1>5, <2>1, <2>2, ConstructorTypes, Zenon DEF AckSnapshots
<1>6. CASE PassFails(i)
  <2>1. wake' \in [Instances -> BOOLEAN]
    BY <1>6, Zenon DEF PassFails
  <2> QED
    BY <1>6, <2>1, ConstructorTypes, Zenon DEF PassFails
<1> QED
  BY <1>1, <1>2, <1>3, <1>4, <1>5, <1>6, Zenon DEF WorkerStep

\* The steps of operators, instances, time and faults keep the types.
LEMMA EnvironmentStepType ==
    ASSUME TypeOK,
           \/ \E r \in Rules : OperatorStep(r) \/ LoseKey(r) \/ ExpireKey(r)
           \/ \E i \in Instances : Reload(i) \/ Crash(i)
           \/ Tick
    PROVE  TypeOK'
<1> USE DEF TypeOK, env, history
<1>1. ASSUME NEW r \in Rules, NEW limit \in Limits, ReviseRule(r, limit) PROVE TypeOK'
  <2>1. limit \in Nat /\ rule[r].rev + 1 \in Nat
    BY AmountsAssumption DEF AmountsAssumption, Definition
  <2>2. [rev |-> rule[r].rev + 1, limit |-> limit] \in Definition
    BY <2>1, Zenon DEF Definition
  <2> QED
    BY <1>1, <2>1, <2>2, ConstructorTypes, Zenon DEF ReviseRule
<1>2. ASSUME NEW r \in Rules, NEW limit \in Limits, EditLimit(r, limit) PROVE TypeOK'
  <2>1. limit \in Nat
    BY AmountsAssumption, Zenon DEF AmountsAssumption
  <2>2. [rule[r] EXCEPT !.limit = limit] \in Definition
    BY <2>1, Zenon DEF Definition
  <2> QED
    BY <1>2, <2>2, Zenon DEF EditLimit
<1>3. ASSUME NEW r \in Rules, DeleteRule(r) PROVE TypeOK'
  BY <1>3, ConstructorTypes, Zenon DEF DeleteRule
<1>4. ASSUME NEW r \in Rules, LoseKey(r) PROVE TypeOK'
  <2>1. forked' \in [Rules -> BOOLEAN]
    BY <1>4, Zenon DEF LoseKey
  <2> QED
    BY <1>4, ConstructorTypes DEF LoseKey
<1>5. ASSUME NEW r \in Rules, ExpireKey(r) PROVE TypeOK'
  <2>1. forked' \in [Rules -> BOOLEAN]
    BY <1>5, Zenon DEF ExpireKey
  <2> QED
    BY <1>5, <2>1, ConstructorTypes, Zenon DEF ExpireKey
<1>6. ASSUME NEW i \in Instances, Reload(i) PROVE TypeOK'
  BY <1>6, Zenon DEF Reload
<1>7. ASSUME NEW i \in Instances, Crash(i) PROVE TypeOK'
  <2>1. orphan' \in [Rules -> BOOLEAN] /\ wake' \in [Instances -> BOOLEAN]
    BY <1>7, Zenon DEF Crash
  <2>2. req' \in [Requests -> Request]
    BY <1>7, RequestTypes, Zenon DEF Crash
  <2> QED
    <3>1. faults' \in Nat
      BY <1>7 DEF Crash
    <3> QED
      BY <1>7, <2>1, <2>2, <3>1, ConstructorTypes, Zenon DEF Crash
<1>8. CASE Tick
  BY <1>8 DEF Tick
<1> QED
  BY <1>1, <1>2, <1>3, <1>4, <1>5, <1>6, <1>7, <1>8, Zenon DEF OperatorStep

\* The initial states are well typed.
LEMMA InitType == Init => TypeOK
<1> SUFFICES ASSUME Init PROVE TypeOK
  OBVIOUS
<1>1. PICK limit \in [Rules -> Limits] : rule = [r \in Rules |-> [rev |-> 1, limit |-> limit[r]]]
  BY Zenon DEF Init
<1>2. rule \in [Rules -> Definition]
  BY <1>1, AmountsAssumption, Zenon DEF AmountsAssumption, Definition
<1>3. /\ orphan \in [Rules -> BOOLEAN] /\ forked \in [Rules -> BOOLEAN]
      /\ wake \in [Instances -> BOOLEAN]
  BY Zenon DEF Init
<1>4. req \in [Requests -> Request]
  BY RequestTypes DEF Init
<1> QED
  BY <1>2, <1>3, <1>4, ConstructorTypes, Zenon DEF Init, TypeOK

\* Every step keeps the types.
LEMMA StepType == TypeOK /\ [Next]_vars => TypeOK'
<1> SUFFICES ASSUME TypeOK, [Next]_vars PROVE TypeOK'
  OBVIOUS
<1>1. CASE Next
  BY <1>1, RequestStepType, WorkerStepType, EnvironmentStepType, Zenon DEF Next
<1>2. CASE UNCHANGED vars
  BY <1>2, Zenon DEF TypeOK, vars
<1> QED
  BY <1>1, <1>2

\* The type invariant.
THEOREM TypeCorrect == Spec => []TypeOK
BY InitType, StepType, PTL DEF Spec

-----------------------------------------------------------------------------
(* Legal states and windows. *)

\* A rule state stays legal when a window is opened or a cost is charged to an
\* open one.
LEMMA LegalStates ==
    ASSUME NEW r \in Rules, NEW s \in State, Restorable(r, s)
    PROVE  /\ \A now \in Nat : now > 0 /\ r \in PeriodicRules => Restorable(r, Open(s, now))
           /\ \A cost \in Int : (r \in PeriodicRules => s.gen > 0) => Restorable(r, Settled(s, cost))
<1>1. ASSUME NEW now \in Nat, now > 0, r \in PeriodicRules PROVE Restorable(r, Open(s, now))
  <2> DEFINE t == Open(s, now)
  <2>1. /\ t.rev = s.rev /\ t.ver = s.ver + 1 /\ t.gen = s.gen + 1
        /\ t.ws = now /\ t.we = now + Period
    BY DEF Open, State
  <2> HIDE DEF t
  <2> QED
    BY <1>1, <2>1, AmountsAssumption DEF Restorable, State, AmountsAssumption, t
<1>2. ASSUME NEW cost \in Int, r \in PeriodicRules => s.gen > 0 PROVE Restorable(r, Settled(s, cost))
  <2> DEFINE t == Settled(s, cost)
  <2>1. CASE t = s
    BY <2>1
  <2>2. CASE t # s
    <3>1. /\ t.rev = s.rev /\ t.ver = s.ver + 1 /\ t.gen = s.gen
          /\ t.ws = s.ws /\ t.we = s.we
      BY <2>2 DEF Settled, State
    <3> HIDE DEF t
    <3> QED
      BY <1>2, <3>1 DEF Restorable, State, t
  <2> QED
    BY <2>1, <2>2
<1> QED
  BY <1>1, <1>2, Zenon

\* A finished request has read nothing and names no rule.
LEMMA EndedIsLegal ==
    ASSUME NEW e, NEW pc \in {"done", "failed"}
    PROVE  /\ Ended(e, pc).pc = pc
           /\ Ended(e, pc).read = [r \in Rules |-> Absent]
BY DEF Ended, NewRequest

\* Every step of a request keeps the states legal.
LEMMA RequestStepLegal ==
    ASSUME LegalityInv, TypeOK', NEW q \in Requests, RequestStep(q)
    PROVE  LegalityInv'
<1> DEFINE ReqLegal(e) ==
       /\ e.pc \in {"evaluate", "hydrate", "init", "admitting"} => e.now > 0
       /\ \A r \in Rules : Legal(r, e.read[r])
       /\ e.pc \in {"admitting", "admitted", "settling"} =>
             \A r \in Rules \cap PeriodicRules : e.rules[r].rev > 0 => e.ticket[r].gen > 0
<1>0. /\ req[q] \in Request /\ req \in [Requests -> Request]
      /\ redis \in [Rules -> State] /\ db \in [Rules -> State]
      /\ \A r \in Rules : req[q].rules[r] \in Definition /\ req[q].read[r] \in State
      /\ \A r \in Rules : redis[r] \in State
      /\ req[q].now \in Nat
  BY DEF LegalityInv, TypeOK, Request
<1>1. \A p \in Requests : ReqLegal(req[p])
  BY Zenon DEF LegalityInv, RulesOf
<1>l. ReqLegal(req[q])
  BY <1>1, Zenon
<1>2. \A p \in Requests : p # q => req'[p] = req[p]
  BY <1>0, Zenon DEF RequestStep, Begin, EvaluateFails, EvaluateNeedsInit, EvaluateRefusesOrChecks,
     EvaluateAdmits, HydrateReads, HydrateFails, InitScript, Complete, CallFails, ReplyArrives,
     ReplyLost, Resend
<1>3. UNCHANGED <<clock, db, worker>>
  BY Zenon DEF RequestStep, Begin, EvaluateFails, EvaluateNeedsInit, EvaluateRefusesOrChecks,
     EvaluateAdmits, HydrateReads, HydrateFails, InitScript, Complete, CallFails, ReplyArrives,
     ReplyLost, Resend, env
<1>4. ASSUME \A r \in Rules : Legal(r, redis'[r]), ReqLegal(req'[q])
      PROVE  LegalityInv'
  <2>1. \A p \in Requests : ReqLegal(req'[p])
    <3> HIDE DEF ReqLegal
    <3> QED
      BY <1>1, <1>2, <1>4, Zenon
  <2> QED
    BY <1>3, <1>4, <2>1, Zenon DEF LegalityInv, RulesOf
<1>5. \A r \in Rules : Legal(r, redis[r]) /\ Legal(r, db[r]) /\ Legal(r, Absent)
  BY Zenon DEF LegalityInv, Legal, Absent
<1>6. ASSUME NEW e, NEW pc \in {"done", "failed"}, req'[q] = Ended(e, pc) PROVE ReqLegal(req'[q])
  BY <1>5, <1>6, EndedIsLegal
<1>7. ASSUME NEW mode \in Modes, Begin(q, mode) PROVE LegalityInv'
  <2>1. clock + Skew[req[q].inst] > 0
    BY ClockAssumption DEF LegalityInv, TypeOK, Request, ClockAssumption
  <2>2. CASE req'[q] = Ended(req[q], "done")
    BY <1>4, <1>5, <1>6, <1>7, <2>2, Zenon DEF Begin
  <2>3. CASE req'[q] # Ended(req[q], "done")
    <3>1. /\ req'[q].pc = "evaluate" /\ req'[q].now = clock + Skew[req[q].inst]
          /\ req'[q].read = req[q].read
      BY <1>0, <1>7, <2>3, Zenon DEF Begin, Request
    <3> QED
      BY <1>l, <1>4, <1>5, <1>7, <2>1, <3>1, Zenon DEF Begin
  <2> QED
    BY <2>2, <2>3, Zenon
<1>8. CASE EvaluateFails(q)
  BY <1>0, <1>4, <1>5, <1>6, <1>8, Zenon DEF EvaluateFails
<1>9. CASE EvaluateNeedsInit(q)
  <2>1. req'[q].pc = "hydrate" /\ req'[q].now = req[q].now /\ req'[q].read = req[q].read
    BY <1>0, <1>9, Zenon DEF EvaluateNeedsInit, Request
  <2> QED
    BY <1>l, <1>4, <1>5, <1>9, <2>1, Zenon DEF EvaluateNeedsInit
<1>10. CASE EvaluateRefusesOrChecks(q)
  BY <1>0, <1>4, <1>5, <1>6, <1>10, Zenon DEF EvaluateRefusesOrChecks
<1>11. CASE EvaluateAdmits(q)
  <2>1. /\ req'[q].pc \in {"admitted", "admitting"} /\ req'[q].read = req[q].read
        /\ req'[q].rules = req[q].rules
        /\ req'[q].pc = "admitting" => req'[q].now = req[q].now
        /\ \A r \in RulesOf(q) : req'[q].ticket[r].gen = redis'[r].gen
    BY <1>0, <1>11, Zenon DEF EvaluateAdmits, Request, RulesOf
  <2>2. ASSUME NEW r \in RulesOf(q) PROVE Restorable(r, redis[r])
    <3>1. r \in Rules /\ req[q].rules[r].rev > 0
      BY Zenon DEF RulesOf
    <3>2. ~(redis[r].rev < req[q].rules[r].rev)
      BY <1>11, Zenon DEF EvaluateAdmits, Missing
    <3>3. redis[r].rev # 0
      BY <1>0, <3>1, <3>2, Zenon DEF State, Definition
    <3> QED
      BY <1>5, <3>1, <3>3, Zenon DEF Legal
  <2>3. ASSUME NEW r \in Opened(q)
        PROVE  Restorable(r, redis'[r]) /\ redis'[r].gen > 0
    <3>1. redis'[r] = Open(redis[r], req[q].now) /\ r \in Rules /\ r \in RulesOf(q) /\ r \in PeriodicRules
      BY <1>11, Zenon DEF EvaluateAdmits, Opened, RulesOf, Inactive
    <3>2. req[q].now > 0
      BY <1>l, <1>11, Zenon DEF EvaluateAdmits
    <3>3. redis'[r].gen = redis[r].gen + 1
      BY <1>0, <3>1, Zenon DEF Open, State
    <3> QED
      BY <1>0, <2>2, <3>1, <3>2, <3>3, LegalStates DEF State
  <2>4. ASSUME NEW r \in Rules, r \notin Opened(q) PROVE redis'[r] = redis[r]
    BY <1>11, <2>4, Zenon DEF EvaluateAdmits
  <2>5. \A r \in Rules : Legal(r, redis'[r])
    BY <1>5, <2>3, <2>4, Zenon DEF Legal
  <2>6. ASSUME NEW r \in Rules \cap PeriodicRules, req[q].rules[r].rev > 0
        PROVE  req'[q].ticket[r].gen > 0
    <3>1. r \in RulesOf(q)
      BY <2>6, Zenon DEF RulesOf
    <3>2. CASE r \in Opened(q)
      BY <2>1, <2>3, <3>1, <3>2, Zenon
    <3>3. CASE r \notin Opened(q)
      <4>1. redis[r].ws # 0
        BY <3>1, <3>3, Zenon DEF Opened, Inactive
      <4>2. redis[r].gen > 0
        BY <2>2, <3>1, <4>1, Zenon DEF Restorable
      <4> QED
        BY <2>1, <2>4, <3>1, <3>3, <4>2, Zenon
    <3> QED
      BY <3>2, <3>3, Zenon
  <2>7. req[q].now > 0
    BY <1>l, <1>11, Zenon DEF EvaluateAdmits
  <2> QED
    BY <1>l, <1>4, <2>1, <2>5, <2>6, <2>7, Zenon
<1>12. CASE HydrateReads(q)
  <2>1. req'[q].pc = "init" /\ req'[q].now = req[q].now /\ req'[q].read = db
    BY <1>0, <1>12, Zenon DEF HydrateReads, Request
  <2> QED
    BY <1>l, <1>4, <1>5, <1>12, <2>1, Zenon DEF HydrateReads
<1>13. CASE HydrateFails(q)
  BY <1>0, <1>4, <1>5, <1>6, <1>13, Zenon DEF HydrateFails
<1>14. CASE InitScript(q)
  <2>1. /\ req'[q].pc = "evaluate" /\ req'[q].now = req[q].now
        /\ req'[q].read = [r \in Rules |-> Absent]
    BY <1>0, <1>14, Zenon DEF InitScript, Request
  <2>2. \A r \in Rules : redis'[r] \in {redis[r], req[q].read[r]}
    BY <1>14, Zenon DEF InitScript, Hydrated
  <2>3. req[q].pc = "init"
    BY <1>14, Zenon DEF InitScript
  <2>4. \A r \in Rules : Legal(r, redis'[r])
    BY <1>l, <1>5, <2>2, Zenon
  <2>5. ReqLegal(req'[q])
    BY <1>l, <1>5, <2>1, <2>3, Zenon
  <2> HIDE DEF ReqLegal
  <2> QED
    BY <1>4, <2>4, <2>5, Zenon
<1>15. ASSUME NEW cost \in Costs, Complete(q, cost) PROVE LegalityInv'
  <2>1. ASSUME NEW r \in Rules PROVE Legal(r, redis'[r])
    <3>1. CASE redis'[r] = redis[r]
      BY <1>5, <3>1, Zenon
    <3>2. CASE redis'[r] # redis[r]
      <4>1. r \in Matched(q) /\ redis'[r] = Settled(redis[r], cost) /\ cost \in Int
        BY <1>15, <3>2, AmountsAssumption, Zenon DEF Complete, AmountsAssumption
      <4>2. r \in PeriodicRules => redis[r].gen > 0
        BY <1>l, <1>15, <4>1, Zenon DEF Complete, Matched, RulesOf
      <4>3. CASE redis[r].rev = 0
        <5>1. redis'[r].rev = redis[r].rev
          BY <1>0, <4>1, Zenon DEF Settled, State
        <5> QED
          BY <4>3, <5>1, Zenon DEF Legal
      <4>4. CASE redis[r].rev # 0
        BY <1>0, <1>5, <4>1, <4>2, <4>4, LegalStates, Zenon DEF Legal
      <4> QED
        BY <4>3, <4>4, Zenon
    <3> QED
      BY <3>1, <3>2, Zenon
  <2> DEFINE e == Completed(req[q], cost)
  <2>2. \/ req'[q] = Ended(e, "done")
        \/ /\ req'[q].pc = "settling" /\ req'[q].read = req[q].read
           /\ req'[q].rules = req[q].rules /\ req'[q].ticket = req[q].ticket
    <3>1. /\ e.read = req[q].read /\ e.rules = req[q].rules /\ e.ticket = req[q].ticket
          /\ DOMAIN e = DOMAIN req[q]
      BY <1>0, Zenon DEF Completed, Request
    <3> HIDE DEF e
    <3> DEFINE marks == [s \in Rules |-> IF s \in Changed(q, cost) THEN MarkOf(redis'[s])
                                         ELSE Clean]
    <3>2. req'[q] = IF cost = 0 \/ Changed(q, cost) = {} THEN Ended(e, "done")
                    ELSE [e EXCEPT !.pc = "settling", !.marks = marks]
      BY <1>0, <1>15, Zenon DEF Complete, e
    <3> HIDE DEF marks
    <3> QED
      BY <1>0, <3>1, <3>2, Zenon DEF Request
  <2> HIDE DEF e
  <2>3. CASE req'[q] = Ended(e, "done")
    BY <1>4, <1>6, <2>1, <2>3, Zenon
  <2>4. CASE req'[q] # Ended(e, "done")
    BY <1>l, <1>4, <1>15, <2>1, <2>2, <2>4, Zenon DEF Complete
  <2> QED
    BY <2>3, <2>4, Zenon
<1>16. CASE CallFails(q)
  BY <1>0, <1>4, <1>5, <1>6, <1>16, Zenon DEF CallFails
<1>17. CASE ReplyArrives(q)
  <2>1. \/ req'[q] = Ended(req[q], "done")
        \/ /\ req[q].pc = "admitting" /\ req'[q].pc = "admitted" /\ req'[q].read = req[q].read
           /\ req'[q].rules = req[q].rules /\ req'[q].ticket = req[q].ticket
    BY <1>0, <1>17, Zenon DEF ReplyArrives, Request
  <2>2. redis' = redis
    BY <1>17, Zenon DEF ReplyArrives
  <2>3. CASE req'[q] = Ended(req[q], "done")
    BY <1>4, <1>5, <1>6, <2>2, <2>3, Zenon
  <2>4. CASE req'[q] # Ended(req[q], "done")
    BY <1>l, <1>4, <1>5, <2>1, <2>2, <2>4, Zenon
  <2> QED
    BY <2>3, <2>4, Zenon
<1>18. CASE ReplyLost(q)
  BY <1>0, <1>4, <1>5, <1>6, <1>18, Zenon DEF ReplyLost
<1>19. CASE Resend(q)
  <2>1. /\ req'[q].read = req[q].read /\ redis' = redis
        /\ \/ /\ req[q].pc = "settling" /\ req'[q].pc = "admitted"
              /\ req'[q].rules = req[q].rules /\ req'[q].ticket = req[q].ticket
           \/ req[q].pc = "admitting" /\ req'[q].pc = "evaluate" /\ req'[q].now = req[q].now
    BY <1>0, <1>19, Zenon DEF Resend, Request
  <2>2. ReqLegal(req'[q])
    BY <1>l, <2>1, Zenon
  <2> HIDE DEF ReqLegal
  <2> QED
    BY <1>4, <1>5, <2>1, <2>2, Zenon
<1> QED
  BY <1>7, <1>8, <1>9, <1>10, <1>11, <1>12, <1>13, <1>14, <1>15, <1>16, <1>17, <1>18, <1>19, Zenon
     DEF RequestStep

\* The other steps keep the states legal.
LEMMA OtherStepLegal ==
    ASSUME LegalityInv, TypeOK',
           \/ \E i \in Instances : WorkerStep(i) \/ Reload(i) \/ Crash(i)
           \/ \E r \in Rules : OperatorStep(r) \/ LoseKey(r) \/ ExpireKey(r)
           \/ Tick
    PROVE  LegalityInv'
<1>0. /\ redis \in [Rules -> State] /\ db \in [Rules -> State] /\ worker \in [Instances -> Pass]
      /\ \A r \in Rules : Legal(r, redis[r]) /\ Legal(r, db[r]) /\ Legal(r, Absent)
      /\ \A i \in Instances, r \in Rules : Legal(r, worker[i].snap[r])
      /\ \A r \in Rules : Legal(r, IdlePass.snap[r])
      /\ clock \in Nat
  BY Zenon DEF LegalityInv, TypeOK, Legal, Absent, IdlePass
<1>1. ASSUME UNCHANGED <<clock, req>>,
             \A r \in Rules : Legal(r, redis'[r]) /\ Legal(r, db'[r]),
             \A i \in Instances, r \in Rules : Legal(r, worker'[i].snap[r])
      PROVE  LegalityInv'
  BY <1>1, Zenon DEF LegalityInv, RulesOf
<1>2. ASSUME NEW i \in Instances, WorkerStep(i) PROVE LegalityInv'
  <2>0. UNCHANGED <<clock, req, redis>> /\ \A j \in Instances : j # i => worker'[j] = worker[j]
    BY <1>0, <1>2, Zenon DEF WorkerStep, StartPass, ReadDirty, FilterDirty, WriteSnapshots,
       AckSnapshots, PassFails, env
  <2>1. ASSUME \A r \in Rules : Legal(r, db'[r]) /\ Legal(r, worker'[i].snap[r])
        PROVE  LegalityInv'
    BY <1>0, <1>1, <2>0, <2>1, Zenon
  <2>2. ASSUME NEW woken \in BOOLEAN, StartPass(i, woken) PROVE LegalityInv'
    <3>1. db' = db /\ worker'[i].snap = worker[i].snap
      BY <1>0, <2>2, Zenon DEF StartPass, Pass
    <3> QED
      BY <1>0, <2>1, <3>1, Zenon
  <2>3. CASE ReadDirty(i)
    <3>1. db' = db /\ \A r \in Rules : worker'[i].snap[r] \in {redis[r], Absent}
      BY <1>0, <2>3, Zenon DEF ReadDirty, Pass
    <3> QED
      BY <1>0, <2>1, <3>1, Zenon
  <2>4. CASE FilterDirty(i)
    <3>1. db' = db /\ \A r \in Rules : worker'[i].snap[r] \in {worker[i].snap[r], Absent}
      BY <1>0, <2>4, Zenon DEF FilterDirty, IdlePass
    <3> QED
      BY <1>0, <2>1, <3>1, Zenon
  <2>5. CASE WriteSnapshots(i)
    <3>1. /\ worker'[i].snap = worker[i].snap
          /\ \A r \in Rules : db'[r] \in {db[r], worker[i].snap[r]}
      BY <1>0, <2>5, Zenon DEF WriteSnapshots, Persisted, Pass
    <3> QED
      BY <1>0, <2>1, <3>1, Zenon
  <2>6. CASE AckSnapshots(i)
    BY <1>0, <2>1, <2>6, Zenon DEF AckSnapshots
  <2>7. CASE PassFails(i)
    BY <1>0, <2>1, <2>7, Zenon DEF PassFails
  <2> QED
    BY <1>2, <2>2, <2>3, <2>4, <2>5, <2>6, <2>7, Zenon DEF WorkerStep
<1>3. ASSUME NEW r \in Rules, NEW limit \in Limits, ReviseRule(r, limit) PROVE LegalityInv'
  <2>1. Restorable(r, FreshState(rule[r].rev + 1))
    BY DEF Restorable, FreshState, Absent, LegalityInv, TypeOK, Definition
  <2>2. \A s \in Rules : db'[s] \in {db[s], FreshState(rule[r].rev + 1)} /\ (s # r => db'[s] = db[s])
    BY <1>0, <1>3, Zenon DEF ReviseRule
  <2> QED
    BY <1>0, <1>1, <1>3, <2>1, <2>2, Zenon DEF ReviseRule, Legal
<1>4. ASSUME NEW r \in Rules, NEW limit \in Limits, EditLimit(r, limit) PROVE LegalityInv'
  BY <1>0, <1>1, <1>4, Zenon DEF EditLimit
<1>5. ASSUME NEW r \in Rules, DeleteRule(r) PROVE LegalityInv'
  BY <1>0, <1>1, <1>5, Zenon DEF DeleteRule
<1>6. ASSUME NEW r \in Rules, LoseKey(r) PROVE LegalityInv'
  BY <1>0, <1>1, <1>6, Zenon DEF LoseKey, env
<1>7. ASSUME NEW r \in Rules, ExpireKey(r) PROVE LegalityInv'
  BY <1>0, <1>1, <1>7, Zenon DEF ExpireKey, env
<1>8. ASSUME NEW i \in Instances, Reload(i) PROVE LegalityInv'
  BY <1>0, <1>1, <1>8, Zenon DEF Reload
<1>9. ASSUME NEW i \in Instances, Crash(i) PROVE LegalityInv'
  <2>1. /\ UNCHANGED <<clock, redis, db>>
        /\ \A j \in Instances : worker'[j] \in {worker[j], IdlePass}
        /\ \A q \in Requests : req'[q] = req[q] \/ req'[q] = Ended(req[q], "failed")
    BY <1>0, <1>9, Zenon DEF Crash
  <2>2. \A q \in Requests :
           \/ req'[q] = req[q]
           \/ req'[q].pc = "failed" /\ req'[q].read = [r \in Rules |-> Absent]
    <3>1. \A e : /\ Ended(e, "failed").pc = "failed"
                 /\ Ended(e, "failed").read = [r \in Rules |-> Absent]
      BY EndedIsLegal, Zenon
    <3> QED
      BY <2>1, <3>1, Zenon
  <2>3. \A r \in Rules : Legal(r, redis'[r]) /\ Legal(r, db'[r])
    BY <1>0, <2>1, Zenon
  <2>4. \A j \in Instances, r \in Rules : Legal(r, worker'[j].snap[r])
    BY <1>0, <2>1, Zenon
  <2>5. \A q \in Requests : /\ req'[q].pc \in {"evaluate", "hydrate", "init", "admitting"}
                                  => req'[q].now > 0
                            /\ \A r \in Rules : Legal(r, req'[q].read[r])
                            /\ req'[q].pc \in {"admitting", "admitted", "settling"} => req'[q] = req[q]
    <3> SUFFICES ASSUME NEW q \in Requests
                 PROVE  /\ req'[q].pc \in {"evaluate", "hydrate", "init", "admitting"}
                              => req'[q].now > 0
                        /\ \A r \in Rules : Legal(r, req'[q].read[r])
                        /\ req'[q].pc \in {"admitting", "admitted", "settling"} => req'[q] = req[q]
      OBVIOUS
    <3>1. CASE req'[q] = req[q]
      BY <3>1, Zenon DEF LegalityInv
    <3>2. CASE req'[q].pc = "failed" /\ req'[q].read = [r \in Rules |-> Absent]
      BY <1>0, <3>2, Zenon
    <3> QED
      BY <2>2, <3>1, <3>2, Zenon
  <2>6. ASSUME NEW q \in Requests, req'[q].pc \in {"admitting", "admitted", "settling"},
               NEW r \in Rules \cap PeriodicRules, req'[q].rules[r].rev > 0
        PROVE  req'[q].ticket[r].gen > 0
    BY <2>5, <2>6, Zenon DEF LegalityInv, RulesOf
  <2>7. clock' > 0
    BY <2>1, Zenon DEF LegalityInv
  <2> QED
    BY <2>3, <2>4, <2>5, <2>6, <2>7, Zenon DEF LegalityInv, RulesOf
<1>10. CASE Tick
  <2>1. clock' > 0 /\ UNCHANGED <<req, redis, db, worker>>
    BY <1>0, <1>10 DEF Tick
  <2> QED
    BY <2>1, Zenon DEF LegalityInv, RulesOf
<1> QED
  BY <1>2, <1>3, <1>4, <1>5, <1>6, <1>7, <1>8, <1>9, <1>10, Zenon DEF OperatorStep

\* The legality invariant is inductive.
THEOREM LegalityInvariant == Spec => []LegalityInv
<1>1. Init => LegalityInv
  <2> SUFFICES ASSUME Init PROVE LegalityInv
    OBVIOUS
  <2>1. \A r \in Rules : Restorable(r, FreshState(1)) /\ Legal(r, Absent)
    BY DEF Restorable, FreshState, Absent, Legal
  <2>2. \A q \in Requests : req[q].pc = "new" /\ req[q].read = [r \in Rules |-> Absent]
    BY DEF Init, NewRequest
  <2>3. /\ clock > 0 /\ \A r \in Rules : redis[r] = Absent /\ db[r] = FreshState(1)
        /\ \A i \in Instances, r \in Rules : worker[i].snap[r] = Absent
    BY DEF Init, IdlePass
  <2> QED
    BY <2>1, <2>2, <2>3, InitType, Zenon DEF LegalityInv, Legal
<1>2. LegalityInv /\ [Next]_vars => LegalityInv'
  <2> SUFFICES ASSUME LegalityInv, [Next]_vars PROVE LegalityInv'
    OBVIOUS
  <2>1. TypeOK'
    BY StepType, Zenon DEF LegalityInv
  <2>2. CASE Next
    BY <2>1, <2>2, RequestStepLegal, OtherStepLegal, Zenon DEF Next
  <2>3. CASE UNCHANGED vars
    BY <2>1, <2>3, Zenon DEF vars, LegalityInv, RulesOf
  <2> QED
    BY <2>2, <2>3
<1> QED
  BY <1>1, <1>2, PTL DEF Spec

\* Every checkpoint passes the validation a hydration applies to it.
THEOREM RestorableCorrect == Spec => []CheckpointsAreRestorable
<1>1. LegalityInv => CheckpointsAreRestorable
  BY DEF LegalityInv, Legal, CheckpointsAreRestorable
<1> QED
  BY <1>1, LegalityInvariant, PTL

\* The windows of a rule follow each other without overlap.
THEOREM WindowsCorrect == Spec => WindowsDoNotOverlap
<1>1. LegalityInv /\ [Next]_vars => [\A r \in Rules : ToNextWindow(r)]_vars
  <2> SUFFICES ASSUME LegalityInv, Next, NEW r \in Rules,
                      redis[r].rev > 0, redis'[r].rev = redis[r].rev, redis'[r].gen # redis[r].gen
               PROVE  redis'[r].gen = redis[r].gen + 1 /\ redis'[r].ws >= redis[r].we
    BY Zenon DEF ToNextWindow
  <2>0. /\ redis \in [Rules -> State] /\ redis[r] \in State /\ Restorable(r, redis[r])
        /\ \A q \in Requests : req[q].read \in [Rules -> State]
    BY DEF LegalityInv, TypeOK, Legal, Request
  <2>1. ASSUME NEW q \in Requests, RequestStep(q), redis' # redis
        PROVE  redis'[r].gen = redis[r].gen + 1 /\ redis'[r].ws >= redis[r].we
    <3>1. CASE EvaluateAdmits(q)
      <4>1. r \in Opened(q) /\ redis'[r] = Open(redis[r], req[q].now)
        BY <3>1, Zenon DEF EvaluateAdmits
      <4>2. redis'[r].gen = redis[r].gen + 1 /\ redis'[r].ws = req[q].now
        BY <2>0, <4>1, Zenon DEF Open, State
      <4>3. req[q].now \in Nat
        BY Zenon DEF LegalityInv, TypeOK, Request
      <4>4. req[q].now >= redis[r].we
        BY <2>0, <4>1, <4>3 DEF Opened, Inactive, Restorable
      <4> QED
        BY <4>2, <4>4, Zenon
    <3>2. CASE InitScript(q)
      <4>1. redis'[r] = redis[r] \/ redis[r].rev < redis'[r].rev
        BY <3>2, Zenon DEF InitScript, Hydrated
      <4> QED
        BY <2>0, <4>1 DEF State
    <3>3. ASSUME NEW cost \in Costs, Complete(q, cost) PROVE FALSE
      <4>1. redis'[r] \in {redis[r], Settled(redis[r], cost)}
        BY <3>3, Zenon DEF Complete
      <4>2. Settled(redis[r], cost).gen = redis[r].gen
        BY <2>0, Zenon DEF Settled, State
      <4> QED
        BY <4>1, <4>2, Zenon
    <3> QED
      BY <2>1, <3>1, <3>2, <3>3, Zenon DEF RequestStep, Begin, EvaluateFails, EvaluateNeedsInit,
         EvaluateRefusesOrChecks, HydrateReads, HydrateFails, CallFails, ReplyArrives, ReplyLost,
         Resend
  <2>2. ASSUME NEW i \in Instances, WorkerStep(i) \/ Reload(i) \/ Crash(i) PROVE redis' = redis
    BY <2>2, Zenon DEF WorkerStep, StartPass, ReadDirty, FilterDirty, WriteSnapshots, AckSnapshots,
       PassFails, Reload, Crash
  <2>3. ASSUME NEW s \in Rules, OperatorStep(s) PROVE redis' = redis
    BY <2>3, Zenon DEF OperatorStep, ReviseRule, EditLimit, DeleteRule
  <2>4. ASSUME NEW s \in Rules, LoseKey(s) \/ ExpireKey(s) PROVE FALSE
    <3>1. redis'[r] \in {redis[r], Absent}
      BY <2>0, <2>4, Zenon DEF LoseKey, ExpireKey
    <3> QED
      BY <3>1 DEF Absent
  <2>5. CASE Tick
    BY <2>5, Zenon DEF Tick
  <2> QED
    BY <2>1, <2>2, <2>3, <2>4, <2>5, Zenon DEF Next
<1> QED
  BY <1>1, LegalityInvariant, PTL DEF Spec, WindowsDoNotOverlap

-----------------------------------------------------------------------------
(* The steps of a request. *)

\* A finished request has no marks, no missing rules and no rules.
LEMMA EndedFields ==
    ASSUME NEW e, NEW pc
    PROVE  /\ Ended(e, pc).pc = pc /\ Ended(e, pc).missing = {}
           /\ Ended(e, pc).marks = [r \in Rules |-> Clean]
           /\ Ended(e, pc).rules = [r \in Rules |-> NoRule]
BY Zenon DEF Ended, NewRequest

\* What was read for a hydration stays current while the row and the revision
\* of the hash do.
LEMMA HydrationsKept ==
    ASSUME NEW r \in Rules, HydrationsAreCurrent(r), db'[r] = db[r], redis'[r].rev = redis[r].rev,
           \A q \in Requests : \/ req'[q] = req[q]
                               \/ req'[q].pc # "init" \/ r \notin req'[q].missing
                               \/ req'[q].read[r] = db[r]
    PROVE  HydrationsAreCurrent(r)'
BY Zenon DEF HydrationsAreCurrent

\* A step of request q that leaves the rule as it is, and makes no mark for it.
LEMMA RequestOnly ==
    ASSUME TrackingInv, TypeOK', NEW q \in Requests, NEW r \in Rules,
           UNCHANGED <<db, rule, dirty, worker, forked, redis[r], orphan[r]>>,
           \A p \in Requests : p # q => req'[p] = req[p],
           req[q].marks[r] = Clean, req'[q].marks[r] = Clean,
           r \in req'[q].missing =>
               req'[q].pc \in {"hydrate", "init"} /\ req'[q].rules[r].rev > 0,
           req'[q].pc = "init" /\ r \in req'[q].missing => req'[q].read[r] = db[r]
    PROVE  RuleInv(r)'
<1>0. RuleInv(r) /\ redis[r] \in State /\ db[r] \in State
  BY Zenon DEF TrackingInv, TypeOK
<1>1. Bookkeeping(r)'
  BY <1>0, Zenon DEF RuleInv, Bookkeeping, RulesOf
<1>2. Tracked(r)'
  BY <1>0, Zenon DEF RuleInv, Tracked, Behind, Latest
<1>3. IsSnapshot(r)'
  BY <1>0, Zenon DEF RuleInv, IsSnapshot
<1>4. ASSUME ~forked'[r] PROVE MarksAreOld(r)'
  BY <1>0, <1>4 DEF RuleInv, MarksAreOld
<1>5. ASSUME ~forked'[r] PROVE SnapshotsAreSound(r)'
  BY <1>0, <1>5, Zenon DEF RuleInv, SnapshotsAreSound
<1>6. ASSUME ~forked'[r] PROVE HydrationsAreCurrent(r)'
  <2>1. HydrationsAreCurrent(r)
    BY <1>0, <1>6, Zenon DEF RuleInv
  <2> QED
    BY <2>1, HydrationsKept, Zenon
<1> QED
  BY <1>1, <1>2, <1>3, <1>4, <1>5, <1>6, Zenon DEF RuleInv

\* A step of request q that changes the hash of the rule and has the mark for
\* it in its reply.
LEMMA HashChanges ==
    ASSUME TrackingInv, TypeOK', NEW q \in Requests, NEW r \in Rules,
           UNCHANGED <<db, rule, dirty, worker, forked>>,
           \A p \in Requests : p # q => req'[p] = req[p],
           r \notin req'[q].missing,
           redis'[r].rev = redis[r].rev, redis'[r].ver = redis[r].ver + 1,
           req'[q].pc \in {"admitting", "settling"}, req'[q].rules[r].rev > 0,
           req'[q].marks[r] = MarkOf(redis'[r])
    PROVE  RuleInv(r)'
<1>0. /\ RuleInv(r) /\ redis[r] \in State /\ db[r] \in State /\ redis'[r] \in State
  BY Zenon DEF TrackingInv, TypeOK
<1>1. req'[q].marks[r].ver > 0 /\ req'[q].marks[r] # Clean
  BY <1>0 DEF State, MarkOf, Clean
<1>2. Bookkeeping(r)'
  BY <1>0, <1>1, Zenon DEF RuleInv, Bookkeeping, RulesOf
<1>3. Tracked(r)'
  BY <1>1, Zenon DEF Tracked, Latest
<1>4. IsSnapshot(r)'
  <2>1. redis[r].rev > 0 /\ db[r].rev > 0 /\ ~forked[r] => MarkOf(redis'[r]) # MarkOf(db[r])
    BY <1>0 DEF RuleInv, IsSnapshot, MarkOf, State
  <2> QED
    BY <1>0, <2>1 DEF RuleInv, IsSnapshot, State
<1>5. ASSUME ~forked'[r] PROVE MarksAreOld(r)'
  <2>1. MarksAreOld(r)
    BY <1>0, <1>5, Zenon DEF RuleInv
  <2>2. \A m : CoveredBy(m, redis[r]) /\ m.rev \in Nat /\ m.ver \in Nat => CoveredBy(m, redis'[r])
    BY <1>0 DEF CoveredBy, State
  <2>3. \A i \in Instances : /\ dirty[i][r] \in Mark
                             /\ worker[i].cand[r] \in Mark /\ worker[i].snap[r] \in State
    BY DEF TypeOK, Pass
  <2>4. \A p \in Requests : req[p].marks[r] \in Mark
    BY DEF TrackingInv, TypeOK, Request
  <2>5. CoveredBy(req'[q].marks[r], redis'[r])
    BY <1>0 DEF CoveredBy, MarkOf, State
  <2> QED
    BY <2>1, <2>2, <2>3, <2>4, <2>5, Zenon DEF MarksAreOld, Mark, State
<1>6. ASSUME ~forked'[r] PROVE SnapshotsAreSound(r)'
  <2>1. MarksAreOld(r) /\ SnapshotsAreSound(r)
    BY <1>0, <1>6, Zenon DEF RuleInv
  <2>2. ASSUME NEW i \in Instances PROVE MarkOf(worker[i].snap[r]) # MarkOf(redis'[r])
    <3>1. worker[i].snap[r] \in State
      BY DEF TypeOK, Pass
    <3>2. CoveredBy(worker[i].snap[r], redis[r])
      BY <2>1, Zenon DEF MarksAreOld
    <3>3. /\ worker[i].snap[r].rev \in Nat /\ worker[i].snap[r].ver \in Nat
          /\ redis[r].rev \in Nat /\ redis[r].ver \in Nat
      BY <1>0, <3>1, Zenon DEF State
    <3> QED
      BY <3>2, <3>3 DEF CoveredBy, MarkOf
  <2> QED
    BY <2>1, <2>2, Zenon DEF SnapshotsAreSound
<1>7. ASSUME ~forked'[r] PROVE HydrationsAreCurrent(r)'
  <2>1. HydrationsAreCurrent(r)
    BY <1>0, <1>7, Zenon DEF RuleInv
  <2> QED
    BY <2>1, HydrationsKept, Zenon
<1> QED
  BY <1>2, <1>3, <1>4, <1>5, <1>6, <1>7, Zenon DEF RuleInv

\* initScript rebuilds the hash from what the request read, for a rule without
\* a hash or with one of an older revision.
LEMMA HashRebuilt ==
    ASSUME TrackingInv, TypeOK', NEW q \in Requests, NEW r \in Rules,
           UNCHANGED <<db, rule, dirty, worker, forked>>,
           \A p \in Requests : p # q => req'[p] = req[p],
           req[q].pc = "init", r \in req[q].missing, r \notin req'[q].missing,
           req'[q].marks[r] = Clean,
           redis[r].rev < req[q].read[r].rev, redis'[r] = req[q].read[r]
    PROVE  RuleInv(r)'
<1>0. /\ RuleInv(r) /\ redis[r] \in State /\ db[r] \in State /\ redis'[r] \in State
  BY Zenon DEF TrackingInv, TypeOK
<1>1. ~forked[r] => \/ db[r].rev = 0 \/ redis'[r].rev < db[r].rev
                    \/ redis'[r] = db[r]
  <2> SUFFICES ASSUME ~forked[r]
               PROVE  db[r].rev = 0 \/ redis'[r].rev < db[r].rev \/ redis'[r] = db[r]
    OBVIOUS
  <2>1. HydrationsAreCurrent(r)
    BY <1>0, Zenon DEF RuleInv
  <2>2. redis[r].rev # req[q].read[r].rev
    BY <1>0 DEF State
  <2> QED
    BY <2>1, <2>2, Zenon DEF HydrationsAreCurrent
<1>2. Bookkeeping(r)'
  BY <1>0, Zenon DEF RuleInv, Bookkeeping, RulesOf
<1>n. /\ redis'[r].rev \in Nat /\ redis'[r].ver \in Nat /\ redis'[r].rev > 0
      /\ db[r].rev \in Nat /\ db[r].ver \in Nat
  BY <1>0 DEF State
<1>3. Tracked(r)'
  <2>1. ~forked[r] => ~Behind(r)'
    BY <1>1, <1>n DEF Behind
  <2> QED
    BY <2>1, Zenon DEF Tracked
<1>4. IsSnapshot(r)'
  <2>1. ~forked[r] /\ db[r].rev > 0 => redis'[r].rev < db[r].rev \/ redis'[r] = db[r]
    BY <1>1, <1>n
  <2>2. redis'[r].rev < db[r].rev => MarkOf(redis'[r]) # MarkOf(db[r])
    BY <1>n DEF MarkOf
  <2> QED
    BY <1>n, <2>1, <2>2 DEF IsSnapshot
<1>5. ASSUME ~forked'[r] PROVE MarksAreOld(r)'
  <2>1. MarksAreOld(r)
    BY <1>0, <1>5, Zenon DEF RuleInv
  <2>2. \A m : CoveredBy(m, redis[r]) /\ m.rev \in Nat /\ m.ver \in Nat => CoveredBy(m, redis'[r])
    BY <1>0 DEF CoveredBy, State
  <2>3. \A i \in Instances : /\ dirty[i][r] \in Mark
                             /\ worker[i].cand[r] \in Mark /\ worker[i].snap[r] \in State
    BY DEF TypeOK, Pass
  <2>4. \A p \in Requests : req[p].marks[r] \in Mark
    BY DEF TrackingInv, TypeOK, Request
  <2>5. CoveredBy(req'[q].marks[r], redis'[r])
    BY <1>n DEF CoveredBy, Clean
  <2> QED
    BY <2>1, <2>2, <2>3, <2>4, <2>5, Zenon DEF MarksAreOld, Mark, State
<1>6. ASSUME ~forked'[r] PROVE SnapshotsAreSound(r)'
  <2>1. MarksAreOld(r) /\ SnapshotsAreSound(r)
    BY <1>0, <1>6, Zenon DEF RuleInv
  <2>2. ASSUME NEW i \in Instances PROVE MarkOf(worker[i].snap[r]) # MarkOf(redis'[r])
    <3>1. worker[i].snap[r] \in State
      BY DEF TypeOK, Pass
    <3>2. CoveredBy(worker[i].snap[r], redis[r])
      BY <2>1, Zenon DEF MarksAreOld
    <3>3. /\ worker[i].snap[r].rev \in Nat /\ worker[i].snap[r].ver \in Nat
          /\ redis[r].rev \in Nat /\ redis[r].ver \in Nat
      BY <1>0, <3>1, Zenon DEF State
    <3> QED
      BY <3>2, <3>3 DEF CoveredBy, MarkOf
  <2> QED
    BY <2>1, <2>2, Zenon DEF SnapshotsAreSound
<1>7. ASSUME ~forked'[r] PROVE HydrationsAreCurrent(r)'
  <2>1. HydrationsAreCurrent(r) /\ IsSnapshot(r)
    BY <1>0, <1>7, Zenon DEF RuleInv
  <2> SUFFICES ASSUME NEW p \in Requests, req'[p].pc = "init", r \in req'[p].missing,
                      db[r].rev # 0, ~(req'[p].read[r].rev < db[r].rev)
               PROVE  /\ req'[p].read[r].rev = db[r].rev
                      /\ redis'[r].rev = req'[p].read[r].rev \/ req'[p].read[r] = db[r]
    BY Zenon DEF HydrationsAreCurrent
  <2>2. req'[p] = req[p]
    OBVIOUS
  <2>3. p # q /\ redis[r].rev < redis'[r].rev
    OBVIOUS
  <2>4. /\ req[p].read[r].rev = db[r].rev
        /\ redis[r].rev = req[p].read[r].rev \/ req[p].read[r] = db[r]
    BY <2>1, <2>2, Zenon DEF HydrationsAreCurrent
  <2>5. redis[r].rev = db[r].rev => FALSE
    BY <1>1, <1>7, <1>n, <2>3
  <2> QED
    BY <2>2, <2>4, <2>5
<1> QED
  BY <1>2, <1>3, <1>4, <1>5, <1>6, <1>7, Zenon DEF RuleInv

\* markDirty keeps a mark of the last change.
LEMMA ReplyArrivesTracked ==
    ASSUME TrackingInv, TypeOK', NEW q \in Requests, ReplyArrives(q), NEW r \in Rules
    PROVE  RuleInv(r)'
<1> DEFINE i == req[q].inst
<1>0. /\ RuleInv(r) /\ redis[r] \in State /\ db[r] \in State /\ req[q] \in Request
      /\ i \in Instances /\ req[q].marks[r] \in Mark /\ dirty[i][r] \in Mark
  BY DEF TrackingInv, TypeOK, Request
<1>1. /\ UNCHANGED <<redis, db, rule, worker, forked, orphan>>
      /\ \A p \in Requests : p # q => req'[p] = req[p]
      /\ \A j \in Instances : j # i => dirty'[j] = dirty[j]
      /\ dirty'[i][r] = Marked(dirty[i][r], req[q].marks[r])
  BY DEF ReplyArrives, env, history, TypeOK
<1>2. /\ req'[q].marks[r] = Clean
      /\ req'[q].missing \subseteq req[q].missing
      /\ req'[q].pc \in {"done", "admitted"}
  <2>1. req'[q] = IF req[q].pc = "settling" THEN Ended(req[q], "done")
                  ELSE [req[q] EXCEPT !.pc = "admitted", !.now = 0,
                                      !.marks = [s \in Rules |-> Clean]]
    BY Zenon DEF ReplyArrives, TrackingInv, TypeOK
  <2>2. CASE req[q].pc = "settling"
    BY <2>1, <2>2, EndedFields
  <2>3. CASE req[q].pc # "settling"
    BY <2>1, <2>3
  <2> QED
    BY <2>2, <2>3, Zenon
<1>3. r \notin req[q].missing
  BY <1>0, Zenon DEF ReplyArrives, RuleInv, Bookkeeping
<1> HIDE DEF i
<1>4. Bookkeeping(r)'
  BY <1>0, <1>1, <1>2, <1>3, Zenon DEF RuleInv, Bookkeeping, RulesOf
<1>5. Tracked(r)'
  <2> SUFFICES ASSUME Behind(r), redis[r].rev > 0, ~orphan[r], ~forked[r]
               PROVE  \/ \E j \in Instances : Latest(dirty'[j][r], r)
                      \/ \E p \in Requests : Latest(req'[p].marks[r], r)
    BY <1>1, Zenon DEF Tracked, Behind, Latest
  <2>1. CoveredBy(dirty[i][r], redis[r]) /\ CoveredBy(req[q].marks[r], redis[r])
    BY <1>0, Zenon DEF RuleInv, MarksAreOld
  <2>2. ASSUME Latest(req[q].marks[r], r) PROVE Latest(dirty'[i][r], r)
    <3>1. CASE dirty'[i][r] = req[q].marks[r]
      BY <2>2, <3>1, Zenon
    <3>2. CASE dirty[i][r] # Clean /\ CoveredBy(req[q].marks[r], dirty[i][r]) /\ dirty'[i][r] = dirty[i][r]
      <4>1. dirty[i][r].rev = redis[r].rev /\ dirty[i][r].ver = redis[r].ver
        <5>1. req[q].marks[r].rev = redis[r].rev /\ req[q].marks[r].ver = redis[r].ver
          BY <2>2 DEF Latest, MarkOf
        <5>2. /\ dirty[i][r].rev \in Nat /\ dirty[i][r].ver \in Nat
              /\ redis[r].rev \in Nat /\ redis[r].ver \in Nat
          BY <1>0 DEF Mark, State
        <5> QED
          BY <2>1, <3>2, <5>1, <5>2 DEF CoveredBy
      <4>2. dirty[i][r] = MarkOf(redis[r])
        BY <1>0, <4>1, Zenon DEF MarkOf, Mark
      <4> QED
        BY <3>2, <4>2, Zenon DEF Latest
    <3> QED
      BY <1>1, <2>2, <3>1, <3>2, Zenon DEF Marked, Latest
  <2>3. ASSUME Latest(dirty[i][r], r) PROVE Latest(dirty'[i][r], r)
    <3>1. CoveredBy(req[q].marks[r], dirty[i][r])
      BY <2>1, <2>3 DEF Latest, CoveredBy, MarkOf
    <3> QED
      BY <1>1, <2>3, <3>1, Zenon DEF Marked, Latest
  <2> QED
    BY <1>0, <1>1, <2>2, <2>3, Zenon DEF RuleInv, Tracked
<1>6. IsSnapshot(r)'
  BY <1>0, <1>1, Zenon DEF RuleInv, IsSnapshot
<1>7. ASSUME ~forked'[r] PROVE MarksAreOld(r)'
  <2>1. MarksAreOld(r)
    BY <1>0, <1>1, <1>7, Zenon DEF RuleInv
  <2>2. CoveredBy(dirty'[i][r], redis[r])
    BY <1>0, <1>1, <2>1, Zenon DEF MarksAreOld, Marked
  <2>3. CoveredBy(req'[q].marks[r], redis[r])
    BY <1>0, <1>2 DEF CoveredBy, Clean, State
  <2> QED
    BY <1>1, <2>1, <2>2, <2>3, Zenon DEF MarksAreOld
<1>8. ASSUME ~forked'[r] PROVE SnapshotsAreSound(r)'
  BY <1>0, <1>1, <1>8, Zenon DEF RuleInv, SnapshotsAreSound
<1>9. ASSUME ~forked'[r] PROVE HydrationsAreCurrent(r)'
  <2>1. HydrationsAreCurrent(r)
    BY <1>0, <1>1, <1>9, Zenon DEF RuleInv
  <2> QED
    BY <1>1, <1>2, <2>1, HydrationsKept
<1> QED
  BY <1>4, <1>5, <1>6, <1>7, <1>8, <1>9, Zenon DEF RuleInv

\* A lost reply leaves the last change of a rule without a mark, whether or not
\* the script is sent again.
LEMMA ReplyLostTracked ==
    ASSUME TrackingInv, TypeOK', NEW q \in Requests, ReplyLost(q) \/ Resend(q), NEW r \in Rules
    PROVE  RuleInv(r)'
<1>0. RuleInv(r) /\ redis[r] \in State /\ req[q] \in Request
  BY Zenon DEF TrackingInv, TypeOK
<1>1. /\ UNCHANGED <<redis, db, rule, dirty, worker, forked>>
      /\ \A p \in Requests : p # q => req'[p] = req[p]
  BY Zenon DEF ReplyLost, Resend, env, TrackingInv, TypeOK
<1>2. req'[q].marks[r] = Clean /\ r \notin req'[q].missing
  <2>1. CASE ReplyLost(q)
    <3>1. req'[q] = Ended(req[q], "failed")
      BY <2>1, Zenon DEF ReplyLost, TrackingInv, TypeOK
    <3> QED BY <3>1, EndedFields
  <2>2. CASE Resend(q)
    <3>1. req'[q].missing = req[q].missing /\ req'[q].marks = [s \in Rules |-> Clean]
      BY <1>0, <2>2, Zenon DEF Resend, Request, TrackingInv, TypeOK
    <3>2. r \notin req[q].missing
      BY <1>0, <2>2, Zenon DEF Resend, RuleInv, Bookkeeping
    <3> QED BY <3>1, <3>2, Zenon
  <2> QED BY <2>1, <2>2, Zenon
<1>3. ~orphan'[r] => ~orphan[r] /\ ~Latest(req[q].marks[r], r)
  BY Zenon DEF ReplyLost, Resend, TrackingInv, TypeOK
<1>4. Bookkeeping(r)'
  BY <1>0, <1>1, <1>2, Zenon DEF RuleInv, Bookkeeping, RulesOf
<1>5. Tracked(r)'
  BY <1>0, <1>1, <1>3, Zenon DEF RuleInv, Tracked, Behind, Latest
<1>6. IsSnapshot(r)'
  BY <1>0, <1>1, Zenon DEF RuleInv, IsSnapshot
<1>7. ASSUME ~forked'[r] PROVE MarksAreOld(r)'
  <2>1. MarksAreOld(r)
    BY <1>0, <1>1, <1>7, Zenon DEF RuleInv
  <2>2. CoveredBy(Clean, redis[r])
    BY <1>0 DEF CoveredBy, Clean, State
  <2>3. \A p \in Requests : CoveredBy(req'[p].marks[r], redis[r])
    BY <1>1, <1>2, <2>1, <2>2, Zenon DEF MarksAreOld
  <2> QED
    BY <1>1, <2>1, <2>3, Zenon DEF MarksAreOld
<1>8. ASSUME ~forked'[r] PROVE SnapshotsAreSound(r)'
  BY <1>0, <1>1, <1>8, Zenon DEF RuleInv, SnapshotsAreSound
<1>9. ASSUME ~forked'[r] PROVE HydrationsAreCurrent(r)'
  <2>1. HydrationsAreCurrent(r)
    BY <1>0, <1>1, <1>9, Zenon DEF RuleInv
  <2> QED
    BY <1>1, <1>2, <2>1, HydrationsKept
<1> QED
  BY <1>4, <1>5, <1>6, <1>7, <1>8, <1>9, Zenon DEF RuleInv

\* Every step of a request keeps the invariant of every rule.
LEMMA RequestStepTracked ==
    ASSUME TrackingInv, TypeOK', NEW q \in Requests, RequestStep(q), NEW r \in Rules
    PROVE  RuleInv(r)'
<1>0. /\ RuleInv(r) /\ redis[r] \in State /\ db[r] \in State /\ req[q] \in Request
      /\ req \in [Requests -> Request] /\ req[q].rules[r] \in Definition
  BY DEF TrackingInv, TypeOK, Request
<1>1. req[q].pc \notin {"admitting", "settling"} => req[q].marks[r] = Clean
  BY <1>0, Zenon DEF RuleInv, Bookkeeping
<1>2. req[q].pc \notin {"hydrate", "init"} => r \notin req[q].missing
  BY <1>0, Zenon DEF RuleInv, Bookkeeping
<1>3. r \in req[q].missing => req[q].rules[r].rev > 0
  BY <1>0, Zenon DEF RuleInv, Bookkeeping, RulesOf
<1>4. ASSUME NEW pc, req' = [req EXCEPT ![q] = Ended(@, pc)],
             UNCHANGED <<redis, db, rule, dirty, worker, forked, orphan>>,
             req[q].pc \notin {"admitting", "settling"}
      PROVE  RuleInv(r)'
  <2>1. /\ \A p \in Requests : p # q => req'[p] = req[p]
        /\ req'[q].marks[r] = Clean /\ r \notin req'[q].missing
    BY <1>0, <1>4, EndedFields
  <2> QED
    BY <1>1, <1>4, <2>1, RequestOnly, Zenon
<1>5. ASSUME NEW mode \in Modes, Begin(q, mode) PROVE RuleInv(r)'
  <2>1. /\ \A p \in Requests : p # q => req'[p] = req[p]
        /\ req'[q].marks[r] = Clean /\ r \notin req'[q].missing
    <3>0. \A p \in Requests : p # q => req'[p] = req[p]
      BY <1>0, <1>5, Zenon DEF Begin
    <3>1. CASE req'[q] = Ended(req[q], "done")
      BY <3>0, <3>1, EndedFields
    <3>2. CASE req'[q] # Ended(req[q], "done")
      BY <1>0, <1>1, <1>2, <1>5, <3>2, Zenon DEF Begin, Request
    <3> QED
      BY <3>1, <3>2, Zenon
  <2>2. UNCHANGED <<redis, db, rule, dirty, worker, forked, orphan>>
    BY <1>5, Zenon DEF Begin, env, history
  <2>3. req[q].marks[r] = Clean
    BY <1>1, <1>5, Zenon DEF Begin
  <2> QED
    BY <2>1, <2>2, <2>3, RequestOnly, Zenon
<1>6. CASE EvaluateFails(q)
  BY <1>4, <1>6, Zenon DEF EvaluateFails, env, history
<1>7. CASE EvaluateNeedsInit(q)
  <2>1. /\ \A p \in Requests : p # q => req'[p] = req[p]
        /\ req'[q].marks = req[q].marks /\ req'[q].missing = Missing(q)
        /\ req'[q].pc = "hydrate" /\ req'[q].rules = req[q].rules
    BY <1>0, <1>7, Zenon DEF EvaluateNeedsInit, Request
  <2>2. r \in Missing(q) => req[q].rules[r].rev > 0
    BY Zenon DEF Missing, RulesOf
  <2>3. UNCHANGED <<redis, db, rule, dirty, worker, forked, orphan>> /\ req[q].marks[r] = Clean
    BY <1>1, <1>7, Zenon DEF EvaluateNeedsInit, env, history
  <2> QED
    BY <2>1, <2>2, <2>3, RequestOnly, Zenon
<1>8. CASE EvaluateRefusesOrChecks(q)
  BY <1>4, <1>8, Zenon DEF EvaluateRefusesOrChecks, env, history
<1>9. CASE EvaluateAdmits(q)
  <2>1. /\ \A p \in Requests : p # q => req'[p] = req[p]
        /\ req'[q].missing = req[q].missing /\ req'[q].rules = req[q].rules
        /\ r \in Opened(q) => req'[q].pc = "admitting"
        /\ req'[q].marks[r] = IF r \in Opened(q) THEN MarkOf(redis'[r]) ELSE Clean
    BY <1>0, <1>9, Zenon DEF EvaluateAdmits, Request
  <2>2. UNCHANGED <<db, rule, dirty, worker, forked>> /\ req[q].marks[r] = Clean
    BY <1>1, <1>9, Zenon DEF EvaluateAdmits, env
  <2>3. r \notin req[q].missing
    BY <1>2, <1>9, Zenon DEF EvaluateAdmits
  <2>4. CASE r \notin Opened(q)
    <3>1. redis'[r] = redis[r]
      BY <1>9, <2>4, Zenon DEF EvaluateAdmits
    <3>2. orphan'[r] = orphan[r]
      BY <1>9, <2>4, Zenon DEF EvaluateAdmits, TrackingInv, TypeOK
    <3> QED
      BY <2>1, <2>2, <2>3, <2>4, <3>1, <3>2, RequestOnly, Zenon
  <2>5. CASE r \in Opened(q)
    <3>1. redis'[r] = Open(redis[r], req[q].now)
      BY <1>9, <2>5, Zenon DEF EvaluateAdmits
    <3>2. redis'[r].rev = redis[r].rev /\ redis'[r].ver = redis[r].ver + 1
      BY <1>0, <3>1, Zenon DEF Open, State
    <3>3. req[q].rules[r].rev > 0
      BY <2>5, Zenon DEF Opened, RulesOf
    <3> QED
      BY <2>1, <2>2, <2>3, <2>5, <3>2, <3>3, HashChanges, Zenon
  <2> QED
    BY <2>4, <2>5, Zenon
<1>10. CASE HydrateReads(q)
  <2>1. /\ \A p \in Requests : p # q => req'[p] = req[p]
        /\ req'[q].marks = req[q].marks /\ req'[q].missing = req[q].missing
        /\ req'[q].pc = "init" /\ req'[q].rules = req[q].rules /\ req'[q].read = db
    BY <1>0, <1>10, Zenon DEF HydrateReads, Request
  <2>2. UNCHANGED <<redis, db, rule, dirty, worker, forked, orphan>> /\ req[q].marks[r] = Clean
    BY <1>1, <1>10, Zenon DEF HydrateReads, env, history
  <2> QED
    BY <1>3, <2>1, <2>2, RequestOnly, Zenon
<1>11. CASE HydrateFails(q)
  BY <1>4, <1>11, Zenon DEF HydrateFails, env, history
<1>12. CASE InitScript(q)
  <2>1. /\ \A p \in Requests : p # q => req'[p] = req[p]
        /\ req'[q].marks = req[q].marks /\ req'[q].missing = {}
    BY <1>0, <1>12, Zenon DEF InitScript, Request
  <2>2. UNCHANGED <<db, rule, dirty, worker, forked>> /\ req[q].marks[r] = Clean
    BY <1>1, <1>12, Zenon DEF InitScript, env
  <2>3. CASE redis'[r] = redis[r]
    <3>1. orphan'[r] = orphan[r]
      BY <1>12, <2>3, Zenon DEF InitScript, TrackingInv, TypeOK
    <3> QED
      BY <2>1, <2>2, <2>3, <3>1, RequestOnly, Zenon
  <2>4. CASE redis'[r] # redis[r]
    <3>1. /\ r \in req[q].missing /\ redis[r].rev < req[q].read[r].rev
          /\ redis'[r] = req[q].read[r] /\ req[q].pc = "init"
      BY <1>12, <2>4, Zenon DEF InitScript, Hydrated
    <3> QED
      BY <2>1, <2>2, <3>1, HashRebuilt, Zenon
  <2> QED
    BY <2>3, <2>4, Zenon
<1>13. ASSUME NEW cost \in Costs, Complete(q, cost) PROVE RuleInv(r)'
  <2> DEFINE e == Completed(req[q], cost)
             marks == [s \in Rules |-> IF s \in Changed(q, cost) THEN MarkOf(redis'[s]) ELSE Clean]
             changed == cost # 0 /\ r \in Changed(q, cost)
  <2>0. req'[q] = IF cost = 0 \/ Changed(q, cost) = {} THEN Ended(e, "done")
                  ELSE [e EXCEPT !.pc = "settling", !.marks = marks]
    BY <1>0, <1>13, Zenon DEF Complete
  <2>1. /\ req'[q].missing \subseteq req[q].missing
        /\ req'[q].marks[r] = IF changed THEN MarkOf(redis'[r]) ELSE Clean
        /\ changed => req'[q].pc = "settling" /\ req'[q].rules = req[q].rules
    <3>1. CASE cost = 0 \/ Changed(q, cost) = {}
      <4>1. req'[q] = Ended(e, "done")
        BY <2>0, <3>1, Zenon
      <4> QED
        BY <3>1, <4>1, EndedFields
    <3>2. CASE ~(cost = 0 \/ Changed(q, cost) = {})
      <4>1. req'[q] = [e EXCEPT !.pc = "settling", !.marks = marks]
        BY <2>0, <3>2, Zenon
      <4>2. /\ e.rules = req[q].rules /\ e.missing = req[q].missing
            /\ {"pc", "marks"} \subseteq DOMAIN e
        BY <1>0, Zenon DEF Completed, Request
      <4> HIDE DEF e
      <4> QED
        BY <3>2, <4>1, <4>2
    <3> QED
      BY <3>1, <3>2, Zenon
  <2>2. /\ UNCHANGED <<db, rule, dirty, worker, forked>> /\ req[q].marks[r] = Clean
        /\ r \notin req[q].missing
        /\ \A p \in Requests : p # q => req'[p] = req[p]
    BY <1>0, <1>1, <1>2, <1>13, Zenon DEF Complete, env
  <2>3. CASE ~changed
    <3>1. redis'[r] = redis[r]
      BY <1>13, <2>3, Zenon DEF Complete, Changed
    <3>2. orphan'[r] = orphan[r]
      BY <1>13, <2>3, Zenon DEF Complete, TrackingInv, TypeOK
    <3> QED
      BY <2>1, <2>2, <2>3, <3>1, <3>2, RequestOnly, Zenon
  <2>4. CASE changed
    <3>1. redis'[r] = Settled(redis[r], cost) /\ redis'[r] # redis[r]
      BY <1>13, <2>4, Zenon DEF Complete, Changed
    <3>2. redis'[r].rev = redis[r].rev /\ redis'[r].ver = redis[r].ver + 1
      BY <1>0, <3>1, Zenon DEF Settled, State
    <3>3. req[q].rules[r].rev > 0
      BY <2>4, Zenon DEF Changed, Matched, RulesOf
    <3> QED
      BY <2>1, <2>2, <2>4, <3>2, <3>3, HashChanges, Zenon
  <2> QED
    BY <2>3, <2>4, Zenon
<1>14. CASE CallFails(q)
  BY <1>4, <1>14, Zenon DEF CallFails, env, history
<1>15. CASE ReplyArrives(q)
  BY <1>15, ReplyArrivesTracked, Zenon
<1>16. CASE ReplyLost(q) \/ Resend(q)
  BY <1>16, ReplyLostTracked, Zenon
<1> QED
  BY <1>5, <1>6, <1>7, <1>8, <1>9, <1>10, <1>11, <1>12, <1>13, <1>14, <1>15, <1>16, Zenon DEF
     RequestStep

-----------------------------------------------------------------------------
(* The steps of the checkpoint worker and of the environment. *)

\* No state stands for a snapshot of revision 0.
LEMMA NoSnapshot == ~(Absent.rev > 0)
BY DEF Absent

\* The snapshots of the passes stay sound while hash and row stay as they are
\* and a pass keeps what it has or returns to idle.
LEMMA SnapshotsKept ==
    ASSUME NEW r \in Rules, SnapshotsAreSound(r), redis'[r] = redis[r], db'[r] = db[r],
           \A i \in Instances : \/ worker'[i] = worker[i]
                                \/ worker'[i].pc = "idle" /\ ~(worker'[i].snap[r].rev > 0)
    PROVE  SnapshotsAreSound(r)'
BY Zenon DEF SnapshotsAreSound

\* The transaction of a pass keeps the row a state Redis held.
LEMMA WriteSnapshotsTracked ==
    ASSUME TrackingInv, TypeOK', NEW i \in Instances, WriteSnapshots(i), NEW r \in Rules
    PROVE  RuleInv(r)'
<1> DEFINE snap == worker[i].snap[r]
<1>0. /\ RuleInv(r) /\ redis[r] \in State /\ db[r] \in State /\ db'[r] \in State
      /\ worker[i] \in Pass /\ worker \in [Instances -> Pass] /\ snap \in State
  BY DEF TrackingInv, TypeOK, Pass
<1>1. /\ UNCHANGED <<redis, rule, req, dirty, orphan, forked>>
      /\ \A j \in Instances : j # i => worker'[j] = worker[j]
      /\ worker'[i].cand = worker[i].cand /\ worker'[i].snap = worker[i].snap
      /\ worker'[i].pc = "ack"
      /\ db'[r] = IF db[r].rev = snap.rev /\ db[r].ver < snap.ver THEN snap ELSE db[r]
  BY <1>0, Zenon DEF WriteSnapshots, Persisted, env, history, Pass
<1>2. ~forked[r] => /\ CoveredBy(snap, redis[r])
                    /\ snap.rev > 0 /\ MarkOf(snap) = MarkOf(redis[r]) => snap = redis[r]
  BY <1>0, Zenon DEF RuleInv, MarksAreOld, SnapshotsAreSound
<1>3. db'[r].rev = db[r].rev /\ db'[r].ver \in Nat /\ db'[r].ver >= db[r].ver
  <2> HIDE DEF snap
  <2> QED
    BY <1>0, <1>1 DEF State
<1>4. Bookkeeping(r)'
  BY <1>0, <1>1, <1>3, Zenon DEF RuleInv, Bookkeeping, RulesOf
<1>n. /\ redis[r].rev \in Nat /\ redis[r].ver \in Nat /\ db[r].rev \in Nat /\ db[r].ver \in Nat
      /\ snap.rev \in Nat /\ snap.ver \in Nat
  <2> HIDE DEF snap
  <2> QED
    BY <1>0 DEF State
<1>5. Tracked(r)'
  <2>1. Tracked(r)
    BY <1>0, Zenon DEF RuleInv
  <2>2. Behind(r)' => Behind(r)
    <3>1. db'[r].ver < redis[r].ver => db[r].ver < redis[r].ver
      <4> HIDE DEF snap
      <4> QED
        BY <1>3, <1>n
    <3> QED
      BY <1>1, <1>3, <3>1, Zenon DEF Behind
  <2> QED
    BY <1>1, <2>1, <2>2, Zenon DEF Tracked, Latest
<1>6. IsSnapshot(r)'
  <2> HIDE DEF snap
  <2>1. CASE db'[r] = db[r]
    BY <1>0, <1>1, <2>1, Zenon DEF RuleInv, IsSnapshot
  <2>2. CASE db'[r] = snap /\ db[r].rev = snap.rev
    <3>1. IsSnapshot(r)
      BY <1>0, Zenon DEF RuleInv
    <3> QED
      BY <1>1, <1>2, <1>n, <2>2, <3>1 DEF IsSnapshot, CoveredBy
  <2> QED
    BY <1>1, <2>1, <2>2, Zenon
<1>7. ASSUME ~forked'[r] PROVE MarksAreOld(r)'
  BY <1>0, <1>1, <1>7, Zenon DEF RuleInv, MarksAreOld
<1>8. ASSUME ~forked'[r] PROVE SnapshotsAreSound(r)'
  <2>1. db[r].rev = 0 \/ CoveredBy(snap, db'[r])
    <3> HIDE DEF snap
    <3>1. redis[r].rev > 0 /\ db[r].rev > 0 => redis[r].rev <= db[r].rev
      BY <1>0, <1>1, <1>8, Zenon DEF RuleInv, IsSnapshot
    <3> QED
      BY <1>1, <1>2, <1>8, <1>n, <3>1 DEF CoveredBy
  <2>2. ASSUME NEW j \in Instances, j # i, worker[j].pc = "ack"
        PROVE  db[r].rev = 0 \/ CoveredBy(worker[j].snap[r], db'[r])
    <3>1. db[r].rev = 0 \/ CoveredBy(worker[j].snap[r], db[r])
      BY <1>0, <1>1, <1>8, <2>2, Zenon DEF RuleInv, SnapshotsAreSound
    <3>2. worker[j].snap[r] \in State
      BY DEF TrackingInv, TypeOK, Pass
    <3>3. worker[j].snap[r].rev \in Nat /\ worker[j].snap[r].ver \in Nat
      BY <3>2 DEF State
    <3> QED
      BY <1>3, <1>n, <3>1, <3>3 DEF CoveredBy
  <2>3. SnapshotsAreSound(r)
    BY <1>0, <1>1, <1>8, Zenon DEF RuleInv
  <2> SUFFICES ASSUME NEW j \in Instances, worker'[j].pc = "ack"
               PROVE  db'[r].rev = 0 \/ CoveredBy(worker'[j].snap[r], db'[r])
    BY <1>1, <2>3, Zenon DEF SnapshotsAreSound
  <2> QED
    BY <1>1, <1>3, <2>1, <2>2, Zenon
<1>9. ASSUME ~forked'[r] PROVE HydrationsAreCurrent(r)'
  <2> HIDE DEF snap
  <2>1. db[r].rev > 0 /\ db'[r] # db[r] => redis[r].rev = db[r].rev
    <3>1. IsSnapshot(r)
      BY <1>0, Zenon DEF RuleInv
    <3> QED
      BY <1>1, <1>2, <1>9, <1>n, <3>1 DEF IsSnapshot, CoveredBy
  <2>2. HydrationsAreCurrent(r)
    BY <1>0, <1>1, <1>9, Zenon DEF RuleInv
  <2> SUFFICES ASSUME NEW q \in Requests, req[q].pc = "init", r \in req[q].missing,
                      db[r].rev # 0, ~(req[q].read[r].rev < db[r].rev)
               PROVE  /\ req[q].read[r].rev = db[r].rev
                      /\ redis[r].rev = req[q].read[r].rev \/ req[q].read[r] = db'[r]
    BY <1>1, <1>3, Zenon DEF HydrationsAreCurrent
  <2>3. /\ req[q].read[r].rev = db[r].rev
        /\ redis[r].rev = req[q].read[r].rev \/ req[q].read[r] = db[r]
    BY <2>2, Zenon DEF HydrationsAreCurrent
  <2>4. db[r].rev > 0
    BY <1>n
  <2> QED
    BY <2>1, <2>3, <2>4, Zenon
<1> QED
  BY <1>4, <1>5, <1>6, <1>7, <1>8, <1>9, Zenon DEF RuleInv

\* Every state covers the marks of a rule without changes.
LEMMA CleanIsCovered ==
    ASSUME NEW s \in State
    PROVE  CoveredBy(Clean, s) /\ CoveredBy(Absent, s)
  BY DEF CoveredBy, Clean, Absent, State

\* A snapshot that the row has does not cover a change that it lacks.
LEMMA LackedIsUncovered ==
    ASSUME NEW rev \in Nat, NEW saved \in Nat, NEW ver \in Nat, saved < ver,
           NEW m, m.rev = rev, m.ver = ver, NEW s, s.rev \in Nat, s.ver \in Nat,
           rev > s.rev \/ (rev = s.rev /\ saved >= s.ver)
    PROVE  ~CoveredBy(m, s)
  BY DEF CoveredBy

\* Ack keeps the mark of a change the row lacks.
LEMMA AckSnapshotsTracked ==
    ASSUME TrackingInv, TypeOK', NEW i \in Instances, AckSnapshots(i), NEW r \in Rules
    PROVE  RuleInv(r)'
<1> DEFINE snap == worker[i].snap[r]
<1>0. /\ RuleInv(r) /\ redis[r] \in State /\ db[r] \in State /\ snap \in State
      /\ worker \in [Instances -> Pass] /\ dirty \in [Instances -> [Rules -> Mark]]
      /\ dirty[i][r] \in Mark
  BY DEF TrackingInv, TypeOK, Pass
<1>1. /\ UNCHANGED <<redis, db, rule, req, orphan, forked>>
      /\ \A j \in Instances : j # i => worker'[j] = worker[j] /\ dirty'[j] = dirty[j]
      /\ worker[i].pc = "ack" /\ worker'[i] = IdlePass
      /\ dirty'[i][r] = IF CoveredBy(dirty[i][r], snap) THEN Clean ELSE dirty[i][r]
  BY <1>0, Zenon DEF AckSnapshots, Acked, env, history
<1>2. /\ IdlePass.cand[r] = Clean /\ IdlePass.snap[r] = Absent /\ IdlePass.pc = "idle"
      /\ Absent.rev = 0
  BY Zenon DEF IdlePass, Absent
<1>3. CoveredBy(Clean, redis[r]) /\ CoveredBy(Absent, redis[r])
  BY <1>0, CleanIsCovered, Zenon
<1> HIDE DEF snap
<1>4. Bookkeeping(r)'
  BY <1>0, <1>1, Zenon DEF RuleInv, Bookkeeping, RulesOf
<1>5. Tracked(r)'
  <2> SUFFICES ASSUME Behind(r), redis[r].rev > 0, ~orphan[r], ~forked[r]
               PROVE  \/ \E j \in Instances : Latest(dirty'[j][r], r)
                      \/ \E p \in Requests : Latest(req[p].marks[r], r)
    BY <1>1, Zenon DEF Tracked, Behind, Latest
  <2>1. CoveredBy(snap, redis[r]) /\ (db[r].rev = 0 \/ CoveredBy(snap, db[r]))
    BY <1>0, <1>1, Zenon DEF RuleInv, MarksAreOld, SnapshotsAreSound, snap
  <2>2. ASSUME Latest(dirty[i][r], r) PROVE dirty'[i][r] = dirty[i][r]
    <3>1. ~CoveredBy(dirty[i][r], snap)
      <4>1. /\ redis[r].rev \in Nat /\ redis[r].ver \in Nat
            /\ db[r].rev \in Nat /\ db[r].ver \in Nat
            /\ snap.rev \in Nat /\ snap.ver \in Nat
        BY <1>0, Zenon DEF State
      <4>2. dirty[i][r].rev = redis[r].rev /\ dirty[i][r].ver = redis[r].ver
        BY <2>2 DEF Latest, MarkOf
      <4>3. /\ db[r].rev = redis[r].rev /\ db[r].ver < redis[r].ver /\ db[r].rev # 0
            /\ redis[r].rev > snap.rev \/ (redis[r].rev = snap.rev /\ db[r].ver >= snap.ver)
        <5>1. db[r].rev = redis[r].rev /\ db[r].ver < redis[r].ver
          BY Zenon DEF Behind
        <5>2. db[r].rev # 0
          BY <4>1, <5>1
        <5> QED
          BY <2>1, <5>1, <5>2, Zenon DEF CoveredBy
      <4> QED
        BY <4>1, <4>2, <4>3, LackedIsUncovered, Zenon
    <3> QED
      BY <1>1, <3>1, Zenon
  <2> QED
    BY <1>0, <1>1, <2>2, Zenon DEF RuleInv, Tracked
<1>6. IsSnapshot(r)'
  BY <1>0, <1>1, Zenon DEF RuleInv, IsSnapshot
<1>7. ASSUME ~forked'[r] PROVE MarksAreOld(r)'
  BY <1>0, <1>1, <1>2, <1>3, <1>7, Zenon DEF RuleInv, MarksAreOld
<1>8. ASSUME ~forked'[r] PROVE SnapshotsAreSound(r)'
  <2>1. SnapshotsAreSound(r)
    BY <1>0, <1>1, <1>8, Zenon DEF RuleInv
  <2> QED
    BY <1>1, <1>2, <2>1, NoSnapshot, SnapshotsKept
<1>9. ASSUME ~forked'[r] PROVE HydrationsAreCurrent(r)'
  BY <1>0, <1>1, <1>9, Zenon DEF RuleInv, HydrationsAreCurrent
<1> QED
  BY <1>4, <1>5, <1>6, <1>7, <1>8, <1>9, Zenon DEF RuleInv

\* Every step of a checkpoint pass keeps the invariant of every rule.
LEMMA WorkerStepTracked ==
    ASSUME TrackingInv, TypeOK', NEW i \in Instances, WorkerStep(i), NEW r \in Rules
    PROVE  RuleInv(r)'
<1>0. /\ RuleInv(r) /\ redis[r] \in State /\ db[r] \in State /\ worker[i] \in Pass
      /\ worker \in [Instances -> Pass] /\ dirty \in [Instances -> [Rules -> Mark]]
      /\ dirty[i][r] \in Mark /\ worker[i].cand[r] \in Mark /\ worker[i].snap[r] \in State
  BY DEF TrackingInv, TypeOK, Pass
<1>1. UNCHANGED <<redis, rule, req, orphan, forked>>
  BY Zenon DEF WorkerStep, StartPass, ReadDirty, FilterDirty, WriteSnapshots, AckSnapshots,
     PassFails, env, history
<1>2. \A j \in Instances : j # i => dirty'[j] = dirty[j] /\ worker'[j] = worker[j]
  BY <1>0, Zenon DEF WorkerStep, StartPass, ReadDirty, FilterDirty, WriteSnapshots, AckSnapshots,
     PassFails
<1>c. CoveredBy(Clean, redis[r]) /\ CoveredBy(Absent, redis[r])
  BY <1>0 DEF CoveredBy, Clean, Absent, State
\* A pass that leaves the row and the mark alone.
<1>3. ASSUME db' = db, dirty'[i][r] = dirty[i][r],
             ~forked[r] =>
                /\ CoveredBy(worker'[i].cand[r], redis[r]) /\ CoveredBy(worker'[i].snap[r], redis[r])
                /\ worker'[i].snap[r].rev > 0 /\ MarkOf(worker'[i].snap[r]) = MarkOf(redis[r])
                      => worker'[i].snap[r] = redis[r]
                /\ worker'[i].pc = "filter" => CoveredBy(worker'[i].cand[r], worker'[i].snap[r]),
             worker'[i].pc # "ack"
      PROVE  RuleInv(r)'
  <2>1. Bookkeeping(r)'
    BY <1>0, <1>1, <1>3, Zenon DEF RuleInv, Bookkeeping, RulesOf
  <2>2. Tracked(r)'
    BY <1>0, <1>1, <1>2, <1>3, Zenon DEF RuleInv, Tracked, Behind, Latest
  <2>3. IsSnapshot(r)'
    BY <1>0, <1>1, <1>3, Zenon DEF RuleInv, IsSnapshot
  <2>4. ASSUME ~forked'[r] PROVE MarksAreOld(r)'
    BY <1>0, <1>1, <1>2, <1>3, <2>4, Zenon DEF RuleInv, MarksAreOld
  <2>5. ASSUME ~forked'[r] PROVE SnapshotsAreSound(r)'
    BY <1>0, <1>1, <1>2, <1>3, <2>5, Zenon DEF RuleInv, SnapshotsAreSound
  <2>6. ASSUME ~forked'[r] PROVE HydrationsAreCurrent(r)'
    BY <1>0, <1>1, <1>3, <2>6, Zenon DEF RuleInv, HydrationsAreCurrent
  <2> QED
    BY <2>1, <2>2, <2>3, <2>4, <2>5, <2>6, Zenon DEF RuleInv
<1>4. ASSUME ~forked[r]
      PROVE  /\ CoveredBy(dirty[i][r], redis[r]) /\ CoveredBy(worker[i].cand[r], redis[r])
             /\ CoveredBy(worker[i].snap[r], redis[r])
             /\ worker[i].snap[r].rev > 0 /\ MarkOf(worker[i].snap[r]) = MarkOf(redis[r])
                   => worker[i].snap[r] = redis[r]
             /\ worker[i].pc = "filter" => CoveredBy(worker[i].cand[r], worker[i].snap[r])
             /\ worker[i].pc = "ack" => db[r].rev = 0 \/ CoveredBy(worker[i].snap[r], db[r])
  BY <1>0, <1>4, Zenon DEF RuleInv, MarksAreOld, SnapshotsAreSound
<1>5. /\ IdlePass.cand[r] = Clean /\ IdlePass.snap[r] = Absent /\ IdlePass.pc = "idle"
      /\ Absent.rev = 0
  BY Zenon DEF IdlePass, Absent
<1>6. ASSUME NEW woken \in BOOLEAN, StartPass(i, woken) PROVE RuleInv(r)'
  <2>1. /\ db' = db /\ dirty' = dirty
        /\ worker'[i].cand = dirty[i] /\ worker'[i].snap = worker[i].snap
        /\ worker'[i].pc \in {"read", "idle"}
    BY <1>0, <1>6, Zenon DEF StartPass, Pass
  <2> QED
    BY <1>3, <1>4, <2>1, Zenon
<1>7. CASE ReadDirty(i)
  <2>1. /\ db' = db /\ dirty' = dirty /\ worker'[i].pc = "filter"
        /\ worker'[i].cand = worker[i].cand
        /\ worker'[i].snap[r] = IF worker[i].cand[r] = Clean THEN Absent ELSE redis[r]
    BY <1>0, <1>7, Zenon DEF ReadDirty, Pass
  <2>2. CoveredBy(Clean, Absent) /\ CoveredBy(redis[r], redis[r])
    BY <1>0 DEF CoveredBy, Clean, Absent, State
  <2> QED
    BY <1>c, <1>3, <1>4, <1>5, <2>1, <2>2, NoSnapshot, Zenon
<1>8. CASE FilterDirty(i)
  <2> DEFINE kept == {s \in Rules : worker[i].cand[s] # Clean /\ CoveredBy(worker[i].cand[s], worker[i].snap[s])}
             snap == [s \in Rules |-> IF s \in kept THEN worker[i].snap[s] ELSE Absent]
  <2>1. /\ db' = db /\ worker[i].pc = "filter"
        /\ dirty'[i][r] = IF r \notin kept /\ dirty[i][r] = worker[i].cand[r] THEN Clean
                          ELSE dirty[i][r]
        /\ worker'[i] = IF kept = {} THEN IdlePass
                        ELSE [pc |-> "write", cand |-> IdlePass.cand, snap |-> snap]
    BY <1>0, <1>8, Zenon DEF FilterDirty
  <2>2. /\ worker'[i].pc \in {"idle", "write"} /\ worker'[i].cand[r] = Clean
        /\ worker'[i].snap[r] \in {worker[i].snap[r], Absent}
    <3>1. snap[r] \in {worker[i].snap[r], Absent}
      <4> HIDE DEF kept
      <4> QED
        OBVIOUS
    <3> HIDE DEF kept, snap
    <3>2. CASE kept = {}
      BY <1>5, <2>1, <3>2, Zenon
    <3>3. CASE kept # {}
      BY <1>5, <2>1, <3>1, <3>3
    <3> QED
      BY <3>2, <3>3, Zenon
  <2>3. CASE forked[r]
    <3>1. Bookkeeping(r)'
      BY <1>0, <1>1, <2>1, Zenon DEF RuleInv, Bookkeeping, RulesOf
    <3> QED
      BY <1>1, <2>3, <3>1, Zenon DEF RuleInv, Tracked, IsSnapshot
  <2>4. CASE ~forked[r]
    <3>1. dirty'[i][r] = dirty[i][r]
      BY <1>4, <2>1, <2>4, Zenon
    <3> HIDE DEF kept, snap
    <3> QED
      BY <1>c, <1>3, <1>4, <1>5, <2>1, <2>2, <2>4, <3>1, NoSnapshot, Zenon
  <2> QED
    BY <2>3, <2>4, Zenon
<1>9. CASE WriteSnapshots(i)
  BY <1>9, WriteSnapshotsTracked, Zenon
<1>10. CASE AckSnapshots(i)
  BY <1>10, AckSnapshotsTracked, Zenon
<1>11. CASE PassFails(i)
  <2>1. db' = db /\ dirty' = dirty /\ worker'[i] = IdlePass
    BY <1>0, <1>11, Zenon DEF PassFails
  <2> QED
    BY <1>c, <1>3, <1>5, <2>1, NoSnapshot, Zenon
<1> QED
  BY <1>6, <1>7, <1>8, <1>9, <1>10, <1>11, Zenon DEF WorkerStep

\* A rule nothing is under way on has no mark, so its hash may expire.
LEMMA ExpireKeyTracked ==
    ASSUME TrackingInv, TypeOK', NEW r \in Rules, ExpireKey(r)
    PROVE  RuleInv(r)'
<1>0. /\ RuleInv(r) /\ db[r] \in State /\ redis \in [Rules -> State]
  BY Zenon DEF TrackingInv, TypeOK
<1>1. UNCHANGED <<rule, db, dirty, worker, req, orphan>> /\ redis'[r] = Absent
  BY <1>0, Zenon DEF ExpireKey, env
<1>2. /\ Absent.rev = 0 /\ ~(Absent.rev > 0) /\ CoveredBy(Clean, Absent) /\ CoveredBy(Absent, Absent)
      /\ CoveredBy(Absent, db[r])
  BY <1>0 DEF CoveredBy, Clean, Absent, State
<1>3. ~forked'[r] => ~forked[r]
  BY Zenon DEF ExpireKey, TrackingInv, TypeOK
<1>4. \A q \in Requests : req[q].marks[r] = Clean /\ r \notin req[q].missing
  BY <1>0, Zenon DEF ExpireKey, Quiet, RuleInv, Bookkeeping, Over
<1>5. \A i \in Instances : /\ dirty[i][r] = Clean
                           /\ worker[i].cand[r] = Clean /\ worker[i].snap[r] = Absent
  BY Zenon DEF ExpireKey, Quiet
<1>6. Bookkeeping(r)'
  BY <1>0, <1>1, Zenon DEF RuleInv, Bookkeeping, RulesOf
<1>7. Tracked(r)' /\ IsSnapshot(r)'
  BY <1>1, <1>2, Zenon DEF Tracked, IsSnapshot
<1>8. MarksAreOld(r)'
  BY <1>1, <1>2, <1>4, <1>5, Zenon DEF MarksAreOld
<1>9. SnapshotsAreSound(r)'
  BY <1>1, <1>2, <1>5, Zenon DEF SnapshotsAreSound
<1>10. HydrationsAreCurrent(r)'
  BY <1>1, <1>4, Zenon DEF HydrationsAreCurrent
<1> QED
  BY <1>6, <1>7, <1>8, <1>9, <1>10, Zenon DEF RuleInv

\* A crash leaves without a mark only the changes it counts as orphans.
LEMMA CrashTracked ==
    ASSUME TrackingInv, TypeOK', NEW i \in Instances, Crash(i), NEW r \in Rules
    PROVE  RuleInv(r)'
<1>0. /\ RuleInv(r) /\ redis[r] \in State
      /\ dirty \in [Instances -> [Rules -> Mark]] /\ worker \in [Instances -> Pass]
  BY Zenon DEF TrackingInv, TypeOK
<1>1. /\ UNCHANGED <<redis, db, rule, forked>>
      /\ \A j \in Instances : j # i => worker'[j] = worker[j] /\ dirty'[j] = dirty[j]
      /\ worker'[i] = IdlePass /\ dirty'[i][r] = Clean
  BY <1>0, Zenon DEF Crash
<1>2. \A q \in Requests :
        \/ req'[q] = req[q]
        \/ /\ req'[q] = Ended(req[q], "failed")
           /\ Latest(req[q].marks[r], r) => orphan'[r]
  BY Zenon DEF Crash
<1>3. \A q \in Requests :
        \/ req'[q] = req[q]
        \/ /\ req'[q].marks[r] = Clean /\ req'[q].missing = {}
           /\ Latest(req[q].marks[r], r) => orphan'[r]
  BY <1>2, EndedFields
<1>4. ~orphan'[r] => ~orphan[r] /\ ~Latest(dirty[i][r], r)
  BY Zenon DEF Crash
<1>5. /\ IdlePass.cand[r] = Clean /\ IdlePass.snap[r] = Absent /\ IdlePass.pc = "idle"
      /\ Absent.rev = 0 /\ CoveredBy(Clean, redis[r]) /\ CoveredBy(Absent, redis[r])
  <2>1. Absent.rev = 0
    BY DEF Absent
  <2> QED
    BY <1>0, <2>1, CleanIsCovered, Zenon DEF IdlePass
<1>6. Bookkeeping(r)'
  BY <1>0, <1>1, <1>3, Zenon DEF RuleInv, Bookkeeping, RulesOf
<1>7. Tracked(r)'
  <2> SUFFICES ASSUME Behind(r), redis[r].rev > 0, ~orphan'[r], ~forked[r]
               PROVE  \/ \E j \in Instances : Latest(dirty'[j][r], r)
                      \/ \E q \in Requests : Latest(req'[q].marks[r], r)
    BY <1>1, Zenon DEF Tracked, Behind, Latest
  <2>1. \/ \E j \in Instances : Latest(dirty[j][r], r)
        \/ \E q \in Requests : Latest(req[q].marks[r], r)
    BY <1>0, <1>4, Zenon DEF RuleInv, Tracked
  <2>2. ASSUME NEW j \in Instances, Latest(dirty[j][r], r) PROVE dirty'[j] = dirty[j]
    BY <1>1, <1>4, <2>2, Zenon
  <2>3. ASSUME NEW q \in Requests, Latest(req[q].marks[r], r) PROVE req'[q] = req[q]
    BY <1>3, <2>3, Zenon
  <2> QED
    BY <2>1, <2>2, <2>3, Zenon
<1>8. IsSnapshot(r)'
  BY <1>0, <1>1, Zenon DEF RuleInv, IsSnapshot
<1>9. ASSUME ~forked'[r] PROVE MarksAreOld(r)'
  BY <1>0, <1>1, <1>3, <1>5, <1>9, Zenon DEF RuleInv, MarksAreOld
<1>10. ASSUME ~forked'[r] PROVE SnapshotsAreSound(r)'
  <2>1. SnapshotsAreSound(r)
    BY <1>0, <1>1, <1>10, Zenon DEF RuleInv
  <2> QED
    BY <1>1, <1>5, <2>1, NoSnapshot, SnapshotsKept, Zenon
<1>11. ASSUME ~forked'[r] PROVE HydrationsAreCurrent(r)'
  <2>1. HydrationsAreCurrent(r)
    BY <1>0, <1>1, <1>11, Zenon DEF RuleInv
  <2> QED
    BY <1>1, <1>3, <2>1, HydrationsKept, Zenon
<1> QED
  BY <1>6, <1>7, <1>8, <1>9, <1>10, <1>11, Zenon DEF RuleInv

\* A step that leaves the rule alone.
LEMMA Untouched ==
    ASSUME TrackingInv, NEW r \in Rules,
           UNCHANGED <<redis[r], db[r], rule[r].rev, dirty, worker, req, orphan, forked[r]>>
    PROVE  RuleInv(r)'
<1>0. RuleInv(r)
  BY DEF TrackingInv
<1>1. Bookkeeping(r)'
  BY <1>0, Zenon DEF RuleInv, Bookkeeping, RulesOf
<1>2. Tracked(r)'
  BY <1>0, Zenon DEF RuleInv, Tracked, Behind, Latest
<1>3. IsSnapshot(r)'
  BY <1>0, Zenon DEF RuleInv, IsSnapshot
<1>4. MarksAreOld(r) => MarksAreOld(r)'
  BY Zenon DEF MarksAreOld
<1>5. SnapshotsAreSound(r) => SnapshotsAreSound(r)'
  BY Zenon DEF SnapshotsAreSound
<1>6. HydrationsAreCurrent(r) => HydrationsAreCurrent(r)'
  BY Zenon DEF HydrationsAreCurrent
<1> QED
  BY <1>0, <1>1, <1>2, <1>3, <1>4, <1>5, <1>6, Zenon DEF RuleInv

\* A row that moves to a newer revision, or is deleted, is ahead of everything
\* that was not ahead of the old one.
LEMMA NewerRow ==
    ASSUME NEW x \in State, NEW d \in State, NEW e \in State, e.rev = 0 \/ e.rev > d.rev
    PROVE  /\ CoveredBy(x, d) => e.rev = 0 \/ CoveredBy(x, e)
           /\ x.rev <= d.rev /\ x.rev > 0 => x.rev # e.rev
           /\ x.rev <= d.rev /\ e.rev > 0 => x.rev <= e.rev /\ MarkOf(x) # MarkOf(e)
           /\ (x.rev < d.rev \/ x.rev = d.rev) /\ e.rev # 0 => x.rev < e.rev
           /\ d.rev > 0 => d.rev # 0
<1>1. x.rev \in Nat /\ d.rev \in Nat /\ e.rev \in Nat
  BY DEF State
<1>2. MarkOf(x) = MarkOf(e) => x.rev = e.rev
  BY DEF MarkOf
<1>3. CoveredBy(x, d) => e.rev = 0 \/ CoveredBy(x, e)
  <2>1. d.rev > x.rev \/ d.rev = x.rev => e.rev = 0 \/ e.rev > x.rev
    BY <1>1
  <2> QED
    BY <2>1, Zenon DEF CoveredBy
<1> QED
  BY <1>1, <1>2, <1>3

\* An operator moves the row of a rule to a newer revision, or deletes it.
LEMMA RowMoves ==
    ASSUME NEW r \in Rules, RuleInv(r), redis[r] \in State, db[r] \in State, db'[r] \in State,
           \A q \in Requests : req[q].read[r] \in State,
           \A i \in Instances : worker[i].snap[r] \in State,
           UNCHANGED <<redis, dirty, worker, req, orphan, forked>>,
           db'[r].rev = rule'[r].rev, db'[r].rev = 0 \/ db'[r].rev > db[r].rev, db[r].rev > 0
    PROVE  RuleInv(r)'
<1>0. ASSUME NEW x \in State
      PROVE  /\ CoveredBy(x, db[r]) => db'[r].rev = 0 \/ CoveredBy(x, db'[r])
             /\ x.rev <= db[r].rev /\ x.rev > 0 => x.rev # db'[r].rev
             /\ x.rev <= db[r].rev /\ db'[r].rev > 0 =>
                  x.rev <= db'[r].rev /\ MarkOf(x) # MarkOf(db'[r])
             /\ (x.rev < db[r].rev \/ x.rev = db[r].rev) /\ db'[r].rev # 0 => x.rev < db'[r].rev
             /\ db[r].rev # 0
  <2>1. PICK d \in State, e \in State : d = db[r] /\ e = db'[r]
    OBVIOUS
  <2>2. (e.rev = 0 \/ e.rev > d.rev) /\ d.rev > 0
    BY <2>1, Zenon
  <2> QED
    BY <2>1, <2>2, NewerRow, Zenon
<1>1. Bookkeeping(r)'
  BY Zenon DEF RuleInv, Bookkeeping, RulesOf
<1>2. ~forked[r] /\ redis[r].rev > 0 => redis[r].rev <= db[r].rev
  BY Zenon DEF RuleInv, IsSnapshot
<1>3. Tracked(r)'
  <2>1. ~forked[r] /\ redis[r].rev > 0 => ~Behind(r)'
    BY <1>0, <1>2, Zenon DEF Behind
  <2> QED
    BY <2>1, Zenon DEF Tracked
<1>4. IsSnapshot(r)'
  <2>1. ~forked[r] /\ redis[r].rev > 0 /\ db'[r].rev > 0 =>
          /\ redis[r].rev <= db'[r].rev /\ redis[r].rev # db'[r].rev
          /\ MarkOf(redis[r]) # MarkOf(db'[r])
    BY <1>0, <1>2, Zenon
  <2>2. MarkOf(redis[r])' = MarkOf(redis[r]) /\ MarkOf(db[r])' = MarkOf(db'[r])
    BY Zenon DEF MarkOf
  <2> QED
    BY <2>1, <2>2, Zenon DEF IsSnapshot
<1>5. MarksAreOld(r) => MarksAreOld(r)'
  BY Zenon DEF MarksAreOld
<1>6. SnapshotsAreSound(r) => SnapshotsAreSound(r)'
  <2>1. \A i \in Instances : CoveredBy(worker[i].snap[r], db[r]) =>
                              db'[r].rev = 0 \/ CoveredBy(worker[i].snap[r], db'[r])
    BY <1>0, Zenon
  <2>2. db[r].rev # 0
    BY <1>0, Zenon
  <2> QED
    BY <2>1, <2>2, Zenon DEF SnapshotsAreSound
<1>7. HydrationsAreCurrent(r) => HydrationsAreCurrent(r)'
  <2> SUFFICES ASSUME HydrationsAreCurrent(r), NEW q \in Requests,
                      req[q].pc = "init", r \in req[q].missing, db'[r].rev # 0
               PROVE  req[q].read[r].rev < db'[r].rev
    BY Zenon DEF HydrationsAreCurrent
  <2>1. db[r].rev = 0 \/ req[q].read[r].rev < db[r].rev \/ req[q].read[r].rev = db[r].rev
    BY Zenon DEF HydrationsAreCurrent
  <2> QED
    BY <1>0, <2>1, Zenon
<1> QED
  BY <1>1, <1>3, <1>4, <1>5, <1>6, <1>7, Zenon DEF RuleInv

\* The steps of operators, instances, time and faults keep the invariant of
\* every rule; s is the rule they act on.
LEMMA EnvironmentStepTracked ==
    ASSUME TrackingInv, TypeOK', NEW r \in Rules,
           \/ \E s \in Rules : OperatorStep(s) \/ LoseKey(s) \/ ExpireKey(s)
           \/ \E i \in Instances : Reload(i) \/ Crash(i)
           \/ Tick
    PROVE  RuleInv(r)'
<1>0. /\ RuleInv(r) /\ redis[r] \in State /\ db[r] \in State /\ rule[r] \in Definition
      /\ redis \in [Rules -> State] /\ db \in [Rules -> State] /\ rule \in [Rules -> Definition]
      /\ \A q \in Requests : req[q].read[r] \in State
      /\ \A i \in Instances : worker[i].snap[r] \in State
  BY DEF TrackingInv, TypeOK, Request, Pass
<1>2. db'[r] \in State
  BY Zenon DEF TypeOK
<1>3. ASSUME NEW s \in Rules, NEW limit \in Limits, ReviseRule(s, limit) PROVE RuleInv(r)'
  <2>1. CASE r # s
    BY <1>0, Untouched, <1>3, <2>1, Zenon DEF ReviseRule, history
  <2>2. CASE r = s
    <3>0. db[r].rev = rule[r].rev /\ rule[r].rev \in Nat
      BY <1>0, Zenon DEF RuleInv, Bookkeeping, Definition
    <3>1. rule[r].rev > 0
      BY <1>3, <2>2 DEF ReviseRule, BoundsAssumption
    <3>2. db'[r] = FreshState(rule[r].rev + 1) /\ rule'[r].rev = rule[r].rev + 1
      BY <1>0, <1>3, <2>2, Zenon DEF ReviseRule
    <3>3. db'[r].rev = rule[r].rev + 1
      BY <3>2, Zenon DEF FreshState, Absent
    <3>4. UNCHANGED <<redis, dirty, worker, req, orphan, forked>>
      BY <1>3, Zenon DEF ReviseRule, history
    <3>5. rule[r].rev + 1 > rule[r].rev
      BY <3>0
    <3> QED
      BY <1>0, <1>2, <3>0, <3>1, <3>2, <3>3, <3>4, <3>5, RowMoves, Zenon
  <2> QED
    BY <2>1, <2>2, Zenon
<1>4. ASSUME NEW s \in Rules, NEW limit \in Limits, EditLimit(s, limit) PROVE RuleInv(r)'
  <2>1. rule'[r].rev = rule[r].rev
    BY <1>0, <1>4, Zenon DEF EditLimit, Definition
  <2> QED
    BY Untouched, <1>4, <2>1, Zenon DEF EditLimit, history
<1>5. ASSUME NEW s \in Rules, DeleteRule(s) PROVE RuleInv(r)'
  <2>1. CASE r # s
    BY <1>0, Untouched, <1>5, <2>1, Zenon DEF DeleteRule, history
  <2>2. CASE r = s
    <3>1. db[r].rev > 0 /\ db'[r].rev = 0 /\ rule'[r].rev = 0
      BY <1>0, <1>5, <2>2, Zenon DEF DeleteRule, RuleInv, Bookkeeping, Absent, NoRule
    <3> QED
      BY <1>0, <1>2, <1>5, <3>1, RowMoves, Zenon DEF DeleteRule, history
  <2> QED
    BY <2>1, <2>2, Zenon
<1>6. ASSUME NEW s \in Rules, LoseKey(s) PROVE RuleInv(r)'
  <2>1. CASE r # s
    BY <1>0, Untouched, <1>6, <2>1, Zenon DEF LoseKey, env, TrackingInv, TypeOK
  <2>2. CASE r = s
    <3>1. forked'[r]
      BY <1>6, <2>2, Zenon DEF LoseKey, TrackingInv, TypeOK
    <3>2. Bookkeeping(r)'
      BY <1>0, <1>6, Zenon DEF LoseKey, env, RuleInv, Bookkeeping, RulesOf
    <3> QED
      BY <3>1, <3>2, Zenon DEF RuleInv, Tracked, IsSnapshot
  <2> QED
    BY <2>1, <2>2, Zenon
<1>7. ASSUME NEW s \in Rules, ExpireKey(s) PROVE RuleInv(r)'
  <2>1. CASE r # s
    BY <1>0, Untouched, <1>7, <2>1, Zenon DEF ExpireKey, env, TrackingInv, TypeOK
  <2>2. CASE r = s
    BY <1>7, <2>2, ExpireKeyTracked, Zenon
  <2> QED
    BY <2>1, <2>2, Zenon
<1>8. ASSUME NEW i \in Instances, Reload(i) PROVE RuleInv(r)'
  BY Untouched, <1>8, Zenon DEF Reload, history
<1>9. ASSUME NEW i \in Instances, Crash(i) PROVE RuleInv(r)'
  BY <1>9, CrashTracked, Zenon
<1>10. CASE Tick
  BY Untouched, <1>10, Zenon DEF Tick, history
<1> QED
  BY <1>3, <1>4, <1>5, <1>6, <1>7, <1>8, <1>9, <1>10, Zenon DEF OperatorStep

\* The tracking invariant is inductive.
THEOREM TrackingInvariant == Spec => []TrackingInv
<1>1. Init => TrackingInv
  <2> SUFFICES ASSUME Init, NEW r \in Rules PROVE RuleInv(r)
    BY InitType DEF TrackingInv
  <2>1. /\ redis[r] = Absent /\ db[r] = FreshState(1) /\ rule[r].rev = 1
        /\ \A i \in Instances : dirty[i][r] = Clean /\ worker[i] = IdlePass
    BY DEF Init
  <2>2. /\ redis[r].rev = 0 /\ db[r].rev = rule[r].rev
        /\ CoveredBy(Clean, Absent) /\ CoveredBy(Absent, Absent)
    BY <2>1 DEF FreshState, Absent, Clean, CoveredBy
  <2>3. \A q \in Requests : /\ req[q].marks[r] = Clean /\ req[q].missing = {}
                            /\ req[q].pc = "new"
    <3>1. ASSUME NEW i PROVE /\ NewRequest(i).marks[r] = Clean /\ NewRequest(i).missing = {}
                            /\ NewRequest(i).pc = "new"
      BY Zenon DEF NewRequest
    <3>2. req \in [Requests -> {NewRequest(i) : i \in Instances}]
      BY Zenon DEF Init
    <3> SUFFICES ASSUME NEW q \in Requests
                 PROVE  req[q].marks[r] = Clean /\ req[q].missing = {} /\ req[q].pc = "new"
      OBVIOUS
    <3>3. req[q] \in {NewRequest(i) : i \in Instances}
      BY <3>2, Zenon
    <3>4. PICK i \in Instances : req[q] = NewRequest(i)
      BY <3>3, Zenon
    <3> QED
      BY <3>1, <3>4, Zenon
  <2>4. Bookkeeping(r)
    BY <2>1, <2>2, <2>3, Zenon DEF Bookkeeping
  <2>5. Tracked(r) /\ IsSnapshot(r)
    BY <2>2 DEF Tracked, IsSnapshot
  <2>6. MarksAreOld(r)
    <3>1. IdlePass.cand[r] = Clean /\ IdlePass.snap[r] = Absent
      BY DEF IdlePass
    <3>2. \A i \in Instances : worker[i].cand[r] = Clean /\ worker[i].snap[r] = Absent
      BY <2>1, <3>1, Zenon
    <3> QED
      BY <2>1, <2>2, <2>3, <3>2, Zenon DEF MarksAreOld
  <2>7. SnapshotsAreSound(r) /\ HydrationsAreCurrent(r)
    BY <2>1, <2>3 DEF SnapshotsAreSound, HydrationsAreCurrent, IdlePass
  <2> QED
    BY <2>4, <2>5, <2>6, <2>7, Zenon DEF RuleInv
<1>2. TrackingInv /\ [Next]_vars => TrackingInv'
  <2> SUFFICES ASSUME TrackingInv, [Next]_vars PROVE TrackingInv'
    OBVIOUS
  <2>1. TypeOK /\ TypeOK'
    BY StepType DEF TrackingInv
  <2>2. CASE Next
    BY <2>1, <2>2, RequestStepTracked, WorkerStepTracked, EnvironmentStepTracked, Zenon DEF Next,
       TrackingInv
  <2>3. CASE UNCHANGED vars
    BY <2>1, <2>3, Untouched, Zenon DEF vars, TrackingInv
  <2> QED
    BY <2>2, <2>3
<1> QED
  BY <1>1, <1>2, PTL DEF Spec

\* While Redis holds a change the database lacks, an instance is marked for it
\* or its reply is under way, unless a fault took the mark or the hash.
THEOREM TrackingCorrect == Spec => []ChangesAreTracked
<1>1. TrackingInv => ChangesAreTracked
  BY DEF TrackingInv, RuleInv, ChangesAreTracked
<1> QED
  BY <1>1, TrackingInvariant, PTL

\* A checkpoint is never newer than the hash, and equal to it at its version.
THEOREM SnapshotsCorrect == Spec => []CheckpointsAreSnapshots
<1>1. TrackingInv => CheckpointsAreSnapshots
  BY DEF TrackingInv, RuleInv, CheckpointsAreSnapshots
<1> QED
  BY <1>1, TrackingInvariant, PTL

=============================================================================
