----------------------- MODULE AccessQuotaUsageProofs -----------------------
(***************************************************************************)
(* The usage of a window is the sum of what was settled on it.             *)
(***************************************************************************)
EXTENDS AccessQuotaProofs, FiniteSetTheorems, WellFoundedInduction

-----------------------------------------------------------------------------
(* Sums of costs.  A sum is the community modules' fold over a set; a fact *)
(* about it is proved by looking at a smallest set that violates it.       *)

\* The element the fold takes out of a set first.
Pick(s) == CHOOSE x \in s : TRUE

\* it sums the costs of every subset of W, taking the element Pick chooses first.
SumsUp(it, rq, W) ==
    it = [s \in SUBSET W |-> IF s = {} THEN 0 ELSE Charged(rq[Pick(s)]) + it[s \ {Pick(s)}]]

Sums(rq, W) == CHOOSE it : SumsUp(it, rq, W)

\* A non-empty family of subsets of a finite set has a minimal member: the
\* form of induction the lemmas about sums use.
LEMMA MinimalMember ==
    ASSUME NEW W, IsFiniteSet(W), NEW P \in SUBSET (SUBSET W), P # {}
    PROVE  \E t \in P : \A u \in P : u \subseteq t => u = t
<1>1. IsWellFoundedOn(StrictSubsetOrdering(W), SUBSET W)
  BY FS_StrictSubsetOrderingWellFounded, FS_FiniteSubsetsOfFinite, Zenon
<1>2. PICK t \in P : \A u \in P : ~ (<<u, t>> \in StrictSubsetOrdering(W))
  BY <1>1, WFMin
<1>3. ASSUME NEW u \in P, u \subseteq t PROVE u = t
  <2>1. <<u, t>> \in (SUBSET W) \X (SUBSET W) /\ <<u, t>>[1] = u /\ <<u, t>>[2] = t
    OBVIOUS
  <2> QED
    BY <1>2, <1>3, <2>1 DEF StrictSubsetOrdering
<1> QED
  BY <1>3

\* What is left of a set without its picked element is a smaller set.
LEMMA PickLeaves ==
    ASSUME NEW s, s # {}
    PROVE  Pick(s) \in s /\ s \ {Pick(s)} \subseteq s /\ s \ {Pick(s)} # s
<1>1. Pick(s) \in s
  BY DEF Pick
<1> QED
  BY <1>1

\* The sum as the fold of the community module defines it.
LEMMA TotalIsSum == \A rq, W : Total(rq, W) = Sums(rq, W)[W]
BY DEF Total, MapThenSumSet, MapThenFoldSet, Sums, SumsUp, Pick

\* Two tables of sums agree where both are defined.
LEMMA SumsAgree ==
    ASSUME NEW rq, NEW W, IsFiniteSet(W), NEW V \in SUBSET W, NEW g, NEW h,
           SumsUp(g, rq, V), SumsUp(h, rq, W)
    PROVE  \A s \in SUBSET V : g[s] = h[s]
<1> DEFINE P == {s \in SUBSET V : g[s] # h[s]}
<1> SUFFICES ASSUME P # {} PROVE FALSE
  OBVIOUS
<1>0. IsFiniteSet(V) /\ P \in SUBSET (SUBSET V)
  BY FS_Subset, Zenon
<1>a. \A s : s \in P <=> s \in SUBSET V /\ g[s] # h[s]
  BY Zenon
<1> HIDE DEF P
<1>1. PICK t \in P : \A u \in P : u \subseteq t => u = t
  BY <1>0, MinimalMember
<1>2. t \in SUBSET V /\ t \in SUBSET W /\ g[t] # h[t]
  BY <1>a
<1>3. t # {}
  BY <1>2 DEF SumsUp
<1> DEFINE u == t \ {Pick(t)}
<1>4. u \in SUBSET V /\ u \subseteq t /\ u # t
  BY <1>2, <1>3, PickLeaves
<1>5. g[u] = h[u]
  BY <1>1, <1>4, <1>a, Zenon
<1>6. g[t] = Charged(rq[Pick(t)]) + g[u]
  BY <1>2, <1>3, Zenon DEF SumsUp
<1>7. h[t] = Charged(rq[Pick(t)]) + h[u]
  BY <1>2, <1>3, Zenon DEF SumsUp
<1> QED
  BY <1>2, <1>5, <1>6, <1>7

\* A finite set has a table of sums.
LEMMA SumsExist ==
    ASSUME NEW rq, NEW W, IsFiniteSet(W)
    PROVE  SumsUp(Sums(rq, W), rq, W)
<1> SUFFICES \E it : SumsUp(it, rq, W)
  BY DEF Sums
<1> DEFINE P == {s \in SUBSET W : ~ \E it : SumsUp(it, rq, s)}
<1> SUFFICES ASSUME P # {} PROVE FALSE
  OBVIOUS
<1>0. P \in SUBSET (SUBSET W)
  BY Zenon
<1>a. \A s : s \in P <=> s \in SUBSET W /\ ~ \E it : SumsUp(it, rq, s)
  BY Zenon
<1> HIDE DEF P
<1>1. PICK t \in P : \A u \in P : u \subseteq t => u = t
  BY <1>0, MinimalMember
<1>2. t \in SUBSET W /\ IsFiniteSet(t) /\ ~ \E it : SumsUp(it, rq, t)
  BY <1>1, <1>a, FS_Subset, Zenon
<1>3. ASSUME NEW u \in SUBSET t, u # t
      PROVE  SumsUp(Sums(rq, u), rq, u)
  BY <1>1, <1>2, <1>3, <1>a, Zenon DEF Sums
<1> DEFINE Rest(s) == s \ {Pick(s)}
           it == [s \in SUBSET t |->
                     IF s = {} THEN 0 ELSE Charged(rq[Pick(s)]) + Sums(rq, Rest(s))[Rest(s)]]
<1>4. ASSUME NEW s \in SUBSET t, s # t
      PROVE  it[s] = Sums(rq, s)[s]
  <2>1. SumsUp(Sums(rq, s), rq, s)
    BY <1>3, <1>4
  <2>2. CASE s = {}
    BY <2>1, <2>2 DEF SumsUp
  <2>3. CASE s # {}
    <3>1. Rest(s) \in SUBSET s /\ Rest(s) \in SUBSET t /\ Rest(s) # t
      BY <1>4, <2>3, PickLeaves
    <3>2. IsFiniteSet(s)
      BY <1>2, FS_Subset
    <3>3. Sums(rq, Rest(s))[Rest(s)] = Sums(rq, s)[Rest(s)]
      BY <1>3, <2>1, <3>1, <3>2, SumsAgree
    <3>4. Sums(rq, s)[s] = Charged(rq[Pick(s)]) + Sums(rq, s)[Rest(s)]
      BY <2>1, <2>3, Zenon DEF SumsUp
    <3>5. it[s] = Charged(rq[Pick(s)]) + Sums(rq, Rest(s))[Rest(s)]
      BY <2>3
    <3> QED
      BY <3>3, <3>4, <3>5
  <2> QED
    BY <2>2, <2>3
<1>5. ASSUME NEW s \in SUBSET t, s # {}
      PROVE  Sums(rq, Rest(s))[Rest(s)] = it[Rest(s)]
  <2>1. Rest(s) \in SUBSET t /\ Rest(s) # t
    BY <1>5, PickLeaves
  <2> QED
    BY <1>4, <2>1, Zenon
<1>6. it = [s \in SUBSET t |-> IF s = {} THEN 0 ELSE Charged(rq[Pick(s)]) + it[s \ {Pick(s)}]]
  BY <1>5, Zenon
<1> QED
  BY <1>2, <1>6, Zenon DEF SumsUp

\* The sum of no costs is zero; any other is the picked cost and the rest.
LEMMA TotalUnfolds ==
    ASSUME NEW rq, NEW W, IsFiniteSet(W)
    PROVE  /\ W = {} => Total(rq, W) = 0
           /\ W # {} => Total(rq, W) = Charged(rq[Pick(W)]) + Total(rq, W \ {Pick(W)})
<1>1. SumsUp(Sums(rq, W), rq, W) /\ W \in SUBSET W
  BY SumsExist
<1>2. ASSUME W = {} PROVE Total(rq, W) = 0
  BY <1>1, <1>2, TotalIsSum, Zenon DEF SumsUp
<1>3. ASSUME W # {} PROVE Total(rq, W) = Charged(rq[Pick(W)]) + Total(rq, W \ {Pick(W)})
  <2> DEFINE V == W \ {Pick(W)}
  <2>1. V \in SUBSET W /\ IsFiniteSet(V) /\ V \in SUBSET V
    BY FS_Subset
  <2>2. Sums(rq, V)[V] = Sums(rq, W)[V]
    BY <1>1, <2>1, SumsExist, SumsAgree
  <2>3. Sums(rq, W)[W] = Charged(rq[Pick(W)]) + Sums(rq, W)[V]
    BY <1>1, <1>3, Zenon DEF SumsUp
  <2> QED
    BY <2>2, <2>3, TotalIsSum
<1> QED
  BY <1>2, <1>3

\* A sum of integers is an integer, and of naturals a natural.
LEMMA TotalType ==
    ASSUME NEW rq, NEW W, IsFiniteSet(W), NEW T \in {Int, Nat}, \A q \in W : Charged(rq[q]) \in T
    PROVE  Total(rq, W) \in T
<1> DEFINE P == {s \in SUBSET W : Total(rq, s) \notin T}
<1> SUFFICES ASSUME P # {} PROVE FALSE
  OBVIOUS
<1>0. P \in SUBSET (SUBSET W)
  BY Zenon
<1>a. \A s : s \in P <=> s \in SUBSET W /\ Total(rq, s) \notin T
  BY Zenon
<1> HIDE DEF P
<1>1. PICK t \in P : \A u \in P : u \subseteq t => u = t
  BY <1>0, MinimalMember
<1>2. t \in SUBSET W /\ IsFiniteSet(t) /\ Total(rq, t) \notin T
  BY <1>1, <1>a, FS_Subset, Zenon
<1>b. 0 \in T
  OBVIOUS
<1>3. t # {}
  BY <1>2, <1>b, TotalUnfolds, Zenon
<1> DEFINE u == t \ {Pick(t)}
<1>4. Pick(t) \in W /\ u \in SUBSET W /\ u \subseteq t /\ u # t
  BY <1>2, <1>3, PickLeaves
<1>5. Total(rq, u) \in T /\ Charged(rq[Pick(t)]) \in T
  BY <1>1, <1>4, <1>a
<1>6. Total(rq, t) = Charged(rq[Pick(t)]) + Total(rq, u)
  BY <1>2, <1>3, TotalUnfolds
<1> HIDE DEF u
<1> QED
  BY <1>2, <1>5, <1>6

\* The order does not matter: any cost can be taken out of the sum.
LEMMA TotalSplits ==
    ASSUME NEW rq, NEW W, IsFiniteSet(W), \A q \in W : Charged(rq[q]) \in Int
    PROVE  \A q \in W : Total(rq, W) = Charged(rq[q]) + Total(rq, W \ {q})
<1> DEFINE Splits(s) == \A q \in s : Total(rq, s) = Charged(rq[q]) + Total(rq, s \ {q})
           P == {s \in SUBSET W : ~Splits(s)}
<1> SUFFICES ASSUME P # {} PROVE FALSE
  OBVIOUS
<1>0. P \in SUBSET (SUBSET W)
  BY Zenon
<1>a. \A s : s \in P <=> s \in SUBSET W /\ ~Splits(s)
  BY Zenon
<1> HIDE DEF P
<1>1. PICK t \in P : \A u \in P : u \subseteq t => u = t
  BY <1>0, MinimalMember
<1>2. t \in SUBSET W /\ IsFiniteSet(t) /\ ~Splits(t)
  BY <1>1, <1>a, FS_Subset, Zenon
<1>3. PICK q \in t : Total(rq, t) # Charged(rq[q]) + Total(rq, t \ {q})
  BY <1>2, Zenon
<1> DEFINE p == Pick(t)
           both == (t \ {p}) \ {q}
<1>4. p \in t /\ Total(rq, t) = Charged(rq[p]) + Total(rq, t \ {p})
  BY <1>2, TotalUnfolds, PickLeaves
<1>5. p # q
  BY <1>3, <1>4, Zenon
<1>6. t \ {p} \in SUBSET W /\ Splits(t \ {p}) /\ t \ {q} \in SUBSET W /\ Splits(t \ {q})
  <2>1. ASSUME NEW x \in t PROVE t \ {x} \in SUBSET W /\ Splits(t \ {x})
    <3>1. t \ {x} \in SUBSET W /\ t \ {x} \subseteq t /\ t \ {x} # t
      BY <1>2, Zenon
    <3> QED
      BY <1>1, <1>a, <3>1, Zenon
  <2> QED
    BY <1>3, <1>4, <2>1, Zenon
<1>7. Total(rq, t \ {p}) = Charged(rq[q]) + Total(rq, both)
  BY <1>5, <1>6
<1>8. (t \ {q}) \ {p} = both
  OBVIOUS
<1>9. Total(rq, t \ {q}) = Charged(rq[p]) + Total(rq, both)
  BY <1>4, <1>5, <1>6, <1>8, Zenon
<1>10. Total(rq, both) \in Int /\ Charged(rq[p]) \in Int /\ Charged(rq[q]) \in Int
  <2>1. IsFiniteSet(both) /\ both \in SUBSET W /\ p \in W /\ q \in W
    BY <1>2, <1>4, FS_Subset
  <2> QED
    BY <2>1, TotalType
<1> HIDE DEF p, both
<1> QED
  BY <1>3, <1>4, <1>7, <1>9, <1>10

\* Equal costs have equal sums.
LEMMA TotalSame ==
    ASSUME NEW rq, NEW rp, NEW W, IsFiniteSet(W), \A q \in W : Charged(rq[q]) = Charged(rp[q])
    PROVE  Total(rq, W) = Total(rp, W)
<1> DEFINE P == {s \in SUBSET W : Total(rq, s) # Total(rp, s)}
<1> SUFFICES ASSUME P # {} PROVE FALSE
  OBVIOUS
<1>0. P \in SUBSET (SUBSET W)
  BY Zenon
<1>a. \A s : s \in P <=> s \in SUBSET W /\ Total(rq, s) # Total(rp, s)
  BY Zenon
<1> HIDE DEF P
<1>1. PICK t \in P : \A u \in P : u \subseteq t => u = t
  BY <1>0, MinimalMember
<1>2. t \in SUBSET W /\ IsFiniteSet(t) /\ Total(rq, t) # Total(rp, t)
  BY <1>1, <1>a, FS_Subset, Zenon
<1>3. t # {}
  BY <1>2, TotalUnfolds, Zenon
<1> DEFINE u == t \ {Pick(t)}
<1>4. Pick(t) \in W /\ u \in SUBSET W /\ u \subseteq t /\ u # t
  BY <1>2, <1>3, PickLeaves
<1>5. Total(rq, u) = Total(rp, u) /\ Charged(rq[Pick(t)]) = Charged(rp[Pick(t)])
  BY <1>1, <1>4, <1>a
<1>6. /\ Total(rq, t) = Charged(rq[Pick(t)]) + Total(rq, u)
      /\ Total(rp, t) = Charged(rp[Pick(t)]) + Total(rp, u)
  BY <1>2, <1>3, TotalUnfolds
<1> HIDE DEF u
<1> QED
  BY <1>2, <1>5, <1>6

\* No costs sum to nothing.
LEMMA SummedEmpty == \A rq : Summed(rq, {}) = 0
<1>1. \A rq : Total(rq, {}) = 0
  BY TotalUnfolds, FS_EmptySet, Zenon
<1> QED
  BY <1>1, AmountsAssumption DEF Summed

\* The saturated sum depends on the costs of the set alone.
LEMMA SummedSame ==
    ASSUME NEW rq, NEW rp, NEW W, IsFiniteSet(W),
           \A q \in W : rq[q].settled = rp[q].settled /\ rq[q].cost = rp[q].cost
    PROVE  Summed(rq, W) = Summed(rp, W)
<1>0. \A q \in W : Charged(rq[q]) = Charged(rp[q])
  BY Zenon DEF Charged
<1>1. Total(rq, W) = Total(rp, W)
  BY <1>0, TotalSame
<1> QED
  BY <1>1, Zenon DEF Summed

\* Saturated addition, as the settle script does it (access_quota_scripts.go:143).
LEMMA StaysSaturated ==
    \A cost \in Int : Charge(MaxUsed, cost) = MaxUsed
  BY AmountsAssumption DEF Charge

\* Adding to a saturated sum saturates the sum.
LEMMA Saturates ==
    ASSUME NEW sum \in Nat, NEW cost \in Nat
    PROVE  Charge(IF sum > MaxUsed THEN MaxUsed ELSE sum, cost) =
             IF cost + sum > MaxUsed THEN MaxUsed ELSE cost + sum
  BY AmountsAssumption DEF Charge

\* What settlements charge is an integer, and a natural number without refunds.
LEMMA ChargedType ==
    ASSUME NEW e, e.settled \in Nat, e.cost \in Int
    PROVE  Charged(e) \in Int /\ (~(e.cost < 0) => Charged(e) \in Nat)
  BY DEF Charged

\* One more settlement adds its cost to what the request has charged.
LEMMA ChargedAgain ==
    ASSUME NEW e, NEW f, e.settled \in Nat, f.cost \in Int, f.settled = e.settled + 1,
           e.settled > 0 => e.cost = f.cost
    PROVE  /\ e.settled > 0 => Charged(f) = f.cost + Charged(e)
           /\ e.settled = 0 => Charged(f) = f.cost
<1> DEFINE n == e.settled
           c == f.cost
<1>1. n \in Nat /\ c \in Int
  OBVIOUS
<1>2. Charged(f) = (n + 1) * c /\ (n > 0 => Charged(e) = n * c)
  BY DEF Charged
<1> HIDE DEF n, c
<1>3. (n + 1) * c = c + n * c /\ (n = 0 => (n + 1) * c = c)
  BY <1>1
<1>4. (n > 0 => Charged(f) = c + Charged(e)) /\ (n = 0 => Charged(f) = c)
  BY <1>2, <1>3, Zenon
<1> QED
  BY <1>4 DEF n, c

\* One more settlement charges its cost to the sum.
LEMMA SummedAdds ==
    ASSUME NEW rq, NEW rp, NEW W, IsFiniteSet(W), NEW q,
           \A p \in W \cup {q} : /\ rq[p].settled \in Nat /\ rq[p].cost \in Int
                                 /\ rp[p].settled \in Nat /\ rp[p].cost \in Int,
           \A p \in W : rq[p].cost = rp[p].cost /\ (p # q => rq[p].settled = rp[p].settled),
           rp[q].settled = rq[q].settled + 1, q \in W <=> rq[q].settled > 0
    PROVE  Summed(rp, W \cup {q}) = Charge(Summed(rq, W), rp[q].cost)
<1> DEFINE V == W \cup {q}
           R == W \ {q}
           cost == rp[q].cost
<1>1. IsFiniteSet(V) /\ IsFiniteSet(R)
  BY FS_AddElement, FS_Subset
<1>2. V \ {q} = R /\ q \in V /\ (q \notin W => R = W) /\ cost \in Int
  OBVIOUS
<1>a. \A p \in V : Charged(rq[p]) \in Int /\ Charged(rp[p]) \in Int
  BY ChargedType
<1>3. Total(rp, V) = cost + Total(rq, W)
  <2>1. Total(rp, V) = Charged(rp[q]) + Total(rp, R)
    <3>1. \A p \in V : Charged(rp[p]) \in Int
      BY <1>a, Zenon
    <3> HIDE DEF V, R, cost
    <3>2. \A p \in V : Total(rp, V) = Charged(rp[p]) + Total(rp, V \ {p})
      BY <1>1, <3>1, TotalSplits
    <3> QED
      BY <1>2, <3>2, Zenon
  <2>2. Total(rp, R) = Total(rq, R)
    <3>1. \A p \in R : Charged(rp[p]) = Charged(rq[p])
      BY DEF Charged
    <3> QED
      BY <1>1, <3>1, TotalSame
  <2>3. Total(rq, R) \in Int
    BY <1>1, <1>a, TotalType
  <2>4. /\ q \in W => Charged(rp[q]) = cost + Charged(rq[q])
        /\ q \notin W => Charged(rp[q]) = cost
    <3>1. rq[q].settled \in Nat /\ (rq[q].settled > 0 => rq[q].cost = rp[q].cost)
      OBVIOUS
    <3>2. q \notin W => rq[q].settled = 0
      BY <3>1
    <3> QED
      BY <1>2, <3>1, <3>2, ChargedAgain
  <2>5. CASE q \in W
    <3>1. Total(rq, W) = Charged(rq[q]) + Total(rq, R)
      BY <1>a, <2>5, TotalSplits
    <3>2. Charged(rq[q]) \in Int
      BY <1>2, <1>a
    <3> HIDE DEF V, R, cost
    <3> QED
      BY <1>2, <2>1, <2>2, <2>3, <2>4, <2>5, <3>1, <3>2
  <2>6. CASE q \notin W
    BY <1>2, <2>1, <2>2, <2>4, <2>6, Zenon
  <2> QED
    BY <2>5, <2>6, Zenon
<1>5. CASE \E p \in W : rq[p].cost < 0
  <2>1. Summed(rp, V) = MaxUsed /\ Summed(rq, W) = MaxUsed
    BY <1>5, Zenon DEF Summed
  <2> QED
    BY <1>2, <2>1, StaysSaturated
<1>6. CASE cost < 0
  <2>1. Summed(rp, V) = MaxUsed
    BY <1>2, <1>6, Zenon DEF Summed
  <2> QED
    BY <1>6, <2>1, Zenon DEF Charge
<1>7. CASE ~(cost < 0) /\ ~\E p \in W : rq[p].cost < 0
  <2>1. \A p \in W : Charged(rq[p]) \in Nat
    BY <1>7, ChargedType
  <2>2. Total(rq, W) \in Nat
    BY <2>1, TotalType
  <2>3. ~\E p \in V : rp[p].cost < 0
    BY <1>7, Zenon
  <2>4. /\ Summed(rq, W) = IF Total(rq, W) > MaxUsed THEN MaxUsed ELSE Total(rq, W)
        /\ Summed(rp, V) = IF Total(rp, V) > MaxUsed THEN MaxUsed ELSE Total(rp, V)
    BY <1>7, <2>3, Zenon DEF Summed
  <2>5. cost \in Nat
    BY <1>2, <1>7
  <2>6. Charge(Summed(rq, W), cost) =
           IF cost + Total(rq, W) > MaxUsed THEN MaxUsed ELSE cost + Total(rq, W)
    BY <2>2, <2>4, <2>5, Saturates, Zenon
  <2> QED
    BY <1>3, <2>4, <2>6, Zenon
<1> QED
  BY <1>5, <1>6, <1>7, Zenon

-----------------------------------------------------------------------------
(* What a state counts. *)

\* The numbers of a state.
LEMMA StateFields ==
    ASSUME NEW s \in State
    PROVE  s.rev \in Nat /\ s.gen \in Nat /\ s.ver \in Nat
  BY Zenon DEF State

\* A ticket is its revision and its generation.
LEMMA TicketFields ==
    ASSUME NEW t \in Ticket
    PROVE  t.rev \in Nat /\ t.gen \in Nat /\ t = [rev |-> t.rev, gen |-> t.gen]
  BY DEF Ticket

\* What a request holds of each rule.
LEMMA RequestFields ==
    ASSUME NEW e \in Request, NEW r \in Rules
    PROVE  /\ e.ticket[r] \in Ticket /\ e.read[r] \in State
           /\ e.cost \in Int /\ e.settled \in Nat
  BY Zenon DEF Request

\* A ticket of a state is of a lower revision than a later one.
LEMMA TicketBelow ==
    ASSUME NEW t \in Ticket, NEW s \in State, NotAfter(t, s), NEW n \in Nat, s.rev < n
    PROVE  t.rev < n
<1>1. t.rev \in Nat /\ s.rev \in Nat
  BY StateFields, TicketFields, Zenon
<1> QED
  BY <1>1 DEF NotAfter

\* Request e becomes f without a settlement: what it settled stays, and its
\* ticket of rule r is not of a window after state s.
KeepsCosts(e, f, r, s) ==
    /\ f.settled = e.settled
    /\ e.settled > 0 => f.ticket[r] = e.ticket[r] /\ f.cost = e.cost
    /\ f.ticket[r] = e.ticket[r] \/ NotAfter(f.ticket[r], s)

SettledOf(rq) == {q \in Requests : rq[q].settled > 0}

\* The costs of a window are of settled requests, finitely many.
LEMMA WindowCostsFinite ==
    ASSUME NEW rq, IsFiniteSet(SettledOf(rq)), NEW r, NEW s
    PROVE  IsFiniteSet(WindowCosts(rq, r, s))
<1>1. WindowCosts(rq, r, s) \subseteq SettledOf(rq)
  BY Zenon DEF WindowCosts, SettledOf
<1> QED
  BY <1>1, FS_Subset

\* A state counts all as long as nothing is settled.
LEMMA CountsKept ==
    ASSUME NEW rq, NEW rp, IsFiniteSet(SettledOf(rq)), NEW r \in Rules, NEW s,
           CountsAll(rq, r, s), \A q \in Requests : KeepsCosts(rq[q], rp[q], r, s)
    PROVE  CountsAll(rp, r, s)
<1>1. WindowCosts(rp, r, s) = WindowCosts(rq, r, s)
  BY Zenon DEF WindowCosts, KeepsCosts
<1>2. \A q \in WindowCosts(rq, r, s) : rq[q].settled = rp[q].settled /\ rq[q].cost = rp[q].cost
  BY Zenon DEF WindowCosts, KeepsCosts
<1>3. IsFiniteSet(WindowCosts(rq, r, s))
  BY WindowCostsFinite, Zenon
<1>4. Summed(rq, WindowCosts(rq, r, s)) = Summed(rp, WindowCosts(rq, r, s))
  BY <1>2, <1>3, SummedSame
<1> QED
  BY <1>1, <1>4, Zenon DEF CountsAll, KeepsCosts

\* A window that opens has no costs and no tickets yet.
LEMMA CountsOpened ==
    ASSUME NEW rq \in [Requests -> Request], NEW r \in Rules, NEW s \in State, NEW now \in Nat,
           CountsAll(rq, r, s)
    PROVE  CountsAll(rq, r, Open(s, now))
<1> DEFINE o == Open(s, now)
<1>1. o.used = 0 /\ o.rev = s.rev /\ o.gen = s.gen + 1
  BY DEF Open, State
<1>2. \A q \in Requests : rq[q].ticket[r] \in Ticket
  BY RequestFields, Zenon
<1> HIDE DEF o
<1>3. \A t \in Ticket : NotAfter(t, s) => NotAfter(t, o) /\ t # [rev |-> o.rev, gen |-> o.gen]
  <2> SUFFICES ASSUME NEW t \in Ticket, NotAfter(t, s)
               PROVE  NotAfter(t, o) /\ ~(t.rev = o.rev /\ t.gen = o.gen)
    OBVIOUS
  <2>1. t.rev \in Nat /\ t.gen \in Nat /\ s.rev \in Nat /\ s.gen \in Nat
    BY StateFields, TicketFields, Zenon
  <2> QED
    BY <1>1, <2>1 DEF NotAfter
<1>4. WindowCosts(rq, r, o) = {}
  BY <1>2, <1>3, Zenon DEF WindowCosts, CountsAll
<1>5. CountsAll(rq, r, o)
  BY <1>1, <1>2, <1>3, <1>4, SummedEmpty, Zenon DEF CountsAll
<1> QED
  BY <1>5 DEF o

\* Request q settles its cost; its ticket of rule r is of another window.
LEMMA CountsUncharged ==
    ASSUME NEW rq, NEW rp, IsFiniteSet(SettledOf(rq)), NEW r \in Rules, NEW s,
           NEW q \in Requests,
           \A p \in Requests : p # q => rp[p] = rq[p],
           rp[q].ticket[r] = rq[q].ticket[r],
           rq[q].ticket[r] # [rev |-> s.rev, gen |-> s.gen],
           CountsAll(rq, r, s)
    PROVE  CountsAll(rp, r, s)
<1>1. WindowCosts(rp, r, s) = WindowCosts(rq, r, s)
  BY Zenon DEF WindowCosts
<1>2. \A p \in WindowCosts(rq, r, s) : rq[p].settled = rp[p].settled /\ rq[p].cost = rp[p].cost
  BY Zenon DEF WindowCosts
<1>3. IsFiniteSet(WindowCosts(rq, r, s))
  BY WindowCostsFinite, Zenon
<1>4. Summed(rq, WindowCosts(rq, r, s)) = Summed(rp, WindowCosts(rq, r, s))
  BY <1>2, <1>3, SummedSame
<1> QED
  BY <1>1, <1>4, Zenon DEF CountsAll

\* A settlement charges the usage of the window and leaves it the window it is.
LEMMA SettledFields ==
    ASSUME NEW s \in State, NEW cost
    PROVE  /\ Settled(s, cost).rev = s.rev /\ Settled(s, cost).gen = s.gen
           /\ Settled(s, cost).used = Charge(s.used, cost)
  BY DEF Settled, State

\* Request q settles its cost on its own window.
LEMMA CountsCharged ==
    ASSUME NEW rq \in [Requests -> Request], NEW rp \in [Requests -> Request],
           IsFiniteSet(SettledOf(rq)), NEW r \in Rules, NEW s \in State,
           NEW q \in Requests, rp[q].settled = rq[q].settled + 1,
           rq[q].settled > 0 => rp[q].cost = rq[q].cost,
           \A p \in Requests : p # q => rp[p] = rq[p],
           rp[q].ticket[r] = rq[q].ticket[r],
           rq[q].ticket[r] = [rev |-> s.rev, gen |-> s.gen],
           CountsAll(rq, r, s)
    PROVE  CountsAll(rp, r, Settled(s, rp[q].cost))
<1> DEFINE W == WindowCosts(rq, r, s)
           o == Settled(s, rp[q].cost)
<1>1. o.rev = s.rev /\ o.gen = s.gen /\ o.used = Charge(s.used, rp[q].cost)
  BY SettledFields
<1> HIDE DEF o
<1>a. \A p \in Requests : /\ rq[p].settled \in Nat /\ rq[p].cost \in Int
                          /\ rp[p].settled \in Nat /\ rp[p].cost \in Int
  BY RequestFields, Zenon
<1>b. rp[q].settled > 0
  BY <1>a
<1>2. WindowCosts(rp, r, o) = W \cup {q} /\ (q \in W <=> rq[q].settled > 0)
  BY <1>1, <1>b, Zenon DEF WindowCosts
<1>3. IsFiniteSet(W)
  BY WindowCostsFinite, Zenon
<1>4. \A p \in W : /\ rq[p].cost = rp[p].cost /\ p \in Requests
                   /\ p # q => rq[p].settled = rp[p].settled
  BY <1>2, Zenon DEF WindowCosts
<1> HIDE DEF W
<1>5. \A p \in W \cup {q} : /\ rq[p].settled \in Nat /\ rq[p].cost \in Int
                            /\ rp[p].settled \in Nat /\ rp[p].cost \in Int
  BY <1>a, <1>4, Zenon
<1>6. Summed(rp, W \cup {q}) = Charge(Summed(rq, W), rp[q].cost)
  <2>1. \A p \in W : rq[p].cost = rp[p].cost /\ (p # q => rq[p].settled = rp[p].settled)
    BY <1>4, Zenon
  <2>2. q \in W <=> rq[q].settled > 0
    BY <1>2, Zenon
  <2> QED
    BY <1>3, <1>5, <2>1, <2>2, SummedAdds
<1>8. s.used = Summed(rq, W)
  BY Zenon DEF CountsAll, W
<1>9. \A t : NotAfter(t, s) => NotAfter(t, o)
  BY <1>1, Zenon DEF NotAfter
<1>10. CountsAll(rp, r, o)
  BY <1>1, <1>2, <1>6, <1>8, <1>9, Zenon DEF CountsAll
<1> QED
  BY <1>10, Zenon DEF o

-----------------------------------------------------------------------------
(* Steps and what they leave counted. *)

Ending == {"done", "failed"}
Charging == {"admitting", "admitted", "settling"}

\* What TicketsInv says of one request.
TicketsFit(e) ==
    /\ e.settled > 0 => e.pc \in Ending \/ (e.pc \in Charging /\ e.pc # "admitting")
    /\ \A r \in Rules : e.ticket[r].rev > 0 =>
          e.pc \in Ending \/ (e.pc \in Charging /\ e.rules[r].rev > 0)

\* Request e becomes f and neither settles nor gets a ticket.
Quietly(e, f) ==
    /\ TicketsFit(f)
    /\ f.settled = e.settled
    /\ e.settled > 0 => f.ticket = e.ticket /\ f.cost = e.cost
    /\ f.ticket = e.ticket \/ f.ticket = [r \in Rules |-> NoTicket]
    /\ f.pc \in Charging => e.pc \in Charging /\ f.ticket = e.ticket

\* A request that ends keeps what it settled and drops any other ticket.
LEMMA EndedQuietly ==
    ASSUME NEW e, NEW pc \in {"done", "failed"}
    PROVE  Quietly(e, Ended(e, pc)) /\ Ended(e, pc).pc = pc
<1> DEFINE f == Ended(e, pc)
<1>1. /\ f.pc = pc /\ f.settled = e.settled
      /\ f.ticket = IF e.settled > 0 THEN e.ticket ELSE [r \in Rules |-> NoTicket]
      /\ f.cost = IF e.settled > 0 THEN e.cost ELSE 0
  BY Zenon DEF Ended, NewRequest
<1>2. pc \in Ending /\ pc \notin Charging
  BY Zenon DEF Ending, Charging
<1> HIDE DEF f
<1>3. Quietly(e, f)
  BY <1>1, <1>2, Zenon DEF Quietly, TicketsFit
<1> QED
  BY <1>1, <1>3, Zenon DEF f

\* An unchanged request is quiet.
LEMMA SameQuietly ==
    ASSUME NEW e, TicketsFit(e)
    PROVE  Quietly(e, e)
  BY Zenon DEF Quietly

\* The requests that settled do not change, so their tickets stay in order.
LEMMA TicketsKept ==
    ASSUME TicketsInv, \A q \in Requests : Quietly(req[q], req'[q])
    PROVE  TicketsInv'
<1>1. {q \in Requests : req'[q].settled > 0} = {q \in Requests : req[q].settled > 0}
  BY Zenon DEF Quietly
<1> QED
  BY <1>1, Zenon DEF TicketsInv, Quietly, TicketsFit, Ending, Charging, RulesOf

\* TicketsInv, request by request.
LEMMA TicketsOfRequests ==
    TicketsInv <=> IsFiniteSet(SettledOf(req)) /\ \A q \in Requests : TicketsFit(req[q])
  BY Zenon DEF TicketsInv, SettledOf, TicketsFit, Ending, Charging, RulesOf

\* Request e becomes f without a settlement, and a new ticket of rule r is of
\* the window of state s.
Ticketed(e, f, r, s) ==
    /\ f.settled = e.settled
    /\ e.settled > 0 => f.ticket = e.ticket /\ f.cost = e.cost
    /\ \/ f.ticket[r] = e.ticket[r] \/ f.ticket[r] = NoTicket
       \/ f.ticket[r] = [rev |-> s.rev, gen |-> s.gen]

\* A ticket of state s, or none, is not after s nor after a later revision.
LEMMA TicketedKeeps ==
    ASSUME NEW e, NEW f, NEW r \in Rules, NEW s \in State, NEW z \in State, Ticketed(e, f, r, s),
           z.rev > 0, s = z \/ s.rev < z.rev
    PROVE  KeepsCosts(e, f, r, z)
<1>0. s.rev \in Nat /\ s.gen \in Nat /\ z.rev \in Nat /\ z.gen \in Nat
  BY StateFields, Zenon
<1>1. NotAfter(NoTicket, z) /\ NotAfter([rev |-> s.rev, gen |-> s.gen], z)
  BY <1>0 DEF NotAfter, NoTicket
<1> QED
  BY <1>1, Zenon DEF Ticketed, KeepsCosts

\* A rule counts all after a step that settles nothing, if the states it leaves
\* for the hash, the row and the hydrations count what was settled before.
LEMMA UsageMoved ==
    ASSUME TicketsInv, TypeOK', NEW r \in Rules,
           \A q \in Requests : Ticketed(req[q], req'[q], r, redis'[r]),
           redis'[r].rev > 0 => CountsAll(req, r, redis'[r]),
           redis'[r].rev < db'[r].rev => CountsAll(req, r, db'[r]),
           \A q \in Requests :
               /\ req'[q].pc = "init" /\ r \in req'[q].missing
                  /\ redis'[r].rev < req'[q].read[r].rev => CountsAll(req, r, req'[q].read[r])
               /\ req'[q].pc \in Charging /\ req'[q].ticket[r].rev > 0 => redis'[r].rev > 0
    PROVE  UsageInv(r)'
<1>0. redis'[r] \in State /\ db'[r] \in State /\ \A q \in Requests : req'[q].read[r] \in State
  BY RequestFields, Zenon DEF TypeOK
<1>1. ASSUME NEW s \in State, s.rev > 0, s = redis'[r] \/ redis'[r].rev < s.rev,
             CountsAll(req, r, s)
      PROVE  CountsAll(req', r, s)
  <2>1. \A q \in Requests : KeepsCosts(req[q], req'[q], r, s)
    BY <1>0, <1>1, TicketedKeeps, Zenon
  <2> QED
    BY <1>1, <2>1, CountsKept, TicketsOfRequests, Zenon
<1>2. \A s \in State : redis'[r].rev < s.rev => s.rev > 0
  <2>1. redis'[r].rev \in Nat /\ \A s \in State : s.rev \in Nat
    BY <1>0, StateFields, Zenon
  <2> QED
    BY <2>1
<1>3. redis'[r].rev > 0 => CountsAll(req', r, redis'[r])
  BY <1>0, <1>1, Zenon
<1>4. redis'[r].rev < db'[r].rev => CountsAll(req', r, db'[r])
  BY <1>0, <1>1, <1>2, Zenon
<1>5. ASSUME NEW q \in Requests, req'[q].pc = "init", r \in req'[q].missing,
             redis'[r].rev < req'[q].read[r].rev
      PROVE  CountsAll(req', r, req'[q].read[r])
  BY <1>0, <1>1, <1>2, <1>5, Zenon
<1> QED
  BY <1>3, <1>4, <1>5, Zenon DEF UsageInv, Charging

\* While requests are quiet, a rule counts all as before, if its hash does not
\* move and its row, while ahead of the hash, counts all.
LEMMA UsageKept ==
    ASSUME TicketsInv, TypeOK', \A q \in Requests : Quietly(req[q], req'[q]),
           NEW r \in Rules, UsageInv(r), redis'[r] = redis[r],
           redis[r].rev < db'[r].rev => CountsAll(req, r, db'[r]),
           \A q \in Requests : req'[q].pc = "init" =>
               \/ req[q].pc = "init" /\ req'[q].missing = req[q].missing /\ req'[q].read = req[q].read
               \/ req'[q].read = db
    PROVE  UsageInv(r)'
<1>1. \A q \in Requests : Ticketed(req[q], req'[q], r, redis'[r])
  BY Zenon DEF Quietly, Ticketed
<1>2. redis'[r].rev > 0 => CountsAll(req, r, redis'[r])
  BY Zenon DEF UsageInv
<1>3. \A q \in Requests :
        req'[q].pc = "init" /\ r \in req'[q].missing /\ redis'[r].rev < req'[q].read[r].rev =>
            CountsAll(req, r, req'[q].read[r])
  BY Zenon DEF UsageInv
<1>4. \A q \in Requests :
        req'[q].pc \in Charging /\ req'[q].ticket[r].rev > 0 => redis'[r].rev > 0
  BY Zenon DEF UsageInv, Quietly, Charging
<1> QED
  BY <1>1, <1>2, <1>3, <1>4, UsageMoved, Zenon

\* A quiet step of request q.
LEMMA QuietRequest ==
    ASSUME ExactInv, TypeOK', NEW q \in Requests,
           \A p \in Requests : p # q => req'[p] = req[p],
           Quietly(req[q], req'[q]), UNCHANGED <<redis, db, forked>>,
           req'[q].pc = "init" =>
               \/ req[q].pc = "init" /\ req'[q].missing = req[q].missing /\ req'[q].read = req[q].read
               \/ req'[q].read = db
    PROVE  ExactInv'
<1>1. \A p \in Requests : Quietly(req[p], req'[p])
  BY SameQuietly, TicketsOfRequests, Zenon DEF ExactInv
<1>2. TicketsInv'
  BY <1>1, TicketsKept, Zenon DEF ExactInv
<1>3. ASSUME NEW r \in Rules, ~forked'[r] PROVE UsageInv(r)'
  <2>1. UsageInv(r)
    BY <1>3, Zenon DEF ExactInv
  <2>2. redis[r].rev < db'[r].rev => CountsAll(req, r, db'[r])
    BY <2>1, Zenon DEF UsageInv
  <2> QED
    BY <1>1, <2>1, <2>2, UsageKept, Zenon DEF ExactInv
<1> QED
  BY <1>2, <1>3, Zenon DEF ExactInv

\* An admission gives tickets of the windows it leaves in Redis; those it opens
\* have no costs yet.
LEMMA AdmitExact ==
    ASSUME TypeOK, ExactInv, TypeOK', NEW q \in Requests, EvaluateAdmits(q)
    PROVE  ExactInv'
<1>0. /\ req \in [Requests -> Request] /\ req[q] \in Request /\ redis \in [Rules -> State]
      /\ req[q].now \in Nat /\ req[q].rules \in [Rules -> Definition]
  BY Zenon DEF TypeOK, Request
<1>1. \A p \in Requests : p # q => req'[p] = req[p]
  BY <1>0, Zenon DEF EvaluateAdmits
<1>2. /\ req'[q].settled = req[q].settled /\ req'[q].rules = req[q].rules
      /\ req'[q].pc \in Charging /\ req[q].pc = "evaluate"
      /\ req'[q].ticket = [r \in Rules |-> IF r \in RulesOf(q)
                             THEN [rev |-> req[q].rules[r].rev, gen |-> redis'[r].gen] ELSE NoTicket]
  BY <1>0, Zenon DEF EvaluateAdmits, Request, Charging
<1>3. UNCHANGED <<db, forked>>
  BY Zenon DEF EvaluateAdmits
<1>4. ~(req[q].settled > 0)
  BY <1>2, TicketsOfRequests, Zenon DEF ExactInv, TicketsFit, Ending, Charging
<1>5. TicketsFit(req'[q])
  <2>1. ~(req'[q].settled > 0) /\ NoTicket.rev = 0 /\ ~(NoTicket.rev > 0)
    BY <1>2, <1>4 DEF NoTicket
  <2>2. \A r \in Rules : req'[q].ticket[r].rev > 0 => req[q].rules[r].rev > 0
    BY <1>2, <2>1, Zenon DEF RulesOf
  <2> QED
    BY <1>2, <2>1, <2>2, Zenon DEF TicketsFit
<1>6. TicketsInv'
  <2>1. SettledOf(req') = SettledOf(req)
    BY <1>1, <1>2, Zenon DEF SettledOf
  <2>2. \A p \in Requests : TicketsFit(req'[p])
    BY <1>1, <1>5, TicketsOfRequests, Zenon DEF ExactInv
  <2>3. IsFiniteSet(SettledOf(req'))
    BY <2>1, TicketsOfRequests, Zenon DEF ExactInv
  <2> QED
    BY <2>2, <2>3, Zenon DEF TicketsInv, SettledOf, TicketsFit, Ending, Charging, RulesOf
<1>7. ASSUME NEW r \in Rules, ~forked'[r] PROVE UsageInv(r)'
  <2>0. UsageInv(r) /\ redis[r] \in State
    BY <1>0, <1>3, <1>7, Zenon DEF ExactInv
  <2>1. r \in RulesOf(q) => redis[r].rev = req[q].rules[r].rev /\ redis[r].rev > 0
    <3>1. r \in RulesOf(q) => /\ req[q].rules[r].rev > 0
                              /\ ~(redis[r].rev > req[q].rules[r].rev)
                              /\ ~(redis[r].rev < req[q].rules[r].rev)
      BY Zenon DEF EvaluateAdmits, Stale, Missing, RulesOf
    <3>2. redis[r].rev \in Nat /\ req[q].rules[r].rev \in Nat
      BY <1>0, <2>0, Zenon DEF State, Definition
    <3> QED
      BY <3>1, <3>2
  <2>2. redis'[r] = redis[r] \/ redis'[r] = Open(redis[r], req[q].now)
    BY Zenon DEF EvaluateAdmits
  <2>3. redis'[r].rev = redis[r].rev
    BY <2>0, <2>2, Zenon DEF Open, State
  <2>4. redis'[r].rev > 0 => CountsAll(req, r, redis'[r])
    BY <1>0, <2>0, <2>2, <2>3, CountsOpened, Zenon DEF UsageInv
  <2>5. \A p \in Requests : Ticketed(req[p], req'[p], r, redis'[r])
    <3>1. \/ req'[q].ticket[r] = NoTicket
          \/ req'[q].ticket[r] = [rev |-> redis'[r].rev, gen |-> redis'[r].gen]
      <4>1. CASE r \in RulesOf(q)
        BY <1>2, <2>1, <2>3, <4>1
      <4>2. CASE r \notin RulesOf(q)
        BY <1>2, <4>2, Zenon
      <4> QED
        BY <4>1, <4>2, Zenon
    <3>2. Ticketed(req[q], req'[q], r, redis'[r])
      BY <1>2, <1>4, <3>1, Zenon DEF Ticketed
    <3>3. \A p \in Requests : p # q => Ticketed(req[p], req'[p], r, redis'[r])
      BY <1>1, Zenon DEF Ticketed
    <3> QED
      BY <3>2, <3>3, Zenon
  <2>6. redis'[r].rev < db'[r].rev => CountsAll(req, r, db'[r])
    BY <1>3, <2>0, <2>3, Zenon DEF UsageInv
  <2>7. \A p \in Requests :
          /\ req'[p].pc = "init" /\ r \in req'[p].missing
             /\ redis'[r].rev < req'[p].read[r].rev => CountsAll(req, r, req'[p].read[r])
          /\ req'[p].pc \in Charging /\ req'[p].ticket[r].rev > 0 => redis'[r].rev > 0
    <3>1. req'[q].pc # "init"
      BY <1>2, Zenon DEF Charging
    <3>2. req'[q].ticket[r].rev > 0 => redis'[r].rev > 0
      <4>1. CASE r \in RulesOf(q)
        BY <2>1, <2>3, <4>1, Zenon
      <4>2. CASE r \notin RulesOf(q)
        BY <1>2, <4>2 DEF NoTicket
      <4> QED
        BY <4>1, <4>2
    <3>3. \A p \in Requests : p # q =>
            /\ req'[p].pc = "init" /\ r \in req'[p].missing
               /\ redis'[r].rev < req'[p].read[r].rev => CountsAll(req, r, req'[p].read[r])
            /\ req'[p].pc \in Charging /\ req'[p].ticket[r].rev > 0 => redis'[r].rev > 0
      BY <1>1, <2>0, <2>3, Zenon DEF UsageInv, Charging
    <3> QED
      BY <3>1, <3>2, <3>3, Zenon
  <2> QED
    BY <2>4, <2>5, <2>6, <2>7, UsageMoved, Zenon DEF ExactInv
<1> QED
  BY <1>6, <1>7, Zenon DEF ExactInv

\* A hydration rebuilds the hash from a state that counts all.
LEMMA InitExact ==
    ASSUME TypeOK, ExactInv, TypeOK', NEW q \in Requests, InitScript(q)
    PROVE  ExactInv'
<1>0. req \in [Requests -> Request] /\ req[q] \in Request
  BY Zenon DEF TypeOK
<1>1. /\ \A p \in Requests : p # q => req'[p] = req[p]
      /\ req'[q].settled = req[q].settled /\ req'[q].ticket = req[q].ticket
      /\ req'[q].cost = req[q].cost /\ req'[q].pc = "evaluate" /\ req[q].pc = "init"
  BY <1>0, Zenon DEF InitScript, Request
<1>2. UNCHANGED <<db, forked>>
  BY Zenon DEF InitScript
<1>3. \A p \in Requests : TicketsFit(req[p])
  BY TicketsOfRequests, Zenon DEF ExactInv
<1>4. \A p \in Requests : Quietly(req[p], req'[p])
  <2>1. "evaluate" \notin Charging /\ "init" \notin Charging /\ "init" \notin Ending
    BY DEF Charging, Ending
  <2>2. TicketsFit(req'[q])
    BY <1>1, <1>3, <2>1, Zenon DEF TicketsFit
  <2>3. Quietly(req[q], req'[q])
    BY <1>1, <2>1, <2>2, Zenon DEF Quietly
  <2> QED
    BY <1>1, <1>3, <2>3, SameQuietly, Zenon
<1>5. TicketsInv'
  BY <1>4, TicketsKept, Zenon DEF ExactInv
<1>6. ASSUME NEW r \in Rules, ~forked'[r] PROVE UsageInv(r)'
  <2>0. UsageInv(r) /\ redis[r] \in State /\ db[r] \in State
        /\ \A p \in Requests : req[p].read[r] \in State
    BY <1>2, <1>6, RequestFields, Zenon DEF ExactInv, TypeOK
  <2>1. CASE redis'[r] = redis[r]
    <3>1. redis[r].rev < db'[r].rev => CountsAll(req, r, db'[r])
      BY <1>2, <2>0, Zenon DEF UsageInv
    <3>2. \A p \in Requests : req'[p].pc = "init" =>
            req[p].pc = "init" /\ req'[p].missing = req[p].missing /\ req'[p].read = req[p].read
      BY <1>1, Zenon
    <3> QED
      BY <1>4, <2>0, <2>1, <3>1, <3>2, UsageKept, Zenon DEF ExactInv
  <2>2. CASE redis'[r] # redis[r]
    <3>1. /\ r \in req[q].missing /\ redis[r].rev < req[q].read[r].rev
          /\ redis'[r] = req[q].read[r]
      BY <2>2, Zenon DEF InitScript, Hydrated
    <3>2. redis'[r].rev > 0 /\ \A s \in State : redis'[r].rev < s.rev => redis[r].rev < s.rev
      <4>1. redis[r].rev \in Nat /\ \A s \in State : s.rev \in Nat
        BY <2>0, StateFields, Zenon
      <4>2. req[q].read[r].rev \in Nat
        BY <2>0, <4>1, Zenon
      <4> QED
        BY <3>1, <4>1, <4>2
    <3>3. CountsAll(req, r, redis'[r])
      BY <1>1, <2>0, <3>1, Zenon DEF UsageInv
    <3>4. redis'[r].rev < db'[r].rev => CountsAll(req, r, db'[r])
      BY <1>2, <2>0, <3>2, Zenon DEF UsageInv
    <3>5. \A p \in Requests : req'[p].pc = "init" /\ r \in req'[p].missing
             /\ redis'[r].rev < req'[p].read[r].rev => CountsAll(req, r, req'[p].read[r])
      BY <1>1, <2>0, <3>2, Zenon DEF UsageInv
    <3>6. \A p \in Requests : Ticketed(req[p], req'[p], r, redis'[r])
      BY <1>4, Zenon DEF Quietly, Ticketed
    <3> QED
      BY <3>2, <3>3, <3>4, <3>5, <3>6, UsageMoved, Zenon DEF ExactInv
  <2> QED
    BY <2>1, <2>2, Zenon
<1> QED
  BY <1>5, <1>6, Zenon DEF ExactInv

\* A settlement is counted by the hash at its ticket's window and by nothing else.
LEMMA SettleExact ==
    ASSUME TypeOK, ExactInv, TypeOK', NEW q \in Requests, NEW cost \in Costs \ {0},
           Complete(q, cost), NEW r \in Rules, ~forked[r],
           req'[q].settled = req[q].settled + 1, req'[q].ticket = req[q].ticket,
           req'[q].cost = cost, req'[q].pc # "init"
    PROVE  UsageInv(r)'
<1>0. /\ req \in [Requests -> Request] /\ req' \in [Requests -> Request]
      /\ redis[r] \in State /\ db[r] \in State /\ UsageInv(r) /\ TicketsFit(req[q])
      /\ IsFiniteSet(SettledOf(req))
  BY TicketsOfRequests, Zenon DEF ExactInv, TypeOK
<1>1. /\ \A p \in Requests : p # q => req'[p] = req[p]
      /\ req[q].pc = "admitted" /\ db' = db /\ (req[q].settled > 0 => cost = req[q].cost)
  BY <1>0, Zenon DEF Complete
<1>2. req[q].pc \in Charging /\ req[q].pc \notin Ending
  BY <1>1, Zenon DEF Ending, Charging
<1> DEFINE t == req[q].ticket[r]
<1>3. t \in Ticket /\ t.rev \in Nat /\ t.gen \in Nat /\ t = [rev |-> t.rev, gen |-> t.gen]
  BY <1>0, RequestFields, TicketFields, Zenon
<1>4. t.rev > 0 => req[q].rules[r].rev > 0 /\ redis[r].rev > 0
  BY <1>0, <1>2, Zenon DEF TicketsFit, UsageInv, Charging
<1>5. redis[r].rev > 0 => NotAfter(t, redis[r])
  BY <1>0, Zenon DEF UsageInv, CountsAll
<1> HIDE DEF t
<1>6. t.rev <= redis[r].rev
  <2>1. redis[r].rev \in Nat
    BY <1>0, StateFields, Zenon
  <2> QED
    BY <1>3, <1>4, <1>5, <2>1 DEF NotAfter
<1>7. ASSUME NEW s \in State, redis[r].rev < s.rev, CountsAll(req, r, s)
      PROVE  CountsAll(req', r, s)
  <2>1. t # [rev |-> s.rev, gen |-> s.gen]
    <3>1. redis[r].rev \in Nat /\ s.rev \in Nat
      BY <1>0, StateFields, Zenon
    <3>2. t.rev # s.rev
      BY <1>3, <1>6, <1>7, <3>1
    <3> QED
      BY <3>2
  <2> QED
    BY <1>0, <1>1, <1>2, <1>7, <2>1, CountsUncharged, Zenon DEF t
<1>8. redis'[r].rev = redis[r].rev
        /\ (redis[r].rev > 0 => CountsAll(req', r, redis'[r]))
  <2>1. CASE r \in Matched(q)
    <3>1. redis'[r] = Settled(redis[r], cost)
      BY <2>1, Zenon DEF Complete
    <3>2. redis'[r].rev = redis[r].rev
      BY <1>0, <3>1, SettledFields
    <3>3. t = [rev |-> redis[r].rev, gen |-> redis[r].gen]
      BY <1>3, <2>1, Zenon DEF Matched, t
    <3>4. redis[r].rev > 0 => CountsAll(req', r, Settled(redis[r], req'[q].cost))
      BY <1>0, <1>1, <1>2, <3>3, CountsCharged, Zenon DEF UsageInv, t
    <3> QED
      BY <3>1, <3>2, <3>4, Zenon
  <2>2. CASE r \notin Matched(q)
    <3>1. redis'[r] = redis[r]
      BY <2>2, Zenon DEF Complete
    <3>2. r \notin RulesOf(q) \/ t.rev # redis[r].rev \/ t.gen # redis[r].gen
      BY <2>2, Zenon DEF Matched, t
    <3>3. redis[r].rev > 0 /\ t = [rev |-> redis[r].rev, gen |-> redis[r].gen] => r \in RulesOf(q)
      BY <1>4 DEF RulesOf
    <3>4. t = [rev |-> redis[r].rev, gen |-> redis[r].gen] =>
            t.rev = redis[r].rev /\ t.gen = redis[r].gen
      OBVIOUS
    <3>5. redis[r].rev > 0 => t # [rev |-> redis[r].rev, gen |-> redis[r].gen]
      BY <3>2, <3>3, <3>4, Zenon
    <3>6. redis[r].rev > 0 => CountsAll(req', r, redis[r])
      BY <1>0, <1>1, <1>2, <3>5, CountsUncharged, Zenon DEF UsageInv, t
    <3> QED
      BY <3>1, <3>6, Zenon
  <2> QED
    BY <2>1, <2>2, Zenon
<1>9. \A p \in Requests : req'[p].read[r] \in State
  BY <1>0, RequestFields, Zenon
<1>10. ASSUME NEW p \in Requests
       PROVE  /\ req'[p].pc = "init" /\ r \in req'[p].missing
                 /\ redis'[r].rev < req'[p].read[r].rev => CountsAll(req', r, req'[p].read[r])
              /\ req'[p].pc \in {"admitting", "admitted", "settling"} /\ req'[p].ticket[r].rev > 0
                  => redis'[r].rev > 0
  <2>1. CASE p = q
    BY <1>4, <1>8, <2>1, Zenon DEF t
  <2>2. CASE p # q
    BY <1>0, <1>1, <1>7, <1>8, <1>9, <2>2, Zenon DEF UsageInv
  <2> QED
    BY <2>1, <2>2, Zenon
<1>11. redis'[r].rev < db'[r].rev => CountsAll(req', r, db'[r])
  BY <1>0, <1>1, <1>7, <1>8, Zenon DEF UsageInv
<1>12. redis'[r].rev > 0 => CountsAll(req', r, redis'[r])
  BY <1>8, Zenon
<1> QED
  BY <1>10, <1>11, <1>12, Zenon DEF UsageInv

\* Complete settles a cost once more, or ends the request without one.
LEMMA CompleteExact ==
    ASSUME TypeOK, ExactInv, TypeOK', NEW q \in Requests, NEW cost \in Costs, Complete(q, cost)
    PROVE  ExactInv'
<1> DEFINE e == Completed(req[q], cost)
           marks == [s \in Rules |-> IF s \in Changed(q, cost) THEN MarkOf(redis'[s]) ELSE Clean]
<1>0. /\ req \in [Requests -> Request] /\ req[q] \in Request /\ redis \in [Rules -> State]
      /\ cost \in Int
  BY AmountsAssumption, Zenon DEF TypeOK
<1>1. /\ \A p \in Requests : p # q => req'[p] = req[p]
      /\ req[q].pc = "admitted" /\ UNCHANGED <<db, forked>>
      /\ req'[q] = IF cost = 0 \/ Changed(q, cost) = {} THEN Ended(e, "done")
                   ELSE [e EXCEPT !.pc = "settling", !.marks = marks]
  BY <1>0, Zenon DEF Complete
<1>2. /\ e.settled = IF cost = 0 THEN req[q].settled ELSE req[q].settled + 1
      /\ e.ticket = req[q].ticket /\ e.cost = cost /\ {"pc", "marks"} \subseteq DOMAIN e
  BY <1>0, Zenon DEF Request, Completed
<1>a. req[q].settled > 0 => cost = req[q].cost
  BY Zenon DEF Complete
<1> HIDE DEF e
<1>3. \A p \in Requests : TicketsFit(req[p])
  BY TicketsOfRequests, Zenon DEF ExactInv
<1>5. CASE cost = 0
  <2>1. req'[q] = Ended(e, "done") /\ e.settled = req[q].settled
    BY <1>1, <1>2, <1>5, Zenon
  <2>2. Quietly(e, req'[q]) /\ req'[q].pc = "done"
    BY <2>1, EndedQuietly, Zenon
  <2>3. "done" \notin Charging
    BY DEF Charging
  <2>5. Quietly(req[q], req'[q]) /\ req'[q].pc # "init"
    BY <1>2, <1>a, <2>1, <2>2, <2>3, Zenon DEF Quietly
  <2>6. redis' = redis
    BY <1>0, <1>5, Zenon DEF Complete
  <2> QED
    BY <1>1, <2>5, <2>6, QuietRequest, Zenon
<1>6. CASE cost # 0
  <2>0. e.settled = req[q].settled + 1 /\ e.settled > 0
    <3>1. req[q].settled \in Nat
      BY <1>0, Zenon DEF Request
    <3> QED
      BY <1>2, <1>6, <3>1
  <2>1. /\ req'[q].settled = e.settled /\ req'[q].ticket = req[q].ticket /\ req'[q].cost = cost
        /\ \/ req'[q].pc = "done"
           \/ req'[q].pc = "settling" /\ req'[q].rules = req[q].rules
    <3>1. CASE Changed(q, cost) = {}
      <4>1. req'[q] = Ended(e, "done")
        BY <1>1, <3>1, Zenon
      <4>2. /\ Ended(e, "done").settled = e.settled /\ Ended(e, "done").pc = "done"
            /\ Ended(e, "done").ticket = e.ticket /\ Ended(e, "done").cost = e.cost
        BY <2>0, Zenon DEF Ended, NewRequest
      <4> QED
        BY <1>2, <4>1, <4>2, Zenon
    <3>2. CASE Changed(q, cost) # {}
      <4>1. req'[q] = [e EXCEPT !.pc = "settling", !.marks = marks]
        BY <1>1, <1>6, <3>2, Zenon
      <4>2. e.rules = req[q].rules
        BY <1>0, Zenon DEF Request, Completed, e
      <4> HIDE DEF marks
      <4> QED
        BY <1>2, <4>1, <4>2
    <3> QED
      BY <3>1, <3>2, Zenon
  <2>2. TicketsInv'
    <3>1. SettledOf(req') = SettledOf(req) \cup {q}
      BY <1>1, <2>0, <2>1, Zenon DEF SettledOf
    <3>2. IsFiniteSet(SettledOf(req'))
      BY <3>1, FS_AddElement, TicketsOfRequests, Zenon DEF ExactInv
    <3>3. \A p \in Requests : TicketsFit(req'[p])
      <4>1. /\ "done" \in Ending /\ "settling" \in Charging /\ "settling" # "admitting"
            /\ req[q].pc \in Charging /\ req[q].pc \notin Ending
        BY <1>1, Zenon DEF Ending, Charging
      <4>2. TicketsFit(req'[q])
        BY <1>3, <2>1, <4>1, Zenon DEF TicketsFit
      <4> QED
        BY <1>1, <1>3, <4>2, Zenon
    <3> QED
      BY <3>2, <3>3, Zenon DEF TicketsInv, SettledOf, TicketsFit, Ending, Charging, RulesOf
  <2>3. cost \in Costs \ {0}
    BY <1>6
  <2>4. \A r \in Rules : ~forked'[r] => UsageInv(r)'
    BY <1>1, <2>0, <2>1, <2>3, SettleExact, Zenon
  <2> QED
    BY <2>2, <2>4, Zenon DEF ExactInv
<1> QED
  BY <1>5, <1>6, Zenon

\* Every step of a request leaves the usages exact.
LEMMA RequestStepExact ==
    ASSUME TypeOK, ExactInv, TypeOK', NEW q \in Requests, RequestStep(q)
    PROVE  ExactInv'
<1>0. req \in [Requests -> Request] /\ req[q] \in Request /\ TicketsFit(req[q])
  BY TicketsOfRequests, Zenon DEF TypeOK, Request, ExactInv
<1>1. ASSUME NEW pc \in {"done", "failed"}, req' = [req EXCEPT ![q] = Ended(@, pc)],
             UNCHANGED <<redis, db, forked>>
      PROVE  ExactInv'
  <2>1. /\ \A p \in Requests : p # q => req'[p] = req[p]
        /\ req'[q] = Ended(req[q], pc)
    BY <1>0, <1>1, Zenon
  <2>2. Quietly(req[q], req'[q]) /\ req'[q].pc # "init"
    BY <1>0, <2>1, EndedQuietly, Zenon
  <2> QED
    BY <1>1, <2>1, <2>2, QuietRequest, Zenon
<1>2. ASSUME \A p \in Requests : p # q => req'[p] = req[p],
             req'[q].settled = req[q].settled, req'[q].ticket = req[q].ticket,
             req'[q].cost = req[q].cost, UNCHANGED <<redis, db, forked>>,
             req[q].pc \in {"new", "evaluate", "hydrate"},
             \/ req'[q].pc \in {"evaluate", "hydrate"}
             \/ req'[q].pc = "init" /\ req'[q].read = db
      PROVE  ExactInv'
  <2>1. /\ req[q].pc \notin Ending /\ req[q].pc \notin Charging /\ req'[q].pc \notin Charging
        /\ req'[q].pc = "init" => req'[q].read = db
    BY <1>2, Zenon DEF Ending, Charging
  <2>2. TicketsFit(req'[q])
    BY <1>0, <1>2, <2>1, Zenon DEF TicketsFit
  <2>3. Quietly(req[q], req'[q])
    BY <1>2, <2>1, <2>2, Zenon DEF Quietly
  <2> QED
    BY <1>2, <2>1, <2>3, QuietRequest, Zenon
<1>5. ASSUME NEW mode \in Modes, Begin(q, mode) PROVE ExactInv'
  <2>0. UNCHANGED <<redis, db, forked>> /\ req[q].pc = "new"
    BY <1>5, Zenon DEF Begin, history
  <2>1. CASE \E r \in Rules : cfg[req[q].inst][r].rev > 0
    <3>1. req' = [req EXCEPT ![q] = [@ EXCEPT !.pc = "evaluate", !.mode = mode,
                      !.now = clock + Skew[req[q].inst], !.rules = cfg[req[q].inst]]]
      BY <1>5, <2>1, Zenon DEF Begin
    <3>2. /\ \A p \in Requests : p # q => req'[p] = req[p]
          /\ req'[q].settled = req[q].settled /\ req'[q].ticket = req[q].ticket
          /\ req'[q].cost = req[q].cost /\ req'[q].pc = "evaluate"
      BY <1>0, <3>1, Zenon DEF Request
    <3> QED
      BY <1>2, <2>0, <3>2, Zenon
  <2>2. CASE ~\E r \in Rules : cfg[req[q].inst][r].rev > 0
    <3>1. req' = [req EXCEPT ![q] = Ended(@, "done")]
      BY <1>5, <2>2, Zenon DEF Begin
    <3> QED
      BY <1>1, <2>0, <3>1, Zenon
  <2> QED
    BY <2>1, <2>2, Zenon
<1>6. CASE EvaluateFails(q) \/ HydrateFails(q) \/ CallFails(q)
  BY <1>1, <1>6, Zenon DEF EvaluateFails, HydrateFails, CallFails, history
<1>7. CASE EvaluateNeedsInit(q)
  <2>1. /\ \A p \in Requests : p # q => req'[p] = req[p]
        /\ req'[q].settled = req[q].settled /\ req'[q].ticket = req[q].ticket
        /\ req'[q].cost = req[q].cost /\ req'[q].pc = "hydrate"
    BY <1>0, <1>7, Zenon DEF EvaluateNeedsInit, Request
  <2> QED
    BY <1>2, <1>7, <2>1, Zenon DEF EvaluateNeedsInit, history
<1>8. CASE EvaluateRefusesOrChecks(q)
  BY <1>1, <1>8, Zenon DEF EvaluateRefusesOrChecks, history
<1>9. CASE EvaluateAdmits(q)
  BY <1>9, AdmitExact, Zenon
<1>10. CASE HydrateReads(q)
  <2>1. /\ \A p \in Requests : p # q => req'[p] = req[p]
        /\ req'[q].settled = req[q].settled /\ req'[q].ticket = req[q].ticket
        /\ req'[q].cost = req[q].cost /\ req'[q].pc = "init" /\ req'[q].read = db
    BY <1>0, <1>10, Zenon DEF HydrateReads, Request
  <2> QED
    BY <1>2, <1>10, <2>1, Zenon DEF HydrateReads, history
<1>11. CASE InitScript(q)
  BY <1>11, InitExact, Zenon
<1>12. ASSUME NEW cost \in Costs, Complete(q, cost) PROVE ExactInv'
  BY <1>12, CompleteExact, Zenon
<1>13. CASE ReplyArrives(q)
  <2>0. UNCHANGED <<redis, db, forked>> /\ req[q].pc \in {"admitting", "settling"}
    BY <1>13, Zenon DEF ReplyArrives, history
  <2>1. CASE req[q].pc = "settling"
    <3>1. req' = [req EXCEPT ![q] = Ended(@, "done")]
      BY <1>13, <2>1, Zenon DEF ReplyArrives
    <3> QED
      BY <1>1, <2>0, <3>1, Zenon
  <2>2. CASE req[q].pc # "settling"
    <3>1. req' = [req EXCEPT ![q] =
                     [@ EXCEPT !.pc = "admitted", !.now = 0, !.marks = [r \in Rules |-> Clean]]]
      BY <1>13, <2>2, Zenon DEF ReplyArrives
    <3>2. /\ \A p \in Requests : p # q => req'[p] = req[p]
          /\ req'[q].settled = req[q].settled /\ req'[q].ticket = req[q].ticket
          /\ req'[q].cost = req[q].cost /\ req'[q].pc = "admitted" /\ req'[q].rules = req[q].rules
      BY <1>0, <3>1, Zenon DEF Request
    <3>3. /\ req[q].pc \in Charging /\ req'[q].pc \in Charging /\ req[q].pc \notin Ending
          /\ req'[q].pc # "init"
      BY <2>0, <2>2, <3>2, Zenon DEF Charging, Ending
    <3>4. TicketsFit(req'[q])
      BY <1>0, <3>2, <3>3, Zenon DEF TicketsFit
    <3>5. Quietly(req[q], req'[q])
      BY <3>2, <3>3, <3>4, Zenon DEF Quietly
    <3> QED
      BY <2>0, <3>2, <3>3, <3>5, QuietRequest, Zenon
  <2> QED
    BY <2>1, <2>2, Zenon
<1>14. CASE ReplyLost(q)
  BY <1>1, <1>14, Zenon DEF ReplyLost
<1>15. CASE Resend(q)
  <2>0. UNCHANGED <<redis, db, forked>> /\ \A p \in Requests : p # q => req'[p] = req[p]
    BY <1>0, <1>15, Zenon DEF Resend
  <2>1. /\ req'[q].settled = req[q].settled /\ req'[q].cost = req[q].cost
        /\ req'[q].rules = req[q].rules
        /\ \/ req[q].pc = "settling" /\ req'[q].pc = "admitted" /\ req'[q].ticket = req[q].ticket
           \/ /\ req[q].pc = "admitting" /\ req'[q].pc = "evaluate"
              /\ req'[q].ticket = [r \in Rules |-> NoTicket]
    BY <1>0, <1>15, Zenon DEF Resend, Request
  <2>2. /\ "admitting" \notin Ending /\ "settling" \notin Ending /\ "evaluate" \notin Charging
        /\ "admitted" \in Charging /\ "settling" \in Charging
    BY DEF Ending, Charging
  <2>3. \A r \in Rules : ~([s \in Rules |-> NoTicket][r].rev > 0)
    BY DEF NoTicket
  <2>4. TicketsFit(req'[q])
    BY <1>0, <2>1, <2>2, <2>3, Zenon DEF TicketsFit
  <2>5. Quietly(req[q], req'[q]) /\ req'[q].pc # "init"
    BY <1>0, <2>1, <2>2, <2>4, Zenon DEF Quietly, TicketsFit
  <2> QED
    BY <2>0, <2>5, QuietRequest, Zenon
<1> QED
  BY <1>5, <1>6, <1>7, <1>8, <1>9, <1>10, <1>11, <1>12, <1>13, <1>14, <1>15, Zenon DEF RequestStep

\* A step that changes no request leaves the usages exact, rule by rule.
LEMMA RequestsStay ==
    ASSUME TypeOK, ExactInv, TypeOK', req' = req,
           \A r \in Rules : ~forked'[r] =>
               /\ ~forked[r] /\ redis'[r] = redis[r]
               /\ redis[r].rev < db'[r].rev => db'[r] = db[r] \/ CountsAll(req, r, db'[r])
    PROVE  ExactInv'
<1>1. \A p \in Requests : Quietly(req[p], req'[p])
  BY SameQuietly, TicketsOfRequests, Zenon DEF ExactInv
<1>2. TicketsInv'
  BY <1>1, TicketsKept, Zenon DEF ExactInv
<1>3. ASSUME NEW r \in Rules, ~forked'[r] PROVE UsageInv(r)'
  <2>1. UsageInv(r) /\ redis'[r] = redis[r]
    BY <1>3, Zenon DEF ExactInv
  <2>2. redis[r].rev < db'[r].rev => CountsAll(req, r, db'[r])
    BY <1>3, <2>1, Zenon DEF UsageInv
  <2> QED
    BY <1>1, <2>1, <2>2, UsageKept, Zenon DEF ExactInv
<1> QED
  BY <1>2, <1>3, Zenon DEF ExactInv

\* The pass writes only rows of a revision that Redis has reached.
LEMMA WorkerStepExact ==
    ASSUME TrackingInv, ExactInv, TypeOK', NEW i \in Instances, WorkerStep(i)
    PROVE  ExactInv'
<1>1. UNCHANGED <<req, redis, forked>>
  BY Zenon DEF WorkerStep, StartPass, ReadDirty, FilterDirty, WriteSnapshots, AckSnapshots,
     PassFails, history
<1>2. ASSUME NEW r \in Rules, ~forked[r], redis[r].rev < db'[r].rev PROVE db'[r] = db[r]
  <2>1. CASE WriteSnapshots(i)
    <3>1. /\ redis[r] \in State /\ worker[i].snap[r] \in State
          /\ CoveredBy(worker[i].snap[r], redis[r])
      <4>1. worker[i] \in Pass /\ redis[r] \in State /\ RuleInv(r)
        BY <1>2, Zenon DEF TrackingInv, TypeOK
      <4>2. worker[i].snap[r] \in State
        BY <4>1, Zenon DEF Pass
      <4> QED
        BY <1>2, <4>1, <4>2, Zenon DEF RuleInv, MarksAreOld
    <3>2. ~(redis[r].rev < worker[i].snap[r].rev)
      <4>1. redis[r].rev \in Nat /\ worker[i].snap[r].rev \in Nat
        BY <3>1, StateFields, Zenon
      <4> QED
        BY <3>1, <4>1 DEF CoveredBy
    <3>3. db'[r] = Persisted(db[r], worker[i].snap[r])
      BY <2>1, Zenon DEF WriteSnapshots
    <3> QED
      BY <1>2, <3>2, <3>3, Zenon DEF Persisted
  <2>2. CASE ~WriteSnapshots(i)
    BY <2>2, Zenon DEF WorkerStep, StartPass, ReadDirty, FilterDirty, AckSnapshots, PassFails
  <2> QED
    BY <2>1, <2>2, Zenon
<1>3. TypeOK
  BY DEF TrackingInv
<1> QED
  BY <1>1, <1>2, <1>3, RequestsStay, Zenon

\* The row of a new revision counts all: no ticket is of it yet.
LEMMA ReviseExact ==
    ASSUME TrackingInv, ExactInv, NEW r \in Rules, ~forked[r], NEW n \in Nat,
           rule[r].rev > 0, n = rule[r].rev + 1
    PROVE  CountsAll(req, r, FreshState(n))
<1>0. /\ redis[r] \in State /\ db[r] \in State /\ UsageInv(r) /\ RuleInv(r)
      /\ \A q \in Requests : req[q].ticket[r] \in Ticket
  BY RequestFields, Zenon DEF TrackingInv, TypeOK, ExactInv
<1>1. db[r].rev = rule[r].rev /\ db[r].rev > 0 /\ db[r].rev < n
  <2>1. db[r].rev = rule[r].rev /\ db[r].rev \in Nat
    BY <1>0, StateFields, Zenon DEF RuleInv, Bookkeeping
  <2> QED
    BY <2>1
<1>2. \A q \in Requests : req[q].ticket[r].rev < n
  <2>1. CASE redis[r].rev > 0
    <3>1. redis[r].rev <= db[r].rev
      BY <1>0, <1>1, <2>1, Zenon DEF RuleInv, IsSnapshot
    <3>2. \A q \in Requests : NotAfter(req[q].ticket[r], redis[r])
      BY <1>0, <2>1, Zenon DEF UsageInv, CountsAll
    <3>3. \A t \in Ticket : NotAfter(t, redis[r]) => t.rev < n
      <4>1. redis[r].rev \in Nat /\ db[r].rev \in Nat
        BY <1>0, StateFields, Zenon
      <4>2. redis[r].rev < n
        BY <1>1, <3>1, <4>1
      <4> QED
        BY <1>0, <4>2, TicketBelow, Zenon
    <3> QED
      BY <1>0, <3>2, <3>3, Zenon
  <2>2. CASE ~(redis[r].rev > 0)
    <3>1. redis[r].rev < db[r].rev
      <4>1. redis[r].rev \in Nat /\ db[r].rev \in Nat
        BY <1>0, StateFields, Zenon
      <4> QED
        BY <1>1, <2>2, <4>1
    <3>2. \A q \in Requests : NotAfter(req[q].ticket[r], db[r])
      BY <1>0, <3>1, Zenon DEF UsageInv, CountsAll
    <3>3. \A t \in Ticket : NotAfter(t, db[r]) => t.rev < n
      BY <1>0, <1>1, TicketBelow, Zenon
    <3> QED
      BY <1>0, <3>2, <3>3, Zenon
  <2> QED
    BY <2>1, <2>2, Zenon
<1> DEFINE f == FreshState(n)
<1>3. f.rev = n /\ f.used = 0
  BY DEF FreshState, Absent
<1> HIDE DEF f
<1>4. \A t \in Ticket : t.rev < n => NotAfter(t, f) /\ t # [rev |-> f.rev, gen |-> f.gen]
  <2> SUFFICES ASSUME NEW t \in Ticket, t.rev < n PROVE NotAfter(t, f) /\ t.rev # f.rev
    OBVIOUS
  <2>1. t.rev \in Nat
    BY TicketFields, Zenon
  <2> QED
    BY <1>3, <2>1 DEF NotAfter
<1>5. WindowCosts(req, r, f) = {}
  BY <1>0, <1>2, <1>4, Zenon DEF WindowCosts
<1>6. CountsAll(req, r, f)
  BY <1>0, <1>2, <1>3, <1>4, <1>5, SummedEmpty, Zenon DEF CountsAll
<1> QED
  BY <1>6 DEF f

\* A hash that expires was saved: the row at its revision is the same state.
LEMMA ExpireExact ==
    ASSUME TrackingInv, ExactInv, TypeOK', NEW s \in Rules, ExpireKey(s)
    PROVE  ExactInv'
<1>0. req' = req /\ db' = db /\ redis \in [Rules -> State] /\ forked \in [Rules -> BOOLEAN]
  BY Zenon DEF ExpireKey, TrackingInv, TypeOK
<1>1. \A p \in Requests : Quietly(req[p], req'[p])
  BY <1>0, SameQuietly, TicketsOfRequests, Zenon DEF ExactInv
<1>2. TicketsInv'
  BY <1>1, TicketsKept, Zenon DEF ExactInv
<1>3. ASSUME NEW r \in Rules, ~forked'[r] PROVE UsageInv(r)'
  <2>0. /\ ~forked[r] /\ UsageInv(r) /\ RuleInv(r) /\ redis[r] \in State /\ db[r] \in State
        /\ \A q \in Requests : TicketsFit(req[q])
    BY <1>0, <1>3, TicketsOfRequests, Zenon DEF ExpireKey, ExactInv, TrackingInv, TypeOK
  <2>1. CASE r # s
    <3>1. redis'[r] = redis[r]
      BY <1>0, <2>1, Zenon DEF ExpireKey
    <3> QED
      BY <1>0, <1>1, <2>0, <3>1, UsageKept, Zenon DEF ExactInv, UsageInv
  <2>2. CASE r = s
    <3>1. redis'[r] = Absent /\ ~Behind(r)
      BY <1>0, <1>3, <2>2, Zenon DEF ExpireKey
    <3>2. Absent.rev = 0 /\ ~(Absent.rev > 0)
      BY DEF Absent
    <3>3. redis'[r].rev < db'[r].rev => CountsAll(req, r, db'[r])
      <4> SUFFICES ASSUME 0 < db[r].rev PROVE CountsAll(req, r, db[r])
        BY <1>0, <3>1, <3>2, Zenon
      <4>1. CASE redis[r].rev < db[r].rev
        BY <2>0, <4>1, Zenon DEF UsageInv
      <4>2. CASE ~(redis[r].rev < db[r].rev)
        <5>0. /\ redis[r].rev \in Nat /\ db[r].rev \in Nat
              /\ redis[r].ver \in Nat /\ db[r].ver \in Nat
          BY <2>0, StateFields, Zenon
        <5>1. redis[r].rev > 0 /\ db[r].rev > 0
          BY <4>2, <5>0
        <5>2. /\ redis[r].rev <= db[r].rev
              /\ redis[r].rev = db[r].rev => db[r].ver <= redis[r].ver
              /\ MarkOf(redis[r]) = MarkOf(db[r]) => redis[r] = db[r]
          BY <2>0, <5>1, Zenon DEF RuleInv, IsSnapshot
        <5>3. redis[r].rev = db[r].rev /\ redis[r].ver = db[r].ver
          BY <3>1, <4>2, <5>0, <5>2 DEF Behind
        <5>4. redis[r] = db[r]
          BY <5>2, <5>3, Zenon DEF MarkOf
        <5> QED
          BY <2>0, <5>1, <5>4, Zenon DEF UsageInv
      <4> QED
        BY <4>1, <4>2, Zenon
    <3>4. \A p \in Requests : req[p].pc \in Over \/ ~(req[p].rules[r].rev > 0)
      BY <2>2, Zenon DEF ExpireKey, Quiet, RulesOf
    <3>5. \A p \in Requests :
            /\ ~(req'[p].pc = "init" /\ r \in req'[p].missing)
            /\ ~(req'[p].pc \in Charging /\ req'[p].ticket[r].rev > 0)
      <4>1. \A p \in Requests : r \in req[p].missing =>
              req[p].rules[r].rev > 0 /\ req[p].pc \in {"hydrate", "init"}
        BY <2>0, Zenon DEF RuleInv, Bookkeeping, RulesOf
      <4>2. "hydrate" \notin Over /\ "init" \notin Over /\ \A pc \in Charging : pc \notin Over /\ pc \notin Ending
        BY DEF Over, Charging, Ending
      <4>3. ASSUME NEW p \in Requests, req[p].pc \in Charging, req[p].ticket[r].rev > 0 PROVE FALSE
        <5>1. req[p].rules[r].rev > 0
          BY <2>0, <4>2, <4>3, Zenon DEF TicketsFit
        <5> QED
          BY <3>4, <4>2, <4>3, <5>1, Zenon
      <4>4. ASSUME NEW p \in Requests, req[p].pc = "init", r \in req[p].missing PROVE FALSE
        BY <3>4, <4>1, <4>2, <4>4, Zenon
      <4> QED
        BY <1>0, <4>3, <4>4, Zenon
    <3>6. \A p \in Requests : Ticketed(req[p], req'[p], r, redis'[r])
      BY <1>0, Zenon DEF Ticketed
    <3>7. ~(redis'[r].rev > 0)
      BY <3>1, <3>2, Zenon
    <3> QED
      BY <3>3, <3>5, <3>6, <3>7, UsageMoved, Zenon DEF ExactInv
  <2> QED
    BY <2>1, <2>2, Zenon
<1> QED
  BY <1>2, <1>3, Zenon DEF ExactInv

\* A crash ends requests; what they settled stays settled.
LEMMA CrashExact ==
    ASSUME TypeOK, ExactInv, TypeOK', NEW i \in Instances, Crash(i)
    PROVE  ExactInv'
<1>0. UNCHANGED <<redis, db, forked>>
  BY Zenon DEF Crash
<1>1. \A q \in Requests : req'[q] = req[q] \/ req'[q] = Ended(req[q], "failed")
  BY Zenon DEF Crash
<1>2. \A q \in Requests : TicketsFit(req[q])
  BY TicketsOfRequests, Zenon DEF ExactInv
<1>3. \A q \in Requests : Quietly(req[q], req'[q]) /\ (req'[q].pc = "init" => req'[q] = req[q])
  BY <1>1, <1>2, SameQuietly, EndedQuietly, Zenon
<1>4. TicketsInv'
  BY <1>3, TicketsKept, Zenon DEF ExactInv
<1>5. ASSUME NEW r \in Rules, ~forked'[r] PROVE UsageInv(r)'
  <2>1. UsageInv(r) /\ redis'[r] = redis[r]
    BY <1>0, <1>5, Zenon DEF ExactInv
  <2>2. redis[r].rev < db'[r].rev => CountsAll(req, r, db'[r])
    BY <1>0, <2>1, Zenon DEF UsageInv
  <2> QED
    BY <1>3, <2>1, <2>2, UsageKept, Zenon DEF ExactInv
<1> QED
  BY <1>4, <1>5, Zenon DEF ExactInv

\* The steps of operators, instances, time and faults leave the usages exact.
LEMMA EnvironmentStepExact ==
    ASSUME TrackingInv, ExactInv, TypeOK',
           \/ \E s \in Rules : OperatorStep(s) \/ LoseKey(s) \/ ExpireKey(s)
           \/ \E i \in Instances : Reload(i) \/ Crash(i)
           \/ Tick
    PROVE  ExactInv'
<1>0. /\ TypeOK /\ redis \in [Rules -> State] /\ db \in [Rules -> State]
      /\ forked \in [Rules -> BOOLEAN] /\ rule \in [Rules -> Definition]
  BY Zenon DEF TrackingInv, TypeOK
<1>1. ASSUME NEW s \in Rules, NEW limit \in Limits, ReviseRule(s, limit) PROVE ExactInv'
  <2>1. UNCHANGED <<req, redis, forked>> /\ db' = [db EXCEPT ![s] = FreshState(rule[s].rev + 1)]
    BY <1>1, Zenon DEF ReviseRule, history
  <2>2. rule[s].rev > 0 /\ rule[s].rev + 1 \in Nat
    <3>1. rule[s].rev \in 1..(MaxRevision - 1)
      BY <1>1, Zenon DEF ReviseRule
    <3> QED
      BY <3>1, BoundsAssumption
  <2>3. ASSUME NEW r \in Rules, ~forked[r]
        PROVE  db'[r] = db[r] \/ CountsAll(req, r, db'[r])
    BY <1>0, <2>1, <2>2, <2>3, ReviseExact, Zenon
  <2> QED
    BY <1>0, <2>1, <2>3, RequestsStay, Zenon
<1>2. ASSUME NEW s \in Rules, NEW limit \in Limits, EditLimit(s, limit) PROVE ExactInv'
  BY <1>0, <1>2, RequestsStay, Zenon DEF EditLimit, history
<1>3. ASSUME NEW s \in Rules, DeleteRule(s) PROVE ExactInv'
  <2>1. UNCHANGED <<req, redis, forked>> /\ db' = [db EXCEPT ![s] = Absent]
    BY <1>3, Zenon DEF DeleteRule, history
  <2>2. \A r \in Rules : ~(redis[r].rev < Absent.rev)
    <3>1. \A r \in Rules : redis[r].rev \in Nat
      BY <1>0, StateFields, Zenon
    <3> QED
      BY <3>1 DEF Absent
  <2> QED
    BY <1>0, <2>1, <2>2, RequestsStay, Zenon
<1>4. ASSUME NEW s \in Rules, LoseKey(s) PROVE ExactInv'
  <2>1. UNCHANGED <<req, db>> /\ redis' = [redis EXCEPT ![s] = Absent]
        /\ forked' = [forked EXCEPT ![s] = TRUE]
    BY <1>4, Zenon DEF LoseKey
  <2> QED
    BY <1>0, <2>1, RequestsStay, Zenon
<1>5. ASSUME NEW s \in Rules, ExpireKey(s) PROVE ExactInv'
  BY <1>5, ExpireExact, Zenon
<1>6. ASSUME NEW i \in Instances, Reload(i) PROVE ExactInv'
  BY <1>0, <1>6, RequestsStay, Zenon DEF Reload, history
<1>7. ASSUME NEW i \in Instances, Crash(i) PROVE ExactInv'
  BY <1>0, <1>7, CrashExact, Zenon
<1>8. CASE Tick
  BY <1>0, <1>8, RequestsStay, Zenon DEF Tick, history
<1> QED
  BY <1>1, <1>2, <1>3, <1>4, <1>5, <1>6, <1>7, <1>8, Zenon DEF OperatorStep

\* What the hash, the row and the hydrations of a rule count is inductive,
\* beside the tracking invariant.
THEOREM ExactInvariant == Spec => []ExactInv
<1>1. Init => ExactInv
  <2> SUFFICES ASSUME Init PROVE ExactInv
    OBVIOUS
  <2>1. ASSUME NEW i
        PROVE  /\ ~(NewRequest(i).settled > 0) /\ NewRequest(i).pc = "new"
               /\ \A r \in Rules : NewRequest(i).ticket[r] = NoTicket
    <3>1. NewRequest(i).settled = 0 /\ ~(0 > 0)
      BY DEF NewRequest
    <3> QED
      BY <3>1, Zenon DEF NewRequest
  <2>2. \A q \in Requests : \E i \in Instances : req[q] = NewRequest(i)
    <3>1. req \in [Requests -> {NewRequest(i) : i \in Instances}]
      BY Zenon DEF Init
    <3> QED
      BY <3>1, Zenon
  <2>3. ASSUME NEW q \in Requests
        PROVE  /\ ~(req[q].settled > 0) /\ req[q].pc = "new"
               /\ \A r \in Rules : req[q].ticket[r] = NoTicket
    BY <2>1, <2>2, Zenon
  <2>4. NoTicket.rev = 0 /\ ~(NoTicket.rev > 0) /\ "new" \notin Charging
    BY DEF NoTicket, Charging
  <2>5. TicketsInv
    <3>1. SettledOf(req) = {}
      BY <2>3, Zenon DEF SettledOf
    <3>2. \A q \in Requests : TicketsFit(req[q])
      BY <2>3, <2>4, Zenon DEF TicketsFit
    <3> QED
      BY <3>1, <3>2, TicketsOfRequests, FS_EmptySet, Zenon
  <2>6. ASSUME NEW r \in Rules PROVE UsageInv(r)
    <3>1. redis[r] = Absent /\ db[r] = FreshState(1)
      BY Zenon DEF Init
    <3>2. ~(Absent.rev > 0) /\ FreshState(1).used = 0 /\ FreshState(1).rev = 1
      BY DEF Absent, FreshState
    <3>4. WindowCosts(req, r, FreshState(1)) = {}
      BY <2>3, Zenon DEF WindowCosts
    <3>5. NotAfter(NoTicket, FreshState(1))
      BY <3>2 DEF NotAfter, NoTicket
    <3>6. CountsAll(req, r, FreshState(1))
      BY <2>3, <3>2, <3>4, <3>5, SummedEmpty, Zenon DEF CountsAll
    <3> QED
      BY <2>3, <2>4, <3>1, <3>2, <3>6, Zenon DEF UsageInv, Charging
  <2> QED
    BY <2>5, <2>6, Zenon DEF ExactInv
<1>2. TrackingInv /\ TrackingInv' /\ ExactInv /\ [Next]_vars => ExactInv'
  <2> SUFFICES ASSUME TrackingInv, TrackingInv', ExactInv, [Next]_vars PROVE ExactInv'
    OBVIOUS
  <2>1. TypeOK /\ TypeOK'
    BY Zenon DEF TrackingInv
  <2>2. CASE Next
    BY <2>1, <2>2, RequestStepExact, WorkerStepExact, EnvironmentStepExact, Zenon DEF Next
  <2>3. CASE UNCHANGED vars
    BY <2>1, <2>3, RequestsStay, Zenon DEF vars
  <2> QED
    BY <2>2, <2>3
<1> QED
  BY <1>1, <1>2, TrackingInvariant, PTL DEF Spec

\* The usage in Redis is the saturated sum of what was settled on tickets of the
\* current window, for any number of requests, instances and rules, whatever
\* crashes, lost replies, resets, hydrations and expiries come between.  A cost
\* counts as often as its script was run: a settlement whose answer was lost and
\* that the client sent again is charged again, and only then.
THEOREM UsageCorrect == Spec => []UsageIsExact
<1>1. ExactInv => UsageIsExact
  BY Zenon DEF ExactInv, UsageInv, CountsAll, UsageIsExact
<1> QED
  BY <1>1, ExactInvariant, PTL

=============================================================================
