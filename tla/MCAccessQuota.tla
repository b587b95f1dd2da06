--------------------------- MODULE MCAccessQuota ---------------------------
(* Instances of AccessQuota for TLC. *)
EXTENDS AccessQuota, TLC

CONSTANTS a, b, q1, q2, tot, per

\* The clock of instance a is ahead of that of b.
AheadSkew == [i \in Instances |-> IF i = a THEN 1 ELSE 0]

\* A faulty estimate and a cost.
FaultyCosts == {-1, 1}

RequestSymmetry == Permutations(Requests)
=============================================================================
