--------------------------- MODULE BillingLedger ---------------------------
(***************************************************************************)
(* What the usage reports promise, with no replicas, rows or clocks: a     *)
(* finished request is owed at most once; what is owed is charged or       *)
(* refused by the billing system, never forgotten and never both; what was *)
(* never stored is not charged.                                            *)
(*                                                                         *)
(* Source: internal/integration/ly/deliverer.go, report.go.                *)
(***************************************************************************)

CONSTANT Reports  \* usage reports, one for each billed request

VARIABLE bill     \* the state of each report

Init == bill = [r \in Reports |-> "open"]

Become(r, from, to) == bill[r] = from /\ bill' = [bill EXCEPT ![r] = to]

\* The request ended and its report was stored, or it was not.
Owe(r) == Become(r, "open", "owed")
Forgo(r) == Become(r, "open", "unbilled")

\* The billing system's answer.
Charge(r) == Become(r, "owed", "charged")
Refuse(r) == Become(r, "owed", "refused")

Next == \E r \in Reports : Owe(r) \/ Forgo(r) \/ Charge(r) \/ Refuse(r)

Spec == Init /\ [][Next]_bill

=============================================================================
