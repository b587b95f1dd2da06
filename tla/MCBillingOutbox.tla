-------------------------- MODULE MCBillingOutbox --------------------------
(* Instances of BillingOutbox for TLC. *)
EXTENDS BillingOutbox, TLC

CONSTANTS i1, i2, r1, r2, r3

\* One clock is a tick ahead of the other one.
OneAhead == (i1 :> 0) @@ (i2 :> 1)

=============================================================================
