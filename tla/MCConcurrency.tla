--------------------------- MODULE MCConcurrency ---------------------------
(* Instances of Concurrency for TLC. *)
EXTENDS Concurrency, TLC

CONSTANTS i1, i2, c1, c2, global, key

\* One call takes the slots of the cluster and of its access key, the other one
\* the slot of the key alone.
RequestPath == (c1 :> <<global, key>>) @@ (c2 :> <<key>>)

\* One call comes to i1, the other one to either instance.
CallHomes == (c1 :> {i1}) @@ (c2 :> Instances)

=============================================================================
