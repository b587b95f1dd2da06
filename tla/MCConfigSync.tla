---------------------------- MODULE MCConfigSync ----------------------------
(* ConfigSync with two instances.  The instances are not symmetric for TLC,  *)
(* since liveness is checked.                                                *)
EXTENDS ConfigSync

CONSTANTS i1, i2, w1, o1

MCInstances == {i1, i2}
MCWrites == {w1, o1}
MCOperations == {o1}

=============================================================================
