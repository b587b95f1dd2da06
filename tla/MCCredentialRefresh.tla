------------------------ MODULE MCCredentialRefresh ------------------------
(* Instances of CredentialRefresh for TLC. *)
EXTENDS CredentialRefresh, TLC

CONSTANTS i1, i2, c1, c2

CallSymmetry == Permutations(Calls)

=============================================================================
