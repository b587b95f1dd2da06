------------------------- MODULE MCCredentialHealth -------------------------
(* Instances of CredentialHealth for TLC. *)
EXTENDS CredentialHealth, TLC

CONSTANTS i1, i2, c1, c2, c3, m1, m2

Op(name) == [op |-> name]
CooldownOp(until, versioned) == [op |-> "cooldown", until |-> until, versioned |-> versioned]
ModelOp(model, until, now) ==
    [op |-> "model_cooldown", model |-> model, until |-> until, now |-> now]
RestoreOp(runtime, models) == [op |-> "restore", runtime |-> runtime, models |-> models]
RecoverOp(cooldown) == [op |-> "recover", cooldown |-> cooldown]

\* Failures, a probe that recovers from them, and cooldowns of two models by
\* clocks that disagree: the third of them may find the deadline of m1 past and
\* that of m2 as late as its own.
RecordOps == (c1 :> {Op("fail"), ModelOp(m2, 4, 2)})
          @@ (c2 :> {Op("fail"), ModelOp(m1, 2, 1)})
          @@ (c3 :> {RecoverOp(FALSE), ModelOp(m2, 4, 2)})

\* Operations whose effect depends on the identity or on the secret version.
IdentityOps == (c1 :> {Op("fail"), CooldownOp(1, TRUE), Op("auth")})
            @@ (c2 :> {Op("clear_failure"), Op("clear_cooldown"), Op("auth")})

\* Operations of which the local fallback differs from the record's history.
MirrorOps == (c1 :> {Op("fail")}) @@ (c2 :> {RestoreOp(TRUE, TRUE)})

InstanceSymmetry == Permutations(Instances)

=============================================================================
