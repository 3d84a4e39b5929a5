---------------------------- MODULE MCStakingClaims --------------------------
(* Three stakers that may join with either of two pairs of keys.             *)
EXTENDS StakingClaims, TLC

CONSTANTS s1, s2, s3, n1, n2, n3, k1, k2

AnyKeys == s1 :> ({n1} \X {k1, k2}) @@ s2 :> ({n2} \X {k1, k2}) @@ s3 :> ({n3} \X {k1, k2})
NoInfo == [a \in Stakers |-> {}]
NoPenalty == [r \in {1} |-> 0]
=============================================================================
