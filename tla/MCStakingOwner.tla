---------------------------- MODULE MCStakingOwner ---------------------------
(* Two stakers, each with its own node and keys, and an active owner.        *)
EXTENDS StakingAdmin, TLC

CONSTANTS s1, s2, n1, n2, k1, k2

TwoStakers == {s1, s2}
OwnNode == s1 :> {<<n1, k1>>} @@ s2 :> {<<n2, k2>>}
NoNodes == [a \in TwoStakers |-> {}]
NoPenalty == [r \in {1} |-> 0]
=============================================================================
