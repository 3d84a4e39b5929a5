---------------------------- MODULE MCStakingNodes ---------------------------
(* Four stakers, each with its own node and keys; s4 is the joiner.          *)
EXTENDS StakingNodes, TLC

CONSTANTS s1, s2, s3, s4, n1, n2, n3, n4, k1, k2, k3, k4

FourStakers == {s1, s2, s3, s4}
OwnNode == s1 :> {<<n1, k1>>} @@ s2 :> {<<n2, k2>>} @@ s3 :> {<<n3, k3>>} @@ s4 :> {<<n4, k4>>}
NoInfo == [a \in FourStakers |-> {}]
NoPenalty == [r \in {1} |-> 0]
=============================================================================
