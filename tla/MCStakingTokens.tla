--------------------------- MODULE MCStakingTokens ---------------------------
(* Two stakers, each with its own node and keys; one may alias the other.    *)
EXTENDS StakingTokens, TLC

CONSTANTS s1, s2, n1, n2, k1, k2

OwnNode == s1 :> {<<n1, k1>>} @@ s2 :> {<<n2, k2>>}
NoInfo == [a \in {s1, s2} |-> {}]
HalfPenalty == [r \in {1} |-> 50]
=============================================================================
