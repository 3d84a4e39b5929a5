------------------------------ MODULE MCStaking ------------------------------
(* Instances of Staking for TLC: staker i runs node i with the keys i.       *)
EXTENDS StakingRefinement, Sequences, TLC

CONSTANTS s1, s2, s3, n1, n2, n3, k1, k2, k3

ThreeStakers == {s1, s2, s3}
OwnNode == s1 :> {<<n1, k1>>} @@ s2 :> {<<n2, k2>>} @@ s3 :> {<<n3, k3>>}
CrossInfo == s1 :> {<<n2, k1>>} @@ s2 :> {<<n1, k2>>} @@ s3 :> {}
NoPenalty == [r \in {1} |-> 0]

\* Renaming the stakers together with their nodes and keys.
Index == s1 :> 1 @@ n1 :> 1 @@ k1 :> 1 @@ s2 :> 2 @@ n2 :> 2 @@ k2 :> 2
           @@ s3 :> 3 @@ n3 :> 3 @@ k3 :> 3
Family(x) == IF x \in ThreeStakers THEN <<s1, s2, s3>>
             ELSE IF x \in Nodes THEN <<n1, n2, n3>> ELSE <<k1, k2, k3>>
Rename(p) == [x \in DOMAIN Index |-> Family(x)[p[Index[x]]]]
\* Those that preserve CrossInfo.
FixingLast == {Rename(p) : p \in {q \in Permutations(1..3) : q[3] = 3}}

\* States that differ in the votes of past epochs only are explored once: no
\* action and no property but the type reads those votes, for the epoch number
\* never goes back without the owner's reset.
PresentVotes == {v \in votesToKick : v[1] = epochNumber}
PresentView == <<balancesVars, configVars, setVars, phaseVars, registryVars, PresentVotes>>
=============================================================================
