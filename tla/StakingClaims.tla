---------------------------- MODULE StakingClaims ----------------------------
(***************************************************************************)
(* What a test of the repository says of the Staking diamond and the code  *)
(* does not keep: refuted by a run (see README.md, "Findings").            *)
(***************************************************************************)
EXTENDS Staking

(* "cannot join with the same comms keys" (test/lit-node/Staking.js:259).    *)
(* A staker outside the set may request to leave again, which frees keys     *)
(* that somebody else has joined with since.                                 *)
CommsKeysNotShared ==
    \A a, b \in validatorsInNextEpoch :
        a # b => validators[a].commsKeys # validators[b].commsKeys
=============================================================================
