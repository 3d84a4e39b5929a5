-------------------------- MODULE StakingRefinement --------------------------
(* Staking, run without interference by its owner, implements EpochHandover. *)
EXTENDS StakingProperties

\* A round is locked in the two frozen states; the ready flags of the current
\* set are its acknowledgements (a flag of anyone else means nothing here).
Handover == INSTANCE EpochHandover WITH
    Members    <- Stakers,
    round      <- IF state \in Frozen THEN "locked" ELSE "open",
    number     <- epochNumber,
    committee  <- validatorsInCurrentEpoch,
    candidates <- validatorsInNextEpoch,
    acks       <- readyForNextEpoch \cap validatorsInCurrentEpoch

(* Every behaviour of the epoch machine is a behaviour of the handover: a    *)
(* committee is only replaced by the candidates of a locked round, with the  *)
(* acknowledgements of two thirds of it given in that round; an aborted      *)
(* round leaves none of them behind.                                         *)
ImplementsHandover == Handover!Spec
=============================================================================
