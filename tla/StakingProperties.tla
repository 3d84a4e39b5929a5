-------------------------- MODULE StakingProperties --------------------------
(***************************************************************************)
(* What the epoch state machine of the Staking diamond promises as long as *)
(* its owner, having opened the network, leaves it to run by itself.       *)
(***************************************************************************)
EXTENDS Staking

(* Kicked validators stay out until the next epoch: requestToJoin checks the *)
(* kicked set, both kicks maintain it, and only advanceEpoch empties it.     *)
KickedStayOut == validatorsKickedFromNextEpoch \cap validatorsInNextEpoch = {}

(* The second kicked set, which the resharing threshold is computed from, is *)
(* the part of the first one that lies in the current set, although the two  *)
(* are updated by different conditions and the current set is replaced.      *)
CurrentKickedExact ==
    currentValidatorsKickedFromNextEpoch
        = validatorsKickedFromNextEpoch \cap validatorsInCurrentEpoch

(* "A threshold number of validators from the current validator set MUST NOT *)
(* be kicked in order for DKG resharing to be successful": after the first   *)
(* epoch, a consensus-sized part of the current set is never kicked.         *)
ThresholdNotKicked ==
    epochNumber > 1 =>
        Cardinality(validatorsInCurrentEpoch \ validatorsKickedFromNextEpoch)
            >= ConsensusCount(validatorsInCurrentEpoch)

(* Nobody is kicked without a quorum: each kicked validator has this epoch's *)
(* votes of as many different stakers as the current set's consensus needs.  *)
KickedByQuorum ==
    \A a \in validatorsKickedFromNextEpoch :
        Cardinality(VotersToKick(votesToKick, a))
            >= ConsensusCount(validatorsInCurrentEpoch)

(* While the state says ReadyForNextEpoch, the sets and flags it was reached *)
(* with are still those advanceEpoch will find: no interleaving of kicks,    *)
(* leaves and joins makes the state stale.                                   *)
ReadyIsNotStale ==
    state = "ReadyForNextEpoch" => IsReadyForNextEpoch(readyForNextEpoch)

(* No member of the current set carries a ready flag into a new attempt: an  *)
(* aborted attempt (unlockEpoch) and a completed one (advanceEpoch) both     *)
(* leave the quorum of the current set to be collected again.                *)
QuorumStartsFresh ==
    state \notin Frozen => readyForNextEpoch \cap validatorsInCurrentEpoch = {}

-----------------------------------------------------------------------------

(* The set the nodes run the DKG for does not change under them: while it is *)
(* locked or ready, a change of the next set takes the round out of the two  *)
(* frozen states in the same step, so that the DKG starts over.              *)
FrozenSetChanges ==
    /\ state \in Frozen
    /\ validatorsInNextEpoch' # validatorsInNextEpoch
    /\ state' \in Frozen

FrozenWhileLocked == [][~FrozenSetChanges]_vars
=============================================================================
