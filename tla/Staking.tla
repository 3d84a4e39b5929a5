------------------------------- MODULE Staking -------------------------------
(***************************************************************************)
(* The Staking diamond of LitNodeContracts: the epoch state machine that   *)
(* hands the network's key shares from one validator set to the next.      *)
(*                                                                         *)
(*   Paused -> Active -> NextValidatorSetLocked -> ReadyForNextEpoch       *)
(*                ^              |  kick                |                  *)
(*                |           Unlocked <----------------+                  *)
(*                +---------------- advanceEpoch -------+                  *)
(*                                                                         *)
(* This module has the functions that stakers, nodes and anyone else call, *)
(* each with the calls it makes on StakingBalances, and the opening of the *)
(* network by its owner.  The owner's other functions are in StakingAdmin. *)
(*                                                                         *)
(* Addresses are model values.  An EnumerableSet is a set; a mapping to    *)
(* bool is the set of the addresses it maps to true.  block.timestamp only *)
(* matters as its distance to the end of the epoch, `timeLeft'.            *)
(***************************************************************************)
EXTENDS StakingBalances

CONSTANTS
    Nodes, NoNode,               \* node addresses; NoNode is address(0)
    Keys, NoKey,                 \* pairs of communication keys; NoKey is (0, 0)
    JoinArgs,                    \* <<node, key>> pairs a staker may join with
    InfoArgs,                    \* <<node, key>> pairs it may set afterwards
    KickTargets,                 \* the stakers that votes to kick may name
    AliasAccounts,               \* the accounts that aliases are made of
    Reasons,                     \* reason codes of the votes to kick
    InitialKickPenaltyPercent,   \* penalty of each reason
    InitialMinimumValidatorCount,
    InitialTokenReward,          \* tokenRewardPerTokenPerEpoch
    InitialEpochLength,
    MaxEpoch, MaxRetries         \* bounds on the two counters

ASSUME StakingAssumption ==
    /\ IsFiniteSet(Stakers)
    /\ NoNode \notin Nodes
    /\ NoKey \notin Keys
    /\ JoinArgs \in [Stakers -> SUBSET (Nodes \X Keys)]
    /\ InfoArgs \in [Stakers -> SUBSET (Nodes \X Keys)]
    /\ KickTargets \subseteq Stakers
    /\ AliasAccounts \subseteq Stakers
    /\ InitialKickPenaltyPercent \in [Reasons -> Nat]
    /\ InitialMinimumValidatorCount \in Nat
    /\ InitialTokenReward \in Nat
    /\ InitialEpochLength \in Nat
    /\ MaxEpoch \in Nat
    /\ MaxRetries \in Nat

VARIABLES
    state,
    epochNumber, timeLeft, retries, epochLength,     \* epochs[0]
    minimumValidatorCount, tokenRewardPerTokenPerEpoch, \* configs[0]
    kickPenaltyPercent,                              \* complaintReasonToConfig
    validatorsInCurrentEpoch,
    validatorsInNextEpoch,
    validatorsKickedFromNextEpoch,
    currentValidatorsKickedFromNextEpoch,
    readyForNextEpoch,
    votesToKick,                 \* <<epoch number, target, voter>>
    validators,                  \* staker -> record of its node
    nodeAddressToStakerAddress,
    usedCommsKeys

configVars   == <<minimumValidatorCount, tokenRewardPerTokenPerEpoch,
                  kickPenaltyPercent, epochLength>>
kickedVars   == <<validatorsKickedFromNextEpoch, currentValidatorsKickedFromNextEpoch>>
setVars      == <<validatorsInCurrentEpoch, validatorsInNextEpoch, kickedVars>>
phaseVars    == <<state, epochNumber, timeLeft, retries, readyForNextEpoch>>
registryVars == <<validators, nodeAddressToStakerAddress, usedCommsKeys>>
stakingVars  == <<configVars, setVars, phaseVars, registryVars, votesToKick>>
vars         == <<balancesVars, stakingVars>>

States == {"Active", "NextValidatorSetLocked", "ReadyForNextEpoch",
           "Unlocked", "Paused", "Restore"}

\* The states in which the next validator set is open, and those in which the
\* nodes are running the DKG for it.
Open   == {"Active", "Unlocked", "Paused"}
Frozen == {"NextValidatorSetLocked", "ReadyForNextEpoch"}

Validator == [nodeAddress : Nodes \cup {NoNode}, commsKeys : Keys \cup {NoKey}]

StakingTypeOK ==
    /\ state \in States
    /\ epochNumber \in Nat \ {0}
    /\ timeLeft \in Nat
    /\ retries \in Nat
    /\ epochLength \in Nat
    /\ minimumValidatorCount \in Nat
    /\ tokenRewardPerTokenPerEpoch \in Nat
    /\ kickPenaltyPercent \in [Reasons -> Nat]
    /\ validatorsInCurrentEpoch \subseteq Stakers
    /\ validatorsInNextEpoch \subseteq Stakers
    /\ validatorsKickedFromNextEpoch \subseteq Stakers
    /\ currentValidatorsKickedFromNextEpoch \subseteq Stakers
    /\ readyForNextEpoch \subseteq Stakers \cup {NoAccount}
    /\ votesToKick \subseteq (Nat \X Stakers \X Stakers)
    /\ validators \in [Stakers -> Validator]
    /\ nodeAddressToStakerAddress \in [Nodes -> Stakers \cup {NoAccount}]
    /\ usedCommsKeys \subseteq Keys \cup {NoKey}

\* Types of all the state of the two diamonds.
TypeOK == BalancesTypeOK /\ StakingTypeOK

\* The constructor, with the configuration the owner gives before it opens
\* the network.
Init ==
    /\ BalancesInit
    /\ state = "Paused"
    /\ epochNumber = 1
    /\ timeLeft = InitialEpochLength
    /\ retries = 0
    /\ epochLength = InitialEpochLength
    /\ minimumValidatorCount = InitialMinimumValidatorCount
    /\ tokenRewardPerTokenPerEpoch = InitialTokenReward
    /\ kickPenaltyPercent = InitialKickPenaltyPercent
    /\ validatorsInCurrentEpoch = {}
    /\ validatorsInNextEpoch = {}
    /\ validatorsKickedFromNextEpoch = {}
    /\ currentValidatorsKickedFromNextEpoch = {}
    /\ readyForNextEpoch = {}
    /\ votesToKick = {}
    /\ validators = [a \in Stakers |-> [nodeAddress |-> NoNode, commsKeys |-> NoKey]]
    /\ nodeAddressToStakerAddress = [n \in Nodes |-> NoAccount]
    /\ usedCommsKeys = {}

-----------------------------------------------------------------------------
(* Views.                                                                   *)

\* A mutated form: half of the validators are enough.
ConsensusCountHalf(validatorSet) == Cardinality(validatorSet) \div 2

\* currentValidatorCountForConsensus
ConsensusCount(validatorSet) ==
    IF Cardinality(validatorSet) = 2 THEN 1
    ELSE (2 * Cardinality(validatorSet)) \div 3

\* isReadyForNextEpoch, for the flags `ready'.
CurrentSetIsReady(ready) ==
    Cardinality(validatorsInCurrentEpoch \cap ready)
        >= ConsensusCount(validatorsInCurrentEpoch)

NextSetIsReady(ready) ==
    Cardinality(validatorsInNextEpoch \cap ready) >= Cardinality(validatorsInNextEpoch)

IsReadyForNextEpoch(ready) == CurrentSetIsReady(ready) /\ NextSetIsReady(ready)

\* votesToKickValidatorsInNextEpoch[epoch][target].voted[voter]
Vote(target, voter) == <<epochNumber, target, voter>>

VotersToKick(votes, target) == {a \in Stakers : Vote(target, a) \in votes}

\* A mutated form: one vote fewer is enough.
ShouldKickValidatorEarly(votes, target) ==
    Cardinality(VotersToKick(votes, target)) + 1
        >= ConsensusCount(validatorsInCurrentEpoch)

ShouldKickValidator(votes, target) ==
    Cardinality(VotersToKick(votes, target)) >= ConsensusCount(validatorsInCurrentEpoch)

\* Mutated forms: one member of the current set too many may be kicked; one
\* too few.
MayKickOneMore ==
    epochNumber > 1 =>
        Cardinality(currentValidatorsKickedFromNextEpoch)
            <= Cardinality(validatorsInCurrentEpoch)
                - ConsensusCount(validatorsInCurrentEpoch)
MayKickOneLess ==
    epochNumber > 1 =>
        Cardinality(currentValidatorsKickedFromNextEpoch) + 1
            < Cardinality(validatorsInCurrentEpoch)
                - ConsensusCount(validatorsInCurrentEpoch)

\* The check that kickValidatorInNextEpoch makes before it takes a vote.
MayKickFromCurrentSet ==
    epochNumber > 1 =>
        Cardinality(currentValidatorsKickedFromNextEpoch)
            < Cardinality(validatorsInCurrentEpoch)
                - ConsensusCount(validatorsInCurrentEpoch)

-----------------------------------------------------------------------------
(* The registry of nodes and of their communication keys.                   *)

\* A mutated form: the arguments are stored the wrong way round.
SetValidatorRecordSwapped(staker, node, key) ==
    validators' = [validators EXCEPT ![staker] = [nodeAddress |-> key, commsKeys |-> node]]

SetValidatorRecord(staker, node, key) ==
    validators' = [validators EXCEPT ![staker] = [nodeAddress |-> node, commsKeys |-> key]]

\* Joining maps the node to the staker whatever it was mapped to before.
RegisterNode(staker, node, key) ==
    /\ SetValidatorRecord(staker, node, key)
    /\ nodeAddressToStakerAddress' =
         [nodeAddressToStakerAddress EXCEPT ![node] = staker]
    /\ key \notin usedCommsKeys
    /\ usedCommsKeys' = usedCommsKeys \cup {key}

\* The keys of the record are freed even when `staker' was not in the set.
RemoveValidatorFromNextEpoch(staker) ==
    /\ validatorsInNextEpoch' = validatorsInNextEpoch \ {staker}
    /\ usedCommsKeys' = usedCommsKeys \ {validators[staker].commsKeys}

-----------------------------------------------------------------------------
(* Staking, joining and leaving.                                            *)

\* A mutated form: the set may also be changed while it is locked.
SetIsOpenOrFrozen == state \in Open \cup Frozen

SetIsOpen == state \in Open

MayJoin(staker) == SetIsOpen /\ staker \notin validatorsKickedFromNextEpoch

\* requestToJoin; `stake' is the balance function it sees.
JoinNextEpoch(staker, node, key, stake) ==
    /\ CheckStakingAmounts(stake, staker)
    /\ MayJoin(staker)
    /\ permittedStakersOn => IsPermittedStaker(staker)
    /\ RegisterNode(staker, node, key)
    /\ validatorsInNextEpoch' = validatorsInNextEpoch \cup {staker}
    /\ UNCHANGED <<configVars, validatorsInCurrentEpoch, kickedVars, phaseVars, votesToKick>>

RequestToJoin(staker, node, key) ==
    /\ JoinNextEpoch(staker, node, key, balances)
    /\ UNCHANGED balancesVars

Stake(staker, amount) ==
    /\ StakeTokens(amount, staker)
    /\ UNCHANGED stakingVars

StakeAndJoin(staker, amount, node, key) ==
    /\ StakeTokens(amount, staker)
    /\ JoinNextEpoch(staker, node, key, balances')

Withdraw(staker, amount) ==
    /\ WithdrawTokens(amount, staker, validatorsInCurrentEpoch)
    /\ UNCHANGED stakingVars

\* exit withdraws the balance of the main account from the raw account.
Exit(staker) ==
    /\ WithdrawTokens(BalanceOf(staker), staker, validatorsInCurrentEpoch)
    /\ GetRewardOf(staker)
    /\ UNCHANGED stakingVars

GetReward(staker) ==
    /\ GetRewardOf(staker)
    /\ UNCHANGED vars

\* requestToLeave and requestToLeaveAsNode; length() - 1 reverts on an empty set.
StakerRequestToLeave(staker) ==
    /\ SetIsOpen
    /\ validatorsInNextEpoch # {}
    /\ Cardinality(validatorsInNextEpoch) - 1 >= minimumValidatorCount
    /\ RemoveValidatorFromNextEpoch(staker)
    /\ UNCHANGED <<balancesVars, configVars, validatorsInCurrentEpoch, kickedVars,
                   phaseVars, validators, nodeAddressToStakerAddress, votesToKick>>

RequestToLeaveAsNode(node) ==
    /\ nodeAddressToStakerAddress[node] # NoAccount
    /\ StakerRequestToLeave(nodeAddressToStakerAddress[node])

\* setIpPortNodeAddressAndCommunicationPubKeys
SetNodeInfo(staker, node, key) ==
    /\ SetValidatorRecord(staker, node, key)
    /\ nodeAddressToStakerAddress' =
         IF nodeAddressToStakerAddress[node] = NoAccount
         THEN [nodeAddressToStakerAddress EXCEPT ![node] = staker]
         ELSE nodeAddressToStakerAddress
    /\ UNCHANGED <<balancesVars, configVars, setVars, phaseVars, usedCommsKeys, votesToKick>>

AddStakerAlias(staker, account) ==
    /\ AddAlias(staker, account)
    /\ UNCHANGED stakingVars

RemoveStakerAlias(staker, account) ==
    /\ RemoveAlias(staker, account, validatorsInCurrentEpoch)
    /\ UNCHANGED stakingVars

-----------------------------------------------------------------------------
(* The epoch state machine.                                                 *)

LockValidatorsForNextEpoch ==
    /\ timeLeft = 0
    /\ state \in {"Active", "Unlocked"}
    /\ Cardinality(validatorsInNextEpoch) >= minimumValidatorCount
    /\ state' = "NextValidatorSetLocked"
    /\ UNCHANGED <<balancesVars, configVars, setVars, epochNumber, timeLeft, retries,
                   readyForNextEpoch, registryVars, votesToKick>>

\* A mutated form: only the outgoing validators may signal.
MaySignalIfCurrent(staker) == epochNumber # 1 => staker \in validatorsInCurrentEpoch

\* In the first epoch anyone may signal; an unmapped node flags address(0).
MaySignal(staker) == epochNumber # 1 => staker \in validatorsInNextEpoch

\* Called by a node for the epoch number it has seen, which must be current.
SignalReadyForNextEpoch(node) ==
    LET staker == nodeAddressToStakerAddress[node]
    IN  /\ state \in Frozen \cup {"Restore"}
        /\ MaySignal(staker)
        /\ readyForNextEpoch' = readyForNextEpoch \cup {staker}
        /\ state' = IF IsReadyForNextEpoch(readyForNextEpoch')
                    THEN "ReadyForNextEpoch" ELSE state
        /\ UNCHANGED <<balancesVars, configVars, setVars, epochNumber, timeLeft, retries,
                       registryVars, votesToKick>>

\* Only the flags of the members of the new set are cleared.
ClearedByAdvance == validatorsInNextEpoch

MayAdvance ==
    /\ timeLeft = 0
    /\ state = "ReadyForNextEpoch"
    /\ IsReadyForNextEpoch(readyForNextEpoch)

AdvanceEpoch ==
    /\ MayAdvance
    /\ epochNumber < MaxEpoch
    /\ RewardValidators(validatorsInCurrentEpoch, tokenRewardPerTokenPerEpoch)
    /\ validatorsInCurrentEpoch' = validatorsInNextEpoch
    /\ readyForNextEpoch' = readyForNextEpoch \ ClearedByAdvance
    /\ validatorsKickedFromNextEpoch' = {}
    /\ currentValidatorsKickedFromNextEpoch' = {}
    /\ epochNumber' = epochNumber + 1
    /\ timeLeft' = epochLength
    /\ state' = "Active"
    /\ UNCHANGED <<configVars, validatorsInNextEpoch, retries, registryVars, votesToKick>>

\* A mutated form: the flags of the current set are forgotten.
ClearedByUnlockNextOnly == validatorsInNextEpoch'

\* The flags unlockEpoch clears: those of the current set and of what is left
\* of the next one.
ClearedByUnlock == validatorsInCurrentEpoch \cup validatorsInNextEpoch'

UnlockEpoch ==
    /\ state \in Frozen
    /\ retries < MaxRetries
    /\ readyForNextEpoch' = readyForNextEpoch \ ClearedByUnlock
    /\ state' = "Unlocked"
    /\ retries' = retries + 1
    /\ UNCHANGED timeLeft

\* A mutated form: the attempt in progress is not aborted.
ReactToKickWithoutUnlock ==
    \/ /\ state = "Active"
       /\ state' = "NextValidatorSetLocked"
       /\ timeLeft' = 0
       /\ UNCHANGED <<readyForNextEpoch, retries>>
    \/ /\ state # "Active"
       /\ UNCHANGED <<state, timeLeft, readyForNextEpoch, retries>>

\* What a kick by vote does to the phase of the epoch.
ReactToKick ==
    \/ UnlockEpoch
    \/ /\ state = "Active"
       /\ state' = "NextValidatorSetLocked"
       /\ timeLeft' = 0
       /\ UNCHANGED <<readyForNextEpoch, retries>>
    \/ /\ state \notin Frozen \cup {"Active"}
       /\ UNCHANGED <<state, timeLeft, readyForNextEpoch, retries>>

\* A mutated form: the kicked members of the current set are not counted.
MarkKickedNotInCurrent(target) ==
    /\ validatorsKickedFromNextEpoch' = validatorsKickedFromNextEpoch \cup {target}
    /\ UNCHANGED currentValidatorsKickedFromNextEpoch

\* Add `target' to the kicked sets.
MarkKicked(target) ==
    /\ validatorsKickedFromNextEpoch' = validatorsKickedFromNextEpoch \cup {target}
    /\ currentValidatorsKickedFromNextEpoch' =
         currentValidatorsKickedFromNextEpoch \cup ({target} \cap validatorsInCurrentEpoch)

KickPenalty(target, reason) ==
    (BalanceOf(target) * kickPenaltyPercent[reason]) \div 100

KickByVote(target, reason) ==
    /\ RemoveValidatorFromNextEpoch(target)
    /\ MarkKicked(target)
    /\ PenalizeTokens(KickPenalty(target, reason), target)
    /\ ReactToKick
    /\ UNCHANGED <<validatorsInCurrentEpoch, epochNumber, validators,
                   nodeAddressToStakerAddress>>

KickValidatorInNextEpoch(node, target, reason) ==
    LET voter  == nodeAddressToStakerAddress[node]
        votes  == votesToKick \cup {Vote(target, voter)}
        expels == /\ target \in validatorsInNextEpoch
                  /\ ShouldKickValidator(votes, target)
    IN  /\ voter # NoAccount
        /\ voter \in validatorsInNextEpoch
        /\ Vote(target, voter) \notin votesToKick
        /\ MayKickFromCurrentSet
        /\ votesToKick' = votes
        /\ \/ expels /\ KickByVote(target, reason)
           \/ ~expels /\ UNCHANGED <<balancesVars, setVars, phaseVars, registryVars>>
        /\ UNCHANGED configVars

\* setEpochState by the owner; the deployment opens the network with it.
SetEpochState(newState) ==
    /\ state' = newState
    /\ UNCHANGED <<balancesVars, configVars, setVars, epochNumber, timeLeft, retries,
                   readyForNextEpoch, registryVars, votesToKick>>

OpenNetwork == state = "Paused" /\ SetEpochState("Active")

\* Anybody may transfer LIT to the address of StakingBalances.
SendLIT(holder, amount) ==
    /\ SendTokens(amount, holder)
    /\ UNCHANGED stakingVars

\* block.timestamp comes closer to the end of the epoch.
Tick ==
    /\ timeLeft > 0
    /\ timeLeft' = timeLeft - 1
    /\ UNCHANGED <<balancesVars, configVars, setVars, state, epochNumber, retries,
                   readyForNextEpoch, registryVars, votesToKick>>

-----------------------------------------------------------------------------

StakerNext(a) ==
    \/ \E args \in JoinArgs[a] : RequestToJoin(a, args[1], args[2])
    \/ \E amount \in Amounts : Stake(a, amount)
    \/ \E amount \in Amounts, args \in JoinArgs[a] :
          StakeAndJoin(a, amount, args[1], args[2])
    \/ \E amount \in Amounts : Withdraw(a, amount)
    \/ Exit(a)
    \/ GetReward(a)
    \/ StakerRequestToLeave(a)
    \/ \E args \in InfoArgs[a] : SetNodeInfo(a, args[1], args[2])
    \/ \E b \in AliasAccounts : AddStakerAlias(a, b) \/ RemoveStakerAlias(a, b)

NodeNext(n) ==
    \/ SignalReadyForNextEpoch(n)
    \/ RequestToLeaveAsNode(n)
    \/ \E target \in KickTargets, reason \in Reasons :
          KickValidatorInNextEpoch(n, target, reason)

Next ==
    \/ \E a \in Stakers : StakerNext(a)
    \/ \E n \in Nodes : NodeNext(n)
    \/ \E h \in Holders, amount \in Amounts : SendLIT(h, amount)
    \/ LockValidatorsForNextEpoch
    \/ AdvanceEpoch
    \/ OpenNetwork
    \/ Tick

Spec == Init /\ [][Next]_vars
=============================================================================
