------------------------- MODULE StakingEstablished --------------------------
(***************************************************************************)
(* The Staking diamond observed from its second epoch on: the founders     *)
(* have staked, joined, signalled and been installed, the joiners wait in  *)
(* the next set.  A state that Staking reaches, to start long runs from.   *)
(***************************************************************************)
EXTENDS StakingAdmin

CONSTANTS Founders, Joiners, FoundingStake

ASSUME EstablishedAssumption ==
    /\ Founders \subseteq Stakers
    /\ Joiners \subseteq Stakers \ Founders
    /\ FoundingStake \in Nat
    /\ FoundingStake <= InitialTokens
    /\ \A a \in Founders \cup Joiners : JoinArgs[a] # {}

ArgsOf(a) == CHOOSE args \in JoinArgs[a] : TRUE

EstablishedInit ==
    LET members == Founders \cup Joiners
        stakeOf(a) == IF a \in members THEN FoundingStake ELSE 0
    IN  /\ wallets = [h \in Holders |->
             IF h = Owner THEN 0 ELSE InitialTokens - stakeOf(h)]
        /\ balances = [a \in Stakers |-> stakeOf(a)]
        /\ totalStaked = Cardinality(members) * FoundingStake
        /\ contractTokens = totalStaked
        /\ penaltyBalance = 0
        /\ rewards = [a \in Stakers |-> 0]
        /\ aliases = [a \in Stakers |-> NoAccount]
        /\ aliasCounts = [a \in Stakers |-> 0]
        /\ permittedStakers = {}
        /\ permittedStakersOn = FALSE
        /\ minimumStake = InitialMinimumStake
        /\ maximumStake = InitialMaximumStake
        /\ maxAliasCount = InitialMaxAliasCount
        /\ state = "Active"
        /\ epochNumber = 2
        /\ timeLeft = InitialEpochLength
        /\ retries = 0
        /\ epochLength = InitialEpochLength
        /\ minimumValidatorCount = InitialMinimumValidatorCount
        /\ tokenRewardPerTokenPerEpoch = InitialTokenReward
        /\ kickPenaltyPercent = InitialKickPenaltyPercent
        /\ validatorsInCurrentEpoch = Founders
        /\ validatorsInNextEpoch = members
        /\ validatorsKickedFromNextEpoch = {}
        /\ currentValidatorsKickedFromNextEpoch = {}
        /\ readyForNextEpoch = {}
        /\ votesToKick = {}
        /\ validators = [a \in Stakers |->
             IF a \in members
             THEN [nodeAddress |-> ArgsOf(a)[1], commsKeys |-> ArgsOf(a)[2]]
             ELSE [nodeAddress |-> NoNode, commsKeys |-> NoKey]]
        /\ nodeAddressToStakerAddress = [n \in Nodes |->
             IF \E a \in members : ArgsOf(a)[1] = n
             THEN CHOOSE a \in members : ArgsOf(a)[1] = n ELSE NoAccount]
        /\ usedCommsKeys = {ArgsOf(a)[2] : a \in members}

EstablishedSpec == EstablishedInit /\ [][AdminNext]_vars
=============================================================================
