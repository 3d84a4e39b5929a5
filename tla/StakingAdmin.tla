---------------------------- MODULE StakingAdmin -----------------------------
(***************************************************************************)
(* The Staking and StakingBalances diamonds with the functions of their    *)
(* owner, who may intervene at any moment: kick, rejoin and slash          *)
(* validators, force the state, move penalty tokens, change the limits.    *)
(***************************************************************************)
EXTENDS StakingProperties

CONSTANTS
    SettableStates,        \* states the owner forces with setEpochState
    SettableCounts,        \* values of minimumValidatorCount it sets
    SettableRewards,       \* values of tokenRewardPerTokenPerEpoch
    SettableLimits,        \* stakes and alias counts it sets as limits
    SettablePercents,      \* kick penalties it sets
    SettableLengths,       \* epoch lengths and remaining times it sets
    Permittable,           \* stakers it adds to and removes from the permitted ones
    SettableSwitches,      \* values of permittedStakersOn it sets
    DevEnvironment         \* env == ContractResolver.Env.Dev

ASSUME AdminAssumption ==
    /\ SettableStates \subseteq States
    /\ SettableCounts \subseteq Nat
    /\ SettableRewards \subseteq Nat
    /\ SettableLimits \subseteq Nat
    /\ SettablePercents \subseteq Nat
    /\ SettableLengths \subseteq Nat
    /\ Permittable \subseteq Stakers
    /\ SettableSwitches \subseteq BOOLEAN
    /\ DevEnvironment \in BOOLEAN

-----------------------------------------------------------------------------
(* Interventions in the epoch.                                              *)

AdminKickValidatorInNextEpoch(target) ==
    /\ MarkKicked(target)
    /\ RemoveValidatorFromNextEpoch(target)
    /\ \/ UnlockEpoch
       \/ state \notin Frozen /\ UNCHANGED <<state, timeLeft, readyForNextEpoch, retries>>
    /\ UNCHANGED <<balancesVars, configVars, validatorsInCurrentEpoch, epochNumber,
                   validators, nodeAddressToStakerAddress, votesToKick>>

\* A mutated form: only one of the two sets forgets.
ForgiveCurrentOnly(target) ==
    /\ UNCHANGED validatorsKickedFromNextEpoch
    /\ currentValidatorsKickedFromNextEpoch' =
         currentValidatorsKickedFromNextEpoch \ {target}

\* Both kicked sets forget a validator the owner brings back.
Forgive(target) ==
    /\ validatorsKickedFromNextEpoch' = validatorsKickedFromNextEpoch \ {target}
    /\ currentValidatorsKickedFromNextEpoch' =
         currentValidatorsKickedFromNextEpoch \ {target}

AdminRejoinValidator(target) ==
    /\ SetIsOpen
    /\ Forgive(target)
    /\ validatorsInNextEpoch' = validatorsInNextEpoch \cup {target}
    /\ UNCHANGED <<balancesVars, configVars, validatorsInCurrentEpoch, phaseVars,
                   registryVars, votesToKick>>

\* The ready flags, the votes of epoch 1 and the used keys are left as they are.
AdminResetEpoch ==
    /\ DevEnvironment
    /\ validatorsInCurrentEpoch' = {}
    /\ validatorsInNextEpoch' = {}
    /\ validatorsKickedFromNextEpoch' = {}
    /\ currentValidatorsKickedFromNextEpoch' = {}
    /\ epochNumber' = 1
    /\ timeLeft' = epochLength
    /\ retries' = 0
    /\ state' = "Paused"
    /\ UNCHANGED <<balancesVars, configVars, readyForNextEpoch, registryVars, votesToKick>>

AdminSlashValidator(target, amount) ==
    /\ PenalizeTokens(amount, target)
    /\ UNCHANGED stakingVars

SetEpochEndTime(time) ==
    /\ timeLeft' = time
    /\ UNCHANGED <<balancesVars, configVars, setVars, state, epochNumber, retries,
                   readyForNextEpoch, registryVars, votesToKick>>

-----------------------------------------------------------------------------
(* Configuration.                                                           *)

SetEpochLength(length) ==
    /\ epochLength' = length
    /\ UNCHANGED <<balancesVars, minimumValidatorCount, tokenRewardPerTokenPerEpoch,
                   kickPenaltyPercent, setVars, phaseVars, registryVars, votesToKick>>

SetConfig(count, reward) ==
    /\ minimumValidatorCount' = count
    /\ tokenRewardPerTokenPerEpoch' = reward
    /\ UNCHANGED <<balancesVars, kickPenaltyPercent, epochLength, setVars, phaseVars,
                   registryVars, votesToKick>>

\* setKickPenaltyPercent, and the part of setComplaintConfig the contracts read.
SetKickPenaltyPercent(reason, percent) ==
    /\ kickPenaltyPercent' = [kickPenaltyPercent EXCEPT ![reason] = percent]
    /\ UNCHANGED <<balancesVars, minimumValidatorCount, tokenRewardPerTokenPerEpoch,
                   epochLength, setVars, phaseVars, registryVars, votesToKick>>

EpochAdminNext ==
    \/ \E a \in Stakers :
          \/ AdminKickValidatorInNextEpoch(a)
          \/ AdminRejoinValidator(a)
          \/ \E amount \in Amounts : AdminSlashValidator(a, amount)
    \/ AdminResetEpoch
    \/ \E s \in SettableStates : SetEpochState(s)
    \/ \E time \in SettableLengths : SetEpochEndTime(time)
    \/ \E length \in SettableLengths : SetEpochLength(length)
    \/ \E count \in SettableCounts, reward \in SettableRewards : SetConfig(count, reward)
    \/ \E reason \in Reasons, percent \in SettablePercents :
          SetKickPenaltyPercent(reason, percent)

\* The owner's functions of StakingBalances.
BalancesAdminNext ==
    /\ \/ \E amount \in Amounts :
            \/ \E h \in Recipients : TransferPenaltyTokens(amount, h)
            \/ \E a \in Stakers : RestakePenaltyTokens(a, amount)
       \/ \E a \in Permittable : AddPermittedStaker(a) \/ RemovePermittedStaker(a)
       \/ \E on \in SettableSwitches : SetPermittedStakersOn(on)
       \/ \E limit \in SettableLimits :
            SetMinimumStake(limit) \/ SetMaximumStake(limit) \/ SetMaxAliasCount(limit)
    /\ UNCHANGED stakingVars

AdminNext == Next \/ EpochAdminNext \/ BalancesAdminNext

AdminSpec == Init /\ [][AdminNext]_vars

=============================================================================
