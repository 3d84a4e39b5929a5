-------------------------- MODULE StakingTypeProofs --------------------------
(***************************************************************************)
(* Type correctness of the two diamonds, for every value of the constants. *)
(***************************************************************************)
EXTENDS StakingEstablished, FiniteSetTheorems, TLAPS

\* Integer division by a positive number keeps the naturals.
LEMMA DivIsNat ==
    ASSUME NEW a \in Nat, NEW b \in Nat, NEW c \in Nat \ {0}
    PROVE  (a * b) \div c \in Nat
<1>1. a * b \in Nat
  OBVIOUS
<1>2. \A p \in Nat, q \in Nat \ {0} : p \div q \in Nat
  OBVIOUS
<1> QED
  BY <1>1, <1>2

\* The account an alias stands for is an account of the contract.
LEMMA MainAccountType ==
    ASSUME BalancesTypeOK, NEW a \in Stakers
    PROVE  MainAccount(a) \in Stakers /\ BalanceOf(a) \in Nat
BY BalancesAssumption DEF BalancesTypeOK, MainAccount, BalanceOf

-----------------------------------------------------------------------------
(* The handlers of StakingBalances, which both specifications use.          *)

LEMMA StakeTokensType ==
    ASSUME BalancesTypeOK, NEW a \in Stakers, NEW n \in Nat, StakeTokens(n, a)
    PROVE  BalancesTypeOK'
BY BalancesAssumption
   DEF BalancesTypeOK, StakeTokens, PayIn, Holders, aliasVars, permitVars, limitVars

LEMMA WithdrawTokensType ==
    ASSUME BalancesTypeOK, NEW a \in Stakers, NEW n \in Nat, NEW S, WithdrawTokens(n, a, S)
    PROVE  BalancesTypeOK'
BY BalancesAssumption
   DEF BalancesTypeOK, WithdrawTokens, LowerStake, LowerTotal, PayOut, Holders,
       aliasVars, permitVars, limitVars

LEMMA PenalizeTokensType ==
    ASSUME BalancesTypeOK, NEW a \in Stakers, NEW n \in Nat, PenalizeTokens(n, a)
    PROVE  BalancesTypeOK'
BY MainAccountType, BalancesAssumption
   DEF BalancesTypeOK, PenalizeTokens, LowerStake, LowerTotal, aliasVars, permitVars, limitVars

LEMMA RewardValidatorsType ==
    ASSUME BalancesTypeOK, NEW S \in SUBSET Stakers, NEW rate \in Nat,
           RewardValidators(S, rate)
    PROVE  BalancesTypeOK'
<1> DEFINE payees(m) == {a \in S : MainAccount(a) = m /\ IsRewarded(a, S)}
           reward(m) == Cardinality(payees(m)) * ((rate * balances[m]) \div TokenUnit)
<1>1. ASSUME NEW m \in Stakers
      PROVE  reward(m) \in Nat
  <2>1. Cardinality(payees(m)) \in Nat
    BY StakingAssumption, FS_Subset, FS_CardinalityType
  <2>2. (rate * balances[m]) \div TokenUnit \in Nat
    BY DivIsNat, BalancesAssumption DEF BalancesTypeOK
  <2> QED
    BY <2>1, <2>2
<1>2. rewards' = [m \in Stakers |-> rewards[m] + reward(m)]
  BY DEF RewardValidators
<1>3. rewards' \in [Stakers -> Nat]
  <2> SUFFICES ASSUME NEW m \in Stakers PROVE rewards[m] + reward(m) \in Nat
    BY <1>2
  <2> HIDE DEF reward
  <2> QED
    BY <1>1 DEF BalancesTypeOK
<1> QED
  BY <1>3 DEF BalancesTypeOK, RewardValidators, tokenVars, aliasVars, permitVars, limitVars

LEMMA AliasType ==
    ASSUME BalancesTypeOK, NEW a \in Stakers, NEW b \in Stakers, NEW S,
           AddAlias(a, b) \/ RemoveAlias(a, b, S)
    PROVE  BalancesTypeOK'
<1>1. CASE AddAlias(a, b)
  BY <1>1 DEF BalancesTypeOK, AddAlias, tokenVars, permitVars, limitVars
<1>2. CASE RemoveAlias(a, b, S)
  BY <1>2 DEF BalancesTypeOK, RemoveAlias, tokenVars, permitVars, limitVars
<1> QED
  BY <1>1, <1>2

LEMMA PenaltyPotType ==
    ASSUME BalancesTypeOK, NEW n \in Nat, NEW h \in Recipients,
           TransferPenaltyTokens(n, h) \/ (h \in Stakers /\ RestakePenaltyTokens(h, n))
    PROVE  BalancesTypeOK'
<1>1. CASE TransferPenaltyTokens(n, h)
  BY <1>1 DEF BalancesTypeOK, TransferPenaltyTokens, LowerPenalty, PayOut, Recipients,
              Holders, aliasVars, permitVars, limitVars
<1>2. CASE h \in Stakers /\ RestakePenaltyTokens(h, n)
  BY <1>2 DEF BalancesTypeOK, RestakePenaltyTokens, LowerPenalty, PayOut, aliasVars,
              permitVars, limitVars
<1> QED
  BY <1>1, <1>2

LEMMA SendTokensType ==
    ASSUME BalancesTypeOK, NEW n \in Nat, NEW h \in Holders, SendTokens(n, h)
    PROVE  BalancesTypeOK'
BY DEF BalancesTypeOK, SendTokens, PayIn, aliasVars, permitVars, limitVars

LEMMA BalancesUnchangedType ==
    ASSUME BalancesTypeOK, UNCHANGED balancesVars
    PROVE  BalancesTypeOK'
BY DEF BalancesTypeOK, balancesVars, tokenVars, aliasVars, permitVars, limitVars

LEMMA StakingUnchangedType ==
    ASSUME StakingTypeOK, UNCHANGED stakingVars
    PROVE  StakingTypeOK'
BY DEF StakingTypeOK, stakingVars, configVars, setVars, kickedVars, phaseVars, registryVars

-----------------------------------------------------------------------------
(* The functions of the Staking diamond.                                    *)

LEMMA JoinType ==
    ASSUME StakingTypeOK, NEW a \in Stakers, NEW args \in JoinArgs[a], NEW stake,
           JoinNextEpoch(a, args[1], args[2], stake)
    PROVE  StakingTypeOK'
<1>1. args[1] \in Nodes /\ args[2] \in Keys
  BY StakingAssumption
<1> QED
  BY <1>1, StakingAssumption
     DEF StakingTypeOK, JoinNextEpoch, RegisterNode, SetValidatorRecord, Validator,
         configVars, kickedVars, phaseVars

LEMMA SetNodeInfoType ==
    ASSUME StakingTypeOK, NEW a \in Stakers, NEW args \in InfoArgs[a],
           SetNodeInfo(a, args[1], args[2])
    PROVE  StakingTypeOK'
<1>1. args[1] \in Nodes /\ args[2] \in Keys
  BY StakingAssumption
<1> QED
  BY <1>1, StakingAssumption
     DEF StakingTypeOK, SetNodeInfo, SetValidatorRecord, Validator,
         configVars, setVars, kickedVars, phaseVars

LEMMA LeaveType ==
    ASSUME StakingTypeOK, NEW a \in Stakers, StakerRequestToLeave(a)
    PROVE  StakingTypeOK'
BY DEF StakingTypeOK, StakerRequestToLeave, RemoveValidatorFromNextEpoch,
       configVars, kickedVars, phaseVars

LEMMA SignalType ==
    ASSUME StakingTypeOK, NEW n \in Nodes, SignalReadyForNextEpoch(n)
    PROVE  StakingTypeOK'
BY DEF StakingTypeOK, SignalReadyForNextEpoch, States, configVars, setVars, kickedVars,
       registryVars

LEMMA LockType ==
    ASSUME StakingTypeOK, LockValidatorsForNextEpoch
    PROVE  StakingTypeOK'
BY DEF StakingTypeOK, LockValidatorsForNextEpoch, States, configVars, setVars, kickedVars,
       registryVars

LEMMA AdvanceType ==
    ASSUME StakingTypeOK, AdvanceEpoch
    PROVE  StakingTypeOK'
BY DEF StakingTypeOK, AdvanceEpoch, States, configVars, registryVars

LEMMA UnlockType ==
    ASSUME StakingTypeOK, UnlockEpoch
    PROVE  /\ state' \in States
           /\ timeLeft' \in Nat
           /\ retries' \in Nat
           /\ readyForNextEpoch' \subseteq Stakers \cup {NoAccount}
BY DEF StakingTypeOK, UnlockEpoch, States

LEMMA KickType ==
    ASSUME TypeOK, NEW n \in Nodes, NEW a \in Stakers, NEW r \in Reasons,
           KickValidatorInNextEpoch(n, a, r)
    PROVE  TypeOK'
<1> DEFINE voter == nodeAddressToStakerAddress[n]
           votes == votesToKick \cup {Vote(a, voter)}
<1>1. votesToKick' \subseteq Nat \X Stakers \X Stakers
  BY DEF TypeOK, StakingTypeOK, KickValidatorInNextEpoch, Vote
<1>2. UNCHANGED configVars
  BY DEF KickValidatorInNextEpoch
<1>3. CASE KickByVote(a, r)
  <2>1. KickPenalty(a, r) \in Nat
    BY MainAccountType, DivIsNat DEF KickPenalty, TypeOK, StakingTypeOK
  <2>2. BalancesTypeOK'
    BY <1>3, <2>1, PenalizeTokensType DEF TypeOK, KickByVote
  <2>3. /\ state' \in States
        /\ timeLeft' \in Nat
        /\ retries' \in Nat
        /\ readyForNextEpoch' \subseteq Stakers \cup {NoAccount}
    BY <1>3, UnlockType DEF TypeOK, StakingTypeOK, KickByVote, ReactToKick, States
  <2>4. /\ validatorsInNextEpoch' \subseteq Stakers
        /\ usedCommsKeys' \subseteq Keys \cup {NoKey}
        /\ validatorsKickedFromNextEpoch' \subseteq Stakers
        /\ currentValidatorsKickedFromNextEpoch' \subseteq Stakers
    BY <1>3 DEF TypeOK, StakingTypeOK, KickByVote, RemoveValidatorFromNextEpoch, MarkKicked
  <2> QED
    BY <1>1, <1>2, <1>3, <2>2, <2>3, <2>4
       DEF TypeOK, StakingTypeOK, KickByVote, configVars
<1>4. CASE UNCHANGED <<balancesVars, setVars, phaseVars, registryVars>>
  <2>1. BalancesTypeOK'
    BY <1>4, BalancesUnchangedType DEF TypeOK
  <2> QED
    BY <1>1, <1>2, <1>4, <2>1
       DEF TypeOK, StakingTypeOK, configVars, setVars, kickedVars, phaseVars, registryVars
<1> QED
  BY <1>3, <1>4 DEF KickValidatorInNextEpoch

-----------------------------------------------------------------------------

LEMMA StakerStepType ==
    ASSUME TypeOK, NEW a \in Stakers, StakerNext(a)
    PROVE  TypeOK'
<1> USE BalancesUnchangedType, StakingUnchangedType DEF TypeOK
<1>1. ASSUME NEW args \in JoinArgs[a], RequestToJoin(a, args[1], args[2])
      PROVE  TypeOK'
  BY <1>1, JoinType DEF RequestToJoin
<1>2. ASSUME NEW amount \in Amounts, Stake(a, amount)
      PROVE  TypeOK'
  BY <1>2, StakeTokensType, BalancesAssumption DEF Stake
<1>3. ASSUME NEW amount \in Amounts, NEW args \in JoinArgs[a],
             StakeAndJoin(a, amount, args[1], args[2])
      PROVE  TypeOK'
  BY <1>3, StakeTokensType, JoinType, BalancesAssumption DEF StakeAndJoin
<1>4. ASSUME NEW amount \in Amounts, Withdraw(a, amount)
      PROVE  TypeOK'
  BY <1>4, WithdrawTokensType, BalancesAssumption DEF Withdraw
<1>5. ASSUME Exit(a) PROVE TypeOK'
  BY <1>5, WithdrawTokensType, MainAccountType DEF Exit
<1>6. ASSUME GetReward(a) PROVE TypeOK'
  BY <1>6 DEF GetReward, vars
<1>7. ASSUME StakerRequestToLeave(a) PROVE TypeOK'
  BY <1>7, LeaveType DEF StakerRequestToLeave
<1>8. ASSUME NEW args \in InfoArgs[a], SetNodeInfo(a, args[1], args[2])
      PROVE  TypeOK'
  BY <1>8, SetNodeInfoType DEF SetNodeInfo
<1>9. ASSUME NEW b \in AliasAccounts, AddStakerAlias(a, b) \/ RemoveStakerAlias(a, b)
      PROVE  TypeOK'
  <2>1. b \in Stakers
    BY StakingAssumption
  <2> QED
    BY <1>9, <2>1, AliasType DEF AddStakerAlias, RemoveStakerAlias
<1> QED
  BY <1>1, <1>2, <1>3, <1>4, <1>5, <1>6, <1>7, <1>8, <1>9 DEF StakerNext

\* Every step of the specification keeps the types.
LEMMA NextType ==
    ASSUME TypeOK, Next
    PROVE  TypeOK'
<1>1. ASSUME NEW a \in Stakers, StakerNext(a) PROVE TypeOK'
  BY <1>1, StakerStepType
<1>2. ASSUME NEW n \in Nodes, SignalReadyForNextEpoch(n) PROVE TypeOK'
  BY <1>2, SignalType, BalancesUnchangedType DEF TypeOK, SignalReadyForNextEpoch
<1>3. ASSUME NEW n \in Nodes, RequestToLeaveAsNode(n) PROVE TypeOK'
  <2>1. nodeAddressToStakerAddress[n] \in Stakers
    BY <1>3 DEF TypeOK, StakingTypeOK, RequestToLeaveAsNode
  <2> QED
    BY <1>3, <2>1, LeaveType, BalancesUnchangedType
       DEF TypeOK, RequestToLeaveAsNode, StakerRequestToLeave
<1>4. ASSUME NEW n \in Nodes, NEW a \in KickTargets, NEW r \in Reasons,
             KickValidatorInNextEpoch(n, a, r)
      PROVE  TypeOK'
  BY <1>4, KickType, StakingAssumption
<1>5. ASSUME LockValidatorsForNextEpoch PROVE TypeOK'
  BY <1>5, LockType, BalancesUnchangedType DEF TypeOK, LockValidatorsForNextEpoch
<1>6. ASSUME AdvanceEpoch PROVE TypeOK'
  BY <1>6, AdvanceType, RewardValidatorsType DEF TypeOK, StakingTypeOK, AdvanceEpoch
<1>7. ASSUME OpenNetwork PROVE TypeOK'
  BY <1>7, BalancesUnchangedType
     DEF TypeOK, StakingTypeOK, OpenNetwork, SetEpochState, States, configVars, setVars,
         kickedVars, registryVars
<1>8. ASSUME Tick PROVE TypeOK'
  BY <1>8, BalancesUnchangedType
     DEF TypeOK, StakingTypeOK, Tick, configVars, setVars, kickedVars, registryVars
<1>9. ASSUME NEW h \in Holders, NEW amount \in Amounts, SendLIT(h, amount) PROVE TypeOK'
  BY <1>9, SendTokensType, StakingUnchangedType, BalancesAssumption DEF TypeOK, SendLIT
<1> QED
  BY <1>1, <1>2, <1>3, <1>4, <1>5, <1>6, <1>7, <1>8, <1>9 DEF Next, NodeNext

LEMMA InitType == Init => TypeOK
<1> SUFFICES ASSUME Init PROVE TypeOK
  OBVIOUS
<1>1. BalancesTypeOK
  BY BalancesAssumption DEF Init, BalancesInit, BalancesTypeOK, Holders
<1>2. validators \in [Stakers -> Validator]
  BY DEF Init, Validator
<1>3. StakingTypeOK
  BY <1>2, StakingAssumption DEF Init, StakingTypeOK, States
<1> QED
  BY <1>1, <1>3 DEF TypeOK

\* The state in which the second epoch is observed has its types.
LEMMA EstablishedType == EstablishedInit => TypeOK
<1> SUFFICES ASSUME EstablishedInit PROVE TypeOK
  OBVIOUS
<1> DEFINE members == Founders \cup Joiners
           stakeOf(a) == IF a \in members THEN FoundingStake ELSE 0
<1>1. members \in SUBSET Stakers /\ IsFiniteSet(members)
  BY EstablishedAssumption, StakingAssumption, FS_Subset
<1>2. ASSUME NEW a \in members
      PROVE  ArgsOf(a)[1] \in Nodes /\ ArgsOf(a)[2] \in Keys
  <2>1. ArgsOf(a) \in JoinArgs[a]
    BY EstablishedAssumption DEF ArgsOf
  <2> QED
    BY <1>1, <2>1, StakingAssumption
<1>3. \A h \in Holders : /\ stakeOf(h) \in Nat
                        /\ InitialTokens - stakeOf(h) \in Nat
  BY BalancesAssumption, EstablishedAssumption
<1>4. totalStaked \in Nat
  <2>1. \A c \in Nat : c * FoundingStake \in Nat
    BY EstablishedAssumption
  <2> QED
    BY <1>1, <2>1, FS_CardinalityType DEF EstablishedInit
<1>5. BalancesTypeOK
  BY <1>3, <1>4, BalancesAssumption DEF EstablishedInit, BalancesTypeOK, Holders
<1>6. /\ validators \in [Stakers -> Validator]
      /\ nodeAddressToStakerAddress \in [Nodes -> Stakers \cup {NoAccount}]
      /\ usedCommsKeys \subseteq Keys \cup {NoKey}
  <2>1. validators \in [Stakers -> Validator]
    BY <1>2 DEF EstablishedInit, Validator
  <2>2. \A n \in Nodes :
           (\E a \in members : ArgsOf(a)[1] = n)
               => (CHOOSE a \in members : ArgsOf(a)[1] = n) \in Stakers
    BY <1>1
  <2>3. nodeAddressToStakerAddress \in [Nodes -> Stakers \cup {NoAccount}]
    BY <2>2 DEF EstablishedInit
  <2> QED
    BY <1>2, <2>1, <2>3 DEF EstablishedInit
<1>7. StakingTypeOK
  BY <1>1, <1>6, StakingAssumption, EstablishedAssumption
     DEF EstablishedInit, StakingTypeOK, States
<1> QED
  BY <1>5, <1>7 DEF TypeOK

-----------------------------------------------------------------------------
(* The functions of the owner.                                              *)

LEMMA AdminKickType ==
    ASSUME StakingTypeOK, NEW a \in Stakers, AdminKickValidatorInNextEpoch(a)
    PROVE  StakingTypeOK'
<1>1. /\ state' \in States
      /\ timeLeft' \in Nat
      /\ retries' \in Nat
      /\ readyForNextEpoch' \subseteq Stakers \cup {NoAccount}
  BY UnlockType DEF StakingTypeOK, AdminKickValidatorInNextEpoch
<1> QED
  BY <1>1 DEF StakingTypeOK, AdminKickValidatorInNextEpoch, MarkKicked,
              RemoveValidatorFromNextEpoch, configVars

LEMMA AdminRejoinType ==
    ASSUME StakingTypeOK, NEW a \in Stakers, AdminRejoinValidator(a)
    PROVE  StakingTypeOK'
BY DEF StakingTypeOK, AdminRejoinValidator, Forgive, configVars, phaseVars, registryVars

LEMMA AdminResetType ==
    ASSUME StakingTypeOK, AdminResetEpoch
    PROVE  StakingTypeOK'
BY DEF StakingTypeOK, AdminResetEpoch, States, configVars, registryVars

\* Every intervention of the owner in the epochs keeps the types.
LEMMA EpochAdminType ==
    ASSUME TypeOK, EpochAdminNext
    PROVE  TypeOK'
<1>1. ASSUME NEW a \in Stakers, AdminKickValidatorInNextEpoch(a) PROVE TypeOK'
  BY <1>1, AdminKickType, BalancesUnchangedType DEF TypeOK, AdminKickValidatorInNextEpoch
<1>2. ASSUME NEW a \in Stakers, AdminRejoinValidator(a) PROVE TypeOK'
  BY <1>2, AdminRejoinType, BalancesUnchangedType DEF TypeOK, AdminRejoinValidator
<1>3. ASSUME NEW a \in Stakers, NEW amount \in Amounts, AdminSlashValidator(a, amount)
      PROVE  TypeOK'
  BY <1>3, PenalizeTokensType, StakingUnchangedType, BalancesAssumption
     DEF TypeOK, AdminSlashValidator
<1>4. ASSUME AdminResetEpoch PROVE TypeOK'
  BY <1>4, AdminResetType, BalancesUnchangedType DEF TypeOK, AdminResetEpoch
<1>5. ASSUME NEW s \in SettableStates, SetEpochState(s) PROVE TypeOK'
  BY <1>5, AdminAssumption, BalancesUnchangedType
     DEF TypeOK, StakingTypeOK, SetEpochState, configVars, setVars, kickedVars, registryVars
<1>6. ASSUME NEW n \in SettableLengths, SetEpochEndTime(n) \/ SetEpochLength(n)
      PROVE  TypeOK'
  <2>1. n \in Nat
    BY AdminAssumption
  <2>2. CASE SetEpochEndTime(n)
    BY <2>1, <2>2, BalancesUnchangedType
       DEF TypeOK, StakingTypeOK, SetEpochEndTime, configVars, setVars, kickedVars,
           registryVars
  <2>3. CASE SetEpochLength(n)
    BY <2>1, <2>3, BalancesUnchangedType
       DEF TypeOK, StakingTypeOK, SetEpochLength, setVars, kickedVars, phaseVars,
           registryVars
  <2> QED
    BY <1>6, <2>2, <2>3
<1>7. ASSUME NEW n \in SettableCounts, NEW m \in SettableRewards, SetConfig(n, m)
      PROVE  TypeOK'
  BY <1>7, AdminAssumption, BalancesUnchangedType
     DEF TypeOK, StakingTypeOK, SetConfig, setVars, kickedVars, phaseVars, registryVars
<1>8. ASSUME NEW r \in Reasons, NEW n \in SettablePercents, SetKickPenaltyPercent(r, n)
      PROVE  TypeOK'
  BY <1>8, AdminAssumption, BalancesUnchangedType
     DEF TypeOK, StakingTypeOK, SetKickPenaltyPercent, setVars, kickedVars, phaseVars,
         registryVars
<1> QED
  BY <1>1, <1>2, <1>3, <1>4, <1>5, <1>6, <1>7, <1>8 DEF EpochAdminNext

\* Every function of the owner of StakingBalances keeps the types.
LEMMA BalancesAdminType ==
    ASSUME TypeOK, BalancesAdminNext
    PROVE  TypeOK'
<1>1. StakingTypeOK'
  BY StakingUnchangedType DEF TypeOK, BalancesAdminNext
<1>2. ASSUME NEW n \in Amounts, NEW h \in Recipients, TransferPenaltyTokens(n, h)
      PROVE  BalancesTypeOK'
  BY <1>2, PenaltyPotType, BalancesAssumption DEF TypeOK
<1>3. ASSUME NEW n \in Amounts, NEW a \in Stakers, RestakePenaltyTokens(a, n)
      PROVE  BalancesTypeOK'
  <2>1. a \in Recipients
    BY DEF Recipients, Holders
  <2> QED
    BY <1>3, <2>1, PenaltyPotType, BalancesAssumption DEF TypeOK
<1>4. ASSUME NEW P \in SUBSET Stakers, SetPermittedStakers(P)
      PROVE  BalancesTypeOK'
  BY <1>4 DEF TypeOK, BalancesTypeOK, SetPermittedStakers, tokenVars, aliasVars, limitVars
<1>5. ASSUME NEW a \in Permittable, AddPermittedStaker(a) \/ RemovePermittedStaker(a)
      PROVE  BalancesTypeOK'
  <2>1. /\ permittedStakers \cup {a} \in SUBSET Stakers
        /\ permittedStakers \ {a} \in SUBSET Stakers
    BY AdminAssumption DEF TypeOK, BalancesTypeOK
  <2> QED
    BY <1>4, <1>5, <2>1 DEF AddPermittedStaker, RemovePermittedStaker
<1>6. ASSUME NEW on \in SettableSwitches, SetPermittedStakersOn(on)
      PROVE  BalancesTypeOK'
  BY <1>6, AdminAssumption
     DEF TypeOK, BalancesTypeOK, SetPermittedStakersOn, tokenVars, aliasVars, limitVars
<1>7. ASSUME NEW n \in SettableLimits,
             SetMinimumStake(n) \/ SetMaximumStake(n) \/ SetMaxAliasCount(n)
      PROVE  BalancesTypeOK'
  <2>1. n \in Nat
    BY AdminAssumption
  <2> QED
    BY <1>7, <2>1
       DEF TypeOK, BalancesTypeOK, SetMinimumStake, SetMaximumStake, SetMaxAliasCount,
           tokenVars, aliasVars, permitVars
<1> QED
  BY <1>1, <1>2, <1>3, <1>5, <1>6, <1>7 DEF TypeOK, BalancesAdminNext

-----------------------------------------------------------------------------

LEMMA StutterType == TypeOK /\ UNCHANGED vars => TypeOK'
BY BalancesUnchangedType, StakingUnchangedType DEF TypeOK, vars

LEMMA AdminStepType == TypeOK /\ [AdminNext]_vars => TypeOK'
BY NextType, EpochAdminType, BalancesAdminType, StutterType DEF AdminNext

(* Type correctness of the two diamonds, run without their owner: every      *)
(* balance stays a natural number (no subtraction goes unchecked), every set *)
(* a set of stakers, the state one of the six.                               *)
THEOREM TypeCorrect == Spec => []TypeOK
BY InitType, NextType, StutterType, PTL DEF Spec

(* The same with every function of the owner, called at any moment.          *)
THEOREM AdminTypeCorrect == AdminSpec => []TypeOK
BY AdminStepType, InitType, PTL DEF AdminSpec
=============================================================================
