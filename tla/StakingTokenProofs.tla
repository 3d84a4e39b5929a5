------------------------- MODULE StakingTokenProofs --------------------------
(***************************************************************************)
(* Token custody, payments and rewards, for every set of stakers, all      *)
(* amounts and all aliases, whatever the owner does.                       *)
(***************************************************************************)
EXTENDS StakingTypeProofs, StakingTokens, SumTheorems

\* Every step on the tokens is one of six.
TokenStep(n) ==
    \/ \E a \in Stakers : \/ StakeTokens(n, a)
                         \/ WithdrawTokens(n, a, validatorsInCurrentEpoch)
                         \/ PenalizeTokens(n, a)
                         \/ RestakePenaltyTokens(a, n)
    \/ \E h \in Recipients : TransferPenaltyTokens(n, h)
    \/ \E h \in Holders : SendTokens(n, h)

LEMMA TokenCases ==
    ASSUME TypeOK, [AdminNext]_vars
    PROVE  \/ \E n \in Nat : TokenStep(n)
           \/ UNCHANGED tokenVars
<1> DEFINE Goal == \/ \E n \in Nat : TokenStep(n)
                   \/ UNCHANGED tokenVars
<1> USE DEF TokenStep
<1>1. CASE UNCHANGED balancesVars
  BY <1>1 DEF balancesVars
<1>2. Amounts \subseteq Nat /\ KickTargets \subseteq Stakers
  BY BalancesAssumption, StakingAssumption
<1>3. ASSUME NEW a \in Stakers, StakerNext(a) PROVE Goal
  <2>1. BalanceOf(a) \in Nat
    BY MainAccountType DEF TypeOK
  <2>2. CASE \E b \in AliasAccounts : AddStakerAlias(a, b) \/ RemoveStakerAlias(a, b)
    BY <2>2 DEF AddStakerAlias, RemoveStakerAlias, AddAlias, RemoveAlias
  <2>3. CASE GetReward(a)
    BY <1>1, <2>3 DEF GetReward, vars
  <2> QED
    BY <1>1, <1>2, <1>3, <2>1, <2>2, <2>3
       DEF StakerNext, RequestToJoin, Stake, StakeAndJoin, Withdraw, Exit,
           StakerRequestToLeave, SetNodeInfo
<1>4. ASSUME NEW n \in Nodes, NEW a \in KickTargets, NEW r \in Reasons,
             KickValidatorInNextEpoch(n, a, r)
      PROVE  Goal
  <2>1. KickPenalty(a, r) \in Nat
    BY <1>2, MainAccountType, DivIsNat DEF KickPenalty, TypeOK, StakingTypeOK
  <2> QED
    BY <1>1, <1>2, <1>4, <2>1 DEF KickValidatorInNextEpoch, KickByVote
<1>5. ASSUME Next PROVE Goal
  <2>1. ASSUME NEW n \in Nodes, SignalReadyForNextEpoch(n) \/ RequestToLeaveAsNode(n)
        PROVE  UNCHANGED balancesVars
    BY <2>1 DEF SignalReadyForNextEpoch, RequestToLeaveAsNode, StakerRequestToLeave
  <2>2. CASE LockValidatorsForNextEpoch \/ OpenNetwork \/ Tick
    BY <1>1, <2>2 DEF LockValidatorsForNextEpoch, OpenNetwork, SetEpochState, Tick
  <2>3. CASE AdvanceEpoch
    BY <2>3 DEF AdvanceEpoch, RewardValidators
  <2>4. CASE \E h \in Holders, n \in Amounts : SendLIT(h, n)
    BY <1>2, <2>4 DEF SendLIT
  <2> QED
    BY <1>1, <1>3, <1>4, <1>5, <2>1, <2>2, <2>3, <2>4 DEF Next, NodeNext
<1>6. ASSUME EpochAdminNext PROVE Goal
  <2>1. CASE \E a \in Stakers, n \in Amounts : AdminSlashValidator(a, n)
    BY <1>2, <2>1 DEF AdminSlashValidator
  <2> QED
    BY <1>1, <1>6, <2>1
       DEF EpochAdminNext, AdminKickValidatorInNextEpoch, AdminRejoinValidator,
           AdminResetEpoch, SetEpochState, SetEpochEndTime, SetEpochLength, SetConfig,
           SetKickPenaltyPercent
<1>7. ASSUME BalancesAdminNext PROVE Goal
  <2>1. CASE \E n \in Amounts : \/ \E h \in Recipients : TransferPenaltyTokens(n, h)
                                \/ \E a \in Stakers : RestakePenaltyTokens(a, n)
    BY <1>2, <2>1
  <2> QED
    BY <1>7, <2>1
       DEF BalancesAdminNext, AddPermittedStaker, RemovePermittedStaker,
           SetPermittedStakers, SetPermittedStakersOn, SetMinimumStake, SetMaximumStake,
           SetMaxAliasCount
<1> QED
  BY <1>1, <1>5, <1>6, <1>7 DEF AdminNext, vars

-----------------------------------------------------------------------------

CustodyInv == TypeOK /\ TokenCustody

LEMMA CustodyNext == CustodyInv /\ [AdminNext]_vars => CustodyInv'
<1> SUFFICES ASSUME CustodyInv, [AdminNext]_vars PROVE TokenCustody'
  BY AdminStepType DEF CustodyInv
<1> USE DEF CustodyInv, TokenCustody, TypeOK, BalancesTypeOK
<1>1. ASSUME NEW n \in Nat, NEW a \in Stakers, StakeTokens(n, a) PROVE TokenCustody'
  BY <1>1 DEF StakeTokens, PayIn, Holders
<1>2. ASSUME NEW n \in Nat, NEW a \in Stakers,
             WithdrawTokens(n, a, validatorsInCurrentEpoch)
      PROVE  TokenCustody'
  BY <1>2 DEF WithdrawTokens, LowerTotal, PayOut
<1>3. ASSUME NEW n \in Nat, NEW a \in Stakers, PenalizeTokens(n, a) PROVE TokenCustody'
  BY <1>3 DEF PenalizeTokens, LowerTotal
<1>4. ASSUME NEW n \in Nat, NEW a \in Stakers, RestakePenaltyTokens(a, n)
      PROVE  TokenCustody'
  BY <1>4 DEF RestakePenaltyTokens, LowerPenalty, PayOut
<1>5. ASSUME NEW n \in Nat, NEW h \in Recipients, TransferPenaltyTokens(n, h)
      PROVE  TokenCustody'
  BY <1>5 DEF TransferPenaltyTokens, LowerPenalty, PayOut
<1>6. ASSUME NEW n \in Nat, NEW h \in Holders, SendTokens(n, h) PROVE TokenCustody'
  BY <1>6 DEF SendTokens, PayIn
<1>7. CASE UNCHANGED tokenVars
  BY <1>7 DEF tokenVars
<1> QED
  BY <1>1, <1>2, <1>3, <1>4, <1>5, <1>6, <1>7, TokenCases DEF TokenStep

(* The contract holds at least what is staked and kept as a penalty, whoever *)
(* is sent penalties and whatever is sent to it besides.                     *)
THEOREM CustodyCorrect == AdminSpec => []TokenCustody
<1>1. Init => CustodyInv
  BY InitType DEF Init, BalancesInit, CustodyInv, TokenCustody
<1>2. CustodyInv => TokenCustody
  BY DEF CustodyInv
<1> QED
  BY <1>1, <1>2, CustodyNext, PTL DEF AdminSpec

-----------------------------------------------------------------------------
(* The total of the stakes.  It is never recomputed: each step on the tokens *)
(* changes one balance, of the caller or of the account it stands for, and  *)
(* the total by as much.                                                    *)

\* StakesAddUp, with the sum as a function of the balances: a form in which
\* the prover can replace equals by equals.
TotalIsSum == totalStaked = PartialSums(balances, Stakers)[Stakers]

LEMMA SumOfStakes == StakesAddUp <=> TotalIsSum
BY SumDefinition DEF StakesAddUp, TotalIsSum

LEMMA SumOfStakesNext == StakesAddUp' <=> TotalIsSum'
BY SumOfStakes, PTL

LEMMA OneStakeChanges ==
    ASSUME TypeOK, TypeOK', StakesAddUp, NEW a \in Stakers,
           \A b \in Stakers \ {a} : balances'[b] = balances[b],
           totalStaked' + balances[a] = totalStaked + balances'[a]
    PROVE  StakesAddUp'
<1>1. /\ balances \in [Stakers -> Nat]
      /\ balances' \in [Stakers -> Nat]
      /\ totalStaked \in Nat
      /\ totalStaked' \in Nat
      /\ IsFiniteSet(Stakers)
  BY StakingAssumption DEF TypeOK, BalancesTypeOK
<1>2. MapThenSumSet(LAMBDA b : balances'[b], Stakers) + balances[a]
         = MapThenSumSet(LAMBDA b : balances[b], Stakers) + balances'[a]
  BY <1>1, SumChange
<1>3. MapThenSumSet(LAMBDA b : balances'[b], Stakers) \in Nat
  BY <1>1, SumType
<1>4. MapThenSumSet(LAMBDA b : balances[b], Stakers) = totalStaked
  BY DEF StakesAddUp
<1>5. totalStaked' = MapThenSumSet(LAMBDA b : balances'[b], Stakers)
  BY <1>1, <1>2, <1>3, <1>4
<1>6. totalStaked' = PartialSums(balances', Stakers)[Stakers]
  BY <1>5, SumDefinition
<1> QED
  BY <1>6, SumOfStakesNext DEF TotalIsSum

LEMMA StakesNext == TypeOK /\ StakesAddUp /\ [AdminNext]_vars => StakesAddUp'
<1> SUFFICES ASSUME TypeOK, StakesAddUp, [AdminNext]_vars PROVE StakesAddUp'
  OBVIOUS
<1>1. TypeOK'
  BY AdminStepType
<1> USE DEF TypeOK, BalancesTypeOK
<1>2. ASSUME NEW n \in Nat, NEW a \in Stakers,
             StakeTokens(n, a) \/ RestakePenaltyTokens(a, n)
      PROVE  StakesAddUp'
  BY <1>1, <1>2, OneStakeChanges DEF StakeTokens, RestakePenaltyTokens
<1>3. ASSUME NEW n \in Nat, NEW a \in Stakers,
             WithdrawTokens(n, a, validatorsInCurrentEpoch)
      PROVE  StakesAddUp'
  BY <1>1, <1>3, OneStakeChanges DEF WithdrawTokens, LowerStake, LowerTotal
<1>4. ASSUME NEW n \in Nat, NEW a \in Stakers, PenalizeTokens(n, a)
      PROVE  StakesAddUp'
  BY <1>1, <1>4, MainAccountType, OneStakeChanges
     DEF PenalizeTokens, LowerStake, LowerTotal
<1>5. CASE \/ UNCHANGED tokenVars
           \/ \E n \in Nat, h \in Recipients : TransferPenaltyTokens(n, h)
           \/ \E n \in Nat, h \in Holders : SendTokens(n, h)
  <2>1. UNCHANGED <<balances, totalStaked>>
    BY <1>5 DEF tokenVars, TransferPenaltyTokens, SendTokens
  <2> QED
    BY <2>1, SumOfStakes, SumOfStakesNext DEF TotalIsSum
<1> QED
  BY <1>2, <1>3, <1>4, <1>5, TokenCases DEF TokenStep

LEMMA StakesInit == Init => StakesAddUp
<1> SUFFICES ASSUME Init PROVE totalStaked = MapThenSumSet(LAMBDA a : balances[a], Stakers)
  BY DEF StakesAddUp
<1>1. /\ balances \in [Stakers -> Nat]
      /\ \A a \in Stakers : balances[a] = IF a \in {} THEN 0 ELSE 0
      /\ IsFiniteSet(Stakers)
      /\ {} \in SUBSET Stakers
  BY StakingAssumption DEF Init, BalancesInit
<1>2. MapThenSumSet(LAMBDA a : balances[a], Stakers) = Cardinality({}) * 0
  BY <1>1, SumOfConstant
<1> QED
  BY <1>2, FS_EmptySet DEF Init, BalancesInit

(* totalStaked is the sum of all stakes, however many stakers there are.     *)
THEOREM StakesCorrect == AdminSpec => []StakesAddUp
BY InitType, StakesInit, StakesNext, AdminStepType, PTL DEF AdminSpec

LEMMA Covered == TypeOK /\ TokenCustody /\ StakesAddUp => StakesAreCovered
<1> SUFFICES ASSUME TypeOK, TokenCustody, StakesAddUp, NEW a \in Stakers
             PROVE  /\ balances[a] <= totalStaked
                    /\ balances[a] + penaltyBalance <= contractTokens
  BY DEF StakesAreCovered
<1>1. /\ balances \in [Stakers -> Nat]
      /\ balances[a] \in Nat
      /\ totalStaked \in Nat
      /\ penaltyBalance \in Nat
      /\ contractTokens \in Nat
      /\ IsFiniteSet(Stakers)
  BY StakingAssumption DEF TypeOK, BalancesTypeOK
<1>2. balances[a] <= totalStaked
  BY <1>1, SumBound DEF StakesAddUp
<1> QED
  BY <1>1, <1>2 DEF TokenCustody

(* The contract can always pay a stake out, whatever happened to the others. *)
THEOREM Solvency == AdminSpec => []StakesAreCovered
BY AdminTypeCorrect, CustodyCorrect, StakesCorrect, Covered, PTL

-----------------------------------------------------------------------------

LEMMA OwnStakeStep ==
    ASSUME TypeOK, [AdminNext]_vars, NEW a \in Stakers, wallets'[a] > wallets[a]
    PROVE  \/ balances'[a] + (wallets'[a] - wallets[a]) = balances[a]
           \/ penaltyBalance' + (wallets'[a] - wallets[a]) = penaltyBalance
<1> DEFINE Goal == \/ balances'[a] + (wallets'[a] - wallets[a]) = balances[a]
                   \/ penaltyBalance' + (wallets'[a] - wallets[a]) = penaltyBalance
<1> USE DEF TypeOK, BalancesTypeOK
<1>1. /\ a \in Holders
      /\ wallets[a] \in Nat
      /\ balances[a] \in Nat
      /\ penaltyBalance \in Nat
      /\ BalancesContract \notin Holders
  BY BalancesAssumption DEF Holders
<1>2. ASSUME NEW n \in Nat, NEW h \in Holders, PayIn(n, h) PROVE FALSE
  BY <1>1, <1>2 DEF PayIn
<1>3. ASSUME NEW n \in Nat, NEW h \in Recipients, PayOut(n, h)
      PROVE  h = a /\ wallets'[a] = wallets[a] + n
  BY <1>1, <1>3 DEF PayOut, Recipients
<1>4. ASSUME NEW n \in Nat, NEW b \in Stakers,
             WithdrawTokens(n, b, validatorsInCurrentEpoch)
      PROVE  Goal
  <2>1. b = a /\ wallets'[a] = wallets[a] + n
    BY <1>3, <1>4 DEF WithdrawTokens, Recipients, Holders
  <2>2. balances'[a] = balances[a] - n
    BY <1>4, <2>1 DEF WithdrawTokens, LowerStake
  <2> QED
    BY <1>1, <2>1, <2>2
<1>5. ASSUME NEW n \in Nat, NEW h \in Recipients, TransferPenaltyTokens(n, h) PROVE Goal
  <2>1. wallets'[a] = wallets[a] + n
    BY <1>3, <1>5 DEF TransferPenaltyTokens
  <2>2. penaltyBalance' = penaltyBalance - n
    BY <1>5 DEF TransferPenaltyTokens, LowerPenalty
  <2> QED
    BY <1>1, <2>1, <2>2
<1>6. ASSUME NEW n \in Nat, NEW b \in Stakers, RestakePenaltyTokens(b, n) PROVE FALSE
  <2>1. BalancesContract \in Recipients
    BY DEF Recipients
  <2> QED
    BY <1>1, <1>3, <1>6, <2>1 DEF RestakePenaltyTokens
<1>7. ASSUME NEW n \in Nat, NEW b \in Stakers, StakeTokens(n, b) PROVE FALSE
  BY <1>2, <1>7 DEF StakeTokens, Holders
<1>8. ASSUME NEW n \in Nat, NEW b \in Stakers, PenalizeTokens(n, b) PROVE FALSE
  BY <1>1, <1>8 DEF PenalizeTokens
<1>9. CASE UNCHANGED tokenVars
  BY <1>1, <1>9 DEF tokenVars
<1> QED
  BY <1>2, <1>4, <1>5, <1>6, <1>7, <1>8, <1>9, TokenCases DEF TokenStep, SendTokens

LEMMA OwnStakeNext ==
    /\ TypeOK
    /\ [AdminNext]_vars
    => [\A a \in Stakers :
           wallets'[a] > wallets[a] =>
               LET paid == wallets'[a] - wallets[a]
               IN  \/ balances'[a] + paid = balances[a]
                   \/ penaltyBalance' + paid = penaltyBalance]_vars
BY OwnStakeStep

(* What a staker is paid is booked off its own stake or off the penalties,   *)
(* whatever accounts stand for one another and whatever the owner does.      *)
THEOREM WithdrawalsAreOwn == AdminSpec => PaidFromOwnStake
BY OwnStakeNext, AdminTypeCorrect, PTL DEF AdminSpec, PaidFromOwnStake

-----------------------------------------------------------------------------

\* An active account is only paid for itself: an account that is its alias is
\* refused, for it is active too.
LEMMA PaidOnceStep ==
    ASSUME TypeOK, NEW a \in validatorsInCurrentEpoch,
           RewardValidators(validatorsInCurrentEpoch, tokenRewardPerTokenPerEpoch)
    PROVE  rewards'[a] <= rewards[a]
               + (tokenRewardPerTokenPerEpoch * balances[a]) \div TokenUnit
<1> DEFINE payees == {b \in validatorsInCurrentEpoch :
                         MainAccount(b) = a /\ IsRewarded(b, validatorsInCurrentEpoch)}
           share == (tokenRewardPerTokenPerEpoch * balances[a]) \div TokenUnit
<1> USE DEF TypeOK, BalancesTypeOK, StakingTypeOK
<1>1. a \in Stakers /\ rewards[a] \in Nat
  OBVIOUS
<1>2. share \in Nat
  BY <1>1, DivIsNat, BalancesAssumption
<1>3. payees \in SUBSET {a}
  BY DEF MainAccount, IsRewarded
<1>4. Cardinality(payees) \in {0, 1}
  <2>1. payees = {} \/ payees = {a}
    BY <1>3
  <2> QED
    BY <2>1, FS_EmptySet, FS_Singleton
<1>5. rewards'[a] = rewards[a] + Cardinality(payees) * share
  BY <1>1 DEF RewardValidators
<1> HIDE DEF payees, share
<1>6. Cardinality(payees) * share <= share
  BY <1>2, <1>4
<1>7. rewards[a] + Cardinality(payees) * share <= rewards[a] + share
  BY <1>1, <1>2, <1>4, <1>6
<1> QED
  BY <1>5, <1>7 DEF share

\* Only advanceEpoch pays rewards.
LEMMA RewardCases ==
    ASSUME [AdminNext]_vars
    PROVE  \/ UNCHANGED rewards
           \/ RewardValidators(validatorsInCurrentEpoch, tokenRewardPerTokenPerEpoch)
<1> USE DEF balancesVars, StakeTokens, WithdrawTokens, PenalizeTokens
<1>1. ASSUME NEW a \in Stakers, StakerNext(a) PROVE UNCHANGED rewards
  BY <1>1
     DEF StakerNext, RequestToJoin, Stake, StakeAndJoin, Withdraw, Exit, GetReward,
         StakerRequestToLeave, SetNodeInfo, AddStakerAlias, RemoveStakerAlias, AddAlias,
         RemoveAlias, vars
<1>2. ASSUME NEW n \in Nodes, NodeNext(n) PROVE UNCHANGED rewards
  BY <1>2
     DEF NodeNext, SignalReadyForNextEpoch, RequestToLeaveAsNode, StakerRequestToLeave,
         KickValidatorInNextEpoch, KickByVote
<1>3. CASE \/ LockValidatorsForNextEpoch \/ OpenNetwork \/ Tick
           \/ \E h \in Holders, n \in Amounts : SendLIT(h, n)
  BY <1>3
     DEF LockValidatorsForNextEpoch, OpenNetwork, SetEpochState, Tick, SendLIT, SendTokens
<1>4. CASE EpochAdminNext
  BY <1>4
     DEF EpochAdminNext, AdminKickValidatorInNextEpoch, AdminRejoinValidator,
         AdminSlashValidator, AdminResetEpoch, SetEpochState, SetEpochEndTime,
         SetEpochLength, SetConfig, SetKickPenaltyPercent
<1>5. CASE BalancesAdminNext
  BY <1>5
     DEF BalancesAdminNext, TransferPenaltyTokens, RestakePenaltyTokens,
         AddPermittedStaker, RemovePermittedStaker, SetPermittedStakers,
         SetPermittedStakersOn, SetMinimumStake, SetMaximumStake, SetMaxAliasCount
<1> QED
  BY <1>1, <1>2, <1>3, <1>4, <1>5 DEF AdminNext, Next, AdvanceEpoch, vars

LEMMA RewardStep ==
    ASSUME TypeOK, [AdminNext]_vars, NEW a \in validatorsInCurrentEpoch
    PROVE  rewards'[a] <= rewards[a]
               + (tokenRewardPerTokenPerEpoch * balances[a]) \div TokenUnit
<1>1. /\ rewards[a] \in Nat
      /\ (tokenRewardPerTokenPerEpoch * balances[a]) \div TokenUnit \in Nat
  BY DivIsNat, BalancesAssumption DEF TypeOK, BalancesTypeOK, StakingTypeOK
<1>2. CASE UNCHANGED rewards
  BY <1>1, <1>2
<1> QED
  BY <1>2, RewardCases, PaidOnceStep

LEMMA PaidStep ==
    /\ TypeOK
    /\ [AdminNext]_vars
    => [\A a \in validatorsInCurrentEpoch :
           rewards'[a] <= rewards[a]
               + (tokenRewardPerTokenPerEpoch * balances[a]) \div TokenUnit]_vars
BY RewardStep

(* An active account earns its own share of an epoch and nothing through its *)
(* aliases, however many it has, and whatever the owner does.                *)
THEOREM RewardsCorrect == AdminSpec => NoDoubleReward
BY PaidStep, AdminTypeCorrect, PTL DEF AdminSpec, NoDoubleReward

-----------------------------------------------------------------------------
(* The same from the second epoch on: the specification the run observes.   *)

LEMMA EstablishedTokens == EstablishedInit => TypeOK /\ TokenCustody /\ StakesAddUp
<1> SUFFICES ASSUME EstablishedInit
             PROVE  /\ TypeOK
                    /\ TokenCustody
                    /\ totalStaked = MapThenSumSet(LAMBDA a : balances[a], Stakers)
  BY DEF StakesAddUp
<1> DEFINE members == Founders \cup Joiners
<1>1. TypeOK
  BY EstablishedType
<1>2. TokenCustody
  BY <1>1 DEF EstablishedInit, TokenCustody, TypeOK, BalancesTypeOK
<1>3. /\ balances \in [Stakers -> Nat]
      /\ \A a \in Stakers : balances[a] = IF a \in members THEN FoundingStake ELSE 0
      /\ members \in SUBSET Stakers
      /\ FoundingStake \in Nat
      /\ IsFiniteSet(Stakers)
  BY <1>1, StakingAssumption, EstablishedAssumption
     DEF EstablishedInit, TypeOK, BalancesTypeOK
<1>4. MapThenSumSet(LAMBDA a : balances[a], Stakers) = Cardinality(members) * FoundingStake
  <2> HIDE DEF members
  <2> QED
    BY <1>3, SumOfConstant
<1> QED
  BY <1>1, <1>2, <1>4 DEF EstablishedInit

(* Run from its second epoch on, with founders and joiners that staked: the  *)
(* totals agree, every stake is covered, nobody is paid another's stake and  *)
(* an active account is rewarded once.                                       *)
THEOREM EstablishedTokensCorrect ==
    EstablishedSpec => /\ [](TokenCustody /\ StakesAddUp /\ StakesAreCovered)
                       /\ PaidFromOwnStake
                       /\ NoDoubleReward
<1> DEFINE Inv == TypeOK /\ TokenCustody /\ StakesAddUp
<1>1. Inv /\ [AdminNext]_vars => Inv'
  BY CustodyNext, StakesNext DEF CustodyInv
<1>2. EstablishedSpec => []Inv
  BY <1>1, EstablishedTokens, PTL DEF EstablishedSpec
<1>3. EstablishedSpec => PaidFromOwnStake
  BY <1>2, OwnStakeNext, PTL DEF EstablishedSpec, PaidFromOwnStake
<1>4. EstablishedSpec => NoDoubleReward
  BY <1>2, PaidStep, PTL DEF EstablishedSpec, NoDoubleReward
<1> QED
  BY <1>2, <1>3, <1>4, Covered, PTL
=============================================================================
