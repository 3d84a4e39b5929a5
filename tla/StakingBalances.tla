--------------------------- MODULE StakingBalances ---------------------------
(***************************************************************************)
(* The StakingBalances diamond of LitNodeContracts: the custody of LIT     *)
(* tokens behind the validators.  It keeps the stake, the rewards and the  *)
(* penalties of every staker account, and the aliases that let one account *)
(* stand for the stake of another.                                         *)
(*                                                                         *)
(* A transaction is atomic, so one action is one external function, and a  *)
(* `revert' is an unsatisfied guard.  The functions marked                 *)
(* onlyStakingContract are the parameterised handlers of this module; the  *)
(* module Staking, which EXTENDS it, conjoins them with its own changes.   *)
(* `active' is always the validator set of the current epoch, which the    *)
(* contract reads from the Staking diamond.                                *)
(***************************************************************************)
EXTENDS Naturals, FiniteSets

CONSTANTS
    Stakers,              \* accounts that stake, or act as an alias
    Owner,                \* the owner of the diamonds, receiver of penalties
    BalancesContract,     \* the address of this contract
    NoAccount,            \* address(0)
    Amounts,              \* the token amounts the inputs are drawn from
    InitialTokens,        \* LIT held by every staker at deployment
    InitialMinimumStake, InitialMaximumStake, InitialMaxAliasCount,
    TokenUnit             \* 10 ** decimals of the LIT token

ASSUME BalancesAssumption ==
    /\ NoAccount \notin Stakers
    /\ Owner \notin Stakers
    /\ BalancesContract \notin Stakers \cup {Owner}
    /\ Amounts \subseteq Nat
    /\ InitialTokens \in Nat
    /\ InitialMinimumStake \in Nat
    /\ InitialMaximumStake \in Nat
    /\ InitialMaxAliasCount \in Nat
    /\ TokenUnit \in Nat \ {0}

VARIABLES
    wallets,              \* LIT balances outside of the contract (external)
    contractTokens,       \* LIT held by the StakingBalances contract (external)
    balances, totalStaked, penaltyBalance, rewards,
    aliases, aliasCounts,
    permittedStakers, permittedStakersOn,
    minimumStake, maximumStake, maxAliasCount

tokenVars     == <<wallets, contractTokens, balances, totalStaked, penaltyBalance>>
aliasVars     == <<aliases, aliasCounts>>
permitVars    == <<permittedStakers, permittedStakersOn>>
limitVars     == <<minimumStake, maximumStake, maxAliasCount>>
balancesVars  == <<tokenVars, rewards, aliasVars, permitVars, limitVars>>

\* Who holds LIT outside of the contract; the owner stands for everybody who
\* is no staker.
Holders == Stakers \cup {Owner}

\* Whom the contract may send tokens to: itself as well.
Recipients == Holders \cup {BalancesContract}

BalancesTypeOK ==
    /\ wallets \in [Holders -> Nat]
    /\ contractTokens \in Nat
    /\ balances \in [Stakers -> Nat]
    /\ totalStaked \in Nat
    /\ penaltyBalance \in Nat
    /\ rewards \in [Stakers -> Nat]
    /\ aliases \in [Stakers -> Stakers \cup {NoAccount}]
    /\ aliasCounts \in [Stakers -> Nat]
    /\ permittedStakers \subseteq Stakers
    /\ permittedStakersOn \in BOOLEAN
    /\ minimumStake \in Nat
    /\ maximumStake \in Nat
    /\ maxAliasCount \in Nat

BalancesInit ==
    /\ wallets = [h \in Holders |-> IF h = Owner THEN 0 ELSE InitialTokens]
    /\ contractTokens = 0
    /\ balances = [a \in Stakers |-> 0]
    /\ totalStaked = 0
    /\ penaltyBalance = 0
    /\ rewards = [a \in Stakers |-> 0]
    /\ aliases = [a \in Stakers |-> NoAccount]
    /\ aliasCounts = [a \in Stakers |-> 0]
    /\ permittedStakers = {}
    /\ permittedStakersOn = FALSE
    /\ minimumStake = InitialMinimumStake
    /\ maximumStake = InitialMaximumStake
    /\ maxAliasCount = InitialMaxAliasCount

-----------------------------------------------------------------------------
(* Views.  An alias is resolved one level deep, as the code does.           *)

MainAccount(account) ==
    IF aliases[account] # NoAccount THEN aliases[account] ELSE account

BalanceOf(account) == balances[MainAccount(account)]

IsPermittedStaker(account) == MainAccount(account) \in permittedStakers

\* `stake' is the balance function to read: balances, or balances' when an
\* earlier call of the same transaction has changed it.
CheckStakingAmounts(stake, account) ==
    /\ stake[MainAccount(account)] >= minimumStake
    /\ stake[MainAccount(account)] <= maximumStake

-----------------------------------------------------------------------------
(* Transfers of the LIT token, which is an ERC20 (external).                *)

PayOut(amount, recipient) ==
    /\ amount <= contractTokens            \* or transfer reverts
    /\ IF recipient = BalancesContract
       THEN UNCHANGED <<wallets, contractTokens>>
       ELSE /\ contractTokens' = contractTokens - amount
            /\ wallets' = [wallets EXCEPT ![recipient] = @ + amount]

PayIn(amount, holder) ==
    /\ amount <= wallets[holder]           \* or transfer reverts
    /\ wallets' = [wallets EXCEPT ![holder] = @ - amount]
    /\ contractTokens' = contractTokens + amount

\* A holder sends tokens to the contract without calling it.
SendTokens(amount, holder) ==
    /\ PayIn(amount, holder)
    /\ UNCHANGED <<balances, totalStaked, penaltyBalance, rewards, aliasVars,
                   permitVars, limitVars>>

-----------------------------------------------------------------------------
(* Handlers only the Staking contract may call.                             *)

StakeTokens(amount, account) ==
    /\ amount # 0
    /\ permittedStakersOn => account \in permittedStakers
    /\ PayIn(amount, account)
    /\ balances' = [balances EXCEPT ![account] = @ + amount]
    /\ totalStaked' = totalStaked + amount
    /\ UNCHANGED <<penaltyBalance, rewards, aliasVars, permitVars, limitVars>>

\* The raw account is compared with the active set: aliases are not resolved.
MayWithdraw(account, active) == account \notin active

\* A mutated form: the sum of the stakes is not kept up to date.
KeepTotal(amount) == amount <= totalStaked /\ UNCHANGED totalStaked

\* A checked subtraction.
LowerTotal(amount) ==
    /\ amount <= totalStaked
    /\ totalStaked' = totalStaked - amount

\* A mutated form: the alias is resolved, as balanceOf does.
LowerStakeOfMain(amount, account) ==
    /\ amount <= BalanceOf(account)
    /\ balances' = [balances EXCEPT ![MainAccount(account)] = @ - amount]

\* Guarded in withdraw, a checked subtraction in penalizeTokens; the alias is
\* not resolved here.
LowerStake(amount, account) ==
    /\ amount <= balances[account]
    /\ balances' = [balances EXCEPT ![account] = @ - amount]

WithdrawTokens(amount, account, active) ==
    /\ amount # 0
    /\ MayWithdraw(account, active)
    /\ LowerStake(amount, account)
    /\ LowerTotal(amount)
    /\ PayOut(amount, account)
    /\ UNCHANGED <<penaltyBalance, rewards, aliasVars, permitVars, limitVars>>

PenalizeTokens(amount, account) ==
    LET main == MainAccount(account)
    IN  /\ LowerStake(amount, main)
        /\ LowerTotal(amount)
        /\ penaltyBalance' = penaltyBalance + amount
        /\ UNCHANGED <<wallets, contractTokens, rewards, aliasVars, permitVars, limitVars>>

\* A mutated form: every alias is rewarded.
IsRewardedAlways(account, active) == TRUE

\* An alias is not rewarded when the account it stands for is active itself.
IsRewarded(account, active) ==
    aliases[account] # NoAccount => aliases[account] \notin active

\* rewardValidator for every member of `active': no call of the loop changes
\* what another one reads, so the order does not matter.
RewardValidators(active, rate) ==
    LET payees(m) == {a \in active : MainAccount(a) = m /\ IsRewarded(a, active)}
    IN  /\ rewards' = [m \in Stakers |->
                rewards[m] + Cardinality(payees(m)) * ((rate * balances[m]) \div TokenUnit)]
        /\ UNCHANGED <<tokenVars, aliasVars, permitVars, limitVars>>

\* With a reward outstanding, the transfer is sent to the Staking diamond,
\* which has no such function and reverts: nothing is ever paid.
GetRewardOf(account) == rewards[MainAccount(account)] = 0

-----------------------------------------------------------------------------
(* Functions anyone may call on this contract.                              *)

AddAlias(staker, account) ==
    /\ aliasCounts[staker] < maxAliasCount
    /\ aliases' = [aliases EXCEPT ![account] = staker]
    /\ aliasCounts' = [aliasCounts EXCEPT ![staker] = @ + 1]
    /\ UNCHANGED <<tokenVars, rewards, permitVars, limitVars>>

RemoveAlias(staker, account, active) ==
    /\ aliases[account] = staker
    /\ account \notin active
    /\ aliasCounts[staker] > 0             \* checked subtraction
    /\ aliases' = [aliases EXCEPT ![account] = NoAccount]
    /\ aliasCounts' = [aliasCounts EXCEPT ![staker] = @ - 1]
    /\ UNCHANGED <<tokenVars, rewards, permitVars, limitVars>>

-----------------------------------------------------------------------------
(* Functions of the owner.                                                  *)

\* A mutated form: the pot is checked and not lowered.
KeepPenalty(amount) == amount <= penaltyBalance /\ UNCHANGED penaltyBalance

LowerPenalty(amount) ==
    /\ amount <= penaltyBalance
    /\ penaltyBalance' = penaltyBalance - amount

\* transferPenaltyTokens; withdrawPenaltyTokens is the case recipient = Owner.
TransferPenaltyTokens(amount, recipient) ==
    /\ LowerPenalty(amount)
    /\ PayOut(amount, recipient)
    /\ UNCHANGED <<balances, totalStaked, rewards, aliasVars, permitVars, limitVars>>

\* A mutated form: the penalty is restaked and kept as well.
RestakeAndKeep(staker, amount) ==
    /\ KeepPenalty(amount)
    /\ PayOut(amount, BalancesContract)
    /\ totalStaked' = totalStaked + amount
    /\ balances' = [balances EXCEPT ![staker] = @ + amount]
    /\ UNCHANGED <<rewards, aliasVars, permitVars, limitVars>>

RestakePenaltyTokens(staker, amount) ==
    /\ LowerPenalty(amount)
    /\ PayOut(amount, BalancesContract)
    /\ totalStaked' = totalStaked + amount
    /\ balances' = [balances EXCEPT ![staker] = @ + amount]
    /\ UNCHANGED <<rewards, aliasVars, permitVars, limitVars>>

SetPermittedStakers(permitted) ==
    /\ permittedStakers' = permitted
    /\ UNCHANGED <<tokenVars, rewards, aliasVars, permittedStakersOn, limitVars>>

AddPermittedStaker(staker) == SetPermittedStakers(permittedStakers \cup {staker})

RemovePermittedStaker(staker) == SetPermittedStakers(permittedStakers \ {staker})

SetPermittedStakersOn(on) ==
    /\ permittedStakersOn' = on
    /\ UNCHANGED <<tokenVars, rewards, aliasVars, permittedStakers, limitVars>>

SetMinimumStake(stake) ==
    /\ minimumStake' = stake
    /\ UNCHANGED <<tokenVars, rewards, aliasVars, permitVars, maximumStake, maxAliasCount>>

SetMaximumStake(stake) ==
    /\ maximumStake' = stake
    /\ UNCHANGED <<tokenVars, rewards, aliasVars, permitVars, minimumStake, maxAliasCount>>

SetMaxAliasCount(count) ==
    /\ maxAliasCount' = count
    /\ UNCHANGED <<tokenVars, rewards, aliasVars, permitVars, minimumStake, maximumStake>>

-----------------------------------------------------------------------------
(* Token custody: the contract holds every LIT that is staked or kept as a   *)
(* penalty.  Seven functions move tokens between the wallets, the stakes and *)
(* the penalty pot, each updating two or three of these numbers.  It may     *)
(* hold more: what is sent to it without a call, and penalties that the      *)
(* owner transfers to the contract itself, are in neither number.            *)
TokenCustody == totalStaked + penaltyBalance <= contractTokens
=============================================================================
