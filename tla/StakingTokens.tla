---------------------------- MODULE StakingTokens ----------------------------
(***************************************************************************)
(* What the two diamonds together promise about tokens: stakes, penalties, *)
(* rewards and aliases, across every interleaving of staking, withdrawing, *)
(* kicking, slashing and advancing the epoch.  TokenCustody, of the module *)
(* StakingBalances, is checked with these.                                 *)
(***************************************************************************)
EXTENDS StakingEstablished, FiniteSetsExt

(* totalStaked is the sum of the stakes: stake, withdraw, penalizeTokens and *)
(* restakePenaltyTokens each keep a number that is never recomputed, against *)
(* an account that may have been resolved from an alias.                     *)
StakesAddUp == totalStaked = MapThenSumSet(LAMBDA a : balances[a], Stakers)

(* Whoever may withdraw is paid: neither the total nor the tokens left in    *)
(* the contract, with the penalties set aside, can be short of a stake.      *)
StakesAreCovered ==
    \A a \in Stakers :
        /\ balances[a] <= totalStaked
        /\ balances[a] + penaltyBalance <= contractTokens

(* A staker is only paid out of what is booked under its own name, or out of *)
(* the penalties: balanceOf and exit resolve an alias, withdraw does not,    *)
(* and an account that stands for another's stake cannot take it out.        *)
PaidFromOwnStake ==
    [][\A a \in Stakers :
          wallets'[a] > wallets[a] =>
              LET paid == wallets'[a] - wallets[a]
              IN  \/ balances'[a] + paid = balances[a]
                  \/ penaltyBalance' + paid = penaltyBalance]_vars

(* "only reward if the main staking account is not an active validator,      *)
(* too": an active account earns its own share of an epoch and nothing more  *)
(* through its alias.                                                        *)
NoDoubleReward ==
    [][\A a \in validatorsInCurrentEpoch :
          rewards'[a] <= rewards[a]
              + (tokenRewardPerTokenPerEpoch * balances[a]) \div TokenUnit]_vars
=============================================================================
