\* Stakes of one or two tokens, a kick costs half of them.
SPECIFICATION EstablishedSpec
CONSTANTS
  s1 = s1
  s2 = s2
  n1 = n1
  n2 = n2
  k1 = k1
  k2 = k2
  Stakers = {s1, s2}
  Nodes = {n1, n2}
  Keys = {k1, k2}
  Owner = Owner
  BalancesContract = BalancesContract
  NoAccount = NoAccount
  NoNode = NoNode
  NoKey = NoKey
  Amounts = {2}
  InitialTokens = 2
  InitialMinimumStake = 1
  InitialMaximumStake = 2
  InitialMaxAliasCount = 1
  TokenUnit = 2
  JoinArgs <- OwnNode
  InfoArgs <- NoInfo
  KickTargets = {s2}
  AliasAccounts = {s2}
  Reasons = {1}
  InitialKickPenaltyPercent <- HalfPenalty
  InitialMinimumValidatorCount = 1
  InitialTokenReward = 1
  InitialEpochLength = 0
  MaxEpoch = 3
  MaxRetries = 1
  SettableStates = {}
  SettableCounts = {}
  SettableRewards = {}
  SettableLimits = {}
  SettablePercents = {}
  SettableLengths = {}
  Permittable = {}
  SettableSwitches = {}
  Founders = {s1, s2}
  Joiners = {}
  FoundingStake = 2
  DevEnvironment = FALSE
INVARIANTS TokenCustody StakesAddUp StakesAreCovered
PROPERTIES PaidFromOwnStake NoDoubleReward
CHECK_DEADLOCK FALSE
