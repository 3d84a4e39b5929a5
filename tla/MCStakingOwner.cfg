\* The epoch machine under every intervention of its owner, without tokens.
SPECIFICATION AdminSpec
CONSTANTS
  s1 = s1
  s2 = s2
  n1 = n1
  n2 = n2
  k1 = k1
  k2 = k2
  Stakers <- TwoStakers
  Nodes = {n1, n2}
  Keys = {k1, k2}
  Owner = Owner
  BalancesContract = BalancesContract
  NoAccount = NoAccount
  NoNode = NoNode
  NoKey = NoKey
  Amounts = {}
  InitialTokens = 0
  InitialMinimumStake = 0
  InitialMaximumStake = 0
  InitialMaxAliasCount = 0
  TokenUnit = 1
  JoinArgs <- OwnNode
  InfoArgs <- NoNodes
  KickTargets = {s2}
  AliasAccounts = {}
  Reasons = {1}
  InitialKickPenaltyPercent <- NoPenalty
  InitialMinimumValidatorCount = 1
  InitialTokenReward = 0
  InitialEpochLength = 1
  MaxEpoch = 2
  MaxRetries = 1
  SettableStates = {"Active", "ReadyForNextEpoch", "Restore"}
  SettableCounts = {1}
  SettableRewards = {0}
  SettableLimits = {0}
  SettablePercents = {0}
  SettableLengths = {0}
  Permittable = {s2}
  SettableSwitches = {TRUE, FALSE}
  DevEnvironment = TRUE
INVARIANT KickedStayOut
CHECK_DEADLOCK FALSE
