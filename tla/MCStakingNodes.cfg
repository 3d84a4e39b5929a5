\* One crash, of a founder or of the joiner, at any moment.
SPECIFICATION NodesSpec
CONSTANTS
  s1 = s1
  s2 = s2
  s3 = s3
  s4 = s4
  n1 = n1
  n2 = n2
  n3 = n3
  n4 = n4
  k1 = k1
  k2 = k2
  k3 = k3
  k4 = k4
  Stakers <- FourStakers
  Nodes = {n1, n2, n3, n4}
  Keys = {k1, k2, k3, k4}
  Owner = Owner
  BalancesContract = BalancesContract
  NoAccount = NoAccount
  NoNode = NoNode
  NoKey = NoKey
  Amounts = {}
  InitialTokens = 0
  InitialMinimumStake = 0
  InitialMaximumStake = 0
  InitialMaxAliasCount = 0
  TokenUnit = 1
  JoinArgs <- OwnNode
  InfoArgs <- NoInfo
  KickTargets = {s1, s2, s3, s4}
  AliasAccounts = {}
  Reasons = {1}
  InitialKickPenaltyPercent <- NoPenalty
  InitialMinimumValidatorCount = 3
  InitialTokenReward = 0
  InitialEpochLength = 1
  MaxEpoch = 4
  MaxRetries = 3
  SettableStates = {}
  SettableCounts = {}
  SettableRewards = {}
  SettableLimits = {}
  SettablePercents = {}
  SettableLengths = {}
  Permittable = {}
  SettableSwitches = {}
  DevEnvironment = FALSE
  FoundingStake = 0
  Founders = {s1, s2, s3}
  Joiners = {s4}
  MaxCrashes = 1
INVARIANT KickIsNeverBlocked
PROPERTY EpochCompletes
CHECK_DEADLOCK FALSE
