\* Either pair of communication keys may be used by either staker.
SPECIFICATION Spec
CONSTANTS
  s1 = s1
  s2 = s2
  s3 = s3
  n1 = n1
  n2 = n2
  n3 = n3
  k1 = k1
  k2 = k2
  Stakers = {s1, s2, s3}
  Nodes = {n1, n2, n3}
  Keys = {k1, k2}
  Owner = Owner
  BalancesContract = BalancesContract
  NoAccount = NoAccount
  NoNode = NoNode
  NoKey = NoKey
  Amounts = {}
  InitialTokens = 0
  InitialMinimumStake = 0
  InitialMaximumStake = 0
  InitialMaxAliasCount = 0
  TokenUnit = 1
  JoinArgs <- AnyKeys
  InfoArgs <- NoInfo
  KickTargets = {}
  AliasAccounts = {}
  Reasons = {1}
  InitialKickPenaltyPercent <- NoPenalty
  InitialMinimumValidatorCount = 1
  InitialTokenReward = 0
  InitialEpochLength = 0
  MaxEpoch = 2
  MaxRetries = 2
INVARIANT CommsKeysNotShared
CHECK_DEADLOCK FALSE
