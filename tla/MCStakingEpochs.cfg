\* Three epochs, with votes to kick any of the validators; nobody has tokens.
SPECIFICATION Spec
CONSTANTS
  s1 = s1
  s2 = s2
  s3 = s3
  n1 = n1
  n2 = n2
  n3 = n3
  k1 = k1
  k2 = k2
  k3 = k3
  Stakers <- ThreeStakers
  Nodes = {n1, n2, n3}
  Keys = {k1, k2, k3}
  Owner = Owner
  BalancesContract = BalancesContract
  NoAccount = NoAccount
  NoNode = NoNode
  NoKey = NoKey
  Amounts = {}
  InitialTokens = 0
  InitialMinimumStake = 0
  InitialMaximumStake = 0
  InitialMaxAliasCount = 0
  TokenUnit = 1
  JoinArgs <- OwnNode
  InfoArgs <- CrossInfo
  KickTargets = {s1, s2, s3}
  AliasAccounts = {}
  Reasons = {1}
  InitialKickPenaltyPercent <- NoPenalty
  InitialMinimumValidatorCount = 1
  InitialTokenReward = 0
  InitialEpochLength = 1
  MaxEpoch = 3
  MaxRetries = 1
SYMMETRY FixingLast
VIEW PresentView
INVARIANTS TypeOK CurrentKickedExact ThresholdNotKicked KickedByQuorum
  ReadyIsNotStale QuorumStartsFresh
PROPERTIES FrozenWhileLocked ImplementsHandover
CHECK_DEADLOCK FALSE
