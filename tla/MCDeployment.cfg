\* Two runs, the first of which may die anywhere.
SPECIFICATION DeploymentSpec
CONSTANTS
  MaxRuns = 2
  Configs <- SomeConfigs
  Joined = 2
  StakedOnly = 1
  MinimumValidatorCount = 2
  Deployer = Deployer
  NewOwner = NewOwner
  SubnetOwner = SubnetOwner
  NoOne = NoOne
INVARIANTS DeploymentTypeOK RecordsAgree ValidatorsCanRun RegisterHasOwner
PROPERTIES OwnershipMoves
CHECK_DEADLOCK FALSE
