\* Validator s1 has run n1 and then n2; Staking maps both to it.
SPECIFICATION Spec
CONSTANTS
  n1 = n1
  n2 = n2
  n3 = n3
  s1 = s1
  s2 = s2
  s3 = s3
  act = act
  web = web
  k1 = k1
  k2 = k2
  claimed = claimed
  Nodes = {n1, n2, n3}
  Stakers = {s1, s2, s3}
  StakerOf <- FirstHasTwo
  RootKeys = {"bls", "ecdsa"}
  KeyLists <- WholeAndPart
  ValidatorSets <- FirstAndThird
  KeyIds <- MintedAndClaimed
  Users = {u1}
  Self = Self
  NoOwner = NoOwner
  ClaimIds = {claimed}
  MaxMints = 2
  MaxBlock = 2
  AuthMethods = {act, web}
  WebAuthn = {web}
  Actions = {act}
  UserPubkeys = {k1, k2}
  NoPubkey = NoPubkey
  Scopes = {1}
  GrantScope = 1
  Batches <- FewBatches
INVARIANTS OneVotePerValidator
