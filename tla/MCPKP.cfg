\* Two PKPs, minted or claimed in two blocks, after a vote for all or a part of the root keys.
SPECIFICATION Spec
CONSTANTS
  n1 = n1
  n2 = n2
  n3 = n3
  s1 = s1
  s2 = s2
  s3 = s3
  act = act
  web = web
  k1 = k1
  k2 = k2
  claimed = claimed
  Nodes = {n1, n2}
  Stakers = {s1, s2, s3}
  StakerOf <- OneNodeEach
  RootKeys = {"bls", "ecdsa"}
  KeyLists <- WholeAndPart
  ValidatorSets <- OneOrTwo
  KeyIds <- MintedAndClaimed
  Users = {u1}
  Self = Self
  NoOwner = NoOwner
  ClaimIds = {claimed}
  MaxMints = 2
  MaxBlock = 2
  AuthMethods = {act, web}
  WebAuthn = {web}
  Actions = {act}
  UserPubkeys = {k1, k2}
  NoPubkey = NoPubkey
  Scopes = {1}
  GrantScope = 1
  Batches <- FewBatches
INVARIANTS TypeOK KeysAreOfTheRoots IndexIsExact
PROPERTIES WebAuthnPubkeyStays BurnedIsSealed
