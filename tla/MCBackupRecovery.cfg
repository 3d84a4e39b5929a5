\* Two recovery DKGs, with late, repeated and partial votes, and any keys submitted.
SPECIFICATION FairSpec
CONSTANTS
  n1 = n1
  n2 = n2
  n3 = n3
  m1 = m1
  m2 = m2
  m3 = m3
  Nodes = {n1, n2, n3}
  Members = {m1, m2, m3}
  NoNode = NoNode
  NoMember = NoMember
  KeyTypes = {1, 2}
  KeyLists <- WholeAndPart
  PublicKeys = {k1, k2}
  NoKey = NoKey
  Sessions = {s1}
  NoSession = NoSession
  Parties <- TwoPairs
  ValidatorSets <- AllOrTwo
  MaxDkg = 2
INVARIANTS TypeOK PeersAreInverse AcksAreOfTheParty NewKeysAreUnanimous
PROPERTIES BackupsAreKept DkgCompletes
