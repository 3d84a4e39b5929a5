\* A function moves from one facet to another; nothing fails.
SPECIFICATION UpgradeSpec
CONSTANTS
  Selectors = {"a1", "a4", "b1", "m"}
  Facets = {"oldA", "oldB", "newA", "newB", "diamond"}
  Self = "diamond"
  WithCode = {"oldA", "oldB", "newA", "newB"}
  NoFacet = "none"
  Owners = {"signer"}
  NoCall = NoCall
  MaxSelectors = 5
  A = A
  B = B
  C = C
  Names = {A, B}
  FacetsToReplace <- TwoFacets
  WithSha = {A, B}
  OldABI <- MovedOld
  NewABI <- MovedNew
  OldFacet <- OldAddress
  NewFacet <- NewAddress
  Signer = "signer"
  MaxFaults = 0
  MaxRuns = 1
INVARIANTS HandledOrReported
CHECK_DEADLOCK FALSE
