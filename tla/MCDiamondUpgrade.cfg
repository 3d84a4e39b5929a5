\* Three facets that keep their functions, two requests that fail, two runs.
SPECIFICATION UpgradeSpec
CONSTANTS
  Selectors = {"a1", "a3", "a4", "a5", "b1", "b2", "c1"}
  Facets = {"oldA", "oldB", "oldC", "newA", "newB", "newC", "diamond"}
  Self = "diamond"
  WithCode = {"oldA", "oldB", "oldC", "newA", "newB", "newC"}
  NoFacet = "none"
  Owners = {"signer", "other"}
  NoCall = NoCall
  MaxSelectors = 6
  A = A
  B = B
  C = C
  Names = {A, B, C}
  FacetsToReplace <- ThreeFacets
  WithSha = {A, B}
  OldABI <- KeptOld
  NewABI <- KeptNew
  OldFacet <- OldAddress
  NewFacet <- NewAddress
  Signer = "signer"
  MaxFaults = 2
  MaxRuns = 2
INVARIANTS TypeOK LoupeIsExact RoutedToWhatImplementsIt HandledOrReported
CHECK_DEADLOCK FALSE
