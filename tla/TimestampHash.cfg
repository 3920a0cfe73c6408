SPECIFICATION Spec
CONSTANTS
  Fees <- MCFees
  Paths <- TwoPaths
  Contents <- MCContents
  Fundings <- MCFundings
  MaxRuns = 2
INVARIANTS
  HashIsOfPath
