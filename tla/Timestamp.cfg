SPECIFICATION Spec
CONSTANTS
  Fees <- MCFees
  Paths <- OnePath
  Contents <- MCContents
  Fundings <- MCFundings
  MaxRuns = 3
INVARIANTS
  OnlyFeesLeaveTheAddress
  PrintedCanBeMined
