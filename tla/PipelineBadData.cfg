SPECIFICATION Spec
CONSTANTS
  k1 = k1
  k2 = k2
  k3 = k3
  new1 = new1
  new2 = new2
  failed1 = failed1
  Keys <- MCKeys
  Params <- MCParams
  Docs <- PoisonDocs
  Height <- PoisonHeight
  Output <- PoisonOutput
  StoredLock <- PoisonLock
  NewRuns <- OneNew
  FailedRuns <- OneFailed
  Malformed = {6}
  OutOfRange = {5}
  Unacceptable = {}
  MaxFaults = 1
INVARIANTS
  BadDataNeverMoves
  NothingPassesBadData
