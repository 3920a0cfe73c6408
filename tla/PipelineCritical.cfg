SPECIFICATION Spec
CONSTANTS
  k1 = k1
  k2 = k2
  k3 = k3
  new1 = new1
  new2 = new2
  failed1 = failed1
  Keys <- MCKeys
  Params <- MCParams
  Docs <- OneDocs
  Height <- OneHeight
  Output <- OneOutput
  StoredLock <- OneLock
  NewRuns <- OneNew
  FailedRuns <- OneFailed
  Malformed = {}
  OutOfRange = {}
  Unacceptable = {}
  MaxFaults = 1
INVARIANTS
  CriticalOnlyForBadData
