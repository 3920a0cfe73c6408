SPECIFICATION OperatedSpec
CONSTANTS
  k1 = k1
  k2 = k2
  k3 = k3
  new1 = new1
  new2 = new2
  failed1 = failed1
  Keys <- MCKeys
  Params <- MCParams
  Docs <- OneDocs
  Height <- OneHeight
  Output <- OneOutput
  StoredLock <- OneLock
  NewRuns <- TwoNew
  FailedRuns <- OneFailed
  Malformed = {}
  OutOfRange = {}
  Unacceptable = {}
  MaxFaults = 2
INVARIANTS
  SendMeansAccepted
  AlreadySpentMeansSpent
  HandledLeaveQueue
PROPERTIES
  NeverReinserted
  RunsTerminate
  GoodDocumentsSettle
