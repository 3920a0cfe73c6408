SPECIFICATION Spec
CONSTANTS
  k1 = k1
  k2 = k2
  k3 = k3
  new1 = new1
  new2 = new2
  failed1 = failed1
  Keys <- MCKeys
  Params <- MCParams
  Docs <- GoodDocs
  Height <- GoodHeight
  Output <- GoodOutput
  StoredLock <- GoodLock
  NewRuns <- OneNew
  FailedRuns <- OneFailed
  Malformed = {}
  OutOfRange = {}
  Unacceptable = {2}
  MaxFaults = 3
INVARIANTS
  TypeOK
  Ownership
  SendMeansAccepted
  AlreadySpentMeansSpent
  SubmitsOnlyQuorumSigned
  HandledLeaveQueue
PROPERTIES
  TerminalStable
  LifecycleSpec
