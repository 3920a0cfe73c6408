SPECIFICATION Spec
CONSTANTS
  OperatorFiles <- NoOperatorFiles
  DumpKey = 11
  RunKey = 13
CHECK_DEADLOCK FALSE
INVARIANTS
  SignersInDocumentedFormat
