SPECIFICATION CallSpec
CONSTANTS
  Keys <- MCKeys
  Quorum = 2
  OperatorFiles <- MCOperatorFiles
  DumpKey = 11
  RunKey = 13
INVARIANTS
  TypeOK
  PutNeverBlocks
  NoSignatureLost
  ReturnsExactQuorum
  ErrorMeansTooFew
  NothingLeftBehind
  SignedWhereConfigured
  WitnessSatisfiesScript
  WitnessOfAnyCommittee
PROPERTIES
  Returns
  ContractSpec
