SPECIFICATION Spec
CONSTANTS
  t1 = t1
  t2 = t2
  t3 = t3
  Txs <- MCTxs
  Writer = 1
  MaxTime = 1
INVARIANTS
  CountersNumberEntries
  StoresAgree
PROPERTIES
  MemoryContract
  CollectionContract
