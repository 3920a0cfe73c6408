SPECIFICATION Spec
CONSTANTS
  Writers <- TwoWriters
  MaxTime = 1
  MaxDocs = 1
INVARIANTS
  ListedInOrderAdded
