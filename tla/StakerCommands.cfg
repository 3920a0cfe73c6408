SPECIFICATION Spec
CONSTANTS
  Amounts <- MCAmounts
  Fees <- MCFees
  Times <- MCTimes
  MaxUint16 = 3
  MaxHeight = 5
  MaxCommands = 4
CHECK_DEADLOCK FALSE
INVARIANTS
  EveryOutputLocked
  SpendingPaysSomething
  MinedExactlyWhenLockEnds
  OnlyFeesAreLost
