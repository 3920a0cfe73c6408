SPECIFICATION Spec
CONSTANTS
  u1 = u1
  u2 = u2
  u3 = u3
  u4 = u4
  Utxos <- MCUtxos
  Amounts <- MCAmounts
  Targets <- MCTargets
  Kinds <- MCKinds
  Fee <- MCFee
  Dust = 2
SYMMETRY UtxoSymmetry
INVARIANTS
  EachInputOnce
  PaysTheRightFee
  RefusesOnlyWhatLargestCannotPay
