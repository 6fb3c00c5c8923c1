SPECIFICATION Spec
CONSTANTS
  Address = {zero, v1, v2, v3}
  ZeroAddress = zero
  MaxValidators = 4
  Deposit = {"d1"}
  Value <- MCValue
  Message = {"m1"}
  MaxBalance = 2
  MaxChanges = 1
SYMMETRY Symmetry
INVARIANT NeverPaidTwice
CHECK_DEADLOCK FALSE
