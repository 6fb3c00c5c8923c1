SPECIFICATION SpecChain
CONSTANTS
  Address = {zero, v1, v2, v3}
  ZeroAddress = zero
  MaxValidators = 4
  Deposit = {"d1"}
  Value <- MCValue
  Message = {"m1"}
  MaxBalance = 2
  MaxChanges = 1
  HomeMessage = {"w1", "w2", "w3"}
  HomeValue <- MCHomeValue
  TransactionHash <- MCHash
  MaxSignatures = 3
SYMMETRY Symmetry
INVARIANTS RequirementInReach PaidOnceAtFixedRequirement CollectedHasSignatures WithdrawnOnceByQuorum Inductive
CHECK_DEADLOCK FALSE
