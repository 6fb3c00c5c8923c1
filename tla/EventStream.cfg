SPECIFICATION FairSpec
CONSTANTS
  Relay = {"DepositRelay", "WithdrawRelay"}
  Oracle = {"home", "foreign"}
  Price = {2}
  Default = 1
  MaxBlock = 1
  MaxRestarts = 1
INVARIANTS NoLostWakeup YieldedIsSaved PriceIsLast
PROPERTIES ShutdownHappens FinishedIsSaved
CHECK_DEADLOCK FALSE
