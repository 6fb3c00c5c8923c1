SPECIFICATION FairSpec
CONSTANTS
  Authority = {a1, a2, a3}
  RequiredSignatures = 2
  Deposit = {"d1", "d2"}
  Token = {"token"}
  NoToken = "none"
  TheToken = "token"
  Value <- MCValue
  MaxReserve = 3
  Log = {"l1", "l2"}
  LogBlock <- MCLogBlock
  Payload <- MCPayload
  LastBlock = 2
  MaxStops = 1
  Reliable = {a1, a2}
INVARIANTS CheckedMeansRelayed Inductive
PROPERTIES ImplementsTransfers EveryDepositIsPaid
CHECK_DEADLOCK FALSE
