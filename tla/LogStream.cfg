SPECIFICATION FairSpec
CONSTANTS
  Block = {"x", "y"}
  Genesis <- MCGenesis
  Start = 1
  Confirmations = 2
  MaxReorg = 2
  MaxHeight = 6
INVARIANTS ExactDelivery Inductive
PROPERTIES ImplementsConfirmedLogs ConfirmedIsDelivered
