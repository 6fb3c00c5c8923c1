SPECIFICATION FairSpec
CONSTANTS
  Authority = {a1, a2}
  RequiredSignatures = 1
  Account = {a1, a2, user}
  Message = {"m1"}
  Recipient <- MCRecipient
  Amount <- MCAmount
  TxHash <- MCTxHash
  GasPrice <- MCGasPrice
  estimatedGasCostOfWithdraw = 2
  Word = 16
  MaxBalance = 7
  NoSignature = NoSignature
  MaxStops = 2
  Reliable = {a1}
INVARIANTS RelaysAreValid Inductive CheckedMeansDone
PROPERTIES ImplementsTransfers EveryWithdrawIsPaid
CHECK_DEADLOCK FALSE
