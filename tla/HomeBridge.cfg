SPECIFICATION Spec
CONSTANTS
  AddressLength = 3
  WordLength = 4
  ByteValues = 2
  Authority <- MCAuthority
  RequiredSignatures = 2
  Account <- MCAccount
  Logged <- MCLogged
  Message <- MCMessage
  Recipient <- MCRecipient
  Amount <- MCAmount
  TxHash <- MCTxHash
  GasPrice <- MCGasPrice
  estimatedGasCostOfWithdraw = 2
  Word = 16
  MaxBalance = 11
INVARIANTS PaidExactlyValue QuorumNeeded PaidAsLogged
CHECK_DEADLOCK FALSE
