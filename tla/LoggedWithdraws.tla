-------------------------- MODULE LoggedWithdraws --------------------------
(***************************************************************************)
(* The way of a withdraw from foreign's Withdraw log to home's payment:    *)
(* the program makes bytes of the log (MessageToMainnet::from_log,         *)
(* to_bytes), the authorities sign these bytes, and HomeBridge.withdraw    *)
(* reads the fields of its message from them.  Composes MessageLayout with *)
(* HomeBridge.                                                             *)
(***************************************************************************)
EXTENDS HomeBridge, MessageLayout

CONSTANT Logged    \* the logs, as from_log returns them

AddressOf(n) == Slice(WordOf(n), WordLength - AddressLength, WordLength)
NumberOf(word) == CHOOSE n \in 0..(Word - 1) : WordOf(n) = word

\* MessageToMainnet::from_log
from_log(recipient, value, transaction_hash, home_gas_price) ==
  [recipient |-> AddressOf(recipient),
   value |-> WordOf(value),
   sidenet_transaction_hash |-> WordOf(transaction_hash),
   mainnet_gas_price |-> WordOf(home_gas_price)]

\* The messages are the bytes the program writes, their fields what the
\* contract reads from them.
ASSUME LoggedAssumption ==
  /\ Logged \subseteq MessageToMainnet
  /\ Message = {to_bytes(l) : l \in Logged}
  /\ Recipient = [m \in Message |-> getRecipient(m)]
  /\ Amount = [m \in Message |-> NumberOf(getValue(m))]
  /\ TxHash = [m \in Message |-> getTransactionHash(m)]
  /\ GasPrice = [m \in Message |-> NumberOf(getHomeGasPrice(m))]

-----------------------------------------------------------------------------
\* What HomeBridge.withdraw does with a message it reads byte by byte
\* (bridge.sol:311-346) is what its Withdraw log said (message_to_mainnet.rs:
\* 35-49) and what withdraw_relay reads from the same bytes: the value, less a
\* cost at the logged price, once per logged transaction, and only the logged
\* recipient may call it at another price.
PaidAsLogged ==
  \A l \in Logged :
    LET m == to_bytes(l) IN
    /\ received[m] # Unpaid =>
         /\ received[m].recipient + received[m].caller = NumberOf(l.value)
         /\ received[m].caller =
              estimatedGasCostOfWithdraw * NumberOf(l.mainnet_gas_price)
         /\ l.sidenet_transaction_hash \in withdraws
         /\ from_bytes(m) = l
    /\ \A caller \in Account, signers \in Signatures, gasprice \in {0, GasPrice[m]} :
         acceptsWithdraw(caller, gasprice, signers, m) =>
           caller = l.recipient \/ gasprice = NumberOf(l.mainnet_gas_price)
=============================================================================
