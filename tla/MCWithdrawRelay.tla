--------------------------- MODULE MCWithdrawRelay ---------------------------
(* TLC instance of WithdrawRelay; every message is worth more than its      *)
(* relay costs.                                                            *)
EXTENDS WithdrawRelay

MCRecipient == [m \in Message |-> CHOOSE u \in Account : u \notin Authority]
MCAmount == [m \in Message |-> IF m = "m1" THEN 3 ELSE 4]
MCGasPrice == [m \in Message |-> 1]
MCTxHash == [m \in Message |-> m]
=============================================================================
