---------------------------- MODULE MCHomeBridge ----------------------------
(* TLC instance of LoggedWithdraws: two logs are of one foreign            *)
(* transaction, one is worth less than it costs to relay, one exactly what *)
(* it costs, and an authority withdraws the last one for itself.           *)
EXTENDS LoggedWithdraws

MCAuthority == {AddressOf(1), AddressOf(2)}
MCAccount == MCAuthority \cup {AddressOf(4), AddressOf(6)}

MCLogged == {from_log(6, 3, 1, 1), from_log(6, 4, 1, 2), from_log(6, 1, 8, 1),
             from_log(6, 2, 12, 1), from_log(2, 5, 10, 1)}
MCMessage == {to_bytes(l) : l \in MCLogged}
MCRecipient == [m \in MCMessage |-> getRecipient(m)]
MCAmount == [m \in MCMessage |-> NumberOf(getValue(m))]
MCTxHash == [m \in MCMessage |-> getTransactionHash(m)]
MCGasPrice == [m \in MCMessage |-> NumberOf(getHomeGasPrice(m))]
=============================================================================
