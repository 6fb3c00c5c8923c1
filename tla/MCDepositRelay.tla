--------------------------- MODULE MCDepositRelay ---------------------------
(* TLC instance of DepositRelay: two deposit events in two blocks.          *)
EXTENDS DepositRelay

MCValue == [d \in Deposit |-> IF d = "d1" THEN 1 ELSE 2]
MCLogBlock == [l \in Log |-> IF l = "l2" THEN 2 ELSE 1]
MCPayload == [l \in Log |-> IF l = "l1" THEN "d1" ELSE "d2"]
=============================================================================
