------------------------- MODULE MCForeignDeposits -------------------------
(* TLC instance of ForeignDeposits.                                        *)
EXTENDS ForeignDeposits

MCValue == [d \in Deposit |-> IF d = "d1" THEN 1 ELSE 2]
=============================================================================
