------------------------- MODULE MCValidatedBridges -------------------------
(* TLC instance of ValidatedBridges: every deposit is worth one coin; two  *)
(* of the three messages of home are of one foreign transaction.           *)
EXTENDS ValidatedBridges, TLC

MCValue == [d \in Deposit |-> 1]
MCHomeValue == [m \in HomeMessage |-> 1]
MCHash == [m \in HomeMessage |-> IF m = "w3" THEN "t2" ELSE "t1"]
Symmetry == Permutations(Address \ {ZeroAddress})
=============================================================================
