---------------------- MODULE MCValidatedForeignBridge ----------------------
(* TLC instances of ValidatedForeignBridge: every deposit is worth one coin. *)
EXTENDS ValidatedForeignBridge, TLC

MCValue == [d \in Deposit |-> 1]
Symmetry == Permutations(Address \ {ZeroAddress})
=============================================================================
