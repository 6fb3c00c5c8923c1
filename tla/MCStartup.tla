----------------------------- MODULE MCStartup -----------------------------
(* TLC instance of Startup: both chains are about to get block 10, whose   *)
(* number has a digit more.                                                *)
EXTENDS Startup

MCFirstBlock == [home |-> 8, foreign |-> 9]
=============================================================================
