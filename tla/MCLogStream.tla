---------------------------- MODULE MCLogStream ----------------------------
(* TLC instances of LogStream: a start in the middle of a short chain.     *)
EXTENDS LogStream

MCGenesis == <<"x", "x">>
=============================================================================
