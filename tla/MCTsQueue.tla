------------------------------ MODULE MCTsQueue ------------------------------
(* TsQueue for TLC: two producers, one consumer, two items. *)
EXTENDS TsQueue
=============================================================================
