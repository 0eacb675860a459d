------------------------------- MODULE MCLoop -------------------------------
(* The Agent's loop and its broker, with small bounds. *)
EXTENDS Loop
=============================================================================
