------------------------------ MODULE MCQueue ------------------------------
(* An instance of Queue for TLC. *)
EXTENDS Queue
=============================================================================
