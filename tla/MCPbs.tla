------------------------------- MODULE MCPbs -------------------------------
(* Small instances of Pbs for TLC: the configurations give the numbers. *)
EXTENDS Pbs
=============================================================================
