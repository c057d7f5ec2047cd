------------------------------- MODULE MCPipe -------------------------------
(* Instances of Pipe for TLC.  No symmetry: First is not like the others.    *)
EXTENDS Pipe
=============================================================================
