------------------------------- MODULE MCLog -------------------------------
(* Small instances of Log for TLC. *)
EXTENDS Log, TLC

\* Processes are interchangeable, and so are blocks.
Symmetry == Permutations(Ops) \cup Permutations(Blocks)
=============================================================================
