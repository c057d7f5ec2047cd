----------------------------- MODULE MCProcLife -----------------------------
(* Instances of ProcLife for TLC: init and two or three more slots.          *)
EXTENDS ProcLife
=============================================================================
