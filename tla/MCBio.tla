------------------------------- MODULE MCBio -------------------------------
(* An instance of Bio for TLC.                                               *)
EXTENDS Bio
=============================================================================
