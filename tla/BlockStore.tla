----------------------------- MODULE BlockStore -----------------------------
(***************************************************************************)
(* What the buffer cache promises its users: every block has one content,  *)
(* at most one process at a time has the block in its hands, and only that *)
(* process changes the content.                                            *)
(***************************************************************************)
CONSTANTS Procs, Nobody, Blocks, Vals

VARIABLES val,     \* content of each block
          holder   \* the process that has the block between bread and brelse

vars == <<val, holder>>

Init ==
  /\ val \in [Blocks -> Vals]
  /\ holder = [k \in Blocks |-> Nobody]

Hold(p, k) ==
  /\ holder[k] = Nobody
  /\ holder' = [holder EXCEPT ![k] = p]
  /\ UNCHANGED val

Change(p, k) ==
  /\ holder[k] = p
  /\ \E v \in Vals : val' = [val EXCEPT ![k] = v]
  /\ UNCHANGED holder

Drop(p, k) ==
  /\ holder[k] = p
  /\ holder' = [holder EXCEPT ![k] = Nobody]
  /\ UNCHANGED val

Next == \E p \in Procs, k \in Blocks : Hold(p, k) \/ Change(p, k) \/ Drop(p, k)

Spec == Init /\ [][Next]_vars

=============================================================================
