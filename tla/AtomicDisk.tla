----------------------------- MODULE AtomicDisk -----------------------------
(***************************************************************************)
(* What the log promises to the file system: the disk changes by whole     *)
(* groups of operations.  A group is made of operations that overlap; it   *)
(* becomes stable at once, when none of them is active any more, and       *)
(* before the next group starts.  A crash loses the current group and      *)
(* nothing else.  Module Log must look like this, whatever happens between *)
(* two disk writes.                                                        *)
(***************************************************************************)
CONSTANTS Ops,       \* processes that use the file system
          Blocks,    \* disk blocks
          Vals,      \* contents of a block
          Blank      \* initial content

VARIABLES stable,    \* what a restart finds
          current,   \* what operations see
          active     \* operations between begin_op() and end_op()

vars == <<stable, current, active>>

Init ==
  /\ stable = [b \in Blocks |-> Blank]
  /\ current = stable
  /\ active = {}

Begin(o) ==
  /\ o \notin active
  /\ active = {} => current = stable
  /\ active' = active \cup {o}
  /\ UNCHANGED <<stable, current>>

Write(o, b, v) ==
  /\ o \in active
  /\ current' = [current EXCEPT ![b] = v]
  /\ UNCHANGED <<stable, active>>

End(o) ==
  /\ o \in active
  /\ active' = active \ {o}
  /\ UNCHANGED <<stable, current>>

Commit ==
  /\ active = {}
  /\ stable' = current
  /\ UNCHANGED <<current, active>>

Crash ==
  /\ current' = stable
  /\ active' = {}
  /\ UNCHANGED stable

Next ==
  \/ \E o \in Ops : Begin(o) \/ End(o)
  \/ \E o \in Ops, b \in Blocks, v \in Vals : Write(o, b, v)
  \/ Commit
  \/ Crash

Spec == Init /\ [][Next]_vars
=============================================================================
