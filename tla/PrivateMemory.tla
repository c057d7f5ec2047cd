--------------------------- MODULE PrivateMemory ---------------------------
(***************************************************************************)
(* What fork() promises to user programs: every live process owns a        *)
(* private memory.  A write by one process is seen by no other process, a  *)
(* child starts with a snapshot of its parent's memory, and pages that     *)
(* sbrk() adds read as zero.  Nothing here mentions physical pages: the    *)
(* copy-on-write machinery of kalloc.c, vm.c and trap.c (module CowVm)     *)
(* must be invisible at this level.                                        *)
(***************************************************************************)

CONSTANTS Procs,      \* slots of the process table
          VAs,        \* virtual pages of one address space
          Values,     \* contents of a page that a program can store
          Zero,       \* the content of a page filled with zeroes
          Unmapped,   \* marks a virtual page that is not mapped
          initproc    \* the first process

VARIABLES live,       \* processes that execute or may execute user code
          view        \* view[p][va]: what p reads at va

vars == <<live, view>>

Empty == [va \in VAs |-> Unmapped]

TypeOK ==
  /\ live \subseteq Procs
  /\ view \in [Procs -> [VAs -> Values \cup {Unmapped}]]

Init ==
  /\ live = {initproc}
  /\ \E image \in [VAs -> {Zero, Unmapped}] :
       view = [p \in Procs |-> IF p = initproc THEN image ELSE Empty]

\* p stores a value, or the kernel stores it on p's behalf.
Write(p, va) ==
  /\ p \in live
  /\ view[p][va] # Unmapped
  /\ view' \in {[view EXCEPT ![p][va] = v] : v \in Values}
  /\ UNCHANGED live

\* The child appears with exactly what the parent sees.
Fork(p, q) ==
  /\ p \in live
  /\ q \notin live
  /\ live' = live \cup {q}
  /\ view' = [view EXCEPT ![q] = view[p]]

\* sbrk() adds a zeroed page or removes a page.
Map(p, va) ==
  /\ p \in live
  /\ view[p][va] = Unmapped
  /\ view' = [view EXCEPT ![p][va] = Zero]
  /\ UNCHANGED live

Unmap(p, va) ==
  /\ p \in live
  /\ view' = [view EXCEPT ![p][va] = Unmapped]
  /\ UNCHANGED live

Exit(p) ==
  /\ p \in live
  /\ live' = live \ {p}
  /\ view' = [view EXCEPT ![p] = Empty]

\* What changes nothing is a stuttering step.
Next ==
  \/ live' # live /\ \E p \in Procs : Exit(p) \/ \E q \in Procs : Fork(p, q)
  \/ view' # view /\ \E p \in live, va \in VAs : Write(p, va) \/ Map(p, va) \/ Unmap(p, va)

Spec == Init /\ [][Next]_vars
=============================================================================
