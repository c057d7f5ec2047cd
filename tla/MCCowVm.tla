------------------------------ MODULE MCCowVm ------------------------------
(* Small instances of CowVm for TLC. *)
EXTENDS CowVm, TLC

\* One read-only text page and one data page.
TextAndData == 0 :> {"U"} @@ 1 :> {"U", "W"}

\* One data page: sbrk() can add a second one.
OneDataPage == 0 :> {"U", "W"}

\* Pages are interchangeable, and so are the processes other than init.
Symmetry == Permutations(Pages) \cup Permutations(Procs \ {initproc})
=============================================================================
