------------------------------ MODULE MCInodes ------------------------------
(* Instances of Inodes for TLC. *)
EXTENDS Inodes, TLC

Rel(op, names) == [op |-> op, abs |-> FALSE, names |-> names]
Abs(op, names) == [op |-> op, abs |-> TRUE, names |-> names]

\* Files and directories at the top and one level down, from the root and from
\* the current directory, and the way up.
MCCalls ==
  {Abs(op, <<"a">>) : op \in {"unlink", "open"}}
  \cup {Abs(op, <<"a", "a">>) : op \in {"create", "unlink", "chdir", "link"}}
  \cup {Rel(op, <<"a">>) : op \in {"mkdir", "mknod", "unlink", "create", "link"}}
  \cup {Rel(op, <<"..">>) : op \in {"open", "chdir", "unlink"}}
  \cup {Abs("chdir", <<>>), Abs("unlink", <<>>)}

MCNewPaths == {Abs("none", <<"a">>), Rel("none", <<"b">>)}

\* Removing directories, and opening what .. names.
MCUnlinks ==
  {Abs("unlink", <<"a">>), Abs("unlink", <<"a", "a">>), Rel("open", <<"..">>)}

Symmetry == Permutations(Procs)
=============================================================================
