----------------------------- MODULE LineInput -----------------------------
(***************************************************************************)
(* What the console promises a reader: typed characters collect in a line  *)
(* that can still be edited; a finished line cannot, and its characters    *)
(* are taken one by one, each once.                                        *)
(***************************************************************************)
EXTENDS Naturals, Sequences

CONSTANTS Chars
VARIABLES ready,   \* characters of finished lines, not yet read
          edit     \* the line being typed

vars == <<ready, edit>>

Type == \E c \in Chars : edit' = Append(edit, c) /\ UNCHANGED ready
Finish == \E c \in Chars : ready' = ready \o Append(edit, c) /\ edit' = <<>>
Erase == edit # <<>> /\ edit' = SubSeq(edit, 1, Len(edit) - 1) /\ UNCHANGED ready
Kill == edit' = <<>> /\ UNCHANGED ready
Take == ready # <<>> /\ ready' = Tail(ready) /\ UNCHANGED edit

Next == Type \/ Finish \/ Erase \/ Kill \/ Take

Spec == ready = <<>> /\ edit = <<>> /\ [][Next]_vars
=============================================================================
