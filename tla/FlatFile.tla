------------------------------ MODULE FlatFile ------------------------------
(***************************************************************************)
(* What the block layer of a file promises: a file is a sequence of bytes, *)
(* and the processes that share an open file share one position, at which  *)
(* each piece that is written goes and which moves past it.                *)
(***************************************************************************)
EXTENDS Naturals, Sequences

CONSTANTS Files, Bytes, Piece   \* the largest piece written in one step

VARIABLES content,   \* bytes of a file
          pos,       \* position of the open file
          making     \* mkfs is at work

vars == <<content, pos, making>>

\* The bytes of s with n times v from position at on.
Overlay(s, at, n, v) ==
  [k \in 1 .. (IF Len(s) > at + n THEN Len(s) ELSE at + n) |->
     IF k > at /\ k <= at + n THEN v ELSE s[k]]

Write(f) ==
  /\ pos[f] <= Len(content[f])
  /\ \E n \in 1 .. Piece, v \in Bytes :
       /\ content' = [content EXCEPT ![f] = Overlay(@, pos[f], n, v)]
       /\ pos' = [pos EXCEPT ![f] = @ + n]

\* A write that breaks off has changed some bytes at the position, at most.
WriteFault(f) ==
  /\ \E n \in 1 .. Piece, v \in Bytes :
       /\ pos[f] + n <= Len(content[f])
       /\ content' = [content EXCEPT ![f] = Overlay(@, pos[f], n, v)]
  /\ UNCHANGED pos

Read(f) ==
  /\ \E n \in 1 .. Len(content[f]) - pos[f] : pos' = [pos EXCEPT ![f] = @ + n]
  /\ UNCHANGED content

Truncate(f) ==
  /\ content' = [content EXCEPT ![f] = <<>>]
  /\ UNCHANGED pos

\* Before the system runs, mkfs appends what it likes.
Extend(f) ==
  /\ \E n \in 1 .. Piece, v \in Bytes :
       content' = [content EXCEPT ![f] = Overlay(@, Len(@), n, v)]
  /\ UNCHANGED pos

Use(f) == Write(f) \/ WriteFault(f) \/ Read(f) \/ Truncate(f)

Next ==
  \/ making /\ making' \in BOOLEAN /\ \E f \in Files : Extend(f)
  \/ ~making /\ UNCHANGED making /\ \E f \in Files : Use(f)

Init == making = TRUE /\ content = [f \in Files |-> <<>>] /\ pos = [f \in Files |-> 0]

Step == [Next]_vars

Spec == Init /\ [][Next]_vars
=============================================================================
