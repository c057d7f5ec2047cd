----------------------------- MODULE ByteStream -----------------------------
(***************************************************************************)
(* What a pipe promises: a bounded queue of bytes.  A byte is appended     *)
(* while somebody can read, and leaves from the front, to a reader or,     *)
(* when the reader's buffer cannot be stored to, to nobody.  Each end      *)
(* closes once.                                                            *)
(***************************************************************************)
EXTENDS Naturals, Sequences

CONSTANTS Bytes,   \* the bytes
          Size     \* bytes that fit

VARIABLES queue,   \* bytes written and not yet read, oldest first
          last,    \* the byte read last
          ropen, wopen   \* is the end open?

vars == <<queue, last, ropen, wopen>>

Init ==
  /\ queue = <<>>
  /\ last \in Bytes
  /\ ropen = TRUE
  /\ wopen = TRUE

Put(b) ==
  /\ ropen /\ wopen
  /\ Len(queue) < Size
  /\ queue' = Append(queue, b)
  /\ UNCHANGED <<last, ropen, wopen>>

Get ==
  /\ ropen
  /\ queue # <<>>
  /\ queue' = Tail(queue)
  /\ \/ last' = Head(queue)
     \/ UNCHANGED last
  /\ UNCHANGED <<ropen, wopen>>

Close ==
  /\ \/ ropen /\ ropen' = FALSE /\ UNCHANGED wopen
     \/ wopen /\ wopen' = FALSE /\ UNCHANGED ropen
  /\ UNCHANGED <<queue, last>>

Next ==
  \/ \E b \in Bytes : Put(b)
  \/ Get
  \/ Close

Spec == Init /\ [][Next]_vars

=============================================================================
