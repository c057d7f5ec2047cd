------------------------------ MODULE Console ------------------------------
(***************************************************************************)
(* Console input (console.c): the interrupt handler edits a line in a ring *)
(* and hands finished lines to readers.  The handler is one step, since it *)
(* holds cons.lock throughout; a reader keeps the lock from character to   *)
(* character and gives it up when it sleeps.  Echo is left to Uart.  The   *)
(* indices count modulo a multiple of the ring's size, as unsigned ints do.*)
(***************************************************************************)
EXTENDS Naturals, Sequences, FiniteSetsExt

CONSTANTS Readers, Nobody,
          INPUT_BUF_SIZE,
          Wrap,        \* modulus of the indices
          ReadSizes    \* values of n in read()

Chars == {"x", "nl", "^D"}

VARIABLES
  cbuf,         \* cons.buf
  cr, cw, ce,   \* cons.r, cons.w, cons.e
  conslock,     \* holder of cons.lock
  rd            \* a reader's place, and n and target of consoleread()

vars == <<cbuf, cr, cw, ce, conslock, rd>>

NotReading == [pc |-> "idle", n |-> 0, target |-> 0, killed |-> FALSE]

Init ==
  /\ cbuf = [k \in 0 .. INPUT_BUF_SIZE - 1 |-> "x"]
  /\ cr = 0 /\ cw = 0 /\ ce = 0
  /\ conslock = Nobody
  /\ rd = [p \in Readers |-> NotReading]

Distance(from, to) == (to + Wrap - from) % Wrap
Inc(i) == (i + 1) % Wrap
Dec(i) == (i + Wrap - 1) % Wrap
At(i) == cbuf[i % INPUT_BUF_SIZE]

-----------------------------------------------------------------------------
\* Slip: the whole buffer may be erased, finished lines too.
Erasable_all == ce # cr
Erasable == ce # cw

Backspace ==
  /\ conslock = Nobody
  /\ Erasable
  /\ ce' = Dec(ce)
  /\ UNCHANGED <<cbuf, cr, cw, conslock, rd>>

\* ^U erases back to a newline or to what is finished.
KillLine ==
  LET newlines == {k \in 1 .. Distance(cw, ce) : At(cw + k - 1) = "nl"} IN
  /\ conslock = Nobody
  /\ ce # cw
  /\ ce' = (cw + Max(newlines \cup {0})) % Wrap
  /\ UNCHANGED <<cbuf, cr, cw, conslock, rd>>

WakeReaders ==
  [p \in Readers |-> IF rd[p].pc = "sleep" THEN [rd[p] EXCEPT !.pc = "acquire"] ELSE rd[p]]

EndsLine(c, e) == c \in {"nl", "^D"} \/ Distance(cr, e) = INPUT_BUF_SIZE

\* The default case of consoleintr(); a carriage return arrives here as "nl".
consoleintr(c) ==
  /\ conslock = Nobody
  /\ Distance(cr, ce) < INPUT_BUF_SIZE
  /\ cbuf' = [cbuf EXCEPT ![ce % INPUT_BUF_SIZE] = c]
  /\ ce' = Inc(ce)
  /\ IF EndsLine(c, Inc(ce)) THEN cw' = Inc(ce) /\ rd' = WakeReaders
                             ELSE UNCHANGED <<cw, rd>>
  /\ UNCHANGED <<cr, conslock>>

-----------------------------------------------------------------------------
\* read() of the console; consoleread() takes the lock, also after a sleep.
consoleread(p, n) ==
  /\ rd[p].pc = "idle"
  /\ rd' = [rd EXCEPT ![p].pc = "acquire", ![p].n = n, ![p].target = n]
  /\ UNCHANGED <<cbuf, cr, cw, ce, conslock>>

ReadAcquire(p) ==
  /\ rd[p].pc = "acquire" /\ conslock = Nobody
  /\ conslock' = p
  /\ rd' = [rd EXCEPT ![p].pc = "loop"]
  /\ UNCHANGED <<cbuf, cr, cw, ce>>

\* No input: give up if killed, sleep if not.
ReadEmpty(p) ==
  /\ rd[p].pc = "loop" /\ cr = cw
  /\ rd' = [rd EXCEPT ![p] = IF rd[p].killed THEN NotReading ELSE [rd[p] EXCEPT !.pc = "sleep"]]
  /\ conslock' = Nobody
  /\ UNCHANGED <<cbuf, cr, cw, ce>>

\* A killed process exits then, and another takes its place.
Return(p) == rd' = [rd EXCEPT ![p] = NotReading] /\ conslock' = Nobody

\* ^D ends a read, and is kept for the next one if this one has something.
ReadEof(p) ==
  /\ rd[p].pc = "loop" /\ cr # cw /\ At(cr) = "^D"
  /\ cr' = IF rd[p].n < rd[p].target THEN cr ELSE Inc(cr)
  /\ Return(p)
  /\ UNCHANGED <<cbuf, cw, ce>>

ReadChar(p) ==
  /\ rd[p].pc = "loop" /\ cr # cw /\ At(cr) # "^D"
  /\ cr' = Inc(cr)
  /\ IF At(cr) = "nl" \/ rd[p].n = 1
     THEN Return(p)
     ELSE /\ rd' = [rd EXCEPT ![p].n = @ - 1]
          /\ UNCHANGED conslock
  /\ UNCHANGED <<cbuf, cw, ce>>

\* either_copyout() fails: the character is gone.
ReadFault(p) ==
  /\ rd[p].pc = "loop" /\ cr # cw /\ At(cr) # "^D"
  /\ cr' = Inc(cr)
  /\ Return(p)
  /\ UNCHANGED <<cbuf, cw, ce>>

\* kill(): a sleeping reader is made runnable.
Kill(p) ==
  /\ rd[p].pc # "idle" /\ ~rd[p].killed
  /\ rd' = [rd EXCEPT ![p].killed = TRUE, ![p].pc = IF @ = "sleep" THEN "acquire" ELSE @]
  /\ UNCHANGED <<cbuf, cr, cw, ce, conslock>>

-----------------------------------------------------------------------------
ReadStep(p) == ReadAcquire(p) \/ ReadEmpty(p) \/ ReadEof(p) \/ ReadChar(p) \/ ReadFault(p)

Next ==
  \/ \E c \in Chars : consoleintr(c)
  \/ Backspace \/ KillLine
  \/ \E p \in Readers : \/ \E n \in ReadSizes : consoleread(p, n)
                        \/ ReadStep(p) \/ Kill(p)

-----------------------------------------------------------------------------

Ring(from, to) == [k \in 1 .. Distance(from, to) |-> At(from + k - 1)]

LI == INSTANCE LineInput WITH ready <- Ring(cr, cw), edit <- Ring(cw, ce)

\* The three indices around the ring are a line editor and a queue: editing
\* does not reach finished lines, and readers that share them lose nothing.
LineInputSpec == LI!Spec
=============================================================================
