----------------------------- MODULE PipeProofs -----------------------------
(***************************************************************************)
(* Proofs about Pipe for every number of processes, size of the ring and   *)
(* width of the counters: the page of the pipe is freed once and last,     *)
(* nobody sleeps without a reason, and the pipe implements ByteStream.     *)
(***************************************************************************)
EXTENDS Pipe, Integers, Sequences, FiniteSetTheorems, TLAPS

Writing == {"write", "writing", "write full", "on nwrite"}
Reading == {"read", "reading", "read empty", "copying", "on nread"}
Locked == {"writing", "write full", "reading", "read empty", "copying"}
Places == {"unused", "user", "close", "free"} \cup Writing \cup Reading

Threads == [pc : Places, i : Nat, n : Nat, end : Ends]

TypeOK ==
  /\ data \in [0 .. PIPESIZE - 1 -> Bytes]
  /\ nread \in 0 .. UINT - 1
  /\ nwrite \in 0 .. UINT - 1
  /\ open \in [Ends -> BOOLEAN]
  /\ freed \in BOOLEAN
  /\ lock \in Procs \cup {Nobody}
  /\ ref \in [Ends -> Nat]
  /\ ofile \in [Procs -> SUBSET Ends]
  /\ killed \in [Procs -> BOOLEAN]
  /\ exiting \in [Procs -> BOOLEAN]
  /\ th \in [Procs -> Threads]
  /\ muted \in BOOLEAN
  /\ last \in Bytes

\* pi->lock is held at the places between acquire() and release().
LockOK == \A p \in Procs : th[p].pc \in Locked <=> lock = p

\* The processes that have end e open, and the ones that are closing it for
\* good.
Having(e) == {p \in Procs : e \in ofile[p]}
Closing(p, e) == th[p].pc = "close" /\ th[p].end = e

\* f->ref counts the processes that have the end open.
RefOK == \A e \in Ends :
  IsFiniteSet(Having(e)) /\ ref[e] = Cardinality(Having(e))

\* A process in a read() or write() has that end open.
UsersOK == \A p \in Procs :
  /\ th[p].pc \in Writing => "w" \in ofile[p]
  /\ th[p].pc \in Reading => "r" \in ofile[p]
  /\ th[p].pc = "unused" => ofile[p] = {}

\* An end is open as long as some process has it open or is about to close it;
\* one process only closes it, when nobody has it.
EndsOK == \A e \in Ends :
  /\ open[e] <=> \E p \in Procs : e \in ofile[p] \/ Closing(p, e)
  /\ \A p \in Procs : Closing(p, e) =>
       /\ Having(e) = {}
       /\ \A q \in Procs : Closing(q, e) => q = p

\* The pipe with both ends closed is freed, or one process is about to.
FreeOK ==
  /\ ~open["r"] /\ ~open["w"] <=> freed \/ \E p \in Procs : th[p].pc = "free"
  /\ \A p \in Procs : th[p].pc = "free" =>
       ~freed /\ \A q \in Procs : th[q].pc = "free" => q = p

\* The difference of the counters is the number of bytes in the ring.
Used == (nwrite + UINT - nread) % UINT
CountOK == Used <= PIPESIZE

\* Why a process sleeps, or is about to, while another one may hold the lock.
SleepOK ==
  \A p \in Procs :
    /\ th[p].pc = "on nread" =>
         /\ open["w"]
         /\ Empty \/ muted \/ \E q \in Procs : th[q].pc = "writing" /\ th[q].i > 0
         /\ \A q \in Procs : th[q].pc # "write full"
    /\ th[p].pc = "on nwrite" =>
         /\ open["r"]
         /\ Full \/ \E q \in Procs : th[q].pc = "copying"
    /\ th[p].pc = "read empty" => Empty /\ open["w"]
    /\ th[p].pc = "write full" => Full /\ open["r"]

IInv ==
  /\ TypeOK /\ LockOK /\ RefOK /\ UsersOK
  /\ EndsOK /\ FreeOK /\ CountOK /\ SleepOK

-----------------------------------------------------------------------------
(* What a step does to the threads.                                        *)

\* Only p moves.
Alone(p) ==
  /\ th' \in [Procs -> Threads]
  /\ \A q \in Procs \ {p} : th'[q] = th[q]

\* p moves and wakes the sleepers on c.
Wakes(p, c) ==
  /\ th' \in [Procs -> Threads]
  /\ muted' = (muted /\ c # "on nread")
  /\ \A q \in Procs \ {p} :
       IF th[q].pc = c
       THEN /\ th'[q].pc = (IF c = "on nread" THEN "read" ELSE "write")
            /\ th'[q].i = th[q].i
       ELSE th'[q] = th[q]

\* A process goes to another place, and nothing else about it changes.
LEMMA GotoMoves ==
  ASSUME TypeOK, NEW p \in Procs, NEW where \in Places, Goto(p, where)
  PROVE  /\ Alone(p)
         /\ th'[p].pc = where /\ th'[p].i = th[p].i
<1>1. [th[p] EXCEPT !.pc = where] \in Threads
  BY DEF TypeOK, Threads
<1>2. th'[p] = [th[p] EXCEPT !.pc = where]
  BY DEF Goto, TypeOK
<1>3. th'[p].pc = where /\ th'[p].i = th[p].i
  BY <1>2 DEF TypeOK, Threads
<1> QED
  BY <1>1, <1>3 DEF Goto, TypeOK, Alone

\* A process starts a call, or ends one.
LEMMA ThreadStarts ==
  ASSUME TypeOK, NEW p \in Procs, NEW where \in Places, NEW len \in Nat,
         th' = [th EXCEPT ![p] = Thread(where, len)]
  PROVE  /\ Alone(p)
         /\ th'[p].pc = where /\ th'[p].i = 0
<1>1. Thread(where, len) \in Threads
  BY DEF Thread, Threads, Ends
<1>2. th'[p] = Thread(where, len)
  BY DEF TypeOK
<1>3. th'[p].pc = where /\ th'[p].i = 0
  BY <1>2 DEF Thread
<1> QED
  BY <1>1, <1>3 DEF TypeOK, Alone

\* The loop counter i of a process goes up.
LEMMA CountsOne ==
  ASSUME TypeOK, NEW p \in Procs, th' = [th EXCEPT ![p].i = @ + 1]
  PROVE  /\ Alone(p)
         /\ th'[p].pc = th[p].pc /\ th'[p].i = th[p].i + 1
<1>0. th[p] \in Threads
  BY DEF TypeOK
<1>1. [th[p] EXCEPT !.i = @ + 1] \in Threads
  BY <1>0 DEF Threads
<1>2. th'[p] = [th[p] EXCEPT !.i = @ + 1]
  BY DEF TypeOK
<1>3. th'[p].pc = th[p].pc /\ th'[p].i = th[p].i + 1
  BY <1>2 DEF TypeOK, Threads
<1> QED
  BY <1>1, <1>3 DEF TypeOK, Alone

\* wakeup(c) moves the sleepers on c and nobody else.
LEMMA WakeupWakes ==
  ASSUME TypeOK, NEW c, NEW p \in Procs, NEW t \in Threads, wakeup(c, p, t)
  PROVE  Wakes(p, c) /\ th'[p] = t
<1> DEFINE to == IF c = "on nread" THEN "read" ELSE "write"
<1>1. to \in Places
  BY DEF Places, Reading, Writing
<1>2. \A q \in Procs : th[q] \in Threads
  BY DEF TypeOK
<1>3. \A q \in Procs : /\ [th[q] EXCEPT !.pc = to] \in Threads
                       /\ [th[q] EXCEPT !.pc = to].pc = to
                       /\ [th[q] EXCEPT !.pc = to].i = th[q].i
  BY <1>1, <1>2 DEF Threads
<1>4. \A q \in Procs : th'[q] = IF q = p THEN t
        ELSE IF th[q].pc = c THEN [th[q] EXCEPT !.pc = to] ELSE th[q]
  BY DEF wakeup
<1>5. th' \in [Procs -> Threads]
  BY <1>2, <1>3 DEF wakeup
<1> QED
  BY <1>3, <1>4, <1>5 DEF wakeup, Wakes

-----------------------------------------------------------------------------
(* The counters.                                                           *)

\* The sizes, without the remainder: what linear arithmetic needs.
LEMMA Sizes == PIPESIZE \in Nat /\ PIPESIZE > 0 /\ UINT \in Nat /\ UINT > PIPESIZE
BY PipeAssumption

\* A sum of two counters exceeds UINT at most once.
LEMMA ModUINT ==
  ASSUME NEW a \in Nat, a < 2 * UINT
  PROVE  a % UINT = IF a < UINT THEN a ELSE a - UINT
BY Sizes

\* The difference of two counters, and a counter plus a small number.
Minus(x, y) == IF x >= y THEN x - y ELSE x + UINT - y
Plus(x, k) == IF x + k < UINT THEN x + k ELSE x + k - UINT

\* The counter arithmetic of pipe.c, without the remainder.
LEMMA CounterOps ==
  ASSUME NEW x \in 0 .. UINT - 1, NEW y \in 0 .. UINT - 1, NEW k \in 0 .. PIPESIZE
  PROVE  /\ (x + UINT - y) % UINT = Minus(x, y)
         /\ (x + k) % UINT = Plus(x, k)
<1> DEFINE d == x + UINT - y
           s == x + k
<1>1. d \in Nat /\ d < 2 * UINT
  BY Sizes
<1>2. s \in Nat /\ s < 2 * UINT
  BY Sizes
<1> HIDE DEF d, s
<1>3. d % UINT = IF d < UINT THEN d ELSE d - UINT
  BY <1>1, ModUINT
<1>4. s % UINT = IF s < UINT THEN s ELSE s - UINT
  BY <1>2, ModUINT
<1>5. Minus(x, y) = IF d < UINT THEN d ELSE d - UINT
  BY Sizes DEF Minus, d
<1>6. Plus(x, k) = IF s < UINT THEN s ELSE s - UINT
  BY Sizes DEF Plus, s
<1> QED
  BY <1>3, <1>4, <1>5, <1>6 DEF d, s

\* The ring is empty, or full, when the difference of the counters says so.
LEMMA CounterFacts ==
  ASSUME nread \in 0 .. UINT - 1, nwrite \in 0 .. UINT - 1, CountOK
  PROVE  /\ Used = Minus(nwrite, nread)
         /\ Used \in 0 .. PIPESIZE
         /\ Empty <=> Used = 0
         /\ Full <=> Used = PIPESIZE
<1>1. Used = Minus(nwrite, nread)
  BY CounterOps, Sizes DEF Used
<1>2. Full <=> nwrite = Plus(nread, PIPESIZE)
  BY CounterOps, Sizes DEF Full
<1> QED
  BY <1>1, <1>2, Sizes DEF CountOK, Empty, Minus, Plus

\* nwrite++ on a ring with room adds one byte.
LEMMA CountUp ==
  ASSUME nread \in 0 .. UINT - 1, nwrite \in 0 .. UINT - 1, CountOK, ~Full,
         nwrite' = (nwrite + 1) % UINT, nread' = nread
  PROVE  /\ nwrite' = Plus(nwrite, 1)
         /\ nwrite' \in 0 .. UINT - 1 /\ Used' = Used + 1 /\ CountOK'
<1>1. nwrite' = Plus(nwrite, 1)
  BY CounterOps, Sizes
<1>2. nwrite' \in 0 .. UINT - 1
  BY <1>1, Sizes DEF Plus
<1>3. Used' = Minus(nwrite', nread)
  BY <1>2, CounterOps, Sizes DEF Used
<1> QED
  BY <1>1, <1>2, <1>3, CounterFacts, Sizes DEF CountOK, Plus, Minus

\* nread++ on a ring that is not empty takes one byte.
LEMMA CountDown ==
  ASSUME nread \in 0 .. UINT - 1, nwrite \in 0 .. UINT - 1, CountOK, ~Empty,
         nread' = (nread + 1) % UINT, nwrite' = nwrite
  PROVE  /\ nread' = Plus(nread, 1)
         /\ nread' \in 0 .. UINT - 1 /\ Used' = Used - 1 /\ CountOK'
<1>1. nread' = Plus(nread, 1)
  BY CounterOps, Sizes
<1>2. nread' \in 0 .. UINT - 1
  BY <1>1, Sizes DEF Plus
<1>3. Used' = Minus(nwrite, nread')
  BY <1>2, CounterOps, Sizes DEF Used
<1> QED
  BY <1>1, <1>2, <1>3, CounterFacts, Sizes DEF CountOK, Plus, Minus

-----------------------------------------------------------------------------
(* The parts of the invariant that an action leaves alone.                 *)

\* A step that opens and closes nothing and where nobody starts or ends a
\* close keeps what is said about the ends.
Quiet ==
  /\ UNCHANGED <<open, freed, ref, ofile>>
  /\ \A q \in Procs :
       /\ th'[q].pc = "close" <=> th[q].pc = "close"
       /\ th'[q].pc = "free" <=> th[q].pc = "free"
       /\ th[q].pc \in {"close", "free"} => th'[q] = th[q]
       /\ th'[q].pc \in Writing => "w" \in ofile[q]
       /\ th'[q].pc \in Reading => "r" \in ofile[q]
       /\ th'[q].pc = "unused" => th[q].pc = "unused"

\* A quiet step keeps what is said about the ends.
LEMMA QuietEnds ==
  ASSUME RefOK, UsersOK, EndsOK, FreeOK, Quiet
  PROVE  RefOK' /\ UsersOK' /\ EndsOK' /\ FreeOK'
<1>1. /\ \A e : Having(e)' = Having(e)
      /\ \A q \in Procs, e \in Ends : Closing(q, e)' <=> Closing(q, e)
  BY DEF Quiet, Having, Closing
<1>2. RefOK'
  BY <1>1 DEF RefOK, Quiet
<1>3. UsersOK'
  BY DEF UsersOK, Quiet
<1>4. EndsOK'
  BY <1>1 DEF EndsOK, Quiet
<1>5. FreeOK'
  BY DEF FreeOK, Quiet
<1> QED
  BY <1>2, <1>3, <1>4, <1>5

\* acquire(): the lock was free, and nobody was at a place that needs it.
LEMMA ActAcquire ==
  ASSUME IInv, NEW p \in Procs, Acquire(p)
  PROVE  IInv'
<1>1. PICK where \in {"writing", "reading"} :
        /\ Goto(p, where)
        /\ where = "writing" <=> th[p].pc = "write"
        /\ th[p].pc \in {"write", "read"}
  BY DEF Acquire, At
<1>2. Alone(p) /\ th'[p].pc = where /\ th'[p].i = th[p].i
  BY <1>1, GotoMoves DEF IInv, Places, Writing, Reading
<1>3. TypeOK'
  BY <1>2 DEF IInv, TypeOK, Alone, Acquire, pipeVars
<1>4. LockOK'
  BY <1>1, <1>2, PipeAssumption DEF IInv, TypeOK, LockOK, Alone, Acquire, Locked
<1>5. Quiet
  BY <1>1, <1>2 DEF IInv, UsersOK, Alone, Acquire, pipeVars, Quiet, Writing, Reading
<1>6. CountOK'
  BY DEF IInv, CountOK, Used, Acquire, pipeVars
<1>7. SleepOK'
  BY <1>1, <1>2 DEF IInv, LockOK, SleepOK, Alone, Acquire, pipeVars, Full, Empty
<1> QED
  BY <1>3, <1>4, <1>5, <1>6, <1>7, QuietEnds DEF IInv

\* pipewrite() returns -1: a killed writer that stored bytes leaves readers asleep,
\* and that is what muted says.
LEMMA ActWriteFails ==
  ASSUME IInv, NEW p \in Procs, WriteFails(p)
  PROVE  IInv'
<1>1. th[p].pc = "writing"
  BY DEF WriteFails, At
<1>2. Alone(p) /\ th'[p].pc = "user" /\ th'[p].i = 0
  BY ThreadStarts DEF WriteFails, IInv, Places
<1>3. TypeOK'
  BY <1>2 DEF IInv, TypeOK, Alone, WriteFails, pipeVars
<1>4. LockOK'
  BY <1>1, <1>2, PipeAssumption DEF IInv, TypeOK, LockOK, Alone, WriteFails, Locked
<1>5. Quiet
  BY <1>1, <1>2
  DEF IInv, UsersOK, Alone, WriteFails, pipeVars, Quiet, Writing, Reading
<1>6. CountOK'
  BY DEF IInv, CountOK, Used, WriteFails, pipeVars
<1>7. SleepOK'
  <2>1. \A q \in Procs : th[q].pc = "on nread" => open["r"]
    BY DEF IInv, UsersOK, EndsOK, Reading, Ends
  <2> QED
  BY <1>1, <1>2, <2>1
  DEF IInv, TypeOK, LockOK, Locked, SleepOK, Alone, WriteFails, pipeVars, Full, Empty
<1> QED
  BY <1>3, <1>4, <1>5, <1>6, <1>7, QuietEnds DEF IInv

\* A full pipe: after the wakeup no reader sleeps.
LEMMA ActWriteFull ==
  ASSUME IInv, NEW p \in Procs, WriteFull(p)
  PROVE  IInv'
<1>0. [th[p] EXCEPT !.pc = "write full"] \in Threads
  BY DEF IInv, TypeOK, Threads, Places, Writing
<1>1. th[p].pc = "writing"
  BY DEF WriteFull, At
<1>2. Wakes(p, "on nread") /\ th'[p].pc = "write full" /\ th'[p].i = th[p].i
  <2>1. Wakes(p, "on nread") /\ th'[p] = [th[p] EXCEPT !.pc = "write full"]
    BY <1>0, WakeupWakes DEF WriteFull, IInv
  <2> QED BY <2>1 DEF IInv, TypeOK, Threads
<1>3. TypeOK'
  BY <1>2 DEF IInv, TypeOK, Wakes, WriteFull, pipeVars
<1>4. LockOK'
  BY <1>1, <1>2, PipeAssumption DEF IInv, TypeOK, LockOK, Wakes, WriteFull, Locked
<1>5. Quiet
  BY <1>1, <1>2 DEF IInv, UsersOK, Wakes, WriteFull, pipeVars, Quiet, Writing, Reading
<1>6. CountOK'
  BY DEF IInv, CountOK, Used, WriteFull, pipeVars
<1>7. SleepOK'
  BY <1>1, <1>2
  DEF IInv, TypeOK, LockOK, Locked, SleepOK, Wakes, WriteFull, pipeVars, Full, Empty
<1> QED
  BY <1>3, <1>4, <1>5, <1>6, <1>7, QuietEnds DEF IInv

\* The end of a call wakes the sleepers on its channel and gives up the lock.
LEMMA ReturnMoves ==
  ASSUME TypeOK, NEW p \in Procs, NEW c, Return(p, c)
  PROVE  Wakes(p, c) /\ th'[p].pc = "user" /\ lock' = Nobody
<1>1. Thread("user", 0) \in Threads /\ Thread("user", 0).pc = "user"
  BY DEF Thread, Threads, Places, Ends
<1> QED
  BY <1>1, WakeupWakes DEF Return

\* The writer sleeps on a pipe that is still full: it held the lock since it looked.
LEMMA ActWriteSleep ==
  ASSUME IInv, NEW p \in Procs, WriteSleep(p)
  PROVE  IInv'
<1>1. th[p].pc = "write full"
  BY DEF WriteSleep, At
<1>2. Alone(p) /\ th'[p].pc = "on nwrite" /\ th'[p].i = th[p].i
  BY GotoMoves DEF WriteSleep, SleepOn, IInv, Places, Writing, Reading
<1>3. TypeOK'
  BY <1>2 DEF IInv, TypeOK, Alone, WriteSleep, SleepOn, pipeVars
<1>4. LockOK'
  BY <1>1, <1>2, PipeAssumption
  DEF IInv, TypeOK, LockOK, Alone, WriteSleep, SleepOn, Locked
<1>5. Quiet
  BY <1>1, <1>2
  DEF IInv, UsersOK, Alone, WriteSleep, pipeVars, Quiet, Writing, Reading
<1>6. CountOK'
  BY DEF IInv, CountOK, Used, WriteSleep, pipeVars
<1>7. SleepOK'
  BY <1>1, <1>2
  DEF IInv, TypeOK, LockOK, Locked, SleepOK, Alone, WriteSleep, SleepOn, pipeVars,
      Full, Empty
<1> QED
  BY <1>3, <1>4, <1>5, <1>6, <1>7, QuietEnds DEF IInv

\* A byte is stored: readers that sleep will be woken by this writer.
LEMMA ActWriteByte ==
  ASSUME IInv, NEW p \in Procs, WriteByte(p)
  PROVE  IInv'
<1>1. th[p].pc = "writing"
  BY DEF WriteByte, At
<1>2. Alone(p) /\ th'[p].pc = "writing" /\ th'[p].i = th[p].i + 1
  BY <1>1, CountsOne DEF WriteByte, IInv
<1>8. nwrite' \in 0 .. UINT - 1 /\ CountOK'
  BY CountUp DEF IInv, TypeOK, WriteByte
<1>3. TypeOK'
  BY <1>2, <1>8 DEF IInv, TypeOK, Alone, WriteByte, pipeVars
<1>4. LockOK'
  BY <1>1, <1>2, PipeAssumption DEF IInv, TypeOK, LockOK, Alone, WriteByte, Locked
<1>5. Quiet
  BY <1>1, <1>2 DEF IInv, UsersOK, Alone, WriteByte, pipeVars, Quiet, Writing, Reading
<1>6. CountOK'
  BY <1>8
<1>7. SleepOK'
  <2>1. th'[p].i > 0
    BY <1>2 DEF IInv, TypeOK, Threads
  <2>2. \A q \in Procs \ {p} : th[q].pc \notin Locked
    BY <1>1 DEF IInv, LockOK, Locked
  <2>3. ~Full /\ UNCHANGED <<open, muted>>
    BY DEF WriteByte
  <2> QED
    BY <1>1, <1>2, <2>1, <2>2, <2>3 DEF IInv, SleepOK, Alone, Locked
<1> QED
  BY <1>3, <1>4, <1>5, <1>6, <1>7, QuietEnds DEF IInv

\* pipewrite() returns and wakes the readers.
LEMMA ActWriteDone ==
  ASSUME IInv, NEW p \in Procs, WriteDone(p)
  PROVE  IInv'
<1>1. th[p].pc = "writing"
  BY DEF WriteDone, At
<1>2. Wakes(p, "on nread") /\ th'[p].pc = "user" /\ lock' = Nobody
  BY ReturnMoves DEF WriteDone, ReadWakes, IInv
<1>3. TypeOK'
  BY <1>2 DEF IInv, TypeOK, Wakes, WriteDone, pipeVars
<1>4. LockOK'
  BY <1>1, <1>2, PipeAssumption DEF IInv, TypeOK, LockOK, Wakes, WriteDone, Locked
<1>5. Quiet
  BY <1>1, <1>2 DEF IInv, UsersOK, Wakes, WriteDone, pipeVars, Quiet, Writing, Reading
<1>6. CountOK'
  BY DEF IInv, CountOK, Used, WriteDone, pipeVars
<1>7. SleepOK'
  BY <1>1, <1>2
  DEF IInv, TypeOK, LockOK, Locked, SleepOK, Wakes, WriteDone, pipeVars, Full, Empty
<1> QED
  BY <1>3, <1>4, <1>5, <1>6, <1>7, QuietEnds DEF IInv

\* A killed reader returns.
LEMMA ActReadKilled ==
  ASSUME IInv, NEW p \in Procs, ReadKilled(p)
  PROVE  IInv'
<1>1. th[p].pc = "reading"
  BY DEF ReadKilled, At
<1>2. Wakes(p, "nobody") /\ th'[p].pc = "user" /\ lock' = Nobody
  BY ReturnMoves DEF ReadKilled, ReadWakes, IInv
<1>8. Alone(p) /\ muted' = muted
  <2>1. \A q \in Procs : th[q].pc # "nobody"
    BY DEF IInv, TypeOK, Threads, Places, Writing, Reading
  <2> QED
    BY <1>2, <2>1 DEF Wakes, Alone, IInv, TypeOK
<1>3. TypeOK'
  BY <1>2, <1>8 DEF IInv, TypeOK, Alone, ReadKilled, pipeVars
<1>4. LockOK'
  BY <1>1, <1>2, <1>8, PipeAssumption
  DEF IInv, TypeOK, LockOK, Alone, ReadKilled, Locked
<1>5. Quiet
  BY <1>1, <1>2, <1>8
  DEF IInv, UsersOK, Alone, ReadKilled, pipeVars, Quiet, Writing, Reading
<1>6. CountOK'
  BY DEF IInv, CountOK, Used, ReadKilled, pipeVars
<1>7. SleepOK'
  BY <1>1, <1>2, <1>8
  DEF IInv, TypeOK, LockOK, Locked, SleepOK, Alone, ReadKilled, pipeVars, Full, Empty
<1> QED
  BY <1>3, <1>4, <1>5, <1>6, <1>7, QuietEnds DEF IInv

\* A reader finds the pipe empty.
LEMMA ActReadEmpty ==
  ASSUME IInv, NEW p \in Procs, ReadEmpty(p)
  PROVE  IInv'
<1>1. th[p].pc = "reading"
  BY DEF ReadEmpty, At
<1>2. Alone(p) /\ th'[p].pc = "read empty" /\ th'[p].i = th[p].i
  BY GotoMoves DEF ReadEmpty, IInv, Places, Writing, Reading
<1>3. TypeOK'
  BY <1>2 DEF IInv, TypeOK, Alone, ReadEmpty, pipeVars
<1>4. LockOK'
  BY <1>1, <1>2, PipeAssumption DEF IInv, TypeOK, LockOK, Alone, ReadEmpty, Locked
<1>5. Quiet
  BY <1>1, <1>2 DEF IInv, UsersOK, Alone, ReadEmpty, pipeVars, Quiet, Writing, Reading
<1>6. CountOK'
  BY DEF IInv, CountOK, Used, ReadEmpty, pipeVars
<1>7. SleepOK'
  BY <1>1, <1>2
  DEF IInv, TypeOK, LockOK, Locked, SleepOK, Alone, ReadEmpty, pipeVars, Full, Empty
<1> QED
  BY <1>3, <1>4, <1>5, <1>6, <1>7, QuietEnds DEF IInv

\* The reader sleeps on a pipe that is still empty.
LEMMA ActReadSleep ==
  ASSUME IInv, NEW p \in Procs, ReadSleep(p)
  PROVE  IInv'
<1>1. th[p].pc = "read empty"
  BY DEF ReadSleep, At
<1>2. Alone(p) /\ th'[p].pc = "on nread" /\ th'[p].i = th[p].i
  BY GotoMoves DEF ReadSleep, SleepOn, IInv, Places, Writing, Reading
<1>3. TypeOK'
  BY <1>2 DEF IInv, TypeOK, Alone, ReadSleep, SleepOn, pipeVars
<1>4. LockOK'
  BY <1>1, <1>2, PipeAssumption
  DEF IInv, TypeOK, LockOK, Alone, ReadSleep, SleepOn, Locked
<1>5. Quiet
  BY <1>1, <1>2 DEF IInv, UsersOK, Alone, ReadSleep, pipeVars, Quiet, Writing, Reading
<1>6. CountOK'
  BY DEF IInv, CountOK, Used, ReadSleep, pipeVars
<1>7. SleepOK'
  BY <1>1, <1>2
  DEF IInv, TypeOK, LockOK, Locked, SleepOK, Alone, ReadSleep, SleepOn, pipeVars,
      Full, Empty
<1> QED
  BY <1>3, <1>4, <1>5, <1>6, <1>7, QuietEnds DEF IInv

\* A reader goes on to the copy loop.
LEMMA ActReadStart ==
  ASSUME IInv, NEW p \in Procs, ReadStart(p)
  PROVE  IInv'
<1>1. th[p].pc = "reading"
  BY DEF ReadStart, At
<1>2. Alone(p) /\ th'[p].pc = "copying" /\ th'[p].i = th[p].i
  BY GotoMoves DEF ReadStart, IInv, Places, Writing, Reading
<1>3. TypeOK'
  BY <1>2 DEF IInv, TypeOK, Alone, ReadStart, pipeVars
<1>4. LockOK'
  BY <1>1, <1>2, PipeAssumption DEF IInv, TypeOK, LockOK, Alone, ReadStart, Locked
<1>5. Quiet
  BY <1>1, <1>2 DEF IInv, UsersOK, Alone, ReadStart, pipeVars, Quiet, Writing, Reading
<1>6. CountOK'
  BY DEF IInv, CountOK, Used, ReadStart, pipeVars
<1>7. SleepOK'
  BY <1>1, <1>2
  DEF IInv, TypeOK, LockOK, Locked, SleepOK, Alone, ReadStart, pipeVars, Full, Empty
<1> QED
  BY <1>3, <1>4, <1>5, <1>6, <1>7, QuietEnds DEF IInv

\* A byte is taken: writers that sleep will be woken by this reader.
LEMMA ActReadByte ==
  ASSUME IInv, NEW p \in Procs, ReadByte(p)
  PROVE  IInv'
<1>1. th[p].pc = "copying"
  BY DEF ReadByte, At
<1>2. Alone(p) /\ th'[p].pc = "copying" /\ th'[p].i = th[p].i + 1
  BY <1>1, CountsOne DEF ReadByte, IInv
<1>8. nread' \in 0 .. UINT - 1 /\ CountOK'
  BY CountDown DEF IInv, TypeOK, ReadByte
<1>9. NextByte \in Bytes
  BY PipeAssumption DEF IInv, TypeOK, NextByte
<1>3. TypeOK'
  BY <1>2, <1>8, <1>9 DEF IInv, TypeOK, Alone, ReadByte, pipeVars
<1>4. LockOK'
  BY <1>1, <1>2, PipeAssumption DEF IInv, TypeOK, LockOK, Alone, ReadByte, Locked
<1>5. Quiet
  BY <1>1, <1>2 DEF IInv, UsersOK, Alone, ReadByte, pipeVars, Quiet, Writing, Reading
<1>6. CountOK'
  BY <1>8
<1>7. SleepOK'
  BY <1>1, <1>2
  DEF IInv, TypeOK, LockOK, Locked, SleepOK, Alone, ReadByte, pipeVars, Full, Empty
<1> QED
  BY <1>3, <1>4, <1>5, <1>6, <1>7, QuietEnds DEF IInv

\* copyout() fails: the reader wakes the writers and returns.
LEMMA ActReadFault ==
  ASSUME IInv, NEW p \in Procs, ReadFault(p)
  PROVE  IInv'
<1>1. th[p].pc = "copying"
  BY DEF ReadFault, At
<1>2. Wakes(p, "on nwrite") /\ th'[p].pc = "user" /\ lock' = Nobody
  BY ReturnMoves DEF ReadFault, ReadWakes, IInv
<1>8. nread' \in 0 .. UINT - 1 /\ CountOK'
  BY CountDown DEF IInv, TypeOK, ReadFault
<1>3. TypeOK'
  BY <1>2, <1>8 DEF IInv, TypeOK, Wakes, ReadFault, pipeVars
<1>4. LockOK'
  BY <1>1, <1>2, PipeAssumption DEF IInv, TypeOK, LockOK, Wakes, ReadFault, Locked
<1>5. Quiet
  BY <1>1, <1>2 DEF IInv, UsersOK, Wakes, ReadFault, pipeVars, Quiet, Writing, Reading
<1>6. CountOK'
  BY <1>8
<1>7. SleepOK'
  BY <1>1, <1>2
  DEF IInv, TypeOK, LockOK, Locked, SleepOK, Wakes, ReadFault, pipeVars, Full, Empty
<1> QED
  BY <1>3, <1>4, <1>5, <1>6, <1>7, QuietEnds DEF IInv

\* piperead() returns and wakes the writers.
LEMMA ActReadDone ==
  ASSUME IInv, NEW p \in Procs, ReadDone(p)
  PROVE  IInv'
<1>1. th[p].pc = "copying"
  BY DEF ReadDone, At
<1>2. Wakes(p, "on nwrite") /\ th'[p].pc = "user" /\ lock' = Nobody
  BY ReturnMoves DEF ReadDone, ReadWakes, IInv
<1>3. TypeOK'
  BY <1>2 DEF IInv, TypeOK, Wakes, ReadDone, pipeVars
<1>4. LockOK'
  BY <1>1, <1>2, PipeAssumption DEF IInv, TypeOK, LockOK, Wakes, ReadDone, Locked
<1>5. Quiet
  BY <1>1, <1>2 DEF IInv, UsersOK, Wakes, ReadDone, pipeVars, Quiet, Writing, Reading
<1>6. CountOK'
  BY DEF IInv, CountOK, Used, ReadDone, pipeVars
<1>7. SleepOK'
  BY <1>1, <1>2
  DEF IInv, TypeOK, LockOK, Locked, SleepOK, Wakes, ReadDone, pipeVars, Full, Empty
<1> QED
  BY <1>3, <1>4, <1>5, <1>6, <1>7, QuietEnds DEF IInv

\* exit() starts to close the files.
LEMMA ActExit ==
  ASSUME IInv, NEW p \in Procs, Exit(p)
  PROVE  IInv'
<1>1. TRUE
  OBVIOUS
<1>2. Alone(p) /\ th' = th
  BY DEF Exit, Alone, IInv, TypeOK
<1>3. TypeOK'
  BY <1>2 DEF IInv, TypeOK, Alone, Exit, pipeVars
<1>4. LockOK'
  BY <1>1, <1>2, PipeAssumption DEF IInv, TypeOK, LockOK, Alone, Exit, Locked
<1>5. Quiet
  BY <1>1, <1>2 DEF IInv, UsersOK, Alone, Exit, pipeVars, Quiet, Writing, Reading
<1>6. CountOK'
  BY DEF IInv, CountOK, Used, Exit, pipeVars
<1>7. SleepOK'
  BY <1>1, <1>2
  DEF IInv, TypeOK, LockOK, Locked, SleepOK, Alone, Exit, pipeVars, Full, Empty
<1> QED
  BY <1>3, <1>4, <1>5, <1>6, <1>7, QuietEnds DEF IInv

\* sys_write() on the write end.
LEMMA ActWrite ==
  ASSUME IInv, NEW p \in Procs, Write(p)
  PROVE  IInv'
<1>1. th[p].pc = "user"
  BY DEF Write, Syscall, At
<1>2. Alone(p) /\ th'[p].pc = "write" /\ th'[p].i = 0
  BY PipeAssumption, ThreadStarts DEF Write, IInv, Places, Writing, Reading
<1>3. TypeOK'
  BY <1>2 DEF IInv, TypeOK, Alone, Write, pipeVars
<1>4. LockOK'
  BY <1>1, <1>2, PipeAssumption DEF IInv, TypeOK, LockOK, Alone, Write, Locked
<1>5. Quiet
  BY <1>1, <1>2 DEF IInv, UsersOK, Alone, Write, pipeVars, Quiet, Writing, Reading
<1>6. CountOK'
  BY DEF IInv, CountOK, Used, Write, pipeVars
<1>7. SleepOK'
  <2>1. (Full' <=> Full) /\ (Empty' <=> Empty) /\ UNCHANGED <<open, muted>>
    BY DEF Write, pipeVars, Full, Empty
  <2> QED
    BY <1>1, <1>2, <2>1 DEF IInv, SleepOK, Alone
<1> QED
  BY <1>3, <1>4, <1>5, <1>6, <1>7, QuietEnds DEF IInv

\* sys_read() on the read end.
LEMMA ActRead ==
  ASSUME IInv, NEW p \in Procs, Read(p)
  PROVE  IInv'
<1>1. th[p].pc = "user"
  BY DEF Read, Syscall, At
<1>2. Alone(p) /\ th'[p].pc = "read" /\ th'[p].i = 0
  BY PipeAssumption, ThreadStarts DEF Read, IInv, Places, Writing, Reading
<1>3. TypeOK'
  BY <1>2 DEF IInv, TypeOK, Alone, Read, pipeVars
<1>4. LockOK'
  BY <1>1, <1>2, PipeAssumption DEF IInv, TypeOK, LockOK, Alone, Read, Locked
<1>5. Quiet
  BY <1>1, <1>2 DEF IInv, UsersOK, Alone, Read, pipeVars, Quiet, Writing, Reading
<1>6. CountOK'
  BY DEF IInv, CountOK, Used, Read, pipeVars
<1>7. SleepOK'
  <2>1. (Full' <=> Full) /\ (Empty' <=> Empty) /\ UNCHANGED <<open, muted>>
    BY DEF Read, pipeVars, Full, Empty
  <2> QED
    BY <1>1, <1>2, <2>1 DEF IInv, SleepOK, Alone
<1> QED
  BY <1>3, <1>4, <1>5, <1>6, <1>7, QuietEnds DEF IInv

\* kill() moves a sleeper and nothing else.
LEMMA Actkill ==
  ASSUME IInv, NEW p \in Procs, kill(p)
  PROVE  IInv'
<1> DEFINE where == CASE th[p].pc = "on nread" -> "read"
                      [] th[p].pc = "on nwrite" -> "write"
                      [] OTHER -> th[p].pc
<1>1. where \in Places
  BY DEF IInv, TypeOK, Threads, Places, Reading, Writing
<1>2. /\ Alone(p) /\ th'[p].i = th[p].i
      /\ \/ th[p].pc = "on nread" /\ th'[p].pc = "read"
         \/ th[p].pc = "on nwrite" /\ th'[p].pc = "write"
         \/ th'[p].pc = th[p].pc
  BY <1>1, GotoMoves DEF IInv, kill, At
<1>3. TypeOK'
  BY <1>2 DEF IInv, TypeOK, Alone, kill, pipeVars
<1>4. LockOK'
  BY <1>2 DEF IInv, LockOK, Alone, kill, Locked
<1>5. Quiet
  <2>1. UNCHANGED <<open, freed, ref, ofile>>
    BY DEF kill, pipeVars
  <2>2. th[p].pc \in {"close", "free"} => th'[p] = th[p]
    BY DEF kill, Goto, At, IInv, TypeOK, Threads
  <2> QED
    BY <1>2, <2>1, <2>2 DEF IInv, UsersOK, Alone, Quiet, Writing, Reading
<1>6. CountOK'
  BY DEF IInv, CountOK, Used, kill, pipeVars
<1>7. SleepOK'
  <2>1. (Full' <=> Full) /\ (Empty' <=> Empty) /\ UNCHANGED <<open, muted>>
    BY DEF kill, pipeVars, Full, Empty
  <2> QED
    BY <1>2, <2>1 DEF IInv, SleepOK, Alone
<1> QED
  BY <1>3, <1>4, <1>5, <1>6, <1>7, QuietEnds DEF IInv

\* fork(): the child is one more process that has the ends of its parent.
LEMMA ActFork ==
  ASSUME IInv, NEW p \in Procs, NEW q \in Procs, Fork(p, q)
  PROVE  IInv'
<1>1. th[p].pc = "user" /\ th[q].pc = "unused" /\ p # q /\ ofile[q] = {}
  BY DEF Fork, At, IInv, UsersOK
<1>2. Alone(q) /\ th'[q].pc = "user" /\ th'[q].i = th[q].i
  BY GotoMoves DEF Fork, IInv, Places
<1>3. /\ ofile' \in [Procs -> SUBSET Ends]
      /\ ofile'[q] = ofile[p]
      /\ \A r \in Procs \ {q} : ofile'[r] = ofile[r]
      /\ \A e \in Ends : ref'[e] = IF e \in ofile[p] THEN ref[e] + 1 ELSE ref[e]
      /\ ref' \in [Ends -> Nat]
      /\ UNCHANGED <<data, nread, nwrite, open, freed, lock, muted, last>>
  BY DEF Fork, pipeVars, IInv, TypeOK
<1>4. \A e \in Ends : Having(e)' = IF e \in ofile[p] THEN Having(e) \cup {q} ELSE Having(e)
  BY <1>1, <1>3 DEF Having
<1>5. \A r \in Procs, e \in Ends : Closing(r, e)' <=> Closing(r, e)
  BY <1>1, <1>2 DEF Closing, Alone
<1>6. TypeOK'
  BY <1>2, <1>3 DEF IInv, TypeOK, Alone, Fork
<1>7. LockOK'
  BY <1>1, <1>2, <1>3 DEF IInv, LockOK, Alone, Locked
<1>8. RefOK'
  <2> SUFFICES ASSUME NEW e \in Ends
               PROVE  IsFiniteSet(Having(e)') /\ ref'[e] = Cardinality(Having(e)')
    BY DEF RefOK
  <2>1. IsFiniteSet(Having(e)) /\ ref[e] = Cardinality(Having(e)) /\ q \notin Having(e)
    BY <1>1 DEF IInv, RefOK, Having
  <2>2. /\ IsFiniteSet(Having(e) \cup {q})
        /\ Cardinality(Having(e) \cup {q}) = Cardinality(Having(e)) + 1
    BY <2>1, FS_AddElement
  <2> QED
    BY <1>3, <1>4, <2>1, <2>2
<1>9. UsersOK'
  BY <1>1, <1>2, <1>3 DEF IInv, UsersOK, Alone, Writing, Reading
<1>10. EndsOK'
  <2>1. \A r \in Procs, e \in Ends : Closing(r, e) => e \notin ofile[p]
    BY DEF IInv, EndsOK, Having
  <2>2. \A e \in Ends : (\E r \in Procs : e \in ofile'[r]) <=> \E r \in Procs : e \in ofile[r]
    BY <1>1, <1>3
  <2> QED
    BY <1>3, <1>4, <1>5, <2>1, <2>2 DEF IInv, EndsOK
<1>11. FreeOK'
  BY <1>1, <1>2, <1>3 DEF IInv, FreeOK, Alone
<1>12. CountOK'
  BY <1>3 DEF IInv, CountOK, Used
<1>13. SleepOK'
  <2>1. (Full' <=> Full) /\ (Empty' <=> Empty) /\ UNCHANGED <<open, muted>>
    BY <1>3 DEF Full, Empty
  <2> QED
    BY <1>1, <1>2, <2>1 DEF IInv, SleepOK, Alone
<1> QED
  BY <1>6, <1>7, <1>8, <1>9, <1>10, <1>11, <1>12, <1>13 DEF IInv

\* fileclose(): the last process that has the end is the one that closes it.
LEMMA ActClose ==
  ASSUME IInv, NEW p \in Procs, Close(p)
  PROVE  IInv'
<1>1. PICK e \in ofile[p] : fileclose(p, e)
  BY DEF Close
<1>2. e \in Ends /\ th[p].pc = "user" /\ p \in Having(e)
  BY DEF Close, At, IInv, TypeOK, Having
<1>3. /\ ofile' \in [Procs -> SUBSET Ends]
      /\ ofile'[p] = ofile[p] \ {e}
      /\ \A r \in Procs \ {p} : ofile'[r] = ofile[r]
      /\ ref'[e] = ref[e] - 1 /\ \A d \in Ends \ {e} : ref'[d] = ref[d]
      /\ ref' \in [Ends -> Int]
      /\ UNCHANGED <<data, nread, nwrite, open, freed, lock, killed, exiting, muted, last>>
  BY <1>1, <1>2 DEF fileclose, pipeVars, IInv, TypeOK
<1>4. /\ Having(e)' = Having(e) \ {p}
      /\ \A d \in Ends \ {e} : Having(d)' = Having(d)
  BY <1>3 DEF Having
<1>5. /\ IsFiniteSet(Having(e)) /\ ref[e] = Cardinality(Having(e))
      /\ IsFiniteSet(Having(e) \ {p})
      /\ Cardinality(Having(e) \ {p}) = ref[e] - 1
      /\ ref[e] - 1 \in Nat
      /\ LastRef(e) <=> Having(e) \ {p} = {}
  <2>1. IsFiniteSet(Having(e)) /\ ref[e] = Cardinality(Having(e))
    BY <1>2 DEF IInv, RefOK
  <2>2. /\ IsFiniteSet(Having(e) \ {p})
        /\ Cardinality(Having(e) \ {p}) = ref[e] - 1
    BY <1>2, <2>1, FS_RemoveElement
  <2>3. Cardinality(Having(e) \ {p}) = 0 <=> Having(e) \ {p} = {}
    BY <2>2, FS_EmptySet
  <2>4. ref[e] - 1 \in Nat /\ ref[e] \in Nat
    BY <2>1, <2>2, FS_CardinalityType
  <2> QED
    BY <2>1, <2>2, <2>3, <2>4 DEF LastRef
<1>6. /\ Alone(p) /\ th'[p].i = th[p].i
      /\ IF LastRef(e) THEN th'[p].pc = "close" /\ th'[p].end = e
                       ELSE th'[p] = th[p]
  <2>0. th \in [Procs -> Threads] /\ th[p] \in Threads
    BY DEF IInv, TypeOK
  <2>1. CASE LastRef(e)
    <3>1. th'[p] = [[th[p] EXCEPT !.pc = "close"] EXCEPT !.end = e]
      BY <1>1, <2>0, <2>1 DEF fileclose
    <3>2. [[th[p] EXCEPT !.pc = "close"] EXCEPT !.end = e] \in Threads
      BY <1>2, <2>0 DEF Threads, Places
    <3>3. th'[p].pc = "close" /\ th'[p].end = e /\ th'[p].i = th[p].i
      BY <3>1, <2>0 DEF Threads
    <3>4. th' \in [Procs -> Threads] /\ \A q \in Procs \ {p} : th'[q] = th[q]
      BY <1>1, <2>0, <2>1, <3>2 DEF fileclose
    <3> QED
      BY <2>1, <3>3, <3>4 DEF Alone
  <2>2. CASE ~LastRef(e)
    BY <1>1, <2>0, <2>2 DEF fileclose, Alone
  <2> QED
    BY <2>1, <2>2
<1>7. TypeOK'
  <2>1. ref' \in [Ends -> Nat]
    BY <1>2, <1>3, <1>5 DEF IInv, TypeOK
  <2> QED
    BY <1>3, <1>6, <2>1 DEF IInv, TypeOK, Alone
<1>8. LockOK'
  BY <1>2, <1>3, <1>6 DEF IInv, LockOK, Alone, Locked
<1>9. RefOK'
  BY <1>2, <1>3, <1>4, <1>5 DEF IInv, RefOK
<1>10. UsersOK'
  BY <1>2, <1>3, <1>6 DEF IInv, UsersOK, Alone, Writing, Reading
<1>11. EndsOK'
  <2>1. \A d \in Ends : ~Closing(p, d) /\ \A q \in Procs \ {p} : Closing(q, d)' <=> Closing(q, d)
    BY <1>2, <1>6 DEF Closing, Alone
  <2>2. open[e] /\ \A q \in Procs : ~Closing(q, e)
    BY <1>2 DEF IInv, EndsOK, Having
  <2>3. CASE LastRef(e)
    <3>1. \A d \in Ends : Closing(p, d)' <=> d = e
      BY <1>6, <2>3 DEF Closing
    <3>2. Having(e)' = {} /\ \A q \in Procs : e \notin ofile'[q]
      BY <1>4, <1>5, <2>3 DEF Having
    <3> QED
      BY <1>2, <1>3, <1>4, <2>1, <2>2, <3>1, <3>2 DEF IInv, EndsOK
  <2>4. CASE ~LastRef(e)
    <3>1. \A q \in Procs, d \in Ends : Closing(q, d)' <=> Closing(q, d)
      BY <1>6, <2>1, <2>4 DEF Closing
    <3>2. \E q \in Procs : e \in ofile'[q]
      BY <1>3, <1>5, <2>4 DEF Having
    <3> QED
      BY <1>2, <1>3, <1>4, <2>1, <2>2, <3>1, <3>2 DEF IInv, EndsOK
  <2> QED
    BY <2>3, <2>4
<1>12. FreeOK'
  BY <1>2, <1>3, <1>6 DEF IInv, FreeOK, Alone
<1>13. CountOK'
  BY <1>3 DEF IInv, CountOK, Used
<1>14. SleepOK'
  <2>1. (Full' <=> Full) /\ (Empty' <=> Empty) /\ UNCHANGED <<open, muted>>
    BY <1>3 DEF Full, Empty
  <2> QED
    BY <1>2, <1>6, <2>1 DEF IInv, SleepOK, Alone
<1> QED
  BY <1>7, <1>8, <1>9, <1>10, <1>11, <1>12, <1>13, <1>14 DEF IInv

\* pipeclose(): of two processes that close the two ends, the second one finds
\* both closed.
LEMMA Actpipeclose ==
  ASSUME IInv, NEW p \in Procs, pipeclose(p)
  PROVE  IInv'
<1> DEFINE e == th[p].end
           now == [open EXCEPT ![e] = FALSE]
           to == IF BothClosed(now) THEN "free" ELSE "user"
<1>1. e \in Ends /\ th[p].pc = "close" /\ Closing(p, e) /\ lock = Nobody
  BY DEF pipeclose, At, IInv, TypeOK, Threads, Closing
<1>2. Wakes(p, CloseWakes(e)) /\ th'[p].pc = to
  <2>1. Thread(to, 0) \in Threads /\ Thread(to, 0).pc = to
    BY DEF Thread, Threads, Places, Ends
  <2>2. Wakes(p, CloseWakes(e)) /\ th'[p] = Thread(to, 0)
    BY <2>1, WakeupWakes DEF pipeclose, IInv
  <2> QED
    BY <2>1, <2>2
<1>3. /\ open' = now
      /\ UNCHANGED <<data, nread, nwrite, freed, lock, ref, ofile, killed, exiting, last>>
  BY DEF pipeclose
<1>4. /\ open' \in [Ends -> BOOLEAN]
      /\ ~open'[e] /\ \A d \in Ends \ {e} : open'[d] = open[d]
      /\ BothClosed(now) <=> ~open'["r"] /\ ~open'["w"]
  BY <1>1, <1>3 DEF IInv, TypeOK, BothClosed
<1>5. open[e] /\ Having(e) = {} /\ \A q \in Procs \ {p} : ~Closing(q, e)
  BY <1>1 DEF IInv, EndsOK
<1>6. /\ \A q \in Procs : th[q].pc \notin Locked /\ th[q].pc # "free"
      /\ ~freed
  BY <1>1, <1>5, PipeAssumption DEF IInv, LockOK, FreeOK, Ends
<1>7. TypeOK'
  BY <1>2, <1>3, <1>4 DEF IInv, TypeOK, Wakes
<1>8. LockOK'
  BY <1>1, <1>2, <1>3, <1>6, PipeAssumption DEF LockOK, Wakes, Locked
<1>9. RefOK'
  BY <1>3 DEF IInv, RefOK, Having
<1>10. UsersOK'
  BY <1>1, <1>2, <1>3 DEF IInv, UsersOK, Wakes, CloseWakes, Writing, Reading
<1>11. EndsOK'
  <2>1. \A d : Having(d)' = Having(d)
    BY <1>3 DEF Having
  <2>2. \A q \in Procs \ {p} : \A d \in Ends : Closing(q, d)' <=> Closing(q, d)
    BY <1>2 DEF Closing, Wakes, CloseWakes
  <2>3. \A d \in Ends : ~Closing(p, d)' /\ (d # e => ~Closing(p, d))
    BY <1>2 DEF Closing
  <2>4. \A q \in Procs : e \notin ofile[q]
    BY <1>5 DEF Having
  <2> QED
    BY <1>1, <1>3, <1>4, <1>5, <2>1, <2>2, <2>3, <2>4 DEF IInv, EndsOK
<1>12. FreeOK'
  BY <1>2, <1>3, <1>4, <1>6 DEF FreeOK, Wakes, CloseWakes
<1>13. CountOK'
  BY <1>3 DEF IInv, CountOK, Used
<1>14. SleepOK'
  <2>1. (Full' <=> Full) /\ (Empty' <=> Empty) /\ muted' = (muted /\ CloseWakes(e) # "on nread")
    BY <1>2, <1>3 DEF Full, Empty, Wakes
  <2>2. \A q \in Procs : th'[q].pc \notin Locked
    BY <1>2, <1>6 DEF Wakes, Locked
  <2>3. \A q \in Procs \ {p} : th'[q].pc \in {"on nread", "on nwrite"} =>
          th'[q].pc = th[q].pc /\ th[q].pc # CloseWakes(e)
    BY <1>2 DEF Wakes, CloseWakes
  <2>4. th'[p].pc \in {"free", "user"}
    BY <1>2
  <2>5. (\E q \in Procs : th'[q].pc = "on nread") => muted' = muted /\ open'["w"] = open["w"]
    BY <1>1, <1>4, <2>1, <2>3, <2>4 DEF CloseWakes, IInv, TypeOK, Ends
  <2>6. (\E q \in Procs : th'[q].pc = "on nwrite") => open'["r"] = open["r"]
    BY <1>1, <1>4, <2>3, <2>4 DEF CloseWakes, Ends
  <2> QED
    BY <1>6, <2>1, <2>2, <2>3, <2>4, <2>5, <2>6 DEF IInv, SleepOK, Locked
<1> QED
  BY <1>7, <1>8, <1>9, <1>10, <1>11, <1>12, <1>13, <1>14 DEF IInv

\* kfree() of the pipe: it was the one process that could.
LEMMA ActPipeFree ==
  ASSUME IInv, NEW p \in Procs, PipeFree(p)
  PROVE  IInv'
<1>1. th[p].pc = "free"
  BY DEF PipeFree, At
<1>2. Alone(p) /\ th'[p].pc = "user" /\ th'[p].i = th[p].i
  BY GotoMoves DEF PipeFree, IInv, Places
<1>3. /\ freed' = TRUE
      /\ UNCHANGED <<data, nread, nwrite, open, lock, ref, ofile, killed, exiting, muted, last>>
  BY DEF PipeFree
<1>4. TypeOK'
  BY <1>2, <1>3 DEF IInv, TypeOK, Alone
<1>5. LockOK'
  BY <1>1, <1>2, <1>3 DEF IInv, LockOK, Alone, Locked
<1>6. RefOK'
  BY <1>3 DEF IInv, RefOK, Having
<1>7. UsersOK'
  BY <1>1, <1>2, <1>3 DEF IInv, UsersOK, Alone, Writing, Reading
<1>8. EndsOK'
  <2>1. \A q \in Procs, d \in Ends : Closing(q, d)' <=> Closing(q, d)
    BY <1>1, <1>2 DEF Closing, Alone
  <2> QED
    BY <1>3, <2>1 DEF IInv, EndsOK, Having
<1>9. FreeOK'
  BY <1>1, <1>2, <1>3 DEF IInv, FreeOK, Alone
<1>10. CountOK'
  BY <1>3 DEF IInv, CountOK, Used
<1>11. SleepOK'
  <2>1. (Full' <=> Full) /\ (Empty' <=> Empty) /\ UNCHANGED <<open, muted>>
    BY <1>3 DEF Full, Empty
  <2> QED
    BY <1>1, <1>2, <2>1 DEF IInv, SleepOK, Alone
<1> QED
  BY <1>4, <1>5, <1>6, <1>7, <1>8, <1>9, <1>10, <1>11 DEF IInv

-----------------------------------------------------------------------------
\* The invariant holds after sys_pipe().
LEMMA InitInvariant ==
  ASSUME Init
  PROVE  IInv
<1>1. (CHOOSE b \in Bytes : TRUE) \in Bytes
  BY PipeAssumption
<1>2. \A p \in Procs : /\ th[p] \in Threads
                       /\ th[p].pc = IF p = First THEN "user" ELSE "unused"
  BY DEF Init, Thread, Threads, Places, Ends
<1>3. TypeOK
  <2>1. data \in [0 .. PIPESIZE - 1 -> Bytes] /\ last \in Bytes
    BY <1>1 DEF Init
  <2>2. th \in [Procs -> Threads]
    BY <1>2 DEF Init
  <2>3. ofile \in [Procs -> SUBSET Ends] /\ ref \in [Ends -> Nat]
    BY DEF Init
  <2>4. /\ open \in [Ends -> BOOLEAN] /\ killed \in [Procs -> BOOLEAN]
        /\ exiting \in [Procs -> BOOLEAN] /\ freed \in BOOLEAN /\ muted \in BOOLEAN
    BY DEF Init
  <2>5. nread \in 0 .. UINT - 1 /\ nwrite \in 0 .. UINT - 1
    BY Sizes DEF Init
  <2> QED
    BY <2>1, <2>2, <2>3, <2>4, <2>5 DEF Init, TypeOK
<1>4. LockOK
  BY <1>2, PipeAssumption DEF Init, LockOK, Locked
<1>5. \A e \in Ends : Having(e) = {First}
  BY PipeAssumption DEF Init, Having
<1>6. RefOK
  BY <1>5, FS_Singleton DEF Init, RefOK
<1>7. UsersOK
  BY <1>2 DEF Init, UsersOK, Writing, Reading
<1>8. EndsOK
  BY <1>2, <1>5, PipeAssumption DEF Init, EndsOK, Closing, Having
<1>9. FreeOK
  BY <1>2 DEF Init, FreeOK, Ends
<1>10. CountOK
  <2>1. 0 \in 0 .. UINT - 1 /\ 0 \in 0 .. PIPESIZE
    BY Sizes
  <2>2. Used = Minus(0, 0)
    BY <2>1, CounterOps DEF Init, Used
  <2> QED
    BY <2>2, Sizes DEF CountOK, Minus
<1>11. SleepOK
  BY <1>2 DEF SleepOK
<1> QED
  BY <1>3, <1>4, <1>6, <1>7, <1>8, <1>9, <1>10, <1>11 DEF IInv

\* The invariant holds in every reachable state.
THEOREM Invariance == Spec => []IInv
<1>1. Init => IInv
  BY InitInvariant
<1>2. IInv /\ [Next]_vars => IInv'
  <2> SUFFICES ASSUME IInv, [Next]_vars PROVE IInv'
    OBVIOUS
  <2>1. ASSUME NEW p \in Procs, Proceed(p) PROVE IInv'
    BY <2>1, ActAcquire, ActWriteFails, ActWriteFull, ActWriteSleep, ActWriteByte,
       ActWriteDone, ActReadKilled, ActReadEmpty, ActReadSleep, ActReadStart,
       ActReadByte, ActReadFault, ActReadDone, Actpipeclose, ActPipeFree
    DEF Proceed
  <2>2. ASSUME NEW p \in Procs, Choose(p) PROVE IInv'
    BY <2>2, ActFork, ActClose, ActExit, ActWrite, ActRead, Actkill DEF Choose
  <2>3. CASE UNCHANGED vars
    <3>1. TypeOK' /\ LockOK' /\ UsersOK' /\ FreeOK' /\ CountOK'
      BY <2>3 DEF vars, IInv, TypeOK, LockOK, UsersOK, FreeOK, CountOK, Used
    <3>2. RefOK' /\ EndsOK'
      BY <2>3 DEF vars, IInv, RefOK, Having, EndsOK, Closing
    <3>3. SleepOK'
      BY <2>3 DEF vars, IInv, SleepOK, Full, Empty
    <3> QED
      BY <3>1, <3>2, <3>3 DEF IInv
  <2> QED
    BY <2>1, <2>2, <2>3 DEF Next
<1> QED
  BY <1>1, <1>2, PTL DEF Spec

\* pipeclose() frees the page once and last, whatever the order of the closes.
THEOREM PipeFreedLast == Spec => []FreedLast
<1>1. IInv => FreedLast
  <2> SUFFICES ASSUME IInv PROVE FreedLast
    OBVIOUS
  <2>1. ASSUME freed, NEW p \in Procs
        PROVE  ofile[p] = {} /\ th[p].pc \in {"unused", "user"}
    <3>1. ~open["r"] /\ ~open["w"] /\ th[p].pc # "free"
      BY <2>1 DEF IInv, FreeOK
    <3>2. \A e \in Ends : e \notin ofile[p] /\ ~Closing(p, e)
      BY <3>1 DEF IInv, EndsOK, Ends
    <3>3. ofile[p] = {} /\ th[p].pc # "close"
      BY <3>2 DEF IInv, TypeOK, Closing, Threads
    <3>4. th[p].pc \in Places
      BY DEF IInv, TypeOK, Threads
    <3> QED
      BY <3>1, <3>3, <3>4 DEF IInv, UsersOK, Places
  <2>2. ASSUME \A p \in Procs : ofile[p] = {} /\ th[p].pc \in {"unused", "user"}
        PROVE  freed
    <3>1. ~open["r"] /\ ~open["w"]
      BY <2>2 DEF IInv, EndsOK, Closing, Ends
    <3> QED
      BY <2>2, <3>1 DEF IInv, FreeOK
  <2> QED
    BY <2>1, <2>2 DEF FreedLast, IInv, TypeOK
<1> QED
  BY <1>1, Invariance, PTL

\* A process that sleeps on a pipe whose lock is free has a reason to.
THEOREM PipeSleeps == Spec => []SleepsWithReason
<1>1. IInv => SleepsWithReason
  BY PipeAssumption DEF IInv, LockOK, Locked, SleepOK, SleepsWithReason, At
<1> QED
  BY <1>1, Invariance, PTL

-----------------------------------------------------------------------------
(* The pipe implements ByteStream.                                         *)

\* A multiple of m other than 0 is at least m away from 0.
LEMMA MulGe ==
  ASSUME NEW m \in Nat, m > 0, NEW q \in Int
  PROVE  (q >= 1 => m * q >= m) /\ (q <= -1 => m * q <= -m)
OBVIOUS

\* Two numbers less than m apart have different remainders.
LEMMA ModDistinct ==
  ASSUME NEW m \in Nat, m > 0, NEW a \in Nat, NEW b \in Nat, a < b, b - a < m
  PROVE  a % m # b % m
<1>1. /\ a % m \in 0 .. m - 1 /\ a \div m \in Int /\ a = m * (a \div m) + (a % m)
      /\ b % m \in 0 .. m - 1 /\ b \div m \in Int /\ b = m * (b \div m) + (b % m)
  OBVIOUS
<1> DEFINE x == a \div m
           y == b \div m
           r == a % m
           s == b % m
<1>2. x \in Int /\ y \in Int /\ r \in 0 .. m - 1 /\ s \in 0 .. m - 1
  BY <1>1
<1>3. a = m * x + r /\ b = m * y + s
  BY <1>1
<1> HIDE DEF x, y, r, s
<1>4. ASSUME r = s PROVE FALSE
  <2>1. m * (y - x) = m * y - m * x
    BY <1>2
  <2>2. m * (y - x) = b - a
    BY <1>2, <1>3, <1>4, <2>1
  <2>3. y - x >= 1 \/ y - x <= -1 \/ y - x = 0
    BY <1>2
  <2>4. CASE y - x >= 1
    BY <1>2, <2>2, <2>4, MulGe
  <2>5. CASE y - x <= -1
    BY <1>2, <2>2, <2>5, MulGe
  <2>6. CASE y - x = 0
    BY <1>2, <2>2, <2>6
  <2> QED
    BY <2>3, <2>4, <2>5, <2>6
<1> QED
  BY <1>4 DEF r, s

\* Adding UINT, a multiple of PIPESIZE, does not change the place in the ring.
LEMMA ModRing ==
  ASSUME NEW a \in Nat
  PROVE  (a + UINT) % PIPESIZE = a % PIPESIZE
<1> DEFINE m == PIPESIZE
           b == a + UINT
<1>1. m \in Nat /\ m > 0 /\ b \in Nat /\ b = a + UINT /\ UINT \in Nat /\ UINT % m = 0
  BY Sizes, PipeAssumption
<1> HIDE DEF m, b
<1>2. /\ a % m \in 0 .. m - 1 /\ a \div m \in Int /\ a = m * (a \div m) + (a % m)
      /\ b % m \in 0 .. m - 1 /\ b \div m \in Int /\ b = m * (b \div m) + (b % m)
      /\ UINT \div m \in Int /\ UINT = m * (UINT \div m)
  BY <1>1
<1> DEFINE r == a % m
           s == b % m
           x == a \div m
           y == b \div m
           u == UINT \div m
           k == y - (x + u)
<1>3. /\ r \in 0 .. m - 1 /\ x \in Int /\ a = m * x + r
      /\ s \in 0 .. m - 1 /\ y \in Int /\ b = m * y + s
      /\ u \in Int /\ UINT = m * u /\ k \in Int /\ k = y - (x + u)
  BY <1>2
<1> HIDE DEF r, s, x, y, u, k
<1>4. m * (y - (x + u)) = m * y - m * x - m * u
  BY <1>1, <1>3
<1>5. m * k = r - s
  BY <1>1, <1>3, <1>4
<1>6. ~(k >= 1)
  BY <1>1, <1>3, <1>5, MulGe
<1>7. ~(k <= -1)
  BY <1>1, <1>3, <1>5, MulGe
<1>8. k = 0
  BY <1>3, <1>6, <1>7
<1>9. r = s
  BY <1>1, <1>3, <1>5, <1>8
<1> QED
  BY <1>9 DEF r, s, b, m

QueueFacts ==
  /\ Used \in 0 .. PIPESIZE
  /\ Queue \in Seq(Bytes) /\ Len(Queue) = Used
  /\ \A k \in 1 .. Used : Queue[k] = data[(nread + k - 1) % PIPESIZE]

\* The bytes in the ring, as a sequence.
LEMMA RingIsSeq == IInv => QueueFacts
<1> SUFFICES ASSUME IInv PROVE QueueFacts
  OBVIOUS
<1>1. Used \in 0 .. PIPESIZE
  BY CounterFacts DEF IInv, TypeOK
<1>2. \A k \in 1 .. Used : (nread + k - 1) % PIPESIZE \in 0 .. PIPESIZE - 1
  <2> SUFFICES ASSUME NEW k \in 1 .. Used
               PROVE  (nread + k - 1) % PIPESIZE \in 0 .. PIPESIZE - 1
    OBVIOUS
  <2> DEFINE a == nread + k - 1
  <2>1. a \in Nat
    BY <1>1 DEF IInv, TypeOK
  <2> HIDE DEF a
  <2>2. a % PIPESIZE \in 0 .. PIPESIZE - 1
    BY <2>1, Sizes
  <2> QED
    BY <2>2 DEF a
<1>3. Queue = [k \in 1 .. Used |-> data[(nread + k - 1) % PIPESIZE]]
  BY DEF Queue, Used
<1>4. \A k \in 1 .. Used : data[(nread + k - 1) % PIPESIZE] \in Bytes
  BY <1>2 DEF IInv, TypeOK
<1> QED
  BY <1>1, <1>3, <1>4 DEF QueueFacts

\* A counter and the same counter one further, as places in the ring.
LEMMA RingPlus ==
  ASSUME NEW x \in 0 .. UINT - 1, NEW k \in Nat
  PROVE  (Plus(x, 1) + k) % PIPESIZE = (x + k + 1) % PIPESIZE
<1>1. CASE x + 1 < UINT
  <2>1. Plus(x, 1) + k = x + k + 1
    BY <1>1, Sizes DEF Plus
  <2> QED
    BY <2>1
<1>2. CASE ~(x + 1 < UINT)
  <2>1. Plus(x, 1) + k = k /\ x + k + 1 = k + UINT
    BY <1>2, Sizes DEF Plus
  <2> QED
    BY <2>1, ModRing
<1> QED
  BY <1>1, <1>2

\* nwrite is Used places after nread.
LEMMA RingEnd ==
  ASSUME IInv
  PROVE  nwrite % PIPESIZE = (nread + Used) % PIPESIZE
<1>1. Used = Minus(nwrite, nread) /\ nread \in 0 .. UINT - 1 /\ nwrite \in 0 .. UINT - 1
  BY CounterFacts DEF IInv, TypeOK
<1>2. nread + Used = nwrite \/ nread + Used = nwrite + UINT
  BY <1>1, Sizes DEF Minus
<1> QED
  BY <1>1, <1>2, ModRing

\* pipewrite() stores a byte at the end of the queue.
LEMMA PutStep ==
  ASSUME IInv, NEW p \in Procs, WriteByte(p)
  PROVE  \E b \in Bytes : BS!Put(b)
<1>1. PICK ch \in Bytes : data' = [data EXCEPT ![nwrite % PIPESIZE] = ch]
  BY DEF WriteByte
<1>2. /\ ~Full /\ nwrite' = (nwrite + 1) % UINT
      /\ UNCHANGED <<nread, open, last>> /\ th[p].pc = "writing"
  BY DEF WriteByte, At
<1>3. open["r"] /\ open["w"]
  BY <1>2 DEF IInv, UsersOK, EndsOK, Writing, Ends, WriteByte
<1>4. Used \in 0 .. PIPESIZE - 1 /\ Used' = Used + 1
  BY <1>2, CountUp, CounterFacts, Sizes DEF IInv, TypeOK
<1>5. IInv'
  BY ActWriteByte
<1> DEFINE at(k) == (nread + k - 1) % PIPESIZE
<1>6. nwrite % PIPESIZE = at(Used + 1)
  BY <1>4, RingEnd DEF IInv, TypeOK
<1>7. ASSUME NEW k \in 1 .. Used PROVE at(k) # at(Used + 1)
  <2> DEFINE a == nread + k - 1
             b == nread + (Used + 1) - 1
  <2>1. a \in Nat /\ b \in Nat /\ a < b /\ b - a < PIPESIZE
    BY <1>4, <1>7, Sizes DEF IInv, TypeOK
  <2> HIDE DEF a, b
  <2>2. a % PIPESIZE # b % PIPESIZE
    BY <2>1, Sizes, ModDistinct
  <2> QED
    BY <2>2 DEF a, b
<1>8. nwrite % PIPESIZE \in 0 .. PIPESIZE - 1
  BY Sizes DEF IInv, TypeOK
<1>9. data'[at(Used + 1)] = ch /\ \A k \in 1 .. Used : data'[at(k)] = data[at(k)]
  <2>2. data \in [0 .. PIPESIZE - 1 -> Bytes]
    BY DEF IInv, TypeOK
  <2>3. \A k \in 1 .. Used : at(k) \in 0 .. PIPESIZE - 1
    <3> SUFFICES ASSUME NEW k \in 1 .. Used PROVE at(k) \in 0 .. PIPESIZE - 1
      OBVIOUS
    <3> DEFINE a == nread + k - 1
    <3>1. a \in Nat
      BY <1>4 DEF IInv, TypeOK
    <3> HIDE DEF a
    <3>2. a % PIPESIZE \in 0 .. PIPESIZE - 1
      BY <3>1, Sizes
    <3> QED
      BY <3>2 DEF a
  <2> HIDE DEF at
  <2> QED
    BY <1>1, <1>6, <1>7, <1>8, <2>2, <2>3
<1> HIDE DEF at
<1>10. Queue \in Seq(Bytes) /\ Len(Queue) = Used /\ \A k \in 1 .. Used : Queue[k] = data[at(k)]
  BY RingIsSeq DEF QueueFacts, at
<1>11. /\ Queue' \in Seq(Bytes) /\ Len(Queue') = Used + 1
       /\ \A k \in 1 .. Used + 1 : Queue'[k] = data'[at(k)]
  <2>1. QueueFacts'
    BY <1>5, RingIsSeq, PTL
  <2> QED
    BY <1>2, <1>4, <2>1 DEF QueueFacts, at
<1>12. Queue' = Append(Queue, ch)
  BY <1>4, <1>9, <1>10, <1>11
<1>13. BS!Put(ch)
  <2>1. Len(Queue) < PIPESIZE
    BY <1>4, <1>10, Sizes
  <2>2. UNCHANGED <<last, open["r"], open["w"]>>
    BY <1>2
  <2> QED
    BY <1>3, <1>12, <2>1, <2>2 DEF BS!Put
<1> QED
  BY <1>13

\* piperead() takes a byte from the front of the queue.
LEMMA GetStep ==
  ASSUME IInv, IInv', ~Empty, open["r"],
         nread' = (nread + 1) % UINT, UNCHANGED <<data, nwrite, open>>,
         last' = NextByte \/ last' = last
  PROVE  BS!Get
<1>1. /\ Used' = Used - 1 /\ Used \in 1 .. PIPESIZE
      /\ nread' = Plus(nread, 1) /\ nread \in 0 .. UINT - 1
  BY CountDown, CounterFacts, Sizes DEF IInv, TypeOK
<1>2. QueueFacts /\ QueueFacts'
  BY RingIsSeq, PTL
<1>3. Queue # <<>> /\ Queue[1] = NextByte
  BY <1>1, <1>2 DEF QueueFacts, NextByte
<1>4. ASSUME NEW k \in 1 .. Used - 1
      PROVE  Queue'[k] = Queue[k + 1]
  <2>1. (Plus(nread, 1) + (k - 1)) % PIPESIZE = (nread + (k - 1) + 1) % PIPESIZE
    BY <1>1, <1>4, RingPlus
  <2>2. Plus(nread, 1) + (k - 1) = nread' + k - 1 /\ nread + (k - 1) + 1 = nread + (k + 1) - 1
    BY <1>1, <1>4, Sizes DEF Plus
  <2>3. Queue'[k] = data[(nread' + k - 1) % PIPESIZE]
    BY <1>1, <1>2, <1>4 DEF QueueFacts
  <2>4. k + 1 \in 1 .. Used
    BY <1>1, <1>4
  <2>5. Queue[k + 1] = data[(nread + (k + 1) - 1) % PIPESIZE]
    BY <1>2, <2>4 DEF QueueFacts
  <2> QED
    BY <2>1, <2>2, <2>3, <2>5
<1>5. Queue' = Tail(Queue)
  <2>1. /\ Queue \in Seq(Bytes) /\ Queue' \in Seq(Bytes)
        /\ Len(Queue) = Used /\ Len(Queue') = Used - 1
    BY <1>1, <1>2 DEF QueueFacts
  <2>2. /\ Tail(Queue) \in Seq(Bytes) /\ Len(Tail(Queue)) = Used - 1
        /\ \A k \in 1 .. Used - 1 : Tail(Queue)[k] = Queue[k + 1]
    BY <1>1, <1>3, <2>1
  <2> QED
    BY <1>4, <2>1, <2>2
<1>6. Head(Queue) = NextByte
  BY <1>2, <1>3 DEF QueueFacts
<1>7. open["r"]' = open["r"] /\ open["w"]' = open["w"]
  OBVIOUS
<1> QED
  BY <1>3, <1>5, <1>6, <1>7 DEF BS!Get

\* A reader in piperead() has the read end open.
LEMMA ReaderOpen ==
  ASSUME IInv, NEW p \in Procs, th[p].pc = "copying"
  PROVE  open["r"]
BY DEF IInv, UsersOK, EndsOK, Reading, Ends

\* pipeclose() closes one end.
LEMMA CloseStep ==
  ASSUME IInv, NEW p \in Procs, pipeclose(p)
  PROVE  BS!Close
<1>1. th[p].end \in Ends /\ open[th[p].end]
  BY DEF pipeclose, At, IInv, TypeOK, Threads, EndsOK, Closing
<1>2. open' = [open EXCEPT ![th[p].end] = FALSE] /\ UNCHANGED <<data, nread, nwrite, last>>
  BY DEF pipeclose
<1>3. Queue' = Queue
  BY <1>2 DEF Queue
<1>4. \/ open["r"] /\ open["r"]' = FALSE /\ open["w"]' = open["w"]
      \/ open["w"] /\ open["w"]' = FALSE /\ open["r"]' = open["r"]
  BY <1>1, <1>2 DEF IInv, TypeOK, Ends
<1> QED
  BY <1>2, <1>3, <1>4 DEF BS!Close

\* Every other step leaves the stream as it is.
LEMMA OtherStep ==
  ASSUME UNCHANGED <<data, nread, nwrite, open, last>>
  PROVE  UNCHANGED BS!vars
<1>1. Queue' = Queue
  BY DEF Queue
<1> QED
  BY <1>1 DEF BS!vars

\* Every step of the pipe is a step of the stream, or none.
LEMMA StreamStep == IInv /\ IInv' /\ [Next]_vars => [BS!Next]_BS!vars
<1> SUFFICES ASSUME IInv, IInv', [Next]_vars PROVE [BS!Next]_BS!vars
  OBVIOUS
<1>1. ASSUME NEW p \in Procs, WriteByte(p) PROVE BS!Next
  BY <1>1, PutStep DEF BS!Next
<1>2. ASSUME NEW p \in Procs, ReadByte(p) \/ ReadFault(p) PROVE BS!Next
  <2>1. /\ th[p].pc = "copying" /\ ~Empty /\ nread' = (nread + 1) % UINT
        /\ UNCHANGED <<data, nwrite, open>> /\ (last' = NextByte \/ last' = last)
    BY <1>2 DEF ReadByte, ReadFault, At
  <2> QED
    BY <2>1, ReaderOpen, GetStep DEF BS!Next
<1>3. ASSUME NEW p \in Procs, pipeclose(p) PROVE BS!Next
  BY <1>3, CloseStep DEF BS!Next
<1>4. ASSUME NEW p \in Procs, Proceed(p),
             ~WriteByte(p), ~ReadByte(p), ~ReadFault(p), ~pipeclose(p)
      PROVE  UNCHANGED BS!vars
  BY <1>4, OtherStep
  DEF Proceed, Acquire, WriteFails, WriteFull, WriteSleep, WriteDone, ReadKilled,
      ReadEmpty, ReadSleep, ReadStart, ReadDone, PipeFree, pipeVars
<1>5. ASSUME NEW p \in Procs, Choose(p) PROVE UNCHANGED BS!vars
  BY <1>5, OtherStep
  DEF Choose, Fork, Close, fileclose, Exit, Write, Read, kill, pipeVars
<1>6. CASE UNCHANGED vars
  BY <1>6, OtherStep DEF vars
<1> QED
  BY <1>1, <1>2, <1>3, <1>4, <1>5, <1>6 DEF Next

\* pipe.c implements a bounded queue of bytes, for every number of readers and
\* writers and every width of the counters that is a multiple of PIPESIZE.
THEOREM PipeImplements == Spec => ByteStreamSpec
<1>1. Init => BS!Init
  <2> SUFFICES ASSUME Init PROVE BS!Init
    OBVIOUS
  <2>1. IInv
    BY InitInvariant
  <2>2. QueueFacts
    BY <2>1, RingIsSeq
  <2>3. Used = 0
    <3>1. nread = nwrite /\ Empty
      BY DEF Init, Empty
    <3> QED
      BY <2>1, <3>1, CounterFacts DEF IInv, TypeOK
  <2>4. Queue = <<>>
    BY <2>2, <2>3 DEF QueueFacts
  <2> QED
    BY <2>1, <2>4 DEF IInv, TypeOK, Init, BS!Init, Ends
<1>2. IInv /\ IInv' /\ [Next]_vars => [BS!Next]_BS!vars
  BY StreamStep
<1> QED
  BY <1>1, <1>2, Invariance, PTL DEF Spec, ByteStreamSpec, BS!Spec
=============================================================================
