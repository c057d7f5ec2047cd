-------------------------------- MODULE Pipe --------------------------------
(***************************************************************************)
(* One pipe (pipe.c), the two open files that refer to it (file.c) and the *)
(* processes that share them through fork().                               *)
(*                                                                         *)
(* pi->lock is held from the first line of pipewrite() and piperead() to   *)
(* the last, except in sleep(); kill() does not take it.  A step is one    *)
(* round of a loop under pi->lock, so that a kill() falls between any two  *)
(* rounds.  That sleep() gives up the lock and goes to sleep in one step   *)
(* is what module ProcLife is about.                                       *)
(*                                                                         *)
(* nread and nwrite are unsigned and wrap around: UINT stands for 2^32.    *)
(***************************************************************************)
EXTENDS Naturals, FiniteSets

CONSTANTS Procs,      \* processes
          Nobody,     \* a free lock
          First,      \* the process that called pipe()
          Bytes,      \* values of a byte
          PIPESIZE,   \* size of the ring
          UINT,       \* 2^32
          Lengths,    \* numbers of bytes to read() or write()
          MaxCalls    \* bound on the read(), write() and kill() calls

ASSUME PipeAssumption ==
  /\ First \in Procs /\ Nobody \notin Procs
  /\ Bytes # {}
  /\ PIPESIZE \in Nat \ {0} /\ Lengths \subseteq Nat /\ MaxCalls \in Nat
  /\ UINT \in Nat /\ UINT > PIPESIZE /\ UINT % PIPESIZE = 0

Ends == {"r", "w"}   \* the read end and the write end


VARIABLES
  data, nread, nwrite,  \* struct pipe: the ring and its counters
  open,                 \* open["r"] is readopen, open["w"] is writeopen
  freed,                \* the page of the pipe has been given to kfree()
  lock,                 \* who holds pi->lock
  ref,                  \* f->ref of the file of each end
  ofile,                \* the ends a process has open
  killed,               \* p->killed
  exiting,              \* the process is in exit()
  th,                   \* place of a process, i and n of its call, end it closes
  muted,                \* a killed writer left bytes without a wakeup()
  last,                 \* the byte that piperead() stored last for its caller
  calls                 \* calls made so far

pipeVars == <<data, nread, nwrite, open, freed>>
vars == <<data, nread, nwrite, open, freed, lock, ref, ofile, killed, exiting, th,
          muted, last, calls>>

Thread(where, len) == [pc |-> where, i |-> 0, n |-> len, end |-> "r"]

\* After sys_pipe(): First has both ends.
Init ==
  /\ data \in [0 .. PIPESIZE - 1 -> {CHOOSE b \in Bytes : TRUE}]
  /\ nread = 0 /\ nwrite = 0
  /\ open = [e \in Ends |-> TRUE]
  /\ freed = FALSE
  /\ lock = Nobody
  /\ ref = [e \in Ends |-> 1]
  /\ ofile = [p \in Procs |-> IF p = First THEN Ends ELSE {}]
  /\ killed = [p \in Procs |-> FALSE]
  /\ exiting = [p \in Procs |-> FALSE]
  /\ th = [p \in Procs |-> Thread(IF p = First THEN "user" ELSE "unused", 0)]
  /\ muted = FALSE
  /\ last = CHOOSE b \in Bytes : TRUE
  /\ calls = 0

At(p, where) == th[p].pc = where
Goto(p, where) == th' = [th EXCEPT ![p].pc = where]

\* A system call that usertrap() lets through.
Syscall(p) ==
  /\ At(p, "user")
  /\ ~killed[p]
  /\ calls < MaxCalls
  /\ calls' = calls + 1

\* wakeup(c) by p, whose thread becomes t: sleepers go for the lock again.
wakeup(c, p, t) ==
  /\ th' = [q \in Procs |->
       IF q = p THEN t
       ELSE IF th[q].pc = c
       THEN [th[q] EXCEPT !.pc = IF c = "on nread" THEN "read" ELSE "write"]
       ELSE th[q]]
  /\ muted' = (muted /\ c # "on nread")

Full == nwrite = (nread + PIPESIZE) % UINT
Empty == nread = nwrite

-----------------------------------------------------------------------------
\* fork(): filedup() for each open end, before the child can run.
Fork(p, q) ==
  /\ At(p, "user") /\ ~killed[p] /\ ~exiting[p]
  /\ At(q, "unused")
  /\ ref' = [e \in Ends |-> IF e \in ofile[p] THEN ref[e] + 1 ELSE ref[e]]
  /\ ofile' = [ofile EXCEPT ![q] = ofile[p]]
  /\ Goto(q, "user")
  /\ UNCHANGED <<pipeVars, lock, killed, exiting, muted, last, calls>>

LastRef(e) == ref[e] = 1

\* fileclose(): the last reference leaves the critical section of ftable.lock
\* and only then closes the end of the pipe.
fileclose(p, e) ==
  /\ ofile' = [ofile EXCEPT ![p] = @ \ {e}]
  /\ ref' = [ref EXCEPT ![e] = @ - 1]
  /\ th' = IF LastRef(e) THEN [th EXCEPT ![p].pc = "close", ![p].end = e] ELSE th
  /\ UNCHANGED <<pipeVars, lock, killed, exiting, muted, last, calls>>

\* sys_close(), or a round of the loop in exit().
Close(p) ==
  /\ At(p, "user")
  /\ ~killed[p] \/ exiting[p]
  /\ \E e \in ofile[p] : fileclose(p, e)

\* exit(), by choice or because the process was killed.
Exit(p) ==
  /\ At(p, "user")
  /\ ~exiting[p]
  /\ exiting' = [exiting EXCEPT ![p] = TRUE]
  /\ UNCHANGED <<pipeVars, lock, ref, ofile, killed, th, muted, last, calls>>

\* Slip: the flags are looked at before this end is marked closed.
BothClosed_early(now) == ~open["r"] /\ ~open["w"]
BothClosed(now) == ~now["r"] /\ ~now["w"]

CloseWakes(e) == IF e = "w" THEN "on nread" ELSE "on nwrite"

\* pipeclose(), up to the release of pi->lock.
pipeclose(p) ==
  LET e == th[p].end
      now == [open EXCEPT ![e] = FALSE] IN
  /\ At(p, "close")
  /\ lock = Nobody
  /\ open' = now
  /\ wakeup(CloseWakes(e), p,
            Thread(IF BothClosed(now) THEN "free" ELSE "user", 0))
  /\ UNCHANGED <<data, nread, nwrite, freed, lock, ref, ofile, killed, exiting,
                 last, calls>>

PipeFree(p) ==
  /\ At(p, "free")
  /\ freed' = TRUE
  /\ Goto(p, "user")
  /\ UNCHANGED <<data, nread, nwrite, open, lock, ref, ofile, killed, exiting,
                 muted, last, calls>>

-----------------------------------------------------------------------------
\* sys_write() and sys_read() of n bytes.
Write(p) ==
  /\ Syscall(p)
  /\ ~exiting[p]
  /\ "w" \in ofile[p]
  /\ \E n \in Lengths : th' = [th EXCEPT ![p] = Thread("write", n)]
  /\ UNCHANGED <<pipeVars, lock, ref, ofile, killed, exiting, muted, last>>

Read(p) ==
  /\ Syscall(p)
  /\ ~exiting[p]
  /\ "r" \in ofile[p]
  /\ \E n \in Lengths : th' = [th EXCEPT ![p] = Thread("read", n)]
  /\ UNCHANGED <<pipeVars, lock, ref, ofile, killed, exiting, muted, last>>

\* acquire(&pi->lock), at the start of a call or at the end of sleep().
Acquire(p) ==
  /\ th[p].pc \in {"write", "read"}
  /\ lock = Nobody
  /\ lock' = p
  /\ Goto(p, IF At(p, "write") THEN "writing" ELSE "reading")
  /\ UNCHANGED <<pipeVars, ref, ofile, killed, exiting, muted, last, calls>>

\* The end of a call: wakeup(c), release, back to user space.
Return(p, c) ==
  /\ lock' = Nobody
  /\ wakeup(c, p, Thread("user", 0))

\* sleep(c, &pi->lock).
SleepOn(p, c) ==
  /\ lock' = Nobody
  /\ Goto(p, c)

\* pipewrite() gives up: nobody can read, or the writer was killed.
WriteFails(p) ==
  /\ At(p, "writing")
  /\ th[p].i < th[p].n
  /\ ~open["r"] \/ killed[p]
  /\ lock' = Nobody
  /\ th' = [th EXCEPT ![p] = Thread("user", 0)]
  /\ muted' = (muted \/ (th[p].i > 0 /\ killed[p]))
  /\ UNCHANGED <<pipeVars, ref, ofile, killed, exiting, last, calls>>

\* A full pipe: readers are woken, then the writer sleeps.
WriteFull(p) ==
  /\ At(p, "writing")
  /\ th[p].i < th[p].n
  /\ open["r"] /\ ~killed[p]
  /\ Full
  /\ wakeup("on nread", p, [th[p] EXCEPT !.pc = "write full"])
  /\ UNCHANGED <<pipeVars, lock, ref, ofile, killed, exiting, last, calls>>

WriteSleep(p) ==
  /\ At(p, "write full")
  /\ SleepOn(p, "on nwrite")
  /\ UNCHANGED <<pipeVars, ref, ofile, killed, exiting, muted, last, calls>>

WriteByte(p) ==
  /\ At(p, "writing")
  /\ th[p].i < th[p].n
  /\ open["r"] /\ ~killed[p]
  /\ ~Full
  /\ \E ch \in Bytes : data' = [data EXCEPT ![nwrite % PIPESIZE] = ch]
  /\ nwrite' = (nwrite + 1) % UINT
  /\ th' = [th EXCEPT ![p].i = @ + 1]
  /\ UNCHANGED <<nread, open, freed, lock, ref, ofile, killed, exiting, muted, last,
                 calls>>

\* All bytes are written, or copyin() failed for the next one.
WriteDone(p) ==
  /\ At(p, "writing")
  /\ \/ th[p].i = th[p].n
     \/ open["r"] /\ ~killed[p] /\ ~Full
  /\ Return(p, "on nread")
  /\ UNCHANGED <<pipeVars, ref, ofile, killed, exiting, last, calls>>

-----------------------------------------------------------------------------
\* piperead() finds nothing: -1 when killed, else it is going to sleep.
ReadKilled(p) ==
  /\ At(p, "reading")
  /\ Empty /\ open["w"]
  /\ killed[p]
  /\ Return(p, "nobody")
  /\ UNCHANGED <<pipeVars, ref, ofile, killed, exiting, last, calls>>

ReadEmpty(p) ==
  /\ At(p, "reading")
  /\ Empty /\ open["w"]
  /\ ~killed[p]
  /\ Goto(p, "read empty")
  /\ UNCHANGED <<pipeVars, lock, ref, ofile, killed, exiting, muted, last, calls>>

ReadSleep(p) ==
  /\ At(p, "read empty")
  /\ SleepOn(p, "on nread")
  /\ UNCHANGED <<pipeVars, ref, ofile, killed, exiting, muted, last, calls>>

\* There is data, or the end of it.
ReadStart(p) ==
  /\ At(p, "reading")
  /\ ~Empty \/ ~open["w"]
  /\ Goto(p, "copying")
  /\ UNCHANGED <<pipeVars, lock, ref, ofile, killed, exiting, muted, last, calls>>

\* Slip: writers wait until the pipe has been emptied.
ReadWakes_if_empty(now) == IF now = nwrite THEN "on nwrite" ELSE "nobody"
ReadWakes(now) == "on nwrite"

\* Slip: ++nread for nread++.
NextByte_preincrement == data[(nread + 1) % PIPESIZE]
NextByte == data[nread % PIPESIZE]

ReadByte(p) ==
  /\ At(p, "copying")
  /\ th[p].i < th[p].n /\ ~Empty
  /\ nread' = (nread + 1) % UINT
  /\ last' = NextByte
  /\ th' = [th EXCEPT ![p].i = @ + 1]
  /\ UNCHANGED <<data, nwrite, open, freed, lock, ref, ofile, killed, exiting,
                 muted, calls>>

\* copyout() fails after nread was advanced: that byte is gone.
ReadFault(p) ==
  LET now == (nread + 1) % UINT IN
  /\ At(p, "copying")
  /\ th[p].i < th[p].n /\ ~Empty
  /\ nread' = now
  /\ Return(p, ReadWakes(now))
  /\ UNCHANGED <<data, nwrite, open, freed, ref, ofile, killed, exiting, last,
                 calls>>

ReadDone(p) ==
  /\ At(p, "copying")
  /\ th[p].i = th[p].n \/ Empty
  /\ Return(p, ReadWakes(nread))
  /\ UNCHANGED <<pipeVars, ref, ofile, killed, exiting, last, calls>>

-----------------------------------------------------------------------------
\* kill() by some process outside: it takes p->lock, not pi->lock.
kill(q) ==
  /\ ~At(q, "unused")
  /\ calls < MaxCalls
  /\ calls' = calls + 1
  /\ killed' = [killed EXCEPT ![q] = TRUE]
  /\ Goto(q, CASE At(q, "on nread") -> "read"
               [] At(q, "on nwrite") -> "write"
               [] OTHER -> th[q].pc)
  /\ UNCHANGED <<pipeVars, lock, ref, ofile, exiting, muted, last>>

-----------------------------------------------------------------------------
\* What a process inside the kernel does, and what exit() does.
Proceed(p) ==
  \/ Acquire(p)
  \/ WriteFails(p) \/ WriteFull(p) \/ WriteSleep(p) \/ WriteByte(p)
  \/ WriteDone(p)
  \/ ReadKilled(p) \/ ReadEmpty(p) \/ ReadSleep(p) \/ ReadStart(p)
  \/ ReadByte(p) \/ ReadFault(p) \/ ReadDone(p)
  \/ pipeclose(p) \/ PipeFree(p)

Choose(p) ==
  \/ \E q \in Procs : Fork(p, q)
  \/ Close(p) \/ Exit(p) \/ Write(p) \/ Read(p) \/ kill(p)

Next == \E p \in Procs : Proceed(p) \/ Choose(p)

Spec == Init /\ [][Next]_vars

-----------------------------------------------------------------------------
\* The bytes in the ring, oldest first; the difference of two unsigned counters.
Queue == [k \in 1 .. (nwrite + UINT - nread) % UINT |->
            data[(nread + k - 1) % PIPESIZE]]

BS == INSTANCE ByteStream WITH Size <- PIPESIZE, queue <- Queue,
                               ropen <- open["r"], wopen <- open["w"]

\* pipe.c implements a bounded queue of bytes: nothing is lost, repeated or
\* reordered, for several readers and writers and when the counters wrap.
ByteStreamSpec == BS!Spec

\* pipeclose() frees the page once and last: after it no process has an end
\* open or is where it uses the pipe, and when that is so the page is free,
\* since no interleaving of two last closes makes each leave it to the other.
FreedLast ==
  freed <=> \A p \in Procs : ofile[p] = {} /\ th[p].pc \in {"unused", "user"}

\* A reader that sleeps has nothing to read and may still get something, and a
\* writer that sleeps has no room: every change of these conditions under
\* pi->lock is followed by a wakeup before the lock is released.  There is one
\* exception: pipewrite() returns -1 to a writer that is killed after it has
\* stored some bytes, and does not wake the readers (pipe.c:86).
SleepsWithReason ==
  lock = Nobody => \A p \in Procs :
    /\ At(p, "on nread") => (Empty \/ muted) /\ open["w"]
    /\ At(p, "on nwrite") => Full /\ open["r"]

=============================================================================
