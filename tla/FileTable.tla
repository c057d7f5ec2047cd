----------------------------- MODULE FileTable -----------------------------
(***************************************************************************)
(* Open files: the table that all processes share (file.c), the descriptors*)
(* of each process (sysfile.c) and pipe(), which takes two files, a page   *)
(* and two descriptors one after the other and gives everything back when  *)
(* one of them is not to be had.  Processes are interleaved between the    *)
(* critical sections of ftable.lock; what flows through a pipe is Pipe.    *)
(***************************************************************************)
EXTENDS Integers, Sequences, FiniteSetsExt

CONSTANTS FProcs, NFILE, NOFILE

None == -1
FileSlots == 0 .. NFILE - 1
Fds == 0 .. NOFILE - 1

VARIABLES
  file,     \* ftable.file: ref, the pipe (None: FD_NONE) and writable
  ofile,    \* p->ofile
  pipes,    \* pipe pages: the ends that are open ({}: the page is free)
  call      \* a system call: its place, rf, wf, fd0, fd1 and files to close

vars == <<file, ofile, pipes, call>>

NoFile == [ref |-> 0, pipe |-> None, writable |-> FALSE]
NoCall == [at |-> "user", rf |-> None, wf |-> None, fd0 |-> None, fd1 |-> None,
           close |-> <<>>]

Init ==
  /\ file = [f \in FileSlots |-> NoFile]
  /\ ofile = [p \in FProcs |-> [d \in Fds |-> None]]
  /\ pipes = [k \in FileSlots |-> {}]
  /\ call = [p \in FProcs |-> NoCall]

-----------------------------------------------------------------------------
FreeFiles == {f \in FileSlots : file[f].ref = 0}
filealloc == Min(FreeFiles)

FreeFds(p) == {d \in Fds : ofile[p][d] = None}
fdalloc(p) == Min(FreeFds(p))

\* The descriptors that argfd() accepts.
OpenFds(p) == {d \in Fds : ofile[p][d] # None}

Goto(p, c) == call' = [call EXCEPT ![p] = c]

\* The files are closed one by one before the call returns.
Fails(p, fs) == Goto(p, [NoCall EXCEPT !.at = "close", !.close = fs])

sys_pipe(p) ==
  /\ call[p].at = "user"
  /\ FreeFiles # {}           \* else -1 and nothing has changed
  /\ file' = [file EXCEPT ![filealloc].ref = 1]
  /\ Goto(p, [NoCall EXCEPT !.at = "filealloc", !.rf = filealloc])
  /\ UNCHANGED <<ofile, pipes>>

\* pipealloc(): the second file, and the page.
PipeallocFile(p) ==
  /\ call[p].at = "filealloc"
  /\ IF FreeFiles = {}
     THEN Fails(p, <<call[p].rf>>) /\ UNCHANGED file
     ELSE /\ file' = [file EXCEPT ![filealloc].ref = 1]
          /\ Goto(p, [call[p] EXCEPT !.at = "kalloc", !.wf = filealloc])
  /\ UNCHANGED <<ofile, pipes>>

PipeallocPage(p) ==
  /\ call[p].at = "kalloc"
  /\ \/ Fails(p, <<call[p].rf, call[p].wf>>) /\ UNCHANGED <<file, pipes>>
     \/ LET pi == Min({k \in FileSlots : pipes[k] = {}}) IN
        /\ pipes' = [pipes EXCEPT ![pi] = {"read", "write"}]
        /\ file' = [file EXCEPT ![call[p].rf].pipe = pi,
                                ![call[p].wf].pipe = pi, ![call[p].wf].writable = TRUE]
        /\ Goto(p, [call[p] EXCEPT !.at = "fdalloc"])
  /\ UNCHANGED ofile

\* Slip: the first descriptor stays when there is no second.
Undone_fd1(p, c) == {c.fd1}
Undone(p, c) == {c.fd0, c.fd1}

\* sys_pipe(): p->ofile[fd] = 0 for the descriptors that were taken, then the
\* files are closed.
PipeFails(p, c, of) ==
  /\ ofile' = [ofile EXCEPT ![p] = [d \in Fds |-> IF d \in Undone(p, c) THEN None ELSE of[d]]]
  /\ Fails(p, <<c.rf, c.wf>>)

\* fdalloc(rf) and fdalloc(wf)
PipeFds(p) ==
  LET c == [call[p] EXCEPT !.fd0 = fdalloc(p)] IN
  /\ call[p].at = "fdalloc"
  /\ CASE FreeFds(p) = {} -> PipeFails(p, call[p], ofile[p])
       [] Cardinality(FreeFds(p)) = 1 -> PipeFails(p, c, [ofile[p] EXCEPT ![c.fd0] = c.rf])
       [] OTHER ->
            LET fd1 == Min(FreeFds(p) \ {c.fd0}) IN
            /\ ofile' = [ofile EXCEPT ![p][c.fd0] = c.rf, ![p][fd1] = c.wf]
            /\ Goto(p, [c EXCEPT !.at = "copyout", !.fd1 = fd1])
  /\ UNCHANGED <<file, pipes>>

\* copyout() of the two numbers
PipeReturn(p) ==
  /\ call[p].at = "copyout"
  /\ \/ PipeFails(p, call[p], ofile[p])
     \/ Goto(p, NoCall) /\ UNCHANGED ofile
  /\ UNCHANGED <<file, pipes>>

-----------------------------------------------------------------------------
Last(f) == file[f].ref = 1

\* fileclose() and, for the last reference, pipeclose(): one step here, and
\* taken apart in module Pipe.
fileclose(f) ==
  LET pi == file[f].pipe
      end == IF file[f].writable THEN "write" ELSE "read" IN
  IF Last(f)
  THEN /\ file' = [file EXCEPT ![f] = NoFile]
       /\ pipes' = IF pi = None THEN pipes ELSE [pipes EXCEPT ![pi] = @ \ {end}]
  ELSE /\ file' = [file EXCEPT ![f].ref = @ - 1]
       /\ UNCHANGED pipes

CloseStep(p) ==
  /\ call[p].at = "close"
  /\ fileclose(Head(call[p].close))
  /\ Goto(p, IF Len(call[p].close) = 1 THEN NoCall
             ELSE [call[p] EXCEPT !.close = Tail(@)])
  /\ UNCHANGED ofile

sys_close(p, d) ==
  /\ call[p].at = "user" /\ d \in OpenFds(p)
  /\ ofile' = [ofile EXCEPT ![p][d] = None]
  /\ Fails(p, <<ofile[p][d]>>)
  /\ UNCHANGED <<file, pipes>>

\* sys_dup(): the descriptor is installed before the file is counted.
sys_dup(p, d) ==
  /\ call[p].at = "user" /\ d \in OpenFds(p)
  /\ FreeFds(p) # {}
  /\ ofile' = [ofile EXCEPT ![p][fdalloc(p)] = ofile[p][d]]
  /\ Goto(p, [NoCall EXCEPT !.at = "filedup", !.rf = ofile[p][d]])
  /\ UNCHANGED <<file, pipes>>

filedup(p) ==
  /\ call[p].at = "filedup"
  /\ file' = [file EXCEPT ![call[p].rf].ref = @ + 1]
  /\ Goto(p, NoCall)
  /\ UNCHANGED <<ofile, pipes>>

\* fork() of a process into one that has nothing open; exit() closes all.
ForkFiles(p, q) ==
  /\ p # q
  /\ call[p].at = "user" /\ call[q].at = "user"
  /\ FreeFds(q) = Fds
  /\ ofile' = [ofile EXCEPT ![q] = ofile[p]]
  /\ file' = [f \in FileSlots |->
        [file[f] EXCEPT !.ref = @ + Cardinality({d \in Fds : ofile[p][d] = f})]]
  /\ UNCHANGED <<pipes, call>>

Next == \E p \in FProcs :
  \/ sys_pipe(p) \/ PipeallocFile(p) \/ PipeallocPage(p) \/ PipeFds(p) \/ PipeReturn(p)
  \/ CloseStep(p) \/ filedup(p)
  \/ \E d \in Fds : sys_close(p, d) \/ sys_dup(p, d)
  \/ \E q \in FProcs : ForkFiles(p, q)

-----------------------------------------------------------------------------
\* References a call holds that are in no descriptor, less a copy of a
\* descriptor that is not counted yet.
InCall(p, f) ==
  LET c == call[p] IN
  CASE c.at = "close" -> Cardinality({k \in DOMAIN c.close : c.close[k] = f})
    [] c.at \in {"filealloc", "kalloc", "fdalloc"} -> IF f \in {c.rf, c.wf} THEN 1 ELSE 0
    [] c.at = "filedup" -> IF f = c.rf THEN -1 ELSE 0
    [] OTHER -> 0

\* Every reference of an open file is a descriptor or a call in progress, so a
\* failed pipe() leaves nothing behind and no descriptor names a file that was
\* closed; an end of a pipe is open exactly while a file for it is, which is
\* what readers and writers wait on.
FilesExact ==
  /\ \A f \in FileSlots :
       file[f].ref = MapThenSumSet(LAMBDA p :
         InCall(p, f) + Cardinality({d \in Fds : ofile[p][d] = f}), FProcs)
  /\ \A k \in FileSlots : pipes[k] =
       {IF file[f].writable THEN "write" ELSE "read" :
          f \in {g \in FileSlots : file[g].ref > 0 /\ file[g].pipe = k}}
=============================================================================
