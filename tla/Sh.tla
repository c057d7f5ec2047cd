--------------------------------- MODULE Sh ---------------------------------
(***************************************************************************)
(* The shell (sh.c): main() reads a line and forks a process for it, and   *)
(* runcmd() turns the parsed line into processes that wire pipes and files *)
(* to descriptors 0 and 1, wait for one another and exec programs.  A      *)
(* program reads its input to the end and exits.                           *)
(*                                                                         *)
(* A process is named by its way down from the shell; `at` is the way from *)
(* the root of the command to the node it executes ("l", "r" and "c").     *)
(* typed is a line under construction, to be parsed after each character.  *)
(***************************************************************************)
EXTENDS ShParse, TLC

CONSTANTS MaxLine,     \* length of the lines typed
          Lines,       \* lines that are run
          MaxForkFails

Fds == 0 .. 4
None == [is |-> "none", of |-> <<>>]
Tty == [is |-> "tty", of |-> <<>>]
File(name) == [is |-> "file", of |-> name]
PipeEnd(end, at) == [is |-> end, of |-> at]     \* a pipe is named by its PIPE node
Sh == <<>>

VARIABLES typed,
          tree,     \* the command being run
          procs,    \* the shell and the processes below it: pc, at, fd, p (the pipe) and n (forks)
          failed    \* fork() calls that failed

vars == <<typed, tree, procs, failed>>

NewProc(at, fd) == [pc |-> "runcmd", at |-> at, fd |-> fd, p |-> <<0, 0>>, n |-> 0]

\* init leaves the console open three times.
Init ==
  /\ typed = <<>>
  /\ tree = Error
  /\ procs = (Sh :> [NewProc(<<>>, [d \in Fds |-> IF d < 3 THEN Tty ELSE None]) EXCEPT !.pc = "main"])
  /\ failed = 0

RECURSIVE Node(_, _)
Node(cmd, at) ==
  IF at = <<>> THEN cmd
  ELSE Node(CASE Head(at) = "l" -> cmd.left [] Head(at) = "r" -> cmd.right [] OTHER -> cmd.cmd,
            Tail(at))

Cmd(p) == Node(tree, procs[p].at)
Is(p, type) == p # Sh /\ procs[p].pc = "runcmd" /\ Cmd(p).type = type

Kids(p) == {q \in DOMAIN procs : Len(q) = Len(p) + 1 /\ Front(q) = p}
Zombies(p) == {q \in Kids(p) : procs[q].pc = "zombie"}

LowestFree(fd) == Min({d \in Fds : fd[d] = None})
Dup(fd, d) == [fd EXCEPT ![LowestFree(fd)] = fd[d]]

-----------------------------------------------------------------------------
Alive(p) == p \in DOMAIN procs /\ procs[p].pc # "zombie"
Shell(pc) == procs[Sh].pc = pc

\* f holds the records that change or are new.
Set(f) == procs' = f @@ procs /\ UNCHANGED <<typed, tree, failed>>
Goto(p, pc) == Set(p :> [procs[p] EXCEPT !.pc = pc])
Fork(p, pc, child) ==
  Set((p :> [procs[p] EXCEPT !.pc = pc, !.n = @ + 1]) @@ (Append(p, procs[p].n + 1) :> child))

\* exit(): the files are closed; children that have exited go to init, and so
\* does p when its parent is gone.
Exited(p) ==
  LET gone == Zombies(p) \cup (IF p = Sh \/ Alive(Front(p)) THEN {} ELSE {p}) IN
  [q \in DOMAIN procs \ gone |->
     IF q = p THEN [procs[p] EXCEPT !.pc = "zombie", !.fd = [d \in Fds |-> None]] ELSE procs[q]]

Exit(p) == procs' = Exited(p) /\ UNCHANGED <<typed, tree, failed>>

\* wait(0) takes any child that has exited.
Wait(p, proc) ==
  \E z \in Zombies(p) :
    /\ procs' = [q \in DOMAIN procs \ {z} |-> IF q = p THEN proc ELSE procs[q]]
    /\ UNCHANGED <<typed, tree, failed>>

-----------------------------------------------------------------------------
Type(c) ==
  /\ tree = Error /\ Shell("main")
  /\ Len(typed) < MaxLine
  /\ typed' = Append(typed, c)
  /\ UNCHANGED <<tree, procs, failed>>

\* main(): a line is read, a process forked for it and waited for.
getcmd(line) ==
  /\ Shell("main") /\ typed = <<>>
  /\ tree' = parsecmd(line)
  /\ procs' = (Sh :> [procs[Sh] EXCEPT !.pc = "fork"])
  /\ UNCHANGED <<typed, failed>>

MainFork == Shell("fork") /\ Fork(Sh, "wait", NewProc(<<>>, procs[Sh].fd))
MainWait == Shell("wait") /\ Wait(Sh, [procs[Sh] EXCEPT !.pc = "prompt"])

\* fork1(): a process whose fork() fails exits, the shell too.
ForkFails(p) ==
  /\ failed < MaxForkFails
  /\ procs[p].pc \in {"fork", "left", "right"} \/ Is(p, "LIST") \/ Is(p, "BACK")
  /\ failed' = failed + 1
  /\ procs' = Exited(p)
  /\ UNCHANGED <<typed, tree>>

-----------------------------------------------------------------------------
\* runcmd(), by the type of the command
RunPanic(p) == Is(p, "panic") /\ Exit(p)

RunExec(p) ==
  /\ Is(p, "EXEC")
  /\ Exit(p) \/ (Cmd(p).argv # <<>> /\ Goto(p, "program"))

RunRedir(p) ==
  LET closed == [procs[p].fd EXCEPT ![Cmd(p).fd] = None] IN
  /\ Is(p, "REDIR")
  /\ \/ Exit(p)           \* open() fails
     \/ Set(p :> [procs[p] EXCEPT !.fd = [closed EXCEPT ![LowestFree(closed)] = File(Cmd(p).file)],
                                  !.at = Append(@, "c")])

RunList(p) ==
  \/ /\ Is(p, "LIST")
     /\ Fork(p, "list", NewProc(Append(procs[p].at, "l"), procs[p].fd))
  \/ /\ procs[p].pc = "list"
     /\ Wait(p, [procs[p] EXCEPT !.pc = "runcmd", !.at = Append(@, "r")])

RunBack(p) ==
  \/ Is(p, "BACK") /\ Fork(p, "exit", NewProc(Append(procs[p].at, "c"), procs[p].fd))
  \/ procs[p].pc = "exit" /\ Exit(p)

RunPipe(p) ==
  LET fd == procs[p].fd
      p0 == LowestFree(fd)
      p1 == LowestFree([fd EXCEPT ![p0] = Tty]) IN
  /\ Is(p, "PIPE")
  /\ \/ Exit(p)           \* pipe() fails
     \/ Set(p :> [procs[p] EXCEPT
          !.pc = "left", !.p = <<p0, p1>>,
          !.fd = [fd EXCEPT ![p0] = PipeEnd("read", procs[p].at), ![p1] = PipeEnd("write", procs[p].at)]])

\* Slip: the end for writing stays open.
Unused_read(proc) == {proc.p[1]}
Unused(proc) == {proc.p[1], proc.p[2]}

Close(fd, ds) == [d \in Fds |-> IF d \in ds THEN None ELSE fd[d]]

\* A child of a pipe: close(1); dup(p[1]) or close(0); dup(p[0]); and both
\* ends are closed.
PipeChild(p) ==
  LET proc == procs[p]
      left == Last(proc.at) = "l"
      d == IF left THEN 1 ELSE 0
      end == proc.p[IF left THEN 2 ELSE 1] IN
  /\ proc.pc = "wire"
  /\ Set(p :> [proc EXCEPT !.pc = "runcmd", !.fd = Close(Dup(Close(@, {d}), end), Unused(proc))])

\* Slip: the second child is not waited for.
AfterWait_one == "exit"
AfterWait == "wait2"

\* The parent of a pipe: two forks, both ends closed, two waits.
PipeParent(p) ==
  LET proc == procs[p]
      Child(way) == [NewProc(Append(proc.at, way), proc.fd) EXCEPT !.pc = "wire", !.p = proc.p] IN
  \/ proc.pc = "left" /\ Fork(p, "right", Child("l"))
  \/ proc.pc = "right" /\ Fork(p, "close", Child("r"))
  \/ proc.pc = "close" /\ Set(p :> [proc EXCEPT !.pc = "wait1", !.fd = Close(@, Unused(proc))])
  \/ proc.pc = "wait1" /\ Wait(p, [proc EXCEPT !.pc = AfterWait])
  \/ proc.pc = "wait2" /\ Wait(p, [proc EXCEPT !.pc = "exit"])

\* A program sees the end of its input when nobody can write to it any more.
EndOfInput(p) ==
  procs[p].fd[0].is = "read" =>
    \A q \in DOMAIN procs : \A d \in Fds : procs[q].fd[d] # PipeEnd("write", procs[p].fd[0].of)

Program(p) == procs[p].pc = "program" /\ EndOfInput(p) /\ Exit(p)

Next ==
  \/ \E c \in Alphabet : Type(c)
  \/ \E line \in Lines : getcmd(line)
  \/ MainFork \/ MainWait
  \/ \E p \in DOMAIN procs :
       \/ ForkFails(p) \/ RunPanic(p) \/ RunExec(p) \/ RunRedir(p) \/ RunList(p) \/ RunBack(p)
       \/ RunPipe(p) \/ PipeChild(p) \/ PipeParent(p) \/ Program(p)

-----------------------------------------------------------------------------
\* The recursive descent over characters, with words cut in place at the end,
\* yields the command that splitting the line at its operators yields, and
\* rejects the same lines.
ParsesAsWritten == parsecmd(typed) = RefLine(Tokens(typed))

\* What a leaf of the command should read or write: the redirection or the pipe
\* closest above it that says so, or the console.
Binds(at, k, d) ==
  LET n == Node(tree, SubSeq(at, 1, k)) IN
  \/ n.type = "REDIR" /\ n.fd = d
  \/ n.type = "PIPE" /\ at[k + 1] = IF d = 0 THEN "r" ELSE "l"

Meant(at, d) ==
  LET ks == {k \in 0 .. Len(at) - 1 : Binds(at, k, d)}
      k == Max(ks)
      n == Node(tree, SubSeq(at, 1, k)) IN
  IF ks = {} THEN Tty
  ELSE IF n.type = "REDIR" THEN File(n.file)
  ELSE PipeEnd(IF d = 0 THEN "read" ELSE "write", SubSeq(at, 1, k))

\* Every program starts with its input and its output where the line says, the
\* console as its third file, and nothing else open: no end of a pipe.
WiredAsWritten ==
  \A p \in DOMAIN procs : procs[p].pc = "program" =>
    procs[p].fd = [d \in Fds |-> IF d < 2 THEN Meant(procs[p].at, d) ELSE IF d = 2 THEN Tty ELSE None]

Blocked(p) ==
  \/ procs[p].pc \in {"zombie", "prompt"}
  \/ procs[p].pc = "program" /\ ~EndOfInput(p)
  \/ procs[p].pc \in {"wait", "list", "wait1", "wait2"} /\ Zombies(p) = {}

InBackground(p) == \E k \in 0 .. Len(procs[p].at) - 1 : Node(tree, SubSeq(procs[p].at, 1, k)).type = "BACK"

\* A line comes to its end whatever fails, as no process waits for an input or
\* a child that will not come; and unless a fork failed the shell prompts only
\* when all of the line that is not in the background has ended.
LinesEnd ==
  /\ (\A p \in DOMAIN procs : Blocked(p)) => DOMAIN procs = {Sh}
  /\ Shell("prompt") /\ failed = 0 => \A p \in DOMAIN procs \ {Sh} : InBackground(p)
=============================================================================
