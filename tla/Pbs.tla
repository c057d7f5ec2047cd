-------------------------------- MODULE Pbs --------------------------------
(***************************************************************************)
(* The priority-based scheduler (PBS) on several CPUs: scheduler(),        *)
(* yield(), sleep(), wakeup(), and the state changes of allocproc(),       *)
(* fork(), exit() and wait() in proc.c; clockintr() with update_time(),    *)
(* which ages the priorities; and the set_priority system call.            *)
(*                                                                         *)
(* scheduler() walks the process table with the lock of the best process   *)
(* so far held while it waits for the lock of the next one.  clockintr()   *)
(* runs on CPU 0 only; it takes the process locks to count time but writes *)
(* rbi and dp without them.  One step is one critical section of a         *)
(* process lock, or one access to a field that is read without its lock.   *)
(*                                                                         *)
(* Parents and children are left out: a running process may reap any       *)
(* zombie.                                                                 *)
(***************************************************************************)
EXTENDS Integers, FiniteSets

CONSTANTS NPROC,      \* slots of the process table; slot 0 is init
          NCPU,       \* CPUs; CPU 0 handles the clock
          Pids,       \* first argument of set_priority
          Priorities, \* second argument of set_priority
          MaxPid,     \* bound: processes created, init being the first
          MaxTicks,   \* bound: clock interrupts
          MaxSch      \* bound: times one process is scheduled

ASSUME PbsAssumption ==
  /\ NPROC \in Nat \ {0} /\ NCPU \in Nat \ {0}
  /\ Pids \subseteq Int /\ Priorities \subseteq Int
  /\ MaxPid \in Nat /\ MaxTicks \in Nat /\ MaxSch \in Nat

Procs == 0 .. NPROC - 1
CPUs == 0 .. NCPU - 1
None == -1                    \* no process, no CPU

PBS_DEF_SP  == 50
PBS_DEF_RBI == 25
PBS_DEF_DP  == PBS_DEF_SP + PBS_DEF_RBI

VARIABLES
  proc,       \* struct proc, the fields that scheduling uses
  lock,       \* lock[p]: the CPU that holds proc[p].lock
  tickslock,  \* the CPU that holds tickslock
  ticks,
  nextpid,
  cpu,        \* what each CPU executes, with the locals of scheduler()
  clk,        \* clockintr() on CPU 0, which suspends what CPU 0 executes
  scan        \* history: per CPU, what its current table walk has seen

vars == <<proc, lock, tickslock, ticks, nextpid, cpu, clk, scan>>

NewProc == [state |-> "UNUSED", pid |-> 0, chan |-> "none", rntime |-> 0, stime |-> 0,
            wtime |-> 0, num_sch |-> 0, sp |-> PBS_DEF_SP,
            rbi |-> PBS_DEF_RBI, dp |-> PBS_DEF_DP,
            rtime |-> 0, ctime |-> 0, etime |-> 0]

\* i: loop variable of scheduler(), or the child in fork().
NewCpu == [pc |-> "loop", i |-> 0, highest |-> None, min_dp |-> 100,
           proc |-> None]

IdleClk == [pc |-> "idle", i |-> 0, rntime |-> 0, stime |-> 0]
NewScan == [clean |-> TRUE, rejected |-> {}]

Init ==
  /\ proc = [p \in Procs |->
               IF p = 0 THEN [NewProc EXCEPT !.state = "RUNNABLE", !.pid = 1]
               ELSE NewProc]
  /\ lock = [p \in Procs |-> None]
  /\ tickslock = None
  /\ ticks = 0
  /\ nextpid = 2
  /\ cpu = [c \in CPUs |-> NewCpu]
  /\ clk = IdleClk
  /\ scan = [c \in CPUs |-> NewScan]

\* CPU c executes at pc, not interrupted by the clock.
At(c, pc) == cpu[c].pc = pc /\ (c = 0 => clk.pc = "idle")
Free(p) == lock[p] = None
Goto(c, pc) == cpu' = [cpu EXCEPT ![c].pc = pc]

-----------------------------------------------------------------------------
(* scheduler().                                                            *)
(*                                                                         *)
(* An operator whose comment starts with "Slip" is not part of the model:  *)
(* it is the operator below it with a plausible mistake, and shows that a  *)
(* property notices that mistake.                                          *)

\* Start of a walk: highest = 0, min_dp = 100.
SchedStart(c) ==
  /\ At(c, "loop")
  /\ \A p \in Procs : proc[p].num_sch < MaxSch
  /\ cpu' = [cpu EXCEPT ![c] = [NewCpu EXCEPT !.pc = "scan"]]
  /\ UNCHANGED <<proc, lock, tickslock, ticks, nextpid, clk, scan>>

SchedAcquire(c) ==
  LET i == cpu[c].i IN
  /\ At(c, "scan")
  /\ i < NPROC
  /\ Free(i)
  /\ lock' = [lock EXCEPT ![i] = c]
  /\ Goto(c, "look")
  /\ UNCHANGED <<proc, tickslock, ticks, nextpid, clk, scan>>

\* Slip: a tie in dp goes to the process that ran most often.
Better_num_sch_reversed(p, min_dp, h) ==
  \/ proc[p].dp < min_dp
  \/ proc[p].dp = min_dp /\ proc[p].num_sch > proc[h].num_sch
  \/ /\ proc[p].dp = min_dp
     /\ proc[p].num_sch = proc[h].num_sch
     /\ proc[p].ctime < proc[h].ctime

\* The comparison of p with the best process so far, h.
Better(p, min_dp, h) ==
  \/ proc[p].dp < min_dp
  \/ proc[p].dp = min_dp /\ proc[p].num_sch < proc[h].num_sch
  \/ /\ proc[p].dp = min_dp
     /\ proc[p].num_sch = proc[h].num_sch
     /\ proc[p].ctime < proc[h].ctime

\* The body of the loop with the lock of slot i held.  Go on to the next slot:
NextSlot(c) == [cpu[c] EXCEPT !.pc = "scan", !.i = @ + 1]

\* Slip: "continue" without release(&p->lock).
SchedSkip_keeps_lock(c) ==
  /\ At(c, "look")
  /\ proc[cpu[c].i].state # "RUNNABLE"
  /\ cpu' = [cpu EXCEPT ![c] = NextSlot(c)]
  /\ UNCHANGED <<proc, lock, tickslock, ticks, nextpid, clk, scan>>

SchedSkip(c) ==
  /\ At(c, "look")
  /\ proc[cpu[c].i].state # "RUNNABLE"
  /\ lock' = [lock EXCEPT ![cpu[c].i] = None]
  /\ cpu' = [cpu EXCEPT ![c] = NextSlot(c)]
  /\ UNCHANGED <<proc, tickslock, ticks, nextpid, clk, scan>>

\* The first runnable process keeps its lock.
SchedFirst(c) ==
  LET i == cpu[c].i IN
  /\ At(c, "look")
  /\ proc[i].state = "RUNNABLE"
  /\ cpu[c].highest = None
  /\ cpu' = [cpu EXCEPT ![c] = [NextSlot(c) EXCEPT !.highest = i,
                                                  !.min_dp = proc[i].dp]]
  /\ UNCHANGED <<proc, lock, tickslock, ticks, nextpid, clk, scan>>

\* The loser of a comparison is released.
Reject(c, q) ==
  /\ lock' = [lock EXCEPT ![q] = None]
  /\ scan' = [scan EXCEPT ![c].rejected = @ \cup {q}]

SchedKeep(c) ==
  LET i == cpu[c].i IN
  /\ At(c, "look")
  /\ proc[i].state = "RUNNABLE"
  /\ cpu[c].highest # None
  /\ ~Better(i, cpu[c].min_dp, cpu[c].highest)
  /\ Reject(c, i)
  /\ cpu' = [cpu EXCEPT ![c] = NextSlot(c)]
  /\ UNCHANGED <<proc, tickslock, ticks, nextpid, clk>>

\* A better process takes over.  Its dp is read a second time (SchedTake)
\* after release() of the other lock.
SchedReplace(c) ==
  LET i == cpu[c].i IN
  /\ At(c, "look")
  /\ proc[i].state = "RUNNABLE"
  /\ cpu[c].highest # None
  /\ Better(i, cpu[c].min_dp, cpu[c].highest)
  /\ Reject(c, cpu[c].highest)
  /\ cpu' = [cpu EXCEPT ![c].pc = "take", ![c].highest = i]
  /\ UNCHANGED <<proc, tickslock, ticks, nextpid, clk>>

SchedTake(c) ==
  /\ At(c, "take")
  /\ cpu' = [cpu EXCEPT ![c] = [NextSlot(c) EXCEPT
                                  !.min_dp = proc[cpu[c].i].dp]]
  /\ UNCHANGED <<proc, lock, tickslock, ticks, nextpid, clk, scan>>

\* End of the walk: switch to the winner, which still has its lock held by
\* this CPU, or start again.
Dispatch(c) ==
  LET h == cpu[c].highest IN
  /\ At(c, "scan")
  /\ cpu[c].i = NPROC
  /\ IF h = None
     THEN cpu' = [cpu EXCEPT ![c] = NewCpu] /\ UNCHANGED proc
     ELSE /\ proc' = [proc EXCEPT ![h].state = "RUNNING", ![h].rntime = 0,
                                  ![h].stime = 0, ![h].num_sch = @ + 1]
          /\ cpu' = [cpu EXCEPT ![c] = [NewCpu EXCEPT !.proc = h,
                                                      !.pc = "resume"]]
  /\ scan' = [scan EXCEPT ![c] = NewScan]
  /\ UNCHANGED <<lock, tickslock, ticks, nextpid, clk>>

\* The process releases its own lock: end of sched()'s callers, or forkret().
Resume(c) ==
  /\ At(c, "resume")
  /\ lock' = [lock EXCEPT ![cpu[c].proc] = None]
  /\ Goto(c, "run")
  /\ UNCHANGED <<proc, tickslock, ticks, nextpid, clk, scan>>

\* Back in scheduler() after swtch().
SchedReturn(c) ==
  /\ At(c, "swtch")
  /\ lock' = [lock EXCEPT ![cpu[c].proc] = None]
  /\ cpu' = [cpu EXCEPT ![c] = NewCpu]
  /\ UNCHANGED <<proc, tickslock, ticks, nextpid, clk, scan>>

-----------------------------------------------------------------------------
(* What the running process does *)

\* Slip: the lock is given back before swtch().
Leave_unlocked(c, new) ==
  LET p == cpu[c].proc IN
  /\ Free(p)
  /\ proc' = [proc EXCEPT ![p] = new]
  /\ Goto(c, "swtch")
  /\ UNCHANGED lock

\* Change the state of the running process with its lock held, and keep the
\* lock across swtch().
Leave(c, new) ==
  LET p == cpu[c].proc IN
  /\ Free(p)
  /\ lock' = [lock EXCEPT ![p] = c]
  /\ proc' = [proc EXCEPT ![p] = new]
  /\ Goto(c, "swtch")

\* yield(), after a timer interrupt or from set_priority.  On CPU 0 a timer
\* interrupt first runs clockintr(), which ends at "yield".
Yield(c) ==
  /\ At(c, "yield") \/ (At(c, "run") /\ c # 0)
  /\ Leave(c, [proc[cpu[c].proc] EXCEPT !.state = "RUNNABLE"])
  /\ UNCHANGED <<tickslock, ticks, nextpid, clk, scan>>

\* sleep() in a system call that waits for an event other than the clock.
Sleep(c) ==
  /\ At(c, "run")
  /\ Leave(c, [proc[cpu[c].proc] EXCEPT !.state = "SLEEPING", !.chan = "event"])
  /\ UNCHANGED <<tickslock, ticks, nextpid, clk, scan>>

\* sys_sleep(): with tickslock held it tests the clock, and sleeps or
\* returns.  A process that was woken comes back here through "run".
TicksAcquire(c) ==
  /\ At(c, "run")
  /\ tickslock = None
  /\ tickslock' = c
  /\ Goto(c, "sleep")
  /\ UNCHANGED <<proc, lock, ticks, nextpid, clk, scan>>

\* The time is over (or sys_uptime(), which only reads ticks).
TicksRelease(c) ==
  /\ At(c, "sleep")
  /\ tickslock' = None
  /\ Goto(c, "run")
  /\ UNCHANGED <<proc, lock, ticks, nextpid, clk, scan>>

\* sleep(&ticks, &tickslock) takes p->lock, then drops tickslock.
SleepTicks(c) ==
  /\ At(c, "sleep")
  /\ Leave(c, [proc[cpu[c].proc] EXCEPT !.state = "SLEEPING", !.chan = "ticks"])
  /\ tickslock' = None
  /\ UNCHANGED <<ticks, nextpid, clk, scan>>

\* The test of wakeup() on one slot.
Woken(q, chan) ==
  IF proc[q].state = "SLEEPING" /\ proc[q].chan = chan
  THEN [proc EXCEPT ![q].state = "RUNNABLE"] ELSE proc

\* wakeup() for the event that q waits for.
Wakeup(c, q) ==
  /\ At(c, "run")
  /\ q # cpu[c].proc
  /\ Free(q)
  /\ proc[q].state = "SLEEPING" /\ proc[q].chan = "event"
  /\ proc' = Woken(q, "event")
  /\ UNCHANGED <<lock, tickslock, ticks, nextpid, cpu, clk, scan>>

\* exit().
Exit(c) ==
  /\ At(c, "run")
  /\ cpu[c].proc # 0
  /\ Leave(c, [proc[cpu[c].proc] EXCEPT !.state = "ZOMBIE", !.etime = ticks])
  /\ UNCHANGED <<tickslock, ticks, nextpid, clk, scan>>

\* wait() or waitx() and freeproc().  (freeproc() leaves rtime, ctime and
\* etime, which nothing reads in an UNUSED slot.)
Wait(c, q) ==
  /\ At(c, "run")
  /\ Free(q)
  /\ proc[q].state = "ZOMBIE"
  /\ proc' = [proc EXCEPT ![q] = NewProc]
  /\ UNCHANGED <<lock, tickslock, ticks, nextpid, cpu, clk, scan>>

\* A dp that changes outside a walk's control.
Disturb ==
  scan' = [c \in CPUs |-> [scan[c] EXCEPT
             !.clean = cpu[c].pc \notin {"scan", "look", "take"}]]

\* fork(): allocproc() with the child's lock held, then RUNNABLE in a second
\* critical section.
Fork(c, q) ==
  /\ At(c, "run")
  /\ Free(q)
  /\ proc[q].state = "UNUSED"
  /\ nextpid <= MaxPid
  /\ nextpid' = nextpid + 1
  /\ proc' = [proc EXCEPT ![q] = [NewProc EXCEPT !.state = "USED",
                                                 !.pid = nextpid,
                                                 !.ctime = ticks]]
  /\ cpu' = [cpu EXCEPT ![c].pc = "fork", ![c].i = q]
  /\ Disturb
  /\ UNCHANGED <<lock, tickslock, ticks, clk>>

ForkDone(c) ==
  LET q == cpu[c].i IN
  /\ At(c, "fork")
  /\ Free(q)
  /\ proc' = [proc EXCEPT ![q].state = "RUNNABLE"]
  /\ cpu' = [cpu EXCEPT ![c].pc = "run", ![c].i = 0]
  /\ UNCHANGED <<lock, tickslock, ticks, nextpid, clk, scan>>

\* set_priority(pid, prio), without any lock.  The search ends at the first
\* slot with that pid; if there is none, the code goes on with the memory
\* after proc[NPROC], where what it reads as the old priority is unknown and
\* what it overwrites is not part of the model.
set_priority(c, pid, prio) ==
  LET found == {p \in Procs : proc[p].pid = pid}
      q == CHOOSE p \in found : \A r \in found : p <= r
  IN
  /\ At(c, "run")
  /\ prio \in 0 .. 100                  \* else return -1
  /\ IF found # {}
     THEN /\ proc' = [proc EXCEPT ![q].sp = prio]
          /\ Goto(c, IF prio < proc[q].sp THEN "yield" ELSE "run")
     ELSE /\ \E pc \in {"yield", "run"} : Goto(c, pc)
          /\ UNCHANGED proc
  /\ UNCHANGED <<lock, tickslock, ticks, nextpid, clk, scan>>

-----------------------------------------------------------------------------
(* clockintr() *)

\* CPU 0 can be interrupted while it holds no lock: in user code, or in
\* scheduler() before the first runnable process is found.
Interruptible ==
  \/ cpu[0].pc \in {"loop", "run"}
  \/ cpu[0].pc = "scan" /\ cpu[0].highest = None

ClockStart ==
  /\ clk.pc = "idle"
  /\ Interruptible
  /\ ticks < MaxTicks
  /\ tickslock = None
  /\ tickslock' = 0
  /\ ticks' = ticks + 1
  /\ clk' = [IdleClk EXCEPT !.pc = "update"]
  /\ UNCHANGED <<proc, lock, nextpid, cpu, scan>>

\* One iteration of update_time().
Counted(r) ==
  CASE r.state = "RUNNING"  -> [r EXCEPT !.rntime = @ + 1, !.rtime = @ + 1]
    [] r.state = "SLEEPING" -> [r EXCEPT !.stime = @ + 1]
    [] r.state = "RUNNABLE" -> [r EXCEPT !.wtime = @ + 1]
    [] OTHER -> r

\* The next slot of a loop of clockintr(), or the next loop.
ClkStep(next) ==
  clk' = IF clk.i + 1 < NPROC
         THEN [clk EXCEPT !.i = @ + 1] ELSE [IdleClk EXCEPT !.pc = next]

UpdateTime ==
  LET i == clk.i IN
  /\ clk.pc = "update"
  /\ Free(i)
  /\ proc' = [proc EXCEPT ![i] = Counted(@)]
  /\ ClkStep("read")
  /\ UNCHANGED <<lock, tickslock, ticks, nextpid, cpu, scan>>

\* C division truncates towards zero; den > 0.
TruncDiv(num, den) == IF num >= 0 THEN num \div den ELSE -((-num) \div den)

Rbi(r, s, w) ==
  LET quot == TruncDiv((3 * r - s - w) * 50, r + s + w + 1) IN
  IF r = 0 /\ w = 0 /\ s = 0 THEN PBS_DEF_RBI
  ELSE IF 0 > quot THEN 0 ELSE quot

Dp(sp, rbi) == IF 100 < sp + rbi THEN 100 ELSE sp + rbi

\* The unlocked loop over the table: read the times of slot i ...
ClockRead ==
  LET i == clk.i IN
  /\ clk.pc = "read"
  /\ IF proc[i].state = "UNUSED"
     THEN ClkStep("wakeup")
     ELSE clk' = [clk EXCEPT !.pc = "write", !.rntime = proc[i].rntime,
                             !.stime = proc[i].stime]
  /\ UNCHANGED <<proc, lock, tickslock, ticks, nextpid, cpu, scan>>

\* ... and write rbi and dp.  Another CPU may have dispatched the process in
\* between, so each time is the value before or after that.
ClockWrite ==
  LET i == clk.i IN
  /\ clk.pc = "write"
  /\ \E r \in {clk.rntime, proc[i].rntime}, s \in {clk.stime, proc[i].stime} :
       LET rbi == Rbi(r, s, proc[i].wtime) IN
       proc' = [proc EXCEPT ![i].rbi = rbi, ![i].dp = Dp(proc[i].sp, rbi)]
  /\ clk' = IF i + 1 < NPROC
            THEN [IdleClk EXCEPT !.pc = "read", !.i = i + 1]
            ELSE [IdleClk EXCEPT !.pc = "wakeup"]
  /\ Disturb
  /\ UNCHANGED <<lock, tickslock, ticks, nextpid, cpu>>

\* wakeup(&ticks), one slot; it skips the process that was interrupted.
ClockWakeup ==
  LET i == clk.i IN
  /\ clk.pc = "wakeup"
  /\ IF i = cpu[0].proc THEN UNCHANGED proc
     ELSE Free(i) /\ proc' = Woken(i, "ticks")
  /\ ClkStep("end")
  /\ UNCHANGED <<lock, tickslock, ticks, nextpid, cpu, scan>>

\* Release tickslock; the interrupted process, if any, yields.
ClockEnd ==
  /\ clk.pc = "end"
  /\ tickslock' = None
  /\ clk' = IdleClk
  /\ IF cpu[0].pc = "run" THEN Goto(0, "yield") ELSE UNCHANGED cpu
  /\ UNCHANGED <<proc, lock, ticks, nextpid, scan>>

-----------------------------------------------------------------------------
CpuStep(c) ==
  \/ SchedStart(c) \/ SchedAcquire(c)
  \/ SchedSkip(c) \/ SchedFirst(c) \/ SchedKeep(c) \/ SchedReplace(c)
  \/ SchedTake(c)
  \/ Dispatch(c) \/ Resume(c) \/ SchedReturn(c)
  \/ Yield(c) \/ Sleep(c) \/ TicksAcquire(c) \/ TicksRelease(c)
  \/ SleepTicks(c)
  \/ Exit(c) \/ ForkDone(c)

ClockStep ==
  \/ ClockStart \/ UpdateTime \/ ClockRead \/ ClockWrite
  \/ ClockWakeup \/ ClockEnd

Next ==
  \/ \E c \in CPUs :
       \/ CpuStep(c)
       \/ \E q \in Procs : Wakeup(c, q) \/ Wait(c, q) \/ Fork(c, q)
       \/ \E pid \in Pids, prio \in Priorities : set_priority(c, pid, prio)
  \/ ClockStep

Spec == Init /\ [][Next]_vars

-----------------------------------------------------------------------------
(* Properties *)

\* A process is on one CPU at a time, and it is there while it is RUNNING:
\* holding p->lock from the choice in scheduler() to the process's first
\* step, and from yield(), sleep() or exit() to the end of swtch(), keeps a
\* second CPU from using the same kernel stack.
OneCpuPerProcess ==
  /\ \A c, d \in CPUs : cpu[c].proc # None /\ cpu[c].proc = cpu[d].proc => c = d
  /\ \A p \in Procs : proc[p].state = "RUNNING" => \E c \in CPUs : cpu[c].proc = p

\* The order that the report promises: dp, then times scheduled, then age.
Precedes(p, q) ==
  LET a == proc[p]
      b == proc[q]
  IN \/ a.dp < b.dp
     \/ a.dp = b.dp /\ a.num_sch < b.num_sch
     \/ a.dp = b.dp /\ a.num_sch = b.num_sch /\ a.ctime < b.ctime

\* At the end of a walk during which no priority was rewritten, no process
\* that the walk turned down and that is RUNNABLE precedes the chosen one.
ChoosesBest ==
  \A c \in CPUs :
    cpu[c].pc = "scan" /\ cpu[c].i = NPROC /\ cpu[c].highest # None
      /\ scan[c].clean
    => \A q \in scan[c].rejected :
         proc[q].state = "RUNNABLE" => ~Precedes(q, cpu[c].highest)

\* The holder of the spinlock that CPU c waits for.
WaitsFor(c) ==
  IF c = 0 /\ clk.pc \in {"update", "wakeup"} THEN lock[clk.i]
  ELSE IF c = 0 /\ clk.pc # "idle" THEN None
  ELSE CASE cpu[c].pc = "scan" /\ cpu[c].i < NPROC -> lock[cpu[c].i]
         [] cpu[c].pc \in {"sleep", "yield"} -> lock[cpu[c].proc]
         [] cpu[c].pc = "fork" -> lock[cpu[c].i]
         [] OTHER -> None

\* No set of CPUs waits for one another's spinlocks, although scheduler()
\* holds one process lock while it asks for the next, and clockintr() and
\* sleep() ask for process locks with tickslock held.
NoLockCycle ==
  \A S \in SUBSET CPUs : S # {} => \E c \in S : WaitsFor(c) \notin S

=============================================================================
