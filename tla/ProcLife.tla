------------------------------ MODULE ProcLife ------------------------------
(***************************************************************************)
(* The life of a process (proc.c): fork, exit, wait and kill, the tree of  *)
(* parents, and sleep and wakeup between a parent and its children.        *)
(*                                                                         *)
(* Any number of processes are inside the kernel at once.  A step is what  *)
(* one of them does under one lock; where a lock stays held while another  *)
(* one is taken, or across swtch(), its holder is part of the state.  The  *)
(* scheduler is reduced to its effect: a RUNNABLE process goes on, holding *)
(* p->lock, at some time (module Pbs has the scheduler itself).            *)
(***************************************************************************)
EXTENDS Naturals

CONSTANTS NPROC,     \* slots of the process table
          MaxCalls   \* bound on the system calls made, init's wait() apart

ASSUME ProcAssumption == NPROC \in Nat \ {0} /\ MaxCalls \in Nat

Slots == 1 .. NPROC
initproc == 1
Nobody == 0          \* no process: a free lock, no parent
Ticks == NPROC + 1   \* a channel that is not a process: &ticks

VARIABLES
  state,      \* p->state
  parent,     \* p->parent, or Nobody
  chan,       \* p->chan: a process, Ticks, or Nobody for 0
  killed,     \* p->killed
  plock,      \* who holds p->lock
  wait_lock,  \* who holds wait_lock
  th,         \* kernel thread of a process: place pc, loop variables pp (slot),
              \* w (slot in wakeup), havekids, and np, the child in fork()
  calls       \* system calls made so far

vars == <<state, parent, chan, killed, plock, wait_lock, th, calls>>

Thread(where) == [pc |-> where, pp |-> 1, w |-> 1, havekids |-> FALSE,
                  np |-> Nobody]

\* The table after userinit(), with init on its first way to user space.
Init ==
  /\ state = [p \in Slots |-> IF p = initproc THEN "RUNNABLE" ELSE "UNUSED"]
  /\ parent = [p \in Slots |-> Nobody]
  /\ chan = [p \in Slots |-> Nobody]
  /\ killed = [p \in Slots |-> FALSE]
  /\ plock = [p \in Slots |-> Nobody]
  /\ wait_lock = Nobody
  /\ th = [p \in Slots |-> Thread(IF p = initproc THEN "forkret" ELSE "none")]
  /\ calls = 0

At(p, where) == th[p].pc = where
Goto(p, where) == th' = [th EXCEPT ![p].pc = where]
Free(p) == plock[p] = Nobody

\* A process in user space makes a system call, which usertrap() lets through
\* when it has not been killed.
Syscall(p) ==
  /\ At(p, "user")
  /\ ~killed[p]
  /\ calls < MaxCalls
  /\ calls' = calls + 1

-----------------------------------------------------------------------------
\* scheduler(): a RUNNABLE process is switched to, with p->lock held, and goes
\* on in forkret() or behind the sched() of sleep(), which release it.
Resume(p) ==
  /\ state[p] = "RUNNABLE"
  /\ Free(p)
  /\ state' = [state EXCEPT ![p] = "RUNNING"]
  /\ chan' = [chan EXCEPT ![p] = Nobody]
  /\ Goto(p, IF At(p, "waiting") THEN "wait" ELSE "user")
  /\ UNCHANGED <<parent, killed, plock, wait_lock, calls>>

\* The scheduler takes over from a process that called sched(), and releases
\* the p->lock the process holds.  An exited thread never comes back.
Leave(p) ==
  /\ th[p].pc \in {"gone", "dozing"}
  /\ plock' = [plock EXCEPT ![p] = Nobody]
  /\ th' = [th EXCEPT ![p] = Thread(IF At(p, "gone") THEN "none" ELSE "waiting")]
  /\ UNCHANGED <<state, parent, chan, killed, wait_lock, calls>>

freeproc(p) ==
  /\ state' = [state EXCEPT ![p] = "UNUSED"]
  /\ parent' = [parent EXCEPT ![p] = Nobody]
  /\ chan' = [chan EXCEPT ![p] = Nobody]
  /\ killed' = [killed EXCEPT ![p] = FALSE]

-----------------------------------------------------------------------------
\* fork(): allocproc() finds an UNUSED slot and keeps its lock.  A fork() that
\* finds none changes nothing.
Fork(p) ==
  /\ Syscall(p)
  /\ \E np \in Slots :
       /\ Free(np)
       /\ state[np] = "UNUSED"
       /\ state' = [state EXCEPT ![np] = "USED"]
       /\ plock' = [plock EXCEPT ![np] = p]
       /\ th' = [th EXCEPT ![p].pc = "copy", ![p].np = np,
                           ![np] = Thread("forkret")]
  /\ UNCHANGED <<parent, chan, killed, wait_lock>>

\* No memory for the trap frame, the page table or uvmcopy().
ForkFail(p) ==
  LET np == th[p].np IN
  /\ At(p, "copy")
  /\ freeproc(np)
  /\ plock' = [plock EXCEPT ![np] = Nobody]
  /\ th' = [th EXCEPT ![p] = Thread("user"), ![np] = Thread("none")]
  /\ UNCHANGED <<wait_lock, calls>>

\* Slip: np->parent is set, under wait_lock, while np->lock is still held.
ForkCopied_links_first(p) ==
  /\ At(p, "copy")
  /\ wait_lock = Nobody
  /\ parent' = [parent EXCEPT ![th[p].np] = p]
  /\ plock' = [plock EXCEPT ![th[p].np] = Nobody]
  /\ Goto(p, "start")
  /\ UNCHANGED <<state, chan, killed, wait_lock, calls>>

\* Memory and open files are copied; np->lock is released before wait_lock is
\* taken, because everyone takes them in the other order.
ForkCopied(p) ==
  /\ At(p, "copy")
  /\ plock' = [plock EXCEPT ![th[p].np] = Nobody]
  /\ Goto(p, "link")
  /\ UNCHANGED <<state, parent, chan, killed, wait_lock, calls>>

ForkLink(p) ==
  /\ At(p, "link")
  /\ wait_lock = Nobody
  /\ parent' = [parent EXCEPT ![th[p].np] = p]
  /\ Goto(p, "start")
  /\ UNCHANGED <<state, chan, killed, plock, wait_lock, calls>>

ForkStart(p) ==
  LET np == th[p].np IN
  /\ At(p, "start")
  /\ Free(np)
  /\ state' = [state EXCEPT ![np] = "RUNNABLE"]
  /\ th' = [th EXCEPT ![p] = Thread("user")]
  /\ UNCHANGED <<parent, chan, killed, plock, wait_lock, calls>>

-----------------------------------------------------------------------------
\* exit(), called by the program, by usertrap() for a fault, or at the next
\* trap of a process that has been killed.  init does not call it.
Exit(p) ==
  /\ At(p, "user")
  /\ p # initproc
  /\ Goto(p, "exit")
  /\ UNCHANGED <<state, parent, chan, killed, plock, wait_lock, calls>>

ExitLock(p) ==
  /\ At(p, "exit")
  /\ wait_lock = Nobody
  /\ wait_lock' = p
  /\ th' = [th EXCEPT ![p] = Thread("reparent")]
  /\ UNCHANGED <<state, parent, chan, killed, plock, calls>>

\* Slip: children that have exited already are not passed on.
Abandons_unless_zombie(p, pp) == parent[pp] = p /\ state[pp] # "ZOMBIE"
Abandons(p, pp) == parent[pp] = p

\* Slip: init is not told of its new child.
AfterReparent_no_wakeup(p) == [th[p] EXCEPT !.pp = @ + 1]
AfterReparent(p) == [th[p] EXCEPT !.pc = "wakeup init", !.w = 1]

\* One round of the loop of reparent().
Reparent(p) ==
  LET pp == th[p].pp IN
  /\ At(p, "reparent")
  /\ IF pp > NPROC
     THEN /\ th' = [th EXCEPT ![p].pc = "wakeup parent", ![p].w = 1]
          /\ UNCHANGED parent
     ELSE IF Abandons(p, pp)
     THEN /\ parent' = [parent EXCEPT ![pp] = initproc]
          /\ th' = [th EXCEPT ![p] = AfterReparent(p)]
     ELSE /\ th' = [th EXCEPT ![p].pp = @ + 1]
          /\ UNCHANGED parent
  /\ UNCHANGED <<state, chan, killed, plock, wait_lock, calls>>

\* The loop of wakeup(c) looks at one slot, under its lock.
WakeSlot(p, c) ==
  LET q == th[p].w IN
  /\ q \in Slots
  /\ q # p => Free(q)
  /\ state' = IF q # p /\ state[q] = "SLEEPING" /\ chan[q] = c
              THEN [state EXCEPT ![q] = "RUNNABLE"] ELSE state
  /\ th' = [th EXCEPT ![p].w = @ + 1]

WakeupInit(p) ==
  /\ At(p, "wakeup init")
  /\ \/ WakeSlot(p, initproc)
     \/ /\ th[p].w > NPROC
        /\ th' = [th EXCEPT ![p].pc = "reparent", ![p].pp = @ + 1]
        /\ UNCHANGED state
  /\ UNCHANGED <<parent, chan, killed, plock, wait_lock, calls>>

WakeupParent(p) ==
  /\ At(p, "wakeup parent")
  /\ \/ WakeSlot(p, parent[p])
     \/ /\ th[p].w > NPROC
        /\ Goto(p, "zombie")
        /\ UNCHANGED state
  /\ UNCHANGED <<parent, chan, killed, plock, wait_lock, calls>>

\* Slip: exit() goes into the scheduler with wait_lock.
ExitZombie_keeps_wait_lock(p) ==
  /\ At(p, "zombie")
  /\ Free(p)
  /\ plock' = [plock EXCEPT ![p] = p]
  /\ state' = [state EXCEPT ![p] = "ZOMBIE"]
  /\ Goto(p, "gone")
  /\ UNCHANGED <<parent, chan, killed, wait_lock, calls>>

\* The process keeps p->lock until the scheduler has left its stack.
ExitZombie(p) ==
  /\ At(p, "zombie")
  /\ Free(p)
  /\ plock' = [plock EXCEPT ![p] = p]
  /\ state' = [state EXCEPT ![p] = "ZOMBIE"]
  /\ wait_lock' = Nobody
  /\ Goto(p, "gone")
  /\ UNCHANGED <<parent, chan, killed, calls>>

-----------------------------------------------------------------------------
\* wait() and waitx().  init calls wait() for ever, after it has started a
\* shell, so that it has a child whenever it calls.
Wait(p) ==
  /\ \/ p # initproc /\ Syscall(p)
     \/ /\ p = initproc
        /\ At(p, "user")
        /\ \E q \in Slots : parent[q] = p
        /\ UNCHANGED calls
  /\ Goto(p, "wait")
  /\ UNCHANGED <<state, parent, chan, killed, plock, wait_lock>>

WaitLock(p) ==
  /\ At(p, "wait")
  /\ wait_lock = Nobody
  /\ wait_lock' = p
  /\ th' = [th EXCEPT ![p] = Thread("scan")]
  /\ UNCHANGED <<state, parent, chan, killed, plock, calls>>

\* Slip: the child's lock is not taken, so it may still be in swtch().
MayLook_unlocked(q) == TRUE
MayLook(q) == Free(q)

\* The scan passes a slot: not a child, or a child that has not exited.
WaitPass(p) ==
  LET pp == th[p].pp IN
  /\ At(p, "scan")
  /\ pp \in Slots
  /\ parent[pp] = p => MayLook(pp) /\ state[pp] # "ZOMBIE"
  /\ th' = [th EXCEPT ![p].pp = @ + 1,
                      ![p].havekids = @ \/ parent[pp] = p]
  /\ UNCHANGED <<state, parent, chan, killed, plock, wait_lock, calls>>

\* The scan finds a zombie and frees it, or cannot store its status at the
\* address the program gave (init gives none) and returns -1.
WaitReap(p) ==
  LET pp == th[p].pp IN
  /\ At(p, "scan")
  /\ pp \in Slots
  /\ parent[pp] = p
  /\ MayLook(pp)
  /\ state[pp] = "ZOMBIE"
  /\ \/ freeproc(pp)
     \/ p # initproc /\ UNCHANGED <<state, parent, chan, killed>>
  /\ wait_lock' = Nobody
  /\ th' = [th EXCEPT ![p] = Thread("user")]
  /\ UNCHANGED <<plock, calls>>

\* All slots seen: nothing to wait for, or killed(p), which takes p->lock.
WaitNone(p) ==
  /\ At(p, "scan")
  /\ th[p].pp > NPROC
  /\ ~th[p].havekids \/ (Free(p) /\ killed[p])
  /\ wait_lock' = Nobody
  /\ th' = [th EXCEPT ![p] = Thread("user")]
  /\ UNCHANGED <<state, parent, chan, killed, plock, calls>>

WaitMore(p) ==
  /\ At(p, "scan")
  /\ th[p].pp > NPROC
  /\ Free(p)
  /\ th[p].havekids /\ ~killed[p]
  /\ Goto(p, "sleep")
  /\ UNCHANGED <<state, parent, chan, killed, plock, wait_lock, calls>>

\* sleep(p, &wait_lock): p->lock is taken, then wait_lock released.
SleepLock(p) ==
  /\ At(p, "sleep")
  /\ Free(p)
  /\ plock' = [plock EXCEPT ![p] = p]
  /\ wait_lock' = Nobody
  /\ Goto(p, "asleep")
  /\ UNCHANGED <<state, parent, chan, killed, calls>>

SleepOn(p) ==
  /\ At(p, "asleep")
  /\ state' = [state EXCEPT ![p] = "SLEEPING"]
  /\ chan' = [chan EXCEPT ![p] = p]
  /\ Goto(p, "dozing")
  /\ UNCHANGED <<parent, killed, plock, wait_lock, calls>>

-----------------------------------------------------------------------------
\* sys_sleep(): a sleep on something else than a child, that the clock ends.
\* init.c makes no such call, and no kill() either.
Pause(p) ==
  /\ p # initproc
  /\ Syscall(p)
  /\ Free(p)
  /\ state' = [state EXCEPT ![p] = "SLEEPING"]
  /\ chan' = [chan EXCEPT ![p] = Ticks]
  /\ Goto(p, "paused")
  /\ UNCHANGED <<parent, killed, plock, wait_lock>>

ClockWakes(q) ==
  /\ state[q] = "SLEEPING"
  /\ chan[q] = Ticks
  /\ Free(q)
  /\ state' = [state EXCEPT ![q] = "RUNNABLE"]
  /\ UNCHANGED <<parent, chan, killed, plock, wait_lock, th, calls>>

\* kill(pid) for the pid of slot q, which is 0 while the slot is UNUSED.  A
\* pid that no slot has changes nothing.  Nobody kills init.
kill(p, q) ==
  /\ p # initproc
  /\ Syscall(p)
  /\ q # initproc
  /\ Free(q)
  /\ killed' = [killed EXCEPT ![q] = TRUE]
  /\ state' = IF state[q] = "SLEEPING"
              THEN [state EXCEPT ![q] = "RUNNABLE"] ELSE state
  /\ UNCHANGED <<parent, chan, plock, wait_lock, th>>

-----------------------------------------------------------------------------
\* What a thread does once it is in the kernel, and what the scheduler and
\* init owe it.
Proceed(p) ==
  \/ Resume(p) \/ Leave(p)
  \/ ForkCopied(p) \/ ForkLink(p) \/ ForkStart(p)
  \/ ExitLock(p) \/ Reparent(p) \/ WakeupInit(p) \/ WakeupParent(p)
  \/ ExitZombie(p)
  \/ WaitLock(p) \/ WaitPass(p) \/ WaitReap(p) \/ WaitNone(p) \/ WaitMore(p)
  \/ SleepLock(p) \/ SleepOn(p)

Choose(p) ==
  \/ Fork(p) \/ ForkFail(p) \/ Exit(p) \/ Wait(p) \/ Pause(p) \/ ClockWakes(p)
  \/ \E q \in Slots : kill(p, q)

Next == \E p \in Slots : Proceed(p) \/ Choose(p)

Spec == Init /\ [][Next]_vars

\* A thread inside the kernel goes on when the locks it needs are free, and
\* init waits again.  Nobody has to make a system call or to exit, except who
\* has been killed and meets the next timer interrupt.
Fairness ==
  /\ \A p \in Slots : WF_vars(Proceed(p))
  /\ \A p \in Slots : WF_vars(killed[p] /\ Exit(p))
  /\ WF_vars(Wait(initproc))

LiveSpec == Spec /\ Fairness

-----------------------------------------------------------------------------
\* Somebody can reap every process that runs or has exited: it has a parent,
\* and the parent has not exited itself.  This is what reparent() in exit(),
\* and the order parent-then-RUNNABLE in fork(), are for.
LiveParent ==
  \A q \in Slots \ {initproc} :
    state[q] \notin {"UNUSED", "USED"} =>
      parent[q] # Nobody /\ state[parent[q]] \notin {"UNUSED", "USED", "ZOMBIE"}

\* Nobody sleeps in wait() for nothing.  The sleeper has a child: a slot that
\* freeproc() gave back must not look like one, nor a child handed to init.
\* And no child of it has exited: the exit either comes before the scan or
\* finds the parent asleep and wakes it, also when the child was passed to
\* init only after its exit.
WaitsWithReason ==
  \A p \in Slots :
    state[p] = "SLEEPING" /\ chan[p] = p =>
      /\ \E q \in Slots : parent[q] = p /\ state[q] # "UNUSED"
      /\ wait_lock = Nobody =>
           ~\E q \in Slots : parent[q] = p /\ state[q] = "ZOMBIE"

\* When wait() frees a slot, the thread that lived in it has left its kernel
\* stack: exit() holds p->lock from ZOMBIE until the scheduler has switched.
ReapedIsGone ==
  \A q \in Slots : state[q] = "UNUSED" => At(q, "none")

\* An exited process whose parent is init, an orphan above all, is reaped.
OrphanReaped ==
  \A q \in Slots :
    state[q] = "ZOMBIE" /\ parent[q] = initproc ~> state[q] = "UNUSED"

\* fork() returns and exit() ends, whatever the others are doing: the locks
\* they take one after the other never make processes wait for each other.
CallsFinish ==
  \A p \in Slots :
    /\ th[p].pc \in {"copy", "link", "start"} ~> At(p, "user")
    /\ At(p, "exit") ~> state[p] = "ZOMBIE"

=============================================================================
