--------------------------- MODULE ProcLifeProofs ---------------------------
(***************************************************************************)
(* Proofs about ProcLife, for every number of slots: every process that    *)
(* runs or has exited has a parent that can reap it, nobody sleeps in      *)
(* wait() for nothing, and a slot is only freed when its thread has left   *)
(* its kernel stack.                                                       *)
(*                                                                         *)
(* The invariant says, for every place of fork(), exit() and wait(), which *)
(* state the process is in, which locks it holds, and how far its loop     *)
(* over the process table has come.                                        *)
(***************************************************************************)
EXTENDS ProcLife, TLAPS

States == {"UNUSED", "USED", "RUNNABLE", "RUNNING", "SLEEPING", "ZOMBIE"}
Running == {"user", "copy", "link", "start", "exit", "reparent", "wakeup init",
            "wakeup parent", "zombie", "wait", "scan", "sleep", "asleep"}
Places == Running \cup {"none", "forkret", "gone", "dozing", "waiting", "paused"}

Locals == [pc : Places, pp : Nat \ {0}, w : Nat \ {0}, havekids : BOOLEAN,
           np : Slots \cup {Nobody}]

TypeOK ==
  /\ state \in [Slots -> States]
  /\ parent \in [Slots -> Slots \cup {Nobody}]
  /\ chan \in [Slots -> Slots \cup {Nobody, Ticks}]
  /\ plock \in [Slots -> Slots \cup {Nobody}]
  /\ wait_lock \in Slots \cup {Nobody}
  /\ th \in [Slots -> Locals]

\* Where the thread of a process is, given p->state.
PlaceOK(p) ==
  /\ state[p] = "UNUSED" => At(p, "none")
  /\ state[p] = "USED" => At(p, "forkret")
  /\ state[p] = "RUNNABLE" => th[p].pc \in {"forkret", "waiting", "paused"}
  /\ state[p] = "RUNNING" <=> th[p].pc \in Running
  /\ state[p] = "SLEEPING" => th[p].pc \in {"dozing", "waiting", "paused"}
  /\ state[p] = "ZOMBIE" => th[p].pc \in {"gone", "none"}
  /\ At(p, "dozing") => state[p] = "SLEEPING" /\ chan[p] = p
  /\ At(p, "gone") => state[p] = "ZOMBIE"

\* The places at which a process holds wait_lock.
Waiters == {"reparent", "wakeup init", "wakeup parent", "zombie", "scan", "sleep"}
Exiting == {"exit", "reparent", "wakeup init", "wakeup parent", "zombie", "gone"}
Forking == {"copy", "link", "start"}

LockOK(p) ==
  /\ th[p].pc \in Waiters => wait_lock = p
  /\ th[p].pc \in {"asleep", "dozing", "gone"} => plock[p] = p

\* The slot that fork() is filling.
ForkOK(p) ==
  th[p].pc \in Forking =>
    LET np == th[p].np IN
    /\ np \in Slots /\ state[np] = "USED"
    /\ At(p, "copy") => plock[np] = p
    /\ parent[np] = IF At(p, "start") THEN p ELSE Nobody
    /\ \A r \in Slots : r # p /\ th[r].pc \in Forking => th[r].np # np

ParentOK(q) ==
  /\ parent[q] # Nobody => state[parent[q]] \in {"RUNNABLE", "RUNNING", "SLEEPING"}
  /\ q # initproc /\ state[q] \notin {"UNUSED", "USED"} => parent[q] # Nobody
  /\ state[q] = "UNUSED" => parent[q] = Nobody

InitOK ==
  /\ state[initproc] \notin {"UNUSED", "USED", "ZOMBIE"}
  /\ th[initproc].pc \notin Exiting
  /\ parent[initproc] = Nobody

\* How far exit() has come in passing on the children of p.
ExitOK(p) ==
  /\ At(p, "reparent") => \A q \in Slots : q < th[p].pp => parent[q] # p
  /\ At(p, "wakeup init") =>
       th[p].pp \in Slots /\ \A q \in Slots : q <= th[p].pp => parent[q] # p
  /\ th[p].pc \in {"wakeup parent", "zombie"} => \A q \in Slots : parent[q] # p

\* How far wait() has come in looking for a child that has exited.
ScanOK(p) ==
  /\ At(p, "scan") =>
       /\ th[p].havekids => \E q \in Slots : parent[q] = p
       /\ \A q \in Slots : q < th[p].pp /\ parent[q] = p => state[q] # "ZOMBIE"
  /\ At(p, "sleep") =>
       /\ \E q \in Slots : parent[q] = p
       /\ \A q \in Slots : parent[q] = p => state[q] # "ZOMBIE"

\* p sleeps in wait(), or has given up wait_lock in order to do so.
Sleeper(p) == At(p, "asleep") \/ (state[p] = "SLEEPING" /\ chan[p] = p)

\* A sleeper has a child.  If one of its children has exited, the sleeper is
\* init, and who has just handed it that child is about to wake it.
SleepOK(p) ==
  Sleeper(p) =>
    /\ \E q \in Slots : parent[q] = p
    /\ \A q \in Slots : parent[q] = p /\ state[q] = "ZOMBIE" =>
         /\ p = initproc /\ wait_lock \in Slots
         /\ At(wait_lock, "wakeup init") /\ th[wait_lock].w = 1

\* exit() has woken the parent: it is not asleep any more.
WokenOK(p) ==
  \/ At(p, "wakeup parent") /\ th[p].w > parent[p]
  \/ At(p, "zombie")
  => ~Sleeper(parent[p])

IInv ==
  /\ TypeOK /\ InitOK
  /\ \A p \in Slots :
       /\ PlaceOK(p) /\ LockOK(p) /\ ForkOK(p) /\ ParentOK(p) /\ ExitOK(p)
       /\ ScanOK(p) /\ SleepOK(p) /\ WokenOK(p)

-----------------------------------------------------------------------------
(* The steps.                                                              *)

\* What the proofs need of the numbers that stand for slots and channels.
LEMMA Consts ==
  /\ initproc \in Slots /\ Nobody \notin Slots /\ Ticks \notin Slots /\ Ticks # Nobody
  /\ Slots \subseteq Nat /\ initproc = 1 /\ \A q \in Slots : q >= 1 /\ q <= NPROC
  /\ NPROC \in Nat /\ \A n \in Nat \ {0} : ~(n > NPROC) => n \in Slots
BY ProcAssumption DEF Slots, initproc, Nobody, Ticks

\* The threads other than p do not move; the thread of p gets these locals.
Moves(p, pc, pp, w, kids, np) ==
  /\ th' \in [Slots -> Locals]
  /\ \A r \in Slots \ {p} : th'[r] = th[r]
  /\ th'[p].pc = pc /\ th'[p].pp = pp /\ th'[p].w = w /\ th'[p].np = np
  /\ th'[p].havekids = kids

\* A thread goes to another place.
LEMMA GotoMoves ==
  ASSUME TypeOK, NEW p \in Slots, NEW x \in Places, Goto(p, x)
  PROVE  Moves(p, x, th[p].pp, th[p].w, th[p].havekids, th[p].np)
<1>1. th \in [Slots -> Locals] /\ th' = [th EXCEPT ![p].pc = x]
  BY DEF TypeOK, Goto
<1>2. [th[p] EXCEPT !.pc = x] \in Locals
  BY <1>1 DEF Locals
<1> QED
  BY <1>1, <1>2 DEF Moves, Locals

\* A thread starts anew.
LEMMA ThreadMoves ==
  ASSUME TypeOK, NEW p \in Slots, NEW x \in Places, th' = [th EXCEPT ![p] = Thread(x)]
  PROVE  Moves(p, x, 1, 1, FALSE, Nobody)
<1>1. th \in [Slots -> Locals]
  BY DEF TypeOK
<1>2. Thread(x) \in Locals
  BY DEF Locals, Thread
<1> QED
  BY <1>1, <1>2 DEF Moves, Thread

\* Loop variables change.
LEMMA LoopMoves ==
  ASSUME TypeOK, NEW p \in Slots, NEW t \in Locals, th' = [th EXCEPT ![p] = t]
  PROVE  Moves(p, t.pc, t.pp, t.w, t.havekids, t.np)
BY DEF TypeOK, Moves

Live == {"RUNNABLE", "RUNNING", "SLEEPING"}

\* A step that changes nothing but the thread, the lock and the state of p, and
\* may make sleeping processes RUNNABLE, keeps the invariant if it does so for p.
Own(p) == /\ PlaceOK(p) /\ LockOK(p) /\ ForkOK(p) /\ ExitOK(p) /\ ScanOK(p)
          /\ SleepOK(p) /\ WokenOK(p)

\* The invariant holds after such a step, provided its parts that speak of p do.
LEMMA OwnStep ==
  ASSUME IInv, TypeOK', NEW p \in Slots,
         \A r \in Slots \ {p} : th'[r] = th[r] /\ plock'[r] = plock[r]
                                /\ chan'[r] = chan[r],
         \A r \in Slots \ {p} :
           \/ state'[r] = state[r]
           \/ state[r] = "SLEEPING" /\ state'[r] = "RUNNABLE" /\ plock[r] = Nobody,
         parent' = parent,
         wait_lock' = wait_lock \/ wait_lock \in {p, Nobody},
         state[p] # "USED",
         state'[p] = state[p] \/ (state[p] \in Live /\ state'[p] \in Live),
         th'[p].pc \notin Forking \/ th'[p] = th[p],
         p = initproc => th'[p].pc \notin Exiting,
         At(p, "wakeup init") =>
           \/ th'[p] = th[p] /\ wait_lock' = wait_lock
           \/ th[p].w # 1
           \/ ~Sleeper(initproc)',
         Sleeper(p)' => Sleeper(p) \/ wait_lock = p,
         Own(p)'
  PROVE  IInv'
<1>0. \A r \in Slots : /\ PlaceOK(r) /\ LockOK(r) /\ ForkOK(r) /\ ParentOK(r)
                       /\ ExitOK(r) /\ ScanOK(r) /\ SleepOK(r) /\ WokenOK(r)
  BY DEF IInv
<1>1. ASSUME NEW r \in Slots \ {p}, Sleeper(r)' PROVE Sleeper(r)
  BY <1>1 DEF Sleeper, At
<1>2. \A q \in Slots : state'[q] = "ZOMBIE" <=> state[q] = "ZOMBIE"
  BY DEF Live
<1>3. \A q \in Slots : state[q] \in Live => state'[q] \in Live
  BY DEF Live
<1>4. \A r \in Slots \ {p} : PlaceOK(r)'
  <2> SUFFICES ASSUME NEW r \in Slots \ {p} PROVE PlaceOK(r)'
    OBVIOUS
  <2>1. PlaceOK(r) /\ LockOK(r) /\ th'[r] = th[r] /\ chan'[r] = chan[r] /\ Nobody # r
    BY <1>0, Consts
  <2>2. CASE state'[r] = state[r]
    BY <2>1, <2>2 DEF PlaceOK, At
  <2>3. CASE state[r] = "SLEEPING" /\ state'[r] = "RUNNABLE" /\ plock[r] = Nobody
    <3>1. th[r].pc \in {"waiting", "paused"}
      BY <2>1, <2>3 DEF PlaceOK, LockOK, At
    <3> QED
      BY <2>1, <2>3, <3>1 DEF PlaceOK, At, Running
  <2> QED
    BY <2>2, <2>3
<1>5. \A r \in Slots \ {p} : LockOK(r)'
  <2> SUFFICES ASSUME NEW r \in Slots \ {p} PROVE LockOK(r)'
    OBVIOUS
  <2>1. LockOK(r) /\ th'[r] = th[r] /\ plock'[r] = plock[r] /\ r # Nobody
    BY <1>0, Consts
  <2> QED
    BY <2>1 DEF LockOK
<1>6. \A r \in Slots \ {p} : ForkOK(r)'
  <2> SUFFICES ASSUME NEW r \in Slots \ {p}, th[r].pc \in Forking PROVE ForkOK(r)'
    BY DEF ForkOK
  <2>0. /\ th[r].np \in Slots /\ state[th[r].np] = "USED"
        /\ th[r].pc = "copy" => plock[th[r].np] = r
        /\ parent[th[r].np] = IF th[r].pc = "start" THEN r ELSE Nobody
        /\ \A s \in Slots : s # r /\ th[s].pc \in Forking => th[s].np # th[r].np
    <3>1. ForkOK(r)
      BY <1>0
    <3> QED
      BY <3>1 DEF ForkOK, At
  <2>1. PICK np \in Slots : np = th[r].np
    BY <2>0
  <2>2. /\ state[np] = "USED" /\ th'[r] = th[r] /\ np # p /\ state'[np] = "USED"
        /\ plock'[np] = plock[np] /\ parent'[np] = parent[np]
    BY <2>0, <2>1
  <2>3. \A s \in Slots : s # r /\ th'[s].pc \in Forking => th'[s].np # np
    <3> SUFFICES ASSUME NEW s \in Slots, s # r, th'[s].pc \in Forking
                 PROVE  th'[s].np # np
      OBVIOUS
    <3>1. th'[s] = th[s]
      <4>1. CASE s = p
        BY <4>1
      <4>2. CASE s # p
        BY <4>2
      <4> QED
        BY <4>1, <4>2
    <3> QED
      BY <2>0, <2>1, <3>1
  <2> QED
    BY <2>0, <2>1, <2>2, <2>3 DEF ForkOK, At
<1>7. \A q \in Slots : ParentOK(q)'
  <2> SUFFICES ASSUME NEW q \in Slots PROVE ParentOK(q)'
    OBVIOUS
  <2>1. ParentOK(q) /\ parent'[q] = parent[q] /\ parent[q] \in Slots \cup {Nobody}
    BY <1>0 DEF IInv, TypeOK
  <2>2. /\ state'[q] \in {"UNUSED", "USED"} <=> state[q] \in {"UNUSED", "USED"}
        /\ state'[q] = "UNUSED" <=> state[q] = "UNUSED"
    BY DEF Live
  <2> QED
    BY <1>3, <2>1, <2>2 DEF ParentOK, Live
<1>8. \A r \in Slots \ {p} : ExitOK(r)'
  BY <1>0 DEF ExitOK, At
<1>9. \A r \in Slots \ {p} : ScanOK(r)'
  <2> SUFFICES ASSUME NEW r \in Slots \ {p} PROVE ScanOK(r)'
    OBVIOUS
  <2>1. ScanOK(r) /\ th'[r] = th[r]
    BY <1>0
  <2> QED
    BY <1>2, <2>1 DEF ScanOK, At
<1>10. \A r \in Slots \ {p} : SleepOK(r)'
  <2> SUFFICES ASSUME NEW r \in Slots \ {p}, Sleeper(r)' PROVE SleepOK(r)'
    BY DEF SleepOK
  <2>1. Sleeper(r) /\ SleepOK(r)
    BY <1>0, <1>1
  <2>2. \E q \in Slots : parent'[q] = r
    BY <2>1 DEF SleepOK
  <2>3. ASSUME NEW q \in Slots, parent'[q] = r, state'[q] = "ZOMBIE"
        PROVE  /\ r = initproc /\ wait_lock' \in Slots
               /\ th'[wait_lock'].pc = "wakeup init" /\ th'[wait_lock'].w = 1
    <3>1. /\ r = initproc /\ wait_lock \in Slots
          /\ th[wait_lock].pc = "wakeup init" /\ th[wait_lock].w = 1
      BY <1>2, <2>1, <2>3 DEF SleepOK, At
    <3>2. CASE wait_lock = p
      BY <3>1, <3>2 DEF At
    <3>3. CASE wait_lock # p
      BY <3>1, <3>3, Consts
    <3> QED
      BY <3>2, <3>3
  <2> QED
    BY <2>2, <2>3 DEF SleepOK, At
<1>11. \A r \in Slots \ {p} : WokenOK(r)'
  <2> SUFFICES ASSUME NEW r \in Slots \ {p},
                      \/ th[r].pc = "wakeup parent" /\ th[r].w > parent[r]
                      \/ th[r].pc = "zombie",
                      Sleeper(parent[r])'
               PROVE  FALSE
    BY DEF WokenOK, At
  <2>1. WokenOK(r) /\ LockOK(r) /\ ParentOK(r) /\ PlaceOK(r) /\ r # initproc
    BY <1>0 DEF IInv, InitOK, Exiting
  <2>2. wait_lock = r /\ ~Sleeper(parent[r])
    BY <2>1 DEF WokenOK, LockOK, Waiters, At
  <2>3. parent[r] \in Slots
    <3>1. state[r] = "RUNNING"
      BY <2>1 DEF PlaceOK, Running
    <3> QED
      BY <2>1, <3>1 DEF ParentOK, IInv, TypeOK
  <2>4. parent'[r] = parent[r]
    OBVIOUS
  <2> QED
    BY <1>1, <2>2, <2>3
<1>12. InitOK'
  <2>1. initproc \in Slots /\ InitOK
    BY Consts DEF IInv
  <2>2. state'[initproc] \notin {"UNUSED", "USED", "ZOMBIE"}
    <3>1. state[initproc] \in Live
      BY <2>1 DEF InitOK, Live, IInv, TypeOK, States
    <3> QED
      BY <1>3, <2>1, <3>1 DEF Live
  <2> QED
    BY <2>1, <2>2 DEF InitOK
<1> QED
  BY <1>4, <1>5, <1>6, <1>7, <1>8, <1>9, <1>10, <1>11, <1>12 DEF IInv, Own

\* A process in user space, at the start of exit() or of wait(), owes nothing.
LEMMA QuietOwn ==
  ASSUME NEW p \in Slots, state'[p] = "RUNNING", th'[p].pc \in {"user", "wait", "exit"}
  PROVE  Own(p)' /\ ~Sleeper(p)'
<1>1. PlaceOK(p)'
  BY DEF PlaceOK, At, Running
<1>2. LockOK(p)' /\ ForkOK(p)' /\ ExitOK(p)' /\ ScanOK(p)' /\ WokenOK(p)'
  BY DEF LockOK, ForkOK, ExitOK, ScanOK, WokenOK, At, Waiters, Forking
<1>3. ~Sleeper(p)'
  BY DEF Sleeper, At
<1> QED
  BY <1>1, <1>2, <1>3 DEF Own, SleepOK

\* A step of this kind that leaves p where it owes nothing keeps the invariant.
LEMMA QuietStep ==
  ASSUME IInv, TypeOK', NEW p \in Slots,
         NEW x \in {"user", "wait", "exit"},
         \A r \in Slots \ {p} : th'[r] = th[r] /\ plock'[r] = plock[r]
                                /\ chan'[r] = chan[r],
         \A r \in Slots \ {p} :
           \/ state'[r] = state[r]
           \/ state[r] = "SLEEPING" /\ state'[r] = "RUNNABLE" /\ plock[r] = Nobody,
         parent' = parent,
         wait_lock' = wait_lock \/ wait_lock \in {p, Nobody},
         state[p] \in Live, th[p].pc # "wakeup init",
         state'[p] = "RUNNING", th'[p].pc = x, p = initproc => x # "exit"
  PROVE  IInv'
<1>1. Own(p)' /\ ~Sleeper(p)'
  BY QuietOwn
<1>2. state[p] # "USED" /\ state'[p] \in Live
  BY DEF Live
<1>3. th'[p].pc \notin Forking /\ ~At(p, "wakeup init")
  BY DEF Forking, At
<1>4. p = initproc => th'[p].pc \notin Exiting
  BY DEF Exiting
<1> QED
  BY <1>1, <1>2, <1>3, <1>4, OwnStep

\* The scheduler switches to p, which sleeps no more.
LEMMA ResumeInv ==
  ASSUME IInv, NEW p \in Slots, Resume(p)
  PROVE  IInv'
<1> DEFINE x == IF At(p, "waiting") THEN "wait" ELSE "user"
<1>1. TypeOK /\ PlaceOK(p) /\ x \in Places /\ x \in {"user", "wait", "exit"}
      /\ x # "exit"
  BY DEF IInv, Places, Running
<1> HIDE DEF x
<1>2. Moves(p, x, th[p].pp, th[p].w, th[p].havekids, th[p].np)
  BY <1>1, GotoMoves DEF Resume, x
<1>3. TypeOK'
  BY <1>1, <1>2 DEF Resume, TypeOK, Moves, States
<1>4. state[p] \in Live /\ th[p].pc # "wakeup init" /\ state'[p] = "RUNNING"
  BY <1>1 DEF Resume, PlaceOK, Running, Live, TypeOK
<1>5. \A r \in Slots \ {p} : state'[r] = state[r] /\ chan'[r] = chan[r]
      /\ plock'[r] = plock[r]
  BY <1>1 DEF Resume, TypeOK
<1>6. parent' = parent /\ wait_lock' = wait_lock
  BY DEF Resume
<1> QED
  BY <1>1, <1>2, <1>3, <1>4, <1>5, <1>6, QuietStep DEF Moves

\* exit() is called: only the place of p changes.
LEMMA ExitInv ==
  ASSUME IInv, NEW p \in Slots, Exit(p)
  PROVE  IInv'
<1>1. TypeOK /\ PlaceOK(p) /\ "exit" \in Places
  BY DEF IInv, Places, Running
<1>2. Moves(p, "exit", th[p].pp, th[p].w, th[p].havekids, th[p].np)
  BY <1>1, GotoMoves DEF Exit
<1>3. TypeOK'
  BY <1>1, <1>2 DEF Exit, TypeOK, Moves, States
<1>4. state[p] \in Live /\ th[p].pc # "wakeup init" /\ state'[p] = "RUNNING"
  BY <1>1 DEF Exit, PlaceOK, At, Running, Live, TypeOK
<1>5. state' = state /\ chan' = chan /\ plock' = plock
  BY <1>1 DEF Exit
<1>6. parent' = parent /\ wait_lock' = wait_lock /\ p # initproc
  BY DEF Exit
<1> QED
  BY <1>1, <1>2, <1>3, <1>4, <1>5, <1>6, QuietStep DEF Moves

\* wait() is called: only the place of p changes.
LEMMA WaitInv ==
  ASSUME IInv, NEW p \in Slots, Wait(p)
  PROVE  IInv'
<1>1. TypeOK /\ PlaceOK(p) /\ "wait" \in Places
  BY DEF IInv, Places, Running
<1>2. Moves(p, "wait", th[p].pp, th[p].w, th[p].havekids, th[p].np)
  BY <1>1, GotoMoves DEF Wait
<1>3. TypeOK'
  BY <1>1, <1>2 DEF Wait, TypeOK, Moves, States
<1>4. state[p] \in Live /\ th[p].pc # "wakeup init" /\ state'[p] = "RUNNING"
  <2>1. At(p, "user") /\ state' = state
    BY DEF Wait, Syscall
  <2> QED
    BY <1>1, <2>1 DEF PlaceOK, At, Running, Live
<1>5. state' = state /\ chan' = chan /\ plock' = plock
  BY <1>1 DEF Wait
<1>6. parent' = parent /\ wait_lock' = wait_lock
  BY DEF Wait
<1> QED
  BY <1>1, <1>2, <1>3, <1>4, <1>5, <1>6, QuietStep DEF Moves

\* wait() returns -1 and gives wait_lock back.
LEMMA WaitNoneInv ==
  ASSUME IInv, NEW p \in Slots, WaitNone(p)
  PROVE  IInv'
<1>1. TypeOK /\ PlaceOK(p) /\ LockOK(p) /\ "user" \in Places
  BY DEF IInv, Places, Running
<1>2. Moves(p, "user", 1, 1, FALSE, Nobody)
  BY <1>1, ThreadMoves DEF WaitNone
<1>3. TypeOK'
  BY <1>1, <1>2 DEF WaitNone, TypeOK, Moves, States
<1>4. state[p] \in Live /\ th[p].pc # "wakeup init" /\ state'[p] = "RUNNING"
  BY <1>1 DEF WaitNone, PlaceOK, At, Running, Live, TypeOK
<1>5. state' = state /\ chan' = chan /\ plock' = plock
  BY <1>1 DEF WaitNone
<1>6. parent' = parent /\ wait_lock = p
  BY <1>1 DEF WaitNone, LockOK, Waiters, At
<1> QED
  BY <1>1, <1>2, <1>3, <1>4, <1>5, <1>6, QuietStep DEF Moves

\* kill() may wake a sleeper whose lock is free, never one that is still dozing.
LEMMA KillInv ==
  ASSUME IInv, NEW p \in Slots, NEW q \in Slots, kill(p, q)
  PROVE  IInv'
<1>1. TypeOK /\ PlaceOK(p)
  BY DEF IInv
<1>2. th' = th /\ chan' = chan /\ plock' = plock /\ parent' = parent
      /\ wait_lock' = wait_lock /\ At(p, "user") /\ plock[q] = Nobody
  BY DEF kill, Syscall, Free
<1>3. state[p] = "RUNNING"
  BY <1>1, <1>2 DEF PlaceOK, At, Running
<1>4. state' \in [Slots -> States] /\ state'[p] = state[p]
  BY <1>1, <1>3 DEF kill, TypeOK, States
<1>5. \A r \in Slots \ {p} :
           \/ state'[r] = state[r]
           \/ state[r] = "SLEEPING" /\ state'[r] = "RUNNABLE" /\ plock[r] = Nobody
  BY <1>1, <1>2 DEF kill, TypeOK
<1>6. TypeOK'
  BY <1>1, <1>2, <1>4 DEF TypeOK
<1>7. state[p] \in Live /\ th[p].pc # "wakeup init" /\ th'[p].pc = "user"
  BY <1>2, <1>3 DEF Live, At
<1> QED
  BY <1>2, <1>3, <1>4, <1>5, <1>6, <1>7, QuietStep

\* The scheduler gives back p->lock: a sleeper stays one, an exited thread is gone.
LEMMA LeaveInv ==
  ASSUME IInv, NEW p \in Slots, Leave(p)
  PROVE  IInv'
<1> DEFINE x == IF At(p, "gone") THEN "none" ELSE "waiting"
<1>1. /\ TypeOK /\ PlaceOK(p) /\ SleepOK(p) /\ LockOK(p) /\ x \in Places
      /\ x \in {"none", "waiting"} /\ p # Nobody
  BY Consts DEF IInv, Places, Running
<1>2. Moves(p, x, 1, 1, FALSE, Nobody)
  <2> HIDE DEF x
  <2> QED
    BY <1>1, ThreadMoves DEF Leave, x
<1>3. /\ parent' = parent /\ wait_lock' = wait_lock /\ state' = state /\ chan' = chan
      /\ th[p].pc \in {"gone", "dozing"} /\ plock' = [plock EXCEPT ![p] = Nobody]
  BY DEF Leave
<1>4. TypeOK'
  BY <1>1, <1>2, <1>3 DEF TypeOK, Moves
<1>5. \/ x = "none" /\ state[p] = "ZOMBIE"
      \/ x = "waiting" /\ state[p] = "SLEEPING" /\ chan[p] = p
  BY <1>1, <1>3 DEF PlaceOK, At
<1>6. th'[p].pc = x /\ \A r \in Slots \ {p} : th'[r] = th[r]
  BY <1>2 DEF Moves
<1> HIDE DEF x
<1>7. PlaceOK(p)'
  BY <1>3, <1>5, <1>6 DEF PlaceOK, At, Running
<1>8. LockOK(p)' /\ ForkOK(p)' /\ ExitOK(p)' /\ ScanOK(p)' /\ WokenOK(p)'
  BY <1>1, <1>6 DEF LockOK, ForkOK, ExitOK, ScanOK, WokenOK, At, Waiters, Forking
<1>9. Sleeper(p)' => Sleeper(p)
  BY <1>1, <1>3, <1>6 DEF Sleeper, At
<1>10. SleepOK(p)'
  BY <1>1, <1>3, <1>6, <1>9 DEF SleepOK, At
<1>11. state[p] # "USED" /\ th'[p].pc \notin Forking /\ ~At(p, "wakeup init")
       /\ th'[p].pc \notin Exiting
  BY <1>1, <1>3, <1>5, <1>6 DEF Forking, At, Exiting
<1>12. \A r \in Slots \ {p} : plock'[r] = plock[r]
  BY <1>1, <1>3 DEF TypeOK
<1> QED
  BY <1>3, <1>4, <1>6, <1>7, <1>8, <1>9, <1>10, <1>11, <1>12, OwnStep DEF Own

\* The clock wakes one who sleeps on &ticks.
LEMMA ClockInv ==
  ASSUME IInv, NEW p \in Slots, ClockWakes(p)
  PROVE  IInv'
<1>1. TypeOK /\ PlaceOK(p) /\ LockOK(p) /\ p # Nobody
  BY Consts DEF IInv
<1>2. /\ th' = th /\ chan' = chan /\ plock' = plock /\ parent' = parent
      /\ wait_lock' = wait_lock /\ state[p] = "SLEEPING" /\ plock[p] = Nobody
  BY DEF ClockWakes, Free
<1>3. /\ state' \in [Slots -> States] /\ state'[p] = "RUNNABLE"
      /\ \A r \in Slots \ {p} : state'[r] = state[r]
  BY <1>1 DEF ClockWakes, TypeOK, States
<1>4. TypeOK'
  BY <1>1, <1>2, <1>3 DEF TypeOK
<1>5. th[p].pc \in {"waiting", "paused"}
  BY <1>1, <1>2 DEF PlaceOK, LockOK, At
<1>6. PlaceOK(p)' /\ ~Sleeper(p)'
  BY <1>2, <1>3, <1>5 DEF PlaceOK, Sleeper, At, Running
<1>7. LockOK(p)' /\ ForkOK(p)' /\ ExitOK(p)' /\ ScanOK(p)' /\ WokenOK(p)' /\ SleepOK(p)'
  BY <1>2, <1>5, <1>6
  DEF LockOK, ForkOK, ExitOK, ScanOK, WokenOK, SleepOK, At, Waiters, Forking
<1>8. /\ state[p] \in Live /\ state'[p] \in Live /\ state[p] # "USED"
      /\ th'[p].pc \notin Exiting /\ ~At(p, "wakeup init") /\ th'[p].pc \notin Forking
  BY <1>2, <1>3, <1>5 DEF Live, Exiting, At, Forking
<1> QED
  BY <1>2, <1>3, <1>4, <1>6, <1>7, <1>8, OwnStep DEF Own

\* A sleep on &ticks is not a sleep in wait().
LEMMA PauseInv ==
  ASSUME IInv, NEW p \in Slots, Pause(p)
  PROVE  IInv'
<1>1. TypeOK /\ PlaceOK(p) /\ p # Ticks /\ Ticks \in {Nobody, Ticks}
      /\ "paused" \in Places
  BY Consts DEF IInv, Places
<1>2. Moves(p, "paused", th[p].pp, th[p].w, th[p].havekids, th[p].np)
  BY <1>1, GotoMoves DEF Pause
<1>3. /\ plock' = plock /\ parent' = parent /\ wait_lock' = wait_lock
      /\ th[p].pc = "user"
  BY DEF Pause, Syscall, At
<1>4. /\ state' \in [Slots -> States] /\ state'[p] = "SLEEPING"
      /\ chan' \in [Slots -> Slots \cup {Nobody, Ticks}] /\ chan'[p] = Ticks
      /\ \A r \in Slots \ {p} : state'[r] = state[r] /\ chan'[r] = chan[r]
  BY <1>1 DEF Pause, TypeOK, States
<1>5. TypeOK'
  BY <1>1, <1>2, <1>3, <1>4 DEF TypeOK, Moves
<1>6. state[p] = "RUNNING" /\ th'[p].pc = "paused"
      /\ \A r \in Slots \ {p} : th'[r] = th[r]
  BY <1>1, <1>2, <1>3 DEF PlaceOK, Running, Moves
<1>7. PlaceOK(p)' /\ ~Sleeper(p)'
  BY <1>1, <1>4, <1>6 DEF PlaceOK, Sleeper, At, Running
<1>8. LockOK(p)' /\ ForkOK(p)' /\ ExitOK(p)' /\ ScanOK(p)' /\ WokenOK(p)' /\ SleepOK(p)'
  BY <1>6, <1>7
  DEF LockOK, ForkOK, ExitOK, ScanOK, WokenOK, SleepOK, At, Waiters, Forking
<1>9. /\ state[p] \in Live /\ state'[p] \in Live /\ state[p] # "USED"
      /\ th'[p].pc \notin Exiting /\ ~At(p, "wakeup init") /\ th'[p].pc \notin Forking
  BY <1>3, <1>4, <1>6 DEF Live, Exiting, At, Forking
<1> QED
  BY <1>3, <1>4, <1>5, <1>6, <1>7, <1>8, <1>9, OwnStep DEF Own

\* Between two steps of p, everything but its thread and wait_lock is the same.
\* The new place of p is one where a process that runs can be.
LEMMA RunStep ==
  ASSUME IInv, NEW p \in Slots, NEW pc \in Running, NEW pp, NEW w, NEW kids, NEW np,
         Moves(p, pc, pp, w, kids, np),
         state' = state, parent' = parent, chan' = chan, plock' = plock,
         state[p] = "RUNNING",
         wait_lock' = wait_lock \/ wait_lock \in {p, Nobody},
         wait_lock' \in Slots \cup {Nobody},
         pc \in Waiters => wait_lock' = p,
         pc \notin Forking \cup {"asleep", "dozing", "gone"},
         p = initproc => pc \notin Exiting,
         th[p].pc = "wakeup init" => th[p].w # 1,
         ExitOK(p)', ScanOK(p)', WokenOK(p)'
  PROVE  IInv'
<1>1. TypeOK /\ PlaceOK(p)
  BY DEF IInv
<1>2. TypeOK'
  BY <1>1 DEF TypeOK, Moves
<1>3. th'[p].pc = pc /\ \A r \in Slots \ {p} : th'[r] = th[r]
  BY DEF Moves
<1>4. PlaceOK(p)'
  BY <1>3 DEF PlaceOK, At, Running
<1>5. LockOK(p)' /\ ForkOK(p)'
  BY <1>3 DEF LockOK, ForkOK
<1>6. ~Sleeper(p)' /\ SleepOK(p)'
  BY <1>3 DEF Sleeper, SleepOK, At
<1>7. state[p] # "USED" /\ state'[p] = state[p] /\ th'[p].pc \notin Forking
  BY <1>3
<1> QED
  BY <1>2, <1>3, <1>4, <1>5, <1>6, <1>7, OwnStep DEF Own, At

\* exit() takes wait_lock and has passed on no child so far.
LEMMA ExitLockInv ==
  ASSUME IInv, NEW p \in Slots, ExitLock(p)
  PROVE  IInv'
<1>1. TypeOK /\ PlaceOK(p) /\ InitOK /\ "reparent" \in Places /\ "reparent" \in Running
  BY DEF IInv, Places, Running
<1>2. Moves(p, "reparent", 1, 1, FALSE, Nobody)
  BY <1>1, ThreadMoves DEF ExitLock
<1>3. /\ state' = state /\ parent' = parent /\ chan' = chan /\ plock' = plock
      /\ wait_lock = Nobody /\ wait_lock' = p /\ th[p].pc = "exit"
  BY DEF ExitLock, At
<1>4. th'[p].pc = "reparent" /\ th'[p].pp = 1
  BY <1>2 DEF Moves
<1>5. ExitOK(p)'
  BY <1>4, Consts DEF ExitOK, At
<1>6. ScanOK(p)' /\ WokenOK(p)'
  BY <1>4 DEF ScanOK, WokenOK, At
<1>7. state[p] = "RUNNING" /\ p # initproc
  BY <1>1, <1>3 DEF PlaceOK, Running, InitOK, Exiting
<1>8. "reparent" \notin Forking \cup {"asleep", "dozing", "gone"}
  BY DEF Forking
<1> QED
  BY <1>1, <1>2, <1>3, <1>5, <1>6, <1>7, <1>8, RunStep

\* wait() takes wait_lock and has seen no slot so far.
LEMMA WaitLockInv ==
  ASSUME IInv, NEW p \in Slots, WaitLock(p)
  PROVE  IInv'
<1>1. TypeOK /\ PlaceOK(p) /\ "scan" \in Places /\ "scan" \in Running
  BY DEF IInv, Places, Running
<1>2. Moves(p, "scan", 1, 1, FALSE, Nobody)
  BY <1>1, ThreadMoves DEF WaitLock
<1>3. /\ state' = state /\ parent' = parent /\ chan' = chan /\ plock' = plock
      /\ wait_lock = Nobody /\ wait_lock' = p /\ th[p].pc = "wait"
  BY DEF WaitLock, At
<1>4. th'[p].pc = "scan" /\ th'[p].pp = 1 /\ th'[p].havekids = FALSE
  BY <1>2 DEF Moves
<1>5. ScanOK(p)'
  BY <1>4, Consts DEF ScanOK, At
<1>6. ExitOK(p)' /\ WokenOK(p)'
  BY <1>4 DEF ExitOK, WokenOK, At
<1>7. state[p] = "RUNNING"
  BY <1>1, <1>3 DEF PlaceOK, Running
<1>8. "scan" \notin Forking \cup {"asleep", "dozing", "gone"} /\ "scan" \notin Exiting
  BY DEF Forking, Exiting
<1> QED
  BY <1>1, <1>2, <1>3, <1>5, <1>6, <1>7, <1>8, RunStep

\* The scan has seen all slots: there is a child and none has exited.
LEMMA WaitMoreInv ==
  ASSUME IInv, NEW p \in Slots, WaitMore(p)
  PROVE  IInv'
<1>1. /\ TypeOK /\ PlaceOK(p) /\ LockOK(p) /\ ScanOK(p)
      /\ "sleep" \in Places /\ "sleep" \in Running
  BY DEF IInv, Places, Running
<1>2. Moves(p, "sleep", th[p].pp, th[p].w, th[p].havekids, th[p].np)
  BY <1>1, GotoMoves DEF WaitMore
<1>3. /\ state' = state /\ parent' = parent /\ chan' = chan /\ plock' = plock
      /\ wait_lock' = wait_lock /\ th[p].pc = "scan" /\ th[p].pp > NPROC
      /\ th[p].havekids
  BY DEF WaitMore, At
<1>4. th'[p].pc = "sleep" /\ th[p].pp \in Nat
  BY <1>1, <1>2 DEF Moves, TypeOK, Locals
<1>5. wait_lock = p /\ state[p] = "RUNNING"
  BY <1>1, <1>3 DEF LockOK, Waiters, PlaceOK, Running
<1>6. ScanOK(p)'
  <2>1. \A q \in Slots : q < th[p].pp
    BY <1>3, <1>4, Consts
  <2> QED
    BY <1>1, <1>3, <1>4, <2>1 DEF ScanOK, At
<1>7. ExitOK(p)' /\ WokenOK(p)'
  BY <1>4 DEF ExitOK, WokenOK, At
<1>8. "sleep" \notin Forking \cup {"asleep", "dozing", "gone"} /\ "sleep" \notin Exiting
  BY DEF Forking, Exiting
<1> QED
  BY <1>1, <1>2, <1>3, <1>5, <1>6, <1>7, <1>8, RunStep

\* The scan passes a slot that is no child that has exited.
LEMMA WaitPassInv ==
  ASSUME IInv, NEW p \in Slots, WaitPass(p)
  PROVE  IInv'
<1> DEFINE t == [th[p] EXCEPT !.pp = @ + 1, !.havekids = @ \/ parent[th[p].pp] = p]
<1>1. /\ TypeOK /\ PlaceOK(p) /\ LockOK(p) /\ ScanOK(p) /\ "scan" \in Running
  BY DEF IInv, Running
<1>2. /\ state' = state /\ parent' = parent /\ chan' = chan /\ plock' = plock
      /\ wait_lock' = wait_lock /\ th[p].pc = "scan" /\ th[p].pp \in Slots
      /\ parent[th[p].pp] = p => state[th[p].pp] # "ZOMBIE"
  BY DEF WaitPass, At
<1>3. th[p] \in Locals /\ th[p].pp \in Nat \ {0} /\ th[p].havekids \in BOOLEAN
  BY <1>1 DEF TypeOK, Locals
<1>4. th' = [th EXCEPT ![p] = t]
  BY <1>1, <1>3 DEF WaitPass, TypeOK, Locals
<1>5. /\ t \in Locals /\ t.pc = "scan" /\ t.pp = th[p].pp + 1
      /\ t.havekids => th[p].havekids \/ parent[th[p].pp] = p
  <2> DEFINE k == th[p].havekids \/ parent[th[p].pp] = p
  <2>1. k \in BOOLEAN /\ t = [th[p] EXCEPT !.pp = @ + 1, !.havekids = k]
    BY <1>3
  <2> HIDE DEF k, t
  <2>2. t.pc = "scan" /\ t.pp = th[p].pp + 1
    BY <1>2, <1>3, <2>1 DEF Locals
  <2>3. t \in Locals
    <3>1. ASSUME NEW n \in Nat \ {0}, NEW b \in BOOLEAN
          PROVE  [th[p] EXCEPT !.pp = n, !.havekids = b] \in Locals
      BY <1>3 DEF Locals
    <3>2. th[p].pp + 1 \in Nat \ {0}
      BY <1>3
    <3> QED
      BY <2>1, <3>1, <3>2
  <2>4. t.havekids = k
    BY <1>3, <2>1 DEF Locals
  <2> QED
    BY <2>2, <2>3, <2>4 DEF k
<1> HIDE DEF t
<1>6. Moves(p, "scan", t.pp, t.w, t.havekids, t.np)
  BY <1>1, <1>4, <1>5, LoopMoves
<1>7. /\ th'[p].pc = "scan" /\ th'[p].pp = th[p].pp + 1
      /\ th'[p].havekids => th[p].havekids \/ parent[th[p].pp] = p
  BY <1>5, <1>6 DEF Moves
<1>8. ScanOK(p)'
  <2>1. /\ th[p].havekids => \E q \in Slots : parent[q] = p
        /\ \A q \in Slots : q < th[p].pp /\ parent[q] = p => state[q] # "ZOMBIE"
    BY <1>1, <1>2 DEF ScanOK, At
  <2>2. \A q \in Slots : q < th[p].pp + 1 => q < th[p].pp \/ q = th[p].pp
    BY <1>3, Consts
  <2>3. th'[p].havekids => \E q \in Slots : parent[q] = p
    BY <1>2, <1>7, <2>1
  <2>4. \A q \in Slots : q < th'[p].pp /\ parent[q] = p => state[q] # "ZOMBIE"
    BY <1>2, <1>7, <2>1, <2>2
  <2> QED
    BY <1>2, <1>7, <2>3, <2>4 DEF ScanOK, At
<1>9. ExitOK(p)' /\ WokenOK(p)'
  BY <1>7 DEF ExitOK, WokenOK, At
<1>10. wait_lock = p /\ state[p] = "RUNNING"
  BY <1>1, <1>2 DEF LockOK, Waiters, PlaceOK, Running
<1>11. "scan" \notin Forking \cup {"asleep", "dozing", "gone"} /\ "scan" \notin Exiting
  BY DEF Forking, Exiting
<1> QED
  BY <1>1, <1>2, <1>6, <1>8, <1>9, <1>10, <1>11, RunStep

\* What the loops need of arithmetic.
LEMMA Succ ==
  /\ \A m, n \in Nat : m + 1 \in Nat \ {0} /\ (m + 1 > n => m = n \/ m > n)
  /\ \A n \in Nat : n > NPROC => \A q \in Slots : q < n
  /\ 1 \in Nat \ {0} /\ \A q \in Slots : ~(1 > q)
<1>1. \A m, n \in Nat : m + 1 \in Nat \ {0} /\ (m + 1 > n => m = n \/ m > n)
  OBVIOUS
<1>2. \A n \in Nat : n > NPROC => \A q \in Slots : q < n
  BY ProcAssumption DEF Slots
<1>3. 1 \in Nat \ {0} /\ \A q \in Slots : ~(1 > q)
  BY ProcAssumption DEF Slots
<1> QED
  BY <1>1, <1>2, <1>3

\* A loop goes on with new values of its variables.
LEMMA ThreadNext ==
  ASSUME TypeOK, NEW p \in Slots, NEW x \in Places, NEW pp \in Nat \ {0},
         NEW w \in Nat \ {0}, th' =
           [th EXCEPT ![p] = [th[p] EXCEPT !.pc = x, !.pp = pp, !.w = w]]
  PROVE  Moves(p, x, pp, w, th[p].havekids, th[p].np)
<1> DEFINE u == [th[p] EXCEPT !.pc = x, !.pp = pp, !.w = w]
<1>1. th[p] \in Locals
  BY DEF TypeOK
<1>2. /\ u \in Locals /\ u.pc = x /\ u.pp = pp /\ u.w = w
      /\ u.havekids = th[p].havekids /\ u.np = th[p].np
  BY <1>1 DEF Locals
<1>3. th' = [th EXCEPT ![p] = u]
  OBVIOUS
<1> HIDE DEF u
<1> QED
  BY <1>2, <1>3, LoopMoves

\* A process that is about to become a zombie has a parent other than itself.
LEMMA ExitingParent ==
  ASSUME IInv, NEW p \in Slots, th[p].pc \in {"reparent", "wakeup init", "wakeup parent", "zombie"}
  PROVE  /\ state[p] = "RUNNING" /\ wait_lock = p /\ p # initproc /\ parent[p] \in Slots
         /\ th[p].pc \in {"wakeup parent", "zombie"} => parent[p] # p
<1>1. PlaceOK(p) /\ LockOK(p) /\ ParentOK(p) /\ ExitOK(p) /\ InitOK /\ TypeOK
  BY DEF IInv
<1>2. state[p] = "RUNNING" /\ wait_lock = p /\ p # initproc
  BY <1>1 DEF PlaceOK, LockOK, InitOK, Running, Waiters, Exiting
<1> QED
  BY <1>1, <1>2 DEF ParentOK, ExitOK, TypeOK

\* One slot of the loop of wakeup().
LEMMA WakeSlotInv ==
  ASSUME IInv, NEW p \in Slots, NEW c \in Slots, WakeSlot(p, c),
         \/ th[p].pc = "wakeup init" /\ c = initproc
         \/ th[p].pc = "wakeup parent" /\ c = parent[p],
         parent' = parent, chan' = chan, plock' = plock, wait_lock' = wait_lock
  PROVE  IInv'
<1>1. /\ TypeOK /\ PlaceOK(p) /\ LockOK(p) /\ ExitOK(p) /\ WokenOK(p)
      /\ \A r \in Slots : LockOK(r)
  BY DEF IInv
<1>2. /\ state[p] = "RUNNING" /\ wait_lock = p /\ p # initproc /\ parent[p] \in Slots
      /\ th[p].pc = "wakeup parent" => parent[p] # p
  BY ExitingParent
<1>3. PICK q \in Slots : q = th[p].w
  BY DEF WakeSlot
<1>4. /\ q # p => plock[q] = Nobody
      /\ state' = IF q # p /\ state[q] = "SLEEPING" /\ chan[q] = c
                  THEN [state EXCEPT ![q] = "RUNNABLE"] ELSE state
      /\ th' = [th EXCEPT ![p].w = @ + 1]
  BY <1>3 DEF WakeSlot, Free
<1>5. /\ th[p] \in Locals /\ th[p].pc \in Places /\ th[p].pp \in Nat \ {0}
      /\ q + 1 \in Nat \ {0} /\ q \in Nat /\ c \in Nat
  <2>1. q \in Nat /\ c \in Nat
    BY Consts
  <2>2. q + 1 \in Nat \ {0}
    BY <2>1, Succ
  <2>3. th[p] \in Locals
    BY <1>1 DEF TypeOK
  <2> QED
    BY <2>1, <2>2, <2>3 DEF Locals
<1>6. Moves(p, th[p].pc, th[p].pp, q + 1, th[p].havekids, th[p].np)
  <2>1. th' =
          [th EXCEPT ![p] = [th[p] EXCEPT !.pc = th[p].pc, !.pp = th[p].pp, !.w = q + 1]]
    BY <1>1, <1>3, <1>4, <1>5 DEF TypeOK, Locals
  <2> QED
    BY <1>1, <1>5, <2>1, ThreadNext
<1>7. /\ th'[p].pc = th[p].pc /\ th'[p].pp = th[p].pp /\ th'[p].w = q + 1
      /\ \A r \in Slots \ {p} : th'[r] = th[r]
  BY <1>6 DEF Moves
<1>8. /\ state' \in [Slots -> States] /\ state'[p] = state[p]
      /\ \A r \in Slots \ {p} :
           \/ state'[r] = state[r]
           \/ state[r] = "SLEEPING" /\ state'[r] = "RUNNABLE" /\ plock[r] = Nobody
  BY <1>1, <1>4 DEF TypeOK, States
<1>9. TypeOK'
  BY <1>1, <1>6, <1>8 DEF TypeOK, Moves
<1>10. \A r \in Slots : Sleeper(r)' => Sleeper(r)
  <2> SUFFICES ASSUME NEW r \in Slots, Sleeper(r)' PROVE Sleeper(r)
    OBVIOUS
  <2>1. th'[r].pc = th[r].pc
    BY <1>7
  <2>2. state'[r] = "SLEEPING" => state[r] = "SLEEPING"
    BY <1>8
  <2> QED
    BY <2>1, <2>2 DEF Sleeper, At
<1>11. q = c /\ c # p => ~Sleeper(c)'
  <2> SUFFICES ASSUME q = c, c # p PROVE ~Sleeper(c)'
    OBVIOUS
  <2>1. th[c].pc # "asleep" /\ th'[c] = th[c]
    <3>1. LockOK(c) /\ plock[c] = Nobody /\ c # Nobody
      BY <1>1, <1>4, Consts
    <3> QED
      BY <1>7, <3>1 DEF LockOK
  <2>2. ~(state'[c] = "SLEEPING" /\ chan[c] = c)
    BY <1>1, <1>4 DEF TypeOK
  <2> QED
    BY <2>1, <2>2 DEF Sleeper, At
<1>12. PlaceOK(p)' /\ LockOK(p)'
  BY <1>1, <1>2, <1>7, <1>8 DEF PlaceOK, LockOK, At
<1>13. ForkOK(p)' /\ ScanOK(p)' /\ th'[p].pc \notin Forking
  BY <1>7 DEF ForkOK, ScanOK, Forking, At
<1>14. ExitOK(p)'
  BY <1>1, <1>7 DEF ExitOK, At
<1>15. WokenOK(p)'
  <2> SUFFICES ASSUME th[p].pc = "wakeup parent", q + 1 > c, c = parent[p]
               PROVE  ~Sleeper(c)'
    BY <1>7, <1>2 DEF WokenOK, At
  <2>1. CASE q = c
    BY <1>2, <1>11, <2>1
  <2>2. CASE q > c
    <3>1. ~Sleeper(c)
      BY <1>1, <1>3, <2>2 DEF WokenOK, At
    <3> QED
      BY <1>10, <3>1
  <2> QED
    <3>1. q = c \/ q > c
      BY <1>5, Succ
    <3> QED
      BY <2>1, <2>2, <3>1
<1>16. ~Sleeper(p)' /\ SleepOK(p)'
  <2>1. ~Sleeper(p)
    BY <1>2 DEF Sleeper, At
  <2> QED
    BY <1>10, <2>1 DEF SleepOK
<1>17. At(p, "wakeup init") => th[p].w # 1 \/ ~Sleeper(initproc)'
  <2> SUFFICES ASSUME th[p].pc = "wakeup init", th[p].w = 1 PROVE ~Sleeper(initproc)'
    BY DEF At
  <2>1. c = initproc /\ q = c
    BY <1>3, Consts
  <2> QED
    BY <1>2, <1>11, <2>1
<1> QED
  BY <1>2, <1>7, <1>8, <1>9, <1>12, <1>13, <1>14, <1>15, <1>16, <1>17, OwnStep DEF Own

\* The wakeup(initproc) of reparent(): its first slot is that of init.
LEMMA WakeupInitInv ==
  ASSUME IInv, NEW p \in Slots, WakeupInit(p)
  PROVE  IInv'
<1>1. /\ th[p].pc = "wakeup init" /\ parent' = parent /\ chan' = chan
      /\ plock' = plock /\ wait_lock' = wait_lock
  BY DEF WakeupInit, At
<1>2. CASE WakeSlot(p, initproc)
  BY <1>1, <1>2, WakeSlotInv, Consts
<1>3. CASE /\ th[p].w > NPROC /\ state' = state
           /\ th' = [th EXCEPT ![p].pc = "reparent", ![p].pp = @ + 1]
  <2>1. TypeOK /\ ExitOK(p) /\ "reparent" \in Places /\ "reparent" \in Running
    BY DEF IInv, Places, Running
  <2>2. th[p] \in Locals /\ th[p].pp \in Nat \ {0} /\ th[p].w \in Nat \ {0}
        /\ th[p].pp + 1 \in Nat \ {0}
    BY <2>1 DEF TypeOK, Locals
  <2>3. th' =
          [th EXCEPT ![p] = [th[p] EXCEPT !.pc = "reparent", !.pp = th[p].pp + 1, !.w = th[p].w]]
    BY <1>3, <2>1, <2>2 DEF TypeOK, Locals
  <2>4. Moves(p, "reparent", th[p].pp + 1, th[p].w, th[p].havekids, th[p].np)
    BY <2>1, <2>2, <2>3, ThreadNext
  <2>5. state[p] = "RUNNING" /\ wait_lock = p /\ p # initproc
    BY <1>1, ExitingParent
  <2>6. th'[p].pc = "reparent" /\ th'[p].pp = th[p].pp + 1
    BY <2>4 DEF Moves
  <2>7. ExitOK(p)'
    <3>1. \A q \in Slots : q <= th[p].pp => parent[q] # p
      BY <1>1, <2>1 DEF ExitOK, At
    <3>2. \A q \in Slots : q < th[p].pp + 1 => q <= th[p].pp
      BY <2>2, Consts
    <3> QED
      BY <1>1, <2>6, <3>1, <3>2 DEF ExitOK, At
  <2>8. ScanOK(p)' /\ WokenOK(p)'
    BY <2>6 DEF ScanOK, WokenOK, At
  <2>9. th[p].w # 1
    BY <1>3, <2>2, Consts
  <2>10. "reparent" \notin Forking \cup {"asleep", "dozing", "gone"}
    BY DEF Forking
  <2>11. wait_lock' \in Slots
    BY <1>1, <2>5
  <2> QED
    BY <1>1, <1>3, <2>1, <2>4, <2>5, <2>7, <2>8, <2>9, <2>10, <2>11, RunStep
<1> QED
  BY <1>2, <1>3 DEF WakeupInit

\* The wakeup(p->parent) of exit(): behind the slot of the parent it is awake.
LEMMA WakeupParentInv ==
  ASSUME IInv, NEW p \in Slots, WakeupParent(p)
  PROVE  IInv'
<1>1. /\ th[p].pc = "wakeup parent" /\ parent' = parent /\ chan' = chan
      /\ plock' = plock /\ wait_lock' = wait_lock
  BY DEF WakeupParent, At
<1>2. state[p] = "RUNNING" /\ wait_lock = p /\ p # initproc /\ parent[p] \in Slots
  BY <1>1, ExitingParent
<1>3. CASE WakeSlot(p, parent[p])
  BY <1>1, <1>2, <1>3, WakeSlotInv
<1>4. CASE th[p].w > NPROC /\ state' = state /\ Goto(p, "zombie")
  <2>1. TypeOK /\ ExitOK(p) /\ WokenOK(p) /\ "zombie" \in Places /\ "zombie" \in Running
    BY DEF IInv, Places, Running
  <2>2. Moves(p, "zombie", th[p].pp, th[p].w, th[p].havekids, th[p].np)
    BY <1>4, <2>1, GotoMoves
  <2>3. th'[p].pc = "zombie" /\ \A r \in Slots \ {p} : th'[r] = th[r]
    BY <2>2 DEF Moves
  <2>4. ExitOK(p)' /\ ScanOK(p)'
    BY <1>1, <2>1, <2>3 DEF ExitOK, ScanOK, At
  <2>5. WokenOK(p)'
    <3>1. th[p].w > parent[p]
      <4>1. th[p].w \in Nat
        BY <2>1 DEF TypeOK, Locals
      <4>2. parent[p] \in Nat /\ parent[p] <= NPROC /\ NPROC \in Nat
        BY <1>2, Consts
      <4> QED
        BY <1>4, <4>1, <4>2
    <3>2. ~Sleeper(parent[p])
      BY <1>1, <2>1, <3>1 DEF WokenOK, At
    <3>3. parent[p] # p
      BY <1>1, ExitingParent
    <3> QED
      BY <1>1, <1>2, <1>4, <2>3, <3>2, <3>3 DEF WokenOK, Sleeper, At
  <2>6. "zombie" \notin Forking \cup {"asleep", "dozing", "gone"}
    BY DEF Forking
  <2>7. wait_lock' \in Slots
    BY <1>1, <1>2
  <2> QED
    BY <1>1, <1>2, <1>4, <2>1, <2>2, <2>4, <2>5, <2>6, <2>7, RunStep
<1> QED
  BY <1>3, <1>4 DEF WakeupParent

\* sleep() gives up wait_lock when it has p->lock: what the scan saw still holds.
LEMMA SleepLockInv ==
  ASSUME IInv, NEW p \in Slots, SleepLock(p)
  PROVE  IInv'
<1>1. /\ TypeOK /\ PlaceOK(p) /\ LockOK(p) /\ ScanOK(p) /\ "asleep" \in Places
      /\ Nobody # p
  BY Consts DEF IInv, Places, Running
<1>2. Moves(p, "asleep", th[p].pp, th[p].w, th[p].havekids, th[p].np)
  BY <1>1, GotoMoves DEF SleepLock
<1>3. /\ state' = state /\ parent' = parent /\ chan' = chan /\ th[p].pc = "sleep"
      /\ wait_lock' = Nobody /\ plock' = [plock EXCEPT ![p] = p]
  BY DEF SleepLock, At
<1>4. th'[p].pc = "asleep" /\ \A r \in Slots \ {p} : th'[r] = th[r]
  BY <1>2 DEF Moves
<1>5. TypeOK'
  BY <1>1, <1>2, <1>3 DEF TypeOK, Moves
<1>6. plock'[p] = p /\ \A r \in Slots \ {p} : plock'[r] = plock[r]
  BY <1>1, <1>3 DEF TypeOK
<1>7. state[p] = "RUNNING" /\ wait_lock = p
  BY <1>1, <1>3 DEF PlaceOK, LockOK, Running, Waiters
<1>8. PlaceOK(p)' /\ LockOK(p)'
  BY <1>3, <1>4, <1>6, <1>7 DEF PlaceOK, LockOK, At, Running, Waiters
<1>9. ForkOK(p)' /\ ExitOK(p)' /\ ScanOK(p)' /\ WokenOK(p)'
  BY <1>4 DEF ForkOK, ExitOK, ScanOK, WokenOK, At, Forking
<1>10. SleepOK(p)'
  BY <1>1, <1>3 DEF ScanOK, SleepOK, At
<1>11. /\ th'[p].pc \notin Forking /\ th'[p].pc \notin Exiting /\ ~At(p, "wakeup init")
       /\ state[p] # "USED"
  BY <1>3, <1>4, <1>7 DEF Forking, Exiting, At
<1> QED
  BY <1>3, <1>4, <1>5, <1>6, <1>7, <1>8, <1>9, <1>10, <1>11, OwnStep DEF Own

\* The sleeper gets its state: it counts as a sleeper before and after.
LEMMA SleepOnInv ==
  ASSUME IInv, NEW p \in Slots, SleepOn(p)
  PROVE  IInv'
<1>1. TypeOK /\ PlaceOK(p) /\ LockOK(p) /\ SleepOK(p) /\ "dozing" \in Places
  BY DEF IInv, Places
<1>2. Moves(p, "dozing", th[p].pp, th[p].w, th[p].havekids, th[p].np)
  BY <1>1, GotoMoves DEF SleepOn
<1>3. plock' = plock /\ parent' = parent /\ wait_lock' = wait_lock
      /\ th[p].pc = "asleep"
  BY DEF SleepOn, At
<1>4. /\ state' \in [Slots -> States] /\ state'[p] = "SLEEPING"
      /\ chan' \in [Slots -> Slots \cup {Nobody, Ticks}] /\ chan'[p] = p
      /\ \A r \in Slots \ {p} : state'[r] = state[r] /\ chan'[r] = chan[r]
  BY <1>1 DEF SleepOn, TypeOK, States
<1>5. TypeOK'
  BY <1>1, <1>2, <1>3, <1>4 DEF TypeOK, Moves
<1>6. state[p] = "RUNNING" /\ th'[p].pc = "dozing"
      /\ \A r \in Slots \ {p} : th'[r] = th[r]
  BY <1>1, <1>2, <1>3 DEF PlaceOK, Running, Moves
<1>7. Sleeper(p)
  BY <1>3 DEF Sleeper, At
<1>8. PlaceOK(p)' /\ LockOK(p)'
  BY <1>1, <1>3, <1>4, <1>6 DEF PlaceOK, LockOK, At, Running, Waiters
<1>9. ForkOK(p)' /\ ExitOK(p)' /\ ScanOK(p)' /\ WokenOK(p)'
  BY <1>6 DEF ForkOK, ExitOK, ScanOK, WokenOK, At, Forking
<1>10. SleepOK(p)'
  <2>1. \A q \in Slots : state'[q] = "ZOMBIE" => state[q] = "ZOMBIE"
    BY <1>4
  <2>2. /\ \E q \in Slots : parent[q] = p
        /\ \A q \in Slots : parent[q] = p /\ state[q] = "ZOMBIE" =>
             /\ p = initproc /\ wait_lock \in Slots
             /\ At(wait_lock, "wakeup init") /\ th[wait_lock].w = 1
    BY <1>1, <1>7 DEF SleepOK
  <2>3. wait_lock \in Slots /\ At(wait_lock, "wakeup init") =>
          th'[wait_lock] = th[wait_lock]
    BY <1>3, <1>6 DEF At
  <2> QED
    BY <1>3, <2>1, <2>2, <2>3 DEF SleepOK, At
<1>11. /\ th'[p].pc \notin Forking /\ th'[p].pc \notin Exiting /\ ~At(p, "wakeup init")
       /\ state[p] # "USED" /\ state[p] \in Live /\ state'[p] \in Live
  BY <1>3, <1>4, <1>6 DEF Forking, Exiting, At, Live
<1> QED
  BY <1>3, <1>4, <1>5, <1>6, <1>7, <1>8, <1>9, <1>10, <1>11, OwnStep DEF Own

\* Who holds wait_lock, or finds it free, is alone in the loops of exit() and
\* wait(): the others owe nothing there.
LEMMA AloneStep ==
  ASSUME IInv, NEW p \in Slots, wait_lock \in {p, Nobody}, NEW r \in Slots \ {p},
         th'[r].pc = th[r].pc
  PROVE  /\ th[r].pc \notin Waiters
         /\ ExitOK(r)' /\ ScanOK(r)' /\ WokenOK(r)'
<1>1. LockOK(r) /\ Nobody # r
  BY Consts DEF IInv
<1>2. th[r].pc \notin Waiters
  BY <1>1 DEF LockOK
<1> QED
  BY <1>2 DEF ExitOK, ScanOK, WokenOK, At, Waiters

\* The child of p in slot pp is handed to init.
LEMMA AbandonInv ==
  ASSUME IInv, NEW p \in Slots, NEW pp \in Slots, pp = th[p].pp,
         th[p].pc = "reparent", parent[pp] = p,
         parent' = [parent EXCEPT ![pp] = initproc],
         th' = [th EXCEPT ![p] = AfterReparent(p)],
         state' = state, chan' = chan, plock' = plock, wait_lock' = wait_lock
  PROVE  IInv'
<1>1. /\ TypeOK /\ InitOK /\ initproc \in Slots /\ pp \in Nat \ {0} /\ p # Nobody
      /\ pp \in Slots \cup {Nobody}
  BY Consts DEF IInv
<1>2. state[p] = "RUNNING" /\ wait_lock = p /\ p # initproc
  BY ExitingParent
<1>3. Moves(p, "wakeup init", pp, 1, th[p].havekids, th[p].np)
  <2>1. th[p] \in Locals /\ "wakeup init" \in Places
    BY <1>1 DEF TypeOK, Places, Running
  <2>2. AfterReparent(p) = [th[p] EXCEPT !.pc = "wakeup init", !.pp = pp, !.w = 1]
    BY <2>1 DEF AfterReparent, Locals
  <2> QED
    BY <1>1, <2>1, <2>2, ThreadNext, Succ
<1>4. /\ th'[p].pc = "wakeup init" /\ th'[p].pp = pp /\ th'[p].w = 1
      /\ \A r \in Slots \ {p} : th'[r] = th[r]
  BY <1>3 DEF Moves
<1>5. /\ parent' \in [Slots -> Slots \cup {Nobody}] /\ parent'[pp] = initproc
      /\ \A q \in Slots \ {pp} : parent'[q] = parent[q]
  BY <1>1 DEF TypeOK
<1>6. TypeOK'
  BY <1>1, <1>3, <1>5 DEF TypeOK, Moves
<1>7. InitOK'
  <2>1. pp # initproc
    BY <1>1 DEF InitOK
  <2> QED
    BY <1>1, <1>2, <1>4, <1>5, <2>1 DEF InitOK
<1>8. ASSUME NEW r \in Slots PROVE PlaceOK(r)' /\ LockOK(r)'
  <2>1. PlaceOK(r) /\ LockOK(r)
    BY DEF IInv
  <2>2. CASE r = p
    BY <1>2, <1>4, <2>1, <2>2 DEF PlaceOK, LockOK, At, Running
  <2>3. CASE r # p
    BY <1>4, <2>1, <2>3 DEF PlaceOK, LockOK, At
  <2> QED
    BY <2>2, <2>3
<1>9. ASSUME NEW r \in Slots PROVE ForkOK(r)'
  <2> SUFFICES ASSUME th'[r].pc \in Forking PROVE ForkOK(r)'
    BY DEF ForkOK
  <2>1. r # p /\ th'[r] = th[r] /\ ForkOK(r) /\ th'[p].pc \notin Forking
    BY <1>4 DEF IInv, Forking
  <2>2. PICK np \in Slots : np = th[r].np
    BY <2>1 DEF ForkOK
  <2>3. np # pp
    BY <1>1, <2>1, <2>2 DEF ForkOK
  <2>4. \A s \in Slots : s # r /\ th'[s].pc \in Forking => th'[s].np # np
    BY <1>4, <2>1, <2>2 DEF ForkOK
  <2> QED
    BY <1>5, <2>1, <2>2, <2>3, <2>4 DEF ForkOK, At
<1>10. ASSUME NEW q \in Slots PROVE ParentOK(q)'
  <2>1. ParentOK(q) /\ state[initproc] \in {"RUNNABLE", "RUNNING", "SLEEPING"}
        /\ initproc # Nobody /\ ParentOK(pp)
    BY <1>1, Consts DEF IInv, InitOK, TypeOK, States
  <2>2. CASE q = pp
    BY <1>1, <1>5, <2>1, <2>2 DEF ParentOK
  <2>3. CASE q # pp
    BY <1>5, <2>1, <2>3 DEF ParentOK
  <2> QED
    BY <2>2, <2>3
<1>11. ExitOK(p)' /\ ScanOK(p)' /\ WokenOK(p)'
  <2>1. \A q \in Slots : q < pp => parent[q] # p
    BY DEF IInv, ExitOK, At
  <2>2. \A q \in Slots : q <= pp => q < pp \/ q = pp
    BY Consts
  <2>3. \A q \in Slots : q <= pp => parent'[q] # p
    BY <1>2, <1>5, <2>1, <2>2
  <2> QED
    BY <1>4, <2>3 DEF ExitOK, ScanOK, WokenOK, At
<1>12. ASSUME NEW r \in Slots \ {p} PROVE ExitOK(r)' /\ ScanOK(r)' /\ WokenOK(r)'
  BY <1>2, <1>4, AloneStep
<1>13. ASSUME NEW r \in Slots PROVE SleepOK(r)'
  <2> SUFFICES ASSUME Sleeper(r)' PROVE SleepOK(r)'
    BY DEF SleepOK
  <2>1. r # p /\ Sleeper(r) /\ SleepOK(r)
    BY <1>2, <1>4 DEF Sleeper, At, IInv
  <2>2. \E q \in Slots : parent'[q] = r
    BY <1>5, <2>1 DEF SleepOK
  <2>3. ASSUME NEW q \in Slots, parent'[q] = r, state[q] = "ZOMBIE" PROVE r = initproc
    BY <1>5, <2>1, <2>3 DEF SleepOK
  <2> QED
    BY <1>2, <1>4, <2>2, <2>3 DEF SleepOK, At
<1> QED
  BY <1>6, <1>7, <1>8, <1>9, <1>10, <1>11, <1>12, <1>13 DEF IInv

\* One round of reparent(): past the end, a child, or somebody else's child.
LEMMA ReparentInv ==
  ASSUME IInv, NEW p \in Slots, Reparent(p)
  PROVE  IInv'
<1>1. /\ th[p].pc = "reparent" /\ state' = state /\ chan' = chan
      /\ plock' = plock /\ wait_lock' = wait_lock
  BY DEF Reparent, At
<1>2. state[p] = "RUNNING" /\ wait_lock = p /\ p # initproc /\ parent[p] \in Slots
  BY <1>1, ExitingParent
<1>3. /\ TypeOK /\ th[p] \in Locals /\ th[p].pp \in Nat \ {0} /\ th[p].w \in Nat \ {0}
      /\ \A q \in Slots : q < th[p].pp => parent[q] # p
  BY <1>1 DEF IInv, TypeOK, Locals, ExitOK, At
<1>4. /\ "reparent" \in Places /\ "reparent" \in Running
      /\ "wakeup parent" \in Places /\ "wakeup parent" \in Running
      /\ "reparent" \notin Forking \cup {"asleep", "dozing", "gone"}
      /\ "wakeup parent" \notin Forking \cup {"asleep", "dozing", "gone"}
  BY DEF Places, Running, Forking
<1>5. wait_lock' \in Slots
  BY <1>1, <1>2
<1>6. CASE /\ th[p].pp > NPROC /\ parent' = parent
           /\ th' = [th EXCEPT ![p].pc = "wakeup parent", ![p].w = 1]
  <2>1. th' =
          [th EXCEPT ![p] = [th[p] EXCEPT !.pc = "wakeup parent", !.pp = th[p].pp, !.w = 1]]
    BY <1>3, <1>6 DEF TypeOK, Locals
  <2>2. Moves(p, "wakeup parent", th[p].pp, 1, th[p].havekids, th[p].np)
    BY <1>3, <1>4, <2>1, ThreadNext, Succ
  <2>3. th'[p].pc = "wakeup parent" /\ th'[p].w = 1
    BY <2>2 DEF Moves
  <2>4. ExitOK(p)' /\ ScanOK(p)'
    <3>1. \A q \in Slots : q < th[p].pp
      BY <1>3, <1>6, Succ
    <3>2. \A q \in Slots : parent[q] # p
      BY <1>3, <3>1
    <3> QED
      BY <1>6, <2>3, <3>2 DEF ExitOK, ScanOK, At
  <2>5. WokenOK(p)'
    <3>1. ~(1 > parent[p])
      BY <1>2, Succ
    <3> QED
      BY <1>6, <2>3, <3>1 DEF WokenOK, At
  <2> QED
    BY <1>1, <1>2, <1>4, <1>5, <1>6, <2>2, <2>4, <2>5, RunStep
<1>7. CASE /\ ~(th[p].pp > NPROC) /\ Abandons(p, th[p].pp)
           /\ parent' = [parent EXCEPT ![th[p].pp] = initproc]
           /\ th' = [th EXCEPT ![p] = AfterReparent(p)]
  <2>1. PICK pp \in Slots : pp = th[p].pp
    BY <1>3, <1>7, Consts
  <2> QED
    BY <1>1, <1>7, <2>1, AbandonInv DEF Abandons
<1>8. CASE /\ ~(th[p].pp > NPROC) /\ ~Abandons(p, th[p].pp)
           /\ th' = [th EXCEPT ![p].pp = @ + 1] /\ parent' = parent
  <2>1. th[p].pp + 1 \in Nat \ {0}
    BY <1>3, Succ
  <2>2. th' =
          [th EXCEPT ![p] = [th[p] EXCEPT !.pc = "reparent", !.pp = th[p].pp + 1, !.w = th[p].w]]
    BY <1>1, <1>3, <1>8 DEF TypeOK, Locals
  <2>3. Moves(p, "reparent", th[p].pp + 1, th[p].w, th[p].havekids, th[p].np)
    BY <1>3, <1>4, <2>1, <2>2, ThreadNext
  <2>4. th'[p].pc = "reparent" /\ th'[p].pp = th[p].pp + 1
    BY <2>3 DEF Moves
  <2>5. ExitOK(p)'
    <3>1. \A q \in Slots : q < th[p].pp + 1 => q < th[p].pp \/ q = th[p].pp
      BY <1>3, Consts
    <3>2. \A q \in Slots : q < th[p].pp + 1 => parent[q] # p
      BY <1>3, <1>8, <3>1 DEF Abandons
    <3> QED
      BY <1>8, <2>4, <3>2 DEF ExitOK, At
  <2>6. ScanOK(p)' /\ WokenOK(p)'
    BY <2>4 DEF ScanOK, WokenOK, At
  <2> QED
    BY <1>1, <1>2, <1>4, <1>5, <1>8, <2>3, <2>5, <2>6, RunStep
<1> QED
  BY <1>6, <1>7, <1>8 DEF Reparent

\* p becomes a zombie: it has no child left, and its parent is awake.
LEMMA ExitZombieInv ==
  ASSUME IInv, NEW p \in Slots, ExitZombie(p)
  PROVE  IInv'
<1>1. /\ TypeOK /\ InitOK /\ "gone" \in Places /\ "ZOMBIE" \in States
      /\ p # Nobody
  BY Consts DEF IInv, Places, States
<1>2. /\ th[p].pc = "zombie" /\ parent' = parent /\ chan' = chan /\ wait_lock' = Nobody
      /\ plock' = [plock EXCEPT ![p] = p] /\ state' = [state EXCEPT ![p] = "ZOMBIE"]
  BY DEF ExitZombie, At
<1>3. state[p] = "RUNNING" /\ wait_lock = p /\ p # initproc /\ parent[p] \in Slots
  BY <1>2, ExitingParent
<1>4. Moves(p, "gone", th[p].pp, th[p].w, th[p].havekids, th[p].np)
  BY <1>1, GotoMoves DEF ExitZombie
<1>5. th'[p].pc = "gone" /\ \A r \in Slots \ {p} : th'[r] = th[r]
  BY <1>4 DEF Moves
<1>6. /\ state' \in [Slots -> States] /\ state'[p] = "ZOMBIE" /\ plock'[p] = p
      /\ plock' \in [Slots -> Slots \cup {Nobody}]
      /\ \A r \in Slots \ {p} : state'[r] = state[r] /\ plock'[r] = plock[r]
  BY <1>1, <1>2 DEF TypeOK
<1>7. TypeOK'
  BY <1>1, <1>2, <1>4, <1>6 DEF TypeOK, Moves
<1>8. InitOK'
  BY <1>1, <1>2, <1>3, <1>5, <1>6, Consts DEF InitOK
<1>9. \A q \in Slots : parent[q] # p
  BY <1>2 DEF IInv, ExitOK
<1>10. ASSUME NEW r \in Slots
       PROVE  PlaceOK(r)' /\ LockOK(r)' /\ ExitOK(r)' /\ ScanOK(r)' /\ WokenOK(r)'
  <2>1. CASE r = p
    BY <1>5, <1>6, <2>1
    DEF PlaceOK, LockOK, ExitOK, ScanOK, WokenOK, At, Running, Waiters
  <2>2. CASE r # p
    <3>1. PlaceOK(r) /\ LockOK(r)
      BY DEF IInv
    <3>2. th[r].pc \notin Waiters /\ ExitOK(r)' /\ ScanOK(r)' /\ WokenOK(r)'
      BY <1>3, <1>5, <2>2, AloneStep
    <3> QED
      BY <1>2, <1>5, <1>6, <2>2, <3>1, <3>2 DEF PlaceOK, LockOK, At
  <2> QED
    BY <2>1, <2>2
<1>11. ASSUME NEW r \in Slots PROVE ForkOK(r)'
  <2> SUFFICES ASSUME th'[r].pc \in Forking PROVE ForkOK(r)'
    BY DEF ForkOK
  <2>1. r # p /\ th'[r] = th[r] /\ ForkOK(r) /\ th'[p].pc \notin Forking
    BY <1>5 DEF IInv, Forking
  <2>2. PICK np \in Slots : np = th[r].np
    BY <2>1 DEF ForkOK
  <2>3. np # p
    BY <1>3, <2>1, <2>2 DEF ForkOK
  <2>4. \A s \in Slots : s # r /\ th'[s].pc \in Forking => th'[s].np # np
    BY <1>5, <2>1, <2>2 DEF ForkOK
  <2> QED
    BY <1>2, <1>6, <2>1, <2>2, <2>3, <2>4 DEF ForkOK, At
<1>12. ASSUME NEW q \in Slots PROVE ParentOK(q)'
  <2>1. ParentOK(q) /\ parent[q] # p /\ parent[q] \in Slots \cup {Nobody}
    BY <1>1, <1>9 DEF IInv, TypeOK
  <2>2. parent[q] # Nobody => state'[parent[q]] = state[parent[q]]
    BY <1>6, <2>1
  <2>3. CASE q = p
    <3>1. parent[q] # Nobody
      BY <1>3, <2>3, Consts
    <3> QED
      BY <1>2, <1>6, <2>1, <2>2, <2>3, <3>1 DEF ParentOK
  <2>4. CASE q # p
    BY <1>2, <1>6, <2>1, <2>2, <2>4 DEF ParentOK
  <2> QED
    BY <2>3, <2>4
<1>13. ASSUME NEW r \in Slots PROVE SleepOK(r)'
  <2> SUFFICES ASSUME Sleeper(r)' PROVE SleepOK(r)'
    BY DEF SleepOK
  <2>1. r # p
    BY <1>5, <1>6 DEF Sleeper, At
  <2>2. Sleeper(r) /\ SleepOK(r)
    BY <1>2, <1>5, <1>6, <2>1 DEF Sleeper, At, IInv
  <2>3. r # parent[p]
    <3>1. WokenOK(p)
      BY DEF IInv
    <3> QED
      BY <1>2, <2>2, <3>1 DEF WokenOK, At
  <2>4. \A q \in Slots : ~(parent[q] = r /\ state'[q] = "ZOMBIE")
    <3> SUFFICES ASSUME NEW q \in Slots, parent[q] = r, state'[q] = "ZOMBIE" PROVE FALSE
      OBVIOUS
    <3>1. q # p /\ state[q] = "ZOMBIE"
      BY <1>6, <2>3
    <3> QED
      BY <1>2, <1>3, <2>2, <3>1 DEF SleepOK, At
  <2> QED
    BY <1>2, <2>2, <2>4 DEF SleepOK
<1> QED
  BY <1>7, <1>8, <1>10, <1>11, <1>12, <1>13 DEF IInv

\* wait() frees the slot pp.
LEMMA FreeInv ==
  ASSUME IInv, NEW p \in Slots, NEW pp \in Slots, th[p].pc = "scan", parent[pp] = p,
         Free(pp), state[pp] = "ZOMBIE", freeproc(pp), wait_lock' = Nobody,
         th' = [th EXCEPT ![p] = Thread("user")], plock' = plock
  PROVE  IInv'
<1>1. /\ TypeOK /\ InitOK /\ "user" \in Places /\ "UNUSED" \in States
      /\ "user" \in Running
      /\ p # Nobody /\ pp # Nobody /\ PlaceOK(p) /\ LockOK(p) /\ PlaceOK(pp)
      /\ LockOK(pp)
      /\ initproc \in Slots /\ plock[pp] = Nobody
  BY Consts DEF IInv, Places, States, Running, Free
<1>2. state[p] = "RUNNING" /\ wait_lock = p /\ p # pp
  BY <1>1 DEF PlaceOK, LockOK, Running, Waiters
<1>3. th[pp].pc = "none"
  BY <1>1 DEF PlaceOK, LockOK, At
<1>4. Moves(p, "user", 1, 1, FALSE, Nobody)
  BY <1>1, ThreadMoves
<1>5. th'[p].pc = "user" /\ \A r \in Slots \ {p} : th'[r] = th[r]
  BY <1>4 DEF Moves
<1>6. /\ state' \in [Slots -> States] /\ state'[pp] = "UNUSED"
      /\ parent' \in [Slots -> Slots \cup {Nobody}] /\ parent'[pp] = Nobody
      /\ chan' \in [Slots -> Slots \cup {Nobody, Ticks}]
      /\ \A r \in Slots \ {pp} :
           state'[r] = state[r] /\ parent'[r] = parent[r] /\ chan'[r] = chan[r]
  BY <1>1 DEF TypeOK, freeproc
<1>7. TypeOK'
  BY <1>1, <1>4, <1>6 DEF TypeOK, Moves
<1>8. InitOK'
  <2>1. pp # initproc
    BY <1>1 DEF InitOK
  <2>2. th'[initproc].pc \notin Exiting
    <3>1. "user" \notin Exiting
      BY DEF Exiting
    <3> QED
      BY <1>1, <1>5, <3>1 DEF InitOK
  <2> QED
    BY <1>1, <1>6, <2>1, <2>2 DEF InitOK
<1>9. ASSUME NEW r \in Slots
      PROVE  PlaceOK(r)' /\ LockOK(r)' /\ ExitOK(r)' /\ ScanOK(r)' /\ WokenOK(r)'
  <2>1. CASE r = p
    BY <1>2, <1>5, <1>6, <2>1
    DEF PlaceOK, LockOK, ExitOK, ScanOK, WokenOK, At, Running, Waiters
  <2>2. CASE r # p
    <3>1. PlaceOK(r) /\ LockOK(r)
      BY DEF IInv
    <3>2. th[r].pc \notin Waiters /\ ExitOK(r)' /\ ScanOK(r)' /\ WokenOK(r)'
      BY <1>2, <1>5, <2>2, AloneStep
    <3>3. LockOK(r)'
      BY <1>5, <2>2, <3>1, <3>2 DEF LockOK
    <3>4. CASE r = pp
      BY <1>3, <1>5, <1>6, <2>2, <3>2, <3>3, <3>4 DEF PlaceOK, At, Running
    <3>5. CASE r # pp
      BY <1>5, <1>6, <2>2, <3>1, <3>2, <3>3, <3>5 DEF PlaceOK, At
    <3> QED
      BY <3>4, <3>5
  <2> QED
    BY <2>1, <2>2
<1>10. ASSUME NEW r \in Slots PROVE ForkOK(r)'
  <2> SUFFICES ASSUME th'[r].pc \in Forking PROVE ForkOK(r)'
    BY DEF ForkOK
  <2>1. r # p /\ th'[r] = th[r] /\ ForkOK(r) /\ th'[p].pc \notin Forking
    BY <1>5 DEF IInv, Forking
  <2>2. PICK np \in Slots : np = th[r].np
    BY <2>1 DEF ForkOK
  <2>3. np # pp
    BY <2>1, <2>2 DEF ForkOK
  <2>4. \A s \in Slots : s # r /\ th'[s].pc \in Forking => th'[s].np # np
    BY <1>5, <2>1, <2>2 DEF ForkOK
  <2> QED
    BY <1>6, <2>1, <2>2, <2>3, <2>4 DEF ForkOK, At
<1>11. ASSUME NEW q \in Slots PROVE ParentOK(q)'
  <2>1. ParentOK(q) /\ parent[q] \in Slots \cup {Nobody}
    BY <1>1 DEF IInv, TypeOK
  <2>2. parent[q] # Nobody => state'[parent[q]] = state[parent[q]]
    <3>1. parent[q] # Nobody => parent[q] # pp
      BY <2>1 DEF ParentOK
    <3> QED
      BY <1>6, <2>1, <3>1
  <2>3. CASE q = pp
    BY <1>6, <2>3 DEF ParentOK
  <2>4. CASE q # pp
    BY <1>6, <2>1, <2>2, <2>4 DEF ParentOK
  <2> QED
    BY <2>3, <2>4
<1>12. ASSUME NEW r \in Slots PROVE SleepOK(r)'
  <2> SUFFICES ASSUME Sleeper(r)' PROVE SleepOK(r)'
    BY DEF SleepOK
  <2>1. r # p /\ r # pp
    BY <1>2, <1>3, <1>5, <1>6 DEF Sleeper, At
  <2>2. Sleeper(r) /\ SleepOK(r)
    BY <1>5, <1>6, <2>1 DEF Sleeper, At, IInv
  <2>3. \E q \in Slots : parent'[q] = r
    BY <1>6, <2>1, <2>2 DEF SleepOK
  <2>4. \A q \in Slots : ~(parent'[q] = r /\ state'[q] = "ZOMBIE")
    <3> SUFFICES ASSUME NEW q \in Slots, parent'[q] = r, state'[q] = "ZOMBIE"
                 PROVE  FALSE
      OBVIOUS
    <3>1. q # pp /\ state[q] = "ZOMBIE" /\ parent[q] = r
      BY <1>6
    <3> QED
      BY <1>2, <2>2, <3>1 DEF SleepOK, At
  <2> QED
    BY <2>3, <2>4 DEF SleepOK
<1> QED
  BY <1>7, <1>8, <1>9, <1>10, <1>11, <1>12 DEF IInv

\* wait() finds a zombie: it frees the slot, or gives up.
LEMMA WaitReapInv ==
  ASSUME IInv, NEW p \in Slots, WaitReap(p)
  PROVE  IInv'
<1>1. PICK pp \in Slots : pp = th[p].pp
  BY DEF WaitReap
<1>2. /\ th[p].pc = "scan" /\ parent[pp] = p /\ Free(pp) /\ state[pp] = "ZOMBIE"
      /\ freeproc(pp) \/ UNCHANGED <<state, parent, chan, killed>>
      /\ wait_lock' = Nobody /\ plock' = plock
      /\ th' = [th EXCEPT ![p] = Thread("user")]
  BY <1>1 DEF WaitReap, MayLook, At
<1>3. CASE freeproc(pp)
  BY <1>2, <1>3, FreeInv
<1>4. CASE UNCHANGED <<state, parent, chan, killed>>
  <2>1. TypeOK /\ PlaceOK(p) /\ LockOK(p) /\ "user" \in Places
    BY DEF IInv, Places, Running
  <2>2. Moves(p, "user", 1, 1, FALSE, Nobody)
    BY <1>2, <2>1, ThreadMoves
  <2>3. TypeOK'
    BY <1>2, <1>4, <2>1, <2>2 DEF TypeOK, Moves
  <2>4. state[p] \in Live /\ th[p].pc # "wakeup init" /\ state'[p] = "RUNNING"
        /\ wait_lock = p
    BY <1>2, <1>4, <2>1 DEF PlaceOK, LockOK, Waiters, Running, Live
  <2> QED
    BY <1>2, <1>4, <2>2, <2>3, <2>4, QuietStep DEF Moves
<1> QED
  BY <1>2, <1>3, <1>4

\* A step of fork() in p that changes, besides the thread of p, only the slot
\* np, which is not yet a process, and gives nobody a child.
LEMMA ForkStep ==
  ASSUME IInv, TypeOK', NEW p \in Slots, NEW np \in Slots \ {p},
         \A r \in Slots \ {p, np} :
           /\ th'[r] = th[r] /\ plock'[r] = plock[r] /\ chan'[r] = chan[r]
           /\ state'[r] = state[r],
         parent' = parent, wait_lock' = wait_lock,
         state[p] = "RUNNING", state'[p] = "RUNNING",
         th[p].pc \in Forking \cup {"user"}, th'[p].pc \in Forking \cup {"user"},
         state[np] \in {"UNUSED", "USED"}, state'[np] \in {"UNUSED", "USED", "RUNNABLE"},
         th'[np].pc \in {"none", "forkret"},
         PlaceOK(np)', ParentOK(np)', ForkOK(p)',
         \A r \in Slots \ {p} : th[r].pc \in Forking => th[r].np # np
  PROVE  IInv'
<1>1. /\ \A r \in Slots : /\ PlaceOK(r) /\ LockOK(r) /\ ForkOK(r) /\ ParentOK(r)
                          /\ ExitOK(r) /\ ScanOK(r) /\ SleepOK(r) /\ WokenOK(r)
      /\ TypeOK /\ InitOK
  BY DEF IInv
<1>2. /\ th[p].pc \notin Waiters \cup Exiting /\ th'[p].pc \notin Waiters \cup Exiting
      /\ th'[p].pc \notin {"asleep", "dozing", "gone", "none", "forkret"}
      /\ th[p].pc \notin {"asleep", "dozing", "gone"}
      /\ th'[p].pc \in Running
  BY DEF Forking, Waiters, Exiting, Running
<1>3. th[np].pc \in {"none", "forkret"}
  BY <1>1 DEF PlaceOK, At
<1>4. \A r \in Slots : Sleeper(r)' => r \notin {p, np} /\ Sleeper(r)
  <2> SUFFICES ASSUME NEW r \in Slots, Sleeper(r)' PROVE r \notin {p, np} /\ Sleeper(r)
    OBVIOUS
  <2>1. r # p
    BY <1>2 DEF Sleeper, At
  <2>2. r # np
    BY DEF Sleeper, At
  <2> QED
    BY <2>1, <2>2 DEF Sleeper, At
<1>5. ASSUME NEW r \in Slots PROVE PlaceOK(r)' /\ LockOK(r)'
  <2>1. CASE r = p
    BY <1>2, <2>1 DEF PlaceOK, LockOK, At
  <2>2. CASE r = np
    BY <2>2 DEF LockOK, Waiters
  <2>3. CASE r \notin {p, np}
    BY <1>1, <2>3 DEF PlaceOK, LockOK, At
  <2> QED
    BY <2>1, <2>2, <2>3
<1>6. ASSUME NEW r \in Slots PROVE ForkOK(r)'
  <2> SUFFICES ASSUME th'[r].pc \in Forking, r # p PROVE ForkOK(r)'
    BY DEF ForkOK
  <2>1. r # np /\ th'[np].pc \notin Forking
    BY DEF Forking
  <2>2. ForkOK(r) /\ th'[r] = th[r]
    BY <1>1, <2>1
  <2>3. PICK m \in Slots : m = th[r].np
    BY <2>2 DEF ForkOK
  <2>4. m # np /\ m # p
    BY <2>2, <2>3 DEF ForkOK
  <2>5. \A s \in Slots : s # r /\ th'[s].pc \in Forking => th'[s].np # m
    <3> SUFFICES ASSUME NEW s \in Slots, s # r, th'[s].pc \in Forking
                 PROVE  th'[s].np # m
      OBVIOUS
    <3>1. CASE s = p
      BY <2>2, <2>3, <3>1 DEF ForkOK
    <3>2. CASE s # p
      <4>1. th'[s] = th[s]
        BY <2>1, <3>2
      <4> QED
        BY <2>2, <2>3, <4>1 DEF ForkOK
    <3> QED
      BY <3>1, <3>2
  <2>6. state'[m] = state[m] /\ plock'[m] = plock[m]
    BY <2>4
  <2> QED
    BY <2>2, <2>3, <2>5, <2>6 DEF ForkOK, At
<1>7. ASSUME NEW q \in Slots PROVE ParentOK(q)'
  <2> SUFFICES ASSUME q # np PROVE ParentOK(q)'
    OBVIOUS
  <2>1. ParentOK(q) /\ parent[q] \in Slots \cup {Nobody} /\ state'[q] = state[q]
    BY <1>1 DEF TypeOK
  <2>2. parent[q] # Nobody => state'[parent[q]] = state[parent[q]]
    <3>1. parent[q] # Nobody => parent[q] # np
      BY <2>1 DEF ParentOK
    <3> QED
      BY <2>1, <3>1
  <2> QED
    BY <2>1, <2>2 DEF ParentOK
<1>8. \A q \in Slots : state'[q] = "ZOMBIE" <=> state[q] = "ZOMBIE"
  <2> SUFFICES ASSUME NEW q \in Slots PROVE state'[q] = "ZOMBIE" <=> state[q] = "ZOMBIE"
    OBVIOUS
  <2>1. CASE q \in {p, np}
    BY <2>1
  <2>2. CASE q \notin {p, np}
    BY <2>2
  <2> QED
    BY <2>1, <2>2
<1>9. ASSUME NEW r \in Slots PROVE ExitOK(r)' /\ ScanOK(r)'
  <2>1. CASE r \in {p, np}
    <3>1. th'[r].pc \notin Waiters
      BY <1>2, <2>1 DEF Waiters
    <3> QED
      BY <3>1 DEF ExitOK, ScanOK, At, Waiters
  <2>2. CASE r \notin {p, np}
    <3>1. th'[r] = th[r] /\ ExitOK(r) /\ ScanOK(r)
      BY <1>1, <2>2
    <3>2. ExitOK(r)'
      BY <3>1 DEF ExitOK, At
    <3>3. ScanOK(r)'
      BY <1>8, <3>1 DEF ScanOK, At
    <3> QED
      BY <3>2, <3>3
  <2> QED
    BY <2>1, <2>2
<1>10. ASSUME NEW r \in Slots PROVE WokenOK(r)'
  <2> SUFFICES ASSUME \/ th'[r].pc = "wakeup parent" /\ th'[r].w > parent[r]
                      \/ th'[r].pc = "zombie",
                      Sleeper(parent[r])'
               PROVE  FALSE
    BY DEF WokenOK, At
  <2>1. r \notin {p, np}
    BY <1>2 DEF Waiters
  <2>2. th'[r] = th[r] /\ WokenOK(r)
    BY <1>1, <2>1
  <2>3. parent[r] \in Slots
    BY <2>2, ExitingParent
  <2>4. PICK s \in Slots : s = parent[r]
    BY <2>3
  <2>5. Sleeper(s)
    BY <1>4, <2>4
  <2> QED
    BY <2>2, <2>4, <2>5 DEF WokenOK, At
<1>11. ASSUME NEW r \in Slots PROVE SleepOK(r)'
  <2> SUFFICES ASSUME Sleeper(r)' PROVE SleepOK(r)'
    BY DEF SleepOK
  <2>1. Sleeper(r) /\ SleepOK(r)
    BY <1>1, <1>4
  <2>2. wait_lock \in Slots /\ th[wait_lock].pc = "wakeup init" =>
          th'[wait_lock] = th[wait_lock]
    <3> SUFFICES ASSUME wait_lock \in Slots, th[wait_lock].pc = "wakeup init"
                 PROVE  th'[wait_lock] = th[wait_lock]
      OBVIOUS
    <3>1. wait_lock # p
      BY <1>2 DEF Waiters
    <3>2. wait_lock # np
      BY <1>3
    <3> QED
      BY <3>1, <3>2
  <2> QED
    BY <1>8, <2>1, <2>2 DEF SleepOK, At
<1>12. InitOK'
  <2>1. initproc \in Slots /\ initproc # np
    BY <1>1, Consts DEF InitOK
  <2>2. CASE initproc = p
    BY <1>1, <1>2, <2>2 DEF InitOK
  <2>3. CASE initproc # p
    BY <1>1, <2>1, <2>3 DEF InitOK
  <2> QED
    BY <2>2, <2>3
<1> QED
  BY <1>5, <1>6, <1>7, <1>9, <1>10, <1>11, <1>12 DEF IInv

\* What the thread that fills slot np knows about it.
LEMMA ForkFacts ==
  ASSUME IInv, NEW p \in Slots, th[p].pc \in Forking
  PROVE  /\ th[p].np \in Slots /\ th[p].np # p /\ state[th[p].np] = "USED"
         /\ state[p] = "RUNNING" /\ th[th[p].np].pc = "forkret" /\ th[p].np # initproc
         /\ parent[th[p].np] = IF th[p].pc = "start" THEN p ELSE Nobody
         /\ \A r \in Slots \ {p} : th[r].pc \in Forking => th[r].np # th[p].np
<1>1. ForkOK(p) /\ PlaceOK(p) /\ InitOK
  BY DEF IInv
<1>2. state[p] = "RUNNING"
  BY <1>1 DEF PlaceOK, Forking, Running
<1>3. /\ th[p].np \in Slots /\ state[th[p].np] = "USED"
      /\ parent[th[p].np] = IF th[p].pc = "start" THEN p ELSE Nobody
      /\ \A r \in Slots \ {p} : th[r].pc \in Forking => th[r].np # th[p].np
  BY <1>1 DEF ForkOK, At
<1>4. PlaceOK(th[p].np)
  BY <1>3 DEF IInv
<1> QED
  BY <1>1, <1>2, <1>3, <1>4 DEF PlaceOK, InitOK, At

\* allocproc() takes an UNUSED slot, in which no thread lives and that has no parent.
LEMMA ForkInv ==
  ASSUME IInv, NEW p \in Slots, Fork(p)
  PROVE  IInv'
<1>1. TypeOK /\ PlaceOK(p) /\ "USED" \in States /\ p \in Slots \cup {Nobody}
  BY DEF IInv, States
<1>2. PICK np \in Slots :
        /\ state[np] = "UNUSED" /\ state' = [state EXCEPT ![np] = "USED"]
        /\ plock' = [plock EXCEPT ![np] = p]
        /\ th' = [th EXCEPT ![p].pc = "copy", ![p].np = np, ![np] = Thread("forkret")]
  BY DEF Fork
<1>3. /\ th[p].pc = "user" /\ parent' = parent /\ chan' = chan /\ wait_lock' = wait_lock
  BY DEF Fork, Syscall, At
<1>4. state[p] = "RUNNING" /\ p # np
  BY <1>1, <1>2, <1>3 DEF PlaceOK, Running
<1> DEFINE t == [th[p] EXCEPT !.pc = "copy", !.np = np]
<1>5. t \in Locals /\ Thread("forkret") \in Locals /\ t.pc = "copy" /\ t.np = np
      /\ Thread("forkret").pc = "forkret"
  <2>1. Thread("forkret") \in Locals /\ Thread("forkret").pc = "forkret"
    BY DEF Locals, Thread, Places
  <2>2. th[p] \in Locals /\ "copy" \in Places
    BY <1>1 DEF TypeOK, Places, Running
  <2>3. t \in Locals /\ t.pc = "copy" /\ t.np = np
    BY <2>2 DEF Locals
  <2> QED
    BY <2>1, <2>3
<1>6. th' = [th EXCEPT ![p] = t, ![np] = Thread("forkret")]
  BY <1>1, <1>2, <1>4 DEF TypeOK, Locals
<1> HIDE DEF t
<1>7. /\ th' \in [Slots -> Locals] /\ th'[p].pc = "copy" /\ th'[p].np = np
      /\ th'[np].pc = "forkret" /\ \A r \in Slots \ {p, np} : th'[r] = th[r]
  BY <1>1, <1>4, <1>5, <1>6 DEF TypeOK
<1>8. /\ state' \in [Slots -> States] /\ plock' \in [Slots -> Slots \cup {Nobody}]
      /\ state'[np] = "USED" /\ plock'[np] = p
      /\ \A r \in Slots \ {np} : state'[r] = state[r] /\ plock'[r] = plock[r]
  BY <1>1, <1>2 DEF TypeOK
<1>9. TypeOK'
  BY <1>1, <1>3, <1>7, <1>8 DEF TypeOK
<1>10. PlaceOK(np)'
  BY <1>7, <1>8 DEF PlaceOK, At, Running
<1>11. parent[np] = Nobody
  BY <1>2 DEF IInv, ParentOK
<1>12. ParentOK(np)'
  BY <1>3, <1>8, <1>11 DEF ParentOK
<1>13. \A r \in Slots \ {p} : th[r].pc \in Forking => th[r].np # np
  BY <1>2, ForkFacts
<1>14. ForkOK(p)'
  <2>1. \A r \in Slots : r # p /\ th'[r].pc \in Forking => th'[r].np # np
    <3> SUFFICES ASSUME NEW r \in Slots, r # p, th'[r].pc \in Forking
                 PROVE  th'[r].np # np
      OBVIOUS
    <3>1. r # np
      BY <1>7 DEF Forking
    <3> QED
      BY <1>7, <1>13, <3>1
  <2> QED
    BY <1>3, <1>7, <1>8, <1>11, <2>1 DEF ForkOK, At
<1>15. th'[p].pc \in Forking /\ state'[p] = "RUNNING"
  BY <1>4, <1>7, <1>8 DEF Forking
<1> QED
  BY <1>2, <1>3, <1>4, <1>7, <1>8, <1>9, <1>10, <1>12, <1>13, <1>14, <1>15, ForkStep

\* fork() gives the slot back, which is nobody's child yet.
LEMMA ForkFailInv ==
  ASSUME IInv, NEW p \in Slots, ForkFail(p)
  PROVE  IInv'
<1>1. th[p].pc = "copy" /\ th[p].pc \in Forking
  BY DEF ForkFail, At, Forking
<1>2. PICK np \in Slots :
        /\ np = th[p].np /\ np # p /\ state[np] = "USED" /\ state[p] = "RUNNING"
        /\ parent[np] = Nobody
        /\ \A r \in Slots \ {p} : th[r].pc \in Forking => th[r].np # np
  BY <1>1, ForkFacts
<1>3. /\ freeproc(np) /\ plock' = [plock EXCEPT ![np] = Nobody]
      /\ wait_lock' = wait_lock
      /\ th' = [th EXCEPT ![p] = Thread("user"), ![np] = Thread("none")]
  BY <1>2 DEF ForkFail
<1>4. TypeOK /\ "UNUSED" \in States
  BY DEF IInv, States
<1>5. /\ Thread("user") \in Locals /\ Thread("none") \in Locals
      /\ Thread("user").pc = "user" /\ Thread("none").pc = "none"
  BY DEF Locals, Thread, Places, Running
<1>6. /\ th' \in [Slots -> Locals] /\ th'[p].pc = "user" /\ th'[np].pc = "none"
      /\ \A r \in Slots \ {p, np} : th'[r] = th[r]
  BY <1>2, <1>3, <1>4, <1>5 DEF TypeOK
<1>7. /\ state' \in [Slots -> States] /\ state'[np] = "UNUSED"
      /\ plock' \in [Slots -> Slots \cup {Nobody}]
      /\ chan' \in [Slots -> Slots \cup {Nobody, Ticks}]
      /\ \A r \in Slots \ {np} :
           state'[r] = state[r] /\ plock'[r] = plock[r] /\ chan'[r] = chan[r]
  BY <1>3, <1>4 DEF TypeOK, freeproc
<1>8. parent' = parent
  BY <1>2, <1>3, <1>4 DEF TypeOK, freeproc
<1>9. TypeOK'
  BY <1>3, <1>4, <1>6, <1>7, <1>8 DEF TypeOK
<1>10. PlaceOK(np)' /\ ParentOK(np)'
  BY <1>2, <1>6, <1>7, <1>8 DEF PlaceOK, ParentOK, At, Running
<1>11. ForkOK(p)' /\ th'[p].pc \in Forking \cup {"user"} /\ state'[p] = "RUNNING"
  BY <1>2, <1>6, <1>7 DEF ForkOK, Forking
<1> QED
  BY <1>1, <1>2, <1>3, <1>6, <1>7, <1>8, <1>9, <1>10, <1>11, ForkStep

\* fork() releases the lock of the new slot.
LEMMA ForkCopiedInv ==
  ASSUME IInv, NEW p \in Slots, ForkCopied(p)
  PROVE  IInv'
<1>1. th[p].pc = "copy" /\ th[p].pc \in Forking
  BY DEF ForkCopied, At, Forking
<1>2. PICK np \in Slots :
        /\ np = th[p].np /\ np # p /\ state[np] = "USED" /\ state[p] = "RUNNING"
        /\ parent[np] = Nobody /\ th[np].pc = "forkret"
        /\ \A r \in Slots \ {p} : th[r].pc \in Forking => th[r].np # np
  BY <1>1, ForkFacts
<1>3. /\ plock' = [plock EXCEPT ![np] = Nobody] /\ wait_lock' = wait_lock
      /\ state' = state /\ parent' = parent /\ chan' = chan
  BY <1>2 DEF ForkCopied
<1>4. TypeOK /\ "link" \in Places /\ PlaceOK(np) /\ ParentOK(np)
  BY DEF IInv, Places, Running
<1>5. Moves(p, "link", th[p].pp, th[p].w, th[p].havekids, th[p].np)
  BY <1>4, GotoMoves DEF ForkCopied
<1>6. th'[p].pc = "link" /\ th'[p].np = np /\ \A r \in Slots \ {p} : th'[r] = th[r]
  BY <1>2, <1>5 DEF Moves
<1>7. /\ plock' \in [Slots -> Slots \cup {Nobody}]
      /\ \A r \in Slots \ {np} : plock'[r] = plock[r]
  BY <1>3, <1>4 DEF TypeOK
<1>8. TypeOK'
  BY <1>3, <1>4, <1>5, <1>7 DEF TypeOK, Moves
<1>9. PlaceOK(np)' /\ ParentOK(np)'
  <2>1. th'[np] = th[np]
    BY <1>2, <1>6
  <2> QED
    BY <1>3, <1>4, <2>1 DEF PlaceOK, ParentOK, At
<1>10. ForkOK(p)'
  <2>1. \A r \in Slots : r # p /\ th'[r].pc \in Forking => th'[r].np # np
    BY <1>2, <1>6
  <2> QED
    BY <1>2, <1>3, <1>6, <2>1 DEF ForkOK, At
<1>11. th'[p].pc \in Forking /\ th'[np].pc \in {"none", "forkret"}
       /\ state'[p] = "RUNNING"
       /\ state'[np] = "USED"
  BY <1>2, <1>3, <1>6 DEF Forking
<1> QED
  BY <1>1, <1>2, <1>3, <1>6, <1>7, <1>8, <1>9, <1>10, <1>11, ForkStep

\* The new process may run: it has its parent by now.
LEMMA ForkStartInv ==
  ASSUME IInv, NEW p \in Slots, ForkStart(p)
  PROVE  IInv'
<1>1. th[p].pc = "start" /\ th[p].pc \in Forking
  BY DEF ForkStart, At, Forking
<1>2. PICK np \in Slots :
        /\ np = th[p].np /\ np # p /\ state[np] = "USED" /\ state[p] = "RUNNING"
        /\ parent[np] = p /\ th[np].pc = "forkret"
        /\ \A r \in Slots \ {p} : th[r].pc \in Forking => th[r].np # np
  BY <1>1, ForkFacts
<1>3. /\ state' = [state EXCEPT ![np] = "RUNNABLE"] /\ wait_lock' = wait_lock
      /\ plock' = plock /\ parent' = parent /\ chan' = chan
      /\ th' = [th EXCEPT ![p] = Thread("user")]
  BY <1>2 DEF ForkStart
<1>4. TypeOK /\ "user" \in Places /\ "RUNNABLE" \in States /\ p # Nobody
  BY Consts DEF IInv, Places, Running, States
<1>5. Moves(p, "user", 1, 1, FALSE, Nobody)
  BY <1>3, <1>4, ThreadMoves
<1>6. th'[p].pc = "user" /\ \A r \in Slots \ {p} : th'[r] = th[r]
  BY <1>5 DEF Moves
<1>7. /\ state' \in [Slots -> States] /\ state'[np] = "RUNNABLE"
      /\ \A r \in Slots \ {np} : state'[r] = state[r]
  BY <1>3, <1>4 DEF TypeOK
<1>8. TypeOK'
  BY <1>3, <1>4, <1>5, <1>7 DEF TypeOK, Moves
<1>9. PlaceOK(np)' /\ ParentOK(np)'
  BY <1>2, <1>3, <1>4, <1>6, <1>7 DEF PlaceOK, ParentOK, At, Running
<1>10. ForkOK(p)' /\ th'[p].pc \in Forking \cup {"user"} /\ state'[p] = "RUNNING"
       /\ th'[np].pc \in {"none", "forkret"}
  BY <1>2, <1>6, <1>7 DEF ForkOK, Forking
<1> QED
  BY <1>1, <1>2, <1>3, <1>6, <1>7, <1>8, <1>9, <1>10, ForkStep

\* The new slot gets its parent while nobody is in exit() or in a scan.
LEMMA ForkLinkInv ==
  ASSUME IInv, NEW p \in Slots, ForkLink(p)
  PROVE  IInv'
<1>1. th[p].pc = "link" /\ th[p].pc \in Forking
  BY DEF ForkLink, At, Forking
<1>2. PICK np \in Slots :
        /\ np = th[p].np /\ np # p /\ state[np] = "USED" /\ state[p] = "RUNNING"
        /\ parent[np] = Nobody /\ th[np].pc = "forkret" /\ np # initproc
        /\ \A r \in Slots \ {p} : th[r].pc \in Forking => th[r].np # np
  BY <1>1, ForkFacts
<1>3. /\ parent' = [parent EXCEPT ![np] = p] /\ wait_lock' = wait_lock
      /\ wait_lock = Nobody /\ plock' = plock /\ state' = state /\ chan' = chan
  BY <1>2 DEF ForkLink
<1>4. /\ TypeOK /\ InitOK /\ "start" \in Places /\ p # Nobody
      /\ p \in Slots \cup {Nobody}
      /\ initproc \in Slots
  BY Consts DEF IInv, Places, Running
<1>5. Moves(p, "start", th[p].pp, th[p].w, th[p].havekids, th[p].np)
  BY <1>4, GotoMoves DEF ForkLink
<1>6. th'[p].pc = "start" /\ th'[p].np = np /\ \A r \in Slots \ {p} : th'[r] = th[r]
  BY <1>2, <1>5 DEF Moves
<1>7. /\ parent' \in [Slots -> Slots \cup {Nobody}] /\ parent'[np] = p
      /\ \A q \in Slots \ {np} : parent'[q] = parent[q]
  BY <1>3, <1>4 DEF TypeOK
<1>8. TypeOK'
  BY <1>3, <1>4, <1>5, <1>7 DEF TypeOK, Moves
<1>9. InitOK'
  <2>1. th'[initproc].pc \notin Exiting
    BY <1>4, <1>6 DEF InitOK, Exiting
  <2> QED
    BY <1>2, <1>3, <1>4, <1>7, <2>1 DEF InitOK
<1>10. ASSUME NEW r \in Slots
       PROVE  PlaceOK(r)' /\ LockOK(r)' /\ ExitOK(r)' /\ ScanOK(r)' /\ WokenOK(r)'
  <2>1. CASE r = p
    BY <1>2, <1>3, <1>6, <2>1
    DEF PlaceOK, LockOK, ExitOK, ScanOK, WokenOK, At, Running, Waiters
  <2>2. CASE r # p
    <3>1. PlaceOK(r) /\ LockOK(r)
      BY DEF IInv
    <3>2. th[r].pc \notin Waiters /\ ExitOK(r)' /\ ScanOK(r)' /\ WokenOK(r)'
      BY <1>3, <1>6, <2>2, AloneStep
    <3> QED
      BY <1>3, <1>6, <2>2, <3>1, <3>2 DEF PlaceOK, LockOK, At
  <2> QED
    BY <2>1, <2>2
<1>11. ASSUME NEW r \in Slots PROVE ForkOK(r)'
  <2>1. CASE r = p
    <3>1. \A s \in Slots : s # p /\ th'[s].pc \in Forking => th'[s].np # np
      BY <1>2, <1>6
    <3> QED
      BY <1>2, <1>3, <1>6, <1>7, <2>1, <3>1 DEF ForkOK, At
  <2>2. CASE r # p
    <3> SUFFICES ASSUME th'[r].pc \in Forking PROVE ForkOK(r)'
      BY DEF ForkOK
    <3>1. th'[r] = th[r] /\ ForkOK(r)
      BY <1>6, <2>2 DEF IInv
    <3>2. PICK m \in Slots : m = th[r].np
      BY <3>1 DEF ForkOK
    <3>3. m # np
      BY <1>2, <2>2, <3>1, <3>2
    <3>4. \A s \in Slots : s # r /\ th'[s].pc \in Forking => th'[s].np # m
      BY <1>6, <3>1, <3>2, <3>3 DEF ForkOK
    <3> QED
      BY <1>3, <1>7, <3>1, <3>2, <3>3, <3>4 DEF ForkOK, At
  <2> QED
    BY <2>1, <2>2
<1>12. ASSUME NEW q \in Slots PROVE ParentOK(q)'
  <2>1. ParentOK(q)
    BY DEF IInv
  <2>2. CASE q = np
    BY <1>2, <1>3, <1>4, <1>7, <2>2 DEF ParentOK
  <2>3. CASE q # np
    BY <1>3, <1>7, <2>1, <2>3 DEF ParentOK
  <2> QED
    BY <2>2, <2>3
<1>13. ASSUME NEW r \in Slots PROVE SleepOK(r)'
  <2> SUFFICES ASSUME Sleeper(r)' PROVE SleepOK(r)'
    BY DEF SleepOK
  <2>1. r # p /\ r # Nobody
    BY <1>2, <1>3, <1>6, Consts DEF Sleeper, At
  <2>2. Sleeper(r) /\ SleepOK(r)
    BY <1>3, <1>6, <2>1 DEF Sleeper, At, IInv
  <2>3. \E q \in Slots : parent'[q] = r
    BY <1>2, <1>7, <2>1, <2>2 DEF SleepOK
  <2>4. \A q \in Slots : ~(parent'[q] = r /\ state'[q] = "ZOMBIE")
    BY <1>3, <1>7, <2>1, <2>2, Consts DEF SleepOK
  <2> QED
    BY <2>3, <2>4 DEF SleepOK
<1> QED
  BY <1>8, <1>9, <1>10, <1>11, <1>12, <1>13 DEF IInv

-----------------------------------------------------------------------------
(* The theorems.                                                           *)

\* The table after userinit() satisfies the invariant.
LEMMA InitInv == Init => IInv
<1> SUFFICES ASSUME Init PROVE IInv
  OBVIOUS
<1>0. initproc \in Slots
  BY Consts
<1>1. Thread("forkret") \in Locals /\ Thread("none") \in Locals
  BY DEF Locals, Thread, Places
<1>2. /\ \A p \in Slots : /\ state[p] = IF p = initproc THEN "RUNNABLE" ELSE "UNUSED"
                          /\ parent[p] = Nobody /\ chan[p] = Nobody /\ plock[p] = Nobody
                          /\ th[p].pc = IF p = initproc THEN "forkret" ELSE "none"
      /\ wait_lock = Nobody
  BY DEF Init, Thread
<1>3. th \in [Slots -> Locals]
  BY <1>1 DEF Init
<1>4. TypeOK
  BY <1>3 DEF Init, TypeOK, States
<1>5. InitOK
  BY <1>0, <1>2 DEF InitOK, Exiting
<1>6. ASSUME NEW p \in Slots
      PROVE  /\ PlaceOK(p) /\ LockOK(p) /\ ForkOK(p) /\ ParentOK(p) /\ ExitOK(p)
             /\ ScanOK(p) /\ SleepOK(p) /\ WokenOK(p)
  <2>1. th[p].pc \in {"none", "forkret"} /\ state[p] # "SLEEPING"
    BY <1>2
  <2>2. LockOK(p) /\ ForkOK(p) /\ ExitOK(p) /\ ScanOK(p) /\ WokenOK(p) /\ SleepOK(p)
    BY <2>1
    DEF LockOK, ForkOK, ExitOK, ScanOK, WokenOK, SleepOK, Sleeper, At, Waiters,
        Forking
  <2>3. PlaceOK(p) /\ ParentOK(p)
    BY <1>2 DEF PlaceOK, ParentOK, At, Running
  <2> QED
    BY <2>2, <2>3
<1> QED
  BY <1>4, <1>5, <1>6 DEF IInv

\* Every step keeps the invariant.
LEMMA NextInv == IInv /\ [Next]_vars => IInv'
<1> SUFFICES ASSUME IInv, [Next]_vars PROVE IInv'
  OBVIOUS
<1>1. ASSUME NEW p \in Slots, Proceed(p) PROVE IInv'
  BY <1>1, ResumeInv, LeaveInv, ForkCopiedInv, ForkLinkInv, ForkStartInv, ExitLockInv,
     ReparentInv, WakeupInitInv, WakeupParentInv, ExitZombieInv, WaitLockInv,
     WaitPassInv, WaitReapInv, WaitNoneInv, WaitMoreInv, SleepLockInv, SleepOnInv
  DEF Proceed
<1>2. ASSUME NEW p \in Slots, Choose(p) PROVE IInv'
  BY <1>2, ForkInv, ForkFailInv, ExitInv, WaitInv, PauseInv, ClockInv, KillInv
  DEF Choose
<1>3. CASE UNCHANGED vars
  <2>1. /\ state' = state /\ parent' = parent /\ chan' = chan /\ plock' = plock
        /\ wait_lock' = wait_lock /\ th' = th
    BY <1>3 DEF vars
  <2>2. TypeOK' /\ InitOK'
    BY <2>1 DEF IInv, TypeOK, InitOK
  <2>3. ASSUME NEW p \in Slots
        PROVE  /\ PlaceOK(p)' /\ LockOK(p)' /\ ForkOK(p)' /\ ParentOK(p)' /\ ExitOK(p)'
               /\ ScanOK(p)' /\ SleepOK(p)' /\ WokenOK(p)'
    <3>1. /\ PlaceOK(p) /\ LockOK(p) /\ ForkOK(p) /\ ParentOK(p) /\ ExitOK(p)
          /\ ScanOK(p) /\ SleepOK(p) /\ WokenOK(p)
      BY DEF IInv
    <3>2. PlaceOK(p)' /\ LockOK(p)' /\ ParentOK(p)'
      BY <2>1, <3>1 DEF PlaceOK, LockOK, ParentOK, At
    <3>3. ForkOK(p)' /\ ExitOK(p)' /\ ScanOK(p)'
      BY <2>1, <3>1 DEF ForkOK, ExitOK, ScanOK, At
    <3>4. SleepOK(p)' /\ WokenOK(p)'
      BY <2>1, <3>1 DEF SleepOK, WokenOK, Sleeper, At
    <3> QED
      BY <3>2, <3>3, <3>4
  <2> QED
    BY <2>2, <2>3 DEF IInv
<1> QED
  BY <1>1, <1>2, <1>3 DEF Next

\* What every reachable state of the process table satisfies: which locks a
\* thread holds at which place, and how far the loops over the table have come.
THEOREM Invariance == Spec => []IInv
<1> QED
  BY InitInv, NextInv, PTL DEF Spec

\* Every process that runs or has exited has a parent that can reap it
\* (reparent() in exit(), np->parent before RUNNABLE in fork()).
THEOREM ReapableParent == Spec => []LiveParent
<1>1. IInv => LiveParent
  <2> SUFFICES ASSUME IInv, NEW q \in Slots \ {initproc}, state[q] \notin {"UNUSED", "USED"}
               PROVE  /\ parent[q] # Nobody
                      /\ state[parent[q]] \notin {"UNUSED", "USED", "ZOMBIE"}
    BY DEF LiveParent
  <2>1. ParentOK(q)
    BY DEF IInv
  <2> QED
    BY <2>1 DEF ParentOK
<1> QED
  BY <1>1, Invariance, PTL

\* No wakeup of wait() is lost: a sleeper has a child, and none that has exited
\* unless who holds wait_lock is about to wake it (sleep() takes p->lock before it
\* releases wait_lock; exit() and reparent() call wakeup() under wait_lock).
THEOREM WaitSleeps == Spec => []WaitsWithReason
<1>1. IInv => WaitsWithReason
  <2> SUFFICES ASSUME IInv, NEW p \in Slots, state[p] = "SLEEPING", chan[p] = p
               PROVE  /\ \E q \in Slots : parent[q] = p /\ state[q] # "UNUSED"
                      /\ wait_lock = Nobody =>
                           ~\E q \in Slots : parent[q] = p /\ state[q] = "ZOMBIE"
    BY DEF WaitsWithReason
  <2>1. SleepOK(p) /\ Sleeper(p) /\ p # Nobody /\ Nobody \notin Slots
    BY Consts DEF IInv, Sleeper
  <2>2. PICK q \in Slots : parent[q] = p
    BY <2>1 DEF SleepOK
  <2>3. state[q] # "UNUSED"
    <3>1. ParentOK(q)
      BY DEF IInv
    <3> QED
      BY <2>1, <2>2, <3>1 DEF ParentOK
  <2>4. wait_lock = Nobody => \A r \in Slots : ~(parent[r] = p /\ state[r] = "ZOMBIE")
    BY <2>1 DEF SleepOK
  <2> QED
    BY <2>2, <2>3, <2>4
<1> QED
  BY <1>1, Invariance, PTL

\* freeproc() in wait() never frees a slot whose thread is still on its kernel
\* stack (exit() keeps p->lock across sched()).
THEOREM ReapedGone == Spec => []ReapedIsGone
<1>1. IInv => ReapedIsGone
  BY DEF IInv, PlaceOK, ReapedIsGone
<1> QED
  BY <1>1, Invariance, PTL

=============================================================================
