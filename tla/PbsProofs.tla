------------------------------ MODULE PbsProofs ------------------------------
(***************************************************************************)
(* Proofs about Pbs, for every number of CPUs, of slots and of processes:  *)
(* a process is on one CPU at a time, the walk of scheduler() ends with    *)
(* the best of the processes it compared, and the process locks, which     *)
(* the walk takes hand over hand, are never waited for in a circle.        *)
(***************************************************************************)
EXTENDS Pbs, TLAPS, WellFoundedInduction

States == {"UNUSED", "USED", "SLEEPING", "RUNNABLE", "RUNNING", "ZOMBIE"}

\* The fields of struct proc.
ProcRec ==
  [state : States, pid : Int, chan : {"none", "event", "ticks"},
   rntime : Nat, stime : Nat, wtime : Nat, num_sch : Int, sp : Int, rbi : Int, dp : Int,
   rtime : Int, ctime : Int, etime : Int]

Walking == {"scan", "look", "take"}                    \* in the walk of scheduler()
InProcess == {"resume", "run", "yield", "sleep", "fork"}  \* executing a process

CpuRec ==
  [pc : {"loop", "swtch"} \cup Walking \cup InProcess, i : Int, highest : Int,
   min_dp : Int, proc : Int]

TypeOK ==
  /\ proc \in [Procs -> ProcRec]
  /\ lock \in [Procs -> CPUs \cup {None}]
  /\ ticks \in Int
  /\ nextpid \in Int
  /\ cpu \in [CPUs -> CpuRec]
  /\ clk \in [pc : {"idle", "update", "read", "write", "wakeup", "end"}, i : Int,
              rntime : Nat, stime : Nat]
  /\ scan \in [CPUs -> [clean : BOOLEAN, rejected : SUBSET Procs]]

\* The variables of scheduler() in each place of the code.
CpuOK(r) ==
  /\ r.pc \in {"loop", "scan", "look", "take"} => r.proc = None
  /\ r.pc \in InProcess \cup {"swtch"} => r.proc \in Procs
  /\ r.pc \in {"scan", "look"} =>
       r.highest = None \/ (r.highest \in Procs /\ r.highest < r.i)
  /\ r.pc = "scan" => r.i \in 0 .. NPROC
  /\ r.pc \in {"look", "take", "fork"} => r.i \in Procs
  /\ r.pc = "take" => r.highest = r.i

PlaceOK == \A c \in CPUs : CpuOK(cpu[c])

\* Does a CPU in state r hold the lock of p?  The walk holds the best process
\* so far and the one it looks at; the lock of the process that is switched to
\* or from is held as well.
HoldsAt(r, p) ==
  \/ r.pc \in {"scan", "look"} /\ p = r.highest
  \/ r.pc \in {"look", "take"} /\ p = r.i
  \/ r.pc \in {"resume", "swtch"} /\ p = r.proc

LockOK == \A c \in CPUs, p \in Procs : lock[p] = c <=> HoldsAt(cpu[c], p)

\* RUNNING is the state of the processes in execution; a process that leaves
\* its CPU is in another state, and nobody can change it before it has left.
RunOK ==
  /\ \A c \in CPUs :
       /\ cpu[c].pc \in InProcess => proc[cpu[c].proc].state = "RUNNING"
       /\ cpu[c].pc = "swtch" => proc[cpu[c].proc].state \in {"RUNNABLE", "SLEEPING", "ZOMBIE"}
  /\ \A c, d \in CPUs :
       cpu[c].pc \in InProcess \cup {"swtch"} /\ cpu[c].proc = cpu[d].proc => c = d
  /\ \A p \in Procs : proc[p].state = "RUNNING" =>
       \E c \in CPUs : cpu[c].pc \in InProcess /\ cpu[c].proc = p

\* The child that fork() is making is USED, and no other CPU makes it.
ForkOK ==
  /\ \A c \in CPUs : cpu[c].pc = "fork" => proc[cpu[c].i].state = "USED"
  /\ \A c, d \in CPUs :
       cpu[c].pc = "fork" /\ cpu[d].pc = "fork" /\ cpu[c].i = cpu[d].i => c = d

\* clockintr() goes on while the CPU it interrupted holds no process lock.
ClkOK ==
  /\ clk.pc # "idle" =>
       \/ cpu[0].pc \in {"loop", "run"}
       \/ cpu[0].pc = "scan" /\ cpu[0].highest = None
  /\ clk.i \in Procs

\* The best process so far is RUNNABLE, and while no priority is rewritten
\* none of the processes that lost a comparison precedes it, whatever has
\* happened to them after their locks were released.
WalkAt(c) ==
  /\ cpu[c].pc \in Walking /\ cpu[c].highest # None =>
       proc[cpu[c].highest].state = "RUNNABLE"
  /\ cpu[c].pc \notin Walking \/ cpu[c].highest = None => scan[c].rejected = {}
  /\ cpu[c].pc \in {"scan", "look"} /\ cpu[c].highest # None /\ scan[c].clean =>
       cpu[c].min_dp = proc[cpu[c].highest].dp
  /\ cpu[c].pc \in Walking /\ cpu[c].highest # None /\ scan[c].clean =>
       \A q \in scan[c].rejected :
         proc[q].state # "UNUSED" => ~Precedes(q, cpu[c].highest)

WalkOK == \A c \in CPUs : WalkAt(c)

\* The inductive invariant.
IInv == TypeOK /\ PlaceOK /\ LockOK /\ RunOK /\ ForkOK /\ ClkOK /\ WalkOK


-----------------------------------------------------------------------------
(* Numbers and records *)

\* The clock's CPU exists, and no CPU and no slot is None.
LEMMA Consts ==
  /\ 0 \in CPUs /\ 0 \in Procs
  /\ None \notin CPUs /\ None \notin Procs
  /\ None \in Int /\ Procs \subseteq Int
BY PbsAssumption DEF CPUs, Procs, None

\* The slot after i is one the walk may be at.
LEMMA NextIndex ==
  ASSUME NEW i \in Procs
  PROVE  /\ i + 1 \in 0 .. NPROC /\ i + 1 \in Int
         /\ i < i + 1
         /\ \A h \in Procs : h < i => h < i + 1 /\ h # i
         /\ i + 1 < NPROC => i + 1 \in Procs
BY PbsAssumption DEF Procs

\* A walk that is not at the end of the table is at a slot.
LEMMA SlotIndex ==
  ASSUME NEW i \in 0 .. NPROC, i < NPROC
  PROVE  i \in Procs
BY PbsAssumption DEF Procs

\* A step of CPU c that leaves it in state r, keeps the other CPUs where they
\* are, and takes and releases the locks that r says, keeps the places and the
\* locks of all CPUs right.
LEMMA CpuFrame ==
  ASSUME TypeOK, PlaceOK, LockOK, ClkOK,
         NEW c \in CPUs, c = 0 => clk.pc = "idle",
         NEW r \in CpuRec, CpuOK(r), cpu' = [cpu EXCEPT ![c] = r], UNCHANGED clk,
         lock' \in [Procs -> CPUs \cup {None}],
         \A p \in Procs :
           \/ HoldsAt(r, p) /\ lock'[p] = c /\ (lock[p] = None \/ HoldsAt(cpu[c], p))
           \/ ~HoldsAt(r, p) /\ ~HoldsAt(cpu[c], p) /\ lock'[p] = lock[p]
           \/ ~HoldsAt(r, p) /\ HoldsAt(cpu[c], p) /\ lock'[p] = None
  PROVE  /\ cpu' \in [CPUs -> CpuRec]
         /\ PlaceOK' /\ LockOK' /\ ClkOK'
         /\ cpu'[c] = r /\ \A d \in CPUs : d # c => cpu'[d] = cpu[d]
<1>1. cpu' \in [CPUs -> CpuRec] /\ cpu'[c] = r /\ \A d \in CPUs : d # c => cpu'[d] = cpu[d]
  BY DEF TypeOK
<1>2. PlaceOK'
  <2> SUFFICES ASSUME NEW d \in CPUs PROVE CpuOK(cpu'[d])
    BY DEF PlaceOK, CpuOK
  <2> QED BY <1>1 DEF PlaceOK
<1>3. LockOK'
  <2> SUFFICES ASSUME NEW d \in CPUs, NEW p \in Procs PROVE lock'[p] = d <=> HoldsAt(cpu'[d], p)
    BY DEF LockOK, HoldsAt
  <2>1. lock[p] = c <=> HoldsAt(cpu[c], p)
    BY DEF LockOK
  <2>2. lock[p] = d <=> HoldsAt(cpu[d], p)
    BY DEF LockOK
  <2>3. None \notin CPUs
    BY Consts
  <2>4. CASE d = c
    BY <1>1, <2>1, <2>3, <2>4
  <2>5. CASE d # c
    BY <1>1, <2>1, <2>2, <2>3, <2>5
  <2> QED BY <2>4, <2>5
<1>4. ClkOK'
  <2>1. CASE c = 0
    BY <2>1 DEF ClkOK
  <2>2. CASE c # 0
    <3>1. cpu'[0] = cpu[0]
      BY <1>1, <2>2, Consts
    <3> QED BY <3>1 DEF ClkOK
  <2> QED BY <2>1, <2>2
<1> QED BY <1>1, <1>2, <1>3, <1>4

\* What RunOK says of one CPU.
Class(pc) == IF pc \in InProcess THEN "in" ELSE IF pc = "swtch" THEN "swtch" ELSE "out"

\* A step in which CPU c neither gets nor loses a process, and in which only
\* processes that nobody runs, and whose lock is free, change their state.
LEMMA RunFrame ==
  ASSUME TypeOK, PlaceOK, LockOK, RunOK, NEW c \in CPUs,
         Class(cpu'[c].pc) = Class(cpu[c].pc), cpu'[c].proc = cpu[c].proc,
         \A d \in CPUs : d # c => cpu'[d] = cpu[d],
         \A p \in Procs :
           \/ proc'[p].state = proc[p].state
           \/ Free(p) /\ proc[p].state # "RUNNING" /\ proc'[p].state # "RUNNING"
  PROVE  RunOK'
<1>1. \A d \in CPUs : /\ cpu'[d].proc = cpu[d].proc
                      /\ cpu'[d].pc \in InProcess <=> cpu[d].pc \in InProcess
                      /\ cpu'[d].pc = "swtch" <=> cpu[d].pc = "swtch"
  BY DEF Class, InProcess
<1>2. \A d \in CPUs : cpu[d].pc = "swtch" => ~Free(cpu[d].proc)
  BY Consts DEF LockOK, HoldsAt, PlaceOK, CpuOK, Free
<1>3. \A d \in CPUs : cpu[d].pc \in InProcess \cup {"swtch"} => cpu[d].proc \in Procs
  BY DEF PlaceOK, CpuOK
<1>4. ASSUME NEW d \in CPUs, cpu[d].pc \in InProcess
      PROVE  proc'[cpu[d].proc].state = "RUNNING"
  BY <1>3, <1>4 DEF RunOK
<1>5. ASSUME NEW d \in CPUs, cpu[d].pc = "swtch"
      PROVE  proc'[cpu[d].proc].state \in {"RUNNABLE", "SLEEPING", "ZOMBIE"}
  BY <1>2, <1>3, <1>5 DEF RunOK
<1>6. ASSUME NEW d \in CPUs, NEW e \in CPUs,
             cpu[d].pc \in InProcess \cup {"swtch"}, cpu[d].proc = cpu[e].proc
      PROVE  d = e
  BY <1>6 DEF RunOK
<1>7. ASSUME NEW p \in Procs, proc'[p].state = "RUNNING"
      PROVE  \E d \in CPUs : cpu[d].pc \in InProcess /\ cpu[d].proc = p
  BY <1>7 DEF RunOK
<1> QED BY <1>1, <1>4, <1>5, <1>6, <1>7 DEF RunOK

\* A step in which CPU c is not in fork(), before or after, and no slot stops
\* being USED.
LEMMA ForkFrame ==
  ASSUME PlaceOK, ForkOK, NEW c \in CPUs, cpu[c].pc # "fork", cpu'[c].pc # "fork",
         \A d \in CPUs : d # c => cpu'[d] = cpu[d],
         \A p \in Procs : proc[p].state = "USED" => proc'[p].state = "USED"
  PROVE  ForkOK'
<1>1. \A d \in CPUs : cpu'[d].pc = "fork" => d # c /\ cpu'[d] = cpu[d] /\ cpu[d].i \in Procs
  BY DEF PlaceOK, CpuOK
<1> QED BY <1>1 DEF ForkOK

\* The step leaves what scheduler() compares of p, or p is worse than before
\* (it has been scheduled) or gone.
Kept(p) ==
  /\ proc'[p].state = proc[p].state /\ proc'[p].dp = proc[p].dp
  /\ proc'[p].num_sch = proc[p].num_sch /\ proc'[p].ctime = proc[p].ctime

Worse(p) ==
  \/ proc'[p].state = "UNUSED"
  \/ /\ proc[p].state # "UNUSED"
     /\ proc'[p].dp = proc[p].dp /\ proc'[p].ctime = proc[p].ctime
     /\ proc[p].num_sch <= proc'[p].num_sch

\* A process that gets worse does not begin to precede one that is kept.
LEMMA StillNotBefore ==
  ASSUME proc \in [Procs -> ProcRec], proc' \in [Procs -> ProcRec],
         NEW q \in Procs, NEW h \in Procs, Kept(h), Kept(q) \/ Worse(q),
         proc[q].state # "UNUSED" => ~Precedes(q, h), proc'[q].state # "UNUSED"
  PROVE  ~Precedes(q, h)'
<1>1. /\ proc[q].dp \in Int /\ proc[q].num_sch \in Int /\ proc[q].ctime \in Int
      /\ proc'[q].num_sch \in Int
      /\ proc[h].dp \in Int /\ proc[h].num_sch \in Int /\ proc[h].ctime \in Int
  BY DEF ProcRec
<1>2. proc[q].state # "UNUSED" /\ ~Precedes(q, h)
  BY DEF Kept, Worse
<1>3. proc'[q].dp = proc[q].dp /\ proc'[q].ctime = proc[q].ctime /\ proc[q].num_sch <= proc'[q].num_sch
  BY <1>1 DEF Kept, Worse
<1>4. proc'[h].dp = proc[h].dp /\ proc'[h].ctime = proc[h].ctime /\ proc'[h].num_sch = proc[h].num_sch
  BY DEF Kept
<1> QED BY <1>1, <1>2, <1>3, <1>4 DEF Precedes

\* A step of others keeps what the walk of CPU d knows, if it keeps the
\* processes whose locks d holds, and makes the others worse at most.
LEMMA WalkFrame ==
  ASSUME TypeOK, PlaceOK, LockOK, proc' \in [Procs -> ProcRec],
         NEW d \in CPUs, WalkAt(d), cpu'[d] = cpu[d], scan'[d] = scan[d],
         \A p \in Procs : Kept(p) \/ (lock[p] # d /\ Worse(p))
  PROVE  WalkAt(d)'
<1>1. ASSUME cpu[d].pc \in Walking, cpu[d].highest # None
      PROVE  cpu[d].highest \in Procs /\ Kept(cpu[d].highest)
  <2>1. cpu[d].highest \in Procs /\ HoldsAt(cpu[d], cpu[d].highest)
    BY <1>1 DEF PlaceOK, CpuOK, HoldsAt, Walking
  <2>2. lock[cpu[d].highest] = d
    BY <2>1 DEF LockOK
  <2> QED BY <2>1, <2>2
<1>2. ASSUME cpu[d].pc \in Walking, cpu[d].highest # None
      PROVE  proc'[cpu[d].highest].state = "RUNNABLE"
  BY <1>1, <1>2 DEF WalkAt, Kept
<1>3. ASSUME cpu[d].pc \in {"scan", "look"}, cpu[d].highest # None, scan[d].clean
      PROVE  cpu[d].min_dp = proc'[cpu[d].highest].dp
  BY <1>1, <1>3 DEF WalkAt, Kept, Walking
<1>4. ASSUME cpu[d].pc \in Walking, cpu[d].highest # None, scan[d].clean,
             NEW q \in scan[d].rejected, proc'[q].state # "UNUSED"
      PROVE  ~Precedes(q, cpu[d].highest)'
  <2> DEFINE h == cpu[d].highest
  <2>1. q \in Procs
    BY <1>4 DEF TypeOK
  <2>2. h \in Procs /\ Kept(h)
    BY <1>1, <1>4
  <2>3. proc[q].state # "UNUSED" => ~Precedes(q, h)
    BY <1>4 DEF WalkAt
  <2>4. cpu'[d].highest = h
    OBVIOUS
  <2>5. Kept(q) \/ Worse(q)
    BY <2>1
  <2>6. PICK g : g = h
    OBVIOUS
  <2>7. ~Precedes(q, g)'
    BY <1>4, <2>1, <2>2, <2>3, <2>5, <2>6, StillNotBefore DEF TypeOK
  <2> QED BY <2>4, <2>6, <2>7 DEF Precedes
<1>5. cpu[d].pc \notin Walking \/ cpu[d].highest = None => scan[d].rejected = {}
  BY DEF WalkAt
<1> QED BY <1>2, <1>3, <1>4, <1>5 DEF WalkAt, Precedes

\* When a priority is rewritten, all walks in progress are marked.
LEMMA WalkDisturbed ==
  ASSUME TypeOK, PlaceOK, LockOK, WalkOK, Disturb, NEW d \in CPUs,
         \/ cpu'[d] = cpu[d]
         \/ cpu[d].pc \notin Walking /\ cpu'[d].pc \notin Walking,
         \A p \in Procs : proc'[p].state = proc[p].state \/ Free(p)
  PROVE  WalkAt(d)'
<1>1. scan'[d].clean = (cpu[d].pc \notin Walking) /\ scan'[d].rejected = scan[d].rejected
  BY DEF Disturb, TypeOK, Walking
<1>2. CASE cpu[d].pc \notin Walking
  <2>1. cpu'[d].pc \notin Walking /\ scan'[d].rejected = {}
    BY <1>1, <1>2 DEF WalkOK, WalkAt
  <2> QED BY <2>1 DEF WalkAt, Walking
<1>3. CASE cpu[d].pc \in Walking
  <2>1. cpu'[d] = cpu[d] /\ ~scan'[d].clean
    BY <1>1, <1>3
  <2>2. ASSUME cpu[d].highest # None PROVE proc'[cpu[d].highest].state = "RUNNABLE"
    <3>1. cpu[d].highest \in Procs /\ HoldsAt(cpu[d], cpu[d].highest)
      BY <1>3, <2>2 DEF PlaceOK, CpuOK, HoldsAt, Walking
    <3>2. ~Free(cpu[d].highest)
      BY <3>1, Consts DEF LockOK, Free
    <3>3. proc[cpu[d].highest].state = "RUNNABLE"
      BY <1>3, <2>2 DEF WalkOK, WalkAt
    <3> QED BY <3>1, <3>2, <3>3
  <2>3. cpu[d].highest = None => scan'[d].rejected = {}
    BY <1>1 DEF WalkOK, WalkAt
  <2> QED BY <1>3, <2>1, <2>2, <2>3 DEF WalkAt
<1> QED BY <1>2, <1>3

-----------------------------------------------------------------------------
(* The walk of scheduler() *)

\* A step of CPU c outside of any process, which changes no process: what is
\* left to show is the walk of c itself.
LEMMA WalkStep ==
  ASSUME IInv, NEW c \in CPUs, c = 0 => clk.pc = "idle",
         NEW r \in CpuRec, CpuOK(r), cpu' = [cpu EXCEPT ![c] = r],
         cpu[c].pc \in {"loop", "scan", "look", "take"}, r.pc \in {"loop", "scan", "look", "take"},
         UNCHANGED <<proc, ticks, nextpid, clk>>,
         scan' \in [CPUs -> [clean : BOOLEAN, rejected : SUBSET Procs]],
         \A d \in CPUs : d # c => scan'[d] = scan[d],
         lock' \in [Procs -> CPUs \cup {None}],
         \A p \in Procs :
           \/ HoldsAt(r, p) /\ lock'[p] = c /\ (lock[p] = None \/ HoldsAt(cpu[c], p))
           \/ ~HoldsAt(r, p) /\ ~HoldsAt(cpu[c], p) /\ lock'[p] = lock[p]
           \/ ~HoldsAt(r, p) /\ HoldsAt(cpu[c], p) /\ lock'[p] = None,
         WalkAt(c)'
  PROVE  IInv'
<1>1. /\ cpu' \in [CPUs -> CpuRec]
      /\ PlaceOK' /\ LockOK' /\ ClkOK'
      /\ cpu'[c] = r /\ \A d \in CPUs : d # c => cpu'[d] = cpu[d]
  BY CpuFrame DEF IInv
<1>2. TypeOK'
  BY <1>1 DEF IInv, TypeOK
<1>3. RunOK'
  <2>1. Class(cpu'[c].pc) = Class(cpu[c].pc)
    BY <1>1 DEF Class, InProcess
  <2>2. cpu'[c].proc = cpu[c].proc
    BY <1>1 DEF CpuOK, IInv, PlaceOK
  <2> QED BY <1>1, <2>1, <2>2, RunFrame DEF IInv
<1>4. ForkOK'
  BY <1>1, ForkFrame DEF IInv
<1>5. WalkOK'
  <2> SUFFICES ASSUME NEW d \in CPUs, d # c PROVE WalkAt(d)'
    BY DEF WalkOK
  <2>1. \A p \in Procs : Kept(p)
    BY DEF Kept
  <2> QED BY <1>1, <2>1, WalkFrame DEF IInv, TypeOK, WalkOK
<1> QED BY <1>1, <1>2, <1>3, <1>4, <1>5 DEF IInv

\* A walk starts: highest = 0, min_dp = 100.
LEMMA SchedStartInv ==
  ASSUME IInv, NEW c \in CPUs, SchedStart(c) PROVE IInv'
<1> DEFINE r == [NewCpu EXCEPT !.pc = "scan"]
<1>1. /\ cpu[c].pc = "loop" /\ (c = 0 => clk.pc = "idle")
      /\ cpu' = [cpu EXCEPT ![c] = r]
      /\ UNCHANGED <<proc, lock, ticks, nextpid, clk, scan>>
  BY DEF SchedStart, At
<1>2. r.pc = "scan" /\ r.i = 0 /\ r.highest = None /\ r.proc = None /\ r \in CpuRec
  BY Consts DEF NewCpu, CpuRec, Walking, InProcess
<1>3. CpuOK(r)
  BY <1>2, PbsAssumption DEF CpuOK, InProcess
<1>4. \A p \in Procs : ~HoldsAt(r, p) /\ ~HoldsAt(cpu[c], p)
  BY <1>1, <1>2, Consts DEF HoldsAt
<1>5. cpu'[c] = r
  BY <1>1 DEF IInv, TypeOK
<1>6. WalkAt(c)'
  BY <1>1, <1>2, <1>5 DEF IInv, WalkOK, WalkAt, Walking
<1>. HIDE DEF r
<1> QED BY <1>1, <1>2, <1>3, <1>4, <1>6, WalkStep DEF IInv, TypeOK

\* The lock of the next slot is taken with the lock of the best one held.
LEMMA SchedAcquireInv ==
  ASSUME IInv, NEW c \in CPUs, SchedAcquire(c) PROVE IInv'
<1> DEFINE r == [cpu[c] EXCEPT !.pc = "look"]
<1>1. /\ cpu[c].pc = "scan" /\ (c = 0 => clk.pc = "idle")
      /\ cpu' = [cpu EXCEPT ![c] = r]
      /\ UNCHANGED <<proc, ticks, nextpid, clk, scan>>
      /\ Free(cpu[c].i) /\ lock' = [lock EXCEPT ![cpu[c].i] = c] /\ cpu[c].i < NPROC
  BY DEF SchedAcquire, At, Goto
<1>2. cpu[c] \in CpuRec /\ CpuOK(cpu[c]) /\ WalkAt(c)
  BY DEF IInv, TypeOK, PlaceOK, WalkOK
<1>3. /\ r.pc = "look" /\ r.i = cpu[c].i /\ r.highest = cpu[c].highest
      /\ r.proc = cpu[c].proc /\ r.min_dp = cpu[c].min_dp /\ r \in CpuRec
  BY <1>2 DEF CpuRec, Walking, InProcess
<1>4. cpu[c].i \in Procs
  BY <1>1, <1>2, SlotIndex DEF CpuOK
<1>5. CpuOK(r)
  BY <1>1, <1>2, <1>3, <1>4 DEF CpuOK, InProcess
<1>6. cpu'[c] = r
  BY <1>1 DEF IInv, TypeOK
<1>7. WalkAt(c)'
  BY <1>1, <1>2, <1>3, <1>6 DEF WalkAt, Walking, Precedes
<1>. HIDE DEF r
<1>8. ASSUME NEW p \in Procs
      PROVE  \/ HoldsAt(r, p) /\ lock'[p] = c /\ (lock[p] = None \/ HoldsAt(cpu[c], p))
             \/ ~HoldsAt(r, p) /\ ~HoldsAt(cpu[c], p) /\ lock'[p] = lock[p]
  <2>1. lock[p] = c <=> HoldsAt(cpu[c], p)
    BY DEF IInv, LockOK
  <2>2. CASE p = cpu[c].i
    BY <1>1, <1>3, <2>2 DEF HoldsAt, Free, IInv, TypeOK
  <2>3. CASE p # cpu[c].i
    <3>1. lock'[p] = lock[p]
      BY <1>1, <1>4, <2>3 DEF IInv, TypeOK
    <3>2. HoldsAt(r, p) <=> HoldsAt(cpu[c], p)
      BY <1>1, <1>3, <2>3 DEF HoldsAt
    <3> QED BY <2>1, <3>1, <3>2
  <2> QED BY <2>2, <2>3
<1>9. lock' \in [Procs -> CPUs \cup {None}]
  BY <1>1 DEF IInv, TypeOK
<1> QED BY <1>1, <1>3, <1>5, <1>7, <1>8, <1>9, WalkStep DEF IInv, TypeOK

\* The walk goes on to the next slot.
LEMMA NextSlotFacts ==
  ASSUME IInv, NEW c \in CPUs, cpu[c].pc \in {"look", "take"}
  PROVE  /\ NextSlot(c) \in CpuRec
         /\ NextSlot(c).pc = "scan" /\ NextSlot(c).i = cpu[c].i + 1
         /\ NextSlot(c).highest = cpu[c].highest
         /\ NextSlot(c).min_dp = cpu[c].min_dp /\ NextSlot(c).proc = None
         /\ cpu[c].i \in Procs /\ cpu[c].i + 1 \in 0 .. NPROC
         /\ CpuOK(NextSlot(c))
<1>1. cpu[c] \in CpuRec /\ CpuOK(cpu[c])
  BY DEF IInv, TypeOK, PlaceOK
<1>2. cpu[c].i \in Procs /\ cpu[c].proc = None
  BY <1>1 DEF CpuOK
<1>3. cpu[c].i + 1 \in 0 .. NPROC /\ cpu[c].i + 1 \in Int /\ cpu[c].i < cpu[c].i + 1
  BY <1>2, NextIndex
<1>4. cpu[c].highest = None \/ (cpu[c].highest \in Procs /\ cpu[c].highest < cpu[c].i + 1)
  BY <1>1, <1>2, NextIndex DEF CpuOK
<1>5. /\ NextSlot(c) \in CpuRec
      /\ NextSlot(c).pc = "scan" /\ NextSlot(c).i = cpu[c].i + 1
      /\ NextSlot(c).highest = cpu[c].highest
      /\ NextSlot(c).min_dp = cpu[c].min_dp /\ NextSlot(c).proc = None
  BY <1>1, <1>2, <1>3 DEF NextSlot, CpuRec, Walking
<1>6. CpuOK(NextSlot(c))
  BY <1>3, <1>4, <1>5 DEF CpuOK, InProcess
<1> QED BY <1>2, <1>3, <1>5, <1>6

\* A process that is not RUNNABLE is released.
LEMMA SchedSkipInv ==
  ASSUME IInv, NEW c \in CPUs, SchedSkip(c) PROVE IInv'
<1> DEFINE r == NextSlot(c)
<1>1. /\ cpu[c].pc = "look" /\ (c = 0 => clk.pc = "idle")
      /\ cpu' = [cpu EXCEPT ![c] = r]
      /\ UNCHANGED <<proc, ticks, nextpid, clk, scan>>
      /\ lock' = [lock EXCEPT ![cpu[c].i] = None]
  BY DEF SchedSkip, At
<1>2. CpuOK(cpu[c]) /\ WalkAt(c)
  BY DEF IInv, PlaceOK, WalkOK
<1>3. /\ r \in CpuRec /\ CpuOK(r) /\ r.pc = "scan" /\ r.i = cpu[c].i + 1
      /\ r.highest = cpu[c].highest /\ r.min_dp = cpu[c].min_dp /\ r.proc = None
      /\ cpu[c].i \in Procs
  BY <1>1, NextSlotFacts
<1>. HIDE DEF r
<1>4. cpu'[c] = r
  BY <1>1 DEF IInv, TypeOK
<1>5. WalkAt(c)'
  BY <1>1, <1>2, <1>3, <1>4 DEF WalkAt, Walking, Precedes
<1>6. cpu[c].highest # cpu[c].i
  BY <1>1, <1>2, <1>3, Consts, NextIndex DEF CpuOK
<1>7. \A p \in Procs : /\ HoldsAt(cpu[c], p) <=> p = cpu[c].i \/ p = cpu[c].highest
                       /\ HoldsAt(r, p) <=> p = cpu[c].highest
  BY <1>1, <1>3 DEF HoldsAt
<1>8. \A p \in Procs : lock[p] = c <=> HoldsAt(cpu[c], p)
  BY DEF IInv, LockOK
<1>9. lock' \in [Procs -> CPUs \cup {None}] /\ \A p \in Procs : lock'[p] = IF p = cpu[c].i THEN None ELSE lock[p]
  BY <1>1 DEF IInv, TypeOK
<1>10. ASSUME NEW p \in Procs
       PROVE  \/ HoldsAt(r, p) /\ lock'[p] = c /\ HoldsAt(cpu[c], p)
              \/ ~HoldsAt(r, p) /\ ~HoldsAt(cpu[c], p) /\ lock'[p] = lock[p]
              \/ ~HoldsAt(r, p) /\ HoldsAt(cpu[c], p) /\ lock'[p] = None
  BY <1>6, <1>7, <1>8, <1>9
<1> QED BY <1>1, <1>3, <1>5, <1>9, <1>10, WalkStep DEF IInv, TypeOK

\* The first RUNNABLE process is the best so far.
LEMMA SchedFirstInv ==
  ASSUME IInv, NEW c \in CPUs, SchedFirst(c) PROVE IInv'
<1> DEFINE i == cpu[c].i
           r == [NextSlot(c) EXCEPT !.highest = i, !.min_dp = proc[i].dp]
<1>1. /\ cpu[c].pc = "look" /\ (c = 0 => clk.pc = "idle")
      /\ cpu' = [cpu EXCEPT ![c] = r]
      /\ UNCHANGED <<proc, lock, ticks, nextpid, clk, scan>>
      /\ proc[i].state = "RUNNABLE" /\ cpu[c].highest = None
  BY DEF SchedFirst, At
<1>2. CpuOK(cpu[c]) /\ WalkAt(c)
  BY DEF IInv, PlaceOK, WalkOK
<1>3. /\ NextSlot(c) \in CpuRec /\ CpuOK(NextSlot(c))
      /\ NextSlot(c).pc = "scan" /\ NextSlot(c).i = i + 1 /\ NextSlot(c).proc = None
      /\ i \in Procs /\ i + 1 \in 0 .. NPROC
  BY <1>1, NextSlotFacts
<1>4. i \in Int /\ proc[i].dp \in Int /\ i < i + 1
  BY <1>3, NextIndex, Consts DEF IInv, TypeOK, ProcRec
<1>5. /\ r \in CpuRec /\ r.pc = "scan" /\ r.i = i + 1 /\ r.highest = i
      /\ r.min_dp = proc[i].dp /\ r.proc = None
  BY <1>3, <1>4 DEF CpuRec
<1>6. CpuOK(r)
  BY <1>3, <1>4, <1>5 DEF CpuOK, InProcess
<1>. HIDE DEF r
<1>7. cpu'[c] = r
  BY <1>1 DEF IInv, TypeOK
<1>8. scan'[c].rejected = {} /\ i # None
  BY <1>1, <1>2, <1>3, Consts DEF WalkAt
<1>9. WalkAt(c)'
  BY <1>1, <1>5, <1>7, <1>8 DEF WalkAt, Walking
<1>10. \A p \in Procs : HoldsAt(cpu[c], p) <=> HoldsAt(r, p)
  BY <1>1, <1>5, Consts DEF HoldsAt
<1>11. \A p \in Procs : lock[p] = c <=> HoldsAt(cpu[c], p)
  BY DEF IInv, LockOK
<1> QED BY <1>1, <1>5, <1>6, <1>9, <1>10, <1>11, WalkStep DEF IInv, TypeOK

\* What the comparison of scheduler() means while no priority is rewritten.
LEMMA BetterPrecedes ==
  ASSUME NEW i, NEW h, NEW m, m = proc[h].dp
  PROVE  Better(i, m, h) <=> Precedes(i, h)
BY DEF Better, Precedes

\* Precedes is a strict weak order on the slots.
LEMMA Order ==
  ASSUME TypeOK, NEW q \in Procs, NEW h \in Procs, NEW i \in Procs, Precedes(i, h)
  PROVE  /\ ~Precedes(h, i)
         /\ ~Precedes(q, h) => ~Precedes(q, i)
<1>1. /\ proc[q].dp \in Int /\ proc[q].num_sch \in Int /\ proc[q].ctime \in Int
      /\ proc[h].dp \in Int /\ proc[h].num_sch \in Int /\ proc[h].ctime \in Int
      /\ proc[i].dp \in Int /\ proc[i].num_sch \in Int /\ proc[i].ctime \in Int
  BY DEF TypeOK, ProcRec
<1> QED BY <1>1 DEF Precedes

\* The loser of a comparison is released and remembered.
LEMMA RejectFacts ==
  ASSUME IInv, NEW c \in CPUs, NEW q \in Procs, Reject(c, q)
  PROVE  /\ lock' \in [Procs -> CPUs \cup {None}]
         /\ \A p \in Procs : lock'[p] = IF p = q THEN None ELSE lock[p]
         /\ scan' \in [CPUs -> [clean : BOOLEAN, rejected : SUBSET Procs]]
         /\ \A d \in CPUs : d # c => scan'[d] = scan[d]
         /\ scan'[c].clean = scan[c].clean
         /\ scan'[c].rejected = scan[c].rejected \cup {q}
BY DEF Reject, IInv, TypeOK

\* The process of slot i is not better: it is released.
LEMMA SchedKeepInv ==
  ASSUME IInv, NEW c \in CPUs, SchedKeep(c) PROVE IInv'
<1> DEFINE i == cpu[c].i
           h == cpu[c].highest
           r == NextSlot(c)
<1>1. /\ cpu[c].pc = "look" /\ (c = 0 => clk.pc = "idle")
      /\ cpu' = [cpu EXCEPT ![c] = r]
      /\ UNCHANGED <<proc, ticks, nextpid, clk>>
      /\ h # None /\ ~Better(i, cpu[c].min_dp, h) /\ Reject(c, i)
  BY DEF SchedKeep, At
<1>2. CpuOK(cpu[c]) /\ WalkAt(c)
  BY DEF IInv, PlaceOK, WalkOK
<1>3. /\ r \in CpuRec /\ CpuOK(r) /\ r.pc = "scan" /\ r.i = i + 1
      /\ r.highest = h /\ r.min_dp = cpu[c].min_dp /\ r.proc = None
      /\ i \in Procs
  BY <1>1, NextSlotFacts
<1>4. h \in Procs /\ h # i
  BY <1>1, <1>2, <1>3, NextIndex DEF CpuOK
<1>. HIDE DEF r
<1>5. cpu'[c] = r
  BY <1>1 DEF IInv, TypeOK
<1>6. /\ lock' \in [Procs -> CPUs \cup {None}]
      /\ \A p \in Procs : lock'[p] = IF p = i THEN None ELSE lock[p]
      /\ scan' \in [CPUs -> [clean : BOOLEAN, rejected : SUBSET Procs]]
      /\ \A d \in CPUs : d # c => scan'[d] = scan[d]
      /\ scan'[c].clean = scan[c].clean
      /\ scan'[c].rejected = scan[c].rejected \cup {i}
  BY <1>1, <1>3, RejectFacts
<1>7. scan[c].clean => ~Precedes(i, h)
  BY <1>1, <1>2, BetterPrecedes DEF WalkAt
<1>8. proc[h].state = "RUNNABLE" /\ (scan[c].clean => cpu[c].min_dp = proc[h].dp)
  BY <1>1, <1>2 DEF WalkAt, Walking
<1>9. ASSUME scan[c].clean, NEW q \in scan[c].rejected \cup {i}, proc[q].state # "UNUSED"
      PROVE  ~Precedes(q, h)
  BY <1>1, <1>2, <1>7, <1>9 DEF WalkAt, Walking
<1>10. \A q : Precedes(q, cpu[c].highest)' <=> Precedes(q, h)
  BY <1>1, <1>3, <1>5 DEF Precedes
<1>11. WalkAt(c)'
  BY <1>1, <1>3, <1>5, <1>6, <1>8, <1>9, <1>10 DEF WalkAt, Walking
<1>12. \A p \in Procs : /\ HoldsAt(cpu[c], p) <=> p = i \/ p = h
                        /\ HoldsAt(r, p) <=> p = h
  BY <1>1, <1>3 DEF HoldsAt
<1>13. \A p \in Procs : lock[p] = c <=> HoldsAt(cpu[c], p)
  BY DEF IInv, LockOK
<1>14. ASSUME NEW p \in Procs
       PROVE  \/ HoldsAt(r, p) /\ lock'[p] = c /\ HoldsAt(cpu[c], p)
              \/ ~HoldsAt(r, p) /\ ~HoldsAt(cpu[c], p) /\ lock'[p] = lock[p]
              \/ ~HoldsAt(r, p) /\ HoldsAt(cpu[c], p) /\ lock'[p] = None
  BY <1>4, <1>6, <1>12, <1>13
<1> QED BY <1>1, <1>3, <1>6, <1>11, <1>14, WalkStep

\* The process of slot i is better: the other one is released.
LEMMA SchedReplaceInv ==
  ASSUME IInv, NEW c \in CPUs, SchedReplace(c) PROVE IInv'
<1> DEFINE i == cpu[c].i
           h == cpu[c].highest
           r == [cpu[c] EXCEPT !.pc = "take", !.highest = i]
<1>1. /\ cpu[c].pc = "look" /\ (c = 0 => clk.pc = "idle")
      /\ cpu' = [cpu EXCEPT ![c] = r]
      /\ UNCHANGED <<proc, ticks, nextpid, clk>>
      /\ h # None /\ Better(i, cpu[c].min_dp, h) /\ Reject(c, h)
      /\ proc[i].state = "RUNNABLE"
  BY DEF SchedReplace, At
<1>2. cpu[c] \in CpuRec /\ CpuOK(cpu[c]) /\ WalkAt(c)
  BY DEF IInv, TypeOK, PlaceOK, WalkOK
<1>3. i \in Procs /\ h \in Procs /\ h # i /\ i \in Int /\ i # None
  BY <1>1, <1>2, NextIndex, Consts DEF CpuOK
<1>4. /\ r \in CpuRec /\ r.pc = "take" /\ r.i = i
      /\ r.highest = i /\ r.proc = cpu[c].proc
  BY <1>2, <1>3 DEF CpuRec, Walking
<1>5. CpuOK(r)
  BY <1>1, <1>2, <1>3, <1>4 DEF CpuOK, InProcess
<1>. HIDE DEF r
<1>6. cpu'[c] = r
  BY <1>1 DEF IInv, TypeOK
<1>7. /\ lock' \in [Procs -> CPUs \cup {None}]
      /\ \A p \in Procs : lock'[p] = IF p = h THEN None ELSE lock[p]
      /\ scan' \in [CPUs -> [clean : BOOLEAN, rejected : SUBSET Procs]]
      /\ \A d \in CPUs : d # c => scan'[d] = scan[d]
      /\ scan'[c].clean = scan[c].clean
      /\ scan'[c].rejected = scan[c].rejected \cup {h}
  BY <1>1, <1>3, RejectFacts
<1>8. ASSUME scan[c].clean, NEW q \in scan[c].rejected \cup {h}, proc[q].state # "UNUSED"
      PROVE  ~Precedes(q, i)
  <2>1. Precedes(i, h)
    BY <1>1, <1>2, <1>8, BetterPrecedes DEF WalkAt
  <2>2. q \in Procs
    BY <1>3 DEF IInv, TypeOK
  <2>3. q = h \/ ~Precedes(q, h)
    BY <1>1, <1>2, <1>8 DEF WalkAt, Walking
  <2>4. TypeOK
    BY DEF IInv
  <2> QED BY <1>3, <2>1, <2>2, <2>3, <2>4, Order
<1>9. \A q : Precedes(q, cpu[c].highest)' <=> Precedes(q, i)
  BY <1>1, <1>4, <1>6 DEF Precedes
<1>10. WalkAt(c)'
  BY <1>1, <1>3, <1>4, <1>6, <1>7, <1>8, <1>9 DEF WalkAt, Walking
<1>11. \A p \in Procs : /\ HoldsAt(cpu[c], p) <=> p = i \/ p = h
                        /\ HoldsAt(r, p) <=> p = i
  BY <1>1, <1>4 DEF HoldsAt
<1>12. \A p \in Procs : lock[p] = c <=> HoldsAt(cpu[c], p)
  BY DEF IInv, LockOK
<1>13. ASSUME NEW p \in Procs
       PROVE  \/ HoldsAt(r, p) /\ lock'[p] = c /\ HoldsAt(cpu[c], p)
              \/ ~HoldsAt(r, p) /\ ~HoldsAt(cpu[c], p) /\ lock'[p] = lock[p]
              \/ ~HoldsAt(r, p) /\ HoldsAt(cpu[c], p) /\ lock'[p] = None
  BY <1>3, <1>7, <1>11, <1>12
<1> QED BY <1>1, <1>4, <1>5, <1>7, <1>10, <1>13, WalkStep

\* dp of the new best process is read again.
LEMMA SchedTakeInv ==
  ASSUME IInv, NEW c \in CPUs, SchedTake(c) PROVE IInv'
<1> DEFINE i == cpu[c].i
           r == [NextSlot(c) EXCEPT !.min_dp = proc[i].dp]
<1>1. /\ cpu[c].pc = "take" /\ (c = 0 => clk.pc = "idle")
      /\ cpu' = [cpu EXCEPT ![c] = r]
      /\ UNCHANGED <<proc, lock, ticks, nextpid, clk, scan>>
  BY DEF SchedTake, At
<1>2. CpuOK(cpu[c]) /\ WalkAt(c)
  BY DEF IInv, PlaceOK, WalkOK
<1>3. /\ NextSlot(c) \in CpuRec /\ CpuOK(NextSlot(c))
      /\ NextSlot(c).pc = "scan" /\ NextSlot(c).i = i + 1 /\ NextSlot(c).proc = None
      /\ NextSlot(c).highest = cpu[c].highest
      /\ i \in Procs /\ i + 1 \in 0 .. NPROC
  BY <1>1, NextSlotFacts
<1>4. i \in Int /\ proc[i].dp \in Int /\ cpu[c].highest = i
  BY <1>1, <1>2, <1>3, Consts DEF IInv, TypeOK, ProcRec, CpuOK
<1>5. /\ r \in CpuRec /\ r.pc = "scan" /\ r.i = i + 1 /\ r.highest = i
      /\ r.min_dp = proc[i].dp /\ r.proc = None
  BY <1>3, <1>4 DEF CpuRec
<1>6. CpuOK(r)
  BY <1>3, <1>4, <1>5 DEF CpuOK, InProcess
<1>. HIDE DEF r
<1>7. cpu'[c] = r
  BY <1>1 DEF IInv, TypeOK
<1>8. \A q : Precedes(q, cpu[c].highest)' <=> Precedes(q, cpu[c].highest)
  BY <1>1, <1>4, <1>5, <1>7 DEF Precedes
<1>9. WalkAt(c)'
  BY <1>1, <1>2, <1>4, <1>5, <1>7, <1>8 DEF WalkAt, Walking
<1>10. \A p \in Procs : HoldsAt(cpu[c], p) <=> HoldsAt(r, p)
  BY <1>1, <1>4, <1>5 DEF HoldsAt
<1>11. \A p \in Procs : lock[p] = c <=> HoldsAt(cpu[c], p)
  BY DEF IInv, LockOK
<1> QED BY <1>1, <1>5, <1>6, <1>9, <1>10, <1>11, WalkStep DEF IInv, TypeOK

-----------------------------------------------------------------------------
(* Processes get and lose a CPU *)

\* The walks of the other CPUs, and of c when it is not walking.
LEMMA OtherWalks ==
  ASSUME IInv, proc' \in [Procs -> ProcRec], NEW c \in CPUs, cpu'[c].pc \notin Walking,
         scan'[c].rejected = {},
         \A d \in CPUs : d # c => cpu'[d] = cpu[d] /\ scan'[d] = scan[d],
         \A p \in Procs : Kept(p) \/ (lock[p] \in {None, c} /\ Worse(p))
  PROVE  WalkOK'
<1> SUFFICES ASSUME NEW d \in CPUs PROVE WalkAt(d)'
  BY DEF WalkOK
<1>1. CASE d = c
  BY <1>1 DEF WalkAt, Walking
<1>2. CASE d # c
  <2>1. \A p \in Procs : Kept(p) \/ (lock[p] # d /\ Worse(p))
    BY <1>2, Consts
  <2> QED BY <1>2, <2>1, WalkFrame DEF IInv, WalkOK
<1> QED BY <1>1, <1>2

\* The end of the walk when nothing is RUNNABLE.
LEMMA DispatchNobodyInv ==
  ASSUME IInv, NEW c \in CPUs, Dispatch(c), cpu[c].highest = None PROVE IInv'
<1> DEFINE r == NewCpu
<1>1. /\ cpu[c].pc = "scan" /\ (c = 0 => clk.pc = "idle")
      /\ cpu' = [cpu EXCEPT ![c] = r]
      /\ UNCHANGED <<proc, lock, ticks, nextpid, clk>>
      /\ scan' = [scan EXCEPT ![c] = NewScan]
  BY DEF Dispatch, At
<1>2. r.pc = "loop" /\ r.i = 0 /\ r.highest = None /\ r.proc = None /\ r \in CpuRec
  BY Consts DEF NewCpu, CpuRec, Walking, InProcess
<1>3. CpuOK(r)
  BY <1>2 DEF CpuOK, InProcess
<1>4. \A p \in Procs : ~HoldsAt(r, p) /\ ~HoldsAt(cpu[c], p)
  BY <1>1, <1>2, Consts DEF HoldsAt
<1>5. NewScan.clean = TRUE /\ NewScan.rejected = {} /\ NewScan \in [clean : BOOLEAN, rejected : SUBSET Procs]
  BY DEF NewScan
<1>6. /\ scan' \in [CPUs -> [clean : BOOLEAN, rejected : SUBSET Procs]]
      /\ scan'[c] = NewScan /\ \A d \in CPUs : d # c => scan'[d] = scan[d]
  BY <1>1, <1>5 DEF IInv, TypeOK
<1>7. cpu'[c] = r
  BY <1>1 DEF IInv, TypeOK
<1>8. WalkAt(c)'
  BY <1>2, <1>5, <1>6, <1>7 DEF WalkAt, Walking
<1>. HIDE DEF r
<1> QED BY <1>1, <1>2, <1>3, <1>4, <1>6, <1>8, WalkStep DEF IInv, TypeOK

\* A record of struct proc with a new state.
LEMMA ProcRecFields ==
  ASSUME NEW x \in ProcRec
  PROVE  /\ x.state \in States /\ x.num_sch \in Int /\ x.dp \in Int /\ x.ctime \in Int
         /\ x.rntime \in Nat /\ x.stime \in Nat /\ x.wtime \in Nat /\ x.sp \in Int
         /\ x.pid \in Int
BY DEF ProcRec

\* One slot of the table is replaced.
LEMMA OneSlot ==
  ASSUME proc \in [Procs -> ProcRec], NEW p \in Procs, NEW x \in ProcRec,
         proc' = [proc EXCEPT ![p] = x]
  PROVE  /\ proc' \in [Procs -> ProcRec]
         /\ proc'[p] = x
         /\ \A q \in Procs : q # p => proc'[q] = proc[q] /\ Kept(q)
BY DEF Kept

\* A CPU that has switched to h.
LEMMA ResumeRec ==
  ASSUME NEW h \in Procs, NEW r, r = [NewCpu EXCEPT !.proc = h, !.pc = "resume"]
  PROVE  r.pc = "resume" /\ r.i = 0 /\ r.highest = None /\ r.proc = h /\ r \in CpuRec
<1>1. h \in Int /\ None \in Int
  BY Consts
<1>2. r.pc = "resume" /\ r.i = 0 /\ r.highest = None /\ r.proc = h
  BY DEF NewCpu
<1>3. r \in [pc : {"resume"}, i : {0}, highest : {None}, min_dp : {100}, proc : {h}]
  BY DEF NewCpu
<1> QED BY <1>1, <1>2, <1>3 DEF CpuRec, Walking, InProcess

\* The end of the walk: the best process gets the CPU.
LEMMA DispatchInv ==
  ASSUME IInv, NEW c \in CPUs, Dispatch(c), cpu[c].highest # None PROVE IInv'
<1> DEFINE h == cpu[c].highest
           x == [proc[h] EXCEPT !.state = "RUNNING", !.rntime = 0, !.stime = 0, !.num_sch = @ + 1]
           r == [NewCpu EXCEPT !.proc = h, !.pc = "resume"]
<1>1. /\ cpu[c].pc = "scan" /\ (c = 0 => clk.pc = "idle")
      /\ cpu' = [cpu EXCEPT ![c] = r]
      /\ proc' = [proc EXCEPT ![h] = x]
      /\ UNCHANGED <<lock, ticks, nextpid, clk>>
      /\ scan' = [scan EXCEPT ![c] = NewScan]
  BY DEF Dispatch, At
<1>2. CpuOK(cpu[c]) /\ WalkAt(c) /\ cpu[c] \in CpuRec
  BY DEF IInv, PlaceOK, WalkOK, TypeOK
<1>3. h \in Procs /\ h \in Int /\ cpu[c].proc = None
  BY <1>1, <1>2, Consts DEF CpuOK
<1>4. proc[h] \in ProcRec /\ proc[h].state = "RUNNABLE"
  BY <1>1, <1>2, <1>3 DEF IInv, TypeOK, WalkAt, Walking
<1>5. proc[h].num_sch \in Int /\ proc[h].num_sch + 1 \in Int /\ proc[h].num_sch <= proc[h].num_sch + 1
  BY <1>4, ProcRecFields
<1>6. /\ x \in ProcRec /\ x.state = "RUNNING" /\ x.dp = proc[h].dp /\ x.ctime = proc[h].ctime
      /\ x.num_sch = proc[h].num_sch + 1
  BY <1>4, <1>5 DEF ProcRec, States
<1>7. r.pc = "resume" /\ r.i = 0 /\ r.highest = None /\ r.proc = h /\ r \in CpuRec
  BY <1>3, ResumeRec
<1>8. CpuOK(r)
  BY <1>3, <1>7 DEF CpuOK, InProcess
<1>. HIDE DEF x, r
<1>9. /\ proc' \in [Procs -> ProcRec] /\ proc'[h] = x
      /\ \A q \in Procs : q # h => proc'[q] = proc[q] /\ Kept(q)
  BY <1>1, <1>3, <1>6, OneSlot DEF IInv, TypeOK
<1>10. \A p \in Procs : /\ HoldsAt(cpu[c], p) <=> p = h
                        /\ HoldsAt(r, p) <=> p = h
  BY <1>1, <1>7 DEF HoldsAt
<1>11. \A p \in Procs : lock[p] = c <=> HoldsAt(cpu[c], p)
  BY DEF IInv, LockOK
<1>12. lock' \in [Procs -> CPUs \cup {None}]
  BY <1>1 DEF IInv, TypeOK
<1>13. /\ cpu' \in [CPUs -> CpuRec]
       /\ PlaceOK' /\ LockOK' /\ ClkOK'
       /\ cpu'[c] = r /\ \A d \in CPUs : d # c => cpu'[d] = cpu[d]
  BY <1>1, <1>7, <1>8, <1>10, <1>11, <1>12, CpuFrame DEF IInv
<1>14. NewScan.rejected = {} /\ NewScan \in [clean : BOOLEAN, rejected : SUBSET Procs]
  BY DEF NewScan
<1>15. /\ scan' \in [CPUs -> [clean : BOOLEAN, rejected : SUBSET Procs]]
       /\ scan'[c] = NewScan /\ \A d \in CPUs : d # c => scan'[d] = scan[d]
  BY <1>1, <1>14 DEF IInv, TypeOK
<1>16. TypeOK'
  BY <1>1, <1>9, <1>12, <1>13, <1>15 DEF IInv, TypeOK
<1>17. ForkOK'
  <2>1. \A p \in Procs : proc[p].state = "USED" => proc'[p].state = "USED"
    BY <1>4, <1>9
  <2> QED BY <1>1, <1>7, <1>13, <2>1, ForkFrame DEF IInv
<1>18. WalkOK'
  <2>1. lock[h] = c /\ Worse(h)
    BY <1>3, <1>4, <1>5, <1>6, <1>9, <1>10, <1>11 DEF Worse
  <2>2. \A p \in Procs : Kept(p) \/ (lock[p] \in {None, c} /\ Worse(p))
    BY <1>9, <2>1
  <2> QED BY <1>7, <1>9, <1>13, <1>14, <1>15, <2>2, OtherWalks DEF Walking
<1>19. RunOK'
  <2>1. ASSUME NEW d \in CPUs, d # c, cpu[d].pc \in InProcess \cup {"swtch"} PROVE cpu[d].proc # h
    <3>1. cpu[d].pc \in InProcess => cpu[d].proc # h
      BY <1>4 DEF IInv, RunOK
    <3>2. cpu[d].pc = "swtch" => cpu[d].proc # h
      <4>1. lock[h] = c
        BY <1>3, <1>10, <1>11
      <4>2. lock[h] # d
        BY <2>1, <4>1
      <4>3. ~HoldsAt(cpu[d], h)
        BY <1>3, <4>2 DEF IInv, LockOK
      <4> QED BY <4>3 DEF HoldsAt
    <3> QED BY <2>1, <3>1, <3>2
  <2>2. \A d \in CPUs : d # c =>
          /\ cpu[d].pc \in InProcess => proc[cpu[d].proc].state = "RUNNING"
          /\ cpu[d].pc = "swtch" => proc[cpu[d].proc].state \in {"RUNNABLE", "SLEEPING", "ZOMBIE"}
          /\ cpu[d].pc \in InProcess \cup {"swtch"} => cpu[d].proc \in Procs
    BY DEF IInv, RunOK, PlaceOK, CpuOK
  <2>3. \A d \in CPUs : d # c => cpu[d].proc # h
    <3>1. \A d \in CPUs : d # c /\ cpu[d].pc \notin InProcess \cup {"swtch"} => cpu[d].proc = None
      BY DEF IInv, PlaceOK, CpuOK, TypeOK, CpuRec, Walking
    <3> QED BY <1>3, <2>1, <3>1, Consts
  <2>4. ASSUME NEW d \in CPUs
        PROVE  /\ cpu'[d].pc \in InProcess => proc'[cpu'[d].proc].state = "RUNNING"
               /\ cpu'[d].pc = "swtch" =>
                    proc'[cpu'[d].proc].state \in {"RUNNABLE", "SLEEPING", "ZOMBIE"}
    <3>1. CASE d = c
      BY <1>6, <1>7, <1>9, <1>13, <3>1
    <3>2. CASE d # c
      BY <1>9, <1>13, <2>1, <2>2, <3>2
    <3> QED BY <3>1, <3>2
  <2>5. ASSUME NEW d \in CPUs, NEW e \in CPUs, cpu'[d].pc \in InProcess \cup {"swtch"},
               cpu'[d].proc = cpu'[e].proc
        PROVE  d = e
    <3>1. CASE d = c
      BY <1>7, <1>13, <2>3, <2>5, <3>1
    <3>2. CASE e = c
      BY <1>7, <1>13, <2>3, <2>5, <3>2
    <3>3. CASE d # c /\ e # c
      BY <1>13, <2>5, <3>3 DEF IInv, RunOK
    <3> QED BY <3>1, <3>2, <3>3
  <2>6. ASSUME NEW p \in Procs, proc'[p].state = "RUNNING"
        PROVE  \E d \in CPUs : cpu'[d].pc \in InProcess /\ cpu'[d].proc = p
    <3>1. CASE p = h
      BY <1>7, <1>13, <3>1 DEF InProcess
    <3>2. CASE p # h
      <4>1. PICK d \in CPUs : cpu[d].pc \in InProcess /\ cpu[d].proc = p
        BY <1>9, <2>6, <3>2 DEF IInv, RunOK
      <4>2. d # c
        BY <1>1, <4>1 DEF InProcess
      <4> QED BY <1>13, <4>1, <4>2
    <3> QED BY <3>1, <3>2
  <2> QED BY <2>4, <2>5, <2>6 DEF RunOK
<1> QED BY <1>13, <1>16, <1>17, <1>18, <1>19 DEF IInv

\* Back in scheduler(): the CPU lets go of the process and of its lock.
LEMMA SchedReturnInv ==
  ASSUME IInv, NEW c \in CPUs, SchedReturn(c) PROVE IInv'
<1> DEFINE p0 == cpu[c].proc
           r == NewCpu
<1>1. /\ cpu[c].pc = "swtch" /\ (c = 0 => clk.pc = "idle")
      /\ cpu' = [cpu EXCEPT ![c] = r]
      /\ lock' = [lock EXCEPT ![p0] = None]
      /\ UNCHANGED <<proc, ticks, nextpid, clk, scan>>
  BY DEF SchedReturn, At
<1>2. r.pc = "loop" /\ r.i = 0 /\ r.highest = None /\ r.proc = None /\ r \in CpuRec
  BY Consts DEF NewCpu, CpuRec, Walking, InProcess
<1>3. CpuOK(r)
  BY <1>2 DEF CpuOK, InProcess
<1>. HIDE DEF r
<1>4. p0 \in Procs /\ proc[p0].state # "RUNNING"
  BY <1>1 DEF IInv, PlaceOK, CpuOK, RunOK
<1>5. \A p \in Procs : ~HoldsAt(r, p) /\ (HoldsAt(cpu[c], p) <=> p = p0)
  BY <1>1, <1>2 DEF HoldsAt
<1>6. /\ lock' \in [Procs -> CPUs \cup {None}]
      /\ \A p \in Procs : lock'[p] = IF p = p0 THEN None ELSE lock[p]
  BY <1>1 DEF IInv, TypeOK
<1>7. /\ cpu' \in [CPUs -> CpuRec]
      /\ PlaceOK' /\ LockOK' /\ ClkOK'
      /\ cpu'[c] = r /\ \A d \in CPUs : d # c => cpu'[d] = cpu[d]
  BY <1>1, <1>2, <1>3, <1>5, <1>6, CpuFrame DEF IInv
<1>8. TypeOK'
  BY <1>1, <1>6, <1>7 DEF IInv, TypeOK
<1>9. ForkOK'
  BY <1>1, <1>2, <1>7, ForkFrame DEF IInv
<1>10. WalkOK'
  <2>1. scan'[c].rejected = {}
    BY <1>1 DEF IInv, WalkOK, WalkAt, Walking
  <2> QED BY <1>1, <1>2, <1>7, <2>1, OtherWalks DEF Walking, Kept, IInv, TypeOK
<1>11. RunOK'
  <2>1. \A d \in CPUs : cpu'[d].pc \in InProcess \cup {"swtch"} => d # c /\ cpu'[d] = cpu[d]
    BY <1>2, <1>7 DEF InProcess
  <2>2. \A d \in CPUs : cpu'[d].pc \in InProcess \cup {"swtch"} => cpu'[d].proc \in Procs
    BY <1>7 DEF PlaceOK, CpuOK
  <2>3. ASSUME NEW d \in CPUs
        PROVE  /\ cpu'[d].pc \in InProcess => proc'[cpu'[d].proc].state = "RUNNING"
               /\ cpu'[d].pc = "swtch" =>
                    proc'[cpu'[d].proc].state \in {"RUNNABLE", "SLEEPING", "ZOMBIE"}
    BY <1>1, <2>1 DEF IInv, RunOK
  <2>4. ASSUME NEW d \in CPUs, NEW e \in CPUs, cpu'[d].pc \in InProcess \cup {"swtch"},
               cpu'[d].proc = cpu'[e].proc
        PROVE  d = e
    <3>1. e # c
      BY <1>2, <1>7, <2>2, <2>4, Consts
    <3> QED BY <1>7, <2>1, <2>4, <3>1 DEF IInv, RunOK
  <2>5. ASSUME NEW p \in Procs, proc'[p].state = "RUNNING"
        PROVE  \E d \in CPUs : cpu'[d].pc \in InProcess /\ cpu'[d].proc = p
    <3>1. PICK d \in CPUs : cpu[d].pc \in InProcess /\ cpu[d].proc = p
      BY <1>1, <2>5 DEF IInv, RunOK
    <3>2. d # c
      BY <1>1, <3>1 DEF InProcess
    <3> QED BY <1>7, <3>1, <3>2
  <2> QED BY <2>3, <2>4, <2>5 DEF RunOK
<1> QED BY <1>7, <1>8, <1>9, <1>10, <1>11 DEF IInv

\* yield(), sleep() and exit(): the process leaves with its lock held.
LEMMA LeaveInv ==
  ASSUME IInv, NEW c \in CPUs, c = 0 => clk.pc = "idle",
         cpu[c].pc \in {"run", "yield", "sleep"}, NEW x \in ProcRec, Leave(c, x),
         x.state \in {"RUNNABLE", "SLEEPING", "ZOMBIE"}, x.dp = proc[cpu[c].proc].dp,
         x.num_sch = proc[cpu[c].proc].num_sch, x.ctime = proc[cpu[c].proc].ctime,
         UNCHANGED <<ticks, nextpid, clk, scan>>
  PROVE  IInv'
<1> DEFINE p0 == cpu[c].proc
           r == [cpu[c] EXCEPT !.pc = "swtch"]
<1>1. /\ cpu' = [cpu EXCEPT ![c] = r]
      /\ Free(p0) /\ lock' = [lock EXCEPT ![p0] = c] /\ proc' = [proc EXCEPT ![p0] = x]
  BY DEF Leave, Goto
<1>2. cpu[c] \in CpuRec /\ CpuOK(cpu[c])
  BY DEF IInv, TypeOK, PlaceOK
<1>3. p0 \in Procs
  BY <1>2 DEF CpuOK, InProcess
<1>4. /\ r.pc = "swtch" /\ r.i = cpu[c].i /\ r.highest = cpu[c].highest
      /\ r.proc = p0 /\ r \in CpuRec
  BY <1>2 DEF CpuRec
<1>5. CpuOK(r)
  BY <1>3, <1>4 DEF CpuOK
<1>. HIDE DEF r
<1>6. /\ proc' \in [Procs -> ProcRec] /\ proc'[p0] = x
      /\ \A q \in Procs : q # p0 => proc'[q] = proc[q] /\ Kept(q)
  BY <1>1, <1>3, OneSlot DEF IInv, TypeOK
<1>7. \A p \in Procs : (HoldsAt(r, p) <=> p = p0) /\ ~HoldsAt(cpu[c], p)
  BY <1>4 DEF HoldsAt
<1>8. /\ lock' \in [Procs -> CPUs \cup {None}] /\ lock[p0] = None
      /\ \A p \in Procs : lock'[p] = IF p = p0 THEN c ELSE lock[p]
  BY <1>1 DEF IInv, TypeOK, Free
<1>9. /\ cpu' \in [CPUs -> CpuRec]
      /\ PlaceOK' /\ LockOK' /\ ClkOK'
      /\ cpu'[c] = r /\ \A d \in CPUs : d # c => cpu'[d] = cpu[d]
  BY <1>1, <1>4, <1>5, <1>7, <1>8, CpuFrame DEF IInv
<1>10. TypeOK'
  BY <1>6, <1>8, <1>9 DEF IInv, TypeOK
<1>11. cpu[c].pc \in InProcess /\ proc[p0].state = "RUNNING"
  BY DEF IInv, RunOK, InProcess
<1>12. ForkOK'
  <2>1. \A p \in Procs : proc[p].state = "USED" => proc'[p].state = "USED"
    BY <1>6, <1>11
  <2> QED BY <1>4, <1>9, <2>1, ForkFrame DEF IInv
<1>13. WalkOK'
  <2>1. scan'[c].rejected = {}
    BY DEF IInv, WalkOK, WalkAt, Walking
  <2>2. x.num_sch \in Int
    BY ProcRecFields
  <2>3. Worse(p0)
    BY <1>6, <1>11, <2>2 DEF Worse
  <2>4. \A p \in Procs : Kept(p) \/ (lock[p] \in {None, c} /\ Worse(p))
    BY <1>6, <1>8, <2>3
  <2> QED BY <1>4, <1>6, <1>9, <2>1, <2>4, OtherWalks DEF Walking
<1>14. RunOK'
  <2>1. \A d \in CPUs : /\ cpu'[d].proc = cpu[d].proc
                        /\ cpu'[d].pc \in InProcess => d # c /\ cpu[d].pc \in InProcess
                        /\ cpu'[d].pc = "swtch" => d = c \/ cpu[d].pc = "swtch"
    BY <1>4, <1>9 DEF InProcess
  <2>2. \A d \in CPUs : cpu'[d].pc \in InProcess \cup {"swtch"} =>
          cpu[d].pc \in InProcess \cup {"swtch"} /\ cpu[d].proc \in Procs
    BY <1>11, <2>1 DEF IInv, PlaceOK, CpuOK
  <2>3. \A d \in CPUs : d # c => cpu[d].proc # p0
    BY <1>11 DEF IInv, RunOK
  <2>4. ASSUME NEW d \in CPUs
        PROVE  /\ cpu'[d].pc \in InProcess => proc'[cpu'[d].proc].state = "RUNNING"
               /\ cpu'[d].pc = "swtch" =>
                    proc'[cpu'[d].proc].state \in {"RUNNABLE", "SLEEPING", "ZOMBIE"}
    <3>1. CASE d = c
      BY <1>6, <2>1, <3>1
    <3>2. CASE d # c
      BY <1>6, <2>1, <2>2, <2>3, <3>2 DEF IInv, RunOK
    <3> QED BY <3>1, <3>2
  <2>5. ASSUME NEW d \in CPUs, NEW e \in CPUs, cpu'[d].pc \in InProcess \cup {"swtch"},
               cpu'[d].proc = cpu'[e].proc
        PROVE  d = e
    BY <2>1, <2>2, <2>5 DEF IInv, RunOK
  <2>6. ASSUME NEW p \in Procs, proc'[p].state = "RUNNING"
        PROVE  \E d \in CPUs : cpu'[d].pc \in InProcess /\ cpu'[d].proc = p
    <3>1. p # p0
      BY <1>6, <2>6
    <3>2. PICK d \in CPUs : cpu[d].pc \in InProcess /\ cpu[d].proc = p
      BY <1>6, <2>6, <3>1 DEF IInv, RunOK
    <3> QED BY <1>9, <3>1, <3>2
  <2> QED BY <2>4, <2>5, <2>6 DEF RunOK
<1> QED BY <1>9, <1>10, <1>12, <1>13, <1>14 DEF IInv

\* The process that a CPU runs, and its record.
LEMMA OwnProcess ==
  ASSUME IInv, NEW c \in CPUs, cpu[c].pc \in InProcess \cup {"swtch"}
  PROVE  /\ cpu[c].proc \in Procs /\ proc[cpu[c].proc] \in ProcRec
         /\ cpu[c] \in CpuRec /\ CpuOK(cpu[c])
         /\ scan[c].rejected = {}
BY DEF IInv, TypeOK, PlaceOK, CpuOK, WalkOK, WalkAt, InProcess, Walking

\* yield().
LEMMA YieldInv ==
  ASSUME IInv, NEW c \in CPUs, Yield(c) PROVE IInv'
<1> DEFINE y == proc[cpu[c].proc]
           x == [y EXCEPT !.state = "RUNNABLE"]
<1>1. /\ cpu[c].pc \in {"run", "yield", "sleep"} /\ (c = 0 => clk.pc = "idle")
      /\ UNCHANGED <<ticks, nextpid, clk, scan>> /\ Leave(c, x)
  BY DEF Yield, At
<1>2. y \in ProcRec
  BY <1>1, OwnProcess DEF InProcess
<1>3. x \in ProcRec /\ x.state = "RUNNABLE" /\ x.dp = y.dp /\ x.num_sch = y.num_sch /\ x.ctime = y.ctime
  BY <1>2 DEF ProcRec, States
<1>. HIDE DEF x
<1> QED BY <1>1, <1>3, LeaveInv

\* sleep() for an event other than the clock.
LEMMA SleepInv ==
  ASSUME IInv, NEW c \in CPUs, Sleep(c) PROVE IInv'
<1> DEFINE y == proc[cpu[c].proc]
           x == [y EXCEPT !.state = "SLEEPING", !.chan = "event"]
<1>1. /\ cpu[c].pc \in {"run", "yield", "sleep"} /\ (c = 0 => clk.pc = "idle")
      /\ UNCHANGED <<ticks, nextpid, clk, scan>> /\ Leave(c, x)
  BY DEF Sleep, At
<1>2. y \in ProcRec
  BY <1>1, OwnProcess DEF InProcess
<1>3. x \in ProcRec /\ x.state = "SLEEPING" /\ x.dp = y.dp /\ x.num_sch = y.num_sch /\ x.ctime = y.ctime
  BY <1>2 DEF ProcRec, States
<1>. HIDE DEF x
<1> QED BY <1>1, <1>3, LeaveInv

\* sys_sleep() sleeps for the clock.
LEMMA SleepTicksInv ==
  ASSUME IInv, NEW c \in CPUs, SleepTicks(c) PROVE IInv'
<1> DEFINE y == proc[cpu[c].proc]
           x == [y EXCEPT !.state = "SLEEPING", !.chan = "ticks"]
<1>1. /\ cpu[c].pc \in {"run", "yield", "sleep"} /\ (c = 0 => clk.pc = "idle")
      /\ UNCHANGED <<ticks, nextpid, clk, scan>> /\ Leave(c, x)
  BY DEF SleepTicks, At
<1>2. y \in ProcRec
  BY <1>1, OwnProcess DEF InProcess
<1>3. x \in ProcRec /\ x.state = "SLEEPING" /\ x.dp = y.dp /\ x.num_sch = y.num_sch /\ x.ctime = y.ctime
  BY <1>2 DEF ProcRec, States
<1>. HIDE DEF x
<1> QED BY <1>1, <1>3, LeaveInv

\* exit().
LEMMA ExitInv ==
  ASSUME IInv, NEW c \in CPUs, Exit(c) PROVE IInv'
<1> DEFINE y == proc[cpu[c].proc]
           x == [y EXCEPT !.state = "ZOMBIE", !.etime = ticks]
<1>1. /\ cpu[c].pc \in {"run", "yield", "sleep"} /\ (c = 0 => clk.pc = "idle")
      /\ UNCHANGED <<ticks, nextpid, clk, scan>> /\ Leave(c, x)
  BY DEF Exit, At
<1>2. y \in ProcRec /\ ticks \in Int
  BY <1>1, OwnProcess DEF InProcess, IInv, TypeOK
<1>3. x \in ProcRec /\ x.state = "ZOMBIE" /\ x.dp = y.dp /\ x.num_sch = y.num_sch /\ x.ctime = y.ctime
  BY <1>2 DEF ProcRec, States
<1>. HIDE DEF x
<1> QED BY <1>1, <1>3, LeaveInv

-----------------------------------------------------------------------------
(* What a process does on its CPU *)

\* A step of the process on CPU c, which stays there and works on processes
\* that nobody runs or holds.
LEMMA ProcessStep ==
  ASSUME IInv, NEW c \in CPUs, c = 0 => clk.pc = "idle",
         NEW r \in CpuRec, r.pc \in InProcess, cpu[c].pc \in InProcess, r.proc = cpu[c].proc,
         r.pc # "fork", cpu' = [cpu EXCEPT ![c] = r],
         UNCHANGED <<ticks, nextpid, clk, scan>>,
         proc' \in [Procs -> ProcRec],
         \A p \in Procs :
           Kept(p) \/ /\ Free(p) /\ Worse(p)
                      /\ proc[p].state # "RUNNING" /\ proc'[p].state # "RUNNING",
         lock' \in [Procs -> CPUs \cup {None}],
         \A p \in Procs :
           \/ HoldsAt(r, p) /\ lock'[p] = c /\ (lock[p] = None \/ HoldsAt(cpu[c], p))
           \/ ~HoldsAt(r, p) /\ ~HoldsAt(cpu[c], p) /\ lock'[p] = lock[p]
           \/ ~HoldsAt(r, p) /\ HoldsAt(cpu[c], p) /\ lock'[p] = None,
         ForkOK'
  PROVE  IInv'
<1>0. r.proc \in Procs /\ scan[c].rejected = {}
  BY OwnProcess
<1>1. CpuOK(r)
  BY <1>0 DEF CpuOK, InProcess
<1>2. /\ cpu' \in [CPUs -> CpuRec]
      /\ PlaceOK' /\ LockOK' /\ ClkOK'
      /\ cpu'[c] = r /\ \A d \in CPUs : d # c => cpu'[d] = cpu[d]
  BY <1>1, CpuFrame DEF IInv
<1>3. TypeOK'
  BY <1>2 DEF IInv, TypeOK
<1>4. RunOK'
  <2>1. Class(cpu'[c].pc) = Class(cpu[c].pc)
    BY <1>2 DEF Class
  <2>2. \A p \in Procs :
           \/ proc'[p].state = proc[p].state
           \/ Free(p) /\ proc[p].state # "RUNNING" /\ proc'[p].state # "RUNNING"
    BY DEF Kept
  <2> QED BY <1>2, <2>1, <2>2, RunFrame DEF IInv
<1>5. WalkOK'
  <2>1. \A p \in Procs : Kept(p) \/ (lock[p] \in {None, c} /\ Worse(p))
    BY DEF Free
  <2>2. r.pc \notin Walking
    BY DEF Walking, InProcess
  <2> QED BY <1>0, <1>2, <2>1, <2>2, OtherWalks
<1> QED BY <1>2, <1>3, <1>4, <1>5 DEF IInv

\* The CPU's record with another pc.
LEMMA GotoRec ==
  ASSUME NEW y \in CpuRec, NEW pc \in InProcess, NEW r, r = [y EXCEPT !.pc = pc]
  PROVE  /\ r \in CpuRec /\ r.pc = pc /\ r.i = y.i /\ r.highest = y.highest
         /\ r.proc = y.proc
BY DEF CpuRec

\* The process releases its lock and runs.
LEMMA ResumeInv ==
  ASSUME IInv, NEW c \in CPUs, Resume(c) PROVE IInv'
<1> DEFINE r == [cpu[c] EXCEPT !.pc = "run"]
<1>1. /\ cpu[c].pc = "resume" /\ (c = 0 => clk.pc = "idle")
      /\ cpu' = [cpu EXCEPT ![c] = r]
      /\ lock' = [lock EXCEPT ![cpu[c].proc] = None]
      /\ UNCHANGED <<proc, ticks, nextpid, clk, scan>>
  BY DEF Resume, At, Goto
<1>2. cpu[c].pc \in InProcess /\ "run" \in InProcess
  BY <1>1 DEF InProcess
<1>3. cpu[c].proc \in Procs /\ cpu[c] \in CpuRec
  BY <1>2, OwnProcess
<1>4. r \in CpuRec /\ r.pc = "run" /\ r.proc = cpu[c].proc
  BY <1>2, <1>3, GotoRec
<1>. HIDE DEF r
<1>5. cpu'[c] = r /\ \A d \in CPUs : d # c => cpu'[d] = cpu[d]
  BY <1>1 DEF IInv, TypeOK
<1>6. ForkOK'
  BY <1>1, <1>4, <1>5, ForkFrame DEF IInv
<1>7. \A p \in Procs : ~HoldsAt(r, p) /\ (HoldsAt(cpu[c], p) <=> p = cpu[c].proc)
  BY <1>1, <1>4 DEF HoldsAt
<1>8. /\ lock' \in [Procs -> CPUs \cup {None}]
      /\ \A p \in Procs : lock'[p] = IF p = cpu[c].proc THEN None ELSE lock[p]
  BY <1>1 DEF IInv, TypeOK
<1>9. proc' \in [Procs -> ProcRec] /\ \A p \in Procs : Kept(p)
  BY <1>1 DEF IInv, TypeOK, Kept
<1> QED BY <1>1, <1>2, <1>4, <1>6, <1>7, <1>8, <1>9, ProcessStep

\* Steps of the process that touch no process lock and move to pc.
LEMMA UnlockedStep ==
  ASSUME IInv, NEW c \in CPUs, c = 0 => clk.pc = "idle",
         cpu[c].pc \in {"run", "sleep"}, NEW pc \in {"run", "sleep", "yield"},
         cpu' = [cpu EXCEPT ![c].pc = pc] \/ (pc = cpu[c].pc /\ cpu' = cpu),
         UNCHANGED <<lock, ticks, nextpid, clk, scan>>,
         proc' \in [Procs -> ProcRec],
         \A p \in Procs : proc[p].state = "USED" => proc'[p].state = "USED",
         \A p \in Procs :
           Kept(p) \/ /\ Free(p) /\ Worse(p)
                      /\ proc[p].state # "RUNNING" /\ proc'[p].state # "RUNNING"
  PROVE  IInv'
<1> DEFINE r == [cpu[c] EXCEPT !.pc = pc]
<1>1. cpu[c].pc \in InProcess /\ pc \in InProcess
  BY DEF InProcess
<1>2. cpu[c].proc \in Procs /\ cpu[c] \in CpuRec
  BY <1>1, OwnProcess
<1>3. r \in CpuRec /\ r.pc = pc /\ r.proc = cpu[c].proc
  BY <1>1, <1>2, GotoRec
<1>4. cpu' = [cpu EXCEPT ![c] = r]
  <2>1. CASE cpu' = [cpu EXCEPT ![c].pc = pc]
    BY <2>1
  <2>2. CASE pc = cpu[c].pc /\ cpu' = cpu
    <3>1. r = cpu[c]
      BY <1>2, <2>2 DEF CpuRec
    <3>2. cpu \in [CPUs -> CpuRec]
      BY DEF IInv, TypeOK
    <3>. HIDE DEF r
    <3> QED BY <2>2, <3>1, <3>2
  <2> QED BY <2>1, <2>2
<1>. HIDE DEF r
<1>5. cpu'[c] = r /\ \A d \in CPUs : d # c => cpu'[d] = cpu[d]
  BY <1>4 DEF IInv, TypeOK
<1>6. ForkOK'
  BY <1>3, <1>5, ForkFrame DEF IInv
<1>7. \A p \in Procs : ~HoldsAt(r, p) /\ ~HoldsAt(cpu[c], p)
  BY <1>3 DEF HoldsAt
<1>8. lock' \in [Procs -> CPUs \cup {None}]
  BY DEF IInv, TypeOK
<1> QED BY <1>1, <1>3, <1>4, <1>6, <1>7, <1>8, ProcessStep

\* sys_sleep() takes and releases tickslock.
LEMMA TicksAcquireInv ==
  ASSUME IInv, NEW c \in CPUs, TicksAcquire(c) PROVE IInv'
<1>1. /\ cpu[c].pc = "run" /\ (c = 0 => clk.pc = "idle")
      /\ cpu' = [cpu EXCEPT ![c].pc = "sleep"]
      /\ UNCHANGED <<proc, lock, ticks, nextpid, clk, scan>>
  BY DEF TicksAcquire, At, Goto
<1>2. proc' \in [Procs -> ProcRec] /\ \A p \in Procs : Kept(p)
  BY <1>1 DEF IInv, TypeOK, Kept
<1> QED BY <1>1, <1>2, UnlockedStep

\* The other half.
LEMMA TicksReleaseInv ==
  ASSUME IInv, NEW c \in CPUs, TicksRelease(c) PROVE IInv'
<1>1. /\ cpu[c].pc = "sleep" /\ (c = 0 => clk.pc = "idle")
      /\ cpu' = [cpu EXCEPT ![c].pc = "run"]
      /\ UNCHANGED <<proc, lock, ticks, nextpid, clk, scan>>
  BY DEF TicksRelease, At, Goto
<1>2. proc' \in [Procs -> ProcRec] /\ \A p \in Procs : Kept(p)
  BY <1>1 DEF IInv, TypeOK, Kept
<1> QED BY <1>1, <1>2, UnlockedStep

\* What wakeup() does to the table.
LEMMA WokenFacts ==
  ASSUME proc \in [Procs -> ProcRec], NEW q \in Procs, NEW ch, proc' = Woken(q, ch)
  PROVE  /\ proc' \in [Procs -> ProcRec]
         /\ \A p \in Procs : p # q => Kept(p)
         /\ Kept(q) \/ /\ Worse(q) /\ proc[q].state = "SLEEPING"
                       /\ proc'[q].state = "RUNNABLE"
<1>1. CASE proc[q].state = "SLEEPING" /\ proc[q].chan = ch
  <2> DEFINE x == [proc[q] EXCEPT !.state = "RUNNABLE"]
  <2>1. proc' = [proc EXCEPT ![q] = x]
    BY <1>1 DEF Woken
  <2>2. proc[q] \in ProcRec
    OBVIOUS
  <2>3. /\ x \in ProcRec /\ x.state = "RUNNABLE" /\ x.dp = proc[q].dp
        /\ x.num_sch = proc[q].num_sch /\ x.ctime = proc[q].ctime
    BY <2>2 DEF ProcRec, States
  <2>. HIDE DEF x
  <2>4. proc' \in [Procs -> ProcRec] /\ proc'[q] = x /\ \A p \in Procs : p # q => Kept(p)
    BY <2>1, <2>3, OneSlot
  <2>5. proc[q].num_sch \in Int
    BY <2>2, ProcRecFields
  <2>6. Worse(q)
    BY <1>1, <2>3, <2>4, <2>5 DEF Worse
  <2> QED BY <1>1, <2>3, <2>4, <2>6
<1>2. CASE ~(proc[q].state = "SLEEPING" /\ proc[q].chan = ch)
  BY <1>2 DEF Woken, Kept
<1> QED BY <1>1, <1>2

\* wakeup() of a process.
LEMMA WakeupInv ==
  ASSUME IInv, NEW c \in CPUs, NEW q \in Procs, Wakeup(c, q) PROVE IInv'
<1>1. /\ cpu[c].pc = "run" /\ (c = 0 => clk.pc = "idle") /\ Free(q)
      /\ proc' = Woken(q, "event") /\ cpu' = cpu
      /\ UNCHANGED <<lock, ticks, nextpid, clk, scan>>
  BY DEF Wakeup, At
<1>2. /\ proc' \in [Procs -> ProcRec]
      /\ \A p \in Procs : p # q => Kept(p)
      /\ Kept(q) \/ /\ Worse(q) /\ proc[q].state = "SLEEPING"
                    /\ proc'[q].state = "RUNNABLE"
  BY <1>1, WokenFacts DEF IInv, TypeOK
<1>3. \A p \in Procs : proc[p].state = "USED" => proc'[p].state = "USED"
  BY <1>2 DEF Kept
<1>4. \A p \in Procs :
        Kept(p) \/ /\ Free(p) /\ Worse(p)
                   /\ proc[p].state # "RUNNING" /\ proc'[p].state # "RUNNING"
  BY <1>1, <1>2
<1> QED BY <1>1, <1>2, <1>3, <1>4, UnlockedStep

\* A slot that has never been used, or has been freed.
LEMMA NewProcRec ==
  NewProc \in ProcRec /\ NewProc.state = "UNUSED"
BY DEF NewProc, ProcRec, States, PBS_DEF_SP, PBS_DEF_RBI, PBS_DEF_DP

\* wait() frees a zombie.
LEMMA WaitInv ==
  ASSUME IInv, NEW c \in CPUs, NEW q \in Procs, Wait(c, q) PROVE IInv'
<1>1. /\ cpu[c].pc = "run" /\ (c = 0 => clk.pc = "idle") /\ Free(q)
      /\ proc[q].state = "ZOMBIE"
      /\ proc' = [proc EXCEPT ![q] = NewProc] /\ cpu' = cpu
      /\ UNCHANGED <<lock, ticks, nextpid, clk, scan>>
  BY DEF Wait, At
<1>2. /\ proc' \in [Procs -> ProcRec] /\ proc'[q] = NewProc
      /\ \A p \in Procs : p # q => Kept(p)
  BY <1>1, NewProcRec, OneSlot DEF IInv, TypeOK
<1>3. \A p \in Procs : proc[p].state = "USED" => proc'[p].state = "USED"
  BY <1>1, <1>2 DEF Kept
<1>4. \A p \in Procs :
        Kept(p) \/ /\ Free(p) /\ Worse(p)
                   /\ proc[p].state # "RUNNING" /\ proc'[p].state # "RUNNING"
  BY <1>1, <1>2, NewProcRec DEF Worse
<1> QED BY <1>1, <1>2, <1>3, <1>4, UnlockedStep

\* set_priority() changes a static priority and may go on to yield().
LEMMA SetPriorityInv ==
  ASSUME IInv, NEW c \in CPUs, NEW pid \in Pids, NEW prio \in Priorities,
         set_priority(c, pid, prio)
  PROVE  IInv'
<1> DEFINE found == {p \in Procs : proc[p].pid = pid}
           q == CHOOSE p \in found : \A z \in found : p <= z
<1>1. /\ cpu[c].pc = "run" /\ (c = 0 => clk.pc = "idle")
      /\ UNCHANGED <<lock, ticks, nextpid, clk, scan>>
      /\ prio \in Int
  BY PbsAssumption DEF set_priority, At
<1>2. PICK pc \in {"yield", "run"} : cpu' = [cpu EXCEPT ![c].pc = pc]
  BY DEF set_priority, Goto
<1>3. proc' = [proc EXCEPT ![q].sp = prio] \/ proc' = proc
  BY DEF set_priority
<1>. HIDE DEF q
<1>4. proc' \in [Procs -> ProcRec] /\ \A p \in Procs : Kept(p)
  <2>1. CASE proc' = proc
    BY <2>1 DEF IInv, TypeOK, Kept
  <2>2. CASE proc' = [proc EXCEPT ![q].sp = prio] /\ q \in Procs
    <3> DEFINE x == [proc[q] EXCEPT !.sp = prio]
    <3>1. proc[q] \in ProcRec
      BY <2>2 DEF IInv, TypeOK
    <3>2. /\ x \in ProcRec /\ x.state = proc[q].state /\ x.dp = proc[q].dp
          /\ x.num_sch = proc[q].num_sch /\ x.ctime = proc[q].ctime
      BY <1>1, <3>1 DEF ProcRec
    <3>3. proc' = [proc EXCEPT ![q] = x]
      BY <2>2
    <3>. HIDE DEF x
    <3>4. proc' \in [Procs -> ProcRec] /\ proc'[q] = x /\ \A p \in Procs : p # q => Kept(p)
      BY <2>2, <3>2, <3>3, OneSlot DEF IInv, TypeOK
    <3> QED BY <3>2, <3>4 DEF Kept
  <2>3. CASE proc' = [proc EXCEPT ![q].sp = prio] /\ q \notin Procs
    <3>1. proc' = proc
      BY <2>3 DEF IInv, TypeOK
    <3> QED BY <2>1, <3>1
  <2> QED BY <1>3, <2>1, <2>2, <2>3
<1>5. \A p \in Procs : proc[p].state = "USED" => proc'[p].state = "USED"
  BY <1>4 DEF Kept
<1> QED BY <1>1, <1>2, <1>4, <1>5, UnlockedStep

\* The marks that Disturb leaves.
LEMMA DisturbType ==
  ASSUME TypeOK, Disturb
  PROVE  scan' \in [CPUs -> [clean : BOOLEAN, rejected : SUBSET Procs]]
<1>1. ASSUME NEW d \in CPUs
      PROVE  [scan[d] EXCEPT !.clean = cpu[d].pc \notin {"scan", "look", "take"}]
               \in [clean : BOOLEAN, rejected : SUBSET Procs]
  BY DEF TypeOK
<1> QED BY <1>1 DEF Disturb

\* fork() takes a slot.
LEMMA ForkInv ==
  ASSUME IInv, NEW c \in CPUs, NEW q \in Procs, Fork(c, q) PROVE IInv'
<1> DEFINE r == [cpu[c] EXCEPT !.pc = "fork", !.i = q]
           x == [NewProc EXCEPT !.state = "USED", !.pid = nextpid, !.ctime = ticks]
<1>1. /\ cpu[c].pc = "run" /\ (c = 0 => clk.pc = "idle") /\ Free(q)
      /\ proc[q].state = "UNUSED" /\ nextpid' = nextpid + 1
      /\ proc' = [proc EXCEPT ![q] = x] /\ cpu' = [cpu EXCEPT ![c] = r]
      /\ UNCHANGED <<lock, ticks, clk>> /\ Disturb
  BY DEF Fork, At
<1>2. nextpid \in Int /\ ticks \in Int /\ nextpid' \in Int
  BY <1>1 DEF IInv, TypeOK
<1>3. x \in ProcRec /\ x.state = "USED"
  BY <1>2, NewProcRec DEF ProcRec, States
<1>4. cpu[c].proc \in Procs /\ cpu[c] \in CpuRec /\ cpu[c].pc \in InProcess
  BY <1>1, OwnProcess DEF InProcess
<1>5. r \in CpuRec /\ r.pc = "fork" /\ r.i = q /\ r.proc = cpu[c].proc
  BY <1>4, Consts DEF CpuRec, InProcess
<1>. HIDE DEF r, x
<1>6. CpuOK(r)
  BY <1>4, <1>5 DEF CpuOK
<1>7. /\ proc' \in [Procs -> ProcRec] /\ proc'[q] = x
      /\ \A p \in Procs : p # q => proc'[p] = proc[p] /\ Kept(p)
  BY <1>1, <1>3, OneSlot DEF IInv, TypeOK
<1>8. \A p \in Procs : ~HoldsAt(r, p) /\ ~HoldsAt(cpu[c], p)
  BY <1>1, <1>5 DEF HoldsAt
<1>9. lock' \in [Procs -> CPUs \cup {None}]
  BY <1>1 DEF IInv, TypeOK
<1>10. /\ cpu' \in [CPUs -> CpuRec]
       /\ PlaceOK' /\ LockOK' /\ ClkOK'
       /\ cpu'[c] = r /\ \A d \in CPUs : d # c => cpu'[d] = cpu[d]
  BY <1>1, <1>5, <1>6, <1>8, <1>9, CpuFrame DEF IInv
<1>11. TypeOK'
  BY <1>1, <1>2, <1>7, <1>9, <1>10, DisturbType DEF IInv, TypeOK
<1>12. RunOK'
  <2>1. Class(cpu'[c].pc) = Class(cpu[c].pc)
    BY <1>1, <1>5, <1>10 DEF Class, InProcess
  <2>2. \A p \in Procs :
           \/ proc'[p].state = proc[p].state
           \/ Free(p) /\ proc[p].state # "RUNNING" /\ proc'[p].state # "RUNNING"
    BY <1>1, <1>3, <1>7
  <2> QED BY <1>5, <1>10, <2>1, <2>2, RunFrame DEF IInv
<1>13. ForkOK'
  <2>1. \A d \in CPUs : d # c /\ cpu[d].pc = "fork" => cpu[d].i \in Procs /\ cpu[d].i # q
    BY <1>1 DEF IInv, PlaceOK, CpuOK, ForkOK
  <2>2. ASSUME NEW d \in CPUs, cpu'[d].pc = "fork" PROVE proc'[cpu'[d].i].state = "USED"
    <3>1. CASE d = c
      BY <1>3, <1>5, <1>7, <1>10, <3>1
    <3>2. CASE d # c
      BY <1>7, <1>10, <2>1, <2>2, <3>2 DEF IInv, ForkOK
    <3> QED BY <3>1, <3>2
  <2>3. ASSUME NEW d \in CPUs, NEW e \in CPUs, cpu'[d].pc = "fork", cpu'[e].pc = "fork",
               cpu'[d].i = cpu'[e].i
        PROVE  d = e
    BY <1>5, <1>10, <2>1, <2>3 DEF IInv, ForkOK
  <2> QED BY <2>2, <2>3 DEF ForkOK
<1>14. WalkOK'
  <2> SUFFICES ASSUME NEW d \in CPUs PROVE WalkAt(d)'
    BY DEF WalkOK
  <2>1. \/ cpu'[d] = cpu[d]
        \/ cpu[d].pc \notin Walking /\ cpu'[d].pc \notin Walking
    BY <1>1, <1>5, <1>10 DEF Walking
  <2>2. \A p \in Procs : proc'[p].state = proc[p].state \/ Free(p)
    BY <1>1, <1>7
  <2> QED BY <1>1, <2>1, <2>2, WalkDisturbed DEF IInv
<1> QED BY <1>10, <1>11, <1>12, <1>13, <1>14 DEF IInv

\* fork() makes the child RUNNABLE.
LEMMA ForkDoneInv ==
  ASSUME IInv, NEW c \in CPUs, ForkDone(c) PROVE IInv'
<1> DEFINE q == cpu[c].i
           r == [cpu[c] EXCEPT !.pc = "run", !.i = 0]
           x == [proc[q] EXCEPT !.state = "RUNNABLE"]
<1>1. /\ cpu[c].pc = "fork" /\ (c = 0 => clk.pc = "idle") /\ Free(q)
      /\ proc' = [proc EXCEPT ![q] = x] /\ cpu' = [cpu EXCEPT ![c] = r]
      /\ UNCHANGED <<lock, ticks, nextpid, clk, scan>>
  BY DEF ForkDone, At
<1>2. q \in Procs /\ proc[q] \in ProcRec /\ proc[q].state = "USED"
  BY <1>1 DEF IInv, TypeOK, PlaceOK, CpuOK, ForkOK
<1>3. /\ x \in ProcRec /\ x.state = "RUNNABLE" /\ x.dp = proc[q].dp
      /\ x.num_sch = proc[q].num_sch /\ x.ctime = proc[q].ctime
  BY <1>2 DEF ProcRec, States
<1>4. cpu[c] \in CpuRec /\ cpu[c].pc \in InProcess
  BY <1>1, OwnProcess DEF InProcess
<1>5. r \in CpuRec /\ r.pc = "run" /\ r.proc = cpu[c].proc
  <2>1. PICK pc \in InProcess, k \in Int : pc = "run" /\ k = 0
    BY DEF InProcess
  <2>2. PICK y \in CpuRec : y = cpu[c]
    BY <1>4
  <2>3. r = [y EXCEPT !.pc = pc, !.i = k]
    BY <2>1, <2>2
  <2>. HIDE DEF r, x
  <2>4. r \in CpuRec /\ r.pc = pc /\ r.proc = y.proc
    <3>1. pc \in InProcess /\ k \in Int
      BY <2>1
    <3> QED BY <2>2, <2>3, <3>1 DEF CpuRec
  <2> QED BY <2>1, <2>2, <2>4
<1>. HIDE DEF r, x
<1>6. /\ proc' \in [Procs -> ProcRec] /\ proc'[q] = x
      /\ \A p \in Procs : p # q => proc'[p] = proc[p] /\ Kept(p)
  BY <1>1, <1>2, <1>3, OneSlot DEF IInv, TypeOK
<1>7. cpu'[c] = r /\ \A d \in CPUs : d # c => cpu'[d] = cpu[d]
  BY <1>1 DEF IInv, TypeOK
<1>8. ForkOK'
  <2>1. \A d \in CPUs : cpu'[d].pc = "fork" => /\ d # c /\ cpu'[d] = cpu[d]
                                               /\ cpu[d].i \in Procs /\ cpu[d].i # q
    BY <1>1, <1>5, <1>7 DEF IInv, PlaceOK, CpuOK, ForkOK
  <2> QED BY <1>6, <2>1 DEF IInv, ForkOK
<1>9. proc[q].num_sch \in Int
  BY <1>2, ProcRecFields
<1>10. Worse(q)
  BY <1>2, <1>3, <1>6, <1>9 DEF Worse
<1>11. \A p \in Procs :
        Kept(p) \/ /\ Free(p) /\ Worse(p)
                   /\ proc[p].state # "RUNNING" /\ proc'[p].state # "RUNNING"
  BY <1>1, <1>2, <1>3, <1>6, <1>10
<1>12. \A p \in Procs : ~HoldsAt(r, p) /\ ~HoldsAt(cpu[c], p)
  BY <1>1, <1>5 DEF HoldsAt
<1>13. lock' \in [Procs -> CPUs \cup {None}]
  BY <1>1 DEF IInv, TypeOK
<1> QED BY <1>1, <1>4, <1>5, <1>6, <1>8, <1>11, <1>12, <1>13, ProcessStep DEF InProcess

-----------------------------------------------------------------------------
(* clockintr() *)

ClkRec ==
  [pc : {"idle", "update", "read", "write", "wakeup", "end"}, i : Int,
   rntime : Nat, stime : Nat]

\* A step of clockintr() that leaves the CPUs alone.
LEMMA ClockFrame ==
  ASSUME IInv, UNCHANGED <<cpu, lock, nextpid, scan>>, ticks' \in Int,
         clk' \in ClkRec, clk'.i \in Procs, clk'.pc # "idle" => clk.pc # "idle" \/ Interruptible,
         proc' \in [Procs -> ProcRec],
         \A p \in Procs :
           Kept(p) \/ (Free(p) /\ Worse(p) /\ proc[p].state = "SLEEPING" /\ proc'[p].state = "RUNNABLE")
  PROVE  IInv'
<1>1. TypeOK'
  BY DEF IInv, TypeOK, ClkRec
<1>2. PlaceOK' /\ LockOK'
  BY DEF IInv, PlaceOK, CpuOK, LockOK, HoldsAt
<1>3. ClkOK'
  BY DEF IInv, ClkOK, Interruptible
<1>4. RunOK'
  <2>1. \A p \in Procs :
           \/ proc'[p].state = proc[p].state
           \/ Free(p) /\ proc[p].state # "RUNNING" /\ proc'[p].state # "RUNNING"
    BY DEF Kept
  <2>2. 0 \in CPUs
    BY Consts
  <2> QED BY <2>1, <2>2, RunFrame DEF IInv
<1>5. ForkOK'
  <2>1. \A p \in Procs : proc[p].state = "USED" => proc'[p].state = "USED"
    BY DEF Kept
  <2>2. \A d \in CPUs : cpu[d].pc = "fork" => cpu[d].i \in Procs
    BY DEF IInv, PlaceOK, CpuOK
  <2> QED BY <2>1, <2>2 DEF IInv, ForkOK
<1>6. WalkOK'
  <2> SUFFICES ASSUME NEW d \in CPUs PROVE WalkAt(d)'
    BY DEF WalkOK
  <2>1. \A p \in Procs : Kept(p) \/ (lock[p] # d /\ Worse(p))
    BY Consts DEF Free
  <2> QED BY <2>1, WalkFrame DEF IInv, WalkOK
<1> QED BY <1>1, <1>2, <1>3, <1>4, <1>5, <1>6 DEF IInv

\* clockintr() starts.
LEMMA ClockStartInv ==
  ASSUME IInv, ClockStart PROVE IInv'
<1>1. /\ UNCHANGED <<proc, cpu, lock, nextpid, scan>> /\ Interruptible
      /\ ticks' = ticks + 1 /\ clk' = [IdleClk EXCEPT !.pc = "update"]
  BY DEF ClockStart
<1>2. clk' \in ClkRec /\ clk'.i = 0
  BY <1>1 DEF IdleClk, ClkRec
<1>3. ticks' \in Int /\ proc' \in [Procs -> ProcRec] /\ \A p \in Procs : Kept(p)
  BY <1>1 DEF IInv, TypeOK, Kept
<1> QED BY <1>1, <1>2, <1>3, Consts, ClockFrame

\* The loops of clockintr() stay within the table.
LEMMA ClkStepFacts ==
  ASSUME IInv, NEW next \in {"read", "wakeup", "end"}, ClkStep(next), clk.pc # "idle"
  PROVE  clk' \in ClkRec /\ clk'.i \in Procs /\ clk'.pc # "idle"
<1>1. clk \in ClkRec /\ clk.i \in Procs
  BY DEF IInv, TypeOK, ClkOK, ClkRec
<1>2. CASE clk.i + 1 < NPROC
  <2>1. clk' = [clk EXCEPT !.i = @ + 1]
    BY <1>2 DEF ClkStep
  <2>2. clk.i + 1 \in Procs /\ clk.i + 1 \in Int
    BY <1>1, <1>2, NextIndex
  <2> QED BY <1>1, <2>1, <2>2 DEF ClkRec
<1>3. CASE ~(clk.i + 1 < NPROC)
  <2>1. clk' = [IdleClk EXCEPT !.pc = next]
    BY <1>3 DEF ClkStep
  <2>2. clk' \in ClkRec /\ clk'.i = 0 /\ clk'.pc = next
    BY <2>1 DEF IdleClk, ClkRec
  <2> QED BY <2>2, Consts
<1> QED BY <1>2, <1>3

\* update_time() counts time and changes nothing that scheduler() compares.
LEMMA CountedFacts ==
  ASSUME NEW y \in ProcRec
  PROVE  /\ Counted(y) \in ProcRec
         /\ Counted(y).state = y.state /\ Counted(y).dp = y.dp
         /\ Counted(y).num_sch = y.num_sch /\ Counted(y).ctime = y.ctime
<1>1. CASE y.state = "RUNNING"
  <2>1. y.rntime + 1 \in Nat /\ y.rtime + 1 \in Int
    BY DEF ProcRec
  <2>2. PICK a \in Nat, b \in Int : a = y.rntime + 1 /\ b = y.rtime + 1
    BY <2>1
  <2>3. Counted(y) = [y EXCEPT !.rntime = a, !.rtime = b]
    BY <1>1, <2>2 DEF Counted
  <2> QED BY <2>3 DEF ProcRec
<1>2. CASE y.state = "SLEEPING"
  <2>1. Counted(y) = [y EXCEPT !.stime = @ + 1]
    BY <1>2 DEF Counted
  <2> QED BY <2>1 DEF ProcRec
<1>3. CASE y.state = "RUNNABLE"
  <2>1. Counted(y) = [y EXCEPT !.wtime = @ + 1]
    BY <1>3 DEF Counted
  <2> QED BY <2>1 DEF ProcRec
<1>4. CASE y.state \notin {"RUNNING", "SLEEPING", "RUNNABLE"}
  <2>1. Counted(y) = y
    BY <1>4 DEF Counted
  <2> QED BY <2>1
<1> QED BY <1>1, <1>2, <1>3, <1>4

\* update_time(), one slot.
LEMMA UpdateTimeInv ==
  ASSUME IInv, UpdateTime PROVE IInv'
<1> DEFINE i == clk.i
<1>1. /\ UNCHANGED <<cpu, lock, ticks, nextpid, scan>> /\ ClkStep("read") /\ clk.pc = "update"
      /\ proc' = [proc EXCEPT ![i] = Counted(proc[i])]
  BY DEF UpdateTime
<1>2. clk' \in ClkRec /\ clk'.i \in Procs
  BY <1>1, ClkStepFacts
<1>3. i \in Procs /\ proc[i] \in ProcRec
  BY DEF IInv, TypeOK, ClkOK
<1>4. /\ Counted(proc[i]) \in ProcRec
      /\ Counted(proc[i]).state = proc[i].state /\ Counted(proc[i]).dp = proc[i].dp
      /\ Counted(proc[i]).num_sch = proc[i].num_sch /\ Counted(proc[i]).ctime = proc[i].ctime
  BY <1>3, CountedFacts
<1>5. /\ proc' \in [Procs -> ProcRec] /\ proc'[i] = Counted(proc[i])
      /\ \A q \in Procs : q # i => Kept(q)
  BY <1>1, <1>3, <1>4, OneSlot DEF IInv, TypeOK
<1>6. \A p \in Procs : Kept(p)
  BY <1>4, <1>5 DEF Kept
<1>7. ticks' \in Int
  BY <1>1 DEF IInv, TypeOK
<1> QED BY <1>1, <1>2, <1>5, <1>6, <1>7, ClockFrame

\* The unlocked loop reads the times of a slot.
LEMMA ClockReadInv ==
  ASSUME IInv, ClockRead PROVE IInv'
<1> DEFINE i == clk.i
<1>1. UNCHANGED <<proc, cpu, lock, ticks, nextpid, scan>> /\ clk.pc = "read"
  BY DEF ClockRead
<1>2. i \in Procs /\ proc[i] \in ProcRec /\ clk \in ClkRec
  BY DEF IInv, TypeOK, ClkOK, ClkRec
<1>3. clk' \in ClkRec /\ clk'.i \in Procs
  <2>1. CASE proc[i].state = "UNUSED"
    BY <1>1, <2>1, ClkStepFacts DEF ClockRead
  <2>2. CASE proc[i].state # "UNUSED"
    <3>1. clk' = [clk EXCEPT !.pc = "write", !.rntime = proc[i].rntime, !.stime = proc[i].stime]
      BY <2>2 DEF ClockRead
    <3>2. proc[i].rntime \in Nat /\ proc[i].stime \in Nat
      BY <1>2, ProcRecFields
    <3> QED BY <1>2, <3>1, <3>2 DEF ClkRec
  <2> QED BY <2>1, <2>2
<1>4. ticks' \in Int /\ proc' \in [Procs -> ProcRec] /\ \A p \in Procs : Kept(p)
  BY <1>1 DEF IInv, TypeOK, Kept
<1> QED BY <1>1, <1>3, <1>4, ClockFrame

\* The new rbi and dp are integers.
LEMMA RbiType ==
  ASSUME NEW rn \in Nat, NEW s \in Nat, NEW w \in Nat
  PROVE  Rbi(rn, s, w) \in Int
<1> DEFINE den == rn + s + w + 1
           num == (3 * rn - s - w) * 50
<1>1. den \in Int /\ den > 0 /\ num \in Int
  OBVIOUS
<1>. HIDE DEF den, num
<1>2. TruncDiv(num, den) \in Int
  <2>1. num \div den \in Int /\ (-num) \div den \in Int
    BY <1>1
  <2> QED BY <2>1 DEF TruncDiv
<1>3. TruncDiv((3 * rn - s - w) * 50, rn + s + w + 1) = TruncDiv(num, den)
  BY DEF num, den
<1> QED BY <1>2, <1>3 DEF Rbi, PBS_DEF_RBI

\* clockintr() writes rbi and dp, without the lock of the process.
LEMMA ClockWriteInv ==
  ASSUME IInv, ClockWrite PROVE IInv'
<1> DEFINE i == clk.i
<1>1. UNCHANGED <<cpu, lock, ticks, nextpid>> /\ Disturb /\ clk.pc = "write"
  BY DEF ClockWrite
<1>2. /\ i \in Procs /\ proc[i] \in ProcRec /\ clk.rntime \in Nat /\ clk.stime \in Nat
  BY DEF IInv, TypeOK, ClkOK
<1>3. clk' \in ClkRec /\ clk'.i \in Procs
  <2>1. CASE i + 1 < NPROC
    <3>1. clk' = [IdleClk EXCEPT !.pc = "read", !.i = i + 1]
      BY <2>1 DEF ClockWrite
    <3>2. i + 1 \in Procs /\ i + 1 \in Int
      BY <1>2, <2>1, NextIndex
    <3> QED BY <3>1, <3>2 DEF IdleClk, ClkRec
  <2>2. CASE ~(i + 1 < NPROC)
    <3>1. clk' = [IdleClk EXCEPT !.pc = "wakeup"]
      BY <2>2 DEF ClockWrite
    <3>2. clk' \in ClkRec /\ clk'.i = 0
      BY <3>1 DEF IdleClk, ClkRec
    <3> QED BY <3>2, Consts
  <2> QED BY <2>1, <2>2
<1>4. proc' \in [Procs -> ProcRec] /\ \A p \in Procs : proc'[p].state = proc[p].state
  <2>1. PICK rn \in {clk.rntime, proc[i].rntime}, s \in {clk.stime, proc[i].stime} :
          LET rbi == Rbi(rn, s, proc[i].wtime) IN
          proc' = [proc EXCEPT ![i].rbi = rbi, ![i].dp = Dp(proc[i].sp, rbi)]
    BY DEF ClockWrite
  <2>2. PICK rbi : rbi = Rbi(rn, s, proc[i].wtime)
    OBVIOUS
  <2>3. rn \in Nat /\ s \in Nat /\ proc[i].wtime \in Nat /\ proc[i].sp \in Int
    BY <1>2, <2>1, ProcRecFields
  <2>4. rbi \in Int
    BY <2>2, <2>3, RbiType
  <2>5. Dp(proc[i].sp, rbi) \in Int
    BY <2>3, <2>4 DEF Dp
  <2>6. PICK dp \in Int : dp = Dp(proc[i].sp, rbi)
    BY <2>5
  <2> DEFINE x == [proc[i] EXCEPT !.rbi = rbi, !.dp = dp]
  <2>7. proc' = [proc EXCEPT ![i].rbi = rbi, ![i].dp = dp]
    BY <2>1, <2>2, <2>6
  <2>8. proc' = [proc EXCEPT ![i] = x]
    BY <2>7
  <2>9. x \in ProcRec /\ x.state = proc[i].state
    BY <1>2, <2>4 DEF ProcRec
  <2>. HIDE DEF x
  <2>10. proc' \in [Procs -> ProcRec] /\ proc'[i] = x /\ \A p \in Procs : p # i => Kept(p)
    BY <1>2, <2>8, <2>9, OneSlot DEF IInv, TypeOK
  <2> QED BY <2>9, <2>10 DEF Kept
<1>5. TypeOK'
  BY <1>1, <1>3, <1>4, DisturbType DEF IInv, TypeOK, ClkRec
<1>6. PlaceOK' /\ LockOK'
  BY <1>1 DEF IInv, PlaceOK, CpuOK, LockOK, HoldsAt
<1>7. ClkOK'
  BY <1>1, <1>3 DEF IInv, ClkOK
<1>8. RunOK'
  <2>1. 0 \in CPUs
    BY Consts
  <2> QED BY <1>1, <1>4, <2>1, RunFrame DEF IInv
<1>9. ForkOK'
  <2>1. \A d \in CPUs : cpu[d].pc = "fork" => cpu[d].i \in Procs
    BY DEF IInv, PlaceOK, CpuOK
  <2> QED BY <1>1, <1>4, <2>1 DEF IInv, ForkOK
<1>10. WalkOK'
  <2> SUFFICES ASSUME NEW d \in CPUs PROVE WalkAt(d)'
    BY DEF WalkOK
  <2> QED BY <1>1, <1>4, WalkDisturbed DEF IInv
<1> QED BY <1>5, <1>6, <1>7, <1>8, <1>9, <1>10 DEF IInv

\* clockintr() wakes who sleeps for the clock, one slot.
LEMMA ClockWakeupInv ==
  ASSUME IInv, ClockWakeup PROVE IInv'
<1> DEFINE i == clk.i
<1>1. /\ UNCHANGED <<cpu, lock, ticks, nextpid, scan>> /\ ClkStep("end") /\ clk.pc = "wakeup"
      /\ proc' = proc \/ (Free(i) /\ proc' = Woken(i, "ticks"))
  BY DEF ClockWakeup
<1>2. clk' \in ClkRec /\ clk'.i \in Procs
  BY <1>1, ClkStepFacts
<1>3. i \in Procs /\ ticks' \in Int
  BY <1>1 DEF IInv, ClkOK, TypeOK
<1>4. CASE proc' = proc
  <2>1. proc' \in [Procs -> ProcRec] /\ \A p \in Procs : Kept(p)
    BY <1>4 DEF IInv, TypeOK, Kept
  <2> QED BY <1>1, <1>2, <1>3, <2>1, ClockFrame
<1>5. CASE Free(i) /\ proc' = Woken(i, "ticks")
  <2>1. /\ proc' \in [Procs -> ProcRec]
        /\ \A p \in Procs : p # i => Kept(p)
        /\ Kept(i) \/ /\ Worse(i) /\ proc[i].state = "SLEEPING"
                      /\ proc'[i].state = "RUNNABLE"
    BY <1>3, <1>5, WokenFacts DEF IInv, TypeOK
  <2>2. \A p \in Procs :
          Kept(p) \/ (Free(p) /\ Worse(p) /\ proc[p].state = "SLEEPING" /\ proc'[p].state = "RUNNABLE")
    BY <1>5, <2>1
  <2> QED BY <1>1, <1>2, <1>3, <2>1, <2>2, ClockFrame
<1> QED BY <1>1, <1>4, <1>5

\* clockintr() ends, and the process it interrupted yields.
LEMMA ClockEndInv ==
  ASSUME IInv, ClockEnd PROVE IInv'
<1>1. /\ UNCHANGED <<proc, lock, ticks, nextpid, scan>> /\ clk.pc = "end" /\ clk' = IdleClk
      /\ IF cpu[0].pc = "run" THEN cpu' = [cpu EXCEPT ![0].pc = "yield"] ELSE cpu' = cpu
  BY DEF ClockEnd, Goto
<1>2. clk' \in ClkRec /\ clk'.i = 0 /\ clk'.pc = "idle"
  BY <1>1 DEF IdleClk, ClkRec
<1>3. 0 \in CPUs /\ 0 \in Procs
  BY Consts
<1>4. cpu[0] \in CpuRec /\ CpuOK(cpu[0])
  BY <1>3 DEF IInv, TypeOK, PlaceOK
<1>5. /\ cpu' \in [CPUs -> CpuRec] /\ \A d \in CPUs : d # 0 => cpu'[d] = cpu[d]
      /\ cpu'[0] = cpu[0] \/ (cpu[0].pc = "run" /\ cpu'[0] = [cpu[0] EXCEPT !.pc = "yield"])
  <2>1. CASE cpu[0].pc = "run"
    <3> DEFINE r == [cpu[0] EXCEPT !.pc = "yield"]
    <3>1. r \in CpuRec
      BY <1>4 DEF CpuRec, InProcess
    <3>2. cpu' = [cpu EXCEPT ![0] = r]
      BY <1>1, <2>1
    <3>. HIDE DEF r
    <3>3. cpu' \in [CPUs -> CpuRec] /\ cpu'[0] = r /\ \A d \in CPUs : d # 0 => cpu'[d] = cpu[d]
      BY <1>3, <3>1, <3>2 DEF IInv, TypeOK
    <3> QED BY <2>1, <3>3 DEF r
  <2>2. CASE cpu[0].pc # "run"
    BY <1>1, <2>2 DEF IInv, TypeOK
  <2> QED BY <2>1, <2>2
<1>6. \A d \in CPUs : /\ cpu'[d].proc = cpu[d].proc /\ cpu'[d].i = cpu[d].i
                      /\ cpu'[d].highest = cpu[d].highest /\ cpu'[d].min_dp = cpu[d].min_dp
                      /\ \/ cpu'[d].pc = cpu[d].pc
                         \/ cpu[d].pc = "run" /\ cpu'[d].pc = "yield"
  BY <1>4, <1>5 DEF CpuRec
<1>7. TypeOK'
  BY <1>1, <1>2, <1>5 DEF IInv, TypeOK, ClkRec
<1>8. PlaceOK'
  BY <1>6 DEF IInv, PlaceOK, CpuOK, InProcess
<1>9. LockOK'
  BY <1>1, <1>6 DEF IInv, LockOK, HoldsAt
<1>10. ClkOK'
  BY <1>2, <1>3 DEF ClkOK
<1>11. RunOK'
  <2>1. Class(cpu'[0].pc) = Class(cpu[0].pc) /\ cpu'[0].proc = cpu[0].proc
    BY <1>3, <1>6 DEF Class, InProcess
  <2> QED BY <1>1, <1>3, <1>5, <2>1, RunFrame DEF IInv
<1>12. ForkOK'
  BY <1>1, <1>6 DEF IInv, ForkOK
<1>13. WalkOK'
  <2> SUFFICES ASSUME NEW d \in CPUs PROVE WalkAt(d)'
    BY DEF WalkOK
  <2>1. WalkAt(d)
    BY DEF IInv, WalkOK
  <2>2. CASE cpu'[d] = cpu[d]
    BY <1>1, <2>1, <2>2 DEF WalkAt, Precedes
  <2>3. CASE cpu'[d] # cpu[d]
    <3>1. cpu[d].pc = "run" /\ cpu'[d].pc = "yield"
      <4>1. d = 0 /\ cpu[0].pc = "run" /\ cpu'[0] = [cpu[0] EXCEPT !.pc = "yield"]
        BY <1>5, <2>3
      <4> QED BY <1>4, <4>1 DEF CpuRec
    <3> QED BY <1>1, <2>1, <3>1 DEF WalkAt, Walking
  <2> QED BY <2>2, <2>3
<1> QED BY <1>7, <1>8, <1>9, <1>10, <1>11, <1>12, <1>13 DEF IInv

-----------------------------------------------------------------------------
(* The theorems *)

\* The initial state: init is RUNNABLE and every CPU is in scheduler().
LEMMA InitInv == Init => IInv
<1> SUFFICES ASSUME Init PROVE IInv
  OBVIOUS
<1> USE DEF Init
<1>1. /\ NewCpu \in CpuRec /\ NewCpu.pc = "loop" /\ NewCpu.proc = None /\ NewCpu.highest = None
  BY Consts DEF NewCpu, CpuRec
<1>2. IdleClk \in ClkRec /\ IdleClk.pc = "idle" /\ IdleClk.i = 0
  BY DEF IdleClk, ClkRec
<1>3. NewScan.rejected = {} /\ NewScan \in [clean : BOOLEAN, rejected : SUBSET Procs]
  BY DEF NewScan
<1>4. \A c \in CPUs : cpu[c] = NewCpu /\ scan[c] = NewScan
  OBVIOUS
<1>5. proc \in [Procs -> ProcRec] /\ \A p \in Procs : proc[p].state \in {"UNUSED", "RUNNABLE"}
  <2> DEFINE x == [NewProc EXCEPT !.state = "RUNNABLE", !.pid = 1]
  <2>1. x \in ProcRec /\ x.state = "RUNNABLE"
    <3>1. PICK one \in Int : one = 1
      OBVIOUS
    <3>2. x = [NewProc EXCEPT !.state = "RUNNABLE", !.pid = one]
      BY <3>1
    <3>. HIDE DEF x, Init
    <3> QED BY <3>2, NewProcRec DEF ProcRec, States
  <2>2. proc = [p \in Procs |-> IF p = 0 THEN x ELSE NewProc]
    OBVIOUS
  <2>. HIDE DEF x, Init
  <2> QED BY <2>1, <2>2, NewProcRec
<1>6. TypeOK
  <2>1. scan \in [CPUs -> [clean : BOOLEAN, rejected : SUBSET Procs]] /\ cpu \in [CPUs -> CpuRec]
    BY <1>1, <1>3
  <2>2. clk \in ClkRec /\ lock \in [Procs -> CPUs \cup {None}] /\ ticks \in Int /\ nextpid \in Int
    BY <1>2
  <2>. HIDE DEF Init
  <2> QED BY <1>5, <2>1, <2>2 DEF TypeOK, ClkRec
<1>7. lock = [p \in Procs |-> None] /\ clk = IdleClk
  OBVIOUS
<1>. HIDE DEF Init
<1>8. PlaceOK
  BY <1>1, <1>4 DEF PlaceOK, CpuOK, InProcess
<1>9. LockOK
  BY <1>1, <1>4, <1>7, Consts DEF LockOK, HoldsAt
<1>10. RunOK
  BY <1>1, <1>4, <1>5 DEF RunOK, InProcess
<1>11. ForkOK
  BY <1>1, <1>4 DEF ForkOK
<1>12. ClkOK
  BY <1>2, <1>7, Consts DEF ClkOK
<1>13. WalkOK
  BY <1>1, <1>3, <1>4 DEF WalkOK, WalkAt, Walking
<1> QED BY <1>6, <1>8, <1>9, <1>10, <1>11, <1>12, <1>13 DEF IInv

\* Steps that change nothing.
LEMMA StutterInv ==
  ASSUME IInv, UNCHANGED vars PROVE IInv'
BY DEF IInv, vars, TypeOK, PlaceOK, CpuOK, LockOK, HoldsAt, RunOK, ForkOK, ClkOK,
   WalkOK, WalkAt, Precedes

\* Every step of the scheduler, of a process and of the clock keeps IInv.
LEMMA NextInv ==
  ASSUME IInv, [Next]_vars PROVE IInv'
<1>1. ASSUME NEW c \in CPUs, CpuStep(c) PROVE IInv'
  <2>1. Dispatch(c) => IInv'
    BY DispatchInv, DispatchNobodyInv
  <2> QED BY <1>1, <2>1, SchedStartInv, SchedAcquireInv, SchedSkipInv, SchedFirstInv, SchedKeepInv,
             SchedReplaceInv, SchedTakeInv, ResumeInv, SchedReturnInv, YieldInv, SleepInv,
             TicksAcquireInv, TicksReleaseInv, SleepTicksInv, ExitInv, ForkDoneInv DEF CpuStep
<1>2. ASSUME NEW c \in CPUs, NEW q \in Procs, Wakeup(c, q) \/ Wait(c, q) \/ Fork(c, q) PROVE IInv'
  BY <1>2, WakeupInv, WaitInv, ForkInv
<1>3. ASSUME NEW c \in CPUs, NEW pid \in Pids, NEW prio \in Priorities, set_priority(c, pid, prio)
      PROVE  IInv'
  BY <1>3, SetPriorityInv
<1>4. ASSUME ClockStep PROVE IInv'
  BY <1>4, ClockStartInv, UpdateTimeInv, ClockReadInv, ClockWriteInv, ClockWakeupInv,
     ClockEndInv
  DEF ClockStep
<1> QED BY <1>1, <1>2, <1>3, <1>4, StutterInv DEF Next

\* IInv is an invariant of the scheduler, whatever the number of CPUs, slots
\* and processes and whatever set_priority() is called with.
THEOREM Invariance == Spec => []IInv
BY InitInv, NextInv, PTL DEF Spec

\* IInv keeps a process from being on two CPUs.
LEMMA IInvOneCpu ==
  ASSUME IInv PROVE OneCpuPerProcess
<1>1. ASSUME NEW c \in CPUs, NEW d \in CPUs, cpu[c].proc # None, cpu[c].proc = cpu[d].proc
      PROVE  c = d
  <2>1. cpu[c].pc \in InProcess \cup {"swtch"}
    BY <1>1 DEF IInv, TypeOK, CpuRec, PlaceOK, CpuOK, Walking
  <2> QED BY <1>1, <2>1 DEF IInv, RunOK
<1>2. \A p \in Procs : proc[p].state = "RUNNING" => \E c \in CPUs : cpu[c].proc = p
  BY DEF IInv, RunOK
<1> QED BY <1>1, <1>2 DEF OneCpuPerProcess

\* No process is on two CPUs, and what is RUNNING is on one: scheduler(),
\* yield(), sleep() and exit() hold p->lock across swtch().
THEOREM OneCpu == Spec => []OneCpuPerProcess
BY Invariance, IInvOneCpu, PTL

\* IInv makes the walk's choice the best of what it compared.
LEMMA IInvBest ==
  ASSUME IInv PROVE ChoosesBest
<1> SUFFICES ASSUME NEW c \in CPUs, cpu[c].pc = "scan", cpu[c].highest # None, scan[c].clean,
                    NEW q \in scan[c].rejected, proc[q].state = "RUNNABLE"
             PROVE  ~Precedes(q, cpu[c].highest)
  BY DEF ChoosesBest
<1> QED BY DEF IInv, WalkOK, WalkAt, Walking

\* The walk of scheduler() ends with a process that none of the RUNNABLE
\* processes it turned down precedes, although it has given their locks back
\* and other CPUs have run them since.
THEOREM BestChosen == Spec => []ChoosesBest
BY Invariance, IInvBest, PTL

\* A nonempty set of numbers has a least element.
LEMMA Least ==
  ASSUME NEW T \in SUBSET Nat, T # {}
  PROVE  \E x \in T : \A y \in T : x <= y
<1> DEFINE R == {ss \in Nat \X Nat : ss[1] < ss[2]}
<1>1. IsWellFoundedOn(R, Nat)
  BY NatLessThanWellFounded, Zenon DEF OpToRel
<1>. HIDE DEF R
<1>2. \E x \in T : \A y \in T : ~(<<y, x>> \in R)
  BY <1>1, WFMin, Zenon
<1>3. \A x, y \in Nat : ~(<<y, x>> \in R) => x <= y
  BY DEF R
<1> QED BY <1>2, <1>3

\* A CPU that holds a lock while it waits for one is in scheduler(), and the
\* slot it waits for comes after the one it holds.
LEMMA WaitsUpward ==
  ASSUME IInv, NEW c \in CPUs, WaitsFor(c) \in CPUs,
         NEW d \in CPUs, d = WaitsFor(c), WaitsFor(d) \in CPUs
  PROVE  /\ cpu[d].pc = "scan" /\ cpu[d].highest \in Procs /\ cpu[d].i \in Procs
         /\ cpu[d].highest < cpu[d].i /\ WaitsFor(d) = lock[cpu[d].i]
         /\ lock[cpu[d].highest] = d
<1>1. ASSUME NEW e \in CPUs, WaitsFor(e) \in CPUs
      PROVE  \E p \in Procs : /\ WaitsFor(e) = lock[p]
                              /\ cpu[e].pc = "scan" /\ ~(e = 0 /\ clk.pc # "idle") => p = cpu[e].i
                              /\ \/ e = 0 /\ clk.pc # "idle"
                                 \/ cpu[e].pc \in {"scan", "sleep", "yield", "fork"}
  <2>1. CASE e = 0 /\ clk.pc \in {"update", "wakeup"}
    BY <2>1 DEF WaitsFor, IInv, ClkOK
  <2>2. CASE e = 0 /\ clk.pc # "idle" /\ clk.pc \notin {"update", "wakeup"}
    BY <1>1, <2>2, Consts DEF WaitsFor
  <2>3. CASE ~(e = 0 /\ clk.pc # "idle")
    <3>0. CpuOK(cpu[e])
      BY DEF IInv, PlaceOK
    <3>1. CASE cpu[e].pc = "scan" /\ cpu[e].i < NPROC
      <4>1. WaitsFor(e) = lock[cpu[e].i]
        BY <2>3, <3>1 DEF WaitsFor
      <4>2. cpu[e].i \in Procs
        BY <3>0, <3>1, SlotIndex DEF CpuOK
      <4> QED BY <3>1, <4>1, <4>2
    <3>2. CASE cpu[e].pc \in {"sleep", "yield"}
      <4>1. WaitsFor(e) = lock[cpu[e].proc]
        BY <2>3, <3>2 DEF WaitsFor
      <4>2. cpu[e].proc \in Procs
        BY <3>0, <3>2 DEF CpuOK, InProcess
      <4> QED BY <3>2, <4>1, <4>2
    <3>3. CASE cpu[e].pc = "fork"
      <4>1. WaitsFor(e) = lock[cpu[e].i]
        BY <2>3, <3>3 DEF WaitsFor
      <4>2. cpu[e].i \in Procs
        BY <3>0, <3>3 DEF CpuOK
      <4> QED BY <3>3, <4>1, <4>2
    <3>4. CASE ~(cpu[e].pc = "scan" /\ cpu[e].i < NPROC) /\ cpu[e].pc \notin {"sleep", "yield", "fork"}
      BY <1>1, <2>3, <3>4, Consts DEF WaitsFor
    <3> QED BY <3>1, <3>2, <3>3, <3>4
  <2> QED BY <2>1, <2>2, <2>3
<1>2. PICK p \in Procs : WaitsFor(c) = lock[p]
  BY <1>1
<1>3. HoldsAt(cpu[d], p) /\ lock[p] = d
  BY <1>2 DEF IInv, LockOK
<1>4. PICK q \in Procs : /\ WaitsFor(d) = lock[q]
                         /\ cpu[d].pc = "scan" /\ ~(d = 0 /\ clk.pc # "idle") => q = cpu[d].i
                         /\ \/ d = 0 /\ clk.pc # "idle"
                            \/ cpu[d].pc \in {"scan", "sleep", "yield", "fork"}
  BY <1>1
<1>5. ~(d = 0 /\ clk.pc # "idle")
  BY <1>3, Consts DEF IInv, ClkOK, HoldsAt
<1>6. cpu[d].pc = "scan" /\ p = cpu[d].highest
  BY <1>3, <1>4, <1>5 DEF HoldsAt
<1>7. q = cpu[d].i
  BY <1>4, <1>5, <1>6
<1>8. CpuOK(cpu[d])
  BY DEF IInv, PlaceOK
<1>9. cpu[d].highest < cpu[d].i
  BY <1>6, <1>8, Consts DEF CpuOK
<1> QED BY <1>3, <1>4, <1>6, <1>7, <1>9

\* IInv rules out a circle: along it, the slots would go up for ever.
LEMMA IInvNoCycle ==
  ASSUME IInv PROVE NoLockCycle
<1> SUFFICES ASSUME NEW S \in SUBSET CPUs, NEW c0 \in S, \A c \in S : WaitsFor(c) \in S
             PROVE  FALSE
  BY DEF NoLockCycle
<1> DEFINE Held == {h \in Procs : \E c \in S : cpu[WaitsFor(c)].highest = h}
           T == {NPROC - h : h \in Held}
<1>1. ASSUME NEW c \in S
      PROVE  /\ cpu[WaitsFor(c)].pc = "scan" /\ cpu[WaitsFor(c)].highest \in Procs
             /\ cpu[WaitsFor(c)].i \in Procs
             /\ cpu[WaitsFor(c)].highest < cpu[WaitsFor(c)].i
             /\ WaitsFor(WaitsFor(c)) = lock[cpu[WaitsFor(c)].i]
  <2>1. PICK d \in S : d = WaitsFor(c)
    OBVIOUS
  <2>2. d \in CPUs /\ c \in CPUs /\ WaitsFor(d) \in CPUs
    BY <2>1
  <2> QED BY <2>1, <2>2, WaitsUpward
<1>2. cpu[WaitsFor(c0)].highest \in Held
  BY <1>1
<1>3. T \in SUBSET Nat /\ T # {}
  BY <1>2, PbsAssumption DEF Procs
<1>4. PICK x \in T : \A y \in T : x <= y
  BY <1>3, Least
<1>5. PICK h \in Held : x = NPROC - h
  BY <1>4
<1>6. \A k \in Held : NPROC - h <= NPROC - k
  BY <1>4, <1>5
<1>7. PICK c \in S : cpu[WaitsFor(c)].highest = h
  BY <1>5
<1>8. PICK d \in S : d = WaitsFor(c)
  OBVIOUS
<1>9. PICK e \in S : e = WaitsFor(d)
  OBVIOUS
<1>10. cpu[d].i \in Procs /\ h < cpu[d].i /\ lock[cpu[d].i] = e
  BY <1>1, <1>7, <1>8, <1>9
<1>11. cpu[e].pc = "scan" /\ HoldsAt(cpu[e], cpu[d].i)
  BY <1>1, <1>8, <1>9, <1>10 DEF IInv, LockOK
<1>12. cpu[e].highest = cpu[d].i
  BY <1>11 DEF HoldsAt
<1>13. cpu[d].i \in Held
  BY <1>9, <1>10, <1>12
<1>14. NPROC - h <= NPROC - cpu[d].i
  BY <1>6, <1>13
<1>15. h \in Int /\ cpu[d].i \in Int /\ NPROC \in Int
  <2>1. h \in Procs
    BY <1>5
  <2>2. NPROC \in Int
    BY PbsAssumption
  <2>. HIDE DEF Held, T
  <2> QED BY <1>10, <2>1, <2>2, Consts
<1>. HIDE DEF Held, T
<1> QED BY <1>10, <1>14, <1>15

\* The process locks are never waited for in a circle, for any number of CPUs
\* in scheduler(), fork(), yield(), sleep() and clockintr() at a time.
THEOREM NoDeadlock == Spec => []NoLockCycle
BY Invariance, IInvNoCycle, PTL

=============================================================================
