------------------------------ MODULE LogProofs ------------------------------
(***************************************************************************)
(* Proofs about Log, for every disk, every number of processes and every   *)
(* size of the log: blocks of the transaction stay pinned, operations are  *)
(* atomic with respect to crashes (Log implements AtomicDisk), and, under  *)
(* what param.h and mkfs.c guarantee of the sizes, log_write() never       *)
(* panics.                                                                 *)
(*                                                                         *)
(* The invariant says, for every place of commit() and recover_from_log(), *)
(* what is in log.lh, in the header on the disk, in the log and in the     *)
(* buffer cache.                                                           *)
(***************************************************************************)
EXTENDS Log, FiniteSetTheorems, TLAPS

Committing == {"write_log", "write_head", "install", "clear", "done"}
Recovery == {"read_head", "r_install", "r_clear"}
Places == {"idle"} \cup Committing \cup Recovery

TypeOK ==
  /\ disk \in [Blocks -> Vals]
  /\ logblk \in [1 .. LogBlocks -> Vals]
  /\ head \in Seq(Blocks)
  /\ cache \in [Blocks -> Vals \cup {NoBuf}]
  /\ pins \in [Blocks -> Nat]
  /\ lh \in Seq(Blocks)
  /\ outstanding \in Nat
  /\ committing \in BOOLEAN
  /\ op \in [Ops -> {"idle", "sleeping", "woken", "active", "commit"}]
  /\ wrote \in [Ops -> SUBSET Blocks]
  /\ pc \in Places
  /\ tail \in Nat \ {0}

\* No block is in the transaction twice, and all of it fits the log.
Proper(s) == /\ Len(s) <= LogBlocks
             /\ \A i, j \in 1 .. Len(s) : s[i] = s[j] => i = j

\* The transaction in memory and on the disk, at every place of commit() and
\* of recovery.
PhaseOK ==
  /\ committing <=> pc \in Committing
  /\ pc # "idle" => outstanding = 0
  /\ pc \in {"done", "read_head"} => lh = <<>>
  /\ pc = "idle" /\ outstanding = 0 => lh = <<>>
  /\ pc \in {"write_log", "write_head", "install", "r_install"} => tail <= Len(lh)
  /\ pc \in {"write_head", "read_head"} => tail = 1
  /\ pc \in {"install", "clear", "r_install", "r_clear"} => head = lh
  /\ pc \in {"idle", "write_log", "write_head", "done"} => head = <<>>
  /\ Proper(lh) /\ Proper(head)

Active == {o \in Ops : op[o] = "active"}

ActiveOK ==
  /\ IsFiniteSet(Active) /\ Cardinality(Active) = outstanding
  /\ \A o \in Ops : op[o] # "active" => wrote[o] = {}

\* The i-th block of the transaction has not been installed yet.
Pending(i) ==
  /\ pc \notin Recovery \cup {"clear"}
  /\ pc = "install" => i >= tail

\* The buffers that hold what the disk does not have.
Dirty == {lh[i] : i \in {j \in 1 .. Len(lh) : Pending(j)}}

CacheOK ==
  \A b \in Blocks :
    /\ b \in Dirty => pins[b] = 1 /\ cache[b] # NoBuf
    /\ b \notin Dirty => pins[b] = 0 /\ cache[b] \in {NoBuf, disk[b]}

\* The blocks of the log that have been written, and those that have been
\* installed.
Copied(i) == \/ pc = "write_log" /\ i < tail
             \/ pc = "write_head"
             \/ pc = "install" /\ i >= tail
Installed(i) == \/ pc \in {"install", "r_install"} /\ i < tail
                \/ pc \in {"clear", "r_clear"}

LogOK ==
  \A i \in 1 .. Len(lh) :
    /\ Copied(i) => logblk[i] = cache[lh[i]]
    /\ Installed(i) => logblk[i] = disk[lh[i]]

IInv == TypeOK /\ PhaseOK /\ ActiveOK /\ CacheOK /\ LogOK

\* The room that begin_op() has reserved and the operations have not used.
Room == {e \in Active \X (1 .. MAXOPBLOCKS) : e[2] > Cardinality(wrote[e[1]])}

\* The log has room for what the operations may still write.  An operation
\* that is alone has the log to itself, or another one has ended and left
\* some of its room.
SpaceOK ==
  /\ \A o \in Active : /\ IsFiniteSet(wrote[o]) /\ Cardinality(wrote[o]) <= OpBlocks
                       /\ \A b \in wrote[o] : \E i \in 1 .. Len(lh) : lh[i] = b
  /\ outstanding >= 1 => Len(lh) + Cardinality(Room) <= LOGSIZE
  /\ outstanding = 1 =>
       \/ \E o \in Active : Len(lh) <= Cardinality(wrote[o])
       \/ Len(lh) + Cardinality(Room) < LOGSIZE

\* What the sizes are in param.h and mkfs.c (LOGSIZE = 3 * MAXOPBLOCKS blocks of
\* log, the header among them), and what log_write() asks of its callers.
Sizes ==
  /\ OpBlocks < MAXOPBLOCKS
  /\ 2 * MAXOPBLOCKS <= LOGSIZE
  /\ LOGSIZE <= LogBlocks + 1

-----------------------------------------------------------------------------
(* The steps.                                                              *)

\* A change of op that neither starts nor ends an operation.
LEMMA SameActive ==
  ASSUME ActiveOK, outstanding' = outstanding, wrote' = wrote,
         \A o \in Ops : op'[o] = "active" <=> op[o] = "active"
  PROVE  ActiveOK' /\ Active' = Active
<1>1. Active' = Active
  BY DEF Active
<1> QED
  BY <1>1 DEF ActiveOK

\* What a step that leaves the transaction and the buffers alone keeps.
LEMMA SameBlocks ==
  ASSUME CacheOK, LogOK, lh' = lh, cache' = cache, pins' = pins, disk' = disk,
         logblk' = logblk,
         \/ pc' = pc /\ tail' = tail
         \/ lh = <<>> /\ {pc, pc'} \subseteq {"idle", "done", "read_head", "r_clear"}
         \/ pc = "idle" /\ pc' = "write_log" /\ tail' = 1
  PROVE  CacheOK' /\ LogOK'
<1>1. \A i \in 1 .. Len(lh) : (Pending(i)' <=> Pending(i)) /\ (Installed(i)' <=> Installed(i))
  BY DEF Pending, Installed, Recovery
<1>2. Dirty' = Dirty
  BY <1>1 DEF Dirty
<1>3. CacheOK'
  BY <1>2 DEF CacheOK
<1>4. \A i \in 1 .. Len(lh) : Copied(i)' => Copied(i)
  BY DEF Copied
<1> QED
  BY <1>1, <1>3, <1>4 DEF LogOK

\* begin_op() starts an operation only when no commit and no recovery runs.
LEMMA BeginInv ==
  ASSUME IInv, NEW o \in Ops, begin_op(o)
  PROVE  IInv'
<1>1. /\ TypeOK /\ PhaseOK /\ ActiveOK /\ CacheOK /\ LogOK
      /\ disk' = disk /\ logblk' = logblk /\ head' = head /\ cache' = cache /\ pins' = pins
      /\ lh' = lh /\ committing' = committing /\ wrote' = wrote /\ pc' = pc /\ tail' = tail
      /\ op[o] \in {"idle", "woken"} /\ pc \notin Recovery
  BY DEF IInv, begin_op, diskVars, Recovering, Recovery
<1>2. CacheOK' /\ LogOK'
  BY <1>1, SameBlocks
<1>3. CASE op' = [op EXCEPT ![o] = "sleeping"] /\ outstanding' = outstanding
  <2>1. TypeOK' /\ PhaseOK'
    BY <1>1, <1>3 DEF TypeOK, PhaseOK
  <2>2. \A q \in Ops : op'[q] = "active" <=> op[q] = "active"
    BY <1>1, <1>3 DEF TypeOK
  <2>3. ActiveOK'
    BY <1>1, <1>3, <2>2, SameActive
  <2> QED
    BY <1>2, <2>1, <2>3 DEF IInv
<1>4. CASE /\ ~committing /\ op' = [op EXCEPT ![o] = "active"]
           /\ outstanding' = outstanding + 1
  <2>1. TypeOK'
    BY <1>1, <1>4 DEF TypeOK
  <2>2. pc = "idle"
    BY <1>1, <1>4 DEF TypeOK, PhaseOK, Places
  <2>3. PhaseOK'
    BY <1>1, <1>4, <2>2 DEF TypeOK, PhaseOK
  <2>4. Active' = Active \cup {o} /\ o \notin Active
    BY <1>1, <1>4 DEF Active, TypeOK
  <2>5. IsFiniteSet(Active') /\ Cardinality(Active') = outstanding'
    BY <1>1, <1>4, <2>4, FS_AddElement DEF ActiveOK
  <2>6. ActiveOK'
    BY <1>1, <1>4, <2>5 DEF ActiveOK, TypeOK
  <2> QED
    BY <1>2, <2>1, <2>3, <2>6 DEF IInv
<1> QED
  BY <1>3, <1>4 DEF begin_op

\* end_op() wakes sleepers or becomes the one that commits.
LEMMA EndInv ==
  ASSUME IInv, NEW o \in Ops, end_op(o)
  PROVE  IInv'
<1>1. /\ TypeOK /\ PhaseOK /\ ActiveOK /\ CacheOK /\ LogOK
      /\ disk' = disk /\ logblk' = logblk /\ head' = head /\ cache' = cache /\ pins' = pins
      /\ lh' = lh /\ wrote' = [wrote EXCEPT ![o] = {}]
      /\ op[o] = "active" /\ ~committing /\ outstanding' = outstanding - 1
  BY DEF IInv, end_op, diskVars
<1>2. o \in Active /\ IsFiniteSet(Active) /\ Cardinality(Active) = outstanding
  BY <1>1 DEF Active, ActiveOK
<1>3. /\ IsFiniteSet(Active \ {o}) /\ Cardinality(Active \ {o}) = outstanding - 1
      /\ outstanding >= 1 /\ outstanding - 1 \in Nat
  <2>1. IsFiniteSet(Active \ {o}) /\ Cardinality(Active \ {o}) = Cardinality(Active) - 1
    BY <1>2, FS_RemoveElement
  <2>2. Cardinality(Active \ {o}) \in Nat
    BY <2>1, FS_CardinalityType
  <2> QED
    BY <1>1, <1>2, <2>1, <2>2 DEF TypeOK
<1>4. pc = "idle"
  BY <1>1, <1>3 DEF PhaseOK
<1>5. CASE /\ outstanding = 1 /\ committing' = TRUE /\ op' = [op EXCEPT ![o] = "commit"]
           /\ pc' = (IF lh = <<>> THEN "done" ELSE "write_log") /\ tail' = 1
  <2>1. TypeOK'
    BY <1>1, <1>3, <1>5 DEF TypeOK, Places, Committing
  <2>2. PhaseOK'
    <3>1. lh # <<>> => 1 <= Len(lh)
      BY <1>1 DEF TypeOK
    <3> QED
      BY <1>1, <1>4, <1>5, <3>1 DEF PhaseOK, Committing
  <2>3. CacheOK' /\ LogOK'
    BY <1>1, <1>4, <1>5, SameBlocks
  <2>4. Active' = Active \ {o}
    BY <1>1, <1>5 DEF Active, TypeOK
  <2>5. ActiveOK'
    BY <1>1, <1>3, <1>5, <2>4 DEF ActiveOK, TypeOK
  <2> QED
    BY <2>1, <2>2, <2>3, <2>5 DEF IInv
<1>6. CASE /\ outstanding # 1 /\ op' = WakeLog(o, "idle")
           /\ committing' = committing /\ pc' = pc /\ tail' = tail
  <2>1. TypeOK'
    BY <1>1, <1>3, <1>6 DEF TypeOK, WakeLog
  <2>2. PhaseOK'
    BY <1>1, <1>3, <1>4, <1>6 DEF PhaseOK, TypeOK
  <2>3. CacheOK' /\ LogOK'
    BY <1>1, <1>6, SameBlocks
  <2>4. Active' = Active \ {o}
    BY <1>1, <1>6 DEF Active, TypeOK, WakeLog
  <2>5. ActiveOK'
    BY <1>1, <1>3, <1>6, <2>4 DEF ActiveOK, TypeOK, WakeLog
  <2> QED
    BY <2>1, <2>2, <2>3, <2>5 DEF IInv
<1> QED
  BY <1>5, <1>6 DEF end_op

\* The end of commit() leaves an empty transaction.
LEMMA EndCommitInv ==
  ASSUME IInv, NEW o \in Ops, EndCommit(o)
  PROVE  IInv'
<1>1. /\ TypeOK /\ PhaseOK /\ ActiveOK /\ CacheOK /\ LogOK
      /\ disk' = disk /\ logblk' = logblk /\ head' = head /\ cache' = cache /\ pins' = pins
      /\ lh' = lh /\ wrote' = wrote /\ outstanding' = outstanding /\ tail' = tail
      /\ op[o] = "commit" /\ committing' = FALSE /\ pc = "done" /\ pc' = "idle"
      /\ op' = WakeLog(o, "idle")
  BY DEF IInv, EndCommit, diskVars
<1>2. TypeOK'
  BY <1>1 DEF TypeOK, WakeLog, Places
<1>3. PhaseOK'
  BY <1>1 DEF PhaseOK, Committing
<1>4. CacheOK' /\ LogOK'
  BY <1>1, SameBlocks DEF PhaseOK
<1>5. \A q \in Ops : op'[q] = "active" <=> op[q] = "active"
  BY <1>1 DEF TypeOK, WakeLog
<1>6. ActiveOK'
  BY <1>1, <1>5, SameActive
<1> QED
  BY <1>2, <1>3, <1>4, <1>6 DEF IInv

\* A crash leaves the disk, and an empty memory.
LEMMA CrashInv ==
  ASSUME IInv, Crash
  PROVE  IInv'
<1>1. TypeOK /\ PhaseOK
  BY DEF IInv
<1>2. TypeOK'
  <2>1. /\ disk' \in [Blocks -> Vals] /\ logblk' \in [1 .. LogBlocks -> Vals]
        /\ head' \in Seq(Blocks) /\ pc' \in Places /\ lh' \in Seq(Blocks)
    BY <1>1 DEF Crash, TypeOK, Places, Recovery, diskVars
  <2>2. cache' \in [Blocks -> Vals \cup {NoBuf}] /\ pins' \in [Blocks -> Nat]
    BY DEF Crash
  <2>3. op' \in [Ops -> {"idle", "sleeping", "woken", "active", "commit"}]
    BY DEF Crash
  <2>4. wrote' \in [Ops -> SUBSET Blocks]
    BY DEF Crash
  <2>5. outstanding' \in Nat /\ tail' \in Nat \ {0}
    BY DEF Crash
  <2>6. committing' \in BOOLEAN
    BY DEF Crash
  <2> QED
    BY <2>1, <2>2, <2>3, <2>4, <2>5, <2>6 DEF TypeOK
<1>3. PhaseOK'
  BY <1>1, LogAssumption DEF Crash, PhaseOK, Proper, diskVars, Committing
<1>4. Active' = {}
  BY DEF Crash, Active
<1>5. ActiveOK'
  BY <1>4, FS_EmptySet DEF ActiveOK, Crash
<1>6. Dirty' = {}
  BY DEF Dirty, Pending, Crash, Recovery
<1>7. CacheOK'
  BY <1>6 DEF CacheOK, Crash
<1>8. LogOK'
  BY DEF LogOK, Crash, Copied, Installed
<1> QED
  BY <1>2, <1>3, <1>5, <1>7, <1>8 DEF IInv

\* Recovery takes over the header.
LEMMA ReadHeadInv ==
  ASSUME IInv, read_head
  PROVE  IInv'
<1>1. /\ TypeOK /\ PhaseOK /\ ActiveOK /\ CacheOK /\ LogOK
      /\ disk' = disk /\ logblk' = logblk /\ head' = head /\ cache' = cache /\ pins' = pins
      /\ lh' = head /\ wrote' = wrote /\ outstanding' = outstanding /\ tail' = tail
      /\ committing' = committing /\ op' = op /\ pc = "read_head"
      /\ pc' = (IF head = <<>> THEN "r_clear" ELSE "r_install")
  BY DEF IInv, read_head, diskVars
<1>2. TypeOK'
  BY <1>1 DEF TypeOK, Places, Recovery
<1>3. PhaseOK'
  <2>1. head # <<>> => 1 <= Len(head)
    BY <1>1 DEF TypeOK
  <2> QED
    BY <1>1, <2>1 DEF PhaseOK, Committing
<1>4. ActiveOK'
  BY <1>1, SameActive
<1>5. Dirty = {} /\ Dirty' = {}
  BY <1>1 DEF Dirty, Pending, Recovery
<1>6. CacheOK'
  BY <1>1, <1>5 DEF CacheOK
<1>7. LogOK'
  BY <1>1 DEF LogOK, Copied, Installed, PhaseOK, TypeOK
<1> QED
  BY <1>2, <1>3, <1>4, <1>6, <1>7 DEF IInv

\* The buffer of a block that is not dirty is given up.
LEMMA RecycleInv ==
  ASSUME IInv, NEW b \in Blocks, Recycle(b)
  PROVE  IInv'
<1>1. /\ TypeOK /\ PhaseOK /\ ActiveOK /\ CacheOK /\ LogOK
      /\ disk' = disk /\ logblk' = logblk /\ head' = head /\ pins' = pins
      /\ lh' = lh /\ wrote' = wrote /\ outstanding' = outstanding /\ tail' = tail
      /\ committing' = committing /\ op' = op /\ pc' = pc
      /\ cache' = [cache EXCEPT ![b] = NoBuf] /\ pins[b] = 0
  BY DEF IInv, Recycle, diskVars
<1>2. TypeOK' /\ PhaseOK'
  BY <1>1 DEF TypeOK, PhaseOK
<1>3. ActiveOK'
  BY <1>1, SameActive
<1>4. Dirty' = Dirty /\ b \notin Dirty
  <2>1. \A i \in 1 .. Len(lh) : Pending(i)' <=> Pending(i)
    BY <1>1 DEF Pending
  <2> QED
    BY <1>1, <2>1 DEF Dirty, CacheOK
<1>5. CacheOK'
  BY <1>1, <1>4 DEF CacheOK, TypeOK
<1>6. LogOK'
  <2>1. \A i \in 1 .. Len(lh) : Copied(i) => lh[i] \in Dirty
    BY DEF Copied, Dirty, Pending, Recovery
  <2>2. \A i \in 1 .. Len(lh) : lh[i] \in Blocks
    BY <1>1 DEF TypeOK
  <2>3. \A i \in 1 .. Len(lh) : (Copied(i)' <=> Copied(i)) /\ (Installed(i)' <=> Installed(i))
    BY <1>1 DEF Copied, Installed
  <2> QED
    BY <1>1, <1>4, <2>1, <2>2, <2>3 DEF LogOK, TypeOK
<1> QED
  BY <1>2, <1>3, <1>5, <1>6 DEF IInv

\* A block written by an operation is dirty from then on.
LEMMA LogWriteInv ==
  ASSUME IInv, NEW o \in Ops, NEW b \in Blocks, NEW v \in Vals, log_write(o, b, v)
  PROVE  IInv'
<1>1. /\ TypeOK /\ PhaseOK /\ ActiveOK /\ CacheOK /\ LogOK
      /\ disk' = disk /\ logblk' = logblk /\ head' = head
      /\ outstanding' = outstanding /\ committing' = committing /\ op' = op
      /\ pc' = pc /\ tail' = tail /\ op[o] = "active" /\ AddToLog(b)
      /\ cache' = [cache EXCEPT ![b] = v] /\ wrote' = [wrote EXCEPT ![o] = @ \cup {b}]
      /\ Len(lh) < LogBlocks /\ outstanding >= 1
  BY DEF IInv, log_write, diskVars, LogWriteAllowed
<1>2. pc = "idle" /\ v # NoBuf
  BY <1>1, LogAssumption DEF PhaseOK
<1>3. Dirty = {lh[i] : i \in 1 .. Len(lh)} /\ Dirty' = {lh'[i] : i \in 1 .. Len(lh')}
  BY <1>1, <1>2 DEF Dirty, Pending, Recovery
<1>4. Range(lh) = Dirty
  BY <1>1, <1>3 DEF Range, TypeOK
<1>5. /\ lh' \in Seq(Blocks) /\ pins' \in [Blocks -> Nat] /\ Proper(lh)'
      /\ Dirty' = Dirty \cup {b} /\ pins'[b] = 1
      /\ \A a \in Blocks \ {b} : pins'[a] = pins[a]
  <2>1. CASE b \in Range(lh)
    BY <1>1, <1>3, <1>4, <2>1 DEF AddToLog, TypeOK, PhaseOK, Proper, CacheOK
  <2>2. CASE b \notin Range(lh)
    <3>1. lh' = Append(lh, b) /\ pins' = [pins EXCEPT ![b] = @ + 1] /\ pins[b] = 0
      BY <1>1, <1>4, <2>2 DEF AddToLog, CacheOK
    <3>2. /\ lh' \in Seq(Blocks) /\ Len(lh') = Len(lh) + 1 /\ lh'[Len(lh) + 1] = b
          /\ \A i \in 1 .. Len(lh) : lh'[i] = lh[i] /\ lh[i] # b
          /\ Len(lh) \in Nat
      BY <1>1, <1>3, <1>4, <2>2, <3>1 DEF TypeOK
    <3>3. /\ pins' \in [Blocks -> Nat] /\ pins'[b] = 1
          /\ \A a \in Blocks \ {b} : pins'[a] = pins[a]
      BY <1>1, <3>1 DEF TypeOK
    <3>4. 1 .. Len(lh') = (1 .. Len(lh)) \cup {Len(lh) + 1}
      BY <3>2
    <3>5. Dirty' = Dirty \cup {b}
      BY <1>3, <3>2, <3>4
    <3>6. Proper(lh)'
      <4>1. Len(lh') <= LogBlocks
        BY <1>1, <3>2, LogAssumption
      <4>2. ASSUME NEW i \in 1 .. Len(lh'), NEW j \in 1 .. Len(lh'), lh'[i] = lh'[j]
            PROVE  i = j
        <5>1. \A k, m \in 1 .. Len(lh) : lh[k] = lh[m] => k = m
          BY <1>1 DEF PhaseOK, Proper
        <5> QED
          BY <3>2, <3>4, <4>2, <5>1
      <4> QED
        BY <4>1, <4>2 DEF Proper
    <3> QED
      BY <3>2, <3>3, <3>5, <3>6
  <2> QED
    BY <2>1, <2>2
<1>6. /\ cache' \in [Blocks -> Vals \cup {NoBuf}] /\ cache'[b] = v
      /\ \A a \in Blocks \ {b} : cache'[a] = cache[a]
  BY <1>1 DEF TypeOK
<1>7. wrote' \in [Ops -> SUBSET Blocks] /\ \A q \in Ops \ {o} : wrote'[q] = wrote[q]
  BY <1>1 DEF TypeOK
<1>8. TypeOK'
  BY <1>1, <1>5, <1>6, <1>7 DEF TypeOK
<1>9. PhaseOK'
  BY <1>1, <1>2, <1>5 DEF PhaseOK
<1>10. ActiveOK'
  <2>1. Active' = Active
    BY <1>1 DEF Active
  <2> QED
    BY <1>1, <1>7, <2>1 DEF ActiveOK
<1>11. CacheOK'
  <2> SUFFICES ASSUME NEW a \in Blocks
               PROVE  /\ a \in Dirty' => pins'[a] = 1 /\ cache'[a] # NoBuf
                      /\ a \notin Dirty' => pins'[a] = 0 /\ cache'[a] \in {NoBuf, disk'[a]}
    BY DEF CacheOK
  <2>1. CASE a = b
    BY <1>2, <1>5, <1>6, <2>1
  <2>2. CASE a # b
    BY <1>1, <1>5, <1>6, <2>2 DEF CacheOK
  <2> QED
    BY <2>1, <2>2
<1>12. LogOK'
  BY <1>1, <1>2 DEF LogOK, Copied, Installed
<1> QED
  BY <1>8, <1>9, <1>10, <1>11, <1>12 DEF IInv

\* One block goes to the log.
LEMMA WriteLogInv ==
  ASSUME IInv, write_log
  PROVE  IInv'
<1>1. /\ TypeOK /\ PhaseOK /\ ActiveOK /\ CacheOK /\ LogOK
      /\ disk' = disk /\ head' = head /\ cache' = cache /\ pins' = pins /\ lh' = lh
      /\ wrote' = wrote /\ outstanding' = outstanding /\ committing' = committing
      /\ op' = op /\ pc = "write_log" /\ Advance("write_head")
      /\ logblk' = [logblk EXCEPT ![tail] = Content(lh[tail])]
  BY DEF IInv, write_log
<1>2. /\ tail \in 1 .. Len(lh) /\ Len(lh) \in Nat /\ lh[tail] \in Blocks /\ Proper(lh)
      /\ tail \in 1 .. LogBlocks /\ tail \in Nat
  BY <1>1, LogAssumption DEF TypeOK, PhaseOK, Proper
<1>3. Dirty = {lh[i] : i \in 1 .. Len(lh)}
  BY <1>1 DEF Dirty, Pending, Recovery
<1>4. cache[lh[tail]] # NoBuf /\ cache[lh[tail]] \in Vals /\ Content(lh[tail]) = cache[lh[tail]]
  BY <1>1, <1>2, <1>3 DEF CacheOK, TypeOK, Content
<1>5. \/ tail < Len(lh) /\ tail' = tail + 1 /\ pc' = "write_log"
      \/ tail = Len(lh) /\ tail' = 1 /\ pc' = "write_head"
  BY <1>1, <1>2 DEF Advance
<1>6. TypeOK'
  BY <1>1, <1>2, <1>4, <1>5 DEF TypeOK, Places, Committing
<1>7. PhaseOK'
  BY <1>1, <1>2, <1>5 DEF PhaseOK, Committing
<1>8. ActiveOK'
  BY <1>1, SameActive
<1>9. Dirty' = Dirty
  BY <1>1, <1>3, <1>5 DEF Dirty, Pending, Recovery
<1>10. CacheOK'
  BY <1>1, <1>9 DEF CacheOK
<1>11. LogOK'
  <2> SUFFICES ASSUME NEW i \in 1 .. Len(lh), Copied(i)'
               PROVE  logblk'[i] = cache[lh[i]]
    BY <1>1, <1>5 DEF LogOK, Installed
  <2>1. i <= tail /\ i \in 1 .. LogBlocks
    BY <1>2, <1>5, LogAssumption DEF Copied, Proper
  <2>2. CASE i = tail
    BY <1>1, <1>2, <1>4, <2>2 DEF TypeOK
  <2>3. CASE i < tail
    BY <1>1, <2>1, <2>3 DEF TypeOK, LogOK, Copied
  <2> QED
    BY <1>2, <2>1, <2>2, <2>3
<1> QED
  BY <1>6, <1>7, <1>8, <1>10, <1>11 DEF IInv

\* The transaction commits.
LEMMA WriteHeadInv ==
  ASSUME IInv, write_head
  PROVE  IInv'
<1>1. /\ TypeOK /\ PhaseOK /\ ActiveOK /\ CacheOK /\ LogOK
      /\ disk' = disk /\ head' = lh /\ cache' = cache /\ pins' = pins /\ lh' = lh
      /\ wrote' = wrote /\ outstanding' = outstanding /\ committing' = committing
      /\ op' = op /\ pc = "write_head" /\ pc' = "install" /\ logblk' = logblk /\ tail' = tail
      /\ tail = 1
  BY DEF IInv, write_head, PhaseOK
<1>2. TypeOK'
  BY <1>1 DEF TypeOK, Places, Committing
<1>3. PhaseOK'
  BY <1>1 DEF PhaseOK, Committing
<1>4. ActiveOK'
  BY <1>1, SameActive
<1>5. \A i \in 1 .. Len(lh) : Pending(i) /\ Pending(i)' /\ Copied(i) /\ ~Installed(i)'
  BY <1>1 DEF Pending, Recovery, Copied, Installed
<1>6. Dirty' = Dirty
  BY <1>1, <1>5 DEF Dirty
<1>7. CacheOK'
  BY <1>1, <1>6 DEF CacheOK
<1>8. LogOK'
  BY <1>1, <1>5 DEF LogOK
<1> QED
  BY <1>2, <1>3, <1>4, <1>7, <1>8 DEF IInv

\* One block goes to its place: it is not dirty any more.
LEMMA InstallInv ==
  ASSUME IInv, install_trans
  PROVE  IInv'
<1>1. PICK b : b = lh[tail]
  OBVIOUS
<1>2. /\ TypeOK /\ PhaseOK /\ ActiveOK /\ CacheOK /\ LogOK
      /\ logblk' = logblk /\ head' = head /\ lh' = lh
      /\ wrote' = wrote /\ outstanding' = outstanding /\ committing' = committing
      /\ op' = op /\ pc \in {"install", "r_install"} /\ bunpin(b)
      /\ Advance(IF pc = "install" THEN "clear" ELSE "r_clear")
      /\ cache' = [cache EXCEPT ![b] = logblk[tail]]
      /\ disk' = [disk EXCEPT ![b] = logblk[tail]]
  BY <1>1 DEF IInv, install_trans
<1>3. /\ tail \in 1 .. Len(lh) /\ Len(lh) \in Nat /\ b \in Blocks /\ Proper(lh)
      /\ tail \in 1 .. LogBlocks /\ tail \in Nat /\ logblk[tail] \in Vals /\ head = lh
  BY <1>1, <1>2, LogAssumption DEF TypeOK, PhaseOK, Proper
<1>4. \/ tail < Len(lh) /\ tail' = tail + 1 /\ pc' = pc
      \/ /\ tail = Len(lh) /\ tail' = 1
         /\ pc' = IF pc = "install" THEN "clear" ELSE "r_clear"
  BY <1>2, <1>3 DEF Advance
<1>5. /\ disk' \in [Blocks -> Vals] /\ cache' \in [Blocks -> Vals \cup {NoBuf}]
      /\ disk'[b] = logblk[tail] /\ cache'[b] = logblk[tail]
      /\ \A a \in Blocks \ {b} : disk'[a] = disk[a] /\ cache'[a] = cache[a]
  BY <1>2, <1>3 DEF TypeOK
<1>6. \A i, j \in 1 .. Len(lh) : lh[i] = lh[j] => i = j
  BY <1>3 DEF Proper
<1>7. \A i \in 1 .. Len(lh) : Pending(i)' <=> Pending(i) /\ i # tail
  BY <1>2, <1>3, <1>4 DEF Pending, Recovery
<1>8. Dirty' = Dirty \ {b}
  BY <1>1, <1>2, <1>3, <1>6, <1>7 DEF Dirty
<1>9. (pc = "install" <=> b \in Dirty) /\ (pc = "r_install" => Dirty = {})
  BY <1>1, <1>2, <1>3 DEF Dirty, Pending, Recovery
<1>10. /\ pins' \in [Blocks -> Nat] /\ pins'[b] = 0
       /\ \A a \in Blocks \ {b} : pins'[a] = pins[a]
  <2>1. CASE pc = "install"
    <3>1. pins' = [pins EXCEPT ![b] = @ - 1] /\ pins[b] = 1
      BY <1>2, <1>3, <1>9, <2>1 DEF bunpin, CacheOK
    <3> QED
      BY <1>2, <1>3, <3>1 DEF TypeOK
  <2>2. CASE pc # "install"
    BY <1>2, <1>3, <1>9, <2>2 DEF bunpin, CacheOK, TypeOK
  <2> QED
    BY <2>1, <2>2
<1>11. TypeOK'
  <2>1. pc' \in Places
    BY <1>2, <1>4 DEF Places, Committing, Recovery
  <2>2. tail' \in Nat \ {0}
    BY <1>3, <1>4
  <2> QED
    BY <1>2, <1>5, <1>10, <2>1, <2>2 DEF TypeOK
<1>12. PhaseOK'
  <2>1. pc' \in {"install", "r_install"} => tail' <= Len(lh)
    BY <1>2, <1>3, <1>4
  <2>2. committing <=> pc' \in Committing
    BY <1>2, <1>4 DEF PhaseOK, Committing
  <2>3. pc' \in {"install", "clear", "r_install", "r_clear"} /\ outstanding = 0
    BY <1>2, <1>4 DEF PhaseOK
  <2> QED
    BY <1>2, <1>3, <2>1, <2>2, <2>3 DEF PhaseOK, Proper
<1>13. ActiveOK'
  BY <1>2, SameActive
<1>14. CacheOK'
  <2> SUFFICES ASSUME NEW a \in Blocks
               PROVE  /\ a \in Dirty' => pins'[a] = 1 /\ cache'[a] # NoBuf
                      /\ a \notin Dirty' => pins'[a] = 0 /\ cache'[a] \in {NoBuf, disk'[a]}
    BY DEF CacheOK
  <2>1. CASE a = b
    BY <1>5, <1>8, <1>10, <2>1
  <2>2. CASE a # b
    BY <1>2, <1>5, <1>8, <1>10, <2>2 DEF CacheOK
  <2> QED
    BY <2>1, <2>2
<1>15. LogOK'
  <2> SUFFICES ASSUME NEW i \in 1 .. Len(lh)
               PROVE  /\ Copied(i)' => logblk[i] = cache'[lh[i]]
                      /\ Installed(i)' => logblk[i] = disk'[lh[i]]
    BY <1>2 DEF LogOK
  <2>1. lh[i] \in Blocks
    BY <1>2 DEF TypeOK
  <2>2. /\ Copied(i)' => Copied(i) /\ i # tail
        /\ Installed(i)' => i = tail \/ Installed(i)
    BY <1>2, <1>3, <1>4 DEF Copied, Installed
  <2>3. CASE i = tail
    BY <1>1, <1>5, <2>2, <2>3
  <2>4. CASE i # tail
    <3>1. lh[i] # b
      BY <1>1, <1>3, <1>6, <2>4
    <3> QED
      BY <1>2, <1>5, <2>1, <2>2, <2>4, <3>1 DEF LogOK
  <2> QED
    BY <2>3, <2>4
<1> QED
  BY <1>11, <1>12, <1>13, <1>14, <1>15 DEF IInv

\* The transaction is done: the header on the disk is empty again.
LEMMA ClearInv ==
  ASSUME IInv, ClearHead
  PROVE  IInv'
<1>1. /\ TypeOK /\ PhaseOK /\ ActiveOK /\ CacheOK /\ LogOK
      /\ disk' = disk /\ head' = <<>> /\ cache' = cache /\ pins' = pins /\ lh' = <<>>
      /\ wrote' = wrote /\ outstanding' = outstanding /\ committing' = committing
      /\ op' = op /\ pc \in {"clear", "r_clear"} /\ logblk' = logblk /\ tail' = tail
      /\ pc' = IF pc = "clear" THEN "done" ELSE "idle"
  BY DEF IInv, ClearHead
<1>2. TypeOK'
  BY <1>1 DEF TypeOK, Places, Committing
<1>3. PhaseOK'
  BY <1>1, LogAssumption DEF PhaseOK, Committing, Proper
<1>4. ActiveOK'
  BY <1>1, SameActive
<1>5. Dirty = {} /\ Dirty' = {}
  <2>1. \A i \in 1 .. Len(lh) : ~Pending(i)
    BY <1>1 DEF Pending, Recovery
  <2> QED
    BY <1>1, <2>1 DEF Dirty
<1>6. CacheOK'
  BY <1>1, <1>5 DEF CacheOK
<1>7. LogOK'
  BY <1>1 DEF LogOK
<1> QED
  BY <1>2, <1>3, <1>4, <1>6, <1>7 DEF IInv

\* A disk made by mkfs and an empty memory satisfy the invariant.
LEMMA InitInv == Init => IInv
<1> SUFFICES ASSUME Init PROVE IInv
  OBVIOUS
<1>1. TypeOK
  <2>1. /\ disk \in [Blocks -> Vals] /\ logblk \in [1 .. LogBlocks -> Vals]
        /\ head \in Seq(Blocks) /\ lh \in Seq(Blocks) /\ pc \in Places
    BY LogAssumption DEF Init, Places
  <2>2. cache \in [Blocks -> Vals \cup {NoBuf}] /\ pins \in [Blocks -> Nat]
    BY DEF Init
  <2>3. op \in [Ops -> {"idle", "sleeping", "woken", "active", "commit"}]
    BY DEF Init
  <2>4. wrote \in [Ops -> SUBSET Blocks]
    BY DEF Init
  <2>5. outstanding \in Nat /\ tail \in Nat \ {0}
    BY DEF Init
  <2>6. committing \in BOOLEAN
    BY DEF Init
  <2> QED
    BY <2>1, <2>2, <2>3, <2>4, <2>5, <2>6 DEF TypeOK
<1>2. PhaseOK
  BY LogAssumption DEF Init, PhaseOK, Proper, Committing
<1>3. Active = {}
  BY DEF Init, Active
<1>4. ActiveOK
  BY <1>3, FS_EmptySet DEF ActiveOK, Init
<1>5. Dirty = {}
  BY DEF Dirty, Init
<1>6. CacheOK
  BY <1>5 DEF CacheOK, Init
<1>7. LogOK
  BY DEF LogOK, Init
<1> QED
  BY <1>1, <1>2, <1>4, <1>6, <1>7 DEF IInv

\* Every step keeps the invariant.
LEMMA NextInv == IInv /\ [Next]_vars => IInv'
<1> SUFFICES ASSUME IInv, [Next]_vars PROVE IInv'
  OBVIOUS
<1>1. CASE Next
  BY <1>1, BeginInv, EndInv, EndCommitInv, LogWriteInv, WriteLogInv, WriteHeadInv,
     InstallInv, ClearInv, ReadHeadInv, RecycleInv, CrashInv
  DEF Next, Commit
<1>2. CASE UNCHANGED vars
  <2>1. /\ disk' = disk /\ logblk' = logblk /\ head' = head /\ cache' = cache
        /\ pins' = pins /\ lh' = lh /\ outstanding' = outstanding
        /\ committing' = committing /\ op' = op /\ wrote' = wrote /\ pc' = pc
        /\ tail' = tail
    BY <1>2 DEF vars
  <2>2. TypeOK' /\ PhaseOK'
    BY <2>1 DEF IInv, TypeOK, PhaseOK
  <2>3. ActiveOK'
    BY <2>1, SameActive DEF IInv
  <2>4. CacheOK' /\ LogOK'
    BY <2>1, SameBlocks DEF IInv
  <2> QED
    BY <2>2, <2>3, <2>4 DEF IInv
<1> QED
  BY <1>1, <1>2

-----------------------------------------------------------------------------
(* The theorems.                                                           *)

\* What every reachable state of the log, its memory and its disk satisfies:
\* at every place of commit() and of recovery, what has been copied to the log
\* and what has been installed.
THEOREM Invariance == Spec => []IInv
<1> QED
  BY InitInv, NextInv, PTL DEF Spec

\* A buffer of the transaction is pinned, once, until install_trans() has
\* written it (bpin() in log_write(), bunpin() in install_trans()).
THEOREM LoggedIsPinned == Spec => []PinnedWhileLogged
<1>1. IInv => PinnedWhileLogged
  <2> SUFFICES ASSUME IInv, ~Recovering, NEW b \in Blocks
               PROVE  pins[b] = Cardinality({i \in DOMAIN lh : lh[i] = b /\
                                  (pc = "install" => i >= tail) /\ pc # "clear"})
    BY DEF PinnedWhileLogged
  <2> DEFINE S == {i \in DOMAIN lh : lh[i] = b /\
                     (pc = "install" => i >= tail) /\ pc # "clear"}
  <2>1. TypeOK /\ CacheOK /\ Proper(lh) /\ DOMAIN lh = 1 .. Len(lh)
    BY DEF IInv, PhaseOK, TypeOK
  <2>2. \A i : i \in S <=> i \in 1 .. Len(lh) /\ lh[i] = b /\ Pending(i)
    BY <2>1 DEF Pending, Recovering, Recovery
  <2> HIDE DEF S
  <2>3. CASE b \in Dirty
    <3>1. PICK i \in 1 .. Len(lh) : lh[i] = b /\ Pending(i)
      BY <2>3 DEF Dirty
    <3>2. S = {i}
      BY <2>1, <2>2, <3>1 DEF Proper
    <3>3. Cardinality(S) = 1
      BY <3>2, FS_Singleton
    <3> QED
      BY <2>1, <2>3, <3>3 DEF CacheOK, S
  <2>4. CASE b \notin Dirty
    <3>1. S = {}
      BY <2>2, <2>4 DEF Dirty
    <3>2. Cardinality(S) = 0
      BY <3>1, FS_EmptySet
    <3> QED
      BY <2>1, <2>4, <3>2 DEF CacheOK, S
  <2> QED
    BY <2>3, <2>4
<1> QED
  BY <1>1, Invariance, PTL

-----------------------------------------------------------------------------
(* Log implements AtomicDisk.                                              *)

\* What operations see.
Current == IF Recovering THEN Recovered ELSE [b \in Blocks |-> Content(b)]

\* A step that changes nothing of what AtomicDisk shows.
LEMMA Stutter ==
  ASSUME Recovered' = Recovered, Current' = Current, Active' = Active
  PROVE  UNCHANGED AD!vars
BY DEF AD!vars, Current, Active

\* What a restart makes of the disk, block by block.
LEMMA RecoveredAt ==
  ASSUME TypeOK, Proper(head)
  PROVE  /\ Recovered = [b \in Blocks |-> Recovered[b]]
         /\ \A i \in 1 .. Len(head) : Recovered[head[i]] = logblk[i]
         /\ \A b \in Blocks :
              (\A i \in 1 .. Len(head) : head[i] # b) => Recovered[b] = disk[b]
<1>1. DOMAIN head = 1 .. Len(head) /\ \A i \in 1 .. Len(head) : head[i] \in Blocks
  BY DEF TypeOK
<1>2. Recovered = [b \in Blocks |-> Recovered[b]]
  BY DEF Recovered
<1>3. ASSUME NEW i \in 1 .. Len(head) PROVE Recovered[head[i]] = logblk[i]
  <2>1. PICK b \in Blocks : b = head[i]
    BY <1>1
  <2>2. (CHOOSE j \in DOMAIN head : head[j] = b) = i
    BY <1>1, <2>1 DEF Proper
  <2>3. Recovered[b] = logblk[CHOOSE j \in DOMAIN head : head[j] = b]
    BY <1>1, <2>1 DEF Recovered
  <2> QED
    BY <2>1, <2>2, <2>3
<1>4. ASSUME NEW b \in Blocks, \A i \in 1 .. Len(head) : head[i] # b
      PROVE  Recovered[b] = disk[b]
  BY <1>1, <1>4 DEF Recovered
<1> QED
  BY <1>2, <1>3, <1>4

\* What operations see, block by block, when recovery is over.
LEMMA CurrentAt ==
  ASSUME TypeOK, CacheOK, pc \notin Recovery
  PROVE  /\ Current = [b \in Blocks |-> Current[b]]
         /\ \A b \in Blocks : Current[b] = Content(b)
         /\ \A b \in Blocks \ Dirty : Current[b] = disk[b]
         /\ \A b \in Blocks \cap Dirty : Current[b] = cache[b]
<1>1. ~Recovering
  BY DEF Recovering, Recovery
<1>2. Current = [b \in Blocks |-> Content(b)]
  BY <1>1 DEF Current
<1> QED
  BY <1>2 DEF Content, CacheOK

\* No transaction, no difference.
LEMMA CleanIsStable ==
  ASSUME IInv, pc \notin Recovery, lh = <<>>, head = <<>>
  PROVE  Current = Recovered
<1>1. TypeOK /\ CacheOK /\ Proper(head)
  BY DEF IInv, PhaseOK
<1>2. Dirty = {}
  BY DEF Dirty
<1>3. \A b \in Blocks : Current[b] = disk[b] /\ Recovered[b] = disk[b]
  BY <1>1, <1>2, RecoveredAt, CurrentAt
<1>4. Current = [b \in Blocks |-> Current[b]] /\ Recovered = [b \in Blocks |-> Recovered[b]]
  BY <1>1, RecoveredAt, CurrentAt
<1> QED
  BY <1>3, <1>4

\* begin_op() begins an operation, on a clean disk if it is the first.
LEMMA BeginSim ==
  ASSUME IInv, NEW o \in Ops, begin_op(o)
  PROVE  [AD!Next]_(AD!vars)
<1>1. /\ TypeOK /\ PhaseOK /\ ActiveOK
      /\ disk' = disk /\ logblk' = logblk /\ head' = head /\ cache' = cache
      /\ lh' = lh /\ pc' = pc /\ op[o] \in {"idle", "woken"} /\ pc \notin Recovery
  BY DEF IInv, begin_op, diskVars, Recovering, Recovery
<1>2. Recovered' = Recovered /\ Current' = Current
  BY <1>1 DEF Recovered, Current, Recovering, Content
<1>3. CASE op' = [op EXCEPT ![o] = "sleeping"]
  <2>1. Active' = Active
    BY <1>1, <1>3 DEF Active, TypeOK
  <2> QED
    BY <1>2, <2>1, Stutter
<1>4. CASE ~committing /\ op' = [op EXCEPT ![o] = "active"]
  <2>1. Active' = Active \cup {o} /\ o \notin Active
    BY <1>1, <1>4 DEF Active, TypeOK
  <2>2. ASSUME Active = {} PROVE Current = Recovered
    <3>1. outstanding = 0
      BY <1>1, <2>2, FS_EmptySet DEF ActiveOK
    <3>2. pc = "idle"
      BY <1>1, <1>4 DEF TypeOK, PhaseOK, Places
    <3> QED
      BY <1>1, <3>1, <3>2, CleanIsStable DEF PhaseOK
  <2>3. AD!Begin(o)
    BY <1>2, <2>1, <2>2 DEF AD!Begin, Current, Active
  <2> QED
    BY <2>3 DEF AD!Next
<1> QED
  BY <1>3, <1>4 DEF begin_op

\* end_op() ends an operation.
LEMMA EndSim ==
  ASSUME IInv, NEW o \in Ops, end_op(o)
  PROVE  [AD!Next]_(AD!vars)
<1>1. /\ TypeOK /\ PhaseOK /\ ActiveOK /\ op[o] = "active"
      /\ disk' = disk /\ logblk' = logblk /\ head' = head /\ cache' = cache
  BY DEF IInv, end_op, diskVars
<1>2. pc = "idle" /\ pc' \in {"idle", "done", "write_log"}
  <2>1. o \in Active
    BY <1>1 DEF Active
  <2>2. outstanding # 0
    BY <1>1, <2>1, FS_EmptySet DEF ActiveOK
  <2> QED
    BY <1>1, <2>2 DEF PhaseOK, end_op
<1>3. Recovered' = Recovered /\ Current' = Current
  BY <1>1, <1>2 DEF Recovered, Current, Recovering, Content
<1>4. Active' = Active \ {o} /\ o \in Active
  BY <1>1 DEF Active, TypeOK, end_op, WakeLog
<1>5. AD!End(o)
  BY <1>3, <1>4 DEF AD!End, Current, Active
<1> QED
  BY <1>5 DEF AD!Next

\* log_write() writes what operations see, and nothing of what a restart finds.
LEMMA LogWriteSim ==
  ASSUME IInv, NEW o \in Ops, NEW b \in Blocks, NEW v \in Vals, log_write(o, b, v)
  PROVE  [AD!Next]_(AD!vars)
<1>1. /\ TypeOK /\ PhaseOK /\ op[o] = "active" /\ outstanding >= 1
      /\ disk' = disk /\ logblk' = logblk /\ head' = head /\ op' = op /\ pc' = pc
      /\ cache' = [cache EXCEPT ![b] = v] /\ v # NoBuf
  BY LogAssumption DEF IInv, log_write, diskVars, LogWriteAllowed
<1>2. pc = "idle"
  BY <1>1 DEF PhaseOK
<1>3. Recovered' = Recovered /\ Active' = Active /\ o \in Active
  BY <1>1 DEF Recovered, Active
<1>4. Current = [a \in Blocks |-> Content(a)] /\ Current' = [a \in Blocks |-> Content(a)']
  BY <1>1, <1>2 DEF Current, Recovering
<1>5. \A a \in Blocks : Content(a)' = IF a = b THEN v ELSE Content(a)
  BY <1>1 DEF Content, TypeOK
<1>6. Current' = [Current EXCEPT ![b] = v]
  BY <1>4, <1>5
<1>7. AD!Write(o, b, v)
  BY <1>3, <1>6 DEF AD!Write, Current, Active
<1> QED
  BY <1>7 DEF AD!Next

\* The end of commit(), and a buffer that is given up, are not seen.
LEMMA QuietSim ==
  ASSUME IInv, \/ \E o \in Ops : EndCommit(o)
               \/ \E b \in Blocks : Recycle(b)
               \/ read_head
  PROVE  [AD!Next]_(AD!vars)
<1>1. /\ TypeOK /\ PhaseOK /\ CacheOK
      /\ disk' = disk /\ logblk' = logblk /\ head' = head
  BY DEF IInv, EndCommit, Recycle, read_head, diskVars
<1>2. Recovered' = Recovered
  BY <1>1 DEF Recovered
<1>3. ASSUME NEW o \in Ops, EndCommit(o) PROVE Current' = Current /\ Active' = Active
  BY <1>1, <1>2, <1>3
  DEF EndCommit, Current, Recovering, Content, Active, WakeLog, TypeOK
<1>4. CASE read_head
  BY <1>1, <1>2, <1>4, Stutter DEF read_head, Current, Recovering, Active
<1>5. ASSUME NEW b \in Blocks, Recycle(b) PROVE Current' = Current /\ Active' = Active
  <2>1. cache' = [cache EXCEPT ![b] = NoBuf] /\ pins[b] = 0 /\ pc' = pc /\ op' = op
    BY <1>5 DEF Recycle
  <2>2. cache[b] \in {NoBuf, disk[b]}
    BY <1>1, <2>1 DEF CacheOK
  <2>3. \A a \in Blocks : Content(a)' = Content(a)
    BY <1>1, <2>1, <2>2 DEF Content, TypeOK
  <2> QED
    BY <1>2, <2>1, <2>3 DEF Current, Recovering, Active
<1> QED
  BY <1>2, <1>3, <1>4, <1>5, Stutter

\* The copy to the log is not seen: the header does not name it yet.
LEMMA WriteLogSim ==
  ASSUME IInv, write_log
  PROVE  [AD!Next]_(AD!vars)
<1>1. /\ TypeOK /\ PhaseOK /\ pc = "write_log" /\ pc' \in {"write_log", "write_head"}
      /\ disk' = disk /\ head' = head /\ head = <<>> /\ cache' = cache /\ op' = op
  BY DEF IInv, write_log, PhaseOK, Advance
<1>2. Recovered' = Recovered
  BY <1>1 DEF Recovered
<1>3. Current' = Current /\ Active' = Active
  BY <1>1, <1>2 DEF Current, Recovering, Content, Active
<1> QED
  BY <1>2, <1>3, Stutter

\* write_head() makes everything that operations see stable.
LEMMA WriteHeadSim ==
  ASSUME IInv, write_head
  PROVE  [AD!Next]_(AD!vars)
<1>1. /\ TypeOK /\ PhaseOK /\ CacheOK /\ LogOK /\ ActiveOK /\ Proper(lh)
      /\ pc = "write_head" /\ pc' = "install" /\ disk' = disk /\ head' = lh /\ cache' = cache
      /\ op' = op /\ logblk' = logblk
  BY DEF IInv, write_head, PhaseOK
<1>2. IInv'
  BY WriteHeadInv
<1>3. Active' = Active /\ Active = {}
  <2>1. Cardinality(Active) = 0
    BY <1>1 DEF PhaseOK, ActiveOK
  <2> QED
    BY <1>1, <2>1, FS_EmptySet DEF ActiveOK, Active
<1>4. Current' = Current
  BY <1>1 DEF Current, Recovering, Content
<1>5. Dirty = {lh[i] : i \in 1 .. Len(lh)}
  BY <1>1 DEF Dirty, Pending, Recovery
<1>6. /\ \A b \in Blocks \ Dirty : Current[b] = disk[b]
      /\ \A b \in Blocks \cap Dirty : Current[b] = cache[b]
      /\ Current = [b \in Blocks |-> Current[b]]
  BY <1>1, CurrentAt DEF Recovery
<1>7. /\ Recovered' = [b \in Blocks |-> Recovered'[b]]
      /\ \A i \in 1 .. Len(lh) : Recovered'[lh[i]] = logblk[i]
      /\ \A b \in Blocks : (\A i \in 1 .. Len(lh) : lh[i] # b) => Recovered'[b] = disk[b]
  <2>1. /\ DOMAIN lh = 1 .. Len(lh) /\ \A i \in 1 .. Len(lh) : lh[i] \in Blocks
    BY <1>1 DEF TypeOK
  <2>2. Recovered' = [b \in Blocks |->
           IF \E i \in DOMAIN lh : lh[i] = b
           THEN logblk[CHOOSE i \in DOMAIN lh : lh[i] = b] ELSE disk[b]]
    BY <1>1 DEF Recovered
  <2>3. \A i \in 1 .. Len(lh) : (CHOOSE j \in DOMAIN lh : lh[j] = lh[i]) = i
    BY <1>1, <2>1 DEF Proper
  <2> QED
    BY <2>1, <2>2, <2>3
<1>8. ASSUME NEW b \in Blocks PROVE Recovered'[b] = Current[b]
  <2>1. CASE b \in Dirty
    <3>1. PICK i \in 1 .. Len(lh) : lh[i] = b
      BY <1>5, <2>1
    <3>2. logblk[i] = cache[b]
      BY <1>1, <3>1 DEF LogOK, Copied
    <3> QED
      BY <1>6, <1>7, <2>1, <3>1, <3>2
  <2>2. CASE b \notin Dirty
    BY <1>5, <1>6, <1>7, <2>2
  <2> QED
    BY <2>1, <2>2
<1>9. Recovered' = Current
  BY <1>6, <1>7, <1>8
<1>10. AD!Commit
  BY <1>3, <1>4, <1>9 DEF AD!Commit, Current, Active
<1> QED
  BY <1>10 DEF AD!Next

\* Nobody notices that a block is installed: neither operations nor a restart.
LEMMA InstallSim ==
  ASSUME IInv, install_trans
  PROVE  [AD!Next]_(AD!vars)
<1>1. PICK b : b = lh[tail]
  OBVIOUS
<1>2. /\ TypeOK /\ PhaseOK /\ CacheOK /\ LogOK
      /\ logblk' = logblk /\ head' = head /\ lh' = lh /\ op' = op
      /\ pc \in {"install", "r_install"}
      /\ pc' \in IF pc = "install" THEN {"install", "clear"} ELSE {"r_install", "r_clear"}
      /\ cache' = [cache EXCEPT ![b] = logblk[tail]]
      /\ disk' = [disk EXCEPT ![b] = logblk[tail]]
  BY <1>1 DEF IInv, install_trans, Advance
<1>3. /\ tail \in 1 .. Len(lh) /\ b \in Blocks /\ Proper(head)
      /\ logblk[tail] \in Vals /\ head = lh
  BY <1>1, <1>2, LogAssumption DEF TypeOK, PhaseOK, Proper
<1>4. Recovered' = Recovered
  <2>1. DOMAIN head = 1 .. Len(head)
    BY <1>2 DEF TypeOK
  <2>2. \A a \in Blocks : (\E i \in DOMAIN head : head[i] = a) \/ disk'[a] = disk[a]
    BY <1>1, <1>2, <1>3, <2>1 DEF TypeOK
  <2> QED
    BY <1>2, <2>2 DEF Recovered
<1>5. Active' = Active
  BY <1>2 DEF Active
<1>6. CASE pc = "r_install"
  BY <1>2, <1>4, <1>5, <1>6, Stutter DEF Current, Recovering
<1>7. CASE pc = "install"
  <2>1. b \in Dirty /\ Copied(tail)
    BY <1>1, <1>2, <1>3, <1>7 DEF Dirty, Pending, Copied, TypeOK, Recovery
  <2>2. cache[b] # NoBuf /\ cache[b] = logblk[tail]
    BY <1>1, <1>2, <1>3, <2>1 DEF CacheOK, LogOK
  <2>3. \A a \in Blocks : Content(a)' = Content(a)
    BY <1>2, <1>3, <2>2 DEF Content, TypeOK
  <2>4. Current' = Current
    BY <1>2, <1>7, <2>3 DEF Current, Recovering
  <2> QED
    BY <1>4, <1>5, <2>4, Stutter
<1> QED
  BY <1>2, <1>6, <1>7

\* When everything is installed the header can go.
LEMMA ClearSim ==
  ASSUME IInv, ClearHead
  PROVE  [AD!Next]_(AD!vars)
<1>1. /\ TypeOK /\ PhaseOK /\ CacheOK /\ LogOK /\ Proper(head) /\ head = lh
      /\ disk' = disk /\ cache' = cache /\ head' = <<>> /\ lh' = <<>>
      /\ op' = op /\ pc \in {"clear", "r_clear"}
      /\ pc' = IF pc = "clear" THEN "done" ELSE "idle"
  BY DEF IInv, ClearHead, PhaseOK
<1>2. \A i \in 1 .. Len(lh) : logblk[i] = disk[lh[i]]
  BY <1>1 DEF LogOK, Installed
<1>3. \A b \in Blocks : Recovered[b] = disk[b]
  BY <1>1, <1>2, RecoveredAt
<1>4. Recovered = [b \in Blocks |-> disk[b]]
  BY <1>1, <1>3, RecoveredAt
<1>5. Recovered' = [b \in Blocks |-> disk[b]]
  BY <1>1 DEF Recovered
<1>6. Dirty = {}
  BY <1>1 DEF Dirty, Pending, Recovery
<1>7. \A b \in Blocks : Content(b) = disk[b] /\ Content(b)' = Content(b)
  BY <1>1, <1>6 DEF Content, CacheOK
<1>8. Current' = Current
  BY <1>1, <1>4, <1>7 DEF Current, Recovering
<1>9. Active' = Active
  BY <1>1 DEF Active
<1> QED
  BY <1>4, <1>5, <1>8, <1>9, Stutter

\* A crash takes operations back to what is stable.
LEMMA CrashSim ==
  ASSUME Crash
  PROVE  [AD!Next]_(AD!vars)
<1>1. Recovered' = Recovered
  BY DEF Crash, Recovered, diskVars
<1>2. Current' = Recovered
  BY <1>1 DEF Crash, Current, Recovering
<1>3. Active' = {}
  BY DEF Crash, Active
<1>4. AD!Crash
  BY <1>1, <1>2, <1>3 DEF AD!Crash, Current, Active
<1> QED
  BY <1>4 DEF AD!Next

\* A fresh disk looks like one.
LEMMA InitSim == Init => AD!Init
<1> SUFFICES ASSUME Init PROVE AD!Init
  OBVIOUS
<1>1. Recovered = [b \in Blocks |-> Blank]
  BY DEF Recovered, Init
<1>2. Current = [b \in Blocks |-> Blank]
  BY DEF Current, Init, Recovering, Content
<1>3. Active = {}
  BY DEF Active, Init
<1> QED
  BY <1>1, <1>2, <1>3 DEF AD!Init, Current, Active

\* Operations are atomic with respect to crashes, at any point of commit() and
\* of recovery itself: the disk changes by whole groups of operations.
THEOREM AtomicOperations == Spec => AtomicDiskSpec
<1>1. IInv /\ [Next]_vars => [AD!Next]_(AD!vars)
  <2> SUFFICES ASSUME IInv, [Next]_vars PROVE [AD!Next]_(AD!vars)
    OBVIOUS
  <2>1. CASE Next
    BY <2>1, BeginSim, EndSim, LogWriteSim, QuietSim, WriteLogSim, WriteHeadSim,
       InstallSim, ClearSim, CrashSim
    DEF Next, Commit
  <2>2. CASE UNCHANGED vars
    <3>1. Recovered' = Recovered /\ Current' = Current /\ Active' = Active
      BY <2>2 DEF vars, Recovered, Current, Recovering, Content, Active
    <3> QED
      BY <3>1, Stutter
  <2> QED
    BY <2>1, <2>2
<1> QED
  BY <1>1, InitSim, Invariance, PTL DEF Spec, AtomicDiskSpec, AD!Spec

-----------------------------------------------------------------------------
(* The reserved space is enough.                                           *)

\* A reservation for the operations in A takes at most MAXOPBLOCKS for each.
LEMMA RoomBound ==
  ASSUME NEW A, IsFiniteSet(A), NEW R \in SUBSET (A \X (1 .. MAXOPBLOCKS))
  PROVE  /\ IsFiniteSet(R) /\ Cardinality(R) \in Nat
         /\ Cardinality(R) <= Cardinality(A) * MAXOPBLOCKS
<1>1. IsFiniteSet(1 .. MAXOPBLOCKS) /\ Cardinality(1 .. MAXOPBLOCKS) = MAXOPBLOCKS
  BY FS_Interval, LogAssumption
<1>2. /\ IsFiniteSet(A \X (1 .. MAXOPBLOCKS))
      /\ Cardinality(A \X (1 .. MAXOPBLOCKS)) = Cardinality(A) * MAXOPBLOCKS
  BY <1>1, FS_Product
<1> QED
  BY <1>2, FS_Subset, FS_CardinalityType

\* Two members of a set of pairs make two.
LEMMA TwoMembers ==
  ASSUME NEW S, IsFiniteSet(S), NEW x \in S, NEW y \in S, x # y
  PROVE  Cardinality(S) >= 2
<1>1. /\ IsFiniteSet(S \ {x}) /\ Cardinality(S \ {x}) = Cardinality(S) - 1
      /\ IsFiniteSet((S \ {x}) \ {y})
      /\ Cardinality((S \ {x}) \ {y}) = Cardinality(S \ {x}) - 1
  <2>1. IsFiniteSet(S \ {x}) /\ Cardinality(S \ {x}) = Cardinality(S) - 1
    BY FS_RemoveElement
  <2>2. y \in S \ {x}
    OBVIOUS
  <2> QED
    BY <2>1, <2>2, FS_RemoveElement
<1>2. Cardinality((S \ {x}) \ {y}) \in Nat /\ Cardinality(S) \in Nat
  BY <1>1, FS_CardinalityType
<1> QED
  BY <1>1, <1>2

\* When no operation is outstanding nothing has to be reserved.
LEMMA NoneSpace ==
  ASSUME IInv', outstanding' = 0
  PROVE  SpaceOK'
<1>1. Active' = {}
  BY FS_EmptySet DEF IInv, ActiveOK
<1> QED
  BY <1>1 DEF SpaceOK

\* Steps that concern neither the operations nor the transaction.
LEMMA SameSpace ==
  ASSUME SpaceOK, op' = op \/ Active' = Active, wrote' = wrote, lh' = lh,
         outstanding' = outstanding
  PROVE  SpaceOK'
<1>1. Active' = Active
  BY DEF Active
<1>2. Room' = Room
  BY <1>1 DEF Room
<1> QED
  BY <1>1, <1>2 DEF SpaceOK

\* begin_op() reserves for itself and for everyone outstanding.
LEMMA BeginSpace ==
  ASSUME IInv, IInv', SpaceOK, Sizes, NEW o \in Ops, begin_op(o)
  PROVE  SpaceOK'
<1>1. /\ TypeOK /\ PhaseOK /\ ActiveOK /\ ActiveOK' /\ op[o] \in {"idle", "woken"}
      /\ lh' = lh /\ wrote' = wrote /\ pc \notin Recovery
  BY DEF IInv, begin_op, Recovering, Recovery
<1>2. CASE op' = [op EXCEPT ![o] = "sleeping"] /\ outstanding' = outstanding
  <2>1. Active' = Active
    BY <1>1, <1>2 DEF Active, TypeOK
  <2> QED
    BY <1>1, <1>2, <2>1, SameSpace
<1>3. CASE /\ ~committing /\ HasSpace /\ op' = [op EXCEPT ![o] = "active"]
           /\ outstanding' = outstanding + 1
  <2>1. Active' = Active \cup {o} /\ o \notin Active
    BY <1>1, <1>3 DEF Active, TypeOK
  <2>2. /\ IsFiniteSet(Active') /\ Cardinality(Active') = outstanding + 1
    BY <1>1, <1>3 DEF ActiveOK
  <2>3. Room' \in SUBSET (Active' \X (1 .. MAXOPBLOCKS))
    BY DEF Room
  <2>4. Cardinality(Room') \in Nat /\ Cardinality(Room') <= (outstanding + 1) * MAXOPBLOCKS
    BY <2>2, <2>3, RoomBound
  <2>5. Len(lh) + Cardinality(Room') <= LOGSIZE
    <3>1. Len(lh) + (outstanding + 1) * MAXOPBLOCKS <= LOGSIZE
      BY <1>3 DEF HasSpace
    <3>2. PICK n \in Int : n = (outstanding + 1) * MAXOPBLOCKS
      BY <1>1, LogAssumption DEF TypeOK
    <3>3. Len(lh) \in Nat /\ LOGSIZE \in Nat
      BY <1>1, LogAssumption DEF TypeOK
    <3> QED
      BY <2>4, <3>1, <3>2, <3>3
  <2>6. wrote[o] = {} /\ IsFiniteSet(wrote[o]) /\ Cardinality(wrote[o]) = 0
    BY <1>1, FS_EmptySet DEF ActiveOK
  <2>7. ASSUME outstanding' = 1 PROVE \E q \in Active' : Len(lh) <= Cardinality(wrote[q])
    <3>1. outstanding = 0
      BY <1>1, <1>3, <2>7 DEF TypeOK
    <3>2. pc = "idle"
      BY <1>1, <1>3 DEF TypeOK, PhaseOK, Places
    <3>3. lh = <<>>
      BY <1>1, <3>1, <3>2 DEF PhaseOK
    <3>4. Len(lh) <= Cardinality(wrote[o])
      BY <2>6, <3>3
    <3> QED
      BY <2>1, <3>4
  <2>8. \A q \in Active' : /\ IsFiniteSet(wrote[q]) /\ Cardinality(wrote[q]) <= OpBlocks
                           /\ \A b \in wrote[q] : \E i \in 1 .. Len(lh) : lh[i] = b
    <3>1. 0 <= OpBlocks
      BY LogAssumption
    <3> QED
      BY <2>1, <2>6, <3>1 DEF SpaceOK
  <2> QED
    BY <1>1, <2>5, <2>7, <2>8 DEF SpaceOK
<1> QED
  BY <1>2, <1>3 DEF begin_op

\* An operation that ends leaves at least one block of its room.
LEMMA EndSpace ==
  ASSUME IInv, IInv', SpaceOK, Sizes, NEW o \in Ops, end_op(o)
  PROVE  SpaceOK'
<1>1. /\ TypeOK /\ ActiveOK /\ ActiveOK' /\ op[o] = "active" /\ lh' = lh
      /\ outstanding' = outstanding - 1 /\ outstanding \in Nat /\ outstanding' \in Nat
      /\ wrote' = [wrote EXCEPT ![o] = {}]
  BY DEF IInv, end_op, TypeOK
<1>2. Active' = Active \ {o} /\ o \in Active
  BY <1>1 DEF Active, TypeOK, end_op, WakeLog
<1>3. \A q \in Active' : wrote'[q] = wrote[q]
  BY <1>1, <1>2 DEF TypeOK, Active
<1>4. <<o, MAXOPBLOCKS>> \in Room
  <2>1. Cardinality(wrote[o]) <= OpBlocks /\ IsFiniteSet(wrote[o])
    BY <1>2 DEF SpaceOK
  <2>2. Cardinality(wrote[o]) \in Nat
    BY <2>1, FS_CardinalityType
  <2>3. MAXOPBLOCKS \in 1 .. MAXOPBLOCKS /\ MAXOPBLOCKS > Cardinality(wrote[o])
    BY <2>1, <2>2, LogAssumption DEF Sizes
  <2> QED
    BY <1>2, <2>3 DEF Room
<1>5. Room' \subseteq Room \ {<<o, MAXOPBLOCKS>>}
  BY <1>2, <1>3 DEF Room
<1>6. /\ IsFiniteSet(Room) /\ Cardinality(Room) \in Nat
  <2>1. Room \in SUBSET (Active \X (1 .. MAXOPBLOCKS)) /\ IsFiniteSet(Active)
    BY <1>1 DEF Room, ActiveOK
  <2> QED
    BY <2>1, RoomBound
<1>7. /\ IsFiniteSet(Room \ {<<o, MAXOPBLOCKS>>})
      /\ Cardinality(Room \ {<<o, MAXOPBLOCKS>>}) = Cardinality(Room) - 1
  BY <1>4, <1>6, FS_RemoveElement
<1>8. /\ Cardinality(Room') <= Cardinality(Room) - 1 /\ Cardinality(Room') \in Nat
  BY <1>5, <1>7, FS_Subset, FS_CardinalityType
<1>9. outstanding' >= 1 => Len(lh) + Cardinality(Room') < LOGSIZE
  <2>1. outstanding' >= 1 => Len(lh) + Cardinality(Room) <= LOGSIZE
    BY <1>1 DEF SpaceOK
  <2>2. Len(lh) \in Nat /\ LOGSIZE \in Nat
    BY <1>1, LogAssumption DEF TypeOK
  <2> QED
    BY <1>6, <1>8, <2>1, <2>2
<1>10. \A q \in Active' : /\ IsFiniteSet(wrote'[q]) /\ Cardinality(wrote'[q]) <= OpBlocks
                          /\ \A b \in wrote'[q] : \E i \in 1 .. Len(lh) : lh[i] = b
  BY <1>2, <1>3 DEF SpaceOK
<1>11. outstanding' >= 1 => Len(lh) + Cardinality(Room') <= LOGSIZE
  BY <1>1, <1>8, <1>9, LogAssumption DEF TypeOK
<1>12. outstanding' = 1 => Len(lh) + Cardinality(Room') < LOGSIZE
  BY <1>9
<1> QED
  BY <1>1, <1>10, <1>11, <1>12 DEF SpaceOK

\* A block that is new in the transaction uses room of its operation.
LEMMA LogWriteSpace ==
  ASSUME IInv, SpaceOK, Sizes, NEW o \in Ops, NEW b \in Blocks, NEW v \in Vals,
         log_write(o, b, v)
  PROVE  SpaceOK'
<1>1. /\ TypeOK /\ ActiveOK /\ op[o] = "active" /\ op' = op /\ outstanding' = outstanding
      /\ wrote' = [wrote EXCEPT ![o] = @ \cup {b}] /\ outstanding >= 1
      /\ Cardinality(wrote[o] \cup {b}) <= OpBlocks /\ AddToLog(b)
      /\ outstanding \in Nat /\ Len(lh) \in Nat
  BY DEF IInv, log_write, TypeOK, LogWriteAllowed
<1>2. /\ Active' = Active /\ o \in Active
      /\ wrote'[o] = wrote[o] \cup {b} /\ \A q \in Ops \ {o} : wrote'[q] = wrote[q]
  BY <1>1 DEF Active, TypeOK
<1>3. Active \subseteq Ops /\ IsFiniteSet(Active) /\ Cardinality(Active) = outstanding
  BY <1>1 DEF Active, ActiveOK
<1>4. IsFiniteSet(Room) /\ Cardinality(Room) \in Nat
  <2>1. Room \in SUBSET (Active \X (1 .. MAXOPBLOCKS))
    BY DEF Room
  <2> QED
    BY <1>3, <2>1, RoomBound
<1>5. IsFiniteSet(wrote[o]) /\ Cardinality(wrote[o]) \in Nat
  BY <1>2, FS_CardinalityType DEF SpaceOK
<1>6. /\ IsFiniteSet(wrote'[o]) /\ Cardinality(wrote'[o]) \in Nat
      /\ Cardinality(wrote'[o]) =
           IF b \in wrote[o] THEN Cardinality(wrote[o]) ELSE Cardinality(wrote[o]) + 1
      /\ Cardinality(wrote'[o]) <= OpBlocks
  <2>1. /\ IsFiniteSet(wrote[o] \cup {b})
        /\ Cardinality(wrote[o] \cup {b}) =
             IF b \in wrote[o] THEN Cardinality(wrote[o]) ELSE Cardinality(wrote[o]) + 1
    BY <1>5, FS_AddElement
  <2>2. Cardinality(wrote[o] \cup {b}) \in Nat
    BY <2>1, FS_CardinalityType
  <2> QED
    BY <1>1, <1>2, <2>1, <2>2
<1>7. Room' \subseteq Room
  <2> SUFFICES ASSUME NEW e \in Room' PROVE e \in Room
    OBVIOUS
  <2>1. e \in Active \X (1 .. MAXOPBLOCKS) /\ e[2] > Cardinality(wrote'[e[1]])
    BY <1>2 DEF Room
  <2>2. CASE e[1] = o
    <3>1. e[2] \in Int /\ Cardinality(wrote'[o]) >= Cardinality(wrote[o])
      BY <1>5, <1>6, <2>1
    <3>2. e[2] > Cardinality(wrote[o])
      BY <1>5, <1>6, <2>1, <2>2, <3>1
    <3> QED
      BY <2>1, <2>2, <3>2 DEF Room
  <2>3. CASE e[1] # o
    BY <1>2, <1>3, <2>1, <2>3 DEF Room
  <2> QED
    BY <2>2, <2>3
<1>8. IsFiniteSet(Room') /\ Cardinality(Room') \in Nat /\ Cardinality(Room') <= Cardinality(Room)
  BY <1>4, <1>7, FS_Subset, FS_CardinalityType
<1>9. /\ \A i \in 1 .. Len(lh) : i \in 1 .. Len(lh') /\ lh'[i] = lh[i]
      /\ \E i \in 1 .. Len(lh') : lh'[i] = b
      /\ Len(lh') \in Nat
      /\ \/ Len(lh') = Len(lh)
         \/ Len(lh') = Len(lh) + 1 /\ b \notin wrote[o]
  <2>1. CASE b \in Range(lh)
    BY <1>1, <2>1 DEF AddToLog, TypeOK, Range
  <2>2. CASE b \notin Range(lh)
    <3>1. lh' = Append(lh, b)
      BY <1>1, <2>2 DEF AddToLog
    <3>2. /\ Len(lh') = Len(lh) + 1 /\ lh'[Len(lh) + 1] = b
          /\ \A i \in 1 .. Len(lh) : lh'[i] = lh[i] /\ lh[i] # b
      BY <1>1, <2>2, <3>1 DEF TypeOK, Range
    <3>3. b \notin wrote[o]
      BY <1>2, <3>2 DEF SpaceOK
    <3> QED
      BY <1>1, <3>2, <3>3
  <2> QED
    BY <2>1, <2>2
<1>10. Len(lh') = Len(lh) + 1 => Cardinality(Room') <= Cardinality(Room) - 1
  <2> SUFFICES ASSUME Len(lh') = Len(lh) + 1 PROVE Cardinality(Room') <= Cardinality(Room) - 1
    OBVIOUS
  <2>1. b \notin wrote[o] /\ Cardinality(wrote'[o]) = Cardinality(wrote[o]) + 1
    BY <1>1, <1>6, <1>9
  <2> DEFINE e == <<o, Cardinality(wrote[o]) + 1>>
  <2>2. Cardinality(wrote[o]) + 1 \in 1 .. MAXOPBLOCKS
    BY <1>5, <1>6, <2>1, LogAssumption
  <2>3. e \in Room
    BY <1>2, <1>5, <2>2 DEF Room
  <2>4. e \notin Room'
    BY <1>5, <2>1 DEF Room
  <2> HIDE DEF e
  <2>5. Room' \subseteq Room \ {e}
    BY <1>7, <2>4
  <2>6. IsFiniteSet(Room \ {e}) /\ Cardinality(Room \ {e}) = Cardinality(Room) - 1
    BY <1>4, <2>3, FS_RemoveElement
  <2> QED
    BY <2>5, <2>6, FS_Subset
<1>11. Len(lh') + Cardinality(Room') <= Len(lh) + Cardinality(Room)
  BY <1>1, <1>4, <1>8, <1>9, <1>10
<1>12. Len(lh) + Cardinality(Room) <= LOGSIZE /\ LOGSIZE \in Nat
  BY <1>1, LogAssumption DEF SpaceOK
<1>13. Len(lh') + Cardinality(Room') <= LOGSIZE
  BY <1>1, <1>4, <1>8, <1>9, <1>11, <1>12
<1>14. ASSUME outstanding = 1
       PROVE  \/ \E q \in Active : Len(lh') <= Cardinality(wrote'[q])
              \/ Len(lh') + Cardinality(Room') < LOGSIZE
  <2>1. CASE Len(lh) + Cardinality(Room) < LOGSIZE
    BY <1>1, <1>4, <1>8, <1>9, <1>11, <1>12, <2>1
  <2>2. ASSUME NEW q \in Active, Len(lh) <= Cardinality(wrote[q])
        PROVE  Len(lh') <= Cardinality(wrote'[q])
    <3>1. q = o
      <4>1. PICK x : Active = {x}
        BY <1>3, <1>14, FS_Singleton
      <4> QED
        BY <1>2, <4>1
    <3> QED
      BY <1>1, <1>5, <1>6, <1>9, <2>2, <3>1
  <2> QED
    BY <1>14, <2>1, <2>2 DEF SpaceOK
<1>15. \A q \in Active : /\ IsFiniteSet(wrote'[q]) /\ Cardinality(wrote'[q]) <= OpBlocks
                         /\ \A a \in wrote'[q] : \E i \in 1 .. Len(lh') : lh'[i] = a
  <2> SUFFICES ASSUME NEW q \in Active
               PROVE  /\ IsFiniteSet(wrote'[q]) /\ Cardinality(wrote'[q]) <= OpBlocks
                      /\ \A a \in wrote'[q] : \E i \in 1 .. Len(lh') : lh'[i] = a
    OBVIOUS
  <2>1. \A a \in wrote[q] : \E i \in 1 .. Len(lh') : lh'[i] = a
    BY <1>9 DEF SpaceOK
  <2>2. CASE q = o
    BY <1>2, <1>6, <1>9, <2>1, <2>2
  <2>3. CASE q # o
    BY <1>2, <1>3, <2>1, <2>3 DEF SpaceOK
  <2> QED
    BY <2>2, <2>3
<1> QED
  BY <1>1, <1>2, <1>13, <1>14, <1>15 DEF SpaceOK

\* No operation makes log_write() or end_op() panic: begin_op() reserves enough,
\* also when a block that is in the log already is written again, which
\* log_write() refuses too when the log is full.
THEOREM ReservedSpace == Sizes => (Spec => []NoLogPanic)
<1> SUFFICES ASSUME Sizes PROVE Spec => []NoLogPanic
  OBVIOUS
<1>1. Init => SpaceOK
  <2> SUFFICES ASSUME Init PROVE SpaceOK
    OBVIOUS
  <2>1. Active = {} /\ outstanding = 0
    BY DEF Init, Active
  <2> QED
    BY <2>1 DEF SpaceOK
<1>2. IInv /\ IInv' /\ SpaceOK /\ [Next]_vars => SpaceOK'
  <2> SUFFICES ASSUME IInv, IInv', SpaceOK, [Next]_vars PROVE SpaceOK'
    OBVIOUS
  <2>1. ASSUME NEW o \in Ops, EndCommit(o) PROVE SpaceOK'
    <3>1. outstanding' = 0
      BY <2>1 DEF IInv, PhaseOK, EndCommit
    <3> QED
      BY <3>1, NoneSpace
  <2>2. CASE Commit \/ Crash
    <3>1. outstanding' = 0
      BY <2>2
      DEF Commit, IInv, PhaseOK, write_log, write_head, install_trans, ClearHead,
          read_head, Crash
    <3> QED
      BY <3>1, NoneSpace
  <2>3. ASSUME NEW b \in Blocks, Recycle(b) PROVE SpaceOK'
    BY <2>3, SameSpace DEF Recycle
  <2>4. CASE UNCHANGED vars
    BY <2>4, SameSpace DEF vars
  <2> QED
    BY <2>1, <2>2, <2>3, <2>4, BeginSpace, EndSpace, LogWriteSpace DEF Next
<1>3. IInv /\ SpaceOK => NoLogPanic
  <2> SUFFICES ASSUME IInv, SpaceOK, NEW o \in Ops, op[o] = "active"
               PROVE  /\ ~committing
                      /\ \A b \in Blocks :
                           Cardinality(wrote[o] \cup {b}) <= OpBlocks => LogWriteAllowed
    BY DEF NoLogPanic
  <2>1. /\ TypeOK /\ PhaseOK /\ ActiveOK /\ o \in Active /\ outstanding \in Nat
        /\ Len(lh) \in Nat /\ IsFiniteSet(Active) /\ Cardinality(Active) = outstanding
    BY DEF IInv, Active, TypeOK, ActiveOK
  <2>2. outstanding # 0
    BY <2>1, FS_EmptySet
  <2>3. ~committing /\ outstanding >= 1
    BY <2>1, <2>2 DEF PhaseOK, Committing
  <2>4. /\ IsFiniteSet(Room) /\ Cardinality(Room) \in Nat
        /\ Len(lh) + Cardinality(Room) <= LOGSIZE
    <3>1. Room \in SUBSET (Active \X (1 .. MAXOPBLOCKS))
      BY DEF Room
    <3> QED
      BY <2>1, <2>3, <3>1, RoomBound DEF SpaceOK
  <2>5. /\ OpBlocks \in Nat /\ MAXOPBLOCKS \in Nat /\ LOGSIZE \in Nat /\ LogBlocks \in Nat
        /\ OpBlocks < MAXOPBLOCKS /\ 2 * MAXOPBLOCKS <= LOGSIZE /\ LOGSIZE <= LogBlocks + 1
    BY LogAssumption DEF Sizes
  <2>6. ASSUME NEW q \in Active
        PROVE  /\ <<q, MAXOPBLOCKS>> \in Room /\ Cardinality(wrote[q]) \in Nat
               /\ Cardinality(wrote[q]) <= OpBlocks
    <3>1. /\ Cardinality(wrote[q]) <= OpBlocks /\ IsFiniteSet(wrote[q])
          /\ Cardinality(wrote[q]) \in Nat
      BY FS_CardinalityType DEF SpaceOK
    <3>2. MAXOPBLOCKS \in 1 .. MAXOPBLOCKS /\ MAXOPBLOCKS > Cardinality(wrote[q])
      BY <2>5, <3>1
    <3> QED
      BY <3>1, <3>2 DEF Room
  <2>7. ASSUME Cardinality(Room) >= 2 PROVE LogWriteAllowed
    BY <2>1, <2>3, <2>4, <2>5, <2>7 DEF LogWriteAllowed
  <2>8. CASE outstanding # 1
    <3>1. PICK q \in Active : q # o
      <4>1. Active # {o}
        BY <2>1, <2>8, FS_Singleton
      <4> QED
        BY <2>1, <4>1
    <3>2. <<q, MAXOPBLOCKS>> \in Room /\ <<o, MAXOPBLOCKS>> \in Room
      BY <2>1, <2>6
    <3>3. <<q, MAXOPBLOCKS>> # <<o, MAXOPBLOCKS>>
      BY <3>1
    <3>4. Cardinality(Room) >= 2
      BY <2>4, <3>2, <3>3, TwoMembers
    <3> QED
      BY <2>3, <2>7, <3>4
  <2>9. CASE outstanding = 1
    <3>1. CASE \E q \in Active : Len(lh) <= Cardinality(wrote[q])
      <4>0. PICK q \in Active : Len(lh) <= Cardinality(wrote[q])
        BY <3>1
      <4>1. Len(lh) < MAXOPBLOCKS
        <5>1. Cardinality(wrote[q]) \in Nat /\ Cardinality(wrote[q]) <= OpBlocks
          BY <2>6
        <5> QED
          BY <2>1, <2>5, <4>0, <5>1
      <4> QED
        BY <2>1, <2>3, <2>5, <4>1 DEF LogWriteAllowed
    <3>2. CASE Len(lh) + Cardinality(Room) < LOGSIZE
      <4>1. Cardinality(Room) # 0
        BY <2>1, <2>4, <2>6, FS_EmptySet
      <4> QED
        BY <2>1, <2>3, <2>4, <2>5, <3>2, <4>1 DEF LogWriteAllowed
    <3> QED
      BY <2>9, <3>1, <3>2 DEF SpaceOK
  <2> QED
    BY <2>3, <2>8, <2>9
<1>4. Spec => []SpaceOK
  BY <1>1, <1>2, Invariance, PTL DEF Spec
<1> QED
  BY <1>3, <1>4, Invariance, PTL

=============================================================================
