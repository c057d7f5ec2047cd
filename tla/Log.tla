-------------------------------- MODULE Log --------------------------------
(***************************************************************************)
(* The file system's redo log (log.c) over the buffer cache, with crashes  *)
(* and recovery.  Operations of several processes run concurrently; the    *)
(* last one to end writes the transaction: the blocks to the log area, the *)
(* header, the blocks to their places, the empty header.  One step is one  *)
(* critical section of log.lock or one disk write; the machine may stop    *)
(* between any two of them, which loses everything but the disk.           *)
(*                                                                         *)
(* Of the buffer cache (bio.c) only what the log relies on is modelled: a  *)
(* cached block is read from the cache, and the buffer of a block that     *)
(* nobody uses or pins may be recycled at any time.  The write of one      *)
(* block is atomic, as log.c takes for granted for its header.             *)
(***************************************************************************)
EXTENDS Integers, Sequences, FiniteSets, Functions

CONSTANTS Ops,          \* processes that use the file system
          Blocks,       \* disk blocks outside the log
          Vals,         \* contents of a block
          Blank,        \* initial content
          NoBuf,        \* marks a block that is not cached
          MAXOPBLOCKS,  \* blocks that begin_op() reserves for an operation
          OpBlocks,     \* blocks that an operation really writes at most
          LOGSIZE,      \* entries of struct logheader
          LogBlocks     \* log.size - 1: blocks of the log after the header

ASSUME LogAssumption ==
  /\ Blank \in Vals
  /\ NoBuf \notin Vals
  /\ MAXOPBLOCKS \in Nat /\ OpBlocks \in 0 .. MAXOPBLOCKS
  /\ LOGSIZE \in Nat /\ LogBlocks \in Nat

VARIABLES
  disk,         \* home location of every block
  logblk,       \* the blocks of the log
  head,         \* the header block: block numbers of a committed transaction
  cache,        \* content of the buffer of a block, or NoBuf
  pins,         \* references that bpin() holds on the buffer of a block
  lh,           \* log.lh: block numbers of the current transaction
  outstanding,  \* log.outstanding
  committing,   \* log.committing
  op,           \* what each process does: "sleeping" is sleep(&log)
  wrote,        \* blocks that each active operation has logged
  pc, tail      \* commit() or recover_from_log(): place and loop variable

diskVars == <<disk, logblk, head>>
vars == <<disk, logblk, head, cache, pins, lh, outstanding, committing, op,
          wrote, pc, tail>>

Content(b) == IF cache[b] # NoBuf THEN cache[b] ELSE disk[b]

\* A disk made by mkfs, and a kernel that has booted from it.
Init ==
  /\ disk = [b \in Blocks |-> Blank]
  /\ logblk = [i \in 1 .. LogBlocks |-> Blank]
  /\ head = <<>>
  /\ cache = [b \in Blocks |-> NoBuf]
  /\ pins = [b \in Blocks |-> 0]
  /\ lh = <<>>
  /\ outstanding = 0
  /\ committing = FALSE
  /\ op = [o \in Ops |-> "idle"]
  /\ wrote = [o \in Ops |-> {}]
  /\ pc = "idle"
  /\ tail = 1

Recovering == pc \in {"read_head", "r_install", "r_clear"}

-----------------------------------------------------------------------------
(* begin_op(), log_write(), end_op().  An operator whose comment starts    *)
(* with "Slip" is not part of the model: it is the operator below it with  *)
(* a plausible mistake, and shows that a property notices that mistake.    *)

\* Slip: the operation that begins is not counted.
HasSpace_off_by_one == Len(lh) + outstanding * MAXOPBLOCKS <= LOGSIZE

HasSpace == Len(lh) + (outstanding + 1) * MAXOPBLOCKS <= LOGSIZE

\* One turn of the loop of begin_op(), from its start or after a wakeup.
begin_op(o) ==
  /\ ~Recovering
  /\ op[o] \in {"idle", "woken"}
  /\ IF committing \/ ~HasSpace
     THEN op' = [op EXCEPT ![o] = "sleeping"] /\ UNCHANGED outstanding
     ELSE op' = [op EXCEPT ![o] = "active"] /\ outstanding' = outstanding + 1
  /\ UNCHANGED <<diskVars, cache, pins, lh, committing, wrote, pc, tail>>

\* The checks at the start of log_write(): "too big a transaction" (also for
\* a block that would be absorbed) and "log_write outside of trans".
LogWriteAllowed ==
  /\ Len(lh) < LOGSIZE /\ Len(lh) < LogBlocks
  /\ outstanding >= 1

\* Slip: the buffer is not pinned.
AddToLog_no_bpin(b) ==
  /\ lh' = IF b \in Range(lh) THEN lh ELSE Append(lh, b)
  /\ UNCHANGED pins

\* A block that is in the log already is absorbed.
AddToLog(b) ==
  IF b \in Range(lh)
  THEN UNCHANGED <<lh, pins>>
  ELSE /\ lh' = Append(lh, b)
       /\ pins' = [pins EXCEPT ![b] = @ + 1]

\* bread(), change of the data, log_write(), brelse(), all with the buffer
\* locked.
log_write(o, b, v) ==
  /\ op[o] = "active"
  /\ Cardinality(wrote[o] \cup {b}) <= OpBlocks
  /\ LogWriteAllowed                              \* else panic
  /\ cache' = [cache EXCEPT ![b] = v]
  /\ wrote' = [wrote EXCEPT ![o] = @ \cup {b}]
  /\ AddToLog(b)
  /\ UNCHANGED <<diskVars, outstanding, committing, op, pc, tail>>

\* Slip: only the caller's state changes.
WakeLog_lost(o, new) == [op EXCEPT ![o] = new]

\* wakeup(&log), after process o has done its own change.
WakeLog(o, new) ==
  [q \in Ops |-> IF q = o THEN new
                 ELSE IF op[q] = "sleeping" THEN "woken" ELSE op[q]]

\* end_op(), first critical section, and the start of commit().
end_op(o) ==
  /\ op[o] = "active"
  /\ ~committing                                  \* else panic
  /\ outstanding' = outstanding - 1
  /\ wrote' = [wrote EXCEPT ![o] = {}]
  /\ IF outstanding = 1
     THEN /\ committing' = TRUE
          /\ op' = [op EXCEPT ![o] = "commit"]
          /\ pc' = IF lh = <<>> THEN "done" ELSE "write_log"
          /\ tail' = 1
     ELSE /\ op' = WakeLog(o, "idle")
          /\ UNCHANGED <<committing, pc, tail>>
  /\ UNCHANGED <<diskVars, cache, pins, lh>>

\* end_op(), second critical section, after commit().
EndCommit(o) ==
  /\ op[o] = "commit"
  /\ pc = "done"
  /\ committing' = FALSE
  /\ op' = WakeLog(o, "idle")
  /\ pc' = "idle"
  /\ UNCHANGED <<diskVars, cache, pins, lh, outstanding, wrote, tail>>

-----------------------------------------------------------------------------
(* commit() *)

\* The loop goes on with the next block, or to the place called next.
Advance(next) ==
  IF tail < Len(lh) THEN tail' = tail + 1 /\ UNCHANGED pc
                    ELSE tail' = 1 /\ pc' = next

\* write_log(), one block.
write_log ==
  /\ pc = "write_log"
  /\ logblk' = [logblk EXCEPT ![tail] = Content(lh[tail])]
  /\ Advance("write_head")
  /\ UNCHANGED <<disk, head, cache, pins, lh, outstanding, committing, op, wrote>>

\* write_head(): the transaction commits.
write_head ==
  /\ pc = "write_head"
  /\ head' = lh
  /\ pc' = "install"
  /\ UNCHANGED <<disk, logblk, cache, pins, lh, outstanding, committing, op,
                 wrote, tail>>

\* if(recovering == 0) bunpin(dbuf).
bunpin(b) == pins' = IF pc = "install" THEN [pins EXCEPT ![b] = @ - 1] ELSE pins

\* install_trans(), one block, in commit() and in recovery.
install_trans ==
  LET b == lh[tail] IN
  /\ pc \in {"install", "r_install"}
  /\ bunpin(b)
  /\ Advance(IF pc = "install" THEN "clear" ELSE "r_clear")
  /\ cache' = [cache EXCEPT ![b] = logblk[tail]]
  /\ disk' = [disk EXCEPT ![b] = logblk[tail]]
  /\ UNCHANGED <<logblk, head, lh, outstanding, committing, op, wrote>>

\* log.lh.n = 0 and write_head(), the end of commit() and of recovery.
ClearHead ==
  /\ pc \in {"clear", "r_clear"}
  /\ lh' = <<>>
  /\ head' = <<>>
  /\ pc' = IF pc = "clear" THEN "done" ELSE "idle"
  /\ UNCHANGED <<disk, logblk, cache, pins, outstanding, committing, op, wrote,
                 tail>>

-----------------------------------------------------------------------------
(* Buffer cache, crash and recovery *)

\* bget() recycles a buffer with refcnt 0.
Recycle(b) ==
  /\ cache[b] # NoBuf
  /\ pins[b] = 0
  /\ cache' = [cache EXCEPT ![b] = NoBuf]
  /\ UNCHANGED <<diskVars, pins, lh, outstanding, committing, op, wrote, pc, tail>>

\* The machine stops and boots again: only the disk is left.
Crash ==
  /\ cache' = [b \in Blocks |-> NoBuf]
  /\ pins' = [b \in Blocks |-> 0]
  /\ lh' = <<>>
  /\ outstanding' = 0
  /\ committing' = FALSE
  /\ op' = [o \in Ops |-> "idle"]
  /\ wrote' = [o \in Ops |-> {}]
  /\ pc' = "read_head"
  /\ tail' = 1
  /\ UNCHANGED diskVars

\* Slip: a header found at boot is ignored.
read_head_ignored ==
  /\ pc = "read_head"
  /\ pc' = "r_clear"
  /\ UNCHANGED <<diskVars, cache, pins, lh, outstanding, committing, op, wrote,
                 tail>>

\* initlog(): read_head(), then install_trans(1) unless the log is empty.
read_head ==
  /\ pc = "read_head"
  /\ lh' = head
  /\ pc' = IF head = <<>> THEN "r_clear" ELSE "r_install"
  /\ UNCHANGED <<diskVars, cache, pins, outstanding, committing, op, wrote, tail>>

-----------------------------------------------------------------------------
Commit == write_log \/ write_head \/ install_trans \/ ClearHead \/ read_head

Next ==
  \/ \E o \in Ops : begin_op(o) \/ end_op(o) \/ EndCommit(o)
  \/ \E o \in Ops, b \in Blocks, v \in Vals : log_write(o, b, v)
  \/ Commit
  \/ \E b \in Blocks : Recycle(b)
  \/ Crash

Spec == Init /\ [][Next]_vars

\* Without crashes, and with every operation that has begun, every woken
\* process and the commit getting their turn.
LiveNext ==
  \/ \E o \in Ops : begin_op(o) \/ end_op(o) \/ EndCommit(o)
  \/ \E o \in Ops, b \in Blocks, v \in Vals : log_write(o, b, v)
  \/ Commit

Fairness ==
  /\ WF_vars(Commit)
  /\ \A o \in Ops :
       /\ WF_vars(end_op(o))
       /\ WF_vars(EndCommit(o))
       /\ WF_vars(op[o] = "woken" /\ begin_op(o))

LiveSpec == Init /\ [][LiveNext]_vars /\ Fairness

-----------------------------------------------------------------------------
(* Properties *)

\* The space that begin_op() reserves is enough: no operation makes
\* log_write() panic, whatever other operations are outstanding or have
\* ended, and none is still active when another one commits (the panic of
\* end_op()).
NoLogPanic ==
  \A o \in Ops : op[o] = "active" =>
    /\ ~committing
    /\ \A b \in Blocks :
         Cardinality(wrote[o] \cup {b}) <= OpBlocks => LogWriteAllowed

\* The buffer of every block of the transaction stays pinned, once, until
\* install_trans() has written it, and no pin outlives the transaction.
PinnedWhileLogged ==
  ~Recovering =>
    \A b \in Blocks :
      pins[b] = Cardinality({i \in DOMAIN lh : lh[i] = b /\
                   (pc = "install" => i >= tail) /\ pc # "clear"})

\* What a restart makes of the disk.
Recovered ==
  [b \in Blocks |->
     IF \E i \in DOMAIN head : head[i] = b
     THEN logblk[CHOOSE i \in DOMAIN head : head[i] = b]
     ELSE disk[b]]

\* Operations are atomic with respect to crashes, also of recovery itself:
\* Log implements AtomicDisk.
AD == INSTANCE AtomicDisk WITH
        stable <- Recovered,
        current <- IF Recovering THEN Recovered
                   ELSE [b \in Blocks |-> Content(b)],
        active <- {o \in Ops : op[o] = "active"}
AtomicDiskSpec == AD!Spec

\* No wakeup is lost: a process that sleeps in begin_op() gets another turn.
SleeperWakes == \A o \in Ops : op[o] = "sleeping" ~> op[o] # "sleeping"

=============================================================================
