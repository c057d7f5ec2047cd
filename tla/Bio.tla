--------------------------------- MODULE Bio ---------------------------------
(***************************************************************************)
(* The buffer cache (bio.c) with the sleep-locks of its buffers            *)
(* (sleeplock.c), over the disk driver (Virtio).  Steps are critical       *)
(* sections of bcache.lock or of a sleep-lock's spinlock, or steps of the  *)
(* driver.                                                                 *)
(*                                                                         *)
(* The users are the file system and the log: a process changes a buffer   *)
(* only while it holds it, and before brelse() it writes the buffer or     *)
(* pins it (log_write); the log later writes and unpins it.                *)
(***************************************************************************)
EXTENDS Virtio

CONSTANTS MaxPins    \* bound on the buffers the log has pinned

VARIABLES
  blockno,  \* block of a buffer, or Nobody
  valid,    \* has the buffer been read from disk?
  refcnt,   \* users, sleepers and pins of a buffer
  owner,    \* holder of the sleep-lock of a buffer
  lru,      \* the buffers, most recently used first
  th,       \* place of a process and the buffer it works on
  dirty     \* buffers that differ from the disk, and are pinned

bioVars == <<blockno, valid, refcnt, owner, lru, dirty>>
vars == <<devVars, bioVars, th>>

Idle == [pc |-> "user", b |-> Nobody]

\* binit(): the list starts with the last buffer at its head.
Init ==
  /\ DevInit
  /\ blockno = [b \in Bufs |-> Nobody]
  /\ valid = [b \in Bufs |-> FALSE]
  /\ refcnt = [b \in Bufs |-> 0]
  /\ owner = [b \in Bufs |-> Nobody]
  /\ lru \in {s \in [1 .. Cardinality(Bufs) -> Bufs] : \A i, j \in DOMAIN s : i # j => s[i] # s[j]}
  /\ th = [p \in Procs |-> Idle]
  /\ dirty = {}

At(p, where) == th[p].pc = where
Goto(p, where) == th' = [th EXCEPT ![p].pc = where]
Cached(k) == {b \in Bufs : blockno[b] = k}

-----------------------------------------------------------------------------
\* bget(): the block is cached.
BgetHit(p, k) ==
  /\ At(p, "user")
  /\ \E b \in Cached(k) :
       /\ refcnt' = [refcnt EXCEPT ![b] = @ + 1]
       /\ th' = [th EXCEPT ![p] = [pc |-> "lock", b |-> b]]
  /\ UNCHANGED <<devVars, blockno, valid, owner, lru, dirty>>

\* Slip: any buffer at the end of the list is recycled.
Unused_any(b) == TRUE
Unused(b) == refcnt[b] = 0

\* bget(): the unused buffer nearest to the end of the list is recycled.
BgetRecycle(p, k) ==
  LET last == {i \in DOMAIN lru : Unused(lru[i])} IN
  /\ At(p, "user")
  /\ Cached(k) = {}
  /\ last # {}
  /\ LET b == lru[Max(last)] IN
       /\ blockno' = [blockno EXCEPT ![b] = k]
       /\ valid' = [valid EXCEPT ![b] = FALSE]
       /\ refcnt' = [refcnt EXCEPT ![b] = 1]
       /\ th' = [th EXCEPT ![p] = [pc |-> "lock", b |-> b]]
  /\ UNCHANGED <<devVars, owner, lru, dirty>>

\* virtio_disk_rw() is called.
StartIo(p, write) ==
  io' = [io EXCEPT ![p] = [pc |-> "alloc", idx |-> None,
           r |-> [b |-> th[p].b, write |-> write, k |-> blockno[th[p].b]]]]

\* acquiresleep() gets the lock; bread() returns the buffer if it is good ...
LockCached(p) ==
  LET b == th[p].b IN
  /\ At(p, "lock")
  /\ owner[b] = Nobody
  /\ valid[b]
  /\ owner' = [owner EXCEPT ![b] = p]
  /\ Goto(p, "have")
  /\ UNCHANGED <<devVars, blockno, valid, refcnt, lru, dirty>>

\* ... and reads it first if not.
LockRead(p) ==
  LET b == th[p].b IN
  /\ At(p, "lock")
  /\ owner[b] = Nobody
  /\ ~valid[b]
  /\ owner' = [owner EXCEPT ![b] = p]
  /\ StartIo(p, FALSE)
  /\ Goto(p, "reading")
  /\ UNCHANGED <<platter, data, bdisk, driverVars, blockno, valid, refcnt, lru, dirty>>

\* acquiresleep() finds the lock taken and sleeps.
LockSleep(p) ==
  /\ At(p, "lock")
  /\ owner[th[p].b] # Nobody
  /\ Goto(p, "sleep lock")
  /\ UNCHANGED <<devVars, bioVars>>

\* virtio_disk_rw() returns to bread() or bwrite().
IoReturns(p) ==
  LET b == th[p].b IN
  /\ th[p].pc \in {"reading", "writing"}
  /\ io[p].pc = "done"
  /\ io' = [io EXCEPT ![p] = NoIo]
  /\ valid' = [valid EXCEPT ![b] = TRUE]
  /\ Goto(p, IF At(p, "writing") /\ b \in dirty THEN "unpin" ELSE "have")
  /\ UNCHANGED <<platter, data, bdisk, driverVars, blockno, refcnt, owner, lru, dirty>>

\* bunpin(), by the log after it has written the buffer to its home.
Bunpin(p) ==
  LET b == th[p].b IN
  /\ At(p, "unpin")
  /\ refcnt' = [refcnt EXCEPT ![b] = @ - 1]
  /\ dirty' = dirty \ {b}
  /\ Goto(p, "have")
  /\ UNCHANGED <<devVars, blockno, valid, owner, lru>>

-----------------------------------------------------------------------------
\* The holder changes the content, and writes it through (bwrite) ...
Bwrite(p, v) ==
  LET b == th[p].b IN
  /\ At(p, "have")
  /\ data' = [data EXCEPT ![b] = v]
  /\ StartIo(p, TRUE)
  /\ Goto(p, "writing")
  /\ UNCHANGED <<platter, bdisk, driverVars, bioVars>>

\* ... or leaves it to the log, which pins the buffer (bpin) once.
Bpin(p, v) ==
  LET b == th[p].b IN
  /\ At(p, "have")
  /\ b \in dirty \/ Cardinality(dirty) < MaxPins
  /\ data' = [data EXCEPT ![b] = v]
  /\ refcnt' = [refcnt EXCEPT ![b] = IF b \in dirty THEN @ ELSE @ + 1]
  /\ dirty' = dirty \cup {b}
  /\ UNCHANGED <<platter, bdisk, driverVars, io, blockno, valid, owner, lru, th>>

\* releasesleep() in brelse() wakes who sleeps for the lock.
Unlock(p) ==
  LET b == th[p].b IN
  /\ At(p, "have")
  /\ owner' = [owner EXCEPT ![b] = Nobody]
  /\ th' = [q \in Procs |->
             IF q = p THEN [th[p] EXCEPT !.pc = "unref"]
             ELSE IF At(q, "sleep lock") /\ th[q].b = b
                  THEN [th[q] EXCEPT !.pc = "lock"] ELSE th[q]]
  /\ UNCHANGED <<devVars, blockno, valid, refcnt, lru, dirty>>

\* The buffers before b move one place back.
MoveToFront(b) ==
  LET at == CHOOSE i \in DOMAIN lru : lru[i] = b IN
  [i \in DOMAIN lru |-> IF i = 1 THEN b ELSE IF i <= at THEN lru[i - 1] ELSE lru[i]]

\* The rest of brelse(): the last user moves the buffer to the front.
Brelse(p) ==
  LET b == th[p].b IN
  /\ At(p, "unref")
  /\ refcnt' = [refcnt EXCEPT ![b] = @ - 1]
  /\ lru' = IF refcnt[b] = 1 THEN MoveToFront(b) ELSE lru
  /\ th' = [th EXCEPT ![p] = Idle]
  /\ UNCHANGED <<devVars, blockno, valid, owner, dirty>>

-----------------------------------------------------------------------------
UserStep(p) ==
  \/ LockCached(p) \/ LockRead(p) \/ LockSleep(p)
  \/ IoReturns(p) \/ Bunpin(p) \/ Unlock(p) \/ Brelse(p)

Next ==
  \/ \E p \in Procs : \/ \E k \in Blocks : BgetHit(p, k) \/ BgetRecycle(p, k)
                      \/ \E v \in Vals : Bwrite(p, v) \/ Bpin(p, v)
                      \/ UserStep(p)
                      \/ DriverStep(p) /\ UNCHANGED <<bioVars, th>>
  \/ (DeviceStep \/ IntrStep) /\ UNCHANGED <<bioVars, th>>

Spec == Init /\ [][Next]_vars

\* The device serves every request it is given, and its interrupt is taken and
\* handled to the end.  Nothing is assumed of the processes.
Fairness ==
  /\ \A i \in Descs : WF_vars(DeviceComplete(i) /\ UNCHANGED <<bioVars, th>>)
  /\ WF_vars(IntrStep /\ UNCHANGED <<bioVars, th>>)

LiveSpec == Spec /\ Fairness

-----------------------------------------------------------------------------
\* Every descriptor is free or in the chain of exactly one request whose
\* process is still in virtio_disk_rw(): none is lost when alloc3_desc() fails
\* half way or completions come out of order.
DescsAccounted ==
  LET busy == {p \in Procs : io[p].pc \in {"sleep b", "woken"}} IN
  /\ \A p, q \in busy : p # q => Chain(io[p].idx) \cap Chain(io[q].idx) = {}
  /\ \A p \in busy : Cardinality(Chain(io[p].idx)) = 3
  /\ free = Descs \ UNION {Chain(io[p].idx) : p \in busy}

\* Nobody sleeps over what it waits for: descriptors that are free, a lock
\* nobody holds, a request no longer on its way.  A completion the handler has
\* not seen has an interrupt to come, or the handler is still in its loop.
SleepersHaveReason ==
  /\ \A p \in Procs :
       /\ io[p].pc = "sleep free" => Cardinality(free) < 3
       /\ At(p, "sleep lock") => owner[th[p].b] # Nobody
       /\ io[p].pc = "sleep b" =>
            \/ io[p].idx \in avail
            \/ \E i \in DOMAIN used : used[i] = io[p].idx
  /\ used # <<>> => irq \/ intr

\* What a process would read in block k, and the process that has it.
Good(k) == {b \in Cached(k) : valid[b]}
Content == [k \in Blocks |-> IF Good(k) = {} THEN platter[k]
                             ELSE data[CHOOSE b \in Good(k) : TRUE]]
Hands(k) == {p \in Procs : /\ th[p].pc \in {"have", "writing", "unpin"}
                           /\ blockno[th[p].b] = k}
Holder == [k \in Blocks |-> IF Hands(k) = {} THEN Nobody
                            ELSE CHOOSE p \in Hands(k) : TRUE]

BS == INSTANCE BlockStore WITH val <- Content, holder <- Holder

\* The cache, the locks and the driver together are one content per block in
\* one pair of hands: a block is never in two buffers, recycling never loses a
\* change, and no transfer hits a buffer that has been given to another block.
BlockStoreSpec == BS!Spec

\* A buffer that the device has been given is given back, and its process can
\* go on: no completion is left in the used ring with nobody to look at it.
RequestReturns ==
  \A p \in Procs :
    io[p].pc = "sleep b" ~> io[p].pc = "woken" /\ ~bdisk[io[p].r.b]

=============================================================================
