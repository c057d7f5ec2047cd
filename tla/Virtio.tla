------------------------------- MODULE Virtio -------------------------------
(***************************************************************************)
(* The disk driver (virtio_disk.c) and the device behind it.  A request    *)
(* takes three descriptors, is put into the available ring, is completed   *)
(* by the device in any order, and comes back through the used ring and an *)
(* interrupt.  Steps are critical sections of vdisk_lock; the interrupt    *)
(* handler handles one completion per step, and the device goes on         *)
(* meanwhile.  The rings hold what the other side has not seen             *)
(* yet: at most NUM / 3 requests are in flight, so they never fill.  The    *)
(* order in which the device looks at its requests does not show.          *)
(***************************************************************************)
EXTENDS Naturals, Sequences, FiniteSets, FiniteSetsExt

CONSTANTS Procs, Nobody,
          Bufs,     \* buffers of the cache
          Blocks,   \* disk blocks
          Vals,     \* contents of a block
          NUM       \* descriptors

ASSUME VirtioAssumption ==
  /\ IsFiniteSet(Procs) /\ IsFiniteSet(Bufs)
  /\ Nobody \notin Procs \cup Bufs \cup Blocks
  /\ Vals # {}
  /\ NUM \in Nat

Descs == 0 .. NUM - 1
None == NUM          \* no descriptor

VARIABLES
  platter,  \* what is on the disk
  data,     \* b->data
  bdisk,    \* b->disk: the device owns the buffer
  free,     \* disk.free, as a set of descriptors
  desc,     \* disk.desc[i].next, or None without VRING_DESC_F_NEXT
  req,      \* ops[i] and info[i]: type, sector and buffer of the request at i
  avail,    \* requests in the available ring, submitted and not completed
  used,     \* completions the driver has not seen
  irq,      \* the device requests an interrupt
  intr,     \* virtio_disk_intr() is running, with vdisk_lock
  io        \* io[p]: place of a process in virtio_disk_rw(), its request

driverVars == <<free, desc, req, avail, used, irq, intr>>
devVars == <<platter, data, bdisk, free, desc, req, avail, used, irq,
             intr, io>>

NoReq == [b |-> Nobody, write |-> FALSE, k |-> Nobody]
NoIo == [pc |-> "idle", r |-> NoReq, idx |-> None]

DevInit ==
  /\ platter = [k \in Blocks |-> CHOOSE v \in Vals : TRUE]
  /\ data = [b \in Bufs |-> CHOOSE v \in Vals : TRUE]
  /\ bdisk = [b \in Bufs |-> FALSE]
  /\ free = Descs
  /\ desc = [i \in Descs |-> None]
  /\ req = [i \in Descs |-> NoReq]
  /\ avail = {} /\ used = <<>>
  /\ irq = FALSE /\ intr = FALSE
  /\ io = [p \in Procs |-> NoIo]

\* wakeup(&disk.free[0]) among the processes of ios.
WakeFree(ios) ==
  [p \in Procs |-> IF ios[p].pc = "sleep free" THEN [ios[p] EXCEPT !.pc = "alloc"]
                   ELSE ios[p]]

-----------------------------------------------------------------------------
\* Slip: the descriptors taken before the missing one are kept.
GiveBack_none(got) == free \ got
GiveBack(got) == free

\* alloc3_desc() fails: what was taken is freed again, and free_desc() wakes
\* the others that wait for descriptors; then the process sleeps.
AllocFails(p) ==
  LET got == IF Cardinality(free) < 3 THEN free ELSE {} IN
  /\ io[p].pc = "alloc" /\ ~intr
  /\ Cardinality(free) < 3
  /\ free' = GiveBack(got)
  /\ io' = [IF got = {} THEN io ELSE WakeFree(io) EXCEPT ![p].pc = "sleep free"]
  /\ UNCHANGED <<platter, data, bdisk, desc, req, avail, used, irq, intr>>

\* The request is formatted and submitted; the process sleeps on the buffer.
Submit(p) ==
  LET i0 == Min(free)
      i1 == Min(free \ {i0})
      i2 == Min(free \ {i0, i1}) IN
  /\ io[p].pc = "alloc" /\ ~intr
  /\ Cardinality(free) >= 3
  /\ free' = free \ {i0, i1, i2}
  /\ desc' = [desc EXCEPT ![i0] = i1, ![i1] = i2, ![i2] = None]
  /\ req' = [req EXCEPT ![i0] = io[p].r]
  /\ bdisk' = [bdisk EXCEPT ![io[p].r.b] = TRUE]
  /\ avail' = avail \cup {i0}
  /\ io' = [io EXCEPT ![p].pc = "sleep b", ![p].idx = i0]
  /\ UNCHANGED <<platter, data, used, irq, intr>>

\* The chain that starts at descriptor i, as free_chain() follows it.
Chain(i) ==
  LET second == desc[i]
      third == IF second = None THEN None ELSE desc[second] IN
  {i, second, third} \ {None}

\* Slip: whoever waits for descriptors is not told.
AfterFree_silent(ios) == ios
AfterFree(ios) == WakeFree(ios)

\* The process wakes up, the buffer is its own again, the chain is freed.
Finish(p) ==
  LET i == io[p].idx IN
  /\ io[p].pc = "woken" /\ ~intr
  /\ ~bdisk[io[p].r.b]
  /\ free' = free \cup Chain(i)
  /\ desc' = [d \in Descs |-> IF d \in Chain(i) THEN None ELSE desc[d]]
  /\ req' = [req EXCEPT ![i] = NoReq]
  /\ io' = [AfterFree(io) EXCEPT ![p].pc = "done", ![p].idx = None]
  /\ UNCHANGED <<platter, data, bdisk, avail, used, irq, intr>>

-----------------------------------------------------------------------------
\* The device completes the requests in any order.
DeviceComplete(i) ==
  LET r == req[i] IN
  /\ i \in avail
  /\ IF r.write THEN /\ platter' = [platter EXCEPT ![r.k] = data[r.b]]
                     /\ UNCHANGED data
                ELSE /\ data' = [data EXCEPT ![r.b] = platter[r.k]]
                     /\ UNCHANGED platter
  /\ avail' = avail \ {i}
  /\ used' = Append(used, i)
  /\ irq' = TRUE
  /\ UNCHANGED <<bdisk, free, desc, req, intr, io>>

\* Slip: the handler wakes only sleepers for descriptors.
WakeBuf_free(b) == WakeFree(io)
WakeBuf(b) ==
  [p \in Procs |-> IF io[p].pc = "sleep b" /\ io[p].r.b = b
                   THEN [io[p] EXCEPT !.pc = "woken"] ELSE io[p]]

\* virtio_disk_intr(): acknowledge, then take every completion there is.
IntrStart ==
  /\ irq /\ ~intr
  /\ intr' = TRUE
  /\ irq' = FALSE
  /\ UNCHANGED <<platter, data, bdisk, free, desc, req, avail, used, io>>

IntrTake ==
  /\ intr
  /\ used # <<>>
  /\ bdisk' = [bdisk EXCEPT ![req[Head(used)].b] = FALSE]
  /\ io' = WakeBuf(req[Head(used)].b)
  /\ used' = Tail(used)
  /\ UNCHANGED <<platter, data, free, desc, req, avail, irq, intr>>

IntrEnd ==
  /\ intr
  /\ used = <<>>
  /\ intr' = FALSE
  /\ UNCHANGED <<platter, data, bdisk, free, desc, req, avail, used, irq, io>>

DriverStep(p) == AllocFails(p) \/ Submit(p) \/ Finish(p)
DeviceStep == \E i \in Descs : DeviceComplete(i)
IntrStep == IntrStart \/ IntrTake \/ IntrEnd
=============================================================================
