------------------------------ MODULE BioProofs ------------------------------
(***************************************************************************)
(* Proofs about Bio, for every number of processes, buffers, blocks and    *)
(* descriptors: no descriptor is lost, nobody sleeps over what it waits    *)
(* for, and the cache, its locks and the driver together implement         *)
(* BlockStore, one content per block in one pair of hands.                 *)
(***************************************************************************)
EXTENDS Bio, FiniteSetTheorems, TLAPS

Holding == {"reading", "have", "writing", "unpin"}   \* with the sleep-lock held
Transfer == {"reading", "writing"}                   \* in virtio_disk_rw()
GoodHands == {"have", "writing", "unpin"}            \* with a buffer that has been read

ReqRec == [b : Bufs \cup {Nobody}, write : BOOLEAN, k : Blocks \cup {Nobody}]
IoRec == [pc : {"idle", "alloc", "sleep free", "sleep b", "woken", "done"},
          r : ReqRec, idx : Descs \cup {None}]
ThRec == [pc : {"user", "lock", "sleep lock", "unref"} \cup Holding, b : Bufs \cup {Nobody}]

DevType ==
  /\ platter \in [Blocks -> Vals]
  /\ data \in [Bufs -> Vals]
  /\ bdisk \in [Bufs -> BOOLEAN]
  /\ free \in SUBSET Descs
  /\ desc \in [Descs -> Descs \cup {None}]
  /\ req \in [Descs -> ReqRec]
  /\ avail \in SUBSET Descs
  /\ used \in Seq(Descs)
  /\ irq \in BOOLEAN
  /\ intr \in BOOLEAN
  /\ io \in [Procs -> IoRec]

BioType ==
  /\ blockno \in [Bufs -> Blocks \cup {Nobody}]
  /\ valid \in [Bufs -> BOOLEAN]
  /\ refcnt \in [Bufs -> Int]
  /\ owner \in [Bufs -> Procs \cup {Nobody}]
  /\ lru \in [1 .. Cardinality(Bufs) -> Bufs]
  /\ th \in [Procs -> ThRec]
  /\ dirty \in SUBSET Bufs

TypeOK == DevType /\ BioType

\* A process in the cache has a buffer, and the buffer has a block.
ThOK ==
  \A p \in Procs :
    /\ th[p].pc = "user" => th[p].b = Nobody
    /\ th[p].pc # "user" => th[p].b \in Bufs /\ blockno[th[p].b] \in Blocks

\* The holder of a sleep-lock is the process that is past acquiresleep().
OwnerOK ==
  /\ \A b \in Bufs, p \in Procs : owner[b] = p <=> th[p].b = b /\ th[p].pc \in Holding
  /\ \A p \in Procs : th[p].pc = "sleep lock" => owner[th[p].b] # Nobody

\* The request of a process is for the block of the buffer it holds.
IoOK ==
  \A p \in Procs :
    /\ io[p].pc # "idle" <=> th[p].pc \in Transfer
    /\ th[p].pc \in Transfer =>
         /\ io[p].r.b = th[p].b
         /\ io[p].r.write = (th[p].pc = "writing")
         /\ io[p].r.k = blockno[th[p].b]

\* A block is in one buffer; a buffer that is being read is not valid yet.
CacheOK ==
  /\ \A b \in Bufs : valid[b] => blockno[b] \in Blocks
  /\ \A b, c \in Bufs : blockno[b] \in Blocks /\ blockno[b] = blockno[c] => b = c
  /\ \A p \in Procs : th[p].pc = "reading" => ~valid[th[p].b]
  /\ \A p \in Procs : th[p].pc \in GoodHands => valid[th[p].b]
  /\ \A b \in dirty : valid[b]
  /\ \A p \in Procs : th[p].pc = "unpin" => th[p].b \in dirty

Users(b) == {p \in Procs : th[p].b = b}
Pin(b) == IF b \in dirty THEN 1 ELSE 0

\* refcnt counts the processes that have the buffer, and its pin.
RefOK == \A b \in Bufs : refcnt[b] = Cardinality(Users(b)) + Pin(b)

Busy(p) == io[p].pc \in {"sleep b", "woken"}

\* The descriptors of a request in flight are three, linked, and its own.
DescOK ==
  /\ \A p \in Procs : Busy(p) =>
       LET i == io[p].idx IN
       /\ i \in Descs /\ desc[i] \in Descs /\ desc[desc[i]] \in Descs
       /\ i # desc[i] /\ i # desc[desc[i]] /\ desc[i] # desc[desc[i]]
       /\ req[i] = io[p].r
  /\ \A p, q \in Procs : Busy(p) /\ Busy(q) /\ p # q =>
       Chain(io[p].idx) \cap Chain(io[q].idx) = {}
  /\ \A d \in Descs :
       d \in free <=> \A p \in Procs : Busy(p) => d \notin Chain(io[p].idx)

\* The rings hold the requests of the processes that sleep for their buffers,
\* each one once.
RingOK ==
  /\ \A i \in avail : \E p \in Procs : io[p].pc = "sleep b" /\ io[p].idx = i
  /\ \A i \in Range(used) :
       i \notin avail /\ \E p \in Procs : io[p].pc = "sleep b" /\ io[p].idx = i
  /\ \A j, k \in DOMAIN used : used[j] = used[k] => j = k
  /\ \A p \in Procs : io[p].pc = "sleep b" =>
       io[p].idx \in avail \cup Range(used)
  /\ used # <<>> => irq \/ intr
  /\ \A p \in Procs : io[p].pc = "sleep free" => Cardinality(free) < 3

\* b->disk says that a request for the buffer is in flight.
FlagOK == \A b \in Bufs : bdisk[b] <=> \E p \in Procs : io[p].pc = "sleep b" /\ io[p].r.b = b

\* The device has done what p asked for.
Served(p) ==
  \/ io[p].pc \in {"woken", "done"}
  \/ io[p].pc = "sleep b" /\ io[p].idx \notin avail

Writing(b) == \E p \in Procs : th[p].b = b /\ th[p].pc = "writing"

\* A valid buffer that is not pinned and not being written has what the disk
\* has; so has a buffer whose transfer is done.
DataOK ==
  /\ \A b \in Bufs : valid[b] /\ b \notin dirty /\ ~Writing(b) => data[b] = platter[blockno[b]]
  /\ \A p \in Procs : th[p].pc = "unpin" \/ Served(p) =>
       data[th[p].b] = platter[blockno[th[p].b]]

\* The inductive invariant.
IInv ==
  /\ TypeOK /\ ThOK /\ OwnerOK /\ IoOK /\ CacheOK /\ RefOK
  /\ DescOK /\ RingOK /\ FlagOK /\ DataOK

-----------------------------------------------------------------------------
(* Constants, records and sets *)

\* Nobody is no process, buffer or block; None is no descriptor.
LEMMA Consts ==
  /\ Nobody \notin Procs /\ Nobody \notin Bufs /\ Nobody \notin Blocks
  /\ None \notin Descs /\ Descs \subseteq Nat
  /\ IsFiniteSet(Procs) /\ IsFiniteSet(Descs)
  /\ NUM \in Nat /\ Cardinality(Bufs) \in Nat
<1>1. NUM \in Nat /\ Descs \subseteq Nat /\ None \notin Descs
  BY VirtioAssumption DEF Descs, None
<1>2. IsFiniteSet(Descs)
  BY <1>1, FS_Interval DEF Descs
<1>3. Cardinality(Bufs) \in Nat
  BY VirtioAssumption, FS_CardinalityType
<1> QED BY <1>1, <1>2, <1>3, VirtioAssumption

\* The places of a process are different from one another.
LEMMA Places ==
  /\ Transfer \subseteq Holding /\ GoodHands \subseteq Holding
  /\ "user" \notin Holding /\ "lock" \notin Holding /\ "sleep lock" \notin Holding
  /\ "unref" \notin Holding
  /\ \A x \in Holding : x \in {"reading", "have", "writing", "unpin"}
  /\ \A x \in Transfer : x \in {"reading", "writing"}
  /\ \A x \in GoodHands : x \in {"have", "writing", "unpin"}
BY DEF Transfer, Holding, GoodHands

\* Process p moves, and keeps its buffer.
LEMMA GotoFacts ==
  ASSUME TypeOK, NEW p \in Procs, NEW w \in {"user", "lock", "sleep lock", "unref"} \cup Holding,
         Goto(p, w)
  PROVE  /\ th' \in [Procs -> ThRec]
         /\ th'[p].pc = w
         /\ \A q \in Procs : th'[q].b = th[q].b
         /\ \A q \in Procs : q # p => th'[q] = th[q]
<1>1. th \in [Procs -> ThRec] /\ th[p] \in ThRec /\ th' = [th EXCEPT ![p].pc = w]
  BY DEF TypeOK, BioType, Goto
<1> DEFINE x == [th[p] EXCEPT !.pc = w]
<1>2. th' = [th EXCEPT ![p] = x]
  BY <1>1
<1>3. x \in ThRec /\ x.pc = w /\ x.b = th[p].b
  BY <1>1 DEF ThRec
<1>. HIDE DEF x
<1> QED BY <1>1, <1>2, <1>3

\* Process p takes another place and another buffer.
LEMMA ThFacts ==
  ASSUME TypeOK, NEW p \in Procs, NEW x \in ThRec, th' = [th EXCEPT ![p] = x]
  PROVE  /\ th' \in [Procs -> ThRec] /\ th'[p] = x
         /\ \A q \in Procs : q # p => th'[q] = th[q]
BY DEF TypeOK, BioType

\* The users of the buffers stay when every process keeps its buffer.
LEMMA SameUsers ==
  ASSUME \A q \in Procs : th'[q].b = th[q].b, NEW b
  PROVE  Users(b)' = Users(b)
BY DEF Users

\* A process comes to a buffer.
LEMMA MoreUsers ==
  ASSUME NEW p \in Procs, NEW b \in Bufs, th[p].b = Nobody, th'[p].b = b,
         \A q \in Procs : q # p => th'[q] = th[q], NEW c \in Bufs
  PROVE  /\ c = b => Users(c)' = Users(c) \cup {p} /\ p \notin Users(c)
         /\ c # b => Users(c)' = Users(c)
BY Consts DEF Users

\* A process leaves its buffer.
LEMMA LessUsers ==
  ASSUME NEW p \in Procs, NEW b \in Bufs, th[p].b = b, th'[p].b = Nobody,
         \A q \in Procs : q # p => th'[q] = th[q], NEW c \in Bufs
  PROVE  /\ c = b => Users(c)' = Users(c) \ {p} /\ p \in Users(c)
         /\ c # b => Users(c)' = Users(c)
BY Consts DEF Users

\* The users of a buffer can be counted.
LEMMA UsersFinite ==
  ASSUME NEW b
  PROVE  IsFiniteSet(Users(b)) /\ Cardinality(Users(b)) \in Nat
<1>1. Users(b) \in SUBSET Procs /\ IsFiniteSet(Procs)
  BY Consts DEF Users
<1>2. IsFiniteSet(Users(b))
  BY <1>1, FS_Subset
<1> QED BY <1>2, FS_CardinalityType

\* A buffer that is not in use is nobody's and not pinned.
LEMMA UnusedFacts ==
  ASSUME IInv, NEW b \in Bufs, refcnt[b] = 0
  PROVE  /\ \A p \in Procs : th[p].b # b
         /\ b \notin dirty /\ owner[b] = Nobody
<1>1. Cardinality(Users(b)) \in Nat /\ IsFiniteSet(Users(b))
  BY UsersFinite
<1>2. Cardinality(Users(b)) + Pin(b) = 0
  BY DEF IInv, RefOK
<1>3. Cardinality(Users(b)) = 0 /\ b \notin dirty
  BY <1>1, <1>2 DEF Pin
<1>4. Users(b) = {}
  BY <1>1, <1>3, FS_EmptySet
<1>5. \A p \in Procs : th[p].b # b
  BY <1>4 DEF Users
<1>6. owner[b] = Nobody
  <2>1. owner[b] \in Procs \cup {Nobody}
    BY DEF IInv, TypeOK, BioType
  <2>2. ASSUME NEW p \in Procs, owner[b] = p PROVE FALSE
    <3>1. th[p].b = b
      BY <2>2 DEF IInv, OwnerOK
    <3> QED BY <1>5, <3>1
  <2> QED BY <2>1, <2>2
<1> QED BY <1>3, <1>5, <1>6

\* Who waits for descriptors finds too few.
LEMMA FewFree ==
  ASSUME RingOK, NEW p \in Procs, io[p].pc = "sleep free"
  PROVE  Cardinality(free) < 3
BY DEF RingOK

\* Steps that leave the descriptors and the rings alone: the processes that
\* move have no request in flight.
LEMMA DriverFrame ==
  ASSUME DescOK, RingOK, FlagOK,
         UNCHANGED <<free, desc, req, avail, used, irq, intr, bdisk>>,
         \A p \in Procs : \/ io'[p] = io[p]
                          \/ /\ io[p].pc \in {"idle", "alloc", "sleep free", "done"}
                             /\ \/ io'[p].pc \in {"idle", "alloc"}
                                \/ io'[p].pc = "sleep free" /\ Cardinality(free) < 3
  PROVE  DescOK' /\ RingOK' /\ FlagOK'
<1>1. \A p \in Procs : /\ Busy(p)' <=> Busy(p)
                       /\ io'[p].pc = "sleep b" <=> io[p].pc = "sleep b"
                       /\ io'[p].pc = "sleep free" /\ io'[p] # io[p] => Cardinality(free) < 3
                       /\ Busy(p) => io'[p] = io[p]
  BY DEF Busy
<1>2. \A p \in Procs : io[p].pc = "sleep b" => Busy(p)
  BY DEF Busy
<1>3. \A i : Chain(i)' = Chain(i)
  BY DEF Chain
<1>4. DescOK'
  <2>1. ASSUME NEW p \in Procs, Busy(p)'
        PROVE  LET i == io'[p].idx IN
               /\ i \in Descs /\ desc'[i] \in Descs /\ desc'[desc'[i]] \in Descs
               /\ i # desc'[i] /\ i # desc'[desc'[i]] /\ desc'[i] # desc'[desc'[i]]
               /\ req'[i] = io'[p].r
    BY <1>1, <2>1 DEF DescOK
  <2>2. ASSUME NEW p \in Procs, NEW q \in Procs, Busy(p)', Busy(q)', p # q
        PROVE  (Chain(io[p].idx) \cap Chain(io[q].idx))' = {}
    <3>1. io'[p] = io[p] /\ io'[q] = io[q] /\ Busy(p) /\ Busy(q)
      BY <1>1, <2>2
    <3>2. Chain(io[p].idx) \cap Chain(io[q].idx) = {}
      BY <2>2, <3>1 DEF DescOK
    <3> QED BY <3>1, <3>2 DEF Chain
  <2>3. ASSUME NEW d \in Descs
        PROVE  d \in free' <=> \A p \in Procs : Busy(p)' => d \notin Chain(io[p].idx)'
    <3>1. \A p \in Procs : Busy(p) => Chain(io[p].idx)' = Chain(io[p].idx)
      BY <1>1 DEF Chain
    <3>2. d \in free <=> \A p \in Procs : Busy(p) => d \notin Chain(io[p].idx)
      BY DEF DescOK
    <3> QED BY <1>1, <3>1, <3>2
  <2> QED BY <2>1, <2>2, <2>3 DEF DescOK
<1>5. \A p \in Procs : io'[p].pc = "sleep b" =>
        io[p].pc = "sleep b" /\ io'[p].idx = io[p].idx /\ io'[p].r = io[p].r
  BY <1>1, <1>2
<1>6. \A p \in Procs : io[p].pc = "sleep b" =>
        io'[p].pc = "sleep b" /\ io'[p].idx = io[p].idx /\ io'[p].r = io[p].r
  BY <1>1, <1>2
<1>7. RingOK'
  <2>1. ASSUME NEW i \in avail PROVE \E p \in Procs : io'[p].pc = "sleep b" /\ io'[p].idx = i
    <3>1. PICK p \in Procs : io[p].pc = "sleep b" /\ io[p].idx = i
      BY DEF RingOK
    <3> QED BY <1>6, <3>1
  <2>2. ASSUME NEW i \in Range(used)
        PROVE  i \notin avail /\ \E p \in Procs : io'[p].pc = "sleep b" /\ io'[p].idx = i
    <3>1. PICK p \in Procs : io[p].pc = "sleep b" /\ io[p].idx = i
      BY DEF RingOK
    <3> QED BY <1>6, <3>1 DEF RingOK
  <2>3. ASSUME NEW p \in Procs, io'[p].pc = "sleep b"
        PROVE  io'[p].idx \in avail \cup Range(used)
    <3>1. io[p].pc = "sleep b" /\ io'[p].idx = io[p].idx
      BY <1>5, <2>3
    <3> QED BY <3>1 DEF RingOK
  <2>4. ASSUME NEW p \in Procs, io'[p].pc = "sleep free" PROVE Cardinality(free) < 3
    <3>1. CASE io'[p] = io[p]
      BY <2>4, <3>1, FewFree
    <3>2. CASE io'[p] # io[p]
      BY <1>1, <2>4, <3>2
    <3> QED BY <3>1, <3>2
  <2>5. /\ \A j, k \in DOMAIN used : used[j] = used[k] => j = k
        /\ used # <<>> => irq \/ intr
    BY DEF RingOK
  <2> QED BY <2>1, <2>2, <2>3, <2>4, <2>5 DEF RingOK
<1>8. FlagOK'
  <2> SUFFICES ASSUME NEW b \in Bufs
               PROVE  bdisk[b] <=> \E p \in Procs : io'[p].pc = "sleep b" /\ io'[p].r.b = b
    BY DEF FlagOK
  <2>1. bdisk[b] <=> \E p \in Procs : io[p].pc = "sleep b" /\ io[p].r.b = b
    BY DEF FlagOK
  <2> QED BY <1>5, <1>6, <2>1
<1> QED BY <1>4, <1>7, <1>8

\* A process in virtio_disk_rw() holds the buffer of its request, alone.
LEMMA TransferFacts ==
  ASSUME IInv, NEW p \in Procs, io[p].pc # "idle"
  PROVE  /\ th[p].pc \in Transfer /\ th[p].b \in Bufs /\ blockno[th[p].b] \in Blocks
         /\ owner[th[p].b] = p
         /\ io[p].r.b = th[p].b /\ io[p].r.write = (th[p].pc = "writing")
         /\ io[p].r.k = blockno[th[p].b]
         /\ \A q \in Procs : q # p /\ th[q].pc \in Holding => th[q].b # th[p].b
<1>1. th[p].pc \in Transfer
  BY DEF IInv, IoOK
<1>2. th[p].pc \in Holding /\ th[p].pc # "user"
  BY <1>1, Places
<1>3. th[p].b \in Bufs /\ blockno[th[p].b] \in Blocks
  BY <1>2 DEF IInv, ThOK
<1>4. owner[th[p].b] = p
  BY <1>2, <1>3 DEF IInv, OwnerOK
<1>5. ASSUME NEW q \in Procs, q # p, th[q].pc \in Holding PROVE th[q].b # th[p].b
  <2>1. PICK b \in Bufs : b = th[p].b
    BY <1>3
  <2>2. owner[b] = q <=> th[q].b = b /\ th[q].pc \in Holding
    BY DEF IInv, OwnerOK
  <2> QED BY <1>4, <1>5, <2>1, <2>2
<1> QED BY <1>1, <1>3, <1>4, <1>5 DEF IInv, IoOK

-----------------------------------------------------------------------------
(* What steps of the cache leave alone *)

\* Nobody gets or gives up a sleep-lock.
LEMMA OwnerFrame ==
  ASSUME OwnerOK, UNCHANGED owner,
         \A q \in Procs :
           \/ th'[q].b = th[q].b /\ (th'[q].pc \in Holding <=> th[q].pc \in Holding)
           \/ th'[q].pc \notin Holding /\ th[q].pc \notin Holding,
         \A q \in Procs : th'[q].pc = "sleep lock" => th'[q] = th[q] \/ owner[th'[q].b] # Nobody
  PROVE  OwnerOK'
<1>1. ASSUME NEW b \in Bufs, NEW q \in Procs
      PROVE  (owner[b] = q <=> th[q].b = b /\ th[q].pc \in Holding)'
  <2>1. owner[b] = q <=> th[q].b = b /\ th[q].pc \in Holding
    BY DEF OwnerOK
  <2>2. CASE th'[q].b = th[q].b /\ (th'[q].pc \in Holding <=> th[q].pc \in Holding)
    BY <2>1, <2>2
  <2>3. CASE th'[q].pc \notin Holding /\ th[q].pc \notin Holding
    BY <2>1, <2>3
  <2> QED BY <2>2, <2>3
<1>2. ASSUME NEW q \in Procs, th'[q].pc = "sleep lock" PROVE (owner[th[q].b] # Nobody)'
  <2>1. CASE th'[q] = th[q]
    BY <1>2, <2>1 DEF OwnerOK
  <2>2. CASE th'[q] # th[q]
    BY <1>2, <2>2
  <2> QED BY <2>1, <2>2
<1> QED BY <1>1, <1>2 DEF OwnerOK

\* Nobody calls virtio_disk_rw() or returns from it.
LEMMA IoFrame ==
  ASSUME IoOK, UNCHANGED <<io, blockno>>,
         \A q \in Procs : \/ th'[q] = th[q]
                          \/ th'[q].pc \notin Transfer /\ th[q].pc \notin Transfer
  PROVE  IoOK'
BY DEF IoOK

\* The buffers keep their blocks, and nobody gets one.
LEMMA CacheFrame ==
  ASSUME CacheOK, UNCHANGED <<blockno, valid, dirty>>,
         \A q \in Procs : \/ th'[q] = th[q]
                          \/ th'[q].pc \notin Holding
                          \/ th'[q].pc = "have" /\ valid[th'[q].b]
                          \/ th'[q].pc = "reading" /\ ~valid[th'[q].b]
  PROVE  CacheOK'
<1>1. ASSUME NEW q \in Procs, th'[q].pc = "reading" PROVE ~valid[th'[q].b]
  <2>1. th'[q] = th[q] \/ ~valid[th'[q].b]
    BY <1>1, Places DEF Holding
  <2> QED BY <1>1, <2>1 DEF CacheOK
<1>2. ASSUME NEW q \in Procs, th'[q].pc \in GoodHands PROVE valid[th'[q].b]
  <2>1. CASE th'[q] = th[q]
    BY <1>2, <2>1 DEF CacheOK
  <2>2. CASE th'[q] # th[q]
    BY <1>2, <2>2, Places
  <2> QED BY <2>1, <2>2
<1>3. ASSUME NEW q \in Procs, th'[q].pc = "unpin" PROVE th'[q].b \in dirty
  <2>1. th'[q] = th[q]
    BY <1>3, Places DEF Holding
  <2> QED BY <1>3, <2>1 DEF CacheOK
<1>4. /\ \A b \in Bufs : valid[b] => blockno[b] \in Blocks
      /\ \A b, c \in Bufs : blockno[b] \in Blocks /\ blockno[b] = blockno[c] => b = c
      /\ \A b \in dirty : valid[b]
  BY DEF CacheOK
<1> QED BY <1>1, <1>2, <1>3, <1>4 DEF CacheOK

\* The counts stay.
LEMMA RefFrame ==
  ASSUME RefOK, UNCHANGED <<refcnt, dirty>>, \A q \in Procs : th'[q].b = th[q].b
  PROVE  RefOK'
<1>1. \A b \in Bufs : Users(b)' = Users(b) /\ Pin(b)' = Pin(b)
  BY SameUsers DEF Pin
<1> QED BY <1>1 DEF RefOK

\* The contents stay, and nobody begins or ends a transfer.
LEMMA DataFrame ==
  ASSUME DataOK, UNCHANGED <<platter, data, blockno, valid, dirty, avail>>,
         \A q \in Procs : \/ th'[q] = th[q] /\ io'[q] = io[q]
                          \/ /\ th[q].pc # "writing" /\ th'[q].pc \notin {"writing", "unpin"}
                             /\ io'[q].pc \in {"idle", "alloc"}
  PROVE  DataOK'
<1>1. \A b \in Bufs : Writing(b) => Writing(b)'
  BY DEF Writing
<1>2. ASSUME NEW q \in Procs, th'[q].pc = "unpin" \/ Served(q)'
      PROVE  data[th'[q].b] = platter[blockno[th'[q].b]]
  <2>1. th'[q] = th[q] /\ io'[q] = io[q]
    BY <1>2 DEF Served
  <2>2. th[q].pc = "unpin" \/ Served(q)
    BY <1>2, <2>1 DEF Served
  <2> QED BY <2>1, <2>2 DEF DataOK
<1>3. ASSUME NEW b \in Bufs, valid[b], b \notin dirty, ~Writing(b)'
      PROVE  data[b] = platter[blockno[b]]
  BY <1>1, <1>3 DEF DataOK
<1> QED BY <1>2, <1>3 DEF DataOK

\* A process that is not in virtio_disk_rw() has no request.
LEMMA IdleIo ==
  ASSUME IInv, NEW p \in Procs, th[p].pc \notin Transfer
  PROVE  io[p].pc = "idle"
BY DEF IInv, IoOK

-----------------------------------------------------------------------------
(* bget() *)

\* The block is cached.
LEMMA BgetHitInv ==
  ASSUME IInv, NEW p \in Procs, NEW k \in Blocks, BgetHit(p, k) PROVE IInv'
<1>1. /\ th[p].pc = "user"
      /\ UNCHANGED <<devVars, blockno, valid, owner, lru, dirty>>
  BY DEF BgetHit, At
<1>2. PICK b \in Bufs : /\ blockno[b] = k
                        /\ refcnt' = [refcnt EXCEPT ![b] = @ + 1]
                        /\ th' = [th EXCEPT ![p] = [pc |-> "lock", b |-> b]]
  BY DEF BgetHit, Cached
<1>3. UNCHANGED <<platter, data, bdisk, free, desc, req, avail, used, irq, intr, io>>
  BY <1>1 DEF devVars
<1> DEFINE x == [pc |-> "lock", b |-> b]
<1>4. x \in ThRec /\ x.pc = "lock" /\ x.b = b
  BY DEF ThRec
<1>. HIDE DEF x
<1>5. th' \in [Procs -> ThRec] /\ th'[p] = x /\ \A q \in Procs : q # p => th'[q] = th[q]
  BY <1>2, <1>4, ThFacts DEF IInv, x
<1>6. th[p].b = Nobody /\ io[p].pc = "idle"
  BY <1>1, IdleIo, Places DEF IInv, ThOK, Transfer
<1>7. \A c \in Bufs : refcnt[c] \in Int /\ refcnt'[c] = IF c = b THEN refcnt[c] + 1 ELSE refcnt[c]
  BY <1>2 DEF IInv, TypeOK, BioType
<1>8. refcnt' \in [Bufs -> Int]
  BY <1>2 DEF IInv, TypeOK, BioType
<1>9. TypeOK'
  BY <1>1, <1>3, <1>5, <1>8 DEF IInv, TypeOK, DevType, BioType
<1>10. ThOK'
  BY <1>1, <1>2, <1>4, <1>5 DEF IInv, ThOK
<1>11. OwnerOK'
  BY <1>1, <1>4, <1>5, OwnerFrame, Places DEF IInv
<1>12. IoOK'
  BY <1>1, <1>3, <1>4, <1>5, IoFrame DEF IInv, Transfer
<1>13. CacheOK'
  BY <1>1, <1>4, <1>5, CacheFrame, Places DEF IInv
<1>14. RefOK'
  <2> SUFFICES ASSUME NEW c \in Bufs PROVE (refcnt[c] = Cardinality(Users(c)) + Pin(c))'
    BY DEF RefOK
  <2>1. refcnt[c] = Cardinality(Users(c)) + Pin(c) /\ Pin(c)' = Pin(c) /\ Pin(c) \in Int
    BY <1>1 DEF IInv, RefOK, Pin
  <2>2. IsFiniteSet(Users(c)) /\ Cardinality(Users(c)) \in Nat
    BY UsersFinite
  <2>3. CASE c = b
    <3>1. Users(c)' = Users(c) \cup {p} /\ p \notin Users(c)
      BY <1>4, <1>5, <1>6, <2>3, MoreUsers
    <3>2. Cardinality(Users(c) \cup {p}) = Cardinality(Users(c)) + 1
      BY <2>2, <3>1, FS_AddElement
    <3> QED BY <1>7, <2>1, <2>2, <2>3, <3>1, <3>2
  <2>4. CASE c # b
    BY <1>4, <1>5, <1>6, <1>7, <2>1, <2>4, MoreUsers
  <2> QED BY <2>3, <2>4
<1>15. DescOK' /\ RingOK' /\ FlagOK'
  BY <1>3, DriverFrame DEF IInv
<1>16. DataOK'
  BY <1>1, <1>3, <1>4, <1>5, <1>6, DataFrame DEF IInv
<1> QED BY <1>9, <1>10, <1>11, <1>12, <1>13, <1>14, <1>15, <1>16 DEF IInv

\* A nonempty set of numbers has a least element.
LEMMA Least ==
  ASSUME NEW T \in SUBSET Nat, T # {}
  PROVE  Min(T) \in T
<1> DEFINE R == {ss \in Nat \X Nat : ss[1] < ss[2]}
<1>1. IsWellFoundedOn(R, Nat)
  BY NatLessThanWellFounded, Zenon DEF OpToRel
<1>. HIDE DEF R
<1>2. \E x \in T : \A y \in T : ~(<<y, x>> \in R)
  BY <1>1, WFMin, Zenon
<1>3. \A x, y \in Nat : ~(<<y, x>> \in R) => x <= y
  BY DEF R
<1>4. \E x \in T : \A y \in T : x <= y
  BY <1>2, <1>3
<1> QED BY <1>4 DEF Min

\* A nonempty set of numbers up to N has a greatest element.
LEMMA Greatest ==
  ASSUME NEW N \in Nat, NEW T \in SUBSET (1 .. N), T # {}
  PROVE  Max(T) \in T
<1> DEFINE U == {n \in Nat : \E t \in T : n = N - t}
           R == {ss \in Nat \X Nat : ss[1] < ss[2]}
<1>1. IsWellFoundedOn(R, Nat)
  BY NatLessThanWellFounded, Zenon DEF OpToRel
<1>2. U \subseteq Nat /\ U # {}
  <2>1. PICK t \in T : TRUE
    OBVIOUS
  <2>2. N - t \in Nat
    BY <2>1
  <2>3. N - t \in U
    BY <2>1, <2>2
  <2> QED BY <2>3
<1>3. \A x, y \in Nat : ~(<<y, x>> \in R) => x <= y
  BY DEF R
<1>4. \A n : n \in U <=> n \in Nat /\ \E t \in T : n = N - t
  OBVIOUS
<1>. HIDE DEF R, U
<1>5. \E x \in U : \A y \in U : ~(<<y, x>> \in R)
  BY <1>1, <1>2, WFMin, Zenon
<1>6. PICK x \in U : \A y \in U : x <= y
  BY <1>2, <1>3, <1>5
<1>7. PICK t \in T : x = N - t
  BY <1>4, <1>6
<1>8. ASSUME NEW y \in T PROVE t >= y
  <2>1. y \in 1 .. N /\ t \in 1 .. N
    OBVIOUS
  <2>2. N - y \in Nat
    BY <2>1
  <2>3. N - y \in U
    BY <1>4, <2>2
  <2>4. N - t <= N - y
    BY <1>6, <1>7, <2>3
  <2> QED BY <2>1, <2>4
<1> QED BY <1>8 DEF Max

\* An unused buffer is given to the block.
LEMMA BgetRecycleInv ==
  ASSUME IInv, NEW p \in Procs, NEW k \in Blocks, BgetRecycle(p, k) PROVE IInv'
<1> DEFINE last == {i \in DOMAIN lru : Unused(lru[i])}
<1>1. /\ th[p].pc = "user" /\ Cached(k) = {} /\ last # {}
      /\ UNCHANGED <<devVars, owner, lru, dirty>>
  BY DEF BgetRecycle, At
<1>2. /\ blockno' = [blockno EXCEPT ![lru[Max(last)]] = k]
      /\ valid' = [valid EXCEPT ![lru[Max(last)]] = FALSE]
      /\ refcnt' = [refcnt EXCEPT ![lru[Max(last)]] = 1]
      /\ th' = [th EXCEPT ![p] = [pc |-> "lock", b |-> lru[Max(last)]]]
  BY DEF BgetRecycle
<1>3. Max(last) \in last
  <2>1. DOMAIN lru = 1 .. Cardinality(Bufs) /\ Cardinality(Bufs) \in Nat
    BY Consts DEF IInv, TypeOK, BioType
  <2>2. last \in SUBSET (1 .. Cardinality(Bufs))
    BY <2>1
  <2>. HIDE DEF last
  <2> QED BY <1>1, <2>1, <2>2, Greatest
<1>4. PICK b \in Bufs : b = lru[Max(last)] /\ refcnt[b] = 0
  BY <1>3 DEF IInv, TypeOK, BioType, Unused
<1>5. UNCHANGED <<platter, data, bdisk, free, desc, req, avail, used, irq, intr, io>>
  BY <1>1 DEF devVars
<1> DEFINE x == [pc |-> "lock", b |-> b]
<1>6. /\ blockno' = [blockno EXCEPT ![b] = k] /\ valid' = [valid EXCEPT ![b] = FALSE]
      /\ refcnt' = [refcnt EXCEPT ![b] = 1] /\ th' = [th EXCEPT ![p] = x]
  BY <1>2, <1>4
<1>7. x \in ThRec /\ x.pc = "lock" /\ x.b = b
  BY DEF ThRec
<1>. HIDE DEF x, last
<1>8. th' \in [Procs -> ThRec] /\ th'[p] = x /\ \A q \in Procs : q # p => th'[q] = th[q]
  BY <1>6, <1>7, ThFacts DEF IInv
<1>9. th[p].b = Nobody /\ io[p].pc = "idle"
  BY <1>1, IdleIo, Places DEF IInv, ThOK, Transfer
<1>10. (\A q \in Procs : th[q].b # b) /\ b \notin dirty
  BY <1>4, UnusedFacts
<1>11. /\ blockno' \in [Bufs -> Blocks \cup {Nobody}] /\ valid' \in [Bufs -> BOOLEAN]
       /\ refcnt' \in [Bufs -> Int]
  BY <1>6 DEF IInv, TypeOK, BioType
<1>12. /\ \A c \in Bufs : c # b => /\ blockno'[c] = blockno[c] /\ valid'[c] = valid[c]
                                   /\ refcnt'[c] = refcnt[c]
       /\ blockno'[b] = k /\ ~valid'[b] /\ refcnt'[b] = 1
  BY <1>6 DEF IInv, TypeOK, BioType
<1>13. \A c \in Bufs : blockno[c] # k
  BY <1>1 DEF Cached
<1>14. TypeOK'
  BY <1>1, <1>5, <1>8, <1>11 DEF IInv, TypeOK, DevType, BioType
<1>15. ThOK'
  BY <1>7, <1>8, <1>10, <1>12 DEF IInv, ThOK
<1>16. OwnerOK'
  BY <1>1, <1>7, <1>8, OwnerFrame, Places DEF IInv
<1>17. IoOK'
  <2> SUFFICES ASSUME NEW q \in Procs
               PROVE  (/\ io[q].pc # "idle" <=> th[q].pc \in Transfer
                       /\ th[q].pc \in Transfer =>
                            /\ io[q].r.b = th[q].b
                            /\ io[q].r.write = (th[q].pc = "writing")
                            /\ io[q].r.k = blockno[th[q].b])'
    BY DEF IoOK
  <2>1. CASE q = p
    BY <1>5, <1>7, <1>8, <1>9, <2>1 DEF Transfer
  <2>2. CASE q # p
    <3>1. th[q].pc \in Transfer => th[q].b \in Bufs /\ th[q].b # b
      BY <1>10, Places DEF IInv, ThOK, Transfer
    <3> QED BY <1>5, <1>8, <1>12, <2>2, <3>1 DEF IInv, IoOK
  <2> QED BY <2>1, <2>2
<1>18. CacheOK'
  <2>1. \A q \in Procs : th'[q].pc \in Holding => th'[q] = th[q] /\ th[q].b \in Bufs /\ th[q].b # b
    BY <1>7, <1>8, <1>10, Places DEF IInv, ThOK
  <2>2. \A c \in Bufs : valid'[c] => blockno'[c] \in Blocks
    BY <1>12 DEF IInv, CacheOK
  <2>3. \A c, d \in Bufs : blockno'[c] \in Blocks /\ blockno'[c] = blockno'[d] => c = d
    BY <1>12, <1>13 DEF IInv, CacheOK
  <2>4. \A q \in Procs : th'[q].pc = "reading" => ~valid'[th'[q].b]
    BY <1>12, <2>1, Places DEF IInv, CacheOK, Holding
  <2>5. \A q \in Procs : th'[q].pc \in GoodHands => valid'[th'[q].b]
    BY <1>12, <2>1, Places DEF IInv, CacheOK
  <2>6. \A c \in dirty' : valid'[c]
    BY <1>1, <1>10, <1>12 DEF IInv, CacheOK, TypeOK, BioType
  <2>7. \A q \in Procs : th'[q].pc = "unpin" => th'[q].b \in dirty'
    BY <1>1, <2>1, Places DEF IInv, CacheOK, Holding
  <2> QED BY <2>2, <2>3, <2>4, <2>5, <2>6, <2>7 DEF CacheOK
<1>19. RefOK'
  <2> SUFFICES ASSUME NEW c \in Bufs PROVE (refcnt[c] = Cardinality(Users(c)) + Pin(c))'
    BY DEF RefOK
  <2>1. refcnt[c] = Cardinality(Users(c)) + Pin(c) /\ Pin(c)' = Pin(c) /\ Pin(c) \in Int
    BY <1>1 DEF IInv, RefOK, Pin
  <2>2. CASE c = b
    <3>1. Users(c) = {}
      BY <1>10, <2>2 DEF Users
    <3>2. Users(c)' = {p}
      BY <1>7, <1>8, <1>9, <2>2, <3>1, MoreUsers
    <3>3. Cardinality({p}) = 1
      BY FS_Singleton
    <3>4. Pin(c)' = 0
      BY <1>10, <2>1, <2>2 DEF Pin
    <3> QED BY <1>12, <2>2, <3>2, <3>3, <3>4
  <2>3. CASE c # b
    BY <1>7, <1>8, <1>9, <1>12, <2>1, <2>3, MoreUsers
  <2> QED BY <2>2, <2>3
<1>20. DescOK' /\ RingOK' /\ FlagOK'
  BY <1>5, DriverFrame DEF IInv
<1>21. DataOK'
  <2>1. \A c \in Bufs : c # b => (Writing(c) => Writing(c)')
    BY <1>1, <1>8 DEF Writing
  <2>2. ASSUME NEW c \in Bufs, valid'[c], c \notin dirty', ~Writing(c)'
        PROVE  data'[c] = platter'[blockno'[c]]
    <3>1. c # b
      BY <1>12, <2>2
    <3> QED BY <1>1, <1>5, <1>12, <2>1, <2>2, <3>1 DEF IInv, DataOK
  <2>3. ASSUME NEW q \in Procs, th'[q].pc = "unpin" \/ Served(q)'
        PROVE  data'[th'[q].b] = platter'[blockno'[th'[q].b]]
    <3>1. q # p
      BY <1>5, <1>7, <1>8, <1>9, <2>3 DEF Served
    <3>2. th[q].pc = "unpin" \/ Served(q)
      BY <1>5, <1>8, <2>3, <3>1 DEF Served
    <3>3. th[q].pc \in Holding
      BY <3>2, TransferFacts, Places DEF Served, Holding
    <3>4. th[q].b \in Bufs /\ th[q].b # b
      BY <1>10, <3>3, Places DEF IInv, ThOK
    <3> QED BY <1>5, <1>8, <1>12, <3>1, <3>2, <3>4 DEF IInv, DataOK
  <2> QED BY <2>2, <2>3 DEF DataOK
<1> QED BY <1>14, <1>15, <1>16, <1>17, <1>18, <1>19, <1>20, <1>21 DEF IInv

-----------------------------------------------------------------------------
(* acquiresleep() and bread() *)

\* Who holds a sleep-lock.
LEMMA OwnerIs ==
  ASSUME OwnerOK, NEW c \in Bufs, NEW q \in Procs
  PROVE  owner[c] = q <=> th[q].b = c /\ th[q].pc \in Holding
BY DEF OwnerOK

\* One process calls virtio_disk_rw() or returns from it.
LEMMA IoOne ==
  ASSUME IoOK, UNCHANGED blockno, NEW p \in Procs,
         \A q \in Procs : q # p => th'[q] = th[q] /\ io'[q] = io[q],
         io'[p].pc # "idle" <=> th'[p].pc \in Transfer,
         th'[p].pc \in Transfer => /\ io'[p].r.b = th'[p].b
                                   /\ io'[p].r.write = (th'[p].pc = "writing")
                                   /\ io'[p].r.k = blockno[th'[p].b]
  PROVE  IoOK'
<1> SUFFICES ASSUME NEW q \in Procs
             PROVE  /\ io'[q].pc # "idle" <=> th'[q].pc \in Transfer
                    /\ th'[q].pc \in Transfer =>
                         /\ io'[q].r.b = th'[q].b
                         /\ io'[q].r.write = (th'[q].pc = "writing")
                         /\ io'[q].r.k = blockno[th'[q].b]
  BY DEF IoOK
<1>1. CASE q = p
  BY <1>1
<1>2. CASE q # p
  <2>1. th'[q] = th[q] /\ io'[q] = io[q]
    BY <1>2
  <2> QED BY <2>1 DEF IoOK
<1> QED BY <1>1, <1>2

\* A free sleep-lock is taken.
LEMMA TakeLock ==
  ASSUME TypeOK, OwnerOK, NEW p \in Procs, NEW b \in Bufs, th[p].b = b, owner[b] = Nobody,
         owner' = [owner EXCEPT ![b] = p], th'[p].pc \in Holding,
         \A q \in Procs : th'[q].b = th[q].b, \A q \in Procs : q # p => th'[q] = th[q]
  PROVE  OwnerOK' /\ owner' \in [Bufs -> Procs \cup {Nobody}]
<1>1. /\ owner' \in [Bufs -> Procs \cup {Nobody}] /\ owner'[b] = p
      /\ \A c \in Bufs : c # b => owner'[c] = owner[c]
  BY DEF TypeOK, BioType
<1>2. ASSUME NEW c \in Bufs, NEW q \in Procs
      PROVE  (owner[c] = q <=> th[q].b = c /\ th[q].pc \in Holding)'
  <2>1. owner[c] = q <=> th[q].b = c /\ th[q].pc \in Holding
    BY OwnerIs
  <2>2. CASE q = p /\ c = b
    BY <1>1, <2>2
  <2>3. CASE q = p /\ c # b
    BY <1>1, <2>1, <2>3
  <2>4. CASE q # p /\ c = b
    BY <1>1, <2>1, <2>4, Consts
  <2>5. CASE q # p /\ c # b
    BY <1>1, <2>1, <2>5
  <2> QED BY <2>2, <2>3, <2>4, <2>5
<1>3. ASSUME NEW q \in Procs, th'[q].pc = "sleep lock" PROVE (owner[th[q].b] # Nobody)'
  <2>1. q # p /\ th'[q] = th[q]
    BY <1>3, Places
  <2>2. owner[th[q].b] # Nobody
    BY <1>3, <2>1 DEF OwnerOK
  <2>3. th[q].b # b
    BY <2>2
  <2>4. owner'[th[q].b] = owner[th[q].b]
    BY <2>3 DEF TypeOK, BioType
  <2> QED BY <2>1, <2>2, <2>4
<1> QED BY <1>1, <1>2, <1>3 DEF OwnerOK

\* The buffer is good: bread() returns it.
LEMMA LockCachedInv ==
  ASSUME IInv, NEW p \in Procs, LockCached(p) PROVE IInv'
<1>1. /\ th[p].pc = "lock" /\ Goto(p, "have")
      /\ UNCHANGED <<devVars, blockno, valid, refcnt, lru, dirty>>
  BY DEF LockCached, At
<1>2. PICK b \in Bufs : b = th[p].b /\ blockno[b] \in Blocks
  BY <1>1 DEF IInv, ThOK
<1>3. owner[b] = Nobody /\ valid[b] /\ owner' = [owner EXCEPT ![b] = p]
  BY <1>2 DEF LockCached
<1>4. UNCHANGED <<platter, data, bdisk, free, desc, req, avail, used, irq, intr, io>>
  BY <1>1 DEF devVars
<1>5. /\ th' \in [Procs -> ThRec] /\ th'[p].pc = "have"
      /\ \A q \in Procs : th'[q].b = th[q].b
      /\ \A q \in Procs : q # p => th'[q] = th[q]
  BY <1>1, GotoFacts DEF IInv, Holding
<1>6. OwnerOK' /\ owner' \in [Bufs -> Procs \cup {Nobody}]
  BY <1>2, <1>3, <1>5, TakeLock DEF IInv, Holding
<1>7. TypeOK'
  BY <1>1, <1>4, <1>5, <1>6 DEF IInv, TypeOK, DevType, BioType
<1>8. ThOK'
  BY <1>1, <1>2, <1>5 DEF IInv, ThOK
<1>9. IoOK'
  BY <1>1, <1>4, <1>5, IoFrame DEF IInv, Transfer
<1>10. CacheOK'
  BY <1>1, <1>2, <1>3, <1>5, CacheFrame DEF IInv
<1>11. RefOK'
  BY <1>1, <1>5, RefFrame DEF IInv
<1>12. DescOK' /\ RingOK' /\ FlagOK'
  BY <1>4, DriverFrame DEF IInv
<1>13. io[p].pc = "idle"
  BY <1>1, IdleIo DEF Transfer
<1>14. DataOK'
  BY <1>1, <1>4, <1>5, <1>13, DataFrame DEF IInv
<1> QED BY <1>6, <1>7, <1>8, <1>9, <1>10, <1>11, <1>12, <1>14 DEF IInv

\* virtio_disk_rw() is called for the buffer of the process.
LEMMA StartIoFacts ==
  ASSUME TypeOK, NEW p \in Procs, NEW w \in BOOLEAN, NEW b \in Bufs, b = th[p].b, StartIo(p, w)
  PROVE  /\ io' \in [Procs -> IoRec]
         /\ io'[p].pc = "alloc" /\ io'[p].r.b = b /\ io'[p].r.write = w
         /\ io'[p].r.k = blockno[b]
         /\ \A q \in Procs : q # p => io'[q] = io[q]
<1> DEFINE rr == [b |-> b, write |-> w, k |-> blockno[b]]
           x == [pc |-> "alloc", idx |-> None, r |-> rr]
<1>1. io' = [io EXCEPT ![p] = x]
  BY DEF StartIo
<1>2. rr \in ReqRec /\ rr.b = b /\ rr.write = w /\ rr.k = blockno[b]
  BY DEF ReqRec, TypeOK, BioType
<1>. HIDE DEF rr
<1>3. x \in IoRec /\ x.pc = "alloc" /\ x.r = rr
  BY <1>2 DEF IoRec
<1>. HIDE DEF x
<1>4. io' \in [Procs -> IoRec] /\ io'[p] = x /\ \A q \in Procs : q # p => io'[q] = io[q]
  BY <1>1, <1>3 DEF TypeOK, DevType
<1> QED BY <1>2, <1>3, <1>4

\* The buffer has to be read first.
LEMMA LockReadInv ==
  ASSUME IInv, NEW p \in Procs, LockRead(p) PROVE IInv'
<1>1. /\ th[p].pc = "lock" /\ Goto(p, "reading") /\ StartIo(p, FALSE)
      /\ UNCHANGED <<platter, data, bdisk, driverVars, blockno, valid, refcnt, lru, dirty>>
  BY DEF LockRead, At
<1>2. PICK b \in Bufs : b = th[p].b /\ blockno[b] \in Blocks
  BY <1>1 DEF IInv, ThOK
<1>3. owner[b] = Nobody /\ ~valid[b] /\ owner' = [owner EXCEPT ![b] = p]
  BY <1>2 DEF LockRead
<1>4. UNCHANGED <<platter, data, bdisk, free, desc, req, avail, used, irq, intr>>
  BY <1>1 DEF driverVars
<1>5. /\ th' \in [Procs -> ThRec] /\ th'[p].pc = "reading"
      /\ \A q \in Procs : th'[q].b = th[q].b
      /\ \A q \in Procs : q # p => th'[q] = th[q]
  BY <1>1, GotoFacts DEF IInv, Holding
<1>6. /\ io' \in [Procs -> IoRec]
      /\ io'[p].pc = "alloc" /\ io'[p].r.b = b /\ io'[p].r.write = FALSE
      /\ io'[p].r.k = blockno[b]
      /\ \A q \in Procs : q # p => io'[q] = io[q]
  BY <1>1, <1>2, StartIoFacts DEF IInv
<1>7. OwnerOK' /\ owner' \in [Bufs -> Procs \cup {Nobody}]
  BY <1>2, <1>3, <1>5, TakeLock DEF IInv, Holding
<1>8. TypeOK'
  BY <1>1, <1>4, <1>5, <1>6, <1>7 DEF IInv, TypeOK, DevType, BioType
<1>9. ThOK'
  BY <1>1, <1>2, <1>5 DEF IInv, ThOK
<1>10. IoOK'
  <2>1. th'[p].b = b /\ io'[p].r.write = (th'[p].pc = "writing")
    BY <1>2, <1>5, <1>6
  <2>2. io'[p].pc # "idle" /\ th'[p].pc \in Transfer
    BY <1>5, <1>6 DEF Transfer
  <2>3. UNCHANGED blockno /\ \A q \in Procs : q # p => th'[q] = th[q] /\ io'[q] = io[q]
    BY <1>1, <1>5, <1>6
  <2> QED BY <1>6, <2>1, <2>2, <2>3, IoOne DEF IInv
<1>11. CacheOK'
  BY <1>1, <1>2, <1>3, <1>5, CacheFrame DEF IInv
<1>12. RefOK'
  BY <1>1, <1>5, RefFrame DEF IInv
<1>13. io[p].pc = "idle"
  BY <1>1, IdleIo DEF Transfer
<1>14. DescOK' /\ RingOK' /\ FlagOK'
  BY <1>4, <1>6, <1>13, DriverFrame DEF IInv
<1>15. DataOK'
  BY <1>1, <1>4, <1>5, <1>6, DataFrame DEF IInv
<1> QED BY <1>7, <1>8, <1>9, <1>10, <1>11, <1>12, <1>14, <1>15 DEF IInv

\* The lock is taken: the process sleeps.
LEMMA LockSleepInv ==
  ASSUME IInv, NEW p \in Procs, LockSleep(p) PROVE IInv'
<1>1. /\ th[p].pc = "lock" /\ Goto(p, "sleep lock") /\ owner[th[p].b] # Nobody
      /\ UNCHANGED <<devVars, blockno, valid, refcnt, owner, lru, dirty>>
  BY DEF LockSleep, At, bioVars
<1>2. UNCHANGED <<platter, data, bdisk, free, desc, req, avail, used, irq, intr, io>>
  BY <1>1 DEF devVars
<1>3. /\ th' \in [Procs -> ThRec] /\ th'[p].pc = "sleep lock"
      /\ \A q \in Procs : th'[q].b = th[q].b
      /\ \A q \in Procs : q # p => th'[q] = th[q]
  BY <1>1, GotoFacts DEF IInv
<1>4. OwnerOK'
  BY <1>1, <1>3, OwnerFrame, Places DEF IInv
<1>5. TypeOK'
  BY <1>1, <1>2, <1>3 DEF IInv, TypeOK, DevType, BioType
<1>6. ThOK'
  BY <1>1, <1>3 DEF IInv, ThOK
<1>7. IoOK'
  BY <1>1, <1>2, <1>3, IoFrame DEF IInv, Transfer
<1>8. CacheOK'
  BY <1>1, <1>3, CacheFrame, Places DEF IInv
<1>9. RefOK'
  BY <1>1, <1>3, RefFrame DEF IInv
<1>10. DescOK' /\ RingOK' /\ FlagOK'
  BY <1>2, DriverFrame DEF IInv
<1>11. io[p].pc = "idle"
  BY <1>1, IdleIo DEF Transfer
<1>12. DataOK'
  BY <1>1, <1>2, <1>3, <1>11, DataFrame DEF IInv
<1> QED BY <1>4, <1>5, <1>6, <1>7, <1>8, <1>9, <1>10, <1>12 DEF IInv

\* bread() or bwrite() goes on after the transfer.
LEMMA IoReturnsInv ==
  ASSUME IInv, NEW p \in Procs, IoReturns(p) PROVE IInv'
<1>1. /\ th[p].pc \in Transfer /\ io[p].pc = "done" /\ io' = [io EXCEPT ![p] = NoIo]
      /\ Goto(p, IF At(p, "writing") /\ th[p].b \in dirty THEN "unpin" ELSE "have")
      /\ valid' = [valid EXCEPT ![th[p].b] = TRUE]
      /\ UNCHANGED <<platter, data, bdisk, driverVars, blockno, refcnt, owner, lru, dirty>>
  BY DEF IoReturns, Transfer
<1>2. /\ th[p].b \in Bufs /\ blockno[th[p].b] \in Blocks /\ owner[th[p].b] = p
      /\ \A q \in Procs : q # p /\ th[q].pc \in Holding => th[q].b # th[p].b
  BY <1>1, TransferFacts
<1>3. PICK b \in Bufs : b = th[p].b
  BY <1>2
<1>4. PICK w \in {"unpin", "have"} : Goto(p, w) /\ (w = "unpin" => b \in dirty)
  BY <1>1, <1>3
<1>5. UNCHANGED <<platter, data, bdisk, free, desc, req, avail, used, irq, intr>>
  BY <1>1 DEF driverVars
<1>6. /\ th' \in [Procs -> ThRec] /\ th'[p].pc = w
      /\ \A q \in Procs : th'[q].b = th[q].b
      /\ \A q \in Procs : q # p => th'[q] = th[q]
  BY <1>4, GotoFacts DEF IInv, Holding
<1>7. NoIo.pc = "idle" /\ NoIo \in IoRec
  BY DEF NoIo, IoRec, NoReq, ReqRec
<1>8. io' \in [Procs -> IoRec] /\ io'[p].pc = "idle" /\ \A q \in Procs : q # p => io'[q] = io[q]
  BY <1>1, <1>7 DEF IInv, TypeOK, DevType
<1>9. valid' \in [Bufs -> BOOLEAN] /\ valid'[b] /\ \A c \in Bufs : c # b => valid'[c] = valid[c]
  BY <1>1, <1>3 DEF IInv, TypeOK, BioType
<1>10. TypeOK'
  BY <1>1, <1>5, <1>6, <1>8, <1>9 DEF IInv, TypeOK, DevType, BioType
<1>11. ThOK'
  BY <1>1, <1>2, <1>6 DEF IInv, ThOK
<1>12. OwnerOK'
  BY <1>1, <1>4, <1>6, OwnerFrame, Places DEF IInv, Holding
<1>13. IoOK'
  <2>1. io'[p].pc = "idle" /\ th'[p].pc \notin Transfer
    BY <1>4, <1>6, <1>8 DEF Transfer
  <2>2. UNCHANGED blockno /\ \A q \in Procs : q # p => th'[q] = th[q] /\ io'[q] = io[q]
    BY <1>1, <1>6, <1>8
  <2> QED BY <2>1, <2>2, IoOne DEF IInv
<1>14. CacheOK'
  <2>1. \A q \in Procs : th'[q].pc = "reading" => ~valid'[th'[q].b]
    BY <1>2, <1>3, <1>4, <1>6, <1>9, Places DEF IInv, CacheOK, ThOK, Holding
  <2>2. ASSUME NEW q \in Procs, th'[q].pc \in GoodHands PROVE valid'[th'[q].b]
    <3>1. CASE q = p
      BY <1>3, <1>6, <1>9, <3>1
    <3>2. CASE q # p
      <4>1. th[q].pc \in GoodHands /\ th[q].pc \in Holding /\ th[q].pc # "user"
        BY <1>6, <2>2, <3>2, Places
      <4>2. th[q].b \in Bufs /\ th[q].b # b /\ valid[th[q].b]
        BY <1>2, <1>3, <3>2, <4>1 DEF IInv, ThOK, CacheOK
      <4> QED BY <1>6, <1>9, <4>2
    <3> QED BY <3>1, <3>2
  <2>3. \A q \in Procs : th'[q].pc = "unpin" => th'[q].b \in dirty
    BY <1>3, <1>4, <1>6 DEF IInv, CacheOK
  <2>4. \A c \in dirty : valid'[c]
    BY <1>9 DEF IInv, CacheOK, TypeOK, BioType
  <2>5. \A c \in Bufs : valid'[c] => blockno[c] \in Blocks
    BY <1>2, <1>3, <1>9 DEF IInv, CacheOK
  <2>6. \A c, d \in Bufs : blockno[c] \in Blocks /\ blockno[c] = blockno[d] => c = d
    BY DEF IInv, CacheOK
  <2> QED BY <1>1, <2>1, <2>2, <2>3, <2>4, <2>5, <2>6 DEF CacheOK
<1>15. RefOK'
  BY <1>1, <1>6, RefFrame DEF IInv
<1>16. DescOK' /\ RingOK' /\ FlagOK'
  BY <1>1, <1>5, <1>8, DriverFrame DEF IInv
<1>17. DataOK'
  <2>1. data[b] = platter[blockno[b]]
    BY <1>1, <1>3 DEF IInv, DataOK, Served
  <2>2. ASSUME NEW c \in Bufs, valid'[c], c \notin dirty, ~Writing(c)'
        PROVE  data[c] = platter[blockno[c]]
    <3>1. CASE c = b
      BY <2>1, <3>1
    <3>2. CASE c # b
      <4>1. ~Writing(c)
        BY <1>3, <1>6, <2>2, <3>2 DEF Writing
      <4> QED BY <1>9, <2>2, <3>2, <4>1 DEF IInv, DataOK
    <3> QED BY <3>1, <3>2
  <2>3. ASSUME NEW q \in Procs, th'[q].pc = "unpin" \/ Served(q)'
        PROVE  data[th'[q].b] = platter[blockno[th'[q].b]]
    <3>1. CASE q = p
      BY <1>3, <1>6, <2>1, <3>1
    <3>2. CASE q # p
      <4>1. th[q].pc = "unpin" \/ Served(q)
        BY <1>5, <1>6, <1>8, <2>3, <3>2 DEF Served
      <4> QED BY <1>6, <3>2, <4>1 DEF IInv, DataOK
    <3> QED BY <3>1, <3>2
  <2> QED BY <1>1, <1>5, <2>2, <2>3 DEF DataOK
<1> QED BY <1>10, <1>11, <1>12, <1>13, <1>14, <1>15, <1>16, <1>17 DEF IInv


-----------------------------------------------------------------------------
(* The holder of a buffer *)

\* A process past acquiresleep() is the only one with the lock of its buffer.
LEMMA HoldFacts ==
  ASSUME IInv, NEW p \in Procs, th[p].pc \in Holding
  PROVE  /\ th[p].b \in Bufs /\ blockno[th[p].b] \in Blocks /\ owner[th[p].b] = p
         /\ \A q \in Procs : q # p /\ th[q].pc \in Holding => th[q].b # th[p].b
<1>1. th[p].b \in Bufs /\ blockno[th[p].b] \in Blocks
  BY Places DEF IInv, ThOK
<1>2. PICK b \in Bufs : b = th[p].b
  BY <1>1
<1>3. owner[b] = p
  BY <1>2, OwnerIs DEF IInv
<1>4. ASSUME NEW q \in Procs, q # p, th[q].pc \in Holding PROVE th[q].b # b
  <2>1. owner[b] = q <=> th[q].b = b /\ th[q].pc \in Holding
    BY OwnerIs DEF IInv
  <2> QED BY <1>3, <1>4, <2>1
<1> QED BY <1>1, <1>2, <1>3, <1>4

\* The log has written the buffer home, and takes its pin away.
LEMMA BunpinInv ==
  ASSUME IInv, NEW p \in Procs, Bunpin(p) PROVE IInv'
<1>1. /\ th[p].pc = "unpin" /\ Goto(p, "have") /\ dirty' = dirty \ {th[p].b}
      /\ refcnt' = [refcnt EXCEPT ![th[p].b] = @ - 1]
      /\ UNCHANGED <<devVars, blockno, valid, owner, lru>>
  BY DEF Bunpin, At
<1>2. th[p].pc \in Holding /\ th[p].pc \notin Transfer /\ th[p].pc \in GoodHands
  BY <1>1 DEF Holding, Transfer, GoodHands
<1>3. PICK b \in Bufs : b = th[p].b /\ blockno[b] \in Blocks
  BY <1>2, HoldFacts
<1>4. \A q \in Procs : q # p /\ th[q].pc \in Holding => th[q].b # b
  BY <1>2, <1>3, HoldFacts
<1>5. UNCHANGED <<platter, data, bdisk, free, desc, req, avail, used, irq, intr, io>>
  BY <1>1 DEF devVars
<1>6. /\ th' \in [Procs -> ThRec] /\ th'[p].pc = "have"
      /\ \A q \in Procs : th'[q].b = th[q].b
      /\ \A q \in Procs : q # p => th'[q] = th[q]
  BY <1>1, GotoFacts DEF IInv, Holding
<1>7. b \in dirty /\ valid[b]
  BY <1>1, <1>2, <1>3 DEF IInv, CacheOK
<1>8. io[p].pc = "idle"
  BY <1>2, IdleIo
<1>9. /\ refcnt' \in [Bufs -> Int] /\ refcnt'[b] = refcnt[b] - 1 /\ refcnt[b] \in Int
      /\ \A c \in Bufs : c # b => refcnt'[c] = refcnt[c]
  BY <1>1, <1>3 DEF IInv, TypeOK, BioType
<1>10. TypeOK'
  BY <1>1, <1>5, <1>6, <1>9 DEF IInv, TypeOK, DevType, BioType
<1>11. ThOK'
  BY <1>1, <1>3, <1>6 DEF IInv, ThOK
<1>12. OwnerOK'
  BY <1>1, <1>2, <1>6, OwnerFrame, Places DEF IInv, Holding
<1>13. IoOK'
  BY <1>1, <1>2, <1>5, <1>6, IoFrame DEF IInv, Transfer
<1>14. CacheOK'
  <2>1. \A q \in Procs : th'[q].pc = "reading" => ~valid[th'[q].b]
    BY <1>6 DEF IInv, CacheOK
  <2>2. \A q \in Procs : th'[q].pc \in GoodHands => valid[th'[q].b]
    BY <1>3, <1>6, <1>7 DEF IInv, CacheOK
  <2>3. ASSUME NEW q \in Procs, th'[q].pc = "unpin" PROVE th'[q].b \in dirty'
    <3>1. q # p /\ th'[q] = th[q]
      BY <1>6, <2>3
    <3>2. th[q].pc \in Holding /\ th[q].b \in dirty
      BY <2>3, <3>1 DEF Holding, IInv, CacheOK
    <3>3. th[q].b # b
      BY <1>4, <3>1, <3>2
    <3> QED BY <1>1, <1>3, <3>1, <3>2, <3>3
  <2>4. \A c \in dirty' : valid[c]
    BY <1>1 DEF IInv, CacheOK
  <2>5. \A c \in Bufs : valid[c] => blockno[c] \in Blocks
    BY DEF IInv, CacheOK
  <2>6. \A c, d \in Bufs : blockno[c] \in Blocks /\ blockno[c] = blockno[d] => c = d
    BY DEF IInv, CacheOK
  <2> QED BY <1>1, <2>1, <2>2, <2>3, <2>4, <2>5, <2>6 DEF CacheOK
<1>15. RefOK'
  <2> SUFFICES ASSUME NEW c \in Bufs PROVE (refcnt[c] = Cardinality(Users(c)) + Pin(c))'
    BY DEF RefOK
  <2>1. refcnt[c] = Cardinality(Users(c)) + Pin(c) /\ Users(c)' = Users(c)
    BY <1>6, SameUsers DEF IInv, RefOK
  <2>2. Cardinality(Users(c)) \in Nat
    BY UsersFinite
  <2>3. CASE c = b
    <3>1. Pin(c) = 1 /\ Pin(c)' = 0
      BY <1>1, <1>3, <1>7, <2>3 DEF Pin
    <3> QED BY <1>9, <2>1, <2>2, <2>3, <3>1
  <2>4. CASE c # b
    <3>1. Pin(c)' = Pin(c)
      BY <1>1, <1>3, <2>4 DEF Pin
    <3> QED BY <1>9, <2>1, <2>4, <3>1
  <2> QED BY <2>3, <2>4
<1>16. DescOK' /\ RingOK' /\ FlagOK'
  BY <1>5, DriverFrame DEF IInv
<1>17. DataOK'
  <2>1. data[b] = platter[blockno[b]]
    BY <1>1, <1>3 DEF IInv, DataOK
  <2>2. ASSUME NEW c \in Bufs, valid[c], c \notin dirty', ~Writing(c)'
        PROVE  data[c] = platter[blockno[c]]
    <3>1. CASE c = b
      BY <2>1, <3>1
    <3>2. CASE c # b
      <4>1. ~Writing(c) /\ c \notin dirty
        BY <1>1, <1>3, <1>6, <2>2, <3>2 DEF Writing
      <4> QED BY <2>2, <4>1 DEF IInv, DataOK
    <3> QED BY <3>1, <3>2
  <2>3. ASSUME NEW q \in Procs, th'[q].pc = "unpin" \/ Served(q)'
        PROVE  data[th'[q].b] = platter[blockno[th'[q].b]]
    <3>1. CASE q = p
      BY <1>3, <1>6, <2>1, <3>1
    <3>2. CASE q # p
      <4>1. th[q].pc = "unpin" \/ Served(q)
        BY <1>5, <1>6, <2>3, <3>2 DEF Served
      <4> QED BY <1>6, <3>2, <4>1 DEF IInv, DataOK
    <3> QED BY <3>1, <3>2
  <2> QED BY <1>1, <1>5, <2>2, <2>3 DEF DataOK
<1> QED BY <1>10, <1>11, <1>12, <1>13, <1>14, <1>15, <1>16, <1>17 DEF IInv

\* The holder changes the content of its buffer, and the buffer is written or
\* pinned.
LEMMA DataChange ==
  ASSUME IInv, NEW p \in Procs, NEW b \in Bufs, b = th[p].b, th[p].pc \in Holding,
         NEW v \in Vals, data' = [data EXCEPT ![b] = v],
         UNCHANGED <<platter, blockno, valid, avail>>,
         \A q \in Procs : q # p => th'[q] = th[q] /\ io'[q] = io[q],
         Writing(b)' \/ b \in dirty', dirty \subseteq dirty',
         th'[p].b = b, th'[p].pc # "unpin", io'[p].pc \in {"idle", "alloc"}
  PROVE  DataOK' /\ data' \in [Bufs -> Vals]
<1>1. /\ data' \in [Bufs -> Vals]
      /\ \A c \in Bufs : c # b => data'[c] = data[c]
  BY DEF IInv, TypeOK, DevType
<1>2. \A q \in Procs : q # p /\ th[q].pc \in Holding => th[q].b # b
  BY HoldFacts
<1>3. ASSUME NEW c \in Bufs, valid[c], c \notin dirty', ~Writing(c)'
      PROVE  data'[c] = platter[blockno[c]]
  <2>1. c # b /\ c \notin dirty
    BY <1>3
  <2>2. ~Writing(c)
    BY <1>3, <2>1 DEF Writing
  <2>3. data[c] = platter[blockno[c]]
    BY <1>3, <2>1, <2>2 DEF IInv, DataOK
  <2> QED BY <1>1, <2>1, <2>3
<1>4. ASSUME NEW q \in Procs, th'[q].pc = "unpin" \/ Served(q)'
      PROVE  data'[th'[q].b] = platter[blockno[th'[q].b]]
  <2>1. q # p
    BY <1>4 DEF Served
  <2>2. th'[q] = th[q] /\ io'[q] = io[q]
    BY <2>1
  <2>3. th[q].pc = "unpin" \/ Served(q)
    BY <1>4, <2>2 DEF Served
  <2>4. th[q].pc \in Holding
    BY <2>3, TransferFacts, Places DEF Served, Holding
  <2>5. th[q].b \in Bufs /\ th[q].b # b
    BY <1>2, <2>1, <2>4, HoldFacts
  <2>6. data[th[q].b] = platter[blockno[th[q].b]]
    BY <2>3 DEF IInv, DataOK
  <2> QED BY <1>1, <2>2, <2>5, <2>6
<1> QED BY <1>1, <1>3, <1>4 DEF DataOK

\* The holder writes its buffer through.
LEMMA BwriteInv ==
  ASSUME IInv, NEW p \in Procs, NEW v \in Vals, Bwrite(p, v) PROVE IInv'
<1>1. /\ th[p].pc = "have" /\ Goto(p, "writing") /\ StartIo(p, TRUE)
      /\ data' = [data EXCEPT ![th[p].b] = v]
      /\ UNCHANGED <<platter, bdisk, driverVars, bioVars>>
  BY DEF Bwrite, At
<1>2. th[p].pc \in Holding /\ th[p].pc \notin Transfer /\ th[p].pc \in GoodHands
  BY <1>1 DEF Holding, Transfer, GoodHands
<1>3. PICK b \in Bufs : b = th[p].b /\ blockno[b] \in Blocks
  BY <1>2, HoldFacts
<1>4. UNCHANGED <<free, desc, req, avail, used, irq, intr>>
  BY <1>1 DEF driverVars
<1>5. UNCHANGED <<blockno, valid, refcnt, owner, lru, dirty>>
  BY <1>1 DEF bioVars
<1>6. /\ th' \in [Procs -> ThRec] /\ th'[p].pc = "writing"
      /\ \A q \in Procs : th'[q].b = th[q].b
      /\ \A q \in Procs : q # p => th'[q] = th[q]
  BY <1>1, GotoFacts DEF IInv, Holding
<1>7. /\ io' \in [Procs -> IoRec]
      /\ io'[p].pc = "alloc" /\ io'[p].r.b = b /\ io'[p].r.write = TRUE
      /\ io'[p].r.k = blockno[b]
      /\ \A q \in Procs : q # p => io'[q] = io[q]
  BY <1>1, <1>3, StartIoFacts DEF IInv
<1>8. io[p].pc = "idle" /\ valid[b]
  BY <1>2, <1>3, IdleIo DEF IInv, CacheOK
<1>9. DataOK' /\ data' \in [Bufs -> Vals]
  <2>1. th'[p].b = b /\ th'[p].pc # "unpin" /\ data' = [data EXCEPT ![b] = v]
    BY <1>1, <1>3, <1>6
  <2>2. Writing(b)'
    BY <1>6, <2>1 DEF Writing
  <2>3. \A q \in Procs : q # p => th'[q] = th[q] /\ io'[q] = io[q]
    BY <1>6, <1>7
  <2> QED BY <1>1, <1>2, <1>3, <1>4, <1>5, <1>7, <2>1, <2>2, <2>3, DataChange
<1>10. TypeOK'
  BY <1>1, <1>4, <1>5, <1>6, <1>7, <1>9 DEF IInv, TypeOK, DevType, BioType
<1>11. ThOK'
  BY <1>1, <1>3, <1>5, <1>6 DEF IInv, ThOK
<1>12. OwnerOK'
  BY <1>1, <1>2, <1>5, <1>6, OwnerFrame, Places DEF IInv, Holding
<1>13. IoOK'
  <2>1. th'[p].b = b /\ io'[p].r.write = (th'[p].pc = "writing")
    BY <1>3, <1>6, <1>7
  <2>2. io'[p].pc # "idle" /\ th'[p].pc \in Transfer
    BY <1>6, <1>7 DEF Transfer
  <2>3. UNCHANGED blockno /\ \A q \in Procs : q # p => th'[q] = th[q] /\ io'[q] = io[q]
    BY <1>5, <1>6, <1>7
  <2> QED BY <1>7, <2>1, <2>2, <2>3, IoOne DEF IInv
<1>14. CacheOK'
  <2>1. \A q \in Procs : th'[q].pc = "reading" => ~valid[th'[q].b]
    BY <1>6 DEF IInv, CacheOK
  <2>2. \A q \in Procs : th'[q].pc \in GoodHands => valid[th'[q].b]
    BY <1>3, <1>6, <1>8 DEF IInv, CacheOK
  <2>3. \A q \in Procs : th'[q].pc = "unpin" => th'[q].b \in dirty
    BY <1>6 DEF IInv, CacheOK
  <2>4. /\ \A c \in dirty : valid[c]
        /\ \A c \in Bufs : valid[c] => blockno[c] \in Blocks
        /\ \A c, d \in Bufs : blockno[c] \in Blocks /\ blockno[c] = blockno[d] => c = d
    BY DEF IInv, CacheOK
  <2> QED BY <1>5, <2>1, <2>2, <2>3, <2>4 DEF CacheOK
<1>15. RefOK'
  BY <1>5, <1>6, RefFrame DEF IInv
<1>16. DescOK' /\ RingOK' /\ FlagOK'
  BY <1>1, <1>4, <1>7, <1>8, DriverFrame DEF IInv
<1> QED BY <1>9, <1>10, <1>11, <1>12, <1>13, <1>14, <1>15, <1>16 DEF IInv

\* The holder leaves its change to the log, which pins the buffer.
LEMMA BpinInv ==
  ASSUME IInv, NEW p \in Procs, NEW v \in Vals, Bpin(p, v) PROVE IInv'
<1>1. /\ th[p].pc = "have" /\ dirty' = dirty \cup {th[p].b}
      /\ data' = [data EXCEPT ![th[p].b] = v]
      /\ refcnt' = [refcnt EXCEPT ![th[p].b] = IF th[p].b \in dirty THEN @ ELSE @ + 1]
      /\ UNCHANGED <<platter, bdisk, driverVars, io, blockno, valid, owner, lru, th>>
  BY DEF Bpin, At
<1>2. th[p].pc \in Holding /\ th[p].pc \notin Transfer /\ th[p].pc \in GoodHands
  BY <1>1 DEF Holding, Transfer, GoodHands
<1>3. PICK b \in Bufs : b = th[p].b /\ blockno[b] \in Blocks
  BY <1>2, HoldFacts
<1>4. UNCHANGED <<free, desc, req, avail, used, irq, intr>>
  BY <1>1 DEF driverVars
<1>5. io[p].pc = "idle" /\ valid[b]
  BY <1>2, <1>3, IdleIo DEF IInv, CacheOK
<1>6. /\ refcnt' \in [Bufs -> Int] /\ refcnt[b] \in Int
      /\ refcnt'[b] = IF b \in dirty THEN refcnt[b] ELSE refcnt[b] + 1
      /\ \A c \in Bufs : c # b => refcnt'[c] = refcnt[c]
  BY <1>1, <1>3 DEF IInv, TypeOK, BioType
<1>7. DataOK' /\ data' \in [Bufs -> Vals]
  BY <1>1, <1>2, <1>3, <1>4, <1>5, DataChange
<1>8. TypeOK'
  BY <1>1, <1>3, <1>4, <1>6, <1>7 DEF IInv, TypeOK, DevType, BioType
<1>9. ThOK' /\ OwnerOK' /\ IoOK'
  <2>1. ThOK'
    BY <1>1 DEF IInv, ThOK
  <2>2. OwnerOK'
    BY <1>1, OwnerFrame DEF IInv
  <2>3. IoOK'
    BY <1>1, IoFrame DEF IInv
  <2> QED BY <2>1, <2>2, <2>3
<1>10. CacheOK'
  BY <1>1, <1>3, <1>5 DEF IInv, CacheOK
<1>11. RefOK'
  <2> SUFFICES ASSUME NEW c \in Bufs PROVE (refcnt[c] = Cardinality(Users(c)) + Pin(c))'
    BY DEF RefOK
  <2>1. refcnt[c] = Cardinality(Users(c)) + Pin(c) /\ Users(c)' = Users(c)
    BY <1>1, SameUsers DEF IInv, RefOK
  <2>2. Cardinality(Users(c)) \in Nat
    BY UsersFinite
  <2>3. CASE c = b
    <3>1. Pin(c)' = 1 /\ Pin(c) = IF b \in dirty THEN 1 ELSE 0
      BY <1>1, <1>3, <2>3 DEF Pin
    <3> QED BY <1>6, <2>1, <2>2, <2>3, <3>1
  <2>4. CASE c # b
    <3>1. Pin(c)' = Pin(c)
      BY <1>1, <1>3, <2>4 DEF Pin
    <3> QED BY <1>6, <2>1, <2>4, <3>1
  <2> QED BY <2>3, <2>4
<1>12. DescOK' /\ RingOK' /\ FlagOK'
  BY <1>1, <1>4, DriverFrame DEF IInv
<1> QED BY <1>7, <1>8, <1>9, <1>10, <1>11, <1>12 DEF IInv

-----------------------------------------------------------------------------
(* brelse() *)

\* releasesleep(): the lock is free, and its sleepers try again.
LEMMA UnlockInv ==
  ASSUME IInv, NEW p \in Procs, Unlock(p) PROVE IInv'
<1>1. /\ th[p].pc = "have" /\ owner' = [owner EXCEPT ![th[p].b] = Nobody]
      /\ UNCHANGED <<devVars, blockno, valid, refcnt, lru, dirty>>
      /\ th' = [q \in Procs |->
                 IF q = p THEN [th[p] EXCEPT !.pc = "unref"]
                 ELSE IF At(q, "sleep lock") /\ th[q].b = th[p].b
                      THEN [th[q] EXCEPT !.pc = "lock"] ELSE th[q]]
  BY DEF Unlock, At
<1>2. th[p].pc \in Holding /\ th[p].pc \notin Transfer
  BY <1>1 DEF Holding, Transfer
<1>3. PICK b \in Bufs : b = th[p].b /\ blockno[b] \in Blocks
  BY <1>2, HoldFacts
<1>4. \A q \in Procs : q # p /\ th[q].pc \in Holding => th[q].b # b
  BY <1>2, <1>3, HoldFacts
<1>5. UNCHANGED <<platter, data, bdisk, free, desc, req, avail, used, irq, intr, io>>
  BY <1>1 DEF devVars
<1>6. \A q \in Procs : th[q] \in ThRec
  BY DEF IInv, TypeOK, BioType
<1>7. \A x \in ThRec : /\ [x EXCEPT !.pc = "unref"] \in ThRec /\ [x EXCEPT !.pc = "lock"] \in ThRec
                       /\ [x EXCEPT !.pc = "unref"].pc = "unref"
                       /\ [x EXCEPT !.pc = "lock"].pc = "lock"
                       /\ [x EXCEPT !.pc = "unref"].b = x.b /\ [x EXCEPT !.pc = "lock"].b = x.b
  BY DEF ThRec
<1>8. th'[p] \in ThRec /\ th'[p].pc = "unref" /\ th'[p].b = th[p].b
  BY <1>1, <1>6, <1>7
<1>9. \A q \in Procs : q # p =>
        /\ th'[q] \in ThRec /\ th'[q].b = th[q].b
        /\ th'[q] # th[q] => th[q].pc = "sleep lock" /\ th'[q].pc = "lock"
        /\ th'[q].pc = "sleep lock" => th[q].b # b
  BY <1>1, <1>3, <1>6, <1>7 DEF At
<1>10. th' \in [Procs -> ThRec] /\ \A q \in Procs : th'[q].b = th[q].b
  <2>1. th' = [q \in Procs |-> th'[q]]
    BY <1>1
  <2>2. \A q \in Procs : th'[q] \in ThRec /\ th'[q].b = th[q].b
    BY <1>8, <1>9
  <2> QED BY <2>1, <2>2
<1>11. \A q \in Procs : th'[q].pc \in Holding => q # p /\ th'[q] = th[q]
  BY <1>8, <1>9, Places
<1>12. /\ owner' \in [Bufs -> Procs \cup {Nobody}] /\ owner'[b] = Nobody
       /\ \A c \in Bufs : c # b => owner'[c] = owner[c]
  BY <1>1, <1>3 DEF IInv, TypeOK, BioType
<1>13. TypeOK'
  BY <1>1, <1>5, <1>10, <1>12 DEF IInv, TypeOK, DevType, BioType
<1>14. ThOK'
  <2> SUFFICES ASSUME NEW q \in Procs
               PROVE  /\ th'[q].pc = "user" => th'[q].b = Nobody
                      /\ th'[q].pc # "user" => th'[q].b \in Bufs /\ blockno[th'[q].b] \in Blocks
    BY <1>1 DEF ThOK
  <2>1. CASE q = p
    BY <1>3, <1>8, <2>1
  <2>2. CASE q # p /\ th'[q] = th[q]
    BY <2>2 DEF IInv, ThOK
  <2>3. CASE q # p /\ th'[q] # th[q]
    BY <1>9, <2>3 DEF IInv, ThOK
  <2> QED BY <2>1, <2>2, <2>3
<1>15. OwnerOK'
  <2>1. ASSUME NEW c \in Bufs, NEW q \in Procs
        PROVE  owner'[c] = q <=> th'[q].b = c /\ th'[q].pc \in Holding
    <3>1. owner[c] = q <=> th[q].b = c /\ th[q].pc \in Holding
      BY OwnerIs DEF IInv
    <3>2. CASE c = b
      <4>1. owner'[c] # q
        BY <1>12, <3>2, Consts
      <4>2. ASSUME th'[q].b = c, th'[q].pc \in Holding PROVE FALSE
        <5>1. q # p /\ th'[q] = th[q]
          BY <1>11, <4>2
        <5> QED BY <1>4, <3>2, <4>2, <5>1
      <4> QED BY <4>1, <4>2
    <3>3. CASE c # b /\ q = p
      <4>1. th'[q].pc \notin Holding /\ th[q].b # c
        BY <1>3, <1>8, <3>3, Places
      <4> QED BY <1>12, <3>1, <3>3, <4>1
    <3>4. CASE c # b /\ q # p
      <4>1. th'[q].pc \in Holding <=> th[q].pc \in Holding
        BY <1>9, <3>4, Places
      <4> QED BY <1>9, <1>12, <3>1, <3>4, <4>1
    <3> QED BY <3>2, <3>3, <3>4
  <2>2. ASSUME NEW q \in Procs, th'[q].pc = "sleep lock" PROVE owner'[th'[q].b] # Nobody
    <3>1. q # p /\ th'[q] = th[q] /\ th[q].b # b
      BY <1>8, <1>9, <2>2
    <3>2. owner[th[q].b] # Nobody /\ th[q].b \in Bufs
      BY <2>2, <3>1 DEF IInv, OwnerOK, ThOK
    <3> QED BY <1>12, <3>1, <3>2
  <2> QED BY <2>1, <2>2 DEF OwnerOK
<1>16. \A q \in Procs : \/ th'[q] = th[q]
                        \/ th'[q].pc \in {"unref", "lock"} /\ th[q].pc \in {"have", "sleep lock"}
  BY <1>1, <1>8, <1>9
<1>17. IoOK'
  BY <1>1, <1>5, <1>16, IoFrame DEF IInv, Transfer
<1>18. CacheOK'
  BY <1>1, <1>16, CacheFrame, Places DEF IInv
<1>19. RefOK'
  BY <1>1, <1>10, RefFrame DEF IInv
<1>20. DescOK' /\ RingOK' /\ FlagOK'
  BY <1>5, DriverFrame DEF IInv
<1>21. \A q \in Procs : th'[q] # th[q] => io[q].pc = "idle"
  BY <1>16, IdleIo DEF Transfer
<1>22. DataOK'
  BY <1>1, <1>5, <1>16, <1>21, DataFrame DEF IInv
<1> QED BY <1>13, <1>14, <1>15, <1>17, <1>18, <1>19, <1>20, <1>22 DEF IInv

\* The list stays a list of buffers.
LEMMA FrontType ==
  ASSUME NEW N \in Nat, NEW b \in Bufs, lru \in [1 .. N -> Bufs]
  PROVE  MoveToFront(b) \in [1 .. N -> Bufs]
<1> DEFINE at == CHOOSE i \in DOMAIN lru : lru[i] = b
           at2(i) == i <= at
<1>. HIDE DEF at2
<1>1. MoveToFront(b) = [i \in 1 .. N |-> IF i = 1 THEN b ELSE IF at2(i) THEN lru[i - 1] ELSE lru[i]]
  BY DEF MoveToFront, at2
<1>2. ASSUME NEW i \in 1 .. N
      PROVE  (IF i = 1 THEN b ELSE IF at2(i) THEN lru[i - 1] ELSE lru[i]) \in Bufs
  <2>1. CASE i = 1
    BY <2>1
  <2>2. CASE i # 1
    <3>1. i - 1 \in 1 .. N
      BY <2>2
    <3> QED BY <2>2, <3>1
  <2> QED BY <2>1, <2>2
<1> QED BY <1>1, <1>2

\* The rest of brelse().
LEMMA BrelseInv ==
  ASSUME IInv, NEW p \in Procs, Brelse(p) PROVE IInv'
<1>1. /\ th[p].pc = "unref" /\ th' = [th EXCEPT ![p] = Idle]
      /\ refcnt' = [refcnt EXCEPT ![th[p].b] = @ - 1]
      /\ lru' = lru \/ lru' = MoveToFront(th[p].b)
      /\ UNCHANGED <<devVars, blockno, valid, owner, dirty>>
  BY DEF Brelse, At
<1>2. PICK b \in Bufs : b = th[p].b
  BY <1>1 DEF IInv, ThOK
<1>3. UNCHANGED <<platter, data, bdisk, free, desc, req, avail, used, irq, intr, io>>
  BY <1>1 DEF devVars
<1>4. Idle \in ThRec /\ Idle.pc = "user" /\ Idle.b = Nobody
  BY DEF Idle, ThRec
<1>5. th' \in [Procs -> ThRec] /\ th'[p] = Idle /\ \A q \in Procs : q # p => th'[q] = th[q]
  BY <1>1, <1>4, ThFacts DEF IInv
<1>6. /\ refcnt' \in [Bufs -> Int] /\ refcnt[b] \in Int /\ refcnt'[b] = refcnt[b] - 1
      /\ \A c \in Bufs : c # b => refcnt'[c] = refcnt[c]
  BY <1>1, <1>2 DEF IInv, TypeOK, BioType
<1>7. lru' \in [1 .. Cardinality(Bufs) -> Bufs]
  <2>1. lru \in [1 .. Cardinality(Bufs) -> Bufs] /\ Cardinality(Bufs) \in Nat
    BY Consts DEF IInv, TypeOK, BioType
  <2>2. MoveToFront(b) \in [1 .. Cardinality(Bufs) -> Bufs]
    BY <2>1, FrontType
  <2> QED BY <1>1, <1>2, <2>1, <2>2
<1>8. TypeOK'
  BY <1>1, <1>3, <1>5, <1>6, <1>7 DEF IInv, TypeOK, DevType, BioType
<1>9. ThOK'
  BY <1>1, <1>4, <1>5 DEF IInv, ThOK
<1>10. OwnerOK'
  BY <1>1, <1>4, <1>5, OwnerFrame, Places DEF IInv
<1>11. IoOK'
  BY <1>1, <1>3, <1>4, <1>5, IoFrame DEF IInv, Transfer
<1>12. CacheOK'
  BY <1>1, <1>4, <1>5, CacheFrame, Places DEF IInv
<1>13. RefOK'
  <2> SUFFICES ASSUME NEW c \in Bufs PROVE (refcnt[c] = Cardinality(Users(c)) + Pin(c))'
    BY DEF RefOK
  <2>1. refcnt[c] = Cardinality(Users(c)) + Pin(c) /\ Pin(c)' = Pin(c) /\ Pin(c) \in Int
    BY <1>1 DEF IInv, RefOK, Pin
  <2>2. IsFiniteSet(Users(c)) /\ Cardinality(Users(c)) \in Nat
    BY UsersFinite
  <2>3. CASE c = b
    <3>1. Users(c)' = Users(c) \ {p} /\ p \in Users(c)
      BY <1>2, <1>4, <1>5, <2>3, LessUsers
    <3>2. Cardinality(Users(c) \ {p}) = Cardinality(Users(c)) - 1
      BY <2>2, <3>1, FS_RemoveElement
    <3> QED BY <1>6, <2>1, <2>2, <2>3, <3>1, <3>2
  <2>4. CASE c # b
    BY <1>2, <1>4, <1>5, <1>6, <2>1, <2>4, LessUsers
  <2> QED BY <2>3, <2>4
<1>14. DescOK' /\ RingOK' /\ FlagOK'
  BY <1>3, DriverFrame DEF IInv
<1>15. io[p].pc = "idle"
  BY <1>1, IdleIo DEF Transfer
<1>16. DataOK'
  BY <1>1, <1>3, <1>4, <1>5, <1>15, DataFrame DEF IInv
<1> QED BY <1>8, <1>9, <1>10, <1>11, <1>12, <1>13, <1>14, <1>16 DEF IInv

-----------------------------------------------------------------------------
(* Steps of the driver, the device and the interrupt handler *)

\* They leave the cache and its locks alone.
LEMMA CacheStays ==
  ASSUME IInv, UNCHANGED <<bioVars, th>>
  PROVE  /\ BioType' /\ ThOK' /\ OwnerOK' /\ CacheOK' /\ RefOK'
         /\ UNCHANGED <<blockno, valid, refcnt, owner, lru, dirty>>
<1>1. UNCHANGED <<blockno, valid, refcnt, owner, lru, dirty, th>>
  BY DEF bioVars
<1>2. BioType'
  BY <1>1 DEF IInv, TypeOK, BioType
<1>3. ThOK'
  BY <1>1 DEF IInv, ThOK
<1>4. OwnerOK'
  BY <1>1, OwnerFrame DEF IInv
<1>5. CacheOK'
  BY <1>1, CacheFrame DEF IInv
<1>6. RefOK'
  BY <1>1, RefFrame DEF IInv
<1> QED BY <1>1, <1>2, <1>3, <1>4, <1>5, <1>6

\* A process in virtio_disk_rw() stays there, with its request.
LEMMA IoStays ==
  ASSUME IoOK, UNCHANGED <<blockno, th>>,
         \A q \in Procs : io'[q].r = io[q].r /\ (io'[q].pc = "idle" <=> io[q].pc = "idle")
  PROVE  IoOK'
BY DEF IoOK

\* No content changes, and no request is served.
LEMMA DataStays ==
  ASSUME DataOK, UNCHANGED <<platter, data, blockno, valid, dirty, th>>,
         \A q \in Procs : Served(q)' => Served(q)
  PROVE  DataOK'
<1>1. \A b \in Bufs : Writing(b)' <=> Writing(b)
  BY DEF Writing
<1> QED BY <1>1 DEF DataOK

\* The descriptors stay.
LEMMA DescSame ==
  ASSUME DescOK, UNCHANGED <<free, desc, req, io>>
  PROVE  DescOK'
BY DEF DescOK, Chain, Busy

\* A record with another place.
LEMMA IoPlace ==
  ASSUME NEW x \in IoRec,
         NEW w \in {"idle", "alloc", "sleep free", "sleep b", "woken", "done"}
  PROVE  /\ [x EXCEPT !.pc = w] \in IoRec /\ [x EXCEPT !.pc = w].pc = w
         /\ [x EXCEPT !.pc = w].r = x.r /\ [x EXCEPT !.pc = w].idx = x.idx
BY DEF IoRec

\* wakeup() of those who wait for descriptors.
LEMMA WakeFreeFacts ==
  ASSUME io \in [Procs -> IoRec]
  PROVE  /\ WakeFree(io) \in [Procs -> IoRec]
         /\ \A q \in Procs : /\ WakeFree(io)[q].r = io[q].r
                             /\ WakeFree(io)[q].pc # "sleep free"
                             /\ \/ WakeFree(io)[q] = io[q]
                                \/ io[q].pc = "sleep free" /\ WakeFree(io)[q].pc = "alloc"
<1>1. \A q \in Procs : WakeFree(io)[q] = IF io[q].pc = "sleep free"
                                         THEN [io[q] EXCEPT !.pc = "alloc"] ELSE io[q]
  BY DEF WakeFree
<1>2. \A q \in Procs : /\ WakeFree(io)[q] \in IoRec
                       /\ WakeFree(io)[q].r = io[q].r
                       /\ WakeFree(io)[q].pc # "sleep free"
                       /\ \/ WakeFree(io)[q] = io[q]
                          \/ io[q].pc = "sleep free" /\ WakeFree(io)[q].pc = "alloc"
  <2> SUFFICES ASSUME NEW q \in Procs
               PROVE  /\ WakeFree(io)[q] \in IoRec
                      /\ WakeFree(io)[q].r = io[q].r
                      /\ WakeFree(io)[q].pc # "sleep free"
                      /\ \/ WakeFree(io)[q] = io[q]
                         \/ io[q].pc = "sleep free" /\ WakeFree(io)[q].pc = "alloc"
    OBVIOUS
  <2>1. CASE io[q].pc = "sleep free"
    <3>1. WakeFree(io)[q] = [io[q] EXCEPT !.pc = "alloc"]
      BY <1>1, <2>1
    <3>2. io[q] \in IoRec
      OBVIOUS
    <3>3. PICK x \in IoRec : x = io[q]
      BY <3>2
    <3>4. /\ [x EXCEPT !.pc = "alloc"] \in IoRec /\ [x EXCEPT !.pc = "alloc"].pc = "alloc"
          /\ [x EXCEPT !.pc = "alloc"].r = x.r
      BY IoPlace
    <3> QED BY <2>1, <3>1, <3>3, <3>4
  <2>2. CASE io[q].pc # "sleep free"
    BY <1>1, <2>2
  <2> QED BY <2>1, <2>2
<1>3. WakeFree(io) = [q \in Procs |-> WakeFree(io)[q]]
  BY DEF WakeFree
<1> QED BY <1>2, <1>3

\* Too few descriptors are free: none is lost, and the process sleeps.
LEMMA AllocFailsInv ==
  ASSUME IInv, NEW p \in Procs, AllocFails(p), UNCHANGED <<bioVars, th>> PROVE IInv'
<1>1. /\ io[p].pc = "alloc" /\ Cardinality(free) < 3 /\ free' = free
      /\ UNCHANGED <<platter, data, bdisk, desc, req, avail, used, irq, intr>>
  BY DEF AllocFails, GiveBack
<1>2. io \in [Procs -> IoRec]
  BY DEF IInv, TypeOK, DevType
<1>3. PICK X \in {io, WakeFree(io)} : io' = [X EXCEPT ![p].pc = "sleep free"]
  BY DEF AllocFails
<1>4. /\ X \in [Procs -> IoRec]
      /\ \A q \in Procs : /\ X[q].r = io[q].r
                          /\ \/ X[q] = io[q]
                             \/ io[q].pc = "sleep free" /\ X[q].pc = "alloc"
  BY <1>2, <1>3, WakeFreeFacts
<1> DEFINE x == [X[p] EXCEPT !.pc = "sleep free"]
<1>5. x \in IoRec /\ x.pc = "sleep free" /\ x.r = io[p].r
  <2>1. X[p] \in IoRec /\ X[p].r = io[p].r
    BY <1>4
  <2> QED BY <2>1, IoPlace
<1>6. io' = [X EXCEPT ![p] = x]
  BY <1>3
<1>. HIDE DEF x
<1>7. io' \in [Procs -> IoRec] /\ io'[p] = x /\ \A q \in Procs : q # p => io'[q] = X[q]
  BY <1>4, <1>5, <1>6
<1>8. \A q \in Procs :
        /\ io'[q].r = io[q].r
        /\ \/ io'[q] = io[q]
           \/ /\ io[q].pc \in {"alloc", "sleep free"}
              /\ \/ io'[q].pc = "alloc"
                 \/ io'[q].pc = "sleep free" /\ Cardinality(free) < 3
  <2> SUFFICES ASSUME NEW q \in Procs
               PROVE  /\ io'[q].r = io[q].r
                      /\ \/ io'[q] = io[q]
                         \/ /\ io[q].pc \in {"alloc", "sleep free"}
                            /\ \/ io'[q].pc = "alloc"
                               \/ io'[q].pc = "sleep free" /\ Cardinality(free) < 3
    OBVIOUS
  <2>1. CASE q = p
    BY <1>1, <1>5, <1>7, <2>1
  <2>2. CASE q # p
    BY <1>4, <1>7, <2>2
  <2> QED BY <2>1, <2>2
<1>9. /\ BioType' /\ ThOK' /\ OwnerOK' /\ CacheOK' /\ RefOK'
      /\ UNCHANGED <<blockno, valid, refcnt, owner, lru, dirty>>
  BY CacheStays
<1>10. TypeOK'
  BY <1>1, <1>7, <1>9 DEF IInv, TypeOK, DevType
<1>11. IoOK'
  BY <1>8, <1>9, IoStays DEF IInv
<1>12. DescOK' /\ RingOK' /\ FlagOK'
  BY <1>1, <1>8, DriverFrame DEF IInv
<1>13. DataOK'
  <2>1. \A q \in Procs : Served(q)' => Served(q)
    BY <1>1, <1>8 DEF Served
  <2> QED BY <1>1, <1>9, <2>1, DataStays DEF IInv
<1> QED BY <1>9, <1>10, <1>11, <1>12, <1>13 DEF IInv

\* The handler starts: it acknowledges the interrupt.
LEMMA IntrStartInv ==
  ASSUME IInv, IntrStart, UNCHANGED <<bioVars, th>> PROVE IInv'
<1>1. /\ intr' = TRUE /\ irq' = FALSE
      /\ UNCHANGED <<platter, data, bdisk, free, desc, req, avail, used, io>>
  BY DEF IntrStart
<1>2. /\ BioType' /\ ThOK' /\ OwnerOK' /\ CacheOK' /\ RefOK'
      /\ UNCHANGED <<blockno, valid, refcnt, owner, lru, dirty>>
  BY CacheStays
<1>3. TypeOK'
  BY <1>1, <1>2 DEF IInv, TypeOK, DevType
<1>4. IoOK'
  BY <1>1, <1>2, IoStays DEF IInv
<1>5. DescOK'
  BY <1>1, DescSame DEF IInv
<1>6. RingOK'
  BY <1>1 DEF IInv, RingOK
<1>7. FlagOK'
  BY <1>1 DEF IInv, FlagOK
<1>8. DataOK'
  BY <1>1, <1>2, DataStays DEF IInv, Served
<1> QED BY <1>2, <1>3, <1>4, <1>5, <1>6, <1>7, <1>8 DEF IInv

\* The handler ends when it has seen every completion.
LEMMA IntrEndInv ==
  ASSUME IInv, IntrEnd, UNCHANGED <<bioVars, th>> PROVE IInv'
<1>1. /\ intr' = FALSE /\ used = <<>>
      /\ UNCHANGED <<platter, data, bdisk, free, desc, req, avail, used, irq, io>>
  BY DEF IntrEnd
<1>2. /\ BioType' /\ ThOK' /\ OwnerOK' /\ CacheOK' /\ RefOK'
      /\ UNCHANGED <<blockno, valid, refcnt, owner, lru, dirty>>
  BY CacheStays
<1>3. TypeOK'
  BY <1>1, <1>2 DEF IInv, TypeOK, DevType
<1>4. IoOK'
  BY <1>1, <1>2, IoStays DEF IInv
<1>5. DescOK'
  BY <1>1, DescSame DEF IInv
<1>6. RingOK'
  BY <1>1 DEF IInv, RingOK
<1>7. FlagOK'
  BY <1>1 DEF IInv, FlagOK
<1>8. DataOK'
  BY <1>1, <1>2, DataStays DEF IInv, Served
<1> QED BY <1>2, <1>3, <1>4, <1>5, <1>6, <1>7, <1>8 DEF IInv

\* The chain of a request in flight has its three descriptors, none of them
\* free and none of another request.
LEMMA ChainFacts ==
  ASSUME DescOK, NEW p \in Procs, Busy(p)
  PROVE  LET i == io[p].idx IN
         /\ i \in Descs /\ desc[i] \in Descs /\ desc[desc[i]] \in Descs
         /\ i # desc[i] /\ i # desc[desc[i]] /\ desc[i] # desc[desc[i]]
         /\ req[i] = io[p].r
         /\ Chain(i) = {i, desc[i], desc[desc[i]]}
         /\ \A q \in Procs : Busy(q) /\ p # q => Chain(i) \cap Chain(io[q].idx) = {}
<1> DEFINE i == io[p].idx
<1>1. /\ i \in Descs /\ desc[i] \in Descs /\ desc[desc[i]] \in Descs
      /\ i # desc[i] /\ i # desc[desc[i]] /\ desc[i] # desc[desc[i]]
      /\ req[i] = io[p].r
  BY DEF DescOK
<1>2. \A q \in Procs : Busy(q) /\ p # q => Chain(i) \cap Chain(io[q].idx) = {}
  BY DEF DescOK
<1>3. Chain(i) = {i, desc[i], desc[desc[i]]}
  BY <1>1, Consts DEF Chain
<1> QED BY <1>1, <1>2, <1>3

\* A free descriptor is in no chain.
LEMMA FreeIs ==
  ASSUME DescOK, NEW d \in Descs
  PROVE  d \in free <=> \A p \in Procs : Busy(p) => d \notin Chain(io[p].idx)
BY DEF DescOK

\* The chains of requests that a step leaves alone stay as they are.
LEMMA ChainStays ==
  ASSUME DescOK, NEW q \in Procs, Busy(q), io'[q] = io[q],
         \A d \in Chain(io[q].idx) : desc'[d] = desc[d] /\ req'[d] = req[d]
  PROVE  LET i == io[q].idx IN
         /\ i \in Descs /\ desc'[i] \in Descs /\ desc'[desc'[i]] \in Descs
         /\ i # desc'[i] /\ i # desc'[desc'[i]] /\ desc'[i] # desc'[desc'[i]]
         /\ req'[i] = io[q].r
         /\ Chain(io[q].idx)' = Chain(i)
<1> DEFINE i == io[q].idx
<1>1. /\ i \in Descs /\ desc[i] \in Descs /\ desc[desc[i]] \in Descs
      /\ i # desc[i] /\ i # desc[desc[i]] /\ desc[i] # desc[desc[i]]
      /\ req[i] = io[q].r /\ Chain(i) = {i, desc[i], desc[desc[i]]}
  BY ChainFacts
<1>2. desc'[i] = desc[i] /\ desc'[desc[i]] = desc[desc[i]] /\ req'[i] = req[i]
  BY <1>1
<1>3. Chain(io[q].idx)' = Chain(i)
  <2>1. io'[q].idx = i
    OBVIOUS
  <2>. HIDE DEF i
  <2> QED BY <1>1, <1>2, <2>1, Consts DEF Chain
<1> QED BY <1>1, <1>2, <1>3

\* A request that is not touched is not served.
LEMMA ServedSame ==
  ASSUME NEW q, io'[q] = io[q], avail \subseteq avail', Served(q)'
  PROVE  Served(q)
BY DEF Served

\* A request in the available ring is not served.
LEMMA NotServed ==
  ASSUME NEW q, io'[q].pc = "sleep b", io'[q].idx \in avail'
  PROVE  ~Served(q)'
BY DEF Served

\* The parts of DescOK', one process at a time.
LEMMA DescFrom ==
  ASSUME NEW C,
         \A q \in Procs : Busy(q)' =>
           /\ io'[q].idx \in Descs /\ desc'[io'[q].idx] \in Descs
           /\ desc'[desc'[io'[q].idx]] \in Descs
           /\ io'[q].idx # desc'[io'[q].idx] /\ io'[q].idx # desc'[desc'[io'[q].idx]]
           /\ desc'[io'[q].idx] # desc'[desc'[io'[q].idx]]
           /\ req'[io'[q].idx] = io'[q].r
           /\ Chain(io[q].idx)' = C[q],
         \A q, r \in Procs : Busy(q)' /\ Busy(r)' /\ q # r => C[q] \cap C[r] = {},
         \A d \in Descs : d \in free' <=> \A q \in Procs : Busy(q)' => d \notin C[q]
  PROVE  DescOK'
<1>1. ASSUME NEW q \in Procs, NEW r \in Procs, Busy(q)', Busy(r)', q # r
      PROVE  (Chain(io[q].idx) \cap Chain(io[r].idx) = {})'
  BY <1>1
<1>2. ASSUME NEW d \in Descs
      PROVE  (d \in free <=> \A q \in Procs : Busy(q) => d \notin Chain(io[q].idx))'
  OBVIOUS
<1>3. ASSUME NEW q \in Procs, Busy(q)'
      PROVE  (LET i == io[q].idx IN
              /\ i \in Descs /\ desc[i] \in Descs /\ desc[desc[i]] \in Descs
              /\ i # desc[i] /\ i # desc[desc[i]] /\ desc[i] # desc[desc[i]]
              /\ req[i] = io[q].r)'
  BY <1>3
<1> QED BY <1>1, <1>2, <1>3 DEF DescOK

\* The chain of a request that is done is freed, and nobody waits for
\* descriptors any more.
LEMMA FinishInv ==
  ASSUME IInv, NEW p \in Procs, Finish(p), UNCHANGED <<bioVars, th>> PROVE IInv'
<1>1. /\ io[p].pc = "woken"
      /\ free' = free \cup Chain(io[p].idx)
      /\ desc' = [d \in Descs |-> IF d \in Chain(io[p].idx) THEN None ELSE desc[d]]
      /\ req' = [req EXCEPT ![io[p].idx] = NoReq]
      /\ io' = [WakeFree(io) EXCEPT ![p].pc = "done", ![p].idx = None]
      /\ UNCHANGED <<platter, data, bdisk, avail, used, irq, intr>>
  BY DEF Finish, AfterFree
<1>2. Busy(p) /\ DescOK
  BY <1>1 DEF Busy, IInv
<1>3. PICK i \in Descs : i = io[p].idx
  BY <1>2, ChainFacts
<1>4. /\ i \in Chain(i) /\ Chain(i) \subseteq Descs
      /\ \A q \in Procs : Busy(q) /\ p # q => Chain(i) \cap Chain(io[q].idx) = {}
  BY <1>2, <1>3, ChainFacts
<1>5. io \in [Procs -> IoRec] /\ io[p] \in IoRec
  BY DEF IInv, TypeOK, DevType
<1>6. /\ WakeFree(io) \in [Procs -> IoRec]
      /\ \A q \in Procs : /\ WakeFree(io)[q].r = io[q].r
                          /\ WakeFree(io)[q].pc # "sleep free"
                          /\ \/ WakeFree(io)[q] = io[q]
                             \/ io[q].pc = "sleep free" /\ WakeFree(io)[q].pc = "alloc"
  BY <1>5, WakeFreeFacts
<1> DEFINE x == [WakeFree(io)[p] EXCEPT !.pc = "done", !.idx = None]
           W == WakeFree(io)
<1>7. x \in IoRec /\ x.pc = "done" /\ x.r = io[p].r
  <2>1. PICK y \in IoRec : y = WakeFree(io)[p] /\ y.r = io[p].r
    BY <1>6
  <2>2. /\ [y EXCEPT !.pc = "done", !.idx = None] \in IoRec
        /\ [y EXCEPT !.pc = "done", !.idx = None].pc = "done"
        /\ [y EXCEPT !.pc = "done", !.idx = None].r = y.r
    BY DEF IoRec
  <2> QED BY <2>1, <2>2
<1>8. io' = [W EXCEPT ![p] = x]
  BY <1>1, <1>6
<1>. HIDE DEF x, W
<1>9. io' \in [Procs -> IoRec] /\ io'[p] = x /\ \A q \in Procs : q # p => io'[q] = W[q]
  BY <1>6, <1>7, <1>8 DEF W
<1>10. \A q \in Procs : q # p =>
         /\ io'[q].r = io[q].r /\ io'[q].pc # "sleep free"
         /\ \/ io'[q] = io[q]
            \/ io[q].pc = "sleep free" /\ io'[q].pc = "alloc"
  BY <1>6, <1>9 DEF W
<1>11. /\ BioType' /\ ThOK' /\ OwnerOK' /\ CacheOK' /\ RefOK'
       /\ UNCHANGED <<blockno, valid, refcnt, owner, lru, dirty>>
  BY CacheStays
<1>12. NoReq \in ReqRec
  BY DEF NoReq, ReqRec
<1>13. /\ desc' \in [Descs -> Descs \cup {None}] /\ req' \in [Descs -> ReqRec]
       /\ free' \subseteq Descs
       /\ \A d \in Descs \ Chain(i) : desc'[d] = desc[d] /\ req'[d] = req[d]
  BY <1>1, <1>3, <1>4, <1>12 DEF IInv, TypeOK, DevType
<1>14. TypeOK'
  BY <1>1, <1>9, <1>11, <1>13 DEF IInv, TypeOK, DevType
<1>15. IoOK'
  <2>1. \A q \in Procs : io'[q].r = io[q].r /\ (io'[q].pc = "idle" <=> io[q].pc = "idle")
    BY <1>1, <1>7, <1>9, <1>10
  <2> QED BY <1>11, <2>1, IoStays DEF IInv
<1>16. \A q \in Procs : /\ Busy(q)' <=> Busy(q) /\ q # p
                        /\ Busy(q) /\ q # p => io'[q] = io[q]
                        /\ io'[q].pc = "sleep b" => io[q].pc = "sleep b" /\ io'[q] = io[q]
                        /\ io[q].pc = "sleep b" => io'[q].pc = "sleep b" /\ io'[q] = io[q]
  BY <1>1, <1>7, <1>9, <1>10 DEF Busy
<1>17. DescOK'
  <2> DEFINE C == [q \in Procs |-> Chain(io[q].idx)]
  <2>1. ASSUME NEW q \in Procs, Busy(q)'
        PROVE  /\ io'[q].idx \in Descs /\ desc'[io'[q].idx] \in Descs
               /\ desc'[desc'[io'[q].idx]] \in Descs
               /\ io'[q].idx # desc'[io'[q].idx] /\ io'[q].idx # desc'[desc'[io'[q].idx]]
               /\ desc'[io'[q].idx] # desc'[desc'[io'[q].idx]]
               /\ req'[io'[q].idx] = io'[q].r
               /\ Chain(io[q].idx)' = C[q]
    <3>1. Busy(q) /\ q # p /\ io'[q] = io[q]
      BY <1>16, <2>1
    <3>2. Chain(io[q].idx) \subseteq Descs /\ Chain(i) \cap Chain(io[q].idx) = {}
      BY <1>2, <1>4, <3>1, ChainFacts
    <3>3. \A d \in Chain(io[q].idx) : desc'[d] = desc[d] /\ req'[d] = req[d]
      BY <1>13, <3>2
    <3> QED BY <1>2, <3>1, <3>3, ChainStays
  <2>2. ASSUME NEW q \in Procs, NEW r \in Procs, Busy(q)', Busy(r)', q # r
        PROVE  C[q] \cap C[r] = {}
    BY <1>2, <1>16, <2>2 DEF DescOK
  <2>3. ASSUME NEW d \in Descs
        PROVE  d \in free' <=> \A q \in Procs : Busy(q)' => d \notin C[q]
    <3>1. d \in free <=> \A q \in Procs : Busy(q) => d \notin C[q]
      BY <1>2, FreeIs
    <3>2. d \in free' <=> d \in free \/ d \in C[p]
      BY <1>1
    <3>3. \A q \in Procs : Busy(q) /\ p # q => C[p] \cap C[q] = {}
      BY <1>3, <1>4
    <3>. HIDE DEF C
    <3> QED BY <1>2, <1>16, <3>1, <3>2, <3>3
  <2>. HIDE DEF C
  <2> QED BY <2>1, <2>2, <2>3, DescFrom
<1>18. RingOK'
  <2>1. ASSUME NEW j \in avail PROVE \E q \in Procs : io'[q].pc = "sleep b" /\ io'[q].idx = j
    <3>1. PICK q \in Procs : io[q].pc = "sleep b" /\ io[q].idx = j
      BY DEF IInv, RingOK
    <3> QED BY <1>16, <3>1
  <2>2. ASSUME NEW j \in Range(used)
        PROVE  j \notin avail /\ \E q \in Procs : io'[q].pc = "sleep b" /\ io'[q].idx = j
    <3>1. PICK q \in Procs : io[q].pc = "sleep b" /\ io[q].idx = j
      BY DEF IInv, RingOK
    <3> QED BY <1>16, <3>1 DEF IInv, RingOK
  <2>3. ASSUME NEW q \in Procs, io'[q].pc = "sleep b"
        PROVE  io'[q].idx \in avail \cup Range(used)
    BY <1>16, <2>3 DEF IInv, RingOK
  <2>4. ASSUME NEW q \in Procs PROVE io'[q].pc # "sleep free"
    BY <1>7, <1>9, <1>10
  <2>5. /\ \A j, k \in DOMAIN used : used[j] = used[k] => j = k
        /\ used # <<>> => irq \/ intr
    BY DEF IInv, RingOK
  <2> QED BY <1>1, <2>1, <2>2, <2>3, <2>4, <2>5 DEF RingOK
<1>19. FlagOK'
  <2> SUFFICES ASSUME NEW b \in Bufs
               PROVE  bdisk[b] <=> \E q \in Procs : io'[q].pc = "sleep b" /\ io'[q].r.b = b
    BY <1>1 DEF FlagOK
  <2>1. bdisk[b] <=> \E q \in Procs : io[q].pc = "sleep b" /\ io[q].r.b = b
    BY DEF IInv, FlagOK
  <2> QED BY <1>16, <2>1
<1>20. DataOK'
  <2>1. ASSUME NEW q \in Procs, q # p, Served(q)' PROVE Served(q)
    <3>1. io'[q] = io[q]
      BY <1>10, <2>1 DEF Served
    <3> QED BY <1>1, <2>1, <3>1, ServedSame
  <2>2. Served(p)
    BY <1>1 DEF Served
  <2> QED BY <1>1, <1>11, <2>1, <2>2, DataStays DEF IInv
<1> QED BY <1>11, <1>14, <1>15, <1>17, <1>18, <1>19, <1>20 DEF IInv

\* Three descriptors are found when three are free.
LEMMA ThreeFree ==
  ASSUME NEW S \in SUBSET Descs, Cardinality(S) >= 3
  PROVE  LET i0 == Min(S)
             i1 == Min(S \ {i0})
             i2 == Min(S \ {i0, i1}) IN
         /\ i0 \in S /\ i1 \in S /\ i2 \in S
         /\ i0 # i1 /\ i0 # i2 /\ i1 # i2
<1> DEFINE i0 == Min(S)
           i1 == Min(S \ {i0})
           i2 == Min(S \ {i0, i1})
<1>1. IsFiniteSet(S) /\ S \in SUBSET Nat /\ Cardinality(S) \in Nat
  <2>1. IsFiniteSet(S)
    BY Consts, FS_Subset
  <2> QED BY <2>1, Consts, FS_CardinalityType
<1>2. Cardinality({}) = 0
  BY FS_EmptySet
<1>3. i0 \in S
  <2>1. S # {}
    BY <1>1, <1>2
  <2> QED BY <1>1, <2>1, Least
<1>. HIDE DEF i0
<1>4. IsFiniteSet(S \ {i0}) /\ Cardinality(S \ {i0}) = Cardinality(S) - 1
  BY <1>1, <1>3, FS_RemoveElement
<1>5. i1 \in S \ {i0}
  <2>1. S \ {i0} # {}
    BY <1>1, <1>2, <1>4
  <2>2. S \ {i0} \in SUBSET Nat
    BY <1>1
  <2> QED BY <2>1, <2>2, Least
<1>. HIDE DEF i1
<1>6. Cardinality((S \ {i0}) \ {i1}) = Cardinality(S \ {i0}) - 1
  BY <1>4, <1>5, FS_RemoveElement
<1>7. (S \ {i0}) \ {i1} = S \ {i0, i1}
  OBVIOUS
<1>8. i2 \in S \ {i0, i1}
  <2>1. Cardinality(S \ {i0, i1}) = Cardinality(S) - 2
    BY <1>1, <1>4, <1>6, <1>7
  <2>2. S \ {i0, i1} # {}
    BY <1>1, <1>2, <2>1
  <2>3. S \ {i0, i1} \in SUBSET Nat
    BY <1>1
  <2> QED BY <2>2, <2>3, Least
<1> QED BY <1>3, <1>5, <1>8 DEF i0, i1

\* A request takes three free descriptors and goes into the available ring.
LEMMA SubmitInv ==
  ASSUME IInv, NEW p \in Procs, Submit(p), UNCHANGED <<bioVars, th>> PROVE IInv'
<1> DEFINE e0 == Min(free)
           e1 == Min(free \ {e0})
           e2 == Min(free \ {e0, e1})
<1>1. /\ io[p].pc = "alloc" /\ Cardinality(free) >= 3
      /\ free' = free \ {e0, e1, e2}
      /\ desc' = [desc EXCEPT ![e0] = e1, ![e1] = e2, ![e2] = None]
      /\ req' = [req EXCEPT ![e0] = io[p].r]
      /\ bdisk' = [bdisk EXCEPT ![io[p].r.b] = TRUE]
      /\ avail' = avail \cup {e0}
      /\ io' = [io EXCEPT ![p].pc = "sleep b", ![p].idx = e0]
      /\ UNCHANGED <<platter, data, used, irq, intr>>
  BY DEF Submit
<1>2. free \in SUBSET Descs /\ DescOK
  BY DEF IInv, TypeOK, DevType
<1>3. e0 \in free /\ e1 \in free /\ e2 \in free /\ e0 # e1 /\ e0 # e2 /\ e1 # e2
  BY <1>1, <1>2, ThreeFree
<1>4. PICK i0 \in free, i1 \in free, i2 \in free : i0 = e0 /\ i1 = e1 /\ i2 = e2
  BY <1>3
<1>5. /\ free' = free \ {i0, i1, i2} /\ i0 # i1 /\ i0 # i2 /\ i1 # i2
      /\ desc' = [desc EXCEPT ![i0] = i1, ![i1] = i2, ![i2] = None]
      /\ req' = [req EXCEPT ![i0] = io[p].r] /\ avail' = avail \cup {i0}
      /\ io' = [io EXCEPT ![p].pc = "sleep b", ![p].idx = i0]
  BY <1>1, <1>3, <1>4
<1>. HIDE DEF e0, e1, e2
<1>6. i0 \in Descs /\ i1 \in Descs /\ i2 \in Descs
  BY <1>2, <1>4
<1>7. io \in [Procs -> IoRec] /\ io[p] \in IoRec /\ io[p].r \in ReqRec
  BY DEF IInv, TypeOK, DevType, IoRec
<1> DEFINE x == [io[p] EXCEPT !.pc = "sleep b", !.idx = i0]
<1>8. x \in IoRec /\ x.pc = "sleep b" /\ x.idx = i0 /\ x.r = io[p].r
  BY <1>6, <1>7 DEF IoRec
<1>9. io' = [io EXCEPT ![p] = x]
  BY <1>5, <1>7
<1>. HIDE DEF x
<1>10. io' \in [Procs -> IoRec] /\ io'[p] = x /\ \A q \in Procs : q # p => io'[q] = io[q]
  BY <1>7, <1>8, <1>9
<1>11. PICK b \in Bufs : b = io[p].r.b /\ b = th[p].b
  BY <1>1, TransferFacts
<1>12. /\ bdisk' \in [Bufs -> BOOLEAN] /\ bdisk'[b]
       /\ \A c \in Bufs : c # b => bdisk'[c] = bdisk[c]
  BY <1>1, <1>11 DEF IInv, TypeOK, DevType
<1>13. /\ desc' \in [Descs -> Descs \cup {None}]
       /\ desc'[i0] = i1 /\ desc'[i1] = i2
       /\ \A d \in Descs : d \notin {i0, i1, i2} => desc'[d] = desc[d]
  BY <1>5, <1>6 DEF IInv, TypeOK, DevType
<1>14. /\ req' \in [Descs -> ReqRec] /\ req'[i0] = io[p].r
       /\ \A d \in Descs : d # i0 => req'[d] = req[d]
  BY <1>5, <1>6, <1>7 DEF IInv, TypeOK, DevType
<1>15. /\ BioType' /\ ThOK' /\ OwnerOK' /\ CacheOK' /\ RefOK'
       /\ UNCHANGED <<blockno, valid, refcnt, owner, lru, dirty>>
  BY CacheStays
<1>16. TypeOK'
  BY <1>1, <1>5, <1>6, <1>10, <1>12, <1>13, <1>14, <1>15 DEF IInv, TypeOK, DevType
<1>17. IoOK'
  <2>1. \A q \in Procs : io'[q].r = io[q].r /\ (io'[q].pc = "idle" <=> io[q].pc = "idle")
    BY <1>1, <1>8, <1>10
  <2> QED BY <1>15, <2>1, IoStays DEF IInv
<1>18. ~Busy(p) /\ io[p].pc # "sleep b" /\ io[p].pc # "sleep free"
  BY <1>1 DEF Busy
<1>19. Busy(p)' /\ \A q \in Procs : q # p => (Busy(q)' <=> Busy(q))
  BY <1>8, <1>10 DEF Busy
<1>20. ASSUME NEW q \in Procs, Busy(q)
       PROVE  /\ Chain(io[q].idx) \subseteq Descs
              /\ i0 \notin Chain(io[q].idx) /\ i1 \notin Chain(io[q].idx)
              /\ i2 \notin Chain(io[q].idx) /\ io[q].idx \in Chain(io[q].idx)
  <2>1. Chain(io[q].idx) \subseteq Descs /\ io[q].idx \in Chain(io[q].idx)
    BY <1>2, <1>20, ChainFacts
  <2>2. \A d \in Descs : d \in free => d \notin Chain(io[q].idx)
    BY <1>2, <1>20, FreeIs
  <2> QED BY <1>4, <1>6, <2>1, <2>2
<1>21. Chain(io[p].idx)' = {i0, i1, i2}
  <2>1. io'[p].idx = i0
    BY <1>8, <1>10
  <2> QED BY <1>6, <1>13, <2>1, Consts DEF Chain
<1>22. DescOK'
  <2> DEFINE C == [q \in Procs |-> IF q = p THEN {i0, i1, i2} ELSE Chain(io[q].idx)]
  <2>1. ASSUME NEW q \in Procs, Busy(q)'
        PROVE  /\ io'[q].idx \in Descs /\ desc'[io'[q].idx] \in Descs
               /\ desc'[desc'[io'[q].idx]] \in Descs
               /\ io'[q].idx # desc'[io'[q].idx] /\ io'[q].idx # desc'[desc'[io'[q].idx]]
               /\ desc'[io'[q].idx] # desc'[desc'[io'[q].idx]]
               /\ req'[io'[q].idx] = io'[q].r
               /\ Chain(io[q].idx)' = C[q]
    <3>1. CASE q = p
      <4>1. io'[q].idx = i0 /\ io'[q].r = io[p].r
        BY <1>8, <1>10, <3>1
      <4> QED BY <1>5, <1>6, <1>13, <1>14, <1>21, <3>1, <4>1
    <3>2. CASE q # p
      <4>1. Busy(q) /\ io'[q] = io[q]
        BY <1>10, <1>19, <2>1, <3>2
      <4>2. \A d \in Chain(io[q].idx) : desc'[d] = desc[d] /\ req'[d] = req[d]
        BY <1>13, <1>14, <1>20, <4>1
      <4> QED BY <1>2, <3>2, <4>1, <4>2, ChainStays
    <3> QED BY <3>1, <3>2
  <2>2. ASSUME NEW q \in Procs, NEW r \in Procs, Busy(q)', Busy(r)', q # r
        PROVE  C[q] \cap C[r] = {}
    <3>1. CASE q = p
      <4>1. Busy(r)
        BY <1>19, <2>2, <3>1
      <4> QED BY <1>20, <2>2, <3>1, <4>1
    <3>2. CASE r = p
      <4>1. Busy(q)
        BY <1>19, <2>2, <3>2
      <4> QED BY <1>20, <2>2, <3>2, <4>1
    <3>3. CASE q # p /\ r # p
      <4>1. Busy(q) /\ Busy(r)
        BY <1>19, <2>2, <3>3
      <4> QED BY <1>2, <2>2, <3>3, <4>1 DEF DescOK
    <3> QED BY <3>1, <3>2, <3>3
  <2>3. ASSUME NEW d \in Descs
        PROVE  d \in free' <=> \A q \in Procs : Busy(q)' => d \notin C[q]
    <3>1. d \in free <=> \A q \in Procs : Busy(q) => d \notin Chain(io[q].idx)
      BY <1>2, FreeIs
    <3>2. d \in free' <=> d \in free /\ d \notin C[p]
      BY <1>5
    <3>3. \A q \in Procs : q # p => C[q] = Chain(io[q].idx)
      OBVIOUS
    <3>. HIDE DEF C
    <3> QED BY <1>18, <1>19, <3>1, <3>2, <3>3
  <2>. HIDE DEF C
  <2> QED BY <2>1, <2>2, <2>3, DescFrom
<1>23. \A q \in Procs : /\ io[q].pc = "sleep b" => q # p /\ io'[q] = io[q]
                        /\ io'[q].pc = "sleep b" => q = p \/ io'[q] = io[q]
                        /\ io'[q].pc = "sleep free" => io'[q] = io[q]
  BY <1>8, <1>10, <1>18
<1>24. RingOK'
  <2>1. ASSUME NEW j \in avail'
        PROVE  \E q \in Procs : io'[q].pc = "sleep b" /\ io'[q].idx = j
    <3>1. CASE j = i0
      BY <1>8, <1>10, <3>1
    <3>2. CASE j \in avail
      <4>1. PICK q \in Procs : io[q].pc = "sleep b" /\ io[q].idx = j
        BY <3>2 DEF IInv, RingOK
      <4> QED BY <1>23, <4>1
    <3> QED BY <1>5, <3>1, <3>2
  <2>2. ASSUME NEW j \in Range(used)
        PROVE  j \notin avail' /\ \E q \in Procs : io'[q].pc = "sleep b" /\ io'[q].idx = j
    <3>1. PICK q \in Procs : io[q].pc = "sleep b" /\ io[q].idx = j
      BY DEF IInv, RingOK
    <3>2. j # i0
      BY <1>20, <3>1 DEF Busy
    <3>3. j \notin avail
      BY DEF IInv, RingOK
    <3> QED BY <1>5, <1>23, <3>1, <3>2, <3>3
  <2>3. ASSUME NEW q \in Procs, io'[q].pc = "sleep b"
        PROVE  io'[q].idx \in avail' \cup Range(used)
    <3>1. CASE q = p
      <4>1. io'[q].idx = i0 /\ i0 \in avail'
        BY <1>5, <1>8, <1>10, <3>1
      <4> QED BY <4>1
    <3>2. CASE q # p
      <4>1. io'[q] = io[q] /\ avail \subseteq avail'
        BY <1>5, <1>10, <3>2
      <4>2. io[q].idx \in avail \cup Range(used)
        BY <2>3, <4>1 DEF IInv, RingOK
      <4> QED BY <4>1, <4>2
    <3> QED BY <3>1, <3>2
  <2>4. ASSUME NEW q \in Procs PROVE io'[q].pc # "sleep free"
    <3>1. ASSUME io'[q].pc = "sleep free" PROVE FALSE
      <4>1. io[q].pc = "sleep free"
        BY <1>23, <3>1
      <4>2. Cardinality(free) < 3
        BY <4>1, FewFree DEF IInv
      <4>3. Cardinality(free) \in Nat
        BY <1>2, Consts, FS_Subset, FS_CardinalityType
      <4>4. Cardinality(free) >= 3
        BY <1>1
      <4> QED BY <4>2, <4>3, <4>4
    <3> QED BY <3>1
  <2>5. /\ \A j, k \in DOMAIN used : used[j] = used[k] => j = k
        /\ used # <<>> => irq \/ intr
    BY DEF IInv, RingOK
  <2> QED BY <1>1, <2>1, <2>2, <2>3, <2>4, <2>5 DEF RingOK
<1>25. FlagOK'
  <2> SUFFICES ASSUME NEW c \in Bufs
               PROVE  bdisk'[c] <=> \E q \in Procs : io'[q].pc = "sleep b" /\ io'[q].r.b = c
    BY DEF FlagOK
  <2>1. bdisk[c] <=> \E q \in Procs : io[q].pc = "sleep b" /\ io[q].r.b = c
    BY DEF IInv, FlagOK
  <2>2. CASE c = b
    BY <1>8, <1>10, <1>11, <1>12, <2>2
  <2>3. CASE c # b
    <3>1. io'[p].r.b # c
      BY <1>8, <1>10, <1>11, <2>3
    <3> QED BY <1>10, <1>12, <1>23, <2>1, <2>3, <3>1
  <2> QED BY <2>2, <2>3
<1>26. DataOK'
  <2>1. ASSUME NEW q \in Procs, Served(q)' PROVE Served(q)
    <3>1. io'[p].pc = "sleep b" /\ io'[p].idx = i0 /\ i0 \in avail' /\ avail \subseteq avail'
      BY <1>5, <1>8, <1>10
    <3>2. ~Served(p)'
      BY <3>1, NotServed
    <3>3. q # p
      BY <2>1, <3>2
    <3>4. io'[q] = io[q]
      BY <1>10, <3>3
    <3> QED BY <2>1, <3>1, <3>4, ServedSame
  <2> QED BY <1>1, <1>15, <2>1, DataStays DEF IInv
<1> QED BY <1>15, <1>16, <1>17, <1>22, <1>24, <1>25, <1>26 DEF IInv

\* The used ring, as a sequence without repetitions.
LEMMA TailRange ==
  ASSUME NEW S, NEW s \in Seq(S), s # <<>>,
         \A j, k \in DOMAIN s : s[j] = s[k] => j = k
  PROVE  /\ Tail(s) \in Seq(S) /\ Head(s) \in Range(s)
         /\ \A x : x \in Range(Tail(s)) <=> x \in Range(s) /\ x # Head(s)
         /\ \A j, k \in DOMAIN Tail(s) : Tail(s)[j] = Tail(s)[k] => j = k
<1>1. /\ Len(s) \in Nat /\ Len(s) >= 1 /\ DOMAIN s = 1 .. Len(s) /\ Head(s) = s[1]
      /\ Tail(s) \in Seq(S) /\ DOMAIN Tail(s) = 1 .. Len(s) - 1
      /\ \A j \in 1 .. Len(s) - 1 : Tail(s)[j] = s[j + 1]
  <2>1. Len(s) \in Nat /\ Len(s) >= 1 /\ DOMAIN s = 1 .. Len(s) /\ Head(s) = s[1]
    OBVIOUS
  <2>2. Tail(s) \in Seq(S) /\ Len(Tail(s)) = Len(s) - 1
    OBVIOUS
  <2>3. DOMAIN Tail(s) = 1 .. Len(s) - 1
    BY <2>2
  <2>4. \A j \in 1 .. Len(s) - 1 : Tail(s)[j] = s[j + 1]
    OBVIOUS
  <2> QED BY <2>1, <2>2, <2>3, <2>4
<1>2. ASSUME NEW j \in 1 .. Len(s) - 1, NEW k \in 1 .. Len(s) - 1, Tail(s)[j] = Tail(s)[k]
      PROVE  j = k
  <2>1. j + 1 \in DOMAIN s /\ k + 1 \in DOMAIN s
    BY <1>1
  <2>2. s[j + 1] = s[k + 1]
    BY <1>1, <1>2
  <2>3. j + 1 = k + 1
    BY <2>1, <2>2
  <2> QED BY <1>1, <2>3
<1>3. ASSUME NEW x, x \in Range(Tail(s)) PROVE x \in Range(s) /\ x # Head(s)
  <2>1. PICK j \in 1 .. Len(s) - 1 : x = Tail(s)[j]
    BY <1>1, <1>3 DEF Range
  <2>2. x = s[j + 1] /\ j + 1 \in DOMAIN s /\ 1 \in DOMAIN s /\ j + 1 # 1
    BY <1>1, <2>1
  <2>3. x # s[1]
    BY <2>2
  <2> QED BY <1>1, <2>2, <2>3 DEF Range
<1>4. ASSUME NEW x, x \in Range(s), x # Head(s) PROVE x \in Range(Tail(s))
  <2>1. PICK j \in DOMAIN s : x = s[j]
    BY <1>4 DEF Range
  <2>2. j \in 1 .. Len(s) /\ j # 1
    BY <1>1, <1>4, <2>1
  <2>3. j - 1 \in 1 .. Len(s) - 1 /\ (j - 1) + 1 = j
    BY <1>1, <2>2
  <2>4. Tail(s)[j - 1] = x
    BY <1>1, <2>1, <2>3
  <2> QED BY <1>1, <2>3, <2>4 DEF Range
<1>5. Head(s) \in Range(s)
  BY <1>1 DEF Range
<1> QED BY <1>1, <1>2, <1>3, <1>4, <1>5

\* A new element at the end.
LEMMA AppendRange ==
  ASSUME NEW S, NEW s \in Seq(S), NEW y \in S, y \notin Range(s),
         \A j, k \in DOMAIN s : s[j] = s[k] => j = k
  PROVE  /\ Append(s, y) \in Seq(S) /\ Append(s, y) # <<>>
         /\ \A x : x \in Range(Append(s, y)) <=> x \in Range(s) \/ x = y
         /\ \A j, k \in DOMAIN Append(s, y) : Append(s, y)[j] = Append(s, y)[k] => j = k
<1> DEFINE t == Append(s, y)
           n == Len(s)
<1>1. n \in Nat /\ DOMAIN s = 1 .. n
  OBVIOUS
<1>2. /\ t \in Seq(S) /\ DOMAIN t = 1 .. n + 1 /\ t[n + 1] = y
      /\ \A j \in 1 .. n : t[j] = s[j]
  <2>1. t \in Seq(S) /\ Len(t) = n + 1 /\ t[n + 1] = y
    OBVIOUS
  <2>2. DOMAIN t = 1 .. n + 1
    BY <2>1
  <2>3. \A j \in 1 .. n : t[j] = s[j]
    OBVIOUS
  <2> QED BY <2>1, <2>2, <2>3
<1>3. t # <<>>
  <2>1. Len(t) = n + 1 /\ Len(<<>>) = 0
    OBVIOUS
  <2> QED BY <1>1, <2>1
<1>. HIDE DEF t, n
<1>4. \A j \in 1 .. n : s[j] # y
  BY <1>1 DEF Range
<1>5. ASSUME NEW j \in 1 .. n + 1, NEW k \in 1 .. n + 1, t[j] = t[k] PROVE j = k
  <2>1. CASE j \in 1 .. n /\ k \in 1 .. n
    BY <1>1, <1>2, <1>5, <2>1
  <2>2. CASE j = n + 1 /\ k \in 1 .. n
    BY <1>2, <1>4, <1>5, <2>2
  <2>3. CASE j \in 1 .. n /\ k = n + 1
    BY <1>2, <1>4, <1>5, <2>3
  <2>4. (j = n + 1 \/ j \in 1 .. n) /\ (k = n + 1 \/ k \in 1 .. n)
    BY <1>1
  <2> QED BY <2>1, <2>2, <2>3, <2>4
<1>6. ASSUME NEW x, x \in Range(t) PROVE x \in Range(s) \/ x = y
  <2>1. PICK j \in 1 .. n + 1 : x = t[j]
    BY <1>2, <1>6 DEF Range
  <2>2. j = n + 1 \/ j \in 1 .. n
    BY <1>1
  <2> QED BY <1>1, <1>2, <2>1, <2>2 DEF Range
<1>7. ASSUME NEW x, x \in Range(s) \/ x = y PROVE x \in Range(t)
  <2>1. 1 .. n \subseteq 1 .. n + 1 /\ n + 1 \in 1 .. n + 1
    BY <1>1
  <2> QED BY <1>1, <1>2, <1>7, <2>1 DEF Range
<1> QED BY <1>2, <1>3, <1>5, <1>6, <1>7 DEF t

\* Different processes have different requests and different buffers in
\* flight.
LEMMA OwnRequest ==
  ASSUME IInv, NEW p \in Procs, NEW q \in Procs, io[p].pc = "sleep b", io[q].pc = "sleep b",
         io[p].idx = io[q].idx \/ io[p].r.b = io[q].r.b
  PROVE  p = q
<1>1. CASE io[p].idx = io[q].idx
  <2>1. Busy(p) /\ Busy(q) /\ DescOK
    BY DEF Busy, IInv
  <2>2. io[p].idx \in Chain(io[p].idx)
    BY <2>1, ChainFacts
  <2> QED BY <1>1, <2>1, <2>2 DEF DescOK
<1>2. CASE io[p].r.b = io[q].r.b
  <2>1. /\ io[p].r.b = th[p].b /\ io[q].r.b = th[q].b /\ th[q].pc \in Transfer
        /\ \A r \in Procs : r # p /\ th[r].pc \in Holding => th[r].b # th[p].b
    BY TransferFacts
  <2> QED BY <1>2, <2>1, Places
<1> QED BY <1>1, <1>2

\* The handler takes one completion and wakes the process that waits for it.
LEMMA IntrTakeInv ==
  ASSUME IInv, IntrTake, UNCHANGED <<bioVars, th>> PROVE IInv'
<1>1. /\ intr /\ used # <<>> /\ used' = Tail(used)
      /\ bdisk' = [bdisk EXCEPT ![req[Head(used)].b] = FALSE]
      /\ io' = WakeBuf(req[Head(used)].b)
      /\ UNCHANGED <<platter, data, free, desc, req, avail, irq, intr>>
  BY DEF IntrTake
<1>2. used \in Seq(Descs) /\ io \in [Procs -> IoRec]
  BY DEF IInv, TypeOK, DevType
<1>3. /\ Tail(used) \in Seq(Descs) /\ Head(used) \in Range(used)
      /\ \A x : x \in Range(Tail(used)) <=> x \in Range(used) /\ x # Head(used)
      /\ \A j, k \in DOMAIN Tail(used) : Tail(used)[j] = Tail(used)[k] => j = k
  <2>1. \A j, k \in DOMAIN used : used[j] = used[k] => j = k
    BY DEF IInv, RingOK
  <2> QED BY <1>1, <1>2, <2>1, TailRange
<1>4. PICK i \in Range(used) : i = Head(used)
  BY <1>3
<1>5. PICK p \in Procs : io[p].pc = "sleep b" /\ io[p].idx = i
  BY <1>4 DEF IInv, RingOK
<1>6. i \notin avail
  BY <1>4 DEF IInv, RingOK
<1>7. req[i] = io[p].r
  BY <1>5, ChainFacts DEF IInv, Busy
<1>8. PICK b \in Bufs : b = io[p].r.b /\ b = th[p].b
  BY <1>5, TransferFacts
<1>9. bdisk' = [bdisk EXCEPT ![b] = FALSE] /\ io' = WakeBuf(b)
  BY <1>1, <1>4, <1>7, <1>8
<1>10. /\ bdisk' \in [Bufs -> BOOLEAN] /\ ~bdisk'[b]
       /\ \A c \in Bufs : c # b => bdisk'[c] = bdisk[c]
  BY <1>9 DEF IInv, TypeOK, DevType
<1>11. \A q \in Procs : q # p => io'[q] = io[q]
  <2> SUFFICES ASSUME NEW q \in Procs, q # p PROVE io'[q] = io[q]
    OBVIOUS
  <2>1. ~(io[q].pc = "sleep b" /\ io[q].r.b = b)
    BY <1>5, <1>8, OwnRequest
  <2> QED BY <1>9, <2>1 DEF WakeBuf
<1>12. io'[p] = [io[p] EXCEPT !.pc = "woken"]
  BY <1>5, <1>8, <1>9 DEF WakeBuf
<1>13. io'[p] \in IoRec /\ io'[p].pc = "woken" /\ io'[p].r = io[p].r /\ io'[p].idx = io[p].idx
  <2>1. PICK x \in IoRec : x = io[p]
    BY <1>2
  <2>2. /\ [x EXCEPT !.pc = "woken"] \in IoRec /\ [x EXCEPT !.pc = "woken"].pc = "woken"
        /\ [x EXCEPT !.pc = "woken"].r = x.r /\ [x EXCEPT !.pc = "woken"].idx = x.idx
    BY IoPlace
  <2> QED BY <1>12, <2>1, <2>2
<1>14. io' \in [Procs -> IoRec]
  <2>1. io' = [q \in Procs |-> io'[q]]
    BY <1>9 DEF WakeBuf
  <2>2. \A q \in Procs : io'[q] \in IoRec
    BY <1>2, <1>11, <1>13
  <2> QED BY <2>1, <2>2
<1>15. /\ BioType' /\ ThOK' /\ OwnerOK' /\ CacheOK' /\ RefOK'
       /\ UNCHANGED <<blockno, valid, refcnt, owner, lru, dirty>>
  BY CacheStays
<1>16. TypeOK'
  BY <1>1, <1>3, <1>10, <1>14, <1>15 DEF IInv, TypeOK, DevType
<1>17. IoOK'
  <2>1. \A q \in Procs : io'[q].r = io[q].r /\ (io'[q].pc = "idle" <=> io[q].pc = "idle")
    BY <1>5, <1>11, <1>13
  <2> QED BY <1>15, <2>1, IoStays DEF IInv
<1>18. \A q \in Procs : /\ Busy(q)' <=> Busy(q)
                        /\ io'[q].idx = io[q].idx /\ io'[q].r = io[q].r
  <2> SUFFICES ASSUME NEW q \in Procs
               PROVE  (Busy(q)' <=> Busy(q)) /\ io'[q].idx = io[q].idx /\ io'[q].r = io[q].r
    OBVIOUS
  <2>1. CASE q = p
    BY <1>5, <1>13, <2>1 DEF Busy
  <2>2. CASE q # p
    BY <1>11, <2>2 DEF Busy
  <2> QED BY <2>1, <2>2
<1>19. DescOK'
  <2> DEFINE C == [q \in Procs |-> Chain(io[q].idx)]
  <2>1. ASSUME NEW q \in Procs, Busy(q)'
        PROVE  /\ io'[q].idx \in Descs /\ desc'[io'[q].idx] \in Descs
               /\ desc'[desc'[io'[q].idx]] \in Descs
               /\ io'[q].idx # desc'[io'[q].idx] /\ io'[q].idx # desc'[desc'[io'[q].idx]]
               /\ desc'[io'[q].idx] # desc'[desc'[io'[q].idx]]
               /\ req'[io'[q].idx] = io'[q].r
               /\ Chain(io[q].idx)' = C[q]
    <3>1. Busy(q) /\ DescOK
      BY <1>18, <2>1 DEF IInv
    <3>2. Chain(io[q].idx)' = Chain(io[q].idx)
      BY <1>1, <1>18 DEF Chain
    <3> QED BY <1>1, <1>18, <3>1, <3>2 DEF DescOK
  <2>2. ASSUME NEW q \in Procs, NEW r \in Procs, Busy(q)', Busy(r)', q # r
        PROVE  C[q] \cap C[r] = {}
    BY <1>18, <2>2 DEF IInv, DescOK
  <2>3. ASSUME NEW d \in Descs
        PROVE  d \in free' <=> \A q \in Procs : Busy(q)' => d \notin C[q]
    BY <1>1, <1>18, FreeIs DEF IInv
  <2>. HIDE DEF C
  <2> QED BY <2>1, <2>2, <2>3, DescFrom
<1>20. \A q \in Procs : io'[q].pc = "sleep b" <=> io[q].pc = "sleep b" /\ q # p
  BY <1>11, <1>13
<1>21. RingOK'
  <2>1. ASSUME NEW j \in avail PROVE \E q \in Procs : io'[q].pc = "sleep b" /\ io'[q].idx = j
    <3>1. PICK q \in Procs : io[q].pc = "sleep b" /\ io[q].idx = j
      BY DEF IInv, RingOK
    <3>2. q # p
      BY <1>5, <1>6, <3>1
    <3> QED BY <1>11, <3>1, <3>2
  <2>2. ASSUME NEW j \in Range(Tail(used))
        PROVE  j \notin avail /\ \E q \in Procs : io'[q].pc = "sleep b" /\ io'[q].idx = j
    <3>1. j \in Range(used) /\ j # i
      BY <1>3, <1>4
    <3>2. PICK q \in Procs : io[q].pc = "sleep b" /\ io[q].idx = j
      BY <3>1 DEF IInv, RingOK
    <3>3. q # p
      BY <1>5, <3>1, <3>2
    <3>4. j \notin avail
      BY <3>1 DEF IInv, RingOK
    <3> QED BY <1>11, <3>2, <3>3, <3>4
  <2>3. ASSUME NEW q \in Procs, io'[q].pc = "sleep b"
        PROVE  io'[q].idx \in avail \cup Range(Tail(used))
    <3>1. io[q].pc = "sleep b" /\ q # p /\ io'[q] = io[q]
      BY <1>11, <1>20, <2>3
    <3>2. io[q].idx # i
      BY <1>5, <3>1, OwnRequest
    <3>3. io[q].idx \in avail \cup Range(used)
      BY <3>1 DEF IInv, RingOK
    <3> QED BY <1>3, <1>4, <3>1, <3>2, <3>3
  <2>4. ASSUME NEW q \in Procs, io'[q].pc = "sleep free" PROVE Cardinality(free) < 3
    <3>1. io[q].pc = "sleep free"
      BY <1>11, <1>13, <2>4
    <3> QED BY <3>1, FewFree DEF IInv
  <2> QED BY <1>1, <1>3, <2>1, <2>2, <2>3, <2>4 DEF RingOK
<1>22. FlagOK'
  <2> SUFFICES ASSUME NEW c \in Bufs
               PROVE  bdisk'[c] <=> \E q \in Procs : io'[q].pc = "sleep b" /\ io'[q].r.b = c
    BY DEF FlagOK
  <2>1. bdisk[c] <=> \E q \in Procs : io[q].pc = "sleep b" /\ io[q].r.b = c
    BY DEF IInv, FlagOK
  <2>2. CASE c = b
    <3>1. ASSUME NEW q \in Procs, io'[q].pc = "sleep b", io'[q].r.b = b PROVE FALSE
      <4>1. io[q].pc = "sleep b" /\ q # p /\ io[q].r.b = b
        BY <1>18, <1>20, <3>1
      <4> QED BY <1>5, <1>8, <4>1, OwnRequest
    <3> QED BY <1>10, <2>2, <3>1
  <2>3. CASE c # b
    BY <1>8, <1>10, <1>18, <1>20, <2>1, <2>3
  <2> QED BY <2>2, <2>3
<1>23. DataOK'
  <2>1. ASSUME NEW q \in Procs, Served(q)' PROVE Served(q)
    <3>1. CASE q = p
      BY <1>5, <1>6, <3>1 DEF Served
    <3>2. CASE q # p
      <4>1. io'[q] = io[q] /\ avail \subseteq avail'
        BY <1>1, <1>11, <3>2
      <4> QED BY <2>1, <4>1, ServedSame
    <3> QED BY <3>1, <3>2
  <2> QED BY <1>1, <1>15, <2>1, DataStays DEF IInv
<1> QED BY <1>15, <1>16, <1>17, <1>19, <1>21, <1>22, <1>23 DEF IInv

\* The device serves a request: the disk or the buffer gets the content of the
\* other, and nothing else changes.
LEMMA CompleteData ==
  ASSUME IInv, NEW p \in Procs, NEW b \in Bufs, NEW k \in Blocks, io[p].pc = "sleep b",
         th[p].b = b, blockno[b] = k,
         UNCHANGED <<blockno, valid, dirty, th, io>>, avail' = avail \ {io[p].idx},
         \/ /\ th[p].pc = "writing" /\ platter' = [platter EXCEPT ![k] = data[b]]
            /\ UNCHANGED data
         \/ /\ th[p].pc = "reading" /\ data' = [data EXCEPT ![b] = platter[k]]
            /\ UNCHANGED platter
  PROVE  DataOK' /\ platter' \in [Blocks -> Vals] /\ data' \in [Bufs -> Vals]
<1>1. platter \in [Blocks -> Vals] /\ data \in [Bufs -> Vals]
  BY DEF IInv, TypeOK, DevType
<1>2. /\ platter' \in [Blocks -> Vals] /\ data' \in [Bufs -> Vals]
      /\ data'[b] = platter'[k]
      /\ \A j \in Blocks : j # k => platter'[j] = platter[j]
      /\ \A c \in Bufs : c # b => data'[c] = data[c]
  BY <1>1
<1>3. \A c \in Bufs : c # b /\ blockno[c] \in Blocks => blockno[c] # k
  BY DEF IInv, CacheOK
<1>4. /\ \A q \in Procs : q # p /\ th[q].pc \in Holding => th[q].b # b
      /\ th[p].pc \in Transfer
  BY TransferFacts
<1>5. \A c \in Bufs : Writing(c)' <=> Writing(c)
  BY DEF Writing
<1>6. ASSUME NEW c \in Bufs, valid[c], c \notin dirty, ~Writing(c)
      PROVE  data'[c] = platter'[blockno[c]]
  <2>1. data[c] = platter[blockno[c]] /\ blockno[c] \in Blocks
    BY <1>6 DEF IInv, DataOK, CacheOK
  <2>2. CASE c = b
    BY <1>2, <2>2
  <2>3. CASE c # b
    BY <1>2, <1>3, <2>1, <2>3
  <2> QED BY <2>2, <2>3
<1>7. ASSUME NEW q \in Procs, th[q].pc = "unpin" \/ Served(q)'
      PROVE  data'[th[q].b] = platter'[blockno[th[q].b]]
  <2>1. CASE q = p
    BY <1>2, <2>1
  <2>2. CASE q # p
    <3>1. th[q].pc = "unpin" \/ Served(q)
      <4>1. io[q].pc = "sleep b" => io[q].idx # io[p].idx
        BY <2>2, OwnRequest
      <4>2. io'[q] = io[q] /\ avail' = avail \ {io[p].idx}
        OBVIOUS
      <4> QED BY <1>7, <4>1, <4>2 DEF Served
    <3>2. th[q].pc \in Holding
      BY <3>1, TransferFacts, Places DEF Served, Holding
    <3>3. th[q].b \in Bufs /\ blockno[th[q].b] \in Blocks /\ th[q].b # b
      BY <1>4, <2>2, <3>2, HoldFacts
    <3>4. data[th[q].b] = platter[blockno[th[q].b]]
      BY <3>1 DEF IInv, DataOK
    <3> QED BY <1>2, <1>3, <3>3, <3>4
  <2> QED BY <2>1, <2>2
<1> QED BY <1>2, <1>5, <1>6, <1>7 DEF DataOK

\* The device serves a request, in any order.
LEMMA DeviceCompleteInv ==
  ASSUME IInv, NEW i \in Descs, DeviceComplete(i), UNCHANGED <<bioVars, th>> PROVE IInv'
<1>1. /\ i \in avail /\ avail' = avail \ {i} /\ used' = Append(used, i) /\ irq' = TRUE
      /\ IF req[i].write THEN /\ platter' = [platter EXCEPT ![req[i].k] = data[req[i].b]]
                              /\ UNCHANGED data
                         ELSE /\ data' = [data EXCEPT ![req[i].b] = platter[req[i].k]]
                              /\ UNCHANGED platter
      /\ UNCHANGED <<bdisk, free, desc, req, intr, io>>
  BY DEF DeviceComplete
<1>2. PICK p \in Procs : io[p].pc = "sleep b" /\ io[p].idx = i
  BY <1>1 DEF IInv, RingOK
<1>3. req[i] = io[p].r
  BY <1>2, ChainFacts DEF IInv, Busy
<1>4. /\ th[p].pc \in Transfer /\ th[p].b \in Bufs /\ blockno[th[p].b] \in Blocks
      /\ req[i].b = th[p].b /\ req[i].write = (th[p].pc = "writing")
      /\ req[i].k = blockno[th[p].b]
  BY <1>2, <1>3, TransferFacts
<1>5. /\ BioType' /\ ThOK' /\ OwnerOK' /\ CacheOK' /\ RefOK'
      /\ UNCHANGED <<blockno, valid, refcnt, owner, lru, dirty>>
  BY CacheStays
<1>6. DataOK' /\ platter' \in [Blocks -> Vals] /\ data' \in [Bufs -> Vals]
  <2>1. PICK b \in Bufs, k \in Blocks : b = th[p].b /\ k = blockno[b]
    BY <1>4
  <2>2. \/ /\ th[p].pc = "writing" /\ platter' = [platter EXCEPT ![k] = data[b]]
           /\ UNCHANGED data
        \/ /\ th[p].pc = "reading" /\ data' = [data EXCEPT ![b] = platter[k]]
           /\ UNCHANGED platter
    BY <1>1, <1>4, <2>1 DEF Transfer
  <2> QED BY <1>1, <1>2, <1>5, <2>1, <2>2, CompleteData
<1>7. /\ used \in Seq(Descs) /\ i \notin Range(used)
      /\ \A j, k \in DOMAIN used : used[j] = used[k] => j = k
  BY <1>1 DEF IInv, TypeOK, DevType, RingOK
<1>8. /\ used' \in Seq(Descs) /\ used' # <<>>
      /\ \A x : x \in Range(used') <=> x \in Range(used) \/ x = i
      /\ \A j, k \in DOMAIN used' : used'[j] = used'[k] => j = k
  <2>1. /\ Append(used, i) \in Seq(Descs) /\ Append(used, i) # <<>>
        /\ \A x : x \in Range(Append(used, i)) <=> x \in Range(used) \/ x = i
        /\ \A j, k \in DOMAIN Append(used, i) : Append(used, i)[j] = Append(used, i)[k] => j = k
    BY <1>7, AppendRange
  <2> QED BY <1>1, <2>1
<1>9. TypeOK'
  BY <1>1, <1>5, <1>6, <1>8 DEF IInv, TypeOK, DevType
<1>10. IoOK'
  BY <1>1, <1>5, IoStays DEF IInv
<1>11. DescOK'
  BY <1>1, DescSame DEF IInv
<1>12. RingOK'
  <2>1. ASSUME NEW j \in avail' PROVE \E q \in Procs : io[q].pc = "sleep b" /\ io[q].idx = j
    BY <1>1 DEF IInv, RingOK
  <2>2. ASSUME NEW j \in Range(used')
        PROVE  j \notin avail' /\ \E q \in Procs : io[q].pc = "sleep b" /\ io[q].idx = j
    <3>1. CASE j = i
      BY <1>1, <1>2, <3>1
    <3>2. CASE j \in Range(used)
      BY <1>1, <3>2 DEF IInv, RingOK
    <3> QED BY <1>8, <3>1, <3>2
  <2>3. ASSUME NEW q \in Procs, io[q].pc = "sleep b" PROVE io[q].idx \in avail' \cup Range(used')
    <3>1. io[q].idx \in avail \cup Range(used)
      BY <2>3 DEF IInv, RingOK
    <3> QED BY <1>1, <1>8, <3>1
  <2>4. ASSUME NEW q \in Procs, io[q].pc = "sleep free" PROVE Cardinality(free) < 3
    BY <2>4, FewFree DEF IInv
  <2> QED BY <1>1, <1>8, <2>1, <2>2, <2>3, <2>4 DEF RingOK
<1>13. FlagOK'
  BY <1>1 DEF IInv, FlagOK
<1> QED BY <1>5, <1>6, <1>9, <1>10, <1>11, <1>12, <1>13 DEF IInv

-----------------------------------------------------------------------------
(* The invariant *)

\* It holds when the system starts.
LEMMA InitInv == Init => IInv
<1> SUFFICES ASSUME Init PROVE IInv
  OBVIOUS
<1>1. /\ platter = [k \in Blocks |-> CHOOSE v \in Vals : TRUE]
      /\ data = [b \in Bufs |-> CHOOSE v \in Vals : TRUE]
      /\ bdisk = [b \in Bufs |-> FALSE] /\ free = Descs
      /\ desc = [i \in Descs |-> None] /\ req = [i \in Descs |-> NoReq]
      /\ avail = {} /\ used = <<>> /\ irq = FALSE /\ intr = FALSE
      /\ io = [p \in Procs |-> NoIo]
  BY DEF Init, DevInit
<1>2. /\ blockno = [b \in Bufs |-> Nobody] /\ valid = [b \in Bufs |-> FALSE]
      /\ refcnt = [b \in Bufs |-> 0] /\ owner = [b \in Bufs |-> Nobody]
      /\ lru \in [1 .. Cardinality(Bufs) -> Bufs]
      /\ th = [p \in Procs |-> Idle] /\ dirty = {}
  BY DEF Init
<1>3. NoIo.pc = "idle" /\ NoIo \in IoRec /\ NoReq \in ReqRec
  BY DEF NoIo, IoRec, NoReq, ReqRec
<1>4. Idle \in ThRec /\ Idle.pc = "user" /\ Idle.b = Nobody
  BY DEF Idle, ThRec
<1>5. (CHOOSE v \in Vals : TRUE) \in Vals
  BY VirtioAssumption
<1>6. DevType
  <2>1. used \in Seq(Descs) /\ free \in SUBSET Descs /\ avail \in SUBSET Descs
    BY <1>1
  <2>2. platter \in [Blocks -> Vals] /\ data \in [Bufs -> Vals]
    BY <1>1, <1>5
  <2>3. /\ bdisk \in [Bufs -> BOOLEAN] /\ irq \in BOOLEAN /\ intr \in BOOLEAN
        /\ desc \in [Descs -> Descs \cup {None}]
    BY <1>1
  <2>4. req \in [Descs -> ReqRec] /\ io \in [Procs -> IoRec]
    BY <1>1, <1>3
  <2> QED BY <2>1, <2>2, <2>3, <2>4 DEF DevType
<1>7. BioType
  BY <1>2, <1>4 DEF BioType
<1>8. \A p \in Procs : io[p].pc = "idle" /\ th[p].pc = "user" /\ th[p].b = Nobody
  BY <1>1, <1>2, <1>3, <1>4
<1>9. ThOK
  BY <1>8 DEF ThOK
<1>10. OwnerOK
  <2>1. \A b \in Bufs, p \in Procs : owner[b] # p /\ th[p].pc \notin Holding
    BY <1>2, <1>8, Consts, Places
  <2> QED BY <1>8, <2>1 DEF OwnerOK
<1>11. IoOK
  BY <1>8 DEF IoOK, Transfer
<1>12. CacheOK
  BY <1>2, <1>8, Consts DEF CacheOK, GoodHands
<1>13. RefOK
  <2> SUFFICES ASSUME NEW b \in Bufs PROVE refcnt[b] = Cardinality(Users(b)) + Pin(b)
    BY DEF RefOK
  <2>1. Users(b) = {}
    BY <1>8, Consts DEF Users
  <2>2. Cardinality({}) = 0
    BY FS_EmptySet
  <2>3. Pin(b) = 0 /\ refcnt[b] = 0
    BY <1>2 DEF Pin
  <2> QED BY <2>1, <2>2, <2>3
<1>14. DescOK
  BY <1>1, <1>8 DEF DescOK, Busy
<1>15. RingOK
  <2>1. Range(used) = {} /\ DOMAIN used = {}
    BY <1>1 DEF Range
  <2> QED BY <1>1, <1>8, <2>1 DEF RingOK
<1>16. FlagOK
  BY <1>1, <1>8 DEF FlagOK
<1>17. DataOK
  BY <1>2, <1>8 DEF DataOK, Served
<1> QED BY <1>6, <1>7, <1>9, <1>10, <1>11, <1>12, <1>13, <1>14, <1>15, <1>16, <1>17
        DEF IInv, TypeOK

\* A step that changes nothing keeps it.
LEMMA StutterInv == IInv /\ UNCHANGED vars => IInv'
<1> SUFFICES ASSUME IInv, UNCHANGED vars PROVE IInv'
  OBVIOUS
<1>1. UNCHANGED <<bioVars, th, devVars>>
  BY DEF vars
<1>2. UNCHANGED <<platter, data, bdisk, free, desc, req, avail, used, irq, intr, io>>
  BY <1>1 DEF devVars
<1>3. /\ BioType' /\ ThOK' /\ OwnerOK' /\ CacheOK' /\ RefOK'
      /\ UNCHANGED <<blockno, valid, refcnt, owner, lru, dirty>>
  BY <1>1, CacheStays
<1>4. TypeOK'
  BY <1>2, <1>3 DEF IInv, TypeOK, DevType
<1>5. IoOK'
  BY <1>1, <1>2, <1>3, IoStays DEF IInv
<1>6. DescOK' /\ RingOK' /\ FlagOK'
  BY <1>2, DriverFrame DEF IInv
<1>7. DataOK'
  BY <1>1, <1>2, <1>3, DataStays DEF IInv, Served
<1> QED BY <1>3, <1>4, <1>5, <1>6, <1>7 DEF IInv

\* Every step keeps it.
LEMMA NextInv == IInv /\ Next => IInv'
<1> SUFFICES ASSUME IInv, Next PROVE IInv'
  OBVIOUS
<1>1. ASSUME NEW p \in Procs, NEW k \in Blocks, BgetHit(p, k) \/ BgetRecycle(p, k) PROVE IInv'
  BY <1>1, BgetHitInv, BgetRecycleInv
<1>2. ASSUME NEW p \in Procs, NEW v \in Vals, Bwrite(p, v) \/ Bpin(p, v) PROVE IInv'
  BY <1>2, BwriteInv, BpinInv
<1>3. ASSUME NEW p \in Procs, UserStep(p) PROVE IInv'
  BY <1>3, LockCachedInv, LockReadInv, LockSleepInv, IoReturnsInv, BunpinInv,
     UnlockInv, BrelseInv
  DEF UserStep
<1>4. ASSUME NEW p \in Procs, DriverStep(p), UNCHANGED <<bioVars, th>> PROVE IInv'
  BY <1>4, AllocFailsInv, SubmitInv, FinishInv DEF DriverStep
<1>5. ASSUME DeviceStep \/ IntrStep, UNCHANGED <<bioVars, th>> PROVE IInv'
  BY <1>5, DeviceCompleteInv, IntrStartInv, IntrTakeInv, IntrEndInv
  DEF DeviceStep, IntrStep
<1> QED BY <1>1, <1>2, <1>3, <1>4, <1>5 DEF Next

\* The inductive invariant of the cache, its locks and the driver.
THEOREM Invariance == Spec => []IInv
<1>1. IInv /\ [Next]_vars => IInv'
  BY NextInv, StutterInv
<1> QED BY InitInv, <1>1, PTL DEF Spec

-----------------------------------------------------------------------------
(* Descriptors and sleepers *)

\* A set of three.
LEMMA CardThree ==
  ASSUME NEW x, NEW y, NEW z, x # y, x # z, y # z
  PROVE  Cardinality({x, y, z}) = 3
<1>1. IsFiniteSet({z}) /\ Cardinality({z}) = 1
  BY FS_Singleton
<1>2. IsFiniteSet({z} \cup {y}) /\ Cardinality({z} \cup {y}) = Cardinality({z}) + 1
  BY <1>1, FS_AddElement
<1>3. Cardinality(({z} \cup {y}) \cup {x}) = Cardinality({z} \cup {y}) + 1
  BY <1>2, FS_AddElement
<1>4. ({z} \cup {y}) \cup {x} = {x, y, z}
  OBVIOUS
<1> QED BY <1>1, <1>2, <1>3, <1>4

\* No descriptor is lost and none is in two requests, however the requests of
\* the processes, the completions of the device and the failures of
\* alloc3_desc() follow one another.
THEOREM DescsKept == Spec => []DescsAccounted
<1>1. IInv => DescsAccounted
  <2> SUFFICES ASSUME IInv PROVE DescsAccounted
    OBVIOUS
  <2> DEFINE busy == {p \in Procs : io[p].pc \in {"sleep b", "woken"}}
  <2>1. DescOK /\ free \in SUBSET Descs /\ \A p : p \in busy <=> p \in Procs /\ Busy(p)
    BY DEF IInv, TypeOK, DevType, Busy
  <2>. HIDE DEF busy
  <2>2. \A p, q \in busy : p # q => Chain(io[p].idx) \cap Chain(io[q].idx) = {}
    BY <2>1 DEF DescOK
  <2>3. ASSUME NEW p \in busy PROVE Cardinality(Chain(io[p].idx)) = 3
    <3>1. PICK i \in Descs, j \in Descs, k \in Descs :
            i # j /\ i # k /\ j # k /\ Chain(io[p].idx) = {i, j, k}
      BY <2>1, ChainFacts
    <3>2. Cardinality({i, j, k}) = 3
      BY <3>1, CardThree
    <3> QED BY <3>1, <3>2
  <2>4. ASSUME NEW d PROVE d \in free <=> d \in Descs \ UNION {Chain(io[p].idx) : p \in busy}
    <3>1. d \in UNION {Chain(io[p].idx) : p \in busy} <=> \E p \in busy : d \in Chain(io[p].idx)
      OBVIOUS
    <3>2. d \in Descs => (d \in free <=> \A p \in Procs : Busy(p) => d \notin Chain(io[p].idx))
      BY <2>1, FreeIs
    <3> QED BY <2>1, <3>1, <3>2
  <2> QED BY <2>2, <2>3, <2>4 DEF DescsAccounted, busy
<1> QED BY Invariance, <1>1, PTL

\* Nobody sleeps for descriptors that are free, for a sleep-lock nobody holds or
\* for a request that no ring holds, and a completion that has not been seen has
\* its interrupt to come: no wakeup of the driver or of releasesleep() is lost.
THEOREM NoWakeupLost == Spec => []SleepersHaveReason
<1>1. IInv => SleepersHaveReason
  <2> SUFFICES ASSUME IInv PROVE SleepersHaveReason
    OBVIOUS
  <2>1. ASSUME NEW p \in Procs, io[p].pc = "sleep free" PROVE Cardinality(free) < 3
    BY <2>1, FewFree DEF IInv
  <2>2. ASSUME NEW p \in Procs, At(p, "sleep lock") PROVE owner[th[p].b] # Nobody
    BY <2>2 DEF IInv, OwnerOK, At
  <2>3. ASSUME NEW p \in Procs, io[p].pc = "sleep b"
        PROVE  io[p].idx \in avail \/ \E i \in DOMAIN used : used[i] = io[p].idx
    <3>1. io[p].idx \in avail \cup Range(used)
      BY <2>3 DEF IInv, RingOK
    <3> QED BY <3>1 DEF Range
  <2>4. used # <<>> => irq \/ intr
    BY DEF IInv, RingOK
  <2> QED BY <2>1, <2>2, <2>3, <2>4 DEF SleepersHaveReason
<1> QED BY Invariance, <1>1, PTL

-----------------------------------------------------------------------------
(* The cache implements BlockStore *)

\* The valid buffer of a block is the only one.
LEMMA GoodOne ==
  ASSUME IInv, NEW b \in Bufs, NEW k \in Blocks, blockno[b] = k
  PROVE  /\ valid[b] => Good(k) = {b}
         /\ ~valid[b] => Good(k) = {}
BY DEF IInv, CacheOK, Good, Cached

\* The holder of a block is the only one.
LEMMA HandsOne ==
  ASSUME IInv, NEW p \in Procs, NEW q \in Procs, NEW k \in Blocks, th[p].pc \in Holding,
         blockno[th[p].b] = k, q \in Hands(k)
  PROVE  q = p
<1>1. th[q].pc \in GoodHands /\ blockno[th[q].b] = k
  BY DEF Hands, GoodHands
<1>2. th[q].pc \in Holding
  BY <1>1, Places
<1>3. th[p].b \in Bufs /\ th[q].b \in Bufs
  BY <1>2, HoldFacts
<1>4. th[p].b = th[q].b
  BY <1>1, <1>3 DEF IInv, CacheOK
<1> QED BY <1>2, <1>4, HoldFacts

\* A block keeps its content when its buffer keeps it, or the disk if it has no
\* buffer.
LEMMA ContentAt ==
  ASSUME NEW k \in Blocks, Good(k)' = Good(k), Good(k) = {} => platter'[k] = platter[k],
         \A b \in Good(k) : data'[b] = data[b]
  PROVE  Content'[k] = Content[k]
<1>1. PICK G : G = Good(k)
  OBVIOUS
<1>2. Content[k] = IF G = {} THEN platter[k] ELSE data[CHOOSE b \in G : TRUE]
  BY <1>1 DEF Content
<1>3. Content'[k] = IF G = {} THEN platter'[k] ELSE data'[CHOOSE b \in G : TRUE]
  BY <1>1 DEF Content
<1>4. G # {} => (CHOOSE b \in G : TRUE) \in G
  OBVIOUS
<1>5. (G = {} => platter'[k] = platter[k]) /\ \A b \in G : data'[b] = data[b]
  BY <1>1
<1> QED BY <1>2, <1>3, <1>4, <1>5

\* The contents stay when this is so of every block.
LEMMA ContentSame ==
  ASSUME \A k \in Blocks : /\ Good(k)' = Good(k)
                           /\ Good(k) = {} => platter'[k] = platter[k]
                           /\ \A b \in Good(k) : data'[b] = data[b]
  PROVE  Content' = Content
<1>1. ASSUME NEW k \in Blocks PROVE Content'[k] = Content[k]
  BY ContentAt
<1>2. Content = [k \in Blocks |-> Content[k]] /\ Content' = [k \in Blocks |-> Content'[k]]
  BY DEF Content
<1> QED BY <1>1, <1>2

\* A block stays in the hands it is in.
LEMMA HolderAt ==
  ASSUME NEW k \in Blocks, Hands(k)' = Hands(k)
  PROVE  Holder'[k] = Holder[k]
<1>1. PICK H : H = Hands(k) /\ H = Hands(k)'
  OBVIOUS
<1>2. Holder[k] = IF H = {} THEN Nobody ELSE CHOOSE p \in H : TRUE
  BY <1>1 DEF Holder
<1>3. Holder'[k] = IF H = {} THEN Nobody ELSE CHOOSE p \in H : TRUE
  BY <1>1 DEF Holder
<1> QED BY <1>2, <1>3

\* The hands stay when this is so of every block.
LEMMA HolderSame ==
  ASSUME \A k \in Blocks : Hands(k)' = Hands(k)
  PROVE  Holder' = Holder
<1>1. ASSUME NEW k \in Blocks PROVE Holder'[k] = Holder[k]
  BY HolderAt
<1>2. Holder = [k \in Blocks |-> Holder[k]] /\ Holder' = [k \in Blocks |-> Holder'[k]]
  BY DEF Holder
<1> QED BY <1>1, <1>2

\* The processes that have blocks in their hands stay the same.
LEMMA HandsSame ==
  ASSUME \A q \in Procs : th'[q].pc \in GoodHands <=> th[q].pc \in GoodHands,
         \A q \in Procs : th[q].pc \in GoodHands => blockno'[th'[q].b] = blockno[th[q].b],
         NEW k
  PROVE  Hands(k)' = Hands(k)
BY DEF Hands, GoodHands

\* A process gets a block that nobody has.
LEMMA Gets ==
  ASSUME NEW p \in Procs, NEW k \in Blocks, Hands(k) = {}, Hands(k)' = {p},
         \A j \in Blocks : j # k => Hands(j)' = Hands(j), Content' = Content
  PROVE  BS!Next
<1>1. Holder[k] = Nobody /\ Holder = [j \in Blocks |-> Holder[j]]
  BY DEF Holder
<1>2. Holder'[k] = p /\ Holder' = [j \in Blocks |-> Holder'[j]]
  BY DEF Holder
<1>3. ASSUME NEW j \in Blocks, j # k PROVE Holder'[j] = Holder[j]
  BY <1>3, HolderAt
<1>4. Holder' = [Holder EXCEPT ![k] = p]
  BY <1>1, <1>2, <1>3
<1>5. BS!Hold(p, k)
  BY <1>1, <1>4 DEF BS!Hold
<1> QED BY <1>5 DEF BS!Next

\* A process gives its block back.
LEMMA Drops ==
  ASSUME NEW p \in Procs, NEW k \in Blocks, Hands(k) = {p}, Hands(k)' = {},
         \A j \in Blocks : j # k => Hands(j)' = Hands(j), Content' = Content
  PROVE  BS!Next
<1>1. Holder[k] = p /\ Holder = [j \in Blocks |-> Holder[j]]
  BY DEF Holder
<1>2. Holder'[k] = Nobody /\ Holder' = [j \in Blocks |-> Holder'[j]]
  BY DEF Holder
<1>3. ASSUME NEW j \in Blocks, j # k PROVE Holder'[j] = Holder[j]
  BY <1>3, HolderAt
<1>4. Holder' = [Holder EXCEPT ![k] = Nobody]
  BY <1>1, <1>2, <1>3
<1>5. BS!Drop(p, k)
  BY <1>1, <1>4 DEF BS!Drop
<1> QED BY <1>5 DEF BS!Next

\* The holder of a buffer changes its content.
LEMMA Changes ==
  ASSUME IInv, NEW p \in Procs, NEW v \in Vals, th[p].pc \in GoodHands,
         data' = [data EXCEPT ![th[p].b] = v], UNCHANGED <<platter, blockno, valid>>,
         th'[p].pc \in GoodHands, th'[p].b = th[p].b,
         \A q \in Procs : q # p => th'[q] = th[q]
  PROVE  BS!Next
<1>1. th[p].pc \in Holding
  BY Places
<1>2. PICK b \in Bufs, k \in Blocks : b = th[p].b /\ k = blockno[b]
  BY <1>1, HoldFacts
<1>3. valid[b] /\ Good(k) = {b}
  <2>1. valid[b]
    BY <1>2 DEF IInv, CacheOK
  <2> QED BY <1>2, <2>1, GoodOne
<1>4. \A j : Good(j)' = Good(j)
  BY DEF Good, Cached
<1>5. data'[b] = v /\ \A c \in Bufs : c # b => data'[c] = data[c]
  BY <1>2 DEF IInv, TypeOK, DevType
<1>6. Content'[k] = v
  <2>1. Good(k)' = {b}
    BY <1>3, <1>4
  <2>2. (CHOOSE c \in {b} : TRUE) = b
    OBVIOUS
  <2>3. Content'[k] = data'[CHOOSE c \in {b} : TRUE]
    BY <2>1 DEF Content
  <2> QED BY <1>5, <2>2, <2>3
<1>7. ASSUME NEW j \in Blocks, j # k PROVE Content'[j] = Content[j]
  <2>1. \A c \in Good(j) : data'[c] = data[c]
    BY <1>2, <1>5, <1>7 DEF Good, Cached
  <2> QED BY <1>4, <2>1, ContentAt
<1>8. Content' = [Content EXCEPT ![k] = v]
  <2>1. Content = [j \in Blocks |-> Content[j]] /\ Content' = [j \in Blocks |-> Content'[j]]
    BY DEF Content
  <2> QED BY <1>6, <1>7, <2>1
<1>9. Hands(k) = {p}
  <2>1. p \in Hands(k)
    BY <1>2 DEF Hands, GoodHands
  <2>2. \A q \in Hands(k) : q \in Procs
    BY DEF Hands
  <2> QED BY <1>1, <1>2, <2>1, <2>2, HandsOne
<1>10. Holder[k] = p
  BY <1>9 DEF Holder
<1>11. Holder' = Holder
  <2>1. \A j \in Blocks : Hands(j)' = Hands(j)
    BY HandsSame
  <2> QED BY <2>1, HolderSame
<1>12. BS!Change(p, k)
  BY <1>8, <1>10, <1>11 DEF BS!Change
<1> QED BY <1>12 DEF BS!Next

\* A step that changes neither the contents nor the hands.
LEMMA Quiet ==
  ASSUME Content' = Content, Holder' = Holder
  PROVE  [BS!Next]_(BS!vars)
BY DEF BS!vars

\* A step that leaves the contents alone, and in which nobody gets a block or
\* gives one back.
LEMMA QuietStep ==
  ASSUME UNCHANGED <<platter, data, blockno, valid>>,
         \A q \in Procs : \/ th'[q] = th[q]
                          \/ th'[q].pc \notin GoodHands /\ th[q].pc \notin GoodHands
                          \/ /\ th'[q].pc \in GoodHands /\ th[q].pc \in GoodHands
                             /\ th'[q].b = th[q].b
  PROVE  [BS!Next]_(BS!vars)
<1>1. \A k : Good(k)' = Good(k)
  BY DEF Good, Cached
<1>2. Content' = Content
  BY <1>1, ContentSame
<1>3. \A k \in Blocks : Hands(k)' = Hands(k)
  BY HandsSame
<1>4. Holder' = Holder
  BY <1>3, HolderSame
<1> QED BY <1>2, <1>4, Quiet

\* A buffer that is recycled has what the disk has.
LEMMA RecycleSim ==
  ASSUME IInv, NEW p \in Procs, NEW k \in Blocks, BgetRecycle(p, k)
  PROVE  [BS!Next]_(BS!vars)
<1> DEFINE last == {i \in DOMAIN lru : Unused(lru[i])}
<1>1. /\ th[p].pc = "user" /\ Cached(k) = {} /\ last # {}
      /\ UNCHANGED <<devVars, owner, lru, dirty>>
  BY DEF BgetRecycle, At
<1>2. /\ blockno' = [blockno EXCEPT ![lru[Max(last)]] = k]
      /\ valid' = [valid EXCEPT ![lru[Max(last)]] = FALSE]
      /\ th' = [th EXCEPT ![p] = [pc |-> "lock", b |-> lru[Max(last)]]]
  BY DEF BgetRecycle
<1>3. Max(last) \in last
  <2>1. DOMAIN lru = 1 .. Cardinality(Bufs) /\ Cardinality(Bufs) \in Nat
    BY Consts DEF IInv, TypeOK, BioType
  <2>2. last \in SUBSET (1 .. Cardinality(Bufs))
    BY <2>1
  <2>. HIDE DEF last
  <2> QED BY <1>1, <2>1, <2>2, Greatest
<1>4. PICK b \in Bufs : b = lru[Max(last)] /\ refcnt[b] = 0
  BY <1>3 DEF IInv, TypeOK, BioType, Unused
<1>5. UNCHANGED <<platter, data>>
  BY <1>1 DEF devVars
<1> DEFINE x == [pc |-> "lock", b |-> b]
<1>6. /\ blockno' = [blockno EXCEPT ![b] = k] /\ valid' = [valid EXCEPT ![b] = FALSE]
      /\ th' = [th EXCEPT ![p] = x]
  BY <1>2, <1>4
<1>7. x \in ThRec /\ x.pc = "lock" /\ x.b = b
  BY DEF ThRec
<1>. HIDE DEF x, last
<1>8. th'[p] = x /\ \A q \in Procs : q # p => th'[q] = th[q]
  BY <1>6, <1>7, ThFacts DEF IInv
<1>9. (\A q \in Procs : th[q].b # b) /\ b \notin dirty
  BY <1>4, UnusedFacts
<1>10. /\ \A c \in Bufs : c # b => blockno'[c] = blockno[c] /\ valid'[c] = valid[c]
       /\ blockno'[b] = k /\ ~valid'[b]
  BY <1>6 DEF IInv, TypeOK, BioType
<1>11. Holder' = Holder
  <2>1. \A q \in Procs : th'[q].pc \in GoodHands <=> th[q].pc \in GoodHands
    BY <1>1, <1>7, <1>8 DEF GoodHands
  <2>2. ASSUME NEW q \in Procs, th[q].pc \in GoodHands PROVE blockno'[th'[q].b] = blockno[th[q].b]
    <3>1. q # p /\ th'[q] = th[q]
      BY <1>1, <1>8, <2>2 DEF GoodHands
    <3>2. th[q].b \in Bufs /\ th[q].b # b
      BY <1>9, <2>2, HoldFacts, Places
    <3> QED BY <1>10, <3>1, <3>2
  <2>3. \A j \in Blocks : Hands(j)' = Hands(j)
    BY <2>1, <2>2, HandsSame
  <2> QED BY <2>3, HolderSame
<1>12. ASSUME NEW j \in Blocks PROVE Content'[j] = Content[j]
  <2>1. CASE valid[b] /\ blockno[b] = j
    <3>1. ~Writing(b)
      BY <1>9 DEF Writing
    <3>2. data[b] = platter[j]
      BY <1>9, <2>1, <3>1 DEF IInv, DataOK
    <3>3. Good(j) = {b}
      BY <2>1, GoodOne
    <3>4. (CHOOSE c \in {b} : TRUE) = b
      OBVIOUS
    <3>5. Content[j] = data[CHOOSE c \in {b} : TRUE]
      BY <3>3 DEF Content
    <3>6. ASSUME NEW c \in Bufs, blockno'[c] = j, valid'[c] PROVE FALSE
      <4>1. c # b /\ blockno[c] = j
        BY <1>10, <3>6
      <4> QED BY <2>1, <4>1 DEF IInv, CacheOK
    <3>7. Good(j)' = {}
      BY <3>6 DEF Good, Cached
    <3>8. Content'[j] = platter[j]
      BY <1>5, <3>7 DEF Content
    <3> QED BY <3>2, <3>4, <3>5, <3>8
  <2>2. CASE ~(valid[b] /\ blockno[b] = j)
    <3>1. \A c \in Bufs : blockno'[c] = j /\ valid'[c] <=> blockno[c] = j /\ valid[c]
      BY <1>10, <2>2
    <3>2. Good(j)' = Good(j)
      BY <3>1 DEF Good, Cached
    <3> QED BY <1>5, <3>2, ContentAt
  <2> QED BY <2>1, <2>2
<1>13. Content' = Content
  <2>1. Content = [j \in Blocks |-> Content[j]] /\ Content' = [j \in Blocks |-> Content'[j]]
    BY DEF Content
  <2> QED BY <1>12, <2>1
<1> QED BY <1>11, <1>13, Quiet

\* bread() returns with a cached block.
LEMMA LockCachedSim ==
  ASSUME IInv, NEW p \in Procs, LockCached(p)
  PROVE  BS!Next
<1>1. /\ th[p].pc = "lock" /\ Goto(p, "have")
      /\ UNCHANGED <<devVars, blockno, valid, refcnt, lru, dirty>>
  BY DEF LockCached, At
<1>2. PICK b \in Bufs, k \in Blocks : b = th[p].b /\ blockno[b] = k
  BY <1>1 DEF IInv, ThOK
<1>3. owner[b] = Nobody
  BY <1>2 DEF LockCached
<1>4. UNCHANGED <<platter, data>>
  BY <1>1 DEF devVars
<1>5. /\ th'[p].pc = "have"
      /\ \A q \in Procs : th'[q].b = th[q].b
      /\ \A q \in Procs : q # p => th'[q] = th[q]
  BY <1>1, GotoFacts DEF IInv, Holding
<1>6. ASSUME NEW q \in Hands(k) PROVE FALSE
  <2>1. q \in Procs /\ th[q].pc \in GoodHands /\ blockno[th[q].b] = k
    BY DEF Hands, GoodHands
  <2>2. th[q].pc \in Holding /\ th[q].b \in Bufs /\ owner[th[q].b] = q
    BY <2>1, HoldFacts, Places
  <2>3. th[q].b = b
    BY <1>2, <2>1, <2>2 DEF IInv, CacheOK
  <2> QED BY <1>3, <2>1, <2>2, <2>3, Consts
<1>7. Hands(k) = {}
  BY <1>6
<1>8. \A q \in Procs : q # p => (q \in Hands(k)' <=> q \in Hands(k))
  BY <1>1, <1>5 DEF Hands
<1>9. Hands(k)' = {p}
  <2>1. p \in Hands(k)'
    BY <1>1, <1>2, <1>5 DEF Hands
  <2>2. \A q \in Hands(k)' : q \in Procs
    BY DEF Hands
  <2> QED BY <1>7, <1>8, <2>1, <2>2
<1>10. \A j \in Blocks : j # k => Hands(j)' = Hands(j)
  BY <1>1, <1>2, <1>5 DEF Hands
<1>11. \A j \in Blocks : Good(j)' = Good(j)
  BY <1>1 DEF Good, Cached
<1>12. Content' = Content
  BY <1>4, <1>11, ContentSame
<1> QED BY <1>7, <1>9, <1>10, <1>12, Gets

\* bread() returns with a block that has just been read; bwrite() returns.
LEMMA IoReturnsSim ==
  ASSUME IInv, NEW p \in Procs, IoReturns(p)
  PROVE  [BS!Next]_(BS!vars)
<1>1. /\ th[p].pc \in Transfer /\ io[p].pc = "done"
      /\ Goto(p, IF At(p, "writing") /\ th[p].b \in dirty THEN "unpin" ELSE "have")
      /\ valid' = [valid EXCEPT ![th[p].b] = TRUE]
      /\ UNCHANGED <<platter, data, blockno>>
  BY DEF IoReturns, Transfer
<1>2. th[p].pc \in Holding
  BY <1>1, Places
<1>3. PICK b \in Bufs, k \in Blocks : b = th[p].b /\ blockno[b] = k
  BY <1>2, HoldFacts
<1>4. PICK w \in {"unpin", "have"} : Goto(p, w)
  BY <1>1
<1>5. /\ th'[p].pc = w /\ w \in GoodHands
      /\ \A q \in Procs : th'[q].b = th[q].b
      /\ \A q \in Procs : q # p => th'[q] = th[q]
  BY <1>4, GotoFacts DEF IInv, Holding, GoodHands
<1>6. valid'[b] /\ \A c \in Bufs : c # b => valid'[c] = valid[c]
  BY <1>1, <1>3 DEF IInv, TypeOK, BioType
<1>7. CASE th[p].pc = "writing"
  <2>1. th[p].pc \in GoodHands
    BY <1>7 DEF GoodHands
  <2>2. valid[b]
    BY <1>3, <2>1 DEF IInv, CacheOK
  <2>3. UNCHANGED valid
    BY <1>1, <1>3, <2>2 DEF IInv, TypeOK, BioType
  <2> QED BY <1>1, <1>5, <2>1, <2>3, QuietStep
<1>8. CASE th[p].pc = "reading"
  <2>1. ~valid[b] /\ data[b] = platter[k]
    BY <1>1, <1>3, <1>8 DEF IInv, CacheOK, DataOK, Served
  <2>2. p \notin Hands(k)
    BY <1>8 DEF Hands
  <2>3. Hands(k) = {}
    <3>1. \A q \in Hands(k) : q \in Procs
      BY DEF Hands
    <3> QED BY <1>2, <1>3, <2>2, <3>1, HandsOne
  <2>4. \A q \in Procs : q # p => (q \in Hands(k)' <=> q \in Hands(k))
    BY <1>1, <1>5 DEF Hands
  <2>5. Hands(k)' = {p}
    <3>1. p \in Hands(k)'
      BY <1>1, <1>3, <1>5 DEF Hands, GoodHands
    <3>2. \A q \in Hands(k)' : q \in Procs
      BY DEF Hands
    <3> QED BY <2>3, <2>4, <3>1, <3>2
  <2>6. \A j \in Blocks : j # k => Hands(j)' = Hands(j)
    BY <1>1, <1>3, <1>5 DEF Hands
  <2>7. Content'[k] = Content[k]
    <3>1. Good(k) = {}
      BY <1>3, <2>1, GoodOne
    <3>2. Content[k] = platter[k]
      BY <3>1 DEF Content
    <3>3. \A c \in Bufs : blockno[c] = k => c = b
      BY <1>3 DEF IInv, CacheOK
    <3>4. Good(k)' = {b}
      BY <1>1, <1>3, <1>6, <3>3 DEF Good, Cached
    <3>5. (CHOOSE c \in {b} : TRUE) = b
      OBVIOUS
    <3>6. Content'[k] = data[CHOOSE c \in {b} : TRUE]
      BY <1>1, <3>4 DEF Content
    <3> QED BY <2>1, <3>2, <3>5, <3>6
  <2>8. ASSUME NEW j \in Blocks, j # k PROVE Content'[j] = Content[j]
    <3>1. \A c \in Bufs : blockno'[c] = j /\ valid'[c] <=> blockno[c] = j /\ valid[c]
      BY <1>1, <1>3, <1>6, <2>8
    <3>2. Good(j)' = Good(j)
      BY <3>1 DEF Good, Cached
    <3> QED BY <1>1, <3>2, ContentAt
  <2>9. Content' = Content
    <3>1. Content = [j \in Blocks |-> Content[j]] /\ Content' = [j \in Blocks |-> Content'[j]]
      BY DEF Content
    <3> QED BY <2>7, <2>8, <3>1
  <2> QED BY <2>3, <2>5, <2>6, <2>9, Gets
<1> QED BY <1>1, <1>7, <1>8, Places

\* The holder changes a block, with bwrite() or log_write().
LEMMA ChangeSim ==
  ASSUME IInv, NEW p \in Procs, NEW v \in Vals, Bwrite(p, v) \/ Bpin(p, v)
  PROVE  BS!Next
<1>1. th[p].pc \in GoodHands
  BY DEF Bwrite, Bpin, At, GoodHands
<1>2. data' = [data EXCEPT ![th[p].b] = v] /\ UNCHANGED <<platter, blockno, valid>>
  BY DEF Bwrite, Bpin, bioVars
<1>3. /\ th'[p].pc \in GoodHands /\ th'[p].b = th[p].b
      /\ \A q \in Procs : q # p => th'[q] = th[q]
  <2>1. CASE Bwrite(p, v)
    <3>1. Goto(p, "writing")
      BY <2>1 DEF Bwrite
    <3> QED BY <3>1, GotoFacts DEF IInv, Holding, GoodHands
  <2>2. CASE Bpin(p, v)
    BY <1>1, <2>2 DEF Bpin
  <2> QED BY <2>1, <2>2
<1> QED BY <1>1, <1>2, <1>3, Changes

\* releasesleep() gives the block back.
LEMMA UnlockSim ==
  ASSUME IInv, NEW p \in Procs, Unlock(p)
  PROVE  BS!Next
<1>1. /\ th[p].pc = "have" /\ UNCHANGED <<devVars, blockno, valid, refcnt, lru, dirty>>
      /\ th' = [q \in Procs |->
                 IF q = p THEN [th[p] EXCEPT !.pc = "unref"]
                 ELSE IF At(q, "sleep lock") /\ th[q].b = th[p].b
                      THEN [th[q] EXCEPT !.pc = "lock"] ELSE th[q]]
  BY DEF Unlock, At
<1>2. th[p].pc \in Holding
  BY <1>1 DEF Holding
<1>3. PICK b \in Bufs, k \in Blocks : b = th[p].b /\ blockno[b] = k
  BY <1>2, HoldFacts
<1>4. \A q \in Procs : th[q] \in ThRec
  BY DEF IInv, TypeOK, BioType
<1>5. \A x \in ThRec : /\ [x EXCEPT !.pc = "unref"].pc = "unref"
                       /\ [x EXCEPT !.pc = "lock"].pc = "lock"
  BY DEF ThRec
<1>6. th'[p].pc = "unref"
  BY <1>1, <1>4, <1>5
<1>7. \A q \in Procs : q # p =>
        \/ th'[q] = th[q]
        \/ th'[q].pc = "lock" /\ th[q].pc = "sleep lock"
  BY <1>1, <1>4, <1>5 DEF At
<1>8. Hands(k) = {p}
  <2>1. p \in Hands(k)
    BY <1>1, <1>3 DEF Hands
  <2>2. \A q \in Hands(k) : q \in Procs
    BY DEF Hands
  <2> QED BY <1>2, <1>3, <2>1, <2>2, HandsOne
<1>9. \A j : \A q \in Procs : q # p => (q \in Hands(j)' <=> q \in Hands(j))
  BY <1>1, <1>7 DEF Hands
<1>10. \A j : p \notin Hands(j)'
  BY <1>6 DEF Hands
<1>11. \A j : (\A q \in Hands(j) : q \in Procs) /\ (\A q \in Hands(j)' : q \in Procs)
  BY DEF Hands
<1>12. Hands(k)' = {}
  BY <1>8, <1>9, <1>10, <1>11
<1>13. \A j \in Blocks : j # k => p \notin Hands(j)
  BY <1>3 DEF Hands
<1>14. \A j \in Blocks : j # k => Hands(j)' = Hands(j)
  BY <1>9, <1>10, <1>11, <1>13
<1>15. \A j \in Blocks : Good(j)' = Good(j)
  BY <1>1 DEF Good, Cached
<1>16. Content' = Content
  BY <1>1, <1>15, ContentSame DEF devVars
<1> QED BY <1>8, <1>12, <1>14, <1>16, Drops

\* The device moves a content between a buffer that has a holder and the disk.
LEMMA CompleteSim ==
  ASSUME IInv, NEW i \in Descs, DeviceComplete(i), UNCHANGED <<bioVars, th>>
  PROVE  [BS!Next]_(BS!vars)
<1>1. /\ i \in avail
      /\ IF req[i].write THEN /\ platter' = [platter EXCEPT ![req[i].k] = data[req[i].b]]
                              /\ UNCHANGED data
                         ELSE /\ data' = [data EXCEPT ![req[i].b] = platter[req[i].k]]
                              /\ UNCHANGED platter
  BY DEF DeviceComplete
<1>2. PICK p \in Procs : io[p].pc = "sleep b" /\ io[p].idx = i
  BY <1>1 DEF IInv, RingOK
<1>3. req[i] = io[p].r
  BY <1>2, ChainFacts DEF IInv, Busy
<1>4. /\ th[p].pc \in Transfer /\ th[p].b \in Bufs /\ blockno[th[p].b] \in Blocks
      /\ req[i].b = th[p].b /\ req[i].write = (th[p].pc = "writing")
      /\ req[i].k = blockno[th[p].b]
  BY <1>2, <1>3, TransferFacts
<1>5. PICK b \in Bufs, k \in Blocks : b = th[p].b /\ k = blockno[b]
  BY <1>4
<1>6. UNCHANGED <<blockno, valid, th>>
  BY DEF bioVars
<1>7. platter \in [Blocks -> Vals] /\ data \in [Bufs -> Vals]
  BY DEF IInv, TypeOK, DevType
<1>8. \A j : Good(j)' = Good(j) /\ Good(j) \subseteq Bufs
  BY <1>6 DEF Good, Cached
<1>9. Content' = Content
  <2>1. CASE th[p].pc = "writing"
    <3>1. platter' = [platter EXCEPT ![k] = data[b]] /\ UNCHANGED data
      BY <1>1, <1>4, <1>5, <2>1
    <3>2. valid[b]
      BY <1>5, <2>1 DEF IInv, CacheOK, GoodHands
    <3>3. Good(k) = {b}
      BY <1>5, <3>2, GoodOne
    <3>4. \A j \in Blocks : Good(j) = {} => platter'[j] = platter[j]
      BY <1>7, <3>1, <3>3
    <3> QED BY <1>8, <3>1, <3>4, ContentSame
  <2>2. CASE th[p].pc = "reading"
    <3>1. data' = [data EXCEPT ![b] = platter[k]] /\ UNCHANGED platter
      BY <1>1, <1>4, <1>5, <2>2
    <3>2. ~valid[b]
      BY <1>5, <2>2 DEF IInv, CacheOK
    <3>3. \A j : b \notin Good(j)
      BY <3>2 DEF Good
    <3>4. \A j : \A c \in Good(j) : data'[c] = data[c]
      BY <1>7, <1>8, <3>1, <3>3
    <3> QED BY <1>8, <3>1, <3>4, ContentSame
  <2> QED BY <1>4, <2>1, <2>2, Places
<1>10. Holder' = Holder
  <2>1. \A j \in Blocks : Hands(j)' = Hands(j)
    BY <1>6 DEF Hands
  <2> QED BY <2>1, HolderSame
<1> QED BY <1>9, <1>10, Quiet

\* The other steps of the cache and its locks show nothing.
LEMMA QuietSim ==
  ASSUME IInv, NEW p \in Procs,
         \/ \E k \in Blocks : BgetHit(p, k)
         \/ LockRead(p) \/ LockSleep(p) \/ Bunpin(p) \/ Brelse(p)
  PROVE  [BS!Next]_(BS!vars)
<1>1. UNCHANGED <<platter, data, blockno, valid>>
  BY DEF BgetHit, LockRead, LockSleep, Bunpin, Brelse, devVars, bioVars
<1>2. CASE \E k \in Blocks : BgetHit(p, k)
  <2>1. th[p].pc = "user"
    BY <1>2 DEF BgetHit, At
  <2>2. PICK b \in Bufs : th' = [th EXCEPT ![p] = [pc |-> "lock", b |-> b]]
    BY <1>2 DEF BgetHit, Cached
  <2> DEFINE x == [pc |-> "lock", b |-> b]
  <2>3. x \in ThRec /\ x.pc = "lock" /\ th' = [th EXCEPT ![p] = x]
    BY <2>2 DEF ThRec
  <2>. HIDE DEF x
  <2>4. th'[p] = x /\ \A q \in Procs : q # p => th'[q] = th[q]
    BY <2>3, ThFacts DEF IInv
  <2> QED BY <1>1, <2>1, <2>3, <2>4, QuietStep DEF GoodHands
<1>3. CASE LockRead(p) \/ LockSleep(p)
  <2>1. th[p].pc = "lock"
    BY <1>3 DEF LockRead, LockSleep, At
  <2>2. PICK w \in {"reading", "sleep lock"} : Goto(p, w)
    BY <1>3 DEF LockRead, LockSleep
  <2>3. th'[p].pc = w /\ \A q \in Procs : q # p => th'[q] = th[q]
    BY <2>2, GotoFacts DEF IInv, Holding
  <2> QED BY <1>1, <2>1, <2>2, <2>3, QuietStep DEF GoodHands
<1>4. CASE Bunpin(p)
  <2>1. th[p].pc = "unpin" /\ Goto(p, "have")
    BY <1>4 DEF Bunpin, At
  <2>2. th'[p].pc = "have" /\ th'[p].b = th[p].b /\ \A q \in Procs : q # p => th'[q] = th[q]
    BY <2>1, GotoFacts DEF IInv, Holding
  <2> QED BY <1>1, <2>1, <2>2, QuietStep DEF GoodHands
<1>5. CASE Brelse(p)
  <2>1. th[p].pc = "unref" /\ th' = [th EXCEPT ![p] = Idle]
    BY <1>5 DEF Brelse, At
  <2>2. Idle \in ThRec /\ Idle.pc = "user"
    BY DEF Idle, ThRec
  <2>3. th'[p] = Idle /\ \A q \in Procs : q # p => th'[q] = th[q]
    BY <2>1, <2>2, ThFacts DEF IInv
  <2> QED BY <1>1, <2>1, <2>2, <2>3, QuietStep DEF GoodHands
<1> QED BY <1>2, <1>3, <1>4, <1>5

\* Nor do the steps of the driver and of its interrupt handler.
LEMMA DriverSim ==
  ASSUME (\E p \in Procs : DriverStep(p)) \/ IntrStep, UNCHANGED <<bioVars, th>>
  PROVE  [BS!Next]_(BS!vars)
<1>1. UNCHANGED <<platter, data>>
  BY DEF DriverStep, IntrStep, AllocFails, Submit, Finish, IntrStart, IntrTake,
     IntrEnd
<1>2. UNCHANGED <<blockno, valid, th>>
  BY DEF bioVars
<1> QED BY <1>1, <1>2, QuietStep

\* An empty cache over a disk.
LEMMA InitSim == Init => BS!Init
<1> SUFFICES ASSUME Init PROVE BS!Init
  OBVIOUS
<1>1. IInv
  BY InitInv
<1>2. platter \in [Blocks -> Vals]
  BY <1>1 DEF IInv, TypeOK, DevType
<1>3. \A k \in Blocks : Good(k) = {}
  BY DEF Init, Good, Cached
<1>4. Content = [k \in Blocks |-> platter[k]]
  BY <1>3 DEF Content
<1>5. \A p \in Procs : th[p].pc = "user"
  BY DEF Init, Idle
<1>6. \A k \in Blocks : Hands(k) = {}
  BY <1>5 DEF Hands
<1>7. Holder = [k \in Blocks |-> Nobody]
  BY <1>6 DEF Holder
<1>8. Content \in [Blocks -> Vals]
  BY <1>2, <1>4
<1> QED BY <1>7, <1>8 DEF BS!Init

\* Every block has one content in one pair of hands, for every number of
\* processes, buffers and blocks: whatever is cached, recycled, written through,
\* pinned for the log and on its way to or from the disk.
THEOREM OneContent == Spec => BlockStoreSpec
<1>1. IInv /\ [Next]_vars => [BS!Next]_(BS!vars)
  <2> SUFFICES ASSUME IInv, [Next]_vars PROVE [BS!Next]_(BS!vars)
    OBVIOUS
  <2>1. ASSUME NEW p \in Procs, NEW k \in Blocks, BgetHit(p, k) \/ BgetRecycle(p, k)
        PROVE  [BS!Next]_(BS!vars)
    BY <2>1, QuietSim, RecycleSim
  <2>2. ASSUME NEW p \in Procs, NEW v \in Vals, Bwrite(p, v) \/ Bpin(p, v)
        PROVE  [BS!Next]_(BS!vars)
    BY <2>2, ChangeSim
  <2>3. ASSUME NEW p \in Procs, UserStep(p) PROVE [BS!Next]_(BS!vars)
    BY <2>3, LockCachedSim, IoReturnsSim, UnlockSim, QuietSim DEF UserStep
  <2>4. ASSUME NEW p \in Procs, DriverStep(p), UNCHANGED <<bioVars, th>>
        PROVE  [BS!Next]_(BS!vars)
    BY <2>4, DriverSim
  <2>5. ASSUME DeviceStep \/ IntrStep, UNCHANGED <<bioVars, th>> PROVE [BS!Next]_(BS!vars)
    BY <2>5, CompleteSim, DriverSim DEF DeviceStep
  <2>6. CASE UNCHANGED vars
    BY <2>6, QuietStep DEF vars, devVars, bioVars
  <2> QED BY <2>1, <2>2, <2>3, <2>4, <2>5, <2>6 DEF Next
<1> QED BY <1>1, InitSim, Invariance, PTL DEF Spec, BlockStoreSpec, BS!Spec

=============================================================================
