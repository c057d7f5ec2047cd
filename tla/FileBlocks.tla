----------------------------- MODULE FileBlocks -----------------------------
(***************************************************************************)
(* Files as blocks: the bitmap, bmap(), itrunc(), readi() and writei() of  *)
(* fs.c, the loops of fileread() and filewrite() in file.c, and mkfs.c,    *)
(* which makes the image the kernel starts from.  A step writes or appends *)
(* one block's piece, under the inode's lock; the bitmap block is locked   *)
(* inside a step.                                                          *)
(*                                                                         *)
(* Every inode is open once, and the processes share that struct file.  A  *)
(* byte is the process that wrote it (Nobody: mkfs); an indirect block has *)
(* block numbers in the places of bytes.                                   *)
(***************************************************************************)
EXTENDS Naturals, Sequences, FiniteSets, FiniteSetsExt

CONSTANTS Procs, Nobody, Files,
          Root,        \* the file that is the root directory
          BSIZE, NDIRECT, NINDIRECT,
          NBlocks,     \* data blocks of the disk
          MaxChunk,    \* max in filewrite()
          Sizes,       \* values of n in read() and write()
          MaxOps       \* bound on the calls that are made

Width == Max({BSIZE, NINDIRECT})
MAXFILE == NDIRECT + NINDIRECT
Data == 1 .. NBlocks
Zero == [k \in 0 .. Width - 1 |-> 0]
MinOf(a, b) == IF a < b THEN a ELSE b
MaxOf(a, b) == IF a > b THEN a ELSE b

VARIABLES
  disk,       \* used: the bitmap; blk: the blocks; ino: size and addrs
  foff,       \* f->off
  lock,       \* holder of the inode's lock
  wr,         \* filewrite() of a process: file, bytes left, and the state of writei()
  freeblock,  \* mkfs: first block not given out, or 0 when the kernel runs
  ops         \* calls made so far

vars == <<disk, foff, lock, wr, freeblock, ops>>

NoWrite == [pc |-> "idle", f |-> Nobody, left |-> 0, n1 |-> 0, tot |-> 0, off |-> 0]

Init ==
  /\ disk = [used |-> {}, blk |-> [b \in Data |-> Zero],
             ino |-> [f \in Files |-> [size |-> 0, addrs |-> [k \in 0 .. NDIRECT |-> 0]]]]
  /\ foff = [f \in Files |-> 0]
  /\ lock = [f \in Files |-> Nobody]
  /\ wr = [p \in Procs |-> NoWrite]
  /\ freeblock = 1
  /\ ops = 0

-----------------------------------------------------------------------------
(* Operators on the disk; a result is the new disk and a number. *)
Result(d, a) == [d |-> d, addr |-> a]

\* balloc(): a zeroed block, or 0.
balloc(d) ==
  LET b == Min(Data \ d.used) IN
  IF Data \subseteq d.used THEN Result(d, 0)
  ELSE Result([d EXCEPT !.used = @ \cup {b}, !.blk[b] = Zero], b)

\* The block in place k of the inode, allocated if there is none.
Direct(d, f, k) ==
  LET r == balloc(d) IN
  IF d.ino[f].addrs[k] # 0 THEN Result(d, d.ino[f].addrs[k])
  ELSE IF r.addr = 0 THEN Result(d, 0)
  ELSE Result([r.d EXCEPT !.ino[f].addrs[k] = r.addr], r.addr)

IndirectIndex(bn) == bn - NDIRECT

bmap(d, f, bn) ==
  LET ind == Direct(d, f, NDIRECT)
      k == IndirectIndex(bn)
      r == balloc(ind.d) IN
  IF bn < NDIRECT THEN Direct(d, f, bn)
  ELSE IF ind.addr = 0 THEN ind
  ELSE IF ind.d.blk[ind.addr][k] # 0 THEN Result(ind.d, ind.d.blk[ind.addr][k])
  ELSE IF r.addr = 0 THEN Result(ind.d, 0)
  ELSE Result([r.d EXCEPT !.blk[ind.addr][k] = r.addr], r.addr)

\* The blocks that the pointers of an inode name.
IndirectOf(d, f) ==
  LET a == d.ino[f].addrs[NDIRECT] IN
  IF a = 0 THEN {} ELSE {d.blk[a][k] : k \in 0 .. NINDIRECT - 1} \ {0}
Reachable(d, f) ==
  ({d.ino[f].addrs[k] : k \in 0 .. NDIRECT} \ {0}) \cup IndirectOf(d, f)

\* Slip: the blocks that the indirect block names are not freed.
Freed_direct(d, f) == {d.ino[f].addrs[k] : k \in 0 .. NDIRECT} \ {0}
Freed(d, f) == Reachable(d, f)

itrunc(d, f) ==
  [d EXCEPT !.used = @ \ Freed(d, f),
            !.ino[f] = [size |-> 0, addrs |-> [k \in 0 .. NDIRECT |-> 0]]]

\* n times v from place at in block b.
Fill(d, b, at, n, v) ==
  [d EXCEPT !.blk[b] = [k \in DOMAIN @ |-> IF k >= at /\ k < at + n THEN v ELSE @[k]]]

-----------------------------------------------------------------------------
(* mkfs *)

\* iappend(): blocks are given out in order; the bitmap is written at the end.
iappend(f, n) ==
  LET size == disk.ino[f].size
      d0 == [disk EXCEPT !.used = 1 .. freeblock - 1]
      r == bmap(d0, f, size \div BSIZE) IN
  /\ freeblock # 0 /\ ops < MaxOps
  /\ size \div BSIZE < MAXFILE
  /\ n <= BSIZE - (size % BSIZE)
  /\ r.addr # 0
  /\ disk' = [Fill(r.d, r.addr, size % BSIZE, n, Nobody) EXCEPT
                !.used = {}, !.ino[f].size = size + n]
  /\ freeblock' = freeblock + Cardinality(r.d.used \ d0.used)
  /\ ops' = ops + 1
  /\ UNCHANGED <<foff, lock, wr>>

\* The end of main(): the root directory is made to end with a block, and the
\* bitmap is written.  The kernel boots.
MkfsDone ==
  LET size == disk.ino[Root].size IN
  /\ freeblock # 0
  /\ size \div BSIZE + 1 <= MAXFILE
  /\ disk' = [disk EXCEPT !.used = 1 .. freeblock - 1,
                          !.ino[Root].size = (size \div BSIZE + 1) * BSIZE]
  /\ freeblock' = 0
  /\ UNCHANGED <<foff, lock, wr, ops>>

-----------------------------------------------------------------------------
(* The kernel *)
Call ==
  /\ freeblock = 0
  /\ ops < MaxOps
  /\ ops' = ops + 1

filewrite(p, f, n) ==
  /\ Call
  /\ wr[p].pc = "idle"
  /\ wr' = [wr EXCEPT ![p] = [NoWrite EXCEPT !.pc = "chunk", !.f = f, !.left = n]]
  /\ UNCHANGED <<disk, foff, lock, freeblock>>

\* The next chunk: writei() refuses to leave a hole and to exceed MAXFILE.
WriteiStart(p) ==
  LET w == wr[p]
      n1 == MinOf(w.left, MaxChunk) IN
  /\ w.pc = "chunk" /\ lock[w.f] = Nobody
  /\ IF foff[w.f] > disk.ino[w.f].size \/ foff[w.f] + n1 > MAXFILE * BSIZE
     THEN /\ wr' = [wr EXCEPT ![p] = NoWrite]
          /\ UNCHANGED lock
     ELSE /\ lock' = [lock EXCEPT ![w.f] = p]
          /\ wr' = [wr EXCEPT ![p].pc = "writei", ![p].n1 = n1, ![p].tot = 0, ![p].off = foff[w.f]]
  /\ UNCHANGED <<disk, foff, freeblock, ops>>

Portion(w) == MinOf(w.n1 - w.tot, BSIZE - (w.off % BSIZE))

\* One turn of writei(): a block is found, and the piece is copied ...
WriteiBlock(p) ==
  LET w == wr[p]
      r == bmap(disk, w.f, w.off \div BSIZE)
      m == Portion(w) IN
  /\ w.pc = "writei" /\ w.tot < w.n1
  /\ r.addr # 0
  /\ disk' = Fill(r.d, r.addr, w.off % BSIZE, m, p)
  /\ wr' = [wr EXCEPT ![p].tot = @ + m, ![p].off = @ + m]
  /\ UNCHANGED <<foff, lock, freeblock, ops>>

\* ... or there is none ...
WriteiFull(p) ==
  LET w == wr[p]
      r == bmap(disk, w.f, w.off \div BSIZE) IN
  /\ w.pc = "writei" /\ w.tot < w.n1
  /\ r.addr = 0
  /\ disk' = r.d
  /\ wr' = [wr EXCEPT ![p].pc = "end"]
  /\ UNCHANGED <<foff, lock, freeblock, ops>>

\* ... or either_copyin() fails, part of the piece copied.
WriteiFault(p) ==
  LET w == wr[p]
      r == bmap(disk, w.f, w.off \div BSIZE) IN
  /\ w.pc = "writei" /\ w.tot < w.n1
  /\ r.addr # 0
  /\ \E k \in 0 .. Portion(w) - 1 : disk' = Fill(r.d, r.addr, w.off % BSIZE, k, p)
  /\ wr' = [wr EXCEPT ![p].pc = "end"]
  /\ UNCHANGED <<foff, lock, freeblock, ops>>

\* The rest of writei() and of filewrite()'s loop: a short chunk ends it.
WriteiEnd(p) ==
  LET w == wr[p]
      left == w.left - w.tot IN
  /\ w.pc = "end" \/ (w.pc = "writei" /\ w.tot = w.n1)
  /\ disk' = [disk EXCEPT !.ino[w.f].size = MaxOf(@, w.off)]
  /\ foff' = [foff EXCEPT ![w.f] = @ + w.tot]
  /\ lock' = [lock EXCEPT ![w.f] = Nobody]
  /\ wr' = [wr EXCEPT ![p] = IF w.tot = w.n1 /\ left > 0
                             THEN [NoWrite EXCEPT !.pc = "chunk", !.f = w.f, !.left = left]
                             ELSE NoWrite]
  /\ UNCHANGED <<freeblock, ops>>

\* readi(): one block's piece, as far as the file goes; a hole gets a block.
\* The result is the disk and the number of bytes.
readi(f, off, n) ==
  LET r == bmap(disk, f, off \div BSIZE)
      m == MinOf(MinOf(n, disk.ino[f].size - off), BSIZE - (off % BSIZE)) IN
  Result(r.d, IF r.addr = 0 THEN 0 ELSE m)

fileread(p, f, n) ==
  LET r == readi(f, foff[f], n) IN
  /\ Call
  /\ wr[p].pc = "idle" /\ lock[f] = Nobody
  /\ foff[f] < disk.ino[f].size
  /\ disk' = r.d
  /\ foff' = [foff EXCEPT ![f] = @ + r.addr]
  /\ UNCHANGED <<lock, wr, freeblock>>

\* open() with O_TRUNC, or the last iput(), by another process.
Truncate(f) ==
  /\ Call
  /\ lock[f] = Nobody
  /\ disk' = itrunc(disk, f)
  /\ UNCHANGED <<foff, lock, wr, freeblock>>

-----------------------------------------------------------------------------
Next ==
  \/ \E f \in Files, n \in 1 .. BSIZE : iappend(f, n)
  \/ MkfsDone
  \/ \E p \in Procs :
       \/ \E f \in Files, n \in Sizes : filewrite(p, f, n) \/ fileread(p, f, n)
       \/ WriteiStart(p) \/ WriteiBlock(p) \/ WriteiFull(p) \/ WriteiFault(p) \/ WriteiEnd(p)
  \/ \E f \in Files : Truncate(f)

-----------------------------------------------------------------------------
\* The bitmap marks the blocks that inodes and indirect blocks name and no
\* others, and no block has two owners: also after writes that broke off and
\* in the image that mkfs makes.
BitmapExact ==
  /\ freeblock = 0 => disk.used = UNION {Reachable(disk, f) : f \in Files}
  /\ \A f, g \in Files : f # g => Reachable(disk, f) \cap Reachable(disk, g) = {}
  /\ \A f \in Files : disk.ino[f].addrs[NDIRECT] \notin IndirectOf(disk, f)

Writer(f) == lock[f]
At(f) == IF Writer(f) = Nobody THEN foff[f] ELSE wr[Writer(f)].off

\* A byte as readi() finds it: a hole reads as zero.
ByteAt(f, k) ==
  LET bn == k \div BSIZE
      ind == disk.ino[f].addrs[NDIRECT]
      a == IF bn < NDIRECT THEN disk.ino[f].addrs[bn]
           ELSE IF ind = 0 THEN 0 ELSE disk.blk[ind][bn - NDIRECT] IN
  IF a = 0 THEN 0 ELSE disk.blk[a][k % BSIZE]

FF == INSTANCE FlatFile WITH
        making <- freeblock # 0,
        Bytes <- Procs \cup {Nobody, 0}, Piece <- BSIZE,
        content <- [f \in Files |->
                      [k \in 1 .. MaxOf(disk.ino[f].size, IF Writer(f) = Nobody THEN 0 ELSE At(f))
                         |-> ByteAt(f, k - 1)]],
        pos <- [f \in Files |-> At(f)]

=============================================================================
