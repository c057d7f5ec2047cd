---------------------------- MODULE InodesProofs ----------------------------
(***************************************************************************)
(* Proofs about Inodes for every number of processes, names and inodes,    *)
(* and every set of system calls: the inode table in memory.               *)
(*                                                                         *)
(* The invariant has layers.  The first, IInv1, looks at the table alone:  *)
(* a process has six variables that may point to a slot, the reference     *)
(* count of a slot is the number of those that do, and the sleep-locks     *)
(* are held where the places of the system calls say.  The second, IInv2,  *)
(* says that a valid slot agrees with the disk, that what a system call    *)
(* learned with an inode locked is still true when it uses it, and that    *)
(* the directories form no circle; from it follows that processes never    *)
(* wait for each other in one.  The third is that of InodeLinksProofs.     *)
(*                                                                         *)
(* Moves(p) and Works(p) say what a step of process p may do to others and *)
(* what p must see to itself: one lemma about each says that the layer is  *)
(* kept, and one lemma for each action says that it is such a step.        *)
(***************************************************************************)
EXTENDS Inodes, FiniteSetTheorems, SequenceTheorems, NaturalsInduction, WellFoundedInduction, TLAPS

\* What panic() can say; the fields of the table, of the disk and of a system
\* call.
Messages == {"none", "unlink: nlink < 1", "ilock: no type"}
Types == {"free", "dir", "file", "device"}
SlotRec == [inum : 0 .. NInodes, ref : Int, valid : BOOLEAN, lock : Procs \cup {Nobody},
            type : Types, nlink : Int]
DiskRec == [type : Types, nlink : Int]

\* How far iunlockput() or iput() of one slot has come, and the places of a
\* system call.
Stages == {"unlock", "drop", "erase", "release", "last"}
StageRec == [s : Slots, at : Stages]
Places == {"idle", "namex", "found", "parent", "exists", "init", "opened", "link2",
           "bad", "child", "unlinked", "cd"}
ThRec == [pc : Places, op : Ops \cup {"none", "link2"}, rest : Seq(EntryNames),
          name : EntryNames \cup {"none"}, ip : 0 .. NInodes, dp : 0 .. NInodes, put : Seq(StageRec)]

\* The types of the variables.
TypeOK ==
  /\ itable \in [Slots -> SlotRec]
  /\ dinode \in [Inums -> DiskRec]
  /\ ents \in [Inums -> [EntryNames -> 0 .. NInodes]]
  /\ th \in [Procs -> ThRec]
  /\ cwd \in [Procs -> Slots]
  /\ ofile \in [Procs -> 0 .. NInodes]
  /\ panic \in Messages
  /\ astray \in BOOLEAN

\* Which variables of a system call are in use at which place.
Making == {"create", "mkdir", "mknod"}
Alone == {"parent", "init", "link2", "child"}   \* with nothing to drop
\* At each place, which variables of the system call are in use and which
\* inodes are still to be dropped.
ThreadOK(t) ==
  /\ t.pc = "idle" <=> t.ip = 0
  /\ t.dp # 0 <=> t.pc \in {"init", "child"} \/ (t.pc \in {"namex", "parent"} /\ t.op = "link2")
  /\ t.pc \in Alone => Len(t.put) = 0
  /\ Len(t.put) <= 1 \/ (t.pc \in {"idle", "bad"} /\ Len(t.put) = 2)
  /\ Len(t.put) = 2 => t.put[2].at \in {"unlock", "drop"}
  /\ t.pc = "namex" => t.rest # <<>> /\ t.op # "none"
  /\ t.pc = "found" => t.op \in {"open", "link", "chdir"}
  /\ t.pc = "parent" => WantsParent(t.op) /\ t.name \in EntryNames
  /\ t.pc \in {"exists", "init"} => t.op \in Making
  /\ t.pc = "init" => t.name \in EntryNames
  /\ t.pc = "child" => t.name \in Names

\* Every process is at such a place.
PlaceOK == \A p \in Procs : ThreadOK(th[p])

\* The variables of a thread whose inode it has locked.
Holds(t, v) ==
  CASE v = "ip" -> t.pc \in {"opened", "unlinked"}
    [] v = "dp" -> t.pc \in {"init", "child"}
    [] v = "put1" -> Len(t.put) >= 1 /\ t.put[1].at \in {"unlock", "erase", "release"}
    [] v = "put2" -> Len(t.put) >= 2 /\ t.put[2].at = "unlock"
    [] OTHER -> FALSE

\* A sleep-lock is held by the process that has a locked pointer to the slot,
\* through one pointer only.
LockOK ==
  /\ \A p \in Procs, v \in Pointers : Holds(th[p], v) => itable[Pointer(p, v)].lock = p
  /\ \A p \in Procs, v, w \in Pointers :
       Holds(th[p], v) /\ Holds(th[p], w) /\ Pointer(p, v) = Pointer(p, w) => v = w
  /\ \A s \in Slots, p \in Procs : itable[s].lock = p =>
       \E v \in Pointers : Holds(th[p], v) /\ Pointer(p, v) = s

\* ref counts the pointers, and an inode has at most one slot in use.
RefOK ==
  /\ \A s \in Slots : itable[s].ref = Refs(s)
  /\ \A s \in Slots : itable[s].ref > 0 => itable[s].inum \in Inums
  /\ \A s, u \in Slots : s # u /\ itable[s].ref > 0 /\ itable[u].ref > 0
                           => itable[s].inum # itable[u].inum

\* A variable of a thread whose inode has been locked at some time since the
\* thread has it: the slot stays valid.
Firm(t, v) ==
  CASE v = "ip" -> t.pc \in {"parent", "opened", "link2", "bad", "unlinked", "cd"}
    [] v = "dp" -> t.dp # 0
    [] v = "put1" -> Len(t.put) >= 1 /\ t.put[1].at = "unlock"
    [] v = "put2" -> Len(t.put) >= 2 /\ t.put[2].at = "unlock"
    [] OTHER -> FALSE

\* p is freeing slot s in iput(), before or after the inode is free on disk.
Erasing(p, s) == Len(th[p].put) >= 1 /\ th[p].put[1].at = "erase" /\ th[p].put[1].s = s
Releasing(p, s) == Len(th[p].put) >= 1 /\ th[p].put[1].at = "release" /\ th[p].put[1].s = s

\* A slot that was locked since the pointer to it was taken is valid, and
\* nobody frees it.
FirmOK ==
  /\ \A p \in Procs, v \in Pointers : Firm(th[p], v) => itable[Pointer(p, v)].valid
  /\ \A p, q \in Procs, v \in Pointers :
       Firm(th[q], v) => ~Erasing(p, Pointer(q, v)) /\ ~Releasing(p, Pointer(q, v))

\* The first layer: what holds of the table in memory whatever the disk says.
IInv1 == TypeOK /\ PlaceOK /\ LockOK /\ RefOK /\ FirmOK

-----------------------------------------------------------------------------
(* Constants, lists of inodes to drop. *)

\* What the assumption on the constants says of slots, inodes and names.
LEMMA Consts ==
  /\ NInodes \in Nat /\ NInodes >= 2 /\ Slots = Inums /\ Inums \subseteq Nat
  /\ 0 \notin Slots /\ Nobody \notin Procs /\ ROOTINO \in Inums
  /\ IsFiniteSet(Procs) /\ IsFiniteSet(Names) /\ Inums \subseteq 0 .. NInodes
  /\ "." \notin Names /\ ".." \notin Names /\ Names \subseteq EntryNames
  /\ "." \in EntryNames /\ ".." \in EntryNames
BY InodesAssumption DEF Slots, Inums, ROOTINO, EntryNames

\* Nothing to drop.
LEMMA PutNone == <<>> \in Seq(StageRec) /\ Len(<<>>) = 0
OBVIOUS

\* One inode to drop.
LEMMA PutOne ==
  ASSUME NEW a \in StageRec
  PROVE  <<a>> \in Seq(StageRec) /\ Len(<<a>>) = 1 /\ <<a>>[1] = a /\ <<a>> # <<>>
OBVIOUS

\* Two inodes to drop.
LEMMA PutTwo ==
  ASSUME NEW a \in StageRec, NEW b \in StageRec
  PROVE  /\ <<a, b>> \in Seq(StageRec) /\ Len(<<a, b>>) = 2
         /\ <<a, b>>[1] = a /\ <<a, b>>[2] = b /\ <<a, b>> # <<>>
OBVIOUS

\* The first stage of a list of inodes to drop.
LEMMA PutHead ==
  ASSUME NEW put \in Seq(StageRec), put # <<>>
  PROVE  /\ Len(put) \in Nat /\ Len(put) >= 1 /\ Head(put) = put[1] /\ put[1] \in StageRec
         /\ Len(put) >= 2 => put[2] \in StageRec
OBVIOUS

\* The inodes in a list are slots.
LEMMA PutParts ==
  ASSUME NEW put \in Seq(StageRec)
  PROVE  /\ Len(put) \in Nat
         /\ Len(put) >= 1 => put[1] \in StageRec /\ put[1].s \in Slots
         /\ Len(put) >= 2 => put[2] \in StageRec /\ put[2].s \in Slots
<1>1. /\ Len(put) \in Nat
      /\ Len(put) >= 1 => put[1] \in StageRec
      /\ Len(put) >= 2 => put[2] \in StageRec
  OBVIOUS
<1>2. \A a \in StageRec : a.s \in Slots
  BY DEF StageRec
<1> QED BY <1>1, <1>2

\* The list once its first inode has been dropped.
LEMMA PutTail ==
  ASSUME NEW put \in Seq(StageRec), put # <<>>
  PROVE  /\ Tail(put) \in Seq(StageRec) /\ Len(Tail(put)) = Len(put) - 1
         /\ Len(put) >= 2 => Tail(put)[1] = put[2]
         /\ Len(put) = 1 => Tail(put) = <<>>
<1>1. Tail(put) \in Seq(StageRec) /\ Len(Tail(put)) = Len(put) - 1
  OBVIOUS
<1>2. Len(put) >= 2 => Tail(put)[1] = put[2]
  OBVIOUS
<1>3. Tail(put) # <<>> => Len(Tail(put)) \in Nat \ {0}
  BY <1>1, EmptySeq, Zenon
<1>4. Len(put) = 1 => Tail(put) = <<>>
  BY <1>1, <1>3
<1> QED BY <1>1, <1>2, <1>4

\* The list once its first inode has come to another stage.
LEMMA PutAdvance ==
  ASSUME NEW put \in Seq(StageRec), put # <<>>, NEW at \in Stages,
         NEW new, new = [put EXCEPT ![1].at = at]
  PROVE  /\ new \in Seq(StageRec) /\ Len(new) = Len(put) /\ new # <<>>
         /\ new[1] = Stage(put[1].s, at)
         /\ Len(put) >= 2 => new[2] = put[2]
<1>1. put \in [1 .. Len(put) -> StageRec] /\ Len(put) \in Nat /\ 1 \in 1 .. Len(put)
  BY PutHead
<1>2. [put[1] EXCEPT !.at = at] = Stage(put[1].s, at) /\ Stage(put[1].s, at) \in StageRec
  BY <1>1 DEF StageRec, Stage
<1>3. new = [put EXCEPT ![1] = Stage(put[1].s, at)]
  BY <1>2
<1>4. new \in [1 .. Len(put) -> StageRec]
  BY <1>1, <1>2, <1>3
<1>5. new \in Seq(StageRec) /\ Len(new) = Len(put)
  BY <1>1, <1>4
<1> QED BY <1>1, <1>2, <1>3, <1>5

-----------------------------------------------------------------------------
(* Counting the pointers to a slot. *)

\* Whether variable v of process p points to slot s, as a number; how many of
\* its variables do; and the variables of the others.
One(p, v, s) == IF Pointer(p, v) = s THEN 1 ELSE 0
\* The pointers of p to s, and those of everybody else.
Own(p, s) ==
  One(p, "cwd", s) + One(p, "ofile", s) + One(p, "ip", s) + One(p, "dp", s)
  + One(p, "put1", s) + One(p, "put2", s)
Others(p, s) == {x \in (Procs \ {p}) \X Pointers : Pointer(x[1], x[2]) = s}

\* One more pointer is counted if it points to s.
LEMMA AddPointer ==
  ASSUME NEW S, IsFiniteSet(S), NEW p, NEW v, <<p, v>> \notin S, NEW s,
         NEW T, T = S \cup {x \in {<<p, v>>} : Pointer(x[1], x[2]) = s}
  PROVE  IsFiniteSet(T) /\ Cardinality(T) = Cardinality(S) + One(p, v, s)
<1>1. CASE Pointer(p, v) = s
  <2>1. T = S \cup {<<p, v>>}
    BY <1>1
  <2> QED BY <1>1, <2>1, FS_AddElement DEF One
<1>2. CASE Pointer(p, v) # s
  <2>1. T = S
    BY <1>2
  <2>2. Cardinality(S) \in Nat
    BY FS_CardinalityType
  <2> QED BY <1>2, <2>1, <2>2 DEF One
<1> QED BY <1>1, <1>2

\* The references to a slot are those of one process and those of the others.
LEMMA RefsSplit ==
  ASSUME NEW p \in Procs, NEW s
  PROVE  /\ Cardinality(Others(p, s)) \in Nat
         /\ Refs(s) = Cardinality(Others(p, s)) + Own(p, s)
         /\ IsFiniteSet(Others(p, s))
<1> DEFINE With(S, v) == S \cup {x \in {<<p, v>>} : Pointer(x[1], x[2]) = s}
           S0 == Others(p, s)
           S1 == With(S0, "cwd")
           S2 == With(S1, "ofile")
           S3 == With(S2, "ip")
           S4 == With(S3, "dp")
           S5 == With(S4, "put1")
           S6 == With(S5, "put2")
<1>0. \A x \in S0 : x[1] # p
  BY DEF Others
<1>1. IsFiniteSet(Procs \ {p}) /\ IsFiniteSet(Pointers)
  <2>1. IsFiniteSet(Procs \ {p})
    BY Consts, FS_RemoveElement
  <2>2. IsFiniteSet({}) /\ IsFiniteSet({"cwd"}) /\ IsFiniteSet({"cwd"} \cup {"ofile"})
    BY FS_EmptySet, FS_Singleton, FS_AddElement
  <2>3. IsFiniteSet({"ip"} \cup {"dp"}) /\ IsFiniteSet({"put1"} \cup {"put2"})
    BY FS_Singleton, FS_AddElement
  <2>4. IsFiniteSet(({"ip"} \cup {"dp"}) \cup ({"put1"} \cup {"put2"}))
    BY <2>3, FS_Union
  <2>5. IsFiniteSet(({"cwd"} \cup {"ofile"}) \cup (({"ip"} \cup {"dp"}) \cup ({"put1"} \cup {"put2"})))
    BY <2>2, <2>4, FS_Union
  <2>6. Pointers = ({"cwd"} \cup {"ofile"}) \cup (({"ip"} \cup {"dp"}) \cup ({"put1"} \cup {"put2"}))
    BY DEF Pointers
  <2> QED BY <2>1, <2>5, <2>6
<1>2. IsFiniteSet((Procs \ {p}) \X Pointers)
  BY <1>1, FS_Product
<1>3. IsFiniteSet(S0) /\ Cardinality(S0) \in Nat
  BY <1>2, FS_Subset, FS_CardinalityType DEF Others
<1>4. <<p, "cwd">> \notin S0
  BY <1>0
<1>5. IsFiniteSet(S1) /\ Cardinality(S1) = Cardinality(S0) + One(p, "cwd", s)
  BY <1>3, <1>4, AddPointer
<1>6. <<p, "ofile">> \notin S1
  BY <1>0
<1>7. IsFiniteSet(S2) /\ Cardinality(S2) = Cardinality(S1) + One(p, "ofile", s)
  BY <1>5, <1>6, AddPointer
<1>8. <<p, "ip">> \notin S2
  BY <1>0
<1>9. IsFiniteSet(S3) /\ Cardinality(S3) = Cardinality(S2) + One(p, "ip", s)
  BY <1>7, <1>8, AddPointer
<1>10. <<p, "dp">> \notin S3
  BY <1>0
<1>11. IsFiniteSet(S4) /\ Cardinality(S4) = Cardinality(S3) + One(p, "dp", s)
  BY <1>9, <1>10, AddPointer
<1>12. <<p, "put1">> \notin S4
  BY <1>0
<1>13. IsFiniteSet(S5) /\ Cardinality(S5) = Cardinality(S4) + One(p, "put1", s)
  BY <1>11, <1>12, AddPointer
<1>14. <<p, "put2">> \notin S5
  BY <1>0
<1>15. IsFiniteSet(S6) /\ Cardinality(S6) = Cardinality(S5) + One(p, "put2", s)
  BY <1>13, <1>14, AddPointer
<1>16. {x \in Procs \X Pointers : Pointer(x[1], x[2]) = s} = S6
  BY DEF Others, Pointers
<1>17. Refs(s) = Cardinality(S6)
  BY <1>16 DEF Refs
<1>18. /\ One(p, "cwd", s) \in Nat /\ One(p, "ofile", s) \in Nat /\ One(p, "ip", s) \in Nat
       /\ One(p, "dp", s) \in Nat /\ One(p, "put1", s) \in Nat /\ One(p, "put2", s) \in Nat
  BY DEF One
<1> HIDE DEF S0, S1, S2, S3, S4, S5, S6
<1>19. Refs(s) = Cardinality(S0) + Own(p, s)
  BY <1>3, <1>5, <1>7, <1>9, <1>11, <1>13, <1>15, <1>17, <1>18 DEF Own
<1> QED BY <1>3, <1>19 DEF S0

\* A process counts its own pointers.
LEMMA OwnBounds ==
  ASSUME NEW p \in Procs, NEW s
  PROVE  /\ Own(p, s) \in Nat /\ Refs(s) \in Nat /\ Refs(s) >= Own(p, s)
         /\ \A v \in Pointers : Pointer(p, v) = s => Own(p, s) >= 1
         /\ \A v, w \in Pointers :
              v # w /\ Pointer(p, v) = s /\ Pointer(p, w) = s => Own(p, s) >= 2
         /\ \A q \in Procs, v \in Pointers :
              q # p /\ Pointer(q, v) = s => Refs(s) >= Own(p, s) + 1
<1>1. Own(p, s) \in Nat
  BY DEF Own, One
<1>2. \A v \in Pointers : Pointer(p, v) = s => Own(p, s) >= 1
  BY DEF Own, One, Pointers
<1>3. \A v, w \in Pointers :
        v # w /\ Pointer(p, v) = s /\ Pointer(p, w) = s => Own(p, s) >= 2
  BY DEF Own, One, Pointers
<1>4. ASSUME NEW q \in Procs, NEW v \in Pointers, q # p, Pointer(q, v) = s
      PROVE  Refs(s) >= Own(p, s) + 1
  <2>1. <<q, v>> \in Others(p, s)
    BY <1>4 DEF Others
  <2>2. Cardinality(Others(p, s)) # 0
    BY <2>1, RefsSplit, FS_EmptySet
  <2> QED BY <1>1, <2>2, RefsSplit
<1> QED BY <1>1, <1>2, <1>3, <1>4, RefsSplit

-----------------------------------------------------------------------------
(* What a step may do: the table, its locks and the pointers.              *)

\* The values of Pointer, Holds and Firm, one variable at a time.
LEMMA Views ==
  ASSUME NEW p
  PROVE  /\ Pointer(p, "cwd") = (IF th[p].pc = "cd" THEN 0 ELSE cwd[p])
         /\ Pointer(p, "ofile") = ofile[p]
         /\ Pointer(p, "ip") = th[p].ip /\ Pointer(p, "dp") = th[p].dp
         /\ Pointer(p, "put1") = (IF Len(th[p].put) >= 1 THEN th[p].put[1].s ELSE 0)
         /\ Pointer(p, "put2") = (IF Len(th[p].put) >= 2 THEN th[p].put[2].s ELSE 0)
BY DEF Pointer, PutSlot

\* Holds() and Firm() variable by variable.
LEMMA HoldsView ==
  ASSUME NEW t, NEW v \in Pointers
  PROVE  Holds(t, v) <=>
           \/ v = "ip" /\ t.pc \in {"opened", "unlinked"}
           \/ v = "dp" /\ t.pc \in {"init", "child"}
           \/ v = "put1" /\ Len(t.put) >= 1 /\ t.put[1].at \in {"unlock", "erase", "release"}
           \/ v = "put2" /\ Len(t.put) >= 2 /\ t.put[2].at = "unlock"
BY DEF Holds, Pointers

\* Which pointers are firm, variable by variable.
LEMMA FirmView ==
  ASSUME NEW t, NEW v \in Pointers
  PROVE  Firm(t, v) <=>
           \/ v = "ip" /\ t.pc \in {"parent", "opened", "link2", "bad", "unlinked", "cd"}
           \/ v = "dp" /\ t.dp # 0
           \/ v = "put1" /\ Len(t.put) >= 1 /\ t.put[1].at = "unlock"
           \/ v = "put2" /\ Len(t.put) >= 2 /\ t.put[2].at = "unlock"
BY DEF Firm, Pointers

\* A step of p leaves the variables of the others alone.
Frame(p) ==
  \A q \in Procs \ {p} : th'[q] = th[q] /\ cwd'[q] = cwd[q] /\ ofile'[q] = ofile[q]

\* References follow the pointers of p; a slot in use keeps its inode.
Counts(p) ==
  \A s \in Slots :
    /\ itable'[s].ref = itable[s].ref + Own(p, s)' - Own(p, s)
    /\ itable[s].ref > 0 => itable'[s].inum = itable[s].inum
    /\ itable[s].ref = 0 /\ itable'[s].ref > 0 =>
         /\ itable'[s].inum \in Inums
         /\ \A u \in Slots : u # s /\ itable'[u].ref > 0 => itable'[u].inum # itable'[s].inum

\* Locks are taken when they are free and released by their holder.
Locks(p) ==
  /\ \A s \in Slots : \/ itable'[s].lock = itable[s].lock
                      \/ itable[s].lock \in {p, Nobody} /\ itable'[s].lock \in {p, Nobody}
  /\ \A v \in Pointers : Holds(th'[p], v) => itable'[Pointer(p, v)'].lock = p
  /\ \A v, w \in Pointers :
       Holds(th'[p], v) /\ Holds(th'[p], w) /\ Pointer(p, v)' = Pointer(p, w)' => v = w
  /\ \A s \in Slots : itable'[s].lock = p =>
       \E v \in Pointers : Holds(th'[p], v) /\ Pointer(p, v)' = s

\* A slot becomes invalid when nobody relies on it.
Firms(p) ==
  /\ \A v \in Pointers, s \in Slots : Firm(th'[p], v) /\ Pointer(p, v)' = s =>
       /\ itable'[s].valid
       /\ \/ \E w \in Pointers : Firm(th[p], w) /\ Pointer(p, w) = s
          \/ itable[s].lock = Nobody
       /\ ~Erasing(p, s)' /\ ~Releasing(p, s)'
  /\ \A s \in Slots : Erasing(p, s)' \/ Releasing(p, s)' =>
       \/ Erasing(p, s) \/ Releasing(p, s)
       \/ \A q \in Procs \ {p}, v \in Pointers : Pointer(q, v) # s
  /\ \A s \in Slots : itable[s].valid /\ ~itable'[s].valid =>
       itable[s].ref = 0 \/ Releasing(p, s)

\* What every step of p does to the table: the counts follow p's pointers, the
\* locks its places.
Moves(p) ==
  TypeOK' /\ Frame(p) /\ ThreadOK(th'[p]) /\ Counts(p) /\ Locks(p) /\ Firms(p)

\* Pointers are slots; those that are held or relied on are not 0.
LEMMA PointerSlots ==
  ASSUME TypeOK, PlaceOK, NEW p \in Procs, NEW v \in Pointers
  PROVE  /\ Pointer(p, v) \in Slots \cup {0}
         /\ Holds(th[p], v) \/ Firm(th[p], v) => Pointer(p, v) \in Slots
<1>1. th[p] \in ThRec /\ ThreadOK(th[p]) /\ cwd[p] \in Slots /\ ofile[p] \in 0 .. NInodes
  BY DEF TypeOK, PlaceOK
<1>2. th[p].put \in Seq(StageRec)
  BY <1>1 DEF ThRec
<1>3. /\ Len(th[p].put) >= 1 => th[p].put[1].s \in Slots
      /\ Len(th[p].put) >= 2 => th[p].put[2].s \in Slots
  BY <1>2, PutParts
<1>4. th[p].ip \in 0 .. NInodes /\ th[p].dp \in 0 .. NInodes
  BY <1>1 DEF ThRec
<1>5. Slots \cup {0} = 0 .. NInodes
  BY Consts DEF Slots, Inums
<1>6. Pointer(p, v) \in Slots \cup {0}
  BY <1>1, <1>3, <1>4, <1>5, Views DEF Pointers
<1>7. CASE v = "ip"
  <2>1. Holds(th[p], v) \/ Firm(th[p], v) => th[p].pc # "idle"
    BY <1>7, HoldsView, FirmView
  <2> QED BY <1>1, <1>6, <1>7, <2>1, Views DEF ThreadOK
<1>8. CASE v = "dp"
  <2>1. Holds(th[p], v) \/ Firm(th[p], v) => th[p].pc \in {"init", "child"} \/ th[p].dp # 0
    BY <1>8, HoldsView, FirmView
  <2> QED BY <1>1, <1>6, <1>8, <2>1, Views DEF ThreadOK
<1>9. CASE v = "put1"
  <2>1. Holds(th[p], v) \/ Firm(th[p], v) => Len(th[p].put) >= 1
    BY <1>9 DEF Holds, Firm
  <2> QED BY <1>3, <1>6, <1>9, <2>1, Views
<1>10. CASE v = "put2"
  <2>1. Holds(th[p], v) \/ Firm(th[p], v) => Len(th[p].put) >= 2
    BY <1>10 DEF Holds, Firm
  <2> QED BY <1>3, <1>6, <1>10, <2>1, Views
<1>11. CASE v = "cwd" \/ v = "ofile"
  BY <1>6, <1>11, HoldsView, FirmView
<1> QED BY <1>6, <1>7, <1>8, <1>9, <1>10, <1>11 DEF Pointers

\* RefsSplit as a state formula, so that it holds of the next state too.
Counting ==
  \A p \in Procs, s \in Slots :
    /\ Cardinality(Others(p, s)) \in Nat /\ Own(p, s) \in Nat
    /\ Refs(s) = Cardinality(Others(p, s)) + Own(p, s)

\* A count differs from step to step by what the pointers of the process that
\* steps differ by.
LEMMA CountingHolds == Counting
<1> SUFFICES ASSUME NEW p \in Procs, NEW s \in Slots
             PROVE  /\ Cardinality(Others(p, s)) \in Nat /\ Own(p, s) \in Nat
                    /\ Refs(s) = Cardinality(Others(p, s)) + Own(p, s)
  BY DEF Counting
<1>1. Cardinality(Others(p, s)) \in Nat /\ Refs(s) = Cardinality(Others(p, s)) + Own(p, s)
  BY RefsSplit
<1>2. Own(p, s) \in Nat
  BY OwnBounds
<1> QED BY <1>1, <1>2

\* PointerSlots, likewise.
PointersOK ==
  TypeOK /\ PlaceOK => \A p \in Procs, v \in Pointers :
    /\ Pointer(p, v) \in Slots \cup {0}
    /\ Holds(th[p], v) \/ Firm(th[p], v) => Pointer(p, v) \in Slots

\* Every variable of a process is 0 or a slot.
LEMMA PointersAlways == PointersOK
BY PointerSlots DEF PointersOK

\* Both hold after a step.
LEMMA CountingNext == Counting'
BY CountingHolds, PTL

\* The same after a step.
LEMMA PointersNext == PointersOK'
BY PointersAlways, PTL

\* A step that does so keeps the first layer.
LEMMA MovesKeeps ==
  ASSUME IInv1, NEW p \in Procs, Moves(p)
  PROVE  IInv1'
<1>1. TypeOK' /\ PlaceOK'
  BY DEF Moves, Frame, PlaceOK, IInv1
<1>2. ASSUME NEW q \in Procs \ {p}, NEW v \in Pointers
      PROVE  Pointer(q, v)' = Pointer(q, v)
  BY <1>2 DEF Moves, Frame, Pointer, PutSlot
<1>3. \A s \in Slots : Others(p, s)' = Others(p, s)
  BY <1>2 DEF Others
<1>4. \A s \in Slots : itable'[s].ref = Refs(s)'
  <2> TAKE s \in Slots
  <2>1. Counting /\ Counting'
    BY CountingHolds, CountingNext
  <2>2. /\ Refs(s) = Cardinality(Others(p, s)) + Own(p, s)
        /\ Cardinality(Others(p, s)) \in Nat /\ Own(p, s) \in Nat
    BY <2>1 DEF Counting
  <2>3. /\ Refs(s)' = Cardinality(Others(p, s)') + Own(p, s)'
        /\ Own(p, s)' \in Nat
    BY <2>1 DEF Counting
  <2>4. itable[s].ref = Refs(s)
    BY DEF IInv1, RefOK
  <2> QED BY <1>3, <2>2, <2>3, <2>4 DEF Moves, Counts
<1>5. \A s \in Slots : itable[s].ref \in Nat /\ itable'[s].ref \in Nat
  <2> TAKE s \in Slots
  <2>1. Counting /\ Counting'
    BY CountingHolds, CountingNext
  <2>2. Refs(s) \in Nat
    BY <2>1 DEF Counting
  <2>3. Refs(s)' \in Nat
    BY <2>1 DEF Counting
  <2> QED BY <1>4, <2>2, <2>3 DEF IInv1, RefOK
<1>6. RefOK'
  <2>1. ASSUME NEW s \in Slots, itable'[s].ref > 0 PROVE itable'[s].inum \in Inums
    BY <1>5, <2>1 DEF Moves, Counts, IInv1, RefOK
  <2>2. ASSUME NEW s \in Slots, NEW u \in Slots, s # u, itable'[s].ref > 0, itable'[u].ref > 0
        PROVE  itable'[s].inum # itable'[u].inum
    <3>1. CASE itable[s].ref > 0 /\ itable[u].ref > 0
      BY <2>2, <3>1 DEF Moves, Counts, IInv1, RefOK
    <3>2. CASE itable[s].ref = 0
      BY <2>2, <3>2 DEF Moves, Counts
    <3>3. CASE itable[u].ref = 0
      BY <2>2, <3>3 DEF Moves, Counts
    <3> QED BY <1>5, <3>1, <3>2, <3>3
  <2> QED BY <1>4, <2>1, <2>2 DEF RefOK
<1>7. LockOK'
  <2>1. ASSUME NEW q \in Procs, NEW v \in Pointers, Holds(th'[q], v)
        PROVE  itable'[Pointer(q, v)'].lock = q
    <3>1. CASE q = p
      BY <2>1, <3>1 DEF Moves, Locks
    <3>2. CASE q # p
      <4>1. Holds(th[q], v) /\ Pointer(q, v)' = Pointer(q, v)
        BY <1>2, <2>1, <3>2 DEF Moves, Frame
      <4>2. itable[Pointer(q, v)].lock = q /\ Pointer(q, v) \in Slots
        BY <4>1, PointerSlots DEF IInv1, LockOK
      <4> QED BY <3>2, <4>1, <4>2, Consts DEF Moves, Locks
    <3> QED BY <3>1, <3>2
  <2>2. ASSUME NEW q \in Procs, NEW v \in Pointers, NEW w \in Pointers, Holds(th'[q], v),
               Holds(th'[q], w), Pointer(q, v)' = Pointer(q, w)'
        PROVE  v = w
    <3>1. CASE q = p
      BY <2>2, <3>1 DEF Moves, Locks
    <3>2. CASE q # p
      BY <1>2, <2>2, <3>2 DEF Moves, Frame, IInv1, LockOK
    <3> QED BY <3>1, <3>2
  <2>3. ASSUME NEW s \in Slots, NEW q \in Procs, itable'[s].lock = q
        PROVE  \E v \in Pointers : Holds(th'[q], v) /\ Pointer(q, v)' = s
    <3>1. CASE q = p
      BY <2>3, <3>1 DEF Moves, Locks
    <3>2. CASE q # p
      <4>1. itable[s].lock = q
        BY <2>3, <3>2, Consts DEF Moves, Locks
      <4>2. PICK v \in Pointers : Holds(th[q], v) /\ Pointer(q, v) = s
        BY <4>1 DEF IInv1, LockOK
      <4> QED BY <1>2, <3>2, <4>2 DEF Moves, Frame
    <3> QED BY <3>1, <3>2
  <2> QED BY <2>1, <2>2, <2>3 DEF LockOK
<1>8. \A q \in Procs \ {p}, s \in Slots :
        (Erasing(q, s)' <=> Erasing(q, s)) /\ (Releasing(q, s)' <=> Releasing(q, s))
  BY DEF Moves, Frame, Erasing, Releasing
<1>9. \A q \in Procs, s \in Slots : Erasing(q, s) \/ Releasing(q, s) => itable[s].lock = q
  <2> SUFFICES ASSUME NEW q \in Procs, NEW s \in Slots, Erasing(q, s) \/ Releasing(q, s)
               PROVE  itable[s].lock = q
    OBVIOUS
  <2>1. "put1" \in Pointers /\ Holds(th[q], "put1") /\ Pointer(q, "put1") = s
    BY HoldsView, Views DEF Erasing, Releasing, Pointers
  <2> QED BY <2>1 DEF IInv1, LockOK
<1>10. \A q \in Procs, v \in Pointers : Firm(th'[q], v) => Pointer(q, v)' \in Slots
  <2>1. PointersOK'
    BY PointersNext
  <2> QED BY <1>1, <2>1 DEF PointersOK
<1>11. ASSUME NEW q \in Procs, NEW v \in Pointers, Firm(th'[q], v)
       PROVE  itable'[Pointer(q, v)'].valid
  <2>1. CASE q = p
    BY <1>10, <1>11, <2>1 DEF Moves, Firms
  <2>2. CASE q # p
    <3> DEFINE s == Pointer(q, v)
    <3>1. Firm(th[q], v) /\ Pointer(q, v)' = s
      BY <1>2, <1>11, <2>2 DEF Moves, Frame
    <3>2. itable[s].valid /\ s \in Slots /\ ~Releasing(p, s)
      BY <3>1, PointerSlots DEF IInv1, FirmOK
    <3>3. itable[s].ref # 0
      BY <3>2, OwnBounds DEF IInv1, RefOK
    <3>4. itable'[s].valid
      BY <1>1, <3>2, <3>3 DEF Moves, Firms
    <3> QED BY <3>1, <3>4
  <2> QED BY <2>1, <2>2
<1>12. ASSUME NEW q \in Procs, NEW r \in Procs, NEW v \in Pointers, Firm(th'[q], v),
              NEW s, s = Pointer(q, v)'
       PROVE  ~Erasing(r, s)' /\ ~Releasing(r, s)'
  <2>0. s \in Slots
    BY <1>10, <1>12
  <2>1. CASE q = p /\ r = p
    BY <1>12, <2>0, <2>1 DEF Moves, Firms
  <2>2. CASE q = p /\ r # p
    <3>1. (\E w \in Pointers : Firm(th[p], w) /\ Pointer(p, w) = s) \/ itable[s].lock = Nobody
      BY <1>12, <2>0, <2>2 DEF Moves, Firms
    <3>2. ~Erasing(r, s) /\ ~Releasing(r, s)
      BY <1>9, <2>0, <3>1, Consts DEF IInv1, FirmOK
    <3> QED BY <1>8, <2>0, <2>2, <3>2
  <2>3. CASE q # p
    <3>1. Firm(th[q], v) /\ s = Pointer(q, v)
      BY <1>2, <1>12, <2>3 DEF Moves, Frame
    <3>2. ~Erasing(r, s) /\ ~Releasing(r, s)
      BY <3>1 DEF IInv1, FirmOK
    <3>3. CASE r # p
      BY <1>8, <2>0, <3>2, <3>3
    <3>4. CASE r = p
      BY <2>0, <2>3, <3>1, <3>2, <3>4 DEF Moves, Firms
    <3> QED BY <3>3, <3>4
  <2> QED BY <2>1, <2>2, <2>3
<1>13. FirmOK'
  <2>1. ASSUME NEW q \in Procs, NEW r \in Procs, NEW v \in Pointers, Firm(th'[q], v)
        PROVE  (~Erasing(r, Pointer(q, v)) /\ ~Releasing(r, Pointer(q, v)))'
    <3>1. \A s : s = Pointer(q, v)' => ~Erasing(r, s)' /\ ~Releasing(r, s)'
      BY <1>12, <2>1
    <3> QED BY <3>1 DEF Erasing, Releasing
  <2> QED BY <1>11, <2>1 DEF FirmOK
<1> QED BY <1>1, <1>6, <1>7, <1>13 DEF IInv1

-----------------------------------------------------------------------------
(* The table: iget(), idup(), ilock(). *)

\* A nonempty set of numbers has a least one.
LEMMA LeastNat ==
  ASSUME NEW T \in SUBSET Nat, T # {}
  PROVE  Min(T) \in T /\ \A y \in T : Min(T) <= y
<1> DEFINE R == {ss \in Nat \X Nat : ss[1] < ss[2]}
<1>1. IsWellFoundedOn(R, Nat)
  BY NatLessThanWellFounded, Zenon DEF OpToRel
<1>. HIDE DEF R
<1>2. \E x \in T : \A y \in T : ~(<<y, x>> \in R)
  BY <1>1, WFMin, Zenon
<1>3. \A x, y \in Nat : ~(<<y, x>> \in R) => x <= y
  BY DEF R
<1>4. \E x \in T : \A y \in T : x <= y
  BY <1>2, <1>3
<1> QED BY <1>4, Zenon DEF Min

\* A table in which no inode has two slots.
TableOK(t) ==
  /\ t \in [Slots -> SlotRec]
  /\ \A s \in Slots : t[s].ref \in Nat /\ (t[s].ref > 0 => t[s].inum \in Inums)
  /\ \A s, u \in Slots : s # u /\ t[s].ref > 0 /\ t[u].ref > 0 => t[s].inum # t[u].inum

\* The table of the current state is one that iget() can work on.
LEMMA TableIs == ASSUME IInv1 PROVE TableOK(itable)
<1>1. \A s \in Slots : Refs(s) \in Nat
  <2> TAKE s \in Slots
  <2>1. CASE Procs = {}
    <3>1. {x \in Procs \X Pointers : Pointer(x[1], x[2]) = s} = {}
      BY <2>1
    <3> QED BY <3>1, FS_EmptySet DEF Refs
  <2>2. CASE Procs # {}
    BY <2>2, OwnBounds
  <2> QED BY <2>1, <2>2
<1> QED BY <1>1 DEF TableOK, IInv1, TypeOK, RefOK

\* iget() finds the inode's slot or an empty one: there are as many slots as
\* inodes, and an inode has one slot at most.
LEMMA IgetWhere ==
  ASSUME NEW t, TableOK(t), NEW i \in Inums, NEW k, k = IgetSlot(t, i)
  PROVE  /\ k \in Slots
         /\ \/ t[k].ref > 0 /\ t[k].inum = i
            \/ t[k].ref = 0 /\ \A u \in Slots : t[u].ref > 0 => t[u].inum # i
<1> DEFINE have == {s \in Slots : t[s].ref > 0 /\ t[s].inum = i}
           none == {s \in Slots : t[s].ref = 0}
<1>0. have \subseteq Nat /\ none \subseteq Nat
  BY Consts
<1>1. k = IF have # {} THEN Min(have) ELSE Min(none)
  BY DEF IgetSlot
<1>2. CASE have # {}
  <2>1. Min(have) \in have
    BY <1>0, <1>2, LeastNat
  <2> QED BY <1>1, <1>2, <2>1
<1>3. CASE have = {}
  <2>1. none # {}
    <3> SUFFICES ASSUME none = {} PROVE FALSE
      OBVIOUS
    <3> DEFINE f == [s \in Slots |-> t[s].inum]
               T == Inums \ {i}
    <3>1. \A s \in Slots : t[s].ref > 0
      BY DEF TableOK
    <3>2. f \in [Slots -> T]
      BY <1>3, <3>1 DEF TableOK
    <3>3. IsFiniteSet(Slots) /\ Cardinality(Slots) = NInodes
      <4>1. NInodes \in Int /\ 1 \in Int /\ ~(1 > NInodes) /\ NInodes - 1 + 1 = NInodes
        BY Consts
      <4> QED BY <4>1, FS_Interval DEF Slots, Inums
    <3>4. IsFiniteSet(T) /\ Cardinality(T) = NInodes - 1
      BY <3>3, FS_RemoveElement, Consts
    <3>5. Cardinality(T) < Cardinality(Slots)
      BY <3>3, <3>4, Consts
    <3> HIDE DEF f, T
    <3>6. \E x, y \in Slots : x # y /\ f[x] = f[y]
      BY <3>2, <3>3, <3>4, <3>5, FS_PigeonHole
    <3> QED BY <3>1, <3>6 DEF TableOK, f
  <2>2. Min(none) \in none
    BY <1>0, <2>1, LeastNat
  <2>3. k \in none
    BY <1>1, <1>3, <2>2
  <2> QED BY <1>3, <2>3 DEF TableOK
<1> QED BY <1>2, <1>3

\* T is t with one more reference to slot k.
Takes(t, T, k) ==
  /\ k \in Slots
  /\ T \in [Slots -> SlotRec]
  /\ \A u \in Slots : u # k => T[u] = t[u]
  /\ T[k].ref = t[k].ref + 1 /\ T[k].lock = t[k].lock /\ T[k].inum \in Inums
  /\ T[k].type = t[k].type /\ T[k].nlink = t[k].nlink
  /\ t[k].ref > 0 => T[k].inum = t[k].inum /\ T[k].valid = t[k].valid
  /\ t[k].ref = 0 => ~T[k].valid /\ \A u \in Slots : t[u].ref > 0 => t[u].inum # T[k].inum

\* iget() takes one reference to the slot of the inode, which it may have to
\* fill.
LEMMA IgetTakes ==
  ASSUME NEW t, TableOK(t), NEW i \in Inums, NEW k, k = IgetSlot(t, i), NEW T, T = iget(t, i)
  PROVE  Takes(t, T, k) /\ T[k].inum = i
<1>1. /\ k \in Slots
      /\ \/ t[k].ref > 0 /\ t[k].inum = i
         \/ t[k].ref = 0 /\ \A u \in Slots : t[u].ref > 0 => t[u].inum # i
  BY IgetWhere
<1>2. t \in [Slots -> SlotRec] /\ t[k] \in SlotRec /\ t[k].ref \in Nat
  BY <1>1 DEF TableOK
<1>3. CASE t[k].ref > 0
  <2>1. T = [t EXCEPT ![k] = [t[k] EXCEPT !.ref = @ + 1]] /\ t[k].inum = i
    BY <1>1, <1>2, <1>3 DEF iget
  <2> QED BY <1>1, <1>2, <1>3, <2>1 DEF Takes, SlotRec
<1>4. CASE t[k].ref = 0
  <2> DEFINE r == [t[k] EXCEPT !.inum = i, !.ref = 1, !.valid = FALSE]
  <2>1. T = [t EXCEPT ![k].inum = i, ![k].ref = 1, ![k].valid = FALSE]
    BY <1>4 DEF iget
  <2>2. i \in 0 .. NInodes
    BY Consts
  <2>3. /\ r \in SlotRec /\ r.inum = i /\ r.ref = 1 /\ r.valid = FALSE /\ r.lock = t[k].lock
        /\ r.type = t[k].type /\ r.nlink = t[k].nlink
    <3>1. t[k] \in SlotRec
      BY <1>2
    <3>2. \A x \in SlotRec : [x EXCEPT !.inum = i, !.ref = 1, !.valid = FALSE] \in SlotRec
      <4> TAKE x \in SlotRec
      <4>1. [x EXCEPT !.inum = i, !.valid = FALSE] \in SlotRec
        BY <2>2 DEF SlotRec
      <4>2. \A y \in SlotRec : [y EXCEPT !.ref = 1] \in SlotRec
        BY DEF SlotRec
      <4>3. [[x EXCEPT !.inum = i, !.valid = FALSE] EXCEPT !.ref = 1]
              = [x EXCEPT !.inum = i, !.ref = 1, !.valid = FALSE]
        BY DEF SlotRec
      <4> QED BY <4>1, <4>2, <4>3
    <3>3. \A x \in SlotRec : LET y == [x EXCEPT !.inum = i, !.ref = 1, !.valid = FALSE] IN
            /\ y.inum = i /\ y.ref = 1 /\ y.valid = FALSE /\ y.lock = x.lock
            /\ y.type = x.type /\ y.nlink = x.nlink
      BY DEF SlotRec
    <3> QED BY <3>1, <3>2, <3>3
  <2>4. T = [t EXCEPT ![k] = r]
    <3>1. k \in Slots /\ t \in [Slots -> SlotRec] /\ t[k] \in SlotRec
      BY <1>1, <1>2
    <3> QED BY <3>1, <2>1 DEF SlotRec
  <2> HIDE DEF r
  <2>5. T \in [Slots -> SlotRec] /\ T[k] = r /\ \A u \in Slots : u # k => T[u] = t[u]
    BY <1>1, <1>2, <2>3, <2>4
  <2> QED BY <1>1, <1>4, <2>3, <2>5 DEF Takes
<1> QED BY <1>2, <1>3, <1>4

\* idup() takes one more reference to a slot in use.
LEMMA IdupTakes ==
  ASSUME NEW t, TableOK(t), NEW k \in Slots, t[k].ref > 0, NEW T, T = idup(t, k)
  PROVE  Takes(t, T, k) /\ T[k].inum = t[k].inum
<1>1. t \in [Slots -> SlotRec] /\ t[k] \in SlotRec /\ t[k].ref \in Nat /\ t[k].inum \in Inums
  BY DEF TableOK
<1>2. T = [t EXCEPT ![k] = [t[k] EXCEPT !.ref = @ + 1]]
  BY <1>1 DEF idup
<1> QED BY <1>1, <1>2 DEF Takes, SlotRec

\* The slot iget() finds depends on references and numbers alone.
LEMMA IgetSlotSame ==
  ASSUME NEW t, NEW T, \A s \in Slots : T[s].ref = t[s].ref /\ T[s].inum = t[s].inum, NEW i
  PROVE  IgetSlot(T, i) = IgetSlot(t, i)
<1>1. {s \in Slots : T[s].ref > 0 /\ T[s].inum = i} = {s \in Slots : t[s].ref > 0 /\ t[s].inum = i}
  OBVIOUS
<1>2. {s \in Slots : T[s].ref = 0} = {s \in Slots : t[s].ref = 0}
  OBVIOUS
<1> QED BY <1>1, <1>2 DEF IgetSlot

\* T has the references, inodes and locks of t; what was valid still is.
Like(t, T) ==
  /\ T \in [Slots -> SlotRec]
  /\ \A u \in Slots : /\ T[u].ref = t[u].ref /\ T[u].inum = t[u].inum /\ T[u].lock = t[u].lock
                      /\ t[u].valid => T[u].valid

\* ilock() reads an inode that is not valid from the disk, and changes no
\* other slot.
LEMMA LoadLike ==
  ASSUME TypeOK, NEW s \in Slots, itable[s].inum \in Inums
  PROVE  /\ Like(itable, Load(s)) /\ Load(s)[s].valid
         /\ \A u \in Slots : u # s => Load(s)[u] = itable[u]
         /\ itable[s].valid => Load(s)[s] = itable[s]
         /\ ~itable[s].valid => /\ Load(s)[s].type = dinode[itable[s].inum].type
                                /\ Load(s)[s].nlink = dinode[itable[s].inum].nlink
<1>1. /\ itable \in [Slots -> SlotRec] /\ itable[s] \in SlotRec
      /\ dinode[itable[s].inum] \in DiskRec
  BY DEF TypeOK
<1>2. CASE itable[s].valid
  BY <1>1, <1>2 DEF Load, Like
<1>3. CASE ~itable[s].valid
  <2> DEFINE d == dinode[itable[s].inum]
             r == [itable[s] EXCEPT !.valid = TRUE, !.type = d.type, !.nlink = d.nlink]
  <2>1. Load(s) = [itable EXCEPT ![s] = r]
    BY <1>1, <1>3 DEF Load
  <2>2. d.type \in Types /\ d.nlink \in Int
    BY <1>1 DEF DiskRec
  <2>3. /\ r \in SlotRec /\ r.inum = itable[s].inum /\ r.ref = itable[s].ref /\ r.valid = TRUE
        /\ r.lock = itable[s].lock /\ r.type = d.type /\ r.nlink = d.nlink
    BY <1>1, <2>2 DEF SlotRec
  <2> HIDE DEF r
  <2>5. /\ Load(s) \in [Slots -> SlotRec] /\ Load(s)[s] = r
        /\ \A u \in Slots : u # s => Load(s)[u] = itable[u]
    BY <1>1, <2>1, <2>3
  <2> QED BY <1>3, <2>3, <2>5 DEF Like
<1> QED BY <1>2, <1>3

-----------------------------------------------------------------------------
(* Steps of a system call. *)

\* What matters of a thread: where it is, its two inodes, and its list.
Shape(t, pc, ip, dp, a, x, b, y) ==
  /\ t.pc = pc /\ t.ip = ip /\ t.dp = dp
  /\ IF a = 0 THEN Len(t.put) = 0 ELSE Len(t.put) >= 1 /\ t.put[1] = Stage(a, x)
  /\ IF b = 0 THEN Len(t.put) <= 1 ELSE Len(t.put) >= 2 /\ t.put[2] = Stage(b, y)

\* The places where a thread has ip locked, dp locked, and relies on ip.
HasIp == {"opened", "unlinked"}
\* The places where dp is locked, and those where ip has been locked before.
HasDp == {"init", "child"}
TrustsIp == {"parent", "opened", "link2", "bad", "unlinked", "cd"}

\* What a thread of this shape points to, has locked and relies on.
Looks(p, pc, ip, dp, a, x, b, y) ==
  /\ Pointer(p, "ip") = ip /\ Pointer(p, "dp") = dp
  /\ Pointer(p, "put1") = a /\ Pointer(p, "put2") = b
  /\ \A v \in Pointers :
       /\ Holds(th[p], v) <=> \/ v = "ip" /\ pc \in HasIp
                              \/ v = "dp" /\ pc \in HasDp
                              \/ v = "put1" /\ a # 0 /\ x \in {"unlock", "erase", "release"}
                              \/ v = "put2" /\ b # 0 /\ y = "unlock"
       /\ Firm(th[p], v) <=> \/ v = "ip" /\ pc \in TrustsIp
                             \/ v = "dp" /\ dp # 0
                             \/ v = "put1" /\ a # 0 /\ x = "unlock"
                             \/ v = "put2" /\ b # 0 /\ y = "unlock"
  /\ \A s : /\ Erasing(p, s) <=> a # 0 /\ x = "erase" /\ a = s
            /\ Releasing(p, s) <=> a # 0 /\ x = "release" /\ a = s

\* The variables of a system call decide what its pointers are and which of
\* them it has locked.
ShapesOK ==
  \A p \in Procs : \A pc, ip, dp, a, x, b, y :
    Shape(th[p], pc, ip, dp, a, x, b, y) => Looks(p, pc, ip, dp, a, x, b, y)

\* The fields of a stage.
LEMMA StageIs == \A s, at : Stage(s, at).s = s /\ Stage(s, at).at = at
BY DEF Stage

\* Nothing to drop has length 0.
LEMMA NoLen == Len(<<>>) = 0
OBVIOUS

\* That is so in every state ...
LEMMA ShapesAlways == ShapesOK
<1> SUFFICES ASSUME NEW p \in Procs, NEW pc, NEW ip, NEW dp, NEW a, NEW x, NEW b, NEW y,
                    Shape(th[p], pc, ip, dp, a, x, b, y)
             PROVE  Looks(p, pc, ip, dp, a, x, b, y)
  BY DEF ShapesOK
<1> DEFINE n == Len(th[p].put)
           f == th[p].put[1]
           g == th[p].put[2]
<1>1. /\ th[p].pc = pc /\ th[p].ip = ip /\ th[p].dp = dp
      /\ a # 0 => n >= 1 /\ f.s = a /\ f.at = x
      /\ a = 0 => n = 0
      /\ b # 0 => n >= 2 /\ g.s = b /\ g.at = y
      /\ b = 0 => n <= 1
  BY StageIs, NoLen DEF Shape
<1>2. n >= 1 <=> a # 0
  BY <1>1
<1>3. n >= 2 <=> b # 0
  BY <1>1
<1>4. /\ Pointer(p, "put1") = (IF n >= 1 THEN f.s ELSE 0)
      /\ Pointer(p, "put2") = (IF n >= 2 THEN g.s ELSE 0)
      /\ Pointer(p, "ip") = th[p].ip /\ Pointer(p, "dp") = th[p].dp
  BY DEF Pointer, PutSlot
<1>5. ASSUME NEW v \in Pointers
      PROVE  Holds(th[p], v) <=>
               \/ v = "ip" /\ th[p].pc \in HasIp
               \/ v = "dp" /\ th[p].pc \in HasDp
               \/ v = "put1" /\ n >= 1 /\ f.at \in {"unlock", "erase", "release"}
               \/ v = "put2" /\ n >= 2 /\ g.at = "unlock"
  BY DEF Holds, Pointers, HasIp, HasDp
<1>6. ASSUME NEW v \in Pointers
      PROVE  Firm(th[p], v) <=>
               \/ v = "ip" /\ th[p].pc \in TrustsIp
               \/ v = "dp" /\ th[p].dp # 0
               \/ v = "put1" /\ n >= 1 /\ f.at = "unlock"
               \/ v = "put2" /\ n >= 2 /\ g.at = "unlock"
  BY DEF Firm, Pointers, TrustsIp
<1>7. ASSUME NEW s
      PROVE  /\ Erasing(p, s) <=> n >= 1 /\ f.at = "erase" /\ f.s = s
             /\ Releasing(p, s) <=> n >= 1 /\ f.at = "release" /\ f.s = s
  BY DEF Erasing, Releasing
<1> HIDE DEF n, f, g
<1>8. /\ Pointer(p, "ip") = ip /\ Pointer(p, "dp") = dp
      /\ Pointer(p, "put1") = a /\ Pointer(p, "put2") = b
  BY <1>1, <1>2, <1>3, <1>4
<1>9. ASSUME NEW v \in Pointers
      PROVE  Holds(th[p], v) <=>
                \/ v = "ip" /\ pc \in HasIp
                \/ v = "dp" /\ pc \in HasDp
                \/ v = "put1" /\ a # 0 /\ x \in {"unlock", "erase", "release"}
                \/ v = "put2" /\ b # 0 /\ y = "unlock"
  BY <1>1, <1>2, <1>3, <1>5, Zenon
<1>10. ASSUME NEW v \in Pointers
      PROVE  Firm(th[p], v) <=>
                \/ v = "ip" /\ pc \in TrustsIp
                \/ v = "dp" /\ dp # 0
                \/ v = "put1" /\ a # 0 /\ x = "unlock"
                \/ v = "put2" /\ b # 0 /\ y = "unlock"
  BY <1>1, <1>2, <1>3, <1>6, Zenon
<1>11. ASSUME NEW s
       PROVE  /\ Erasing(p, s) <=> a # 0 /\ x = "erase" /\ a = s
              /\ Releasing(p, s) <=> a # 0 /\ x = "release" /\ a = s
  BY <1>1, <1>2, <1>7, Zenon
<1> QED BY <1>8, <1>9, <1>10, <1>11 DEF Looks

\* ... and after a step.
LEMMA ShapesNext == ShapesOK'
BY ShapesAlways, PTL

\* The step takes a reference to slot k and drops none; slots in use keep their
\* inodes and stay valid.
Gets(k) ==
  \A u \in Slots :
    /\ itable'[u].ref = itable[u].ref + (IF u = k THEN 1 ELSE 0)
    /\ itable[u].ref > 0 =>
         itable'[u].inum = itable[u].inum /\ (itable[u].valid => itable'[u].valid)
    /\ u = k /\ itable[u].ref = 0 =>
         /\ itable'[u].inum \in Inums
         /\ \A w \in Slots : itable[w].ref > 0 => itable[w].inum # itable'[u].inum

\* A step of p that changes locks takes free ones or gives back its own.
LockStep(p) ==
  \A s \in Slots : \/ itable'[s].lock = itable[s].lock
                   \/ itable[s].lock \in {p, Nobody} /\ itable'[s].lock \in {p, Nobody}

\* 1 if a is s.
One1(a, s) == IF a = s THEN 1 ELSE 0

\* Pointers are passed on, and k is a new one.
Balanced(p, ip, dp, a, b, k) ==
  \A s \in Slots :
    One1(Pointer(p, "cwd")', s) + One1(ofile'[p], s) + One1(ip, s) + One1(dp, s)
      + One1(a, s) + One1(b, s)
    = One1(Pointer(p, "cwd"), s) + One1(ofile[p], s) + One1(th[p].ip, s) + One1(th[p].dp, s)
      + One1(k, s)

\* The locks that a thread of this shape should have, each once.
HandsAfter(p, pc, ip, dp, a, x, b, y) ==
  /\ pc \in HasIp => itable'[ip].lock = p
  /\ pc \in HasDp => itable'[dp].lock = p
  /\ a # 0 /\ x = "unlock" => itable'[a].lock = p
  /\ b # 0 /\ y = "unlock" => itable'[b].lock = p
  /\ pc \in HasIp => ~(a = ip /\ x = "unlock") /\ b = 0
  /\ pc \in HasDp => a = 0 /\ b = 0
  /\ x = "unlock" /\ y = "unlock" /\ a # 0 => a # b
  /\ \A s \in Slots : itable'[s].lock = p =>
       \/ pc \in HasIp /\ s = ip
       \/ pc \in HasDp /\ s = dp
       \/ s = a /\ x = "unlock"
       \/ s = b /\ y = "unlock"

\* What it relies on is valid, and it did so before or has just locked it.
ReliesAfter(p, pc, ip, dp, a, x, b, y) ==
  \A s \in Slots :
    \/ s = ip /\ pc \in TrustsIp
    \/ s = dp
    \/ s = a /\ x = "unlock"
    \/ s = b /\ y = "unlock"
    => /\ itable'[s].valid
       /\ \/ s = th[p].ip /\ th[p].pc \in TrustsIp
          \/ s = th[p].dp
          \/ itable[s].lock = Nobody

\* The pointers and locks of a process whose variables are given.
LEMMA ShapeAt ==
  ASSUME NEW p \in Procs, NEW pc, NEW ip, NEW dp, NEW a, NEW x, NEW b, NEW y,
         Shape(th[p], pc, ip, dp, a, x, b, y)
  PROVE  Looks(p, pc, ip, dp, a, x, b, y)
BY ShapesAlways DEF ShapesOK

\* The same after a step.
LEMMA ShapeAfter ==
  ASSUME NEW p \in Procs, NEW pc, NEW ip, NEW dp, NEW a, NEW x, NEW b, NEW y,
         Shape(th'[p], pc, ip, dp, a, x, b, y)
  PROVE  Looks(p, pc, ip, dp, a, x, b, y)'
BY ShapesNext DEF ShapesOK

\* The variables of a process with nothing to drop.
LEMMA ShapeBare ==
  ASSUME NEW p, th[p].put = <<>>
  PROVE  Shape(th[p], th[p].pc, th[p].ip, th[p].dp, 0, "none", 0, "none")
BY NoLen DEF Shape

\* References follow the pointers.
LEMMA GetsCounts ==
  ASSUME IInv1, NEW p \in Procs, NEW k, Gets(k),
         \A s \in Slots : Own(p, s)' = Own(p, s) + One1(k, s)
  PROVE  Counts(p)
<1>1. TableOK(itable)
  BY TableIs
<1>2. ASSUME NEW s \in Slots
      PROVE  itable'[s].ref = itable[s].ref + Own(p, s)' - Own(p, s)
  <2>1. Own(p, s) \in Nat
    BY OwnBounds
  <2>2. itable[s].ref \in Nat /\ itable'[s].ref = itable[s].ref + One1(k, s)
    BY <1>1 DEF Gets, TableOK, One1
  <2>3. One1(k, s) \in Nat /\ Own(p, s)' = Own(p, s) + One1(k, s)
    BY DEF One1
  <2> QED BY <2>1, <2>2, <2>3
<1>3. ASSUME NEW s \in Slots, itable[s].ref = 0, itable'[s].ref > 0
      PROVE  /\ itable'[s].inum \in Inums
             /\ \A u \in Slots : u # s /\ itable'[u].ref > 0 => itable'[u].inum # itable'[s].inum
  <2>1. s = k
    BY <1>3 DEF Gets
  <2>2. ASSUME NEW u \in Slots, u # s, itable'[u].ref > 0
        PROVE  itable[u].ref > 0 /\ itable'[u].inum = itable[u].inum
    <3>1. itable'[u].ref = itable[u].ref /\ itable[u].ref \in Nat
      BY <1>1, <2>1, <2>2 DEF Gets, TableOK
    <3> QED BY <2>2, <3>1 DEF Gets
  <2> QED BY <1>3, <2>1, <2>2 DEF Gets
<1>4. \A s \in Slots : itable[s].ref > 0 => itable'[s].inum = itable[s].inum
  BY DEF Gets
<1> QED BY <1>2, <1>3, <1>4 DEF Counts

\* A process in the middle of a call, with nothing to drop, turns into one
\* with the given shape.
LEMMA CallMoves ==
  ASSUME IInv1, NEW p \in Procs, NEW pc, NEW ip, NEW dp, NEW a, NEW x, NEW b, NEW y, NEW k,
         TypeOK', Frame(p), ThreadOK(th'[p]),
         th[p].put = <<>>, Shape(th'[p], pc, ip, dp, a, x, b, y),
         x \notin {"erase", "release"}, Gets(k), LockStep(p),
         Balanced(p, ip, dp, a, b, k),
         HandsAfter(p, pc, ip, dp, a, x, b, y),
         ReliesAfter(p, pc, ip, dp, a, x, b, y)
  PROVE  Moves(p)
<1>0. Looks(p, pc, ip, dp, a, x, b, y)'
  BY ShapeAfter
<1>1. /\ Pointer(p, "ip")' = ip /\ Pointer(p, "dp")' = dp
      /\ Pointer(p, "put1")' = a /\ Pointer(p, "put2")' = b
  BY <1>0 DEF Looks
<1>2. Looks(p, th[p].pc, th[p].ip, th[p].dp, 0, "none", 0, "none")
  BY ShapeBare, ShapeAt
<1>3. /\ Pointer(p, "ip") = th[p].ip /\ Pointer(p, "dp") = th[p].dp
      /\ Pointer(p, "put1") = 0 /\ Pointer(p, "put2") = 0
  BY <1>2 DEF Looks
<1>4. Pointer(p, "ofile")' = ofile'[p] /\ Pointer(p, "ofile") = ofile[p]
  BY DEF Pointer
<1>5. ASSUME NEW s \in Slots
      PROVE  Own(p, s)' = Own(p, s) + One1(k, s)
  <2>1. 0 # s
    BY Consts
  <2>2. /\ Own(p, s)' = One1(Pointer(p, "cwd")', s) + One1(ofile'[p], s) + One1(ip, s) + One1(dp, s)
                          + One1(a, s) + One1(b, s)
    BY <1>1, <1>4 DEF Own, One, One1
  <2>3. Own(p, s) = One1(Pointer(p, "cwd"), s) + One1(ofile[p], s) + One1(th[p].ip, s) + One1(th[p].dp, s)
                          + One1(0, s) + One1(0, s)
    BY <1>3, <1>4 DEF Own, One, One1
  <2>4. One1(0, s) = 0 /\ \A z : One1(z, s) \in Nat
    BY <2>1 DEF One1
  <2> QED BY <2>2, <2>3, <2>4 DEF Balanced
<1>6. Counts(p)
  BY <1>5, GetsCounts
<1>7. \A v \in Pointers :
        /\ Holds(th'[p], v) <=> \/ v = "ip" /\ pc \in HasIp
                                \/ v = "dp" /\ pc \in HasDp
                                \/ v = "put1" /\ a # 0 /\ x \in {"unlock", "erase", "release"}
                                \/ v = "put2" /\ b # 0 /\ y = "unlock"
        /\ Firm(th'[p], v) <=> \/ v = "ip" /\ pc \in TrustsIp
                               \/ v = "dp" /\ dp # 0
                               \/ v = "put1" /\ a # 0 /\ x = "unlock"
                               \/ v = "put2" /\ b # 0 /\ y = "unlock"
  BY <1>0 DEF Looks
<1>8. /\ th[p].pc \in TrustsIp => Firm(th[p], "ip")
      /\ th[p].dp # 0 => Firm(th[p], "dp")
  BY <1>2 DEF Looks, Pointers
<1>9. /\ "ip" \in Pointers /\ "dp" \in Pointers /\ "put1" \in Pointers /\ "put2" \in Pointers
      /\ 0 \notin Slots
  BY Consts DEF Pointers
<1>11. Locks(p)
  <2>1. \A v \in Pointers : Holds(th'[p], v) => itable'[Pointer(p, v)'].lock = p
    BY <1>1, <1>7 DEF HandsAfter
  <2>2. \A v, w \in Pointers :
          Holds(th'[p], v) /\ Holds(th'[p], w) /\ Pointer(p, v)' = Pointer(p, w)' => v = w
    <3>1. pc \in HasIp => pc \notin HasDp
      BY DEF HasIp, HasDp
    <3> QED BY <1>1, <1>7, <3>1 DEF HandsAfter
  <2>3. ASSUME NEW s \in Slots, itable'[s].lock = p
        PROVE  \E v \in Pointers : Holds(th'[p], v) /\ Pointer(p, v)' = s
    <3>1. CASE pc \in HasIp /\ s = ip
      BY <1>1, <1>7, <1>9, <3>1
    <3>2. CASE pc \in HasDp /\ s = dp
      BY <1>1, <1>7, <1>9, <3>2
    <3>3. CASE s = a /\ x = "unlock"
      BY <1>1, <1>7, <1>9, <3>3
    <3>4. CASE s = b /\ y = "unlock"
      BY <1>1, <1>7, <1>9, <3>4
    <3> QED BY <2>3, <3>1, <3>2, <3>3, <3>4 DEF HandsAfter
  <2> QED BY <2>1, <2>2, <2>3 DEF Locks, LockStep
<1>12. \A s \in Slots : ~Erasing(p, s)' /\ ~Releasing(p, s)'
  BY <1>0 DEF Looks
<1>13. ASSUME NEW v \in Pointers, NEW s \in Slots, Firm(th'[p], v), Pointer(p, v)' = s
       PROVE  /\ itable'[s].valid
              /\ \/ \E w \in Pointers : Firm(th[p], w) /\ Pointer(p, w) = s
                 \/ itable[s].lock = Nobody
  <2>1. \/ s = ip /\ pc \in TrustsIp
        \/ s = dp
        \/ s = a /\ x = "unlock"
        \/ s = b /\ y = "unlock"
    BY <1>1, <1>7, <1>13
  <2>2. /\ itable'[s].valid
        /\ \/ s = th[p].ip /\ th[p].pc \in TrustsIp
           \/ s = th[p].dp
           \/ itable[s].lock = Nobody
    BY <2>1 DEF ReliesAfter
  <2>3. CASE s = th[p].ip /\ th[p].pc \in TrustsIp
    BY <1>3, <1>8, <1>9, <2>2, <2>3
  <2>4. CASE s = th[p].dp
    BY <1>3, <1>8, <1>9, <2>2, <2>4
  <2> QED BY <2>2, <2>3, <2>4
<1>14. Firms(p)
  <2>1. \A s \in Slots : itable[s].valid /\ ~itable'[s].valid => itable[s].ref = 0
    <3>1. \A s \in Slots : itable[s].ref \in Nat
      BY TableIs DEF TableOK
    <3> QED BY <3>1 DEF Gets
  <2> QED BY <1>12, <1>13, <2>1 DEF Firms
<1> QED BY <1>6, <1>11, <1>14 DEF Moves

\* A slot that is pointed to is in use.
LEMMA PointedTo ==
  ASSUME IInv1, NEW p \in Procs, NEW v \in Pointers, NEW s \in Slots, Pointer(p, v) = s
  PROVE  itable[s].ref > 0 /\ itable[s].ref \in Nat /\ itable[s].inum \in Inums
<1>1. Own(p, s) >= 1 /\ Own(p, s) \in Nat /\ Refs(s) \in Nat /\ Refs(s) >= Own(p, s)
  BY OwnBounds
<1>2. itable[s].ref = Refs(s)
  BY DEF IInv1, RefOK
<1>3. itable[s].ref > 0 /\ itable[s].ref \in Nat
  BY <1>1, <1>2
<1> QED BY <1>3 DEF IInv1, RefOK

\* The inode a call works on, and the second one.
LEMMA AtIp ==
  ASSUME IInv1, NEW p \in Procs, th[p].pc # "idle"
  PROVE  /\ th[p].ip \in Slots /\ th[p].ip # 0
         /\ itable[th[p].ip].ref > 0 /\ itable[th[p].ip].ref \in Nat /\ itable[th[p].ip].inum \in Inums
<1>1. th[p].ip \in 0 .. NInodes /\ th[p].ip # 0
  BY DEF IInv1, TypeOK, ThRec, PlaceOK, ThreadOK
<1>2. th[p].ip \in Slots
  BY <1>1, Consts DEF Slots, Inums
<1>3. Pointer(p, "ip") = th[p].ip /\ "ip" \in Pointers
  BY DEF Pointer, Pointers
<1> QED BY <1>1, <1>2, <1>3, PointedTo

\* The slot of a directory that a system call keeps is in use and valid.
LEMMA AtDp ==
  ASSUME IInv1, NEW p \in Procs, th[p].dp # 0
  PROVE  /\ th[p].dp \in Slots
         /\ itable[th[p].dp].ref > 0 /\ itable[th[p].dp].ref \in Nat /\ itable[th[p].dp].inum \in Inums
         /\ itable[th[p].dp].valid
<1>1. th[p].dp \in 0 .. NInodes
  BY DEF IInv1, TypeOK, ThRec
<1>2. th[p].dp \in Slots
  BY <1>1, Consts DEF Slots, Inums
<1>3. Pointer(p, "dp") = th[p].dp /\ "dp" \in Pointers /\ Firm(th[p], "dp")
  BY DEF Pointer, Pointers, Firm
<1>4. itable[th[p].dp].valid
  BY <1>3 DEF IInv1, FirmOK
<1> QED BY <1>2, <1>3, <1>4, PointedTo

\* A call with nothing to drop has at most one inode locked.
LEMMA Hands ==
  ASSUME IInv1, NEW p \in Procs, th[p].put = <<>>, NEW s \in Slots
  PROVE  itable[s].lock = p <=> \/ th[p].pc \in HasIp /\ s = th[p].ip
                                \/ th[p].pc \in HasDp /\ s = th[p].dp
<1>1. Looks(p, th[p].pc, th[p].ip, th[p].dp, 0, "none", 0, "none")
  BY ShapeBare, ShapeAt
<1>2. itable[s].lock = p <=> \E v \in Pointers : Holds(th[p], v) /\ Pointer(p, v) = s
  BY DEF IInv1, LockOK
<1>3. \A v \in Pointers : Holds(th[p], v) <=> \/ v = "ip" /\ th[p].pc \in HasIp
                                              \/ v = "dp" /\ th[p].pc \in HasDp
  BY <1>1 DEF Looks
<1>4. /\ Pointer(p, "ip") = th[p].ip /\ Pointer(p, "dp") = th[p].dp
      /\ "ip" \in Pointers /\ "dp" \in Pointers
  BY <1>1 DEF Looks, Pointers
<1> QED BY <1>2, <1>3, <1>4

\* At most places it has none.
LEMMA BareHands ==
  ASSUME IInv1, NEW p \in Procs, th[p].put = <<>>, th[p].pc \notin HasIp, th[p].pc \notin HasDp
  PROVE  \A u \in Slots : itable[u].lock # p
BY Hands

\* The places where no inode is locked.
LEMMA Bare ==
  \A pc \in {"idle", "namex", "found", "parent", "exists", "link2", "bad", "cd"} :
    pc \notin HasIp /\ pc \notin HasDp
BY DEF HasIp, HasDp

\* T has the references and inodes of t; what was valid still is.
Near(t, T) ==
  /\ T \in [Slots -> SlotRec]
  /\ \A u \in Slots : /\ T[u].ref = t[u].ref /\ T[u].inum = t[u].inum
                      /\ t[u].valid => T[u].valid

\* Taking locks, reading inodes and setting their link counts leaves a table
\* iget() can work on.
LEMMA NearTable == ASSUME NEW t, NEW T, TableOK(t), Near(t, T) PROVE TableOK(T)
BY DEF TableOK, Near

\* One such change after another is one.
LEMMA NearTrans == ASSUME NEW t, NEW T, NEW U, Near(t, T), Near(T, U) PROVE Near(t, U)
BY DEF Near

\* T is t but for the lock of slot s; or but for its link count.
LEMMA LockedIs ==
  ASSUME NEW t \in [Slots -> SlotRec], NEW s \in Slots, NEW q \in Procs \cup {Nobody},
         NEW T, T = Locked(t, s, q)
  PROVE  /\ Near(t, T) /\ T[s].lock = q /\ T[s].valid = t[s].valid
         /\ T[s].type = t[s].type /\ T[s].nlink = t[s].nlink
         /\ \A u \in Slots : u # s => T[u] = t[u]
<1> DEFINE r == [t[s] EXCEPT !.lock = q]
<1>1. T = [t EXCEPT ![s] = r] /\ t[s] \in SlotRec
  BY DEF Locked
<1>2. /\ r \in SlotRec /\ r.lock = q /\ r.inum = t[s].inum /\ r.ref = t[s].ref
      /\ r.valid = t[s].valid /\ r.type = t[s].type /\ r.nlink = t[s].nlink
  BY <1>1 DEF SlotRec
<1> HIDE DEF r
<1>3. T \in [Slots -> SlotRec] /\ T[s] = r /\ \A u \in Slots : u # s => T[u] = t[u]
  BY <1>1, <1>2
<1> QED BY <1>2, <1>3 DEF Near

\* Setting a link count changes nothing else.
LEMMA NlinkIs ==
  ASSUME NEW t \in [Slots -> SlotRec], NEW s \in Slots, NEW n \in Int,
         NEW T, T = SetNlink(t, s, n)
  PROVE  /\ Near(t, T) /\ T[s].lock = t[s].lock /\ T[s].valid = t[s].valid
         /\ T[s].type = t[s].type /\ T[s].nlink = n
         /\ \A u \in Slots : u # s => T[u] = t[u]
<1> DEFINE r == [t[s] EXCEPT !.nlink = n]
<1>1. T = [t EXCEPT ![s] = r] /\ t[s] \in SlotRec
  BY DEF SetNlink
<1>2. /\ r \in SlotRec /\ r.lock = t[s].lock /\ r.inum = t[s].inum /\ r.ref = t[s].ref
      /\ r.valid = t[s].valid /\ r.type = t[s].type /\ r.nlink = n
  BY <1>1 DEF SlotRec
<1> HIDE DEF r
<1>3. T \in [Slots -> SlotRec] /\ T[s] = r /\ \A u \in Slots : u # s => T[u] = t[u]
  BY <1>1, <1>2
<1> QED BY <1>2, <1>3 DEF Near

\* A step that takes no reference.
LEMMA NearGets ==
  ASSUME IInv1, Near(itable, itable')
  PROVE  Gets(0)
<1>1. TableOK(itable) /\ 0 \notin Slots
  BY TableIs, Consts
<1> QED BY <1>1 DEF Near, Gets, TableOK

\* A step that takes one reference, with such changes before and after.
LEMMA TakesGets ==
  ASSUME IInv1, NEW t, NEW T, NEW k, Near(itable, t), Takes(t, T, k), Near(T, itable')
  PROVE  Gets(k)
<1>1. TableOK(itable)
  BY TableIs
<1>2. ASSUME NEW u \in Slots, u # k
      PROVE  /\ itable'[u].ref = itable[u].ref /\ itable'[u].inum = itable[u].inum
             /\ itable[u].valid => itable'[u].valid
  <2>1. T[u] = t[u]
    BY <1>2 DEF Takes
  <2> QED BY <2>1 DEF Near
<1>3. /\ itable'[k].ref = itable[k].ref + 1 /\ itable'[k].inum = T[k].inum
      /\ k \in Slots /\ itable'[k].inum \in Inums
  BY DEF Near, Takes
<1>4. itable[k].ref > 0 => itable'[k].inum = itable[k].inum /\ (itable[k].valid => itable'[k].valid)
  BY <1>3 DEF Near, Takes
<1>5. itable[k].ref = 0 => \A w \in Slots : itable[w].ref > 0 => itable[w].inum # itable'[k].inum
  <2> SUFFICES ASSUME itable[k].ref = 0, NEW w \in Slots, itable[w].ref > 0
               PROVE  itable[w].inum # itable'[k].inum
    OBVIOUS
  <2>1. t[k].ref = 0 /\ t[w].ref > 0 /\ t[w].inum = itable[w].inum
    BY <1>3 DEF Near
  <2>2. \A u \in Slots : t[u].ref > 0 => t[u].inum # T[k].inum
    BY <2>1 DEF Takes
  <2> QED BY <1>3, <2>1, <2>2
<1>6. \A u \in Slots : itable[u].ref \in Nat
  BY <1>1 DEF TableOK
<1> QED BY <1>2, <1>3, <1>4, <1>5, <1>6 DEF Gets

\* A step that gives p a new thread.
LEMMA ThSet ==
  ASSUME TypeOK, NEW p \in Procs, NEW n \in ThRec, th' = [th EXCEPT ![p] = n]
  PROVE  /\ th' \in [Procs -> ThRec] /\ th'[p] = n
         /\ \A q \in Procs \ {p} : th'[q] = th[q]
BY DEF TypeOK

\* A call that is over, but for what it has to drop.
LEMMA DoneIs ==
  ASSUME NEW puts \in Seq(StageRec)
  PROVE  /\ Done(puts) \in ThRec /\ Done(puts).pc = "idle" /\ Done(puts).op = "none"
         /\ Done(puts).ip = 0 /\ Done(puts).dp = 0 /\ Done(puts).put = puts
         /\ Done(puts).name = "none"
<1>1. <<>> \in Seq(EntryNames) /\ 0 \in 0 .. NInodes
  BY Consts
<1>2. <<>> \in Seq(StageRec)
  BY PutNone
<1>3. IdleThread \in ThRec
  BY <1>1, <1>2 DEF IdleThread, ThRec, Places
<1>4. /\ Done(puts).pc = "idle" /\ Done(puts).op = "none" /\ Done(puts).name = "none"
      /\ Done(puts).ip = 0 /\ Done(puts).dp = 0 /\ Done(puts).put = puts
  BY DEF Done, IdleThread
<1>5. Done(puts) = [IdleThread EXCEPT !.put = puts]
  BY DEF Done
<1>6. Done(puts) \in ThRec
  BY <1>3, <1>5 DEF ThRec
<1> QED BY <1>4, <1>6

\* A system call that is over still has one or two inodes to drop.
LEMMA DoneShape ==
  ASSUME NEW puts \in Seq(StageRec), NEW a \in Slots, NEW x, Len(puts) >= 1, puts[1] = Stage(a, x),
         NEW b, NEW y \in {"unlock", "drop", "none"},
         IF b = 0 THEN Len(puts) = 1 ELSE Len(puts) = 2 /\ puts[2] = Stage(b, y) /\ y # "none"
  PROVE  /\ Done(puts) \in ThRec /\ ThreadOK(Done(puts))
         /\ Shape(Done(puts), "idle", 0, 0, a, x, b, y)
         /\ Done(puts).op = "none" /\ Done(puts).pc = "idle"
<1>1. /\ Done(puts) \in ThRec /\ Done(puts).pc = "idle" /\ Done(puts).op = "none"
      /\ Done(puts).ip = 0 /\ Done(puts).dp = 0 /\ Done(puts).put = puts
      /\ Done(puts).name = "none"
  BY DoneIs
<1> DEFINE d == Done(puts)
<1>2. /\ a # 0 /\ Len(d.put) >= 1 /\ d.put[1] = Stage(a, x)
      /\ b = 0 => Len(d.put) = 1
      /\ b # 0 => Len(d.put) = 2 /\ d.put[2] = Stage(b, y) /\ d.put[2].at \in {"unlock", "drop"}
  BY <1>1, Consts, StageIs
<1>5. d.pc = "idle" /\ d.ip = 0 /\ d.dp = 0
  BY <1>1
<1> HIDE DEF d
<1>3. ThreadOK(d)
  BY <1>2, <1>5 DEF ThreadOK, Alone
<1>4. Shape(d, "idle", 0, 0, a, x, b, y)
  <2>1. CASE b = 0
    BY <1>2, <1>5, <2>1 DEF Shape
  <2>2. CASE b # 0
    BY <1>2, <1>5, <2>2 DEF Shape
  <2> QED BY <2>1, <2>2
<1> QED BY <1>1, <1>3, <1>4 DEF d

\* One inode to drop.
LEMMA DoneOne ==
  ASSUME NEW s \in Slots, NEW at \in {"unlock", "drop"}, NEW d, d = Done(<<Stage(s, at)>>)
  PROVE  /\ d \in ThRec /\ ThreadOK(d) /\ Shape(d, "idle", 0, 0, s, at, 0, "none")
         /\ d.op = "none" /\ d.pc = "idle"
<1> DEFINE puts == <<Stage(s, at)>>
<1>1. Stage(s, at) \in StageRec
  BY DEF Stage, StageRec, Stages
<1>2. puts \in Seq(StageRec) /\ Len(puts) = 1 /\ puts[1] = Stage(s, at)
  BY <1>1, PutOne
<1>3. d = Done(puts)
  OBVIOUS
<1> HIDE DEF puts
<1> QED BY <1>2, <1>3, DoneShape

\* Two inodes to drop.
LEMMA DoneTwo ==
  ASSUME NEW s \in Slots, NEW at \in {"unlock", "drop"}, NEW u \in Slots, NEW au \in {"unlock", "drop"},
         NEW d, d = Done(<<Stage(s, at), Stage(u, au)>>)
  PROVE  /\ d \in ThRec /\ ThreadOK(d) /\ Shape(d, "idle", 0, 0, s, at, u, au)
         /\ d.op = "none" /\ d.pc = "idle"
<1> DEFINE puts == <<Stage(s, at), Stage(u, au)>>
<1>1. Stage(s, at) \in StageRec /\ Stage(u, au) \in StageRec
  BY DEF Stage, StageRec, Stages
<1>2. /\ puts \in Seq(StageRec) /\ Len(puts) = 2
      /\ puts[1] = Stage(s, at) /\ puts[2] = Stage(u, au)
  BY <1>1, PutTwo
<1>3. d = Done(puts) /\ u # 0
  BY Consts
<1> HIDE DEF puts
<1> QED BY <1>2, <1>3, DoneShape

\* A process that may take the lock it waits for.
LEMMA LockReady ==
  ASSUME IInv1, NEW p \in Procs, NEW where \in LockPlaces, AtLock(p, where),
         NEW s, s = th[p].ip, NEW tb, tb = Load(s)
  PROVE  /\ s \in Slots /\ s # 0 /\ itable[s].ref > 0 /\ itable[s].inum \in Inums
         /\ itable[s].lock = Nobody /\ th[p].put = <<>> /\ th[p].pc = where /\ panic = "none"
         /\ Near(itable, tb) /\ tb[s].valid /\ TableOK(tb) /\ tb \in [Slots -> SlotRec]
         /\ \A u \in Slots : tb[u].lock = itable[u].lock
         /\ \A u \in Slots : u # s => tb[u] = itable[u]
<1>1. itable[s].lock = Nobody /\ th[p].put = <<>> /\ th[p].pc = where /\ panic = "none"
  BY DEF AtLock
<1>2. where # "idle"
  BY DEF LockPlaces
<1>3. s \in Slots /\ s # 0 /\ itable[s].ref > 0 /\ itable[s].inum \in Inums
  BY <1>1, <1>2, AtIp
<1>4. /\ Like(itable, tb) /\ tb[s].valid
      /\ \A u \in Slots : u # s => tb[u] = itable[u]
  BY <1>3, LoadLike DEF IInv1
<1>5. Near(itable, tb) /\ tb \in [Slots -> SlotRec] /\ \A u \in Slots : tb[u].lock = itable[u].lock
  BY <1>4 DEF Near, Like
<1>6. TableOK(tb)
  BY <1>5, TableIs, NearTable
<1> QED BY <1>1, <1>3, <1>4, <1>5, <1>6

\* The call is over, with its inode to be dropped and no lock.
LEMMA MoveDrop ==
  ASSUME IInv1, NEW p \in Procs, th[p].put = <<>>, th[p].pc \notin HasIp \cup HasDp \cup {"idle", "cd"},
         th[p].dp = 0, TypeOK', cwd' = cwd, ofile' = ofile,
         th' = [th EXCEPT ![p] = Done(<<Stage(th[p].ip, "drop")>>)],
         Near(itable, itable'), \A u \in Slots : itable'[u].lock = itable[u].lock
  PROVE  Moves(p)
<1> DEFINE s == th[p].ip
           d == Done(<<Stage(s, "drop")>>)
<1>1. s \in Slots /\ s # 0
  BY AtIp
<1>2. d \in ThRec /\ ThreadOK(d) /\ Shape(d, "idle", 0, 0, s, "drop", 0, "none")
  BY <1>1, DoneOne
<1>3. th'[p] = d /\ Frame(p)
  BY <1>2, ThSet DEF IInv1, Frame
<1>4. Gets(0) /\ LockStep(p)
  BY NearGets DEF LockStep
<1>5. \A u \in Slots : itable'[u].lock # p
  BY Hands
<1>6. Pointer(p, "cwd") = cwd[p] /\ Pointer(p, "cwd")' = cwd[p]
  <2>1. d.pc = "idle"
    BY <1>2 DEF Shape
  <2> QED BY <1>3, <2>1 DEF Pointer
<1> HIDE DEF s, d
<1>7. Balanced(p, 0, 0, s, 0, 0)
  BY <1>1, <1>6, Consts DEF Balanced, One1, s
<1>8. HandsAfter(p, "idle", 0, 0, s, "drop", 0, "none")
  BY <1>5 DEF HandsAfter, HasIp, HasDp
<1>9. ReliesAfter(p, "idle", 0, 0, s, "drop", 0, "none")
  BY Consts DEF ReliesAfter, TrustsIp
<1> QED BY <1>2, <1>3, <1>4, <1>7, <1>8, <1>9, CallMoves

\* ip is locked and can be opened.
LEMMA MoveOpened ==
  ASSUME IInv1, NEW p \in Procs, NEW where \in {"found", "exists"}, AtLock(p, where),
         itable' = Locked(Load(th[p].ip), th[p].ip, p), th' = [th EXCEPT ![p].pc = "opened"],
         UNCHANGED <<dinode, ents, cwd, ofile, panic, calls, astray>>
  PROVE  Moves(p)
<1> DEFINE s == th[p].ip
           tb == Load(s)
           n == [th[p] EXCEPT !.pc = "opened"]
<1>1. where \in LockPlaces
  BY DEF LockPlaces
<1>2. /\ s \in Slots /\ s # 0 /\ itable[s].ref > 0 /\ itable[s].inum \in Inums
      /\ itable[s].lock = Nobody /\ th[p].put = <<>> /\ th[p].pc = where
      /\ Near(itable, tb) /\ tb[s].valid /\ TableOK(tb) /\ tb \in [Slots -> SlotRec]
      /\ \A u \in Slots : tb[u].lock = itable[u].lock
  BY <1>1, LockReady
<1>3. UNCHANGED <<dinode, ents, cwd, ofile, panic, calls, astray>>
  OBVIOUS
<1>4. th[p] \in ThRec /\ ThreadOK(th[p])
  BY DEF IInv1, TypeOK, PlaceOK
<1>5. th[p].dp = 0
  BY <1>2, <1>4 DEF ThreadOK
<1>6. itable' = Locked(tb, s, p) /\ th' = [th EXCEPT ![p] = n]
  OBVIOUS
<1> HIDE DEF tb, s
<1>7. n \in ThRec /\ n.pc = "opened" /\ n.ip = s /\ n.dp = 0 /\ n.put = <<>>
  BY <1>2, <1>4, <1>5 DEF ThRec, Places, s
<1> HIDE DEF n
<1>8. ThreadOK(n)
  BY <1>2, <1>7, NoLen DEF ThreadOK, Alone
<1>9. Shape(n, "opened", s, 0, 0, "none", 0, "none")
  BY <1>7, NoLen DEF Shape
<1>10. th'[p] = n /\ th' \in [Procs -> ThRec] /\ Frame(p)
  BY <1>3, <1>6, <1>7, ThSet DEF IInv1, Frame
<1>11. /\ Near(tb, itable') /\ itable'[s].lock = p /\ itable'[s].valid = tb[s].valid
       /\ \A u \in Slots : u # s => itable'[u] = tb[u]
  <2>1. s \in Slots /\ tb \in [Slots -> SlotRec] /\ p \in Procs \cup {Nobody}
    BY <1>2
  <2> QED BY <1>6, <2>1, LockedIs
<1>12. Near(itable, itable')
  BY <1>2, <1>11, NearTrans
<1>13. TypeOK'
  BY <1>3, <1>10, <1>12 DEF IInv1, TypeOK, Near
<1>14. Gets(0) /\ LockStep(p)
  BY <1>2, <1>11, <1>12, NearGets DEF LockStep
<1>15. Pointer(p, "cwd") = cwd[p] /\ Pointer(p, "cwd")' = cwd[p]
  BY <1>2, <1>3, <1>7, <1>10 DEF Pointer
<1>16. Balanced(p, s, 0, 0, 0, 0)
  BY <1>3, <1>5, <1>15, Consts DEF Balanced, One1, s
<1>17. \A u \in Slots : itable[u].lock # p
  BY <1>2, Hands DEF HasIp, HasDp
<1>18. HandsAfter(p, "opened", s, 0, 0, "none", 0, "none")
  BY <1>2, <1>11, <1>17 DEF HandsAfter, HasIp, HasDp
<1>19. ReliesAfter(p, "opened", s, 0, 0, "none", 0, "none")
  BY <1>2, <1>11, Consts DEF ReliesAfter
<1> QED BY <1>2, <1>8, <1>9, <1>10, <1>13, <1>14, <1>16, <1>18, <1>19, CallMoves

\* ip has been looked at, and is let go.
LEMMA MoveEnd ==
  ASSUME IInv1, NEW p \in Procs, NEW where \in LockPlaces \ HasDp, AtLock(p, where), th[p].dp = 0,
         itable' = Load(th[p].ip), th' = [th EXCEPT ![p] = Done(<<Stage(th[p].ip, "drop")>>)],
         UNCHANGED <<dinode, ents, cwd, ofile, panic, calls>>, astray' \in BOOLEAN
  PROVE  Moves(p)
<1> DEFINE s == th[p].ip
<1>1. /\ s \in Slots /\ th[p].put = <<>> /\ th[p].pc = where
      /\ Near(itable, Load(s)) /\ Load(s) \in [Slots -> SlotRec]
      /\ \A u \in Slots : Load(s)[u].lock = itable[u].lock
  BY LockReady
<1>2. th' \in [Procs -> ThRec]
  BY <1>1, DoneOne, ThSet DEF IInv1
<1>3. TypeOK'
  BY <1>1, <1>2 DEF IInv1, TypeOK
<1>4. th[p].pc \notin HasIp \cup HasDp \cup {"idle", "cd"}
  BY <1>1 DEF HasIp, HasDp, LockPlaces
<1> QED BY <1>1, <1>3, <1>4, MoveDrop

\* open() locks the inode it has found.
LEMMA OpenFoundMoves ==
  ASSUME IInv1, NEW p \in Procs, OpenFound(p)
  PROVE  Moves(p)
<1>1. /\ AtLock(p, "found") /\ "found" \in LockPlaces \ HasDp /\ th[p].pc = "found"
      /\ UNCHANGED <<dinode, ents, cwd, ofile, panic, calls, astray>>
  BY DEF OpenFound, LockPlaces, HasDp, AtLock
<1>2. th[p].dp = 0
  BY <1>1 DEF IInv1, PlaceOK, ThreadOK
<1>3. CASE itable' = Locked(Load(th[p].ip), th[p].ip, p) /\ th' = [th EXCEPT ![p].pc = "opened"]
  BY <1>1, <1>3, MoveOpened
<1>4. CASE itable' = Load(th[p].ip) /\ th' = [th EXCEPT ![p] = Done(<<Stage(th[p].ip, "drop")>>)]
  BY <1>1, <1>2, <1>4, MoveEnd DEF IInv1, TypeOK
<1> QED BY <1>3, <1>4 DEF OpenFound

\* create() locks the inode that has the name already.
LEMMA CreateExistsMoves ==
  ASSUME IInv1, NEW p \in Procs, CreateExists(p)
  PROVE  Moves(p)
<1>1. /\ AtLock(p, "exists") /\ "exists" \in LockPlaces \ HasDp /\ th[p].pc = "exists"
      /\ UNCHANGED <<dinode, ents, cwd, ofile, panic, calls, astray>>
  BY DEF CreateExists, LockPlaces, HasDp, AtLock
<1>2. th[p].dp = 0
  BY <1>1 DEF IInv1, PlaceOK, ThreadOK
<1>3. CASE itable' = Locked(Load(th[p].ip), th[p].ip, p) /\ th' = [th EXCEPT ![p].pc = "opened"]
  BY <1>1, <1>3, MoveOpened
<1>4. CASE itable' = Load(th[p].ip) /\ th' = [th EXCEPT ![p] = Done(<<Stage(th[p].ip, "drop")>>)]
  BY <1>1, <1>2, <1>4, MoveEnd DEF IInv1, TypeOK
<1> QED BY <1>3, <1>4 DEF CreateExists

\* The second walk of link() has failed: the first inode is next.
LEMMA FailedIs ==
  ASSUME NEW t \in ThRec, t.op = "link2", t.dp # 0,
         NEW puts \in Seq(StageRec), NEW a \in Slots, NEW x, Len(puts) >= 1, puts[1] = Stage(a, x),
         NEW b, NEW y \in {"unlock", "drop", "none"},
         IF b = 0 THEN Len(puts) = 1 ELSE Len(puts) = 2 /\ puts[2] = Stage(b, y) /\ y # "none"
  PROVE  /\ Failed(t, puts) \in ThRec /\ ThreadOK(Failed(t, puts))
         /\ Shape(Failed(t, puts), "bad", t.dp, 0, a, x, b, y)
<1> DEFINE d == Failed(t, puts)
<1>1. d = [t EXCEPT !.pc = "bad", !.rest = <<>>, !.ip = t.dp, !.dp = 0, !.put = puts]
  BY DEF Failed
<1>2. <<>> \in Seq(EntryNames) /\ 0 \in 0 .. NInodes
  BY Consts
<1>3. d.pc = "bad" /\ d.ip = t.dp /\ d.dp = 0 /\ d.put = puts /\ d.op = "link2"
  BY <1>1 DEF ThRec
<1>4. d \in ThRec
  BY <1>1, <1>2 DEF ThRec, Places
<1>5. /\ a # 0 /\ Len(d.put) >= 1 /\ d.put[1] = Stage(a, x)
      /\ b = 0 => Len(d.put) = 1
      /\ b # 0 => Len(d.put) = 2 /\ d.put[2] = Stage(b, y) /\ d.put[2].at \in {"unlock", "drop"}
  BY <1>3, Consts, StageIs
<1> HIDE DEF d
<1>6. ThreadOK(d)
  BY <1>3, <1>5 DEF ThreadOK, Alone
<1>7. Shape(d, "bad", t.dp, 0, a, x, b, y)
  <2>1. CASE b = 0
    BY <1>3, <1>5, <2>1 DEF Shape
  <2>2. CASE b # 0
    <3>1. Len(d.put) >= 2 /\ d.put[2] = Stage(b, y)
      BY <1>5, <2>2
    <3> QED BY <1>3, <1>5, <2>2, <3>1 DEF Shape
  <2> QED BY <2>1, <2>2
<1> QED BY <1>4, <1>6, <1>7 DEF d

\* The walk ends here: what is at ip is let go, and link() goes on at bad.
LEMMA MoveFail ==
  ASSUME IInv1, NEW p \in Procs, NEW where \in {"namex", "parent"}, AtLock(p, where),
         itable' = Load(th[p].ip), th' = [th EXCEPT ![p] = Failed(th[p], <<Stage(th[p].ip, "drop")>>)],
         UNCHANGED <<dinode, ents, cwd, ofile, panic, calls>>, astray' \in BOOLEAN
  PROVE  Moves(p)
<1> DEFINE s == th[p].ip
           puts == <<Stage(s, "drop")>>
<1>0. where \in LockPlaces \ HasDp
  BY DEF LockPlaces, HasDp
<1>1. /\ s \in Slots /\ th[p].put = <<>> /\ th[p].pc = where
      /\ Near(itable, Load(s)) /\ Load(s) \in [Slots -> SlotRec]
      /\ \A u \in Slots : Load(s)[u].lock = itable[u].lock
  BY <1>0, LockReady
<1>2. th[p] \in ThRec /\ ThreadOK(th[p])
  BY DEF IInv1, TypeOK, PlaceOK
<1>3. CASE th[p].op # "link2"
  <2>1. th[p].dp = 0
    BY <1>1, <1>2, <1>3 DEF ThreadOK
  <2>2. th' = [th EXCEPT ![p] = Done(<<Stage(th[p].ip, "drop")>>)]
    BY <1>3 DEF Failed
  <2> QED BY <1>0, <2>1, <2>2, MoveEnd
<1>4. CASE th[p].op = "link2"
  <2> DEFINE n == Failed(th[p], puts)
             d == th[p].dp
  <2>1. d # 0
    BY <1>1, <1>2, <1>4 DEF ThreadOK
  <2>2. d \in Slots /\ itable[d].valid
    BY <2>1, AtDp
  <2>3. Stage(s, "drop") \in StageRec
    BY <1>1 DEF Stage, StageRec, Stages
  <2>4. puts \in Seq(StageRec) /\ Len(puts) = 1 /\ puts[1] = Stage(s, "drop")
    BY <2>3, PutOne
  <2>5. th' = [th EXCEPT ![p] = n]
    OBVIOUS
  <2> HIDE DEF puts
  <2>6. n \in ThRec /\ ThreadOK(n) /\ Shape(n, "bad", d, 0, s, "drop", 0, "none")
    BY <1>1, <1>2, <1>4, <2>1, <2>4, FailedIs
  <2> HIDE DEF n
  <2>7. th'[p] = n /\ th' \in [Procs -> ThRec] /\ Frame(p)
    BY <2>5, <2>6, ThSet DEF IInv1, Frame
  <2>8. TypeOK'
    BY <1>1, <2>7 DEF IInv1, TypeOK
  <2>9. Gets(0) /\ LockStep(p)
    BY <1>1, NearGets DEF LockStep
  <2>10. Pointer(p, "cwd") = cwd[p] /\ Pointer(p, "cwd")' = cwd[p]
    <3>1. n.pc = "bad"
      BY <2>6 DEF Shape
    <3> QED BY <1>1, <2>7, <3>1 DEF Pointer
  <2>11. \A u \in Slots : itable'[u].lock # p
    BY <1>1, Bare, BareHands
  <2>12. Balanced(p, d, 0, s, 0, 0)
    BY <2>10, Consts DEF Balanced, One1
  <2>13. HandsAfter(p, "bad", d, 0, s, "drop", 0, "none")
    BY <2>11 DEF HandsAfter, HasIp, HasDp
  <2>14. ReliesAfter(p, "bad", d, 0, s, "drop", 0, "none")
    BY <1>1, <2>2, Consts DEF ReliesAfter, Near
  <2> QED BY <1>1, <2>6, <2>7, <2>8, <2>9, <2>12, <2>13, <2>14, CallMoves
<1> QED BY <1>3, <1>4

\* What a directory has for a name, and the slot iget() gives it.
LEMMA LookupIn ==
  ASSUME TypeOK, NEW d \in Inums, NEW n \in EntryNames
  PROVE  dirlookup(d, n) \in Inums \cup {0}
BY Consts DEF TypeOK, dirlookup, Inums

\* dirlookup() takes a reference to the inode that the entry names.
LEMMA LookupGets ==
  ASSUME IInv1, NEW tb, TableOK(tb), NEW d \in Inums, NEW n \in EntryNames, dirlookup(d, n) # 0,
         NEW k, k = IgetSlot(tb, dirlookup(d, n))
  PROVE  /\ Takes(tb, iget(tb, dirlookup(d, n)), k) /\ dirlookup(d, n) \in Inums
         /\ iget(tb, dirlookup(d, n))[k].inum = dirlookup(d, n)
<1>1. dirlookup(d, n) \in Inums
  BY Consts DEF IInv1, TypeOK, dirlookup, Inums
<1> QED BY <1>1, IgetTakes

\* namex() goes down one name: it locks the directory, looks the name up and
\* lets the directory go.
LEMMA namexMoves ==
  ASSUME IInv1, NEW p \in Procs, namex(p)
  PROVE  Moves(p)
<1> DEFINE t == th[p]
           s == t.ip
           tb == Load(s)
           elem == skipelem(t.rest)
           next == dirlookup(itable[s].inum, elem.name)
           last == elem.rest = <<>>
<1>1. /\ AtLock(p, "namex") /\ "namex" \in LockPlaces
      /\ UNCHANGED <<dinode, ents, cwd, ofile, panic, calls>>
  BY DEF namex, LockPlaces
<1>2. /\ s \in Slots /\ s # 0 /\ itable[s].ref > 0 /\ itable[s].inum \in Inums
      /\ itable[s].lock = Nobody /\ th[p].put = <<>> /\ th[p].pc = "namex"
      /\ Near(itable, tb) /\ tb[s].valid /\ TableOK(tb) /\ tb \in [Slots -> SlotRec]
      /\ \A u \in Slots : tb[u].lock = itable[u].lock
  BY <1>1, LockReady
<1>3. t \in ThRec /\ ThreadOK(t)
  BY DEF IInv1, TypeOK, PlaceOK
<1>4. t.rest \in Seq(EntryNames) /\ t.rest # <<>> /\ t.op # "none" /\ t.op \in Ops \cup {"none", "link2"}
  BY <1>2, <1>3 DEF ThreadOK, ThRec
<1>5. elem.name \in EntryNames /\ elem.rest \in Seq(EntryNames)
  BY <1>4 DEF skipelem
<1>6. astray' \in BOOLEAN
  BY DEF namex, Look, IInv1, TypeOK
<1>7. CASE itable' = tb /\ th' = [th EXCEPT ![p] = Failed(t, <<Stage(s, "drop")>>)]
  BY <1>1, <1>6, <1>7, MoveFail
<1>8. CASE /\ last /\ WantsParent(t.op) /\ itable' = tb
           /\ th' = [th EXCEPT ![p].pc = "parent", ![p].name = elem.name, ![p].rest = <<>>]
  <2> DEFINE n == [t EXCEPT !.pc = "parent", !.name = elem.name, !.rest = <<>>]
  <2>1. th' = [th EXCEPT ![p] = n]
    BY <1>8 DEF IInv1, TypeOK
  <2>2. <<>> \in Seq(EntryNames)
    OBVIOUS
  <2> HIDE DEF elem, s, tb
  <2>3. /\ n \in ThRec /\ n.pc = "parent" /\ n.ip = t.ip /\ n.dp = t.dp /\ n.put = t.put
        /\ n.op = t.op /\ n.name = elem.name
    BY <1>3, <1>5, <2>2 DEF ThRec, Places
  <2> HIDE DEF n
  <2>4. ThreadOK(n)
    BY <1>2, <1>3, <1>5, <1>8, <2>3, NoLen DEF ThreadOK, Alone, s
  <2>5. Shape(n, "parent", s, t.dp, 0, "none", 0, "none")
    BY <1>2, <2>3, NoLen DEF Shape, s
  <2>6. th'[p] = n /\ th' \in [Procs -> ThRec] /\ Frame(p)
    BY <1>1, <2>1, <2>3, ThSet DEF IInv1, Frame
  <2>7. TypeOK'
    BY <1>1, <1>2, <1>6, <1>8, <2>6 DEF IInv1, TypeOK
  <2>8. Gets(0) /\ LockStep(p)
    BY <1>2, <1>8, NearGets DEF LockStep
  <2>9. Pointer(p, "cwd") = cwd[p] /\ Pointer(p, "cwd")' = cwd[p]
    BY <1>1, <1>2, <2>3, <2>6 DEF Pointer
  <2>10. \A u \in Slots : itable'[u].lock # p
    BY <1>2, <1>8, Bare, BareHands
  <2>11. Balanced(p, s, t.dp, 0, 0, 0)
    BY <1>1, <2>9, Consts DEF Balanced, One1, s
  <2>12. HandsAfter(p, "parent", s, t.dp, 0, "none", 0, "none")
    BY <2>10 DEF HandsAfter, HasIp, HasDp
  <2>13. t.dp # 0 => itable[t.dp].valid /\ t.dp \in Slots
    BY AtDp
  <2>14. ReliesAfter(p, "parent", s, t.dp, 0, "none", 0, "none")
    BY <1>2, <1>8, <2>13, Consts DEF ReliesAfter, Near
  <2> QED BY <1>2, <2>4, <2>5, <2>6, <2>7, <2>8, <2>11, <2>12, <2>14, CallMoves
<1>9. CASE /\ ~(last /\ WantsParent(t.op)) /\ next # 0
           /\ itable' = iget(tb, next)
           /\ th' = [th EXCEPT ![p].pc = IF last THEN "found" ELSE "namex",
                               ![p].rest = elem.rest,
                               ![p].ip = IgetSlot(tb, next),
                               ![p].put = NextPut(s)]
  <2> DEFINE k == IgetSlot(tb, next)
             at == IF last THEN "found" ELSE "namex"
             puts == <<Stage(s, "drop")>>
             n == [t EXCEPT !.pc = at, !.rest = elem.rest, !.ip = k, !.put = puts]
  <2>0. next # 0 /\ itable' = iget(tb, next) /\ k = IgetSlot(tb, next)
    BY <1>9
  <2>1. Takes(tb, itable', k) /\ k \in Slots
    <3>1. TableOK(tb) /\ itable[s].inum \in Inums /\ elem.name \in EntryNames
      BY <1>2, <1>5
    <3> HIDE DEF s, tb, elem, k
    <3>2. Takes(tb, itable', k)
      BY <2>0, <3>1, LookupGets
    <3> QED BY <3>2 DEF Takes
  <2>2. th' = [th EXCEPT ![p] = n]
    BY <1>9 DEF IInv1, TypeOK, NextPut
  <2>3. Stage(s, "drop") \in StageRec
    BY <1>2 DEF Stage, StageRec, Stages
  <2>4. puts \in Seq(StageRec) /\ Len(puts) = 1 /\ puts[1] = Stage(s, "drop")
    BY <2>3, PutOne
  <2>5. /\ at \in {"found", "namex"} /\ (at = "found" <=> last) /\ (at = "found" => ~WantsParent(t.op))
        /\ k \in 0 .. NInodes
    BY <1>9, <2>1, Consts
  <2> HIDE DEF elem, s, tb, k, at, puts
  <2>6. /\ n \in ThRec /\ n.pc = at /\ n.ip = k /\ n.dp = t.dp /\ n.put = puts
        /\ n.op = t.op /\ n.rest = elem.rest
    BY <1>3, <1>5, <2>4, <2>5 DEF ThRec, Places
  <2> HIDE DEF n
  <2>7. at = "found" => t.op \in {"open", "link", "chdir"} /\ t.dp = 0
    BY <1>2, <1>3, <1>4, <2>5 DEF WantsParent, Ops, ThreadOK
  <2>8. k # 0 /\ s # 0
    BY <1>2, <2>1, Consts
  <2>9. Len(n.put) = 1 /\ n.put[1] = Stage(s, "drop") /\ n.ip # 0 /\ n.op # "none"
    BY <1>4, <2>4, <2>6, <2>8
  <2>23. n.dp # 0 <=> n.op = "link2"
    BY <1>2, <1>3, <2>6 DEF ThreadOK
  <2>24. n.pc = "found" => n.op \in {"open", "link", "chdir"} /\ n.dp = 0
    BY <2>6, <2>7
  <2>25. n.pc \in {"found", "namex"} /\ (n.pc = "namex" => n.rest # <<>>)
    BY <2>5, <2>6
  <2>26. ThreadOK(n)
    BY <2>9, <2>23, <2>24, <2>25 DEF ThreadOK, Alone
  <2>10. Shape(n, at, k, t.dp, s, "drop", 0, "none")
    BY <2>6, <2>8, <2>9 DEF Shape
  <2>11. th'[p] = n /\ th' \in [Procs -> ThRec] /\ Frame(p)
    BY <1>1, <2>2, <2>6, ThSet DEF IInv1, Frame
  <2>12. TypeOK'
    BY <1>1, <1>6, <2>1, <2>11 DEF IInv1, TypeOK, Takes
  <2>13. Near(itable', itable')
    BY <2>1 DEF Near, Takes
  <2>14. Gets(k)
    BY <1>2, <2>1, <2>13, TakesGets
  <2>15. \A u \in Slots : itable'[u].lock = itable[u].lock
    BY <1>2, <2>1 DEF Takes
  <2>16. LockStep(p)
    BY <2>15 DEF LockStep
  <2>17. Pointer(p, "cwd") = cwd[p] /\ Pointer(p, "cwd")' = cwd[p]
    BY <1>1, <1>2, <2>5, <2>6, <2>11 DEF Pointer
  <2>18. \A u \in Slots : itable'[u].lock # p
    BY <1>2, <2>15, Bare, BareHands
  <2>19. Balanced(p, k, t.dp, s, 0, k)
    BY <1>1, <2>17, Consts DEF Balanced, One1, s
  <2>20. HandsAfter(p, at, k, t.dp, s, "drop", 0, "none")
    BY <2>5, <2>18 DEF HandsAfter, HasIp, HasDp
  <2>21. t.dp # 0 => itable[t.dp].valid /\ t.dp \in Slots /\ itable[t.dp].ref > 0
    BY AtDp
  <2>27. at \notin TrustsIp /\ 0 \notin Slots
    BY <2>5, Consts DEF TrustsIp
  <2>28. t.dp # 0 => itable'[t.dp].valid
    BY <2>14, <2>21 DEF Gets
  <2>22. ReliesAfter(p, at, k, t.dp, s, "drop", 0, "none")
    BY <2>27, <2>28 DEF ReliesAfter
  <2> QED BY <1>2, <2>26, <2>10, <2>11, <2>12, <2>14, <2>16, <2>19, <2>20, <2>22, CallMoves
<1> QED BY <1>7, <1>8, <1>9 DEF namex

\* A process outside system calls has no pointer in its variables.
LEMMA IdleIs ==
  /\ IdleThread \in ThRec /\ ThreadOK(IdleThread) /\ IdleThread.pc = "idle"
  /\ Shape(IdleThread, "idle", 0, 0, 0, "none", 0, "none")
  /\ IdleThread.put = <<>> /\ IdleThread.ip = 0 /\ IdleThread.dp = 0
<1>1. <<>> \in Seq(EntryNames) /\ 0 \in 0 .. NInodes
  BY Consts
<1>2. <<>> \in Seq(StageRec)
  BY PutNone
<1>3. IdleThread \in ThRec
  BY <1>1, <1>2 DEF IdleThread, ThRec, Places
<1>4. IdleThread.pc = "idle" /\ IdleThread.put = <<>> /\ IdleThread.ip = 0 /\ IdleThread.dp = 0
  BY DEF IdleThread
<1>5. ThreadOK(IdleThread)
  BY <1>4, NoLen DEF ThreadOK, Alone
<1>6. Shape(IdleThread, "idle", 0, 0, 0, "none", 0, "none")
  BY <1>4, NoLen DEF Shape
<1> QED BY <1>3, <1>4, <1>5, <1>6

\* iupdate() writes one inode.
LEMMA IupdateIs ==
  ASSUME TypeOK, NEW t \in [Slots -> SlotRec], NEW s \in Slots, t[s].inum \in Inums
  PROVE  /\ iupdate(t, s) \in [Inums -> DiskRec]
         /\ iupdate(t, s)[t[s].inum].type = t[s].type
         /\ iupdate(t, s)[t[s].inum].nlink = t[s].nlink
         /\ \A i \in Inums : i # t[s].inum => iupdate(t, s)[i] = dinode[i]
<1> DEFINE r == [type |-> t[s].type, nlink |-> t[s].nlink]
<1>1. t[s] \in SlotRec /\ dinode \in [Inums -> DiskRec]
  BY DEF TypeOK
<1>2. t[s].type \in Types /\ t[s].nlink \in Int
  BY <1>1 DEF SlotRec
<1>3. r \in DiskRec /\ r.type = t[s].type /\ r.nlink = t[s].nlink
  BY <1>2 DEF DiskRec
<1>4. iupdate(t, s) = [dinode EXCEPT ![t[s].inum] = r]
  BY DEF iupdate
<1> HIDE DEF r
<1> QED BY <1>1, <1>3, <1>4

\* What a thread relies on at ip.
LEMMA TrustIp ==
  ASSUME IInv1, NEW p \in Procs, th[p].pc \in TrustsIp
  PROVE  itable[th[p].ip].valid
<1>1. Firm(th[p], "ip") /\ Pointer(p, "ip") = th[p].ip /\ "ip" \in Pointers
  BY DEF Firm, Pointer, Pointers, TrustsIp
<1> QED BY <1>1 DEF IInv1, FirmOK

\* open() keeps its reference in the file.
LEMMA OpenFileMoves ==
  ASSUME IInv1, NEW p \in Procs, OpenFile(p)
  PROVE  Moves(p)
<1> DEFINE s == th[p].ip
<1>1. /\ th[p].pc = "opened" /\ th[p].put = <<>> /\ ofile[p] = 0 /\ ofile' = [ofile EXCEPT ![p] = s]
      /\ itable' = Locked(itable, s, Nobody) /\ th' = [th EXCEPT ![p] = IdleThread]
      /\ UNCHANGED <<dinode, ents, cwd, panic, calls, astray>>
  BY DEF OpenFile
<1>2. s \in Slots /\ s # 0
  BY <1>1, AtIp
<1>3. th[p].dp = 0
  BY <1>1 DEF IInv1, PlaceOK, ThreadOK
<1> HIDE DEF s
<1>4. th'[p] = IdleThread /\ th' \in [Procs -> ThRec] /\ \A q \in Procs \ {p} : th'[q] = th[q]
  BY <1>1, IdleIs, ThSet DEF IInv1
<1>5. /\ ofile' \in [Procs -> 0 .. NInodes] /\ ofile'[p] = s
      /\ \A q \in Procs \ {p} : ofile'[q] = ofile[q]
  BY <1>1, <1>2, Consts DEF IInv1, TypeOK
<1>6. Frame(p)
  BY <1>1, <1>4, <1>5 DEF Frame
<1>7. itable \in [Slots -> SlotRec] /\ Nobody \in Procs \cup {Nobody}
  BY DEF IInv1, TypeOK
<1>8. /\ Near(itable, itable') /\ itable'[s].lock = Nobody
      /\ \A u \in Slots : u # s => itable'[u] = itable[u]
  BY <1>1, <1>2, <1>7, LockedIs
<1>9. TypeOK'
  BY <1>1, <1>4, <1>5, <1>8 DEF IInv1, TypeOK, Near
<1>10. \A u \in Slots : itable[u].lock = p <=> u = s
  BY <1>1, Hands DEF HasIp, HasDp, s
<1>11. Gets(0) /\ LockStep(p)
  BY <1>2, <1>8, <1>10, NearGets DEF LockStep
<1>12. Pointer(p, "cwd") = cwd[p] /\ Pointer(p, "cwd")' = cwd[p]
  BY <1>1, <1>4, IdleIs DEF Pointer
<1>13. Balanced(p, 0, 0, 0, 0, 0)
  BY <1>1, <1>3, <1>5, <1>12, Consts DEF Balanced, One1, s
<1>14. \A u \in Slots : itable'[u].lock # p
  BY <1>8, <1>10, Consts
<1>15. HandsAfter(p, "idle", 0, 0, 0, "none", 0, "none")
  BY <1>14 DEF HandsAfter, HasIp, HasDp
<1>16. ReliesAfter(p, "idle", 0, 0, 0, "none", 0, "none")
  BY Consts DEF ReliesAfter
<1> QED BY <1>1, <1>4, <1>6, <1>9, <1>11, <1>13, <1>15, <1>16, IdleIs, CallMoves

\* ip, which p has locked, is to be unlocked and dropped.
LEMMA MoveUnlock ==
  ASSUME IInv1, NEW p \in Procs, th[p].pc \in HasIp, th[p].put = <<>>,
         TypeOK', Near(itable, itable'), \A u \in Slots : itable'[u].lock = itable[u].lock,
         th' = [th EXCEPT ![p] = Done(<<Stage(th[p].ip, "unlock")>>)], cwd' = cwd, ofile' = ofile
  PROVE  Moves(p)
<1> DEFINE s == th[p].ip
           d == Done(<<Stage(s, "unlock")>>)
<1>1. th[p].pc # "idle" /\ th[p].pc # "cd" /\ th[p].pc \in TrustsIp
  BY DEF HasIp, TrustsIp
<1>2. s \in Slots /\ s # 0 /\ itable[s].valid
  BY <1>1, AtIp, TrustIp
<1>3. th[p].dp = 0
  BY DEF IInv1, PlaceOK, ThreadOK, HasIp
<1>4. d \in ThRec /\ ThreadOK(d) /\ d.pc = "idle" /\ Shape(d, "idle", 0, 0, s, "unlock", 0, "none")
  BY <1>2, DoneOne
<1> HIDE DEF d
<1>5. th'[p] = d /\ Frame(p)
  BY <1>4, ThSet DEF IInv1, Frame, d
<1> HIDE DEF s
<1>6. Gets(0) /\ LockStep(p)
  BY NearGets DEF LockStep
<1>7. \A u \in Slots : itable[u].lock = p <=> u = s
  BY Hands DEF HasIp, HasDp, s
<1>8. Pointer(p, "cwd") = cwd[p] /\ Pointer(p, "cwd")' = cwd[p]
  BY <1>1, <1>4, <1>5 DEF Pointer
<1>9. Balanced(p, 0, 0, s, 0, 0)
  BY <1>3, <1>8, Consts DEF Balanced, One1, s
<1>10. HandsAfter(p, "idle", 0, 0, s, "unlock", 0, "none")
  BY <1>2, <1>7 DEF HandsAfter, HasIp, HasDp
<1>11. itable'[s].valid
  BY <1>2 DEF Near
<1>12. ReliesAfter(p, "idle", 0, 0, s, "unlock", 0, "none")
  BY <1>1, <1>11, Consts DEF ReliesAfter, TrustsIp, s
<1> QED BY <1>4, <1>5, <1>6, <1>9, <1>10, <1>12, CallMoves

\* open() of a directory for writing lets the inode go.
LEMMA OpenFailMoves ==
  ASSUME IInv1, NEW p \in Procs, OpenFail(p)
  PROVE  Moves(p)
<1>1. /\ th[p].pc = "opened" /\ th[p].put = <<>>
      /\ th' = [th EXCEPT ![p] = Done(<<Stage(th[p].ip, "unlock")>>)]
      /\ UNCHANGED <<itable, dinode, ents, cwd, ofile, panic, calls, astray>>
  BY DEF OpenFail
<1>2. th[p].ip \in Slots
  BY <1>1, AtIp
<1>3. th' \in [Procs -> ThRec]
  BY <1>1, <1>2, DoneOne, ThSet DEF IInv1
<1>4. TypeOK'
  BY <1>1, <1>3 DEF IInv1, TypeOK
<1>5. Near(itable, itable')
  BY <1>1 DEF IInv1, TypeOK, Near
<1>6. th[p].pc \in HasIp
  BY <1>1 DEF HasIp
<1> QED BY <1>1, <1>4, <1>5, <1>6, MoveUnlock

\* unlink() lets the inode go whose count it has lowered.
LEMMA UnlinkDropMoves ==
  ASSUME IInv1, NEW p \in Procs, UnlinkDrop(p)
  PROVE  Moves(p)
<1> DEFINE s == th[p].ip
           t1 == SetNlink(itable, s, itable[s].nlink - 1)
<1>1. /\ th[p].pc = "unlinked" /\ th[p].put = <<>> /\ itable' = t1 /\ dinode' = iupdate(t1, s)
      /\ th' = [th EXCEPT ![p] = Done(<<Stage(s, "unlock")>>)]
      /\ UNCHANGED <<ents, cwd, ofile, panic, calls, astray>>
  BY DEF UnlinkDrop
<1>2. s \in Slots /\ itable[s].inum \in Inums
  BY <1>1, AtIp
<1>3. itable \in [Slots -> SlotRec] /\ itable[s].nlink - 1 \in Int
  BY <1>2 DEF IInv1, TypeOK, SlotRec
<1>4. /\ Near(itable, t1) /\ t1[s].lock = itable[s].lock
      /\ \A u \in Slots : u # s => t1[u] = itable[u]
  BY <1>2, <1>3, NlinkIs
<1>5. t1 \in [Slots -> SlotRec] /\ t1[s].inum \in Inums
  BY <1>2, <1>4 DEF Near
<1>6. dinode' \in [Inums -> DiskRec]
  BY <1>1, <1>2, <1>5, IupdateIs DEF IInv1
<1>7. th' \in [Procs -> ThRec]
  BY <1>1, <1>2, DoneOne, ThSet DEF IInv1
<1> HIDE DEF t1, s
<1>8. TypeOK'
  BY <1>1, <1>5, <1>6, <1>7 DEF IInv1, TypeOK
<1>9. \A u \in Slots : itable'[u].lock = itable[u].lock
  BY <1>1, <1>2, <1>4
<1>10. th[p].pc \in HasIp
  BY <1>1 DEF HasIp
<1> QED BY <1>1, <1>4, <1>8, <1>9, <1>10, MoveUnlock DEF s

\* close() lets the inode of the file go.
LEMMA CloseMoves ==
  ASSUME IInv1, NEW p \in Procs, Close(p)
  PROVE  Moves(p)
<1> DEFINE s == ofile[p]
           d == Done(<<Stage(s, "drop")>>)
<1>1. /\ th[p] = IdleThread /\ s # 0 /\ ofile' = [ofile EXCEPT ![p] = 0]
      /\ th' = [th EXCEPT ![p] = d]
      /\ UNCHANGED <<itable, dinode, ents, cwd, panic, calls, astray>>
  BY DEF Close
<1>2. s \in Slots
  BY <1>1, Consts DEF IInv1, TypeOK, Slots, Inums
<1>3. /\ th[p].put = <<>> /\ th[p].pc = "idle" /\ th[p].ip = 0 /\ th[p].dp = 0
  BY <1>1, IdleIs
<1>4. d \in ThRec /\ ThreadOK(d) /\ d.pc = "idle" /\ Shape(d, "idle", 0, 0, s, "drop", 0, "none")
  BY <1>2, DoneOne
<1> HIDE DEF d, s
<1>5. th'[p] = d /\ th' \in [Procs -> ThRec] /\ \A q \in Procs \ {p} : th'[q] = th[q]
  BY <1>1, <1>4, ThSet DEF IInv1
<1>6. /\ ofile' \in [Procs -> 0 .. NInodes] /\ ofile'[p] = 0
      /\ \A q \in Procs \ {p} : ofile'[q] = ofile[q]
  BY <1>1, Consts DEF IInv1, TypeOK
<1>7. Frame(p)
  BY <1>1, <1>5, <1>6 DEF Frame
<1>8. TypeOK' /\ Near(itable, itable')
  BY <1>1, <1>5, <1>6 DEF IInv1, TypeOK, Near
<1>9. Gets(0) /\ LockStep(p)
  BY <1>1, <1>8, NearGets DEF LockStep
<1>10. Pointer(p, "cwd") = cwd[p] /\ Pointer(p, "cwd")' = cwd[p]
  BY <1>1, <1>3, <1>4, <1>5 DEF Pointer
<1>11. Balanced(p, 0, 0, s, 0, 0)
  BY <1>3, <1>6, <1>10, Consts DEF Balanced, One1, s
<1>12. \A u \in Slots : itable'[u].lock # p
  BY <1>1, <1>3, Bare, BareHands
<1>13. HandsAfter(p, "idle", 0, 0, s, "drop", 0, "none")
  BY <1>12 DEF HandsAfter, HasIp, HasDp
<1>14. ReliesAfter(p, "idle", 0, 0, s, "drop", 0, "none")
  BY Consts DEF ReliesAfter, TrustsIp
<1> QED BY <1>3, <1>4, <1>5, <1>7, <1>8, <1>9, <1>11, <1>13, <1>14, CallMoves

\* chdir() exchanges the current directory, and lets the old one go.
LEMMA ChdirSetMoves ==
  ASSUME IInv1, NEW p \in Procs, ChdirSet(p)
  PROVE  Moves(p)
<1> DEFINE s == th[p].ip
<1>1. /\ th[p].pc = "cd" /\ th[p].put = <<>> /\ cwd' = [cwd EXCEPT ![p] = s]
      /\ th' = [th EXCEPT ![p] = IdleThread]
      /\ UNCHANGED <<itable, dinode, ents, ofile, panic, calls, astray>>
  BY DEF ChdirSet
<1>2. s \in Slots
  BY <1>1, AtIp
<1>3. th[p].dp = 0
  BY <1>1 DEF IInv1, PlaceOK, ThreadOK
<1> HIDE DEF s
<1>4. th'[p] = IdleThread /\ th' \in [Procs -> ThRec] /\ \A q \in Procs \ {p} : th'[q] = th[q]
  BY <1>1, IdleIs, ThSet DEF IInv1
<1>5. cwd' \in [Procs -> Slots] /\ cwd'[p] = s /\ \A q \in Procs \ {p} : cwd'[q] = cwd[q]
  BY <1>1, <1>2 DEF IInv1, TypeOK
<1>6. Frame(p)
  BY <1>1, <1>4, <1>5 DEF Frame
<1>7. TypeOK' /\ Near(itable, itable')
  BY <1>1, <1>4, <1>5 DEF IInv1, TypeOK, Near
<1>8. Gets(0) /\ LockStep(p)
  BY <1>1, <1>7, NearGets DEF LockStep
<1>9. Pointer(p, "cwd") = 0 /\ Pointer(p, "cwd")' = s
  BY <1>1, <1>4, <1>5, IdleIs DEF Pointer
<1>10. Balanced(p, 0, 0, 0, 0, 0)
  BY <1>1, <1>3, <1>9, Consts DEF Balanced, One1, s
<1>11. \A u \in Slots : itable'[u].lock # p
  BY <1>1, Bare, BareHands
<1>12. HandsAfter(p, "idle", 0, 0, 0, "none", 0, "none")
  BY <1>11 DEF HandsAfter, HasIp, HasDp
<1>13. ReliesAfter(p, "idle", 0, 0, 0, "none", 0, "none")
  BY Consts DEF ReliesAfter
<1> QED BY <1>1, <1>4, <1>6, <1>7, <1>8, <1>10, <1>12, <1>13, IdleIs, CallMoves

\* chdir() looks at what it has found: a directory or not.
LEMMA ChdirFoundMoves ==
  ASSUME IInv1, NEW p \in Procs, ChdirFound(p)
  PROVE  Moves(p)
<1> DEFINE t == th[p]
           s == t.ip
           tb == Load(s)
           puts == <<Stage(cwd[p], "drop")>>
           n == [t EXCEPT !.pc = "cd", !.put = puts]
<1>1. /\ AtLock(p, "found") /\ "found" \in LockPlaces \ HasDp /\ th[p].pc = "found" /\ itable' = tb
      /\ UNCHANGED <<dinode, ents, cwd, ofile, panic, calls, astray>>
  BY DEF ChdirFound, LockPlaces, HasDp, AtLock
<1>2. t.dp = 0 /\ t \in ThRec
  BY <1>1 DEF IInv1, TypeOK, PlaceOK, ThreadOK
<1>3. CASE th' = [th EXCEPT ![p] = Done(<<Stage(s, "drop")>>)]
  BY <1>1, <1>2, <1>3, MoveEnd DEF IInv1, TypeOK
<1>4. CASE th' = [th EXCEPT ![p] = n]
  <2>1. /\ s \in Slots /\ s # 0 /\ itable[s].lock = Nobody /\ t.put = <<>>
        /\ Near(itable, tb) /\ tb[s].valid /\ tb \in [Slots -> SlotRec]
        /\ \A u \in Slots : tb[u].lock = itable[u].lock
    BY <1>1, LockReady
  <2>2. cwd[p] \in Slots
    BY DEF IInv1, TypeOK
  <2>3. Stage(cwd[p], "drop") \in StageRec
    BY <2>2 DEF Stage, StageRec, Stages
  <2>4. puts \in Seq(StageRec) /\ Len(puts) = 1 /\ puts[1] = Stage(cwd[p], "drop")
    BY <2>3, PutOne
  <2> HIDE DEF puts, s, tb
  <2>5. n \in ThRec /\ n.pc = "cd" /\ n.ip = s /\ n.dp = 0 /\ n.put = puts
    BY <1>2, <2>4 DEF ThRec, Places, s
  <2> HIDE DEF n
  <2>6. Len(n.put) = 1 /\ n.put[1] = Stage(cwd[p], "drop") /\ cwd[p] # 0
    BY <2>2, <2>4, <2>5, Consts
  <2>7. ThreadOK(n)
    BY <2>1, <2>5, <2>6 DEF ThreadOK, Alone
  <2>8. Shape(n, "cd", s, 0, cwd[p], "drop", 0, "none")
    BY <2>5, <2>6 DEF Shape
  <2>9. th'[p] = n /\ th' \in [Procs -> ThRec] /\ Frame(p)
    BY <1>1, <1>4, <2>5, ThSet DEF IInv1, Frame
  <2>10. TypeOK'
    BY <1>1, <2>1, <2>9 DEF IInv1, TypeOK
  <2>11. Gets(0) /\ LockStep(p)
    BY <1>1, <2>1, NearGets DEF LockStep
  <2>12. Pointer(p, "cwd") = cwd[p] /\ Pointer(p, "cwd")' = 0
    BY <1>1, <2>5, <2>9 DEF Pointer
  <2>13. Balanced(p, s, 0, cwd[p], 0, 0)
    BY <1>1, <1>2, <2>12, Consts DEF Balanced, One1, s
  <2>14. \A u \in Slots : itable'[u].lock # p
    BY <1>1, <2>1, Bare, BareHands
  <2>15. HandsAfter(p, "cd", s, 0, cwd[p], "drop", 0, "none")
    BY <2>14 DEF HandsAfter, HasIp, HasDp
  <2>16. ReliesAfter(p, "cd", s, 0, cwd[p], "drop", 0, "none")
    BY <1>1, <2>1, Consts DEF ReliesAfter
  <2> QED BY <2>1, <2>7, <2>8, <2>9, <2>10, <2>11, <2>13, <2>15, <2>16, CallMoves
<1> QED BY <1>3, <1>4 DEF ChdirFound

\* link() takes back the link it has counted.
LEMMA LinkBadMoves ==
  ASSUME IInv1, NEW p \in Procs, LinkBad(p)
  PROVE  Moves(p)
<1> DEFINE s == th[p].ip
           tb == Load(s)
           t1 == SetNlink(tb, s, tb[s].nlink - 1)
<1>1. /\ AtLock(p, "bad") /\ "bad" \in LockPlaces /\ itable' = t1 /\ dinode' = iupdate(t1, s)
      /\ th' = [th EXCEPT ![p] = Done(<<Stage(s, "drop")>>)]
      /\ UNCHANGED <<ents, cwd, ofile, panic, calls, astray>>
  BY DEF LinkBad, LockPlaces
<1>2. /\ s \in Slots /\ itable[s].inum \in Inums /\ th[p].put = <<>> /\ th[p].pc = "bad"
      /\ Near(itable, tb) /\ tb \in [Slots -> SlotRec]
      /\ \A u \in Slots : tb[u].lock = itable[u].lock
  BY <1>1, LockReady
<1>3. th[p].dp = 0
  BY <1>2 DEF IInv1, PlaceOK, ThreadOK
<1>4. tb[s].nlink - 1 \in Int
  BY <1>2 DEF SlotRec
<1>5. /\ Near(tb, t1) /\ t1[s].lock = tb[s].lock
      /\ \A u \in Slots : u # s => t1[u] = tb[u]
  BY <1>2, <1>4, NlinkIs
<1>6. Near(itable, t1)
  BY <1>2, <1>5, NearTrans
<1>7. t1 \in [Slots -> SlotRec] /\ t1[s].inum \in Inums
  BY <1>2, <1>6 DEF Near
<1>8. dinode' \in [Inums -> DiskRec]
  BY <1>1, <1>2, <1>7, IupdateIs DEF IInv1
<1>9. th' \in [Procs -> ThRec]
  BY <1>1, <1>2, DoneOne, ThSet DEF IInv1
<1> HIDE DEF t1, s, tb
<1>10. TypeOK'
  BY <1>1, <1>7, <1>8, <1>9 DEF IInv1, TypeOK
<1>11. \A u \in Slots : itable'[u].lock = itable[u].lock
  BY <1>1, <1>2, <1>5
<1>12. th[p].pc \notin HasIp \cup HasDp \cup {"idle", "cd"}
  BY <1>2 DEF HasIp, HasDp
<1> QED BY <1>1, <1>2, <1>3, <1>6, <1>10, <1>11, <1>12, MoveDrop DEF s

\* link() counts a link of the old inode.
LEMMA LinkOldMoves ==
  ASSUME IInv1, NEW p \in Procs, LinkOld(p)
  PROVE  Moves(p)
<1> DEFINE t == th[p]
           s == t.ip
           tb == Load(s)
           t1 == SetNlink(tb, s, tb[s].nlink + 1)
           n == [t EXCEPT !.pc = "link2"]
<1>1. /\ AtLock(p, "found") /\ "found" \in LockPlaces \ HasDp /\ th[p].pc = "found"
      /\ UNCHANGED <<ents, cwd, ofile, panic, calls, astray>>
  BY DEF LinkOld, LockPlaces, HasDp, AtLock
<1>2. t.dp = 0 /\ t \in ThRec
  BY <1>1 DEF IInv1, TypeOK, PlaceOK, ThreadOK
<1>3. CASE itable' = tb /\ th' = [th EXCEPT ![p] = Done(<<Stage(s, "drop")>>)] /\ UNCHANGED dinode
  BY <1>1, <1>2, <1>3, MoveEnd DEF IInv1, TypeOK
<1>4. CASE itable' = t1 /\ dinode' = iupdate(t1, s) /\ th' = [th EXCEPT ![p] = n]
  <2>1. /\ s \in Slots /\ s # 0 /\ itable[s].lock = Nobody /\ t.put = <<>> /\ itable[s].inum \in Inums
        /\ Near(itable, tb) /\ tb[s].valid /\ tb \in [Slots -> SlotRec]
        /\ \A u \in Slots : tb[u].lock = itable[u].lock
    BY <1>1, LockReady
  <2>2. tb[s].nlink + 1 \in Int
    BY <2>1 DEF SlotRec
  <2>3. /\ Near(tb, t1) /\ t1[s].lock = tb[s].lock /\ t1[s].valid = tb[s].valid
        /\ \A u \in Slots : u # s => t1[u] = tb[u]
    <3>1. tb \in [Slots -> SlotRec] /\ s \in Slots
      BY <2>1
    <3> HIDE DEF tb, s
    <3> QED BY <2>2, <3>1, NlinkIs
  <2>4. Near(itable, t1)
    BY <2>1, <2>3, NearTrans
  <2>5. t1 \in [Slots -> SlotRec] /\ t1[s].inum \in Inums
    BY <2>1, <2>4 DEF Near
  <2>6. dinode' \in [Inums -> DiskRec]
    BY <1>4, <2>1, <2>5, IupdateIs DEF IInv1
  <2> HIDE DEF s, tb, t1
  <2>7. n \in ThRec /\ n.pc = "link2" /\ n.ip = s /\ n.dp = 0 /\ n.put = <<>>
    BY <1>2, <2>1 DEF ThRec, Places, s
  <2> HIDE DEF n
  <2>8. ThreadOK(n)
    BY <2>1, <2>7, NoLen DEF ThreadOK, Alone
  <2>9. Shape(n, "link2", s, 0, 0, "none", 0, "none")
    BY <2>7, NoLen DEF Shape
  <2>10. th'[p] = n /\ th' \in [Procs -> ThRec] /\ Frame(p)
    BY <1>1, <1>4, <2>7, ThSet DEF IInv1, Frame
  <2>11. TypeOK'
    BY <1>1, <1>4, <2>5, <2>6, <2>10 DEF IInv1, TypeOK
  <2>12. \A u \in Slots : itable'[u].lock = itable[u].lock
    BY <1>4, <2>1, <2>3
  <2>13. Gets(0) /\ LockStep(p)
    BY <1>4, <2>4, <2>12, NearGets DEF LockStep
  <2>14. Pointer(p, "cwd") = cwd[p] /\ Pointer(p, "cwd")' = cwd[p]
    BY <1>1, <2>7, <2>10 DEF Pointer
  <2>15. Balanced(p, s, 0, 0, 0, 0)
    BY <1>1, <1>2, <2>14, Consts DEF Balanced, One1, s
  <2>16. \A u \in Slots : itable'[u].lock # p
    BY <1>1, <2>1, <2>12, Bare, BareHands
  <2>17. HandsAfter(p, "link2", s, 0, 0, "none", 0, "none")
    BY <2>16 DEF HandsAfter, HasIp, HasDp
  <2>18. ReliesAfter(p, "link2", s, 0, 0, "none", 0, "none")
    BY <1>4, <2>1, <2>3, Consts DEF ReliesAfter
  <2> QED BY <2>1, <2>8, <2>9, <2>10, <2>11, <2>13, <2>15, <2>17, <2>18, CallMoves
<1> QED BY <1>3, <1>4 DEF LinkOld

\* create() looks the name up in the parent.
LEMMA CreateFindsMoves ==
  ASSUME IInv1, NEW p \in Procs, CreateFinds(p)
  PROVE  Moves(p)
<1> DEFINE t == th[p]
           s == t.ip
           i == dirlookup(itable[s].inum, t.name)
           tb == Load(s)
           k == IgetSlot(tb, i)
           puts == <<Stage(s, "drop")>>
           n == [t EXCEPT !.pc = "exists", !.ip = k, !.put = puts]
<1>1. /\ AtLock(p, "parent") /\ "parent" \in LockPlaces /\ t.op \in Making /\ i # 0
      /\ itable' = iget(tb, i)
      /\ th' = [th EXCEPT ![p].pc = "exists", ![p].ip = k, ![p].put = puts]
      /\ UNCHANGED <<dinode, ents, cwd, ofile, panic, calls>>
      /\ astray' \in BOOLEAN
  BY DEF CreateFinds, LockPlaces, DirReleased, Making, Look
<1>2. /\ s \in Slots /\ s # 0 /\ itable[s].inum \in Inums
      /\ itable[s].lock = Nobody /\ t.put = <<>> /\ t.pc = "parent"
      /\ Near(itable, tb) /\ TableOK(tb) /\ \A u \in Slots : tb[u].lock = itable[u].lock
  BY <1>1, LockReady
<1>3. t \in ThRec /\ t.dp = 0 /\ t.name \in EntryNames
  BY <1>1, <1>2 DEF IInv1, TypeOK, PlaceOK, ThreadOK, Making
<1>4. th' = [th EXCEPT ![p] = n]
  BY <1>1 DEF IInv1, TypeOK
<1>5. Takes(tb, itable', k) /\ k \in Slots
  <2>1. TableOK(tb) /\ itable[s].inum \in Inums /\ t.name \in EntryNames /\ i # 0 /\ itable' = iget(tb, i)
    BY <1>1, <1>2, <1>3
  <2> HIDE DEF s, tb, k
  <2>2. Takes(tb, itable', k)
    BY <2>1, LookupGets DEF k
  <2> QED BY <2>2 DEF Takes
<1>6. Stage(s, "drop") \in StageRec
  BY <1>2 DEF Stage, StageRec, Stages
<1>7. puts \in Seq(StageRec) /\ Len(puts) = 1 /\ puts[1] = Stage(s, "drop")
  BY <1>6, PutOne
<1>8. k # 0 /\ k \in 0 .. NInodes
  BY <1>5, Consts
<1> HIDE DEF s, tb, k, puts, i
<1>9. n \in ThRec /\ n.pc = "exists" /\ n.ip = k /\ n.dp = 0 /\ n.put = puts /\ n.op = t.op
  BY <1>3, <1>7, <1>8 DEF ThRec, Places
<1> HIDE DEF n
<1>10. Len(n.put) = 1 /\ n.put[1] = Stage(s, "drop") /\ n.op \in Making
  BY <1>1, <1>7, <1>9
<1>11. ThreadOK(n)
  BY <1>8, <1>9, <1>10 DEF ThreadOK, Alone
<1>12. Shape(n, "exists", k, 0, s, "drop", 0, "none")
  BY <1>2, <1>9, <1>10 DEF Shape
<1>13. th'[p] = n /\ th' \in [Procs -> ThRec] /\ Frame(p)
  BY <1>1, <1>4, <1>9, ThSet DEF IInv1, Frame
<1>14. TypeOK' /\ Near(itable', itable')
  BY <1>1, <1>5, <1>13 DEF IInv1, TypeOK, Takes, Near
<1>15. Gets(k)
  BY <1>2, <1>5, <1>14, TakesGets
<1>16. \A u \in Slots : itable'[u].lock = itable[u].lock
  BY <1>2, <1>5 DEF Takes
<1>17. LockStep(p)
  BY <1>16 DEF LockStep
<1>18. Pointer(p, "cwd") = cwd[p] /\ Pointer(p, "cwd")' = cwd[p]
  BY <1>1, <1>2, <1>9, <1>13 DEF Pointer
<1>19. \A u \in Slots : itable'[u].lock # p
  BY <1>2, <1>16, Bare, BareHands
<1>20. Balanced(p, k, 0, s, 0, k)
  BY <1>1, <1>3, <1>18, Consts DEF Balanced, One1, s
<1>21. HandsAfter(p, "exists", k, 0, s, "drop", 0, "none")
  BY <1>19 DEF HandsAfter, HasIp, HasDp
<1>22. ReliesAfter(p, "exists", k, 0, s, "drop", 0, "none")
  BY Consts DEF ReliesAfter, TrustsIp
<1> QED BY <1>2, <1>11, <1>12, <1>13, <1>14, <1>15, <1>17, <1>20, <1>21, <1>22, CallMoves

\* The directory stays locked, and inode i is the next to be locked.
LEMMA MoveChild ==
  ASSUME IInv1, NEW p \in Procs, AtLock(p, "parent"), th[p].op # "link2", NEW i \in Inums,
         NEW place \in HasDp, place = "init" => th[p].op \in Making,
         place = "child" => th[p].name \in Names,
         itable' = iget(Locked(Load(th[p].ip), th[p].ip, p), i),
         th' = [th EXCEPT ![p].pc = place, ![p].dp = th[p].ip, ![p].ip = IgetSlot(Load(th[p].ip), i)],
         dinode' \in [Inums -> DiskRec], UNCHANGED <<ents, cwd, ofile, panic, calls, astray>>
  PROVE  Moves(p)
<1> DEFINE t == th[p]
           s == t.ip
           tb == Load(s)
           tl == Locked(tb, s, p)
           k == IgetSlot(tb, i)
           n == [t EXCEPT !.pc = place, !.dp = s, !.ip = k]
<1>1. /\ "parent" \in LockPlaces /\ th' = [th EXCEPT ![p] = n] /\ itable' = iget(tl, i)
      /\ UNCHANGED <<ents, cwd, ofile, panic, calls, astray>>
  BY DEF LockPlaces, IInv1, TypeOK
<1>2. /\ s \in Slots /\ s # 0 /\ itable[s].inum \in Inums /\ itable[s].ref > 0
      /\ itable[s].lock = Nobody /\ t.put = <<>> /\ t.pc = "parent" /\ tb[s].valid
      /\ Near(itable, tb) /\ TableOK(tb) /\ tb \in [Slots -> SlotRec]
      /\ \A u \in Slots : tb[u].lock = itable[u].lock
  BY <1>1, LockReady
<1>3. t \in ThRec /\ t.dp = 0 /\ t.name \in EntryNames /\ s \in 0 .. NInodes
  BY <1>2, Consts DEF IInv1, TypeOK, PlaceOK, ThreadOK
<1> HIDE DEF s, tb
<1>4. /\ Near(tb, tl) /\ tl[s].lock = p /\ tl[s].valid = tb[s].valid
      /\ \A u \in Slots : u # s => tl[u] = tb[u]
  <2>1. s \in Slots /\ tb \in [Slots -> SlotRec] /\ p \in Procs \cup {Nobody}
    BY <1>2
  <2> QED BY <2>1, LockedIs
<1> HIDE DEF tl
<1>5. TableOK(tl) /\ Near(itable, tl)
  BY <1>2, <1>4, NearTable, NearTrans
<1>6. k = IgetSlot(tl, i)
  BY <1>4, IgetSlotSame DEF Near
<1> HIDE DEF k
<1>7. Takes(tl, itable', k) /\ k \in Slots
  <2>1. Takes(tl, itable', k)
    BY <1>1, <1>5, <1>6, IgetTakes
  <2> QED BY <2>1 DEF Takes
<1>8. k # 0 /\ k \in 0 .. NInodes /\ place \in {"init", "child"}
  BY <1>7, Consts DEF HasDp
<1>9. n \in ThRec /\ n.pc = place /\ n.ip = k /\ n.dp = s /\ n.put = <<>> /\ n.op = t.op /\ n.name = t.name
  BY <1>2, <1>3, <1>8 DEF ThRec, Places
<1> HIDE DEF n
<1>10. Len(n.put) = 0
  BY <1>9, NoLen
<1>11. ThreadOK(n)
  BY <1>2, <1>3, <1>8, <1>9, <1>10 DEF ThreadOK, Alone
<1>12. Shape(n, place, k, s, 0, "none", 0, "none")
  BY <1>9, <1>10 DEF Shape
<1>13. th'[p] = n /\ th' \in [Procs -> ThRec] /\ Frame(p)
  BY <1>1, <1>9, ThSet DEF IInv1, Frame
<1>14. TypeOK' /\ Near(itable', itable')
  BY <1>1, <1>7, <1>13 DEF IInv1, TypeOK, Takes, Near
<1>15. Gets(k)
  BY <1>5, <1>7, <1>14, TakesGets
<1>16. \A u \in Slots : itable'[u].lock = tl[u].lock
  BY <1>7 DEF Takes
<1>17. LockStep(p)
  BY <1>2, <1>4, <1>16 DEF LockStep
<1>18. Pointer(p, "cwd") = cwd[p] /\ Pointer(p, "cwd")' = cwd[p]
  BY <1>1, <1>2, <1>8, <1>9, <1>13 DEF Pointer
<1>19. \A u \in Slots : itable[u].lock # p
  BY <1>2, Bare, BareHands
<1>20. Balanced(p, k, s, 0, 0, k)
  BY <1>1, <1>3, <1>18, Consts DEF Balanced, One1, s
<1>21. \A u \in Slots : itable'[u].lock = p <=> u = s
  BY <1>2, <1>4, <1>16, <1>19
<1>22. HandsAfter(p, place, k, s, 0, "none", 0, "none")
  BY <1>2, <1>8, <1>21 DEF HandsAfter, HasIp, HasDp
<1>23. place \notin TrustsIp /\ 0 \notin Slots
  BY <1>8, Consts DEF TrustsIp
<1>24. itable'[s].valid
  <2>1. tl[s].valid /\ tl[s].ref > 0
    BY <1>2, <1>4, <1>5 DEF Near
  <2> QED BY <1>2, <1>7, <2>1 DEF Takes
<1>25. ReliesAfter(p, place, k, s, 0, "none", 0, "none")
  BY <1>2, <1>23, <1>24 DEF ReliesAfter
<1> QED BY <1>2, <1>11, <1>12, <1>13, <1>14, <1>15, <1>17, <1>20, <1>22, <1>25, CallMoves

\* unlink() looks the name up in the parent.
LEMMA UnlinkDirMoves ==
  ASSUME IInv1, NEW p \in Procs, UnlinkDir(p)
  PROVE  Moves(p)
<1> DEFINE t == th[p]
           s == t.ip
           i == dirlookup(itable[s].inum, t.name)
<1>1. /\ AtLock(p, "parent") /\ "parent" \in LockPlaces \ HasDp /\ t.op = "unlink" /\ t.pc = "parent"
      /\ UNCHANGED <<dinode, ents, cwd, ofile, panic, calls, astray>>
  BY DEF UnlinkDir, LockPlaces, HasDp, AtLock
<1>2. t.dp = 0 /\ t.name \in EntryNames
  BY <1>1 DEF IInv1, TypeOK, PlaceOK, ThreadOK
<1>3. CASE itable' = Load(s) /\ th' = [th EXCEPT ![p] = Done(<<Stage(s, "drop")>>)]
  BY <1>1, <1>2, <1>3, MoveEnd DEF IInv1, TypeOK
<1>4. CASE /\ t.name \notin {".", ".."} /\ i # 0
           /\ itable' = iget(Locked(Load(s), s, p), i)
           /\ th' = [th EXCEPT ![p].pc = "child", ![p].dp = s, ![p].ip = IgetSlot(Load(s), i)]
  <2>1. t.name \in Names /\ "child" \in HasDp /\ t.op # "link2"
    BY <1>1, <1>2, <1>4 DEF EntryNames, HasDp
  <2>2. itable[s].inum \in Inums
    BY <1>1, LockReady
  <2>3. i \in Inums
    BY <1>2, <1>4, <2>2, LookupIn DEF IInv1
  <2>4. dinode' \in [Inums -> DiskRec]
    BY <1>1 DEF IInv1, TypeOK
  <2> QED BY <1>1, <1>4, <2>1, <2>3, <2>4, MoveChild
<1> QED BY <1>3, <1>4 DEF UnlinkDir

\* ialloc() takes a free inode.
LEMMA FreeLeast ==
  ASSUME FreeInums # {}
  PROVE  Min(FreeInums) \in Inums /\ dinode[Min(FreeInums)].type = "free"
<1>1. FreeInums \subseteq Nat
  BY Consts DEF FreeInums
<1>2. Min(FreeInums) \in FreeInums
  BY <1>1, LeastNat
<1> QED BY <1>2 DEF FreeInums

\* What open(O_CREATE), mkdir() and mknod() make.
LEMMA MadeTypes ==
  \A op \in Making : TypeOf(op) \in Types /\ TypeOf(op) # "free" /\ (TypeOf(op) = "dir" <=> op = "mkdir")
BY DEF Making, TypeOf, Types

\* create() allocates an inode with ialloc() and gets a slot for it.
LEMMA CreateAllocMoves ==
  ASSUME IInv1, NEW p \in Procs, CreateAlloc(p)
  PROVE  Moves(p)
<1> DEFINE t == th[p]
           s == t.ip
           i == Min(FreeInums)
<1>1. /\ AtLock(p, "parent") /\ "parent" \in LockPlaces \ HasDp /\ t.op \in Making /\ t.pc = "parent"
      /\ UNCHANGED <<ents, cwd, ofile, panic, calls, astray>>
  BY DEF CreateAlloc, LockPlaces, HasDp, AtLock, Making
<1>2. t.dp = 0 /\ t.name \in EntryNames /\ t.op # "link2"
  BY <1>1 DEF IInv1, TypeOK, PlaceOK, ThreadOK, Making
<1>3. CASE /\ itable' = Load(s) /\ th' = [th EXCEPT ![p] = Done(<<Stage(s, "drop")>>)]
           /\ UNCHANGED dinode
  BY <1>1, <1>2, <1>3, MoveEnd DEF IInv1, TypeOK
<1>4. CASE /\ FreeInums # {}
           /\ dinode' = [dinode EXCEPT ![i] = [type |-> TypeOf(t.op), nlink |-> 0]]
           /\ itable' = iget(Locked(Load(s), s, p), i)
           /\ th' = [th EXCEPT ![p].pc = "init", ![p].dp = s, ![p].ip = IgetSlot(Load(s), i)]
  <2>1. "init" \in HasDp
    BY DEF HasDp
  <2>2. i \in Inums
    BY <1>4, FreeLeast
  <2>3. [type |-> TypeOf(t.op), nlink |-> 0] \in DiskRec
    BY <1>1, MadeTypes DEF DiskRec
  <2>4. dinode' \in [Inums -> DiskRec]
    BY <1>4, <2>2, <2>3 DEF IInv1, TypeOK
  <2> QED BY <1>1, <1>2, <1>4, <2>1, <2>2, <2>4, MoveChild
<1> QED BY <1>3, <1>4 DEF CreateAlloc

\* Both inodes are locked: the call goes on with ip, or lets both go.
LEMMA MoveBoth ==
  ASSUME IInv1, NEW p \in Procs, NEW place \in HasDp, AtLock(p, place),
         Near(itable, itable'), itable'[th[p].ip].lock = p, itable'[th[p].ip].valid,
         \A u \in Slots : u # th[p].ip => itable'[u].lock = itable[u].lock,
         TypeOK', cwd' = cwd, ofile' = ofile,
         NEW n \in ThRec, ThreadOK(n), th' = [th EXCEPT ![p] = n],
         NEW pc, NEW ip, NEW a, NEW b, NEW y, Shape(n, pc, ip, 0, a, "unlock", b, y),
         \/ pc \in HasIp /\ ip = th[p].ip /\ a = th[p].dp /\ b = 0
         \/ pc = "idle" /\ ip = 0 /\ a = th[p].dp /\ b = th[p].ip /\ y = "unlock"
         \/ pc = "idle" /\ ip = 0 /\ a = th[p].ip /\ b = th[p].dp /\ y = "unlock"
  PROVE  Moves(p)
<1> DEFINE s == th[p].ip
           d == th[p].dp
<1>1. place \in LockPlaces /\ place \in {"init", "child"}
  BY DEF HasDp, LockPlaces
<1>2. s \in Slots /\ s # 0 /\ itable[s].lock = Nobody /\ th[p].put = <<>> /\ th[p].pc = place
  BY <1>1, LockReady
<1>3. d # 0
  BY <1>1, <1>2 DEF IInv1, PlaceOK, ThreadOK
<1>4. d \in Slots /\ itable[d].valid
  BY <1>3, AtDp
<1>5. \A u \in Slots : itable[u].lock = p <=> u = d
  BY <1>1, <1>2, Hands DEF HasIp, HasDp
<1>6. s # d
  BY <1>2, <1>4, <1>5, Consts
<1>7. th'[p] = n /\ Frame(p)
  BY ThSet DEF IInv1, Frame
<1>8. Gets(0) /\ LockStep(p)
  BY <1>2, NearGets DEF LockStep
<1>9. n.pc = pc /\ pc # "cd"
  BY DEF Shape, HasIp
<1>10. Pointer(p, "cwd") = cwd[p] /\ Pointer(p, "cwd")' = cwd[p]
  BY <1>1, <1>2, <1>7, <1>9 DEF Pointer
<1>11. \A u \in Slots : itable'[u].lock = p <=> u \in {s, d}
  BY <1>2, <1>4, <1>5, <1>6
<1>12. itable'[d].valid
  BY <1>4 DEF Near
<1> HIDE DEF s, d
<1>13. Balanced(p, ip, 0, a, b, 0)
  BY <1>2, <1>4, <1>10, Consts DEF Balanced, One1, s, d
<1>14. "idle" \notin HasIp /\ "idle" \notin HasDp /\ \A z \in HasIp : z \notin HasDp
  BY DEF HasIp, HasDp
<1>15. HandsAfter(p, pc, ip, 0, a, "unlock", b, y)
  <2>1. \A u \in {s, d} : itable'[u].lock = p
    BY <1>2, <1>4, <1>11
  <2>2. CASE pc \in HasIp /\ ip = s /\ a = d /\ b = 0
    BY <1>2, <1>3, <1>6, <1>11, <1>14, <2>1, <2>2 DEF HandsAfter
  <2>3. CASE pc = "idle" /\ ip = 0 /\ a = d /\ b = s /\ y = "unlock"
    BY <1>2, <1>3, <1>6, <1>11, <1>14, <2>1, <2>3 DEF HandsAfter
  <2>4. CASE pc = "idle" /\ ip = 0 /\ a = s /\ b = d /\ y = "unlock"
    BY <1>2, <1>3, <1>6, <1>11, <1>14, <2>1, <2>4 DEF HandsAfter
  <2> QED BY <2>2, <2>3, <2>4 DEF s, d
<1>16. ReliesAfter(p, pc, ip, 0, a, "unlock", b, y)
  <2>1. \A u \in Slots : u = ip \/ u = 0 \/ u = a \/ u = b => u = s \/ u = d
    BY Consts DEF s, d
  <2> QED BY <1>2, <1>12, <2>1, Consts DEF ReliesAfter, s, d
<1> QED BY <1>2, <1>7, <1>8, <1>13, <1>15, <1>16, CallMoves

\* The entries stay entries.
LEMMA EntsIs ==
  ASSUME TypeOK, NEW d \in Inums, NEW i \in Inums
  PROVE  /\ \A n \in EntryNames, z \in 0 .. NInodes :
              [ents EXCEPT ![d][n] = z] \in [Inums -> [EntryNames -> 0 .. NInodes]]
         /\ \A type : NewEntries(i, d, type) \in [EntryNames -> 0 .. NInodes]
<1>1. ents \in [Inums -> [EntryNames -> 0 .. NInodes]] /\ i \in 0 .. NInodes /\ d \in 0 .. NInodes
  BY Consts DEF TypeOK
<1>2. ents[i] \in [EntryNames -> 0 .. NInodes] /\ ents[d] \in [EntryNames -> 0 .. NInodes]
  BY <1>1
<1>3. \A n \in EntryNames, z \in 0 .. NInodes :
        [ents EXCEPT ![d][n] = z] \in [Inums -> [EntryNames -> 0 .. NInodes]]
  <2> TAKE n \in EntryNames, z \in 0 .. NInodes
  <2>1. [ents[d] EXCEPT ![n] = z] \in [EntryNames -> 0 .. NInodes]
    BY <1>2
  <2> QED BY <1>1, <2>1
<1>4. \A type : NewEntries(i, d, type) \in [EntryNames -> 0 .. NInodes]
  BY <1>1, <1>2, Consts DEF NewEntries
<1> QED BY <1>3, <1>4

\* The table after the two locks and a change of ip's link count.
LEMMA LockNlink ==
  ASSUME IInv1, NEW p \in Procs, NEW place \in LockPlaces, AtLock(p, place), NEW c \in Int,
         NEW s, s = th[p].ip, NEW t1, t1 = SetNlink(Locked(Load(s), s, p), s, c)
  PROVE  /\ Near(itable, t1) /\ t1 \in [Slots -> SlotRec] /\ t1[s].lock = p /\ t1[s].valid
         /\ t1[s].nlink = c /\ t1[s].type = Load(s)[s].type
         /\ \A u \in Slots : u # s => t1[u] = itable[u]
<1> DEFINE tb == Load(s)
           tl == Locked(tb, s, p)
<1>1. /\ s \in Slots /\ Near(itable, tb) /\ tb[s].valid /\ tb \in [Slots -> SlotRec]
      /\ \A u \in Slots : u # s => tb[u] = itable[u]
  BY LockReady
<1> HIDE DEF tb
<1>2. /\ Near(tb, tl) /\ tl[s].lock = p /\ tl[s].valid = tb[s].valid
      /\ tl[s].type = tb[s].type /\ \A u \in Slots : u # s => tl[u] = tb[u]
  <2>1. s \in Slots /\ tb \in [Slots -> SlotRec] /\ p \in Procs \cup {Nobody}
    BY <1>1
  <2> QED BY <2>1, LockedIs
<1>3. t1 = SetNlink(tl, s, c)
  BY DEF tb
<1> HIDE DEF tl
<1>4. tl \in [Slots -> SlotRec]
  BY <1>2 DEF Near
<1>5. /\ Near(tl, t1) /\ t1[s].lock = tl[s].lock /\ t1[s].valid = tl[s].valid
      /\ t1[s].type = tl[s].type /\ t1[s].nlink = c
      /\ \A u \in Slots : u # s => t1[u] = tl[u]
  BY <1>1, <1>3, <1>4, NlinkIs
<1>6. Near(itable, t1)
  BY <1>1, <1>2, <1>5, NearTrans
<1>7. t1 \in [Slots -> SlotRec]
  BY <1>6 DEF Near
<1> QED BY <1>1, <1>2, <1>5, <1>6, <1>7 DEF tb

\* What CreateLink has made of the table and the disk.
LEMMA CreateLinkTable ==
  ASSUME IInv1, NEW p \in Procs, CreateLink(p)
  PROVE  /\ Near(itable, itable') /\ itable' \in [Slots -> SlotRec]
         /\ itable'[th[p].ip].lock = p /\ itable'[th[p].ip].valid
         /\ itable'[th[p].ip].nlink = 1 /\ itable'[th[p].ip].type = Load(th[p].ip)[th[p].ip].type
         /\ th[p].ip # th[p].dp /\ th[p].dp \in Slots /\ th[p].op \in Making
         /\ itable'[th[p].dp].lock = itable[th[p].dp].lock
         /\ itable'[th[p].dp].type = itable[th[p].dp].type
         /\ itable'[th[p].dp].valid = itable[th[p].dp].valid
         /\ itable'[th[p].dp].nlink =
              itable[th[p].dp].nlink + (IF TypeOf(th[p].op) = "dir" THEN 1 ELSE 0)
         /\ \A u \in Slots : u # th[p].ip /\ u # th[p].dp => itable'[u] = itable[u]
<1> DEFINE t == th[p]
           t1 == SetNlink(Locked(Load(t.ip), t.ip, p), t.ip, 1)
           t2 == IF TypeOf(t.op) = "dir" THEN SetNlink(t1, t.dp, t1[t.dp].nlink + 1) ELSE t1
<1>1. AtLock(p, "init") /\ "init" \in LockPlaces /\ "init" \in HasDp /\ itable' = t2
  BY DEF CreateLink, LockPlaces, HasDp
<1>2. /\ Near(itable, t1) /\ t1 \in [Slots -> SlotRec] /\ t1[t.ip].lock = p /\ t1[t.ip].valid
      /\ t1[t.ip].nlink = 1 /\ t1[t.ip].type = Load(t.ip)[t.ip].type
      /\ \A u \in Slots : u # t.ip => t1[u] = itable[u]
  BY <1>1, LockNlink
<1> HIDE DEF t1
<1>3. t.ip \in Slots /\ itable[t.ip].lock = Nobody /\ t.put = <<>> /\ t.pc = "init"
  BY <1>1, LockReady
<1>4. t.dp # 0 /\ t.op \in Making
  BY <1>3 DEF IInv1, PlaceOK, ThreadOK
<1>5. t.dp \in Slots /\ itable[t.dp].lock = p
  BY <1>1, <1>3, <1>4, AtDp, Hands
<1>6. t.ip # t.dp
  BY <1>3, <1>5, Consts
<1>7. t1[t.dp] = itable[t.dp] /\ itable[t.dp].nlink \in Int
  BY <1>2, <1>5, <1>6 DEF IInv1, TypeOK, SlotRec
<1>8. CASE TypeOf(t.op) # "dir"
  BY <1>1, <1>2, <1>4, <1>5, <1>6, <1>7, <1>8
<1>9. CASE TypeOf(t.op) = "dir"
  <2>1. itable' = SetNlink(t1, t.dp, itable[t.dp].nlink + 1) /\ itable[t.dp].nlink + 1 \in Int
    BY <1>1, <1>7, <1>9
  <2>2. /\ Near(t1, itable') /\ itable'[t.dp].lock = t1[t.dp].lock /\ itable'[t.dp].valid = t1[t.dp].valid
        /\ itable'[t.dp].type = t1[t.dp].type /\ itable'[t.dp].nlink = itable[t.dp].nlink + 1
        /\ \A u \in Slots : u # t.dp => itable'[u] = t1[u]
    BY <1>2, <1>5, <2>1, NlinkIs
  <2>3. Near(itable, itable')
    BY <1>2, <2>2, NearTrans
  <2>4. itable' \in [Slots -> SlotRec] /\ itable'[t.ip] = t1[t.ip]
    BY <1>3, <1>6, <2>2, <2>3 DEF Near
  <2> QED BY <1>2, <1>4, <1>5, <1>6, <1>7, <1>9, <2>2, <2>3, <2>4
<1> QED BY <1>8, <1>9

\* A thread goes on with ip, and has one inode to unlock and drop.
LEMMA OnWith ==
  ASSUME NEW t \in ThRec, NEW pc \in HasIp, NEW s \in Slots, t.ip \in Slots,
         NEW n, n = [t EXCEPT !.pc = pc, !.dp = 0, !.put = <<Stage(s, "unlock")>>]
  PROVE  n \in ThRec /\ ThreadOK(n) /\ Shape(n, pc, t.ip, 0, s, "unlock", 0, "none") /\ n.op = t.op
<1> DEFINE puts == <<Stage(s, "unlock")>>
<1>1. Stage(s, "unlock") \in StageRec
  BY DEF Stage, StageRec, Stages
<1>2. puts \in Seq(StageRec) /\ Len(puts) = 1 /\ puts[1] = Stage(s, "unlock")
  BY <1>1, PutOne
<1>3. n = [t EXCEPT !.pc = pc, !.dp = 0, !.put = puts]
  OBVIOUS
<1>4. pc \in {"opened", "unlinked"} /\ s # 0 /\ t.ip # 0 /\ 0 \in 0 .. NInodes
  BY Consts DEF HasIp
<1> HIDE DEF puts
<1>5. n \in ThRec /\ n.pc = pc /\ n.ip = t.ip /\ n.dp = 0 /\ n.put = puts /\ n.op = t.op
  BY <1>2, <1>3, <1>4 DEF ThRec, Places
<1>6. Len(n.put) = 1 /\ n.put[1] = Stage(s, "unlock")
  BY <1>2, <1>5
<1>7. ThreadOK(n)
  BY <1>4, <1>5, <1>6 DEF ThreadOK, Alone
<1>8. Shape(n, pc, t.ip, 0, s, "unlock", 0, "none")
  BY <1>4, <1>5, <1>6 DEF Shape
<1> QED BY <1>5, <1>7, <1>8

\* create() enters the new inode, and . and .. in a directory.
LEMMA CreateLinkMoves ==
  ASSUME IInv1, NEW p \in Procs, CreateLink(p)
  PROVE  Moves(p)
<1> DEFINE t == th[p]
           i == itable[t.ip].inum
           d == itable[t.dp].inum
           type == TypeOf(t.op)
           r == [type |-> type, nlink |-> 1]
           n == IF t.op = "create"
                THEN [t EXCEPT !.pc = "opened", !.dp = 0, !.put = <<Stage(t.dp, "unlock")>>]
                ELSE Done(<<Stage(t.dp, "unlock"), Stage(t.ip, "unlock")>>)
<1>1. /\ AtLock(p, "init") /\ "init" \in LockPlaces /\ "init" \in HasDp
      /\ dinode' = [iupdate(itable', t.dp) EXCEPT ![i] = r]
      /\ ents' = [dirlink(d, t.name, i) EXCEPT ![i] = NewEntries(i, d, type)]
      /\ th' = [th EXCEPT ![p] = n]
      /\ UNCHANGED <<cwd, ofile, panic, calls, astray>>
  BY DEF CreateLink, LockPlaces, HasDp
<1>2. /\ Near(itable, itable') /\ itable' \in [Slots -> SlotRec]
      /\ itable'[t.ip].lock = p /\ itable'[t.ip].valid
      /\ t.ip # t.dp /\ t.dp \in Slots /\ t.op \in Making
      /\ \A u \in Slots : u # t.ip => itable'[u].lock = itable[u].lock
  BY CreateLinkTable
<1>3. t.ip \in Slots /\ t.pc = "init" /\ i \in Inums
  BY <1>1, LockReady
<1>4. t \in ThRec /\ t.name \in EntryNames /\ t.dp # 0
  BY <1>3 DEF IInv1, TypeOK, PlaceOK, ThreadOK
<1>5. d \in Inums /\ itable'[t.dp].inum \in Inums
  BY <1>2, <1>4, AtDp DEF Near
<1>6. r \in DiskRec
  BY <1>2, MadeTypes DEF DiskRec
<1>7. iupdate(itable', t.dp) \in [Inums -> DiskRec]
  BY <1>2, <1>5, IupdateIs DEF IInv1
<1>8. dinode' \in [Inums -> DiskRec]
  BY <1>1, <1>6, <1>7
<1>9. i \in 0 .. NInodes
  BY <1>3, Consts
<1>10. /\ dirlink(d, t.name, i) \in [Inums -> [EntryNames -> 0 .. NInodes]]
       /\ NewEntries(i, d, type) \in [EntryNames -> 0 .. NInodes]
  BY <1>3, <1>4, <1>5, <1>9, EntsIs DEF IInv1, dirlink
<1>11. ents' \in [Inums -> [EntryNames -> 0 .. NInodes]]
  BY <1>1, <1>10
<1>12. CASE t.op = "create"
  <2>1. "opened" \in HasIp /\ n = [t EXCEPT !.pc = "opened", !.dp = 0, !.put = <<Stage(t.dp, "unlock")>>]
    BY <1>12 DEF HasIp
  <2> HIDE DEF n
  <2>2. n \in ThRec /\ ThreadOK(n) /\ Shape(n, "opened", t.ip, 0, t.dp, "unlock", 0, "none")
    BY <1>2, <1>3, <1>4, <2>1, OnWith
  <2>3. th' \in [Procs -> ThRec]
    BY <1>1, <2>2, ThSet DEF IInv1
  <2>4. TypeOK'
    BY <1>1, <1>2, <1>8, <1>11, <2>3 DEF IInv1, TypeOK
  <2> QED BY <1>1, <1>2, <2>1, <2>2, <2>4, MoveBoth
<1>13. CASE t.op # "create"
  <2>1. n = Done(<<Stage(t.dp, "unlock"), Stage(t.ip, "unlock")>>)
    BY <1>13
  <2> HIDE DEF n
  <2>2. n \in ThRec /\ ThreadOK(n) /\ Shape(n, "idle", 0, 0, t.dp, "unlock", t.ip, "unlock")
    <3>1. t.dp \in Slots /\ t.ip \in Slots /\ "unlock" \in {"unlock", "drop"}
      BY <1>2, <1>3
    <3> QED BY <2>1, <3>1, DoneTwo, Zenon
  <2>3. th' \in [Procs -> ThRec]
    BY <1>1, <2>2, ThSet DEF IInv1
  <2>4. TypeOK'
    BY <1>1, <1>2, <1>8, <1>11, <2>3 DEF IInv1, TypeOK
  <2> QED BY <1>1, <1>2, <2>2, <2>4, MoveBoth
<1> QED BY <1>12, <1>13

\* create() gives the new inode up.
LEMMA CreateFailMoves ==
  ASSUME IInv1, NEW p \in Procs, CreateFail(p)
  PROVE  Moves(p)
<1> DEFINE t == th[p]
           i == itable[t.ip].inum
           t1 == SetNlink(Locked(Load(t.ip), t.ip, p), t.ip, 0)
           n == Done(<<Stage(t.ip, "unlock"), Stage(t.dp, "unlock")>>)
<1>1. /\ AtLock(p, "init") /\ "init" \in LockPlaces /\ "init" \in HasDp
      /\ itable' = t1 /\ dinode' = iupdate(t1, t.ip)
      /\ ents' = [ents EXCEPT ![i] = NewEntries(i, itable[t.dp].inum, TypeOf(t.op))]
      /\ th' = [th EXCEPT ![p] = n]
      /\ UNCHANGED <<cwd, ofile, panic, calls, astray>>
  BY DEF CreateFail, LockPlaces, HasDp
<1>2. /\ Near(itable, t1) /\ t1 \in [Slots -> SlotRec] /\ t1[t.ip].lock = p /\ t1[t.ip].valid
      /\ \A u \in Slots : u # t.ip => t1[u] = itable[u]
  BY <1>1, LockNlink
<1>3. t.ip \in Slots /\ t.pc = "init" /\ i \in Inums
  BY <1>1, LockReady
<1>4. t.dp # 0
  BY <1>3 DEF IInv1, PlaceOK, ThreadOK
<1>5. t.dp \in Slots /\ itable[t.dp].inum \in Inums
  BY <1>4, AtDp
<1> HIDE DEF t1, n
<1>6. t1[t.ip].inum \in Inums
  BY <1>2, <1>3 DEF Near
<1>7. dinode' \in [Inums -> DiskRec]
  BY <1>1, <1>2, <1>3, <1>6, IupdateIs DEF IInv1
<1>8. NewEntries(i, itable[t.dp].inum, TypeOf(t.op)) \in [EntryNames -> 0 .. NInodes]
  BY <1>3, <1>5, EntsIs DEF IInv1
<1>9. ents' \in [Inums -> [EntryNames -> 0 .. NInodes]]
  BY <1>1, <1>3, <1>8 DEF IInv1, TypeOK
<1>10. n \in ThRec /\ ThreadOK(n) /\ Shape(n, "idle", 0, 0, t.ip, "unlock", t.dp, "unlock")
  <2>1. /\ t.dp \in Slots /\ t.ip \in Slots /\ "unlock" \in {"unlock", "drop"}
        /\ n = Done(<<Stage(t.ip, "unlock"), Stage(t.dp, "unlock")>>)
    BY <1>3, <1>5 DEF n
  <2> QED BY <2>1, DoneTwo, Zenon
<1>11. th' \in [Procs -> ThRec]
  BY <1>1, <1>10, ThSet DEF IInv1
<1>12. TypeOK'
  BY <1>1, <1>2, <1>7, <1>9, <1>11 DEF IInv1, TypeOK
<1> QED BY <1>1, <1>2, <1>10, <1>12, MoveBoth

\* A panic, or nothing at all, changes none of this.
LEMMA SameKeeps ==
  ASSUME IInv1, UNCHANGED <<itable, dinode, ents, th, cwd, ofile, astray>>, panic' \in Messages
  PROVE  IInv1'
<1>1. TypeOK' /\ PlaceOK'
  BY DEF IInv1, TypeOK, PlaceOK
<1>2. \A p \in Procs, v \in Pointers : Pointer(p, v)' = Pointer(p, v)
  BY DEF Pointer, PutSlot
<1>3. LockOK' /\ FirmOK'
  BY <1>2 DEF IInv1, LockOK, FirmOK, Erasing, Releasing
<1>4. RefOK'
  <2>1. \A s \in Slots : {x \in Procs \X Pointers : Pointer(x[1], x[2])' = s}
                           = {x \in Procs \X Pointers : Pointer(x[1], x[2]) = s}
    BY <1>2
  <2>2. \A s \in Slots : Refs(s)' = Refs(s)
    BY <2>1 DEF Refs
  <2> QED BY <2>2 DEF IInv1, RefOK
<1> QED BY <1>1, <1>3, <1>4 DEF IInv1

\* unlink() removes the entry, unless the directory is not empty, or panics.
LEMMA UnlinkChildKeeps ==
  ASSUME IInv1, NEW p \in Procs, UnlinkChild(p)
  PROVE  Moves(p) \/ (UNCHANGED <<itable, dinode, ents, th, cwd, ofile, astray>> /\ panic' \in Messages)
<1> DEFINE t == th[p]
           s == t.ip
           d == t.dp
           tl == Locked(Load(s), s, p)
           t1 == IF tl[s].type = "dir" THEN SetNlink(tl, d, tl[d].nlink - 1) ELSE tl
           n0 == Done(<<Stage(s, "unlock"), Stage(d, "unlock")>>)
           n1 == [t EXCEPT !.pc = "unlinked", !.dp = 0, !.put = <<Stage(d, "unlock")>>]
<1>1. /\ AtLock(p, "child") /\ "child" \in LockPlaces /\ "child" \in HasDp
      /\ UNCHANGED <<cwd, ofile, calls, astray>>
  BY DEF UnlinkChild, LockPlaces, HasDp
<1>2. /\ s \in Slots /\ t.pc = "child" /\ itable[s].inum \in Inums /\ itable[s].lock = Nobody
      /\ t.put = <<>>
      /\ Near(itable, Load(s)) /\ Load(s)[s].valid /\ Load(s) \in [Slots -> SlotRec]
      /\ \A u \in Slots : u # s => Load(s)[u] = itable[u]
  BY <1>1, LockReady
<1>3. t \in ThRec /\ d # 0 /\ t.name \in Names
  BY <1>2 DEF IInv1, TypeOK, PlaceOK, ThreadOK
<1>4. d \in Slots /\ itable[d].inum \in Inums /\ itable[d].lock = p
  BY <1>1, <1>2, <1>3, AtDp, Hands
<1>5. s # d
  BY <1>2, <1>4, Consts
<1> HIDE DEF s, d
<1>6. /\ Near(Load(s), tl) /\ tl[s].lock = p /\ tl[s].valid
      /\ \A u \in Slots : u # s => tl[u] = itable[u]
  <2>1. s \in Slots /\ Load(s) \in [Slots -> SlotRec] /\ p \in Procs \cup {Nobody}
    BY <1>2
  <2> QED BY <1>2, <2>1, LockedIs
<1> HIDE DEF tl
<1>7. Near(itable, tl) /\ tl \in [Slots -> SlotRec]
  BY <1>2, <1>6, NearTrans DEF Near
<1>8. CASE panic' = "unlink: nlink < 1" /\ UNCHANGED <<itable, dinode, ents, th>>
  BY <1>1, <1>8 DEF Messages
<1>9. CASE itable' = tl /\ th' = [th EXCEPT ![p] = n0] /\ UNCHANGED <<dinode, ents, panic>>
  <2>1. /\ s \in Slots /\ d \in Slots /\ "unlock" \in {"unlock", "drop"}
        /\ n0 = Done(<<Stage(s, "unlock"), Stage(d, "unlock")>>)
    BY <1>2, <1>4
  <2> HIDE DEF n0
  <2>2. n0 \in ThRec /\ ThreadOK(n0) /\ Shape(n0, "idle", 0, 0, s, "unlock", d, "unlock")
    BY <2>1, DoneTwo, Zenon
  <2>3. th' \in [Procs -> ThRec]
    BY <1>9, <2>2, ThSet DEF IInv1
  <2>4. TypeOK'
    BY <1>1, <1>7, <1>9, <2>3 DEF IInv1, TypeOK
  <2>5. Moves(p)
    BY <1>1, <1>6, <1>7, <1>9, <2>2, <2>4, MoveBoth DEF s, d
  <2> QED BY <2>5
<1>10. CASE /\ itable' = t1 /\ dinode' = iupdate(t1, d)
            /\ ents' = [ents EXCEPT ![itable[d].inum][t.name] = 0]
            /\ th' = [th EXCEPT ![p] = n1]
            /\ UNCHANGED panic
  <2>1. tl[d] = itable[d] /\ itable[d].nlink \in Int
    BY <1>4, <1>5, <1>6 DEF IInv1, TypeOK, SlotRec
  <2>2. /\ Near(itable, t1) /\ t1[s].lock = p /\ t1[s].valid
        /\ \A u \in Slots : u # s => t1[u].lock = itable[u].lock
    <3>1. CASE tl[s].type # "dir"
      BY <1>6, <1>7, <3>1
    <3>2. CASE tl[s].type = "dir"
      <4>1. t1 = SetNlink(tl, d, itable[d].nlink - 1) /\ itable[d].nlink - 1 \in Int
        BY <2>1, <3>2
      <4> HIDE DEF t1
      <4>2. /\ Near(tl, t1) /\ t1[d].lock = tl[d].lock
            /\ \A u \in Slots : u # d => t1[u] = tl[u]
        BY <1>4, <1>7, <4>1, NlinkIs
      <4>3. Near(itable, t1)
        BY <1>7, <4>2, NearTrans
      <4> QED BY <1>2, <1>4, <1>5, <1>6, <4>2, <4>3
    <3> QED BY <3>1, <3>2
  <2> HIDE DEF t1
  <2>3. t1 \in [Slots -> SlotRec] /\ t1[d].inum \in Inums
    BY <1>4, <2>2 DEF Near
  <2>4. dinode' \in [Inums -> DiskRec]
    BY <1>4, <1>10, <2>3, IupdateIs DEF IInv1
  <2>5. ents' \in [Inums -> [EntryNames -> 0 .. NInodes]]
    <3>1. 0 \in 0 .. NInodes /\ t.name \in EntryNames
      BY <1>3, Consts
    <3> QED BY <1>4, <1>10, <3>1, EntsIs DEF IInv1
  <2>6. "unlinked" \in HasIp
    BY DEF HasIp
  <2>7. n1 \in ThRec /\ ThreadOK(n1) /\ Shape(n1, "unlinked", s, 0, d, "unlock", 0, "none")
    BY <1>2, <1>3, <1>4, <2>6, OnWith DEF s
  <2> HIDE DEF n1
  <2>8. th' \in [Procs -> ThRec]
    BY <1>10, <2>7, ThSet DEF IInv1
  <2>9. TypeOK'
    BY <1>1, <1>10, <2>3, <2>4, <2>5, <2>8 DEF IInv1, TypeOK
  <2>10. Moves(p)
    BY <1>1, <1>10, <2>2, <2>6, <2>7, <2>9, MoveBoth DEF s, d
  <2> QED BY <2>10
<1>11. UnlinkChild(p) <=> /\ AtLock(p, "child")
         /\ CASE tl[s].nlink < 1 ->
                   panic' = "unlink: nlink < 1" /\ UNCHANGED <<itable, dinode, ents, th>>
              [] tl[s].nlink >= 1 /\ tl[s].type = "dir" /\ ~isdirempty(itable[s].inum) ->
                   itable' = tl /\ th' = [th EXCEPT ![p] = n0] /\ UNCHANGED <<dinode, ents, panic>>
              [] OTHER ->
                   /\ itable' = t1 /\ dinode' = iupdate(t1, d)
                   /\ ents' = [ents EXCEPT ![itable[d].inum][t.name] = 0]
                   /\ th' = [th EXCEPT ![p].pc = "unlinked", ![p].dp = 0,
                                       ![p].put = <<Stage(t.dp, "unlock")>>]
                   /\ UNCHANGED panic
         /\ UNCHANGED <<cwd, ofile, calls, astray>>
  BY DEF UnlinkChild, s, d, tl
<1>12. th' = [th EXCEPT ![p].pc = "unlinked", ![p].dp = 0, ![p].put = <<Stage(t.dp, "unlock")>>]
         => th' = [th EXCEPT ![p] = n1]
  BY DEF IInv1, TypeOK, d
<1> HIDE DEF t1, n0, n1
<1> QED BY <1>8, <1>9, <1>10, <1>11, <1>12

\* link() enters the old inode under the new name, or gives up.
LEMMA LinkDirMoves ==
  ASSUME IInv1, NEW p \in Procs, LinkDir(p)
  PROVE  Moves(p)
<1> DEFINE t == th[p]
           s == t.ip
           x == t.dp
           tb == Load(s)
           d == itable[s].inum
           i == dirlookup(d, t.name)
           k == IgetSlot(tb, i)
           two == <<Stage(k, "drop"), Stage(s, "unlock")>>
           n0 == Failed(t, two)
           n1 == Done(<<Stage(s, "drop"), Stage(x, "drop")>>)
<1>1. /\ AtLock(p, "parent") /\ "parent" \in LockPlaces /\ t.op = "link2"
      /\ UNCHANGED <<dinode, cwd, ofile, panic, calls>> /\ astray' \in BOOLEAN
  BY DEF LinkDir, LockPlaces, Look
<1>2. /\ s \in Slots /\ s # 0 /\ d \in Inums /\ itable[s].ref > 0
      /\ itable[s].lock = Nobody /\ t.put = <<>> /\ t.pc = "parent" /\ tb[s].valid
      /\ Near(itable, tb) /\ TableOK(tb) /\ tb \in [Slots -> SlotRec]
      /\ \A u \in Slots : tb[u].lock = itable[u].lock
  BY <1>1, LockReady
<1>3. t \in ThRec /\ x # 0 /\ t.name \in EntryNames
  BY <1>1, <1>2 DEF IInv1, TypeOK, PlaceOK, ThreadOK
<1>4. x \in Slots /\ itable[x].valid /\ itable[x].inum \in Inums /\ itable[x].ref > 0
  BY <1>3, AtDp
<1>5. Pointer(p, "cwd") = cwd[p]
  BY <1>2 DEF Pointer
<1>6. \A u \in Slots : itable[u].lock # p
  BY <1>2, Bare, BareHands
<1>7. t.pc \in TrustsIp
  BY <1>2 DEF TrustsIp
<1> HIDE DEF s, x, tb, d
<1>8. CASE i # 0 /\ itable' = Locked(iget(tb, i), s, p) /\ th' = [th EXCEPT ![p] = n0] /\ UNCHANGED ents
  <2>1. Takes(tb, iget(tb, i), k) /\ k \in Slots /\ k # 0
    <3>1. Takes(tb, iget(tb, i), k)
      BY <1>2, <1>3, <1>8, LookupGets
    <3> QED BY <3>1, Consts DEF Takes
  <2>2. Stage(k, "drop") \in StageRec /\ Stage(s, "unlock") \in StageRec
    BY <1>2, <2>1 DEF Stage, StageRec, Stages
  <2> HIDE DEF k, i
  <2>3. two \in Seq(StageRec) /\ Len(two) = 2 /\ two[1] = Stage(k, "drop") /\ two[2] = Stage(s, "unlock")
    BY <2>2, PutTwo
  <2> HIDE DEF two
  <2>4. n0 \in ThRec /\ ThreadOK(n0) /\ Shape(n0, "bad", x, 0, k, "drop", s, "unlock")
    BY <1>1, <1>2, <1>3, <2>1, <2>3, FailedIs DEF x
  <2> HIDE DEF n0
  <2>5. th'[p] = n0 /\ th' \in [Procs -> ThRec] /\ Frame(p)
    BY <1>1, <1>8, <2>4, ThSet DEF IInv1, Frame
  <2>6. iget(tb, i) \in [Slots -> SlotRec]
    BY <2>1 DEF Takes
  <2>7. /\ Near(iget(tb, i), itable') /\ itable'[s].lock = p /\ itable'[s].valid = iget(tb, i)[s].valid
        /\ \A u \in Slots : u # s => itable'[u] = iget(tb, i)[u]
    <3>1. p \in Procs \cup {Nobody}
      OBVIOUS
    <3> QED BY <1>2, <1>8, <2>6, <3>1, LockedIs
  <2>8. Gets(k)
    BY <1>2, <2>1, <2>7, TakesGets
  <2>9. TypeOK'
    BY <1>1, <1>8, <2>5, <2>7 DEF IInv1, TypeOK, Near
  <2>10. \A u \in Slots : u # s => itable'[u].lock = itable[u].lock
    BY <1>2, <2>1, <2>7 DEF Takes
  <2>11. LockStep(p)
    BY <1>2, <2>7, <2>10 DEF LockStep
  <2>12. Pointer(p, "cwd")' = cwd[p]
    <3>1. n0.pc = "bad"
      BY <2>4 DEF Shape
    <3> QED BY <1>1, <2>5, <3>1 DEF Pointer
  <2>13. Balanced(p, x, 0, k, s, k)
    BY <1>1, <1>5, <2>12, Consts DEF Balanced, One1, s, x
  <2>14. \A u \in Slots : itable'[u].lock = p <=> u = s
    BY <1>6, <2>7, <2>10
  <2>15. HandsAfter(p, "bad", x, 0, k, "drop", s, "unlock")
    BY <1>2, <2>14 DEF HandsAfter, HasIp, HasDp
  <2>16. itable'[x].valid
    BY <1>4, <2>8 DEF Gets
  <2>17. itable'[s].valid
    <3>1. tb[s].ref > 0
      BY <1>2 DEF Near
    <3>2. iget(tb, i)[s].valid
      BY <1>2, <2>1, <3>1 DEF Takes
    <3> QED BY <2>7, <3>2
  <2>18. ReliesAfter(p, "bad", x, 0, k, "drop", s, "unlock")
    BY <1>7, <2>16, <2>17, Consts DEF ReliesAfter, s, x
  <2> QED BY <1>2, <2>4, <2>5, <2>8, <2>9, <2>11, <2>13, <2>15, <2>18, CallMoves
<1>9. CASE /\ itable' = tb /\ ents' = dirlink(d, t.name, itable[x].inum)
           /\ th' = [th EXCEPT ![p] = n1]
  <2>1. /\ s \in Slots /\ x \in Slots /\ "drop" \in {"unlock", "drop"}
        /\ n1 = Done(<<Stage(s, "drop"), Stage(x, "drop")>>)
    BY <1>2, <1>4
  <2> HIDE DEF n1
  <2>2. n1 \in ThRec /\ ThreadOK(n1) /\ Shape(n1, "idle", 0, 0, s, "drop", x, "drop") /\ n1.pc = "idle"
    <3>1. n1 \in ThRec /\ ThreadOK(n1) /\ Shape(n1, "idle", 0, 0, s, "drop", x, "drop")
      BY <2>1, DoneTwo, ZenonT(30)
    <3> QED BY <3>1 DEF Shape
  <2>3. th'[p] = n1 /\ th' \in [Procs -> ThRec] /\ Frame(p)
    BY <1>1, <1>9, <2>2, ThSet DEF IInv1, Frame
  <2>4. itable[x].inum \in 0 .. NInodes
    BY <1>4, Consts
  <2>5. ents' \in [Inums -> [EntryNames -> 0 .. NInodes]]
    BY <1>2, <1>3, <1>9, <2>4, EntsIs DEF IInv1, dirlink
  <2>6. TypeOK'
    BY <1>1, <1>2, <1>9, <2>3, <2>5 DEF IInv1, TypeOK
  <2>7. Gets(0) /\ LockStep(p)
    BY <1>2, <1>9, NearGets DEF LockStep
  <2>8. Pointer(p, "cwd")' = cwd[p]
    BY <1>1, <2>2, <2>3 DEF Pointer
  <2>9. Balanced(p, 0, 0, s, x, 0)
    BY <1>1, <1>5, <2>8, Consts DEF Balanced, One1, s, x
  <2>10. \A u \in Slots : itable'[u].lock # p
    BY <1>2, <1>6, <1>9
  <2>11. HandsAfter(p, "idle", 0, 0, s, "drop", x, "drop")
    BY <2>10 DEF HandsAfter, HasIp, HasDp
  <2>12. ReliesAfter(p, "idle", 0, 0, s, "drop", x, "drop")
    BY Consts DEF ReliesAfter
  <2> QED BY <1>2, <2>2, <2>3, <2>6, <2>7, <2>9, <2>11, <2>12, CallMoves
<1>10. CASE itable' = tb /\ th' = [th EXCEPT ![p] = Failed(t, <<Stage(s, "drop")>>)] /\ UNCHANGED ents
  BY <1>1, <1>10, MoveFail DEF s, tb
<1>11. \/ i # 0 /\ itable' = Locked(iget(tb, i), s, p) /\ th' = [th EXCEPT ![p] = n0] /\ UNCHANGED ents
       \/ /\ itable' = tb /\ ents' = dirlink(d, t.name, itable[x].inum)
          /\ th' = [th EXCEPT ![p] = n1]
       \/ itable' = tb /\ th' = [th EXCEPT ![p] = Failed(t, <<Stage(s, "drop")>>)] /\ UNCHANGED ents
  BY DEF LinkDir, s, x, tb, d
<1> HIDE DEF n0, n1
<1> QED BY <1>8, <1>9, <1>10, <1>11

\* A walk begins at slot k, to which a reference has been taken.
LEMMA WalkMoves ==
  ASSUME IInv1, NEW p \in Procs, th[p].put = <<>>, th[p].pc \in {"idle", "link2"}, th[p].dp = 0,
         NEW t \in ThRec, t.op \in Ops \cup {"link2"}, t.dp = th[p].ip, t.put = <<>>,
         t.op = "link2" <=> th[p].pc = "link2", NEW names \in Seq(EntryNames),
         NEW k, Takes(itable, itable', k), th' = [th EXCEPT ![p] = Walk(t, k, names)],
         UNCHANGED <<dinode, ents, cwd, ofile, panic, astray>>
  PROVE  Moves(p)
<1> DEFINE x == th[p].ip
           u == [t EXCEPT !.ip = k, !.rest = names, !.pc = "namex"]
           puts == <<Stage(k, "drop")>>
           n == Walk(t, k, names)
<1>1. /\ k \in Slots /\ k # 0 /\ k \in 0 .. NInodes /\ Near(itable', itable') /\ Near(itable, itable)
      /\ itable' \in [Slots -> SlotRec] /\ \A s \in Slots : itable'[s].lock = itable[s].lock
  BY Consts DEF Takes, Near, IInv1, TypeOK
<1>2. Gets(k) /\ LockStep(p)
  BY <1>1, TakesGets DEF LockStep
<1>3. /\ x # 0 <=> th[p].pc = "link2"
      /\ x # 0 => x \in Slots /\ itable[x].valid /\ itable'[x].valid
  <2>1. x # 0 <=> th[p].pc = "link2"
    BY DEF IInv1, PlaceOK, ThreadOK
  <2>2. th[p].pc = "link2" => th[p].pc \in TrustsIp
    BY DEF TrustsIp
  <2>3. x # 0 => x \in Slots /\ itable[x].valid /\ itable[x].ref > 0
    BY <2>1, <2>2, AtIp, TrustIp
  <2> QED BY <1>2, <2>1, <2>3 DEF Gets
<1>4. \A s \in Slots : itable'[s].lock # p
  BY <1>1, Bare, BareHands
<1>5. Pointer(p, "cwd") = cwd[p]
  BY DEF Pointer
<1>6. th[p].pc = "link2" => th[p].pc \in TrustsIp
  BY DEF TrustsIp
<1>7. /\ u \in ThRec /\ u.op = t.op /\ u.ip = k /\ u.dp = t.dp /\ u.put = <<>> /\ u.rest = names
      /\ u.pc = "namex"
  BY <1>1 DEF ThRec, Places
<1>8. Stage(k, "drop") \in StageRec
  BY <1>1 DEF Stage, StageRec, Stages
<1>9. puts \in Seq(StageRec) /\ Len(puts) = 1 /\ puts[1] = Stage(k, "drop")
  BY <1>8, PutOne
<1>10. /\ names # <<>> => n = u
       /\ names = <<>> /\ WantsParent(t.op) => n = Failed(u, puts)
       /\ names = <<>> /\ ~WantsParent(t.op) => n = [u EXCEPT !.pc = "found"]
  BY DEF Walk
<1>11. th' = [th EXCEPT ![p] = n]
  OBVIOUS
<1> HIDE DEF u, puts, n, x
<1>12. ASSUME NEW pc \in {"namex", "found", "bad", "idle"}, NEW ip, NEW dp, NEW a,
              n \in ThRec, ThreadOK(n), Shape(n, pc, ip, dp, a, "drop", 0, "none"),
              \/ ip = k /\ dp = x /\ a = 0 /\ pc \in {"namex", "found"}
              \/ ip = x /\ dp = 0 /\ a = k /\ pc \in {"bad", "idle"}
       PROVE  Moves(p)
  <2>1. th'[p] = n /\ th' \in [Procs -> ThRec] /\ Frame(p)
    BY <1>11, <1>12, ThSet DEF IInv1, Frame
  <2>2. TypeOK'
    BY <1>1, <2>1 DEF IInv1, TypeOK
  <2>3. n.pc = pc
    BY <1>12 DEF Shape
  <2>4. Pointer(p, "cwd")' = cwd[p]
    BY <2>1, <2>3 DEF Pointer
  <2>5. Balanced(p, ip, dp, a, 0, k)
    BY <1>5, <1>12, <2>4, Consts DEF Balanced, One1, x
  <2>6. HandsAfter(p, pc, ip, dp, a, "drop", 0, "none")
    BY <1>4 DEF HandsAfter, HasIp, HasDp
  <2>7. pc \in TrustsIp => ip = x
    BY <1>12 DEF TrustsIp
  <2>9. dp = x \/ dp = 0
    BY <1>12
  <2>8. ReliesAfter(p, pc, ip, dp, a, "drop", 0, "none")
    BY <1>3, <1>6, <2>7, <2>9, Consts DEF ReliesAfter, x
  <2> QED BY <1>2, <1>12, <2>1, <2>2, <2>5, <2>6, <2>8, CallMoves
<1>13. CASE names # <<>>
  <2>1. n.pc = "namex" /\ n.ip = k /\ n.dp = x /\ Len(n.put) = 0 /\ n.rest # <<>> /\ n.op = t.op /\ n \in ThRec
    BY <1>7, <1>10, <1>13, NoLen DEF x
  <2>2. n.op # "none"
    BY <2>1 DEF Ops
  <2>3. ThreadOK(n)
    BY <1>1, <1>3, <2>1, <2>2 DEF ThreadOK, Alone
  <2>4. Shape(n, "namex", k, x, 0, "drop", 0, "none")
    BY <2>1 DEF Shape
  <2> QED BY <1>12, <2>1, <2>3, <2>4
<1>14. CASE names = <<>> /\ WantsParent(t.op) /\ t.op # "link2"
  <2>1. n = Done(<<Stage(k, "drop")>>)
    BY <1>7, <1>10, <1>14 DEF Failed, puts
  <2>2. n \in ThRec /\ ThreadOK(n) /\ Shape(n, "idle", 0, 0, k, "drop", 0, "none")
    BY <1>1, <2>1, DoneOne
  <2>3. x = 0
    BY <1>3, <1>14
  <2> QED BY <1>12, <2>2, <2>3
<1>15. CASE names = <<>> /\ t.op = "link2"
  <2>1. n = Failed(u, puts) /\ u.op = "link2" /\ u.dp # 0 /\ u.dp = x
    BY <1>3, <1>7, <1>10, <1>15 DEF WantsParent, x
  <2>2. n \in ThRec /\ ThreadOK(n) /\ Shape(n, "bad", x, 0, k, "drop", 0, "none")
    BY <1>1, <1>7, <1>9, <2>1, FailedIs
  <2> QED BY <1>12, <2>2
<1>16. CASE names = <<>> /\ ~WantsParent(t.op)
  <2>1. n.pc = "found" /\ n.ip = k /\ n.dp = x /\ Len(n.put) = 0 /\ n.op = t.op /\ n \in ThRec
    <3>1. n = [u EXCEPT !.pc = "found"]
      BY <1>10, <1>16
    <3>2. n \in ThRec /\ n.pc = "found" /\ n.ip = u.ip /\ n.dp = u.dp /\ n.put = u.put /\ n.op = u.op
      BY <1>7, <3>1 DEF ThRec, Places
    <3> QED BY <1>7, <3>2, NoLen DEF x
  <2>2. n.op \in {"open", "link", "chdir"}
    BY <1>16, <2>1 DEF WantsParent, Ops
  <2>5. x = 0
    BY <1>3, <2>1, <2>2
  <2>3. ThreadOK(n)
    BY <1>1, <2>1, <2>2, <2>5 DEF ThreadOK, Alone
  <2>4. Shape(n, "found", k, x, 0, "drop", 0, "none")
    BY <2>1 DEF Shape
  <2> QED BY <1>12, <2>1, <2>3, <2>4
<1> QED BY <1>13, <1>14, <1>15, <1>16

\* A walk starts with a reference to the root or to the current directory.
LEMMA StartTakes ==
  ASSUME IInv1, NEW p \in Procs, th[p].pc # "cd", NEW t, NEW path, StartWalk(p, t, path)
  PROVE  \E k \in Slots : /\ Takes(itable, itable', k) /\ th' = [th EXCEPT ![p] = Walk(t, k, path.names)]
                          /\ path.abs => k = IgetSlot(itable, ROOTINO) /\ itable'[k].inum = ROOTINO
                          /\ ~path.abs => k = cwd[p] /\ itable'[k].inum = itable[k].inum
<1>1. TableOK(itable)
  BY TableIs
<1>2. CASE path.abs
  <2> DEFINE k == IgetSlot(itable, ROOTINO)
  <2>1. itable' = iget(itable, ROOTINO) /\ th' = [th EXCEPT ![p] = Walk(t, k, path.names)]
    BY <1>2 DEF StartWalk
  <2>2. Takes(itable, itable', k) /\ itable'[k].inum = ROOTINO
    BY <1>1, <2>1, Consts, IgetTakes
  <2>3. k \in Slots
    BY <2>2 DEF Takes
  <2> QED BY <1>2, <2>1, <2>2, <2>3
<1>3. CASE ~path.abs
  <2>1. itable' = idup(itable, cwd[p]) /\ th' = [th EXCEPT ![p] = Walk(t, cwd[p], path.names)]
    BY <1>3 DEF StartWalk
  <2>2. cwd[p] \in Slots /\ Pointer(p, "cwd") = cwd[p] /\ "cwd" \in Pointers
    BY DEF IInv1, TypeOK, Pointer, Pointers
  <2>3. itable[cwd[p]].ref > 0
    BY <2>2, PointedTo
  <2>4. Takes(itable, itable', cwd[p]) /\ itable'[cwd[p]].inum = itable[cwd[p]].inum
    BY <1>1, <2>1, <2>2, <2>3, IdupTakes
  <2> QED BY <1>3, <2>1, <2>2, <2>4
<1> QED BY <1>2, <1>3

\* Every system call starts with a walk, but close().
LEMMA SyscallMoves ==
  ASSUME IInv1, NEW p \in Procs, NEW c \in Calls, Syscall(p, c)
  PROVE  Moves(p)
<1> DEFINE t == [IdleThread EXCEPT !.op = c.op]
<1>1. /\ th[p] = IdleThread /\ StartWalk(p, t, c) /\ UNCHANGED <<dinode, ents, cwd, ofile, panic, astray>>
  BY DEF Syscall
<1>2. c.op \in Ops /\ c.names \in Seq(EntryNames)
  BY InodesAssumption
<1>3. th[p].put = <<>> /\ th[p].pc = "idle" /\ th[p].ip = 0 /\ th[p].dp = 0
  BY <1>1, IdleIs
<1>4. t \in ThRec /\ t.op = c.op /\ t.dp = 0 /\ t.put = <<>>
  <2>1. IdleThread \in ThRec /\ IdleThread.put = <<>> /\ IdleThread.dp = 0
    BY IdleIs
  <2> QED BY <1>2, <2>1 DEF ThRec
<1>5. c.op # "link2"
  BY <1>2 DEF Ops
<1> HIDE DEF t
<1>6. PICK k \in Slots : Takes(itable, itable', k) /\ th' = [th EXCEPT ![p] = Walk(t, k, c.names)]
  BY <1>1, <1>3, StartTakes
<1> QED BY <1>1, <1>2, <1>3, <1>4, <1>5, <1>6, WalkMoves

\* link() walks to the parent of the new name.
LEMMA LinkNewMoves ==
  ASSUME IInv1, NEW p \in Procs, NEW path \in NewPaths, LinkNew(p, path)
  PROVE  Moves(p)
<1> DEFINE t == [IdleThread EXCEPT !.op = "link2", !.dp = th[p].ip]
<1>1. /\ th[p].pc = "link2" /\ StartWalk(p, t, path) /\ UNCHANGED <<dinode, ents, cwd, ofile, panic, astray>>
  BY DEF LinkNew
<1>2. path.names \in Seq(EntryNames)
  BY InodesAssumption
<1>3. th[p].dp = 0 /\ Len(th[p].put) = 0 /\ th[p] \in ThRec
  BY <1>1 DEF IInv1, TypeOK, PlaceOK, ThreadOK, Alone
<1>7. th[p].put \in Seq(StageRec) /\ th[p].ip \in 0 .. NInodes
  BY <1>3 DEF ThRec
<1>8. th[p].put = <<>>
  BY <1>3, <1>7, EmptySeq, Zenon
<1>4. t \in ThRec /\ t.op = "link2" /\ t.dp = th[p].ip /\ t.put = <<>>
  <2>1. IdleThread \in ThRec /\ IdleThread.put = <<>> /\ IdleThread.dp = 0
    BY IdleIs
  <2> QED BY <1>7, <2>1 DEF ThRec
<1> HIDE DEF t
<1>6. PICK k \in Slots : Takes(itable, itable', k) /\ th' = [th EXCEPT ![p] = Walk(t, k, path.names)]
  BY <1>1, StartTakes
<1> QED BY <1>1, <1>2, <1>3, <1>4, <1>6, <1>8, WalkMoves

-----------------------------------------------------------------------------
(* Steps of iput(). *)

\* The list of a thread with something to drop.
PutAt(t, a, x, b, y) ==
  /\ a \in Slots /\ x \in Stages /\ t.put[1] = Stage(a, x) /\ Len(t.put) >= 1
  /\ Head(t.put) = t.put[1] /\ t.put \in Seq(StageRec) /\ t.put # <<>>
  /\ \/ b = 0 /\ y = "none" /\ Len(t.put) = 1
     \/ b \in Slots /\ y \in {"unlock", "drop"} /\ Len(t.put) = 2 /\ t.put[2] = Stage(b, y)

\* Arithmetic.
LEMMA OneOrTwo == \A n \in Nat : n >= 1 /\ (n <= 1 \/ n = 2) => n = 1 \/ n = 2
OBVIOUS

\* The inodes that p has to drop: one, or two.
LEMMA PutList ==
  ASSUME IInv1, NEW p \in Procs, th[p].put # <<>>
  PROVE  \E a, x, b, y : PutAt(th[p], a, x, b, y)
<1> DEFINE put == th[p].put
<1>1. put \in Seq(StageRec) /\ put # <<>> /\ ThreadOK(th[p])
  BY DEF IInv1, TypeOK, PlaceOK, ThRec
<1>2. /\ Len(put) \in Nat /\ Len(put) >= 1 /\ Head(put) = put[1] /\ put[1] \in StageRec
      /\ Len(put) >= 2 => put[2] \in StageRec
  BY <1>1, PutHead
<1>3. \A e \in StageRec : e.s \in Slots /\ e.at \in Stages /\ e = Stage(e.s, e.at)
  BY DEF StageRec, Stage
<1>4. Len(put) = 1 \/ (Len(put) = 2 /\ put[2].at \in {"unlock", "drop"})
  <2>1. /\ Len(put) <= 1 \/ Len(put) = 2
        /\ Len(put) = 2 => put[2].at \in {"unlock", "drop"}
    BY <1>1 DEF ThreadOK
  <2>2. Len(put) = 1 \/ Len(put) = 2
    BY <1>2, <2>1, OneOrTwo, Zenon
  <2> QED BY <2>1, <2>2
<1>5. CASE Len(put) = 1
  <2>1. PutAt(th[p], put[1].s, put[1].at, 0, "none")
    BY <1>1, <1>2, <1>3, <1>5 DEF PutAt
  <2> QED BY <2>1
<1>6. CASE Len(put) = 2 /\ put[2].at \in {"unlock", "drop"}
  <2>1. put[2] \in StageRec
    BY <1>2, <1>6
  <2>2. put[2].s \in Slots /\ put[2] = Stage(put[2].s, put[2].at)
    BY <1>3, <2>1
  <2>3. PutAt(th[p], put[1].s, put[1].at, put[2].s, put[2].at)
    BY <1>1, <1>2, <1>3, <1>6, <2>2 DEF PutAt
  <2> QED BY <2>3
<1> QED BY <1>4, <1>5, <1>6

\* Its head is the inode iput() works on, and it has the shape it says.
LEMMA PutIs ==
  ASSUME IInv1, NEW p \in Procs, NEW a, NEW x, NEW b, NEW y, PutAt(th[p], a, x, b, y)
  PROVE  /\ Head(th[p].put).s = a /\ Head(th[p].put).at = x /\ a \in Slots /\ a # 0 /\ x \in Stages
         /\ Shape(th[p], th[p].pc, th[p].ip, th[p].dp, a, x, b, y)
         /\ itable[a].ref > 0 /\ itable[a].ref \in Nat /\ itable[a].inum \in Inums
         /\ Pointer(p, "put1") = a /\ Pointer(p, "put2") = b
         /\ b = 0 \/ b \in Slots
         /\ y \in {"unlock", "drop", "none"}
<1>1. /\ Head(th[p].put).s = a /\ Head(th[p].put).at = x /\ a \in Slots /\ a # 0 /\ x \in Stages
  BY StageIs, Consts DEF PutAt
<1>2. Shape(th[p], th[p].pc, th[p].ip, th[p].dp, a, x, b, y)
  <2>1. CASE b = 0 /\ y = "none" /\ Len(th[p].put) = 1
    BY <1>1, <2>1 DEF PutAt, Shape
  <2>2. CASE b \in Slots /\ Len(th[p].put) = 2 /\ th[p].put[2] = Stage(b, y)
    BY <1>1, <2>2, Consts DEF PutAt, Shape
  <2> QED BY <2>1, <2>2 DEF PutAt
<1>3. Looks(p, th[p].pc, th[p].ip, th[p].dp, a, x, b, y)
  BY <1>2, ShapeAt
<1>4. Pointer(p, "put1") = a /\ Pointer(p, "put2") = b /\ "put1" \in Pointers
  BY <1>3 DEF Looks, Pointers
<1> QED BY <1>1, <1>2, <1>4, PointedTo DEF PutAt

\* The list new is put with its first inode at another stage.
Advanced(put, new, at) ==
  /\ new \in Seq(StageRec) /\ Len(new) = Len(put) /\ new # <<>> /\ Head(new) = new[1]
  /\ new[1] = Stage(put[1].s, at) /\ (Len(put) >= 2 => new[2] = put[2])

\* The list of inodes to drop when the first comes to another stage.
LEMMA AdvancedIs ==
  ASSUME NEW put \in Seq(StageRec), put # <<>>, NEW at \in Stages,
         NEW new, new = [put EXCEPT ![1].at = at]
  PROVE  Advanced(put, new, at)
<1>1. /\ new \in Seq(StageRec) /\ Len(new) = Len(put) /\ new # <<>>
      /\ new[1] = Stage(put[1].s, at)
      /\ Len(put) >= 2 => new[2] = put[2]
  BY PutAdvance
<1>2. Head(new) = new[1]
  BY <1>1, PutHead
<1> QED BY <1>1, <1>2 DEF Advanced

\* n is t with another list.
WithPut(t, new, n) == n = [t EXCEPT !.put = new]

\* A system call whose first inode to drop comes to another stage.
LEMMA AdvanceThread ==
  ASSUME NEW t \in ThRec, ThreadOK(t), NEW a, NEW x, NEW b, NEW y, PutAt(t, a, x, b, y),
         NEW x1 \in Stages, NEW new, Advanced(t.put, new, x1), NEW n, WithPut(t, new, n)
  PROVE  /\ n \in ThRec /\ ThreadOK(n) /\ PutAt(n, a, x1, b, y)
         /\ Shape(n, t.pc, t.ip, t.dp, a, x1, b, y)
         /\ n.pc = t.pc /\ n.ip = t.ip /\ n.dp = t.dp /\ n.op = t.op /\ n.name = t.name
<1>1. /\ n \in ThRec /\ n.put = new /\ n.pc = t.pc /\ n.ip = t.ip /\ n.dp = t.dp /\ n.op = t.op
      /\ n.name = t.name /\ n.rest = t.rest
  BY DEF ThRec, Advanced, WithPut
<1>2. t.put[1].s = a /\ a # 0 /\ a \in Slots
  BY StageIs, Consts DEF PutAt
<1>3. /\ n.put \in Seq(StageRec) /\ Len(n.put) = Len(t.put) /\ n.put # <<>> /\ Head(n.put) = n.put[1]
      /\ n.put[1] = Stage(a, x1) /\ (Len(t.put) >= 2 => n.put[2] = t.put[2])
  BY <1>1, <1>2 DEF Advanced
<1>4. Len(t.put) \in Nat /\ Len(t.put) >= 1
  <2>1. t.put \in Seq(StageRec) /\ t.put # <<>>
    BY DEF PutAt
  <2> QED BY <2>1, PutHead
<1>5. ThreadOK(n)
  BY <1>1, <1>3, <1>4 DEF ThreadOK
<1>6. CASE b = 0 /\ y = "none" /\ Len(t.put) = 1
  <2>1. PutAt(n, a, x1, b, y)
    BY <1>2, <1>3, <1>4, <1>6 DEF PutAt
  <2>2. Shape(n, t.pc, t.ip, t.dp, a, x1, b, y)
    BY <1>1, <1>2, <1>3, <1>4, <1>6 DEF Shape
  <2> QED BY <1>1, <1>5, <2>1, <2>2
<1>7. CASE b \in Slots /\ y \in {"unlock", "drop"} /\ Len(t.put) = 2 /\ t.put[2] = Stage(b, y)
  <2>1. PutAt(n, a, x1, b, y)
    BY <1>2, <1>3, <1>4, <1>7 DEF PutAt
  <2>3. b # 0 /\ Len(n.put) >= 2 /\ Len(n.put) >= 1 /\ n.put[2] = Stage(b, y)
    BY <1>3, <1>7, Consts
  <2>2. Shape(n, t.pc, t.ip, t.dp, a, x1, b, y)
    BY <1>1, <1>2, <1>3, <2>3 DEF Shape
  <2> QED BY <1>1, <1>5, <2>1, <2>2
<1> QED BY <1>6, <1>7 DEF PutAt

\* The first inode of the list is one stage further.
LEMMA AdvanceShape ==
  ASSUME IInv1, NEW p \in Procs, NEW a, NEW x, NEW b, NEW y, PutAt(th[p], a, x, b, y),
         NEW x1 \in Stages, Advance(p, x1), UNCHANGED <<cwd, ofile>>
  PROVE  /\ th' \in [Procs -> ThRec] /\ Frame(p) /\ ThreadOK(th'[p])
         /\ Shape(th'[p], th[p].pc, th[p].ip, th[p].dp, a, x1, b, y)
         /\ PutAt(th'[p], a, x1, b, y) /\ th'[p].op = th[p].op /\ th'[p].name = th[p].name
         /\ th'[p].pc = th[p].pc /\ th'[p].ip = th[p].ip /\ th'[p].dp = th[p].dp
<1> DEFINE t == th[p]
           new == [t.put EXCEPT ![1].at = x1]
           n == [t EXCEPT !.put = new]
<1>1. t \in ThRec /\ ThreadOK(t) /\ t.put \in Seq(StageRec) /\ t.put # <<>>
  BY DEF IInv1, TypeOK, PlaceOK, PutAt
<1>2. th' = [th EXCEPT ![p] = n]
  BY DEF Advance, IInv1, TypeOK
<1>3. Advanced(t.put, new, x1)
  BY <1>1, AdvancedIs
<1> HIDE DEF new
<1>6. WithPut(t, new, n) /\ t \in ThRec /\ ThreadOK(t)
  BY <1>1 DEF WithPut
<1> HIDE DEF n
<1>4. /\ n \in ThRec /\ ThreadOK(n) /\ PutAt(n, a, x1, b, y)
      /\ Shape(n, t.pc, t.ip, t.dp, a, x1, b, y)
      /\ n.pc = t.pc /\ n.ip = t.ip /\ n.dp = t.dp /\ n.op = t.op /\ n.name = t.name
  BY <1>3, <1>6, AdvanceThread
<1>5. th'[p] = n /\ th' \in [Procs -> ThRec] /\ Frame(p)
  BY <1>2, <1>4, ThSet DEF IInv1, Frame
<1> QED BY <1>4, <1>5

\* The list new is put without its first inode.
Popped(put, new) ==
  /\ new \in Seq(StageRec)
  /\ Len(put) = 1 => Len(new) = 0
  /\ Len(put) = 2 => Len(new) = 1 /\ new[1] = put[2]

\* The list of inodes to drop without the first.
LEMMA PoppedIs ==
  ASSUME NEW put \in Seq(StageRec), put # <<>>, NEW new, new = Tail(put)
  PROVE  Popped(put, new)
<1>1. /\ new \in Seq(StageRec) /\ Len(new) = Len(put) - 1
      /\ Len(put) >= 2 => new[1] = put[2]
  BY PutTail
<1> QED BY <1>1 DEF Popped

\* Arithmetic.
LEMMA LenOne == \A n : n = 1 => n <= 1 /\ n >= 1 /\ n # 2 /\ n # 0
OBVIOUS

\* A place allows fewer inodes to drop than it has.
LEMMA ThreadPut ==
  ASSUME NEW t, NEW n, ThreadOK(t), n.pc = t.pc, n.ip = t.ip, n.dp = t.dp, n.op = t.op,
         n.name = t.name, n.rest = t.rest, t.pc \notin Alone, Len(n.put) <= 1, Len(n.put) # 2
  PROVE  ThreadOK(n)
BY ZenonT(30) DEF ThreadOK

\* The first inode of the list is done with.
LEMMA PopThread ==
  ASSUME NEW t \in ThRec, ThreadOK(t), NEW a, NEW x, NEW b, NEW y, PutAt(t, a, x, b, y),
         NEW new, Popped(t.put, new), NEW n, WithPut(t, new, n)
  PROVE  /\ n \in ThRec /\ ThreadOK(n) /\ Shape(n, t.pc, t.ip, t.dp, b, y, 0, "none")
         /\ n.pc = t.pc /\ n.ip = t.ip /\ n.dp = t.dp /\ n.op = t.op /\ n.name = t.name
<1>1. /\ n \in ThRec /\ n.put = new /\ n.pc = t.pc /\ n.ip = t.ip /\ n.dp = t.dp /\ n.op = t.op
      /\ n.name = t.name /\ n.rest = t.rest
  BY DEF ThRec, Popped, WithPut
<1>4. /\ Len(t.put) = 1 => Len(n.put) = 0
      /\ Len(t.put) = 2 => Len(n.put) = 1 /\ n.put[1] = t.put[2]
  BY <1>1 DEF Popped
<1>2. CASE b = 0 /\ y = "none" /\ Len(t.put) = 1
  <2>1. Len(n.put) = 0 /\ Len(t.put) # 0
    BY <1>2, <1>4
  <2>2. ThreadOK(n)
    BY <1>1, <2>1 DEF ThreadOK
  <2>3. Shape(n, t.pc, t.ip, t.dp, b, y, 0, "none")
    BY <1>1, <1>2, <2>1 DEF Shape
  <2> QED BY <1>1, <2>2, <2>3
<1>3. CASE b \in Slots /\ y \in {"unlock", "drop"} /\ Len(t.put) = 2 /\ t.put[2] = Stage(b, y)
  <2>1. Len(n.put) = 1 /\ Len(t.put) # 0 /\ n.put[1] = Stage(b, y) /\ b # 0
    BY <1>3, <1>4, Consts
  <2>4. t.pc \notin Alone
    BY <2>1 DEF ThreadOK
  <2>5. Len(n.put) <= 1 /\ Len(n.put) # 2 /\ Len(n.put) >= 1
    BY <2>1, LenOne, Zenon
  <2>2. ThreadOK(n)
    BY <1>1, <2>4, <2>5, ThreadPut, ZenonT(30)
  <2>3. Shape(n, t.pc, t.ip, t.dp, b, y, 0, "none")
    BY <1>1, <2>1, <2>5, Zenon DEF Shape
  <2> QED BY <1>1, <2>2, <2>3
<1> QED BY <1>2, <1>3 DEF PutAt

\* A system call after the first of its inodes has been dropped.
LEMMA PopShape ==
  ASSUME IInv1, NEW p \in Procs, NEW a, NEW x, NEW b, NEW y, PutAt(th[p], a, x, b, y),
         th' = [th EXCEPT ![p].put = Tail(@)], UNCHANGED <<cwd, ofile>>
  PROVE  /\ th' \in [Procs -> ThRec] /\ Frame(p) /\ ThreadOK(th'[p])
         /\ Shape(th'[p], th[p].pc, th[p].ip, th[p].dp, b, y, 0, "none")
         /\ th'[p].op = th[p].op /\ th'[p].name = th[p].name
         /\ th'[p].pc = th[p].pc /\ th'[p].ip = th[p].ip /\ th'[p].dp = th[p].dp
<1> DEFINE t == th[p]
           new == Tail(t.put)
           n == [t EXCEPT !.put = new]
<1>1. t \in ThRec /\ ThreadOK(t) /\ t.put \in Seq(StageRec) /\ t.put # <<>>
  BY DEF IInv1, TypeOK, PlaceOK, PutAt
<1>2. Popped(t.put, new)
  BY <1>1, PoppedIs
<1>3. th' = [th EXCEPT ![p] = n]
  BY DEF IInv1, TypeOK
<1> HIDE DEF new
<1>6. WithPut(t, new, n) /\ t \in ThRec /\ ThreadOK(t)
  BY <1>1 DEF WithPut
<1> HIDE DEF n
<1>4. /\ n \in ThRec /\ ThreadOK(n) /\ Shape(n, t.pc, t.ip, t.dp, b, y, 0, "none")
      /\ n.pc = t.pc /\ n.ip = t.ip /\ n.dp = t.dp /\ n.op = t.op /\ n.name = t.name
  BY <1>2, <1>6, PopThread
<1>5. th'[p] = n /\ th' \in [Procs -> ThRec] /\ Frame(p)
  BY <1>3, <1>4, ThSet DEF IInv1, Frame
<1> QED BY <1>4, <1>5

\* Slot a has changed, and no other.
Only(a) ==
  /\ itable' \in [Slots -> SlotRec]
  /\ itable'[a].inum = itable[a].inum
  /\ \A u \in Slots : u # a => itable'[u] = itable[u]

\* Setting a reference count changes nothing else.
LEMMA RefIs ==
  ASSUME NEW t \in [Slots -> SlotRec], NEW a \in Slots, NEW n \in Int,
         NEW T, T = [t EXCEPT ![a].ref = n]
  PROVE  /\ T \in [Slots -> SlotRec] /\ T[a].ref = n
         /\ T[a].inum = t[a].inum /\ T[a].lock = t[a].lock /\ T[a].valid = t[a].valid
         /\ T[a].type = t[a].type /\ T[a].nlink = t[a].nlink
         /\ \A u \in Slots : u # a => T[u] = t[u]
<1> DEFINE r == [t[a] EXCEPT !.ref = n]
<1>1. T = [t EXCEPT ![a] = r] /\ t[a] \in SlotRec
  OBVIOUS
<1>2. /\ r \in SlotRec /\ r.lock = t[a].lock /\ r.inum = t[a].inum /\ r.ref = n
      /\ r.valid = t[a].valid /\ r.type = t[a].type /\ r.nlink = t[a].nlink
  BY <1>1 DEF SlotRec
<1> HIDE DEF r
<1>3. T \in [Slots -> SlotRec] /\ T[a] = r /\ \A u \in Slots : u # a => T[u] = t[u]
  BY <1>1, <1>2
<1> QED BY <1>2, <1>3

\* What its pointers, locks and trust are, by Looks.
LEMMA LooksView ==
  ASSUME NEW p, NEW pc, NEW ip, NEW dp, NEW a, NEW x, NEW b, NEW y, Looks(p, pc, ip, dp, a, x, b, y)
  PROVE  /\ Pointer(p, "ip") = ip /\ Pointer(p, "dp") = dp
         /\ Pointer(p, "put1") = a /\ Pointer(p, "put2") = b
         /\ Holds(th[p], "ip") <=> pc \in HasIp
         /\ Holds(th[p], "dp") <=> pc \in HasDp
         /\ Holds(th[p], "put1") <=> a # 0 /\ x \in {"unlock", "erase", "release"}
         /\ Holds(th[p], "put2") <=> b # 0 /\ y = "unlock"
         /\ ~Holds(th[p], "cwd") /\ ~Holds(th[p], "ofile")
         /\ Firm(th[p], "ip") <=> pc \in TrustsIp
         /\ Firm(th[p], "dp") <=> dp # 0
         /\ Firm(th[p], "put1") <=> a # 0 /\ x = "unlock"
         /\ Firm(th[p], "put2") <=> b # 0 /\ y = "unlock"
         /\ ~Firm(th[p], "cwd") /\ ~Firm(th[p], "ofile")
         /\ \A s : /\ Erasing(p, s) <=> a # 0 /\ x = "erase" /\ a = s
                   /\ Releasing(p, s) <=> a # 0 /\ x = "release" /\ a = s
BY DEF Looks, Pointers, HasIp, HasDp

\* As a state formula, so that it holds of the next state too.
ViewsOK ==
  \A p, pc, ip, dp, a, x, b, y : Looks(p, pc, ip, dp, a, x, b, y) =>
         /\ Pointer(p, "ip") = ip /\ Pointer(p, "dp") = dp
         /\ Pointer(p, "put1") = a /\ Pointer(p, "put2") = b
         /\ Holds(th[p], "ip") <=> pc \in HasIp
         /\ Holds(th[p], "dp") <=> pc \in HasDp
         /\ Holds(th[p], "put1") <=> a # 0 /\ x \in {"unlock", "erase", "release"}
         /\ Holds(th[p], "put2") <=> b # 0 /\ y = "unlock"
         /\ ~Holds(th[p], "cwd") /\ ~Holds(th[p], "ofile")
         /\ Firm(th[p], "ip") <=> pc \in TrustsIp
         /\ Firm(th[p], "dp") <=> dp # 0
         /\ Firm(th[p], "put1") <=> a # 0 /\ x = "unlock"
         /\ Firm(th[p], "put2") <=> b # 0 /\ y = "unlock"
         /\ ~Firm(th[p], "cwd") /\ ~Firm(th[p], "ofile")
         /\ \A s : /\ Erasing(p, s) <=> a # 0 /\ x = "erase" /\ a = s
                   /\ Releasing(p, s) <=> a # 0 /\ x = "release" /\ a = s

\* Which variable each pointer is ...
LEMMA ViewsAlways == ViewsOK
BY LooksView DEF ViewsOK

\* ... after a step too.
LEMMA ViewsNext == ViewsOK'
BY ViewsAlways, PTL

\* The pointers and locks of a process whose variables are given, one by one.
LEMMA LooksAfter ==
  ASSUME NEW p, NEW pc, NEW ip, NEW dp, NEW a, NEW x, NEW b, NEW y,
         Looks(p, pc, ip, dp, a, x, b, y)'
  PROVE  /\ Pointer(p, "ip")' = ip /\ Pointer(p, "dp")' = dp
         /\ Pointer(p, "put1")' = a /\ Pointer(p, "put2")' = b
         /\ Holds(th'[p], "ip") <=> pc \in HasIp
         /\ Holds(th'[p], "dp") <=> pc \in HasDp
         /\ Holds(th'[p], "put1") <=> a # 0 /\ x \in {"unlock", "erase", "release"}
         /\ Holds(th'[p], "put2") <=> b # 0 /\ y = "unlock"
         /\ ~Holds(th'[p], "cwd") /\ ~Holds(th'[p], "ofile")
         /\ Firm(th'[p], "ip") <=> pc \in TrustsIp
         /\ Firm(th'[p], "dp") <=> dp # 0
         /\ Firm(th'[p], "put1") <=> a # 0 /\ x = "unlock"
         /\ Firm(th'[p], "put2") <=> b # 0 /\ y = "unlock"
         /\ ~Firm(th'[p], "cwd") /\ ~Firm(th'[p], "ofile")
         /\ \A s : /\ Erasing(p, s)' <=> a # 0 /\ x = "erase" /\ a = s
                   /\ Releasing(p, s)' <=> a # 0 /\ x = "release" /\ a = s
<1>1. ViewsOK'
  BY ViewsNext
<1> QED BY <1>1, Zenon DEF ViewsOK

\* The pointers of p but for the list stay.
LEMMA PutFrame ==
  ASSUME NEW p, th'[p].pc = th[p].pc, th'[p].ip = th[p].ip, th'[p].dp = th[p].dp,
         UNCHANGED <<cwd, ofile>>
  PROVE  /\ Pointer(p, "cwd")' = Pointer(p, "cwd") /\ Pointer(p, "ofile")' = Pointer(p, "ofile")
         /\ Pointer(p, "ip")' = Pointer(p, "ip") /\ Pointer(p, "dp")' = Pointer(p, "dp")
BY DEF Pointer

\* The step drops the reference to the first inode.
LEMMA PopMoves ==
  ASSUME IInv1, NEW p \in Procs, NEW a, NEW x \in {"drop", "last"}, NEW b, NEW y,
         PutAt(th[p], a, x, b, y), th' = [th EXCEPT ![p].put = Tail(@)],
         itable' = [itable EXCEPT ![a].ref = @ - 1],
         UNCHANGED <<dinode, ents, cwd, ofile, panic, calls, astray>>
  PROVE  Moves(p)
<1>0. PICK pc, ip, dp : pc = th[p].pc /\ ip = th[p].ip /\ dp = th[p].dp
  OBVIOUS
<1>1. /\ a \in Slots /\ a # 0 /\ Shape(th[p], pc, ip, dp, a, x, b, y)
      /\ itable[a].ref > 0 /\ itable[a].ref \in Nat /\ itable[a].inum \in Inums
      /\ b = 0 \/ b \in Slots
      /\ y \in {"unlock", "drop", "none"}
  BY <1>0, PutIs
<1>2. /\ th' \in [Procs -> ThRec] /\ Frame(p) /\ ThreadOK(th'[p])
      /\ Shape(th'[p], pc, ip, dp, b, y, 0, "none")
      /\ th'[p].pc = th[p].pc /\ th'[p].ip = th[p].ip /\ th'[p].dp = th[p].dp
  BY <1>0, PopShape
<1>3. /\ itable' \in [Slots -> SlotRec] /\ itable'[a].ref = itable[a].ref - 1
      /\ itable'[a].inum = itable[a].inum /\ itable'[a].lock = itable[a].lock
      /\ itable'[a].valid = itable[a].valid
      /\ \A u \in Slots : u # a => itable'[u] = itable[u]
  <2>1. itable \in [Slots -> SlotRec] /\ a \in Slots /\ itable[a].ref - 1 \in Int
    BY <1>1 DEF IInv1, TypeOK
  <2>2. itable' = [itable EXCEPT ![a].ref = itable[a].ref - 1]
    OBVIOUS
  <2> QED BY <2>1, <2>2, RefIs
<1>4. TypeOK'
  BY <1>2, <1>3 DEF IInv1, TypeOK
<1>5. Looks(p, pc, ip, dp, a, x, b, y) /\ Looks(p, pc, ip, dp, b, y, 0, "none")'
  BY <1>1, <1>2, ShapeAt, ShapeAfter
<1>6. /\ Pointer(p, "ip") = ip /\ Pointer(p, "dp") = dp
      /\ Pointer(p, "put1") = a /\ Pointer(p, "put2") = b
      /\ Holds(th[p], "ip") <=> pc \in HasIp
      /\ Holds(th[p], "dp") <=> pc \in HasDp
      /\ ~Holds(th[p], "put1")
      /\ Holds(th[p], "put2") <=> b # 0 /\ y = "unlock"
      /\ ~Holds(th[p], "cwd") /\ ~Holds(th[p], "ofile")
      /\ Firm(th[p], "ip") <=> pc \in TrustsIp
      /\ Firm(th[p], "dp") <=> dp # 0
      /\ ~Firm(th[p], "put1")
      /\ Firm(th[p], "put2") <=> b # 0 /\ y = "unlock"
      /\ ~Firm(th[p], "cwd") /\ ~Firm(th[p], "ofile")
  BY <1>5, LooksView
<1>7. /\ Pointer(p, "put1")' = b /\ Pointer(p, "put2")' = 0
      /\ Holds(th'[p], "ip") <=> pc \in HasIp
      /\ Holds(th'[p], "dp") <=> pc \in HasDp
      /\ Holds(th'[p], "put1") <=> b # 0 /\ y \in {"unlock", "erase", "release"}
      /\ ~Holds(th'[p], "put2")
      /\ ~Holds(th'[p], "cwd") /\ ~Holds(th'[p], "ofile")
      /\ Firm(th'[p], "ip") <=> pc \in TrustsIp
      /\ Firm(th'[p], "dp") <=> dp # 0
      /\ Firm(th'[p], "put1") <=> b # 0 /\ y = "unlock"
      /\ ~Firm(th'[p], "put2")
      /\ ~Firm(th'[p], "cwd") /\ ~Firm(th'[p], "ofile")
      /\ \A s : ~Erasing(p, s)' /\ ~Releasing(p, s)'
  <2>1. Looks(p, pc, ip, dp, b, y, 0, "none")'
    BY <1>5
  <2>2. /\ Pointer(p, "put1")' = b /\ Pointer(p, "put2")' = 0
        /\ Holds(th'[p], "ip") <=> pc \in HasIp
        /\ Holds(th'[p], "dp") <=> pc \in HasDp
        /\ Holds(th'[p], "put1") <=> b # 0 /\ y \in {"unlock", "erase", "release"}
        /\ Holds(th'[p], "put2") <=> 0 # 0 /\ "none" = "unlock"
        /\ ~Holds(th'[p], "cwd") /\ ~Holds(th'[p], "ofile")
        /\ Firm(th'[p], "ip") <=> pc \in TrustsIp
        /\ Firm(th'[p], "dp") <=> dp # 0
        /\ Firm(th'[p], "put1") <=> b # 0 /\ y = "unlock"
        /\ Firm(th'[p], "put2") <=> 0 # 0 /\ "none" = "unlock"
        /\ ~Firm(th'[p], "cwd") /\ ~Firm(th'[p], "ofile")
        /\ \A s : /\ Erasing(p, s)' <=> b # 0 /\ y = "erase" /\ b = s
                  /\ Releasing(p, s)' <=> b # 0 /\ y = "release" /\ b = s
    BY <2>1, LooksAfter, Zenon
  <2>3. y # "erase" /\ y # "release"
    BY <1>1
  <2> QED BY <2>2, <2>3
<1>8. /\ Pointer(p, "cwd")' = Pointer(p, "cwd") /\ Pointer(p, "ofile")' = Pointer(p, "ofile")
      /\ Pointer(p, "ip")' = ip /\ Pointer(p, "dp")' = dp
  BY <1>2, <1>6, PutFrame
<1>9. Counts(p)
  <2>1. ASSUME NEW s \in Slots PROVE itable'[s].ref = itable[s].ref + Own(p, s)' - Own(p, s)
    <3>1. 0 # s
      BY Consts
    <3>2. Own(p, s)' = One1(Pointer(p, "cwd")', s) + One1(Pointer(p, "ofile")', s) + One1(Pointer(p, "ip")', s)
             + One1(Pointer(p, "dp")', s) + One1(Pointer(p, "put1")', s) + One1(Pointer(p, "put2")', s)
      BY DEF Own, One, One1
    <3>3. Own(p, s) = One1(Pointer(p, "cwd"), s) + One1(Pointer(p, "ofile"), s) + One1(Pointer(p, "ip"), s)
             + One1(Pointer(p, "dp"), s) + One1(Pointer(p, "put1"), s) + One1(Pointer(p, "put2"), s)
      BY DEF Own, One, One1
    <3>4. One1(0, s) = 0 /\ \A z : One1(z, s) \in Nat
      BY <3>1 DEF One1
    <3> DEFINE Z == One1(Pointer(p, "cwd"), s) + One1(Pointer(p, "ofile"), s) + One1(ip, s) + One1(dp, s)
    <3>9. Own(p, s)' = Z + One1(b, s) + One1(0, s)
      BY <1>7, <1>8, <3>2
    <3>10. Own(p, s) = Z + One1(a, s) + One1(b, s)
      BY <1>6, <3>3
    <3>11. Z \in Nat /\ One1(a, s) \in Nat /\ One1(b, s) \in Nat
      BY <3>4
    <3> HIDE DEF Z
    <3>5. Own(p, s) = Own(p, s)' + One1(a, s) /\ Own(p, s)' \in Nat /\ Own(p, s) \in Nat
      BY <3>4, <3>9, <3>10, <3>11
    <3>6. itable[s].ref \in Nat
      BY TableIs DEF TableOK
    <3>7. CASE s = a
      BY <1>3, <3>5, <3>6, <3>7 DEF One1
    <3>8. CASE s # a
      BY <1>3, <3>5, <3>6, <3>8 DEF One1
    <3> QED BY <3>7, <3>8
  <2>2. \A s \in Slots : itable[s].ref \in Nat
    BY TableIs DEF TableOK
  <2> QED BY <1>1, <1>3, <2>1, <2>2 DEF Counts
<1>10. /\ \A v, w \in Pointers : Holds(th[p], v) /\ Holds(th[p], w) /\ Pointer(p, v) = Pointer(p, w) => v = w
       /\ \A v \in Pointers : Holds(th[p], v) => itable[Pointer(p, v)].lock = p
       /\ \A s \in Slots : itable[s].lock = p => \E v \in Pointers : Holds(th[p], v) /\ Pointer(p, v) = s
       /\ \A v \in Pointers : Firm(th[p], v) => itable[Pointer(p, v)].valid
       /\ \A v \in Pointers : Holds(th[p], v) \/ Firm(th[p], v) => Pointer(p, v) \in Slots
  BY PointerSlots DEF IInv1, LockOK, FirmOK
<1>11. \A u \in Slots : itable'[u].lock = itable[u].lock /\ itable'[u].valid = itable[u].valid
  BY <1>3
<1>12. \A v \in Pointers : v \in {"cwd", "ofile", "ip", "dp", "put1", "put2"}
  BY DEF Pointers
<1>13. /\ "cwd" \in Pointers /\ "ofile" \in Pointers /\ "ip" \in Pointers
       /\ "dp" \in Pointers /\ "put1" \in Pointers /\ "put2" \in Pointers
  BY DEF Pointers
<1> DEFINE was(v) == IF v = "put1" THEN "put2" ELSE v
<1>14. \A v \in Pointers : was(v) \in Pointers
  BY <1>13
<1>15. ASSUME NEW v \in Pointers
       PROVE  /\ Holds(th'[p], v) => Holds(th[p], was(v)) /\ Pointer(p, v)' = Pointer(p, was(v)) /\ v # "put2"
              /\ Firm(th'[p], v) => Firm(th[p], was(v)) /\ Pointer(p, v)' = Pointer(p, was(v)) /\ v # "put2"
  BY <1>1, <1>6, <1>7, <1>8, <1>12
<1>16. ASSUME NEW v \in Pointers, Holds(th[p], v)
       PROVE  \E w \in Pointers : Holds(th'[p], w) /\ Pointer(p, w)' = Pointer(p, v)
  BY <1>6, <1>7, <1>8, <1>12, <1>13, <1>16
<1> HIDE DEF was
<1>17. \A v, w \in Pointers : v # "put2" /\ w # "put2" /\ was(v) = was(w) => v = w
  BY DEF was
<1>18. Locks(p)
  <2>1. \A v \in Pointers : Holds(th'[p], v) => itable'[Pointer(p, v)'].lock = p
    BY <1>10, <1>11, <1>14, <1>15
  <2>2. ASSUME NEW v \in Pointers, NEW w \in Pointers, Holds(th'[p], v), Holds(th'[p], w),
               Pointer(p, v)' = Pointer(p, w)'
        PROVE  v = w
    BY <1>10, <1>14, <1>15, <1>17, <2>2
  <2>3. ASSUME NEW s \in Slots, itable'[s].lock = p
        PROVE  \E v \in Pointers : Holds(th'[p], v) /\ Pointer(p, v)' = s
    <3>1. PICK v \in Pointers : Holds(th[p], v) /\ Pointer(p, v) = s
      BY <1>10, <1>11, <2>3
    <3>2. PICK w \in Pointers : Holds(th'[p], w) /\ Pointer(p, w)' = Pointer(p, v)
      BY <1>16, <3>1
    <3> QED BY <3>1, <3>2
  <2> QED BY <1>11, <2>1, <2>2, <2>3 DEF Locks
<1>19. Firms(p)
  <2>1. ASSUME NEW v \in Pointers, NEW s \in Slots, Firm(th'[p], v), Pointer(p, v)' = s
        PROVE  /\ itable'[s].valid
               /\ \E w \in Pointers : Firm(th[p], w) /\ Pointer(p, w) = s
    BY <1>10, <1>11, <1>14, <1>15, <2>1
  <2> QED BY <1>7, <1>11, <2>1 DEF Firms
<1> QED BY <1>2, <1>4, <1>9, <1>18, <1>19 DEF Moves

\* The lock of slot a at one stage and the next.
Staged(p, a, x, x1) ==
  \/ x = "unlock" /\ x1 = "drop" /\ itable'[a].lock = Nobody /\ itable'[a].valid = itable[a].valid
  \/ /\ x = "drop" /\ x1 = "erase" /\ itable[a].ref = 1
     /\ itable[a].lock = Nobody /\ itable'[a].lock = p /\ itable'[a].valid = itable[a].valid
  \/ x = "erase" /\ x1 = "release" /\ itable'[a].lock = itable[a].lock /\ itable'[a].valid = itable[a].valid
  \/ x = "release" /\ x1 = "last" /\ itable'[a].lock = Nobody

\* The step takes the first inode of the list one stage further.
LEMMA AdvMoves ==
  ASSUME IInv1, NEW p \in Procs, NEW a, NEW x, NEW b, NEW y,
         PutAt(th[p], a, x, b, y), NEW x1 \in Stages, Advance(p, x1),
         Only(a), itable'[a].ref = itable[a].ref, Staged(p, a, x, x1),
         dinode' \in [Inums -> DiskRec], ents' \in [Inums -> [EntryNames -> 0 .. NInodes]],
         UNCHANGED <<cwd, ofile, panic, astray>>
  PROVE  Moves(p)
<1>0. PICK pc, ip, dp : pc = th[p].pc /\ ip = th[p].ip /\ dp = th[p].dp
  OBVIOUS
<1>1. /\ a \in Slots /\ a # 0 /\ Shape(th[p], pc, ip, dp, a, x, b, y)
      /\ itable[a].ref > 0 /\ itable[a].ref \in Nat /\ itable[a].inum \in Inums
      /\ b = 0 \/ b \in Slots
      /\ y \in {"unlock", "drop", "none"}
  BY <1>0, PutIs
<1>2. /\ th' \in [Procs -> ThRec] /\ Frame(p) /\ ThreadOK(th'[p])
      /\ Shape(th'[p], pc, ip, dp, a, x1, b, y)
      /\ th'[p].pc = th[p].pc /\ th'[p].ip = th[p].ip /\ th'[p].dp = th[p].dp
  BY <1>0, AdvanceShape
<1>4. TypeOK'
  BY <1>2 DEF IInv1, TypeOK, Only
<1>5. Looks(p, pc, ip, dp, a, x, b, y) /\ Looks(p, pc, ip, dp, a, x1, b, y)'
  BY <1>1, <1>2, ShapeAt, ShapeAfter
<1>6. /\ Pointer(p, "ip") = ip /\ Pointer(p, "dp") = dp
      /\ Pointer(p, "put1") = a /\ Pointer(p, "put2") = b
      /\ Holds(th[p], "ip") <=> pc \in HasIp
      /\ Holds(th[p], "dp") <=> pc \in HasDp
      /\ Holds(th[p], "put1") <=> a # 0 /\ x \in {"unlock", "erase", "release"}
      /\ Holds(th[p], "put2") <=> b # 0 /\ y = "unlock"
      /\ ~Holds(th[p], "cwd") /\ ~Holds(th[p], "ofile")
      /\ Firm(th[p], "ip") <=> pc \in TrustsIp
      /\ Firm(th[p], "dp") <=> dp # 0
      /\ Firm(th[p], "put1") <=> a # 0 /\ x = "unlock"
      /\ Firm(th[p], "put2") <=> b # 0 /\ y = "unlock"
      /\ ~Firm(th[p], "cwd") /\ ~Firm(th[p], "ofile")
      /\ \A s : /\ Erasing(p, s) <=> a # 0 /\ x = "erase" /\ a = s
                /\ Releasing(p, s) <=> a # 0 /\ x = "release" /\ a = s
  BY <1>5, LooksView, Zenon
<1>7. /\ Pointer(p, "ip")' = ip /\ Pointer(p, "dp")' = dp
      /\ Pointer(p, "put1")' = a /\ Pointer(p, "put2")' = b
      /\ Holds(th'[p], "ip") <=> pc \in HasIp
      /\ Holds(th'[p], "dp") <=> pc \in HasDp
      /\ Holds(th'[p], "put1") <=> a # 0 /\ x1 \in {"unlock", "erase", "release"}
      /\ Holds(th'[p], "put2") <=> b # 0 /\ y = "unlock"
      /\ ~Holds(th'[p], "cwd") /\ ~Holds(th'[p], "ofile")
      /\ Firm(th'[p], "ip") <=> pc \in TrustsIp
      /\ Firm(th'[p], "dp") <=> dp # 0
      /\ Firm(th'[p], "put1") <=> a # 0 /\ x1 = "unlock"
      /\ Firm(th'[p], "put2") <=> b # 0 /\ y = "unlock"
      /\ ~Firm(th'[p], "cwd") /\ ~Firm(th'[p], "ofile")
      /\ \A s : /\ Erasing(p, s)' <=> a # 0 /\ x1 = "erase" /\ a = s
                /\ Releasing(p, s)' <=> a # 0 /\ x1 = "release" /\ a = s
  BY <1>5, LooksAfter, Zenon
<1>8. Pointer(p, "cwd")' = Pointer(p, "cwd") /\ Pointer(p, "ofile")' = Pointer(p, "ofile")
  BY <1>2, PutFrame
<1>9. \A v \in Pointers : Pointer(p, v)' = Pointer(p, v)
  BY <1>6, <1>7, <1>8 DEF Pointers
<1>10. Counts(p)
  <2>1. ASSUME NEW s \in Slots PROVE Own(p, s)' = Own(p, s) /\ Own(p, s) \in Nat
    <3>1. "cwd" \in Pointers /\ "ofile" \in Pointers /\ "ip" \in Pointers
          /\ "dp" \in Pointers /\ "put1" \in Pointers /\ "put2" \in Pointers
      BY DEF Pointers
    <3>2. Own(p, s)' = Own(p, s)
      BY <1>9, <3>1 DEF Own, One
    <3> QED BY <3>2, OwnBounds
  <2>2. \A s \in Slots : itable'[s].ref = itable[s].ref /\ itable'[s].inum = itable[s].inum
    BY <1>1 DEF Only
  <2>3. \A s \in Slots : itable[s].ref \in Nat
    BY TableIs DEF TableOK
  <2> QED BY <2>1, <2>2, <2>3 DEF Counts
<1>11. /\ \A v, w \in Pointers : Holds(th[p], v) /\ Holds(th[p], w) /\ Pointer(p, v) = Pointer(p, w) => v = w
       /\ \A v \in Pointers : Holds(th[p], v) => itable[Pointer(p, v)].lock = p
       /\ \A s \in Slots : itable[s].lock = p => \E v \in Pointers : Holds(th[p], v) /\ Pointer(p, v) = s
       /\ \A v \in Pointers : Firm(th[p], v) => itable[Pointer(p, v)].valid
       /\ \A v \in Pointers : Firm(th[p], v) => ~Erasing(p, Pointer(p, v)) /\ ~Releasing(p, Pointer(p, v))
       /\ \A v \in Pointers : Holds(th[p], v) \/ Firm(th[p], v) => Pointer(p, v) \in Slots
  BY PointerSlots DEF IInv1, LockOK, FirmOK
<1>12. \A v \in Pointers : v \in {"cwd", "ofile", "ip", "dp", "put1", "put2"}
  BY DEF Pointers
<1>13. "put1" \in Pointers
  BY DEF Pointers
<1>14. \A u \in Slots : u # a => itable'[u].lock = itable[u].lock /\ itable'[u].valid = itable[u].valid
  BY DEF Only
<1>15. p # Nobody
  BY Consts
<1>16. \A v \in Pointers : v # "put1" => (Holds(th'[p], v) <=> Holds(th[p], v)) /\ (Firm(th'[p], v) <=> Firm(th[p], v))
  BY <1>6, <1>7, <1>12
<1>17. /\ Holds(th'[p], "put1") => itable'[a].lock = p
       /\ itable'[a].lock = p => Holds(th'[p], "put1")
       /\ itable[a].lock \in {p, Nobody} /\ itable'[a].lock \in {p, Nobody}
       /\ itable[a].lock = Nobody \/ Holds(th[p], "put1")
       /\ ~Firm(th'[p], "put1")
  BY <1>1, <1>6, <1>7, <1>11, <1>13, <1>15 DEF Staged
<1>18. ASSUME NEW v \in Pointers, v # "put1", Holds(th[p], v) PROVE Pointer(p, v) # a
  BY <1>6, <1>11, <1>13, <1>15, <1>17, <1>18
<1>19. Locks(p)
  <2>1. ASSUME NEW v \in Pointers, Holds(th'[p], v) PROVE itable'[Pointer(p, v)'].lock = p
    <3>1. CASE v = "put1"
      BY <1>7, <1>17, <2>1, <3>1
    <3>2. CASE v # "put1"
      BY <1>9, <1>11, <1>14, <1>16, <1>18, <2>1, <3>2
    <3> QED BY <3>1, <3>2
  <2>2. ASSUME NEW v \in Pointers, NEW w \in Pointers, Holds(th'[p], v), Holds(th'[p], w),
               Pointer(p, v)' = Pointer(p, w)'
        PROVE  v = w
    BY <1>6, <1>9, <1>11, <1>16, <1>18, <2>2
  <2>3. ASSUME NEW s \in Slots, itable'[s].lock = p
        PROVE  \E v \in Pointers : Holds(th'[p], v) /\ Pointer(p, v)' = s
    <3>1. CASE s = a
      BY <1>7, <1>13, <1>17, <2>3, <3>1
    <3>2. CASE s # a
      <4>1. PICK v \in Pointers : Holds(th[p], v) /\ Pointer(p, v) = s
        BY <1>11, <1>14, <2>3, <3>2
      <4>2. v # "put1"
        BY <1>6, <3>2, <4>1
      <4> QED BY <1>9, <1>16, <4>1, <4>2
    <3> QED BY <3>1, <3>2
  <2>4. \A s \in Slots : \/ itable'[s].lock = itable[s].lock
                         \/ itable[s].lock \in {p, Nobody} /\ itable'[s].lock \in {p, Nobody}
    BY <1>14, <1>17
  <2> QED BY <2>1, <2>2, <2>3, <2>4 DEF Locks
<1>20. Staged(p, a, x, x1) =>
         /\ x1 = "erase" => itable[a].ref = 1 /\ x = "drop"
         /\ x1 = "release" => x = "erase"
         /\ itable'[a].valid = itable[a].valid \/ x = "release"
  BY DEF Staged
<1>21. x1 = "erase" => /\ \A v \in Pointers : v # "put1" => Pointer(p, v) # a
                       /\ \A q \in Procs \ {p}, v \in Pointers : Pointer(q, v) # a
  <2>1. SUFFICES ASSUME itable[a].ref = 1
                 PROVE  /\ \A v \in Pointers : v # "put1" => Pointer(p, v) # a
                        /\ \A q \in Procs \ {p}, v \in Pointers : Pointer(q, v) # a
    BY <1>20
  <2>2. Refs(a) = 1
    BY <1>1, <2>1 DEF IInv1, RefOK
  <2>3. /\ Own(p, a) \in Nat /\ Refs(a) >= Own(p, a) /\ Own(p, a) >= 1
        /\ \A v, w \in Pointers :
             v # w /\ Pointer(p, v) = a /\ Pointer(p, w) = a => Own(p, a) >= 2
        /\ \A q \in Procs, v \in Pointers :
             q # p /\ Pointer(q, v) = a => Refs(a) >= Own(p, a) + 1
    BY <1>6, <1>13, OwnBounds
  <2> QED BY <1>6, <1>13, <2>2, <2>3
<1>22. Firms(p)
  <2>1. ASSUME NEW v \in Pointers, NEW s \in Slots, Firm(th'[p], v), Pointer(p, v)' = s
        PROVE  /\ itable'[s].valid
               /\ \E w \in Pointers : Firm(th[p], w) /\ Pointer(p, w) = s
               /\ ~Erasing(p, s)' /\ ~Releasing(p, s)'
    <3>1. v # "put1" /\ Firm(th[p], v) /\ Pointer(p, v) = s
      BY <1>9, <1>16, <1>17, <2>1
    <3>2. itable[s].valid /\ ~Erasing(p, s) /\ ~Releasing(p, s)
      BY <1>11, <3>1
    <3>3. itable'[s].valid
      BY <1>1, <1>6, <1>14, <1>20, <3>2
    <3>4. ~Erasing(p, s)' /\ ~Releasing(p, s)'
      BY <1>1, <1>6, <1>7, <1>20, <1>21, <3>1, <3>2
    <3> QED BY <3>1, <3>3, <3>4
  <2>2. ASSUME NEW s \in Slots, Erasing(p, s)' \/ Releasing(p, s)'
        PROVE  \/ Erasing(p, s) \/ Releasing(p, s)
               \/ \A q \in Procs \ {p}, v \in Pointers : Pointer(q, v) # s
    BY <1>1, <1>6, <1>7, <1>20, <1>21, <2>2
  <2>3. ASSUME NEW s \in Slots, itable[s].valid, ~itable'[s].valid PROVE Releasing(p, s)
    BY <1>1, <1>6, <1>14, <1>20, <2>3
  <2> QED BY <2>1, <2>2, <2>3 DEF Firms
<1> QED BY <1>2, <1>4, <1>10, <1>19, <1>22 DEF Moves

\* The table with another type, or with an invalid slot.
Typed(t, s, ty) == [t EXCEPT ![s].type = ty]
\* Slot s is not valid any more.
Invalid(t, s) == [t EXCEPT ![s].valid = FALSE]

\* Setting a type changes nothing else.
LEMMA TypeIs ==
  ASSUME NEW t \in [Slots -> SlotRec], NEW a \in Slots, NEW ty \in Types,
         NEW T, T = Typed(t, a, ty)
  PROVE  /\ T \in [Slots -> SlotRec] /\ T[a].ref = t[a].ref
         /\ T[a].inum = t[a].inum /\ T[a].lock = t[a].lock /\ T[a].valid = t[a].valid
         /\ T[a].type = ty /\ T[a].nlink = t[a].nlink
         /\ \A u \in Slots : u # a => T[u] = t[u]
<1> DEFINE r == [t[a] EXCEPT !.type = ty]
<1>1. T = [t EXCEPT ![a] = r] /\ t[a] \in SlotRec
  BY DEF Typed
<1>2. /\ r \in SlotRec /\ r.lock = t[a].lock /\ r.inum = t[a].inum /\ r.ref = t[a].ref
      /\ r.valid = t[a].valid /\ r.type = ty /\ r.nlink = t[a].nlink
  BY <1>1 DEF SlotRec
<1> HIDE DEF r
<1>3. T \in [Slots -> SlotRec] /\ T[a] = r /\ \A u \in Slots : u # a => T[u] = t[u]
  BY <1>1, <1>2
<1> QED BY <1>2, <1>3

\* Making a slot invalid changes nothing else.
LEMMA InvalidIs ==
  ASSUME NEW t \in [Slots -> SlotRec], NEW a \in Slots,
         NEW T, T = Invalid(t, a)
  PROVE  /\ T \in [Slots -> SlotRec] /\ T[a].ref = t[a].ref
         /\ T[a].inum = t[a].inum /\ T[a].lock = t[a].lock /\ ~T[a].valid
         /\ T[a].type = t[a].type /\ T[a].nlink = t[a].nlink
         /\ \A u \in Slots : u # a => T[u] = t[u]
<1> DEFINE r == [t[a] EXCEPT !.valid = FALSE]
<1>1. T = [t EXCEPT ![a] = r] /\ t[a] \in SlotRec
  BY DEF Invalid
<1>2. /\ r \in SlotRec /\ r.lock = t[a].lock /\ r.inum = t[a].inum /\ r.ref = t[a].ref
      /\ ~r.valid /\ r.type = t[a].type /\ r.nlink = t[a].nlink
  BY <1>1 DEF SlotRec
<1> HIDE DEF r
<1>3. T \in [Slots -> SlotRec] /\ T[a] = r /\ \A u \in Slots : u # a => T[u] = t[u]
  BY <1>1, <1>2
<1> QED BY <1>2, <1>3

\* The tables and the thread after the steps of iunlockput() on slot a.
UnlockStep(p, a, b, y) ==
  /\ PutAt(th[p], a, "unlock", b, y) /\ Advance(p, "drop") /\ Only(a)
  /\ itable'[a].ref = itable[a].ref /\ itable'[a].valid = itable[a].valid /\ itable'[a].lock = Nobody
  /\ itable'[a].type = itable[a].type /\ itable'[a].nlink = itable[a].nlink
  /\ UNCHANGED <<dinode, ents, cwd, ofile, panic, calls, astray>>

\* What iunlock() does.
LEMMA iunlockIs ==
  ASSUME IInv1, NEW p \in Procs, iunlock(p)
  PROVE  \E a, b, y : UnlockStep(p, a, b, y)
<1>1. th[p].put # <<>>
  BY DEF iunlock, AtPut
<1>2. PICK a, x, b, y : PutAt(th[p], a, x, b, y)
  BY <1>1, PutList
<1>3. Head(th[p].put).s = a /\ Head(th[p].put).at = x /\ a \in Slots
  BY <1>2, PutIs
<1>4. /\ x = "unlock" /\ itable' = Locked(itable, a, Nobody) /\ Advance(p, "drop")
      /\ UNCHANGED <<dinode, ents, cwd, ofile, panic, calls, astray>>
  BY <1>3 DEF iunlock, AtPut
<1>5. itable \in [Slots -> SlotRec] /\ Nobody \in Procs \cup {Nobody}
  BY DEF IInv1, TypeOK
<1>6. /\ Near(itable, itable') /\ itable'[a].lock = Nobody /\ itable'[a].valid = itable[a].valid
      /\ itable'[a].type = itable[a].type /\ itable'[a].nlink = itable[a].nlink
      /\ \A u \in Slots : u # a => itable'[u] = itable[u]
  BY <1>3, <1>4, <1>5, LockedIs
<1>7. Only(a) /\ itable'[a].ref = itable[a].ref
  BY <1>3, <1>6 DEF Only, Near
<1>8. UnlockStep(p, a, b, y)
  BY <1>2, <1>4, <1>6, <1>7 DEF UnlockStep
<1> QED BY <1>8

\* iunlockput() unlocks the first inode to drop, and then drops it.
LEMMA iunlockMoves == ASSUME IInv1, NEW p \in Procs, iunlock(p) PROVE Moves(p)
<1>1. PICK a, b, y : UnlockStep(p, a, b, y)
  BY iunlockIs
<1>2. Staged(p, a, "unlock", "drop")
  BY <1>1 DEF UnlockStep, Staged
<1>3. dinode' \in [Inums -> DiskRec] /\ ents' \in [Inums -> [EntryNames -> 0 .. NInodes]]
  BY <1>1 DEF UnlockStep, IInv1, TypeOK
<1>4. "drop" \in Stages
  BY DEF Stages
<1> QED BY <1>1, <1>2, <1>3, <1>4, AdvMoves DEF UnlockStep

\* iput() locks a slot of which it drops the last reference, for an inode
\* without links.
FreeStep(p, a, b, y) ==
  /\ PutAt(th[p], a, "drop", b, y) /\ Advance(p, "erase") /\ Only(a)
  /\ LastUse(a) /\ itable[a].lock = Nobody
  /\ itable'[a].ref = itable[a].ref /\ itable'[a].valid = itable[a].valid /\ itable'[a].lock = p
  /\ itable'[a].type = itable[a].type /\ itable'[a].nlink = itable[a].nlink
  /\ UNCHANGED <<dinode, ents, cwd, ofile, panic, calls, astray>>

\* What iput() does in this case.
LEMMA IputFreeIs ==
  ASSUME IInv1, NEW p \in Procs, IputFree(p)
  PROVE  \E a, b, y : FreeStep(p, a, b, y)
<1>1. th[p].put # <<>>
  BY DEF IputFree, AtPut
<1>2. PICK a, x, b, y : PutAt(th[p], a, x, b, y)
  BY <1>1, PutList
<1>3. Head(th[p].put).s = a /\ Head(th[p].put).at = x /\ a \in Slots
  BY <1>2, PutIs
<1>4. /\ x = "drop" /\ itable' = Locked(itable, a, p) /\ Advance(p, "erase")
      /\ LastUse(a) /\ itable[a].lock = Nobody
      /\ UNCHANGED <<dinode, ents, cwd, ofile, panic, calls, astray>>
  BY <1>3 DEF IputFree, AtPut
<1>5. itable \in [Slots -> SlotRec] /\ p \in Procs \cup {Nobody}
  BY DEF IInv1, TypeOK
<1>6. /\ Near(itable, itable') /\ itable'[a].lock = p /\ itable'[a].valid = itable[a].valid
      /\ itable'[a].type = itable[a].type /\ itable'[a].nlink = itable[a].nlink
      /\ \A u \in Slots : u # a => itable'[u] = itable[u]
  BY <1>3, <1>4, <1>5, LockedIs
<1>7. Only(a) /\ itable'[a].ref = itable[a].ref
  BY <1>3, <1>6 DEF Only, Near
<1>8. FreeStep(p, a, b, y)
  BY <1>2, <1>4, <1>6, <1>7 DEF FreeStep
<1> QED BY <1>8

\* The slot that iput() frees is locked by the process that frees it.
LEMMA IputFreeMoves == ASSUME IInv1, NEW p \in Procs, IputFree(p) PROVE Moves(p)
<1>1. PICK a, b, y : FreeStep(p, a, b, y)
  BY IputFreeIs
<1>2. Staged(p, a, "drop", "erase")
  BY <1>1 DEF FreeStep, Staged, LastUse
<1>3. dinode' \in [Inums -> DiskRec] /\ ents' \in [Inums -> [EntryNames -> 0 .. NInodes]]
  BY <1>1 DEF FreeStep, IInv1, TypeOK
<1>4. "erase" \in Stages
  BY DEF Stages
<1> QED BY <1>1, <1>2, <1>3, <1>4, AdvMoves DEF FreeStep

\* The inode is erased: free on disk, with no entries.
EraseStep(p, a, b, y) ==
  /\ PutAt(th[p], a, "erase", b, y) /\ Advance(p, "release") /\ Only(a)
  /\ itable'[a].ref = itable[a].ref /\ itable'[a].valid = itable[a].valid
  /\ itable'[a].lock = itable[a].lock
  /\ itable'[a].type = "free" /\ itable'[a].nlink = itable[a].nlink
  /\ dinode' \in [Inums -> DiskRec] /\ ents' \in [Inums -> [EntryNames -> 0 .. NInodes]]
  /\ dinode'[itable[a].inum].type = "free" /\ dinode'[itable[a].inum].nlink = itable[a].nlink
  /\ \A i \in Inums : i # itable[a].inum => dinode'[i] = dinode[i]
  /\ ents' = [ents EXCEPT ![itable[a].inum] = NoEntries]
  /\ UNCHANGED <<cwd, ofile, panic, calls, astray>>

\* An empty directory.
LEMMA NoEntriesIs == NoEntries \in [EntryNames -> 0 .. NInodes] /\ \A n \in EntryNames : NoEntries[n] = 0
BY Consts DEF NoEntries

\* iput() truncates the inode, and frees it on the disk.
LEMMA IputEraseIs ==
  ASSUME IInv1, NEW p \in Procs, IputErase(p)
  PROVE  \E a, b, y : EraseStep(p, a, b, y)
<1>1. th[p].put # <<>>
  BY DEF IputErase, AtPut
<1>2. PICK a, x, b, y : PutAt(th[p], a, x, b, y)
  BY <1>1, PutList
<1>3. Head(th[p].put).s = a /\ Head(th[p].put).at = x /\ a \in Slots /\ itable[a].inum \in Inums
  BY <1>2, PutIs
<1>4. /\ x = "erase" /\ itable' = [itable EXCEPT ![a].type = "free"] /\ Advance(p, "release")
      /\ dinode' = iupdate([itable EXCEPT ![a].type = "free"], a)
      /\ ents' = [ents EXCEPT ![itable[a].inum] = NoEntries]
      /\ UNCHANGED <<cwd, ofile, panic, calls, astray>>
  BY <1>3 DEF IputErase, AtPut
<1>9. dinode' = iupdate(itable', a)
  BY <1>4
<1>5. itable \in [Slots -> SlotRec] /\ "free" \in Types /\ TypeOK
  BY DEF IInv1, TypeOK, Types
<1>6. /\ itable' \in [Slots -> SlotRec] /\ itable'[a].ref = itable[a].ref
      /\ itable'[a].inum = itable[a].inum /\ itable'[a].lock = itable[a].lock
      /\ itable'[a].valid = itable[a].valid
      /\ itable'[a].type = "free" /\ itable'[a].nlink = itable[a].nlink
      /\ \A u \in Slots : u # a => itable'[u] = itable[u]
  <2>1. itable' = Typed(itable, a, "free") /\ a \in Slots
    BY <1>3, <1>4 DEF Typed
  <2> QED BY <1>5, <2>1, TypeIs
<1>7. /\ dinode' \in [Inums -> DiskRec]
      /\ dinode'[itable[a].inum].type = "free" /\ dinode'[itable[a].inum].nlink = itable[a].nlink
      /\ \A i \in Inums : i # itable[a].inum => dinode'[i] = dinode[i]
  <2>1. itable' \in [Slots -> SlotRec] /\ itable'[a].inum \in Inums
    BY <1>3, <1>6
  <2>2. /\ iupdate(itable', a) \in [Inums -> DiskRec]
        /\ iupdate(itable', a)[itable'[a].inum].type = itable'[a].type
        /\ iupdate(itable', a)[itable'[a].inum].nlink = itable'[a].nlink
        /\ \A i \in Inums : i # itable'[a].inum => iupdate(itable', a)[i] = dinode[i]
    BY <1>3, <1>5, <2>1, IupdateIs
  <2> QED BY <1>6, <1>9, <2>2
<1>10. ents' \in [Inums -> [EntryNames -> 0 .. NInodes]]
  <2>1. ents \in [Inums -> [EntryNames -> 0 .. NInodes]] /\ itable[a].inum \in Inums
    BY <1>3, <1>5 DEF TypeOK
  <2>2. NoEntries \in [EntryNames -> 0 .. NInodes]
    BY NoEntriesIs
  <2>3. ents' = [ents EXCEPT ![itable[a].inum] = NoEntries]
    BY <1>4
  <2> QED BY <2>1, <2>2, <2>3
<1>11. Only(a)
  BY <1>6 DEF Only
<1>8. EraseStep(p, a, b, y)
  BY <1>2, <1>4, <1>6, <1>7, <1>10, <1>11 DEF EraseStep
<1> QED BY <1>8

\* Freeing an inode leaves locks and counts alone.
LEMMA IputEraseMoves == ASSUME IInv1, NEW p \in Procs, IputErase(p) PROVE Moves(p)
<1>1. PICK a, b, y : EraseStep(p, a, b, y)
  BY IputEraseIs
<1>2. Staged(p, a, "erase", "release")
  BY <1>1 DEF EraseStep, Staged
<1>4. "release" \in Stages
  BY DEF Stages
<1> QED BY <1>1, <1>2, <1>4, AdvMoves DEF EraseStep

\* The erased slot is unlocked, and no longer valid.
ReleaseStep(p, a, b, y) ==
  /\ PutAt(th[p], a, "release", b, y) /\ Advance(p, "last") /\ Only(a)
  /\ itable'[a].ref = itable[a].ref /\ ~itable'[a].valid /\ itable'[a].lock = Nobody
  /\ itable'[a].type = itable[a].type /\ itable'[a].nlink = itable[a].nlink
  /\ UNCHANGED <<dinode, ents, cwd, ofile, panic, calls, astray>>

\* iput() unlocks the slot of the inode it has freed.
LEMMA IputReleaseIs ==
  ASSUME IInv1, NEW p \in Procs, IputRelease(p)
  PROVE  \E a, b, y : ReleaseStep(p, a, b, y)
<1>1. th[p].put # <<>>
  BY DEF IputRelease, AtPut
<1>2. PICK a, x, b, y : PutAt(th[p], a, x, b, y)
  BY <1>1, PutList
<1>3. Head(th[p].put).s = a /\ Head(th[p].put).at = x /\ a \in Slots
  BY <1>2, PutIs
<1>4. /\ x = "release" /\ itable' = [Locked(itable, a, Nobody) EXCEPT ![a].valid = FALSE]
      /\ Advance(p, "last")
      /\ UNCHANGED <<dinode, ents, cwd, ofile, panic, calls, astray>>
  BY <1>3 DEF IputRelease, AtPut
<1>5. itable \in [Slots -> SlotRec] /\ Nobody \in Procs \cup {Nobody}
  BY DEF IInv1, TypeOK
<1> DEFINE t == Locked(itable, a, Nobody)
<1>6. /\ Near(itable, t) /\ t[a].lock = Nobody /\ \A u \in Slots : u # a => t[u] = itable[u]
      /\ t[a].type = itable[a].type /\ t[a].nlink = itable[a].nlink
  BY <1>3, <1>5, LockedIs
<1>9. itable' = [t EXCEPT ![a].valid = FALSE]
  BY <1>4
<1> HIDE DEF t
<1>10. t \in [Slots -> SlotRec] /\ t[a].ref = itable[a].ref /\ t[a].inum = itable[a].inum
  BY <1>3, <1>6 DEF Near
<1>7. /\ itable' \in [Slots -> SlotRec] /\ itable'[a].ref = t[a].ref
      /\ itable'[a].inum = t[a].inum /\ itable'[a].lock = t[a].lock /\ ~itable'[a].valid
      /\ itable'[a].type = t[a].type /\ itable'[a].nlink = t[a].nlink
      /\ \A u \in Slots : u # a => itable'[u] = t[u]
  <2>1. t \in [Slots -> SlotRec] /\ a \in Slots /\ itable' = Invalid(t, a)
    BY <1>3, <1>9, <1>10 DEF Invalid
  <2> QED BY <2>1, InvalidIs
<1>11. /\ Only(a) /\ itable'[a].ref = itable[a].ref /\ ~itable'[a].valid /\ itable'[a].lock = Nobody
       /\ itable'[a].type = itable[a].type /\ itable'[a].nlink = itable[a].nlink
  BY <1>6, <1>7, <1>10 DEF Only
<1>8. ReleaseStep(p, a, b, y)
  BY <1>2, <1>4, <1>11 DEF ReleaseStep
<1> QED BY <1>8

\* The slot is not valid any more: nobody had locked it before.
LEMMA IputReleaseMoves == ASSUME IInv1, NEW p \in Procs, IputRelease(p) PROVE Moves(p)
<1>1. PICK a, b, y : ReleaseStep(p, a, b, y)
  BY IputReleaseIs
<1>2. Staged(p, a, "release", "last")
  BY <1>1 DEF ReleaseStep, Staged
<1>3. dinode' \in [Inums -> DiskRec] /\ ents' \in [Inums -> [EntryNames -> 0 .. NInodes]]
  BY <1>1 DEF ReleaseStep, IInv1, TypeOK
<1>4. "last" \in Stages
  BY DEF Stages
<1> QED BY <1>1, <1>2, <1>3, <1>4, AdvMoves DEF ReleaseStep

\* The reference is dropped.
DropStep(p, a, x, b, y) ==
  /\ PutAt(th[p], a, x, b, y) /\ th' = [th EXCEPT ![p].put = Tail(@)]
  /\ x \in {"drop", "last"} /\ (x = "drop" => ~LastUse(a))
  /\ itable' = [itable EXCEPT ![a].ref = @ - 1]
  /\ UNCHANGED <<dinode, ents, cwd, ofile, panic, calls, astray>>

\* iput() gives one reference back.
LEMMA DropIs ==
  ASSUME IInv1, NEW p \in Procs, iput(p) \/ IputLast(p)
  PROVE  \E a, x, b, y : DropStep(p, a, x, b, y)
<1>1. th[p].put # <<>>
  BY DEF iput, IputLast, AtPut
<1>2. PICK a, x, b, y : PutAt(th[p], a, x, b, y)
  BY <1>1, PutList
<1>3. Head(th[p].put).s = a /\ Head(th[p].put).at = x /\ a \in Slots
  BY <1>2, PutIs
<1>4. DropStep(p, a, x, b, y)
  BY <1>2, <1>3 DEF iput, IputLast, AtPut, DropStep
<1> QED BY <1>4

\* A reference that is given back is a pointer less.
LEMMA DropMoves == ASSUME IInv1, NEW p \in Procs, iput(p) \/ IputLast(p) PROVE Moves(p)
<1>1. PICK a, x, b, y : DropStep(p, a, x, b, y)
  BY DropIs
<1> QED BY <1>1, PopMoves DEF DropStep

\* Every step of iput() and iunlockput().
LEMMA PutMoves == ASSUME IInv1, NEW p \in Procs, PutStep(p) PROVE Moves(p)
BY iunlockMoves, IputFreeMoves, IputEraseMoves, IputReleaseMoves, DropMoves DEF PutStep

-----------------------------------------------------------------------------
(* The initial states, and the other steps. *)

\* A slot of inode i with n references, not yet read from the disk.
SlotOf(i, n) == [EmptySlot EXCEPT !.inum = i, !.ref = n]

\* A slot that is not in use, and one that has just been taken.
LEMMA EmptyIs ==
  /\ EmptySlot \in SlotRec /\ EmptySlot.ref = 0 /\ EmptySlot.lock = Nobody /\ ~EmptySlot.valid
  /\ \A i \in Inums, n \in Nat :
       /\ SlotOf(i, n) \in SlotRec /\ SlotOf(i, n).ref = n /\ SlotOf(i, n).inum = i
       /\ SlotOf(i, n).lock = Nobody /\ ~SlotOf(i, n).valid
<1>1. /\ EmptySlot \in SlotRec /\ EmptySlot.ref = 0 /\ EmptySlot.lock = Nobody /\ ~EmptySlot.valid
  BY Consts DEF EmptySlot, SlotRec, Types
<1>2. ASSUME NEW i \in Inums, NEW n \in Nat, NEW e, e = SlotOf(i, n)
      PROVE  e \in SlotRec /\ e.ref = n /\ e.inum = i /\ e.lock = Nobody /\ ~e.valid
  <2>1. i \in 0 .. NInodes /\ n \in Int
    BY Consts
  <2>2. e = [inum |-> i, ref |-> n, valid |-> FALSE, lock |-> Nobody, type |-> "free", nlink |-> 0]
    BY <1>2 DEF EmptySlot, SlotOf
  <2>3. "free" \in Types /\ Nobody \in Procs \cup {Nobody} /\ 0 \in Int
    BY DEF Types
  <2> QED BY <2>1, <2>2, <2>3 DEF SlotRec
<1> QED BY <1>1, <1>2

\* Users(s) are the processes whose current directory is s.
Users(s) == {p \in Procs : cwd[p] = s}

\* The processes that start in a directory can be counted.
LEMMA UsersFinite ==
  ASSUME NEW s
  PROVE  IsFiniteSet(Users(s)) /\ Cardinality(Users(s)) \in Nat
BY Consts, FS_Subset, FS_CardinalityType DEF Users

\* The chain of directories: what Init says of the disk.
ChainOf(depth) ==
  LET Dirs == 1 .. depth + 1
      Up(i) == IF i = ROOTINO THEN ROOTINO ELSE i - 1
      Sub(i) == IF i \in 1 .. depth THEN i + 1 ELSE 0
      first == CHOOSE n \in Names : TRUE IN
  /\ dinode = [i \in Inums |->
       IF i \in Dirs THEN [type |-> "dir", nlink |-> IF i \in 1 .. depth THEN 2 ELSE 1]
       ELSE [type |-> "free", nlink |-> 0]]
  /\ ents = [i \in Inums |->
       IF i \in Dirs THEN [NoEntries EXCEPT !["."] = i, ![".."] = Up(i), ![first] = Sub(i)]
       ELSE NoEntries]

\* The table with a slot for every directory in which a process starts.
InitTable ==
  itable = [s \in Slots |-> IF Cardinality(Users(s)) > 0 THEN SlotOf(s, Cardinality(Users(s)))
                             ELSE EmptySlot]

\* The initial states: a chain of directories, and processes in some of them.
LEMMA InitIs ==
  ASSUME Init
  PROVE  /\ \E depth \in 0 .. NInodes - 2 : cwd \in [Procs -> 1 .. depth + 1] /\ ChainOf(depth)
         /\ InitTable
         /\ th = [p \in Procs |-> IdleThread] /\ ofile = [p \in Procs |-> 0]
         /\ panic = "none" /\ astray = FALSE
BY DEF Init, Users, ChainOf, InitTable, SlotOf

\* Whom a directory of the chain names, and is named by.
LEMMA ChainIs ==
  ASSUME NEW depth \in 0 .. NInodes - 2, ChainOf(depth)
  PROVE  \E first \in Names :
         /\ dinode \in [Inums -> DiskRec] /\ ents \in [Inums -> [EntryNames -> 0 .. NInodes]]
         /\ \A i \in Inums :
              /\ dinode[i].type = IF i \in 1 .. depth + 1 THEN "dir" ELSE "free"
              /\ dinode[i].nlink = IF i \in 1 .. depth THEN 2 ELSE IF i = depth + 1 THEN 1 ELSE 0
              /\ ents[i]["."] = IF i \in 1 .. depth + 1 THEN i ELSE 0
              /\ ents[i][".."] = IF i = 1 THEN 1 ELSE IF i \in 1 .. depth + 1 THEN i - 1 ELSE 0
              /\ \A n \in Names : ents[i][n] = IF n = first /\ i \in 1 .. depth THEN i + 1 ELSE 0
<1> DEFINE Dirs == 1 .. depth + 1
           Up(i) == IF i = ROOTINO THEN ROOTINO ELSE i - 1
           Sub(i) == IF i \in 1 .. depth THEN i + 1 ELSE 0
           first == CHOOSE n \in Names : TRUE
<1>1. first \in Names /\ "." \notin Names /\ ".." \notin Names /\ first \in EntryNames
      /\ "." \in EntryNames /\ ".." \in EntryNames /\ \A n \in Names : n \in EntryNames
  BY InodesAssumption DEF EntryNames
<1>2. /\ dinode = [i \in Inums |->
           IF i \in Dirs THEN [type |-> "dir", nlink |-> IF i \in 1 .. depth THEN 2 ELSE 1]
           ELSE [type |-> "free", nlink |-> 0]]
      /\ ents = [i \in Inums |->
           IF i \in Dirs THEN [NoEntries EXCEPT !["."] = i, ![".."] = Up(i), ![first] = Sub(i)]
           ELSE NoEntries]
  BY Zenon DEF ChainOf
<1>3. NInodes \in Nat /\ depth \in Nat /\ depth + 1 < NInodes /\ Inums = 1 .. NInodes /\ ROOTINO = 1
  BY Consts DEF Inums, ROOTINO
<1> HIDE DEF first
<1>4. dinode \in [Inums -> DiskRec] /\ \A i \in Inums :
        /\ dinode[i].type = IF i \in 1 .. depth + 1 THEN "dir" ELSE "free"
        /\ dinode[i].nlink = IF i \in 1 .. depth THEN 2 ELSE IF i = depth + 1 THEN 1 ELSE 0
  BY <1>2, <1>3 DEF DiskRec, Types
<1>5. NoEntries \in [EntryNames -> 0 .. NInodes] /\ \A n \in EntryNames : NoEntries[n] = 0
  BY NoEntriesIs
<1>6. ASSUME NEW i \in Inums
      PROVE  /\ ents[i] \in [EntryNames -> 0 .. NInodes]
             /\ ents[i]["."] = IF i \in 1 .. depth + 1 THEN i ELSE 0
             /\ ents[i][".."] = IF i = 1 THEN 1 ELSE IF i \in 1 .. depth + 1 THEN i - 1 ELSE 0
             /\ \A n \in Names : ents[i][n] = IF n = first /\ i \in 1 .. depth THEN i + 1 ELSE 0
  <2>1. CASE i \in Dirs
    <3>1. ents[i] = [NoEntries EXCEPT !["."] = i, ![".."] = Up(i), ![first] = Sub(i)]
      BY <1>2, <2>1
    <3>2. i \in 0 .. NInodes /\ Up(i) \in 0 .. NInodes /\ Sub(i) \in 0 .. NInodes
      BY <1>3, <2>1
    <3> QED BY <1>1, <1>3, <1>5, <2>1, <3>1, <3>2
  <2>2. CASE i \notin Dirs
    <3>1. ents[i] = NoEntries
      BY <1>2, <2>2
    <3> QED BY <1>1, <1>3, <1>5, <2>2, <3>1
  <2> QED BY <2>1, <2>2
<1>7. ents \in [Inums -> [EntryNames -> 0 .. NInodes]]
  BY <1>2, <1>6
<1> QED BY <1>1, <1>4, <1>6, <1>7

\* The first layer holds initially.
LEMMA InitInv1 == ASSUME Init PROVE IInv1
<1>1. PICK depth \in 0 .. NInodes - 2 : cwd \in [Procs -> 1 .. depth + 1] /\ ChainOf(depth)
  BY InitIs
<1>10. /\ InitTable /\ th = [p \in Procs |-> IdleThread] /\ ofile = [p \in Procs |-> 0]
       /\ panic = "none" /\ astray = FALSE
  BY InitIs
<1>2. cwd \in [Procs -> Slots]
  <2>1. 1 .. depth + 1 \subseteq Slots
    BY Consts DEF Slots, Inums
  <2> QED BY <1>1, <2>1
<1>3. ASSUME NEW s \in Slots
      PROVE  /\ itable[s] \in SlotRec /\ itable[s].lock = Nobody /\ ~itable[s].valid
             /\ itable[s].ref = Cardinality(Users(s)) /\ itable[s].ref \in Nat
             /\ itable[s].ref > 0 => itable[s].inum = s
  <2>1. Cardinality(Users(s)) \in Nat /\ s \in Inums
    BY UsersFinite, Consts
  <2>2. CASE Cardinality(Users(s)) > 0
    <3>1. itable[s] = SlotOf(s, Cardinality(Users(s)))
      BY <1>10, <2>2 DEF InitTable
    <3> QED BY <2>1, <3>1, EmptyIs
  <2>3. CASE ~(Cardinality(Users(s)) > 0)
    <3>1. itable[s] = EmptySlot /\ Cardinality(Users(s)) = 0
      BY <1>10, <2>1, <2>3 DEF InitTable
    <3> QED BY <3>1, EmptyIs
  <2> QED BY <2>2, <2>3
<1>4. \A p \in Procs : th[p] = IdleThread /\ ofile[p] = 0
  BY <1>10
<1>5. TypeOK
  <2>1. itable \in [Slots -> SlotRec]
    BY <1>3, <1>10 DEF InitTable
  <2>2. th \in [Procs -> ThRec]
    BY <1>10, IdleIs
  <2>3. ofile \in [Procs -> 0 .. NInodes]
    <3>1. 0 \in 0 .. NInodes
      BY Consts
    <3> QED BY <1>10, <3>1
  <2>4. panic \in Messages /\ astray \in BOOLEAN
    BY <1>10, Zenon DEF Messages
  <2>5. dinode \in [Inums -> DiskRec] /\ ents \in [Inums -> [EntryNames -> 0 .. NInodes]]
    BY <1>1, ChainIs
  <2> QED BY <1>2, <2>1, <2>2, <2>3, <2>4, <2>5 DEF TypeOK
<1>6. PlaceOK
  BY <1>4, IdleIs DEF PlaceOK
<1>7. ASSUME NEW p \in Procs
      PROVE  /\ Pointer(p, "cwd") = cwd[p] /\ Pointer(p, "ofile") = 0
             /\ Pointer(p, "ip") = 0 /\ Pointer(p, "dp") = 0
             /\ Pointer(p, "put1") = 0 /\ Pointer(p, "put2") = 0
             /\ \A v \in Pointers : ~Holds(th[p], v) /\ ~Firm(th[p], v)
  <2>1. th[p].pc = "idle" /\ th[p].ip = 0 /\ th[p].dp = 0 /\ th[p].put = <<>> /\ Len(th[p].put) = 0
    BY <1>4, IdleIs, NoLen
  <2>2. \A v \in Pointers : ~Holds(th[p], v) /\ ~Firm(th[p], v)
    BY <2>1, HoldsView, FirmView
  <2> QED BY <1>4, <2>1, <2>2, Views
<1>8. LockOK /\ FirmOK
  <2>1. \A s \in Slots, p \in Procs : itable[s].lock # p
    BY <1>3, Consts
  <2> QED BY <1>7, <2>1 DEF LockOK, FirmOK
<1>9. RefOK
  <2>1. ASSUME NEW s \in Slots PROVE Refs(s) = Cardinality(Users(s))
    <3>1. s # 0
      BY Consts
    <3>2. {x \in Procs \X Pointers : Pointer(x[1], x[2]) = s} = Users(s) \X {"cwd"}
      <4>1. \A p \in Procs, v \in Pointers : Pointer(p, v) = s <=> v = "cwd" /\ cwd[p] = s
        BY <1>7, <3>1 DEF Pointers
      <4>2. "cwd" \in Pointers
        BY DEF Pointers
      <4> QED BY <4>1, <4>2 DEF Users
    <3>3. IsFiniteSet(Users(s)) /\ Cardinality(Users(s)) \in Nat
      BY UsersFinite
    <3>4. IsFiniteSet({"cwd"}) /\ Cardinality({"cwd"}) = 1
      BY FS_Singleton
    <3>5. Cardinality(Users(s) \X {"cwd"}) = Cardinality(Users(s)) * Cardinality({"cwd"})
      BY <3>3, <3>4, FS_Product
    <3>6. Cardinality(Users(s)) * 1 = Cardinality(Users(s))
      BY <3>3
    <3> QED BY <3>2, <3>4, <3>5, <3>6 DEF Refs
  <2> QED BY <1>3, <2>1, Consts DEF RefOK
<1> QED BY <1>5, <1>6, <1>8, <1>9 DEF IInv1

\* Every action of a system call.
LEMMA CallStepKeeps == ASSUME IInv1, NEW p \in Procs, CallStep(p) PROVE IInv1'
<1>1. CASE UnlinkChild(p)
  BY <1>1, UnlinkChildKeeps, MovesKeeps, SameKeeps
<1>2. CASE ~UnlinkChild(p)
  <2>1. \/ namex(p) \/ OpenFound(p) \/ OpenFile(p) \/ OpenFail(p) \/ Close(p)
        \/ CreateFinds(p) \/ CreateExists(p) \/ CreateAlloc(p) \/ CreateLink(p) \/ CreateFail(p)
        \/ LinkOld(p) \/ LinkDir(p) \/ LinkBad(p)
        \/ UnlinkDir(p) \/ UnlinkDrop(p) \/ ChdirFound(p) \/ ChdirSet(p)
    BY <1>2, Zenon DEF CallStep
  <2>2. Moves(p)
    BY <2>1, namexMoves, OpenFoundMoves, OpenFileMoves, OpenFailMoves, CloseMoves,
       CreateFindsMoves, CreateExistsMoves, CreateAllocMoves, CreateLinkMoves, CreateFailMoves,
       LinkOldMoves, LinkDirMoves, LinkBadMoves, UnlinkDirMoves, UnlinkDropMoves,
       ChdirFoundMoves, ChdirSetMoves
  <2> QED BY <2>2, MovesKeeps
<1> QED BY <1>1, <1>2

\* ilock() of a free inode panics, and changes nothing else.
LEMMA IlockPanicIs ==
  ASSUME NEW p \in Procs, IlockPanic(p)
  PROVE  UNCHANGED <<itable, dinode, ents, th, cwd, ofile, calls, astray>> /\ panic' \in Messages
<1>1. UNCHANGED <<itable, dinode, ents, th, cwd, ofile, calls, astray>> /\ panic' = "ilock: no type"
  BY Zenon DEF IlockPanic
<1>2. panic' \in Messages
  BY <1>1, Zenon DEF Messages
<1> QED BY <1>1, <1>2, Zenon

\* Every step keeps the first layer.
LEMMA NextInv1 == ASSUME IInv1, [Next]_vars PROVE IInv1'
<1>1. CASE UNCHANGED vars
  <2>1. UNCHANGED <<itable, dinode, ents, th, cwd, ofile, astray>> /\ panic' \in Messages
    BY <1>1 DEF vars, IInv1, TypeOK
  <2> QED BY <2>1, SameKeeps
<1>2. ASSUME NEW p \in Procs, NEW c \in Calls, Syscall(p, c) PROVE IInv1'
  BY <1>2, SyscallMoves, MovesKeeps
<1>3. ASSUME NEW p \in Procs, NEW path \in NewPaths, LinkNew(p, path) PROVE IInv1'
  BY <1>3, LinkNewMoves, MovesKeeps
<1>4. ASSUME NEW p \in Procs, CallStep(p) PROVE IInv1'
  BY <1>4, CallStepKeeps
<1>5. ASSUME NEW p \in Procs, PutStep(p) PROVE IInv1'
  BY <1>5, PutMoves, MovesKeeps
<1>6. ASSUME NEW p \in Procs, IlockPanic(p) PROVE IInv1'
  BY <1>6, IlockPanicIs, SameKeeps
<1>7. Halted => UNCHANGED vars
  BY Zenon DEF Halted
<1> QED BY <1>1, <1>2, <1>3, <1>4, <1>5, <1>6, <1>7, Zenon DEF Next

\* The first layer holds always: types, places, locks, reference counts, and the
\* slots that are valid.
THEOREM Inv1 == Spec => []IInv1
<1>1. Init => IInv1
  BY InitInv1
<1>2. IInv1 /\ [Next]_vars => IInv1'
  BY NextInv1
<1> QED BY <1>1, <1>2, PTL DEF Spec

\* Every path through the calls gives back exactly the references it took.
THEOREM RefsAreExact == Spec => []RefsExact
<1>1. IInv1 => RefsExact
  BY DEF IInv1, RefOK, RefsExact
<1> QED BY <1>1, Inv1, PTL

-----------------------------------------------------------------------------
(* What is cached, what the places of a call know, and the tree.           *)

\* A slot that is in use and valid, and its inode.
InUse(s) == itable[s].ref > 0 /\ itable[s].valid
Inum(s) == itable[s].inum

\* A slot in use has what the disk has, but while its inode is being erased.
Coherent(s) ==
  /\ itable[s].type = dinode[Inum(s)].type /\ itable[s].nlink = dinode[Inum(s)].nlink
  /\ itable[s].type # "free"

\* What is cached is what the disk says, but for an inode that is being freed.
CacheOK ==
  /\ \A s \in Slots : InUse(s) /\ (\A p \in Procs : ~Releasing(p, s)) => Coherent(s)
  /\ \A p \in Procs, s \in Slots : Erasing(p, s) => itable[s].valid /\ itable[s].nlink = 0

\* What a thread knows of the inodes it has had locked, and of the inode that
\* create() has allocated; only directories have entries; the child that
\* unlink() has found is still there.
Dirs(t, v) == (v = "ip" /\ t.pc = "parent") \/ (v = "dp" /\ t.pc \in {"init", "child"})
\* The pointers that are known to be of files.
Files(t, v) == (v = "ip" /\ t.pc \in {"link2", "bad"}) \/ (v = "dp" /\ t.dp # 0 /\ t.op = "link2")

\* What p knows of the types of its inodes still holds.
Knows(p) ==
  \A v \in Pointers :
    /\ Dirs(th[p], v) => itable[Pointer(p, v)].type = "dir"
    /\ Files(th[p], v) => itable[Pointer(p, v)].type # "dir"

\* create() still has the inode it has allocated ...
InitOK(p) ==
  th[p].pc = "init" => /\ dinode[Inum(th[p].ip)].type = TypeOf(th[p].op)
                       /\ \A q \in Procs : ~Erasing(q, th[p].ip)

\* ... and unlink() the one that the entry names: the directory has been
\* locked since.
ChildOK(p) ==
  th[p].pc = "child" => ents[Inum(th[p].dp)][th[p].name] = Inum(th[p].ip)

\* What the places of a system call know of the disk, and files have no
\* entries.
TypesOK ==
  /\ \A p \in Procs : Knows(p) /\ InitOK(p) /\ ChildOK(p)
  /\ \A i \in Inums, n \in Names : dinode[i].type # "dir" => ents[i][n] = 0

\* d is a directory above i, or create() is about to make it one.
Edge(d, i) ==
  \/ \E n \in Names : ents[d][n] = i
  \/ \E p \in Procs : th[p].pc = "init" /\ Inum(th[p].dp) = d /\ Inum(th[p].ip) = i

\* There is no circle of directories: any set of inodes has one that is above
\* none of them.
TreeOK == \A D \in (SUBSET Inums) \ {{}} : \E d \in D : \A i \in D : ~Edge(d, i)

\* The second layer: what is cached, what a system call remembers, and that
\* directories form no circle.
IInv2 == CacheOK /\ TypesOK /\ TreeOK

\* What a step of p does to what is cached ...
Caches(p) ==
  /\ \A u \in Slots : InUse(u)' => \/ Coherent(u)'
                                   \/ \E q \in Procs : Releasing(q, u)'
                                   \/ /\ InUse(u) /\ itable'[u].type = itable[u].type
                                      /\ itable'[u].nlink = itable[u].nlink
                                      /\ dinode'[Inum(u)] = dinode[Inum(u)]
  /\ \A u \in Slots : Releasing(p, u) /\ ~Releasing(p, u)' => ~InUse(u)'
  /\ \A u \in Slots : InUse(u) /\ ~Erasing(p, u) => itable'[u].type = itable[u].type
  /\ \A u \in Slots : InUse(u) /\ itable[u].lock \notin {p, Nobody} => itable'[u].nlink = itable[u].nlink
  /\ \A u \in Slots : Erasing(p, u)' => /\ itable'[u].valid /\ itable'[u].nlink = 0
                                        /\ \A q \in Procs \ {p}, v \in Pointers : Pointer(q, v) # u

\* ... to the disk ...
Disk(p) ==
  /\ \A i \in Inums : dinode'[i].type # dinode[i].type =>
       \/ dinode[i].type = "free"
       \/ \E s \in Slots : Erasing(p, s) /\ Inum(s) = i
  /\ \A i \in Inums, n \in Names : ents'[i][n] # 0 =>
       \/ dinode'[i].type = "dir"
       \/ ents[i][n] # 0 /\ dinode'[i].type = dinode[i].type
  /\ \A i \in Inums, n \in Names : ents'[i][n] # ents[i][n] =>
       \E s \in Slots : itable[s].ref > 0 /\ Inum(s) = i /\ itable[s].lock \in {p, Nobody}

\* ... and to the tree: only leaves get a new edge.
Grows(p) ==
  \E j \in 0 .. NInodes :
    /\ j # 0 => dinode[j].type # "dir"
    /\ \A d \in Inums, n \in Names : ents'[d][n] # 0 =>
         \/ Edge(d, ents'[d][n])
         \/ ents'[d][n] = j /\ dinode[d].type = "dir"
    /\ th'[p].pc = "init" => /\ itable'[th'[p].ip].inum = j
                             /\ dinode[itable'[th'[p].dp].inum].type = "dir"

\* What every step of p does to the disk and to what p knows.
Works(p) == Caches(p) /\ Disk(p) /\ Grows(p) /\ Knows(p)' /\ InitOK(p)' /\ ChildOK(p)'

\* The others keep what they point to.
LEMMA OthersKeep ==
  ASSUME IInv1, NEW p \in Procs, Moves(p), NEW q \in Procs \ {p}
  PROVE  /\ th'[q] = th[q]
         /\ \A v \in Pointers : Pointer(q, v)' = Pointer(q, v)
         /\ \A s \in Slots, v \in Pointers : Pointer(q, v) = s =>
              itable[s].ref > 0 /\ itable[s].inum \in Inums /\ Inum(s)' = Inum(s)
         /\ \A s : Erasing(q, s)' <=> Erasing(q, s)
         /\ \A s : Releasing(q, s)' <=> Releasing(q, s)
<1>1. th'[q] = th[q] /\ cwd'[q] = cwd[q] /\ ofile'[q] = ofile[q]
  BY DEF Moves, Frame
<1>2. \A v \in Pointers : Pointer(q, v)' = Pointer(q, v)
  BY <1>1 DEF Pointer, PutSlot
<1>3. ASSUME NEW s \in Slots, NEW v \in Pointers, Pointer(q, v) = s
      PROVE  itable[s].ref > 0 /\ itable[s].inum \in Inums /\ Inum(s)' = Inum(s)
  <2>1. itable[s].ref > 0 /\ itable[s].inum \in Inums
    BY <1>3, PointedTo
  <2> QED BY <2>1 DEF Moves, Counts, Inum
<1>4. \A s : (Erasing(q, s)' <=> Erasing(q, s)) /\ (Releasing(q, s)' <=> Releasing(q, s))
  BY <1>1 DEF Erasing, Releasing
<1> QED BY <1>1, <1>2, <1>3, <1>4

\* A process that erases or releases a slot has it locked.
LEMMA ErasingHolds ==
  ASSUME IInv1, NEW q \in Procs, NEW s, Erasing(q, s) \/ Releasing(q, s)
  PROVE  /\ s \in Slots /\ itable[s].lock = q /\ itable[s].ref > 0 /\ itable[s].inum \in Inums
         /\ Pointer(q, "put1") = s
<1>1. Holds(th[q], "put1") /\ Pointer(q, "put1") = s /\ "put1" \in Pointers
  BY DEF Erasing, Releasing, Holds, Pointer, PutSlot, Pointers
<1>2. s \in Slots
  BY <1>1, PointerSlots DEF IInv1
<1> QED BY <1>1, <1>2, PointedTo DEF IInv1, LockOK

\* A pointer that is relied on: the slot is in use, and nobody is freeing it.
LEMMA FirmUse ==
  ASSUME IInv1, IInv2, NEW q \in Procs, NEW v \in Pointers, Firm(th[q], v), NEW s, Pointer(q, v) = s
  PROVE  /\ s \in Slots /\ InUse(s) /\ Coherent(s) /\ itable[s].inum \in Inums
         /\ \A p \in Procs : ~Erasing(p, s) /\ ~Releasing(p, s)
<1>1. s \in Slots
  BY PointerSlots DEF IInv1
<1>2. itable[s].ref > 0 /\ itable[s].inum \in Inums
  BY <1>1, PointedTo
<1>3. itable[s].valid /\ \A p \in Procs : ~Erasing(p, s) /\ ~Releasing(p, s)
  BY DEF IInv1, FirmOK
<1> QED BY <1>1, <1>2, <1>3 DEF InUse, IInv2, CacheOK

\* What p knows of an inode it has learned with the inode locked.
LEMMA KnowsFirm ==
  ASSUME NEW t, NEW v \in Pointers, Dirs(t, v) \/ Files(t, v), ThreadOK(t)
  PROVE  Firm(t, v)
BY DEF Dirs, Files, Firm, ThreadOK

\* A step that does so keeps the cache true.
LEMMA WorksCache ==
  ASSUME IInv1, IInv1', IInv2, NEW p \in Procs, Moves(p), Works(p)
  PROVE  CacheOK'
<1>1. ASSUME NEW u \in Slots, InUse(u)', \A q \in Procs : ~Releasing(q, u)'
      PROVE  Coherent(u)'
  <2>1. Coherent(u)' \/ (InUse(u) /\ itable'[u].type = itable[u].type
                         /\ itable'[u].nlink = itable[u].nlink /\ dinode'[Inum(u)] = dinode[Inum(u)])
    BY <1>1 DEF Works, Caches
  <2>2. CASE InUse(u) /\ itable'[u].type = itable[u].type
             /\ itable'[u].nlink = itable[u].nlink /\ dinode'[Inum(u)] = dinode[Inum(u)]
    <3>1. ~Releasing(p, u)
      BY <1>1 DEF Works, Caches
    <3>2. \A q \in Procs \ {p} : ~Releasing(q, u)
      BY <1>1, OthersKeep
    <3>3. Coherent(u)
      BY <2>2, <3>1, <3>2 DEF IInv2, CacheOK
    <3>4. itable[u].ref > 0
      BY <2>2 DEF InUse
    <3>5. itable'[u].inum = itable[u].inum
      BY <3>4 DEF Moves, Counts
    <3> QED BY <2>2, <3>3, <3>5 DEF Coherent, Inum
  <2> QED BY <2>1, <2>2
<1>2. ASSUME NEW q \in Procs, NEW u \in Slots, Erasing(q, u)'
      PROVE  itable'[u].valid /\ itable'[u].nlink = 0
  <2>1. CASE q = p
    BY <1>2, <2>1 DEF Works, Caches
  <2>2. CASE q # p
    <3>1. Erasing(q, u)
      BY <1>2, <2>2, OthersKeep
    <3>2. itable[u].valid /\ itable[u].nlink = 0
      BY <3>1 DEF IInv2, CacheOK
    <3>3. itable[u].lock = q /\ itable[u].ref > 0 /\ q # Nobody
      BY <3>1, ErasingHolds, Consts
    <3>4. itable'[u].nlink = itable[u].nlink
      BY <2>2, <3>2, <3>3 DEF Works, Caches, InUse
    <3>5. ~Releasing(p, u)
      BY <2>2, <3>3, ErasingHolds
    <3>6. itable[u].ref # 0
      BY <3>3
    <3>7. itable'[u].valid
      BY <3>2, <3>5, <3>6 DEF Moves, Firms
    <3> QED BY <3>2, <3>4, <3>7
  <2> QED BY <2>1, <2>2
<1> QED BY <1>1, <1>2 DEF CacheOK

\* A slot that another process points to keeps its type.
LEMMA WorksKnows ==
  ASSUME IInv1, IInv2, NEW p \in Procs, Moves(p), Works(p), NEW q \in Procs
  PROVE  Knows(q)'
<1>1. CASE q = p
  BY <1>1 DEF Works
<1>2. CASE q # p
  <2>1. th'[q] = th[q] /\ \A v \in Pointers : Pointer(q, v)' = Pointer(q, v)
    BY <1>2, OthersKeep
  <2>2. ThreadOK(th[q])
    BY DEF IInv1, PlaceOK
  <2>3. ASSUME NEW v \in Pointers, Dirs(th[q], v) \/ Files(th[q], v)
        PROVE  itable'[Pointer(q, v)].type = itable[Pointer(q, v)].type
    <3>1. Firm(th[q], v)
      BY <2>2, <2>3, KnowsFirm
    <3>2. PICK s : s = Pointer(q, v)
      OBVIOUS
    <3>3. s \in Slots /\ InUse(s) /\ ~Erasing(p, s)
      BY <3>1, <3>2, FirmUse
    <3>4. itable'[s].type = itable[s].type
      BY <3>3 DEF Works, Caches
    <3> QED BY <3>2, <3>4
  <2>4. Knows(q)
    BY DEF IInv2, TypesOK
  <2> QED BY <2>1, <2>3, <2>4 DEF Knows
<1> QED BY <1>1, <1>2

\* Nothing makes a free inode.
LEMMA TypeOfFree == \A op \in Making : TypeOf(op) # "free"
BY DEF Making, TypeOf

\* The inode that create() has allocated is left alone by everybody.
LEMMA WorksInit ==
  ASSUME IInv1, IInv2, NEW p \in Procs, Moves(p), Works(p), NEW q \in Procs
  PROVE  InitOK(q)'
<1>1. CASE q = p
  BY <1>1 DEF Works
<1>2. CASE q # p
  <2>1. th'[q] = th[q]
    BY <1>2, OthersKeep
  <2>2. SUFFICES ASSUME th[q].pc = "init"
                 PROVE  /\ dinode'[itable'[th[q].ip].inum].type = TypeOf(th[q].op)
                        /\ \A r \in Procs : ~Erasing(r, th[q].ip)'
    BY <2>1 DEF InitOK, Inum
  <2> PICK s : s = th[q].ip
    OBVIOUS
  <2>3. s \in Slots /\ itable[s].ref > 0 /\ itable[s].inum \in Inums
    BY <2>2, AtIp
  <2>4. dinode[Inum(s)].type = TypeOf(th[q].op) /\ \A r \in Procs : ~Erasing(r, s)
    BY <2>2 DEF IInv2, TypesOK, InitOK
  <2>5. th[q].op \in Making
    BY <2>2 DEF IInv1, PlaceOK, ThreadOK
  <2>6. itable'[s].inum = itable[s].inum
    BY <2>3 DEF Moves, Counts
  <2>7. \A u \in Slots : Erasing(p, u) => Inum(u) # Inum(s)
    <3> SUFFICES ASSUME NEW u \in Slots, Erasing(p, u) PROVE Inum(u) # Inum(s)
      OBVIOUS
    <3>1. u # s
      BY <2>4
    <3>2. itable[u].ref > 0
      BY ErasingHolds
    <3> QED BY <2>3, <3>1, <3>2 DEF IInv1, RefOK, Inum
  <2>8. dinode'[Inum(s)].type = dinode[Inum(s)].type
    BY <2>3, <2>4, <2>5, <2>7, TypeOfFree DEF Works, Disk, Inum
  <2>9. Pointer(q, "ip") = s /\ "ip" \in Pointers
    BY DEF Pointer, Pointers
  <2>10. ~Erasing(p, s)'
    BY <1>2, <2>3, <2>9 DEF Works, Caches
  <2>11. \A r \in Procs \ {p} : ~Erasing(r, s)'
    BY <2>4, OthersKeep
  <2> QED BY <2>1, <2>4, <2>6, <2>8, <2>10, <2>11 DEF Inum
<1> QED BY <1>1, <1>2

\* The entry that unlink() has looked up is left alone by everybody.
LEMMA WorksChild ==
  ASSUME IInv1, IInv2, NEW p \in Procs, Moves(p), Works(p), NEW q \in Procs
  PROVE  ChildOK(q)'
<1>1. CASE q = p
  BY <1>1 DEF Works
<1>2. CASE q # p
  <2>1. th'[q] = th[q]
    BY <1>2, OthersKeep
  <2>2. SUFFICES ASSUME th[q].pc = "child"
                 PROVE  ents'[itable'[th[q].dp].inum][th[q].name] = itable'[th[q].ip].inum
    BY <2>1 DEF ChildOK, Inum
  <2> PICK s, d : s = th[q].ip /\ d = th[q].dp
    OBVIOUS
  <2>3. s \in Slots /\ itable[s].ref > 0
    BY <2>2, AtIp
  <2>4. d # 0 /\ th[q].name \in Names
    BY <2>2 DEF IInv1, PlaceOK, ThreadOK
  <2>5. d \in Slots /\ itable[d].ref > 0 /\ itable[d].inum \in Inums
    BY <2>4, AtDp
  <2>6. itable'[s].inum = itable[s].inum /\ itable'[d].inum = itable[d].inum
    BY <2>3, <2>5 DEF Moves, Counts
  <2>7. itable[d].lock = q
    <3>1. Holds(th[q], "dp") /\ Pointer(q, "dp") = d /\ "dp" \in Pointers
      BY <2>2 DEF Holds, Pointer, Pointers
    <3> QED BY <3>1 DEF IInv1, LockOK
  <2>8. ents'[Inum(d)][th[q].name] = ents[Inum(d)][th[q].name]
    <3>1. SUFFICES ASSUME ents'[Inum(d)][th[q].name] # ents[Inum(d)][th[q].name] PROVE FALSE
      OBVIOUS
    <3>2. PICK u \in Slots : itable[u].ref > 0 /\ Inum(u) = Inum(d) /\ itable[u].lock \in {p, Nobody}
      BY <2>4, <2>5, <3>1 DEF Works, Disk, Inum
    <3>3. u = d
      BY <2>5, <3>2 DEF IInv1, RefOK, Inum
    <3> QED BY <1>2, <2>7, <3>2, <3>3, Consts
  <2>9. ents[Inum(d)][th[q].name] = Inum(s)
    BY <2>2 DEF IInv2, TypesOK, ChildOK
  <2> QED BY <2>6, <2>8, <2>9 DEF Inum
<1> QED BY <1>1, <1>2

\* The inode of the parent in create() is a directory on the disk.
LEMMA InitParent ==
  ASSUME IInv1, IInv2, NEW q \in Procs, th[q].pc = "init"
  PROVE  dinode[Inum(th[q].dp)].type = "dir" /\ Inum(th[q].dp) \in Inums
<1> PICK d : d = th[q].dp
  OBVIOUS
<1>1. Firm(th[q], "dp") /\ Pointer(q, "dp") = d /\ "dp" \in Pointers /\ Dirs(th[q], "dp")
  BY DEF IInv1, PlaceOK, ThreadOK, Firm, Pointer, Pointers, Dirs
<1>2. Coherent(d) /\ itable[d].inum \in Inums
  BY <1>1, FirmUse
<1>3. itable[d].type = "dir"
  BY <1>1 DEF IInv2, TypesOK, Knows
<1> QED BY <1>2, <1>3 DEF Coherent, Inum

\* What is not a directory is a leaf.
LEMMA LeafIs ==
  ASSUME IInv1, IInv2, NEW j \in Inums, dinode[j].type # "dir", NEW i \in Inums
  PROVE  ~Edge(j, i)
<1>1. \A n \in Names : ents[j][n] # i
  BY Consts DEF IInv2, TypesOK, Slots
<1>2. \A q \in Procs : th[q].pc = "init" => Inum(th[q].dp) # j
  BY InitParent
<1> QED BY <1>1, <1>2 DEF Edge

\* An entry that is added leads to an inode that has no entries yet.
LEMMA WorksTree ==
  ASSUME IInv1, IInv1', IInv2, NEW p \in Procs, Moves(p), Works(p)
  PROVE  TreeOK'
<1>1. PICK j \in 0 .. NInodes :
        /\ j # 0 => dinode[j].type # "dir"
        /\ \A d \in Inums, n \in Names : ents'[d][n] # 0 =>
             \/ Edge(d, ents'[d][n])
             \/ ents'[d][n] = j /\ dinode[d].type = "dir"
        /\ th'[p].pc = "init" => /\ itable'[th'[p].ip].inum = j
                                 /\ dinode[itable'[th'[p].dp].inum].type = "dir"
  BY DEF Works, Grows
<1>2. ASSUME NEW d \in Inums, NEW i \in Inums, Edge(d, i)'
      PROVE  Edge(d, i) \/ (i = j /\ dinode[d].type = "dir")
  <2>1. CASE \E n \in Names : ents'[d][n] = i
    BY <1>1, <2>1, Consts DEF Slots
  <2>2. CASE \E q \in Procs : th'[q].pc = "init" /\ Inum(th[q].dp)' = d /\ Inum(th[q].ip)' = i
    <3>1. PICK q \in Procs : /\ th'[q].pc = "init" /\ itable'[th'[q].dp].inum = d
                             /\ itable'[th'[q].ip].inum = i
      BY <2>2 DEF Inum
    <3>2. CASE q = p
      BY <1>1, <3>1, <3>2
    <3>3. CASE q # p
      <4>1. th'[q] = th[q]
        BY <3>3, OthersKeep
      <4>2. th[q].ip \in Slots /\ itable[th[q].ip].ref > 0 /\ th[q].dp \in Slots /\ itable[th[q].dp].ref > 0
        <5>1. th[q].dp # 0
          BY <3>1, <4>1 DEF IInv1, PlaceOK, ThreadOK
        <5> QED BY <3>1, <4>1, <5>1, AtIp, AtDp
      <4>3. itable'[th[q].ip].inum = itable[th[q].ip].inum /\ itable'[th[q].dp].inum = itable[th[q].dp].inum
        BY <4>2 DEF Moves, Counts
      <4> QED BY <3>1, <4>1, <4>3 DEF Edge, Inum
    <3> QED BY <3>2, <3>3
  <2> QED BY <1>2, <2>1, <2>2 DEF Edge
<1>3. ASSUME NEW D \in (SUBSET Inums) \ {{}}
      PROVE  \E d \in D : \A i \in D : ~Edge(d, i)'
  <2>1. CASE j \in D
    <3>1. j \in Inums /\ j # 0 /\ D \subseteq Inums
      BY <2>1, Consts DEF Slots
    <3>2. \A i \in D : ~Edge(j, i)'
      BY <1>1, <1>2, <3>1, LeafIs
    <3> QED BY <2>1, <3>2
  <2>2. CASE j \notin D
    <3>1. PICK d \in D : \A i \in D : ~Edge(d, i)
      BY DEF IInv2, TreeOK
    <3>2. \A i \in D : ~Edge(d, i)'
      BY <1>2, <2>2, <3>1
    <3> QED BY <3>2
  <2> QED BY <2>1, <2>2
<1> QED BY <1>3 DEF TreeOK

\* A step that works like this keeps what is cached, known and above what.
LEMMA WorksKeeps ==
  ASSUME IInv1, IInv1', IInv2, NEW p \in Procs, Moves(p), Works(p)
  PROVE  IInv2'
<1>1. CacheOK' /\ TreeOK'
  BY WorksCache, WorksTree
<1>2. \A q \in Procs : Knows(q)' /\ InitOK(q)' /\ ChildOK(q)'
  BY WorksKnows, WorksInit, WorksChild
<1>3. ASSUME NEW i \in Inums, NEW n \in Names, dinode'[i].type # "dir"
      PROVE  ents'[i][n] = 0
  BY <1>3 DEF Works, Disk, IInv2, TypesOK
<1>4. TypesOK'
  BY <1>2, <1>3 DEF TypesOK
<1> QED BY <1>1, <1>4 DEF IInv2

-----------------------------------------------------------------------------
(* Steps that change neither the disk nor the directories. *)

\* T has the cached fields of t, and nothing new in use.
Calm(t, T) ==
  \A u \in Slots : /\ T[u].type = t[u].type /\ T[u].nlink = t[u].nlink
                   /\ T[u].ref > 0 /\ T[u].valid => t[u].ref > 0 /\ t[u].valid

\* A table is like itself.
LEMMA CalmSame == \A t : Calm(t, t)
BY DEF Calm

\* One change that leaves type and link count alone after another.
LEMMA CalmTrans == ASSUME NEW t, NEW T, NEW U, Calm(t, T), Calm(T, U) PROVE Calm(t, U)
BY DEF Calm

\* Taking or giving up a lock is such a change.
LEMMA LockedCalm ==
  ASSUME NEW t \in [Slots -> SlotRec], NEW s \in Slots, NEW q \in Procs \cup {Nobody}
  PROVE  Calm(t, Locked(t, s, q)) /\ Locked(t, s, q) \in [Slots -> SlotRec]
<1>1. PICK T : T = Locked(t, s, q)
  OBVIOUS
<1>2. /\ Near(t, T) /\ T[s].valid = t[s].valid
      /\ T[s].type = t[s].type /\ T[s].nlink = t[s].nlink
      /\ \A u \in Slots : u # s => T[u] = t[u]
  BY <1>1, LockedIs
<1>3. Calm(t, T) /\ T \in [Slots -> SlotRec]
  BY <1>2 DEF Near, Calm
<1> QED BY <1>1, <1>3

\* So is taking a reference.
LEMMA TakesCalm ==
  ASSUME NEW t, TableOK(t), NEW T, NEW k, Takes(t, T, k)
  PROVE  Calm(t, T)
<1>1. \A u \in Slots : t[u].ref \in Nat
  BY DEF TableOK
<1>2. ASSUME NEW u \in Slots
      PROVE  /\ T[u].type = t[u].type /\ T[u].nlink = t[u].nlink
             /\ T[u].ref > 0 /\ T[u].valid => t[u].ref > 0 /\ t[u].valid
  <2>1. CASE u = k
    <3>1. t[k].ref \in Nat
      BY <1>1, <2>1
    <3> QED BY <2>1, <3>1 DEF Takes
  <2>2. CASE u # k
    BY <2>2 DEF Takes
  <2> QED BY <2>1, <2>2
<1> QED BY <1>2 DEF Calm

\* A step that leaves disk and directories alone, and the inodes of valid
\* slots.
Quiet(p) ==
  /\ UNCHANGED <<dinode, ents>>
  /\ \A u \in Slots :
       /\ InUse(u)' => \/ Coherent(u)'
                       \/ /\ InUse(u) /\ itable'[u].type = itable[u].type
                          /\ itable'[u].nlink = itable[u].nlink
       /\ InUse(u) => itable'[u].type = itable[u].type /\ itable'[u].nlink = itable[u].nlink

\* A table that is changed in this way.
LEMMA CalmQuiet ==
  ASSUME NEW p, Calm(itable, itable'), UNCHANGED <<dinode, ents>>
  PROVE  Quiet(p)
BY DEF Calm, Quiet, InUse

\* Reading an inode from the disk gives what the disk says.
LEMMA LoadQuiet ==
  ASSUME IInv1, NEW p \in Procs, NEW where \in LockPlaces, AtLock(p, where), Moves(p),
         Calm(Load(th[p].ip), itable'), UNCHANGED <<dinode, ents>>
  PROVE  Quiet(p)
<1> PICK s, tb : s = th[p].ip /\ tb = Load(s)
  OBVIOUS
<1>1. s \in Slots /\ itable[s].ref > 0 /\ itable[s].inum \in Inums /\ Near(itable, tb)
  BY LockReady
<1>2. /\ \A u \in Slots : u # s => tb[u] = itable[u]
      /\ itable[s].valid => tb[s] = itable[s]
      /\ ~itable[s].valid => /\ tb[s].type = dinode[itable[s].inum].type
                             /\ tb[s].nlink = dinode[itable[s].inum].nlink
  BY <1>1, LoadLike DEF IInv1
<1>3. itable'[s].inum = itable[s].inum
  BY <1>1 DEF Moves, Counts
<1>4. ~itable[s].valid => dinode[itable[s].inum].type # "free"
  BY DEF AtLock, NoType
<1>5. ASSUME NEW u \in Slots
      PROVE  /\ InUse(u)' => \/ Coherent(u)'
                             \/ /\ InUse(u) /\ itable'[u].type = itable[u].type
                                /\ itable'[u].nlink = itable[u].nlink
             /\ InUse(u) => itable'[u].type = itable[u].type /\ itable'[u].nlink = itable[u].nlink
  <2>1. /\ itable'[u].type = tb[u].type /\ itable'[u].nlink = tb[u].nlink
        /\ itable'[u].ref > 0 /\ itable'[u].valid => tb[u].ref > 0 /\ tb[u].valid
    BY DEF Calm
  <2>2. CASE u # s \/ itable[s].valid
    <3>1. tb[u] = itable[u]
      BY <1>2, <2>2
    <3> QED BY <2>1, <3>1 DEF InUse
  <2>3. CASE u = s /\ ~itable[s].valid
    BY <1>2, <1>3, <1>4, <2>1, <2>3 DEF InUse, Coherent, Inum
  <2> QED BY <2>2, <2>3
<1> QED BY <1>5 DEF Quiet

\* Such a step keeps the cache true.
LEMMA QuietParts ==
  ASSUME IInv1, NEW p \in Procs, Quiet(p),
         \A u : ~Erasing(p, u)', \A u \in Slots : Releasing(p, u) => Releasing(p, u)' \/ ~InUse(u)'
  PROVE  Caches(p) /\ Disk(p) /\ (th'[p].pc # "init" => Grows(p))
<1>1. Caches(p)
  BY DEF Quiet, Caches, Inum
<1>2. Disk(p)
  BY DEF Quiet, Disk
<1>3. th'[p].pc # "init" => Grows(p)
  <2>1. 0 \in 0 .. NInodes
    BY Consts
  <2>2. \A d \in Inums, n \in Names : ents'[d][n] # 0 => Edge(d, ents'[d][n])
    BY DEF Quiet, Edge
  <2> QED BY <2>1, <2>2 DEF Grows
<1> QED BY <1>1, <1>2, <1>3

\* Such a step to a place that needs to know nothing else.
LEMMA QuietWorks ==
  ASSUME IInv1, NEW p \in Procs, Quiet(p), Knows(p)', th'[p].pc \notin {"init", "child"},
         \A u : ~Erasing(p, u)', \A u \in Slots : Releasing(p, u) => Releasing(p, u)' \/ ~InUse(u)'
  PROVE  Works(p)
<1>1. Caches(p) /\ Disk(p) /\ Grows(p)
  BY QuietParts
<1>2. InitOK(p)' /\ ChildOK(p)'
  BY DEF InitOK, ChildOK
<1> QED BY <1>1, <1>2 DEF Works

\* A process with nothing to drop frees nothing.
LEMMA BareFrees ==
  ASSUME NEW p, Len(th[p].put) = 0
  PROVE  \A u : ~Erasing(p, u) /\ ~Releasing(p, u)
BY DEF Erasing, Releasing

\* What a process has to know, place by place.
LEMMA KnowsAfter ==
  ASSUME NEW p,
         th'[p].pc = "parent" => itable'[th'[p].ip].type = "dir",
         th'[p].pc \in {"init", "child"} => itable'[th'[p].dp].type = "dir",
         th'[p].pc \in {"link2", "bad"} => itable'[th'[p].ip].type # "dir",
         th'[p].dp # 0 /\ th'[p].op = "link2" => itable'[th'[p].dp].type # "dir"
  PROVE  Knows(p)'
BY DEF Knows, Dirs, Files, Pointer

\* The inode that link() names stays no directory.
LEMMA SecondKept ==
  ASSUME IInv1, IInv2, NEW p \in Procs, Quiet(p), th[p].dp # 0, th[p].op = "link2"
  PROVE  itable'[th[p].dp].type # "dir"
<1> PICK d : d = th[p].dp
  OBVIOUS
<1>1. Firm(th[p], "dp") /\ Files(th[p], "dp") /\ Pointer(p, "dp") = d /\ "dp" \in Pointers
  BY DEF Firm, Files, Pointer, Pointers
<1>2. d \in Slots /\ InUse(d)
  BY <1>1, FirmUse
<1>3. itable[d].type # "dir"
  BY <1>1 DEF IInv2, TypesOK, Knows
<1> QED BY <1>2, <1>3 DEF Quiet

\* A step under a lock that changes nothing but who points to what.
LEMMA LoadWorks ==
  ASSUME IInv1, NEW p \in Procs, NEW where \in LockPlaces, AtLock(p, where), Moves(p),
         Calm(Load(th[p].ip), itable'), UNCHANGED <<dinode, ents>>,
         Knows(p)', th'[p].pc \notin {"init", "child"},
         Len(th'[p].put) = 0 \/ th'[p].put[1].at \notin {"erase", "release"}
  PROVE  Works(p)
<1>1. Quiet(p)
  BY LoadQuiet
<1>2. Len(th[p].put) = 0
  BY NoLen DEF AtLock
<1>3. \A u \in Slots : ~Releasing(p, u)
  BY <1>2, BareFrees
<1>4. \A u : ~Erasing(p, u)'
  BY DEF Erasing
<1> QED BY <1>1, <1>3, <1>4, QuietWorks

\* What is left to be dropped after a walk.
LEMMA DoneAfter ==
  ASSUME IInv1, NEW p \in Procs, NEW s \in Slots, NEW at \in {"unlock", "drop"},
         th' = [th EXCEPT ![p] = Done(<<Stage(s, at)>>)]
  PROVE  /\ th'[p].pc = "idle" /\ th'[p].dp = 0 /\ th'[p].op = "none"
         /\ Len(th'[p].put) >= 1 /\ th'[p].put[1].at = at
<1>1. PICK d : d = Done(<<Stage(s, at)>>)
  OBVIOUS
<1>2. d \in ThRec /\ Shape(d, "idle", 0, 0, s, at, 0, "none") /\ d.op = "none"
  BY <1>1, DoneOne
<1>3. th'[p] = d
  BY <1>1, <1>2, ThSet DEF IInv1
<1>4. s # 0
  BY Consts
<1> QED BY <1>2, <1>3, <1>4, StageIs DEF Shape

\* Places where nothing has to be known.
LEMMA IdleKnows == ASSUME NEW p, th'[p].pc \in {"idle", "opened", "cd"}, th'[p].dp = 0 PROVE Knows(p)'
BY KnowsAfter

\* The call ends, or has its inode locked.
LEMMA EndWorks ==
  ASSUME IInv1, NEW p \in Procs, NEW where \in LockPlaces, AtLock(p, where), Moves(p),
         Calm(Load(th[p].ip), itable'), UNCHANGED <<dinode, ents>>,
         th' = [th EXCEPT ![p] = Done(<<Stage(th[p].ip, "drop")>>)]
  PROVE  Works(p)
<1>1. th[p].ip \in Slots
  BY LockReady
<1>2. /\ th'[p].pc = "idle" /\ th'[p].dp = 0 /\ th'[p].op = "none"
      /\ Len(th'[p].put) >= 1 /\ th'[p].put[1].at = "drop"
  BY <1>1, DoneAfter
<1>3. Knows(p)'
  BY <1>2, IdleKnows
<1> QED BY <1>2, <1>3, LoadWorks

\* Locking the inode that open() or create() has found.
LEMMA OpenedWorks ==
  ASSUME IInv1, NEW p \in Procs, NEW where \in {"found", "exists"}, AtLock(p, where), Moves(p),
         itable' = Locked(Load(th[p].ip), th[p].ip, p), UNCHANGED <<dinode, ents>>,
         th' = [th EXCEPT ![p].pc = "opened"]
  PROVE  Works(p)
<1>0. where \in LockPlaces
  BY DEF LockPlaces
<1>1. th[p].ip \in Slots /\ Load(th[p].ip) \in [Slots -> SlotRec] /\ th[p].put = <<>> /\ th[p].pc = where
  BY <1>0, LockReady
<1>2. th[p].dp = 0 /\ th[p] \in ThRec /\ th \in [Procs -> ThRec]
  BY <1>1 DEF IInv1, TypeOK, PlaceOK, ThreadOK
<1>3. th'[p].pc = "opened" /\ th'[p].dp = 0 /\ Len(th'[p].put) = 0
  BY <1>1, <1>2, NoLen DEF ThRec
<1>4. Calm(Load(th[p].ip), itable')
  BY <1>1, LockedCalm
<1>5. Knows(p)'
  BY <1>3, IdleKnows
<1> QED BY <1>0, <1>3, <1>4, <1>5, LoadWorks

\* open() locks the inode it has found.
LEMMA OpenFoundWorks == ASSUME IInv1, NEW p \in Procs, OpenFound(p) PROVE Works(p)
<1>1. AtLock(p, "found") /\ "found" \in LockPlaces /\ UNCHANGED <<dinode, ents>>
  BY DEF OpenFound, LockPlaces
<1>2. Moves(p)
  BY OpenFoundMoves
<1>3. CASE itable' = Locked(Load(th[p].ip), th[p].ip, p) /\ th' = [th EXCEPT ![p].pc = "opened"]
  BY <1>1, <1>2, <1>3, OpenedWorks
<1>4. CASE itable' = Load(th[p].ip) /\ th' = [th EXCEPT ![p] = Done(<<Stage(th[p].ip, "drop")>>)]
  BY <1>1, <1>2, <1>4, CalmSame, EndWorks
<1> QED BY <1>3, <1>4 DEF OpenFound

\* create() locks the inode that has the name already.
LEMMA CreateExistsWorks == ASSUME IInv1, NEW p \in Procs, CreateExists(p) PROVE Works(p)
<1>1. AtLock(p, "exists") /\ "exists" \in LockPlaces /\ UNCHANGED <<dinode, ents>>
  BY DEF CreateExists, LockPlaces
<1>2. Moves(p)
  BY CreateExistsMoves
<1>3. CASE itable' = Locked(Load(th[p].ip), th[p].ip, p) /\ th' = [th EXCEPT ![p].pc = "opened"]
  BY <1>1, <1>2, <1>3, OpenedWorks
<1>4. CASE itable' = Load(th[p].ip) /\ th' = [th EXCEPT ![p] = Done(<<Stage(th[p].ip, "drop")>>)]
  BY <1>1, <1>2, <1>4, CalmSame, EndWorks
<1> QED BY <1>3, <1>4 DEF CreateExists

\* A process with nothing to drop that only changes pointers and its lock.
LEMMA BareWorks ==
  ASSUME IInv1, NEW p \in Procs, Len(th[p].put) = 0, Calm(itable, itable'), UNCHANGED <<dinode, ents>>,
         Knows(p)', th'[p].pc \notin {"init", "child"},
         Len(th'[p].put) = 0 \/ th'[p].put[1].at \notin {"erase", "release"}
  PROVE  Works(p)
<1>1. Quiet(p)
  BY CalmQuiet
<1>2. \A u \in Slots : ~Releasing(p, u)
  BY BareFrees
<1>3. \A u : ~Erasing(p, u)'
  BY DEF Erasing
<1> QED BY <1>1, <1>2, <1>3, QuietWorks

\* The process outside system calls.
LEMMA IdleAfter ==
  ASSUME IInv1, NEW p \in Procs, th' = [th EXCEPT ![p] = IdleThread]
  PROVE  th'[p].pc = "idle" /\ th'[p].dp = 0 /\ Len(th'[p].put) = 0
<1>1. th'[p] = IdleThread
  BY IdleIs, ThSet DEF IInv1
<1> QED BY <1>1, IdleIs, NoLen

\* open() keeps its reference in the file.
LEMMA OpenFileWorks == ASSUME IInv1, NEW p \in Procs, OpenFile(p) PROVE Works(p)
<1>1. /\ th[p].pc = "opened" /\ th[p].put = <<>> /\ itable' = Locked(itable, th[p].ip, Nobody)
      /\ th' = [th EXCEPT ![p] = IdleThread] /\ UNCHANGED <<dinode, ents>>
  BY DEF OpenFile
<1>2. th[p].ip \in Slots /\ itable \in [Slots -> SlotRec] /\ Nobody \in Procs \cup {Nobody}
  BY <1>1, AtIp DEF IInv1, TypeOK
<1>3. Calm(itable, itable')
  BY <1>1, <1>2, LockedCalm
<1>4. th'[p].pc = "idle" /\ th'[p].dp = 0 /\ Len(th'[p].put) = 0
  BY <1>1, IdleAfter
<1>5. Knows(p)'
  BY <1>4, IdleKnows
<1>6. Len(th[p].put) = 0
  BY <1>1, NoLen
<1> QED BY <1>1, <1>3, <1>4, <1>5, <1>6, BareWorks

\* open() of a directory for writing lets the inode go.
LEMMA OpenFailWorks == ASSUME IInv1, NEW p \in Procs, OpenFail(p) PROVE Works(p)
<1>1. /\ th[p].pc = "opened" /\ th[p].put = <<>> /\ UNCHANGED <<itable, dinode, ents>>
      /\ th' = [th EXCEPT ![p] = Done(<<Stage(th[p].ip, "unlock")>>)]
  BY DEF OpenFail
<1>2. th[p].ip \in Slots
  BY <1>1, AtIp
<1>3. /\ th'[p].pc = "idle" /\ th'[p].dp = 0 /\ th'[p].op = "none"
      /\ Len(th'[p].put) >= 1 /\ th'[p].put[1].at = "unlock"
  BY <1>1, <1>2, DoneAfter
<1>4. Knows(p)'
  BY <1>3, IdleKnows
<1>5. Len(th[p].put) = 0 /\ Calm(itable, itable')
  BY <1>1, NoLen, CalmSame
<1> QED BY <1>1, <1>3, <1>4, <1>5, BareWorks

\* close() lets the inode of the file go.
LEMMA CloseWorks == ASSUME IInv1, NEW p \in Procs, Close(p) PROVE Works(p)
<1>1. /\ th[p] = IdleThread /\ ofile[p] # 0 /\ UNCHANGED <<itable, dinode, ents>>
      /\ th' = [th EXCEPT ![p] = Done(<<Stage(ofile[p], "drop")>>)]
  BY DEF Close
<1>2. ofile[p] \in Slots
  BY <1>1, Consts DEF IInv1, TypeOK, Slots, Inums
<1>3. /\ th'[p].pc = "idle" /\ th'[p].dp = 0 /\ th'[p].op = "none"
      /\ Len(th'[p].put) >= 1 /\ th'[p].put[1].at = "drop"
  BY <1>1, <1>2, DoneAfter
<1>4. Knows(p)'
  BY <1>3, IdleKnows
<1>5. Len(th[p].put) = 0 /\ Calm(itable, itable')
  BY <1>1, IdleIs, NoLen, CalmSame
<1> QED BY <1>1, <1>3, <1>4, <1>5, BareWorks

\* chdir() exchanges the current directory.
LEMMA ChdirSetWorks == ASSUME IInv1, NEW p \in Procs, ChdirSet(p) PROVE Works(p)
<1>1. /\ th[p].put = <<>> /\ UNCHANGED <<itable, dinode, ents>>
      /\ th' = [th EXCEPT ![p] = IdleThread]
  BY DEF ChdirSet
<1>2. th'[p].pc = "idle" /\ th'[p].dp = 0 /\ Len(th'[p].put) = 0
  BY <1>1, IdleAfter
<1>3. Knows(p)'
  BY <1>2, IdleKnows
<1>4. Len(th[p].put) = 0 /\ Calm(itable, itable')
  BY <1>1, NoLen, CalmSame
<1> QED BY <1>1, <1>2, <1>3, <1>4, BareWorks

\* chdir() knows the type of what it has locked.
LEMMA ChdirFoundWorks == ASSUME IInv1, NEW p \in Procs, ChdirFound(p) PROVE Works(p)
<1> DEFINE puts == <<Stage(cwd[p], "drop")>>
           n == [th[p] EXCEPT !.pc = "cd", !.put = puts]
<1>1. /\ AtLock(p, "found") /\ "found" \in LockPlaces /\ itable' = Load(th[p].ip)
      /\ UNCHANGED <<dinode, ents>>
  BY DEF ChdirFound, LockPlaces
<1>2. Moves(p) /\ Calm(Load(th[p].ip), itable')
  BY <1>1, ChdirFoundMoves, CalmSame
<1>3. CASE th' = [th EXCEPT ![p] = Done(<<Stage(th[p].ip, "drop")>>)]
  BY <1>1, <1>2, <1>3, EndWorks
<1>4. CASE th' = [th EXCEPT ![p] = n]
  <2>1. th[p] \in ThRec /\ th[p].pc = "found" /\ th[p].dp = 0 /\ cwd[p] \in Slots
    BY <1>1 DEF AtLock, IInv1, TypeOK, PlaceOK, ThreadOK
  <2>2. Stage(cwd[p], "drop") \in StageRec
    BY <2>1 DEF Stage, StageRec, Stages
  <2>3. puts \in Seq(StageRec) /\ Len(puts) = 1 /\ puts[1] = Stage(cwd[p], "drop")
    BY <2>2, PutOne
  <2> HIDE DEF puts
  <2>4. n \in ThRec /\ n.pc = "cd" /\ n.dp = 0 /\ n.put = puts
    BY <2>1, <2>3 DEF ThRec, Places
  <2> HIDE DEF n
  <2>5. th'[p] = n
    BY <1>4, <2>4, ThSet DEF IInv1
  <2>6. th'[p].pc = "cd" /\ th'[p].dp = 0 /\ Len(th'[p].put) = 1 /\ th'[p].put[1].at = "drop"
    BY <2>3, <2>4, <2>5, StageIs
  <2>7. Knows(p)'
    BY <2>6, IdleKnows
  <2> QED BY <1>1, <1>2, <2>6, <2>7, LoadWorks
<1> QED BY <1>3, <1>4 DEF ChdirFound

\* A walk that has failed.
LEMMA FailedAre ==
  ASSUME NEW t \in ThRec, NEW s \in Slots, NEW n, n = Failed(t, <<Stage(s, "drop")>>)
  PROVE  /\ Len(n.put) = 1 /\ n.put[1].at = "drop" /\ n.dp = 0
         /\ t.op = "link2" => n.pc = "bad" /\ n.ip = t.dp
         /\ t.op # "link2" => n.pc = "idle"
<1> DEFINE puts == <<Stage(s, "drop")>>
<1>1. Stage(s, "drop") \in StageRec
  BY DEF Stage, StageRec, Stages
<1>2. puts \in Seq(StageRec) /\ Len(puts) = 1 /\ puts[1].at = "drop"
  BY <1>1, PutOne, StageIs
<1>3. n = Failed(t, puts)
  OBVIOUS
<1> HIDE DEF puts
<1>4. CASE t.op = "link2"
  <2>1. n = [t EXCEPT !.pc = "bad", !.rest = <<>>, !.ip = t.dp, !.dp = 0, !.put = puts]
    BY <1>3, <1>4 DEF Failed
  <2>2. n.pc = "bad" /\ n.ip = t.dp /\ n.dp = 0 /\ n.put = puts
    BY <2>1 DEF ThRec
  <2> QED BY <1>2, <1>4, <2>2
<1>5. CASE t.op # "link2"
  <2>1. n = Done(puts)
    BY <1>3, <1>5 DEF Failed
  <2>2. n.pc = "idle" /\ n.dp = 0 /\ n.put = puts
    BY <1>2, <2>1, DoneIs
  <2> QED BY <1>2, <1>5, <2>2
<1> QED BY <1>4, <1>5

\* Where a walk begins, or ends at once.
LEMMA WalkIs ==
  ASSUME NEW t \in ThRec, t.put = <<>>, NEW k \in Slots, NEW names \in Seq(EntryNames),
         NEW n, n = Walk(t, k, names)
  PROVE  /\ n.pc \in {"namex", "found", "bad", "idle"}
         /\ n.pc = "bad" => t.op = "link2" /\ n.ip = t.dp
         /\ n.dp \in {t.dp, 0}
         /\ Len(n.put) = 0 \/ n.put[1].at \notin {"erase", "release"}
<1> DEFINE u == [t EXCEPT !.ip = k, !.rest = names, !.pc = "namex"]
<1>1. k \in 0 .. NInodes
  BY Consts
<1>2. u \in ThRec /\ u.op = t.op /\ u.dp = t.dp /\ u.put = <<>> /\ u.pc = "namex"
  BY <1>1 DEF ThRec, Places
<1>3. \/ n = u
      \/ n = Failed(u, <<Stage(k, "drop")>>)
      \/ n = [u EXCEPT !.pc = "found"]
  BY DEF Walk
<1> HIDE DEF u
<1>4. CASE n = u
  BY <1>2, <1>4, NoLen
<1>5. CASE n = Failed(u, <<Stage(k, "drop")>>)
  <2>1. /\ Len(n.put) = 1 /\ n.put[1].at = "drop" /\ n.dp = 0
        /\ u.op = "link2" => n.pc = "bad" /\ n.ip = u.dp
        /\ u.op # "link2" => n.pc = "idle"
    BY <1>2, <1>5, FailedAre
  <2> QED BY <1>2, <2>1
<1>6. CASE n = [u EXCEPT !.pc = "found"]
  <2>1. n.pc = "found" /\ n.dp = u.dp /\ n.put = u.put
    BY <1>2, <1>6 DEF ThRec
  <2> QED BY <1>2, <2>1, NoLen
<1> QED BY <1>3, <1>4, <1>5, <1>6

\* The start of a walk: link() remembers that the old inode is no directory.
LEMMA WalkWorks ==
  ASSUME IInv1, IInv2, NEW p \in Procs, Len(th[p].put) = 0, th[p].pc \in {"idle", "link2"},
         NEW t \in ThRec, t.dp = th[p].ip, t.put = <<>>, t.op = "link2" => th[p].pc = "link2",
         NEW names \in Seq(EntryNames), NEW k \in Slots, Takes(itable, itable', k),
         th' = [th EXCEPT ![p] = Walk(t, k, names)], UNCHANGED <<dinode, ents>>
  PROVE  Works(p)
<1>1. PICK n : n = Walk(t, k, names)
  OBVIOUS
<1>2. /\ n.pc \in {"namex", "found", "bad", "idle"}
      /\ n.pc = "bad" => t.op = "link2" /\ n.ip = t.dp
      /\ n.dp \in {t.dp, 0}
      /\ Len(n.put) = 0 \/ n.put[1].at \notin {"erase", "release"}
  BY <1>1, WalkIs
<1>3. th'[p] = n
  BY <1>1 DEF IInv1, TypeOK
<1>4. Calm(itable, itable')
  BY TableIs, TakesCalm
<1>5. PICK x : x = th[p].ip
  OBVIOUS
<1>6. x # 0 => itable'[x].type # "dir"
  <2> SUFFICES ASSUME x # 0 PROVE itable'[x].type # "dir"
    OBVIOUS
  <2>1. th[p].pc = "link2"
    BY <1>5 DEF IInv1, PlaceOK, ThreadOK
  <2>2. Firm(th[p], "ip") /\ Files(th[p], "ip") /\ Pointer(p, "ip") = x /\ "ip" \in Pointers
    BY <1>5, <2>1 DEF Firm, Files, Pointer, Pointers
  <2>3. x \in Slots
    BY <2>2, FirmUse
  <2>4. itable[x].type # "dir"
    BY <2>2 DEF IInv2, TypesOK, Knows
  <2> QED BY <1>4, <2>3, <2>4 DEF Calm
<1>7. Knows(p)'
  <2>1. n.pc = "bad" => x # 0 /\ n.ip = x
    <3>1. th[p].pc = "link2" => th[p].ip # 0
      BY DEF IInv1, PlaceOK, ThreadOK
    <3> QED BY <1>2, <1>5, <3>1
  <2> QED BY <1>2, <1>3, <1>5, <1>6, <2>1, KnowsAfter
<1> QED BY <1>2, <1>3, <1>4, <1>7, BareWorks

\* Every system call starts with a walk, but close().
LEMMA SyscallWorks ==
  ASSUME IInv1, IInv2, NEW p \in Procs, NEW c \in Calls, Syscall(p, c)
  PROVE  Works(p)
<1> DEFINE t == [IdleThread EXCEPT !.op = c.op]
<1>1. /\ th[p] = IdleThread /\ StartWalk(p, t, c) /\ UNCHANGED <<dinode, ents>>
  BY DEF Syscall
<1>2. c.op \in Ops /\ c.names \in Seq(EntryNames)
  BY InodesAssumption
<1>3. Len(th[p].put) = 0 /\ th[p].pc = "idle" /\ th[p].ip = 0
  BY <1>1, IdleIs, NoLen
<1>4. t \in ThRec /\ t.op = c.op /\ t.dp = 0 /\ t.put = <<>>
  <2>1. IdleThread \in ThRec /\ IdleThread.put = <<>> /\ IdleThread.dp = 0
    BY IdleIs
  <2> QED BY <1>2, <2>1 DEF ThRec
<1>5. t.op # "link2"
  BY <1>2, <1>4 DEF Ops
<1> HIDE DEF t
<1>6. PICK k \in Slots : Takes(itable, itable', k) /\ th' = [th EXCEPT ![p] = Walk(t, k, c.names)]
  BY <1>1, <1>3, StartTakes
<1> QED BY <1>1, <1>2, <1>3, <1>4, <1>5, <1>6, WalkWorks

\* link() walks to the parent of the new name.
LEMMA LinkNewWorks ==
  ASSUME IInv1, IInv2, NEW p \in Procs, NEW path \in NewPaths, LinkNew(p, path)
  PROVE  Works(p)
<1> DEFINE t == [IdleThread EXCEPT !.op = "link2", !.dp = th[p].ip]
<1>1. /\ th[p].pc = "link2" /\ StartWalk(p, t, path) /\ UNCHANGED <<dinode, ents>>
  BY DEF LinkNew
<1>2. path.names \in Seq(EntryNames)
  BY InodesAssumption
<1>3. Len(th[p].put) = 0 /\ th[p].ip \in 0 .. NInodes
  BY <1>1 DEF IInv1, TypeOK, PlaceOK, ThreadOK, Alone, ThRec
<1>4. t \in ThRec /\ t.op = "link2" /\ t.dp = th[p].ip /\ t.put = <<>>
  <2>1. IdleThread \in ThRec /\ IdleThread.put = <<>> /\ IdleThread.dp = 0
    BY IdleIs
  <2> QED BY <1>3, <2>1 DEF ThRec
<1> HIDE DEF t
<1>6. PICK k \in Slots : Takes(itable, itable', k) /\ th' = [th EXCEPT ![p] = Walk(t, k, path.names)]
  BY <1>1, StartTakes
<1> QED BY <1>1, <1>2, <1>3, <1>4, <1>6, WalkWorks

\* A failed walk under a lock: link() goes on with its first inode.
LEMMA FailWorks ==
  ASSUME IInv1, IInv2, NEW p \in Procs, NEW where \in {"namex", "parent"}, AtLock(p, where),
         Moves(p), itable' = Load(th[p].ip), UNCHANGED <<dinode, ents>>,
         th' = [th EXCEPT ![p] = Failed(th[p], <<Stage(th[p].ip, "drop")>>)]
  PROVE  Works(p)
<1>0. where \in LockPlaces
  BY DEF LockPlaces
<1>1. PICK n : n = Failed(th[p], <<Stage(th[p].ip, "drop")>>)
  OBVIOUS
<1>2. th[p] \in ThRec /\ th[p].ip \in Slots /\ th[p].pc = where
  BY <1>0, LockReady DEF IInv1, TypeOK
<1>3. /\ Len(n.put) = 1 /\ n.put[1].at = "drop" /\ n.dp = 0
      /\ th[p].op = "link2" => n.pc = "bad" /\ n.ip = th[p].dp
      /\ th[p].op # "link2" => n.pc = "idle"
  BY <1>1, <1>2, FailedAre
<1>4. th'[p] = n
  BY <1>1 DEF IInv1, TypeOK
<1>5. Calm(Load(th[p].ip), itable') /\ Quiet(p)
  BY <1>0, CalmSame, LoadQuiet
<1>6. th[p].op = "link2" => th[p].dp # 0
  BY <1>2 DEF IInv1, PlaceOK, ThreadOK
<1>7. th[p].op = "link2" => itable'[th[p].dp].type # "dir"
  BY <1>5, <1>6, SecondKept
<1>8. Knows(p)'
  BY <1>3, <1>4, <1>7, KnowsAfter
<1> QED BY <1>0, <1>3, <1>4, <1>5, <1>8, LoadWorks

\* namex() knows that the parent is a directory, for it has had it locked.
LEMMA namexWorks == ASSUME IInv1, IInv2, NEW p \in Procs, namex(p) PROVE Works(p)
<1> DEFINE t == th[p]
           s == t.ip
           tb == Load(s)
           elem == skipelem(t.rest)
           next == dirlookup(itable[s].inum, elem.name)
           last == elem.rest = <<>>
           at == IF last THEN "found" ELSE "namex"
           puts == <<Stage(s, "drop")>>
           n1 == [t EXCEPT !.pc = "parent", !.name = elem.name, !.rest = <<>>]
           n2 == [t EXCEPT !.pc = at, !.rest = elem.rest, !.ip = IgetSlot(tb, next), !.put = puts]
<1>1. AtLock(p, "namex") /\ "namex" \in LockPlaces /\ UNCHANGED <<dinode, ents>> /\ Moves(p)
  BY namexMoves DEF namex, LockPlaces
<1>2. /\ s \in Slots /\ itable[s].inum \in Inums /\ t.put = <<>> /\ t.pc = "namex" /\ TableOK(tb)
  BY <1>1, LockReady
<1>3. t \in ThRec /\ (t.op = "link2" <=> t.dp # 0) /\ t.rest \in Seq(EntryNames) /\ t.rest # <<>>
  BY <1>2 DEF IInv1, TypeOK, PlaceOK, ThreadOK, ThRec
<1>4. CASE itable' = tb /\ th' = [th EXCEPT ![p] = Failed(t, puts)]
  BY <1>1, <1>4, FailWorks
<1>5. CASE tb[s].type = "dir" /\ itable' = tb /\ th' = [th EXCEPT ![p] = n1]
  <2>1. Quiet(p) /\ Calm(tb, itable')
    BY <1>1, <1>5, CalmSame, LoadQuiet
  <2>2. n1.pc = "parent" /\ n1.ip = s /\ n1.dp = t.dp /\ n1.op = t.op /\ n1.put = <<>>
    BY <1>2, <1>3 DEF ThRec
  <2> HIDE DEF n1
  <2>3. th'[p] = n1
    BY <1>5 DEF IInv1, TypeOK
  <2>4. t.op = "link2" => itable'[t.dp].type # "dir"
    BY <1>3, <2>1, SecondKept
  <2> HIDE DEF s, tb
  <2>5. Knows(p)'
    BY <1>5, <2>2, <2>3, <2>4, KnowsAfter
  <2>6. th'[p].pc \notin {"init", "child"} /\ Len(th'[p].put) = 0
    BY <2>2, <2>3, NoLen
  <2> QED BY <1>1, <2>1, <2>5, <2>6, LoadWorks DEF s, tb
<1>6. CASE next # 0 /\ itable' = iget(tb, next) /\ th' = [th EXCEPT ![p] = n2]
  <2>0. elem.name \in EntryNames
    BY <1>3 DEF skipelem
  <2>1. Calm(tb, itable')
    <3>1. PICK k : k = IgetSlot(tb, next)
      OBVIOUS
    <3> HIDE DEF s, tb, elem
    <3>2. Takes(tb, itable', k)
      BY <1>2, <1>6, <2>0, <3>1, LookupGets
    <3> QED BY <1>2, <3>2, TakesCalm
  <2>2. Quiet(p)
    BY <1>1, <2>1, LoadQuiet
  <2>3. Stage(s, "drop") \in StageRec
    BY <1>2 DEF Stage, StageRec, Stages
  <2>4. puts \in Seq(StageRec) /\ Len(puts) = 1 /\ puts[1].at = "drop" /\ at \in {"found", "namex"}
    BY <2>3, PutOne, StageIs
  <2> HIDE DEF puts, at, elem, tb, next
  <2>5. n2.pc \in {"found", "namex"} /\ n2.dp = t.dp /\ n2.op = t.op /\ n2.put = puts
    BY <1>3, <2>4 DEF ThRec
  <2> HIDE DEF n2
  <2>6. th'[p] = n2
    BY <1>6 DEF IInv1, TypeOK
  <2>7. t.op = "link2" => itable'[t.dp].type # "dir"
    BY <1>3, <2>2, SecondKept
  <2>8. Knows(p)'
    BY <2>5, <2>6, <2>7, KnowsAfter
  <2>9. th'[p].pc \notin {"init", "child"} /\ th'[p].put[1].at \notin {"erase", "release"}
    BY <2>4, <2>5, <2>6
  <2> QED BY <1>1, <2>1, <2>8, <2>9, LoadWorks DEF tb
<1>7. \/ itable' = tb /\ th' = [th EXCEPT ![p] = Failed(t, puts)]
      \/ /\ tb[s].type = "dir" /\ itable' = tb
         /\ th' = [th EXCEPT ![p].pc = "parent", ![p].name = elem.name, ![p].rest = <<>>]
      \/ /\ next # 0 /\ itable' = iget(tb, next)
         /\ th' = [th EXCEPT ![p].pc = at, ![p].rest = elem.rest,
                             ![p].ip = IgetSlot(tb, next), ![p].put = NextPut(s)]
  BY DEF namex
<1>8. /\ th' = [th EXCEPT ![p].pc = "parent", ![p].name = elem.name, ![p].rest = <<>>]
           => th' = [th EXCEPT ![p] = n1]
      /\ th' = [th EXCEPT ![p].pc = at, ![p].rest = elem.rest,
                          ![p].ip = IgetSlot(tb, next), ![p].put = NextPut(s)]
           => th' = [th EXCEPT ![p] = n2]
  BY DEF IInv1, TypeOK, NextPut
<1> HIDE DEF n1, n2, tb, elem, next, at, puts
<1> QED BY <1>4, <1>5, <1>6, <1>7, <1>8

\* create() looks the name up in the parent.
LEMMA CreateFindsWorks == ASSUME IInv1, NEW p \in Procs, CreateFinds(p) PROVE Works(p)
<1> DEFINE t == th[p]
           s == t.ip
           i == dirlookup(itable[s].inum, t.name)
           tb == Load(s)
           puts == <<Stage(s, "drop")>>
           n == [t EXCEPT !.pc = "exists", !.ip = IgetSlot(tb, i), !.put = puts]
<1>1. /\ AtLock(p, "parent") /\ "parent" \in LockPlaces /\ t.op \in Making /\ i # 0
      /\ itable' = iget(tb, i) /\ UNCHANGED <<dinode, ents>> /\ Moves(p)
  BY CreateFindsMoves DEF CreateFinds, LockPlaces, DirReleased, Making
<1>2. /\ s \in Slots /\ itable[s].inum \in Inums /\ t.put = <<>> /\ t.pc = "parent" /\ TableOK(tb)
  BY <1>1, LockReady
<1>3. t \in ThRec /\ t.dp = 0 /\ t.name \in EntryNames
  BY <1>1, <1>2 DEF IInv1, TypeOK, PlaceOK, ThreadOK, Making
<1>4. th' = [th EXCEPT ![p] = n]
  BY DEF CreateFinds, IInv1, TypeOK
<1>5. Calm(tb, itable')
  <2>1. PICK k : k = IgetSlot(tb, i)
    OBVIOUS
  <2> HIDE DEF s, tb
  <2>2. Takes(tb, itable', k)
    BY <1>1, <1>2, <1>3, <2>1, LookupGets
  <2> QED BY <1>2, <2>2, TakesCalm
<1>6. Stage(s, "drop") \in StageRec
  BY <1>2 DEF Stage, StageRec, Stages
<1>7. puts \in Seq(StageRec) /\ Len(puts) = 1 /\ puts[1].at = "drop"
  BY <1>6, PutOne, StageIs
<1> HIDE DEF puts, tb, i
<1>8. n.pc = "exists" /\ n.dp = 0 /\ n.put = puts
  BY <1>3 DEF ThRec
<1> HIDE DEF n
<1>9. th'[p] = n
  BY <1>4 DEF IInv1, TypeOK
<1>10. Knows(p)'
  BY <1>8, <1>9, KnowsAfter
<1>11. th'[p].pc \notin {"init", "child"} /\ th'[p].put[1].at \notin {"erase", "release"}
  BY <1>7, <1>8, <1>9
<1> QED BY <1>1, <1>5, <1>10, <1>11, LoadWorks DEF tb

\* What ilock() finds in a slot is what the disk has, and nobody is freeing it.
LEMMA LoadCoherent ==
  ASSUME IInv1, IInv2, NEW p \in Procs, NEW where \in LockPlaces, AtLock(p, where),
         NEW s, s = th[p].ip, NEW tb, tb = Load(s)
  PROVE  /\ tb[s].type = dinode[Inum(s)].type /\ tb[s].nlink = dinode[Inum(s)].nlink
         /\ tb[s].type # "free" /\ \A u \in Slots : u # s => tb[u] = itable[u]
         /\ \A q \in Procs : ~Erasing(q, s) /\ ~Releasing(q, s)
         /\ InUse(s) => tb[s] = itable[s]
<1>1. s \in Slots /\ itable[s].ref > 0 /\ itable[s].inum \in Inums /\ itable[s].lock = Nobody
  BY LockReady
<1>2. \A q \in Procs : ~Erasing(q, s) /\ ~Releasing(q, s)
  BY <1>1, ErasingHolds, Consts
<1>3. /\ \A u \in Slots : u # s => tb[u] = itable[u]
      /\ itable[s].valid => tb[s] = itable[s]
      /\ ~itable[s].valid => /\ tb[s].type = dinode[itable[s].inum].type
                             /\ tb[s].nlink = dinode[itable[s].inum].nlink
  BY <1>1, LoadLike DEF IInv1
<1>4. CASE itable[s].valid
  <2>1. Coherent(s)
    BY <1>1, <1>2, <1>4 DEF IInv2, CacheOK, InUse
  <2> QED BY <1>2, <1>3, <1>4, <2>1 DEF Coherent
<1>5. CASE ~itable[s].valid
  <2>1. dinode[itable[s].inum].type # "free"
    BY <1>5 DEF AtLock, NoType
  <2> QED BY <1>2, <1>3, <1>5, <2>1 DEF Inum, InUse
<1> QED BY <1>4, <1>5

\* The directory that a call works on has been locked before.
LEMMA ParentReady ==
  ASSUME IInv1, IInv2, NEW p \in Procs, AtLock(p, "parent"), NEW s, s = th[p].ip
  PROVE  /\ s \in Slots /\ InUse(s) /\ Coherent(s) /\ itable[s].type = "dir" /\ Load(s) = itable
         /\ itable[s].inum \in Inums /\ dinode[Inum(s)].type = "dir"
<1>1. th[p].pc = "parent"
  BY DEF AtLock
<1>2. Firm(th[p], "ip") /\ Dirs(th[p], "ip") /\ Pointer(p, "ip") = s /\ "ip" \in Pointers
  BY <1>1 DEF Firm, Dirs, Pointer, Pointers
<1>3. s \in Slots /\ InUse(s) /\ Coherent(s) /\ itable[s].inum \in Inums
  BY <1>2, FirmUse
<1>4. itable[s].type = "dir"
  BY <1>2 DEF IInv2, TypesOK, Knows
<1>5. Load(s) = itable
  BY <1>3 DEF InUse, Load
<1> QED BY <1>3, <1>4, <1>5 DEF Coherent

\* The step finds the child of a directory, which stays locked.
LEMMA UnlinkDirWorks == ASSUME IInv1, IInv2, NEW p \in Procs, UnlinkDir(p) PROVE Works(p)
<1> DEFINE t == th[p]
           s == t.ip
           i == dirlookup(itable[s].inum, t.name)
           tl == Locked(itable, s, p)
           k == IgetSlot(itable, i)
           n == [t EXCEPT !.pc = "child", !.dp = s, !.ip = k]
<1>1. AtLock(p, "parent") /\ "parent" \in LockPlaces /\ UNCHANGED <<dinode, ents>> /\ Moves(p)
  BY UnlinkDirMoves DEF UnlinkDir, LockPlaces
<1>2. /\ s \in Slots /\ InUse(s) /\ Coherent(s) /\ itable[s].type = "dir" /\ Load(s) = itable
      /\ itable[s].inum \in Inums
  BY <1>1, ParentReady
<1>3. t \in ThRec /\ t.name \in EntryNames /\ t.put = <<>> /\ t.op = "unlink"
  BY <1>1 DEF UnlinkDir, AtLock, IInv1, TypeOK, PlaceOK, ThreadOK
<1>4. CASE itable' = Load(s) /\ th' = [th EXCEPT ![p] = Done(<<Stage(s, "drop")>>)]
  BY <1>1, <1>4, CalmSame, EndWorks
<1>5. CASE i # 0 /\ itable' = iget(tl, i) /\ th' = [th EXCEPT ![p] = n]
  <2>1. itable \in [Slots -> SlotRec] /\ p \in Procs \cup {Nobody}
    BY DEF IInv1, TypeOK
  <2>2. Calm(itable, tl) /\ Near(itable, tl)
    BY <1>2, <2>1, LockedCalm, LockedIs
  <2>3. TableOK(tl)
    BY <2>2, TableIs, NearTable
  <2>4. k = IgetSlot(tl, i)
    BY <2>2, IgetSlotSame DEF Near
  <2>5. Takes(tl, itable', k) /\ itable'[k].inum = i
    <3> HIDE DEF s, tl, k
    <3> QED BY <1>2, <1>3, <1>5, <2>3, <2>4, LookupGets
  <2>6. Calm(itable, itable')
    BY <2>2, <2>3, <2>5, TakesCalm, CalmTrans
  <2>7. Quiet(p)
    BY <1>1, <2>6, CalmQuiet
  <2> HIDE DEF tl, k
  <2>8. n.pc = "child" /\ n.dp = s /\ n.ip = k /\ n.name = t.name /\ n.op = "unlink" /\ n.put = <<>>
    BY <1>3 DEF ThRec
  <2> HIDE DEF n
  <2>9. th'[p] = n
    BY <1>5 DEF IInv1, TypeOK
  <2>10. itable'[s].type = "dir" /\ itable'[s].inum = itable[s].inum
    <3>1. itable[s].ref > 0
      BY <1>2 DEF InUse
    <3> QED BY <1>1, <1>2, <2>7, <3>1 DEF Quiet, Moves, Counts
  <2>11. Knows(p)'
    BY <2>8, <2>9, <2>10, KnowsAfter
  <2>12. ChildOK(p)'
    BY <1>1, <2>5, <2>8, <2>9, <2>10 DEF ChildOK, Inum, dirlookup
  <2>13. Len(th[p].put) = 0 /\ Len(th'[p].put) = 0
    BY <1>3, <2>8, <2>9, NoLen
  <2>14. (\A u \in Slots : ~Releasing(p, u)) /\ (\A u : ~Erasing(p, u)')
    BY <2>13, BareFrees DEF Erasing
  <2>15. Caches(p) /\ Disk(p) /\ Grows(p)
    BY <2>7, <2>8, <2>9, <2>14, QuietParts
  <2>16. InitOK(p)'
    BY <2>8, <2>9 DEF InitOK
  <2> QED BY <2>11, <2>12, <2>15, <2>16 DEF Works
<1>6. \/ itable' = Load(s) /\ th' = [th EXCEPT ![p] = Done(<<Stage(s, "drop")>>)]
      \/ /\ i # 0 /\ itable' = iget(Locked(Load(s), s, p), i)
         /\ th' = [th EXCEPT ![p].pc = "child", ![p].dp = s, ![p].ip = IgetSlot(Load(s), i)]
  BY DEF UnlinkDir
<1>7. th' = [th EXCEPT ![p].pc = "child", ![p].dp = s, ![p].ip = k] => th' = [th EXCEPT ![p] = n]
  BY DEF IInv1, TypeOK
<1> HIDE DEF n
<1> QED BY <1>2, <1>4, <1>5, <1>6, <1>7

-----------------------------------------------------------------------------
(* Steps that write inodes. *)

\* The slots of W, and their inodes on disk, are written; types stay.
LEMMA WriteCaches ==
  ASSUME IInv1, NEW p \in Procs, Moves(p), NEW W \in SUBSET Slots,
         \A u \in W : /\ itable[u].ref > 0 /\ itable[u].lock \in {p, Nobody} /\ Coherent(u)'
                      /\ InUse(u) => itable'[u].type = itable[u].type,
         \A u \in Slots \ W : /\ itable'[u].type = itable[u].type /\ itable'[u].nlink = itable[u].nlink
                              /\ InUse(u)' => InUse(u),
         \A i \in Inums : (\A u \in W : Inum(u) # i) => dinode'[i] = dinode[i],
         Len(th[p].put) = 0, \A u : ~Erasing(p, u)'
  PROVE  Caches(p)
<1>1. \A u \in Slots : ~Releasing(p, u)
  BY BareFrees
<1>2. ASSUME NEW u \in Slots \ W, InUse(u)'
      PROVE  /\ InUse(u) /\ itable'[u].type = itable[u].type /\ itable'[u].nlink = itable[u].nlink
             /\ dinode'[Inum(u)] = dinode[Inum(u)]
  <2>1. InUse(u) /\ itable[u].ref > 0 /\ Inum(u) \in Inums
    BY <1>2 DEF InUse, IInv1, RefOK, Inum
  <2>2. \A w \in W : Inum(w) # Inum(u)
    BY <1>2, <2>1 DEF IInv1, RefOK, Inum
  <2> QED BY <2>1, <2>2
<1>3. \A u \in Slots : InUse(u)' => \/ Coherent(u)'
                                   \/ /\ InUse(u) /\ itable'[u].type = itable[u].type
                                      /\ itable'[u].nlink = itable[u].nlink
                                      /\ dinode'[Inum(u)] = dinode[Inum(u)]
  BY <1>2
<1>4. \A u \in Slots : InUse(u) => itable'[u].type = itable[u].type
  OBVIOUS
<1>5. \A u \in Slots : InUse(u) /\ itable[u].lock \notin {p, Nobody} => itable'[u].nlink = itable[u].nlink
  OBVIOUS
<1> QED BY <1>1, <1>3, <1>4, <1>5 DEF Caches

\* Types on the disk stay, and directories get no new child.
LEMMA TypesDisk ==
  ASSUME IInv1, NEW p \in Procs, \A i \in Inums : dinode'[i].type = dinode[i].type,
         \A i \in Inums, n \in Names : ents'[i][n] = ents[i][n], th'[p].pc # "init"
  PROVE  Disk(p) /\ Grows(p)
<1>1. Disk(p)
  BY DEF Disk
<1>2. 0 \in 0 .. NInodes
  BY Consts
<1>3. \A d \in Inums, n \in Names : ents'[d][n] # 0 => Edge(d, ents'[d][n])
  BY DEF Edge
<1> QED BY <1>1, <1>2, <1>3 DEF Grows

\* One inode is written, and no entries.
LEMMA NlinkWorks ==
  ASSUME IInv1, IInv2, NEW p \in Procs, Moves(p), NEW s \in Slots, itable[s].ref > 0,
         itable[s].lock \in {p, Nobody}, Len(th[p].put) = 0,
         NEW c \in Int, itable'[s].nlink = c, itable'[s].type = dinode[Inum(s)].type,
         itable'[s].type # "free", InUse(s) => itable'[s].type = itable[s].type,
         \A u \in Slots : u # s => itable'[u] = itable[u],
         dinode' = iupdate(itable', s),
         \A i \in Inums, n \in Names : ents'[i][n] = ents[i][n],
         th'[p].pc \notin {"init", "child"}, Knows(p)',
         Len(th'[p].put) = 0 \/ th'[p].put[1].at \notin {"erase", "release"}
  PROVE  Works(p)
<1>1. itable[s].inum \in Inums /\ itable'[s].inum = itable[s].inum /\ itable' \in [Slots -> SlotRec]
  BY DEF IInv1, RefOK, Moves, Counts, TypeOK
<1>2. /\ dinode'[itable'[s].inum].type = itable'[s].type
      /\ dinode'[itable'[s].inum].nlink = itable'[s].nlink
      /\ \A i \in Inums : i # itable'[s].inum => dinode'[i] = dinode[i]
  <2>1. PICK T : T = itable'
    OBVIOUS
  <2>2. TypeOK /\ T \in [Slots -> SlotRec] /\ T[s].inum \in Inums /\ dinode' = iupdate(T, s)
    BY <1>1, <2>1 DEF IInv1
  <2>3. /\ iupdate(T, s)[T[s].inum].type = T[s].type
        /\ iupdate(T, s)[T[s].inum].nlink = T[s].nlink
        /\ \A i \in Inums : i # T[s].inum => iupdate(T, s)[i] = dinode[i]
    BY <2>2, IupdateIs
  <2> QED BY <2>1, <2>2, <2>3
<1>3. Coherent(s)'
  BY <1>2 DEF Coherent, Inum
<1>4. \A i \in Inums : dinode'[i].type = dinode[i].type
  BY <1>1, <1>2 DEF Inum
<1>5. \A u : ~Erasing(p, u)'
  BY DEF Erasing
<1>6. Disk(p) /\ Grows(p)
  BY <1>4, TypesDisk
<1>7. Caches(p)
  <2> DEFINE W == {s}
  <2>1. W \in SUBSET Slots
    OBVIOUS
  <2>2. \A u \in W : /\ itable[u].ref > 0 /\ itable[u].lock \in {p, Nobody} /\ Coherent(u)'
                     /\ InUse(u) => itable'[u].type = itable[u].type
    BY <1>3
  <2>3. \A u \in Slots \ W : /\ itable'[u].type = itable[u].type /\ itable'[u].nlink = itable[u].nlink
                             /\ InUse(u)' => InUse(u)
    BY DEF InUse
  <2>4. \A i \in Inums : (\A u \in W : Inum(u) # i) => dinode'[i] = dinode[i]
    BY <1>1, <1>2 DEF Inum
  <2> HIDE DEF W
  <2> QED BY <1>5, <2>1, <2>2, <2>3, <2>4, WriteCaches
<1>8. InitOK(p)' /\ ChildOK(p)'
  BY DEF InitOK, ChildOK
<1> QED BY <1>6, <1>7, <1>8 DEF Works

\* link() counts a link of the old inode, which is no directory.
LEMMA LinkOldWorks == ASSUME IInv1, IInv2, NEW p \in Procs, LinkOld(p) PROVE Works(p)
<1> DEFINE t == th[p]
           s == t.ip
           tb == Load(s)
           t1 == SetNlink(tb, s, tb[s].nlink + 1)
           n == [t EXCEPT !.pc = "link2"]
<1>1. AtLock(p, "found") /\ "found" \in LockPlaces /\ ents' = ents /\ Moves(p)
  BY LinkOldMoves DEF LinkOld, LockPlaces
<1>2. CASE itable' = tb /\ th' = [th EXCEPT ![p] = Done(<<Stage(s, "drop")>>)] /\ UNCHANGED dinode
  BY <1>1, <1>2, CalmSame, EndWorks
<1>3. CASE tb[s].type # "dir" /\ itable' = t1 /\ dinode' = iupdate(t1, s) /\ th' = [th EXCEPT ![p].pc = "link2"]
  <2>1. /\ s \in Slots /\ itable[s].ref > 0 /\ itable[s].lock = Nobody /\ tb \in [Slots -> SlotRec]
        /\ t.put = <<>> /\ t.pc = "found"
    BY <1>1, LockReady
  <2>2. /\ tb[s].type = dinode[Inum(s)].type /\ tb[s].type # "free"
        /\ \A u \in Slots : u # s => tb[u] = itable[u]
        /\ InUse(s) => tb[s] = itable[s]
    BY <1>1, LoadCoherent
  <2>3. tb[s].nlink + 1 \in Int
    BY <2>1 DEF SlotRec
  <2>4. PICK c, b : c = tb[s].nlink + 1 /\ b = tb
    OBVIOUS
  <2>5. /\ itable'[s].nlink = c /\ itable'[s].type = b[s].type /\ \A u \in Slots : u # s => itable'[u] = b[u]
    <3>1. b \in [Slots -> SlotRec] /\ c \in Int /\ s \in Slots /\ itable' = SetNlink(b, s, c)
      BY <1>3, <2>1, <2>3, <2>4
    <3> QED BY <3>1, NlinkIs
  <2>6. t \in ThRec /\ t.dp = 0
    BY <2>1 DEF IInv1, TypeOK, PlaceOK, ThreadOK
  <2>7. n.pc = "link2" /\ n.ip = s /\ n.dp = 0 /\ n.put = <<>>
    BY <2>1, <2>6 DEF ThRec
  <2>8. th'[p] = n
    BY <1>3 DEF IInv1, TypeOK
  <2> HIDE DEF n
  <2>9. Knows(p)'
    <3>1. itable'[s].type # "dir"
      BY <1>3, <2>4, <2>5
    <3> QED BY <2>7, <2>8, <3>1, KnowsAfter
  <2>10. Len(th[p].put) = 0 /\ Len(th'[p].put) = 0
    BY <2>1, <2>7, <2>8, NoLen
  <2>11. /\ itable'[s].type = dinode[Inum(s)].type /\ itable'[s].type # "free"
         /\ InUse(s) => itable'[s].type = itable[s].type
         /\ \A u \in Slots : u # s => itable'[u] = itable[u]
         /\ dinode' = iupdate(itable', s) /\ c \in Int
    BY <1>3, <2>2, <2>3, <2>4, <2>5
  <2>12. th'[p].pc \notin {"init", "child"} /\ \A i \in Inums, m \in Names : ents'[i][m] = ents[i][m]
    BY <1>1, <2>7, <2>8
  <2> HIDE DEF t, s
  <2> QED BY <1>1, <2>1, <2>5, <2>9, <2>10, <2>11, <2>12, NlinkWorks DEF t
<1> HIDE DEF n, t1
<1> QED BY <1>2, <1>3 DEF LinkOld, t1

\* link() takes back the link it has counted.
LEMMA LinkBadWorks == ASSUME IInv1, IInv2, NEW p \in Procs, LinkBad(p) PROVE Works(p)
<1> DEFINE s == th[p].ip
           tb == Load(s)
<1>1. /\ AtLock(p, "bad") /\ "bad" \in LockPlaces /\ ents' = ents /\ Moves(p)
      /\ itable' = SetNlink(tb, s, tb[s].nlink - 1) /\ dinode' = iupdate(itable', s)
      /\ th' = [th EXCEPT ![p] = Done(<<Stage(s, "drop")>>)]
  BY LinkBadMoves DEF LinkBad, LockPlaces
<1>2. /\ s \in Slots /\ itable[s].ref > 0 /\ itable[s].lock = Nobody /\ tb \in [Slots -> SlotRec]
      /\ th[p].put = <<>>
  BY <1>1, LockReady
<1>3. /\ tb[s].type = dinode[Inum(s)].type /\ tb[s].type # "free"
      /\ \A u \in Slots : u # s => tb[u] = itable[u]
      /\ InUse(s) => tb[s] = itable[s]
  BY <1>1, LoadCoherent
<1>4. tb[s].nlink - 1 \in Int
  BY <1>2 DEF SlotRec
<1>5. PICK c, b : c = tb[s].nlink - 1 /\ b = tb
  OBVIOUS
<1>6. /\ itable'[s].nlink = c /\ itable'[s].type = b[s].type /\ \A u \in Slots : u # s => itable'[u] = b[u]
  <2>1. b \in [Slots -> SlotRec] /\ c \in Int /\ s \in Slots /\ itable' = SetNlink(b, s, c)
    BY <1>1, <1>2, <1>4, <1>5
  <2> QED BY <2>1, NlinkIs
<1>7. /\ th'[p].pc = "idle" /\ th'[p].dp = 0 /\ th'[p].op = "none"
      /\ Len(th'[p].put) >= 1 /\ th'[p].put[1].at = "drop"
  BY <1>1, <1>2, DoneAfter
<1>8. Knows(p)' /\ Len(th[p].put) = 0
  BY <1>2, <1>7, IdleKnows, NoLen
<1>9. /\ itable'[s].type = dinode[Inum(s)].type /\ itable'[s].type # "free"
      /\ InUse(s) => itable'[s].type = itable[s].type
      /\ \A u \in Slots : u # s => itable'[u] = itable[u]
      /\ c \in Int /\ \A i \in Inums, m \in Names : ents'[i][m] = ents[i][m]
  BY <1>1, <1>3, <1>4, <1>5, <1>6
<1> HIDE DEF s
<1> QED BY <1>1, <1>2, <1>6, <1>7, <1>8, <1>9, NlinkWorks

\* The child of unlink() is still locked.
LEMMA UnlinkDropWorks == ASSUME IInv1, IInv2, NEW p \in Procs, UnlinkDrop(p) PROVE Works(p)
<1> DEFINE s == th[p].ip
<1>1. /\ th[p].pc = "unlinked" /\ th[p].put = <<>> /\ ents' = ents /\ Moves(p)
      /\ itable' = SetNlink(itable, s, itable[s].nlink - 1) /\ dinode' = iupdate(itable', s)
      /\ th' = [th EXCEPT ![p] = Done(<<Stage(s, "unlock")>>)]
  BY UnlinkDropMoves DEF UnlinkDrop
<1>2. /\ Firm(th[p], "ip") /\ Holds(th[p], "ip") /\ Pointer(p, "ip") = s /\ "ip" \in Pointers
  BY <1>1 DEF Firm, Holds, Pointer, Pointers
<1>3. /\ s \in Slots /\ InUse(s) /\ Coherent(s)
  BY <1>2, FirmUse
<1>4. itable[s].lock = p /\ itable \in [Slots -> SlotRec]
  BY <1>2 DEF IInv1, LockOK, TypeOK
<1>5. itable[s].nlink - 1 \in Int
  BY <1>3, <1>4 DEF SlotRec
<1>6. PICK c : c = itable[s].nlink - 1
  OBVIOUS
<1>7. /\ itable'[s].nlink = c /\ itable'[s].type = itable[s].type
      /\ \A u \in Slots : u # s => itable'[u] = itable[u]
  <2>1. c \in Int /\ s \in Slots /\ itable' = SetNlink(itable, s, c)
    BY <1>1, <1>3, <1>5, <1>6
  <2> QED BY <1>4, <2>1, NlinkIs
<1>8. /\ th'[p].pc = "idle" /\ th'[p].dp = 0 /\ th'[p].op = "none"
      /\ Len(th'[p].put) >= 1 /\ th'[p].put[1].at = "unlock"
  BY <1>1, <1>3, DoneAfter
<1>9. Knows(p)' /\ Len(th[p].put) = 0
  BY <1>1, <1>8, IdleKnows, NoLen
<1>10. /\ itable'[s].type = dinode[Inum(s)].type /\ itable'[s].type # "free"
       /\ itable[s].ref > 0 /\ itable[s].lock \in {p, Nobody} /\ c \in Int
       /\ \A i \in Inums, m \in Names : ents'[i][m] = ents[i][m]
  BY <1>1, <1>3, <1>4, <1>5, <1>6, <1>7 DEF Coherent, InUse
<1> HIDE DEF s
<1> QED BY <1>1, <1>3, <1>7, <1>8, <1>9, <1>10, NlinkWorks

\* A call that lets two inodes go.
LEMMA TwoAfter ==
  ASSUME IInv1, NEW p \in Procs, NEW s \in Slots, NEW u \in Slots, NEW at \in {"unlock", "drop"},
         NEW y \in {"unlock", "drop"},
         th' = [th EXCEPT ![p] = Done(<<Stage(s, at), Stage(u, y)>>)]
  PROVE  /\ th'[p].pc = "idle" /\ th'[p].dp = 0 /\ Len(th'[p].put) >= 1 /\ th'[p].put[1].at = at
<1> DEFINE puts == <<Stage(s, at), Stage(u, y)>>
           n == Done(puts)
<1>1. Stage(s, at) \in StageRec /\ Stage(u, y) \in StageRec
  BY DEF Stage, StageRec, Stages
<1>2. puts \in Seq(StageRec) /\ Len(puts) = 2 /\ puts[1] = Stage(s, at)
  BY <1>1, PutTwo
<1> HIDE DEF puts
<1>3. n \in ThRec /\ n.pc = "idle" /\ n.dp = 0 /\ n.put = puts
  BY <1>2, DoneIs
<1> HIDE DEF n
<1>4. th'[p] = n
  BY <1>3, ThSet DEF IInv1, n, puts
<1> QED BY <1>2, <1>3, <1>4, StageIs

\* create() gives the new inode up, which has no entries but . and ..
LEMMA CreateFailWorks == ASSUME IInv1, IInv2, NEW p \in Procs, CreateFail(p) PROVE Works(p)
<1> DEFINE s == th[p].ip
           d == th[p].dp
           t1 == SetNlink(Locked(Load(s), s, p), s, 0)
<1>1. /\ AtLock(p, "init") /\ "init" \in LockPlaces /\ Moves(p)
      /\ itable' = t1 /\ dinode' = iupdate(itable', s)
      /\ ents' = [ents EXCEPT ![Inum(s)] = NewEntries(Inum(s), Inum(d), TypeOf(th[p].op))]
      /\ th' = [th EXCEPT ![p] = Done(<<Stage(s, "unlock"), Stage(d, "unlock")>>)]
  BY CreateFailMoves DEF CreateFail, LockPlaces, Inum
<1>2. /\ s \in Slots /\ itable[s].ref > 0 /\ itable[s].lock = Nobody
      /\ th[p].put = <<>> /\ th[p].pc = "init" /\ itable[s].inum \in Inums
  BY <1>1, LockReady
<1>3. d \in Slots
  <2>1. d # 0
    BY <1>2 DEF IInv1, PlaceOK, ThreadOK
  <2> QED BY <2>1, AtDp
<1>4. PICK b : b = Load(s)
  OBVIOUS
<1>5. /\ b[s].type = dinode[Inum(s)].type /\ b[s].type # "free"
      /\ InUse(s) => b[s] = itable[s]
  BY <1>1, <1>4, LoadCoherent
<1>6. 0 \in Int /\ itable'[s].nlink = 0 /\ itable'[s].type = b[s].type
      /\ \A u \in Slots : u # s => itable'[u] = itable[u]
  BY <1>1, <1>4, LockNlink
<1>7. \A i \in Inums, m \in Names : ents'[i][m] = ents[i][m]
  <2>1. ents \in [Inums -> [EntryNames -> 0 .. NInodes]]
    BY DEF IInv1, TypeOK
  <2>2. PICK i, j, k, e : i = Inum(s) /\ j = Inum(d) /\ k = TypeOf(th[p].op) /\ e = NewEntries(i, j, k)
    OBVIOUS
  <2>3. i \in Inums
    BY <1>2, <2>2 DEF Inum
  <2>4. \A m \in Names : e[m] = ents[i][m]
    <3>1. e = ents[i] \/ e = [ents[i] EXCEPT !["."] = i, ![".."] = j]
      BY <2>2 DEF NewEntries
    <3> QED BY <2>1, <2>3, <3>1, Consts
  <2>5. ents' = [ents EXCEPT ![i] = e]
    BY <1>1, <2>2
  <2> QED BY <2>1, <2>3, <2>4, <2>5
<1>8. th'[p].pc = "idle" /\ th'[p].dp = 0 /\ Len(th'[p].put) >= 1 /\ th'[p].put[1].at = "unlock"
  BY <1>1, <1>2, <1>3, TwoAfter
<1>9. Knows(p)' /\ Len(th[p].put) = 0
  BY <1>2, <1>8, IdleKnows, NoLen
<1> HIDE DEF s, d, t1
<1> QED BY <1>1, <1>2, <1>5, <1>6, <1>7, <1>8, <1>9, NlinkWorks

\* The two inodes of a call that has both locked are written; the directory d
\* loses an entry, or gets one that the tree has been expecting.
LEMMA TwoWorks ==
  ASSUME IInv1, NEW p \in Procs, Moves(p), Len(th[p].put) = 0,
         NEW s \in Slots, NEW d \in Slots,
         \A u \in {s, d} : /\ itable[u].ref > 0 /\ itable[u].lock \in {p, Nobody} /\ Coherent(u)'
                           /\ InUse(u) => itable'[u].type = itable[u].type,
         \A u \in Slots : u # s /\ u # d => itable'[u] = itable[u],
         \A i \in Inums : dinode'[i].type = dinode[i].type,
         \A i \in Inums : i # Inum(s) /\ i # Inum(d) => dinode'[i] = dinode[i],
         dinode[Inum(d)].type = "dir",
         \A i \in Inums, n \in Names :
           \/ ents'[i][n] = ents[i][n]
           \/ i = Inum(d) /\ (ents'[i][n] = 0 \/ Edge(i, ents'[i][n])),
         th'[p].pc \notin {"init", "child"}, Knows(p)',
         Len(th'[p].put) = 0 \/ th'[p].put[1].at \notin {"erase", "release"}
  PROVE  Works(p)
<1>1. \A u : ~Erasing(p, u)'
  BY DEF Erasing
<1>2. Caches(p)
  <2> DEFINE W == {s, d}
  <2>1. W \in SUBSET Slots
    OBVIOUS
  <2>2. \A u \in W : /\ itable[u].ref > 0 /\ itable[u].lock \in {p, Nobody} /\ Coherent(u)'
                     /\ InUse(u) => itable'[u].type = itable[u].type
    OBVIOUS
  <2>3. \A u \in Slots \ W : /\ itable'[u].type = itable[u].type /\ itable'[u].nlink = itable[u].nlink
                             /\ InUse(u)' => InUse(u)
    BY DEF InUse
  <2>4. \A i \in Inums : (\A u \in W : Inum(u) # i) => dinode'[i] = dinode[i]
    OBVIOUS
  <2> HIDE DEF W
  <2> QED BY <1>1, <2>1, <2>2, <2>3, <2>4, WriteCaches
<1>3. Disk(p)
  <2>1. \A i \in Inums, n \in Names : ents'[i][n] # 0 =>
          dinode'[i].type = "dir" \/ (ents[i][n] # 0 /\ dinode'[i].type = dinode[i].type)
    OBVIOUS
  <2>2. \A i \in Inums, n \in Names : ents'[i][n] # ents[i][n] =>
          \E u \in Slots : itable[u].ref > 0 /\ Inum(u) = i /\ itable[u].lock \in {p, Nobody}
    OBVIOUS
  <2> QED BY <2>1, <2>2 DEF Disk
<1>4. Grows(p)
  <2>1. 0 \in 0 .. NInodes
    BY Consts
  <2>2. \A i \in Inums, n \in Names : ents'[i][n] # 0 => Edge(i, ents'[i][n])
    BY DEF Edge
  <2> QED BY <2>1, <2>2 DEF Grows
<1>5. InitOK(p)' /\ ChildOK(p)'
  BY DEF InitOK, ChildOK
<1> QED BY <1>2, <1>3, <1>4, <1>5 DEF Works

\* The directory that create() and unlink() have locked with their inode.
LEMMA DpReady ==
  ASSUME IInv1, IInv2, NEW p \in Procs, th[p].pc \in {"init", "child"}, NEW d, d = th[p].dp
  PROVE  /\ d \in Slots /\ InUse(d) /\ Coherent(d) /\ itable[d].type = "dir" /\ itable[d].lock = p
         /\ itable[d].inum \in Inums /\ itable[d].ref > 0 /\ dinode[Inum(d)].type = "dir"
<1>1. Firm(th[p], "dp") /\ Holds(th[p], "dp") /\ Dirs(th[p], "dp") /\ Pointer(p, "dp") = d /\ "dp" \in Pointers
  BY DEF IInv1, PlaceOK, ThreadOK, Firm, Holds, Dirs, Pointer, Pointers
<1>2. d \in Slots /\ InUse(d) /\ Coherent(d) /\ itable[d].inum \in Inums
  BY <1>1, FirmUse
<1>3. itable[d].type = "dir"
  BY <1>1 DEF IInv2, TypesOK, Knows
<1>4. itable[d].lock = p
  BY <1>1 DEF IInv1, LockOK
<1> QED BY <1>2, <1>3, <1>4 DEF Coherent, InUse

\* What CreateLink has written to the disk.
LEMMA CreateLinkDisk ==
  ASSUME IInv1, IInv2, NEW p \in Procs, CreateLink(p), NEW s, s = th[p].ip, NEW d, d = th[p].dp
  PROVE  /\ Inum(s) \in Inums /\ Inum(s) # Inum(d) /\ Inum(s)' = Inum(s) /\ Inum(d)' = Inum(d)
         /\ dinode'[Inum(s)].type = TypeOf(th[p].op) /\ dinode'[Inum(s)].nlink = 1
         /\ dinode'[Inum(d)].type = itable'[d].type /\ dinode'[Inum(d)].nlink = itable'[d].nlink
         /\ \A i \in Inums : i # Inum(s) /\ i # Inum(d) => dinode'[i] = dinode[i]
         /\ \A i \in Inums, n \in Names :
              ents'[i][n] = ents[i][n] \/ (i = Inum(d) /\ ents'[i][n] = Inum(s))
<1>1. /\ AtLock(p, "init") /\ "init" \in LockPlaces /\ Moves(p)
      /\ dinode' = [iupdate(itable', d) EXCEPT ![Inum(s)] = [type |-> TypeOf(th[p].op), nlink |-> 1]]
      /\ ents' = [dirlink(Inum(d), th[p].name, Inum(s))
                    EXCEPT ![Inum(s)] = NewEntries(Inum(s), Inum(d), TypeOf(th[p].op))]
  BY CreateLinkMoves DEF CreateLink, LockPlaces, Inum
<1>2. /\ s \in Slots /\ itable[s].ref > 0 /\ itable[s].inum \in Inums /\ itable[s].lock = Nobody
      /\ th[p].pc = "init"
  BY <1>1, LockReady
<1>3. d \in Slots /\ itable[d].lock = p /\ itable[d].inum \in Inums /\ itable[d].ref > 0
  BY <1>2, DpReady
<1>4. Inum(s) # Inum(d)
  BY <1>2, <1>3, Consts DEF IInv1, RefOK, Inum
<1>5. Inum(s)' = Inum(s) /\ Inum(d)' = Inum(d)
  BY <1>1, <1>2, <1>3 DEF Moves, Counts, Inum
<1> PICK i, k : i = Inum(s) /\ k = Inum(d)
  OBVIOUS
<1>6. i \in Inums /\ k \in Inums /\ i # k /\ i \in 0 .. NInodes
  BY <1>2, <1>3, <1>4, Consts DEF Inum
<1>7. PICK D : D = iupdate(itable', d)
  OBVIOUS
<1>8. /\ D \in [Inums -> DiskRec] /\ D[k].type = itable'[d].type /\ D[k].nlink = itable'[d].nlink
      /\ \A j \in Inums : j # k => D[j] = dinode[j]
  <2>1. PICK T : T = itable'
    OBVIOUS
  <2>2. TypeOK /\ T \in [Slots -> SlotRec] /\ T[d].inum \in Inums /\ T[d].inum = k
    BY <1>1, <1>3, <1>5, <1>6, <2>1 DEF IInv1, Moves, TypeOK, Inum
  <2>3. /\ iupdate(T, d)[T[d].inum].type = T[d].type
        /\ iupdate(T, d)[T[d].inum].nlink = T[d].nlink
        /\ \A j \in Inums : j # T[d].inum => iupdate(T, d)[j] = dinode[j]
        /\ iupdate(T, d) \in [Inums -> DiskRec]
    BY <1>3, <2>2, IupdateIs
  <2> QED BY <1>7, <2>1, <2>2, <2>3
<1>9. /\ dinode'[i].type = TypeOf(th[p].op) /\ dinode'[i].nlink = 1
      /\ \A j \in Inums : j # i => dinode'[j] = D[j]
  <2>1. PICK ty : ty = TypeOf(th[p].op)
    OBVIOUS
  <2>2. dinode' = [D EXCEPT ![i] = [type |-> ty, nlink |-> 1]]
    BY <1>1, <1>7, <2>1
  <2> QED BY <1>6, <1>8, <2>1, <2>2
<1>10. \A j \in Inums, n \in Names : ents'[j][n] = ents[j][n] \/ (j = k /\ ents'[j][n] = i)
  <2>1. PICK e, nm : e = NewEntries(i, k, TypeOf(th[p].op)) /\ nm = th[p].name
    OBVIOUS
  <2>2. ents \in [Inums -> [EntryNames -> 0 .. NInodes]]
    BY DEF IInv1, TypeOK
  <2>3. e = ents[i] \/ e = [ents[i] EXCEPT !["."] = i, ![".."] = k]
    BY <2>1 DEF NewEntries
  <2>4. \A n \in Names : e[n] = ents[i][n]
    BY <1>6, <2>2, <2>3, Consts
  <2>5. ents' = [[ents EXCEPT ![k][nm] = i] EXCEPT ![i] = e]
    BY <1>1, <2>1 DEF dirlink
  <2> QED BY <1>6, <2>2, <2>4, <2>5, Consts
<1> QED BY <1>4, <1>5, <1>6, <1>8, <1>9, <1>10

\* The thread after OnWith.
LEMMA OnAfter ==
  ASSUME IInv1, NEW p \in Procs, th[p].ip \in Slots, NEW pc \in HasIp, NEW s \in Slots,
         th' = [th EXCEPT ![p] = [th[p] EXCEPT !.pc = pc, !.dp = 0, !.put = <<Stage(s, "unlock")>>]]
  PROVE  /\ th'[p].pc = pc /\ th'[p].ip = th[p].ip /\ th'[p].dp = 0
         /\ Len(th'[p].put) >= 1 /\ th'[p].put[1].at = "unlock"
<1> PICK t, n : t = th[p] /\ n = [t EXCEPT !.pc = pc, !.dp = 0, !.put = <<Stage(s, "unlock")>>]
  OBVIOUS
<1>1. t \in ThRec /\ t.ip \in Slots
  BY DEF IInv1, TypeOK
<1>2. n \in ThRec /\ Shape(n, pc, t.ip, 0, s, "unlock", 0, "none")
  BY <1>1, OnWith
<1>3. th'[p] = n
  BY <1>2, ThSet DEF IInv1
<1>4. s # 0 /\ Stage(s, "unlock").at = "unlock"
  BY Consts, StageIs
<1> QED BY <1>2, <1>3, <1>4 DEF Shape

\* Making the directory entry of a new inode keeps what is known of the rest.
LEMMA CreateLinkWorks == ASSUME IInv1, IInv2, NEW p \in Procs, CreateLink(p) PROVE Works(p)
<1> PICK s, d : s = th[p].ip /\ d = th[p].dp
  OBVIOUS
<1> DEFINE n == IF th[p].op = "create"
                THEN [th[p] EXCEPT !.pc = "opened", !.dp = 0, !.put = <<Stage(d, "unlock")>>]
                ELSE Done(<<Stage(d, "unlock"), Stage(s, "unlock")>>)
<1>1. AtLock(p, "init") /\ "init" \in LockPlaces /\ Moves(p) /\ th' = [th EXCEPT ![p] = n]
  BY CreateLinkMoves DEF CreateLink, LockPlaces
<1>2. /\ s \in Slots /\ itable[s].ref > 0 /\ itable[s].inum \in Inums /\ itable[s].lock = Nobody
      /\ th[p].pc = "init" /\ th[p].put = <<>>
  BY <1>1, LockReady
<1>3. /\ d \in Slots /\ itable[d].lock = p /\ itable[d].ref > 0 /\ InUse(d) /\ Coherent(d)
      /\ dinode[Inum(d)].type = "dir" /\ itable[d].type = "dir" /\ itable[d].inum \in Inums
  BY <1>2, DpReady
<1>4. PICK b, ty : b = Load(s) /\ ty = TypeOf(th[p].op)
  OBVIOUS
<1>5. /\ itable'[s].nlink = 1 /\ itable'[s].type = b[s].type /\ s # d
      /\ itable'[d].type = itable[d].type
      /\ \A u \in Slots : u # s /\ u # d => itable'[u] = itable[u]
      /\ th[p].op \in Making
  BY <1>4, CreateLinkTable
<1>6. b[s].type = dinode[Inum(s)].type /\ (InUse(s) => b[s] = itable[s])
  BY <1>1, <1>4, LoadCoherent
<1>7. dinode[Inum(s)].type = ty
  BY <1>2, <1>4 DEF IInv2, TypesOK, InitOK
<1>8. ty # "free"
  BY <1>4, <1>5, MadeTypes
<1>9. /\ Inum(s) \in Inums /\ Inum(s) # Inum(d) /\ Inum(s)' = Inum(s) /\ Inum(d)' = Inum(d)
      /\ dinode'[Inum(s)].type = ty /\ dinode'[Inum(s)].nlink = 1
      /\ dinode'[Inum(d)].type = itable'[d].type /\ dinode'[Inum(d)].nlink = itable'[d].nlink
      /\ \A i \in Inums : i # Inum(s) /\ i # Inum(d) => dinode'[i] = dinode[i]
      /\ \A i \in Inums, m \in Names :
           ents'[i][m] = ents[i][m] \/ (i = Inum(d) /\ ents'[i][m] = Inum(s))
  BY <1>4, CreateLinkDisk
<1>10. th'[p].pc \in {"opened", "idle"} /\ th'[p].dp = 0 /\ th'[p].put[1].at = "unlock"
  <2>1. CASE th[p].op = "create"
    <3>1. "opened" \in HasIp
          /\ th' = [th EXCEPT ![p] = [th[p] EXCEPT !.pc = "opened", !.dp = 0, !.put = <<Stage(d, "unlock")>>]]
      BY <1>1, <2>1 DEF HasIp
    <3> HIDE DEF n
    <3>2. th[p].ip \in Slots
      BY <1>2
    <3> QED BY <1>3, <3>1, <3>2, OnAfter
  <2>2. CASE th[p].op # "create"
    <3>1. th' = [th EXCEPT ![p] = Done(<<Stage(d, "unlock"), Stage(s, "unlock")>>)]
      BY <1>1, <2>2
    <3> HIDE DEF n
    <3> QED BY <1>2, <1>3, <3>1, TwoAfter
  <2> QED BY <2>1, <2>2
<1> HIDE DEF n
<1>11. Knows(p)' /\ Len(th[p].put) = 0
  BY <1>2, <1>10, IdleKnows, NoLen
<1>12. Edge(Inum(d), Inum(s))
  BY <1>2 DEF Edge
<1>13. Coherent(s)' /\ Coherent(d)'
  <2>1. itable'[s].type # "free" /\ itable'[d].type # "free"
    BY <1>3, <1>5, <1>6, <1>7, <1>8
  <2> QED BY <1>5, <1>6, <1>7, <1>9, <2>1 DEF Coherent
<1>14. \A i \in Inums : dinode'[i].type = dinode[i].type
  BY <1>3, <1>5, <1>7, <1>9
<1>15. \A u \in {s, d} : /\ itable[u].ref > 0 /\ itable[u].lock \in {p, Nobody} /\ Coherent(u)'
                         /\ InUse(u) => itable'[u].type = itable[u].type
  <2>1. InUse(s) => itable'[s].type = itable[s].type
    BY <1>5, <1>6
  <2>2. \A u : u \in {s, d} => u = s \/ u = d
    OBVIOUS
  <2> QED BY <1>2, <1>3, <1>5, <1>13, <2>1, <2>2
<1> QED BY <1>1, <1>2, <1>3, <1>5, <1>9, <1>10, <1>11, <1>12, <1>14, <1>15, TwoWorks

\* An inode that is free on the disk is cached only by who is freeing it.
LEMMA FreeCached ==
  ASSUME IInv1, IInv2, NEW u \in Slots, InUse(u), dinode[Inum(u)].type = "free"
  PROVE  /\ \E q \in Procs : Releasing(q, u)
         /\ \A q \in Procs : ~Erasing(q, u)
<1>1. PICK q \in Procs : Releasing(q, u)
  BY DEF IInv2, CacheOK, Coherent
<1>2. ASSUME NEW r \in Procs, Erasing(r, u) PROVE FALSE
  <2>1. r = q
    BY <1>1, <1>2, ErasingHolds
  <2> QED BY <1>1, <1>2, <2>1 DEF Erasing, Releasing
<1> QED BY <1>1, <1>2

\* A new inode is a leaf, and nobody who works has it cached.
LEMMA CreateAllocWorks == ASSUME IInv1, IInv2, NEW p \in Procs, CreateAlloc(p) PROVE Works(p)
<1> PICK t, s, i, ty, k : /\ t = th[p] /\ s = t.ip /\ i = Min(FreeInums) /\ ty = TypeOf(t.op)
                          /\ k = IgetSlot(itable, i)
  OBVIOUS
<1> DEFINE tl == Locked(itable, s, p)
           n == [t EXCEPT !.pc = "init", !.dp = s, !.ip = k]
<1>1. AtLock(p, "parent") /\ "parent" \in LockPlaces /\ UNCHANGED ents /\ Moves(p) /\ t.op \in Making
  BY CreateAllocMoves DEF CreateAlloc, LockPlaces, Making
<1>2. /\ s \in Slots /\ InUse(s) /\ Coherent(s) /\ itable[s].type = "dir" /\ Load(s) = itable
      /\ itable[s].inum \in Inums /\ dinode[Inum(s)].type = "dir"
  BY <1>1, ParentReady
<1>3. t \in ThRec /\ t.put = <<>>
  BY <1>1 DEF AtLock, IInv1, TypeOK
<1>4. CASE itable' = Load(s) /\ th' = [th EXCEPT ![p] = Done(<<Stage(s, "drop")>>)] /\ UNCHANGED dinode
  BY <1>1, <1>4, CalmSame, EndWorks
<1>5. CASE /\ FreeInums # {} /\ itable' = iget(tl, i) /\ th' = [th EXCEPT ![p] = n]
           /\ dinode' = [dinode EXCEPT ![i] = [type |-> ty, nlink |-> 0]]
  <2>1. itable \in [Slots -> SlotRec] /\ p \in Procs \cup {Nobody}
    BY DEF IInv1, TypeOK
  <2>2. Calm(itable, tl) /\ Near(itable, tl)
    BY <1>2, <2>1, LockedCalm, LockedIs
  <2>3. TableOK(tl)
    BY <2>2, TableIs, NearTable
  <2>4. k = IgetSlot(tl, i)
    BY <2>2, IgetSlotSame DEF Near
  <2>5. i \in Inums /\ dinode[i].type = "free"
    BY <1>5, FreeLeast
  <2>6. Takes(tl, itable', k) /\ itable'[k].inum = i /\ k \in Slots
    <3> HIDE DEF tl
    <3> QED BY <1>5, <2>3, <2>4, <2>5, IgetTakes, IgetWhere
  <2>7. Calm(itable, itable')
    BY <2>2, <2>3, <2>6, TakesCalm, CalmTrans
  <2>8. n.pc = "init" /\ n.dp = s /\ n.ip = k /\ n.op = t.op /\ n.put = <<>>
    BY <1>3 DEF ThRec
  <2> HIDE DEF n
  <2>9. th'[p] = n
    BY <1>5 DEF IInv1, TypeOK
  <2> HIDE DEF tl
  <2>10. itable'[s].type = "dir" /\ itable'[s].inum = itable[s].inum
    <3>1. itable[s].ref > 0
      BY <1>2 DEF InUse
    <3> QED BY <1>1, <1>2, <2>7, <3>1 DEF Calm, Moves, Counts
  <2>11. Knows(p)'
    <3>1. t.op # "link2"
      BY <1>1 DEF Making
    <3> QED BY <2>8, <2>9, <2>10, <3>1, KnowsAfter
  <2>12. Len(th[p].put) = 0 /\ Len(th'[p].put) = 0
    BY <1>3, <2>8, <2>9, NoLen
  <2>13. (\A u \in Slots : ~Releasing(p, u)) /\ (\A u : ~Erasing(p, u)')
    BY <2>12, BareFrees DEF Erasing
  <2>14. /\ dinode'[i].type = ty /\ \A j \in Inums : j # i => dinode'[j] = dinode[j]
    BY <1>5, <2>5 DEF IInv1, TypeOK
  <2>15. Caches(p)
    <3>1. ASSUME NEW u \in Slots, InUse(u)'
          PROVE  \/ \E q \in Procs : Releasing(q, u)'
                 \/ /\ InUse(u) /\ itable'[u].type = itable[u].type
                    /\ itable'[u].nlink = itable[u].nlink
                    /\ dinode'[Inum(u)] = dinode[Inum(u)]
      <4>1. InUse(u) /\ itable'[u].type = itable[u].type /\ itable'[u].nlink = itable[u].nlink
        BY <2>7, <3>1 DEF Calm, InUse
      <4>2. Inum(u) \in Inums
        BY <4>1 DEF InUse, Inum, IInv1, RefOK
      <4>3. CASE Inum(u) = i
        <5>1. PICK q \in Procs : Releasing(q, u)
          BY <2>5, <4>1, <4>3, FreeCached
        <5>2. q # p
          BY <2>13, <5>1
        <5> QED BY <1>1, <5>1, <5>2, OthersKeep
      <4> QED BY <2>14, <4>1, <4>2, <4>3
    <3>2. \A u \in Slots : InUse(u) => itable'[u].type = itable[u].type /\ itable'[u].nlink = itable[u].nlink
      BY <2>7 DEF Calm
    <3> QED BY <2>13, <3>1, <3>2 DEF Caches
  <2>16. Disk(p)
    <3>1. \A j \in Inums, m \in Names : ents[j][m] # 0 => dinode[j].type = "dir"
      BY DEF IInv2, TypesOK
    <3> QED BY <1>1, <2>5, <2>14, <3>1 DEF Disk
  <2>17. Grows(p)
    <3>1. i \in 0 .. NInodes
      BY <2>5, Consts
    <3>2. \A d \in Inums, m \in Names : ents'[d][m] # 0 => Edge(d, ents'[d][m])
      BY <1>1 DEF Edge
    <3> QED BY <1>2, <2>5, <2>6, <2>8, <2>9, <2>10, <3>1, <3>2 DEF Grows, Inum
  <2>18. InitOK(p)'
    <3>1. ASSUME NEW q \in Procs, Erasing(q, k)' PROVE FALSE
      <4>1. q # p
        BY <2>13, <3>1
      <4>2. Erasing(q, k)
        BY <1>1, <3>1, <4>1, OthersKeep
      <4>3. itable[k].ref > 0 /\ itable[k].valid
        BY <4>2, ErasingHolds DEF IInv2, CacheOK
      <4>4. Inum(k) = i
        BY <1>1, <2>6, <4>3 DEF Moves, Counts, Inum
      <4> QED BY <2>5, <2>6, <4>2, <4>3, <4>4, FreeCached DEF InUse
    <3>2. TypeOf(th'[p].op) = ty
      BY <2>8, <2>9
    <3>3. th'[p].ip = k
      BY <2>8, <2>9
    <3>4. \A q \in Procs : ~Erasing(q, th[p].ip)'
      BY <3>1, <3>3 DEF Erasing
    <3>5. dinode'[itable'[th'[p].ip].inum].type = ty
      BY <2>6, <2>14, <3>3
    <3> QED BY <3>2, <3>4, <3>5 DEF InitOK, Inum
  <2>19. ChildOK(p)'
    BY <2>8, <2>9 DEF ChildOK
  <2> QED BY <2>11, <2>15, <2>16, <2>17, <2>18, <2>19 DEF Works
<1>6. \/ itable' = Load(s) /\ th' = [th EXCEPT ![p] = Done(<<Stage(s, "drop")>>)] /\ UNCHANGED dinode
      \/ /\ FreeInums # {} /\ itable' = iget(Locked(Load(s), s, p), i)
         /\ dinode' = [dinode EXCEPT ![i] = [type |-> ty, nlink |-> 0]]
         /\ th' = [th EXCEPT ![p].pc = "init", ![p].dp = s, ![p].ip = IgetSlot(Load(s), i)]
  BY DEF CreateAlloc
<1>7. th' = [th EXCEPT ![p].pc = "init", ![p].dp = s, ![p].ip = k] => th' = [th EXCEPT ![p] = n]
  BY DEF IInv1, TypeOK
<1> HIDE DEF n
<1> QED BY <1>2, <1>4, <1>5, <1>6, <1>7

\* The first inode of link() is a file, and stays.
LEMMA SecondReady ==
  ASSUME IInv1, IInv2, NEW p \in Procs, th[p].dp # 0, th[p].op = "link2", NEW x, x = th[p].dp
  PROVE  x \in Slots /\ InUse(x) /\ Inum(x) \in Inums /\ dinode[Inum(x)].type # "dir"
<1>1. Firm(th[p], "dp") /\ Files(th[p], "dp") /\ Pointer(p, "dp") = x /\ "dp" \in Pointers
  BY DEF Firm, Files, Pointer, Pointers
<1>2. x \in Slots /\ InUse(x) /\ Coherent(x) /\ itable[x].inum \in Inums
  BY <1>1, FirmUse
<1>3. itable[x].type # "dir"
  BY <1>1 DEF IInv2, TypesOK, Knows
<1> QED BY <1>2, <1>3 DEF Coherent, Inum

\* The entry of link(): a new leaf below the directory.
LEMMA LinkEntryWorks ==
  ASSUME IInv1, IInv2, NEW p \in Procs, AtLock(p, "parent"), Moves(p), th[p].dp # 0, th[p].op = "link2",
         NEW s, s = th[p].ip, NEW x, x = th[p].dp, NEW name \in EntryNames,
         UNCHANGED <<itable, dinode>>, ents' = dirlink(Inum(s), name, Inum(x)),
         th'[p].pc = "idle", th'[p].dp = 0, th'[p].put[1].at = "drop"
  PROVE  Works(p)
<1>1. /\ s \in Slots /\ InUse(s) /\ itable[s].inum \in Inums /\ dinode[Inum(s)].type = "dir"
  BY ParentReady
<1>2. itable[s].lock = Nobody /\ itable[s].ref > 0 /\ th[p].put = <<>>
  BY LockReady DEF LockPlaces
<1>3. x \in Slots /\ Inum(x) \in Inums /\ dinode[Inum(x)].type # "dir"
  BY SecondReady
<1> PICK d, j : d = Inum(s) /\ j = Inum(x)
  OBVIOUS
<1>4. \A i \in Inums, n \in Names : ents'[i][n] = ents[i][n] \/ (i = d /\ ents'[i][n] = j)
  <2>1. ents \in [Inums -> [EntryNames -> 0 .. NInodes]] /\ ents' = [ents EXCEPT ![d][name] = j]
    BY DEF IInv1, TypeOK, dirlink
  <2>2. d \in Inums
    BY <1>1 DEF Inum
  <2> QED BY <2>1, <2>2, Consts
<1>5. \A u : ~Erasing(p, u)'
  BY DEF Erasing
<1>6. Caches(p)
  <2> DEFINE W == {}
  <2>1. W \in SUBSET Slots /\ \A u \in W : FALSE
    OBVIOUS
  <2>2. \A u \in Slots \ W : /\ itable'[u].type = itable[u].type /\ itable'[u].nlink = itable[u].nlink
                             /\ InUse(u)' => InUse(u)
    BY DEF InUse
  <2>3. Len(th[p].put) = 0
    BY <1>2, NoLen
  <2> HIDE DEF W
  <2> QED BY <1>5, <2>1, <2>2, <2>3, WriteCaches
<1>7. Disk(p)
  <2>1. \A i \in Inums, n \in Names : ents'[i][n] # 0 =>
          dinode'[i].type = "dir" \/ (ents[i][n] # 0 /\ dinode'[i].type = dinode[i].type)
    BY <1>1, <1>4
  <2>2. \A i \in Inums, n \in Names : ents'[i][n] # ents[i][n] =>
          \E u \in Slots : itable[u].ref > 0 /\ Inum(u) = i /\ itable[u].lock \in {p, Nobody}
    BY <1>1, <1>2, <1>4
  <2> QED BY <2>1, <2>2 DEF Disk
<1>8. Grows(p)
  <2>1. j \in 0 .. NInodes /\ dinode[j].type # "dir"
    BY <1>3, Consts
  <2>2. \A i \in Inums, n \in Names : ents'[i][n] # 0 =>
          Edge(i, ents'[i][n]) \/ (ents'[i][n] = j /\ dinode[i].type = "dir")
    BY <1>1, <1>4 DEF Edge
  <2> QED BY <2>1, <2>2 DEF Grows
<1>9. Knows(p)' /\ InitOK(p)' /\ ChildOK(p)'
  BY IdleKnows DEF InitOK, ChildOK
<1> QED BY <1>6, <1>7, <1>8, <1>9 DEF Works

\* The thread of a link() that has failed with two inodes to drop.
LEMMA FailedTwo ==
  ASSUME NEW t \in ThRec, NEW k \in Slots, NEW s \in Slots, t.op = "link2",
         NEW n, n = Failed(t, <<Stage(k, "drop"), Stage(s, "unlock")>>)
  PROVE  Len(n.put) = 2 /\ n.put[1].at = "drop" /\ n.dp = 0 /\ n.pc = "bad" /\ n.ip = t.dp
<1> DEFINE puts == <<Stage(k, "drop"), Stage(s, "unlock")>>
<1>1. Stage(k, "drop") \in StageRec /\ Stage(s, "unlock") \in StageRec
  BY DEF Stage, StageRec, Stages
<1>2. puts \in Seq(StageRec) /\ Len(puts) = 2 /\ puts[1] = Stage(k, "drop")
  BY <1>1, PutTwo
<1>3. n = Failed(t, puts)
  OBVIOUS
<1> HIDE DEF puts
<1>4. n = [t EXCEPT !.pc = "bad", !.rest = <<>>, !.ip = t.dp, !.dp = 0, !.put = puts]
  BY <1>3 DEF Failed
<1>5. n.pc = "bad" /\ n.ip = t.dp /\ n.dp = 0 /\ n.put = puts
  BY <1>4 DEF ThRec
<1> QED BY <1>2, <1>5, StageIs

\* link() enters an inode that is no directory: no circle comes of it.
LEMMA LinkDirWorks == ASSUME IInv1, IInv2, NEW p \in Procs, LinkDir(p) PROVE Works(p)
<1> PICK t, s, x, i, k : /\ t = th[p] /\ s = t.ip /\ x = t.dp /\ i = dirlookup(Inum(s), t.name)
                         /\ k = IgetSlot(itable, i)
  OBVIOUS
<1>1. AtLock(p, "parent") /\ "parent" \in LockPlaces /\ UNCHANGED dinode /\ Moves(p) /\ t.op = "link2"
  BY LinkDirMoves DEF LinkDir, LockPlaces
<1>2. /\ s \in Slots /\ InUse(s) /\ Load(s) = itable /\ itable[s].inum \in Inums
  BY <1>1, ParentReady
<1>3. t \in ThRec /\ x # 0 /\ t.name \in EntryNames
  BY <1>1 DEF AtLock, IInv1, TypeOK, PlaceOK, ThreadOK
<1>4. x \in Slots
  BY <1>1, <1>3, SecondReady
<1>5. CASE /\ i # 0 /\ itable' = Locked(iget(itable, i), s, p) /\ ents' = ents
           /\ th' = [th EXCEPT ![p] = Failed(t, <<Stage(k, "drop"), Stage(s, "unlock")>>)]
  <2>1. PICK tb : tb = iget(itable, i)
    OBVIOUS
  <2>2. TableOK(itable) /\ k \in Slots /\ Takes(itable, tb, k)
    <3>1. i \in Inums
      BY <1>2, <1>3, <1>5, LookupIn DEF IInv1, Inum
    <3> QED BY <2>1, <3>1, TableIs, IgetTakes, IgetWhere
  <2>3. tb \in [Slots -> SlotRec]
    BY <2>2 DEF Takes
  <2>4. Calm(itable, tb)
    BY <2>2, TakesCalm
  <2>5. itable' = Locked(tb, s, p) /\ p \in Procs \cup {Nobody}
    BY <1>5, <2>1
  <2>6. Calm(tb, itable')
    BY <1>2, <2>3, <2>5, LockedCalm
  <2>7. Calm(Load(s), itable')
    BY <1>2, <2>4, <2>6, CalmTrans
  <2>8. Quiet(p)
    BY <1>1, <1>5, <2>7, LoadQuiet
  <2>9. PICK n : n = Failed(t, <<Stage(k, "drop"), Stage(s, "unlock")>>)
    OBVIOUS
  <2>10. Len(n.put) = 2 /\ n.put[1].at = "drop" /\ n.dp = 0 /\ n.pc = "bad" /\ n.ip = x
    BY <1>1, <1>2, <1>3, <2>2, <2>9, FailedTwo
  <2>11. th'[p] = n
    BY <1>5, <2>9 DEF IInv1, TypeOK
  <2>12. itable'[x].type # "dir"
    BY <1>1, <1>3, <2>8, SecondKept
  <2>13. Knows(p)'
    BY <2>10, <2>11, <2>12, KnowsAfter
  <2> QED BY <1>1, <1>5, <2>7, <2>10, <2>11, <2>13, LoadWorks
<1>6. CASE /\ itable' = itable /\ ents' = dirlink(Inum(s), t.name, Inum(x))
           /\ th' = [th EXCEPT ![p] = Done(<<Stage(s, "drop"), Stage(x, "drop")>>)]
  <2>1. th'[p].pc = "idle" /\ th'[p].dp = 0 /\ th'[p].put[1].at = "drop"
    BY <1>2, <1>4, <1>6, TwoAfter
  <2> QED BY <1>1, <1>3, <1>6, <2>1, LinkEntryWorks
<1>7. CASE itable' = Load(s) /\ ents' = ents /\ th' = [th EXCEPT ![p] = Failed(t, <<Stage(s, "drop")>>)]
  BY <1>1, <1>7, FailWorks
<1>8. \/ /\ i # 0 /\ itable' = Locked(iget(Load(s), i), s, p) /\ UNCHANGED ents
         /\ th' = [th EXCEPT ![p] = Failed(t, <<Stage(IgetSlot(Load(s), i), "drop"), Stage(s, "unlock")>>)]
      \/ /\ itable' = Load(s) /\ ents' = dirlink(Inum(s), t.name, Inum(x))
         /\ th' = [th EXCEPT ![p] = Done(<<Stage(s, "drop"), Stage(x, "drop")>>)]
      \/ /\ itable' = Load(s) /\ th' = [th EXCEPT ![p] = Failed(t, <<Stage(s, "drop")>>)]
         /\ UNCHANGED ents
  BY DEF LinkDir, Inum
<1> QED BY <1>2, <1>5, <1>6, <1>7, <1>8

\* The last case of UnlinkChild, with s, d and name the child, the directory
\* and its entry.
ChildTable(tl, s, d) == IF tl[s].type = "dir" THEN SetNlink(tl, d, tl[d].nlink - 1) ELSE tl
\* unlink() removes the entry called name of directory d, which names slot s.
TakesEntry(p, tl, s, d, name) ==
  /\ itable' = ChildTable(tl, s, d)
  /\ dinode' = iupdate(itable', d)
  /\ ents' = [ents EXCEPT ![Inum(d)][name] = 0]
  /\ th' = [th EXCEPT ![p] = [th[p] EXCEPT !.pc = "unlinked", !.dp = 0, !.put = <<Stage(d, "unlock")>>]]

\* What is left of the two inodes in memory when unlink() has taken the entry.
LEMMA UnlinkTable ==
  ASSUME IInv1, IInv2, NEW p \in Procs, AtLock(p, "child"), NEW s, s = th[p].ip, NEW d, d = th[p].dp,
         NEW b, b = Load(s), NEW tl, tl = Locked(b, s, p),
         itable' = ChildTable(tl, s, d)
  PROVE  /\ s \in Slots /\ s # d /\ itable[s].lock = Nobody /\ itable[s].ref > 0 /\ itable[s].inum \in Inums
         /\ itable'[s].type = b[s].type /\ itable'[s].nlink = b[s].nlink
         /\ itable'[d].type = itable[d].type
         /\ \A u \in Slots : u # s /\ u # d => itable'[u] = itable[u]
<1>1. /\ s \in Slots /\ itable[s].ref > 0 /\ itable[s].inum \in Inums /\ itable[s].lock = Nobody
      /\ b \in [Slots -> SlotRec] /\ \A u \in Slots : u # s => b[u] = itable[u]
      /\ th[p].pc = "child"
  BY LockReady DEF LockPlaces
<1>2. d \in Slots /\ itable[d].lock = p
  BY <1>1, DpReady
<1>3. s # d
  BY <1>1, <1>2, Consts
<1>4. /\ tl[s].type = b[s].type /\ tl[s].nlink = b[s].nlink /\ \A u \in Slots : u # s => tl[u] = b[u]
      /\ tl \in [Slots -> SlotRec]
  <2>1. p \in Procs \cup {Nobody}
    OBVIOUS
  <2> QED BY <1>1, <2>1, LockedIs DEF Near
<1>5. CASE itable' = tl
  BY <1>1, <1>2, <1>3, <1>4, <1>5
<1>6. CASE itable' = SetNlink(tl, d, tl[d].nlink - 1)
  <2>1. tl[d].nlink - 1 \in Int
    BY <1>2, <1>4 DEF SlotRec
  <2>2. PICK c : c = tl[d].nlink - 1
    OBVIOUS
  <2>3. itable'[d].type = tl[d].type /\ \A u \in Slots : u # d => itable'[u] = tl[u]
    <3>1. c \in Int /\ itable' = SetNlink(tl, d, c)
      BY <1>6, <2>1, <2>2
    <3> QED BY <1>2, <1>4, <3>1, NlinkIs
  <2> QED BY <1>1, <1>2, <1>3, <1>4, <2>3
<1> QED BY <1>1, <1>3, <1>5, <1>6 DEF ChildTable

\* The entry goes; the directory may lose the link of its child's "..".
LEMMA UnlinkEntryWorks ==
  ASSUME IInv1, IInv2, NEW p \in Procs, AtLock(p, "child"), Moves(p),
         NEW s, s = th[p].ip, NEW d, d = th[p].dp,
         NEW b, b = Load(s), NEW tl, tl = Locked(b, s, p),
         NEW name \in Names, TakesEntry(p, tl, s, d, name)
  PROVE  Works(p)
<1>1. /\ s \in Slots /\ s # d /\ itable[s].lock = Nobody /\ itable[s].ref > 0 /\ itable[s].inum \in Inums
      /\ itable'[s].type = b[s].type /\ itable'[s].nlink = b[s].nlink
      /\ itable'[d].type = itable[d].type
      /\ \A u \in Slots : u # s /\ u # d => itable'[u] = itable[u]
  BY UnlinkTable DEF TakesEntry
<1>2. /\ d \in Slots /\ itable[d].lock = p /\ itable[d].ref > 0 /\ InUse(d) /\ Coherent(d)
      /\ dinode[Inum(d)].type = "dir" /\ itable[d].type = "dir" /\ itable[d].inum \in Inums
  <2>1. th[p].pc \in {"init", "child"}
    BY DEF AtLock
  <2> QED BY <2>1, DpReady
<1>3. /\ b[s].type = dinode[Inum(s)].type /\ b[s].nlink = dinode[Inum(s)].nlink /\ b[s].type # "free"
      /\ (InUse(s) => b[s] = itable[s])
  <2>1. "child" \in LockPlaces
    BY DEF LockPlaces
  <2> QED BY <2>1, LoadCoherent
<1>4. /\ Inum(s) # Inum(d) /\ Inum(s)' = Inum(s) /\ Inum(d)' = Inum(d)
      /\ Inum(s) \in Inums /\ Inum(d) \in Inums
  BY <1>1, <1>2 DEF IInv1, RefOK, Moves, Counts, Inum
<1>5. /\ dinode'[Inum(d)].type = itable'[d].type /\ dinode'[Inum(d)].nlink = itable'[d].nlink
      /\ \A i \in Inums : i # Inum(d) => dinode'[i] = dinode[i]
  <2>1. PICK T, k : T = itable' /\ k = Inum(d)
    OBVIOUS
  <2>2. TypeOK /\ T \in [Slots -> SlotRec] /\ T[d].inum \in Inums /\ T[d].inum = k
    BY <1>2, <1>4, <2>1 DEF IInv1, Moves, TypeOK, Inum
  <2>3. /\ iupdate(T, d)[T[d].inum].type = T[d].type
        /\ iupdate(T, d)[T[d].inum].nlink = T[d].nlink
        /\ \A j \in Inums : j # T[d].inum => iupdate(T, d)[j] = dinode[j]
    BY <1>2, <2>2, IupdateIs
  <2>4. dinode' = iupdate(itable', d)
    BY DEF TakesEntry
  <2> QED BY <2>1, <2>2, <2>3, <2>4
<1>6. Coherent(s)' /\ Coherent(d)'
  BY <1>1, <1>2, <1>3, <1>4, <1>5 DEF Coherent
<1>7. \A u \in {s, d} : /\ itable[u].ref > 0 /\ itable[u].lock \in {p, Nobody} /\ Coherent(u)'
                        /\ InUse(u) => itable'[u].type = itable[u].type
  <2>1. InUse(s) => itable'[s].type = itable[s].type
    BY <1>1, <1>3
  <2>2. \A u : u \in {s, d} => u = s \/ u = d
    OBVIOUS
  <2> QED BY <1>1, <1>2, <1>6, <2>1, <2>2
<1>8. \A i \in Inums : dinode'[i].type = dinode[i].type
  BY <1>1, <1>2, <1>5
<1>9. \A i \in Inums, m \in Names :
        ents'[i][m] = ents[i][m] \/ (i = Inum(d) /\ (ents'[i][m] = 0 \/ Edge(i, ents'[i][m])))
  <2>1. PICK k : k = Inum(d)
    OBVIOUS
  <2>2. /\ ents' = [ents EXCEPT ![k][name] = 0] /\ k \in Inums /\ name \in EntryNames
        /\ ents \in [Inums -> [EntryNames -> 0 .. NInodes]]
    BY <1>4, <2>1, Consts DEF IInv1, TypeOK, TakesEntry
  <2>3. \A i \in Inums, m \in Names : ents'[i][m] = ents[i][m] \/ (i = k /\ ents'[i][m] = 0)
    BY <2>2, Consts
  <2> QED BY <2>1, <2>3
<1>10. th'[p].pc = "unlinked" /\ th'[p].dp = 0 /\ Len(th'[p].put) >= 1 /\ th'[p].put[1].at = "unlock"
  <2>1. "unlinked" \in HasIp
    BY DEF HasIp
  <2> QED BY <1>1, <1>2, <2>1, OnAfter DEF TakesEntry
<1>11. Knows(p)'
  BY <1>10, KnowsAfter
<1>12. Len(th[p].put) = 0
  BY NoLen DEF AtLock
<1> QED BY <1>1, <1>2, <1>5, <1>7, <1>8, <1>9, <1>10, <1>11, <1>12, TwoWorks

\* unlink() of a name: the child is left, or the entry goes, or the system stops.
LEMMA UnlinkChildWorks ==
  ASSUME IInv1, IInv2, NEW p \in Procs, UnlinkChild(p)
  PROVE  (Works(p) /\ Moves(p)) \/ UNCHANGED <<itable, dinode, ents, th, cwd, ofile>>
<1> PICK t, s, d, b, tl : t = th[p] /\ s = t.ip /\ d = t.dp /\ b = Load(s) /\ tl = Locked(b, s, p)
  OBVIOUS
<1>1. AtLock(p, "child") /\ "child" \in LockPlaces /\ UNCHANGED <<cwd, ofile>>
  BY DEF UnlinkChild, LockPlaces
<1>2. /\ s \in Slots /\ b \in [Slots -> SlotRec] /\ t.pc = "child"
  BY <1>1, LockReady
<1>3. d \in Slots /\ t.name \in Names /\ t \in ThRec
  BY <1>2, DpReady DEF IInv1, TypeOK, PlaceOK, ThreadOK
<1>4. Moves(p) \/ UNCHANGED <<itable, dinode, ents, th, cwd, ofile>>
  BY UnlinkChildKeeps
<1>5. CASE Moves(p) /\ itable' = tl /\ UNCHANGED <<dinode, ents>>
           /\ th' = [th EXCEPT ![p] = Done(<<Stage(s, "unlock"), Stage(d, "unlock")>>)]
  <2>1. th'[p].pc = "idle" /\ th'[p].dp = 0 /\ th'[p].put[1].at = "unlock"
    BY <1>2, <1>3, <1>5, TwoAfter
  <2>2. Calm(b, itable')
    BY <1>2, <1>5, LockedCalm
  <2>3. Knows(p)'
    BY <2>1, IdleKnows
  <2>4. Works(p)
    BY <1>1, <1>5, <2>1, <2>2, <2>3, LoadWorks
  <2> QED BY <1>5, <2>4
<1>6. CASE Moves(p) /\ TakesEntry(p, tl, s, d, t.name)
  <2>1. Works(p)
    BY <1>1, <1>3, <1>6, UnlinkEntryWorks
  <2> QED BY <1>6, <2>1
<1>7. \/ UNCHANGED <<itable, dinode, ents, th>>
      \/ /\ itable' = tl /\ UNCHANGED <<dinode, ents>>
         /\ th' = [th EXCEPT ![p] = Done(<<Stage(s, "unlock"), Stage(d, "unlock")>>)]
      \/ /\ itable' = ChildTable(tl, s, d)
         /\ dinode' = iupdate(itable', d) /\ ents' = [ents EXCEPT ![Inum(d)][t.name] = 0]
         /\ th' = [th EXCEPT ![p].pc = "unlinked", ![p].dp = 0, ![p].put = <<Stage(d, "unlock")>>]
  BY Zenon DEF UnlinkChild, Inum, ChildTable
<1>8. th' = [th EXCEPT ![p].pc = "unlinked", ![p].dp = 0, ![p].put = <<Stage(d, "unlock")>>]
      => th' = [th EXCEPT ![p] = [th[p] EXCEPT !.pc = "unlinked", !.dp = 0, !.put = <<Stage(d, "unlock")>>]]
  BY DEF IInv1, TypeOK
<1> QED BY <1>1, <1>4, <1>5, <1>6, <1>7, <1>8 DEF TakesEntry

-----------------------------------------------------------------------------
(* The steps of iunlockput(). *)

\* A thread that drops an inode knows what it knew before.
LEMMA PutKnows ==
  ASSUME IInv1, IInv2, NEW p \in Procs, Len(th[p].put) >= 1,
         th'[p].pc = th[p].pc, th'[p].ip = th[p].ip, th'[p].dp = th[p].dp, th'[p].op = th[p].op,
         \A u \in Slots : InUse(u) /\ ~Erasing(p, u) => itable'[u].type = itable[u].type
  PROVE  Knows(p)' /\ InitOK(p)' /\ ChildOK(p)' /\ th'[p].pc \notin {"init", "child"}
<1>1. th[p].pc \notin {"parent", "init", "link2", "child"}
  <2>1. Len(th[p].put) # 0
    OBVIOUS
  <2> QED BY <2>1 DEF IInv1, PlaceOK, ThreadOK, Alone
<1>2. ASSUME NEW v \in Pointers, Files(th[p], v), NEW x, x = Pointer(p, v)
      PROVE  itable'[x].type # "dir"
  <2>1. Firm(th[p], v)
    BY <1>2, KnowsFirm DEF IInv1, PlaceOK
  <2>2. x \in Slots /\ InUse(x) /\ ~Erasing(p, x)
    BY <1>2, <2>1, FirmUse
  <2>3. itable[x].type # "dir"
    BY <1>2 DEF IInv2, TypesOK, Knows
  <2> QED BY <2>2, <2>3
<1>3. th'[p].pc = "bad" => itable'[th'[p].ip].type # "dir"
  <2> PICK x : x = th[p].ip
    OBVIOUS
  <2>1. th[p].pc = "bad" => Files(th[p], "ip") /\ x = Pointer(p, "ip") /\ "ip" \in Pointers
    BY DEF Files, Pointer, Pointers
  <2> QED BY <1>2, <2>1
<1>4. th'[p].dp # 0 /\ th'[p].op = "link2" => itable'[th'[p].dp].type # "dir"
  <2> PICK x : x = th[p].dp
    OBVIOUS
  <2>1. th[p].dp # 0 /\ th[p].op = "link2" => Files(th[p], "dp") /\ x = Pointer(p, "dp") /\ "dp" \in Pointers
    BY DEF Files, Pointer, Pointers
  <2> QED BY <1>2, <2>1
<1>5. Knows(p)'
  BY <1>1, <1>3, <1>4, KnowsAfter
<1>6. InitOK(p)' /\ ChildOK(p)'
  BY <1>1 DEF InitOK, ChildOK
<1> QED BY <1>1, <1>5, <1>6

\* The first inode of the list, before and after a stage.
LEMMA StageAfter ==
  ASSUME IInv1, NEW p \in Procs, NEW a, NEW x, NEW b, NEW y, PutAt(th[p], a, x, b, y),
         NEW x1 \in Stages, Advance(p, x1), UNCHANGED <<cwd, ofile>>
  PROVE  /\ Len(th[p].put) >= 1 /\ th[p].put[1] = Stage(a, x)
         /\ Len(th'[p].put) >= 1 /\ th'[p].put[1] = Stage(a, x1)
         /\ th'[p].pc = th[p].pc /\ th'[p].ip = th[p].ip /\ th'[p].dp = th[p].dp /\ th'[p].op = th[p].op
         /\ a \in Slots /\ itable[a].ref > 0 /\ itable[a].ref \in Nat /\ itable[a].inum \in Inums
         /\ Pointer(p, "put1") = a
         /\ \A u : /\ Erasing(p, u) <=> x = "erase" /\ u = a
                   /\ Releasing(p, u) <=> x = "release" /\ u = a
                   /\ Erasing(p, u)' <=> x1 = "erase" /\ u = a
                   /\ Releasing(p, u)' <=> x1 = "release" /\ u = a
<1>1. /\ a \in Slots /\ a # 0 /\ itable[a].ref > 0 /\ itable[a].ref \in Nat /\ itable[a].inum \in Inums
      /\ Shape(th[p], th[p].pc, th[p].ip, th[p].dp, a, x, b, y) /\ Pointer(p, "put1") = a
  BY PutIs
<1>2. /\ Shape(th'[p], th[p].pc, th[p].ip, th[p].dp, a, x1, b, y)
      /\ th'[p].pc = th[p].pc /\ th'[p].ip = th[p].ip /\ th'[p].dp = th[p].dp /\ th'[p].op = th[p].op
  BY AdvanceShape
<1>3. /\ Len(th[p].put) >= 1 /\ th[p].put[1] = Stage(a, x)
      /\ Len(th'[p].put) >= 1 /\ th'[p].put[1] = Stage(a, x1)
  BY <1>1, <1>2 DEF Shape
<1>4. \A u : /\ Erasing(p, u) <=> x = "erase" /\ u = a
             /\ Releasing(p, u) <=> x = "release" /\ u = a
             /\ Erasing(p, u)' <=> x1 = "erase" /\ u = a
             /\ Releasing(p, u)' <=> x1 = "release" /\ u = a
  BY <1>3, StageIs DEF Erasing, Releasing
<1> QED BY <1>1, <1>2, <1>3, <1>4

\* iunlock() changes nothing but the lock.
LEMMA iunlockWorks == ASSUME IInv1, IInv2, NEW p \in Procs, iunlock(p) PROVE Works(p)
<1>1. PICK a, b, y : UnlockStep(p, a, b, y)
  BY iunlockIs
<1>2. "drop" \in Stages
  BY DEF Stages
<1>3. /\ Len(th[p].put) >= 1
      /\ th'[p].pc = th[p].pc /\ th'[p].ip = th[p].ip /\ th'[p].dp = th[p].dp /\ th'[p].op = th[p].op
      /\ \A u : ~Erasing(p, u)' /\ ~Releasing(p, u)
  <2>1. /\ PutAt(th[p], a, "unlock", b, y) /\ Advance(p, "drop") /\ UNCHANGED <<cwd, ofile>>
    BY <1>1 DEF UnlockStep
  <2>2. /\ Len(th[p].put) >= 1
        /\ th'[p].pc = th[p].pc /\ th'[p].ip = th[p].ip /\ th'[p].dp = th[p].dp /\ th'[p].op = th[p].op
        /\ \A u : /\ Erasing(p, u)' <=> "drop" = "erase" /\ u = a
                  /\ Releasing(p, u) <=> "unlock" = "release" /\ u = a
    BY <1>2, <2>1, StageAfter
  <2> QED BY <2>2
<1>4. Calm(itable, itable') /\ UNCHANGED <<dinode, ents>>
  <2>1. \A u \in Slots : /\ itable'[u].type = itable[u].type /\ itable'[u].nlink = itable[u].nlink
                         /\ itable'[u].ref = itable[u].ref /\ itable'[u].valid = itable[u].valid
    BY <1>1 DEF UnlockStep, Only
  <2> QED BY <1>1, <2>1 DEF UnlockStep, Calm
<1>5. Quiet(p) /\ \A u \in Slots : itable'[u].type = itable[u].type
  BY <1>4, CalmQuiet DEF Calm
<1>6. Knows(p)' /\ th'[p].pc \notin {"init", "child"}
  BY <1>3, <1>5, PutKnows
<1> QED BY <1>3, <1>5, <1>6, QuietWorks

\* The slot that is unlocked again is no longer in use.
LEMMA IputReleaseWorks == ASSUME IInv1, IInv2, NEW p \in Procs, IputRelease(p) PROVE Works(p)
<1>1. PICK a, b, y : ReleaseStep(p, a, b, y)
  BY IputReleaseIs
<1>2. "last" \in Stages
  BY DEF Stages
<1>3. /\ Len(th[p].put) >= 1
      /\ th'[p].pc = th[p].pc /\ th'[p].ip = th[p].ip /\ th'[p].dp = th[p].dp /\ th'[p].op = th[p].op
      /\ \A u : ~Erasing(p, u)' /\ (Releasing(p, u) <=> u = a)
  <2>1. /\ PutAt(th[p], a, "release", b, y) /\ Advance(p, "last") /\ UNCHANGED <<cwd, ofile>>
    BY <1>1 DEF ReleaseStep
  <2> QED BY <1>2, <2>1, StageAfter
<1>4. Calm(itable, itable') /\ UNCHANGED <<dinode, ents>> /\ ~itable'[a].valid
  <2>1. \A u \in Slots : /\ itable'[u].type = itable[u].type /\ itable'[u].nlink = itable[u].nlink
                         /\ itable'[u].ref = itable[u].ref
                         /\ itable'[u].valid => itable[u].valid
    BY <1>1 DEF ReleaseStep, Only
  <2> QED BY <1>1, <2>1 DEF ReleaseStep, Calm
<1>5. Quiet(p) /\ \A u \in Slots : itable'[u].type = itable[u].type
  BY <1>4, CalmQuiet DEF Calm
<1>6. Knows(p)' /\ th'[p].pc \notin {"init", "child"}
  BY <1>3, <1>5, PutKnows
<1>7. \A u \in Slots : Releasing(p, u) => ~InUse(u)'
  BY <1>3, <1>4 DEF InUse
<1> QED BY <1>3, <1>5, <1>6, <1>7, QuietWorks

\* Dropping a reference.
LEMMA DropWorks == ASSUME IInv1, IInv2, NEW p \in Procs, iput(p) \/ IputLast(p) PROVE Works(p)
<1>1. PICK a, x, b, y : DropStep(p, a, x, b, y)
  BY DropIs
<1>2. PutAt(th[p], a, x, b, y) /\ th' = [th EXCEPT ![p].put = Tail(@)] /\ UNCHANGED <<cwd, ofile, dinode, ents>>
  BY <1>1 DEF DropStep
<1>3. /\ a \in Slots /\ a # 0 /\ itable[a].ref > 0 /\ itable[a].ref \in Nat
      /\ Shape(th[p], th[p].pc, th[p].ip, th[p].dp, a, x, b, y) /\ y \in {"unlock", "drop", "none"}
  BY <1>2, PutIs
<1>4. /\ Shape(th'[p], th[p].pc, th[p].ip, th[p].dp, b, y, 0, "none")
      /\ th'[p].pc = th[p].pc /\ th'[p].ip = th[p].ip /\ th'[p].dp = th[p].dp /\ th'[p].op = th[p].op
  BY <1>2, PopShape
<1>5. Len(th[p].put) >= 1 /\ th[p].put[1].at = x /\ x \in {"drop", "last"}
  BY <1>1, <1>3, StageIs DEF Shape, DropStep
<1>6. Len(th'[p].put) = 0 \/ th'[p].put[1].at \notin {"erase", "release"}
  <2>1. b = 0 => Len(th'[p].put) = 0
    BY <1>4 DEF Shape
  <2>2. b # 0 => th'[p].put[1] = Stage(b, y)
    BY <1>4 DEF Shape
  <2> QED BY <1>3, <2>1, <2>2, StageIs
<1>7. \A u : ~Erasing(p, u)' /\ ~Releasing(p, u)
  BY <1>5, <1>6 DEF Erasing, Releasing
<1>8. Calm(itable, itable')
  <2>1. itable \in [Slots -> SlotRec]
    BY DEF IInv1, TypeOK
  <2>2. PICK n : n = itable[a].ref - 1
    OBVIOUS
  <2>3. n \in Int /\ itable' = [itable EXCEPT ![a].ref = n]
    BY <1>1, <1>3, <2>2 DEF DropStep
  <2>4. /\ itable'[a].valid = itable[a].valid
        /\ itable'[a].type = itable[a].type /\ itable'[a].nlink = itable[a].nlink
        /\ \A u \in Slots : u # a => itable'[u] = itable[u]
    BY <1>3, <2>1, <2>3, RefIs
  <2> QED BY <1>3, <2>4 DEF Calm
<1>9. Quiet(p) /\ \A u \in Slots : itable'[u].type = itable[u].type
  BY <1>2, <1>8, CalmQuiet DEF Calm
<1>10. Knows(p)' /\ th'[p].pc \notin {"init", "child"}
  BY <1>4, <1>5, <1>9, PutKnows
<1> QED BY <1>7, <1>9, <1>10, QuietWorks

\* The last user of an inode without links: nobody else points to it.
LEMMA IputFreeWorks == ASSUME IInv1, IInv2, NEW p \in Procs, IputFree(p) PROVE Works(p)
<1>1. PICK a, b, y : FreeStep(p, a, b, y)
  BY IputFreeIs
<1>2. /\ PutAt(th[p], a, "drop", b, y) /\ Advance(p, "erase") /\ UNCHANGED <<cwd, ofile, dinode, ents>>
      /\ itable[a].ref = 1 /\ itable[a].valid /\ itable[a].nlink = 0
  BY <1>1 DEF FreeStep, LastUse
<1>3. "erase" \in Stages
  BY DEF Stages
<1>4. /\ Len(th[p].put) >= 1 /\ a \in Slots /\ Pointer(p, "put1") = a
      /\ th'[p].pc = th[p].pc /\ th'[p].ip = th[p].ip /\ th'[p].dp = th[p].dp /\ th'[p].op = th[p].op
      /\ \A u : /\ Releasing(p, u) <=> "drop" = "release" /\ u = a
                /\ Erasing(p, u)' <=> "erase" = "erase" /\ u = a
  BY <1>2, <1>3, StageAfter
<1>5. \A u \in Slots : /\ itable'[u].type = itable[u].type /\ itable'[u].nlink = itable[u].nlink
                       /\ itable'[u].ref = itable[u].ref /\ itable'[u].valid = itable[u].valid
  BY <1>1 DEF FreeStep, Only
<1>6. \A q \in Procs \ {p}, v \in Pointers : Pointer(q, v) # a
  <2>1. Refs(a) = 1
    BY <1>2, <1>4 DEF IInv1, RefOK
  <2>2. "put1" \in Pointers
    BY DEF Pointers
  <2>3. Own(p, a) \in Nat /\ Own(p, a) >= 1
    BY <1>4, <2>2, OwnBounds
  <2> QED BY <2>1, <2>3, OwnBounds
<1>7. Caches(p)
  BY <1>2, <1>4, <1>5, <1>6 DEF Caches, InUse, Inum
<1>8. Disk(p)
  BY <1>2 DEF Disk
<1>9. Knows(p)' /\ InitOK(p)' /\ ChildOK(p)' /\ th'[p].pc \notin {"init", "child"}
  BY <1>4, <1>5, PutKnows
<1>10. Grows(p)
  <2>1. 0 \in 0 .. NInodes
    BY Consts
  <2>2. \A d \in Inums, n \in Names : ents'[d][n] # 0 => Edge(d, ents'[d][n])
    BY <1>2 DEF Edge
  <2> QED BY <1>9, <2>1, <2>2 DEF Grows
<1> QED BY <1>7, <1>8, <1>9, <1>10 DEF Works

\* Erasing takes a node out of the tree.
LEMMA IputEraseWorks == ASSUME IInv1, IInv2, NEW p \in Procs, IputErase(p) PROVE Works(p)
<1>1. PICK a, b, y : EraseStep(p, a, b, y)
  BY IputEraseIs
<1>2. PutAt(th[p], a, "erase", b, y) /\ Advance(p, "release") /\ UNCHANGED <<cwd, ofile>>
  BY <1>1 DEF EraseStep
<1>3. "release" \in Stages
  BY DEF Stages
<1>4. /\ Len(th[p].put) >= 1 /\ a \in Slots /\ itable[a].ref > 0 /\ itable[a].inum \in Inums
      /\ th'[p].pc = th[p].pc /\ th'[p].ip = th[p].ip /\ th'[p].dp = th[p].dp /\ th'[p].op = th[p].op
      /\ \A u : /\ Erasing(p, u) <=> "erase" = "erase" /\ u = a
                /\ Releasing(p, u) <=> "erase" = "release" /\ u = a
                /\ Erasing(p, u)' <=> "release" = "erase" /\ u = a
                /\ Releasing(p, u)' <=> "release" = "release" /\ u = a
  BY <1>2, <1>3, StageAfter
<1>5. itable[a].lock = p
  BY <1>4, ErasingHolds
<1>6. /\ \A u \in Slots : u # a => itable'[u] = itable[u]
      /\ itable'[a].nlink = itable[a].nlink
      /\ \A i \in Inums : i # Inum(a) => dinode'[i] = dinode[i]
  BY <1>1 DEF EraseStep, Only, Inum
<1>7. \A i \in Inums, n \in Names : ents'[i][n] = ents[i][n] \/ (i = Inum(a) /\ ents'[i][n] = 0)
  <2>1. ents \in [Inums -> [EntryNames -> 0 .. NInodes]] /\ ents' = [ents EXCEPT ![Inum(a)] = NoEntries]
    BY <1>1 DEF IInv1, TypeOK, EraseStep, Inum
  <2>2. PICK k : k = Inum(a)
    OBVIOUS
  <2> QED BY <2>1, <2>2, NoEntriesIs, Consts
<1>8. Caches(p)
  <2>1. ASSUME NEW u \in Slots, u # a, InUse(u)'
        PROVE  /\ InUse(u) /\ itable'[u].type = itable[u].type /\ itable'[u].nlink = itable[u].nlink
               /\ dinode'[Inum(u)] = dinode[Inum(u)]
    <3>1. InUse(u) /\ itable[u].ref > 0
      BY <1>6, <2>1 DEF InUse
    <3>2. Inum(u) \in Inums /\ Inum(u) # Inum(a)
      BY <1>4, <2>1, <3>1 DEF IInv1, RefOK, Inum
    <3> QED BY <1>6, <2>1, <3>1, <3>2
  <2>2. Releasing(p, a)' /\ \A u : ~Erasing(p, u)' /\ ~Releasing(p, u)
    BY <1>4
  <2>3. \A u \in Slots : itable'[u].nlink = itable[u].nlink /\ (~Erasing(p, u) => itable'[u].type = itable[u].type)
    BY <1>4, <1>6
  <2> QED BY <2>1, <2>2, <2>3 DEF Caches
<1>9. Disk(p)
  <2>1. \A i \in Inums : dinode'[i].type # dinode[i].type => \E s \in Slots : Erasing(p, s) /\ Inum(s) = i
    BY <1>4, <1>6
  <2>2. \A i \in Inums, n \in Names : ents'[i][n] # 0 => (ents[i][n] # 0 /\ i # Inum(a)) \/ dinode'[i].type = "dir"
    <3>1. \A n \in Names : ents'[Inum(a)][n] = 0
      <4>1. ents \in [Inums -> [EntryNames -> 0 .. NInodes]] /\ ents' = [ents EXCEPT ![Inum(a)] = NoEntries]
        BY <1>1 DEF IInv1, TypeOK, EraseStep, Inum
      <4>2. ents'[Inum(a)] = NoEntries
        BY <1>4, <4>1 DEF Inum
      <4> QED BY <4>2, NoEntriesIs, Consts
    <3> QED BY <1>7, <3>1
  <2>3. \A i \in Inums, n \in Names : ents'[i][n] # ents[i][n] =>
          \E s \in Slots : itable[s].ref > 0 /\ Inum(s) = i /\ itable[s].lock \in {p, Nobody}
    BY <1>4, <1>5, <1>7
  <2> QED BY <1>6, <2>1, <2>2, <2>3 DEF Disk
<1>10. Knows(p)' /\ InitOK(p)' /\ ChildOK(p)' /\ th'[p].pc \notin {"init", "child"}
  BY <1>4, <1>6, PutKnows
<1>11. Grows(p)
  <2>1. 0 \in 0 .. NInodes
    BY Consts
  <2>2. \A d \in Inums, n \in Names : ents'[d][n] # 0 => Edge(d, ents'[d][n])
    BY <1>7 DEF Edge
  <2> QED BY <1>10, <2>1, <2>2 DEF Grows
<1> QED BY <1>8, <1>9, <1>10, <1>11 DEF Works

\* Every step of iput() and iunlockput().
LEMMA PutWorks == ASSUME IInv1, IInv2, NEW p \in Procs, PutStep(p) PROVE Works(p)
BY iunlockWorks, IputFreeWorks, IputEraseWorks, IputReleaseWorks, DropWorks DEF PutStep

-----------------------------------------------------------------------------
(* The second invariant holds.                                             *)

\* A step that changes none of the variables keeps the second layer.
LEMMA SameKeeps2 ==
  ASSUME IInv2, UNCHANGED <<itable, dinode, ents, th, cwd, ofile>>
  PROVE  IInv2'
<1>1. \A p \in Procs, v \in Pointers : Pointer(p, v)' = Pointer(p, v)
  BY DEF Pointer, PutSlot
<1>2. /\ \A s : InUse(s)' = InUse(s) /\ Inum(s)' = Inum(s) /\ Coherent(s)' = Coherent(s)
      /\ \A p, s : Releasing(p, s)' = Releasing(p, s) /\ Erasing(p, s)' = Erasing(p, s)
  BY DEF InUse, Inum, Coherent, Releasing, Erasing
<1>3. CacheOK'
  BY <1>2 DEF IInv2, CacheOK
<1>4. \A p \in Procs : Knows(p)' /\ InitOK(p)' /\ ChildOK(p)'
  <2> SUFFICES ASSUME NEW p \in Procs PROVE Knows(p)' /\ InitOK(p)' /\ ChildOK(p)'
    OBVIOUS
  <2>1. Knows(p) /\ InitOK(p) /\ ChildOK(p)
    BY DEF IInv2, TypesOK
  <2>2. Knows(p)'
    BY <1>1, <2>1 DEF Knows
  <2>3. InitOK(p)'
    BY <2>1 DEF InitOK, Inum, Erasing
  <2>4. ChildOK(p)'
    BY <2>1 DEF ChildOK, Inum
  <2> QED BY <2>2, <2>3, <2>4
<1>5. TypesOK'
  BY <1>4 DEF IInv2, TypesOK
<1>6. \A d, i : Edge(d, i)' = Edge(d, i)
  BY DEF Edge, Inum
<1>7. TreeOK'
  BY <1>6 DEF IInv2, TreeOK
<1> QED BY <1>3, <1>5, <1>7 DEF IInv2

\* Every action of a system call keeps the second layer.
LEMMA CallStepKeeps2 == ASSUME IInv1, IInv1', IInv2, NEW p \in Procs, CallStep(p) PROVE IInv2'
<1>1. CASE UnlinkChild(p)
  BY <1>1, UnlinkChildWorks, WorksKeeps, SameKeeps2
<1>2. CASE ~UnlinkChild(p)
  <2>1. \/ namex(p) \/ OpenFound(p) \/ OpenFile(p) \/ OpenFail(p) \/ Close(p)
        \/ CreateFinds(p) \/ CreateExists(p) \/ CreateAlloc(p) \/ CreateLink(p) \/ CreateFail(p)
        \/ LinkOld(p) \/ LinkDir(p) \/ LinkBad(p)
        \/ UnlinkDir(p) \/ UnlinkDrop(p) \/ ChdirFound(p) \/ ChdirSet(p)
    BY <1>2, Zenon DEF CallStep
  <2>2. Moves(p)
    BY <2>1, namexMoves, OpenFoundMoves, OpenFileMoves, OpenFailMoves, CloseMoves,
       CreateFindsMoves, CreateExistsMoves, CreateAllocMoves, CreateLinkMoves, CreateFailMoves,
       LinkOldMoves, LinkDirMoves, LinkBadMoves, UnlinkDirMoves, UnlinkDropMoves,
       ChdirFoundMoves, ChdirSetMoves
  <2>3. Works(p)
    BY <2>1, namexWorks, OpenFoundWorks, OpenFileWorks, OpenFailWorks, CloseWorks,
       CreateFindsWorks, CreateExistsWorks, CreateAllocWorks, CreateLinkWorks, CreateFailWorks,
       LinkOldWorks, LinkDirWorks, LinkBadWorks, UnlinkDirWorks, UnlinkDropWorks,
       ChdirFoundWorks, ChdirSetWorks
  <2> QED BY <2>2, <2>3, WorksKeeps
<1> QED BY <1>1, <1>2

\* Every step keeps the second layer.
LEMMA NextInv2 == ASSUME IInv1, IInv2, [Next]_vars PROVE IInv2'
<1>0. IInv1'
  BY NextInv1
<1>1. CASE UNCHANGED vars
  <2>1. UNCHANGED <<itable, dinode, ents, th, cwd, ofile>>
    BY <1>1 DEF vars
  <2> QED BY <2>1, SameKeeps2
<1>2. ASSUME NEW p \in Procs, NEW c \in Calls, Syscall(p, c) PROVE IInv2'
  BY <1>0, <1>2, SyscallMoves, SyscallWorks, WorksKeeps
<1>3. ASSUME NEW p \in Procs, NEW path \in NewPaths, LinkNew(p, path) PROVE IInv2'
  BY <1>0, <1>3, LinkNewMoves, LinkNewWorks, WorksKeeps
<1>4. ASSUME NEW p \in Procs, CallStep(p) PROVE IInv2'
  BY <1>0, <1>4, CallStepKeeps2
<1>5. ASSUME NEW p \in Procs, PutStep(p) PROVE IInv2'
  BY <1>0, <1>5, PutMoves, PutWorks, WorksKeeps
<1>6. ASSUME NEW p \in Procs, IlockPanic(p) PROVE IInv2'
  BY <1>6, IlockPanicIs, SameKeeps2
<1>7. Halted => UNCHANGED vars
  BY Zenon DEF Halted
<1> QED BY <1>1, <1>2, <1>3, <1>4, <1>5, <1>6, <1>7, Zenon DEF Next

\* The second layer holds initially: the directories form a chain.
LEMMA InitInv2 == ASSUME Init PROVE IInv2
<1>1. PICK depth \in 0 .. NInodes - 2 : cwd \in [Procs -> 1 .. depth + 1] /\ ChainOf(depth)
  BY InitIs
<1>2. InitTable /\ th = [p \in Procs |-> IdleThread]
  BY InitIs
<1>3. \A p \in Procs : th[p].pc = "idle" /\ th[p].dp = 0 /\ Len(th[p].put) = 0
  BY <1>2, IdleIs, NoLen
<1>4. CacheOK
  <2>1. ASSUME NEW s \in Slots PROVE ~itable[s].valid
    <3>1. itable[s] = SlotOf(s, Cardinality(Users(s))) \/ itable[s] = EmptySlot
      BY <1>2 DEF InitTable
    <3>2. s \in Inums /\ Cardinality(Users(s)) \in Nat
      BY UsersFinite, Consts
    <3> QED BY <3>1, <3>2, EmptyIs
  <2>2. \A p \in Procs, s \in Slots : ~Erasing(p, s)
    BY <1>3 DEF Erasing
  <2> QED BY <2>1, <2>2 DEF CacheOK, InUse
<1>5. PICK first \in Names : \A i \in Inums :
        /\ dinode[i].type = IF i \in 1 .. depth + 1 THEN "dir" ELSE "free"
        /\ \A n \in Names : ents[i][n] = IF n = first /\ i \in 1 .. depth THEN i + 1 ELSE 0
  BY <1>1, ChainIs
<1>6. TypesOK
  <2>1. \A p \in Procs : Knows(p)
    BY <1>3 DEF Knows, Dirs, Files
  <2>2. \A p \in Procs : InitOK(p) /\ ChildOK(p)
    BY <1>3 DEF InitOK, ChildOK
  <2>3. depth \in Nat
    BY Consts
  <2>4. \A i \in Inums : dinode[i].type # "dir" => i \notin 1 .. depth
    BY <1>5, <2>3
  <2>5. \A i \in Inums, n \in Names : dinode[i].type # "dir" => ents[i][n] = 0
    BY <1>5, <2>4
  <2> QED BY <2>1, <2>2, <2>5 DEF TypesOK
<1>7. ASSUME NEW D \in (SUBSET Inums) \ {{}} PROVE \E d \in D : \A i \in D : ~Edge(d, i)
  <2> DEFINE T == {NInodes - d : d \in D}
  <2>0. \A d \in D : NInodes - d \in Nat
    BY Consts DEF Inums
  <2>1. T \in SUBSET Nat /\ T # {}
    <3>1. \A x \in T : x \in Nat
      BY <2>0
    <3>4. D # {}
      OBVIOUS
    <3>2. PICK d \in D : TRUE
      BY <3>4, Zenon
    <3>3. NInodes - d \in T
      BY <3>2
    <3> QED BY <3>1, <3>3
  <2> HIDE DEF T
  <2>2. Min(T) \in T /\ \A y \in T : Min(T) <= y
    BY <2>1, LeastNat
  <2> USE DEF T
  <2>3. PICK d \in D : \A i \in D : NInodes - d <= NInodes - i
    BY <2>2
  <2>4. \A i \in D : i # d + 1
    BY <2>3, Consts DEF Inums
  <2>5. \A n \in Names, i \in D : ents[d][n] # i
    BY <1>5, <2>4, Consts DEF Inums
  <2>6. \A i \in D : ~Edge(d, i)
    BY <1>3, <2>5 DEF Edge
  <2> QED BY <2>6
<1>8. TreeOK
  BY <1>7 DEF TreeOK
<1> QED BY <1>4, <1>6, <1>8 DEF IInv2

\* The second layer holds always: the cache, what system calls remember, and the
\* tree.
THEOREM Inv2 == Spec => [](IInv1 /\ IInv2)
<1>1. Init => IInv1 /\ IInv2
  BY InitInv1, InitInv2
<1>2. IInv1 /\ IInv2 /\ [Next]_vars => (IInv1 /\ IInv2)'
  BY NextInv1, NextInv2
<1> QED BY <1>1, <1>2, PTL DEF Spec

-----------------------------------------------------------------------------
(* What follows from it: no circle of waiting processes, no surprise.      *)

\* A process that holds a lock and waits for another one is in a directory,
\* and waits for an inode below it.
LEMMA HeldAndWanted ==
  ASSUME IInv1, IInv2, NEW q \in Procs, Wants(q) # 0, NEW s \in Slots, itable[s].lock = q
  PROVE  /\ th[q].pc \in {"init", "child"} /\ th[q].dp = s /\ Wants(q) = th[q].ip
         /\ Inum(s) \in Inums /\ Inum(th[q].ip) \in Inums /\ Edge(Inum(s), Inum(th[q].ip))
<1>1. th[q].pc \in LockPlaces /\ th[q].put = <<>> /\ Wants(q) = th[q].ip
  BY DEF Wants
<1>2. PICK v \in Pointers : Holds(th[q], v) /\ Pointer(q, v) = s
  BY DEF IInv1, LockOK
<1>3. th[q].pc \in {"init", "child"} /\ v = "dp"
  BY <1>1, <1>2, HoldsView, NoLen DEF LockPlaces
<1>4. th[q].dp = s
  BY <1>2, <1>3, Views
<1>5. Inum(s) \in Inums /\ Inum(th[q].ip) \in Inums
  BY <1>3, <1>4, Consts, AtDp, AtIp DEF Inum
<1>6. CASE th[q].pc = "init"
  BY <1>1, <1>3, <1>4, <1>5, <1>6 DEF Edge
<1>7. CASE th[q].pc = "child"
  <2>1. th[q].name \in Names
    BY <1>7 DEF IInv1, PlaceOK, ThreadOK
  <2>2. ents[Inum(s)][th[q].name] = Inum(th[q].ip)
    BY <1>4, <1>7 DEF IInv2, TypesOK, ChildOK
  <2> QED BY <1>1, <1>3, <1>4, <1>5, <2>1, <2>2 DEF Edge
<1> QED BY <1>3, <1>6, <1>7

\* Waiting processes have their directories locked, and wait for inodes below:
\* in a finite tree one of them waits for nobody.
LEMMA NoCircle == ASSUME IInv1, IInv2 PROVE NoLockCycle
<1> SUFFICES ASSUME NEW S \in (SUBSET Procs) \ {{}},
                    \A p \in S : Wants(p) # 0 /\ itable[Wants(p)].lock \in S
             PROVE  FALSE
  BY DEF NoLockCycle
<1> DEFINE D == {Inum(th[q].dp) : q \in {q \in S : th[q].pc \in {"init", "child"}}}
<1>1. ASSUME NEW p \in S
      PROVE  \E q \in S : /\ th[q].pc \in {"init", "child"} /\ th[q].dp = Wants(p)
                          /\ Inum(Wants(p)) \in Inums /\ Edge(Inum(Wants(p)), Inum(th[q].ip))
                          /\ Wants(q) = th[q].ip
  <2>1. p \in Procs /\ Wants(p) # 0
    OBVIOUS
  <2>2. Wants(p) = th[p].ip /\ th[p].pc # "idle"
    BY <2>1 DEF Wants, LockPlaces
  <2>3. Wants(p) \in Slots
    BY <2>1, <2>2, AtIp
  <2>4. PICK q \in S : itable[Wants(p)].lock = q
    OBVIOUS
  <2>5. q \in Procs /\ Wants(q) # 0
    OBVIOUS
  <2> QED BY <2>3, <2>4, <2>5, HeldAndWanted
<1>2. D \in SUBSET Inums
  <2>1. ASSUME NEW q \in S, th[q].pc \in {"init", "child"} PROVE Inum(th[q].dp) \in Inums
    <3>1. th[q].dp # 0 /\ q \in Procs
      BY <2>1 DEF IInv1, PlaceOK, ThreadOK
    <3> QED BY <3>1, AtDp DEF Inum
  <2> QED BY <2>1
<1>3. D # {}
  <2>4. S # {}
    OBVIOUS
  <2>1. PICK p \in S : TRUE
    BY <2>4, Zenon
  <2>2. PICK q \in S : th[q].pc \in {"init", "child"}
    BY <1>1, <2>1
  <2>3. Inum(th[q].dp) \in D
    BY <2>2
  <2> QED BY <2>3
<1>4. PICK d \in D : \A i \in D : ~Edge(d, i)
  BY <1>2, <1>3 DEF IInv2, TreeOK
<1>5. PICK q \in S : th[q].pc \in {"init", "child"} /\ d = Inum(th[q].dp)
  OBVIOUS
<1>6. PICK r \in S : th[r].pc \in {"init", "child"} /\ th[r].dp = Wants(q)
  BY <1>1
<1>7. Wants(q) = th[q].ip
  BY DEF Wants
<1>10. q \in Procs /\ Wants(q) # 0
  OBVIOUS
<1>8. Edge(Inum(th[q].dp), Inum(th[q].ip))
  <2>1. th[q].dp # 0 /\ q \in Procs /\ Holds(th[q], "dp") /\ "dp" \in Pointers /\ Pointer(q, "dp") = th[q].dp
    BY <1>5, HoldsView, Views DEF IInv1, PlaceOK, ThreadOK, Pointers
  <2>2. itable[th[q].dp].lock = q /\ th[q].dp \in Slots
    BY <2>1, AtDp DEF IInv1, LockOK
  <2> QED BY <1>10, <2>2, HeldAndWanted
<1>9. Inum(th[q].ip) \in D
  BY <1>6, <1>7
<1> QED BY <1>4, <1>5, <1>8, <1>9

\* ilock() never closes a circle of processes that each wait for an inode that
\* the next has locked: link(), unlink() and create() lock a directory first and
\* then an inode below it.
THEOREM NoWaitingCircle == Spec => []NoLockCycle
BY Inv2, NoCircle, PTL
=============================================================================
