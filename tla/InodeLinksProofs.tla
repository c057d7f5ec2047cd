------------------------- MODULE InodeLinksProofs --------------------------
(***************************************************************************)
(* More proofs about Inodes, on top of the first two layers: the links on  *)
(* the disk.  The third layer says that the link count of an inode covers  *)
(* all that may lead to it: its entries, the .. of its subdirectories, and *)
(* the system calls that have counted a link without entering it, or taken *)
(* an entry away without discounting it.  An inode that somebody can reach *)
(* is then never free, and ilock() and unlink() never panic.               *)
(*                                                                         *)
(* It holds until a walk leaves a removed directory by its .. entry, which *)
(* no link of the parent answers for: then the inode reached may be free,  *)
(* or have become anything else.  The variable astray records that.        *)
(***************************************************************************)
EXTENDS InodesProofs

-----------------------------------------------------------------------------
(* What keeps an inode from being freed while it can be reached.           *)

\* The slot whose link count a thread has raised, or not yet lowered; whether
\* p has the one of inode i.
Pending(t) ==
  IF t.pc \in {"link2", "bad", "unlinked"} THEN t.ip
  ELSE IF t.pc \in {"namex", "parent"} /\ t.op = "link2" THEN t.dp ELSE 0
\* The system call of p has raised, or has yet to lower, the link count of
\* inode i.
Owes(p, i) == Pending(th[p]) # 0 /\ Inum(Pending(th[p])) = i

\* The names of directory i that are directories, which count as links by
\* their .. entry; and everything that the link count of i has to cover.
Subs(i) == {n \in Names : ents[i][n] # 0 /\ dinode[ents[i][n]].type = "dir"}
\* What the link count of i has to cover: entries, subdirectories, system
\* calls under way, and the root.
Claims(i) ==
  ({"link"} \X Links(i)) \cup ({"sub"} \X Subs(i))
  \cup ({"owed"} \X {p \in Procs : Owes(p, i)}) \cup {c \in {<<"root", 0>>} : i = ROOTINO}

\* The link count covers the claims, and a free inode has none.
LinkOK ==
  \A i \in Inums : /\ Cardinality(Claims(i)) <= dinode[i].nlink
                   /\ dinode[i].type = "free" => dinode[i].nlink = 0

\* The . and .. of a directory, but for one that create() has just allocated;
\* the entry of a directory is in the one above it.
Fresh(p, i) == th[p].pc = "init" /\ Inum(th[p].ip) = i

\* . and .. of every directory that is not being made: .. is the directory
\* whose entry it is.
DotsOK ==
  /\ \A d \in Inums : dinode[d].type = "dir" /\ (\A p \in Procs : ~Fresh(p, d)) =>
       ents[d]["."] = d /\ ents[d][".."] \in Inums
  /\ \A d \in Inums, i \in Inums, n \in Names :
       ents[d][n] = i /\ dinode[i].type = "dir" => ents[i][".."] = d

\* The root directory has no entry, and is its own parent.
RootOK ==
  dinode[ROOTINO].type = "dir" /\ ents[ROOTINO][".."] = ROOTINO /\ Links(ROOTINO) = {}

\* A pointer that is only there to be dropped: the inode has been freed.
Gone(t, v) == v = "put1" /\ Len(t.put) >= 1 /\ t.put[1].at \in {"release", "last"}

\* Nobody else has an inode that has just been allocated ...
FreshOK(p) ==
  th[p].pc = "init" =>
    /\ th[p].name \in Names /\ dinode[Inum(th[p].ip)].nlink = 0
    /\ \A q \in Procs, v \in Pointers : Pointer(q, v) = th[p].ip =>
         (q = p /\ v = "ip") \/ Gone(th[q], v)

\* ... or that is being freed, and what is reached is not free.
LastOK(p) ==
  \A s \in Slots : Erasing(p, s) =>
    \A q \in Procs, v \in Pointers : Pointer(q, v) = s => q = p /\ v = "put1"

\* An inode that a process has is not free, and one that is being made or
\* freed is nobody else's.
AliveOK ==
  /\ \A p \in Procs : FreshOK(p) /\ LastOK(p)
  /\ \A p \in Procs, v \in Pointers :
       Pointer(p, v) # 0 /\ ~Gone(th[p], v) => dinode[Inum(Pointer(p, v))].type # "free"

\* The third layer: what the disk says of an inode that can be reached ...
Layer3 == LinkOK /\ DotsOK /\ RootOK /\ AliveOK /\ panic = "none"
\* ... as long as no walk has left a removed directory by its .. entry.
IInv3 == ~astray => Layer3

\* What a step of p may do: a pointer it has gained is to an inode that p had
\* already, or that some entry keeps, or that p has just allocated ...
Reaches(p) ==
  \A s \in Slots, v \in Pointers : Pointer(p, v)' = s =>
    \/ \E w \in Pointers : Pointer(p, w) = s /\ (Gone(th[p], w) => Gone(th'[p], v))
    \/ dinode[itable'[s].inum].nlink > 0
    \/ dinode[itable'[s].inum].type = "free" /\ dinode'[itable'[s].inum].type # "free"

\* ... an inode becomes free when p erases it ...
Frees(p) ==
  \A i \in Inums : dinode'[i].type = "free" =>
    \/ dinode[i].type = "free"
    \/ \E s \in Slots : /\ Erasing(p, s) /\ Inum(s) = i /\ Releasing(p, s)'
                        /\ \A v \in Pointers : Pointer(p, v)' = Pointer(p, v)

\* ... and the links it counts anew are those of an inode that it has.
Turns(p) ==
  \A i \in Inums : dinode'[i].nlink # dinode[i].nlink =>
    \E s \in Slots, v \in Pointers : Pointer(p, v) = s /\ Inum(s) = i /\ ~Gone(th[p], v)

\* The forms of a claim to inode i.
ClaimForm(c, i) ==
  \/ \E e \in Inums, n \in Names : c = <<"link", <<e, n>>>> /\ ents[e][n] = i
  \/ \E n \in Names : c = <<"sub", n>> /\ ents[i][n] # 0 /\ dinode[ents[i][n]].type = "dir"
  \/ \E q \in Procs : c = <<"owed", q>> /\ Owes(q, i)
  \/ c = <<"root", 0>> /\ i = ROOTINO

\* The claims to an inode are finitely many, of these forms.
ClaimsAre ==
  \A i \in Inums : /\ \A c : c \in Claims(i) <=> ClaimForm(c, i)
                   /\ IsFiniteSet(Claims(i)) /\ Cardinality(Claims(i)) \in Nat

\* That is so in every state ...
LEMMA ClaimsAlways == ClaimsAre
<1> SUFFICES ASSUME NEW i \in Inums
             PROVE  /\ \A c : c \in Claims(i) <=> ClaimForm(c, i)
                    /\ IsFiniteSet(Claims(i)) /\ Cardinality(Claims(i)) \in Nat
  BY DEF ClaimsAre
<1> DEFINE L == {"link"} \X Links(i)
           S == {"sub"} \X Subs(i)
           O == {"owed"} \X {p \in Procs : Owes(p, i)}
           R == {c \in {<<"root", 0>>} : i = ROOTINO}
<1>0. Claims(i) = L \cup S \cup O \cup R
  BY DEF Claims
<1>1. \A c : c \in L <=> \E e \in Inums, n \in Names : c = <<"link", <<e, n>>>> /\ ents[e][n] = i
  BY DEF Links
<1>2. \A c : c \in S <=> \E n \in Names :
        c = <<"sub", n>> /\ ents[i][n] # 0 /\ dinode[ents[i][n]].type = "dir"
  BY DEF Subs
<1>3. \A c : c \in O <=> \E q \in Procs : c = <<"owed", q>> /\ Owes(q, i)
  OBVIOUS
<1>4. \A c : c \in R <=> c = <<"root", 0>> /\ i = ROOTINO
  OBVIOUS
<1>5. IsFiniteSet(Inums) /\ IsFiniteSet(Names) /\ IsFiniteSet(Procs)
  BY Consts, FS_Interval DEF Inums
<1>6. IsFiniteSet(L)
  <2>1. IsFiniteSet(Inums \X Names)
    BY <1>5, FS_Product
  <2>2. IsFiniteSet(Links(i))
    BY <2>1, FS_Subset DEF Links
  <2> QED BY <2>2, FS_Singleton, FS_Product
<1>7. IsFiniteSet(S)
  <2>1. IsFiniteSet(Subs(i))
    BY <1>5, FS_Subset DEF Subs
  <2> QED BY <2>1, FS_Singleton, FS_Product
<1>8. IsFiniteSet(O)
  <2>1. IsFiniteSet({p \in Procs : Owes(p, i)})
    BY <1>5, FS_Subset
  <2> QED BY <2>1, FS_Singleton, FS_Product
<1>9. IsFiniteSet(R)
  <2>1. IsFiniteSet({<<"root", 0>>}) /\ R \subseteq {<<"root", 0>>}
    BY FS_Singleton
  <2> QED BY <2>1, FS_Subset
<1> HIDE DEF L, S, O, R
<1>10. IsFiniteSet(Claims(i))
  BY <1>0, <1>6, <1>7, <1>8, <1>9, FS_Union
<1>11. Cardinality(Claims(i)) \in Nat
  BY <1>10, FS_CardinalityType
<1>12. ASSUME NEW c PROVE c \in Claims(i) <=> ClaimForm(c, i)
  BY <1>0, <1>1, <1>2, <1>3, <1>4, Zenon DEF ClaimForm
<1> QED BY <1>10, <1>11, <1>12

\* ... and after a step.
LEMMA ClaimsNext == ClaimsAre'
BY ClaimsAlways, PTL

\* A subset has no more elements.
LEMMA CardLess ==
  ASSUME NEW S, IsFiniteSet(S), NEW T, T \subseteq S
  PROVE  Cardinality(T) <= Cardinality(S) /\ Cardinality(S) \in Nat /\ Cardinality(T) \in Nat
BY FS_Subset, FS_CardinalityType

\* One more element at most.
LEMMA CardMore ==
  ASSUME NEW S, IsFiniteSet(S), NEW a, NEW T, T \subseteq S \cup {a}
  PROVE  Cardinality(T) <= Cardinality(S) + 1 /\ Cardinality(T) \in Nat
<1>0. Cardinality(S) \in Nat
  BY FS_CardinalityType
<1>4. IsFiniteSet(S \cup {a}) /\ Cardinality(S \cup {a}) = IF a \in S THEN Cardinality(S) ELSE Cardinality(S) + 1
  BY FS_AddElement
<1>1. IsFiniteSet(S \cup {a}) /\ Cardinality(S \cup {a}) <= Cardinality(S) + 1
  BY <1>0, <1>4
<1>2. Cardinality(T) <= Cardinality(S \cup {a}) /\ Cardinality(T) \in Nat
      /\ Cardinality(S \cup {a}) \in Nat
  BY <1>1, CardLess
<1> QED BY <1>0, <1>1, <1>2

\* One element less at least.
LEMMA CardFewer ==
  ASSUME NEW S, IsFiniteSet(S), NEW b \in S, NEW T, T \subseteq S \ {b}
  PROVE  Cardinality(T) <= Cardinality(S) - 1
<1>1. IsFiniteSet(S \ {b}) /\ Cardinality(S \ {b}) = Cardinality(S) - 1
  BY FS_RemoveElement
<1> QED BY <1>1, CardLess

\* One element for another.
LEMMA CardSwap ==
  ASSUME NEW S, IsFiniteSet(S), NEW b \in S, NEW a, NEW T, T \subseteq (S \ {b}) \cup {a}
  PROVE  Cardinality(T) <= Cardinality(S)
<1>1. IsFiniteSet(S \ {b}) /\ Cardinality(S \ {b}) = Cardinality(S) - 1 /\ Cardinality(S) \in Nat
  BY FS_RemoveElement, FS_CardinalityType
<1>2. Cardinality(T) <= Cardinality(S \ {b}) + 1
  BY <1>1, CardMore
<1> QED BY <1>1, <1>2

\* The inode that a thread owes a link of is one that it points to.
LEMMA PendingIs ==
  ASSUME IInv1, NEW q \in Procs, Pending(th[q]) # 0
  PROVE  /\ Pending(th[q]) \in Slots
         /\ \E v \in {"ip", "dp"} : Pointer(q, v) = Pending(th[q]) /\ Firm(th[q], v)
<1> PICK s : s = Pending(th[q])
  OBVIOUS
<1>1. CASE th[q].pc \in {"link2", "bad", "unlinked"}
  <2>1. s = th[q].ip /\ th[q].pc # "idle"
    BY <1>1 DEF Pending
  <2>2. Pointer(q, "ip") = s /\ Firm(th[q], "ip")
    BY <1>1, <2>1, Views DEF Firm
  <2> QED BY <2>1, <2>2, AtIp
<1>2. CASE th[q].pc \notin {"link2", "bad", "unlinked"}
  <2>1. s = th[q].dp /\ s # 0
    BY <1>2 DEF Pending
  <2>2. Pointer(q, "dp") = s /\ Firm(th[q], "dp")
    BY <2>1, Views DEF Firm
  <2> QED BY <2>1, <2>2, AtDp
<1> QED BY <1>1, <1>2

\* A step of p leaves what the others owe, and what p owes if it is for the
\* same slot.
LEMMA OwesOthers ==
  ASSUME IInv1, NEW p \in Procs, Moves(p), NEW q \in Procs \ {p}, NEW i
  PROVE  Owes(q, i)' <=> Owes(q, i)
<1>1. th'[q] = th[q]
  BY OthersKeep
<1>2. CASE Pending(th[q]) = 0
  BY <1>1, <1>2 DEF Owes
<1>3. CASE Pending(th[q]) # 0
  <2>1. PICK s \in Slots, v \in Pointers : s = Pending(th[q]) /\ Pointer(q, v) = s
    BY <1>3, PendingIs DEF Pointers
  <2>2. Inum(s)' = Inum(s)
    BY <2>1, OthersKeep
  <2> QED BY <1>1, <2>1, <2>2 DEF Owes, Inum
<1> QED BY <1>2, <1>3

\* A step that neither raises nor lowers a link count owes what it did before.
LEMMA OwesSame ==
  ASSUME IInv1, NEW p \in Procs, Moves(p), Pending(th'[p]) = Pending(th[p]), NEW i
  PROVE  Owes(p, i)' <=> Owes(p, i)
<1>1. CASE Pending(th[p]) = 0
  BY <1>1 DEF Owes
<1>2. CASE Pending(th[p]) # 0
  <2>1. PICK s \in Slots, v \in Pointers : s = Pending(th[p]) /\ Pointer(p, v) = s
    BY <1>2, PendingIs DEF Pointers
  <2>2. itable'[s].inum = itable[s].inum
    BY <2>1, PointedTo DEF Moves, Counts
  <2> QED BY <2>1, <2>2 DEF Owes, Inum
<1> QED BY <1>1, <1>2

\* Two slots in use are not of the same inode.
LEMMA SameSlot ==
  ASSUME IInv1, NEW s \in Slots, NEW u \in Slots, itable[s].ref > 0, itable[u].ref > 0, Inum(s) = Inum(u)
  PROVE  s = u
BY DEF IInv1, RefOK, Inum

\* An inode that is being erased has no links left, and is not yet free.
LEMMA ErasedIs ==
  ASSUME IInv1, IInv2, NEW q \in Procs, NEW s, Erasing(q, s)
  PROVE  /\ s \in Slots /\ itable[s].ref > 0 /\ Inum(s) \in Inums
         /\ dinode[Inum(s)].nlink = 0 /\ dinode[Inum(s)].type # "free"
<1>1. s \in Slots /\ itable[s].lock = q /\ itable[s].ref > 0 /\ Inum(s) \in Inums
  BY ErasingHolds DEF Inum
<1>2. itable[s].valid /\ itable[s].nlink = 0
  BY <1>1 DEF IInv2, CacheOK
<1>3. ASSUME NEW p \in Procs PROVE ~Releasing(p, s)
  <2>1. CASE p = q
    BY <2>1 DEF Releasing, Erasing
  <2>2. CASE p # q
    BY <1>1, <2>2, ErasingHolds
  <2> QED BY <2>1, <2>2
<1>4. Coherent(s)
  BY <1>1, <1>2, <1>3 DEF IInv2, CacheOK, InUse
<1> QED BY <1>1, <1>2, <1>4 DEF Coherent

\* Nothing counts on a directory that has no links.
LEMMA NoClaims ==
  ASSUME LinkOK, NEW i \in Inums, dinode[i].nlink = 0
  PROVE  /\ \A c : ~ClaimForm(c, i)
         /\ \A d \in Inums, n \in Names : ents[d][n] # i
         /\ \A n \in Names : ents[i][n] # 0 => dinode[ents[i][n]].type # "dir"
         /\ i # ROOTINO
<1>1. IsFiniteSet(Claims(i)) /\ Cardinality(Claims(i)) \in Nat /\ Cardinality(Claims(i)) <= 0
  BY ClaimsAlways DEF ClaimsAre, LinkOK
<1>2. Claims(i) = {}
  BY <1>1, FS_EmptySet
<1>3. \A c : ~ClaimForm(c, i)
  BY <1>2, ClaimsAlways DEF ClaimsAre
<1>4. ~ClaimForm(<<"root", 0>>, i)
  BY <1>3
<1>5. ASSUME NEW d \in Inums, NEW n \in Names PROVE ents[d][n] # i
  <2>1. ~ClaimForm(<<"link", <<d, n>>>>, i)
    BY <1>3
  <2> QED BY <2>1 DEF ClaimForm
<1>6. ASSUME NEW n \in Names PROVE ents[i][n] # 0 => dinode[ents[i][n]].type # "dir"
  <2>1. ~ClaimForm(<<"sub", n>>, i)
    BY <1>3
  <2> QED BY <2>1 DEF ClaimForm
<1> QED BY <1>3, <1>4, <1>5, <1>6 DEF ClaimForm

\* What some entry names, or has a directory in it, has a link.
LEMMA Claimed ==
  ASSUME TypeOK, LinkOK, NEW i \in Inums, NEW c, ClaimForm(c, i)
  PROVE  dinode[i].nlink > 0 /\ dinode[i].type # "free"
<1>1. dinode[i].nlink \in Int
  BY DEF TypeOK, DiskRec
<1>2. Cardinality(Claims(i)) \in Nat /\ c \in Claims(i) /\ IsFiniteSet(Claims(i))
  BY ClaimsAlways DEF ClaimsAre
<1>3. Cardinality(Claims(i)) # 0
  BY <1>2, FS_EmptySet
<1>4. Cardinality(Claims(i)) <= dinode[i].nlink /\ (dinode[i].type = "free" => dinode[i].nlink = 0)
  BY DEF LinkOK
<1> QED BY <1>1, <1>2, <1>3, <1>4

\* PointedTo as a state formula, so that it holds of the next state too.
PointedOK ==
  IInv1 => \A p \in Procs, v \in Pointers, s \in Slots :
             Pointer(p, v) = s => itable[s].ref > 0 /\ itable[s].inum \in Inums

\* A slot to which somebody points is in use ...
LEMMA PointedAlways == PointedOK
BY PointedTo DEF PointedOK

\* ... after a step too.
LEMMA PointedNext == PointedOK'
BY PointedAlways, PTL

\* Such a step leaves what is reached alive.
LEMMA AliveKeeps ==
  ASSUME IInv1, IInv1', IInv2, Layer3, NEW p \in Procs, Moves(p),
         Reaches(p), Frees(p), Turns(p), FreshOK(p)', LastOK(p)'
  PROVE  AliveOK'
<1>1. /\ \A q \in Procs : FreshOK(q) /\ LastOK(q)
      /\ \A q \in Procs, v \in Pointers :
           Pointer(q, v) # 0 /\ ~Gone(th[q], v) => dinode[Inum(Pointer(q, v))].type # "free"
      /\ LinkOK
  BY DEF Layer3, AliveOK
<1>2. \A s \in Slots : itable[s].ref > 0 => Inum(s)' = Inum(s) /\ Inum(s) \in Inums
  BY DEF Moves, Counts, Inum, IInv1, RefOK
<1>3. ASSUME NEW q \in Procs, NEW v \in Pointers, NEW s \in Slots, Pointer(q, v) = s
      PROVE  itable[s].ref > 0 /\ Inum(s)' = Inum(s) /\ Inum(s) \in Inums
  BY <1>2, <1>3, PointedTo
<1>4. 0 \notin Slots
  BY Consts
<1>5. ASSUME NEW q \in Procs, q # p PROVE FreshOK(q)'
  <2> SUFFICES ASSUME th'[q].pc = "init"
               PROVE  /\ th'[q].name \in Names /\ dinode'[Inum(th[q].ip)'].nlink = 0
                      /\ \A r \in Procs, v \in Pointers : Pointer(r, v)' = th'[q].ip =>
                           (r = q /\ v = "ip") \/ Gone(th'[r], v)
    BY DEF FreshOK
  <2>1. th'[q] = th[q]
    BY <1>5, OthersKeep
  <2> PICK s : s = th[q].ip
    OBVIOUS
  <2>2. /\ th[q].name \in Names /\ dinode[Inum(s)].nlink = 0
        /\ \A r \in Procs, v \in Pointers : Pointer(r, v) = s => (r = q /\ v = "ip") \/ Gone(th[r], v)
    BY <1>1, <2>1 DEF FreshOK
  <2>3. s \in Slots /\ Pointer(q, "ip") = s /\ "ip" \in Pointers
    BY <2>1, AtIp, Views DEF Pointers
  <2>4. itable[s].ref > 0 /\ Inum(s)' = Inum(s) /\ Inum(s) \in Inums
    BY <1>3, <2>3
  <2>5. dinode'[Inum(s)].nlink = 0
    <3>1. ASSUME NEW u \in Slots, NEW v \in Pointers, Pointer(p, v) = u, Inum(u) = Inum(s), ~Gone(th[p], v)
          PROVE  FALSE
      <4>1. u = s
        BY <1>3, <2>3, <2>4, <3>1, SameSlot
      <4> QED BY <1>5, <2>2, <3>1, <4>1
    <3> QED BY <2>2, <2>4, <3>1 DEF Turns
  <2>6. dinode[Inum(s)].type # "free"
    <3>1. ~Gone(th[q], "ip")
      BY DEF Gone
    <3> QED BY <1>1, <1>4, <2>3, <3>1
  <2>7. ASSUME NEW r \in Procs, NEW v \in Pointers, Pointer(r, v)' = s
        PROVE  (r = q /\ v = "ip") \/ Gone(th'[r], v)
    <3>1. CASE r # p
      <4>1. Pointer(r, v) = s /\ th'[r] = th[r]
        BY <2>7, <3>1, OthersKeep
      <4> QED BY <2>2, <4>1
    <3>2. CASE r = p
      <4>1. \E w \in Pointers : Pointer(p, w) = s /\ (Gone(th[p], w) => Gone(th'[p], v))
        <5>1. itable'[s].inum = Inum(s)
          BY <2>4 DEF Inum
        <5>2. ~(dinode[itable'[s].inum].nlink > 0) /\ dinode[itable'[s].inum].type # "free"
          BY <2>2, <2>6, <5>1
        <5> QED BY <2>3, <2>7, <3>2, <5>2, Zenon DEF Reaches
      <4> QED BY <1>5, <2>2, <3>2, <4>1
    <3> QED BY <3>1, <3>2
  <2>8. th'[q].name \in Names /\ th'[q].ip = s
    BY <2>1, <2>2
  <2>9. dinode'[Inum(th[q].ip)'].nlink = 0
    BY <2>1, <2>4, <2>5 DEF Inum
  <2> QED BY <2>7, <2>8, <2>9
<1>6. ASSUME NEW q \in Procs, q # p PROVE LastOK(q)'
  <2> SUFFICES ASSUME NEW s \in Slots, Erasing(q, s)', NEW r \in Procs, NEW v \in Pointers, Pointer(r, v)' = s
               PROVE  r = q /\ v = "put1"
    BY DEF LastOK
  <2>1. Erasing(q, s)
    BY <1>6, OthersKeep
  <2>2. itable[s].ref > 0 /\ dinode[Inum(s)].nlink = 0 /\ dinode[Inum(s)].type # "free"
    BY <2>1, ErasedIs
  <2>3. Inum(s)' = Inum(s)
    BY <1>2, <2>2
  <2>4. CASE r # p
    <3>1. Pointer(r, v) = s
      BY <2>4, OthersKeep
    <3> QED BY <1>1, <2>1, <3>1 DEF LastOK
  <2>5. CASE r = p
    <3>1. PICK w \in Pointers : Pointer(p, w) = s
      <4>1. itable'[s].inum = Inum(s)
        BY <2>3 DEF Inum
      <4>2. ~(dinode[itable'[s].inum].nlink > 0) /\ dinode[itable'[s].inum].type # "free"
        BY <2>2, <4>1
      <4>3. Pointer(p, v)' = s
        BY <2>5
      <4> QED BY <4>2, <4>3, Zenon DEF Reaches
    <3> QED BY <1>1, <1>6, <2>1, <3>1 DEF LastOK
  <2> QED BY <2>4, <2>5
<1>7. ASSUME NEW r \in Procs, NEW v \in Pointers, Pointer(r, v)' # 0, ~Gone(th'[r], v)
      PROVE  dinode'[Inum(Pointer(r, v))'].type # "free"
  <2> PICK s : s = Pointer(r, v)'
    OBVIOUS
  <2>1. s \in Slots
    BY <1>7, PointersNext DEF PointersOK, IInv1
  <2> PICK i : i = itable'[s].inum
    OBVIOUS
  <2>2. i \in Inums /\ Inum(Pointer(r, v))' = i
    <3>1. itable'[s].ref > 0 /\ itable'[s].inum \in Inums
      BY <2>1, PointedNext DEF PointedOK
    <3> QED BY <3>1 DEF Inum
  <2>3. ASSUME dinode'[i].type = "free" PROVE FALSE
    <3>1. CASE \E w \in Pointers : Pointer(r, w) = s /\ ~Gone(th[r], w)
      <4>1. PICK w \in Pointers : Pointer(r, w) = s /\ ~Gone(th[r], w)
        BY <3>1
      <4>2. itable[s].ref > 0 /\ Inum(s) = i
        BY <1>3, <2>1, <4>1 DEF Inum
      <4>3. dinode[i].type # "free"
        BY <1>1, <1>4, <2>1, <4>1, <4>2
      <4>4. PICK u \in Slots : /\ Erasing(p, u) /\ Inum(u) = i /\ Releasing(p, u)'
                               /\ \A x \in Pointers : Pointer(p, x)' = Pointer(p, x)
        BY <2>2, <2>3, <4>3 DEF Frees
      <4>5. u = s
        BY <2>1, <4>2, <4>4, ErasedIs, SameSlot
      <4>6. r = p /\ w = "put1"
        BY <1>1, <4>1, <4>4, <4>5 DEF LastOK
      <4>7. Pointer(p, v) = s
        BY <4>4, <4>6
      <4>8. v = "put1"
        BY <1>1, <4>4, <4>5, <4>7 DEF LastOK
      <4> QED BY <1>7, <4>4, <4>6, <4>8 DEF Releasing, Gone
    <3>2. CASE r # p
      <4>1. Pointer(r, v) = s /\ th'[r] = th[r]
        BY <3>2, OthersKeep
      <4> QED BY <1>7, <3>1, <4>1
    <3>3. CASE r = p /\ ~(\E w \in Pointers : Pointer(r, w) = s /\ ~Gone(th[r], w))
      <4>1. dinode[i].nlink > 0
        BY <1>7, <2>1, <2>3, <3>3 DEF Reaches
      <4>2. dinode[i].type # "free"
        BY <1>1, <2>2, <4>1 DEF LinkOK
      <4>3. PICK u \in Slots : Erasing(p, u) /\ Inum(u) = i
        BY <2>2, <2>3, <4>2 DEF Frees
      <4> QED BY <4>1, <4>3, ErasedIs
    <3> QED BY <3>1, <3>2, <3>3
  <2> QED BY <2>2, <2>3
<1> QED BY <1>5, <1>6, <1>7 DEF AliveOK

\* Own as a state formula, so that it holds of the next state too.
OwnOK ==
  \A p \in Procs, s \in Slots :
    /\ Own(p, s) \in Nat
    /\ \A v \in Pointers : Pointer(p, v) = s => Own(p, s) >= 1
    /\ (\A v \in Pointers : Pointer(p, v) # s) => Own(p, s) = 0

\* The pointers of one process to a slot are counted in ref ...
LEMMA OwnAlways == OwnOK
<1>1. ASSUME NEW p \in Procs, NEW s \in Slots, \A v \in Pointers : Pointer(p, v) # s
      PROVE  Own(p, s) = 0
  BY <1>1 DEF Own, One, Pointers
<1> QED BY <1>1, OwnBounds DEF OwnOK

\* ... after a step too.
LEMMA OwnNext == OwnOK'
BY OwnAlways, PTL

\* A step of a call gains a pointer to one slot only, whose count it raises.
LEMMA CallReaches ==
  ASSUME IInv1, NEW p \in Procs, Moves(p), Len(th[p].put) = 0, NEW k,
         \A s \in Slots : s # k => itable'[s].ref <= itable[s].ref,
         k # 0 => \/ \E w \in Pointers : Pointer(p, w) = k
                  \/ dinode[itable'[k].inum].nlink > 0
                  \/ dinode[itable'[k].inum].type = "free" /\ dinode'[itable'[k].inum].type # "free"
  PROVE  Reaches(p)
<1>1. \A w \in Pointers : ~Gone(th[p], w)
  BY DEF Gone
<1>2. ASSUME NEW s \in Slots, NEW v \in Pointers, Pointer(p, v)' = s, s # k
      PROVE  \E w \in Pointers : Pointer(p, w) = s
  <2>1. Own(p, s)' >= 1 /\ Own(p, s)' \in Nat
    BY <1>2, OwnNext DEF OwnOK
  <2>2. Own(p, s) \in Nat /\ ((\A w \in Pointers : Pointer(p, w) # s) => Own(p, s) = 0)
    BY OwnAlways DEF OwnOK
  <2>3. itable'[s].ref = itable[s].ref + Own(p, s)' - Own(p, s) /\ itable'[s].ref <= itable[s].ref
    BY <1>2 DEF Moves, Counts
  <2>4. itable[s].ref \in Nat
    BY TableIs DEF TableOK
  <2> QED BY <2>1, <2>2, <2>3, <2>4
<1>3. k \in Slots => k # 0
  BY Consts
<1> QED BY <1>1, <1>2, <1>3 DEF Reaches

\* An inode that create() has just allocated stays so until its own next step.
LEMMA FreshStays ==
  ASSUME IInv1, NEW p \in Procs, Moves(p), th[p].pc # "init", NEW q \in Procs, NEW d, Fresh(q, d)
  PROVE  Fresh(q, d)'
<1>1. q # p /\ th'[q] = th[q]
  BY OthersKeep DEF Fresh
<1>2. PICK s : s = th[q].ip
  OBVIOUS
<1>3. Pointer(q, "ip") = s /\ "ip" \in Pointers /\ s \in Slots
  BY <1>2, AtIp, Views DEF Fresh, Pointers
<1>4. Inum(s)' = Inum(s)
  BY <1>1, <1>3, OthersKeep
<1> QED BY <1>1, <1>2, <1>4 DEF Fresh, Inum

\* A step that neither writes the disk nor changes what is owed.
LEMMA QuietLinks ==
  ASSUME IInv1, LinkOK, DotsOK, RootOK, NEW p \in Procs, Moves(p), UNCHANGED <<dinode, ents>>,
         th[p].pc # "init", th'[p].pc # "init", Pending(th'[p]) = Pending(th[p])
  PROVE  LinkOK' /\ DotsOK' /\ RootOK'
<1>1. ASSUME NEW i PROVE Claims(i)' = Claims(i)
  <2>1. \A q \in Procs : Owes(q, i)' <=> Owes(q, i)
    BY OwesOthers, OwesSame
  <2>2. Links(i)' = Links(i) /\ Subs(i)' = Subs(i)
    BY DEF Links, Subs
  <2>3. {q \in Procs : Owes(q, i)'} = {q \in Procs : Owes(q, i)}
    BY <2>1
  <2> QED BY <2>2, <2>3 DEF Claims
<1>2. LinkOK'
  BY <1>1 DEF LinkOK
<1>3. \A q \in Procs : \A d : Fresh(q, d) => Fresh(q, d)'
  BY FreshStays
<1>4. DotsOK'
  BY <1>3 DEF DotsOK
<1>5. RootOK'
  BY DEF RootOK, Links
<1> QED BY <1>2, <1>4, <1>5

\* A step that leaves the disk alone keeps the third layer: the reference it
\* takes is to an inode it had or that has a link.
LEMMA Quiet3 ==
  ASSUME IInv1, IInv2, Layer3, NEW p \in Procs, Moves(p), UNCHANGED <<dinode, ents, panic>>,
         Len(th[p].put) = 0, th[p].pc # "init", th'[p].pc # "init",
         Len(th'[p].put) = 0 \/ th'[p].put[1].at # "erase",
         Pending(th'[p]) = Pending(th[p]), NEW k,
         \A s \in Slots : s # k => itable'[s].ref <= itable[s].ref,
         k # 0 => (\E w \in Pointers : Pointer(p, w) = k) \/ dinode[itable'[k].inum].nlink > 0
  PROVE  Layer3'
<1>1. IInv1'
  BY MovesKeeps
<1>2. \A s : ~Erasing(p, s)'
  BY DEF Erasing
<1>3. LinkOK' /\ DotsOK' /\ RootOK'
  BY QuietLinks DEF Layer3
<1>4. Reaches(p)
  BY CallReaches
<1>5. Frees(p) /\ Turns(p)
  BY DEF Frees, Turns
<1>6. FreshOK(p)' /\ LastOK(p)'
  BY <1>2 DEF FreshOK, LastOK
<1>7. AliveOK'
  BY <1>1, <1>4, <1>5, <1>6, AliveKeeps
<1>8. panic' = "none"
  BY DEF Layer3
<1> QED BY <1>3, <1>7, <1>8 DEF Layer3

\* The places at which no link is owed.
LEMMA PendingNone ==
  ASSUME NEW t, t.pc \notin {"link2", "bad", "unlinked"},
         t.pc \in {"namex", "parent"} => t.op # "link2"
  PROVE  Pending(t) = 0
BY DEF Pending

\* Only the slot of which a reference is taken has more of them.
LEMMA GetsRefs ==
  ASSUME IInv1, NEW k, Gets(k)
  PROVE  \A s \in Slots : s # k => itable'[s].ref <= itable[s].ref
<1>1. \A s \in Slots : itable[s].ref \in Nat
  BY TableIs DEF TableOK
<1> QED BY <1>1 DEF Gets

\* A quiet step that takes no reference.
LEMMA QuietNear ==
  ASSUME IInv1, IInv2, Layer3, NEW p \in Procs, Moves(p), UNCHANGED <<dinode, ents, panic>>,
         Len(th[p].put) = 0, th[p].pc # "init", th'[p].pc # "init",
         Len(th'[p].put) = 0 \/ th'[p].put[1].at # "erase",
         Pending(th'[p]) = Pending(th[p]), Near(itable, itable')
  PROVE  Layer3'
<1>1. Gets(0)
  BY NearGets
<1>2. PICK k : k = 0
  OBVIOUS
<1>3. \A s \in Slots : s # k => itable'[s].ref <= itable[s].ref
  BY <1>1, <1>2, GetsRefs
<1> QED BY <1>2, <1>3, Quiet3

\* Nothing has changed.
LEMMA NearSame == ASSUME IInv1 PROVE Near(itable, itable)
BY DEF Near, IInv1, TypeOK

\* The call ends under a lock, or has its inode locked.
LEMMA EndLinks ==
  ASSUME IInv1, IInv2, Layer3, NEW p \in Procs, NEW where \in {"namex", "found", "parent", "exists"},
         AtLock(p, where), Moves(p), Pending(th[p]) = 0,
         itable' = Load(th[p].ip), UNCHANGED <<dinode, ents, panic>>,
         th' = [th EXCEPT ![p] = Done(<<Stage(th[p].ip, "drop")>>)]
  PROVE  Layer3'
<1>0. where \in LockPlaces
  BY DEF LockPlaces
<1>1. /\ th[p].ip \in Slots /\ Near(itable, itable') /\ Len(th[p].put) = 0
      /\ th[p].pc = where
  BY <1>0, LockReady, NoLen
<1>2. /\ th'[p].pc = "idle" /\ Len(th'[p].put) >= 1 /\ th'[p].put[1].at = "drop"
  BY <1>1, DoneAfter
<1>3. Pending(th'[p]) = 0
  BY <1>2, PendingNone
<1> QED BY <1>1, <1>2, <1>3, QuietNear

\* Locking the inode that open() or create() has found.
LEMMA OpenedLinks ==
  ASSUME IInv1, IInv2, Layer3, NEW p \in Procs, NEW where \in {"found", "exists"}, AtLock(p, where), Moves(p),
         itable' = Locked(Load(th[p].ip), th[p].ip, p), UNCHANGED <<dinode, ents, panic>>,
         th' = [th EXCEPT ![p].pc = "opened"]
  PROVE  Layer3'
<1>0. where \in LockPlaces
  BY DEF LockPlaces
<1>1. /\ th[p].ip \in Slots /\ Load(th[p].ip) \in [Slots -> SlotRec] /\ Len(th[p].put) = 0 /\ th[p].pc = where
      /\ Near(itable, Load(th[p].ip))
  BY <1>0, LockReady, NoLen
<1>2. th[p] \in ThRec /\ th \in [Procs -> ThRec]
  BY DEF IInv1, TypeOK
<1>3. th'[p].pc = "opened" /\ th'[p].put = th[p].put
  BY <1>1, <1>2 DEF ThRec
<1>4. Near(itable, itable')
  BY <1>1, LockedIs, NearTrans
<1>5. Pending(th[p]) = 0 /\ Pending(th'[p]) = 0
  BY <1>1, <1>3, PendingNone
<1> QED BY <1>1, <1>3, <1>4, <1>5, QuietNear

\* open() locks the inode it has found.
LEMMA OpenFoundLinks == ASSUME IInv1, IInv2, Layer3, NEW p \in Procs, OpenFound(p) PROVE Layer3'
<1>1. AtLock(p, "found") /\ UNCHANGED <<dinode, ents, panic>> /\ th[p].pc = "found"
  BY DEF OpenFound, AtLock
<1>2. Moves(p) /\ Pending(th[p]) = 0
  BY <1>1, OpenFoundMoves, PendingNone
<1>3. CASE itable' = Locked(Load(th[p].ip), th[p].ip, p) /\ th' = [th EXCEPT ![p].pc = "opened"]
  BY <1>1, <1>2, <1>3, OpenedLinks
<1>4. CASE itable' = Load(th[p].ip) /\ th' = [th EXCEPT ![p] = Done(<<Stage(th[p].ip, "drop")>>)]
  BY <1>1, <1>2, <1>4, EndLinks
<1> QED BY <1>3, <1>4 DEF OpenFound

\* create() locks the inode that has the name already.
LEMMA CreateExistsLinks == ASSUME IInv1, IInv2, Layer3, NEW p \in Procs, CreateExists(p) PROVE Layer3'
<1>1. AtLock(p, "exists") /\ UNCHANGED <<dinode, ents, panic>> /\ th[p].pc = "exists"
  BY DEF CreateExists, AtLock
<1>2. Moves(p) /\ Pending(th[p]) = 0
  BY <1>1, CreateExistsMoves, PendingNone
<1>3. CASE itable' = Locked(Load(th[p].ip), th[p].ip, p) /\ th' = [th EXCEPT ![p].pc = "opened"]
  BY <1>1, <1>2, <1>3, OpenedLinks
<1>4. CASE itable' = Load(th[p].ip) /\ th' = [th EXCEPT ![p] = Done(<<Stage(th[p].ip, "drop")>>)]
  BY <1>1, <1>2, <1>4, EndLinks
<1> QED BY <1>3, <1>4 DEF CreateExists

\* open() keeps its reference in the file.
LEMMA OpenFileLinks == ASSUME IInv1, IInv2, Layer3, NEW p \in Procs, OpenFile(p) PROVE Layer3'
<1>1. /\ th[p].pc = "opened" /\ th[p].put = <<>> /\ itable' = Locked(itable, th[p].ip, Nobody)
      /\ th' = [th EXCEPT ![p] = IdleThread] /\ UNCHANGED <<dinode, ents, panic>>
  BY DEF OpenFile
<1>2. th[p].ip \in Slots /\ itable \in [Slots -> SlotRec] /\ Nobody \in Procs \cup {Nobody}
  BY <1>1, AtIp DEF IInv1, TypeOK
<1>3. Near(itable, itable') /\ Moves(p)
  BY <1>1, <1>2, LockedIs, OpenFileMoves
<1>4. th'[p].pc = "idle" /\ Len(th'[p].put) = 0
  BY <1>1, IdleAfter
<1>5. Len(th[p].put) = 0 /\ Pending(th[p]) = 0 /\ Pending(th'[p]) = 0
  BY <1>1, <1>4, NoLen, PendingNone
<1> QED BY <1>1, <1>3, <1>4, <1>5, QuietNear

\* open() of a directory for writing lets the inode go.
LEMMA OpenFailLinks == ASSUME IInv1, IInv2, Layer3, NEW p \in Procs, OpenFail(p) PROVE Layer3'
<1>1. /\ th[p].pc = "opened" /\ th[p].put = <<>> /\ UNCHANGED <<itable, dinode, ents, panic>>
      /\ th' = [th EXCEPT ![p] = Done(<<Stage(th[p].ip, "unlock")>>)]
  BY DEF OpenFail
<1>2. th[p].ip \in Slots
  BY <1>1, AtIp
<1>3. th'[p].pc = "idle" /\ th'[p].put[1].at = "unlock"
  BY <1>1, <1>2, DoneAfter
<1>4. Near(itable, itable') /\ Moves(p)
  BY <1>1, NearSame, OpenFailMoves
<1>5. Len(th[p].put) = 0 /\ Pending(th[p]) = 0 /\ Pending(th'[p]) = 0
  BY <1>1, <1>3, NoLen, PendingNone
<1> QED BY <1>1, <1>3, <1>4, <1>5, QuietNear

\* close() lets the inode of the file go.
LEMMA CloseLinks == ASSUME IInv1, IInv2, Layer3, NEW p \in Procs, Close(p) PROVE Layer3'
<1>1. /\ th[p] = IdleThread /\ ofile[p] # 0 /\ UNCHANGED <<itable, dinode, ents, panic>>
      /\ th' = [th EXCEPT ![p] = Done(<<Stage(ofile[p], "drop")>>)]
  BY DEF Close
<1>2. ofile[p] \in Slots
  BY <1>1, Consts DEF IInv1, TypeOK, Slots, Inums
<1>3. th'[p].pc = "idle" /\ th'[p].put[1].at = "drop"
  BY <1>1, <1>2, DoneAfter
<1>4. Near(itable, itable') /\ Moves(p)
  BY <1>1, NearSame, CloseMoves
<1>5. Len(th[p].put) = 0 /\ th[p].pc = "idle"
  BY <1>1, IdleIs, NoLen
<1>6. Pending(th[p]) = 0 /\ Pending(th'[p]) = 0
  BY <1>3, <1>5, PendingNone
<1> QED BY <1>1, <1>3, <1>4, <1>5, <1>6, QuietNear

\* chdir() exchanges the current directory.
LEMMA ChdirSetLinks == ASSUME IInv1, IInv2, Layer3, NEW p \in Procs, ChdirSet(p) PROVE Layer3'
<1>1. /\ th[p].pc = "cd" /\ th[p].put = <<>> /\ UNCHANGED <<itable, dinode, ents, panic>>
      /\ th' = [th EXCEPT ![p] = IdleThread]
  BY DEF ChdirSet
<1>2. th'[p].pc = "idle" /\ Len(th'[p].put) = 0
  BY <1>1, IdleAfter
<1>3. Near(itable, itable') /\ Moves(p)
  BY <1>1, NearSame, ChdirSetMoves
<1>4. Len(th[p].put) = 0 /\ Pending(th[p]) = 0 /\ Pending(th'[p]) = 0
  BY <1>1, <1>2, NoLen, PendingNone
<1> QED BY <1>1, <1>2, <1>3, <1>4, QuietNear

\* chdir() keeps the directory, or lets the file go.
LEMMA ChdirFoundLinks == ASSUME IInv1, IInv2, Layer3, NEW p \in Procs, ChdirFound(p) PROVE Layer3'
<1> DEFINE puts == <<Stage(cwd[p], "drop")>>
           n == [th[p] EXCEPT !.pc = "cd", !.put = puts]
<1>1. /\ AtLock(p, "found") /\ "found" \in LockPlaces /\ itable' = Load(th[p].ip)
      /\ UNCHANGED <<dinode, ents, panic>> /\ th[p].pc = "found"
  BY DEF ChdirFound, LockPlaces, AtLock
<1>2. Moves(p) /\ Near(itable, itable') /\ Len(th[p].put) = 0 /\ Pending(th[p]) = 0
  BY <1>1, ChdirFoundMoves, LockReady, NoLen, PendingNone
<1>3. CASE th' = [th EXCEPT ![p] = Done(<<Stage(th[p].ip, "drop")>>)]
  BY <1>1, <1>2, <1>3, EndLinks
<1>4. CASE th' = [th EXCEPT ![p] = n]
  <2>1. th[p] \in ThRec /\ cwd[p] \in Slots
    BY DEF IInv1, TypeOK
  <2>2. Stage(cwd[p], "drop") \in StageRec
    BY <2>1 DEF Stage, StageRec, Stages
  <2>3. puts \in Seq(StageRec) /\ puts[1] = Stage(cwd[p], "drop")
    BY <2>2, PutOne
  <2> HIDE DEF puts
  <2>4. n \in ThRec /\ n.pc = "cd" /\ n.put = puts
    BY <2>1, <2>3 DEF ThRec, Places
  <2> HIDE DEF n
  <2>5. th'[p] = n
    BY <1>4, <2>4, ThSet DEF IInv1
  <2>6. th'[p].pc = "cd" /\ th'[p].put[1].at = "drop"
    BY <2>3, <2>4, <2>5, StageIs
  <2>7. Pending(th'[p]) = 0
    BY <2>6, PendingNone
  <2> QED BY <1>1, <1>2, <2>6, <2>7, QuietNear
<1> QED BY <1>3, <1>4 DEF ChdirFound

\* The link that link() has counted is still owed when the second walk begins.
LEMMA WalkPending ==
  ASSUME NEW t \in ThRec, NEW k \in Slots, NEW names \in Seq(EntryNames), NEW n, n = Walk(t, k, names),
         t.op # "link2" => t.dp = 0
  PROVE  Pending(n) = t.dp
<1> DEFINE u == [t EXCEPT !.ip = k, !.rest = names, !.pc = "namex"]
<1>1. k \in 0 .. NInodes
  BY Consts
<1>2. u \in ThRec /\ u.op = t.op /\ u.dp = t.dp /\ u.pc = "namex"
  BY <1>1 DEF ThRec, Places
<1>3. \/ n = u
      \/ n = Failed(u, <<Stage(k, "drop")>>)
      \/ n = [u EXCEPT !.pc = "found"] /\ t.op # "link2"
  BY DEF Walk, WantsParent
<1> HIDE DEF u
<1>4. CASE n = u
  BY <1>2, <1>4 DEF Pending
<1>5. CASE n = Failed(u, <<Stage(k, "drop")>>)
  <2>1. /\ u.op = "link2" => n.pc = "bad" /\ n.ip = u.dp
        /\ u.op # "link2" => n.pc = "idle"
    BY <1>2, <1>5, FailedAre
  <2> QED BY <1>2, <2>1 DEF Pending
<1>6. CASE n = [u EXCEPT !.pc = "found"] /\ t.op # "link2"
  <2>1. n.pc = "found"
    BY <1>2, <1>6 DEF ThRec
  <2> QED BY <1>6, <2>1 DEF Pending
<1> QED BY <1>3, <1>4, <1>5, <1>6

\* The root has a link of its own.
LEMMA RootClaimed == ASSUME TypeOK, LinkOK PROVE dinode[ROOTINO].nlink > 0
<1>1. ROOTINO \in Inums
  BY Consts
<1>2. ClaimForm(<<"root", 0>>, ROOTINO)
  BY DEF ClaimForm
<1> QED BY <1>1, <1>2, Claimed

\* The start of a walk: the root has a link, and the current directory a
\* reference.
LEMMA WalkLinks ==
  ASSUME IInv1, IInv2, Layer3, NEW p \in Procs, Moves(p), Len(th[p].put) = 0, th[p].pc \in {"idle", "link2"},
         NEW t \in ThRec, t.dp = th[p].ip, t.put = <<>>, t.op # "link2" => t.dp = 0,
         NEW path, path.names \in Seq(EntryNames), StartWalk(p, t, path),
         UNCHANGED <<dinode, ents, panic>>
  PROVE  Layer3'
<1>1. PICK k \in Slots : /\ Takes(itable, itable', k) /\ th' = [th EXCEPT ![p] = Walk(t, k, path.names)]
                         /\ path.abs => itable'[k].inum = ROOTINO
                         /\ ~path.abs => k = cwd[p]
  BY StartTakes
<1>2. PICK n : n = Walk(t, k, path.names)
  OBVIOUS
<1>3. /\ n.pc \in {"namex", "found", "bad", "idle"}
      /\ Len(n.put) = 0 \/ n.put[1].at \notin {"erase", "release"}
  BY <1>2, WalkIs
<1>4. Pending(n) = t.dp
  BY <1>2, WalkPending
<1>5. th'[p] = n
  BY <1>1, <1>2 DEF IInv1, TypeOK
<1>6. Pending(th[p]) = t.dp
  BY DEF Pending, IInv1, PlaceOK, ThreadOK
<1>7. Near(itable, itable) /\ Near(itable', itable')
  BY <1>1, NearSame DEF Near, Takes
<1>8. \A s \in Slots : s # k => itable'[s].ref <= itable[s].ref
  BY <1>1, <1>7, TakesGets, GetsRefs
<1>9. (\E w \in Pointers : Pointer(p, w) = k) \/ dinode[itable'[k].inum].nlink > 0
  <2>1. CASE path.abs
    BY <1>1, <2>1, RootClaimed DEF IInv1, Layer3
  <2>2. CASE ~path.abs
    <3>1. Pointer(p, "cwd") = k /\ "cwd" \in Pointers
      BY <1>1, <2>2, Views DEF Pointers
    <3> QED BY <3>1
  <2> QED BY <2>1, <2>2
<1> QED BY <1>3, <1>4, <1>5, <1>6, <1>8, <1>9, Quiet3

\* Every system call starts with a walk, but close().
LEMMA SyscallLinks ==
  ASSUME IInv1, IInv2, Layer3, NEW p \in Procs, NEW c \in Calls, Syscall(p, c)
  PROVE  Layer3'
<1> DEFINE t == [IdleThread EXCEPT !.op = c.op]
<1>1. /\ th[p] = IdleThread /\ StartWalk(p, t, c) /\ UNCHANGED <<dinode, ents, panic>>
  BY DEF Syscall
<1>2. c.op \in Ops /\ c.names \in Seq(EntryNames)
  BY InodesAssumption
<1>3. Len(th[p].put) = 0 /\ th[p].pc = "idle" /\ th[p].ip = 0
  BY <1>1, IdleIs, NoLen
<1>4. t \in ThRec /\ t.op = c.op /\ t.dp = 0 /\ t.put = <<>>
  <2>1. IdleThread \in ThRec /\ IdleThread.put = <<>> /\ IdleThread.dp = 0
    BY IdleIs
  <2> QED BY <1>2, <2>1 DEF ThRec
<1>5. Moves(p)
  BY SyscallMoves
<1> HIDE DEF t
<1> QED BY <1>1, <1>2, <1>3, <1>4, <1>5, WalkLinks

\* link() walks to the parent of the new name, and still owes the link it has
\* counted.
LEMMA LinkNewLinks ==
  ASSUME IInv1, IInv2, Layer3, NEW p \in Procs, NEW path \in NewPaths, LinkNew(p, path)
  PROVE  Layer3'
<1> DEFINE t == [IdleThread EXCEPT !.op = "link2", !.dp = th[p].ip]
<1>1. /\ th[p].pc = "link2" /\ StartWalk(p, t, path) /\ UNCHANGED <<dinode, ents, panic>>
  BY DEF LinkNew
<1>2. path.names \in Seq(EntryNames)
  BY InodesAssumption
<1>3. Len(th[p].put) = 0 /\ th[p].ip \in 0 .. NInodes
  BY <1>1 DEF IInv1, TypeOK, PlaceOK, ThreadOK, Alone, ThRec
<1>4. t \in ThRec /\ t.op = "link2" /\ t.dp = th[p].ip /\ t.put = <<>>
  <2>1. IdleThread \in ThRec /\ IdleThread.put = <<>> /\ IdleThread.dp = 0
    BY IdleIs
  <2> QED BY <1>3, <2>1 DEF ThRec
<1>5. Moves(p)
  BY LinkNewMoves
<1> HIDE DEF t
<1> QED BY <1>1, <1>2, <1>3, <1>4, <1>5, WalkLinks

\* A directory that a call has reached is not one that create() has just
\* allocated, so it has its . and .. entries.
LEMMA DotsThere ==
  ASSUME IInv1, Layer3, NEW p \in Procs, th[p].pc \in {"namex", "parent"},
         NEW d, d = Inum(th[p].ip), dinode[d].type = "dir"
  PROVE  d \in Inums /\ ents[d]["."] = d /\ ents[d][".."] \in Inums
<1> PICK s : s = th[p].ip
  OBVIOUS
<1>1. s \in Slots /\ itable[s].ref > 0 /\ d \in Inums /\ Pointer(p, "ip") = s /\ "ip" \in Pointers
  BY AtIp, Views DEF Inum, Pointers
<1>2. ASSUME NEW q \in Procs, Fresh(q, d) PROVE FALSE
  <2>1. PICK u : u = th[q].ip
    OBVIOUS
  <2>2. u \in Slots /\ itable[u].ref > 0 /\ Inum(u) = d /\ th[q].pc = "init"
    BY <1>2, <2>1, AtIp DEF Fresh
  <2>3. u = s
    BY <1>1, <2>2, SameSlot
  <2>4. (p = q /\ "ip" = "ip") \/ Gone(th[p], "ip")
    BY <1>1, <2>1, <2>2, <2>3 DEF Layer3, AliveOK, FreshOK
  <2> QED BY <2>2, <2>4 DEF Gone
<1> QED BY <1>1, <1>2 DEF Layer3, DotsOK

\* A name that a directory does not have is not . or ..
LEMMA NewName ==
  ASSUME IInv1, Layer3, NEW p \in Procs, th[p].pc = "parent",
         NEW d, d = Inum(th[p].ip), dinode[d].type = "dir", dirlookup(d, th[p].name) = 0
  PROVE  th[p].name \in Names
<1>1. d \in Inums /\ ents[d]["."] = d /\ ents[d][".."] \in Inums
  BY DotsThere
<1>2. th[p].name \in EntryNames
  BY DEF IInv1, PlaceOK, ThreadOK
<1>3. 0 \notin Inums
  BY Consts DEF Slots
<1> QED BY <1>1, <1>2, <1>3 DEF dirlookup, EntryNames

\* What a name of a directory leads to has a link, or is the directory itself.
LEMMA LookupAlive ==
  ASSUME IInv1, IInv2, Layer3, NEW p \in Procs, th[p].pc \in {"namex", "parent"},
         NEW d, d = Inum(th[p].ip), dinode[d].type = "dir",
         NEW n \in EntryNames, NEW i, i = dirlookup(d, n), i # 0,
         ~(n = ".." /\ d # ROOTINO /\ Links(d) = {})
  PROVE  i \in Inums /\ (i = d \/ dinode[i].nlink > 0)
<1>1. d \in Inums /\ ents[d]["."] = d /\ ents[d][".."] \in Inums
  BY DotsThere
<1>2. i \in Inums /\ i = ents[d][n]
  BY <1>1, LookupIn DEF IInv1, dirlookup
<1>3. CASE n \in Names
  <2>1. ClaimForm(<<"link", <<d, n>>>>, i)
    BY <1>1, <1>2, <1>3 DEF ClaimForm
  <2> QED BY <1>2, <2>1, Claimed DEF IInv1, Layer3
<1>4. CASE n = "."
  BY <1>1, <1>2, <1>4
<1>5. CASE n = ".." /\ d = ROOTINO
  BY <1>2, <1>5 DEF Layer3, RootOK
<1>6. CASE n = ".." /\ Links(d) # {}
  <2>1. PICK e \in Inums \X Names : ents[e[1]][e[2]] = d
    BY <1>6 DEF Links
  <2>2. PICK a \in Inums, m \in Names : ents[a][m] = d
    BY <2>1
  <2>3. ents[d][".."] = a
    BY <1>1, <2>2 DEF Layer3, DotsOK
  <2>4. 0 \notin Inums
    BY Consts DEF Slots
  <2>5. ClaimForm(<<"sub", m>>, i)
    BY <1>1, <1>2, <1>6, <2>2, <2>3, <2>4 DEF ClaimForm
  <2> QED BY <1>2, <2>5, Claimed DEF IInv1, Layer3
<1> QED BY <1>3, <1>4, <1>5, <1>6 DEF EntryNames

\* The slot that iget() returns for it is one that may be reached.
LEMMA LookupReaches ==
  ASSUME IInv1, IInv2, Layer3, NEW p \in Procs, th[p].pc \in {"namex", "parent"},
         NEW d, d = Inum(th[p].ip), dinode[d].type = "dir",
         NEW n \in EntryNames, NEW i, i = dirlookup(d, n), i # 0,
         ~(n = ".." /\ d # ROOTINO /\ Links(d) = {}),
         NEW t, TableOK(t), Near(itable, t), NEW k, k = IgetSlot(t, i), Near(iget(t, i), itable')
  PROVE  /\ \A s \in Slots : s # k => itable'[s].ref <= itable[s].ref
         /\ (\E w \in Pointers : Pointer(p, w) = k) \/ dinode[itable'[k].inum].nlink > 0
         /\ k \in Slots
<1>1. i \in Inums /\ (i = d \/ dinode[i].nlink > 0)
  BY LookupAlive
<1>2. PICK T : T = iget(t, i)
  OBVIOUS
<1>3. Takes(t, T, k) /\ T[k].inum = i
  BY <1>1, <1>2, IgetTakes
<1>4. \A s \in Slots : s # k => itable'[s].ref <= itable[s].ref
  BY <1>2, <1>3, TakesGets, GetsRefs
<1>5. k \in Slots /\ itable'[k].inum = i
  BY <1>2, <1>3 DEF Takes, Near
<1>6. PICK s : s = th[p].ip
  OBVIOUS
<1>7. s \in Slots /\ itable[s].ref > 0 /\ Pointer(p, "ip") = s /\ "ip" \in Pointers
  BY <1>6, AtIp, Views DEF Pointers
<1>8. CASE i = d
  <2>1. t[s].ref > 0 /\ t[s].inum = i
    BY <1>6, <1>7, <1>8 DEF Near, Inum
  <2>2. t[k].ref > 0 /\ t[k].inum = i
    <3>1. t[k].ref \in Nat
      BY <1>5 DEF TableOK
    <3> QED BY <1>3, <1>7, <2>1, <3>1 DEF Takes
  <2>3. k = s
    BY <1>5, <1>7, <2>1, <2>2 DEF TableOK
  <2> QED BY <1>4, <1>5, <1>7, <2>3
<1> QED BY <1>1, <1>4, <1>5, <1>8

\* A failed walk under a lock.
LEMMA FailLinks ==
  ASSUME IInv1, IInv2, Layer3, NEW p \in Procs, NEW where \in {"namex", "parent"}, AtLock(p, where),
         Moves(p), itable' = Load(th[p].ip), UNCHANGED <<dinode, ents, panic>>,
         th' = [th EXCEPT ![p] = Failed(th[p], <<Stage(th[p].ip, "drop")>>)]
  PROVE  Layer3'
<1>0. where \in LockPlaces
  BY DEF LockPlaces
<1>1. PICK n : n = Failed(th[p], <<Stage(th[p].ip, "drop")>>)
  OBVIOUS
<1>2. /\ th[p] \in ThRec /\ th[p].ip \in Slots /\ th[p].pc = where
      /\ Near(itable, itable') /\ Len(th[p].put) = 0
  BY <1>0, LockReady, NoLen DEF IInv1, TypeOK
<1>3. /\ n.put[1].at = "drop"
      /\ th[p].op = "link2" => n.pc = "bad" /\ n.ip = th[p].dp
      /\ th[p].op # "link2" => n.pc = "idle"
  BY <1>1, <1>2, FailedAre
<1>4. th'[p] = n
  BY <1>1 DEF IInv1, TypeOK
<1>5. Pending(th'[p]) = Pending(th[p])
  BY <1>2, <1>3, <1>4 DEF Pending
<1>6. th'[p].pc # "init"
  BY <1>3, <1>4
<1> QED BY <1>2, <1>3, <1>4, <1>5, <1>6, QuietNear

\* namex() goes down to an inode that has an entry, hence a link; or up from a
\* directory that has one.
LEMMA namexLinks == ASSUME IInv1, IInv2, Layer3, NEW p \in Procs, namex(p), ~astray' PROVE Layer3'
<1> DEFINE t == th[p]
           s == t.ip
           tb == Load(s)
           elem == skipelem(t.rest)
           next == dirlookup(itable[s].inum, elem.name)
           last == elem.rest = <<>>
           at == IF last THEN "found" ELSE "namex"
           puts == <<Stage(s, "drop")>>
           n1 == [t EXCEPT !.pc = "parent", !.name = elem.name, !.rest = <<>>]
           n2 == [t EXCEPT !.pc = at, !.rest = elem.rest, !.ip = IgetSlot(tb, next), !.put = puts]
<1>1. AtLock(p, "namex") /\ "namex" \in LockPlaces /\ UNCHANGED <<dinode, ents, panic>> /\ Moves(p)
  BY namexMoves DEF namex, LockPlaces
<1>2. /\ s \in Slots /\ itable[s].inum \in Inums /\ t.put = <<>> /\ t.pc = "namex" /\ TableOK(tb)
      /\ Near(itable, tb) /\ Len(t.put) = 0
  BY <1>1, LockReady, NoLen
<1>3. t \in ThRec /\ (t.op = "link2" <=> t.dp # 0) /\ t.rest \in Seq(EntryNames) /\ t.rest # <<>>
  BY <1>2 DEF IInv1, TypeOK, PlaceOK, ThreadOK, ThRec
<1>4. CASE itable' = tb /\ th' = [th EXCEPT ![p] = Failed(t, puts)]
  BY <1>1, <1>4, FailLinks
<1>5. CASE itable' = tb /\ th' = [th EXCEPT ![p] = n1]
  <2>2. n1.pc = "parent" /\ n1.dp = t.dp /\ n1.op = t.op /\ n1.put = <<>>
    BY <1>2, <1>3 DEF ThRec
  <2> HIDE DEF n1
  <2>3. th'[p] = n1
    BY <1>5 DEF IInv1, TypeOK
  <2>4. Pending(th'[p]) = Pending(t)
    BY <1>2, <2>2, <2>3 DEF Pending
  <2>5. th'[p].pc # "init" /\ Len(th'[p].put) = 0 /\ t.pc # "init"
    BY <1>2, <2>2, <2>3, NoLen
  <2> HIDE DEF t, tb
  <2> QED BY <1>1, <1>2, <1>5, <2>4, <2>5, QuietNear DEF t
<1>6. CASE /\ tb[s].type = "dir" /\ ~(last /\ WantsParent(t.op)) /\ next # 0
           /\ itable' = iget(tb, next) /\ th' = [th EXCEPT ![p] = n2]
           /\ Look(itable[s].inum, elem.name)
  <2>0. elem.name \in EntryNames
    BY <1>3 DEF skipelem
  <2>1. ~(elem.name = ".." /\ itable[s].inum # ROOTINO /\ Links(itable[s].inum) = {})
    BY <1>6 DEF Look
  <2>2. dinode[Inum(s)].type = "dir"
    BY <1>1, <1>6, LoadCoherent
  <2>3. PICK d, k, e, i : d = Inum(s) /\ k = IgetSlot(tb, next) /\ e = elem.name /\ i = next
    OBVIOUS
  <2>4. Near(itable', itable')
    BY <1>1 DEF Near, Moves, TypeOK
  <2>5. /\ \A u \in Slots : u # k => itable'[u].ref <= itable[u].ref
        /\ (\E w \in Pointers : Pointer(p, w) = k) \/ dinode[itable'[k].inum].nlink > 0
    <3>1. /\ th[p].pc \in {"namex", "parent"} /\ d = Inum(th[p].ip) /\ dinode[d].type = "dir"
          /\ e \in EntryNames /\ i = dirlookup(d, e) /\ i # 0
          /\ ~(e = ".." /\ d # ROOTINO /\ Links(d) = {})
      BY <1>2, <1>6, <2>0, <2>1, <2>2, <2>3 DEF Inum
    <3>2. k = IgetSlot(tb, i) /\ Near(iget(tb, i), itable')
      BY <1>6, <2>3, <2>4
    <3> HIDE DEF tb, elem, next, t, s
    <3> QED BY <1>2, <3>1, <3>2, LookupReaches
  <2>6. Stage(s, "drop") \in StageRec
    BY <1>2 DEF Stage, StageRec, Stages
  <2>7. puts \in Seq(StageRec) /\ puts[1].at = "drop" /\ at \in {"found", "namex"} /\ (at = "found" => last)
    BY <2>6, PutOne, StageIs
  <2> HIDE DEF puts, at, elem, tb, next
  <2>8. n2.pc = at /\ n2.dp = t.dp /\ n2.op = t.op /\ n2.put = puts
    BY <1>3, <2>7 DEF ThRec
  <2> HIDE DEF n2
  <2>9. th'[p] = n2
    BY <1>6 DEF IInv1, TypeOK
  <2>10. at = "found" => t.op # "link2"
    BY <1>6, <2>7 DEF WantsParent
  <2>11. Pending(th'[p]) = Pending(t)
    BY <1>2, <2>7, <2>8, <2>9, <2>10 DEF Pending
  <2>12. th'[p].pc # "init" /\ th'[p].put[1].at # "erase" /\ t.pc # "init"
    BY <1>2, <2>7, <2>8, <2>9
  <2> HIDE DEF t
  <2> QED BY <1>1, <1>2, <2>5, <2>11, <2>12, Quiet3 DEF t
<1>7. \/ itable' = tb /\ th' = [th EXCEPT ![p] = Failed(t, puts)]
      \/ /\ itable' = tb
         /\ th' = [th EXCEPT ![p].pc = "parent", ![p].name = elem.name, ![p].rest = <<>>]
      \/ /\ tb[s].type = "dir" /\ ~(last /\ WantsParent(t.op)) /\ next # 0 /\ itable' = iget(tb, next)
         /\ th' = [th EXCEPT ![p].pc = at, ![p].rest = elem.rest,
                             ![p].ip = IgetSlot(tb, next), ![p].put = NextPut(s)]
         /\ Look(itable[s].inum, elem.name)
  BY DEF namex
<1>8. /\ th' = [th EXCEPT ![p].pc = "parent", ![p].name = elem.name, ![p].rest = <<>>]
           => th' = [th EXCEPT ![p] = n1]
      /\ th' = [th EXCEPT ![p].pc = at, ![p].rest = elem.rest,
                          ![p].ip = IgetSlot(tb, next), ![p].put = NextPut(s)]
           => th' = [th EXCEPT ![p] = n2]
  BY DEF IInv1, TypeOK, NextPut
<1> HIDE DEF n1, n2, tb, elem, next, at, puts, last
<1> QED BY <1>4, <1>5, <1>6, <1>7, <1>8

\* create() finds an inode that has an entry.
LEMMA CreateFindsLinks ==
  ASSUME IInv1, IInv2, Layer3, NEW p \in Procs, CreateFinds(p), ~astray'
  PROVE  Layer3'
<1> PICK t, s, d, i, tb, k, e : /\ t = th[p] /\ s = t.ip /\ d = Inum(s) /\ e = t.name /\ i = dirlookup(d, e)
                                /\ tb = Load(s) /\ k = IgetSlot(tb, i)
  OBVIOUS
<1> DEFINE puts == <<Stage(s, "drop")>>
           n == [t EXCEPT !.pc = "exists", !.ip = k, !.put = puts]
<1>1. /\ AtLock(p, "parent") /\ "parent" \in LockPlaces /\ t.op \in Making /\ i # 0
      /\ itable' = iget(tb, i) /\ UNCHANGED <<dinode, ents, panic>> /\ Moves(p)
      /\ Look(d, e)
  BY CreateFindsMoves DEF CreateFinds, LockPlaces, DirReleased, Making, Inum
<1>2. /\ s \in Slots /\ itable[s].inum \in Inums /\ Len(t.put) = 0 /\ t.pc = "parent" /\ TableOK(tb)
      /\ Near(itable, tb)
  BY <1>1, LockReady, NoLen
<1>3. t \in ThRec /\ e \in EntryNames /\ dinode[d].type = "dir"
  BY <1>1, <1>2, ParentReady DEF IInv1, TypeOK, PlaceOK, ThreadOK
<1>4. th' = [th EXCEPT ![p] = n]
  BY DEF CreateFinds, IInv1, TypeOK, Inum
<1>5. ~(e = ".." /\ d # ROOTINO /\ Links(d) = {})
  BY <1>1 DEF Look
<1>6. Near(iget(tb, i), itable')
  BY <1>1 DEF Near, Moves, TypeOK
<1>7. /\ \A u \in Slots : u # k => itable'[u].ref <= itable[u].ref
      /\ (\E w \in Pointers : Pointer(p, w) = k) \/ dinode[itable'[k].inum].nlink > 0
  <2>1. /\ th[p].pc \in {"namex", "parent"} /\ d = Inum(th[p].ip) /\ dinode[d].type = "dir"
        /\ e \in EntryNames /\ i = dirlookup(d, e) /\ i # 0
        /\ TableOK(tb) /\ Near(itable, tb) /\ k = IgetSlot(tb, i)
    BY <1>1, <1>2, <1>3
  <2> QED BY <1>5, <1>6, <2>1, LookupReaches
<1>8. Stage(s, "drop") \in StageRec
  BY <1>2 DEF Stage, StageRec, Stages
<1>9. puts \in Seq(StageRec) /\ puts[1].at = "drop"
  BY <1>8, PutOne, StageIs
<1> HIDE DEF puts
<1>10. n.pc = "exists" /\ n.put = puts
  BY <1>3 DEF ThRec
<1> HIDE DEF n
<1>11. th'[p] = n
  BY <1>4 DEF IInv1, TypeOK
<1>12. t.op # "link2"
  BY <1>1 DEF Making
<1>13. Pending(t) = 0 /\ Pending(th'[p]) = 0
  BY <1>2, <1>10, <1>11, <1>12, PendingNone
<1>14. th'[p].pc # "init" /\ th'[p].put[1].at # "erase"
  BY <1>9, <1>10, <1>11
<1> QED BY <1>1, <1>2, <1>7, <1>13, <1>14, Quiet3

\* unlink() finds an inode that has an entry.
LEMMA UnlinkDirLinks ==
  ASSUME IInv1, IInv2, Layer3, NEW p \in Procs, UnlinkDir(p)
  PROVE  Layer3'
<1> PICK t, s, d, i, tl, k, e : /\ t = th[p] /\ s = t.ip /\ d = Inum(s) /\ e = t.name /\ i = dirlookup(d, e)
                                /\ tl = Locked(itable, s, p) /\ k = IgetSlot(itable, i)
  OBVIOUS
<1> DEFINE n == [t EXCEPT !.pc = "child", !.dp = s, !.ip = k]
<1>1. /\ AtLock(p, "parent") /\ "parent" \in LockPlaces /\ UNCHANGED <<dinode, ents, panic>> /\ Moves(p)
      /\ t.op = "unlink"
  BY UnlinkDirMoves DEF UnlinkDir, LockPlaces
<1>2. /\ s \in Slots /\ Load(s) = itable /\ dinode[d].type = "dir"
      /\ Len(t.put) = 0 /\ t.pc = "parent" /\ t.put = <<>>
  BY <1>1, ParentReady, NoLen DEF AtLock
<1>3. t \in ThRec /\ e \in EntryNames /\ Pending(t) = 0
  BY <1>1, <1>2, PendingNone DEF IInv1, TypeOK, PlaceOK, ThreadOK
<1>4. CASE itable' = Load(s) /\ th' = [th EXCEPT ![p] = Done(<<Stage(s, "drop")>>)]
  BY <1>1, <1>3, <1>4, EndLinks
<1>5. CASE i # 0 /\ e # ".." /\ itable' = iget(tl, i) /\ th' = [th EXCEPT ![p] = n]
  <2>1. itable \in [Slots -> SlotRec] /\ p \in Procs \cup {Nobody}
    BY DEF IInv1, TypeOK
  <2>2. Near(itable, tl)
    BY <1>2, <2>1, LockedIs
  <2>3. TableOK(tl)
    BY <2>2, TableIs, NearTable
  <2>4. k = IgetSlot(tl, i)
    <3>1. PICK a : a = itable
      OBVIOUS
    <3>2. \A u \in Slots : tl[u].ref = a[u].ref /\ tl[u].inum = a[u].inum
      BY <2>2, <3>1 DEF Near
    <3>3. IgetSlot(tl, i) = IgetSlot(a, i)
      BY <3>2, IgetSlotSame
    <3> QED BY <3>1, <3>3
  <2>5. Near(iget(tl, i), itable')
    BY <1>1, <1>5 DEF Near, Moves, TypeOK
  <2>6. /\ \A u \in Slots : u # k => itable'[u].ref <= itable[u].ref
        /\ (\E w \in Pointers : Pointer(p, w) = k) \/ dinode[itable'[k].inum].nlink > 0
    <3>0. i # 0 /\ e # ".."
      BY <1>5, Zenon
    <3>1. /\ th[p].pc \in {"namex", "parent"} /\ d = Inum(th[p].ip) /\ dinode[d].type = "dir"
          /\ e \in EntryNames /\ i = dirlookup(d, e) /\ i # 0 /\ e # ".."
      BY <1>2, <1>3, <3>0
    <3> QED BY <2>2, <2>3, <2>4, <2>5, <3>1, LookupReaches
  <2>7. n.pc = "child" /\ n.put = <<>>
    BY <1>2, <1>3 DEF ThRec
  <2> HIDE DEF n
  <2>8. th'[p] = n
    BY <1>5 DEF IInv1, TypeOK
  <2>9. Pending(th'[p]) = 0 /\ th'[p].pc # "init" /\ Len(th'[p].put) = 0
    BY <2>7, <2>8, NoLen, PendingNone
  <2> QED BY <1>1, <1>2, <1>3, <2>6, <2>9, Quiet3
<1>6. \/ itable' = Load(s) /\ th' = [th EXCEPT ![p] = Done(<<Stage(s, "drop")>>)]
      \/ /\ i # 0 /\ e # ".." /\ itable' = iget(Locked(Load(s), s, p), i)
         /\ th' = [th EXCEPT ![p].pc = "child", ![p].dp = s, ![p].ip = IgetSlot(Load(s), i)]
  BY DEF UnlinkDir, Inum
<1>7. th' = [th EXCEPT ![p].pc = "child", ![p].dp = s, ![p].ip = k] => th' = [th EXCEPT ![p] = n]
  BY DEF IInv1, TypeOK
<1> HIDE DEF n
<1> QED BY <1>2, <1>4, <1>5, <1>6, <1>7

-----------------------------------------------------------------------------
(* Steps that count or enter a link. *)

\* The count of an inode and the claims on it, one of which may be new (a) or
\* gone (b).
LEMMA KeptClaims ==
  ASSUME TypeOK, LinkOK, NEW i \in Inums, dinode'[i].nlink = dinode[i].nlink,
         \A c : ClaimForm(c, i)' => ClaimForm(c, i)
  PROVE  Cardinality(Claims(i)') <= dinode'[i].nlink
<1>1. Claims(i)' \subseteq Claims(i)
  BY ClaimsAlways, ClaimsNext DEF ClaimsAre
<1>2. /\ IsFiniteSet(Claims(i)) /\ Cardinality(Claims(i)) <= dinode[i].nlink /\ Cardinality(Claims(i)) \in Nat
      /\ dinode[i].nlink \in Int /\ Cardinality(Claims(i)') \in Nat
  BY ClaimsAlways, ClaimsNext DEF ClaimsAre, LinkOK, TypeOK, DiskRec
<1>3. Cardinality(Claims(i)') <= Cardinality(Claims(i))
  BY <1>1, <1>2, CardLess
<1> QED BY <1>2, <1>3

\* One claim more, one link more.
LEMMA MoreClaims ==
  ASSUME TypeOK, LinkOK, NEW i \in Inums, dinode'[i].nlink = dinode[i].nlink + 1, NEW a,
         \A c : ClaimForm(c, i)' => ClaimForm(c, i) \/ c = a
  PROVE  Cardinality(Claims(i)') <= dinode'[i].nlink
<1>1. Claims(i)' \subseteq Claims(i) \cup {a}
  BY ClaimsAlways, ClaimsNext DEF ClaimsAre
<1>2. /\ IsFiniteSet(Claims(i)) /\ Cardinality(Claims(i)) <= dinode[i].nlink /\ Cardinality(Claims(i)) \in Nat
      /\ dinode[i].nlink \in Int
  BY ClaimsAlways DEF ClaimsAre, LinkOK, TypeOK, DiskRec
<1>3. Cardinality(Claims(i)') <= Cardinality(Claims(i)) + 1 /\ Cardinality(Claims(i)') \in Nat
  BY <1>1, <1>2, CardMore
<1> QED BY <1>2, <1>3

\* One claim less, one link less.
LEMMA FewerClaims ==
  ASSUME TypeOK, LinkOK, NEW i \in Inums, dinode'[i].nlink = dinode[i].nlink - 1, NEW b, ClaimForm(b, i),
         \A c : ClaimForm(c, i)' => ClaimForm(c, i) /\ c # b
  PROVE  Cardinality(Claims(i)') <= dinode'[i].nlink
<1>1. Claims(i)' \subseteq Claims(i) \ {b} /\ b \in Claims(i)
  BY ClaimsAlways, ClaimsNext DEF ClaimsAre
<1>2. /\ IsFiniteSet(Claims(i)) /\ Cardinality(Claims(i)) <= dinode[i].nlink /\ Cardinality(Claims(i)) \in Nat
      /\ dinode[i].nlink \in Int /\ Cardinality(Claims(i)') \in Nat
  BY ClaimsAlways, ClaimsNext DEF ClaimsAre, LinkOK, TypeOK, DiskRec
<1>3. Cardinality(Claims(i)') <= Cardinality(Claims(i)) - 1
  BY <1>1, <1>2, CardFewer
<1> QED BY <1>2, <1>3

\* One claim for another, as many links.
LEMMA SwapClaims ==
  ASSUME TypeOK, LinkOK, NEW i \in Inums, dinode'[i].nlink = dinode[i].nlink, NEW a, NEW b, ClaimForm(b, i),
         \A c : ClaimForm(c, i)' => (ClaimForm(c, i) /\ c # b) \/ c = a
  PROVE  Cardinality(Claims(i)') <= dinode'[i].nlink
<1>1. Claims(i)' \subseteq (Claims(i) \ {b}) \cup {a} /\ b \in Claims(i)
  BY ClaimsAlways, ClaimsNext DEF ClaimsAre
<1>2. /\ IsFiniteSet(Claims(i)) /\ Cardinality(Claims(i)) <= dinode[i].nlink /\ Cardinality(Claims(i)) \in Nat
      /\ dinode[i].nlink \in Int /\ Cardinality(Claims(i)') \in Nat
  BY ClaimsAlways, ClaimsNext DEF ClaimsAre, LinkOK, TypeOK, DiskRec
<1>3. Cardinality(Claims(i)') <= Cardinality(Claims(i))
  BY <1>1, <1>2, CardSwap
<1> QED BY <1>2, <1>3

\* The . and .. entries, when neither a type nor an entry changes.
LEMMA DotsKept ==
  ASSUME IInv1, DotsOK, RootOK, NEW p \in Procs, Moves(p), UNCHANGED ents,
         \A i \in Inums : dinode'[i].type = dinode[i].type, th[p].pc # "init"
  PROVE  DotsOK' /\ RootOK'
<1>3. \A q \in Procs : \A d : Fresh(q, d) => Fresh(q, d)'
  BY FreshStays
<1>4. DotsOK'
  BY <1>3 DEF DotsOK
<1>5. RootOK'
  BY Consts DEF RootOK, Links
<1> QED BY <1>4, <1>5

\* Where a claim of the next state comes from.
LEMMA ClaimCases ==
  ASSUME IInv1, NEW p \in Procs, Moves(p), NEW i, NEW c, ClaimForm(c, i)'
  PROVE  \/ \E d \in Inums, n \in Names : c = <<"link", <<d, n>>>> /\ ents'[d][n] = i
         \/ \E n \in Names : c = <<"sub", n>> /\ ents'[i][n] # 0 /\ dinode'[ents'[i][n]].type = "dir"
         \/ \E q \in Procs \ {p} : c = <<"owed", q>> /\ Owes(q, i)
         \/ c = <<"owed", p>> /\ Owes(p, i)'
         \/ c = <<"root", 0>> /\ i = ROOTINO
<1>1. \A q \in Procs \ {p} : Owes(q, i)' => Owes(q, i)
  BY OwesOthers
<1> QED BY <1>1 DEF ClaimForm

\* A step that neither changes an entry nor a type adds at most its own claim.
LEMMA CountClaims ==
  ASSUME IInv1, NEW p \in Procs, Moves(p), UNCHANGED ents,
         \A i \in Inums : dinode'[i].type = dinode[i].type, NEW i \in Inums, NEW c, ClaimForm(c, i)'
  PROVE  (ClaimForm(c, i) /\ c # <<"owed", p>>) \/ (c = <<"owed", p>> /\ Owes(p, i)')
<1>1. CASE \E d \in Inums, n \in Names : c = <<"link", <<d, n>>>> /\ ents'[d][n] = i
  BY <1>1 DEF ClaimForm
<1>2. CASE \E n \in Names : c = <<"sub", n>> /\ ents'[i][n] # 0 /\ dinode'[ents'[i][n]].type = "dir"
  <2>1. PICK n \in Names : c = <<"sub", n>> /\ ents[i][n] # 0 /\ dinode'[ents[i][n]].type = "dir"
    BY <1>2
  <2>2. ents[i][n] \in 0 .. NInodes
    BY Consts DEF IInv1, TypeOK
  <2>3. ents[i][n] \in Inums
    BY <2>1, <2>2, Consts DEF Inums
  <2> QED BY <2>1, <2>3 DEF ClaimForm
<1>3. CASE \E q \in Procs \ {p} : c = <<"owed", q>> /\ Owes(q, i)
  BY <1>3 DEF ClaimForm
<1>4. CASE c = <<"root", 0>> /\ i = ROOTINO
  BY <1>4 DEF ClaimForm
<1> QED BY <1>1, <1>2, <1>3, <1>4, ClaimCases

\* link() counts the new link, or takes the count back; unlink() takes it back
\* when the entry has gone.
LEMMA CountLinks ==
  ASSUME IInv1, IInv2, Layer3, NEW p \in Procs, Moves(p), UNCHANGED <<ents, panic>>,
         NEW s \in Slots, NEW v \in Pointers, Pointer(p, v) = s,
         NEW i0, i0 = Inum(s), dinode'[i0].type = dinode[i0].type,
         \A i \in Inums : i # i0 => dinode'[i] = dinode[i],
         \A u \in Slots : itable'[u].ref <= itable[u].ref,
         Len(th[p].put) = 0, th[p].pc # "init", th'[p].pc # "init",
         Len(th'[p].put) = 0 \/ th'[p].put[1].at # "erase",
         \/ Pending(th'[p]) = s /\ dinode'[i0].nlink = dinode[i0].nlink + 1
         \/ Pending(th[p]) = s /\ Pending(th'[p]) = 0 /\ dinode'[i0].nlink = dinode[i0].nlink - 1
  PROVE  Layer3'
<1>1. \A i \in Inums : dinode'[i].type = dinode[i].type
  OBVIOUS
<1>2. itable[s].ref > 0 /\ i0 \in Inums /\ Inum(s)' = i0 /\ s # 0
  BY PointedTo, Consts DEF Moves, Counts, Inum
<1>3. dinode[i0].type # "free"
  <2>1. ~Gone(th[p], v)
    BY DEF Gone
  <2> QED BY <1>2, <2>1 DEF Layer3, AliveOK
<1>4. TypeOK /\ LinkOK /\ DotsOK /\ RootOK /\ IInv1'
  BY MovesKeeps DEF IInv1, Layer3
<1>5. ASSUME NEW i \in Inums, i # i0 PROVE Cardinality(Claims(i)') <= dinode'[i].nlink
  <2>1. ~Owes(p, i)'
    BY <1>2, <1>5 DEF Owes, Inum
  <2>2. \A c : ClaimForm(c, i)' => ClaimForm(c, i)
    BY <1>1, <2>1, CountClaims
  <2> QED BY <1>4, <1>5, <2>2, KeptClaims
<1>6. Cardinality(Claims(i0)') <= dinode'[i0].nlink
  <2>1. CASE dinode'[i0].nlink = dinode[i0].nlink + 1
    <3>1. PICK a : a = <<"owed", p>>
      OBVIOUS
    <3>2. \A c : ClaimForm(c, i0)' => ClaimForm(c, i0) \/ c = a
      BY <1>1, <1>2, <3>1, CountClaims
    <3> QED BY <1>2, <1>4, <2>1, <3>2, MoreClaims
  <2>2. CASE Pending(th[p]) = s /\ Pending(th'[p]) = 0 /\ dinode'[i0].nlink = dinode[i0].nlink - 1
    <3>1. PICK a : a = <<"owed", p>>
      OBVIOUS
    <3>2. ~Owes(p, i0)'
      BY <2>2 DEF Owes
    <3>3. \A c : ClaimForm(c, i0)' => ClaimForm(c, i0) /\ c # a
      BY <1>1, <1>2, <3>1, <3>2, CountClaims
    <3>4. ClaimForm(a, i0)
      BY <1>2, <2>2, <3>1 DEF ClaimForm, Owes
    <3> QED BY <1>2, <1>4, <2>2, <3>3, <3>4, FewerClaims
  <2> QED BY <2>1, <2>2
<1>7. LinkOK'
  <2>1. \A i \in Inums : dinode'[i].type = "free" => dinode'[i].nlink = 0
    BY <1>2, <1>3, <1>4 DEF LinkOK
  <2> QED BY <1>5, <1>6, <2>1 DEF LinkOK
<1>8. DotsOK' /\ RootOK'
  BY <1>1, <1>4, DotsKept
<1>9. Reaches(p)
  <2>1. PICK k : k = 0
    OBVIOUS
  <2> QED BY <2>1, CallReaches
<1>10. Frees(p)
  BY <1>1 DEF Frees
<1>11. Turns(p)
  <2>1. ~Gone(th[p], v)
    BY DEF Gone
  <2> QED BY <2>1 DEF Turns
<1>12. FreshOK(p)' /\ LastOK(p)'
  BY DEF FreshOK, LastOK, Erasing
<1>13. AliveOK'
  BY <1>4, <1>9, <1>10, <1>11, <1>12, AliveKeeps
<1> QED BY <1>7, <1>8, <1>13 DEF Layer3

\* What iupdate() of an inode whose type stays writes.
LEMMA NlinkDisk ==
  ASSUME IInv1, NEW p \in Procs, Moves(p), NEW s \in Slots, itable[s].ref > 0,
         itable'[s].type = dinode[Inum(s)].type, dinode' = iupdate(itable', s)
  PROVE  /\ Inum(s) \in Inums /\ dinode'[Inum(s)].type = dinode[Inum(s)].type
         /\ dinode'[Inum(s)].nlink = itable'[s].nlink
         /\ \A i \in Inums : i # Inum(s) => dinode'[i] = dinode[i]
<1>1. itable[s].inum \in Inums /\ itable'[s].inum = itable[s].inum /\ itable' \in [Slots -> SlotRec]
  BY DEF IInv1, RefOK, Moves, Counts, TypeOK
<1>2. PICK T : T = itable'
  OBVIOUS
<1>3. TypeOK /\ T \in [Slots -> SlotRec] /\ T[s].inum \in Inums /\ dinode' = iupdate(T, s)
  BY <1>1, <1>2 DEF IInv1
<1>4. /\ iupdate(T, s)[T[s].inum].type = T[s].type
      /\ iupdate(T, s)[T[s].inum].nlink = T[s].nlink
      /\ \A i \in Inums : i # T[s].inum => iupdate(T, s)[i] = dinode[i]
  BY <1>3, IupdateIs
<1> QED BY <1>1, <1>2, <1>3, <1>4 DEF Inum

\* link() counts a link, and owes it.
LEMMA LinkOldLinks == ASSUME IInv1, IInv2, Layer3, NEW p \in Procs, LinkOld(p) PROVE Layer3'
<1> PICK t, s, b, c : t = th[p] /\ s = t.ip /\ b = Load(s) /\ c = b[s].nlink + 1
  OBVIOUS
<1> DEFINE n == [t EXCEPT !.pc = "link2"]
<1>1. AtLock(p, "found") /\ "found" \in LockPlaces /\ UNCHANGED <<ents, panic>> /\ Moves(p) /\ t.op = "link"
  BY LinkOldMoves DEF LinkOld, LockPlaces
<1>2. /\ s \in Slots /\ itable[s].ref > 0 /\ b \in [Slots -> SlotRec] /\ Near(itable, b)
      /\ t.put = <<>> /\ t.pc = "found" /\ Len(t.put) = 0
  BY <1>1, LockReady, NoLen
<1>3. t \in ThRec /\ Pending(t) = 0
  BY <1>2, PendingNone DEF IInv1, TypeOK
<1>4. CASE itable' = Load(s) /\ th' = [th EXCEPT ![p] = Done(<<Stage(s, "drop")>>)] /\ UNCHANGED dinode
  BY <1>1, <1>3, <1>4, EndLinks
<1>5. CASE itable' = SetNlink(b, s, c) /\ dinode' = iupdate(itable', s) /\ th' = [th EXCEPT ![p] = n]
  <2>1. b[s].type = dinode[Inum(s)].type /\ b[s].nlink = dinode[Inum(s)].nlink
    BY <1>1, LoadCoherent
  <2>2. c \in Int
    BY <1>2 DEF SlotRec
  <2>3. /\ itable'[s].nlink = c /\ itable'[s].type = b[s].type /\ Near(b, itable')
    BY <1>2, <1>5, <2>2, NlinkIs
  <2>4. n.pc = "link2" /\ n.ip = s /\ n.put = <<>>
    BY <1>2, <1>3 DEF ThRec
  <2>5. th'[p] = n
    BY <1>5 DEF IInv1, TypeOK
  <2> HIDE DEF n
  <2>6. Pending(th'[p]) = s /\ th'[p].pc # "init" /\ Len(th'[p].put) = 0
    BY <2>4, <2>5, NoLen DEF Pending
  <2>7. \A u \in Slots : itable'[u].ref <= itable[u].ref
    <3>1. \A u \in Slots : itable[u].ref \in Nat
      BY TableIs DEF TableOK
    <3> QED BY <1>2, <2>3, <3>1 DEF Near
  <2>8. PICK i0 : i0 = Inum(s)
    OBVIOUS
  <2>9. /\ dinode'[i0].type = dinode[i0].type /\ dinode'[i0].nlink = dinode[i0].nlink + 1
        /\ \A i \in Inums : i # i0 => dinode'[i] = dinode[i]
    <3>1. /\ Moves(p) /\ itable[s].ref > 0 /\ dinode' = iupdate(itable', s)
          /\ itable'[s].type = dinode[Inum(s)].type /\ itable'[s].nlink = dinode[Inum(s)].nlink + 1
      BY <1>1, <1>2, <1>5, <2>1, <2>3
    <3> QED BY <1>2, <2>8, <3>1, NlinkDisk
  <2>10. Pointer(p, "ip") = s /\ "ip" \in Pointers
    BY Views DEF Pointers
  <2> QED BY <1>1, <1>2, <2>6, <2>7, <2>8, <2>9, <2>10, CountLinks
<1>6. \/ itable' = Load(s) /\ th' = [th EXCEPT ![p] = Done(<<Stage(s, "drop")>>)] /\ UNCHANGED dinode
      \/ /\ itable' = SetNlink(b, s, c) /\ dinode' = iupdate(itable', s)
         /\ th' = [th EXCEPT ![p].pc = "link2"]
  BY DEF LinkOld
<1>7. th' = [th EXCEPT ![p].pc = "link2"] => th' = [th EXCEPT ![p] = n]
  BY DEF IInv1, TypeOK
<1> HIDE DEF n
<1> QED BY <1>4, <1>5, <1>6, <1>7

\* link() takes back the link it owes.
LEMMA LinkBadLinks == ASSUME IInv1, IInv2, Layer3, NEW p \in Procs, LinkBad(p) PROVE Layer3'
<1> PICK s, b, c : s = th[p].ip /\ b = Load(s) /\ c = b[s].nlink - 1
  OBVIOUS
<1>1. /\ AtLock(p, "bad") /\ "bad" \in LockPlaces /\ UNCHANGED <<ents, panic>> /\ Moves(p)
      /\ itable' = SetNlink(b, s, c) /\ dinode' = iupdate(itable', s)
      /\ th' = [th EXCEPT ![p] = Done(<<Stage(s, "drop")>>)]
  BY LinkBadMoves DEF LinkBad, LockPlaces
<1>2. /\ s \in Slots /\ itable[s].ref > 0 /\ b \in [Slots -> SlotRec] /\ Near(itable, b)
      /\ th[p].put = <<>> /\ th[p].pc = "bad" /\ Len(th[p].put) = 0
  BY <1>1, LockReady, NoLen
<1>3. b[s].type = dinode[Inum(s)].type /\ b[s].nlink = dinode[Inum(s)].nlink
  BY <1>1, LoadCoherent
<1>4. c \in Int
  BY <1>2 DEF SlotRec
<1>5. /\ itable'[s].nlink = c /\ itable'[s].type = b[s].type /\ Near(b, itable')
  BY <1>1, <1>2, <1>4, NlinkIs
<1>6. /\ th'[p].pc = "idle" /\ Len(th'[p].put) >= 1 /\ th'[p].put[1].at = "drop"
  BY <1>1, <1>2, DoneAfter
<1>7. Pending(th[p]) = s /\ Pending(th'[p]) = 0 /\ th'[p].pc # "init"
  BY <1>2, <1>6 DEF Pending
<1>8. \A u \in Slots : itable'[u].ref <= itable[u].ref
  <2>1. \A u \in Slots : itable[u].ref \in Nat
    BY TableIs DEF TableOK
  <2> QED BY <1>2, <1>5, <2>1 DEF Near
<1>9. PICK i0 : i0 = Inum(s)
  OBVIOUS
<1>10. /\ dinode'[i0].type = dinode[i0].type /\ dinode'[i0].nlink = dinode[i0].nlink - 1
       /\ \A i \in Inums : i # i0 => dinode'[i] = dinode[i]
  <2>1. /\ itable[s].ref > 0 /\ dinode' = iupdate(itable', s)
        /\ itable'[s].type = dinode[Inum(s)].type /\ itable'[s].nlink = dinode[Inum(s)].nlink - 1
    BY <1>1, <1>2, <1>3, <1>5
  <2>2. Moves(p)
    BY <1>1
  <2> QED BY <1>2, <1>9, <2>1, <2>2, NlinkDisk
<1>11. Pointer(p, "ip") = s /\ "ip" \in Pointers
  BY Views DEF Pointers
<1>12. UNCHANGED <<ents, panic>> /\ Moves(p) /\ th[p].pc # "init" /\ th'[p].put[1].at # "erase"
  BY <1>1, <1>2, <1>6
<1> QED BY <1>2, <1>7, <1>8, <1>9, <1>10, <1>11, <1>12, CountLinks

\* unlink() lowers the link count that it owes.
LEMMA UnlinkDropLinks == ASSUME IInv1, IInv2, Layer3, NEW p \in Procs, UnlinkDrop(p) PROVE Layer3'
<1> PICK s, c : s = th[p].ip /\ c = itable[s].nlink - 1
  OBVIOUS
<1>1. /\ th[p].pc = "unlinked" /\ th[p].put = <<>> /\ UNCHANGED <<ents, panic>> /\ Moves(p)
      /\ itable' = SetNlink(itable, s, c) /\ dinode' = iupdate(itable', s)
      /\ th' = [th EXCEPT ![p] = Done(<<Stage(s, "unlock")>>)]
  BY UnlinkDropMoves DEF UnlinkDrop
<1>2. Firm(th[p], "ip") /\ Pointer(p, "ip") = s /\ "ip" \in Pointers
  BY <1>1 DEF Firm, Pointer, Pointers
<1>3. s \in Slots /\ itable[s].ref > 0 /\ itable[s].type = dinode[Inum(s)].type
      /\ itable[s].nlink = dinode[Inum(s)].nlink
  BY <1>2, FirmUse DEF InUse, Coherent
<1>4. itable \in [Slots -> SlotRec]
  BY DEF IInv1, TypeOK
<1>5. c \in Int
  BY <1>3, <1>4 DEF SlotRec
<1>6. /\ itable'[s].nlink = c /\ itable'[s].type = itable[s].type /\ Near(itable, itable')
  BY <1>1, <1>3, <1>4, <1>5, NlinkIs
<1>7. /\ th'[p].pc = "idle" /\ Len(th'[p].put) >= 1 /\ th'[p].put[1].at = "unlock"
  BY <1>1, <1>3, DoneAfter
<1>8. Pending(th[p]) = s /\ Pending(th'[p]) = 0 /\ th'[p].pc # "init" /\ Len(th[p].put) = 0
  BY <1>1, <1>7, NoLen DEF Pending
<1>9. \A u \in Slots : itable'[u].ref <= itable[u].ref
  <2>1. \A u \in Slots : itable[u].ref \in Nat
    BY TableIs DEF TableOK
  <2> QED BY <1>6, <2>1 DEF Near
<1>10. PICK i0 : i0 = Inum(s)
  OBVIOUS
<1>11. /\ dinode'[i0].type = dinode[i0].type /\ dinode'[i0].nlink = dinode[i0].nlink - 1
       /\ \A i \in Inums : i # i0 => dinode'[i] = dinode[i]
  BY <1>1, <1>3, <1>6, <1>10, NlinkDisk
<1>12. UNCHANGED <<ents, panic>> /\ Moves(p) /\ th[p].pc # "init" /\ th'[p].put[1].at # "erase"
  BY <1>1, <1>7
<1> QED BY <1>2, <1>3, <1>8, <1>9, <1>10, <1>11, <1>12, CountLinks

\* The second inode of link() gets the entry that it was counted for.
LEMMA LinkEntryLinks ==
  ASSUME IInv1, IInv2, Layer3, NEW p \in Procs, AtLock(p, "parent"), Moves(p), th[p].dp # 0,
         th[p].op = "link2", NEW s, s = th[p].ip, NEW x, x = th[p].dp,
         NEW name \in Names, dirlookup(Inum(s), name) = 0,
         UNCHANGED <<itable, dinode, panic>>, ents' = dirlink(Inum(s), name, Inum(x)),
         th'[p].pc = "idle", th'[p].put[1].at = "drop"
  PROVE  Layer3'
<1> PICK d, j : d = Inum(s) /\ j = Inum(x)
  OBVIOUS
<1>1. d \in Inums /\ dinode[d].type = "dir"
  BY ParentReady DEF Inum
<1>2. th[p].pc = "parent" /\ Len(th[p].put) = 0
  BY NoLen DEF AtLock
<1>3. x \in Slots /\ j \in Inums /\ dinode[j].type # "dir" /\ x # 0
  BY SecondReady
<1>4. TypeOK /\ LinkOK /\ DotsOK /\ RootOK /\ IInv1'
  BY MovesKeeps DEF IInv1, Layer3
<1>5. \A e \in Inums, n \in EntryNames : ents'[e][n] = IF e = d /\ n = name THEN j ELSE ents[e][n]
  <2>1. ents \in [Inums -> [EntryNames -> 0 .. NInodes]] /\ ents' = [ents EXCEPT ![d][name] = j]
    BY <1>4 DEF TypeOK, dirlink
  <2> QED BY <1>1, <2>1, Consts
<1>6. Pending(th[p]) = x /\ Pending(th'[p]) = 0
  BY <1>2 DEF Pending
<1>7. ents[d][name] = 0 /\ 0 \notin Inums
  BY Consts DEF dirlookup
<1>8. ASSUME NEW i \in Inums, NEW c, ClaimForm(c, i)'
      PROVE  (ClaimForm(c, i) /\ c # <<"owed", p>>) \/ (c = <<"link", <<d, name>>>> /\ i = j)
  <2>1. CASE \E e \in Inums, n \in Names : c = <<"link", <<e, n>>>> /\ ents'[e][n] = i
    <3>1. PICK e \in Inums, n \in Names : c = <<"link", <<e, n>>>> /\ ents'[e][n] = i
      BY <2>1
    <3> QED BY <1>5, <3>1, Consts DEF ClaimForm
  <2>2. CASE \E n \in Names : c = <<"sub", n>> /\ ents'[i][n] # 0 /\ dinode'[ents'[i][n]].type = "dir"
    <3>1. PICK n \in Names : c = <<"sub", n>> /\ ents'[i][n] # 0 /\ dinode[ents'[i][n]].type = "dir"
      BY <2>2
    <3>2. ents'[i][n] = ents[i][n]
      BY <1>3, <1>5, <3>1, Consts
    <3> QED BY <3>1, <3>2 DEF ClaimForm
  <2>3. CASE \E q \in Procs \ {p} : c = <<"owed", q>> /\ Owes(q, i)
    BY <2>3 DEF ClaimForm
  <2>4. CASE c = <<"root", 0>> /\ i = ROOTINO
    BY <2>4 DEF ClaimForm
  <2>5. ~Owes(p, i)'
    BY <1>6 DEF Owes
  <2> QED BY <1>8, <2>1, <2>2, <2>3, <2>4, <2>5, ClaimCases
<1>9. LinkOK'
  <2>1. ASSUME NEW i \in Inums, i # j PROVE Cardinality(Claims(i)') <= dinode'[i].nlink
    <3>1. \A c : ClaimForm(c, i)' => ClaimForm(c, i)
      BY <1>8, <2>1
    <3> QED BY <1>4, <3>1, KeptClaims
  <2>2. Cardinality(Claims(j)') <= dinode'[j].nlink
    <3>1. PICK a, b : a = <<"link", <<d, name>>>> /\ b = <<"owed", p>>
      OBVIOUS
    <3>2. \A c : ClaimForm(c, j)' => (ClaimForm(c, j) /\ c # b) \/ c = a
      BY <1>3, <1>8, <3>1
    <3>3. ClaimForm(b, j)
      BY <1>3, <1>6, <3>1 DEF ClaimForm, Owes
    <3> QED BY <1>3, <1>4, <3>2, <3>3, SwapClaims
  <2> QED BY <1>4, <2>1, <2>2 DEF LinkOK
<1>10. \A q \in Procs : \A e : Fresh(q, e) => Fresh(q, e)'
  BY <1>2, FreshStays
<1>11. DotsOK'
  <2>1. ASSUME NEW e \in Inums, dinode'[e].type = "dir", \A q \in Procs : ~Fresh(q, e)'
        PROVE  ents'[e]["."] = e /\ ents'[e][".."] \in Inums
    <3>1. ents[e]["."] = e /\ ents[e][".."] \in Inums
      BY <1>4, <1>10, <2>1 DEF DotsOK
    <3> QED BY <1>5, <3>1, Consts
  <2>2. ASSUME NEW e \in Inums, NEW i \in Inums, NEW n \in Names, ents'[e][n] = i, dinode'[i].type = "dir"
        PROVE  ents'[i][".."] = e
    <3>1. ents[e][n] = i
      BY <1>3, <1>5, <2>2, Consts
    <3>2. ents[i][".."] = e
      BY <1>4, <2>2, <3>1 DEF DotsOK
    <3> QED BY <1>5, <3>2, Consts
  <2> QED BY <2>1, <2>2 DEF DotsOK
<1>12. RootOK'
  <2>1. dinode[ROOTINO].type = "dir" /\ ents[ROOTINO][".."] = ROOTINO /\ Links(ROOTINO) = {}
    BY <1>4 DEF RootOK
  <2>2. ASSUME NEW e \in Inums, NEW n \in Names PROVE ents[e][n] # ROOTINO
    <3>1. <<e, n>> \notin Links(ROOTINO)
      BY <2>1
    <3> QED BY <3>1 DEF Links
  <2>3. \A e \in Inums, n \in Names : ents'[e][n] # ROOTINO
    BY <1>3, <1>5, <2>1, <2>2, Consts
  <2>4. ents'[ROOTINO][".."] = ROOTINO
    BY <1>5, <2>1, Consts
  <2> QED BY <2>1, <2>3, <2>4 DEF RootOK, Links
<1>13. Reaches(p)
  <2>1. PICK k : k = 0
    OBVIOUS
  <2>2. \A u \in Slots : itable'[u].ref <= itable[u].ref
    <3>1. \A u \in Slots : itable[u].ref \in Nat
      BY TableIs DEF TableOK
    <3> QED BY <3>1
  <2> QED BY <1>2, <2>1, <2>2, CallReaches
<1>14. Frees(p) /\ Turns(p)
  BY DEF Frees, Turns
<1>15. FreshOK(p)' /\ LastOK(p)'
  BY DEF FreshOK, LastOK, Erasing
<1>16. AliveOK'
  BY <1>4, <1>13, <1>14, <1>15, AliveKeeps
<1> QED BY <1>9, <1>11, <1>12, <1>16 DEF Layer3

\* link() enters the link that it owes, or gives up.
LEMMA LinkDirLinks ==
  ASSUME IInv1, IInv2, Layer3, NEW p \in Procs, LinkDir(p), ~astray'
  PROVE  Layer3'
<1> PICK t, s, x, d, e, i, k : /\ t = th[p] /\ s = t.ip /\ x = t.dp /\ d = Inum(s) /\ e = t.name
                               /\ i = dirlookup(d, e) /\ k = IgetSlot(itable, i)
  OBVIOUS
<1>1. /\ AtLock(p, "parent") /\ "parent" \in LockPlaces /\ UNCHANGED <<dinode, panic>> /\ Moves(p)
      /\ t.op = "link2" /\ Look(d, e)
  BY LinkDirMoves DEF LinkDir, LockPlaces, Inum
<1>2. /\ s \in Slots /\ Load(s) = itable /\ d \in Inums /\ dinode[d].type = "dir"
      /\ Len(t.put) = 0 /\ t.pc = "parent"
  BY <1>1, ParentReady, NoLen DEF AtLock, Inum
<1>3. t \in ThRec /\ x # 0 /\ e \in EntryNames /\ Pending(t) = x
  BY <1>1, <1>2 DEF IInv1, TypeOK, PlaceOK, ThreadOK, Pending
<1>4. x \in Slots
  BY <1>1, <1>3, SecondReady
<1>5. CASE /\ i # 0 /\ itable' = Locked(iget(itable, i), s, p) /\ ents' = ents
           /\ th' = [th EXCEPT ![p] = Failed(t, <<Stage(k, "drop"), Stage(s, "unlock")>>)]
  <2>1. PICK tb, a : tb = iget(a, i) /\ a = itable
    OBVIOUS
  <2>2. i \in Inums /\ i # 0
    BY <1>2, <1>3, <1>5, LookupIn DEF IInv1, Inum
  <2>3. TableOK(a) /\ k \in Slots /\ Takes(a, tb, k) /\ Near(itable, a)
    BY <2>1, <2>2, TableIs, IgetTakes, IgetWhere, NearSame
  <2>4. tb \in [Slots -> SlotRec]
    BY <2>3 DEF Takes
  <2>5. Near(iget(a, i), itable')
    <3>1. itable' = Locked(tb, s, p) /\ p \in Procs \cup {Nobody}
      BY <1>5, <2>1
    <3> QED BY <1>2, <2>1, <2>4, <3>1, LockedIs
  <2>6. /\ \A u \in Slots : u # k => itable'[u].ref <= itable[u].ref
        /\ (\E w \in Pointers : Pointer(p, w) = k) \/ dinode[itable'[k].inum].nlink > 0
    <3>1. ~(e = ".." /\ d # ROOTINO /\ Links(d) = {})
      BY <1>1 DEF Look
    <3>2. /\ th[p].pc \in {"namex", "parent"} /\ d = Inum(th[p].ip) /\ dinode[d].type = "dir"
          /\ e \in EntryNames /\ i = dirlookup(d, e) /\ i # 0 /\ k = IgetSlot(a, i)
      BY <1>2, <1>3, <2>1, <2>2
    <3> QED BY <2>3, <2>5, <3>1, <3>2, LookupReaches
  <2>7. PICK n : n = Failed(t, <<Stage(k, "drop"), Stage(s, "unlock")>>)
    OBVIOUS
  <2>8. Len(n.put) = 2 /\ n.put[1].at = "drop" /\ n.pc = "bad" /\ n.ip = x
    BY <1>1, <1>2, <1>3, <2>3, <2>7, FailedTwo
  <2>9. th'[p] = n
    BY <1>5, <2>7 DEF IInv1, TypeOK
  <2>10. Pending(th'[p]) = Pending(t)
    BY <1>3, <2>8, <2>9 DEF Pending
  <2>11. th'[p].pc # "init" /\ th'[p].put[1].at # "erase" /\ UNCHANGED <<dinode, ents, panic>>
    BY <1>1, <1>5, <2>8, <2>9
  <2> QED BY <1>1, <1>2, <2>6, <2>10, <2>11, Quiet3
<1>6. CASE /\ i = 0 /\ itable' = itable /\ ents' = dirlink(d, e, Inum(x))
           /\ th' = [th EXCEPT ![p] = Done(<<Stage(s, "drop"), Stage(x, "drop")>>)]
  <2>1. th'[p].pc = "idle" /\ th'[p].put[1].at = "drop"
    BY <1>2, <1>4, <1>6, TwoAfter
  <2>2. e \in Names
    BY <1>2, <1>6, NewName
  <2> QED BY <1>1, <1>3, <1>6, <2>1, <2>2, LinkEntryLinks
<1>7. CASE itable' = Load(s) /\ ents' = ents /\ th' = [th EXCEPT ![p] = Failed(t, <<Stage(s, "drop")>>)]
  BY <1>1, <1>7, FailLinks
<1>8. \/ /\ i # 0 /\ itable' = Locked(iget(Load(s), i), s, p) /\ UNCHANGED ents
         /\ th' = [th EXCEPT ![p] = Failed(t, <<Stage(IgetSlot(Load(s), i), "drop"), Stage(s, "unlock")>>)]
      \/ /\ i = 0 /\ itable' = Load(s) /\ ents' = dirlink(d, e, Inum(x))
         /\ th' = [th EXCEPT ![p] = Done(<<Stage(s, "drop"), Stage(x, "drop")>>)]
      \/ /\ itable' = Load(s) /\ th' = [th EXCEPT ![p] = Failed(t, <<Stage(s, "drop")>>)]
         /\ UNCHANGED ents
  BY DEF LinkDir, Inum
<1> QED BY <1>2, <1>5, <1>6, <1>7, <1>8

-----------------------------------------------------------------------------
(* Letting an inode go.                                                    *)

\* The two inodes of the list of a thread.
LEMMA PutAtPointers ==
  ASSUME NEW t, NEW a, NEW x, NEW b, NEW y, PutAt(t, a, x, b, y)
  PROVE  PutSlot(t, 1) = a /\ PutSlot(t, 2) = b /\ a # 0
<1>1. Stage(a, x).s = a /\ Stage(b, y).s = b
  BY StageIs
<1>2. PutSlot(t, 1) = a /\ a # 0
  BY <1>1, Consts DEF PutAt, PutSlot
<1>3. CASE b = 0 /\ Len(t.put) = 1
  BY <1>2, <1>3 DEF PutSlot
<1>4. CASE Len(t.put) = 2 /\ t.put[2] = Stage(b, y)
  BY <1>1, <1>2, <1>4 DEF PutSlot
<1> QED BY <1>3, <1>4 DEF PutAt

\* An inode that stays in the list stays what it was, given up or not.
LEMMA StageReaches ==
  ASSUME IInv1, NEW p \in Procs, NEW a, NEW x, NEW b, NEW y, PutAt(th[p], a, x, b, y),
         NEW x1 \in Stages, Advance(p, x1), UNCHANGED <<cwd, ofile>>,
         x \in {"release", "last"} => x1 \in {"release", "last"}
  PROVE  /\ Reaches(p) /\ \A v \in Pointers : Pointer(p, v)' = Pointer(p, v)
         /\ Pending(th'[p]) = Pending(th[p])
<1>1. /\ PutAt(th'[p], a, x1, b, y) /\ th'[p].op = th[p].op
      /\ th'[p].pc = th[p].pc /\ th'[p].ip = th[p].ip /\ th'[p].dp = th[p].dp
  BY AdvanceShape
<1>2. /\ PutSlot(th[p], 1) = a /\ PutSlot(th[p], 2) = b
      /\ PutSlot(th'[p], 1) = a /\ PutSlot(th'[p], 2) = b
  BY <1>1, PutAtPointers
<1>3. \A v \in Pointers : Pointer(p, v)' = Pointer(p, v)
  BY <1>1, <1>2 DEF Pointer, Pointers
<1>4. \A v : Gone(th[p], v) => Gone(th'[p], v)
  <2>1. /\ Len(th[p].put) >= 1 /\ th[p].put[1].at = x
        /\ Len(th'[p].put) >= 1 /\ th'[p].put[1].at = x1
    BY <1>1, StageIs DEF PutAt
  <2> QED BY <2>1 DEF Gone
<1>5. Reaches(p)
  BY <1>3, <1>4 DEF Reaches
<1> QED BY <1>1, <1>3, <1>5 DEF Pending

\* A step of iunlockput() that does not write the disk.
LEMMA QuietPut ==
  ASSUME IInv1, IInv2, Layer3, NEW p \in Procs, Moves(p), UNCHANGED <<dinode, ents, panic>>,
         Len(th[p].put) >= 1, th'[p].pc = th[p].pc, Pending(th'[p]) = Pending(th[p]),
         Reaches(p), LastOK(p)'
  PROVE  Layer3'
<1>1. th[p].pc # "init" /\ th'[p].pc # "init"
  <2>1. Len(th[p].put) # 0
    OBVIOUS
  <2> QED BY <2>1 DEF IInv1, PlaceOK, ThreadOK, Alone
<1>2. LinkOK' /\ DotsOK' /\ RootOK'
  BY <1>1, QuietLinks DEF Layer3
<1>3. Frees(p) /\ Turns(p)
  BY DEF Frees, Turns
<1>4. FreshOK(p)' /\ IInv1'
  BY <1>1, MovesKeeps DEF FreshOK
<1>5. AliveOK'
  BY <1>3, <1>4, AliveKeeps
<1> QED BY <1>2, <1>5 DEF Layer3

\* iunlock() changes nothing but the lock.
LEMMA iunlockLinks == ASSUME IInv1, IInv2, Layer3, NEW p \in Procs, iunlock(p) PROVE Layer3'
<1>1. PICK a, b, y : UnlockStep(p, a, b, y)
  BY iunlockIs
<1>2. /\ PutAt(th[p], a, "unlock", b, y) /\ Advance(p, "drop") /\ UNCHANGED <<cwd, ofile>>
      /\ UNCHANGED <<dinode, ents, panic>> /\ Moves(p)
  BY <1>1, iunlockMoves DEF UnlockStep
<1>3. "drop" \in Stages
  BY DEF Stages
<1>4. /\ Len(th[p].put) >= 1 /\ th'[p].pc = th[p].pc
      /\ \A u : Erasing(p, u)' <=> "drop" = "erase" /\ u = a
  BY <1>2, <1>3, StageAfter
<1>5. "unlock" \in {"release", "last"} => "drop" \in {"release", "last"}
  OBVIOUS
<1>6. Reaches(p) /\ Pending(th'[p]) = Pending(th[p])
  BY <1>2, <1>3, <1>5, StageReaches
<1>7. LastOK(p)'
  BY <1>4 DEF LastOK
<1> QED BY <1>2, <1>4, <1>6, <1>7, QuietPut

\* The slot of an inode that has been freed is unlocked.
LEMMA IputReleaseLinks == ASSUME IInv1, IInv2, Layer3, NEW p \in Procs, IputRelease(p) PROVE Layer3'
<1>1. PICK a, b, y : ReleaseStep(p, a, b, y)
  BY IputReleaseIs
<1>2. /\ PutAt(th[p], a, "release", b, y) /\ Advance(p, "last") /\ UNCHANGED <<cwd, ofile>>
      /\ UNCHANGED <<dinode, ents, panic>> /\ Moves(p)
  BY <1>1, IputReleaseMoves DEF ReleaseStep
<1>3. "last" \in Stages
  BY DEF Stages
<1>4. /\ Len(th[p].put) >= 1 /\ th'[p].pc = th[p].pc
      /\ \A u : Erasing(p, u)' <=> "last" = "erase" /\ u = a
  BY <1>2, <1>3, StageAfter
<1>5. "release" \in {"release", "last"} => "last" \in {"release", "last"}
  OBVIOUS
<1>6. Reaches(p) /\ Pending(th'[p]) = Pending(th[p])
  BY <1>2, <1>3, <1>5, StageReaches
<1>7. LastOK(p)'
  BY <1>4 DEF LastOK
<1> QED BY <1>2, <1>4, <1>6, <1>7, QuietPut

\* The last user of an inode is its only one.
LEMMA IputFreeLinks == ASSUME IInv1, IInv2, Layer3, NEW p \in Procs, IputFree(p) PROVE Layer3'
<1>1. PICK a, b, y : FreeStep(p, a, b, y)
  BY IputFreeIs
<1>2. /\ PutAt(th[p], a, "drop", b, y) /\ Advance(p, "erase") /\ UNCHANGED <<cwd, ofile>>
      /\ UNCHANGED <<dinode, ents, panic>> /\ Moves(p) /\ itable[a].ref = 1
  BY <1>1, IputFreeMoves DEF FreeStep, LastUse
<1>3. "erase" \in Stages
  BY DEF Stages
<1>4. /\ Len(th[p].put) >= 1 /\ th'[p].pc = th[p].pc /\ a \in Slots /\ Pointer(p, "put1") = a
      /\ \A u : Erasing(p, u)' <=> "erase" = "erase" /\ u = a
  BY <1>2, <1>3, StageAfter
<1>5. "drop" \in {"release", "last"} => "erase" \in {"release", "last"}
  OBVIOUS
<1>6. /\ Reaches(p) /\ Pending(th'[p]) = Pending(th[p])
      /\ \A v \in Pointers : Pointer(p, v)' = Pointer(p, v)
  BY <1>2, <1>3, <1>5, StageReaches
<1>7. \A q \in Procs, v \in Pointers : Pointer(q, v) = a => q = p /\ v = "put1"
  <2>1. Refs(a) = 1 /\ "put1" \in Pointers
    BY <1>2, <1>4 DEF IInv1, RefOK, Pointers
  <2>2. /\ Own(p, a) \in Nat /\ Own(p, a) >= 1 /\ Refs(a) >= Own(p, a)
        /\ \A v \in Pointers : v # "put1" /\ Pointer(p, v) = a => Own(p, a) >= 2
        /\ \A q \in Procs, v \in Pointers : q # p /\ Pointer(q, v) = a => Refs(a) >= Own(p, a) + 1
    BY <1>4, <2>1, OwnBounds
  <2> QED BY <2>1, <2>2
<1>8. LastOK(p)'
  <2> SUFFICES ASSUME NEW q \in Procs, NEW v \in Pointers, Pointer(q, v)' = a
               PROVE  q = p /\ v = "put1"
    BY <1>4 DEF LastOK
  <2>1. Pointer(q, v) = a
    BY <1>2, <1>6, OthersKeep
  <2> QED BY <1>7, <2>1
<1> QED BY <1>2, <1>4, <1>6, <1>8, QuietPut

\* A reference is given back: what the others can reach stays.
LEMMA DropLinks ==
  ASSUME IInv1, IInv2, Layer3, NEW p \in Procs, iput(p) \/ IputLast(p)
  PROVE  Layer3'
<1>1. PICK a, x, b, y : DropStep(p, a, x, b, y)
  BY DropIs
<1>2. /\ PutAt(th[p], a, x, b, y) /\ th' = [th EXCEPT ![p].put = Tail(@)] /\ UNCHANGED <<cwd, ofile>>
      /\ UNCHANGED <<dinode, ents, panic>> /\ Moves(p)
  BY <1>1, DropMoves DEF DropStep
<1>3. /\ Shape(th'[p], th[p].pc, th[p].ip, th[p].dp, b, y, 0, "none")
      /\ th'[p].pc = th[p].pc /\ th'[p].ip = th[p].ip /\ th'[p].dp = th[p].dp /\ th'[p].op = th[p].op
  BY <1>2, PopShape
<1>4. /\ Shape(th[p], th[p].pc, th[p].ip, th[p].dp, a, x, b, y) /\ a # 0
      /\ Pointer(p, "put1") = a /\ Pointer(p, "put2") = b /\ y \in {"unlock", "drop", "none"}
      /\ b = 0 \/ b \in Slots
  BY <1>2, PutIs
<1>5. Len(th[p].put) >= 1
  BY <1>4 DEF Shape
<1>6. PutSlot(th'[p], 1) = b /\ PutSlot(th'[p], 2) = 0
  BY <1>3, StageIs DEF Shape, PutSlot
<1>7. ~Gone(th'[p], "put1") /\ \A u : ~Erasing(p, u)'
  <2>1. b = 0 => Len(th'[p].put) = 0
    BY <1>3 DEF Shape
  <2>2. b # 0 => th'[p].put[1].at = y
    BY <1>3, StageIs DEF Shape
  <2> QED BY <1>4, <2>1, <2>2 DEF Gone, Erasing
<1>8. Reaches(p)
  <2> SUFFICES ASSUME NEW s \in Slots, NEW v \in Pointers, Pointer(p, v)' = s
               PROVE  \E w \in Pointers : Pointer(p, w) = s /\ ~Gone(th[p], w)
    BY DEF Reaches
  <2>1. CASE v \in {"cwd", "ofile", "ip", "dp"}
    <3>1. Pointer(p, v) = s
      BY <1>2, <1>3, <2>1, PutFrame
    <3> QED BY <2>1, <3>1 DEF Gone
  <2>2. CASE v = "put1"
    <3>1. Pointer(p, "put2") = s
      BY <1>4, <1>6, <2>2 DEF Pointer
    <3> QED BY <3>1 DEF Gone, Pointers
  <2>3. CASE v = "put2"
    BY <1>6, <2>3, Consts DEF Pointer
  <2> QED BY <2>1, <2>2, <2>3 DEF Pointers
<1>9. LastOK(p)' /\ Pending(th'[p]) = Pending(th[p])
  BY <1>3, <1>7 DEF LastOK, Pending
<1> QED BY <1>2, <1>3, <1>5, <1>8, <1>9, QuietPut

\* No directory has an entry of the root.
LEMMA RootLinks == Links(ROOTINO) = {} <=> \A d \in Inums, n \in Names : ents[d][n] # ROOTINO
<1>1. ASSUME Links(ROOTINO) = {}, NEW d \in Inums, NEW n \in Names PROVE ents[d][n] # ROOTINO
  <2>1. <<d, n>> \notin Links(ROOTINO)
    BY <1>1
  <2> QED BY <2>1 DEF Links
<1>2. ASSUME \A d \in Inums, n \in Names : ents[d][n] # ROOTINO PROVE Links(ROOTINO) = {}
  BY <1>2 DEF Links
<1> QED BY <1>1, <1>2

\* No entry names the root.
LEMMA RootLinksNext == Links(ROOTINO)' = {} <=> \A d \in Inums, n \in Names : ents'[d][n] # ROOTINO
<1>1. (Links(ROOTINO) = {} <=> \A d \in Inums, n \in Names : ents[d][n] # ROOTINO)'
  BY RootLinks, PTL
<1> QED BY <1>1

\* Nothing counts on an inode that is erased.
LEMMA IputEraseLinks == ASSUME IInv1, IInv2, Layer3, NEW p \in Procs, IputErase(p) PROVE Layer3'
<1>1. PICK a, b, y : EraseStep(p, a, b, y)
  BY IputEraseIs
<1>2. /\ PutAt(th[p], a, "erase", b, y) /\ Advance(p, "release") /\ UNCHANGED <<cwd, ofile>>
      /\ UNCHANGED panic /\ Moves(p)
  BY <1>1, IputEraseMoves DEF EraseStep
<1>3. "release" \in Stages
  BY DEF Stages
<1>4. /\ Len(th[p].put) >= 1 /\ th'[p].pc = th[p].pc /\ a \in Slots
      /\ \A u : /\ Erasing(p, u) <=> "erase" = "erase" /\ u = a
                /\ Erasing(p, u)' <=> "release" = "erase" /\ u = a
                /\ Releasing(p, u)' <=> "release" = "release" /\ u = a
  BY <1>2, <1>3, StageAfter
<1>5. "erase" \in {"release", "last"} => "release" \in {"release", "last"}
  OBVIOUS
<1>6. /\ Reaches(p) /\ Pending(th'[p]) = Pending(th[p])
      /\ \A v \in Pointers : Pointer(p, v)' = Pointer(p, v)
  BY <1>2, <1>3, <1>5, StageReaches
<1>7. PICK i0 : i0 = Inum(a)
  OBVIOUS
<1>8. /\ i0 \in Inums /\ dinode[i0].nlink = 0 /\ itable[a].nlink = 0
  <2>1. Erasing(p, a)
    BY <1>4
  <2> QED BY <1>4, <1>7, <2>1, ErasedIs DEF IInv2, CacheOK
<1>9. /\ dinode'[i0].type = "free" /\ dinode'[i0].nlink = 0
      /\ \A i \in Inums : i # i0 => dinode'[i] = dinode[i]
  BY <1>1, <1>7, <1>8 DEF EraseStep, Inum
<1>10. \A e \in Inums, n \in EntryNames : ents'[e][n] = IF e = i0 THEN 0 ELSE ents[e][n]
  <2>1. ents \in [Inums -> [EntryNames -> 0 .. NInodes]] /\ ents' = [ents EXCEPT ![i0] = NoEntries]
    BY <1>1, <1>7 DEF IInv1, TypeOK, EraseStep, Inum
  <2> QED BY <1>8, <2>1, NoEntriesIs
<1>11. TypeOK /\ LinkOK /\ DotsOK /\ RootOK /\ IInv1'
  BY <1>2, MovesKeeps DEF IInv1, Layer3
<1>12. /\ i0 # ROOTINO
       /\ \A d \in Inums, n \in Names : ents[d][n] # i0
       /\ \A n \in Names : ents[i0][n] # 0 => dinode[ents[i0][n]].type # "dir"
  BY <1>8, <1>11, NoClaims
<1>13. th[p].pc # "init" /\ th'[p].pc # "init"
  <2>1. Len(th[p].put) # 0
    BY <1>4
  <2> QED BY <1>4, <2>1 DEF IInv1, PlaceOK, ThreadOK, Alone
<1>14. ASSUME NEW i \in Inums, NEW c, ClaimForm(c, i)' PROVE ClaimForm(c, i)
  <2>1. CASE \E d \in Inums, n \in Names : c = <<"link", <<d, n>>>> /\ ents'[d][n] = i
    <3>1. PICK d \in Inums, n \in Names : c = <<"link", <<d, n>>>> /\ ents'[d][n] = i
      BY <2>1
    <3> QED BY <1>10, <3>1, Consts DEF ClaimForm
  <2>2. CASE \E n \in Names : c = <<"sub", n>> /\ ents'[i][n] # 0 /\ dinode'[ents'[i][n]].type = "dir"
    <3>1. PICK n \in Names : c = <<"sub", n>> /\ ents'[i][n] # 0 /\ dinode'[ents'[i][n]].type = "dir"
      BY <2>2
    <3>2. ents'[i][n] = ents[i][n]
      BY <1>10, <3>1, Consts
    <3>3. ents[i][n] \in Inums
      <4>1. ents[i][n] \in 0 .. NInodes
        BY <1>11, Consts DEF TypeOK
      <4> QED BY <3>1, <3>2, <4>1, Consts DEF Inums
    <3> QED BY <1>9, <3>1, <3>2, <3>3 DEF ClaimForm
  <2>3. CASE \E q \in Procs \ {p} : c = <<"owed", q>> /\ Owes(q, i)
    BY <2>3 DEF ClaimForm
  <2>4. CASE c = <<"root", 0>> /\ i = ROOTINO
    BY <2>4 DEF ClaimForm
  <2>5. CASE c = <<"owed", p>> /\ Owes(p, i)'
    BY <1>2, <1>6, <2>5, OwesSame DEF ClaimForm
  <2> QED BY <1>2, <1>14, <2>1, <2>2, <2>3, <2>4, <2>5, ClaimCases
<1>15. LinkOK'
  <2>1. ASSUME NEW i \in Inums PROVE Cardinality(Claims(i)') <= dinode'[i].nlink
    <3>1. dinode'[i].nlink = dinode[i].nlink
      BY <1>8, <1>9
    <3> QED BY <1>11, <1>14, <3>1, KeptClaims
  <2> QED BY <1>9, <1>11, <2>1 DEF LinkOK
<1>16. \A q \in Procs : \A e : Fresh(q, e) => Fresh(q, e)'
  BY <1>2, <1>13, FreshStays
<1>17. DotsOK'
  <2>1. ASSUME NEW e \in Inums, dinode'[e].type = "dir", \A q \in Procs : ~Fresh(q, e)'
        PROVE  ents'[e]["."] = e /\ ents'[e][".."] \in Inums
    <3>1. e # i0 /\ dinode[e].type = "dir"
      BY <1>9, <2>1
    <3>2. ents[e]["."] = e /\ ents[e][".."] \in Inums
      BY <1>11, <1>16, <2>1, <3>1 DEF DotsOK
    <3> QED BY <1>10, <3>1, <3>2, Consts
  <2>2. ASSUME NEW e \in Inums, NEW i \in Inums, NEW n \in Names, ents'[e][n] = i, dinode'[i].type = "dir"
        PROVE  ents'[i][".."] = e
    <3>1. ents[e][n] = i /\ i # i0 /\ dinode[i].type = "dir"
      BY <1>9, <1>10, <2>2, Consts
    <3>2. ents[i][".."] = e
      BY <1>11, <3>1 DEF DotsOK
    <3> QED BY <1>10, <3>1, <3>2, Consts
  <2> QED BY <2>1, <2>2 DEF DotsOK
<1>18. RootOK'
  <2>1. /\ dinode[ROOTINO].type = "dir" /\ ents[ROOTINO][".."] = ROOTINO
        /\ \A d \in Inums, n \in Names : ents[d][n] # ROOTINO
    BY <1>11, RootLinks DEF RootOK
  <2>2. \A d \in Inums, n \in Names : ents'[d][n] # ROOTINO
    BY <1>10, <2>1, Consts
  <2>3. dinode'[ROOTINO].type = "dir" /\ ents'[ROOTINO][".."] = ROOTINO
    BY <1>9, <1>10, <1>12, <2>1, Consts
  <2> QED BY <2>2, <2>3, RootLinksNext DEF RootOK
<1>19. Frees(p)
  <2>1. Erasing(p, a) /\ Releasing(p, a)'
    BY <1>4
  <2> QED BY <1>4, <1>6, <1>7, <1>9, <2>1 DEF Frees
<1>20. Turns(p)
  BY <1>8, <1>9 DEF Turns
<1>21. FreshOK(p)' /\ LastOK(p)'
  BY <1>4, <1>13 DEF FreshOK, LastOK
<1>22. AliveOK'
  BY <1>2, <1>6, <1>11, <1>19, <1>20, <1>21, AliveKeeps
<1>23. panic' = "none"
  BY <1>2 DEF Layer3
<1> QED BY <1>15, <1>17, <1>18, <1>22, <1>23 DEF Layer3

\* Every step of iput() and iunlockput().
LEMMA PutLinks == ASSUME IInv1, IInv2, Layer3, NEW p \in Procs, PutStep(p) PROVE Layer3'
BY iunlockLinks, IputFreeLinks, IputEraseLinks, IputReleaseLinks, DropLinks DEF PutStep

\* What unlink() has written to the disk.
LEMMA UnlinkDisk ==
  ASSUME IInv1, IInv2, NEW p \in Procs, AtLock(p, "child"), Moves(p),
         NEW s, s = th[p].ip, NEW d, d = th[p].dp,
         NEW b, b = Load(s), NEW tl, tl = Locked(b, s, p),
         NEW name \in Names, TakesEntry(p, tl, s, d, name)
  PROVE  /\ d \in Slots /\ Inum(s) \in Inums /\ Inum(d) \in Inums /\ Inum(s) # Inum(d) /\ Inum(s)' = Inum(s)
         /\ \A u \in Slots : itable'[u].ref = itable[u].ref
         /\ \A i \in Inums : i # Inum(d) => dinode'[i] = dinode[i]
         /\ dinode'[Inum(d)].type = dinode[Inum(d)].type
         /\ dinode'[Inum(d)].nlink = IF dinode[Inum(s)].type = "dir" THEN dinode[Inum(d)].nlink - 1
                                     ELSE dinode[Inum(d)].nlink
<1>1. /\ s \in Slots /\ itable[s].ref > 0 /\ itable[s].inum \in Inums /\ itable[s].lock = Nobody
      /\ b \in [Slots -> SlotRec] /\ Near(itable, b) /\ \A u \in Slots : u # s => b[u] = itable[u]
      /\ th[p].pc = "child"
  BY LockReady DEF LockPlaces
<1>2. /\ d \in Slots /\ itable[d].lock = p /\ itable[d].ref > 0 /\ itable[d].inum \in Inums
      /\ itable[d].type = dinode[Inum(d)].type /\ itable[d].nlink = dinode[Inum(d)].nlink
  BY <1>1, DpReady DEF Coherent
<1>3. s # d
  BY <1>1, <1>2, Consts
<1>4. b[s].type = dinode[Inum(s)].type
  <2>1. "child" \in LockPlaces
    BY DEF LockPlaces
  <2> QED BY <2>1, LoadCoherent
<1>5. /\ tl[s].type = b[s].type /\ tl[d] = b[d] /\ tl \in [Slots -> SlotRec] /\ Near(b, tl)
  <2>1. p \in Procs \cup {Nobody}
    OBVIOUS
  <2> QED BY <1>1, <1>2, <1>3, <2>1, LockedIs DEF Near
<1>6. PICK c : c = tl[d].nlink - 1
  OBVIOUS
<1>7. itable' = IF dinode[Inum(s)].type = "dir" THEN SetNlink(tl, d, c) ELSE tl
  BY <1>4, <1>5, <1>6 DEF TakesEntry, ChildTable
<1>8. /\ Near(tl, itable') /\ itable'[d].type = tl[d].type
      /\ itable'[d].nlink = IF dinode[Inum(s)].type = "dir" THEN c ELSE tl[d].nlink
  <2>1. CASE dinode[Inum(s)].type = "dir"
    <3>1. c \in Int
      BY <1>2, <1>5, <1>6 DEF SlotRec
    <3> QED BY <1>2, <1>5, <1>7, <2>1, <3>1, NlinkIs
  <2>2. CASE dinode[Inum(s)].type # "dir"
    BY <1>5, <1>7, <2>2 DEF Near
  <2> QED BY <2>1, <2>2
<1>9. itable'[d].type = dinode[Inum(d)].type /\ dinode' = iupdate(itable', d)
  BY <1>1, <1>2, <1>3, <1>5, <1>8 DEF TakesEntry
<1>10. /\ Inum(d) \in Inums /\ dinode'[Inum(d)].type = dinode[Inum(d)].type
       /\ dinode'[Inum(d)].nlink = itable'[d].nlink
       /\ \A i \in Inums : i # Inum(d) => dinode'[i] = dinode[i]
  BY <1>2, <1>9, NlinkDisk
<1>11. \A u \in Slots : itable'[u].ref = itable[u].ref
  BY <1>1, <1>5, <1>8 DEF Near
<1>12. Inum(s) \in Inums /\ Inum(s) # Inum(d) /\ Inum(s)' = Inum(s)
  BY <1>1, <1>2, <1>3 DEF IInv1, RefOK, Moves, Counts, Inum
<1> QED BY <1>1, <1>2, <1>3, <1>5, <1>6, <1>8, <1>10, <1>11, <1>12

\* The entry of a child counts, and so does the child if it is a directory.
LEMMA UnlinkEntryLinks ==
  ASSUME IInv1, IInv2, Layer3, NEW p \in Procs, AtLock(p, "child"), Moves(p), UNCHANGED panic,
         NEW s, s = th[p].ip, NEW d, d = th[p].dp,
         NEW b, b = Load(s), NEW tl, tl = Locked(b, s, p),
         NEW name \in Names, name = th[p].name, TakesEntry(p, tl, s, d, name)
  PROVE  Layer3'
<1> PICK dd, j : dd = Inum(d) /\ j = Inum(s)
  OBVIOUS
<1>1. /\ d \in Slots /\ j \in Inums /\ dd \in Inums /\ j # dd /\ Inum(s)' = j
      /\ \A u \in Slots : itable'[u].ref = itable[u].ref
      /\ \A i \in Inums : i # dd => dinode'[i] = dinode[i]
      /\ dinode'[dd].type = dinode[dd].type
      /\ dinode'[dd].nlink = IF dinode[j].type = "dir" THEN dinode[dd].nlink - 1 ELSE dinode[dd].nlink
  BY UnlinkDisk
<1>2. th[p].pc = "child" /\ Len(th[p].put) = 0 /\ s \in Slots /\ s # 0
  BY LockReady, NoLen DEF LockPlaces
<1>3. dinode[dd].type = "dir"
  BY <1>2, DpReady
<1>4. TypeOK /\ LinkOK /\ DotsOK /\ RootOK /\ IInv1'
  BY MovesKeeps DEF IInv1, Layer3
<1>5. \A e \in Inums, n \in EntryNames : ents'[e][n] = IF e = dd /\ n = name THEN 0 ELSE ents[e][n]
  <2>1. ents \in [Inums -> [EntryNames -> 0 .. NInodes]] /\ ents' = [ents EXCEPT ![dd][name] = 0]
    BY <1>4 DEF TypeOK, TakesEntry
  <2> QED BY <1>1, <2>1, Consts
<1>6. ents[dd][name] = j /\ 0 \notin Inums
  BY <1>2, Consts DEF IInv2, TypesOK, ChildOK
<1>7. /\ th'[p].pc = "unlinked" /\ th'[p].ip = s /\ th'[p].dp = 0
      /\ Len(th'[p].put) >= 1 /\ th'[p].put[1].at = "unlock"
  <2>1. "unlinked" \in HasIp
    BY DEF HasIp
  <2> QED BY <1>1, <1>2, <2>1, OnAfter DEF TakesEntry
<1>8. \A i \in Inums : dinode'[i].type = dinode[i].type
  BY <1>1
<1>9. ASSUME NEW i, Owes(p, i)' PROVE i = j
  BY <1>1, <1>7, <1>9 DEF Owes, Pending, Inum
<1>10. ASSUME NEW i \in Inums, NEW c, ClaimForm(c, i)'
       PROVE  \/ /\ ClaimForm(c, i)
                 /\ c # <<"link", <<dd, name>>>> \/ i # j
                 /\ c # <<"sub", name>> \/ i # dd
              \/ c = <<"owed", p>> /\ i = j
  <2>1. CASE \E e \in Inums, n \in Names : c = <<"link", <<e, n>>>> /\ ents'[e][n] = i
    <3>1. PICK e \in Inums, n \in Names : c = <<"link", <<e, n>>>> /\ ents'[e][n] = i
      BY <2>1
    <3>2. ents[e][n] = i /\ ~(e = dd /\ n = name)
      BY <1>5, <1>6, <3>1, Consts
    <3> QED BY <3>1, <3>2 DEF ClaimForm
  <2>2. CASE \E n \in Names : c = <<"sub", n>> /\ ents'[i][n] # 0 /\ dinode'[ents'[i][n]].type = "dir"
    <3>1. PICK n \in Names : c = <<"sub", n>> /\ ents'[i][n] # 0 /\ dinode'[ents'[i][n]].type = "dir"
      BY <2>2
    <3>2. ents'[i][n] = ents[i][n] /\ ~(i = dd /\ n = name)
      BY <1>5, <3>1, Consts
    <3>3. ents[i][n] \in Inums
      <4>1. ents[i][n] \in 0 .. NInodes
        BY <1>4, Consts DEF TypeOK
      <4> QED BY <3>1, <3>2, <4>1, Consts DEF Inums
    <3> QED BY <1>8, <3>1, <3>2, <3>3 DEF ClaimForm
  <2>3. CASE \E q \in Procs \ {p} : c = <<"owed", q>> /\ Owes(q, i)
    BY <2>3 DEF ClaimForm
  <2>4. CASE c = <<"root", 0>> /\ i = ROOTINO
    BY <2>4 DEF ClaimForm
  <2>5. CASE c = <<"owed", p>> /\ Owes(p, i)'
    BY <1>9, <2>5
  <2> QED BY <1>10, <2>1, <2>2, <2>3, <2>4, <2>5, ClaimCases
<1>11. Cardinality(Claims(j)') <= dinode'[j].nlink
  <2>1. PICK a, c : a = <<"owed", p>> /\ c = <<"link", <<dd, name>>>>
    OBVIOUS
  <2>2. ClaimForm(c, j)
    BY <1>1, <1>6, <2>1 DEF ClaimForm
  <2>3. \A e : ClaimForm(e, j)' => (ClaimForm(e, j) /\ e # c) \/ e = a
    BY <1>1, <1>10, <2>1
  <2>4. dinode'[j].nlink = dinode[j].nlink
    BY <1>1
  <2> QED BY <1>1, <1>4, <2>2, <2>3, <2>4, SwapClaims
<1>12. Cardinality(Claims(dd)') <= dinode'[dd].nlink
  <2>1. CASE dinode[j].type = "dir"
    <3>1. PICK c : c = <<"sub", name>>
      OBVIOUS
    <3>2. ClaimForm(c, dd)
      <4>1. ents[dd][name] # 0
        BY <1>1, <1>6
      <4> QED BY <1>6, <2>1, <3>1, <4>1 DEF ClaimForm
    <3>3. \A e : ClaimForm(e, dd)' => ClaimForm(e, dd) /\ e # c
      BY <1>1, <1>10, <3>1
    <3>4. dinode'[dd].nlink = dinode[dd].nlink - 1
      BY <1>1, <2>1
    <3> QED BY <1>1, <1>4, <3>2, <3>3, <3>4, FewerClaims
  <2>2. CASE dinode[j].type # "dir"
    <3>1. \A e : ClaimForm(e, dd)' => ClaimForm(e, dd)
      BY <1>1, <1>10
    <3>2. dinode'[dd].nlink = dinode[dd].nlink
      BY <1>1, <2>2
    <3> QED BY <1>1, <1>4, <3>1, <3>2, KeptClaims
  <2> QED BY <2>1, <2>2
<1>13. LinkOK'
  <2>1. ASSUME NEW i \in Inums, i # j, i # dd PROVE Cardinality(Claims(i)') <= dinode'[i].nlink
    <3>1. \A e : ClaimForm(e, i)' => ClaimForm(e, i)
      BY <1>10, <2>1
    <3>2. dinode'[i].nlink = dinode[i].nlink
      BY <1>1, <2>1
    <3> QED BY <1>4, <3>1, <3>2, KeptClaims
  <2>2. \A i \in Inums : dinode'[i].type = "free" => dinode'[i].nlink = 0
    BY <1>1, <1>3, <1>4 DEF LinkOK
  <2> QED BY <1>11, <1>12, <2>1, <2>2 DEF LinkOK
<1>14. \A q \in Procs : \A e : Fresh(q, e) => Fresh(q, e)'
  BY <1>2, FreshStays
<1>15. DotsOK'
  <2>1. ASSUME NEW e \in Inums, dinode'[e].type = "dir", \A q \in Procs : ~Fresh(q, e)'
        PROVE  ents'[e]["."] = e /\ ents'[e][".."] \in Inums
    <3>1. ents[e]["."] = e /\ ents[e][".."] \in Inums
      BY <1>4, <1>8, <1>14, <2>1 DEF DotsOK
    <3> QED BY <1>5, <3>1, Consts
  <2>2. ASSUME NEW e \in Inums, NEW i \in Inums, NEW n \in Names, ents'[e][n] = i, dinode'[i].type = "dir"
        PROVE  ents'[i][".."] = e
    <3>1. ents[e][n] = i /\ dinode[i].type = "dir"
      BY <1>5, <1>6, <1>8, <2>2, Consts
    <3>2. ents[i][".."] = e
      BY <1>4, <3>1 DEF DotsOK
    <3> QED BY <1>5, <3>2, Consts
  <2> QED BY <2>1, <2>2 DEF DotsOK
<1>16. RootOK'
  <2>1. /\ dinode[ROOTINO].type = "dir" /\ ents[ROOTINO][".."] = ROOTINO
        /\ \A e \in Inums, n \in Names : ents[e][n] # ROOTINO
    BY <1>4, RootLinks DEF RootOK
  <2>2. \A e \in Inums, n \in Names : ents'[e][n] # ROOTINO
    BY <1>5, <1>6, <2>1, Consts
  <2>3. dinode'[ROOTINO].type = "dir" /\ ents'[ROOTINO][".."] = ROOTINO
    BY <1>5, <1>8, <2>1, Consts
  <2> QED BY <2>2, <2>3, RootLinksNext DEF RootOK
<1>17. Reaches(p)
  <2>1. PICK k : k = 0
    OBVIOUS
  <2>2. \A u \in Slots : itable'[u].ref <= itable[u].ref
    <3>1. \A u \in Slots : itable[u].ref \in Nat
      BY TableIs DEF TableOK
    <3> QED BY <1>1, <3>1
  <2> QED BY <1>2, <2>1, <2>2, CallReaches
<1>18. Frees(p)
  BY <1>8 DEF Frees
<1>19. Turns(p)
  <2>1. Pointer(p, "dp") = d /\ "dp" \in Pointers /\ ~Gone(th[p], "dp")
    BY Views DEF Pointers, Gone
  <2> QED BY <1>1, <2>1 DEF Turns
<1>20. FreshOK(p)' /\ LastOK(p)'
  BY <1>7 DEF FreshOK, LastOK, Erasing
<1>21. AliveOK'
  BY <1>4, <1>17, <1>18, <1>19, <1>20, AliveKeeps
<1> QED BY <1>13, <1>15, <1>16, <1>21 DEF Layer3

\* unlink() with both locked: the entry shows that the child has a link, so
\* that the system does not stop.
LEMMA UnlinkChildLinks ==
  ASSUME IInv1, IInv2, Layer3, NEW p \in Procs, UnlinkChild(p)
  PROVE  Layer3'
<1> PICK t, s, d, b, tl : t = th[p] /\ s = t.ip /\ d = t.dp /\ b = Load(s) /\ tl = Locked(b, s, p)
  OBVIOUS
<1>1. AtLock(p, "child") /\ "child" \in LockPlaces
  BY DEF UnlinkChild, LockPlaces
<1>2. /\ s \in Slots /\ b \in [Slots -> SlotRec] /\ t.pc = "child" /\ Len(t.put) = 0
      /\ Near(itable, b) /\ itable[s].inum \in Inums
  BY <1>1, LockReady, NoLen
<1>3. d \in Slots /\ t.name \in Names /\ t \in ThRec /\ Inum(d) \in Inums
  BY <1>2, DpReady DEF IInv1, TypeOK, PlaceOK, ThreadOK, Inum
<1>4. /\ tl \in [Slots -> SlotRec] /\ Near(b, tl) /\ tl[s].nlink = b[s].nlink
  <2>1. p \in Procs \cup {Nobody}
    OBVIOUS
  <2> QED BY <1>2, <2>1, LockedIs DEF Near
<1>5. ~(tl[s].nlink < 1)
  <2>1. ents[Inum(d)][t.name] = Inum(s)
    BY <1>2 DEF IInv2, TypesOK, ChildOK
  <2>2. b[s].nlink = dinode[Inum(s)].nlink
    BY <1>1, LoadCoherent
  <2>3. Inum(s) \in Inums
    BY <1>2 DEF Inum
  <2>4. PICK c : c = <<"link", <<Inum(d), t.name>>>>
    OBVIOUS
  <2>5. ClaimForm(c, Inum(s))
    BY <1>3, <2>1, <2>4 DEF ClaimForm
  <2>6. dinode[Inum(s)].nlink > 0 /\ dinode[Inum(s)].nlink \in Int
    BY <2>3, <2>5, Claimed DEF Layer3, IInv1, TypeOK, DiskRec
  <2> QED BY <1>4, <2>2, <2>6
<1>6. /\ UNCHANGED panic
      /\ \/ /\ itable' = tl /\ UNCHANGED <<dinode, ents>>
            /\ th' = [th EXCEPT ![p] = Done(<<Stage(s, "unlock"), Stage(d, "unlock")>>)]
         \/ /\ itable' = ChildTable(tl, s, d)
            /\ dinode' = iupdate(itable', d) /\ ents' = [ents EXCEPT ![Inum(d)][t.name] = 0]
            /\ th' = [th EXCEPT ![p].pc = "unlinked", ![p].dp = 0, ![p].put = <<Stage(d, "unlock")>>]
  BY <1>5, Zenon DEF UnlinkChild, Inum, ChildTable
<1>7. CASE /\ itable' = tl /\ UNCHANGED <<dinode, ents>>
           /\ th' = [th EXCEPT ![p] = Done(<<Stage(s, "unlock"), Stage(d, "unlock")>>)]
  <2>1. th'[p].pc = "idle" /\ Len(th'[p].put) >= 1 /\ th'[p].put[1].at = "unlock"
    BY <1>2, <1>3, <1>7, TwoAfter
  <2>2. Moves(p)
    <3>1. th'[p].pc # th[p].pc
      BY <1>2, <2>1
    <3>2. ~(UNCHANGED <<itable, dinode, ents, th, cwd, ofile>>)
      BY <3>1
    <3> QED BY <3>2, UnlinkChildKeeps
  <2>3. Pending(th[p]) = 0 /\ Pending(th'[p]) = 0
    BY <1>2, <2>1, PendingNone
  <2>4. Near(itable, itable')
    BY <1>2, <1>4, <1>7, NearTrans
  <2> QED BY <1>2, <1>6, <1>7, <2>1, <2>2, <2>3, <2>4, QuietNear
<1>8. CASE /\ itable' = ChildTable(tl, s, d)
           /\ dinode' = iupdate(itable', d) /\ ents' = [ents EXCEPT ![Inum(d)][t.name] = 0]
           /\ th' = [th EXCEPT ![p].pc = "unlinked", ![p].dp = 0, ![p].put = <<Stage(d, "unlock")>>]
  <2>1. th' = [th EXCEPT ![p] = [th[p] EXCEPT !.pc = "unlinked", !.dp = 0, !.put = <<Stage(d, "unlock")>>]]
    BY <1>8 DEF IInv1, TypeOK
  <2>2. TakesEntry(p, tl, s, d, t.name)
    BY <1>8, <2>1 DEF TakesEntry
  <2>3. Moves(p)
    <3>1. "unlinked" \in HasIp /\ th[p].ip \in Slots
      BY <1>2 DEF HasIp
    <3>2. th'[p].pc = "unlinked"
      BY <1>3, <2>1, <3>1, OnAfter
    <3>3. th'[p].pc # th[p].pc
      BY <1>2, <3>2
    <3>4. ~(UNCHANGED <<itable, dinode, ents, th, cwd, ofile>>)
      BY <3>3
    <3> QED BY <3>4, UnlinkChildKeeps
  <2> QED BY <1>1, <1>3, <1>6, <2>2, <2>3, UnlinkEntryLinks
<1> QED BY <1>6, <1>7, <1>8

-----------------------------------------------------------------------------
(* Making an inode. *)

\* Nobody has a slot of an inode that is free, but to drop it.
LEMMA FreeGone ==
  ASSUME IInv1, Layer3, NEW q \in Procs, NEW v \in Pointers, NEW k \in Slots, Pointer(q, v) = k,
         dinode[Inum(k)].type = "free"
  PROVE  Gone(th[q], v)
<1>1. k # 0
  BY Consts
<1> QED BY <1>1 DEF Layer3, AliveOK

\* A new inode: no claims, and nobody but the process that makes it.
LEMMA AllocLinks ==
  ASSUME IInv1, IInv2, Layer3, NEW p \in Procs, Moves(p), UNCHANGED <<ents, cwd, ofile, panic>>,
         th[p].pc = "parent", Len(th[p].put) = 0, th[p].name \in Names,
         NEW s \in Slots, s = th[p].ip, NEW i \in Inums, dinode[i].type = "free",
         NEW ty, ty # "free", dinode'[i].type = ty, dinode'[i].nlink = 0,
         \A j \in Inums : j # i => dinode'[j] = dinode[j],
         NEW k \in Slots, itable'[k].inum = i, \A u \in Slots : u # k => itable'[u].ref <= itable[u].ref,
         th'[p].pc = "init", th'[p].dp = s, th'[p].ip = k, th'[p].name = th[p].name,
         Len(th'[p].put) = 0
  PROVE  Layer3'
<1>1. TypeOK /\ LinkOK /\ DotsOK /\ RootOK /\ IInv1' /\ dinode[i].nlink = 0
  BY MovesKeeps DEF IInv1, Layer3, LinkOK
<1>2. /\ \A c : ~ClaimForm(c, i)
      /\ \A d \in Inums, n \in Names : ents[d][n] # i
      /\ i # ROOTINO
  BY <1>1, NoClaims
<1>3. \A j \in Inums : dinode'[j].nlink = dinode[j].nlink
  BY <1>1
<1>4. Pending(th'[p]) = 0
  BY PendingNone
<1>5. \A n \in Names : ents[i][n] = 0
  BY DEF IInv2, TypesOK
<1>6. ASSUME NEW j \in Inums, NEW c, ClaimForm(c, j)' PROVE ClaimForm(c, j)
  <2>1. CASE \E e \in Inums, n \in Names : c = <<"link", <<e, n>>>> /\ ents'[e][n] = j
    BY <2>1 DEF ClaimForm
  <2>2. CASE \E n \in Names : c = <<"sub", n>> /\ ents'[j][n] # 0 /\ dinode'[ents'[j][n]].type = "dir"
    <3>1. PICK n \in Names : c = <<"sub", n>> /\ ents[j][n] # 0 /\ dinode'[ents[j][n]].type = "dir"
      BY <2>2
    <3>2. ents[j][n] \in Inums
      <4>1. ents[j][n] \in 0 .. NInodes
        BY <1>1, Consts DEF TypeOK
      <4> QED BY <3>1, <4>1, Consts DEF Inums
    <3>3. dinode[ents[j][n]].type = "dir"
      BY <1>2, <3>1, <3>2
    <3> QED BY <3>1, <3>3 DEF ClaimForm
  <2>3. CASE \E q \in Procs \ {p} : c = <<"owed", q>> /\ Owes(q, j)
    BY <2>3 DEF ClaimForm
  <2>4. CASE c = <<"owed", p>> /\ Owes(p, j)'
    BY <1>4, <2>4 DEF Owes
  <2>5. CASE c = <<"root", 0>> /\ j = ROOTINO
    BY <2>5 DEF ClaimForm
  <2> QED BY <1>6, <2>1, <2>2, <2>3, <2>4, <2>5, ClaimCases
<1>7. LinkOK'
  <2>1. ASSUME NEW j \in Inums PROVE Cardinality(Claims(j)') <= dinode'[j].nlink
    BY <1>1, <1>3, <1>6, KeptClaims
  <2>2. \A j \in Inums : dinode'[j].type = "free" => dinode'[j].nlink = 0
    BY <1>1, <1>3 DEF LinkOK
  <2> QED BY <2>1, <2>2 DEF LinkOK
<1>8. Fresh(p, i)'
  BY DEF Fresh, Inum
<1>9. DotsOK'
  <2>1. \A q \in Procs : \A d : Fresh(q, d) => Fresh(q, d)'
    BY FreshStays
  <2>2. ASSUME NEW d \in Inums, dinode'[d].type = "dir", \A q \in Procs : ~Fresh(q, d)'
        PROVE  ents'[d]["."] = d /\ ents'[d][".."] \in Inums
    BY <1>1, <1>8, <2>1, <2>2 DEF DotsOK
  <2>3. ASSUME NEW d \in Inums, NEW j \in Inums, NEW n \in Names, ents'[d][n] = j, dinode'[j].type = "dir"
        PROVE  ents'[j][".."] = d
    BY <1>1, <1>2, <2>3 DEF DotsOK
  <2> QED BY <2>2, <2>3 DEF DotsOK
<1>10. RootOK'
  BY <1>1, <1>2, Consts DEF RootOK, Links
<1>11. Reaches(p)
  BY CallReaches
<1>12. Frees(p)
  BY DEF Frees
<1>13. Turns(p)
  BY <1>3 DEF Turns
<1>14. LastOK(p)'
  BY DEF LastOK, Erasing
<1>15. ASSUME NEW q \in Procs, NEW v \in Pointers, Pointer(q, v) = k PROVE Gone(th[q], v)
  <2>1. itable[k].ref > 0
    BY <1>15, PointedTo
  <2>2. Inum(k) = i
    BY <2>1 DEF Moves, Counts, Inum
  <2> QED BY <1>15, <2>2, FreeGone
<1>16. FreshOK(p)'
  <2>1. ASSUME NEW q \in Procs, NEW v \in Pointers, Pointer(q, v)' = k, ~(q = p /\ v = "ip")
        PROVE  Gone(th'[q], v)
    <3>1. CASE q # p
      BY <1>15, <2>1, <3>1, OthersKeep
    <3>2. CASE q = p
      <4>1. \A w \in Pointers : ~Gone(th[p], w)
        BY DEF Gone
      <4>2. \A w \in Pointers : Pointer(p, w) # k
        BY <1>15, <4>1
      <4>3. /\ Pointer(p, "cwd")' = Pointer(p, "cwd") /\ Pointer(p, "ofile")' = Pointer(p, "ofile")
            /\ Pointer(p, "dp")' = Pointer(p, "ip") /\ Pointer(p, "put1")' = 0 /\ Pointer(p, "put2")' = 0
        BY DEF Pointer, PutSlot
      <4>4. v \in {"cwd", "ofile", "dp", "put1", "put2"}
        BY <2>1, <3>2 DEF Pointers
      <4> QED BY <2>1, <3>2, <4>2, <4>3, <4>4, Consts DEF Pointers
    <3> QED BY <3>1, <3>2
  <2> QED BY <2>1 DEF FreshOK, Inum
<1>17. AliveOK'
  BY <1>1, <1>11, <1>12, <1>13, <1>14, <1>16, AliveKeeps
<1> QED BY <1>7, <1>9, <1>10, <1>17 DEF Layer3

\* create() allocates an inode, or ends.
LEMMA CreateAllocLinks == ASSUME IInv1, IInv2, Layer3, NEW p \in Procs, CreateAlloc(p) PROVE Layer3'
<1> PICK t, s, i, ty, k : /\ t = th[p] /\ s = t.ip /\ i = Min(FreeInums) /\ ty = TypeOf(t.op)
                          /\ k = IgetSlot(itable, i)
  OBVIOUS
<1> DEFINE tl == Locked(itable, s, p)
           n == [t EXCEPT !.pc = "init", !.dp = s, !.ip = k]
<1>1. /\ AtLock(p, "parent") /\ "parent" \in LockPlaces /\ UNCHANGED <<ents, cwd, ofile, panic>> /\ Moves(p)
      /\ t.op \in Making /\ dirlookup(Inum(s), t.name) = 0
  BY CreateAllocMoves DEF CreateAlloc, LockPlaces, Making, Inum
<1>2. /\ s \in Slots /\ Load(s) = itable /\ dinode[Inum(s)].type = "dir"
  BY <1>1, ParentReady
<1>3. t \in ThRec /\ t.put = <<>> /\ t.pc = "parent" /\ Len(t.put) = 0
  BY <1>1, NoLen DEF AtLock, IInv1, TypeOK
<1>4. CASE itable' = Load(s) /\ th' = [th EXCEPT ![p] = Done(<<Stage(s, "drop")>>)] /\ UNCHANGED dinode
  <2>1. Pending(th[p]) = 0
    <3>1. t.op # "link2"
      BY <1>1 DEF Making
    <3> QED BY <1>3, <3>1, PendingNone
  <2> QED BY <1>1, <1>4, <2>1, EndLinks
<1>5. CASE /\ FreeInums # {} /\ itable' = iget(tl, i) /\ th' = [th EXCEPT ![p] = n]
           /\ dinode' = [dinode EXCEPT ![i] = [type |-> ty, nlink |-> 0]]
  <2>1. itable \in [Slots -> SlotRec] /\ p \in Procs \cup {Nobody}
    BY DEF IInv1, TypeOK
  <2>2. Near(itable, tl)
    BY <1>2, <2>1, LockedIs
  <2>3. TableOK(tl)
    BY <2>2, TableIs, NearTable
  <2>4. k = IgetSlot(tl, i)
    BY <2>2, IgetSlotSame DEF Near
  <2>5. i \in Inums /\ dinode[i].type = "free"
    BY <1>5, FreeLeast
  <2>6. Takes(tl, itable', k) /\ itable'[k].inum = i /\ k \in Slots
    <3> HIDE DEF tl
    <3> QED BY <1>5, <2>3, <2>4, <2>5, IgetTakes, IgetWhere
  <2>7. \A u \in Slots : u # k => itable'[u].ref <= itable[u].ref
    <3> HIDE DEF tl
    <3>1. PICK T : T = itable'
      OBVIOUS
    <3>2. Near(T, itable') /\ Takes(tl, T, k)
      BY <1>1, <2>6, <3>1 DEF Near, Moves, TypeOK
    <3> QED BY <2>2, <3>2, TakesGets, GetsRefs
  <2>8. n.pc = "init" /\ n.dp = s /\ n.ip = k /\ n.put = <<>> /\ n.name = t.name
    BY <1>3 DEF ThRec
  <2> HIDE DEF n, tl
  <2>9. th'[p] = n
    BY <1>5 DEF IInv1, TypeOK
  <2>10. /\ dinode'[i].type = ty /\ dinode'[i].nlink = 0 /\ \A j \in Inums : j # i => dinode'[j] = dinode[j]
    BY <1>5, <2>5 DEF IInv1, TypeOK
  <2>11. ty # "free"
    BY <1>1, TypeOfFree
  <2>12. th[p].name \in Names
    BY <1>1, <1>2, <1>3, NewName
  <2>13. /\ th'[p].pc = "init" /\ th'[p].dp = s /\ th'[p].ip = k /\ th'[p].name = th[p].name
         /\ Len(th'[p].put) = 0 /\ Len(th[p].put) = 0 /\ th[p].pc = "parent"
    BY <1>3, <2>8, <2>9, NoLen
  <2> QED BY <1>1, <1>2, <2>5, <2>6, <2>7, <2>10, <2>11, <2>12, <2>13, AllocLinks
<1>6. \/ itable' = Load(s) /\ th' = [th EXCEPT ![p] = Done(<<Stage(s, "drop")>>)] /\ UNCHANGED dinode
      \/ /\ FreeInums # {} /\ itable' = iget(Locked(Load(s), s, p), i)
         /\ dinode' = [dinode EXCEPT ![i] = [type |-> ty, nlink |-> 0]]
         /\ th' = [th EXCEPT ![p].pc = "init", ![p].dp = s, ![p].ip = IgetSlot(Load(s), i)]
  BY DEF CreateAlloc
<1>7. th' = [th EXCEPT ![p].pc = "init", ![p].dp = s, ![p].ip = k] => th' = [th EXCEPT ![p] = n]
  BY DEF IInv1, TypeOK
<1> HIDE DEF n
<1> QED BY <1>2, <1>4, <1>5, <1>6, <1>7

\* The entries when create() has filled in inode i below directory dd, and has
\* entered it there or not.
Filled(i, dd, name, ty, links) ==
  \A e \in Inums, n \in EntryNames :
    ents'[e][n] = IF e = i
                  THEN IF ty = "dir" /\ n = "." THEN i
                       ELSE IF ty = "dir" /\ n = ".." THEN dd ELSE ents[i][n]
                  ELSE IF links = 1 /\ e = dd /\ n = name THEN i ELSE ents[e][n]

\* A new inode is entered with one link, and a new directory counts as one of
\* its parent; or it is given up without a link.
LEMMA FillLinks ==
  ASSUME IInv1, IInv2, Layer3, NEW p \in Procs, Moves(p), UNCHANGED panic,
         th[p].pc = "init", Len(th[p].put) = 0,
         NEW s \in Slots, s = th[p].ip, NEW d \in Slots, d = th[p].dp,
         NEW i \in Inums, i = Inum(s), NEW dd \in Inums, dd = Inum(d), i # dd, dinode[dd].type = "dir",
         NEW ty, dinode[i].type = ty, ty # "free", NEW name, name = th[p].name,
         NEW links \in {0, 1}, Filled(i, dd, name, ty, links),
         \A u \in Slots : itable'[u].ref = itable[u].ref,
         \A j \in Inums : dinode'[j].type = dinode[j].type,
         \A j \in Inums : j # i /\ j # dd => dinode'[j].nlink = dinode[j].nlink,
         dinode'[i].nlink = links,
         dinode'[dd].nlink = IF links = 1 /\ ty = "dir" THEN dinode[dd].nlink + 1 ELSE dinode[dd].nlink,
         th'[p].pc \in {"opened", "idle"}, Len(th'[p].put) >= 1, th'[p].put[1].at = "unlock"
  PROVE  Layer3'
<1>1. TypeOK /\ LinkOK /\ DotsOK /\ RootOK /\ IInv1'
  BY MovesKeeps DEF IInv1, Layer3
<1>2. name \in Names /\ dinode[i].nlink = 0
  BY DEF Layer3, AliveOK, FreshOK
<1>3. /\ \A e \in Inums, n \in Names : ents[e][n] # i
      /\ \A n \in Names : ents[i][n] # 0 => dinode[ents[i][n]].type # "dir"
      /\ i # ROOTINO /\ \A c : ~ClaimForm(c, i)
  BY <1>1, <1>2, NoClaims
<1>4. Pending(th'[p]) = 0
  BY PendingNone
<1>5. /\ \A e \in Inums, n \in Names :
           ents'[e][n] = IF links = 1 /\ e = dd /\ n = name THEN i ELSE ents[e][n]
      /\ 0 \notin Inums
  <2>1. \A n \in Names : n \in EntryNames /\ n # "." /\ n # ".."
    BY Consts
  <2> QED BY <2>1, Consts DEF Filled
<1>6. \A e \in Inums, n \in Names : ents[e][n] # 0 => ents[e][n] \in Inums
  <2>1. \A e \in Inums, n \in Names : ents[e][n] \in 0 .. NInodes
    BY <1>1, Consts DEF TypeOK
  <2> QED BY <2>1, Consts DEF Inums
<1>7. ASSUME NEW j \in Inums, NEW c, ClaimForm(c, j)'
      PROVE  \/ ClaimForm(c, j)
             \/ links = 1 /\ j = i /\ c = <<"link", <<dd, name>>>>
             \/ links = 1 /\ j = dd /\ ty = "dir" /\ c = <<"sub", name>>
  <2>1. CASE \E e \in Inums, n \in Names : c = <<"link", <<e, n>>>> /\ ents'[e][n] = j
    <3>1. PICK e \in Inums, n \in Names : c = <<"link", <<e, n>>>> /\ ents'[e][n] = j
      BY <2>1
    <3>2. CASE links = 1 /\ e = dd /\ n = name
      BY <1>5, <3>1, <3>2
    <3>3. CASE ~(links = 1 /\ e = dd /\ n = name)
      <4>1. ents[e][n] = j
        BY <1>5, <3>1, <3>3
      <4> QED BY <3>1, <4>1 DEF ClaimForm
    <3> QED BY <3>2, <3>3
  <2>2. CASE \E n \in Names : c = <<"sub", n>> /\ ents'[j][n] # 0 /\ dinode'[ents'[j][n]].type = "dir"
    <3>1. PICK n \in Names : c = <<"sub", n>> /\ ents'[j][n] # 0 /\ dinode'[ents'[j][n]].type = "dir"
      BY <2>2
    <3>2. CASE links = 1 /\ j = dd /\ n = name
      <4>1. ents'[j][n] = i
        BY <1>5, <3>2
      <4>2. ty = "dir"
        BY <3>1, <4>1
      <4> QED BY <3>1, <3>2, <4>2
    <3>3. CASE ~(links = 1 /\ j = dd /\ n = name)
      <4>1. ents'[j][n] = ents[j][n]
        BY <1>5, <3>3
      <4>2. ents[j][n] # 0 /\ dinode[ents[j][n]].type = "dir"
        BY <1>6, <3>1, <4>1
      <4> QED BY <3>1, <4>2 DEF ClaimForm
    <3> QED BY <3>2, <3>3
  <2>3. CASE \E q \in Procs \ {p} : c = <<"owed", q>> /\ Owes(q, j)
    BY <2>3 DEF ClaimForm
  <2>4. CASE c = <<"owed", p>> /\ Owes(p, j)'
    BY <1>4, <2>4 DEF Owes
  <2>5. CASE c = <<"root", 0>> /\ j = ROOTINO
    BY <2>5 DEF ClaimForm
  <2> QED BY <1>7, <2>1, <2>2, <2>3, <2>4, <2>5, ClaimCases
<1>8. ASSUME NEW j \in Inums PROVE Cardinality(Claims(j)') <= dinode'[j].nlink
  <2>1. CASE j = i /\ links = 1
    <3>1. PICK a : a = <<"link", <<dd, name>>>>
      OBVIOUS
    <3>2. \A c : ClaimForm(c, j)' => ClaimForm(c, j) \/ c = a
      BY <1>7, <2>1, <3>1
    <3>3. dinode'[j].nlink = dinode[j].nlink + 1
      BY <1>2, <2>1
    <3> QED BY <1>1, <3>2, <3>3, MoreClaims
  <2>2. CASE j = dd /\ links = 1 /\ ty = "dir"
    <3>1. PICK a : a = <<"sub", name>>
      OBVIOUS
    <3>2. \A c : ClaimForm(c, j)' => ClaimForm(c, j) \/ c = a
      BY <1>7, <2>2, <3>1
    <3>3. dinode'[j].nlink = dinode[j].nlink + 1
      BY <2>2
    <3> QED BY <1>1, <3>2, <3>3, MoreClaims
  <2>3. CASE ~(j = i /\ links = 1) /\ ~(j = dd /\ links = 1 /\ ty = "dir")
    <3>1. \A c : ClaimForm(c, j)' => ClaimForm(c, j)
      BY <1>7, <2>3
    <3>2. dinode'[j].nlink = dinode[j].nlink
      BY <1>2, <2>3
    <3> QED BY <1>1, <3>1, <3>2, KeptClaims
  <2> QED BY <2>1, <2>2, <2>3
<1>9. LinkOK'
  <2>1. \A j \in Inums : dinode'[j].type = "free" => dinode'[j].nlink = 0
    BY <1>1 DEF LinkOK
  <2> QED BY <1>8, <2>1 DEF LinkOK
<1>10. ASSUME NEW q \in Procs, NEW e, Fresh(q, e), e # i PROVE Fresh(q, e)'
  <2>1. q # p
    BY <1>10 DEF Fresh
  <2>2. PICK u : u = th[q].ip
    OBVIOUS
  <2>3. Pointer(q, "ip") = u /\ "ip" \in Pointers /\ u \in Slots
    BY <1>10, <2>2, AtIp, Views DEF Fresh, Pointers
  <2>4. Inum(u)' = Inum(u) /\ th'[q] = th[q]
    BY <2>1, <2>3, OthersKeep
  <2> QED BY <1>10, <2>2, <2>4 DEF Fresh, Inum
<1>11. \A e \in Inums : e # i => ents'[e]["."] = ents[e]["."] /\ ents'[e][".."] = ents[e][".."]
  BY <1>2, Consts DEF Filled
<1>12. ty = "dir" => ents'[i]["."] = i /\ ents'[i][".."] = dd
  BY Consts DEF Filled
<1>13. DotsOK'
  <2>1. ASSUME NEW e \in Inums, dinode'[e].type = "dir", \A q \in Procs : ~Fresh(q, e)'
        PROVE  ents'[e]["."] = e /\ ents'[e][".."] \in Inums
    <3>1. CASE e = i
      BY <1>12, <2>1, <3>1
    <3>2. CASE e # i
      <4>1. ents[e]["."] = e /\ ents[e][".."] \in Inums
        BY <1>1, <1>10, <2>1, <3>2 DEF DotsOK
      <4> QED BY <1>11, <3>2, <4>1
    <3> QED BY <3>1, <3>2
  <2>2. ASSUME NEW e \in Inums, NEW j \in Inums, NEW n \in Names, ents'[e][n] = j, dinode'[j].type = "dir"
        PROVE  ents'[j][".."] = e
    <3>1. CASE links = 1 /\ e = dd /\ n = name
      BY <1>5, <1>12, <2>2, <3>1
    <3>2. CASE ~(links = 1 /\ e = dd /\ n = name)
      <4>1. ents[e][n] = j /\ dinode[j].type = "dir"
        BY <1>5, <2>2, <3>2
      <4>2. ents[j][".."] = e /\ j # i
        BY <1>1, <1>3, <4>1 DEF DotsOK
      <4> QED BY <1>11, <4>2
    <3> QED BY <3>1, <3>2
  <2> QED BY <2>1, <2>2 DEF DotsOK
<1>14. RootOK'
  <2>1. /\ dinode[ROOTINO].type = "dir" /\ ents[ROOTINO][".."] = ROOTINO
        /\ \A e \in Inums, n \in Names : ents[e][n] # ROOTINO
    BY <1>1, RootLinks DEF RootOK
  <2>2. \A e \in Inums, n \in Names : ents'[e][n] # ROOTINO
    BY <1>3, <1>5, <2>1
  <2>3. dinode'[ROOTINO].type = "dir" /\ ents'[ROOTINO][".."] = ROOTINO
    BY <1>3, <1>11, <2>1, Consts
  <2> QED BY <2>2, <2>3, RootLinksNext DEF RootOK
<1>15. Reaches(p)
  <2>1. PICK k : k = 0
    OBVIOUS
  <2>2. \A u \in Slots : itable'[u].ref <= itable[u].ref
    <3>1. \A u \in Slots : itable[u].ref \in Nat
      BY TableIs DEF TableOK
    <3> QED BY <3>1
  <2> QED BY <2>1, <2>2, CallReaches
<1>16. Frees(p)
  BY DEF Frees
<1>17. Turns(p)
  <2>1. /\ Pointer(p, "dp") = d /\ "dp" \in Pointers /\ ~Gone(th[p], "dp")
        /\ Pointer(p, "ip") = s /\ "ip" \in Pointers /\ ~Gone(th[p], "ip")
    BY Views DEF Pointers, Gone
  <2> QED BY <2>1 DEF Turns
<1>18. FreshOK(p)' /\ LastOK(p)'
  BY DEF FreshOK, LastOK, Erasing
<1>19. AliveOK'
  BY <1>1, <1>15, <1>16, <1>17, <1>18, AliveKeeps
<1> QED BY <1>9, <1>13, <1>14, <1>19 DEF Layer3

\* The new inode and its directory, with or without the entry for it.
LEMMA FilledIs ==
  ASSUME TypeOK, NEW i \in Inums, NEW dd \in Inums, i # dd, NEW name \in EntryNames, NEW ty,
         NEW e, e = NewEntries(i, dd, ty), NEW links \in {0, 1},
         links = 1 => ents' = [[ents EXCEPT ![dd][name] = i] EXCEPT ![i] = e],
         links # 1 => ents' = [ents EXCEPT ![i] = e]
  PROVE  Filled(i, dd, name, ty, links)
<1>1. ents \in [Inums -> [EntryNames -> 0 .. NInodes]]
  BY DEF TypeOK
<1>2. \A n \in EntryNames : e[n] = IF ty = "dir" /\ n = "." THEN i
                                   ELSE IF ty = "dir" /\ n = ".." THEN dd ELSE ents[i][n]
  <2>1. CASE ty = "dir"
    <3>1. e = [ents[i] EXCEPT !["."] = i, ![".."] = dd]
      BY <2>1 DEF NewEntries
    <3> QED BY <1>1, <2>1, <3>1, Consts
  <2>2. CASE ty # "dir"
    BY <2>2 DEF NewEntries
  <2> QED BY <2>1, <2>2
<1>3. \A a \in Inums, n \in EntryNames :
        ents'[a][n] = IF a = i THEN e[n] ELSE IF links = 1 /\ a = dd /\ n = name THEN i ELSE ents[a][n]
  <2>1. CASE links = 1
    <3>1. ents' = [[ents EXCEPT ![dd][name] = i] EXCEPT ![i] = e]
      BY <2>1
    <3> QED BY <1>1, <2>1, <3>1
  <2>2. CASE links # 1
    <3>1. ents' = [ents EXCEPT ![i] = e]
      BY <2>2
    <3> QED BY <1>1, <2>2, <3>1
  <2> QED BY <2>1, <2>2
<1> QED BY <1>2, <1>3 DEF Filled

\* create() cannot enter the new inode, and leaves it without a link.
LEMMA CreateFailLinks == ASSUME IInv1, IInv2, Layer3, NEW p \in Procs, CreateFail(p) PROVE Layer3'
<1> PICK s, d, i, dd, ty, name : /\ s = th[p].ip /\ d = th[p].dp /\ i = Inum(s) /\ dd = Inum(d)
                                 /\ ty = TypeOf(th[p].op) /\ name = th[p].name
  OBVIOUS
<1> DEFINE t1 == SetNlink(Locked(Load(s), s, p), s, 0)
<1>1. /\ AtLock(p, "init") /\ "init" \in LockPlaces /\ Moves(p) /\ UNCHANGED panic
      /\ itable' = t1 /\ dinode' = iupdate(itable', s)
      /\ ents' = [ents EXCEPT ![i] = NewEntries(i, dd, ty)]
      /\ th' = [th EXCEPT ![p] = Done(<<Stage(s, "unlock"), Stage(d, "unlock")>>)]
  BY CreateFailMoves DEF CreateFail, LockPlaces, Inum
<1>2. /\ s \in Slots /\ itable[s].ref > 0 /\ itable[s].lock = Nobody
      /\ th[p].put = <<>> /\ th[p].pc = "init" /\ i \in Inums
  BY <1>1, LockReady DEF Inum
<1>3. /\ d \in Slots /\ itable[d].lock = p /\ itable[d].ref > 0 /\ dd \in Inums /\ dinode[dd].type = "dir"
  BY <1>2, DpReady DEF Inum
<1>4. i # dd
  BY <1>2, <1>3, Consts DEF IInv1, RefOK, Inum
<1>5. dinode[i].type = ty /\ ty # "free" /\ name \in EntryNames
  <2>1. th[p].op \in Making /\ name \in EntryNames
    BY <1>2 DEF IInv1, PlaceOK, ThreadOK
  <2> QED BY <1>2, <2>1, TypeOfFree DEF IInv2, TypesOK, InitOK
<1>6. PICK b : b = Load(s)
  OBVIOUS
<1>7. /\ b[s].type = dinode[i].type
  BY <1>1, <1>6, LoadCoherent
<1>8. Near(itable, itable') /\ itable'[s].nlink = 0 /\ itable'[s].type = dinode[i].type
  <2>1. 0 \in Int
    OBVIOUS
  <2> QED BY <1>1, <1>6, <1>7, <2>1, LockNlink
<1> HIDE DEF t1
<1>9. /\ dinode'[i].type = dinode[i].type /\ dinode'[i].nlink = 0
      /\ \A j \in Inums : j # i => dinode'[j] = dinode[j]
  BY <1>1, <1>2, <1>8, NlinkDisk
<1>10. Filled(i, dd, name, ty, 0)
  <2>1. PICK e, links : e = NewEntries(i, dd, ty) /\ links = 0 /\ links \in {0, 1}
    OBVIOUS
  <2>2. TypeOK /\ (links # 1 => ents' = [ents EXCEPT ![i] = e])
    BY <1>1, <2>1 DEF IInv1
  <2>3. links = 1 => ents' = [[ents EXCEPT ![dd][name] = i] EXCEPT ![i] = e]
    BY <2>1
  <2>4. Filled(i, dd, name, ty, links)
    BY <1>2, <1>3, <1>4, <1>5, <2>1, <2>2, <2>3, FilledIs
  <2> QED BY <2>1, <2>4
<1>11. th'[p].pc = "idle" /\ Len(th'[p].put) >= 1 /\ th'[p].put[1].at = "unlock"
  BY <1>1, <1>2, <1>3, TwoAfter
<1>12. /\ \A u \in Slots : itable'[u].ref = itable[u].ref
       /\ \A j \in Inums : dinode'[j].type = dinode[j].type
       /\ \A j \in Inums : j # i /\ j # dd => dinode'[j].nlink = dinode[j].nlink
       /\ dinode'[dd].nlink = dinode[dd].nlink /\ Len(th[p].put) = 0
  BY <1>2, <1>3, <1>4, <1>8, <1>9, NoLen DEF Near
<1> PICK links : links = 0 /\ links \in {0, 1}
  OBVIOUS
<1>13. /\ Filled(i, dd, name, ty, links) /\ dinode'[i].nlink = links
       /\ dinode'[dd].nlink = IF links = 1 /\ ty = "dir" THEN dinode[dd].nlink + 1 ELSE dinode[dd].nlink
  BY <1>9, <1>10, <1>12
<1>14. IInv1 /\ IInv2 /\ Layer3 /\ Moves(p) /\ UNCHANGED panic
  BY <1>1
<1>15. name \in EntryNames /\ name = th[p].name /\ s = th[p].ip /\ d = th[p].dp
  BY <1>5
<1> QED BY <1>2, <1>3, <1>4, <1>5, <1>11, <1>12, <1>13, <1>14, <1>15, FillLinks

\* create() enters the new inode.
LEMMA CreateLinkLinks == ASSUME IInv1, IInv2, Layer3, NEW p \in Procs, CreateLink(p) PROVE Layer3'
<1> PICK s, d, i, dd, ty, name : /\ s = th[p].ip /\ d = th[p].dp /\ i = Inum(s) /\ dd = Inum(d)
                                 /\ ty = TypeOf(th[p].op) /\ name = th[p].name
  OBVIOUS
<1> DEFINE n == IF th[p].op = "create"
                THEN [th[p] EXCEPT !.pc = "opened", !.dp = 0, !.put = <<Stage(d, "unlock")>>]
                ELSE Done(<<Stage(d, "unlock"), Stage(s, "unlock")>>)
<1>1. /\ AtLock(p, "init") /\ "init" \in LockPlaces /\ Moves(p) /\ UNCHANGED panic
      /\ th' = [th EXCEPT ![p] = n]
      /\ ents' = [dirlink(dd, name, i) EXCEPT ![i] = NewEntries(i, dd, ty)]
  BY CreateLinkMoves DEF CreateLink, LockPlaces, Inum
<1>2. /\ s \in Slots /\ th[p].put = <<>> /\ th[p].pc = "init" /\ i \in Inums
  BY <1>1, LockReady DEF Inum
<1>3. /\ d \in Slots /\ dd \in Inums /\ dinode[dd].type = "dir"
      /\ itable[d].type = "dir" /\ itable[d].nlink = dinode[dd].nlink
  BY <1>2, DpReady DEF Inum, Coherent
<1>4. /\ Near(itable, itable') /\ itable'[d].type = itable[d].type
      /\ itable'[d].nlink = itable[d].nlink + (IF ty = "dir" THEN 1 ELSE 0)
  BY CreateLinkTable
<1>5. /\ i # dd /\ dinode'[i].type = ty /\ dinode'[i].nlink = 1
      /\ dinode'[dd].type = itable'[d].type /\ dinode'[dd].nlink = itable'[d].nlink
      /\ \A j \in Inums : j # i /\ j # dd => dinode'[j] = dinode[j]
  BY CreateLinkDisk
<1>6. dinode[i].type = ty /\ ty # "free" /\ name \in EntryNames
  <2>1. th[p].op \in Making /\ name \in EntryNames
    BY <1>2 DEF IInv1, PlaceOK, ThreadOK
  <2> QED BY <1>2, <2>1, TypeOfFree DEF IInv2, TypesOK, InitOK
<1>7. Filled(i, dd, name, ty, 1)
  <2>1. PICK e, links : e = NewEntries(i, dd, ty) /\ links = 1 /\ links \in {0, 1}
    OBVIOUS
  <2>2. TypeOK /\ (links = 1 => ents' = [[ents EXCEPT ![dd][name] = i] EXCEPT ![i] = e])
    BY <1>1, <2>1 DEF IInv1, dirlink
  <2>3. links # 1 => ents' = [ents EXCEPT ![i] = e]
    BY <2>1
  <2>4. Filled(i, dd, name, ty, links)
    BY <1>2, <1>3, <1>5, <1>6, <2>1, <2>2, <2>3, FilledIs
  <2> QED BY <2>1, <2>4
<1>8. th'[p].pc \in {"opened", "idle"} /\ Len(th'[p].put) >= 1 /\ th'[p].put[1].at = "unlock"
  <2>1. CASE th[p].op = "create"
    <3>1. "opened" \in HasIp
          /\ th' = [th EXCEPT ![p] = [th[p] EXCEPT !.pc = "opened", !.dp = 0, !.put = <<Stage(d, "unlock")>>]]
      BY <1>1, <2>1 DEF HasIp
    <3> HIDE DEF n
    <3>2. th[p].ip \in Slots
      BY <1>2
    <3> QED BY <1>3, <3>1, <3>2, OnAfter
  <2>2. CASE th[p].op # "create"
    <3>1. th' = [th EXCEPT ![p] = Done(<<Stage(d, "unlock"), Stage(s, "unlock")>>)]
      BY <1>1, <2>2
    <3> HIDE DEF n
    <3> QED BY <1>2, <1>3, <3>1, TwoAfter
  <2> QED BY <2>1, <2>2
<1> HIDE DEF n
<1>9. /\ \A u \in Slots : itable'[u].ref = itable[u].ref
      /\ \A j \in Inums : dinode'[j].type = dinode[j].type
      /\ \A j \in Inums : j # i /\ j # dd => dinode'[j].nlink = dinode[j].nlink
      /\ Len(th[p].put) = 0
  BY <1>2, <1>3, <1>4, <1>5, <1>6, NoLen DEF Near
<1>10. dinode'[dd].nlink = IF 1 = 1 /\ ty = "dir" THEN dinode[dd].nlink + 1 ELSE dinode[dd].nlink
  <2>1. dinode[dd].nlink \in Int
    BY <1>3 DEF IInv1, TypeOK, DiskRec
  <2> QED BY <1>3, <1>4, <1>5, <2>1
<1>11. 1 \in {0, 1}
  OBVIOUS
<1> QED BY <1>1, <1>2, <1>3, <1>5, <1>6, <1>7, <1>8, <1>9, <1>10, <1>11, FillLinks

-----------------------------------------------------------------------------
(* The third invariant holds. *)

\* Every action of a system call.
LEMMA CallLinks ==
  ASSUME IInv1, IInv2, Layer3, NEW p \in Procs, CallStep(p), ~astray'
  PROVE  Layer3'
<1>1. CASE namex(p) \/ CreateFinds(p) \/ LinkDir(p)
  BY <1>1, namexLinks, CreateFindsLinks, LinkDirLinks
<1>2. CASE OpenFound(p) \/ OpenFile(p) \/ OpenFail(p) \/ Close(p) \/ ChdirFound(p) \/ ChdirSet(p)
  BY <1>2, OpenFoundLinks, OpenFileLinks, OpenFailLinks, CloseLinks, ChdirFoundLinks, ChdirSetLinks
<1>3. CASE CreateExists(p) \/ CreateAlloc(p) \/ CreateLink(p) \/ CreateFail(p)
  BY <1>3, CreateExistsLinks, CreateAllocLinks, CreateLinkLinks, CreateFailLinks
<1>4. CASE LinkOld(p) \/ LinkBad(p) \/ UnlinkDir(p) \/ UnlinkChild(p) \/ UnlinkDrop(p)
  BY <1>4, LinkOldLinks, LinkBadLinks, UnlinkDirLinks, UnlinkChildLinks, UnlinkDropLinks
<1> QED BY <1>1, <1>2, <1>3, <1>4, Zenon DEF CallStep

\* Once gone astray, always so.
LEMMA AstrayStays == ASSUME [Next]_vars, ~astray' PROVE ~astray
<1>0. \A d, n : Look(d, n) => ~astray
  BY Zenon DEF Look
<1>1. CASE UNCHANGED vars
  BY <1>1, Zenon DEF vars
<1>2. ASSUME NEW p \in Procs, NEW c \in Calls, Syscall(p, c) PROVE ~astray
  BY <1>2, Zenon DEF Syscall
<1>3. ASSUME NEW p \in Procs, NEW path \in NewPaths, LinkNew(p, path) PROVE ~astray
  BY <1>3, Zenon DEF LinkNew
<1>4. ASSUME NEW p \in Procs, CallStep(p) PROVE ~astray
  <2>1. CASE namex(p)
    <3>1. UNCHANGED astray \/ \E d, n : Look(d, n)
      BY <2>1, Zenon DEF namex
    <3> QED BY <1>0, <3>1, Zenon
  <2>2. CASE CreateFinds(p)
    BY <1>0, <2>2, Zenon DEF CreateFinds
  <2>3. CASE LinkDir(p)
    BY <1>0, <2>3, Zenon DEF LinkDir
  <2>4. CASE \/ OpenFound(p) \/ OpenFile(p) \/ OpenFail(p) \/ Close(p) \/ ChdirFound(p) \/ ChdirSet(p)
             \/ CreateExists(p) \/ CreateAlloc(p) \/ CreateLink(p) \/ CreateFail(p)
             \/ LinkOld(p) \/ LinkBad(p) \/ UnlinkDir(p) \/ UnlinkChild(p) \/ UnlinkDrop(p)
    <3>1. UNCHANGED astray
      BY <2>4, Zenon DEF OpenFound, OpenFile, OpenFail, Close, ChdirFound, ChdirSet, CreateExists,
         CreateAlloc, CreateLink, CreateFail, LinkOld, LinkBad, UnlinkDir, UnlinkChild, UnlinkDrop
    <3> QED BY <3>1, Zenon
  <2> QED BY <1>4, <2>1, <2>2, <2>3, <2>4, Zenon DEF CallStep
<1>5. ASSUME NEW p \in Procs, PutStep(p) PROVE ~astray
  <2>1. UNCHANGED astray
    BY <1>5, Zenon DEF PutStep, iunlock, iput, IputFree, IputErase, IputRelease, IputLast
  <2> QED BY <2>1, Zenon
<1>6. ASSUME NEW p \in Procs, IlockPanic(p) PROVE ~astray
  BY <1>6, Zenon DEF IlockPanic
<1>7. Halted => UNCHANGED vars
  BY Zenon DEF Halted
<1> QED BY <1>1, <1>2, <1>3, <1>4, <1>5, <1>6, <1>7, Zenon DEF Next

\* ilock() finds an inode in use.
LEMMA IlockFinds == ASSUME IInv1, Layer3, NEW p \in Procs, IlockPanic(p) PROVE FALSE
<1>1. PICK s : s = Wants(p)
  OBVIOUS
<1>2. s # 0 /\ NoType(s)
  BY <1>1, Zenon DEF IlockPanic
<1>3. Pointer(p, "ip") = s /\ "ip" \in Pointers /\ ~Gone(th[p], "ip")
  BY <1>1, <1>2, Views DEF Wants, Pointers, Gone
<1> QED BY <1>2, <1>3 DEF NoType, Layer3, AliveOK, Inum

\* Nothing changes.
LEMMA SameKeeps3 == ASSUME Layer3, UNCHANGED vars PROVE Layer3'
<1>1. /\ \A p \in Procs, v \in Pointers : Pointer(p, v)' = Pointer(p, v)
      /\ \A s : Inum(s)' = Inum(s) /\ \A p : Erasing(p, s)' = Erasing(p, s)
  BY DEF vars, Pointer, PutSlot, Inum, Erasing
<1>2. \A i : Claims(i)' = Claims(i) /\ Links(i)' = Links(i)
  BY DEF vars, Claims, Links, Subs, Owes, Inum
<1>3. LinkOK'
  BY <1>2 DEF vars, Layer3, LinkOK
<1>4. DotsOK'
  BY DEF vars, Layer3, DotsOK, Fresh, Inum
<1>5. RootOK' /\ panic' = "none"
  BY <1>2 DEF vars, Layer3, RootOK
<1>6. \A p \in Procs : FreshOK(p)' /\ LastOK(p)'
  BY <1>1 DEF vars, Layer3, AliveOK, FreshOK, LastOK, Inum
<1>7. AliveOK'
  BY <1>1, <1>6 DEF vars, Layer3, AliveOK, Inum
<1> QED BY <1>3, <1>4, <1>5, <1>7 DEF Layer3

\* Every step that does not go astray keeps the third layer.
LEMMA NextInv3 == ASSUME IInv1, IInv2, IInv3, [Next]_vars PROVE IInv3'
<1> SUFFICES ASSUME ~astray' PROVE Layer3'
  BY Zenon DEF IInv3
<1>0. Layer3
  BY AstrayStays, Zenon DEF IInv3
<1>1. CASE UNCHANGED vars
  BY <1>0, <1>1, SameKeeps3
<1>2. ASSUME NEW p \in Procs, NEW c \in Calls, Syscall(p, c) PROVE Layer3'
  BY <1>0, <1>2, SyscallLinks
<1>3. ASSUME NEW p \in Procs, NEW path \in NewPaths, LinkNew(p, path) PROVE Layer3'
  BY <1>0, <1>3, LinkNewLinks
<1>4. ASSUME NEW p \in Procs, CallStep(p) PROVE Layer3'
  BY <1>0, <1>4, CallLinks
<1>5. ASSUME NEW p \in Procs, PutStep(p) PROVE Layer3'
  BY <1>0, <1>5, PutLinks
<1>6. ASSUME NEW p \in Procs, IlockPanic(p) PROVE Layer3'
  BY <1>0, <1>6, IlockFinds
<1>7. Halted => UNCHANGED vars
  BY Zenon DEF Halted
<1> QED BY <1>1, <1>2, <1>3, <1>4, <1>5, <1>6, <1>7, Zenon DEF Next

\* At first an inode of the chain has a link for its parent's entry, or as the
\* root, and one for the directory in it.
LEMMA InitLinks ==
  ASSUME IInv1, NEW depth \in 0 .. NInodes - 2, NEW first \in Names, \A p \in Procs : Pending(th[p]) = 0,
         \A i \in Inums :
           /\ dinode[i].type = IF i \in 1 .. depth + 1 THEN "dir" ELSE "free"
           /\ dinode[i].nlink = IF i \in 1 .. depth THEN 2 ELSE IF i = depth + 1 THEN 1 ELSE 0
           /\ \A n \in Names : ents[i][n] = IF n = first /\ i \in 1 .. depth THEN i + 1 ELSE 0
  PROVE  LinkOK
<1>0. NInodes \in Nat /\ depth \in Nat /\ depth + 1 < NInodes /\ Inums = 1 .. NInodes /\ ROOTINO = 1
  BY Consts DEF Inums, ROOTINO
<1>1. ASSUME NEW i \in Inums, NEW c, c \in Claims(i)
      PROVE  \/ i = 1 /\ c = <<"root", 0>>
             \/ i \in 2 .. depth + 1 /\ c = <<"link", <<i - 1, first>>>>
             \/ i \in 1 .. depth /\ c = <<"sub", first>>
  <2>1. ClaimForm(c, i)
    BY <1>1, ClaimsAlways DEF ClaimsAre
  <2>2. CASE \E e \in Inums, n \in Names : c = <<"link", <<e, n>>>> /\ ents[e][n] = i
    <3>1. PICK e \in Inums, n \in Names : c = <<"link", <<e, n>>>> /\ ents[e][n] = i
      BY <2>2
    <3>2. n = first /\ e \in 1 .. depth /\ i = e + 1
      BY <1>0, <3>1
    <3>3. i \in 2 .. depth + 1 /\ e = i - 1
      BY <1>0, <3>2
    <3> QED BY <3>1, <3>2, <3>3
  <2>3. CASE \E n \in Names : c = <<"sub", n>> /\ ents[i][n] # 0 /\ dinode[ents[i][n]].type = "dir"
    BY <2>3
  <2>4. CASE \E q \in Procs : c = <<"owed", q>> /\ Owes(q, i)
    BY <2>4 DEF Owes
  <2>5. CASE c = <<"root", 0>> /\ i = ROOTINO
    BY <1>0, <2>5
  <2> QED BY <2>1, <2>2, <2>3, <2>4, <2>5 DEF ClaimForm
<1>2. \A i \in Inums : Cardinality(Claims(i)) \in Nat
  BY ClaimsAlways DEF ClaimsAre
<1>3. ASSUME NEW a, NEW b, NEW T, T \subseteq {a} \cup {b} PROVE Cardinality(T) <= 2
  <2>1. PICK S : S = {a}
    OBVIOUS
  <2>2. IsFiniteSet(S) /\ Cardinality(S) = 1 /\ T \subseteq S \cup {b}
    BY <1>3, <2>1, FS_Singleton
  <2>3. Cardinality(T) <= Cardinality(S) + 1
    BY <2>2, CardMore
  <2> QED BY <2>2, <2>3
<1>4. ASSUME NEW i \in Inums PROVE Cardinality(Claims(i)) <= dinode[i].nlink
  <2>1. PICK a, b : a = (IF i = 1 THEN <<"root", 0>> ELSE <<"link", <<i - 1, first>>>>) /\ b = <<"sub", first>>
    OBVIOUS
  <2>2. CASE i \in 1 .. depth
    <3>1. dinode[i].nlink = 2
      BY <1>0, <2>2
    <3>2. i \in 2 .. depth + 1 => i # 1
      BY <1>0
    <3>3. ASSUME NEW c \in Claims(i) PROVE c = a \/ c = b
      <4>1. CASE i = 1
        BY <1>1, <2>1, <3>2, <4>1
      <4>2. CASE i # 1
        BY <1>1, <2>1, <4>2
      <4> QED BY <4>1, <4>2
    <3>4. Claims(i) \subseteq {a} \cup {b}
      BY <3>3
    <3> QED BY <1>3, <3>1, <3>4
  <2>3. CASE i = depth + 1
    <3>1. ~(i \in 1 .. depth)
      BY <1>0, <2>3
    <3>2. Claims(i) \subseteq {a} /\ dinode[i].nlink = 1
      BY <1>0, <1>1, <2>1, <2>3, <3>1
    <3>3. Cardinality(Claims(i)) <= Cardinality({a}) /\ Cardinality({a}) = 1
      BY <3>2, FS_Singleton, CardLess
    <3> QED BY <3>2, <3>3
  <2>4. CASE ~(i \in 1 .. depth) /\ i # depth + 1
    <3>1. i # 1 /\ ~(i \in 2 .. depth + 1)
      BY <1>0, <2>4
    <3>2. Claims(i) = {} /\ dinode[i].nlink = 0
      BY <1>1, <2>4, <3>1
    <3> QED BY <3>2, FS_EmptySet
  <2> QED BY <2>2, <2>3, <2>4
<1>5. \A i \in Inums : dinode[i].type = "free" => dinode[i].nlink = 0
  BY <1>0
<1> QED BY <1>4, <1>5 DEF LinkOK

\* The third layer holds initially: every directory of the chain is named by
\* the one above it.
LEMMA InitInv3 == ASSUME Init PROVE Layer3
<1>1. PICK depth \in 0 .. NInodes - 2 : cwd \in [Procs -> 1 .. depth + 1] /\ ChainOf(depth)
  BY InitIs
<1>2. InitTable /\ th = [p \in Procs |-> IdleThread] /\ ofile = [p \in Procs |-> 0] /\ panic = "none"
  BY InitIs
<1>3. \A p \in Procs : th[p].pc = "idle" /\ th[p].ip = 0 /\ th[p].dp = 0 /\ Len(th[p].put) = 0
  BY <1>2, IdleIs, NoLen DEF IdleThread
<1>4. IInv1
  BY InitInv1
<1>5. PICK first \in Names : \A i \in Inums :
        /\ dinode[i].type = IF i \in 1 .. depth + 1 THEN "dir" ELSE "free"
        /\ dinode[i].nlink = IF i \in 1 .. depth THEN 2 ELSE IF i = depth + 1 THEN 1 ELSE 0
        /\ ents[i]["."] = IF i \in 1 .. depth + 1 THEN i ELSE 0
        /\ ents[i][".."] = IF i = 1 THEN 1 ELSE IF i \in 1 .. depth + 1 THEN i - 1 ELSE 0
        /\ \A n \in Names : ents[i][n] = IF n = first /\ i \in 1 .. depth THEN i + 1 ELSE 0
  BY <1>1, ChainIs
<1>6. NInodes \in Nat /\ depth \in Nat /\ depth + 1 < NInodes /\ Inums = 1 .. NInodes /\ ROOTINO = 1
  BY Consts DEF Inums, ROOTINO
<1>7. LinkOK
  <2>1. \A p \in Procs : Pending(th[p]) = 0
    BY <1>3, PendingNone
  <2> QED BY <1>4, <1>5, <2>1, InitLinks
<1>8. DotsOK
  <2>1. ASSUME NEW d \in Inums, dinode[d].type = "dir" PROVE ents[d]["."] = d /\ ents[d][".."] \in Inums
    <3>1. d \in 1 .. depth + 1
      BY <1>5, <2>1
    <3> QED BY <1>5, <1>6, <3>1
  <2>2. ASSUME NEW d \in Inums, NEW i \in Inums, NEW n \in Names, ents[d][n] = i, dinode[i].type = "dir"
        PROVE  ents[i][".."] = d
    <3>1. d \in 1 .. depth /\ i = d + 1
      BY <1>5, <1>6, <2>2
    <3>2. i # 1 /\ i \in 1 .. depth + 1 /\ i - 1 = d
      BY <1>6, <3>1
    <3> QED BY <1>5, <3>2
  <2> QED BY <2>1, <2>2 DEF DotsOK
<1>9. RootOK
  <2>1. \A d \in Inums, n \in Names : ents[d][n] # ROOTINO
    BY <1>5, <1>6
  <2>2. dinode[ROOTINO].type = "dir" /\ ents[ROOTINO][".."] = ROOTINO
    BY <1>5, <1>6
  <2> QED BY <2>1, <2>2, RootLinks DEF RootOK
<1>10. \A p \in Procs : FreshOK(p) /\ LastOK(p)
  BY <1>3 DEF FreshOK, LastOK, Erasing
<1>11. ASSUME NEW p \in Procs, NEW v \in Pointers, Pointer(p, v) # 0
       PROVE  dinode[Inum(Pointer(p, v))].type # "free"
  <2>1. PICK s : s = cwd[p]
    OBVIOUS
  <2>2. s \in 1 .. depth + 1 /\ s \in Slots
    BY <1>1, <1>6, <2>1, Consts
  <2>3. Pointer(p, v) = s
    <3>1. ofile[p] = 0
      BY <1>2
    <3> QED BY <1>3, <1>11, <2>1, <3>1, Views DEF Pointers
  <2>4. itable[s].ref > 0
    BY <1>4, <2>2, <2>3, PointedTo
  <2>5. itable[s].inum = s
    <3>1. itable[s] = SlotOf(s, Cardinality(Users(s))) \/ itable[s] = EmptySlot
      BY <1>2, <2>2 DEF InitTable
    <3>2. s \in Inums /\ Cardinality(Users(s)) \in Nat
      BY <2>2, UsersFinite, Consts
    <3> QED BY <2>4, <3>1, <3>2, EmptyIs
  <2>6. dinode[s].type = "dir"
    BY <1>5, <2>2, Consts
  <2> QED BY <2>3, <2>5, <2>6 DEF Inum
<1> QED BY <1>2, <1>7, <1>8, <1>9, <1>10, <1>11 DEF Layer3, AliveOK

\* The three layers hold always.
THEOREM Inv3 == Spec => [](IInv1 /\ IInv2 /\ IInv3)
<1>1. Init => IInv1 /\ IInv2 /\ IInv3
  BY InitInv1, InitInv2, InitInv3 DEF IInv3
<1>2. IInv1 /\ IInv2 /\ IInv3 /\ [Next]_vars => (IInv1 /\ IInv2 /\ IInv3)'
  BY NextInv1, NextInv2, NextInv3
<1> QED BY <1>1, <1>2, PTL DEF Spec

-----------------------------------------------------------------------------
(* What the run checks, for every value of the constants. *)

\* The entries that name an inode are among what its link count covers.
LEMMA CoveredLinks == ASSUME IInv1, IInv3 PROVE LinksCover
<1> SUFFICES ASSUME ~astray, NEW i \in Inums, Links(i) # {}
             PROVE  dinode[i].type # "free" /\ dinode[i].nlink >= Cardinality(Links(i))
  BY Zenon DEF LinksCover
<1>1. TypeOK /\ LinkOK
  BY Zenon DEF IInv1, IInv3, Layer3
<1>2. PICK L, C : L = Links(i) /\ C = Claims(i)
  OBVIOUS
<1>3. IsFiniteSet(C) /\ Cardinality(C) \in Nat
  BY <1>2, ClaimsAlways DEF ClaimsAre
<1>4. IsFiniteSet(L)
  <2>1. IsFiniteSet(Inums) /\ IsFiniteSet(Names)
    <3>1. 1 \in Int /\ NInodes \in Int /\ IsFiniteSet(Names)
      BY Consts
    <3> QED BY <3>1, FS_Interval DEF Inums
  <2>2. IsFiniteSet(Inums \X Names)
    BY <2>1, FS_Product
  <2> QED BY <1>2, <2>2, FS_Subset DEF Links
<1>5. Cardinality({"link"} \X L) = Cardinality(L) /\ Cardinality(L) \in Nat
  <2>1. PICK K : K = {"link"}
    OBVIOUS
  <2>2. IsFiniteSet(K) /\ Cardinality(K) = 1 /\ Cardinality(L) \in Nat
    BY <1>4, <2>1, FS_Singleton, FS_CardinalityType
  <2>3. Cardinality(K \X L) = Cardinality(K) * Cardinality(L)
    BY <1>4, <2>2, FS_Product
  <2> QED BY <2>1, <2>2, <2>3
<1>6. {"link"} \X L \subseteq C
  BY <1>2 DEF Claims
<1>7. Cardinality(L) <= Cardinality(C)
  BY <1>3, <1>5, <1>6, CardLess
<1>8. Cardinality(C) <= dinode[i].nlink /\ dinode[i].nlink \in Int
  BY <1>1, <1>2 DEF LinkOK, TypeOK, DiskRec
<1>9. dinode[i].type # "free"
  <2>1. PICK e \in Inums \X Names : ents[e[1]][e[2]] = i
    BY DEF Links
  <2>2. PICK d \in Inums, n \in Names : ents[d][n] = i
    BY <2>1
  <2>3. PICK c : c = <<"link", <<d, n>>>>
    OBVIOUS
  <2>4. ClaimForm(c, i)
    BY <2>2, <2>3 DEF ClaimForm
  <2> QED BY <1>1, <2>4, Claimed
<1> QED BY <1>2, <1>3, <1>5, <1>7, <1>8, <1>9

\* However link(), unlink() and create() interleave, an inode has at least as
\* many links as entries, and is not free while it has an entry.
THEOREM LinksAreCovered == Spec => []LinksCover
<1>1. IInv1 /\ IInv3 => LinksCover
  BY CoveredLinks
<1> QED BY <1>1, Inv3, PTL

\* Whoever has a slot locked points to it: the last reference is that of the
\* process that drops it, which does not have it locked.
LEMMA LastUnlocked ==
  ASSUME IInv1, NEW p \in Procs, AtPut(p, "drop"), NEW s, s = Head(th[p].put).s, LastUse(s)
  PROVE  itable[s].lock = Nobody
<1>1. th[p].put \in Seq(StageRec) /\ th[p].put # <<>>
  BY DEF IInv1, TypeOK, ThRec, AtPut
<1>2. /\ Len(th[p].put) >= 1 /\ th[p].put[1].s = s /\ th[p].put[1].at = "drop" /\ s \in Slots
  BY <1>1, PutHead, PutParts DEF AtPut
<1>3. Pointer(p, "put1") = s /\ "put1" \in Pointers /\ ~Holds(th[p], "put1")
  BY <1>2, Views DEF Pointers, Holds
<1>4. Refs(s) = 1
  BY <1>2 DEF LastUse, IInv1, RefOK
<1>5. ASSUME NEW q \in Procs, itable[s].lock = q PROVE FALSE
  <2>1. PICK v \in Pointers : Holds(th[q], v) /\ Pointer(q, v) = s
    BY <1>2, <1>5 DEF IInv1, LockOK
  <2>2. Own(p, s) \in Nat /\ Own(p, s) >= 1 /\ Refs(s) \in Nat /\ Refs(s) >= Own(p, s)
    BY <1>3, OwnBounds
  <2>3. CASE q = p
    <3>1. v # "put1"
      BY <1>3, <2>1, <2>3
    <3>2. Own(p, s) >= 2
      BY <1>3, <2>1, <2>3, <3>1, OwnBounds
    <3> QED BY <1>4, <2>2, <3>2
  <2>4. CASE q # p
    <3>1. Refs(s) >= Own(p, s) + 1
      BY <2>1, <2>4, OwnBounds
    <3> QED BY <1>4, <2>2, <3>1
  <2> QED BY <2>3, <2>4
<1>6. itable[s].lock \in Procs \cup {Nobody}
  BY <1>2 DEF IInv1, TypeOK, SlotRec
<1> QED BY <1>5, <1>6

\* A cached inode is that of the disk, and the process that drops the last
\* reference is alone with it.
LEMMA Unsurprised == ASSUME IInv1, IInv2, IInv3 PROVE NoSurprise
<1>1. ASSUME NEW s \in Slots, itable[s].ref > 0, itable[s].valid, itable[s].lock = Nobody
      PROVE  /\ itable[s].type = dinode[itable[s].inum].type
             /\ itable[s].nlink = dinode[itable[s].inum].nlink
  <2>1. \A p \in Procs : ~Releasing(p, s)
    BY <1>1, ErasingHolds, Consts
  <2>2. Coherent(s)
    BY <1>1, <2>1 DEF IInv2, CacheOK, InUse
  <2> QED BY <2>2 DEF Coherent, Inum
<1>2. ASSUME NEW p \in Procs, AtPut(p, "drop") /\ LastUse(Head(th[p].put).s)
      PROVE  itable[Head(th[p].put).s].lock = Nobody
  <2>1. PICK s : s = Head(th[p].put).s
    OBVIOUS
  <2> QED BY <1>2, <2>1, LastUnlocked
<1>3. ~astray => panic = "none"
  BY Zenon DEF IInv3, Layer3
<1> QED BY <1>1, <1>2, <1>3, Zenon DEF NoSurprise

\* A cached inode that nobody has locked is that of the disk, an inode is freed
\* by a process that nobody else can disturb, and nothing panics.
THEOREM NothingSurprises == Spec => []NoSurprise
<1>1. IInv1 /\ IInv2 /\ IInv3 => NoSurprise
  BY Unsurprised
<1> QED BY <1>1, Inv3, PTL
=============================================================================
