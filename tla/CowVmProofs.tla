---------------------------- MODULE CowVmProofs ----------------------------
(***************************************************************************)
(* Proofs about CowVm for every number of processes, pages and virtual     *)
(* pages: type correctness, and that the reference counts of kalloc.c      *)
(* never let a page be freed while something refers to it.                 *)
(*                                                                         *)
(* The argument looks at memory as one function from slots (PTEs and       *)
(* kernel-thread variables) to pages.  Every step of the system changes    *)
(* that function in one of four ways, and one lemma about each says that   *)
(* the counts still cover the references.                                  *)
(***************************************************************************)
EXTENDS CowVm, FiniteSetTheorems, TLAPS

\* The slots of f that hold page pa.
Holders(f, pa) == {s \in Slots : f[s] = pa}

\* f: what every slot holds; fl: the free pages; cnt: the counts.
Counted(f, fl, cnt) ==
  /\ \A pa \in fl : Holders(f, pa) = {}
  /\ \A pa \in Pages \ fl : cnt[pa] >= Cardinality(Holders(f, pa))

SlotMap == [Slots -> Pages \cup {NoPage}]
Counts == [Pages -> Nat]

\* g is f with x in slot s; new is cnt with n for page pa.
SetSlot(g, f, s, x) ==
  g \in SlotMap /\ g[s] = x /\ \A r \in Slots \ {s} : g[r] = f[r]
SetCount(new, cnt, pa, n) ==
  new[pa] = n /\ \A q \in Pages \ {pa} : new[q] = cnt[q]

\* There are finitely many slots, so the holders of a page can be counted.
LEMMA HoldersFinite ==
  ASSUME NEW f, NEW pa
  PROVE  /\ IsFiniteSet(Holders(f, pa))
         /\ Cardinality(Holders(f, pa)) \in Nat
<1>1. IsFiniteSet(0 .. NVA)
  BY FS_Interval, ConstAssumption
<1>2. IsFiniteSet(Slots)
  BY <1>1, FS_Product, ConstAssumption DEF Slots
<1>3. Holders(f, pa) \subseteq Slots
  BY DEF Holders
<1> QED
  BY <1>2, <1>3, FS_Subset, FS_CardinalityType

\* A slot that gives up its page is one holder less; no other page is
\* affected.
LEMMA HoldersDrop ==
  ASSUME NEW f \in SlotMap, NEW s \in Slots, NEW pa \in Pages, f[s] = pa,
         NEW g, SetSlot(g, f, s, NoPage)
  PROVE  /\ Cardinality(Holders(g, pa)) = Cardinality(Holders(f, pa)) - 1
         /\ \A q \in Pages \ {pa} : Holders(g, q) = Holders(f, q)
<1>1. Holders(g, pa) = Holders(f, pa) \ {s}
  BY ConstAssumption DEF Holders, SlotMap, SetSlot
<1>2. s \in Holders(f, pa)
  BY DEF Holders
<1>3. Cardinality(Holders(f, pa) \ {s}) = Cardinality(Holders(f, pa)) - 1
  BY <1>2, HoldersFinite, FS_RemoveElement
<1>4. \A q \in Pages \ {pa} : Holders(g, q) = Holders(f, q)
  BY ConstAssumption DEF Holders, SlotMap, SetSlot
<1> QED
  BY <1>1, <1>3, <1>4

\* An empty slot that receives a page is one more holder of it.
LEMMA HoldersAdd ==
  ASSUME NEW f \in SlotMap, NEW s \in Slots, f[s] = NoPage,
         NEW pa \in Pages, NEW g, SetSlot(g, f, s, pa)
  PROVE  /\ Cardinality(Holders(g, pa)) = Cardinality(Holders(f, pa)) + 1
         /\ \A q \in Pages \ {pa} : Holders(g, q) = Holders(f, q)
<1>1. Holders(g, pa) = Holders(f, pa) \cup {s}
  BY DEF Holders, SlotMap, SetSlot
<1>2. s \notin Holders(f, pa)
  BY ConstAssumption DEF Holders
<1>3. Cardinality(Holders(f, pa) \cup {s}) = Cardinality(Holders(f, pa)) + 1
  BY <1>2, HoldersFinite, FS_AddElement
<1>4. \A q \in Pages \ {pa} : Holders(g, q) = Holders(f, q)
  BY ConstAssumption DEF Holders, SlotMap, SetSlot
<1> QED
  BY <1>1, <1>3, <1>4

\* The counts still cover the references if page pa is accounted for and
\* nothing changes for the other pages.
LEMMA CountedFrame ==
  ASSUME NEW f, NEW fl \in SUBSET Pages, NEW cnt, Counted(f, fl, cnt),
         NEW g, NEW fl2 \in SUBSET Pages, NEW pa \in Pages,
         NEW new, NEW n, SetCount(new, cnt, pa, n),
         \A q \in Pages \ {pa} : Holders(g, q) = Holders(f, q),
         \A q \in Pages \ {pa} : q \in fl2 <=> q \in fl,
         pa \in fl2 => Holders(g, pa) = {},
         pa \notin fl2 => n >= Cardinality(Holders(g, pa))
  PROVE  Counted(g, fl2, new)
<1>1. ASSUME NEW q \in fl2
      PROVE  Holders(g, q) = {}
  BY <1>1 DEF Counted
<1>2. ASSUME NEW q \in Pages \ fl2
      PROVE  new[q] >= Cardinality(Holders(g, q))
  <2>1. CASE q = pa
    BY <1>2, <2>1 DEF SetCount
  <2>2. CASE q # pa
    <3>1. cnt[q] >= Cardinality(Holders(f, q))
      BY <1>2, <2>2 DEF Counted
    <3>2. new[q] = cnt[q] /\ Holders(g, q) = Holders(f, q)
      BY <1>2, <2>2 DEF SetCount
    <3> QED
      BY <3>1, <3>2
  <2> QED
    BY <2>1, <2>2
<1> QED
  BY <1>1, <1>2 DEF Counted

\* kalloc(): a free page goes to an empty slot with count 1.
LEMMA CountedAlloc ==
  ASSUME NEW f \in SlotMap, NEW fl \in SUBSET Pages, NEW cnt \in Counts,
         Counted(f, fl, cnt), NEW s \in Slots, f[s] = NoPage, NEW pa \in fl,
         NEW g, SetSlot(g, f, s, pa), NEW new, SetCount(new, cnt, pa, 1)
  PROVE  Counted(g, fl \ {pa}, new)
<1>0. pa \in Pages
  OBVIOUS
<1>1. Holders(f, pa) = {}
  BY DEF Counted
<1>2. Cardinality(Holders(f, pa)) = 0
  BY <1>1, FS_EmptySet
<1>3. Cardinality(Holders(g, pa)) = 1
  BY <1>0, <1>2, HoldersAdd
<1>4. \A q \in Pages \ {pa} : Holders(g, q) = Holders(f, q)
  BY <1>0, HoldersAdd
<1>5. 1 >= Cardinality(Holders(g, pa))
  BY <1>3
<1>6. /\ fl \ {pa} \in SUBSET Pages
      /\ pa \notin fl \ {pa}
      /\ \A q \in Pages \ {pa} : q \in fl \ {pa} <=> q \in fl
  OBVIOUS
<1> QED
  BY <1>0, <1>4, <1>5, <1>6, CountedFrame

\* kfree(): a slot gives up its page; the page is freed if the count drops
\* to zero.
LEMMA CountedFree ==
  ASSUME NEW f \in SlotMap, NEW fl \in SUBSET Pages, NEW cnt \in Counts,
         Counted(f, fl, cnt), NEW s \in Slots, NEW pa \in Pages, f[s] = pa,
         NEW g, SetSlot(g, f, s, NoPage),
         NEW new, SetCount(new, cnt, pa, cnt[pa] - 1),
         NEW fl2, fl2 = IF cnt[pa] - 1 > 0 THEN fl ELSE fl \cup {pa}
  PROVE  /\ cnt[pa] >= 1
         /\ Counted(g, fl2, new)
<1>1. s \in Holders(f, pa) /\ pa \notin fl
  BY DEF Holders, Counted
<1>2. cnt[pa] >= Cardinality(Holders(f, pa))
  BY <1>1 DEF Counted
<1>3. /\ Cardinality(Holders(g, pa)) = Cardinality(Holders(f, pa)) - 1
      /\ \A q \in Pages \ {pa} : Holders(g, q) = Holders(f, q)
  BY HoldersDrop
<1>4. /\ Cardinality(Holders(g, pa)) \in Nat
      /\ Cardinality(Holders(f, pa)) \in Nat
      /\ IsFiniteSet(Holders(g, pa))
  BY HoldersFinite
<1>5. cnt[pa] \in Nat
  BY DEF Counts
<1>6. cnt[pa] >= 1
  BY <1>2, <1>3, <1>4, <1>5
<1>7. ASSUME pa \in fl2 PROVE Holders(g, pa) = {}
  <2>1. cnt[pa] - 1 <= 0
    BY <1>1, <1>5, <1>7
  <2>2. Cardinality(Holders(g, pa)) = 0
    BY <2>1, <1>2, <1>3, <1>4, <1>5
  <2> QED
    BY <2>2, <1>4, FS_EmptySet
<1>8. cnt[pa] - 1 >= Cardinality(Holders(g, pa))
  BY <1>2, <1>3, <1>4, <1>5
<1>9. /\ fl2 \in SUBSET Pages
      /\ \A q \in Pages \ {pa} : q \in fl2 <=> q \in fl
  OBVIOUS
<1>10. Counted(g, fl2, new)
  BY <1>3, <1>7, <1>8, <1>9, CountedFrame
<1> QED
  BY <1>6, <1>10

\* uvmcopy(): the count of a page goes up and an empty slot receives it, or,
\* if mapping fails, no slot changes.
LEMMA CountedShare ==
  ASSUME NEW f \in SlotMap, NEW fl \in SUBSET Pages, NEW cnt \in Counts,
         Counted(f, fl, cnt), NEW t \in Slots, NEW pa \in Pages, f[t] = pa,
         NEW s \in Slots, NEW g,
         g = f \/ (f[s] = NoPage /\ SetSlot(g, f, s, pa)),
         NEW new, SetCount(new, cnt, pa, cnt[pa] + 1)
  PROVE  Counted(g, fl, new)
<1>1. t \in Holders(f, pa) /\ pa \notin fl
  BY DEF Holders, Counted
<1>2. cnt[pa] >= Cardinality(Holders(f, pa))
  BY <1>1 DEF Counted
<1>3. Cardinality(Holders(f, pa)) \in Nat /\ cnt[pa] \in Nat
  BY HoldersFinite DEF Counts
<1>4. /\ cnt[pa] + 1 >= Cardinality(Holders(g, pa))
      /\ \A q \in Pages \ {pa} : Holders(g, q) = Holders(f, q)
  <2>1. CASE g = f
    BY <1>2, <1>3, <2>1
  <2>2. CASE f[s] = NoPage /\ SetSlot(g, f, s, pa)
    <3>1. /\ Cardinality(Holders(g, pa)) = Cardinality(Holders(f, pa)) + 1
          /\ \A q \in Pages \ {pa} : Holders(g, q) = Holders(f, q)
      BY <2>2, HoldersAdd
    <3> QED
      BY <1>2, <1>3, <3>1
  <2> QED
    BY <2>1, <2>2
<1> QED
  BY <1>1, <1>4, CountedFrame

\* Exchanging a member of a finite set leaves its cardinality.
LEMMA CardinalityExchange ==
  ASSUME NEW S, IsFiniteSet(S), NEW x \in S, NEW y, y \notin S
  PROVE  Cardinality((S \ {x}) \cup {y}) = Cardinality(S)
<1>1. IsFiniteSet(S \ {x}) /\ Cardinality(S \ {x}) = Cardinality(S) - 1
  BY FS_RemoveElement
<1>2. Cardinality((S \ {x}) \cup {y}) = Cardinality(S \ {x}) + 1
  BY <1>1, FS_AddElement
<1> QED
  BY <1>1, <1>2, FS_CardinalityType

\* Two slots exchange what they hold: the PTE and the local variable in
\* cow_page_fault() and in uvmalloc().
LEMMA HoldersSwap ==
  ASSUME NEW f \in SlotMap, NEW s \in Slots, NEW t \in Slots,
         NEW x, NEW y, f[s] = x, f[t] = y, x # y,
         NEW g \in SlotMap, g[s] = y, g[t] = x,
         \A r \in Slots \ {s, t} : g[r] = f[r]
  PROVE  /\ \A pa \in Pages : Cardinality(Holders(g, pa)) = Cardinality(Holders(f, pa))
         /\ \A pa \in Pages : pa # x /\ pa # y => Holders(g, pa) = Holders(f, pa)
         /\ s \in Holders(f, x) /\ t \in Holders(f, y)
<1>1. Holders(g, x) = (Holders(f, x) \ {s}) \cup {t}
  BY DEF Holders
<1>2. Holders(g, y) = (Holders(f, y) \ {t}) \cup {s}
  BY DEF Holders
<1>3. \A pa \in Pages : pa # x /\ pa # y => Holders(g, pa) = Holders(f, pa)
  BY DEF Holders
<1>4. s \in Holders(f, x) /\ t \notin Holders(f, x)
  BY DEF Holders
<1>5. t \in Holders(f, y) /\ s \notin Holders(f, y)
  BY DEF Holders
<1>6. IsFiniteSet(Holders(f, x)) /\ IsFiniteSet(Holders(f, y))
  BY HoldersFinite
<1>7. Cardinality(Holders(g, x)) = Cardinality(Holders(f, x))
  BY <1>1, <1>4, <1>6, CardinalityExchange
<1>8. Cardinality(Holders(g, y)) = Cardinality(Holders(f, y))
  BY <1>2, <1>5, <1>6, CardinalityExchange
<1> QED
  BY <1>3, <1>4, <1>5, <1>7, <1>8

\* The counts still cover the references.
LEMMA CountedSwap ==
  ASSUME NEW f \in SlotMap, NEW fl \in SUBSET Pages, NEW cnt \in Counts,
         Counted(f, fl, cnt), NEW s \in Slots, NEW t \in Slots,
         NEW x, NEW y, f[s] = x, f[t] = y, x # y,
         NEW g \in SlotMap, g[s] = y, g[t] = x,
         \A r \in Slots \ {s, t} : g[r] = f[r]
  PROVE  Counted(g, fl, cnt)
<1>1. /\ \A pa \in Pages : Cardinality(Holders(g, pa)) = Cardinality(Holders(f, pa))
      /\ \A pa \in Pages : pa # x /\ pa # y => Holders(g, pa) = Holders(f, pa)
      /\ s \in Holders(f, x) /\ t \in Holders(f, y)
  BY HoldersSwap
<1>2. x \notin fl /\ y \notin fl
  BY <1>1 DEF Counted
<1>3. \A pa \in fl : Holders(g, pa) = {}
  BY <1>1, <1>2 DEF Counted
<1> QED
  BY <1>1, <1>3 DEF Counted

-----------------------------------------------------------------------------
(* The inductive invariant *)

\* What every slot holds with page tables g and threads h.
MapOf(g, h) ==
  [s \in Slots |-> IF s[2] < NVA THEN g[s[1]][s[2]].pa ELSE h[s[1]].pa]

RefMap == MapOf(pgtbl, th)

\* Where a thread can be with which locals, and in which state the process
\* is whose page table it works on.  A thread only holds a page between
\* kalloc() and mapping it or between unmapping and kfree(), and it only
\* works on another table if nobody runs on that table.
ThreadOK(p) ==
  LET t == th[p] IN
  /\ t.pa # NoPage <=> t.pc \in {"cow_copy", "cow_free", "uvmalloc_map"}
  /\ t.pc = "user" => t = Idle(p)
  /\ t.pc # "user" => state[p] = "LIVE"
  /\ t.pc \notin {"uvmcopy", "uvmunmap"} => t.tgt = p
  /\ t.pc \in {"cow_alloc", "cow_copy"} =>
       t.va < NVA /\ Valid(pgtbl[p][t.va])
  /\ t.pc \in {"uvmalloc", "uvmalloc_map"} => t.ret = "grow"
  /\ t.pc = "uvmalloc_map" => t.i < NVA
  /\ t.pc = "uvmcopy" => state[t.tgt] = "USED"
  /\ t.pc = "uvmunmap" =>
       \/ t.ret = "fork" /\ state[t.tgt] = "USED"
       \/ t.ret = "freeproc" /\ state[t.tgt] = "ZOMBIE"
       \/ t.ret \in {"shrink", "grow"} /\ t.tgt = p

\* Two threads never build or take down the same page table.
TargetsDiffer ==
  \A p, r \in Procs :
    /\ p # r
    /\ th[p].pc \in {"uvmcopy", "uvmunmap"}
    /\ th[r].pc \in {"uvmcopy", "uvmunmap"}
    => th[p].tgt # th[r].tgt

ThreadsOK == TargetsDiffer /\ \A p \in Procs : ThreadOK(p)

IInv == TypeOK /\ ThreadsOK /\ Counted(RefMap, freelist, pte_count)

-----------------------------------------------------------------------------
(* How page tables and threads determine what the slots hold *)

Tables == [Procs -> [VAs -> Pte]]
Threads == [Procs -> Thread]

LEMMA SlotPair ==
  ASSUME NEW s \in Slots
  PROVE  s = <<s[1], s[2]>> /\ s[1] \in Procs /\ s[2] \in 0 .. NVA
BY DEF Slots

LEMMA MapOfType ==
  ASSUME NEW g \in Tables, NEW h \in Threads
  PROVE  MapOf(g, h) \in SlotMap
<1>1. ASSUME NEW s \in Slots
      PROVE  MapOf(g, h)[s] \in Pages \cup {NoPage}
  <2>1. CASE s[2] < NVA
    <3>1. s[1] \in Procs /\ s[2] \in VAs
      BY <1>1, <2>1, SlotPair, ConstAssumption DEF VAs
    <3> QED
      BY <2>1, <3>1 DEF MapOf, Pte, Tables
  <2>2. CASE ~(s[2] < NVA)
    BY <1>1, <2>2, SlotPair DEF MapOf, Thread, Threads
  <2> QED
    BY <2>1, <2>2
<1> QED
  BY <1>1 DEF MapOf, SlotMap

\* A slot is a PTE or the local variable of a thread.
LEMMA MapOfAt ==
  ASSUME NEW g, NEW h, NEW p \in Procs
  PROVE  /\ <<p, NVA>> \in Slots /\ MapOf(g, h)[<<p, NVA>>] = h[p].pa
         /\ \A va \in VAs : /\ <<p, va>> \in Slots
                            /\ MapOf(g, h)[<<p, va>>] = g[p][va].pa
BY ConstAssumption DEF MapOf, Slots, VAs

\* The slots whose PTE or variable keeps its page hold what they held.
LEMMA MapOfKeeps ==
  ASSUME NEW g, NEW h, NEW g2, NEW h2, NEW s \in Slots,
         s[2] \in VAs => g2[s[1]][s[2]].pa = g[s[1]][s[2]].pa,
         s[2] = NVA => h2[s[1]].pa = h[s[1]].pa
  PROVE  MapOf(g2, h2)[s] = MapOf(g, h)[s]
BY SlotPair, ConstAssumption DEF MapOf, VAs

\* Neither a PTE nor a local variable changes its page.
LEMMA SlotsSame ==
  ASSUME NEW g, NEW h, NEW g2, NEW h2,
         \A p \in Procs, va \in VAs : g2[p][va].pa = g[p][va].pa,
         \A p \in Procs : h2[p].pa = h[p].pa
  PROVE  MapOf(g2, h2) = MapOf(g, h)
<1>1. ASSUME NEW s \in Slots PROVE MapOf(g2, h2)[s] = MapOf(g, h)[s]
  BY SlotPair, MapOfKeeps
<1> QED
  BY <1>1 DEF MapOf

\* Exactly one PTE changes.
LEMMA SlotPte ==
  ASSUME NEW g, NEW h, NEW g2 \in Tables, NEW h2 \in Threads,
         NEW q \in Procs, NEW i \in VAs, NEW x, g2[q][i].pa = x,
         \A p \in Procs, va \in VAs :
           p # q \/ va # i => g2[p][va].pa = g[p][va].pa,
         \A p \in Procs : h2[p].pa = h[p].pa
  PROVE  SetSlot(MapOf(g2, h2), MapOf(g, h), <<q, i>>, x)
<1>1. MapOf(g2, h2)[<<q, i>>] = x
  <2>1. <<q, i>> \in Slots /\ i < NVA
    BY ConstAssumption DEF Slots, VAs
  <2> QED
    BY <2>1 DEF MapOf
<1>2. ASSUME NEW s \in Slots \ {<<q, i>>}
      PROVE  MapOf(g2, h2)[s] = MapOf(g, h)[s]
  <2>1. s \in Slots /\ s = <<s[1], s[2]>> /\ s[1] \in Procs
    BY SlotPair
  <2>2. s[1] # q \/ s[2] # i
    BY <2>1
  <2> QED
    BY <2>1, <2>2, MapOfKeeps
<1> QED
  BY <1>1, <1>2, MapOfType DEF SetSlot

\* Exactly one local variable changes.
LEMMA SlotLocal ==
  ASSUME NEW g, NEW h, NEW g2 \in Tables, NEW h2 \in Threads,
         NEW q \in Procs, NEW x, h2[q].pa = x,
         \A p \in Procs, va \in VAs : g2[p][va].pa = g[p][va].pa,
         \A p \in Procs \ {q} : h2[p].pa = h[p].pa
  PROVE  SetSlot(MapOf(g2, h2), MapOf(g, h), <<q, NVA>>, x)
<1>1. MapOf(g2, h2)[<<q, NVA>>] = x
  BY MapOfAt
<1>2. ASSUME NEW s \in Slots \ {<<q, NVA>>}
      PROVE  MapOf(g2, h2)[s] = MapOf(g, h)[s]
  <2>1. s \in Slots /\ s = <<s[1], s[2]>> /\ s[1] \in Procs
    BY SlotPair
  <2>2. s[1] # q \/ s[2] # NVA
    BY <2>1
  <2> QED
    BY <2>1, <2>2, MapOfKeeps
<1> QED
  BY <1>1, <1>2, MapOfType DEF SetSlot

\* A PTE and the local variable of the same process change.
LEMMA SlotBoth ==
  ASSUME NEW g, NEW h, NEW g2 \in Tables, NEW h2 \in Threads,
         NEW q \in Procs, NEW i \in VAs,
         \A p \in Procs, va \in VAs :
           p # q \/ va # i => g2[p][va].pa = g[p][va].pa,
         \A p \in Procs \ {q} : h2[p].pa = h[p].pa
  PROVE  \A s \in Slots \ {<<q, i>>, <<q, NVA>>} :
           MapOf(g2, h2)[s] = MapOf(g, h)[s]
<1>1. ASSUME NEW s \in Slots \ {<<q, i>>, <<q, NVA>>}
      PROVE  MapOf(g2, h2)[s] = MapOf(g, h)[s]
  <2>1. s \in Slots /\ s = <<s[1], s[2]>> /\ s[1] \in Procs
    BY SlotPair
  <2>2. (s[1] # q \/ s[2] # i) /\ (s[1] # q \/ s[2] # NVA)
    BY <2>1
  <2> QED
    BY <2>1, <2>2, MapOfKeeps
<1> QED
  BY <1>1

-----------------------------------------------------------------------------
(* Types.  That pte_count stays a natural number depends on the counts      *)
(* covering the references, and is left to the next section.               *)

Shapes ==
  /\ freelist \subseteq Pages
  /\ mem \in [Pages -> Values \cup {Junk}]
  /\ pgtbl \in Tables
  /\ sz \in [Procs -> 0 .. NVA]
  /\ state \in [Procs -> {"UNUSED", "USED", "LIVE", "ZOMBIE"}]
  /\ th \in Threads

LEMMA IdleType == \A p \in Procs : Idle(p) \in Thread
BY ConstAssumption DEF Idle, Thread, PCs

LEMMA ThreadsAt ==
  ASSUME NEW h \in Threads, NEW p \in Procs, NEW t \in Thread
  PROVE  [h EXCEPT ![p] = t] \in Threads
BY DEF Threads

LEMMA TablesAt ==
  ASSUME NEW g \in Tables, NEW q \in Procs, NEW i \in VAs, NEW x \in Pte
  PROVE  [g EXCEPT ![q][i] = x] \in Tables
BY DEF Tables

LEMMA SharedPteType ==
  ASSUME NEW pte \in Pte
  PROVE  SharedPte(pte) \in Pte /\ SharedPte(pte).pa = pte.pa
BY DEF SharedPte, Pte, Flags

LEMMA kallocShapes ==
  ASSUME Shapes, NEW pa \in freelist, kalloc(pa)
  PROVE  freelist' \subseteq Pages /\ mem' \in [Pages -> Values \cup {Junk}]
BY DEF Shapes, kalloc

LEMMA kfreeShapes ==
  ASSUME Shapes, NEW pa \in Pages, kfree(pa)
  PROVE  freelist' \subseteq Pages /\ mem' \in [Pages -> Values \cup {Junk}]
BY DEF Shapes, kfree

\* Every step leaves every variable but pte_count in its type.
LEMMA StepShapes ==
  ASSUME IInv, Next
  PROVE  Shapes'
<1>0. Shapes
  BY DEF IInv, TypeOK, Shapes, Tables, Threads
<1> PICK p \in Procs : 
    \/ KernelStep(p)
    \/ \E va \in VAs : StoreFault(p, va)
    \/ \E va \in VAs, v \in Values : Store(p, va, v) \/ copyout(p, va, v)
    \/ \E q \in Procs : Fork(p, q) \/ Wait(p, q)
    \/ \E n \in 1 .. NVA : Grow(p, n) \/ Shrink(p, n)
  BY DEF Next
<1>t. th[p] \in Thread /\ ThreadOK(p)
  BY <1>0 DEF IInv, ThreadsOK, Shapes, Threads
<1>v. VAs \subseteq 0 .. NVA /\ NVA \in Nat
  BY ConstAssumption DEF VAs
<1>u. GrowUndo(th[p], sz[p]) \in Thread
  <2>1. sz[p] \in 0 .. NVA
    BY <1>0 DEF Shapes
  <2> QED
    BY <1>t, <2>1 DEF GrowUndo, Thread, PCs
<1>1. ASSUME NEW va \in VAs, NEW v \in Values, Store(p, va, v)
      PROVE  Shapes'
  BY <1>0, <1>1 DEF Store, Shapes
<1>2. ASSUME NEW va \in VAs, StoreFault(p, va)
      PROVE  Shapes'
  BY <1>0, <1>2, <1>t, <1>v DEF StoreFault, Shapes, Threads, Thread, PCs
<1>3. ASSUME NEW va \in VAs, NEW v \in Values, copyout(p, va, v)
      PROVE  Shapes'
  <2>1. [th[p] EXCEPT !.pc = "cow_alloc", !.va = va, !.val = v,
                      !.ret = "copyout"] \in Thread
    BY <1>t, <1>v DEF Thread, PCs
  <2>2. th' = th \/ th' = [th EXCEPT ![p] = [th[p] EXCEPT
                 !.pc = "cow_alloc", !.va = va, !.val = v, !.ret = "copyout"]]
    BY <1>3 DEF copyout
  <2>3. th' \in Threads
    BY <1>0, <2>1, <2>2, ThreadsAt DEF Shapes
  <2> QED
    BY <1>0, <1>3, <2>3 DEF copyout, Shapes
<1>4. ASSUME NEW q \in Procs, Fork(p, q)
      PROVE  Shapes'
  BY <1>0, <1>4, <1>t DEF Fork, Shapes, Threads, Thread, PCs
<1>5. ASSUME NEW q \in Procs, Wait(p, q)
      PROVE  Shapes'
  <2>1. [th[p] EXCEPT !.pc = "uvmunmap", !.tgt = q, !.i = 0, !.hi = sz[q],
                      !.ret = "freeproc"] \in Thread
    <3>1. sz[q] \in 0 .. NVA /\ 0 \in 0 .. NVA
      BY <1>0, <1>v DEF Shapes
    <3> QED
      BY <1>t, <3>1 DEF Thread, PCs
  <2> QED
    BY <1>0, <1>5, <2>1, ThreadsAt DEF Wait, Shapes
<1>6. ASSUME NEW n \in 1 .. NVA, Grow(p, n)
      PROVE  Shapes'
  <2>1. sz[p] \in 0 .. NVA /\ sz[p] + n \in 0 .. NVA
    <3>1. sz[p] + n <= NVA
      BY <1>6 DEF Grow
    <3>2. sz[p] \in 0 .. NVA
      BY <1>0 DEF Shapes
    <3> QED
      BY <1>v, <3>1, <3>2
  <2>2. [th[p] EXCEPT !.pc = "uvmalloc", !.i = sz[p], !.hi = sz[p] + n,
                      !.ret = "grow"] \in Thread
    BY <1>t, <2>1 DEF Thread, PCs
  <2> QED
    BY <1>0, <1>6, <2>2, ThreadsAt DEF Grow, Shapes
<1>7. ASSUME NEW n \in 1 .. NVA, Shrink(p, n)
      PROVE  Shapes'
  <2>1. sz[p] \in 0 .. NVA /\ sz[p] - n \in 0 .. NVA
    <3>1. n <= sz[p]
      BY <1>7 DEF Shrink
    <3>2. sz[p] \in 0 .. NVA
      BY <1>0 DEF Shapes
    <3> QED
      BY <1>v, <3>1, <3>2
  <2>2. [th[p] EXCEPT !.pc = "uvmunmap", !.i = sz[p] - n, !.hi = sz[p],
                      !.va = sz[p] - n, !.ret = "shrink"] \in Thread
    BY <1>t, <2>1 DEF Thread, PCs
  <2> QED
    BY <1>0, <1>7, <2>2, ThreadsAt DEF Shrink, Shapes
<1>8. CASE CowAlloc(p)
  <2>1. th' \in Threads
    <3>1. \A pa \in Pages :
            [th[p] EXCEPT !.pc = "cow_copy", !.pa = pa] \in Thread
      BY <1>t DEF Thread, PCs
    <3>2. [Idle(p) EXCEPT !.pc = "usertrap_return"] \in Thread
      BY IdleType DEF Thread, PCs
    <3> QED
      <4>1. PICK t \in Thread : th' = [th EXCEPT ![p] = t]
        BY <1>0, <1>8, <3>1, <3>2, IdleType DEF CowAlloc, Shapes
      <4> QED
        BY <1>0, <4>1, ThreadsAt DEF Shapes
  <2> QED
    BY <1>0, <1>8, <2>1, kallocShapes DEF CowAlloc, Shapes
<1>9. CASE CowCopy(p)
  <2>1. th[p].pa \in Pages /\ th[p].va \in VAs /\ pgtbl[p][th[p].va] \in Pte
        /\ pgtbl[p][th[p].va].pa \in Pages
    BY <1>0, <1>9, <1>t, <1>v
    DEF CowCopy, At, ThreadOK, Thread, VAs, Shapes, Tables, Pte, Valid
  <2>2. th' \in Threads
    BY <1>0, <1>9, <1>t, <2>1 DEF CowCopy, Shapes, Threads, Thread, PCs
  <2>3. pgtbl' \in Tables
    BY <1>0, <1>9, <2>1 DEF CowCopy, Shapes, Tables, Pte, Flags
  <2> QED
    BY <1>0, <1>9, <2>1, <2>2, <2>3 DEF CowCopy, Shapes
<1>10. CASE CowFree(p)
  <2>1. th[p].pa \in Pages
    BY <1>10, <1>t DEF CowFree, At, ThreadOK, Thread
  <2>2. th' \in Threads
    BY <1>0, <1>10, <1>t, IdleType DEF CowFree, Shapes, Threads, Thread, PCs
  <2> QED
    BY <1>0, <1>10, <2>1, <2>2, kfreeShapes DEF CowFree, Shapes
<1>11. CASE CopyoutWrite(p)
  BY <1>0, <1>11, <1>t, IdleType DEF CopyoutWrite, Shapes, Threads, Thread
<1>12. CASE UvmcopyPage(p)
  <2>1. th[p].i \in VAs /\ th[p].tgt \in Procs /\ th[p].i + 1 \in 0 .. NVA
    BY <1>0, <1>12, <1>t, <1>v DEF UvmcopyPage, Thread, VAs, Shapes
  <2>2. SharedPte(pgtbl[p][th[p].i]) \in Pte
    BY <1>0, <2>1, SharedPteType DEF Shapes, Tables
  <2>3. pgtbl' \in Tables
    <3> DEFINE pte == SharedPte(pgtbl[p][th[p].i])
               g == [pgtbl EXCEPT ![p][th[p].i] = pte]
    <3>1. g \in Tables
      BY <1>0, <2>1, <2>2, TablesAt DEF Shapes
    <3>2. [g EXCEPT ![th[p].tgt][th[p].i] = pte] \in Tables
      <4> HIDE DEF g, pte
      <4> QED
        BY <2>1, <2>2, <3>1, TablesAt DEF pte
    <3>3. \/ pgtbl' = g
          \/ pgtbl' = [g EXCEPT ![th[p].tgt][th[p].i] = pte]
      BY <1>12 DEF UvmcopyPage
    <3> QED
      BY <3>1, <3>2, <3>3
  <2>4. th' \in Threads
    <3>1. [th[p] EXCEPT !.i = th[p].i + 1] \in Thread
      BY <1>t, <2>1 DEF Thread
    <3>2. UvmcopyUndo(th[p]) \in Thread
      <4>1. 0 \in 0 .. NVA /\ th[p].i \in 0 .. NVA
        BY <1>t, <1>v DEF Thread
      <4> QED
        BY <1>t, <4>1 DEF UvmcopyUndo, Thread, PCs
    <3> QED
      BY <1>0, <1>12, <3>1, <3>2, ThreadsAt DEF UvmcopyPage, Shapes
  <2> QED
    BY <1>0, <1>12, <2>3, <2>4 DEF UvmcopyPage, Shapes
<1>13. CASE ForkDone(p)
  BY <1>0, <1>13, <1>t, IdleType DEF ForkDone, Shapes, Threads, Thread
<1>14. CASE Exit(p)
  BY <1>0, <1>14 DEF Exit, Shapes
<1>15. CASE UvmallocPage(p)
  <2>1. th' \in Threads
    <3>1. \A pa \in Pages :
            [th[p] EXCEPT !.pc = "uvmalloc_map", !.pa = pa] \in Thread
      BY <1>t DEF Thread, PCs
    <3> QED
      <4>1. PICK t \in Thread : th' = [th EXCEPT ![p] = t]
        BY <1>0, <1>15, <1>u, <3>1 DEF UvmallocPage, Shapes
      <4> QED
        BY <1>0, <4>1, ThreadsAt DEF Shapes
  <2> QED
    BY <1>0, <1>15, <2>1, kallocShapes DEF UvmallocPage, Shapes
<1>16. CASE UvmallocMap(p)
  <2>1. th[p].pa \in Pages /\ th[p].i \in VAs /\ th[p].i + 1 \in 0 .. NVA
    BY <1>16, <1>t, <1>v DEF UvmallocMap, At, ThreadOK, Thread, VAs
  <2>2. th' \in Threads
    <3>1. [th[p] EXCEPT !.pc = "uvmalloc", !.i = th[p].i + 1, !.pa = NoPage]
            \in Thread
      BY <1>t, <2>1 DEF Thread, PCs
    <3> QED
      BY <1>0, <1>16, <1>u, <3>1, ThreadsAt DEF UvmallocMap, Shapes
  <2>3. pgtbl' \in Tables
    <3>1. [pa |-> th[p].pa, flags |-> {"U", "W"}] \in Pte
      BY <2>1 DEF Pte, Flags
    <3> QED
      BY <1>0, <1>16, <2>1, <3>1, TablesAt DEF UvmallocMap, Shapes
  <2>4. freelist' \subseteq Pages /\ mem' \in [Pages -> Values \cup {Junk}]
    BY <1>0, <1>16, <2>1, kfreeShapes, ConstAssumption DEF UvmallocMap, Shapes
  <2> QED
    BY <1>0, <1>16, <2>2, <2>3, <2>4 DEF UvmallocMap, Shapes
<1>17. CASE GrowDone(p)
  BY <1>0, <1>17, <1>t, IdleType DEF GrowDone, Shapes, Threads, Thread
<1>18. CASE UvmunmapPage(p)
  <2>1. th[p].i \in VAs /\ th[p].tgt \in Procs /\ th[p].i + 1 \in 0 .. NVA
    BY <1>18, <1>t, <1>v DEF UvmunmapPage, Thread, VAs
  <2>2. pgtbl[th[p].tgt][th[p].i].pa \in Pages
    BY <1>0, <1>18, <2>1 DEF UvmunmapPage, Shapes, Tables, Pte, Valid
  <2>3. pgtbl' \in Tables
    BY <1>0, <1>18, <2>1 DEF UvmunmapPage, Shapes, Tables, Pte, NoPte
  <2>4. th' \in Threads
    BY <1>0, <1>18, <1>t, <2>1 DEF UvmunmapPage, Shapes, Threads, Thread
  <2> QED
    BY <1>0, <1>18, <2>2, <2>3, <2>4, kfreeShapes DEF UvmunmapPage, Shapes
<1>19. CASE UvmunmapDone(p)
  BY <1>0, <1>19, <1>t, <1>v, IdleType
  DEF UvmunmapDone, Shapes, Threads, Thread
<1> QED
  BY <1>1, <1>2, <1>3, <1>4, <1>5, <1>6, <1>7, <1>8, <1>9, <1>10, <1>11,
     <1>12, <1>13, <1>14, <1>15, <1>16, <1>17, <1>18, <1>19 DEF KernelStep

-----------------------------------------------------------------------------
(* Threads keep out of each other's page tables *)

Working(t) == t.pc \in {"uvmcopy", "uvmunmap"}

\* Nobody else works on the page table of a live process.
LEMMA LiveNotTarget ==
  ASSUME ThreadsOK, NEW p \in Procs, state[p] = "LIVE",
         NEW r \in Procs \ {p}, Working(th[r])
  PROVE  th[r].tgt # p
<1>1. ThreadOK(r)
  BY DEF ThreadsOK
<1> QED
  BY <1>1 DEF ThreadOK, Working

\* Only thread p moves: it must be well placed itself, work on a table
\* nobody else works on, and leave alone what the others rely on.
LEMMA ThreadsFrame ==
  ASSUME ThreadsOK, NEW p \in Procs, ThreadOK(p)',
         \A r \in Procs \ {p} : th'[r] = th[r],
         Working(th'[p]) => \A r \in Procs \ {p} :
                              Working(th[r]) => th[r].tgt # th'[p].tgt,
         \A r \in Procs \ {p} : th[r].pc # "user" => state'[r] = "LIVE",
         \A r \in Procs \ {p} :
           Working(th[r]) => state'[th[r].tgt] = state[th[r].tgt],
         \A r \in Procs \ {p} :
           th[r].pc \in {"cow_alloc", "cow_copy"} =>
             Valid(pgtbl'[r][th[r].va])
  PROVE  ThreadsOK'
<1>1. ASSUME NEW r \in Procs PROVE ThreadOK(r)'
  <2>1. CASE r = p
    BY <2>1
  <2>2. CASE r # p
    <3>1. ThreadOK(r) /\ th'[r] = th[r]
      BY <2>2 DEF ThreadsOK
    <3>2. /\ th[r].pc # "user" => state'[r] = "LIVE"
          /\ th[r].pc \in {"uvmcopy", "uvmunmap"} =>
               state'[th[r].tgt] = state[th[r].tgt]
          /\ th[r].pc \in {"cow_alloc", "cow_copy"} =>
               Valid(pgtbl'[r][th[r].va])
      BY <2>2 DEF Working
    <3> QED
      BY <3>1, <3>2 DEF ThreadOK, Idle
  <2> QED
    BY <2>1, <2>2
<1>2. TargetsDiffer'
  <2>1. TargetsDiffer
    BY DEF ThreadsOK
  <2> QED
    BY <2>1 DEF TargetsDiffer, Working
<1> QED
  BY <1>1, <1>2 DEF ThreadsOK

\* The same, for steps that leave p->state and the validity of PTEs alone.
LEMMA ThreadsFrameQuiet ==
  ASSUME ThreadsOK, NEW p \in Procs, ThreadOK(p)',
         \A r \in Procs \ {p} : th'[r] = th[r],
         Working(th'[p]) => \/ Working(th[p]) /\ th'[p].tgt = th[p].tgt
                            \/ th'[p].tgt = p,
         state[p] = "LIVE", state' = state,
         \A q \in Procs : \A va \in VAs :
           Valid(pgtbl[q][va]) => Valid(pgtbl'[q][va]),
         th \in Threads
  PROVE  ThreadsOK'
<1>1. Working(th'[p]) => \A r \in Procs \ {p} :
                           Working(th[r]) => th[r].tgt # th'[p].tgt
  <2>1. ASSUME NEW r \in Procs \ {p}, Working(th[r]), Working(th'[p])
        PROVE  th[r].tgt # th'[p].tgt
    <3>1. CASE Working(th[p]) /\ th'[p].tgt = th[p].tgt
      BY <2>1, <3>1 DEF ThreadsOK, TargetsDiffer, Working
    <3>2. CASE th'[p].tgt = p
      BY <2>1, <3>2, LiveNotTarget
    <3> QED
      BY <2>1, <3>1, <3>2
  <2> QED
    BY <2>1
<1>2. \A r \in Procs \ {p} : th[r].pc # "user" => state'[r] = "LIVE"
  BY DEF ThreadsOK, ThreadOK
<1>3. ASSUME NEW r \in Procs \ {p}, th[r].pc \in {"cow_alloc", "cow_copy"}
      PROVE  Valid(pgtbl'[r][th[r].va])
  <2>1. ThreadOK(r) /\ th[r] \in Thread
    BY <1>3 DEF ThreadsOK, Threads
  <2>2. th[r].va \in VAs /\ Valid(pgtbl[r][th[r].va])
    BY <1>3, <2>1, ConstAssumption DEF ThreadOK, Thread, VAs
  <2> QED
    BY <2>2
<1> QED
  BY <1>1, <1>2, <1>3, ThreadsFrame

\* A thread in user mode, or at the start of a system call, is idle.
LEMMA UserIdle ==
  ASSUME ThreadsOK, NEW p \in Procs, InUser(p)
  PROVE  th[p] = Idle(p) /\ state[p] = "LIVE" /\ ~Working(th[p])
BY DEF ThreadsOK, ThreadOK, InUser, Working

\* A thread inside the kernel belongs to a live process.
LEMMA KernelLive ==
  ASSUME ThreadsOK, NEW p \in Procs, th[p].pc # "user"
  PROVE  state[p] = "LIVE"
BY DEF ThreadsOK, ThreadOK

\* A thread that returns to user mode is well placed.
LEMMA BackToUser ==
  ASSUME NEW p \in Procs, th'[p] = Idle(p)
  PROVE  ThreadOK(p)' /\ ~Working(th'[p])
BY DEF ThreadOK, Idle, Working

\* System calls and faults begin.
LEMMA EnterThreads ==
  ASSUME Shapes, Shapes', ThreadsOK, NEW p \in Procs,
         \/ \E va \in VAs : StoreFault(p, va)
         \/ \E va \in VAs, v \in Values : Store(p, va, v) \/ copyout(p, va, v)
         \/ \E q \in Procs : Fork(p, q) \/ Wait(p, q)
         \/ \E n \in 1 .. NVA : Grow(p, n) \/ Shrink(p, n)
         \/ Exit(p)
  PROVE  ThreadsOK'
<1>0. InUser(p)
  BY DEF Store, StoreFault, copyout, Fork, Wait, Grow, Shrink, Exit
<1>1. th[p] = Idle(p) /\ state[p] = "LIVE" /\ ~Working(th[p])
  BY <1>0, UserIdle
<1>2. th \in Threads /\ th[p] \in Thread /\ ThreadOK(p)
  BY DEF Shapes, Threads, ThreadsOK
<1>3. th[p].pc = "user" /\ th[p].tgt = p /\ th[p].pa = NoPage
  BY <1>1 DEF Idle
<1>v. NVA \in Nat
  BY ConstAssumption
<1>4. ASSUME NEW va \in VAs, StoreFault(p, va) PROVE ThreadsOK'
  <2>1. /\ \A r \in Procs \ {p} : th'[r] = th[r]
        /\ ~Working(th'[p])
        /\ state' = state /\ pgtbl' = pgtbl
    BY <1>2, <1>4 DEF StoreFault, Threads, Thread, Working
  <2>2. ThreadOK(p)'
    <3>1. va < NVA
      BY <1>4, <1>v DEF VAs
    <3>2. CASE IsCow(pgtbl[p][va])
      <4>1. /\ th'[p].pc = "cow_alloc" /\ th'[p].va = va
            /\ th'[p].pa = NoPage /\ th'[p].tgt = p
        BY <1>2, <1>3, <1>4, <3>2 DEF StoreFault, Threads, Thread
      <4> QED
        BY <1>1, <2>1, <3>1, <3>2, <4>1 DEF ThreadOK, IsCow
    <3>3. CASE ~IsCow(pgtbl[p][va])
      <4>1. /\ th'[p].pc = "usertrap_return"
            /\ th'[p].pa = NoPage /\ th'[p].tgt = p
        BY <1>2, <1>3, <1>4, <3>3 DEF StoreFault, Threads, Thread
      <4> QED
        BY <1>1, <2>1, <4>1 DEF ThreadOK
    <3> QED
      BY <3>2, <3>3
  <2> QED
    BY <1>1, <1>2, <2>1, <2>2, ThreadsFrameQuiet
<1>5. ASSUME NEW va \in VAs, NEW v \in Values, Store(p, va, v)
      PROVE  ThreadsOK'
  BY <1>5 DEF Store, ThreadsOK, TargetsDiffer, ThreadOK
<1>6. ASSUME NEW va \in VAs, NEW v \in Values, copyout(p, va, v)
      PROVE  ThreadsOK'
  <2>1. CASE th' = th
    <3>1. state' = state /\ pgtbl' = pgtbl
      BY <1>6 DEF copyout
    <3> QED
      BY <2>1, <3>1 DEF ThreadsOK, TargetsDiffer, ThreadOK
  <2>2. CASE th' # th
    <3>1. th' = [th EXCEPT ![p] = [th[p] EXCEPT
                   !.pc = "cow_alloc", !.va = va, !.val = v, !.ret = "copyout"]]
      BY <1>6, <2>2 DEF copyout
    <3>2. /\ \A r \in Procs \ {p} : th'[r] = th[r]
          /\ th'[p].pc = "cow_alloc" /\ th'[p].va = va
          /\ th'[p].pa = NoPage /\ th'[p].tgt = p
      BY <1>2, <1>3, <3>1 DEF Threads, Thread
    <3>3. state' = state /\ pgtbl' = pgtbl /\ Valid(pgtbl[p][va])
      BY <1>6 DEF copyout
    <3>4. va < NVA
      BY <1>6, <1>v DEF VAs
    <3>5. ThreadOK(p)'
      BY <1>1, <3>2, <3>3, <3>4 DEF ThreadOK
    <3>6. ~Working(th'[p])
      BY <3>2 DEF Working
    <3> QED
      BY <1>1, <1>2, <3>2, <3>3, <3>5, <3>6, ThreadsFrameQuiet
  <2> QED
    BY <2>1, <2>2
<1>7. ASSUME NEW n \in 1 .. NVA, Grow(p, n) PROVE ThreadsOK'
  <2>1. /\ \A r \in Procs \ {p} : th'[r] = th[r]
        /\ ~Working(th'[p])
        /\ state' = state /\ pgtbl' = pgtbl
    BY <1>2, <1>7 DEF Grow, Threads, Thread, Working
  <2>2. ThreadOK(p)'
    BY <1>1, <1>2, <1>3, <1>7 DEF Grow, Threads, Thread, ThreadOK
  <2> QED
    BY <1>1, <1>2, <2>1, <2>2, ThreadsFrameQuiet
<1>8. ASSUME NEW n \in 1 .. NVA, Shrink(p, n) PROVE ThreadsOK'
  <2>1. /\ \A r \in Procs \ {p} : th'[r] = th[r]
        /\ th'[p].tgt = p
        /\ state' = state /\ pgtbl' = pgtbl
    BY <1>2, <1>3, <1>8 DEF Shrink, Threads, Thread
  <2>2. ThreadOK(p)'
    BY <1>1, <1>2, <1>3, <1>8 DEF Shrink, Threads, Thread, ThreadOK
  <2> QED
    BY <1>1, <1>2, <2>1, <2>2, ThreadsFrameQuiet
<1>9. ASSUME NEW q \in Procs, Fork(p, q) PROVE ThreadsOK'
  <2>1. /\ \A r \in Procs \ {p} : th'[r] = th[r]
        /\ th'[p].tgt = q /\ th'[p].pc = "uvmcopy" /\ th'[p].pa = NoPage
        /\ pgtbl' = pgtbl
    BY <1>2, <1>3, <1>9 DEF Fork, Threads, Thread
  <2>2. /\ state[q] = "UNUSED" /\ state'[q] = "USED"
        /\ \A r \in Procs \ {q} : state'[r] = state[r]
    BY <1>9 DEF Fork, Shapes
  <2>3. p # q
    BY <1>1, <2>2
  <2>4. ThreadOK(p)'
    BY <1>1, <2>1, <2>2, <2>3 DEF ThreadOK
  <2>5. ASSUME NEW r \in Procs \ {p}
        PROVE  /\ Working(th[r]) => th[r].tgt # q /\ th[r].tgt \in Procs
               /\ th[r].pc # "user" => state[r] = "LIVE" /\ r # q
               /\ th[r].pc \in {"cow_alloc", "cow_copy"} =>
                    Valid(pgtbl[r][th[r].va])
    <3>1. ThreadOK(r) /\ th[r] \in Thread
      BY <1>2 DEF ThreadsOK, Threads
    <3> QED
      BY <2>2, <3>1 DEF ThreadOK, Working, Thread
  <2> QED
    BY <2>1, <2>2, <2>4, <2>5, ThreadsFrame
<1>10. ASSUME NEW q \in Procs, Wait(p, q) PROVE ThreadsOK'
  <2>1. /\ \A r \in Procs \ {p} : th'[r] = th[r]
        /\ th'[p].tgt = q /\ th'[p].pc = "uvmunmap" /\ th'[p].pa = NoPage
        /\ th'[p].ret = "freeproc"
        /\ pgtbl' = pgtbl /\ state' = state /\ state[q] = "ZOMBIE"
    BY <1>2, <1>3, <1>10 DEF Wait, Threads, Thread
  <2>2. ThreadOK(p)'
    BY <1>1, <2>1 DEF ThreadOK
  <2>3. ASSUME NEW r \in Procs \ {p}
        PROVE  /\ Working(th[r]) => th[r].tgt # q
               /\ th[r].pc # "user" => state[r] = "LIVE"
               /\ th[r].pc \in {"cow_alloc", "cow_copy"} =>
                    Valid(pgtbl[r][th[r].va])
    <3>1. ThreadOK(r) /\ ~(th[r].pc = "uvmunmap" /\ th[r].tgt = q)
      BY <1>10 DEF ThreadsOK, Wait, At
    <3> QED
      BY <2>1, <3>1 DEF ThreadOK, Working
  <2> QED
    BY <2>1, <2>2, <2>3, ThreadsFrame
<1>11. CASE Exit(p)
  <2>1. th' = th /\ pgtbl' = pgtbl
    BY <1>11 DEF Exit
  <2>2. \A r \in Procs \ {p} : state'[r] = state[r]
    BY <1>11 DEF Exit, Shapes
  <2>3. ThreadOK(p)'
    BY <1>1, <2>1, BackToUser
  <2>4. ASSUME NEW r \in Procs \ {p}
        PROVE  /\ Working(th[r]) => th[r].tgt # p /\ th[r].tgt \in Procs
               /\ th[r].pc # "user" => state[r] = "LIVE"
               /\ th[r].pc \in {"cow_alloc", "cow_copy"} =>
                    Valid(pgtbl[r][th[r].va])
    <3>1. ThreadOK(r) /\ th[r] \in Thread
      BY <1>2 DEF ThreadsOK, Threads
    <3>2. Working(th[r]) => th[r].tgt # p
      BY <1>1, LiveNotTarget
    <3> QED
      BY <3>1, <3>2 DEF ThreadOK, Thread
  <2> QED
    BY <1>1, <2>1, <2>2, <2>3, <2>4, ThreadsFrame
<1> QED
  BY <1>4, <1>5, <1>6, <1>7, <1>8, <1>9, <1>10, <1>11

\* The steps inside a system call or a fault.
LEMMA KernelThreads ==
  ASSUME Shapes, Shapes', ThreadsOK, NEW p \in Procs, KernelStep(p), ~Exit(p)
  PROVE  ThreadsOK'
<1>1. th \in Threads /\ th[p] \in Thread /\ ThreadOK(p)
  BY DEF Shapes, Threads, ThreadsOK
<1>2. th[p].pc # "user" /\ \A r \in Procs \ {p} : th'[r] = th[r]
  BY <1>1 DEF KernelStep, CowAlloc, CowCopy, CowFree, CopyoutWrite,
     UvmcopyPage, ForkDone, UvmallocPage, UvmallocMap, GrowDone,
     UvmunmapPage, UvmunmapDone, At, Threads
<1>3. state[p] = "LIVE"
  BY <1>2, KernelLive
<1>v. NVA \in Nat
  BY ConstAssumption
<1>4. CASE CowAlloc(p)
  <2>1. state' = state /\ pgtbl' = pgtbl /\ th[p].pc = "cow_alloc"
    BY <1>4 DEF CowAlloc, At
  <2>2. \/ th'[p] = Idle(p)
        \/ th'[p] = [Idle(p) EXCEPT !.pc = "usertrap_return"]
        \/ \E pa \in freelist :
             th'[p] = [th[p] EXCEPT !.pc = "cow_copy", !.pa = pa]
    BY <1>1, <1>4 DEF CowAlloc, Threads
  <2>3. ThreadOK(p)' /\ ~Working(th'[p])
    <3>1. CASE th'[p] = Idle(p)
      BY <3>1, BackToUser
    <3>2. CASE th'[p] = [Idle(p) EXCEPT !.pc = "usertrap_return"]
      <4>1. /\ th'[p].pc = "usertrap_return"
            /\ th'[p].pa = NoPage /\ th'[p].tgt = p
        BY <3>2 DEF Idle
      <4> QED
        BY <1>3, <2>1, <4>1 DEF ThreadOK, Working
    <3>3. ASSUME NEW pa \in freelist,
                 th'[p] = [th[p] EXCEPT !.pc = "cow_copy", !.pa = pa]
          PROVE  ThreadOK(p)' /\ ~Working(th'[p])
      <4>1. /\ th'[p].pc = "cow_copy" /\ th'[p].pa = pa /\ pa # NoPage
            /\ th'[p].tgt = th[p].tgt /\ th'[p].va = th[p].va
        BY <1>1, <3>3, ConstAssumption DEF Thread, Shapes
      <4> QED
        BY <1>1, <1>3, <2>1, <4>1 DEF ThreadOK, Working
    <3> QED
      BY <2>2, <3>1, <3>2, <3>3
  <2> QED
    BY <1>1, <1>2, <1>3, <2>1, <2>3, ThreadsFrameQuiet
<1>5. CASE CowCopy(p)
  <2>1. /\ state' = state /\ th[p].pc = "cow_copy" /\ th[p].va \in VAs
        /\ th[p].pa # NoPage /\ pgtbl[p][th[p].va].pa # NoPage
    BY <1>1, <1>5, <1>v DEF CowCopy, At, ThreadOK, Thread, VAs, Valid
  <2>2. /\ th'[p].pc = "cow_free" /\ th'[p].pa = pgtbl[p][th[p].va].pa
        /\ th'[p].tgt = th[p].tgt
    BY <1>1, <1>5 DEF CowCopy, Threads, Thread
  <2>3. \A q \in Procs : \A va \in VAs :
          Valid(pgtbl[q][va]) => Valid(pgtbl'[q][va])
    BY <1>5, <2>1 DEF CowCopy, Valid, Shapes, Tables
  <2>4. ThreadOK(p)' /\ ~Working(th'[p])
    BY <1>1, <1>3, <2>1, <2>2 DEF ThreadOK, Working
  <2> QED
    BY <1>1, <1>2, <1>3, <2>1, <2>3, <2>4, ThreadsFrameQuiet
<1>6. CASE CowFree(p)
  <2>1. state' = state /\ pgtbl' = pgtbl /\ th[p].pc = "cow_free"
    BY <1>6 DEF CowFree, At
  <2>2. \/ th'[p] = Idle(p)
        \/ th'[p] = [th[p] EXCEPT !.pc = "copyout_write", !.pa = NoPage]
    BY <1>1, <1>6 DEF CowFree, Threads
  <2>3. ThreadOK(p)' /\ ~Working(th'[p])
    <3>1. CASE th'[p] = Idle(p)
      BY <3>1, BackToUser
    <3>2. CASE th'[p] = [th[p] EXCEPT !.pc = "copyout_write", !.pa = NoPage]
      <4>1. /\ th'[p].pc = "copyout_write" /\ th'[p].pa = NoPage
            /\ th'[p].tgt = th[p].tgt
        BY <1>1, <3>2 DEF Thread
      <4> QED
        BY <1>1, <1>3, <2>1, <4>1 DEF ThreadOK, Working
    <3> QED
      BY <2>2, <3>1, <3>2
  <2> QED
    BY <1>1, <1>2, <1>3, <2>1, <2>3, ThreadsFrameQuiet
<1>7. CASE CopyoutWrite(p) \/ GrowDone(p)
  <2>1. state' = state /\ pgtbl' = pgtbl /\ th'[p] = Idle(p)
    BY <1>1, <1>7 DEF CopyoutWrite, GrowDone, Threads
  <2> QED
    BY <1>1, <1>2, <1>3, <2>1, BackToUser, ThreadsFrameQuiet
<1>8. CASE UvmcopyPage(p)
  <2>1. /\ state' = state /\ th[p].pc = "uvmcopy" /\ th[p].i \in VAs
        /\ Valid(pgtbl[p][th[p].i])
    BY <1>1, <1>8, <1>v DEF UvmcopyPage, At, Thread, VAs, Shapes
  <2>2. \/ th'[p] = [th[p] EXCEPT !.i = th[p].i + 1]
        \/ th'[p] = UvmcopyUndo(th[p])
    BY <1>1, <1>8 DEF UvmcopyPage, Threads
  <2>3. ThreadOK(p)' /\ th'[p].tgt = th[p].tgt
    <3>1. CASE th'[p] = [th[p] EXCEPT !.i = th[p].i + 1]
      <4>1. /\ th'[p].pc = th[p].pc /\ th'[p].pa = th[p].pa
            /\ th'[p].tgt = th[p].tgt
        BY <1>1, <3>1 DEF Thread
      <4> QED
        BY <1>1, <1>3, <2>1, <4>1 DEF ThreadOK
    <3>2. CASE th'[p] = UvmcopyUndo(th[p])
      <4>1. /\ th'[p].pc = "uvmunmap" /\ th'[p].pa = th[p].pa
            /\ th'[p].tgt = th[p].tgt /\ th'[p].ret = "fork"
        BY <1>1, <3>2 DEF Thread, UvmcopyUndo
      <4> QED
        BY <1>1, <1>3, <2>1, <4>1 DEF ThreadOK
    <3> QED
      BY <2>2, <3>1, <3>2
  <2>4. \A q \in Procs : \A va \in VAs :
          Valid(pgtbl[q][va]) => Valid(pgtbl'[q][va])
    <3> DEFINE pte == SharedPte(pgtbl[p][th[p].i])
    <3>1. Valid(pte)
      <4>1. pgtbl[p][th[p].i] \in Pte
        BY <2>1 DEF Shapes, Tables
      <4> QED
        BY <2>1, <4>1, SharedPteType DEF Valid
    <3>2. \/ pgtbl' = [pgtbl EXCEPT ![p][th[p].i] = pte]
          \/ pgtbl' = [pgtbl EXCEPT ![p][th[p].i] = pte,
                                    ![th[p].tgt][th[p].i] = pte]
      BY <1>8 DEF UvmcopyPage
    <3>3. pgtbl \in Tables /\ th[p].tgt \in Procs
      BY <1>1 DEF Shapes, Thread
    <3> HIDE DEF pte
    <3> QED
      BY <2>1, <3>1, <3>2, <3>3 DEF Tables
  <2>5. Working(th[p])
    BY <2>1 DEF Working
  <2> QED
    BY <1>1, <1>2, <1>3, <2>1, <2>3, <2>4, <2>5, ThreadsFrameQuiet
<1>9. CASE UvmallocPage(p)
  <2>1. state' = state /\ pgtbl' = pgtbl /\ th[p].pc = "uvmalloc"
    BY <1>9 DEF UvmallocPage, At
  <2>2. \/ th'[p] = GrowUndo(th[p], sz[p])
        \/ \E pa \in freelist :
             th'[p] = [th[p] EXCEPT !.pc = "uvmalloc_map", !.pa = pa]
    BY <1>1, <1>9 DEF UvmallocPage, Threads
  <2>3. th[p].i < NVA
    <3>1. th[p].i < th[p].hi
      BY <1>9 DEF UvmallocPage
    <3> QED
      BY <1>1, <1>v, <3>1 DEF Thread
  <2>4. ThreadOK(p)' /\ th'[p].tgt = p
    <3>1. CASE th'[p] = GrowUndo(th[p], sz[p])
      <4>1. /\ th'[p].pc = "uvmunmap" /\ th'[p].pa = NoPage
            /\ th'[p].tgt = th[p].tgt /\ th'[p].ret = th[p].ret
        BY <1>1, <3>1 DEF Thread, GrowUndo
      <4> QED
        BY <1>1, <1>3, <2>1, <4>1 DEF ThreadOK
    <3>2. ASSUME NEW pa \in freelist,
                 th'[p] = [th[p] EXCEPT !.pc = "uvmalloc_map", !.pa = pa]
          PROVE  ThreadOK(p)' /\ th'[p].tgt = p
      <4>1. /\ th'[p].pc = "uvmalloc_map" /\ th'[p].pa = pa /\ pa # NoPage
            /\ th'[p].tgt = th[p].tgt /\ th'[p].ret = th[p].ret
            /\ th'[p].i = th[p].i
        BY <1>1, <3>2, ConstAssumption DEF Thread, Shapes
      <4> QED
        BY <1>1, <1>3, <2>1, <2>3, <4>1 DEF ThreadOK
    <3> QED
      BY <2>2, <3>1, <3>2
  <2> QED
    BY <1>1, <1>2, <1>3, <2>1, <2>4, ThreadsFrameQuiet
<1>10. CASE UvmallocMap(p)
  <2>1. /\ state' = state /\ th[p].pc = "uvmalloc_map" /\ th[p].i \in VAs
        /\ th[p].pa # NoPage
    BY <1>1, <1>10, <1>v DEF UvmallocMap, At, ThreadOK, Thread, VAs
  <2>2. \/ th'[p] = GrowUndo(th[p], sz[p])
        \/ th'[p] = [th[p] EXCEPT !.pc = "uvmalloc", !.i = th[p].i + 1,
                                  !.pa = NoPage]
    BY <1>1, <1>10 DEF UvmallocMap, Threads
  <2>3. ThreadOK(p)' /\ th'[p].tgt = p
    <3>1. CASE th'[p] = GrowUndo(th[p], sz[p])
      <4>1. /\ th'[p].pc = "uvmunmap" /\ th'[p].pa = NoPage
            /\ th'[p].tgt = th[p].tgt /\ th'[p].ret = th[p].ret
        BY <1>1, <3>1 DEF Thread, GrowUndo
      <4> QED
        BY <1>1, <1>3, <2>1, <4>1 DEF ThreadOK
    <3>2. CASE th'[p] = [th[p] EXCEPT !.pc = "uvmalloc", !.i = th[p].i + 1,
                                      !.pa = NoPage]
      <4>1. /\ th'[p].pc = "uvmalloc" /\ th'[p].pa = NoPage
            /\ th'[p].tgt = th[p].tgt /\ th'[p].ret = th[p].ret
        BY <1>1, <3>2 DEF Thread
      <4> QED
        BY <1>1, <1>3, <2>1, <4>1 DEF ThreadOK
    <3> QED
      BY <2>2, <3>1, <3>2
  <2>4. \A q \in Procs : \A va \in VAs :
          Valid(pgtbl[q][va]) => Valid(pgtbl'[q][va])
    <3>1. \/ pgtbl' = pgtbl
          \/ pgtbl' = [pgtbl EXCEPT ![p][th[p].i] =
                         [pa |-> th[p].pa, flags |-> {"U", "W"}]]
      BY <1>10 DEF UvmallocMap
    <3> QED
      BY <2>1, <3>1 DEF Valid, Shapes, Tables
  <2> QED
    BY <1>1, <1>2, <1>3, <2>1, <2>3, <2>4, ThreadsFrameQuiet
<1>11. CASE ForkDone(p)
  <2>1. /\ th[p].pc = "uvmcopy" /\ th'[p] = Idle(p) /\ pgtbl' = pgtbl
        /\ state' = [state EXCEPT ![th[p].tgt] = "LIVE"]
    BY <1>1, <1>11 DEF ForkDone, At, Threads
  <2>2. ThreadOK(p)' /\ ~Working(th'[p])
    BY <2>1, BackToUser
  <2>3. ASSUME NEW r \in Procs \ {p}
        PROVE  /\ th[r].pc # "user" => state'[r] = "LIVE"
               /\ Working(th[r]) => state'[th[r].tgt] = state[th[r].tgt]
               /\ th[r].pc \in {"cow_alloc", "cow_copy"} =>
                    Valid(pgtbl'[r][th[r].va])
    <3>1. ThreadOK(r) /\ th[r].tgt \in Procs
      BY <1>1 DEF ThreadsOK, Threads, Thread
    <3>2. Working(th[r]) => th[r].tgt # th[p].tgt
      BY <2>1 DEF ThreadsOK, TargetsDiffer, Working
    <3>3. /\ th[r].pc # "user" => state[r] = "LIVE"
          /\ th[r].pc \in {"cow_alloc", "cow_copy"} =>
               Valid(pgtbl[r][th[r].va])
      BY <3>1 DEF ThreadOK
    <3> QED
      BY <2>1, <3>1, <3>2, <3>3 DEF Shapes
  <2> QED
    BY <1>2, <2>2, <2>3, ThreadsFrame
<1>12. CASE UvmunmapPage(p)
  <2>1. /\ state' = state /\ th[p].pc = "uvmunmap" /\ th[p].i \in VAs
        /\ th[p].tgt \in Procs
        /\ pgtbl' = [pgtbl EXCEPT ![th[p].tgt][th[p].i] = NoPte]
    BY <1>1, <1>12, <1>v DEF UvmunmapPage, At, Thread, VAs
  <2>2. /\ th'[p].pc = th[p].pc /\ th'[p].pa = th[p].pa
        /\ th'[p].tgt = th[p].tgt /\ th'[p].ret = th[p].ret
    BY <1>1, <1>12 DEF UvmunmapPage, Threads, Thread
  <2>3. ThreadOK(p)'
    BY <1>1, <1>3, <2>1, <2>2 DEF ThreadOK
  <2>4. ASSUME NEW r \in Procs \ {p}
        PROVE  /\ th[r].pc # "user" => state'[r] = "LIVE"
               /\ Working(th[r]) => th[r].tgt # th'[p].tgt
               /\ th[r].pc \in {"cow_alloc", "cow_copy"} =>
                    Valid(pgtbl'[r][th[r].va])
    <3>1. ThreadOK(r)
      BY DEF ThreadsOK
    <3>2. Working(th[r]) => th[r].tgt # th[p].tgt
      BY <2>1 DEF ThreadsOK, TargetsDiffer, Working
    <3>3. th[r].pc # "user" => state[r] = "LIVE"
      BY <3>1 DEF ThreadOK
    <3>4. th[r].pc # "user" => th[p].tgt # r
      BY <1>1, <2>1, <3>3 DEF ThreadOK
    <3>5. th[r].pc \in {"cow_alloc", "cow_copy"} =>
            pgtbl'[r] = pgtbl[r] /\ Valid(pgtbl[r][th[r].va])
      BY <2>1, <3>1, <3>4 DEF ThreadOK, Shapes, Tables
    <3> QED
      BY <2>1, <2>2, <3>2, <3>3, <3>5
  <2> QED
    BY <1>2, <2>1, <2>3, <2>4, ThreadsFrame
<1>13. CASE UvmunmapDone(p)
  <2>1. /\ th[p].pc = "uvmunmap" /\ th'[p] = Idle(p) /\ pgtbl' = pgtbl
        /\ \/ state' = state
           \/ /\ th[p].ret \in {"fork", "freeproc"}
              /\ state' = [state EXCEPT ![th[p].tgt] = "UNUSED"]
    BY <1>1, <1>13 DEF UvmunmapDone, At, Threads
  <2>2. ThreadOK(p)' /\ ~Working(th'[p])
    BY <2>1, BackToUser
  <2>3. ASSUME NEW r \in Procs \ {p}
        PROVE  /\ th[r].pc # "user" => state'[r] = "LIVE"
               /\ Working(th[r]) => state'[th[r].tgt] = state[th[r].tgt]
               /\ th[r].pc \in {"cow_alloc", "cow_copy"} =>
                    Valid(pgtbl'[r][th[r].va])
    <3>1. ThreadOK(r) /\ th[r].tgt \in Procs
      BY <1>1 DEF ThreadsOK, Threads, Thread
    <3>2. Working(th[r]) => th[r].tgt # th[p].tgt
      BY <2>1 DEF ThreadsOK, TargetsDiffer, Working
    <3>3. /\ th[r].pc # "user" => state[r] = "LIVE"
          /\ th[r].pc \in {"cow_alloc", "cow_copy"} =>
               Valid(pgtbl[r][th[r].va])
      BY <3>1 DEF ThreadOK
    <3>4. th[p].ret \in {"fork", "freeproc"} => state[th[p].tgt] # "LIVE"
      BY <1>1, <2>1 DEF ThreadOK
    <3>5. /\ th[r].pc # "user" => state'[r] = "LIVE"
          /\ Working(th[r]) => state'[th[r].tgt] = state[th[r].tgt]
      BY <2>1, <3>1, <3>2, <3>3, <3>4 DEF Shapes
    <3> QED
      BY <2>1, <3>3, <3>5
  <2> QED
    BY <1>2, <2>2, <2>3, ThreadsFrame
<1> QED
  BY <1>4, <1>5, <1>6, <1>7, <1>8, <1>9, <1>10, <1>11, <1>12, <1>13
  DEF KernelStep

\* Every step of Next leaves every thread well placed.
LEMMA StepThreads ==
  ASSUME Shapes, Shapes', ThreadsOK, Next
  PROVE  ThreadsOK'
BY EnterThreads, KernelThreads DEF Next, KernelStep

-----------------------------------------------------------------------------
(* The counts keep covering the references *)

CountsOK == pte_count \in Counts /\ Counted(RefMap, freelist, pte_count)

\* No slot and no count changes.
LEMMA CountsSame ==
  ASSUME CountsOK, freelist' = freelist, pte_count' = pte_count,
         \A p \in Procs, va \in VAs : pgtbl'[p][va].pa = pgtbl[p][va].pa,
         \A p \in Procs : th'[p].pa = th[p].pa
  PROVE  CountsOK'
<1>1. RefMap' = RefMap
  BY SlotsSame DEF RefMap
<1> QED
  BY <1>1 DEF CountsOK

\* kalloc() into the local variable of thread p.
LEMMA CountsAlloc ==
  ASSUME Shapes, Shapes', CountsOK, NEW p \in Procs, NEW pa \in freelist,
         kalloc(pa), pgtbl' = pgtbl, th[p].pa = NoPage, th'[p].pa = pa,
         \A r \in Procs \ {p} : th'[r] = th[r]
  PROVE  CountsOK'
<1>1. RefMap \in SlotMap
  BY MapOfType DEF Shapes, RefMap
<1>2. SetSlot(RefMap', RefMap, <<p, NVA>>, pa)
  BY SlotLocal DEF Shapes, RefMap
<1>3. <<p, NVA>> \in Slots /\ RefMap[<<p, NVA>>] = NoPage
  BY MapOfAt DEF RefMap
<1>4. /\ pa \in Pages /\ freelist \in SUBSET Pages /\ pte_count \in Counts
      /\ Counted(RefMap, freelist, pte_count)
  BY DEF Shapes, CountsOK
<1>5. SetCount(pte_count', pte_count, pa, 1) /\ freelist' = freelist \ {pa}
      /\ pte_count' \in Counts
  BY <1>4 DEF kalloc, SetCount, Counts
<1>6. Counted(RefMap', freelist \ {pa}, pte_count')
  BY <1>1, <1>2, <1>3, <1>4, <1>5, CountedAlloc
<1> QED
  BY <1>5, <1>6 DEF CountsOK

\* kfree() of the page in slot s, which gives it up.
LEMMA CountsFree ==
  ASSUME Shapes, CountsOK, NEW s \in Slots, NEW pa \in Pages,
         RefMap[s] = pa, SetSlot(RefMap', RefMap, s, NoPage), kfree(pa)
  PROVE  CountsOK'
<1>1. RefMap \in SlotMap
  BY MapOfType DEF Shapes, RefMap
<1>2. /\ freelist \in SUBSET Pages /\ pte_count \in Counts
      /\ Counted(RefMap, freelist, pte_count)
  BY DEF Shapes, CountsOK
<1>3. /\ SetCount(pte_count', pte_count, pa, pte_count[pa] - 1)
      /\ freelist' = IF pte_count[pa] - 1 > 0 THEN freelist
                     ELSE freelist \cup {pa}
  BY <1>2 DEF kfree, SetCount, Counts
<1>4. pte_count[pa] >= 1 /\ Counted(RefMap', freelist', pte_count')
  BY <1>1, <1>2, <1>3, CountedFree
<1>5. pte_count' \in Counts
  BY <1>2, <1>4 DEF kfree, Counts
<1> QED
  BY <1>4, <1>5 DEF CountsOK

\* A PTE and the local variable of the same thread exchange their pages.
LEMMA CountsSwap ==
  ASSUME Shapes, Shapes', CountsOK, freelist' = freelist,
         pte_count' = pte_count, NEW p \in Procs, NEW i \in VAs,
         th[p].pa # pgtbl[p][i].pa,
         pgtbl'[p][i].pa = th[p].pa, th'[p].pa = pgtbl[p][i].pa,
         \A q \in Procs, va \in VAs :
           q # p \/ va # i => pgtbl'[q][va].pa = pgtbl[q][va].pa,
         \A r \in Procs \ {p} : th'[r] = th[r]
  PROVE  CountsOK'
<1>1. RefMap \in SlotMap /\ RefMap' \in SlotMap
  BY MapOfType DEF Shapes, RefMap
<1>2. \A s \in Slots \ {<<p, i>>, <<p, NVA>>} : RefMap'[s] = RefMap[s]
  BY SlotBoth DEF Shapes, RefMap
<1>3. <<p, i>> \in Slots /\ <<p, NVA>> \in Slots
  BY ConstAssumption DEF Slots, VAs
<1>4. RefMap[<<p, NVA>>] = th[p].pa /\ RefMap'[<<p, NVA>>] = th'[p].pa
  BY MapOfAt DEF RefMap
<1>5. /\ RefMap[<<p, i>>] = pgtbl[p][i].pa
      /\ RefMap'[<<p, i>>] = pgtbl'[p][i].pa
  <2>1. i < NVA
    BY ConstAssumption DEF VAs
  <2> QED
    BY <1>3, <2>1 DEF RefMap, MapOf
<1>6. /\ freelist \in SUBSET Pages /\ pte_count \in Counts
      /\ Counted(RefMap, freelist, pte_count)
  BY DEF Shapes, CountsOK
<1>7. Counted(RefMap', freelist, pte_count)
  BY <1>1, <1>2, <1>3, <1>4, <1>5, <1>6, CountedSwap
<1> QED
  BY <1>6, <1>7 DEF CountsOK

\* One thread moves and keeps its local page.
LEMMA LocalsKept ==
  ASSUME NEW h \in Threads, NEW p \in Procs, NEW t, t.pa = h[p].pa,
         NEW h2, h2 = [h EXCEPT ![p] = t]
  PROVE  \A r \in Procs : h2[r].pa = h[r].pa
BY DEF Threads

\* One iteration of uvmcopy(): the page of a PTE of thread p stays where it is,
\* and the child's empty PTE may receive it too.
LEMMA UvmcopySlots ==
  ASSUME Shapes, Shapes', NEW p \in Procs, UvmcopyPage(p)
  PROVE  LET i == th[p].i
             np == th[p].tgt
             pa == pgtbl[p][i].pa
             pte == SharedPte(pgtbl[p][i])
         IN
         /\ i \in VAs /\ np \in Procs /\ np # p /\ pa \in Pages
         /\ pgtbl[p][i] \in Pte /\ pgtbl[np][i].pa = NoPage /\ pte.pa = pa
         /\ <<p, i>> \in Slots /\ RefMap[<<p, i>>] = pa
         /\ <<np, i>> \in Slots /\ RefMap[<<np, i>>] = NoPage
         /\ RefMap \in SlotMap /\ RefMap' \in SlotMap
         /\ pgtbl' = [pgtbl EXCEPT ![p][i] = pte] => RefMap' = RefMap
         /\ pgtbl' = [pgtbl EXCEPT ![p][i] = pte, ![np][i] = pte]
              => SetSlot(RefMap', RefMap, <<np, i>>, pa)
<1> DEFINE i == th[p].i
           np == th[p].tgt
           pa == pgtbl[p][i].pa
           pte == SharedPte(pgtbl[p][i])
<1>1. th \in Threads /\ pgtbl \in Tables /\ th[p] \in Thread
  BY DEF Shapes, Threads
<1>2. i \in VAs /\ np \in Procs
  BY <1>1, ConstAssumption DEF UvmcopyPage, Thread, VAs, Shapes
<1>3. /\ pgtbl[p][i] \in Pte /\ pa \in Pages /\ pte.pa = pa
      /\ pgtbl[np][i].pa = NoPage /\ np # p
  <2>1. pgtbl[p][i] \in Pte
    BY <1>1, <1>2 DEF Tables
  <2>2. pa \in Pages /\ pgtbl[np][i].pa = NoPage
    BY <2>1 DEF UvmcopyPage, Valid, Pte
  <2> QED
    BY <2>1, <2>2, SharedPteType, ConstAssumption
<1>4. \A r \in Procs : th'[r].pa = th[r].pa
  <2> DEFINE s == [th[p] EXCEPT !.i = th[p].i + 1]
             t == UvmcopyUndo(th[p])
  <2>1. th' = [th EXCEPT ![p] = s] \/ th' = [th EXCEPT ![p] = t]
    BY <1>1 DEF UvmcopyPage, Threads
  <2>2. s.pa = th[p].pa /\ t.pa = th[p].pa
    BY <1>1 DEF Thread, UvmcopyUndo
  <2> HIDE DEF s, t
  <2> QED
    BY <1>1, <2>1, <2>2, LocalsKept
<1>8. RefMap \in SlotMap /\ RefMap' \in SlotMap
  BY MapOfType DEF Shapes, RefMap
<1>9. /\ <<p, i>> \in Slots /\ RefMap[<<p, i>>] = pa
      /\ <<np, i>> \in Slots /\ RefMap[<<np, i>>] = NoPage
  <2>1. i < NVA /\ <<p, i>> \in Slots /\ <<np, i>> \in Slots
    BY <1>2, ConstAssumption DEF Slots, VAs
  <2> QED
    BY <1>3, <2>1 DEF RefMap, MapOf
<1>10. ASSUME pgtbl' = [pgtbl EXCEPT ![p][i] = pte]
       PROVE  RefMap' = RefMap
  <2>1. \A q \in Procs, va \in VAs : pgtbl'[q][va].pa = pgtbl[q][va].pa
    <3> HIDE DEF pte, i
    <3> QED
      BY <1>1, <1>2, <1>3, <1>10 DEF Tables
  <2> QED
    BY <1>4, <2>1, SlotsSame DEF RefMap
<1>11. ASSUME pgtbl' = [pgtbl EXCEPT ![p][i] = pte, ![np][i] = pte]
       PROVE  SetSlot(RefMap', RefMap, <<np, i>>, pa)
  <2>1. /\ pgtbl'[np][i].pa = pa
        /\ \A q \in Procs, va \in VAs :
             q # np \/ va # i => pgtbl'[q][va].pa = pgtbl[q][va].pa
    <3> HIDE DEF pte, i, np
    <3> QED
      BY <1>1, <1>2, <1>3, <1>11 DEF Tables
  <2>2. pgtbl' \in Tables /\ th' \in Threads
    BY DEF Shapes
  <2> HIDE DEF pa, i, np
  <2> QED
    BY <1>2, <1>4, <2>1, <2>2, SlotPte DEF RefMap
<1> QED
  BY <1>2, <1>3, <1>8, <1>9, <1>10, <1>11

\* The page of the iteration is counted once more.
LEMMA CountsShare ==
  ASSUME Shapes, Shapes', ThreadsOK, CountsOK, NEW p \in Procs,
         UvmcopyPage(p)
  PROVE  CountsOK'
<1> DEFINE i == th[p].i
           np == th[p].tgt
           pa == pgtbl[p][i].pa
<1>1. /\ pa \in Pages /\ RefMap \in SlotMap /\ RefMap' \in SlotMap
      /\ <<p, i>> \in Slots /\ RefMap[<<p, i>>] = pa
      /\ <<np, i>> \in Slots /\ RefMap[<<np, i>>] = NoPage
      /\ SharedPte(pgtbl[p][i]).pa = pa
  BY UvmcopySlots
<1>2. RefMap' = RefMap \/ SetSlot(RefMap', RefMap, <<np, i>>, pa)
  BY UvmcopySlots DEF UvmcopyPage
<1>3. /\ freelist' = freelist
      /\ pte_count' = [pte_count EXCEPT ![pa] = pte_count[pa] + 1]
  BY <1>1 DEF UvmcopyPage, safe_inc_count
<1>4. /\ freelist \in SUBSET Pages /\ pte_count \in Counts
      /\ Counted(RefMap, freelist, pte_count)
  BY DEF Shapes, CountsOK
<1>5. /\ SetCount(pte_count', pte_count, pa, pte_count[pa] + 1)
      /\ pte_count' \in Counts
  BY <1>1, <1>3, <1>4 DEF SetCount, Counts
<1> HIDE DEF pa, i, np
<1>6. Counted(RefMap', freelist, pte_count')
  BY <1>1, <1>2, <1>4, <1>5, CountedShare
<1> QED
  BY <1>3, <1>5, <1>6 DEF CountsOK

\* The steps that leave the allocator and every page in its slot.
LEMMA QuietSlots ==
  ASSUME Shapes, ThreadsOK, NEW p \in Procs,
         \/ \E va \in VAs : StoreFault(p, va)
         \/ \E va \in VAs, v \in Values : Store(p, va, v) \/ copyout(p, va, v)
         \/ \E q \in Procs : Fork(p, q) \/ Wait(p, q)
         \/ \E n \in 1 .. NVA : Grow(p, n) \/ Shrink(p, n)
         \/ Exit(p) \/ CopyoutWrite(p) \/ ForkDone(p) \/ GrowDone(p)
         \/ UvmunmapDone(p)
  PROVE  /\ freelist' = freelist /\ pte_count' = pte_count /\ pgtbl' = pgtbl
         /\ \A r \in Procs : th'[r].pa = th[r].pa
<1>1. th \in Threads /\ th[p] \in Thread /\ ThreadOK(p)
  BY DEF Shapes, Threads, ThreadsOK
<1>2. Idle(p).pa = NoPage
  BY DEF Idle
<1>3. freelist' = freelist /\ pte_count' = pte_count /\ pgtbl' = pgtbl
  BY DEF StoreFault, Store, copyout, Fork, Wait, Grow, Shrink, Exit,
         CopyoutWrite, ForkDone, GrowDone, UvmunmapDone
<1>4. \A r \in Procs : th'[r].pa = th[r].pa
  <2>1. CASE \/ \E va \in VAs, v \in Values : Store(p, va, v)
             \/ Exit(p)
    BY <2>1 DEF Store, Exit
  <2>2. CASE \E va \in VAs : StoreFault(p, va)
    <3>1. PICK va \in VAs : StoreFault(p, va)
      BY <2>2
    <3> DEFINE s == [th[p] EXCEPT !.pc = "cow_alloc", !.va = va,
                                  !.ret = "usertrap"]
               t == [th[p] EXCEPT !.pc = "usertrap_return"]
    <3>2. th' = [th EXCEPT ![p] = s] \/ th' = [th EXCEPT ![p] = t]
      BY <3>1 DEF StoreFault
    <3>3. s.pa = th[p].pa /\ t.pa = th[p].pa
      BY <1>1 DEF Thread
    <3> HIDE DEF s, t
    <3> QED
      BY <1>1, <3>2, <3>3, LocalsKept
  <2>3. ASSUME NEW va \in VAs, NEW v \in Values, copyout(p, va, v)
        PROVE  \A r \in Procs : th'[r].pa = th[r].pa
    <3> DEFINE t == [th[p] EXCEPT !.pc = "cow_alloc", !.va = va, !.val = v,
                                  !.ret = "copyout"]
    <3>1. th' = th \/ th' = [th EXCEPT ![p] = t]
      BY <2>3 DEF copyout
    <3>2. t.pa = th[p].pa
      BY <1>1 DEF Thread
    <3> HIDE DEF t
    <3> QED
      BY <1>1, <3>1, <3>2, LocalsKept
  <2>4. CASE \E q \in Procs : Fork(p, q) \/ Wait(p, q)
    <3>1. PICK q \in Procs : Fork(p, q) \/ Wait(p, q)
      BY <2>4
    <3> DEFINE s == [th[p] EXCEPT !.pc = "uvmcopy", !.tgt = q]
               t == [th[p] EXCEPT !.pc = "uvmunmap", !.tgt = q, !.i = 0,
                                  !.hi = sz[q], !.ret = "freeproc"]
    <3>2. th' = [th EXCEPT ![p] = s] \/ th' = [th EXCEPT ![p] = t]
      BY <3>1 DEF Fork, Wait
    <3>3. s.pa = th[p].pa /\ t.pa = th[p].pa
      BY <1>1 DEF Thread
    <3> HIDE DEF s, t
    <3> QED
      BY <1>1, <3>2, <3>3, LocalsKept
  <2>5. CASE \E n \in 1 .. NVA : Grow(p, n) \/ Shrink(p, n)
    <3>1. PICK n \in 1 .. NVA : Grow(p, n) \/ Shrink(p, n)
      BY <2>5
    <3> DEFINE s == [th[p] EXCEPT !.pc = "uvmalloc", !.i = sz[p],
                                  !.hi = sz[p] + n, !.ret = "grow"]
               t == [th[p] EXCEPT !.pc = "uvmunmap", !.i = sz[p] - n,
                                  !.hi = sz[p], !.va = sz[p] - n,
                                  !.ret = "shrink"]
    <3>2. th' = [th EXCEPT ![p] = s] \/ th' = [th EXCEPT ![p] = t]
      BY <3>1 DEF Grow, Shrink
    <3>3. s.pa = th[p].pa /\ t.pa = th[p].pa
      BY <1>1 DEF Thread
    <3> HIDE DEF s, t
    <3> QED
      BY <1>1, <3>2, <3>3, LocalsKept
  <2>6. CASE CopyoutWrite(p) \/ ForkDone(p) \/ GrowDone(p) \/ UvmunmapDone(p)
    <3>1. th' = [th EXCEPT ![p] = Idle(p)]
      BY <2>6 DEF CopyoutWrite, ForkDone, GrowDone, UvmunmapDone
    <3>2. th[p].pa = NoPage
      BY <1>1, <2>6 DEF CopyoutWrite, ForkDone, GrowDone, UvmunmapDone, At,
                        ThreadOK
    <3> QED
      BY <1>1, <1>2, <3>1, <3>2 DEF Threads
  <2> QED
    BY <2>1, <2>2, <2>3, <2>4, <2>5, <2>6
<1> QED
  BY <1>3, <1>4

\* Every step leaves the counts covering the references.
LEMMA StepCounts ==
  ASSUME Shapes, Shapes', ThreadsOK, CountsOK, Next
  PROVE  CountsOK'
<1> PICK p \in Procs :
      \/ KernelStep(p)
      \/ \E va \in VAs : StoreFault(p, va)
      \/ \E va \in VAs, v \in Values : Store(p, va, v) \/ copyout(p, va, v)
      \/ \E q \in Procs : Fork(p, q) \/ Wait(p, q)
      \/ \E n \in 1 .. NVA : Grow(p, n) \/ Shrink(p, n)
  BY DEF Next
<1>1. /\ th \in Threads /\ th[p] \in Thread /\ ThreadOK(p)
      /\ pgtbl \in Tables /\ pgtbl' \in Tables /\ th' \in Threads
  BY DEF Shapes, Threads, ThreadsOK
<1>2. Idle(p).pa = NoPage
  BY DEF Idle
<1>3. CASE CowAlloc(p)
  <2>1. th[p].pa = NoPage
    BY <1>1, <1>3 DEF CowAlloc, At, ThreadOK
  <2>2. ASSUME NEW pa \in freelist, kalloc(pa),
               th' = [th EXCEPT ![p] = [th[p] EXCEPT !.pc = "cow_copy",
                                                     !.pa = pa]]
        PROVE  CountsOK'
    <3>1. th'[p].pa = pa /\ \A r \in Procs \ {p} : th'[r] = th[r]
      BY <1>1, <2>2 DEF Threads, Thread
    <3> QED
      BY <1>3, <2>1, <2>2, <3>1, CountsAlloc DEF CowAlloc
  <2>3. ASSUME freelist' = freelist, pte_count' = pte_count,
               th' = [th EXCEPT ![p] =
                        IF th[p].ret = "usertrap"
                        THEN [Idle(p) EXCEPT !.pc = "usertrap_return"]
                        ELSE Idle(p)]
        PROVE  CountsOK'
    <3>1. \A r \in Procs : th'[r].pa = th[r].pa
      BY <1>1, <1>2, <2>1, <2>3 DEF Threads, Idle
    <3> QED
      BY <1>3, <2>3, <3>1, CountsSame DEF CowAlloc
  <2> QED
    BY <1>3, <2>2, <2>3 DEF CowAlloc
<1>4. CASE CowCopy(p)
  <2> DEFINE va == th[p].va
  <2>1. va \in VAs /\ th[p].pa # NoPage /\ pgtbl[p][va].pa # NoPage
    BY <1>1, <1>4, ConstAssumption
    DEF CowCopy, At, ThreadOK, Thread, VAs, Valid
  <2>2. /\ pgtbl'[p][va].pa = th[p].pa
        /\ \A q \in Procs, a \in VAs :
             q # p \/ a # va => pgtbl'[q][a].pa = pgtbl[q][a].pa
    BY <1>1, <1>4, <2>1 DEF CowCopy, Tables
  <2>3. /\ th'[p].pa = pgtbl[p][va].pa
        /\ \A r \in Procs \ {p} : th'[r] = th[r]
    BY <1>1, <1>4 DEF CowCopy, Threads, Thread
  <2>4. freelist' = freelist /\ pte_count' = pte_count
    BY <1>4 DEF CowCopy
  <2> HIDE DEF va
  <2>5. CASE th[p].pa # pgtbl[p][va].pa
    BY <2>1, <2>2, <2>3, <2>4, <2>5, CountsSwap
  <2>6. CASE th[p].pa = pgtbl[p][va].pa
    <3>1. \A q \in Procs, a \in VAs : pgtbl'[q][a].pa = pgtbl[q][a].pa
      BY <2>1, <2>2, <2>6
    <3>2. \A r \in Procs : th'[r].pa = th[r].pa
      BY <2>3, <2>6
    <3> QED
      BY <2>4, <3>1, <3>2, CountsSame
  <2> QED
    BY <2>5, <2>6
<1>5. CASE CowFree(p)
  <2>1. th[p].pa \in Pages
    BY <1>1, <1>5 DEF CowFree, At, ThreadOK, Thread
  <2>2. /\ th'[p].pa = NoPage
        /\ \A r \in Procs \ {p} : th'[r] = th[r]
        /\ pgtbl' = pgtbl /\ kfree(th[p].pa)
    BY <1>1, <1>2, <1>5 DEF CowFree, Threads, Thread
  <2>3. SetSlot(RefMap', RefMap, <<p, NVA>>, NoPage)
    BY <1>1, <2>2, SlotLocal DEF RefMap
  <2>4. <<p, NVA>> \in Slots /\ RefMap[<<p, NVA>>] = th[p].pa
    BY MapOfAt DEF RefMap
  <2> QED
    BY <2>1, <2>2, <2>3, <2>4, CountsFree
<1>6. CASE UvmcopyPage(p)
  BY <1>6, CountsShare
<1>7. CASE UvmallocPage(p)
  <2>1. th[p].pa = NoPage
    BY <1>1, <1>7 DEF UvmallocPage, At, ThreadOK
  <2>2. ASSUME NEW pa \in freelist, kalloc(pa),
               th' = [th EXCEPT ![p] = [th[p] EXCEPT !.pc = "uvmalloc_map",
                                                     !.pa = pa]]
        PROVE  CountsOK'
    <3>1. th'[p].pa = pa /\ \A r \in Procs \ {p} : th'[r] = th[r]
      BY <1>1, <2>2 DEF Threads, Thread
    <3> QED
      BY <1>7, <2>1, <2>2, <3>1, CountsAlloc DEF UvmallocPage
  <2>3. ASSUME freelist' = freelist, pte_count' = pte_count,
               th' = [th EXCEPT ![p] = GrowUndo(th[p], sz[p])]
        PROVE  CountsOK'
    <3>1. \A r \in Procs : th'[r].pa = th[r].pa
      BY <1>1, <2>1, <2>3 DEF Threads, Thread, GrowUndo
    <3> QED
      BY <1>7, <2>3, <3>1, CountsSame DEF UvmallocPage
  <2> QED
    BY <1>7, <2>2, <2>3 DEF UvmallocPage
<1>8. CASE UvmallocMap(p)
  <2> DEFINE i == th[p].i
  <2>1. i \in VAs /\ th[p].pa \in Pages /\ pgtbl[p][i].pa = NoPage
    BY <1>1, <1>8, ConstAssumption
    DEF UvmallocMap, At, ThreadOK, Thread, VAs, Valid
  <2>2. ASSUME freelist' = freelist, pte_count' = pte_count,
               pgtbl' = [pgtbl EXCEPT ![p][i] =
                           [pa |-> th[p].pa, flags |-> {"U", "W"}]],
               th' = [th EXCEPT ![p] = [th[p] EXCEPT !.pc = "uvmalloc",
                                          !.i = i + 1, !.pa = NoPage]]
        PROVE  CountsOK'
    <3>1. /\ pgtbl'[p][i].pa = th[p].pa
          /\ \A q \in Procs, a \in VAs :
               q # p \/ a # i => pgtbl'[q][a].pa = pgtbl[q][a].pa
      BY <1>1, <2>1, <2>2 DEF Tables
    <3>2. th'[p].pa = NoPage /\ \A r \in Procs \ {p} : th'[r] = th[r]
      BY <1>1, <2>2 DEF Threads, Thread
    <3>3. th[p].pa # pgtbl[p][i].pa /\ th'[p].pa = pgtbl[p][i].pa
      BY <2>1, <3>2, ConstAssumption
    <3> HIDE DEF i
    <3> QED
      BY <2>1, <2>2, <3>1, <3>2, <3>3, CountsSwap
  <2>3. ASSUME kfree(th[p].pa), pgtbl' = pgtbl,
               th' = [th EXCEPT ![p] = GrowUndo(th[p], sz[p])]
        PROVE  CountsOK'
    <3>1. th'[p].pa = NoPage /\ \A r \in Procs \ {p} : th'[r] = th[r]
      BY <1>1, <2>3 DEF Threads, Thread, GrowUndo
    <3>2. SetSlot(RefMap', RefMap, <<p, NVA>>, NoPage)
      BY <1>1, <2>3, <3>1, SlotLocal DEF RefMap
    <3>3. <<p, NVA>> \in Slots /\ RefMap[<<p, NVA>>] = th[p].pa
      BY MapOfAt DEF RefMap
    <3> QED
      BY <2>1, <2>3, <3>2, <3>3, CountsFree
  <2> QED
    BY <1>8, <2>2, <2>3 DEF UvmallocMap
<1>9. CASE UvmunmapPage(p)
  <2> DEFINE i == th[p].i
             q == th[p].tgt
  <2>1. i \in VAs /\ q \in Procs
    BY <1>1, <1>9, ConstAssumption DEF UvmunmapPage, Thread, VAs
  <2>2. pgtbl[q][i].pa \in Pages
    <3>1. pgtbl[q][i] \in Pte
      BY <1>1, <2>1 DEF Tables
    <3> QED
      BY <1>9, <3>1 DEF UvmunmapPage, Pte, Valid
  <2>3. /\ pgtbl'[q][i].pa = NoPage
        /\ \A r \in Procs, a \in VAs :
             r # q \/ a # i => pgtbl'[r][a].pa = pgtbl[r][a].pa
    BY <1>1, <1>9, <2>1 DEF UvmunmapPage, Tables, NoPte
  <2>4. \A r \in Procs : th'[r].pa = th[r].pa
    BY <1>1, <1>9 DEF UvmunmapPage, Threads, Thread
  <2>5. kfree(pgtbl[q][i].pa)
    BY <1>9 DEF UvmunmapPage
  <2> HIDE DEF i, q
  <2>6. SetSlot(RefMap', RefMap, <<q, i>>, NoPage)
    BY <1>1, <2>1, <2>3, <2>4, SlotPte DEF RefMap
  <2>7. <<q, i>> \in Slots /\ RefMap[<<q, i>>] = pgtbl[q][i].pa
    <3>1. i < NVA /\ <<q, i>> \in Slots
      BY <2>1, ConstAssumption DEF Slots, VAs
    <3> QED
      BY <3>1 DEF RefMap, MapOf
  <2> QED
    BY <2>2, <2>5, <2>6, <2>7, CountsFree
<1> QED
  BY <1>3, <1>4, <1>5, <1>6, <1>7, <1>8, <1>9, QuietSlots, CountsSame DEF KernelStep

-----------------------------------------------------------------------------
(* The theorems *)

LEMMA IInvSplit == IInv <=> Shapes /\ ThreadsOK /\ CountsOK
BY DEF IInv, TypeOK, Shapes, CountsOK, Counts, Tables, Threads

\* Right after boot only init has pages, each of them once.
LEMMA InitInvariant ==
  ASSUME Init
  PROVE  IInv
<1>1. PICK image \in [DOMAIN InitFlags -> Pages] :
    LET used == {image[i] : i \in DOMAIN InitFlags} IN
    /\ \A i, j \in DOMAIN InitFlags : image[i] = image[j] => i = j
    /\ freelist = Pages \ used
    /\ pte_count = [pa \in Pages |-> IF pa \in used THEN 1 ELSE 0]
    /\ mem = [pa \in Pages |-> IF pa \in used THEN Zero ELSE Junk]
    /\ pgtbl = [p \in Procs |-> [va \in VAs |->
                  IF p = initproc /\ va < InitSz
                  THEN [pa |-> image[va], flags |-> InitFlags[va]]
                  ELSE NoPte]]
    /\ sz = [p \in Procs |-> IF p = initproc THEN InitSz ELSE 0]
    /\ state = [p \in Procs |-> IF p = initproc THEN "LIVE" ELSE "UNUSED"]
    /\ th = [p \in Procs |-> Idle(p)]
  BY DEF Init
<1> DEFINE used == {image[i] : i \in DOMAIN InitFlags}
<1>2. /\ NVA \in Nat /\ InitSz \in 0 .. NVA
      /\ DOMAIN InitFlags = 0 .. InitSz - 1
      /\ \A i \in 0 .. InitSz - 1 : InitFlags[i] \in SUBSET {"U", "W"}
      /\ \A i \in 0 .. InitSz - 1 : image[i] \in Pages
  BY ConstAssumption
<1>3. used \subseteq Pages
  OBVIOUS
<1>4. Shapes
  <2>1. pgtbl \in Tables
    <3>1. ASSUME NEW p \in Procs, NEW va \in VAs PROVE pgtbl[p][va] \in Pte
      <4>1. CASE p = initproc /\ va < InitSz
        <5>1. va \in 0 .. InitSz - 1
          BY <1>2, <4>1 DEF VAs
        <5>2. pgtbl[p][va] = [pa |-> image[va], flags |-> InitFlags[va]]
          BY <1>1, <4>1
        <5> QED
          BY <1>2, <5>1, <5>2 DEF Pte, Flags
      <4>2. CASE ~(p = initproc /\ va < InitSz)
        BY <1>1, <4>2 DEF Pte, NoPte
      <4> QED
        BY <4>1, <4>2
    <3>2. pgtbl = [p \in Procs |-> [va \in VAs |-> pgtbl[p][va]]]
      BY <1>1
    <3> QED
      BY <3>1, <3>2 DEF Tables
  <2>2. th \in Threads
    BY <1>1, IdleType DEF Threads
  <2>3. mem \in [Pages -> Values \cup {Junk}]
    BY <1>1, ConstAssumption
  <2>4. sz \in [Procs -> 0 .. NVA]
    <3>1. 0 \in 0 .. NVA
      BY <1>2
    <3> QED
      BY <1>1, <1>2, <3>1
  <2>5. state \in [Procs -> {"UNUSED", "USED", "LIVE", "ZOMBIE"}]
    BY <1>1
  <2> QED
    BY <1>1, <2>1, <2>2, <2>3, <2>4, <2>5 DEF Shapes
<1>5. ThreadsOK
  <2>1. ASSUME NEW p \in Procs
        PROVE  ThreadOK(p) /\ th[p].pc = "user"
    <3>1. th[p] = Idle(p)
      BY <1>1
    <3>2. th[p].pc = "user" /\ th[p].pa = NoPage /\ th[p].tgt = p
      BY <3>1 DEF Idle
    <3> QED
      BY <3>1, <3>2 DEF ThreadOK
  <2> QED
    BY <2>1 DEF ThreadsOK, TargetsDiffer
<1>6. CountsOK
  <2>1. pte_count \in Counts
    BY <1>1 DEF Counts
  <2>2. RefMap \in SlotMap
    BY <1>4, MapOfType DEF Shapes, RefMap
  <2>3. ASSUME NEW s \in Slots, RefMap[s] # NoPage
        PROVE  /\ s[2] \in 0 .. InitSz - 1 /\ s = <<initproc, s[2]>>
               /\ RefMap[s] = image[s[2]]
    <3>1. s = <<s[1], s[2]>> /\ s[1] \in Procs /\ s[2] \in 0 .. NVA
      BY SlotPair
    <3>2. CASE s[2] < NVA
      <4>1. s[2] \in VAs
        BY <1>2, <3>1, <3>2 DEF VAs
      <4>2. RefMap[s] = pgtbl[s[1]][s[2]].pa
        BY <3>2 DEF RefMap, MapOf
      <4>3. s[1] = initproc /\ s[2] < InitSz
        BY <1>1, <2>3, <3>1, <4>1, <4>2 DEF NoPte
      <4>4. pgtbl[s[1]][s[2]].pa = image[s[2]]
        BY <1>1, <3>1, <4>1, <4>3
      <4> QED
        BY <1>2, <3>1, <4>2, <4>3, <4>4
    <3>3. CASE ~(s[2] < NVA)
      <4>1. RefMap[s] = th[s[1]].pa
        BY <3>3 DEF RefMap, MapOf
      <4> QED
        BY <1>1, <2>3, <3>1, <4>1 DEF Idle
    <3> QED
      BY <3>2, <3>3
  <2>4. ASSUME NEW pa \in freelist PROVE Holders(RefMap, pa) = {}
    <3>1. pa \in Pages /\ pa # NoPage /\ pa \notin used
      BY <1>1, ConstAssumption
    <3> QED
      BY <1>2, <2>3, <3>1 DEF Holders
  <2>5. ASSUME NEW pa \in Pages \ freelist
        PROVE  pte_count[pa] >= Cardinality(Holders(RefMap, pa))
    <3>1. pa \in used /\ pte_count[pa] = 1 /\ pa # NoPage
      BY <1>1, <2>5, ConstAssumption
    <3>2. PICK i \in DOMAIN InitFlags : pa = image[i]
      BY <3>1
    <3>3. Holders(RefMap, pa) \subseteq {<<initproc, i>>}
      <4>1. ASSUME NEW s \in Holders(RefMap, pa) PROVE s = <<initproc, i>>
        <5>1. s \in Slots /\ RefMap[s] = pa
          BY DEF Holders
        <5>2. s[2] \in DOMAIN InitFlags /\ s = <<initproc, s[2]>>
              /\ image[s[2]] = image[i]
          BY <1>2, <2>3, <3>1, <3>2, <5>1
        <5> QED
          BY <1>1, <5>2
      <4> QED
        BY <4>1
    <3>4. Cardinality(Holders(RefMap, pa)) <= Cardinality({<<initproc, i>>})
      BY <3>3, FS_Singleton, FS_Subset
    <3>5. Cardinality({<<initproc, i>>}) = 1
      BY FS_Singleton
    <3> QED
      BY <3>1, <3>4, <3>5, HoldersFinite
  <2> QED
    BY <2>1, <2>4, <2>5 DEF CountsOK, Counted
<1> QED
  BY <1>4, <1>5, <1>6, IInvSplit

\* The invariant holds in every reachable state, for any number of
\* processes, pages and virtual pages.
THEOREM Invariance == Spec => []IInv
<1>1. Init => IInv
  BY InitInvariant
<1>2. IInv /\ [Next]_vars => IInv'
  <2> SUFFICES ASSUME IInv, [Next]_vars PROVE IInv'
    OBVIOUS
  <2>1. CASE Next
    <3>1. Shapes /\ ThreadsOK /\ CountsOK
      BY IInvSplit
    <3>2. Shapes'
      BY <2>1, StepShapes
    <3>3. ThreadsOK'
      BY <2>1, <3>1, <3>2, StepThreads
    <3>4. CountsOK'
      BY <2>1, <3>1, <3>2, StepCounts
    <3> QED
      BY <3>2, <3>3, <3>4
      DEF IInv, TypeOK, Shapes, CountsOK, Counts, Tables, Threads
  <2>2. CASE UNCHANGED vars
    BY <2>2 DEF vars, IInv, TypeOK, ThreadsOK, TargetsDiffer, ThreadOK, RefMap
  <2> QED
    BY <2>1, <2>2
<1> QED
  BY <1>1, <1>2, PTL DEF Spec

\* Type correctness, with pte_count never below zero: kfree() is only
\* called on a page that is still counted.
THEOREM TypeCorrect == Spec => []TypeOK
<1>1. IInv => TypeOK
  BY DEF IInv
<1> QED
  BY <1>1, Invariance, PTL

\* The slots that refer to a page in CowVm are its holders in RefMap.
LEMMA RefsAreHolders == \A pa : Refs(pa) = Holders(RefMap, pa)
BY DEF Refs, Holders, RefMap, MapOf, PageAt

\* A page on the free list of kalloc.c is referred to by nothing.
THEOREM NoDangling == Spec => []NoDanglingPage
<1>1. IInv => NoDanglingPage
  BY RefsAreHolders DEF IInv, Counted, NoDanglingPage
<1> QED
  BY <1>1, Invariance, PTL

\* pte_count never understates the references to an allocated page.
THEOREM CountsCover == Spec => []CountCoversRefs
<1>1. IInv => CountCoversRefs
  BY RefsAreHolders DEF IInv, Counted, CountCoversRefs
<1> QED
  BY <1>1, Invariance, PTL

-----------------------------------------------------------------------------
(* More on top of this invariant: no panic of vm.c is reached, a page that *)
(* is not marked COW has one owner, the copy-on-write memory implements    *)
(* PrivateMemory, and no page is lost as long as mappages() does not fail. *)
(* What is added to the invariant says which pages of a table are mapped   *)
(* at every place of a system call that works on it.                       *)

\* A thread that changes the size of its own process.
Resizing(t) ==
  \/ t.pc \in {"uvmalloc", "uvmalloc_map"}
  \/ t.pc = "uvmunmap" /\ t.ret \in {"shrink", "grow"}

\* Pages lo .. hi - 1 of table g, besides the first base ones, are mapped.
MappedOnly(g, base, lo, hi) ==
  \A va \in VAs : Valid(g[va]) <=> va < base \/ (lo <= va /\ va < hi)

\* A thread t of a process with table own and size size, which works on table
\* g: how far the system call has come.
WorkOK(t, own, g, size) ==
  /\ t.pc \in {"uvmalloc", "uvmalloc_map"} =>
       size <= t.i /\ t.i <= t.hi /\ MappedOnly(own, t.i, 0, 0)
  /\ t.pc = "uvmalloc_map" => t.i < t.hi
  /\ t.pc = "uvmcopy" =>
       /\ t.i <= size /\ MappedOnly(g, t.i, 0, 0)
       /\ \A va \in VAs : va < t.i => g[va].pa = own[va].pa
  /\ t.pc = "uvmunmap" =>
       LET base == CASE t.ret = "shrink" -> t.va
                     [] t.ret = "grow" -> size
                     [] OTHER -> 0
       IN base <= t.i /\ t.i <= t.hi /\ MappedOnly(g, base, t.i, t.hi)
  /\ t.pc \in {"cow_free", "copyout_write"} =>
       t.va < NVA /\ Valid(own[t.va]) /\ "COW" \notin own[t.va].flags

Work(p) == WorkOK(th[p], pgtbl[p], pgtbl[th[p].tgt], sz[p])

\* The mapped pages of a table that no thread works on.
TableOK(q) ==
  /\ state[q] = "UNUSED" => MappedOnly(pgtbl[q], 0, 0, 0)
  /\ state[q] = "LIVE" /\ ~Resizing(th[q]) => MappedOnly(pgtbl[q], sz[q], 0, 0)
  /\ state[q] = "ZOMBIE" /\ (\A r \in Procs : ~(At(r, "uvmunmap") /\ th[r].tgt = q)) =>
       MappedOnly(pgtbl[q], sz[q], 0, 0)

MemOK == \A p \in Procs : Work(p) /\ TableOK(p)

-----------------------------------------------------------------------------
(* What a step of process p leaves alone.                                  *)

ProcStep(p) ==
  \/ KernelStep(p)
  \/ \E va \in VAs : StoreFault(p, va)
  \/ \E va \in VAs, v \in Values : Store(p, va, v) \/ copyout(p, va, v)
  \/ \E q \in Procs : Fork(p, q) \/ Wait(p, q)
  \/ \E n \in 1 .. NVA : Grow(p, n) \/ Shrink(p, n)

\* The processes whose table or size a step of p can change.
Touched(p) == IF Working(th[p]) THEN {p, th[p].tgt} ELSE {p}

Frame(p) ==
  /\ state[p] = "LIVE"
  /\ \A r \in Procs \ {p} : th'[r] = th[r]
  /\ \A r \in Procs \ Touched(p) : pgtbl'[r] = pgtbl[r] /\ sz'[r] = sz[r]
  /\ \A r \in Procs \ Touched(p) :
       \/ state'[r] = state[r]
       \/ state[r] = "UNUSED" /\ state'[r] = "USED"

\* Every step of p is such a step.
LEMMA StepFrame ==
  ASSUME IInv, NEW p \in Procs, ProcStep(p)
  PROVE  Frame(p)
<1>1. /\ th \in [Procs -> Thread] /\ pgtbl \in [Procs -> [VAs -> Pte]]
      /\ sz \in [Procs -> 0 .. NVA] /\ th[p] \in Thread
      /\ state \in [Procs -> {"UNUSED", "USED", "LIVE", "ZOMBIE"}]
  BY DEF IInv, TypeOK
<1>2. ThreadOK(p)
  BY DEF IInv, ThreadsOK
<1>3. state[p] = "LIVE"
  BY <1>2
  DEF ProcStep, KernelStep, CowAlloc, CowCopy, CowFree, CopyoutWrite, UvmcopyPage,
      ForkDone, Exit, UvmallocPage, UvmallocMap, GrowDone, UvmunmapPage, UvmunmapDone,
      StoreFault, Store, copyout, Fork, Wait, Grow, Shrink, InUser, At, ThreadOK
<1>4. \A r \in Procs \ {p} : th'[r] = th[r]
  <2>1. \E t : th' = [th EXCEPT ![p] = t]
    <3>1. th = [th EXCEPT ![p] = th[p]]
      BY <1>1
    <3> QED
    BY <3>1
    DEF ProcStep, KernelStep, CowAlloc, CowCopy, CowFree, CopyoutWrite, UvmcopyPage,
        ForkDone, Exit, UvmallocPage, UvmallocMap, GrowDone, UvmunmapPage,
        UvmunmapDone, StoreFault, Store, copyout, Fork, Wait, Grow, Shrink
  <2> QED
    BY <1>1, <2>1
<1>5. \A r \in Procs \ Touched(p) : pgtbl'[r] = pgtbl[r] /\ sz'[r] = sz[r]
  <2>1. CASE KernelStep(p)
    BY <1>1, <1>2, <2>1
    DEF KernelStep, CowAlloc, CowCopy, CowFree, CopyoutWrite, UvmcopyPage, ForkDone,
        Exit, UvmallocPage, UvmallocMap, GrowDone, UvmunmapPage, UvmunmapDone, At,
        Touched, Working
  <2>2. CASE ~KernelStep(p)
    BY <2>2 DEF ProcStep, StoreFault, Store, copyout, Fork, Wait, Grow, Shrink
  <2> QED
    BY <2>1, <2>2
<1>6. \A r \in Procs \ Touched(p) :
        \/ state'[r] = state[r]
        \/ state[r] = "UNUSED" /\ state'[r] = "USED"
  <2>1. CASE KernelStep(p)
    BY <1>1, <1>2, <2>1
    DEF KernelStep, CowAlloc, CowCopy, CowFree, CopyoutWrite, UvmcopyPage, ForkDone,
        Exit, UvmallocPage, UvmallocMap, GrowDone, UvmunmapPage, UvmunmapDone, At,
        Touched, Working
  <2>2. CASE ~KernelStep(p)
    BY <1>1, <2>2 DEF ProcStep, StoreFault, Store, copyout, Fork, Wait, Grow, Shrink
  <2> QED
    BY <2>1, <2>2
<1> QED
  BY <1>3, <1>4, <1>5, <1>6 DEF Frame

\* What the step does not touch is as it was.
LEMMA OthersKeep ==
  ASSUME IInv, MemOK, NEW p \in Procs, Frame(p)
  PROVE  /\ \A r \in Procs \ {p} : Work(r)'
         /\ \A q \in Procs \ Touched(p) : TableOK(q)'
<1>0. th \in [Procs -> Thread] /\ th[p] \in Thread /\ ThreadOK(p)
  BY DEF IInv, TypeOK, ThreadsOK
<1>1. ASSUME NEW r \in Procs \ {p}
      PROVE  Work(r)'
  <2>1. th'[r] = th[r] /\ Work(r) /\ th[r] \in Thread /\ ThreadOK(r)
    BY <1>0 DEF Frame, MemOK, IInv, ThreadsOK
  <2>2. CASE th[r].pc = "user"
    BY <2>1, <2>2 DEF Work, WorkOK
  <2>3. CASE th[r].pc # "user"
    <3>1. state[r] = "LIVE"
      BY <2>1, <2>3 DEF ThreadOK
    <3>2. r \notin Touched(p)
      BY <1>0, <3>1 DEF Touched, Working, ThreadOK
    <3>3. pgtbl'[r] = pgtbl[r] /\ sz'[r] = sz[r]
      BY <3>2 DEF Frame
    <3>4. th[r].tgt = r \/ th[r].tgt \notin Touched(p)
      <4>1. CASE Working(th[r])
        <5>1. th[r].tgt # p
          BY <4>1, <1>0, LiveNotTarget DEF Frame, IInv
        <5>2. Working(th[p]) => th[p].tgt # th[r].tgt
          BY <4>1 DEF IInv, ThreadsOK, TargetsDiffer, Working
        <5> QED
          BY <5>1, <5>2 DEF Touched
      <4>2. CASE ~Working(th[r])
        BY <2>1, <4>2 DEF ThreadOK, Working
      <4> QED
        BY <4>1, <4>2
    <3>5. th[r].tgt \in Procs
      BY <2>1 DEF Thread
    <3>6. pgtbl'[th[r].tgt] = pgtbl[th[r].tgt]
      BY <3>3, <3>4, <3>5 DEF Frame
    <3> QED
      BY <2>1, <3>3, <3>6 DEF Work
  <2> QED
    BY <2>2, <2>3
<1>2. ASSUME NEW q \in Procs \ Touched(p)
      PROVE  TableOK(q)'
  <2>1. /\ q # p /\ th'[q] = th[q] /\ pgtbl'[q] = pgtbl[q] /\ sz'[q] = sz[q]
        /\ TableOK(q)
        /\ state'[q] = state[q] \/ (state[q] = "UNUSED" /\ state'[q] = "USED")
    BY <1>2 DEF Frame, MemOK, Touched
  <2>2. ASSUME \A r \in Procs : ~(At(r, "uvmunmap") /\ th[r].tgt = q)'
        PROVE  \A r \in Procs : ~(At(r, "uvmunmap") /\ th[r].tgt = q)
    BY <1>2, <2>2 DEF Frame, Touched, Working, At
  <2> QED
    BY <2>1, <2>2 DEF TableOK, At
<1> QED
  BY <1>1, <1>2

\* It remains to look at the process that moves and at the table it works on.
MovedOK(p) == Work(p)' /\ \A q \in Touched(p) : TableOK(q)'

\* Facts about p that every action lemma starts from.
LEMMA AtStep ==
  ASSUME IInv, IInv', MemOK, NEW p \in Procs
  PROVE  /\ th \in [Procs -> Thread] /\ th[p] \in Thread /\ ThreadOK(p)
         /\ th' \in [Procs -> Thread] /\ th'[p] \in Thread /\ ThreadOK(p)'
         /\ pgtbl \in [Procs -> [VAs -> Pte]] /\ pgtbl[p] \in [VAs -> Pte]
         /\ pgtbl' \in [Procs -> [VAs -> Pte]]
         /\ sz \in [Procs -> 0 .. NVA] /\ sz[p] \in 0 .. NVA /\ NVA \in Nat
         /\ state \in [Procs -> {"UNUSED", "USED", "LIVE", "ZOMBIE"}]
         /\ th[p].tgt \in Procs /\ th[p].i \in 0 .. NVA /\ th[p].hi \in 0 .. NVA
         /\ th[p].va \in 0 .. NVA
         /\ Work(p) /\ TableOK(p)
BY ConstAssumption DEF IInv, TypeOK, ThreadsOK, Thread, MemOK

\* A step that changes no table, size or state, outside of the system calls
\* that work on tables.
LEMMA CalmStep ==
  ASSUME IInv, IInv', MemOK, NEW p \in Procs, state[p] = "LIVE",
         pgtbl' = pgtbl, sz' = sz, state' = state,
         ~Working(th[p]), ~Resizing(th[p]),
         \/ th'[p].pc \in {"user", "cow_alloc", "cow_copy", "usertrap_return"}
         \/ /\ th'[p].pc = "copyout_write" /\ th[p].pc = "cow_free"
            /\ th'[p].va = th[p].va
  PROVE  MovedOK(p)
<1>1. Work(p) /\ TableOK(p)
  BY AtStep
<1>2. Work(p)'
  BY <1>1 DEF Work, WorkOK
<1>3. TableOK(p)'
  BY <1>1 DEF TableOK
<1> QED
  BY <1>2, <1>3 DEF MovedOK, Touched

\* Stores and faults of user code start or stay out of a system call.
LEMMA UserCalm ==
  ASSUME IInv, IInv', MemOK, NEW p \in Procs, NEW va \in VAs, NEW v \in Values,
         StoreFault(p, va) \/ Store(p, va, v) \/ copyout(p, va, v)
  PROVE  MovedOK(p)
<1>1. /\ state[p] = "LIVE" /\ th[p].pc = "user"
      /\ pgtbl' = pgtbl /\ sz' = sz /\ state' = state
  BY DEF StoreFault, Store, copyout, InUser
<1>2. th'[p].pc \in {"user", "cow_alloc", "usertrap_return"}
  <2>0. th \in [Procs -> Thread] /\ th[p] \in Thread
    BY AtStep
  <2>1. CASE StoreFault(p, va)
    BY <2>0, <2>1 DEF StoreFault, Thread
  <2>2. CASE Store(p, va, v)
    BY <1>1, <2>2 DEF Store
  <2>3. CASE copyout(p, va, v)
    BY <1>1, <2>0, <2>3 DEF copyout, Thread
  <2> QED
    BY <2>1, <2>2, <2>3
<1> QED
  BY <1>1, <1>2, CalmStep DEF Working, Resizing

\* The fault handler outside its copy changes no table.
LEMMA FaultCalm ==
  ASSUME IInv, IInv', MemOK, NEW p \in Procs,
         CowAlloc(p) \/ CowFree(p) \/ CopyoutWrite(p)
  PROVE  MovedOK(p)
<1>1. /\ th[p].pc \in {"cow_alloc", "cow_free", "copyout_write"}
      /\ pgtbl' = pgtbl /\ sz' = sz /\ state' = state
  BY DEF CowAlloc, CowFree, CopyoutWrite, At
<1>2. state[p] = "LIVE"
  BY <1>1, AtStep DEF ThreadOK
<1>3. \/ th'[p].pc \in {"user", "cow_alloc", "cow_copy", "usertrap_return"}
      \/ /\ th'[p].pc = "copyout_write" /\ th[p].pc = "cow_free"
         /\ th'[p].va = th[p].va
  <2>0. /\ th \in [Procs -> Thread] /\ th[p] \in Thread /\ Idle(p).pc = "user"
        /\ [Idle(p) EXCEPT !.pc = "usertrap_return"].pc = "usertrap_return"
    BY AtStep DEF Idle
  <2>1. CASE CowAlloc(p)
    <3> DEFINE n(pa) == [th[p] EXCEPT !.pc = "cow_copy", !.pa = pa]
               o == [Idle(p) EXCEPT !.pc = "usertrap_return"]
    <3>1. \A pa : n(pa).pc = "cow_copy"
      BY <2>0 DEF Thread
    <3>2. (\E pa : th'[p] = n(pa)) \/ th'[p] = o \/ th'[p] = Idle(p)
      <4>1. CASE \E pa \in freelist : th' = [th EXCEPT ![p] = n(pa)]
        BY <2>0, <4>1
      <4>2. CASE th' = [th EXCEPT ![p] = IF @.ret = "usertrap" THEN o ELSE Idle(p)]
        BY <2>0, <4>2
      <4> QED
        BY <2>1, <4>1, <4>2 DEF CowAlloc
    <3>3. o.pc = "usertrap_return"
      BY <2>0
    <3> HIDE DEF n, o
    <3> QED
      BY <2>0, <3>1, <3>2, <3>3
  <2>2. CASE CowFree(p)
    <3> DEFINE t == [th[p] EXCEPT !.pc = "copyout_write", !.pa = NoPage]
    <3>1. t.pc = "copyout_write" /\ t.va = th[p].va
      BY <2>0 DEF Thread
    <3>2. th'[p] = Idle(p) \/ th'[p] = t
      BY <2>0, <2>2 DEF CowFree
    <3>3. th[p].pc = "cow_free"
      BY <2>2 DEF CowFree, At
    <3> HIDE DEF t
    <3> QED
      BY <2>0, <3>1, <3>2, <3>3
  <2>3. CASE CopyoutWrite(p)
    BY <2>0, <2>3 DEF CopyoutWrite
  <2> QED
    BY <2>1, <2>2, <2>3
<1> QED
  BY <1>1, <1>2, <1>3, CalmStep DEF Working, Resizing

\* cow_page_fault() replaces a mapped page by a mapped page that is not COW.
LEMMA CowCopyMoved ==
  ASSUME IInv, IInv', MemOK, NEW p \in Procs, CowCopy(p)
  PROVE  MovedOK(p)
<1> DEFINE va == th[p].va
<1>1. /\ th[p].pc = "cow_copy" /\ sz' = sz /\ state' = state /\ state[p] = "LIVE"
      /\ va \in VAs /\ th[p].pa # NoPage /\ Valid(pgtbl[p][va])
  BY AtStep DEF CowCopy, At, ThreadOK, VAs
<1>2. th'[p].pc = "cow_free" /\ th'[p].va = va
  BY AtStep DEF CowCopy, Thread
<1>3. /\ pgtbl'[p][va].pa = th[p].pa /\ "COW" \notin pgtbl'[p][va].flags
      /\ \A x \in VAs \ {va} : pgtbl'[p][x] = pgtbl[p][x]
  BY <1>1, AtStep DEF CowCopy
<1>4. \A x \in VAs : Valid(pgtbl'[p][x]) <=> Valid(pgtbl[p][x])
  BY <1>1, <1>3 DEF Valid
<1>5. Work(p)'
  BY <1>1, <1>2, <1>3, <1>4, AtStep DEF Work, WorkOK, VAs
<1>6. TableOK(p)'
  BY <1>1, <1>2, <1>4, AtStep DEF TableOK, MappedOnly, Resizing
<1> QED
  BY <1>1, <1>5, <1>6 DEF MovedOK, Touched, Working

\* The system calls that start to work on a table.
LEMMA ForkMoved ==
  ASSUME IInv, IInv', MemOK, NEW p \in Procs, NEW q \in Procs, Fork(p, q)
  PROVE  MovedOK(p)
<1>1. /\ th[p] = Idle(p) /\ state[p] = "LIVE" /\ state[q] = "UNUSED" /\ p # q
      /\ pgtbl' = pgtbl /\ sz' = sz /\ state' = [state EXCEPT ![q] = "USED"]
  BY AtStep DEF Fork, InUser, ThreadOK
<1>2. th'[p].pc = "uvmcopy" /\ th'[p].tgt = q /\ th'[p].i = 0
  BY <1>1, AtStep DEF Fork, Idle
<1>3. MappedOnly(pgtbl[q], 0, 0, 0) /\ MappedOnly(pgtbl[p], sz[p], 0, 0)
  BY <1>1 DEF MemOK, TableOK, Resizing, Idle
<1>4. Work(p)'
  BY <1>1, <1>2, <1>3, AtStep DEF Work, WorkOK, VAs
<1>5. TableOK(p)'
  BY <1>1, <1>3, AtStep DEF TableOK
<1> QED
  BY <1>1, <1>4, <1>5 DEF MovedOK, Touched, Working, Idle

\* wait() finds a zombie, whose pages are all mapped.
LEMMA WaitMoved ==
  ASSUME IInv, IInv', MemOK, NEW p \in Procs, NEW q \in Procs, Wait(p, q)
  PROVE  MovedOK(p)
<1>1. /\ th[p] = Idle(p) /\ state[p] = "LIVE" /\ state[q] = "ZOMBIE" /\ p # q
      /\ pgtbl' = pgtbl /\ sz' = sz /\ state' = state
      /\ \A r \in Procs : ~(At(r, "uvmunmap") /\ th[r].tgt = q)
  BY AtStep DEF Wait, InUser, ThreadOK
<1>2. /\ th'[p].pc = "uvmunmap" /\ th'[p].tgt = q /\ th'[p].i = 0
      /\ th'[p].hi = sz[q] /\ th'[p].ret = "freeproc"
  BY <1>1, AtStep DEF Wait, Idle
<1>3. MappedOnly(pgtbl[q], sz[q], 0, 0) /\ MappedOnly(pgtbl[p], sz[p], 0, 0)
  BY <1>1 DEF MemOK, TableOK, Resizing, Idle
<1>4. MappedOnly(pgtbl[q], 0, 0, sz[q])
  BY <1>3, AtStep DEF MappedOnly, VAs
<1>5. Work(p)'
  <2>1. sz[q] \in 0 .. NVA
    BY AtStep
  <2> QED
    BY <1>1, <1>2, <1>4, <2>1 DEF Work, WorkOK
<1>6. TableOK(p)'
  BY <1>1, <1>3, AtStep DEF TableOK
<1> QED
  BY <1>1, <1>5, <1>6 DEF MovedOK, Touched, Working, Idle

\* sbrk() starts from a table that is mapped up to its size.
LEMMA ResizeMoved ==
  ASSUME IInv, IInv', MemOK, NEW p \in Procs, NEW n \in 1 .. NVA,
         Grow(p, n) \/ Shrink(p, n)
  PROVE  MovedOK(p)
<1>1. /\ th[p] = Idle(p) /\ state[p] = "LIVE"
      /\ pgtbl' = pgtbl /\ sz' = sz /\ state' = state
  BY AtStep DEF Grow, Shrink, InUser, ThreadOK
<1>2. MappedOnly(pgtbl[p], sz[p], 0, 0)
  BY <1>1 DEF MemOK, TableOK, Resizing, Idle
<1>3. Resizing(th'[p]) /\ Work(p)'
  <2>1. CASE Grow(p, n)
    <3>1. /\ th'[p].pc = "uvmalloc" /\ th'[p].i = sz[p] /\ th'[p].hi = sz[p] + n
      BY <1>1, <2>1, AtStep DEF Grow, Idle
    <3> QED
      BY <1>1, <1>2, <3>1, AtStep DEF Work, WorkOK, Resizing
  <2>2. CASE Shrink(p, n)
    <3>1. /\ th'[p].pc = "uvmunmap" /\ th'[p].i = sz[p] - n /\ th'[p].hi = sz[p]
          /\ th'[p].va = sz[p] - n /\ th'[p].ret = "shrink" /\ th'[p].tgt = p
          /\ n <= sz[p]
      BY <1>1, <2>2, AtStep DEF Shrink, Idle
    <3>2. MappedOnly(pgtbl[p], sz[p] - n, sz[p] - n, sz[p])
      BY <1>2, <3>1, AtStep DEF MappedOnly, VAs
    <3> QED
      BY <1>1, <3>1, <3>2, AtStep DEF Work, WorkOK, Resizing
  <2> QED
    BY <2>1, <2>2
<1>4. TableOK(p)'
  BY <1>1, <1>3 DEF TableOK
<1> QED
  BY <1>1, <1>3, <1>4 DEF MovedOK, Touched, Working, Idle

\* A zombie keeps its pages.
LEMMA ExitMoved ==
  ASSUME IInv, IInv', MemOK, NEW p \in Procs, Exit(p)
  PROVE  MovedOK(p)
<1>1. /\ th[p].pc = "user" /\ state[p] = "LIVE" /\ th' = th
      /\ pgtbl' = pgtbl /\ sz' = sz /\ state' = [state EXCEPT ![p] = "ZOMBIE"]
  BY DEF Exit, InUser
<1>2. MappedOnly(pgtbl[p], sz[p], 0, 0)
  BY <1>1 DEF MemOK, TableOK, Resizing
<1> QED
  BY <1>1, <1>2, AtStep DEF MovedOK, Touched, Work, WorkOK, TableOK, Working

\* uvmcopy(): one page more is shared, or the pages so far are unmapped again.
LEMMA UvmcopyMoved ==
  ASSUME IInv, IInv', MemOK, NEW p \in Procs, UvmcopyPage(p)
  PROVE  MovedOK(p)
<1>0. PICK np \in Procs : np = th[p].tgt
  BY AtStep
<1> DEFINE i == th[p].i
           pte == SharedPte(pgtbl[p][i])
<1>1. /\ th[p].pc = "uvmcopy" /\ sz' = sz /\ state' = state
      /\ state[p] = "LIVE" /\ state[np] = "USED" /\ np \in Procs /\ np # p
      /\ i \in VAs /\ i < sz[p] /\ i + 1 <= sz[p] /\ Valid(pgtbl[p][i])
  <2>1. th[p].pc = "uvmcopy" /\ i < sz[p] /\ Valid(pgtbl[p][i])
    BY DEF UvmcopyPage, At
  <2>2. sz' = sz /\ state' = state
    BY DEF UvmcopyPage
  <2>3. state[p] = "LIVE" /\ state[np] = "USED"
    BY <1>0, <2>1, AtStep DEF ThreadOK
  <2>4. i \in VAs /\ i + 1 <= sz[p]
    BY <2>1, AtStep DEF VAs
  <2> QED
    BY <2>1, <2>2, <2>3, <2>4
<1>2. pte.pa = pgtbl[p][i].pa /\ Valid(pte)
  <2>1. pgtbl[p][i] \in Pte
    BY <1>1, AtStep
  <2> QED
    BY <1>1, <2>1, SharedPteType DEF Valid
<1>3. Work(p) /\ MappedOnly(pgtbl[p], sz[p], 0, 0)
  BY <1>1 DEF MemOK, TableOK, Resizing
<1>4. i \in 0 .. NVA /\ MappedOnly(pgtbl[np], i, 0, 0)
      /\ \A va \in VAs : va < i => pgtbl[np][va].pa = pgtbl[p][va].pa
  BY <1>0, <1>1, <1>3, AtStep DEF Work, WorkOK
<1>5. /\ pgtbl'[p][i].pa = pgtbl[p][i].pa
      /\ \A va \in VAs \ {i} : pgtbl'[p][va] = pgtbl[p][va]
  <2> HIDE DEF pte, i
  <2>1. \/ pgtbl' = [pgtbl EXCEPT ![p][i] = pte]
        \/ pgtbl' = [pgtbl EXCEPT ![p][i] = pte, ![np][i] = pte]
    BY <1>0 DEF UvmcopyPage, pte, i
  <2> QED
    BY <1>1, <1>2, <2>1, AtStep
<1>6. TableOK(p)'
  <2>1. th'[p].pc = "uvmcopy" \/ (th'[p].pc = "uvmunmap" /\ th'[p].ret = "fork")
    <3>1. CASE th' = [th EXCEPT ![p].i = @ + 1]
      BY <1>1, <3>1, AtStep DEF Thread
    <3>2. CASE th' = [th EXCEPT ![p] = UvmcopyUndo(@)]
      BY <3>2, AtStep DEF UvmcopyUndo, Thread
    <3> QED
      BY <3>1, <3>2 DEF UvmcopyPage
  <2>2. \A va \in VAs : Valid(pgtbl'[p][va]) <=> Valid(pgtbl[p][va])
    BY <1>5 DEF Valid
  <2> QED
    BY <1>1, <1>3, <2>1, <2>2 DEF TableOK, Resizing, MappedOnly
<1>7. TableOK(np)'
  BY <1>1 DEF TableOK
<1>8. Work(p)'
  <2>1. CASE /\ pgtbl' = [pgtbl EXCEPT ![p][i] = pte, ![np][i] = pte]
             /\ th' = [th EXCEPT ![p].i = @ + 1]
    <3>1. /\ th'[p].pc = "uvmcopy" /\ th'[p].i = i + 1 /\ th'[p].tgt = np
      BY <1>0, <1>1, <2>1, AtStep DEF Thread
    <3>2. /\ pgtbl'[np][i].pa = pgtbl[p][i].pa
          /\ \A va \in VAs \ {i} : pgtbl'[np][va] = pgtbl[np][va]
      <4> HIDE DEF pte, i
      <4> QED
        BY <1>1, <1>2, <2>1, AtStep
    <3>3. \A va \in VAs : va < i + 1 => va = i \/ va < i
      BY <1>1, AtStep DEF VAs
    <3>4. MappedOnly(pgtbl'[np], i + 1, 0, 0)
      BY <1>1, <1>4, <3>2, <3>3 DEF MappedOnly, Valid, VAs
    <3>5. \A va \in VAs : va < i + 1 => pgtbl'[np][va].pa = pgtbl'[p][va].pa
      BY <1>4, <1>5, <3>2, <3>3
    <3> HIDE DEF i
    <3> QED
      BY <1>1, <3>1, <3>4, <3>5 DEF Work, WorkOK
  <2>2. CASE /\ pgtbl' = [pgtbl EXCEPT ![p][i] = pte]
             /\ th' = [th EXCEPT ![p] = UvmcopyUndo(@)]
    <3>1. /\ th'[p].pc = "uvmunmap" /\ th'[p].i = 0 /\ th'[p].hi = i
          /\ th'[p].tgt = np /\ th'[p].ret = "fork"
      BY <1>0, <2>2, AtStep DEF Thread, UvmcopyUndo
    <3>2. pgtbl'[np] = pgtbl[np]
      BY <1>1, <2>2, AtStep
    <3>3. MappedOnly(pgtbl'[np], 0, 0, i)
      BY <1>4, <3>2 DEF MappedOnly, VAs
    <3> HIDE DEF i
    <3> QED
      BY <1>4, <3>1, <3>3 DEF Work, WorkOK
  <2> QED
    BY <1>0, <2>1, <2>2 DEF UvmcopyPage
<1> QED
  BY <1>0, <1>6, <1>7, <1>8 DEF MovedOK, Touched

\* fork() returns: the child has the pages of the parent.
LEMMA ForkDoneMoved ==
  ASSUME IInv, IInv', MemOK, NEW p \in Procs, ForkDone(p)
  PROVE  MovedOK(p)
<1>0. PICK np \in Procs : np = th[p].tgt
  BY AtStep
<1>1. /\ th[p].pc = "uvmcopy" /\ th[p].i = sz[p] /\ th'[p] = Idle(p)
      /\ state[p] = "LIVE" /\ state[np] = "USED" /\ np \in Procs /\ np # p
      /\ pgtbl' = pgtbl /\ sz'[np] = sz[p] /\ sz'[p] = sz[p]
      /\ state'[np] = "LIVE" /\ state'[p] = "LIVE"
  BY <1>0, AtStep DEF ForkDone, At, ThreadOK
<1>2. MappedOnly(pgtbl[np], sz[p], 0, 0) /\ MappedOnly(pgtbl[p], sz[p], 0, 0)
  BY <1>0, <1>1, AtStep DEF Work, WorkOK, TableOK, Resizing
<1>3. Work(p)'
  BY <1>1 DEF Work, WorkOK, Idle
<1>4. TableOK(p)' /\ TableOK(np)'
  BY <1>1, <1>2 DEF TableOK
<1> QED
  BY <1>0, <1>3, <1>4 DEF MovedOK, Touched

\* uvmalloc(): one page more, or the pages so far are unmapped again.
LEMMA UvmallocMoved ==
  ASSUME IInv, IInv', MemOK, NEW p \in Procs, UvmallocPage(p) \/ UvmallocMap(p)
  PROVE  MovedOK(p)
<1> DEFINE i == th[p].i
<1>1. /\ th[p].pc \in {"uvmalloc", "uvmalloc_map"} /\ sz' = sz /\ state' = state
      /\ state[p] = "LIVE" /\ th[p].tgt = p /\ th[p].ret = "grow"
      /\ i < th[p].hi /\ sz[p] <= i /\ MappedOnly(pgtbl[p], i, 0, 0)
      /\ i \in VAs
  <2>1. th[p].pc \in {"uvmalloc", "uvmalloc_map"} /\ sz' = sz /\ state' = state
    BY DEF UvmallocPage, UvmallocMap, At
  <2>2. i < th[p].hi
    BY AtStep DEF UvmallocPage, UvmallocMap, At, Work, WorkOK
  <2>3. state[p] = "LIVE" /\ th[p].tgt = p /\ th[p].ret = "grow"
    BY <2>1, AtStep DEF ThreadOK
  <2>4. sz[p] <= i /\ MappedOnly(pgtbl[p], i, 0, 0)
    BY <2>1, AtStep DEF Work, WorkOK
  <2>5. i \in VAs
    BY <2>2, AtStep DEF VAs
  <2> QED
    BY <2>1, <2>2, <2>3, <2>4, <2>5
<1>2. ASSUME NEW pa, pgtbl' = pgtbl,
             th'[p] = [th[p] EXCEPT !.pc = "uvmalloc_map", !.pa = pa]
      PROVE  MovedOK(p)
  <2>1. th'[p].pc = "uvmalloc_map" /\ th'[p].i = i /\ th'[p].hi = th[p].hi
    BY <1>2, AtStep DEF Thread
  <2>2. Work(p)'
    BY <1>1, <1>2, <2>1, AtStep DEF Work, WorkOK
  <2> QED
    BY <1>1, <2>1, <2>2 DEF MovedOK, Touched, TableOK, Resizing, Working
<1>3. CASE th'[p] = GrowUndo(th[p], sz[p]) /\ pgtbl' = pgtbl
  <2>1. /\ th'[p].pc = "uvmunmap" /\ th'[p].i = sz[p] /\ th'[p].hi = i
        /\ th'[p].tgt = p /\ th'[p].ret = "grow"
    BY <1>1, <1>3, AtStep DEF GrowUndo, Thread
  <2>2. MappedOnly(pgtbl[p], sz[p], sz[p], i)
    BY <1>1, AtStep DEF MappedOnly, VAs
  <2>3. Work(p)'
    BY <1>1, <1>3, <2>1, <2>2, AtStep DEF Work, WorkOK
  <2> QED
    BY <1>1, <2>1, <2>3 DEF MovedOK, Touched, TableOK, Resizing, Working
<1>4. CASE /\ UvmallocMap(p)
           /\ pgtbl' = [pgtbl EXCEPT ![p][i] = [pa |-> th[p].pa, flags |-> {"U", "W"}]]
           /\ th' = [th EXCEPT ![p] = [@ EXCEPT !.pc = "uvmalloc", !.i = i + 1,
                                                !.pa = NoPage]]
  <2>1. th'[p].pc = "uvmalloc" /\ th'[p].i = i + 1 /\ th'[p].hi = th[p].hi
    BY <1>4, AtStep DEF Thread
  <2>2. th[p].pa # NoPage
    BY <1>4, AtStep DEF UvmallocMap, At, ThreadOK
  <2>3. /\ pgtbl'[p][i].pa = th[p].pa
        /\ \A va \in VAs \ {i} : pgtbl'[p][va] = pgtbl[p][va]
    BY <1>1, <1>4, AtStep
  <2>4. MappedOnly(pgtbl'[p], i + 1, 0, 0)
    <3>1. \A va \in VAs : va < i + 1 <=> va = i \/ va < i
      BY <1>1, AtStep DEF VAs
    <3>2. \A va \in VAs : ~(0 <= va /\ va < 0)
      BY AtStep DEF VAs
    <3> HIDE DEF i
    <3> QED
      BY <1>1, <2>2, <2>3, <3>1, <3>2 DEF MappedOnly, Valid
  <2>5. Work(p)'
    BY <1>1, <2>1, <2>4, AtStep DEF Work, WorkOK
  <2> QED
    BY <1>1, <2>1, <2>5 DEF MovedOK, Touched, TableOK, Resizing, Working
<1>5. CASE UvmallocPage(p)
  <2>1. pgtbl' = pgtbl
    BY <1>5 DEF UvmallocPage
  <2>2. \/ th'[p] = GrowUndo(th[p], sz[p])
        \/ \E pa : th'[p] = [th[p] EXCEPT !.pc = "uvmalloc_map", !.pa = pa]
    BY <1>5, AtStep DEF UvmallocPage
  <2> QED
    BY <1>2, <1>3, <2>1, <2>2
<1>6. CASE UvmallocMap(p)
  <2>1. th' = [th EXCEPT ![p] = GrowUndo(@, sz[p])] => th'[p] = GrowUndo(th[p], sz[p])
    BY AtStep
  <2> QED
    BY <1>3, <1>4, <1>6, <2>1 DEF UvmallocMap
<1> QED
  BY <1>5, <1>6

\* The new size covers the pages that uvmalloc() has mapped.
LEMMA GrowDoneMoved ==
  ASSUME IInv, IInv', MemOK, NEW p \in Procs, GrowDone(p)
  PROVE  MovedOK(p)
<1>1. /\ th[p].pc = "uvmalloc" /\ th[p].i = th[p].hi /\ th'[p] = Idle(p)
      /\ state' = state /\ state[p] = "LIVE" /\ pgtbl' = pgtbl /\ sz'[p] = th[p].hi
  BY AtStep DEF GrowDone, At, ThreadOK
<1>2. MappedOnly(pgtbl[p], th[p].hi, 0, 0)
  BY <1>1, AtStep DEF Work, WorkOK
<1> QED
  BY <1>1, <1>2 DEF MovedOK, Touched, Work, WorkOK, TableOK, Working, Idle

\* uvmunmap(): one page less of the table, which may be the process's own.
LEMMA UvmunmapMoved ==
  ASSUME IInv, IInv', MemOK, NEW p \in Procs, UvmunmapPage(p)
  PROVE  MovedOK(p)
<1>0. PICK q \in Procs : q = th[p].tgt
  BY AtStep
<1> DEFINE i == th[p].i
           base == CASE th[p].ret = "shrink" -> th[p].va
                     [] th[p].ret = "grow" -> sz[p]
                     [] OTHER -> 0
<1>1. /\ th[p].pc = "uvmunmap" /\ sz' = sz /\ state' = state /\ state[p] = "LIVE"
      /\ q \in Procs /\ i < th[p].hi /\ i \in VAs
      /\ base <= i /\ i <= th[p].hi /\ MappedOnly(pgtbl[q], base, i, th[p].hi)
  <2>1. th[p].pc = "uvmunmap" /\ sz' = sz /\ state' = state /\ i < th[p].hi
    BY DEF UvmunmapPage, At
  <2> QED
    BY <1>0, <2>1, AtStep DEF ThreadOK, Work, WorkOK, VAs
<1>2. /\ th'[p].pc = "uvmunmap" /\ th'[p].i = i + 1 /\ th'[p].hi = th[p].hi
      /\ th'[p].tgt = q /\ th'[p].ret = th[p].ret /\ th'[p].va = th[p].va
  BY <1>0, <1>1, AtStep DEF UvmunmapPage, Thread
<1>3. /\ pgtbl'[q][i] = NoPte
      /\ \A va \in VAs \ {i} : pgtbl'[q][va] = pgtbl[q][va]
      /\ \A r \in Procs \ {q} : pgtbl'[r] = pgtbl[r]
  BY <1>0, <1>1, AtStep DEF UvmunmapPage
<1>4. base \in 0 .. NVA
  BY AtStep
<1>5. MappedOnly(pgtbl'[q], base, i + 1, th[p].hi)
  <2> DEFINE hi == th[p].hi
  <2>1. \A va \in VAs \ {i} : i + 1 <= va <=> i <= va
    BY <1>1, AtStep DEF VAs
  <2>2. ~(i < base) /\ ~(i + 1 <= i)
    BY <1>1, <1>4, AtStep DEF VAs
  <2>3. ~Valid(pgtbl'[q][i])
    BY <1>3 DEF Valid, NoPte
  <2> HIDE DEF base, i, hi
  <2> QED
    BY <1>1, <1>3, <2>1, <2>2, <2>3 DEF MappedOnly
<1>6. Work(p)'
  <2>1. base <= i + 1 /\ i + 1 <= th[p].hi
    <3> HIDE DEF base
    <3> QED
      BY <1>1, <1>4, AtStep DEF VAs
  <2> QED
    BY <1>1, <1>2, <1>5, <2>1 DEF Work, WorkOK
<1>7. TableOK(p)'
  <2>1. CASE Resizing(th[p])
    BY <1>1, <1>2, <2>1 DEF TableOK, Resizing
  <2>2. CASE ~Resizing(th[p])
    <3>1. q # p
      BY <1>0, <1>1, <2>2, AtStep DEF ThreadOK, Resizing
    <3> QED
      BY <1>1, <1>3, <2>2, <3>1, AtStep DEF TableOK
  <2> QED
    BY <2>1, <2>2
<1>8. TableOK(q)'
  <2>1. CASE q = p
    BY <1>7, <2>1
  <2>2. CASE q # p
    <3>1. state[q] \in {"USED", "ZOMBIE"}
      BY <1>0, <1>1, <2>2, AtStep DEF ThreadOK
    <3> QED
      BY <1>1, <1>2, <3>1 DEF TableOK, At
  <2> QED
    BY <2>1, <2>2
<1> QED
  BY <1>0, <1>6, <1>7, <1>8 DEF MovedOK, Touched

\* The caller of uvmunmap() gives the table back or records the new size.
LEMMA UvmunmapDoneMoved ==
  ASSUME IInv, IInv', MemOK, NEW p \in Procs, UvmunmapDone(p)
  PROVE  MovedOK(p)
<1>0. PICK q \in Procs : q = th[p].tgt
  BY AtStep
<1> DEFINE ret == th[p].ret
<1>1. /\ th[p].pc = "uvmunmap" /\ th[p].i = th[p].hi /\ th'[p] = Idle(p)
      /\ pgtbl' = pgtbl /\ q \in Procs /\ state[p] = "LIVE"
  BY <1>0, AtStep DEF UvmunmapDone, At, ThreadOK
<1>2. Work(p)'
  BY <1>1 DEF Work, WorkOK, Idle
<1>3. CASE ret \in {"fork", "freeproc"}
  <2>1. /\ state'[q] = "UNUSED" /\ q # p /\ state'[p] = "LIVE" /\ sz'[p] = sz[p]
    BY <1>0, <1>1, <1>3, AtStep DEF UvmunmapDone, ThreadOK
  <2>2. MappedOnly(pgtbl[q], 0, 0, 0)
    BY <1>0, <1>1, <1>3, AtStep DEF Work, WorkOK, MappedOnly, VAs
  <2>3. MappedOnly(pgtbl[p], sz[p], 0, 0)
    BY <1>0, <1>1, <1>3, AtStep DEF TableOK, Resizing
  <2> QED
    BY <1>0, <1>1, <1>2, <2>1, <2>2, <2>3 DEF MovedOK, Touched, TableOK
<1>4. CASE ret = "shrink"
  <2>1. q = p /\ state' = state /\ sz'[p] = th[p].va
    BY <1>0, <1>1, <1>4, AtStep DEF UvmunmapDone, ThreadOK
  <2>2. MappedOnly(pgtbl[p], th[p].va, 0, 0)
    <3>1. MappedOnly(pgtbl[p], th[p].va, th[p].i, th[p].i)
      BY <1>0, <1>1, <1>4, <2>1, AtStep DEF Work, WorkOK
    <3> QED
      BY <3>1, AtStep DEF MappedOnly, VAs
  <2> QED
    BY <1>0, <1>1, <1>2, <2>1, <2>2 DEF MovedOK, Touched, TableOK
<1>5. CASE ret = "grow"
  <2>1. q = p /\ state' = state /\ sz' = sz
    BY <1>0, <1>1, <1>5, AtStep DEF UvmunmapDone, ThreadOK
  <2>2. MappedOnly(pgtbl[p], sz[p], 0, 0)
    <3>1. MappedOnly(pgtbl[p], sz[p], th[p].i, th[p].i)
      BY <1>0, <1>1, <1>5, <2>1, AtStep DEF Work, WorkOK
    <3>2. th[p].i \in Int /\ VAs \subseteq Int
      BY AtStep DEF VAs, Thread
    <3>3. \A va \in VAs : ~(th[p].i <= va /\ va < th[p].i) /\ ~(0 <= va /\ va < 0)
      BY <3>2
    <3> QED
      BY <3>1, <3>3 DEF MappedOnly
  <2> QED
    BY <1>0, <1>1, <1>2, <2>1, <2>2 DEF MovedOK, Touched, TableOK
<1> QED
  BY <1>1, <1>3, <1>4, <1>5, AtStep DEF ThreadOK

\* Every step keeps every table mapped as far as its system call has come.
LEMMA StepMem ==
  ASSUME IInv, IInv', MemOK, NEW p \in Procs, ProcStep(p)
  PROVE  MemOK'
<1>1. MovedOK(p)
  BY UserCalm, FaultCalm, CowCopyMoved, ForkMoved, WaitMoved, ResizeMoved, ExitMoved,
     UvmcopyMoved, ForkDoneMoved, UvmallocMoved, GrowDoneMoved, UvmunmapMoved,
     UvmunmapDoneMoved, ConstAssumption
  DEF ProcStep, KernelStep
<1>2. /\ \A r \in Procs \ {p} : Work(r)'
      /\ \A q \in Procs \ Touched(p) : TableOK(q)'
  BY StepFrame, OthersKeep
<1> QED
  BY <1>1, <1>2 DEF MovedOK, MemOK

-----------------------------------------------------------------------------
(* A page that is not marked COW has one owner.                            *)

\* The slots of MayShare, for tables g and threads h.
ShareOf(g, h) ==
  {s \in Slots : IF s[2] < NVA THEN "COW" \in g[s[1]][s[2]].flags
                               ELSE h[s[1]].pc = "cow_free"}

ShareSet == ShareOf(pgtbl, th)

\* f: what every slot holds; S: the slots that may have company.
Sole(f, S) ==
  \A s, t \in Slots : f[s] = f[t] /\ f[s] # NoPage /\ s # t => s \in S

\* PTE_W and PTE_COW exclude each other.
NotBoth(g) == \A p \in Procs, va \in VAs : ~({"W", "COW"} \subseteq g[p][va].flags)

\* SoleOwner in these terms.
LEMMA SoleOwnerIs == SoleOwner <=> Sole(RefMap, ShareSet) /\ NotBoth(pgtbl)
<1>1. \A s \in Slots : PageAt(s) = RefMap[s] /\ (MayShare(s) <=> s \in ShareSet)
  BY DEF PageAt, RefMap, MapOf, MayShare, ShareSet, ShareOf, At
<1> QED
  BY <1>1 DEF SoleOwner, Sole, NotBoth

\* No page moves.
LEMMA SoleSame ==
  ASSUME NEW f, NEW S, Sole(f, S), NEW S2, S \subseteq S2
  PROVE  Sole(f, S2)
BY DEF Sole

\* Slot s gives up its page.
LEMMA SoleDrop ==
  ASSUME NEW f, NEW S, Sole(f, S), NEW s \in Slots, NEW g,
         SetSlot(g, f, s, NoPage), NEW S2, S \ {s} \subseteq S2
  PROVE  Sole(g, S2)
BY DEF Sole, SetSlot

\* Slot s receives a page that nothing else holds.
LEMMA SoleAlloc ==
  ASSUME NEW f, NEW S, Sole(f, S), NEW s \in Slots, NEW pa, Holders(f, pa) = {},
         NEW g, SetSlot(g, f, s, pa), NEW S2, S \subseteq S2
  PROVE  Sole(g, S2)
<1>1. \A r \in Slots : f[r] # pa
  BY DEF Holders
<1> QED
  BY <1>1 DEF Sole, SetSlot

\* Slot s receives the page of slot t, and both may now have company.
LEMMA SoleShare ==
  ASSUME NEW f, NEW S, Sole(f, S), NEW t \in Slots, NEW s \in Slots,
         NEW g, SetSlot(g, f, s, f[t]), NEW S2, S \cup {s, t} \subseteq S2
  PROVE  Sole(g, S2)
BY DEF Sole, SetSlot

\* Slots s and t exchange their pages; t was the only holder of its page.
LEMMA SoleSwap ==
  ASSUME NEW f, NEW S, Sole(f, S), NEW s \in Slots, NEW t \in Slots, s # t, t \notin S,
         NEW g, g[s] = f[t], g[t] = f[s], \A r \in Slots \ {s, t} : g[r] = f[r],
         NEW S2, S \ {s} \subseteq S2, f[s] # NoPage => t \in S2
  PROVE  Sole(g, S2)
<1>1. SUFFICES ASSUME NEW a \in Slots, NEW b \in Slots, g[a] = g[b], g[a] # NoPage,
                      a # b
               PROVE  a \in S2
  BY DEF Sole
<1>2. \A r \in Slots : f[r] = f[t] /\ f[t] # NoPage => r = t
  BY DEF Sole
<1>3. CASE a = s
  BY <1>1, <1>2, <1>3
<1>4. CASE a = t
  BY <1>1, <1>4
<1>5. CASE a \notin {s, t}
  <2>1. g[a] = f[a]
    BY <1>5
  <2>2. CASE b = s
    BY <1>1, <1>2, <1>5, <2>1, <2>2
  <2>3. CASE b = t
    <3>1. f[a] = f[s] /\ f[a] # NoPage /\ a # s
      BY <1>1, <1>5, <2>1, <2>3
    <3> QED
      BY <1>5, <3>1 DEF Sole
  <2>4. CASE b \notin {s, t}
    <3>1. f[a] = f[b] /\ f[a] # NoPage /\ a # b
      BY <1>1, <2>1, <2>4
    <3> QED
      BY <1>5, <3>1 DEF Sole
  <2> QED
    BY <2>2, <2>3, <2>4
<1> QED
  BY <1>3, <1>4, <1>5

\* Which slots may have company, slot by slot.
LEMMA ShareAt ==
  ASSUME NEW g, NEW h, NEW p \in Procs
  PROVE  /\ <<p, NVA>> \in ShareOf(g, h) <=> h[p].pc = "cow_free"
         /\ \A va \in VAs : <<p, va>> \in ShareOf(g, h) <=> "COW" \in g[p][va].flags
<1>1. <<p, NVA>> \in Slots /\ ~(NVA < NVA)
  BY ConstAssumption DEF Slots
<1>2. \A va \in VAs : <<p, va>> \in Slots /\ va < NVA
  BY ConstAssumption DEF Slots, VAs
<1> QED
  BY <1>1, <1>2 DEF ShareOf

\* A slot whose flags, or whose thread, did not lose the mark.
LEMMA ShareKeeps ==
  ASSUME NEW g, NEW h, NEW g2, NEW h2, NEW X,
         \A p \in Procs, va \in VAs :
           <<p, va>> \notin X /\ "COW" \in g[p][va].flags => "COW" \in g2[p][va].flags,
         \A p \in Procs :
           <<p, NVA>> \notin X /\ h[p].pc = "cow_free" => h2[p].pc = "cow_free"
  PROVE  ShareOf(g, h) \ X \subseteq ShareOf(g2, h2)
<1> SUFFICES ASSUME NEW s \in ShareOf(g, h), s \notin X
             PROVE  s \in ShareOf(g2, h2)
  OBVIOUS
<1>1. s \in Slots /\ s = <<s[1], s[2]>> /\ s[1] \in Procs /\ s[2] \in 0 .. NVA
  BY SlotPair DEF ShareOf
<1>2. CASE s[2] < NVA
  <2>1. s[2] \in VAs /\ "COW" \in g[s[1]][s[2]].flags
    BY <1>1, <1>2, ConstAssumption DEF VAs, ShareOf
  <2>2. "COW" \in g2[s[1]][s[2]].flags
    BY <1>1, <2>1
  <2> QED
    BY <1>1, <1>2, <2>2 DEF ShareOf
<1>3. CASE ~(s[2] < NVA)
  <2>1. s[2] = NVA
    BY <1>1, <1>3, ConstAssumption
  <2>2. h[s[1]].pc = "cow_free"
    BY <1>3 DEF ShareOf
  <2>3. h2[s[1]].pc = "cow_free"
    BY <1>1, <2>1, <2>2
  <2> QED
    BY <1>1, <1>3, <2>3 DEF ShareOf
<1> QED
  BY <1>2, <1>3

SoleState == Sole(RefMap, ShareSet) /\ NotBoth(pgtbl)

\* Steps that move no page and set or clear no mark.
LEMMA SoleQuiet ==
  ASSUME SoleState, pgtbl' = pgtbl, \A r \in Procs : th'[r].pa = th[r].pa,
         \A r \in Procs : th[r].pc = "cow_free" => th'[r].pc = "cow_free"
  PROVE  SoleState'
<1>1. RefMap' = RefMap
  BY SlotsSame DEF RefMap
<1>2. ShareSet \ {} \subseteq ShareSet'
  BY ShareKeeps DEF ShareSet
<1> QED
  BY <1>1, <1>2, SoleSame DEF SoleState, NotBoth

\* kalloc() for the local variable of p.
LEMMA SoleKalloc ==
  ASSUME IInv, IInv', SoleState, NEW p \in Procs, NEW pa \in freelist,
         pgtbl' = pgtbl, th[p].pa = NoPage, th'[p].pa = pa,
         \A r \in Procs \ {p} : th'[r] = th[r]
  PROVE  SoleState'
<1>1. /\ pgtbl \in Tables /\ th' \in Threads /\ ThreadOK(p)
      /\ Holders(RefMap, pa) = {}
  BY DEF IInv, TypeOK, Tables, Threads, ThreadsOK, Counted
<1>2. SetSlot(RefMap', RefMap, <<p, NVA>>, pa)
  BY <1>1, SlotLocal DEF RefMap
<1>3. <<p, NVA>> \in Slots
  BY MapOfAt
<1>4. ShareSet \ {} \subseteq ShareSet'
  <2>1. th[p].pc # "cow_free"
    BY <1>1 DEF ThreadOK
  <2> QED
    BY <2>1, ShareKeeps DEF ShareSet
<1>5. Sole(RefMap', ShareSet')
  BY <1>1, <1>2, <1>3, <1>4, SoleAlloc DEF SoleState
<1> QED
  BY <1>5 DEF SoleState, NotBoth

\* The local variable of p gives up its page.
LEMMA SoleLocal ==
  ASSUME IInv, IInv', SoleState, NEW p \in Procs, pgtbl' = pgtbl, th'[p].pa = NoPage,
         \A r \in Procs \ {p} : th'[r] = th[r]
  PROVE  SoleState'
<1>1. pgtbl \in Tables /\ th' \in Threads
  BY DEF IInv, TypeOK, Tables, Threads
<1>2. SetSlot(RefMap', RefMap, <<p, NVA>>, NoPage)
  BY <1>1, SlotLocal DEF RefMap
<1>3. <<p, NVA>> \in Slots
  BY MapOfAt
<1>4. ShareSet \ {<<p, NVA>>} \subseteq ShareSet'
  BY ShareKeeps DEF ShareSet
<1>5. Sole(RefMap', ShareSet')
  BY <1>2, <1>3, <1>4, SoleDrop DEF SoleState
<1> QED
  BY <1>5 DEF SoleState, NotBoth

\* The page in the local variable of p, which is its only holder, moves to
\* PTE i, which is not marked; the page of that PTE becomes local.
LEMMA SoleExchange ==
  ASSUME IInv, IInv', SoleState, NEW p \in Procs, NEW i \in VAs,
         th[p].pc # "cow_free",
         pgtbl'[p][i].pa = th[p].pa, th'[p].pa = pgtbl[p][i].pa,
         pgtbl[p][i].pa # NoPage => th'[p].pc = "cow_free",
         "COW" \notin pgtbl'[p][i].flags,
         \A q \in Procs, va \in VAs : q # p \/ va # i => pgtbl'[q][va] = pgtbl[q][va],
         \A r \in Procs \ {p} : th'[r] = th[r]
  PROVE  SoleState'
<1>1. /\ pgtbl \in Tables /\ th \in Threads /\ pgtbl' \in Tables /\ th' \in Threads
      /\ NVA \in Nat
  BY ConstAssumption DEF IInv, TypeOK, Tables, Threads
<1> DEFINE s == <<p, i>>
           t == <<p, NVA>>
<1>2. /\ s \in Slots /\ t \in Slots /\ s # t
      /\ RefMap[s] = pgtbl[p][i].pa /\ RefMap[t] = th[p].pa
  BY <1>1, MapOfAt DEF RefMap, VAs
<1>3. RefMap'[s] = pgtbl'[p][i].pa /\ RefMap'[t] = th'[p].pa
  <2>1. /\ MapOf(pgtbl', th')[s] = pgtbl'[p][i].pa
        /\ MapOf(pgtbl', th')[t] = th'[p].pa
    BY MapOfAt
  <2> QED
    BY <2>1 DEF RefMap
<1>4. \A r \in Slots \ {s, t} : RefMap'[r] = RefMap[r]
  BY <1>1, SlotBoth DEF RefMap
<1>5. t \notin ShareSet
  BY ShareAt DEF ShareSet
<1>6. RefMap[s] # NoPage => t \in ShareSet'
  <2>1. t \in ShareOf(pgtbl', th') <=> th'[p].pc = "cow_free"
    BY ShareAt
  <2> QED
    BY <1>2, <2>1 DEF ShareSet
<1>7. ShareSet \ {s} \subseteq ShareSet'
  <2>1. \A r \in Procs, va \in VAs :
          /\ <<r, va>> \notin {s} /\ "COW" \in pgtbl[r][va].flags
          => "COW" \in pgtbl'[r][va].flags
    OBVIOUS
  <2>2. \A r \in Procs : th[r].pc = "cow_free" => th'[r].pc = "cow_free"
    OBVIOUS
  <2> HIDE DEF s, t
  <2> QED
    BY <2>1, <2>2, ShareKeeps DEF ShareSet
<1>8. RefMap'[s] = RefMap[t] /\ RefMap'[t] = RefMap[s]
  BY <1>2, <1>3
<1> HIDE DEF s, t
<1>9. Sole(RefMap', ShareSet')
  BY <1>2, <1>4, <1>5, <1>6, <1>7, <1>8, SoleSwap DEF SoleState
<1>10. NotBoth(pgtbl)'
  BY DEF SoleState, NotBoth
<1> QED
  BY <1>9, <1>10 DEF SoleState

\* One iteration of uvmcopy(): both PTEs are marked COW and lose PTE_W.
LEMMA SoleUvmcopy ==
  ASSUME IInv, IInv', SoleState, NEW p \in Procs, UvmcopyPage(p)
  PROVE  SoleState'
<1> DEFINE i == th[p].i
           np == th[p].tgt
           pa == pgtbl[p][i].pa
           pte == SharedPte(pgtbl[p][i])
<1>0. Shapes /\ Shapes' /\ pgtbl \in Tables /\ th \in Threads /\ th[p] \in Thread
  <2>1. Shapes
    BY IInvSplit
  <2>2. Shapes'
    BY IInvSplit DEF IInv, Shapes, TypeOK, Tables, Threads
  <2> QED
    BY <2>1, <2>2 DEF Shapes, Threads
<1>1. /\ i \in VAs /\ np \in Procs /\ np # p /\ pgtbl[p][i] \in Pte
      /\ <<p, i>> \in Slots /\ RefMap[<<p, i>>] = pa /\ <<np, i>> \in Slots
  BY <1>0, UvmcopySlots
<1>2. "COW" \in pte.flags /\ "W" \notin pte.flags
  BY <1>1 DEF SharedPte, Pte
<1>3. th[p].pc = "uvmcopy" /\ \A r \in Procs \ {p} : th'[r] = th[r]
  BY <1>0 DEF UvmcopyPage, At, Threads
<1>4. CASE pgtbl' = [pgtbl EXCEPT ![p][i] = pte]
  <2>1. RefMap' = RefMap
    BY <1>0, <1>4, UvmcopySlots
  <2>2. \A q \in Procs, va \in VAs : pgtbl'[q][va] \in {pgtbl[q][va], pte}
    <3> HIDE DEF pte, i
    <3> QED
      BY <1>0, <1>1, <1>4 DEF Tables
  <2>3. ShareSet \ {} \subseteq ShareSet'
    <3> HIDE DEF pte
    <3>1. \A q \in Procs, va \in VAs :
            "COW" \in pgtbl[q][va].flags => "COW" \in pgtbl'[q][va].flags
      BY <1>2, <2>2
    <3> QED
      BY <1>3, <3>1, ShareKeeps DEF ShareSet
  <2>4. NotBoth(pgtbl)'
    <3> HIDE DEF pte
    <3> QED
      BY <1>2, <2>2 DEF SoleState, NotBoth
  <2> QED
    BY <2>1, <2>3, <2>4, SoleSame DEF SoleState
<1>5. CASE pgtbl' = [pgtbl EXCEPT ![p][i] = pte, ![np][i] = pte]
  <2>1. SetSlot(RefMap', RefMap, <<np, i>>, pa)
    BY <1>0, <1>5, UvmcopySlots
  <2>2. /\ \A q \in Procs, va \in VAs : pgtbl'[q][va] \in {pgtbl[q][va], pte}
        /\ pgtbl'[p][i] = pte /\ pgtbl'[np][i] = pte
    <3> HIDE DEF pte, i, np
    <3> QED
      BY <1>0, <1>1, <1>5 DEF Tables
  <2>3. ShareSet \ {} \subseteq ShareSet'
    <3> HIDE DEF pte
    <3>1. \A q \in Procs, va \in VAs :
            "COW" \in pgtbl[q][va].flags => "COW" \in pgtbl'[q][va].flags
      BY <1>2, <2>2
    <3> QED
      BY <1>3, <3>1, ShareKeeps DEF ShareSet
  <2>4. <<p, i>> \in ShareSet' /\ <<np, i>> \in ShareSet'
    <3> HIDE DEF pte, i, np
    <3>1. <<p, i>> \in ShareOf(pgtbl', th') /\ <<np, i>> \in ShareOf(pgtbl', th')
      BY <1>1, <1>2, <2>2, ShareAt
    <3> QED
      BY <3>1 DEF ShareSet
  <2>5. NotBoth(pgtbl)'
    <3> HIDE DEF pte
    <3> QED
      BY <1>2, <2>2 DEF SoleState, NotBoth
  <2> HIDE DEF pte, i, np, pa
  <2>6. Sole(RefMap', ShareSet')
    BY <1>1, <2>1, <2>3, <2>4, SoleShare DEF SoleState
  <2> QED
    BY <2>5, <2>6 DEF SoleState
<1> QED
  BY <1>4, <1>5 DEF UvmcopyPage

\* uvmunmap() clears a PTE.
LEMMA SoleUvmunmap ==
  ASSUME IInv, IInv', SoleState, NEW p \in Procs, UvmunmapPage(p)
  PROVE  SoleState'
<1> DEFINE i == th[p].i
           q == th[p].tgt
<1>1. /\ th \in Threads /\ th[p] \in Thread /\ pgtbl \in Tables
      /\ th' \in Threads /\ pgtbl' \in Tables
  BY DEF IInv, TypeOK, Threads, Tables
<1>2. i \in VAs /\ q \in Procs
  BY <1>1, ConstAssumption DEF UvmunmapPage, Thread, VAs
<1>3. /\ pgtbl'[q][i] = NoPte
      /\ \A r \in Procs, a \in VAs : r # q \/ a # i => pgtbl'[r][a] = pgtbl[r][a]
  BY <1>1, <1>2 DEF UvmunmapPage, Tables
<1>4. /\ \A r \in Procs : th'[r].pa = th[r].pa
      /\ \A r \in Procs : th'[r].pc = th[r].pc
  BY <1>1 DEF UvmunmapPage, Threads, Thread
<1> HIDE DEF i, q
<1>5. SetSlot(RefMap', RefMap, <<q, i>>, NoPage)
  BY <1>1, <1>2, <1>3, <1>4, SlotPte DEF RefMap, NoPte
<1>6. <<q, i>> \in Slots
  BY <1>2, MapOfAt
<1>7. ShareSet \ {<<q, i>>} \subseteq ShareSet'
  <2>1. \A r \in Procs, va \in VAs :
          /\ <<r, va>> \notin {<<q, i>>} /\ "COW" \in pgtbl[r][va].flags
          => "COW" \in pgtbl'[r][va].flags
    BY <1>3
  <2> QED
    BY <1>4, <2>1, ShareKeeps DEF ShareSet
<1>8. Sole(RefMap', ShareSet')
  BY <1>5, <1>6, <1>7, SoleDrop DEF SoleState
<1>9. NotBoth(pgtbl)'
  <2>1. \A r \in Procs, a \in VAs : pgtbl'[r][a] \in {pgtbl[r][a], NoPte}
    BY <1>2, <1>3
  <2> QED
    BY <2>1 DEF SoleState, NotBoth, NoPte
<1> QED
  BY <1>8, <1>9 DEF SoleState

\* Every step leaves a page that is not marked with one owner.
LEMMA StepSole ==
  ASSUME IInv, IInv', SoleState, NEW p \in Procs, ProcStep(p)
  PROVE  SoleState'
<1>1. /\ th \in Threads /\ th[p] \in Thread /\ ThreadOK(p)
      /\ pgtbl \in Tables /\ pgtbl' \in Tables /\ th' \in Threads
      /\ Shapes /\ ThreadsOK /\ NVA \in Nat
  BY ConstAssumption DEF IInv, TypeOK, Shapes, Threads, Tables, ThreadsOK
<1>2. \A r \in Procs \ {p} : th'[r] = th[r]
  BY StepFrame DEF Frame
<1>3. CASE \/ \E va \in VAs : StoreFault(p, va)
           \/ \E va \in VAs, v \in Values : Store(p, va, v) \/ copyout(p, va, v)
           \/ \E q \in Procs : Fork(p, q) \/ Wait(p, q)
           \/ \E n \in 1 .. NVA : Grow(p, n) \/ Shrink(p, n)
           \/ Exit(p) \/ CopyoutWrite(p) \/ ForkDone(p) \/ GrowDone(p)
           \/ UvmunmapDone(p)
  <2>1. pgtbl' = pgtbl /\ \A r \in Procs : th'[r].pa = th[r].pa
    BY <1>1, <1>3, QuietSlots
  <2>2. th[p].pc # "cow_free"
    BY <1>3
    DEF StoreFault, Store, copyout, Fork, Wait, Grow, Shrink, Exit, CopyoutWrite,
        ForkDone, GrowDone, UvmunmapDone, At, InUser
  <2> QED
    BY <1>2, <2>1, <2>2, SoleQuiet
<1>4. CASE CowAlloc(p) \/ UvmallocPage(p)
  <2>1. /\ th[p].pa = NoPage /\ pgtbl' = pgtbl /\ th[p].pc # "cow_free"
        /\ Idle(p).pa = NoPage
    BY <1>1, <1>4 DEF CowAlloc, UvmallocPage, At, ThreadOK, Idle
  <2>2. (\E pa \in freelist : th'[p].pa = pa) \/ th'[p].pa = NoPage
    <3>1. CASE CowAlloc(p)
      <4> DEFINE t(pa) == [th[p] EXCEPT !.pc = "cow_copy", !.pa = pa]
                 o == [Idle(p) EXCEPT !.pc = "usertrap_return"]
      <4>1. (\E pa \in freelist : th'[p] = t(pa)) \/ th'[p] \in {o, Idle(p)}
        BY <1>1, <3>1 DEF CowAlloc, Threads
      <4>2. (\A pa : t(pa).pa = pa) /\ o.pa = NoPage
        BY <1>1 DEF Thread, Idle
      <4> HIDE DEF t, o
      <4> QED
        BY <2>1, <4>1, <4>2
    <3>2. CASE UvmallocPage(p)
      <4> DEFINE t(pa) == [th[p] EXCEPT !.pc = "uvmalloc_map", !.pa = pa]
                 o == GrowUndo(th[p], sz[p])
      <4>1. (\E pa \in freelist : th'[p] = t(pa)) \/ th'[p] = o
        BY <1>1, <3>2 DEF UvmallocPage, Threads
      <4>2. (\A pa : t(pa).pa = pa) /\ o.pa = NoPage
        BY <1>1 DEF Thread, GrowUndo
      <4> HIDE DEF t, o
      <4> QED
        BY <4>1, <4>2
    <3> QED
      BY <1>4, <3>1, <3>2
  <2>3. CASE \E pa \in freelist : th'[p].pa = pa
    BY <1>2, <2>1, <2>3, SoleKalloc
  <2>4. CASE th'[p].pa = NoPage
    BY <1>2, <2>1, <2>4, SoleQuiet
  <2> QED
    BY <2>2, <2>3, <2>4
<1>5. CASE CowCopy(p)
  <2> DEFINE va == th[p].va
             new == [pa |-> th[p].pa,
                     flags |-> (pgtbl[p][va].flags \cup {"W"}) \ {"COW"}]
  <2>1. va \in VAs /\ th[p].pc = "cow_copy"
    BY <1>1, <1>5 DEF CowCopy, At, ThreadOK, Thread, VAs
  <2>2. /\ pgtbl'[p][va] = new
        /\ \A q \in Procs, a \in VAs : q # p \/ a # va => pgtbl'[q][a] = pgtbl[q][a]
    <3>1. pgtbl' = [pgtbl EXCEPT ![p][va] = new]
      BY <1>5 DEF CowCopy
    <3> HIDE DEF va, new
    <3> QED
      BY <1>1, <2>1, <3>1 DEF Tables
  <2>3. th'[p].pa = pgtbl[p][va].pa /\ th'[p].pc = "cow_free"
    BY <1>1, <1>5 DEF CowCopy, Threads, Thread
  <2>4. new.pa = th[p].pa /\ "COW" \notin new.flags
    OBVIOUS
  <2> HIDE DEF va, new
  <2> QED
    BY <1>2, <2>1, <2>2, <2>3, <2>4, SoleExchange
<1>6. CASE CowFree(p)
  <2>1. th'[p].pa = NoPage /\ pgtbl' = pgtbl
    BY <1>1, <1>6 DEF CowFree, Threads, Thread, Idle
  <2> QED
    BY <1>2, <2>1, SoleLocal
<1>7. CASE UvmallocMap(p)
  <2> DEFINE i == th[p].i
             new == [pa |-> th[p].pa, flags |-> {"U", "W"}]
             t == [th[p] EXCEPT !.pc = "uvmalloc", !.i = i + 1, !.pa = NoPage]
             u == GrowUndo(th[p], sz[p])
  <2>1. /\ i \in VAs /\ pgtbl[p][i].pa = NoPage /\ th[p].pc = "uvmalloc_map"
        /\ t.pa = NoPage /\ u.pa = NoPage /\ new.pa = th[p].pa
        /\ "COW" \notin new.flags
    BY <1>1, <1>7 DEF UvmallocMap, At, ThreadOK, Thread, VAs, Valid, GrowUndo
  <2>2. \/ pgtbl' = [pgtbl EXCEPT ![p][i] = new] /\ th' = [th EXCEPT ![p] = t]
        \/ pgtbl' = pgtbl /\ th' = [th EXCEPT ![p] = u]
    BY <1>7 DEF UvmallocMap
  <2> HIDE DEF i, new, t, u
  <2>3. CASE pgtbl' = [pgtbl EXCEPT ![p][i] = new] /\ th' = [th EXCEPT ![p] = t]
    <3>1. /\ pgtbl'[p][i] = new
          /\ \A q \in Procs, a \in VAs : q # p \/ a # i => pgtbl'[q][a] = pgtbl[q][a]
      BY <1>1, <2>1, <2>3 DEF Tables
    <3>2. th'[p].pa = NoPage
      BY <1>1, <2>1, <2>3 DEF Threads
    <3> QED
      BY <1>2, <2>1, <3>1, <3>2, SoleExchange
  <2>4. CASE pgtbl' = pgtbl /\ th' = [th EXCEPT ![p] = u]
    <3>1. th'[p].pa = NoPage
      BY <1>1, <2>1, <2>4 DEF Threads
    <3> QED
      BY <1>2, <2>4, <3>1, SoleLocal
  <2> QED
    BY <2>2, <2>3, <2>4
<1> QED
  BY <1>3, <1>4, <1>5, <1>6, <1>7, SoleUvmcopy, SoleUvmunmap DEF ProcStep, KernelStep

-----------------------------------------------------------------------------
(* The theorems about CowVm alone.                                         *)

\* Right after boot only init has pages, each of them once and none marked.
LEMMA InitMem ==
  ASSUME Init
  PROVE  MemOK /\ SoleState
<1>1. PICK image \in [DOMAIN InitFlags -> Pages] :
        /\ \A i, j \in DOMAIN InitFlags : image[i] = image[j] => i = j
        /\ pgtbl = [p \in Procs |-> [va \in VAs |->
                      IF p = initproc /\ va < InitSz
                      THEN [pa |-> image[va], flags |-> InitFlags[va]]
                      ELSE NoPte]]
        /\ sz = [p \in Procs |-> IF p = initproc THEN InitSz ELSE 0]
        /\ state = [p \in Procs |-> IF p = initproc THEN "LIVE" ELSE "UNUSED"]
        /\ th = [p \in Procs |-> Idle(p)]
  BY DEF Init
<1>2. /\ InitSz \in Nat /\ NVA \in Nat /\ DOMAIN InitFlags = 0 .. InitSz - 1
      /\ \A va \in 0 .. InitSz - 1 : InitFlags[va] \subseteq {"U", "W"}
  <2>1. InitFlags \in [0 .. InitSz - 1 -> SUBSET {"U", "W"}] /\ InitSz \in 0 .. NVA
    BY ConstAssumption
  <2> HIDE DEF InitSz
  <2> QED
    BY <2>1, ConstAssumption
<1> HIDE DEF InitSz
<1>3. /\ \A p \in Procs : Idle(p).pc = "user" /\ Idle(p).pa = NoPage
      /\ NoPte.pa = NoPage /\ NoPte.flags = {}
  BY DEF Idle, NoPte
<1>4. \A p \in Procs, va \in VAs :
        /\ p = initproc /\ va < InitSz =>
             /\ va \in DOMAIN InitFlags /\ pgtbl[p][va].pa = image[va]
             /\ image[va] \in Pages /\ pgtbl[p][va].flags \subseteq {"U", "W"}
        /\ ~(p = initproc /\ va < InitSz) =>
             pgtbl[p][va].pa = NoPage /\ pgtbl[p][va].flags = {}
  BY <1>1, <1>2, <1>3 DEF VAs
<1>5. \A p \in Procs : th[p].pc = "user" /\ th[p].pa = NoPage
  BY <1>1, <1>3
<1>6. MemOK
  <2>1. ASSUME NEW p \in Procs PROVE Work(p)
    BY <1>5 DEF Work, WorkOK
  <2>2. ASSUME NEW p \in Procs PROVE MappedOnly(pgtbl[p], sz[p], 0, 0)
    <3>1. sz[p] = IF p = initproc THEN InitSz ELSE 0
      BY <1>1
    <3>2. \A va \in VAs : va \in Nat /\ ~(va < 0)
      BY <1>2 DEF VAs
    <3> QED
      BY <1>4, <3>1, <3>2, ConstAssumption DEF MappedOnly, Valid
  <2>3. ASSUME NEW p \in Procs PROVE TableOK(p)
    <3>1. state[p] = "UNUSED" => sz[p] = 0
      BY <1>1
    <3> QED
      BY <2>2, <3>1 DEF TableOK
  <2> QED
    BY <2>1, <2>3 DEF MemOK
<1>7. Sole(RefMap, ShareSet)
  <2>1. ASSUME NEW s \in Slots, RefMap[s] # NoPage
        PROVE  s = <<initproc, s[2]>> /\ s[2] \in DOMAIN InitFlags /\ RefMap[s] = image[s[2]]
    <3>1. s = <<s[1], s[2]>> /\ s[1] \in Procs /\ s[2] \in 0 .. NVA
      BY SlotPair
    <3>2. CASE s[2] < NVA
      <4>1. s[2] \in VAs /\ RefMap[s] = pgtbl[s[1]][s[2]].pa
        BY <1>2, <3>1, <3>2 DEF RefMap, MapOf, VAs
      <4> QED
        BY <1>4, <2>1, <3>1, <4>1
    <3>3. CASE ~(s[2] < NVA)
      BY <1>5, <2>1, <3>1, <3>3 DEF RefMap, MapOf
    <3> QED
      BY <3>2, <3>3
  <2> QED
    BY <1>1, <2>1 DEF Sole
<1>8. NotBoth(pgtbl)
  BY <1>4 DEF NotBoth
<1> QED
  BY <1>6, <1>7, <1>8 DEF SoleState

\* What is added to the invariant of CowVmProofs.
MInv == IInv /\ MemOK /\ SoleState

\* The stronger invariant of CowVm: besides the counts, which pages are mapped
\* at every place of a system call, and who shares them.
THEOREM MemInvariance == Spec => []MInv
<1>1. Init => MemOK /\ SoleState
  BY InitMem
<1>2. IInv /\ IInv' /\ MemOK /\ SoleState /\ [Next]_vars => MemOK' /\ SoleState'
  <2> SUFFICES ASSUME IInv, IInv', MemOK, SoleState, [Next]_vars
               PROVE  MemOK' /\ SoleState'
    OBVIOUS
  <2>1. CASE Next
    <3>1. PICK p \in Procs : ProcStep(p)
      BY <2>1 DEF Next, ProcStep
    <3> QED
      BY <3>1, StepMem, StepSole
  <2>2. CASE UNCHANGED vars
    <3>1. MemOK'
      BY <2>2 DEF vars, MemOK, Work, TableOK, At
    <3>2. SoleState'
      BY <2>2 DEF vars, SoleState, RefMap, ShareSet
    <3> QED
      BY <3>1, <3>2
  <2> QED
    BY <2>1, <2>2
<1> QED
  BY <1>1, <1>2, Invariance, PTL DEF Spec, MInv

\* What one process can write no other process can see: a page reached through a
\* PTE without PTE_COW, or fresh from kalloc(), has one reference, and uvmcopy()
\* and cow_page_fault() leave no page both writable and COW.
THEOREM OneOwner == Spec => []SoleOwner
<1>1. MInv => SoleOwner
  BY SoleOwnerIs DEF MInv, SoleState
<1> QED
  BY <1>1, MemInvariance, PTL

\* No panic of vm.c is reached: uvmcopy: page not present, mappages: remap,
\* uvmunmap: not mapped, freewalk: leaf.
THEOREM NoVmPanic == Spec => []NoPanic
<1>1. MInv => NoPanic
  <2> SUFFICES ASSUME IInv, MemOK, NEW p \in Procs
               PROVE  LET t == th[p] IN
                      /\ At(p, "uvmcopy") /\ t.i < sz[p] =>
                           Valid(pgtbl[p][t.i]) /\ ~Valid(pgtbl[t.tgt][t.i])
                      /\ At(p, "uvmalloc_map") => ~Valid(pgtbl[p][t.i])
                      /\ At(p, "uvmunmap") /\ t.i < t.hi => Valid(pgtbl[t.tgt][t.i])
                      /\ At(p, "uvmunmap") /\ t.i = t.hi /\ t.ret \in {"fork", "freeproc"}
                           => \A va \in VAs : ~Valid(pgtbl[t.tgt][va])
    BY DEF MInv, NoPanic
  <2> DEFINE t == th[p]
  <2>1. /\ t \in Thread /\ t.i \in 0 .. NVA /\ t.hi \in 0 .. NVA /\ sz[p] \in 0 .. NVA
        /\ NVA \in Nat /\ Work(p) /\ TableOK(p) /\ ThreadOK(p)
    BY ConstAssumption DEF IInv, TypeOK, Thread, MemOK, ThreadsOK
  <2>2. \A n \in 0 .. NVA : n < NVA => n \in VAs
    BY <2>1 DEF VAs
  <2>3. ASSUME At(p, "uvmcopy"), t.i < sz[p]
        PROVE  Valid(pgtbl[p][t.i]) /\ ~Valid(pgtbl[t.tgt][t.i])
    <3>1. t.i \in VAs /\ state[p] = "LIVE" /\ ~Resizing(t)
      BY <2>1, <2>2, <2>3 DEF At, ThreadOK, Resizing
    <3>2. Valid(pgtbl[p][t.i])
      BY <2>1, <2>3, <3>1 DEF TableOK, MappedOnly
    <3>3. ~Valid(pgtbl[t.tgt][t.i])
      <4>1. MappedOnly(pgtbl[t.tgt], t.i, 0, 0)
        BY <2>1, <2>3 DEF At, Work, WorkOK
      <4>2. ~(t.i < t.i) /\ ~(0 <= t.i /\ t.i < 0)
        BY <2>1
      <4> QED
        BY <3>1, <4>1, <4>2 DEF MappedOnly
    <3> QED
      BY <3>2, <3>3
  <2>4. ASSUME At(p, "uvmalloc_map")
        PROVE  ~Valid(pgtbl[p][t.i])
    <3>1. MappedOnly(pgtbl[p], t.i, 0, 0) /\ t.i < t.hi
      BY <2>1, <2>4 DEF At, Work, WorkOK
    <3>2. t.i \in VAs /\ ~(t.i < t.i) /\ ~(0 <= t.i /\ t.i < 0)
      BY <2>1, <2>2, <3>1
    <3> QED
      BY <3>1, <3>2 DEF MappedOnly
  <2>5. ASSUME At(p, "uvmunmap")
        PROVE  /\ t.i < t.hi => Valid(pgtbl[t.tgt][t.i])
               /\ t.i = t.hi /\ t.ret \in {"fork", "freeproc"} =>
                    \A va \in VAs : ~Valid(pgtbl[t.tgt][va])
    <3>1. PICK base : /\ MappedOnly(pgtbl[t.tgt], base, t.i, t.hi)
                      /\ t.ret \in {"fork", "freeproc"} => base = 0
      BY <2>1, <2>5 DEF At, Work, WorkOK
    <3>2. ASSUME t.i < t.hi PROVE Valid(pgtbl[t.tgt][t.i])
      <4>1. t.i \in VAs /\ t.i <= t.i
        BY <2>1, <2>2, <3>2
      <4> QED
        BY <3>1, <3>2, <4>1 DEF MappedOnly
    <3>3. ASSUME t.i = t.hi, t.ret \in {"fork", "freeproc"}, NEW va \in VAs
          PROVE  ~Valid(pgtbl[t.tgt][va])
      <4>1. ~(va < 0) /\ ~(t.i <= va /\ va < t.hi)
        BY <2>1, <3>3 DEF VAs
      <4> QED
        BY <3>1, <3>3, <4>1 DEF MappedOnly
    <3> QED
      BY <3>2, <3>3
  <2> QED
    BY <2>3, <2>4, <2>5
<1> QED
  BY <1>1, MemInvariance, PTL

-----------------------------------------------------------------------------
(* CowVm implements PrivateMemory.                                         *)

\* What p reads at va, and the two variables of PrivateMemory.
See(p, va) ==
  IF state[p] = "LIVE" /\ Valid(pgtbl[p][va]) THEN mem[pgtbl[p][va].pa] ELSE NoPage
View == [p \in Procs |-> [va \in VAs |-> See(p, va)]]
LiveSet == {p \in Procs : state[p] = "LIVE"}

\* A step of PrivateMemory in these terms: a stutter, exit(), fork(), or a
\* change of one place by a store or by sbrk().
Abstracted ==
  \/ View' = View /\ LiveSet' = LiveSet
  \/ \E p \in Procs :
       /\ p \in LiveSet /\ LiveSet' = LiveSet \ {p}
       /\ View' = [View EXCEPT ![p] = [va \in VAs |-> NoPage]]
  \/ \E p, q \in Procs :
       /\ p \in LiveSet /\ q \notin LiveSet /\ LiveSet' = LiveSet \cup {q}
       /\ View' = [View EXCEPT ![q] = View[p]]
  \/ \E p \in LiveSet, va \in VAs :
       /\ LiveSet' = LiveSet
       /\ \/ /\ View[p][va] # NoPage
             /\ \E v \in Values : View' = [View EXCEPT ![p][va] = v]
          \/ View[p][va] = NoPage /\ View' = [View EXCEPT ![p][va] = Zero]
          \/ View' = [View EXCEPT ![p][va] = NoPage]

\* Such a step is a step of PrivateMemory.
LEMMA AbstractStep ==
  ASSUME Abstracted
  PROVE  [PM!Next]_(PM!vars)
<1>1. CASE View' = View /\ LiveSet' = LiveSet
  BY <1>1 DEF PM!vars, View, See, LiveSet
<1>2. CASE \E p \in Procs :
              /\ p \in LiveSet /\ LiveSet' = LiveSet \ {p}
              /\ View' = [View EXCEPT ![p] = [va \in VAs |-> NoPage]]
  <2>1. LiveSet' # LiveSet /\ \E p \in Procs : PM!Exit(p)
    BY <1>2 DEF PM!Exit, PM!Empty, View, See, LiveSet
  <2> QED
    BY <2>1 DEF PM!Next, LiveSet
<1>3. CASE \E p, q \in Procs :
              /\ p \in LiveSet /\ q \notin LiveSet /\ LiveSet' = LiveSet \cup {q}
              /\ View' = [View EXCEPT ![q] = View[p]]
  <2>1. LiveSet' # LiveSet /\ \E p, q \in Procs : PM!Fork(p, q)
    BY <1>3 DEF PM!Fork, View, See, LiveSet
  <2> QED
    BY <2>1 DEF PM!Next, LiveSet
<1>4. CASE \E p \in LiveSet, va \in VAs :
              /\ LiveSet' = LiveSet
              /\ \/ /\ View[p][va] # NoPage
                    /\ \E v \in Values : View' = [View EXCEPT ![p][va] = v]
                 \/ View[p][va] = NoPage /\ View' = [View EXCEPT ![p][va] = Zero]
                 \/ View' = [View EXCEPT ![p][va] = NoPage]
  <2>1. LiveSet' = LiveSet /\ \E p \in LiveSet, va \in VAs :
          PM!Write(p, va) \/ PM!Map(p, va) \/ PM!Unmap(p, va)
    <3>1. PICK p \in LiveSet, va \in VAs :
            /\ LiveSet' = LiveSet
            /\ \/ /\ View[p][va] # NoPage
                  /\ \E v \in Values : View' = [View EXCEPT ![p][va] = v]
               \/ View[p][va] = NoPage /\ View' = [View EXCEPT ![p][va] = Zero]
               \/ View' = [View EXCEPT ![p][va] = NoPage]
      BY <1>4
    <3>2. CASE View[p][va] # NoPage /\ \E v \in Values : View' = [View EXCEPT ![p][va] = v]
      <4>1. PM!Write(p, va)
        BY <3>1, <3>2 DEF PM!Write, View, See, LiveSet
      <4> QED
        BY <3>1, <4>1
    <3>3. CASE View[p][va] = NoPage /\ View' = [View EXCEPT ![p][va] = Zero]
      <4>1. PM!Map(p, va)
        BY <3>1, <3>3 DEF PM!Map, View, See, LiveSet
      <4> QED
        BY <3>1, <4>1
    <3>4. CASE View' = [View EXCEPT ![p][va] = NoPage]
      <4>1. PM!Unmap(p, va)
        BY <3>1, <3>4 DEF PM!Unmap, View, See, LiveSet
      <4> QED
        BY <3>1, <4>1
    <3> QED
      BY <3>1, <3>2, <3>3, <3>4
  <2>2. CASE View' = View
    BY <2>1, <2>2 DEF PM!vars, View, See, LiveSet
  <2>3. CASE View' # View
    BY <2>1, <2>3 DEF PM!Next, View, See, LiveSet
  <2> QED
    BY <2>2, <2>3
<1> QED
  BY <1>1, <1>2, <1>3, <1>4 DEF Abstracted

\* View and View' differ in no place.
LEMMA ViewSame ==
  ASSUME \A r \in Procs, a \in VAs : See(r, a)' = See(r, a)
  PROVE  View' = View
BY DEF View

\* View and View' differ in one place.
LEMMA ViewAt ==
  ASSUME NEW p \in Procs, NEW va \in VAs, NEW x, See(p, va)' = x,
         \A r \in Procs, a \in VAs : r # p \/ a # va => See(r, a)' = See(r, a)
  PROVE  View' = [View EXCEPT ![p][va] = x]
<1>1. View \in [Procs -> [VAs -> {See(r, a) : r \in Procs, a \in VAs}]]
  BY DEF View
<1>2. ASSUME NEW r \in Procs, NEW a \in VAs
      PROVE  View'[r][a] = [View EXCEPT ![p][va] = x][r][a]
  BY <1>1, <1>2 DEF View
<1> QED
  BY <1>1, <1>2 DEF View

\* What r reads at a does not change when its PTE still points to the same page
\* and the page has the same content.
LEMMA SeeSame ==
  ASSUME NEW r \in Procs, NEW a \in VAs,
         state'[r] = "LIVE" <=> state[r] = "LIVE",
         state[r] = "LIVE" => pgtbl'[r][a].pa = pgtbl[r][a].pa,
         state[r] = "LIVE" /\ pgtbl[r][a].pa # NoPage =>
           mem'[pgtbl[r][a].pa] = mem[pgtbl[r][a].pa]
  PROVE  See(r, a)' = See(r, a)
BY DEF See, Valid

\* PTE a of process q is one slot.
LEMMA PteSlot ==
  ASSUME NEW g, NEW h
  PROVE  \A q \in Procs, a \in VAs :
           <<q, a>> \in Slots /\ MapOf(g, h)[<<q, a>>] = g[q][a].pa
<1> SUFFICES ASSUME NEW q \in Procs, NEW a \in VAs
             PROVE  <<q, a>> \in Slots /\ MapOf(g, h)[<<q, a>>] = g[q][a].pa
  OBVIOUS
<1>1. <<q, a>> \in Slots /\ <<q, a>>[1] = q /\ <<q, a>>[2] = a /\ a < NVA
  BY ConstAssumption DEF Slots, VAs
<1> QED
  BY <1>1 DEF MapOf

\* A PTE that is not marked COW is the only reference to its page.
LEMMA PteAlone ==
  ASSUME SoleState, NEW p \in Procs, NEW va \in VAs, pgtbl[p][va].pa # NoPage,
         "COW" \notin pgtbl[p][va].flags
  PROVE  \A q \in Procs, a \in VAs :
           q # p \/ a # va => pgtbl[q][a].pa # pgtbl[p][va].pa
<1>1. \A q \in Procs, a \in VAs : <<q, a>> \in Slots /\ RefMap[<<q, a>>] = pgtbl[q][a].pa
  <2>1. RefMap = MapOf(pgtbl, th)
    BY DEF RefMap
  <2> QED
    BY <2>1, PteSlot
<1>2. <<p, va>> \notin ShareSet
  BY ShareAt DEF ShareSet
<1> SUFFICES ASSUME NEW q \in Procs, NEW a \in VAs, q # p \/ a # va,
                    pgtbl[q][a].pa = pgtbl[p][va].pa
             PROVE  FALSE
  OBVIOUS
<1>3. <<p, va>> # <<q, a>>
  OBVIOUS
<1> QED
  BY <1>1, <1>2, <1>3 DEF SoleState, Sole

\* No PTE refers to a page fresh from kalloc().
LEMMA LocalAlone ==
  ASSUME SoleState, NEW p \in Procs, th[p].pa # NoPage, th[p].pc # "cow_free"
  PROVE  \A q \in Procs, a \in VAs : pgtbl[q][a].pa # th[p].pa
<1>1. \A q \in Procs, a \in VAs : <<q, a>> \in Slots /\ RefMap[<<q, a>>] = pgtbl[q][a].pa
  <2>1. RefMap = MapOf(pgtbl, th)
    BY DEF RefMap
  <2> QED
    BY <2>1, PteSlot
<1>2. /\ <<p, NVA>> \notin ShareSet /\ <<p, NVA>> \in Slots
      /\ RefMap[<<p, NVA>>] = th[p].pa
  BY MapOfAt, ShareAt DEF ShareSet, RefMap
<1> SUFFICES ASSUME NEW q \in Procs, NEW a \in VAs, pgtbl[q][a].pa = th[p].pa
             PROVE  FALSE
  OBVIOUS
<1>3. <<p, NVA>> # <<q, a>>
  BY ConstAssumption DEF VAs
<1> QED
  BY <1>1, <1>2, <1>3 DEF SoleState, Sole

\* No PTE refers to a free page.
LEMMA FreeUnseen ==
  ASSUME NEW g, NEW h, NEW fl, NEW cnt, Counted(MapOf(g, h), fl, cnt), NEW pa \in fl
  PROVE  \A q \in Procs, a \in VAs : g[q][a].pa # pa
<1>1. \A s \in Slots : MapOf(g, h)[s] # pa
  BY DEF Counted, Holders
<1> QED
  BY <1>1, PteSlot

\* kalloc() and kfree() write only to pages that no PTE refers to.
LEMMA AllocatorUnseen ==
  ASSUME IInv, IInv', NEW pa \in Pages, kalloc(pa) \/ kfree(pa),
         NEW r \in Procs, NEW a \in VAs, pgtbl'[r][a].pa = pgtbl[r][a].pa
  PROVE  pgtbl[r][a].pa # NoPage => mem'[pgtbl[r][a].pa] = mem[pgtbl[r][a].pa]
<1>1. /\ Counted(MapOf(pgtbl, th), freelist, pte_count)
      /\ Counted(MapOf(pgtbl', th'), freelist', pte_count')
      /\ pgtbl[r][a] \in Pte /\ mem \in [Pages -> Values \cup {Junk}]
  BY DEF IInv, TypeOK, RefMap
<1>2. CASE kalloc(pa)
  <2>1. pgtbl[r][a].pa # pa
    BY <1>1, <1>2, FreeUnseen DEF kalloc
  <2> QED
    BY <1>1, <1>2, <2>1 DEF kalloc
<1>3. CASE kfree(pa)
  <2>1. CASE mem' = mem
    BY <2>1
  <2>2. CASE freelist' = freelist \cup {pa} /\ mem' = [mem EXCEPT ![pa] = Junk]
    <3>1. pa \in freelist'
      BY <2>2
    <3>2. pgtbl'[r][a].pa # pa
      BY <1>1, <3>1, FreeUnseen
    <3> QED
      BY <1>1, <2>2, <3>2
  <2> QED
    BY <1>3, <2>1, <2>2 DEF kfree
<1> QED
  BY <1>2, <1>3

\* A step that no process can see.
LEMMA Unseen ==
  ASSUME \A r \in Procs : state'[r] = "LIVE" <=> state[r] = "LIVE",
         \A r \in Procs, a \in VAs :
           state[r] = "LIVE" =>
             /\ pgtbl'[r][a].pa = pgtbl[r][a].pa
             /\ pgtbl[r][a].pa # NoPage => mem'[pgtbl[r][a].pa] = mem[pgtbl[r][a].pa]
  PROVE  Abstracted
<1>1. \A r \in Procs, a \in VAs : See(r, a)' = See(r, a)
  BY SeeSame
<1>2. View' = View
  BY <1>1, ViewSame
<1>3. LiveSet' = LiveSet
  BY DEF LiveSet
<1> QED
  BY <1>2, <1>3 DEF Abstracted

\* The steps that touch neither the pages nor the tables.
LEMMA QuietView ==
  ASSUME MInv, NEW p \in Procs,
         \/ \E va \in VAs : StoreFault(p, va)
         \/ \E q \in Procs : Fork(p, q) \/ Wait(p, q)
         \/ \E n \in 1 .. NVA : Grow(p, n) \/ Shrink(p, n)
         \/ GrowDone(p) \/ UvmunmapDone(p)
  PROVE  Abstracted
<1>1. ThreadOK(p) /\ state \in [Procs -> {"UNUSED", "USED", "LIVE", "ZOMBIE"}]
  BY DEF MInv, IInv, TypeOK, ThreadsOK
<1>2. pgtbl' = pgtbl /\ mem' = mem
  BY DEF StoreFault, Fork, Wait, Grow, Shrink, GrowDone, UvmunmapDone
<1>3. \A r \in Procs : state'[r] = "LIVE" <=> state[r] = "LIVE"
  <2>1. CASE UvmunmapDone(p)
    BY <1>1, <2>1 DEF UvmunmapDone, At, ThreadOK
  <2>2. CASE \E q \in Procs : Fork(p, q)
    BY <1>1, <2>2 DEF Fork
  <2>3. CASE state' = state
    BY <2>3
  <2> QED
    BY <2>1, <2>2, <2>3 DEF StoreFault, Wait, Grow, Shrink, GrowDone
<1> QED
  BY <1>2, <1>3, Unseen

\* kalloc() and the kfree() of a page that is not mapped: nobody sees them.
LEMMA AllocView ==
  ASSUME MInv, MInv', NEW p \in Procs,
         CowAlloc(p) \/ CowFree(p) \/ UvmallocPage(p)
  PROVE  Abstracted
<1>1. IInv /\ IInv' /\ th[p] \in Thread /\ ThreadOK(p)
  BY DEF MInv, IInv, TypeOK, ThreadsOK
<1>2. pgtbl' = pgtbl /\ state' = state
  BY DEF CowAlloc, CowFree, UvmallocPage
<1>3. mem' = mem \/ \E pa \in Pages : kalloc(pa) \/ kfree(pa)
  <2>1. CASE CowFree(p)
    BY <1>1, <2>1 DEF CowFree, At, ThreadOK, Thread
  <2>2. CASE CowAlloc(p) \/ UvmallocPage(p)
    BY <1>1, <2>2 DEF CowAlloc, UvmallocPage, IInv, TypeOK
  <2> QED
    BY <2>1, <2>2
<1>4. CASE mem' = mem
  BY <1>2, <1>4, Unseen
<1>5. CASE \E pa \in Pages : kalloc(pa) \/ kfree(pa)
  <2>1. \A r \in Procs, a \in VAs :
          pgtbl[r][a].pa # NoPage => mem'[pgtbl[r][a].pa] = mem[pgtbl[r][a].pa]
    BY <1>1, <1>2, <1>5, AllocatorUnseen
  <2> QED
    BY <1>2, <2>1, Unseen
<1> QED
  BY <1>3, <1>4, <1>5

\* A store into a page that is not marked COW changes what one process reads at
\* one address.
LEMMA StoreView ==
  ASSUME MInv, NEW p \in Procs, NEW va \in VAs, NEW v \in Values,
         state[p] = "LIVE", Valid(pgtbl[p][va]), "COW" \notin pgtbl[p][va].flags,
         mem' = [mem EXCEPT ![pgtbl[p][va].pa] = v], pgtbl' = pgtbl, state' = state
  PROVE  Abstracted
<1> DEFINE pa == pgtbl[p][va].pa
<1>1. /\ pgtbl[p][va] \in Pte /\ mem \in [Pages -> Values \cup {Junk}] /\ SoleState
      /\ \A r \in Procs, a \in VAs : pgtbl[r][a] \in Pte
  BY DEF MInv, IInv, TypeOK
<1>2. pa \in Pages /\ pa # NoPage
  BY <1>1 DEF Valid, Pte
<1>3. \A q \in Procs, a \in VAs : q # p \/ a # va => pgtbl[q][a].pa # pa
  BY <1>1, <1>2, PteAlone
<1> HIDE DEF pa
<1>4. mem' = [mem EXCEPT ![pa] = v]
  BY DEF pa
<1>5. See(p, va)' = v
  BY <1>1, <1>2, <1>4 DEF See, Valid, pa
<1>6. ASSUME NEW r \in Procs, NEW a \in VAs, r # p \/ a # va
      PROVE  See(r, a)' = See(r, a)
  <2>1. pgtbl[r][a].pa # NoPage => mem'[pgtbl[r][a].pa] = mem[pgtbl[r][a].pa]
    BY <1>1, <1>3, <1>4, <1>6 DEF Pte
  <2> QED
    BY <2>1, SeeSame
<1>7. View' = [View EXCEPT ![p][va] = v]
  BY <1>5, <1>6, ViewAt
<1>8. View[p][va] # NoPage
  <2>1. View[p][va] = See(p, va)
    BY DEF View
  <2>2. See(p, va) \in Values \cup {Junk}
    BY <1>1, <1>2 DEF See, Valid, pa
  <2> QED
    BY <2>1, <2>2, ConstAssumption
<1>9. p \in LiveSet /\ LiveSet' = LiveSet
  BY DEF LiveSet
<1> QED
  BY <1>7, <1>8, <1>9 DEF Abstracted

\* Stores by user code and by copyout().
LEMMA WriteView ==
  ASSUME MInv, NEW p \in Procs,
         \/ \E va \in VAs, v \in Values : Store(p, va, v) \/ copyout(p, va, v)
         \/ CopyoutWrite(p)
  PROVE  Abstracted
<1>1. CASE \E va \in VAs, v \in Values : Store(p, va, v)
  <2>1. PICK va \in VAs, v \in Values : Store(p, va, v)
    BY <1>1
  <2>2. "COW" \notin pgtbl[p][va].flags
    BY <2>1 DEF Store, UserMayStore, MInv, SoleState, NotBoth
  <2> QED
    BY <2>1, <2>2, StoreView DEF Store, UserMayStore, InUser
<1>2. CASE \E va \in VAs, v \in Values : copyout(p, va, v)
  <2>1. PICK va \in VAs, v \in Values : copyout(p, va, v)
    BY <1>2
  <2>2. CASE "COW" \in pgtbl[p][va].flags
    BY <2>1, <2>2, Unseen DEF copyout
  <2>3. CASE "COW" \notin pgtbl[p][va].flags
    BY <2>1, <2>3, StoreView DEF copyout, InUser
  <2> QED
    BY <2>2, <2>3
<1>3. CASE CopyoutWrite(p)
  <2>1. /\ th[p] \in Thread /\ th[p].va \in 0 .. NVA /\ th[p].val \in Values
        /\ ThreadOK(p) /\ Work(p) /\ NVA \in Nat
    BY ConstAssumption DEF MInv, IInv, TypeOK, Thread, ThreadsOK, MemOK
  <2>2. /\ th[p].va \in VAs /\ state[p] = "LIVE" /\ Valid(pgtbl[p][th[p].va])
        /\ "COW" \notin pgtbl[p][th[p].va].flags
    BY <1>3, <2>1 DEF CopyoutWrite, At, Work, WorkOK, ThreadOK, VAs
  <2> QED
    BY <1>3, <2>1, <2>2, StoreView DEF CopyoutWrite
<1> QED
  BY <1>1, <1>2, <1>3

\* cow_page_fault() replaces a page by a copy that nobody else can see.
LEMMA CowCopyView ==
  ASSUME MInv, NEW p \in Procs, CowCopy(p)
  PROVE  Abstracted
<1>1. /\ th[p] \in Thread /\ ThreadOK(p) /\ pgtbl \in Tables /\ SoleState
      /\ mem \in [Pages -> Values \cup {Junk}] /\ th[p].pc = "cow_copy"
      /\ \A r \in Procs, a \in VAs : pgtbl[r][a] \in Pte
  BY DEF MInv, IInv, TypeOK, Tables, ThreadsOK, CowCopy, At
<1>0. th[p].va \in VAs /\ th[p].pa \in Pages /\ Valid(pgtbl[p][th[p].va])
  BY <1>1, ConstAssumption DEF ThreadOK, Thread, VAs
<1>2. PICK va \in VAs, new \in Pages, old \in Pages :
        va = th[p].va /\ new = th[p].pa /\ old = pgtbl[p][va].pa
  BY <1>0, <1>1 DEF Valid, Pte
<1>3. \A q \in Procs, a \in VAs : pgtbl[q][a].pa # new
  BY <1>1, <1>2, ConstAssumption, LocalAlone
<1>4. /\ mem' = [mem EXCEPT ![new] = mem[old]] /\ state' = state
      /\ \E fl : pgtbl' = [pgtbl EXCEPT ![p][va] = [pa |-> new, flags |-> fl]]
  BY <1>2 DEF CowCopy
<1>5. /\ pgtbl'[p][va].pa = new
      /\ \A r \in Procs, a \in VAs : r # p \/ a # va => pgtbl'[r][a] = pgtbl[r][a]
  BY <1>1, <1>2, <1>4 DEF Tables
<1>6. \A r \in Procs, a \in VAs :
        pgtbl[r][a].pa # NoPage => mem'[pgtbl[r][a].pa] = mem[pgtbl[r][a].pa]
  BY <1>1, <1>3, <1>4 DEF Pte
<1>7. See(p, va)' = See(p, va)
  <2>1. mem'[new] = mem[old]
    BY <1>1, <1>2, <1>4
  <2> QED
    BY <1>2, <1>4, <1>5, <2>1, ConstAssumption DEF See, Valid
<1>8. \A r \in Procs, a \in VAs : See(r, a)' = See(r, a)
  <2>1. ASSUME NEW r \in Procs, NEW a \in VAs, r # p \/ a # va
        PROVE  See(r, a)' = See(r, a)
    BY <1>4, <1>5, <1>6, <2>1, SeeSame
  <2> QED
    BY <1>7, <2>1
<1>9. View' = View
  BY <1>8, ViewSame
<1> QED
  BY <1>4, <1>9 DEF Abstracted, LiveSet

\* exit(): what the process saw is gone.
LEMMA ExitView ==
  ASSUME MInv, NEW p \in Procs, Exit(p)
  PROVE  Abstracted
<1>1. /\ state \in [Procs -> {"UNUSED", "USED", "LIVE", "ZOMBIE"}]
      /\ state' = [state EXCEPT ![p] = "ZOMBIE"] /\ pgtbl' = pgtbl /\ mem' = mem
      /\ state[p] = "LIVE"
  BY DEF MInv, IInv, TypeOK, Exit, InUser
<1>2. p \in LiveSet /\ LiveSet' = LiveSet \ {p}
  BY <1>1 DEF LiveSet
<1>3. \A r \in Procs, a \in VAs :
        See(r, a)' = IF r = p THEN NoPage ELSE See(r, a)
  BY <1>1 DEF See
<1>4. View' = [View EXCEPT ![p] = [va \in VAs |-> NoPage]]
  BY <1>3 DEF View
<1> QED
  BY <1>2, <1>4 DEF Abstracted

\* The end of fork(): the child sees what its parent sees.
LEMMA ForkDoneView ==
  ASSUME MInv, NEW p \in Procs, ForkDone(p)
  PROVE  Abstracted
<1>1. /\ th[p] \in Thread /\ ThreadOK(p) /\ Work(p) /\ TableOK(p)
      /\ th[p].pc = "uvmcopy" /\ th[p].i = sz[p] /\ sz[p] \in 0 .. NVA
      /\ state \in [Procs -> {"UNUSED", "USED", "LIVE", "ZOMBIE"}]
  BY DEF MInv, IInv, TypeOK, ThreadsOK, MemOK, ForkDone, At
<1>2. PICK q \in Procs : q = th[p].tgt
  BY <1>1 DEF Thread
<1>3. /\ state[p] = "LIVE" /\ state[q] = "USED" /\ q # p
      /\ state' = [state EXCEPT ![q] = "LIVE"] /\ pgtbl' = pgtbl /\ mem' = mem
  BY <1>1, <1>2 DEF ThreadOK, ForkDone
<1>4. \A a \in VAs : pgtbl[q][a].pa = pgtbl[p][a].pa
  <2>1. /\ MappedOnly(pgtbl[q], sz[p], 0, 0)
        /\ \A a \in VAs : a < sz[p] => pgtbl[q][a].pa = pgtbl[p][a].pa
    BY <1>1, <1>2 DEF Work, WorkOK
  <2>2. MappedOnly(pgtbl[p], sz[p], 0, 0)
    BY <1>1, <1>3 DEF TableOK, Resizing
  <2> SUFFICES ASSUME NEW a \in VAs, ~(a < sz[p])
               PROVE  pgtbl[q][a].pa = pgtbl[p][a].pa
    BY <2>1
  <2>3. ~(0 <= a /\ a < 0)
    BY ConstAssumption DEF VAs
  <2> QED
    BY <2>1, <2>2, <2>3 DEF MappedOnly, Valid
<1>5. p \in LiveSet /\ q \notin LiveSet /\ LiveSet' = LiveSet \cup {q}
  BY <1>1, <1>3 DEF LiveSet
<1>6. \A r \in Procs, a \in VAs :
        See(r, a)' = IF r = q THEN See(p, a) ELSE See(r, a)
  BY <1>1, <1>3, <1>4 DEF See, Valid
<1>7. View' = [View EXCEPT ![q] = View[p]]
  BY <1>6 DEF View
<1> QED
  BY <1>5, <1>7 DEF Abstracted

\* uvmcopy() changes only flags of the parent, and a table nobody runs on.
LEMMA UvmcopyView ==
  ASSUME MInv, MInv', NEW p \in Procs, UvmcopyPage(p)
  PROVE  Abstracted
<1> DEFINE i == th[p].i
           np == th[p].tgt
           pte == SharedPte(pgtbl[p][i])
<1>1. /\ Shapes /\ Shapes' /\ pgtbl \in Tables /\ ThreadOK(p) /\ th[p].pc = "uvmcopy"
  <2>1. Shapes /\ Shapes'
    BY DEF MInv, IInv, TypeOK, Shapes, Tables, Threads
  <2> QED
    BY <2>1 DEF MInv, IInv, ThreadsOK, Shapes, UvmcopyPage, At
<1>2. i \in VAs /\ np \in Procs /\ pte.pa = pgtbl[p][i].pa
  BY <1>1, UvmcopySlots
<1>3. state[np] = "USED" /\ state' = state /\ mem' = mem
  BY <1>1 DEF ThreadOK, UvmcopyPage
<1>4. \/ pgtbl' = [pgtbl EXCEPT ![p][i] = pte]
      \/ pgtbl' = [pgtbl EXCEPT ![p][i] = pte, ![np][i] = pte]
  BY DEF UvmcopyPage
<1>5. \A r \in Procs, a \in VAs :
        state[r] = "LIVE" => pgtbl'[r][a].pa = pgtbl[r][a].pa
  <2> HIDE DEF i, np, pte
  <2>1. \A r \in Procs, a \in VAs : r # np => pgtbl'[r][a].pa = pgtbl[r][a].pa
    <3>1. CASE pgtbl' = [pgtbl EXCEPT ![p][i] = pte]
      BY <1>1, <1>2, <3>1 DEF Tables
    <3>2. CASE pgtbl' = [pgtbl EXCEPT ![p][i] = pte, ![np][i] = pte]
      BY <1>1, <1>2, <3>2 DEF Tables
    <3> QED
      BY <1>4, <3>1, <3>2
  <2> QED
    BY <1>3, <2>1
<1> QED
  BY <1>3, <1>5, Unseen

\* uvmalloc() maps a page of zeroes.
LEMMA UvmallocMapView ==
  ASSUME MInv, MInv', NEW p \in Procs, UvmallocMap(p)
  PROVE  Abstracted
<1>1. /\ th[p] \in Thread /\ ThreadOK(p) /\ pgtbl \in Tables /\ SoleState
      /\ mem \in [Pages -> Values \cup {Junk}] /\ th[p].pc = "uvmalloc_map"
      /\ \A r \in Procs, a \in VAs : pgtbl[r][a] \in Pte
      /\ IInv /\ IInv'
  BY DEF MInv, IInv, TypeOK, Tables, ThreadsOK, UvmallocMap, At
<1>2. th[p].i \in VAs /\ th[p].pa \in Pages /\ state[p] = "LIVE"
  BY <1>1, ConstAssumption DEF ThreadOK, Thread, VAs
<1>3. PICK i \in VAs, pa \in Pages : i = th[p].i /\ pa = th[p].pa
  BY <1>2
<1>4. pgtbl[p][i].pa = NoPage /\ state' = state
  BY <1>3 DEF UvmallocMap, Valid
<1>5. ASSUME mem' = [mem EXCEPT ![pa] = Zero],
             pgtbl' = [pgtbl EXCEPT ![p][i] = [pa |-> pa, flags |-> {"U", "W"}]]
      PROVE  Abstracted
  <2>1. \A q \in Procs, a \in VAs : pgtbl[q][a].pa # pa
    BY <1>1, <1>3, ConstAssumption, LocalAlone
  <2>2. /\ pgtbl'[p][i].pa = pa
        /\ \A r \in Procs, a \in VAs : r # p \/ a # i => pgtbl'[r][a] = pgtbl[r][a]
    BY <1>1, <1>5 DEF Tables
  <2>3. \A r \in Procs, a \in VAs :
          pgtbl[r][a].pa # NoPage => mem'[pgtbl[r][a].pa] = mem[pgtbl[r][a].pa]
    BY <1>1, <1>5, <2>1 DEF Pte
  <2>4. See(p, i)' = Zero
    <3>1. mem'[pa] = Zero /\ pa # NoPage
      BY <1>1, <1>5, ConstAssumption
    <3> QED
      BY <1>2, <1>4, <2>2, <3>1 DEF See, Valid
  <2>5. ASSUME NEW r \in Procs, NEW a \in VAs, r # p \/ a # i
        PROVE  See(r, a)' = See(r, a)
    BY <1>4, <2>2, <2>3, <2>5, SeeSame
  <2>6. View' = [View EXCEPT ![p][i] = Zero]
    BY <2>4, <2>5, ViewAt
  <2>7. View[p][i] = NoPage
    BY <1>4 DEF View, See, Valid
  <2>8. p \in LiveSet /\ LiveSet' = LiveSet
    BY <1>2, <1>4 DEF LiveSet
  <2> QED
    BY <2>6, <2>7, <2>8 DEF Abstracted
<1>6. ASSUME kfree(pa), pgtbl' = pgtbl
      PROVE  Abstracted
  <2>1. \A r \in Procs, a \in VAs :
          pgtbl[r][a].pa # NoPage => mem'[pgtbl[r][a].pa] = mem[pgtbl[r][a].pa]
    BY <1>1, <1>6, AllocatorUnseen
  <2> QED
    BY <1>4, <1>6, <2>1, Unseen
<1> QED
  BY <1>3, <1>5, <1>6 DEF UvmallocMap

\* uvmunmap() takes a page away from the process, if the process still runs.
LEMMA UvmunmapView ==
  ASSUME MInv, MInv', NEW p \in Procs, UvmunmapPage(p)
  PROVE  Abstracted
<1>1. /\ th[p] \in Thread /\ ThreadOK(p) /\ pgtbl \in Tables /\ IInv /\ IInv'
      /\ th[p].pc = "uvmunmap" /\ \A r \in Procs, a \in VAs : pgtbl[r][a] \in Pte
  BY DEF MInv, IInv, TypeOK, Tables, ThreadsOK, UvmunmapPage, At
<1>2. th[p].i \in VAs /\ th[p].tgt \in Procs /\ Valid(pgtbl[th[p].tgt][th[p].i])
  BY <1>1, ConstAssumption DEF UvmunmapPage, Thread, VAs
<1>3. PICK i \in VAs, q \in Procs, pa \in Pages :
        i = th[p].i /\ q = th[p].tgt /\ pa = pgtbl[q][i].pa
  BY <1>1, <1>2 DEF Pte, Valid
<1>4. /\ kfree(pa) /\ pgtbl' = [pgtbl EXCEPT ![q][i] = NoPte] /\ state' = state
      /\ LiveSet' = LiveSet
  BY <1>3 DEF UvmunmapPage, LiveSet
<1>5. /\ pgtbl'[q][i].pa = NoPage
      /\ \A r \in Procs, a \in VAs : r # q \/ a # i => pgtbl'[r][a] = pgtbl[r][a]
  BY <1>1, <1>4 DEF Tables, NoPte
<1>6. ASSUME NEW r \in Procs, NEW a \in VAs, r # q \/ a # i
      PROVE  See(r, a)' = See(r, a)
  <2>1. pgtbl[r][a].pa # NoPage => mem'[pgtbl[r][a].pa] = mem[pgtbl[r][a].pa]
    BY <1>1, <1>4, <1>5, <1>6, AllocatorUnseen
  <2> QED
    BY <1>4, <1>5, <1>6, <2>1, SeeSame
<1>7. See(q, i)' = NoPage
  BY <1>5 DEF See, Valid
<1>8. CASE state[q] = "LIVE"
  <2>1. View' = [View EXCEPT ![q][i] = NoPage]
    BY <1>6, <1>7, ViewAt
  <2>2. q \in LiveSet
    BY <1>8 DEF LiveSet
  <2> QED
    BY <1>4, <2>1, <2>2 DEF Abstracted
<1>9. CASE state[q] # "LIVE"
  <2>1. See(q, i) = NoPage
    BY <1>9 DEF See
  <2>2. \A r \in Procs, a \in VAs : See(r, a)' = See(r, a)
    BY <1>6, <1>7, <2>1
  <2>3. View' = View
    BY <2>2, ViewSame
  <2> QED
    BY <1>4, <2>3 DEF Abstracted
<1> QED
  BY <1>8, <1>9

\* Copy-on-write is invisible: processes that share physical pages behave like
\* processes with private memories.  fork() gives the child a snapshot, a store
\* changes one place of one process, and sbrk() adds pages that read as zero.
THEOREM PrivateMemories == Spec => PrivateMemorySpec
<1>1. Init => PM!Init
  <2> SUFFICES ASSUME Init PROVE PM!Init
    OBVIOUS
  <2>1. PICK image \in [DOMAIN InitFlags -> Pages] :
          LET used == {image[i] : i \in DOMAIN InitFlags} IN
          /\ mem = [pa \in Pages |-> IF pa \in used THEN Zero ELSE Junk]
          /\ pgtbl = [p \in Procs |-> [va \in VAs |->
                        IF p = initproc /\ va < InitSz
                        THEN [pa |-> image[va], flags |-> InitFlags[va]]
                        ELSE NoPte]]
          /\ state = [p \in Procs |-> IF p = initproc THEN "LIVE" ELSE "UNUSED"]
    BY DEF Init
  <2>2. /\ InitSz \in Nat /\ DOMAIN InitFlags = 0 .. InitSz - 1
        /\ \A va \in VAs : va < InitSz => va \in DOMAIN InitFlags
    <3>1. InitFlags \in [0 .. InitSz - 1 -> SUBSET {"U", "W"}] /\ InitSz \in 0 .. NVA
      BY ConstAssumption
    <3> HIDE DEF InitSz
    <3> QED
      BY <3>1, ConstAssumption DEF VAs
  <2> HIDE DEF InitSz
  <2>3. LiveSet = {initproc}
    BY <2>1, ConstAssumption DEF LiveSet
  <2> DEFINE first == [va \in VAs |-> IF va < InitSz THEN Zero ELSE NoPage]
  <2>4. ASSUME NEW p \in Procs, NEW va \in VAs
        PROVE  See(p, va) = IF p = initproc THEN first[va] ELSE NoPage
    <3>1. CASE p = initproc /\ va < InitSz
      <4>1. /\ pgtbl[p][va].pa = image[va] /\ image[va] \in Pages
            /\ mem[image[va]] = Zero /\ state[p] = "LIVE"
        BY <2>1, <2>2, <3>1
      <4> QED
        BY <3>1, <4>1, ConstAssumption DEF See, Valid
    <3>2. CASE p = initproc /\ ~(va < InitSz)
      <4>1. pgtbl[p][va].pa = NoPage
        BY <2>1, <3>2 DEF NoPte
      <4> QED
        BY <3>2, <4>1 DEF See, Valid
    <3>3. CASE p # initproc
      BY <2>1, <3>3 DEF See
    <3> QED
      BY <3>1, <3>2, <3>3
  <2>5. first \in [VAs -> {Zero, NoPage}]
    OBVIOUS
  <2> HIDE DEF first
  <2>6. View = [p \in Procs |-> IF p = initproc THEN first ELSE [va \in VAs |-> NoPage]]
    <3>1. first = [va \in VAs |-> first[va]]
      BY <2>5
    <3> QED
      BY <2>4, <3>1 DEF View
  <2> QED
    BY <2>3, <2>5, <2>6 DEF PM!Init, PM!Empty, View, See, LiveSet
<1>2. MInv /\ MInv' /\ [Next]_vars => [PM!Next]_(PM!vars)
  <2> SUFFICES ASSUME MInv, MInv', [Next]_vars
               PROVE  [PM!Next]_(PM!vars)
    OBVIOUS
  <2>1. CASE Next
    <3>1. PICK p \in Procs : ProcStep(p)
      BY <2>1 DEF Next, ProcStep
    <3>2. Abstracted
      BY <3>1, QuietView, AllocView, WriteView, CowCopyView, ExitView, ForkDoneView,
         UvmcopyView, UvmallocMapView, UvmunmapView
      DEF ProcStep, KernelStep
    <3> QED
      BY <3>2, AbstractStep
  <2>2. CASE UNCHANGED vars
    BY <2>2, AbstractStep DEF Abstracted, vars, View, See, LiveSet
  <2> QED
    BY <2>1, <2>2
<1> QED
  BY <1>1, <1>2, MemInvariance, PTL DEF Spec, PrivateMemorySpec, PM!Spec

-----------------------------------------------------------------------------
(* With enough page-table memory the counts are exact and no page is lost. *)

\* f: what every slot holds; fl: the free pages; cnt: the counts.
Exact(f, fl, cnt) ==
  \A pa \in Pages :
    cnt[pa] = Cardinality(Holders(f, pa)) /\ (pa \notin fl => cnt[pa] # 0)

ExactState == Exact(RefMap, freelist, pte_count)

\* The counts are still exact if they are for page pa and nothing changes for
\* the other pages.
LEMMA ExactFrame ==
  ASSUME NEW f, NEW fl, NEW cnt, Exact(f, fl, cnt),
         NEW g, NEW fl2, NEW pa \in Pages, NEW new, NEW n, SetCount(new, cnt, pa, n),
         \A q \in Pages \ {pa} : Holders(g, q) = Holders(f, q),
         \A q \in Pages \ {pa} : q \in fl2 <=> q \in fl,
         n = Cardinality(Holders(g, pa)), pa \notin fl2 => n # 0
  PROVE  Exact(g, fl2, new)
<1>1. ASSUME NEW q \in Pages \ {pa}
      PROVE  new[q] = Cardinality(Holders(g, q)) /\ (q \notin fl2 => new[q] # 0)
  BY DEF Exact, SetCount
<1>2. new[pa] = Cardinality(Holders(g, pa)) /\ (pa \notin fl2 => new[pa] # 0)
  BY DEF SetCount
<1> QED
  BY <1>1, <1>2 DEF Exact

\* kalloc() sets the count of a page without references to 1.
LEMMA ExactAlloc ==
  ASSUME NEW f \in SlotMap, NEW fl \in SUBSET Pages, NEW cnt, Exact(f, fl, cnt),
         NEW s \in Slots, f[s] = NoPage, NEW pa \in fl, Holders(f, pa) = {},
         NEW g, SetSlot(g, f, s, pa), NEW new, SetCount(new, cnt, pa, 1)
  PROVE  Exact(g, fl \ {pa}, new)
<1>1. pa \in Pages
  OBVIOUS
<1>2. Cardinality(Holders(f, pa)) = 0
  BY FS_EmptySet
<1>3. /\ Cardinality(Holders(g, pa)) = Cardinality(Holders(f, pa)) + 1
      /\ \A q \in Pages \ {pa} : Holders(g, q) = Holders(f, q)
  BY <1>1, HoldersAdd
<1>4. Cardinality(Holders(g, pa)) = 1 /\ 1 # 0
  BY <1>2, <1>3
<1>5. \A q \in Pages \ {pa} : q \in fl \ {pa} <=> q \in fl
  OBVIOUS
<1> QED
  BY <1>1, <1>3, <1>4, <1>5, ExactFrame

\* kfree() takes away one reference, and frees the page with the last one.
LEMMA ExactFree ==
  ASSUME NEW f \in SlotMap, NEW fl \in SUBSET Pages, NEW cnt, Exact(f, fl, cnt),
         NEW s \in Slots, NEW pa \in Pages, f[s] = pa,
         NEW g, SetSlot(g, f, s, NoPage),
         NEW new, SetCount(new, cnt, pa, cnt[pa] - 1),
         NEW fl2, fl2 = IF cnt[pa] - 1 > 0 THEN fl ELSE fl \cup {pa}
  PROVE  Exact(g, fl2, new)
<1>1. /\ Cardinality(Holders(g, pa)) = Cardinality(Holders(f, pa)) - 1
      /\ \A q \in Pages \ {pa} : Holders(g, q) = Holders(f, q)
  BY HoldersDrop
<1>2. /\ Cardinality(Holders(g, pa)) \in Nat /\ Cardinality(Holders(f, pa)) \in Nat
      /\ cnt[pa] = Cardinality(Holders(f, pa))
  BY HoldersFinite DEF Exact
<1>3. cnt[pa] - 1 = Cardinality(Holders(g, pa)) /\ (pa \notin fl2 => cnt[pa] - 1 # 0)
  BY <1>1, <1>2
<1>4. \A q \in Pages \ {pa} : q \in fl2 <=> q \in fl
  OBVIOUS
<1> QED
  BY <1>1, <1>3, <1>4, ExactFrame

\* uvmcopy() counts the reference that the child receives.
LEMMA ExactShare ==
  ASSUME NEW f \in SlotMap, NEW fl \in SUBSET Pages, NEW cnt, Exact(f, fl, cnt),
         NEW s \in Slots, f[s] = NoPage, NEW pa \in Pages, NEW g, SetSlot(g, f, s, pa),
         NEW new, SetCount(new, cnt, pa, cnt[pa] + 1)
  PROVE  Exact(g, fl, new)
<1>1. /\ Cardinality(Holders(g, pa)) = Cardinality(Holders(f, pa)) + 1
      /\ \A q \in Pages \ {pa} : Holders(g, q) = Holders(f, q)
  BY HoldersAdd
<1>2. Cardinality(Holders(f, pa)) \in Nat /\ cnt[pa] = Cardinality(Holders(f, pa))
  BY HoldersFinite DEF Exact
<1>3. cnt[pa] + 1 = Cardinality(Holders(g, pa)) /\ cnt[pa] + 1 # 0
  BY <1>1, <1>2
<1> QED
  BY <1>1, <1>3, ExactFrame

\* A PTE and the local variable of a thread exchange different pages.
LEMMA ExactSwap ==
  ASSUME IInv, IInv', ExactState, freelist' = freelist, pte_count' = pte_count,
         NEW p \in Procs, NEW i \in VAs, th[p].pa # pgtbl[p][i].pa,
         pgtbl'[p][i].pa = th[p].pa, th'[p].pa = pgtbl[p][i].pa,
         \A q \in Procs, va \in VAs : q # p \/ va # i => pgtbl'[q][va] = pgtbl[q][va],
         \A r \in Procs \ {p} : th'[r] = th[r]
  PROVE  ExactState'
<1>1. /\ pgtbl \in Tables /\ th \in Threads /\ pgtbl' \in Tables /\ th' \in Threads
  BY DEF IInv, TypeOK, Tables, Threads
<1>2. RefMap \in SlotMap /\ RefMap' \in SlotMap
  BY <1>1, MapOfType DEF RefMap
<1> DEFINE s == <<p, i>>
           t == <<p, NVA>>
<1>3. /\ s \in Slots /\ t \in Slots
      /\ RefMap[s] = pgtbl[p][i].pa /\ RefMap[t] = th[p].pa
  BY MapOfAt DEF RefMap
<1>4. RefMap'[s] = pgtbl'[p][i].pa /\ RefMap'[t] = th'[p].pa
  <2>1. /\ MapOf(pgtbl', th')[s] = pgtbl'[p][i].pa
        /\ MapOf(pgtbl', th')[t] = th'[p].pa
    BY MapOfAt
  <2> QED
    BY <2>1 DEF RefMap
<1>5. \A r \in Slots \ {s, t} : RefMap'[r] = RefMap[r]
  BY <1>1, SlotBoth DEF RefMap
<1>6. RefMap'[s] = RefMap[t] /\ RefMap'[t] = RefMap[s] /\ RefMap[s] # RefMap[t]
  BY <1>3, <1>4
<1> HIDE DEF s, t
<1>7. \A pa \in Pages :
        Cardinality(Holders(RefMap', pa)) = Cardinality(Holders(RefMap, pa))
  BY <1>2, <1>3, <1>5, <1>6, HoldersSwap
<1> QED
  BY <1>7 DEF ExactState, Exact

\* kalloc() for the local variable of p.
LEMMA ExactKalloc ==
  ASSUME IInv, IInv', ExactState, NEW p \in Procs, NEW pa \in freelist, kalloc(pa),
         pgtbl' = pgtbl, th[p].pa = NoPage, th'[p].pa = pa,
         \A r \in Procs \ {p} : th'[r] = th[r]
  PROVE  ExactState'
<1>1. /\ pgtbl \in Tables /\ th \in Threads /\ th' \in Threads
      /\ Holders(RefMap, pa) = {} /\ freelist \in SUBSET Pages
      /\ pte_count \in [Pages -> Nat]
  BY DEF IInv, TypeOK, Tables, Threads, Counted
<1>2. SetSlot(RefMap', RefMap, <<p, NVA>>, pa) /\ RefMap \in SlotMap
  BY <1>1, SlotLocal, MapOfType DEF RefMap
<1>3. <<p, NVA>> \in Slots /\ RefMap[<<p, NVA>>] = NoPage
  BY MapOfAt DEF RefMap
<1>4. SetCount(pte_count', pte_count, pa, 1) /\ freelist' = freelist \ {pa}
  BY <1>1 DEF kalloc, SetCount
<1>5. Exact(RefMap', freelist \ {pa}, pte_count')
  BY <1>1, <1>2, <1>3, <1>4, ExactAlloc DEF ExactState
<1> QED
  BY <1>4, <1>5 DEF ExactState

\* kfree() of the page in slot s, which gives it up.
LEMMA ExactKfree ==
  ASSUME IInv, ExactState, NEW s \in Slots, NEW pa \in Pages,
         RefMap[s] = pa, SetSlot(RefMap', RefMap, s, NoPage), kfree(pa)
  PROVE  ExactState'
<1>1. /\ RefMap \in SlotMap /\ freelist \in SUBSET Pages /\ pte_count \in [Pages -> Nat]
  BY MapOfType DEF IInv, TypeOK, RefMap, Tables, Threads
<1>2. /\ SetCount(pte_count', pte_count, pa, pte_count[pa] - 1)
      /\ freelist' = IF pte_count[pa] - 1 > 0 THEN freelist ELSE freelist \cup {pa}
  BY <1>1 DEF kfree, SetCount
<1>3. Exact(RefMap', freelist', pte_count')
  BY <1>1, <1>2, ExactFree DEF ExactState
<1> QED
  BY <1>3 DEF ExactState

\* Every step keeps the counts exact, if mappages() always finds memory.
LEMMA StepExact ==
  ASSUME ~MapMayFail, IInv, IInv', SoleState, ExactState, NEW p \in Procs, ProcStep(p)
  PROVE  ExactState'
<1>1. /\ th \in Threads /\ th[p] \in Thread /\ ThreadOK(p)
      /\ pgtbl \in Tables /\ pgtbl' \in Tables /\ th' \in Threads
      /\ Shapes /\ Shapes' /\ ThreadsOK /\ NVA \in Nat
      /\ freelist \in SUBSET Pages /\ pte_count \in [Pages -> Nat]
  BY ConstAssumption DEF IInv, TypeOK, Shapes, Threads, Tables, ThreadsOK
<1>2. \A r \in Procs \ {p} : th'[r] = th[r]
  BY StepFrame DEF Frame
<1>3. ASSUME pgtbl' = pgtbl, freelist' = freelist, pte_count' = pte_count,
             \A r \in Procs : th'[r].pa = th[r].pa
      PROVE  ExactState'
  <2>1. RefMap' = RefMap
    BY <1>3, SlotsSame DEF RefMap
  <2> QED
    BY <1>3, <2>1 DEF ExactState
<1>4. CASE \/ \E va \in VAs : StoreFault(p, va)
           \/ \E va \in VAs, v \in Values : Store(p, va, v) \/ copyout(p, va, v)
           \/ \E q \in Procs : Fork(p, q) \/ Wait(p, q)
           \/ \E n \in 1 .. NVA : Grow(p, n) \/ Shrink(p, n)
           \/ Exit(p) \/ CopyoutWrite(p) \/ ForkDone(p) \/ GrowDone(p)
           \/ UvmunmapDone(p)
  BY <1>1, <1>3, <1>4, QuietSlots
<1>5. CASE CowAlloc(p) \/ UvmallocPage(p)
  <2>1. th[p].pa = NoPage /\ pgtbl' = pgtbl
    BY <1>1, <1>5 DEF CowAlloc, UvmallocPage, At, ThreadOK
  <2>2. \/ \E pa \in freelist : kalloc(pa) /\ th'[p].pa = pa
        \/ freelist' = freelist /\ pte_count' = pte_count /\ th'[p].pa = NoPage
    <3>1. CASE CowAlloc(p)
      <4> DEFINE t(pa) == [th[p] EXCEPT !.pc = "cow_copy", !.pa = pa]
                 o == [Idle(p) EXCEPT !.pc = "usertrap_return"]
      <4>1. \/ \E pa \in freelist : kalloc(pa) /\ th'[p] = t(pa)
            \/ freelist' = freelist /\ pte_count' = pte_count /\ th'[p] \in {o, Idle(p)}
        BY <1>1, <3>1 DEF CowAlloc, Threads
      <4>2. (\A pa : t(pa).pa = pa) /\ o.pa = NoPage /\ Idle(p).pa = NoPage
        BY <1>1 DEF Thread, Idle
      <4> HIDE DEF t, o
      <4> QED
        BY <4>1, <4>2
    <3>2. CASE UvmallocPage(p)
      <4> DEFINE t(pa) == [th[p] EXCEPT !.pc = "uvmalloc_map", !.pa = pa]
                 o == GrowUndo(th[p], sz[p])
      <4>1. \/ \E pa \in freelist : kalloc(pa) /\ th'[p] = t(pa)
            \/ freelist' = freelist /\ pte_count' = pte_count /\ th'[p] = o
        BY <1>1, <3>2 DEF UvmallocPage, Threads
      <4>2. (\A pa : t(pa).pa = pa) /\ o.pa = NoPage
        BY <1>1 DEF Thread, GrowUndo
      <4> HIDE DEF t, o
      <4> QED
        BY <4>1, <4>2
    <3> QED
      BY <1>5, <3>1, <3>2
  <2>3. CASE \E pa \in freelist : kalloc(pa) /\ th'[p].pa = pa
    BY <1>2, <2>1, <2>3, ExactKalloc
  <2>4. CASE freelist' = freelist /\ pte_count' = pte_count /\ th'[p].pa = NoPage
    BY <1>2, <1>3, <2>1, <2>4
  <2> QED
    BY <2>2, <2>3, <2>4
<1>6. CASE CowCopy(p)
  <2> DEFINE va == th[p].va
             new == [pa |-> th[p].pa,
                     flags |-> (pgtbl[p][va].flags \cup {"W"}) \ {"COW"}]
  <2>1. va \in VAs /\ th[p].pc = "cow_copy" /\ th[p].pa # NoPage
    BY <1>1, <1>6 DEF CowCopy, At, ThreadOK, Thread, VAs
  <2>2. /\ pgtbl'[p][va] = new
        /\ \A q \in Procs, a \in VAs : q # p \/ a # va => pgtbl'[q][a] = pgtbl[q][a]
    <3>1. pgtbl' = [pgtbl EXCEPT ![p][va] = new]
      BY <1>6 DEF CowCopy
    <3> HIDE DEF va, new
    <3> QED
      BY <1>1, <2>1, <3>1 DEF Tables
  <2>3. th'[p].pa = pgtbl[p][va].pa /\ freelist' = freelist /\ pte_count' = pte_count
    BY <1>1, <1>6 DEF CowCopy, Threads, Thread
  <2>4. new.pa = th[p].pa
    OBVIOUS
  <2>5. pgtbl[p][va].pa # th[p].pa
    BY <2>1, LocalAlone
  <2> HIDE DEF va, new
  <2> QED
    BY <1>2, <2>1, <2>2, <2>3, <2>4, <2>5, ExactSwap
<1>7. CASE CowFree(p)
  <2>1. th'[p].pa = NoPage /\ pgtbl' = pgtbl /\ kfree(th[p].pa) /\ th[p].pa \in Pages
    BY <1>1, <1>7 DEF CowFree, At, ThreadOK, Threads, Thread, Idle
  <2>2. SetSlot(RefMap', RefMap, <<p, NVA>>, NoPage)
    BY <1>1, <1>2, <2>1, SlotLocal DEF RefMap
  <2>3. <<p, NVA>> \in Slots /\ RefMap[<<p, NVA>>] = th[p].pa
    BY MapOfAt DEF RefMap
  <2> QED
    BY <2>1, <2>2, <2>3, ExactKfree
<1>8. CASE UvmallocMap(p)
  <2> DEFINE i == th[p].i
             new == [pa |-> th[p].pa, flags |-> {"U", "W"}]
             t == [th[p] EXCEPT !.pc = "uvmalloc", !.i = i + 1, !.pa = NoPage]
  <2>1. /\ i \in VAs /\ pgtbl[p][i].pa = NoPage /\ th[p].pa # NoPage
        /\ t.pa = NoPage /\ new.pa = th[p].pa
    BY <1>1, <1>8 DEF UvmallocMap, At, ThreadOK, Thread, VAs, Valid
  <2>2. /\ pgtbl' = [pgtbl EXCEPT ![p][i] = new] /\ th' = [th EXCEPT ![p] = t]
        /\ freelist' = freelist /\ pte_count' = pte_count
    BY <1>8 DEF UvmallocMap
  <2> HIDE DEF i, new, t
  <2>3. /\ pgtbl'[p][i] = new
        /\ \A q \in Procs, a \in VAs : q # p \/ a # i => pgtbl'[q][a] = pgtbl[q][a]
    BY <1>1, <2>1, <2>2 DEF Tables
  <2>4. th'[p].pa = NoPage
    BY <1>1, <2>1, <2>2 DEF Threads
  <2> QED
    BY <1>2, <2>1, <2>2, <2>3, <2>4, ExactSwap
<1>9. CASE UvmcopyPage(p)
  <2> DEFINE i == th[p].i
             np == th[p].tgt
             pa == pgtbl[p][i].pa
             pte == SharedPte(pgtbl[p][i])
  <2>1. /\ pa \in Pages /\ RefMap \in SlotMap /\ pte.pa = pa
        /\ <<np, i>> \in Slots /\ RefMap[<<np, i>>] = NoPage
    BY <1>1, <1>9, UvmcopySlots
  <2>2. pgtbl' = [pgtbl EXCEPT ![p][i] = pte, ![np][i] = pte]
    BY <1>9 DEF UvmcopyPage
  <2>3. SetSlot(RefMap', RefMap, <<np, i>>, pa)
    BY <1>1, <1>9, <2>2, UvmcopySlots
  <2>4. /\ freelist' = freelist
        /\ pte_count' = [pte_count EXCEPT ![pa] = pte_count[pa] + 1]
    BY <1>9, <2>1 DEF UvmcopyPage, safe_inc_count
  <2>5. SetCount(pte_count', pte_count, pa, pte_count[pa] + 1)
    BY <1>1, <2>1, <2>4 DEF SetCount
  <2> HIDE DEF i, np, pa, pte
  <2>6. Exact(RefMap', freelist, pte_count')
    BY <1>1, <2>1, <2>3, <2>5, ExactShare DEF ExactState
  <2> QED
    BY <2>4, <2>6 DEF ExactState
<1>10. CASE UvmunmapPage(p)
  <2> DEFINE i == th[p].i
             q == th[p].tgt
             pa == pgtbl[q][i].pa
  <2>1. i \in VAs /\ q \in Procs
    BY <1>1, <1>10 DEF UvmunmapPage, Thread, VAs
  <2>2. pa \in Pages /\ kfree(pa)
    <3>1. pgtbl[q][i] \in Pte
      BY <1>1, <2>1 DEF Tables
    <3> QED
      BY <1>10, <3>1 DEF UvmunmapPage, Pte, Valid
  <2>3. /\ pgtbl'[q][i].pa = NoPage
        /\ \A r \in Procs, a \in VAs :
             r # q \/ a # i => pgtbl'[r][a].pa = pgtbl[r][a].pa
    BY <1>1, <1>10, <2>1 DEF UvmunmapPage, Tables, NoPte
  <2>4. \A r \in Procs : th'[r].pa = th[r].pa
    BY <1>1, <1>10 DEF UvmunmapPage, Threads, Thread
  <2>5. <<q, i>> \in Slots /\ RefMap[<<q, i>>] = pa
    <3> HIDE DEF i, q
    <3> QED
      BY <2>1, PteSlot DEF RefMap
  <2> HIDE DEF i, q, pa
  <2>6. SetSlot(RefMap', RefMap, <<q, i>>, NoPage)
    BY <1>1, <2>1, <2>3, <2>4, SlotPte DEF RefMap
  <2> QED
    BY <2>2, <2>5, <2>6, ExactKfree
<1> QED
  BY <1>4, <1>5, <1>6, <1>7, <1>8, <1>9, <1>10 DEF ProcStep, KernelStep

\* Right after boot the pages of init have one reference and the others none.
LEMMA InitExact ==
  ASSUME Init
  PROVE  ExactState
<1>1. PICK image \in [DOMAIN InitFlags -> Pages] :
    LET used == {image[i] : i \in DOMAIN InitFlags} IN
    /\ \A i, j \in DOMAIN InitFlags : image[i] = image[j] => i = j
    /\ freelist = Pages \ used
    /\ pte_count = [pa \in Pages |-> IF pa \in used THEN 1 ELSE 0]
    /\ pgtbl = [p \in Procs |-> [va \in VAs |->
                  IF p = initproc /\ va < InitSz
                  THEN [pa |-> image[va], flags |-> InitFlags[va]]
                  ELSE NoPte]]
  BY DEF Init
<1>2. IInv /\ SoleState
  BY InitInvariant, InitMem
<1>3. /\ Counted(RefMap, freelist, pte_count) /\ NVA \in Nat
      /\ InitFlags \in [0 .. InitSz - 1 -> SUBSET {"U", "W"}] /\ InitSz \in 0 .. NVA
  BY <1>2, ConstAssumption DEF IInv
<1> HIDE DEF InitSz
<1> SUFFICES ASSUME NEW pa \in Pages
             PROVE  /\ pte_count[pa] = Cardinality(Holders(RefMap, pa))
                    /\ pa \notin freelist => pte_count[pa] # 0
  BY DEF ExactState, Exact
<1>4. CASE pa \in freelist
  <2>1. Holders(RefMap, pa) = {} /\ pte_count[pa] = 0
    BY <1>1, <1>3, <1>4 DEF Counted
  <2> QED
    BY <1>4, <2>1, FS_EmptySet
<1>5. CASE pa \notin freelist
  <2>1. PICK i \in DOMAIN InitFlags : image[i] = pa
    BY <1>1, <1>5
  <2>2. pte_count[pa] = 1
    BY <1>1, <2>1
  <2>3. i \in VAs /\ i < InitSz
    BY <1>3, <2>1 DEF VAs
  <2>4. pgtbl[initproc][i].pa = pa
    BY <1>1, <2>1, <2>3, ConstAssumption
  <2>5. <<initproc, i>> \in Holders(RefMap, pa)
    <3>1. /\ <<initproc, i>> \in Slots
          /\ MapOf(pgtbl, th)[<<initproc, i>>] = pgtbl[initproc][i].pa
      <4>1. initproc \in Procs
        BY ConstAssumption
      <4> QED
        BY <2>3, <4>1, PteSlot
    <3> QED
      BY <2>4, <3>1 DEF Holders, RefMap
  <2>6. Cardinality(Holders(RefMap, pa)) # 0
    BY <2>5, HoldersFinite, FS_EmptySet
  <2>7. /\ pte_count[pa] >= Cardinality(Holders(RefMap, pa))
        /\ Cardinality(Holders(RefMap, pa)) \in Nat
    BY <1>3, <1>5, HoldersFinite DEF Counted
  <2> QED
    BY <2>2, <2>6, <2>7
<1> QED
  BY <1>4, <1>5

\* If mappages() always finds a page-table page, kmem.pte_count is exactly the
\* number of references and every allocated page is referred to: kfree() loses
\* no page.  (When mappages() can fail, uvmcopy() has counted a reference that
\* nothing holds, and the page is lost.)
THEOREM NothingLost == ~MapMayFail => (Spec => []NoLostPage)
<1> SUFFICES ASSUME ~MapMayFail PROVE Spec => []NoLostPage
  OBVIOUS
<1>1. Init => ExactState
  BY InitExact
<1>2. MInv /\ MInv' /\ ExactState /\ [Next]_vars => ExactState'
  <2> SUFFICES ASSUME MInv, MInv', ExactState, [Next]_vars PROVE ExactState'
    OBVIOUS
  <2>1. CASE Next
    <3>1. PICK p \in Procs : ProcStep(p)
      BY <2>1 DEF Next, ProcStep
    <3> QED
      BY <3>1, StepExact DEF MInv
  <2>2. CASE UNCHANGED vars
    BY <2>2 DEF vars, ExactState, RefMap
  <2> QED
    BY <2>1, <2>2
<1>3. ExactState => NoLostPage
  <2> SUFFICES ASSUME ExactState, NEW pa \in Pages
               PROVE  /\ pte_count[pa] = Cardinality(Refs(pa))
                      /\ pa \notin freelist => Refs(pa) # {}
    BY DEF NoLostPage
  <2>1. /\ pte_count[pa] = Cardinality(Holders(RefMap, pa))
        /\ pa \notin freelist => pte_count[pa] # 0
    BY DEF ExactState, Exact
  <2> QED
    BY <2>1, RefsAreHolders, FS_EmptySet
<1> QED
  BY <1>1, <1>2, <1>3, MemInvariance, PTL DEF Spec
=============================================================================
