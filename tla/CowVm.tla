------------------------------- MODULE CowVm -------------------------------
(***************************************************************************)
(* Copy-on-write user memory: the reference-counted page allocator of      *)
(* kalloc.c, the page-table operations of vm.c that handle user pages, the *)
(* page-fault handler of trap.c, and the parts of fork(), exit(), wait()   *)
(* and growproc() in proc.c that call them.                                *)
(*                                                                         *)
(* Processes run in parallel on several CPUs.  What they share is the      *)
(* allocator (guarded by kmem.lock) and the content of shared pages; a     *)
(* page table is only used by its owner, or by the process that builds or  *)
(* frees it.  One step is therefore one kmem.lock critical section with    *)
(* the private work next to it, and any other process may run between two  *)
(* steps of the same system call.                                          *)
(*                                                                         *)
(* Only pages that hold user data have an identity here.  Trapframe and    *)
(* page-table pages come from the same free list and are never shared, so  *)
(* they are represented by their effect: mappages() may find no memory for *)
(* a page-table page, whenever MapMayFail.  Sizes are counted in pages.    *)
(***************************************************************************)
EXTENDS Integers, FiniteSets

CONSTANTS Procs,       \* slots of proc[NPROC]
          initproc,    \* never exits
          Pages,       \* physical pages given to user memory
          NoPage,      \* the null physical address
          NVA,         \* bound: virtual pages per address space
          Values,      \* contents a program can store in a page
          Zero,        \* a page filled with zeroes
          Junk,        \* what kalloc() and kfree() fill pages with
          InitFlags,   \* permissions of the pages of the first image
          MapMayFail,  \* can walk() run out of page-table pages?
          MaxCount     \* bound: references up to which a fork() may fail

VAs == 0 .. NVA - 1
Flags == {"U", "W", "COW"}     \* PTE_U, PTE_W, PTE_COW
InitSz == Cardinality(DOMAIN InitFlags)

ASSUME ConstAssumption ==
  /\ IsFiniteSet(Procs) /\ initproc \in Procs
  /\ NoPage \notin Pages
  /\ NVA \in Nat
  /\ Zero \in Values
  /\ Junk \notin Values
  /\ NoPage \notin Values \cup {Junk}     \* PrivateMemory uses it as Unmapped
  /\ MapMayFail \in BOOLEAN
  /\ MaxCount \in Nat
  /\ InitSz \in 0 .. NVA
  /\ InitFlags \in [0 .. InitSz - 1 -> SUBSET {"U", "W"}]

VARIABLES
  freelist,    \* kmem.freelist, as a set: which free page is next is left open
  pte_count,   \* kmem.pte_count
  mem,         \* content of every page
  pgtbl,       \* pgtbl[p][va]: leaf PTE; NoPte is an all-zero PTE
  sz,          \* p->sz in pages
  state,       \* p->state: RUNNABLE, RUNNING and SLEEPING are all "LIVE"
  th           \* kernel thread of each process: where it is, and its locals

vars == <<freelist, pte_count, mem, pgtbl, sz, state, th>>

Pte == [pa : Pages \cup {NoPage}, flags : SUBSET Flags]
NoPte == [pa |-> NoPage, flags |-> {}]
Valid(pte) == pte.pa # NoPage

PCs == {"user", "cow_alloc", "cow_copy", "cow_free", "copyout_write",
        "usertrap_return", "uvmcopy", "uvmalloc", "uvmalloc_map", "uvmunmap"}

\* va, val: the address and value being stored; tgt: the process whose table
\* is worked on; i, hi: loop variables; pa: a page between two steps;
\* ret: the caller to return to.  Within sbrk(-n), va is the new size.
Thread == [pc : PCs, va : 0 .. NVA, val : Values, tgt : Procs,
           i : 0 .. NVA, hi : 0 .. NVA, pa : Pages \cup {NoPage},
           ret : {"none", "usertrap", "copyout", "fork", "freeproc",
                  "shrink", "grow"}]

\* A thread that executes user code, or is at the start of a system call.
Idle(p) == [pc |-> "user", va |-> 0, val |-> Zero, tgt |-> p, i |-> 0,
            hi |-> 0, pa |-> NoPage, ret |-> "none"]

InUser(p) == state[p] = "LIVE" /\ th[p].pc = "user"
At(p, pc) == th[p].pc = pc

-----------------------------------------------------------------------------
(* kalloc.c                                                                *)
(*                                                                         *)
(* An operator whose comment starts with "Slip" is not part of the model:  *)
(* it is the operator below it with a plausible mistake, and shows that a  *)
(* property notices that mistake.                                          *)

\* Slip: the count of a page from the free list is left as it was.
kalloc_no_set_count(pa) ==
  /\ pa \in freelist
  /\ freelist' = freelist \ {pa}
  /\ mem' = [mem EXCEPT ![pa] = Junk]
  /\ UNCHANGED pte_count

\* Take page pa.  memset() and set_count() follow the critical section, but
\* nobody else knows the page yet.
kalloc(pa) ==
  /\ pa \in freelist
  /\ freelist' = freelist \ {pa}
  /\ pte_count' = [pte_count EXCEPT ![pa] = 1]
  /\ mem' = [mem EXCEPT ![pa] = Junk]

\* Slip: the page is freed while one reference remains.
kfree_early(pa) ==
  /\ pte_count' = [pte_count EXCEPT ![pa] = @ - 1]
  /\ IF pte_count[pa] - 1 > 1
     THEN UNCHANGED <<freelist, mem>>
     ELSE /\ freelist' = freelist \cup {pa}
          /\ mem' = [mem EXCEPT ![pa] = Junk]

\* Slip: the reference is dropped twice.
kfree_twice(pa) ==
  /\ pte_count' = [pte_count EXCEPT ![pa] = @ - 2]
  /\ IF pte_count[pa] - 2 > 0
     THEN UNCHANGED <<freelist, mem>>
     ELSE /\ freelist' = freelist \cup {pa}
          /\ mem' = [mem EXCEPT ![pa] = Junk]

\* Drop one reference; the last one returns the page to the free list.
kfree(pa) ==
  /\ pte_count' = [pte_count EXCEPT ![pa] = @ - 1]
  /\ IF pte_count[pa] - 1 > 0
     THEN UNCHANGED <<freelist, mem>>
     ELSE /\ freelist' = freelist \cup {pa}
          /\ mem' = [mem EXCEPT ![pa] = Junk]

safe_inc_count(pa) == pte_count' = [pte_count EXCEPT ![pa] = @ + 1]

-----------------------------------------------------------------------------
(* Stores by user code and by copyout(), and the copy-on-write fault *)

UserMayStore(pte) == Valid(pte) /\ {"U", "W"} \subseteq pte.flags
IsCow(pte) == Valid(pte) /\ {"U", "COW"} \subseteq pte.flags

\* The MMU lets the store through.
Store(p, va, v) ==
  /\ InUser(p)
  /\ UserMayStore(pgtbl[p][va])
  /\ mem' = [mem EXCEPT ![pgtbl[p][va].pa] = v]
  /\ UNCHANGED <<freelist, pte_count, pgtbl, sz, state, th>>

\* The MMU raises a store page fault (scause 15) and usertrap() calls
\* cow_page_fault().  If that fails, usertrap() executes "return", although
\* uservec jumped to it without a return address.
StoreFault(p, va) ==
  /\ InUser(p)
  /\ ~UserMayStore(pgtbl[p][va])
  /\ th' = [th EXCEPT ![p] =
              IF IsCow(pgtbl[p][va])
              THEN [@ EXCEPT !.pc = "cow_alloc", !.va = va, !.ret = "usertrap"]
              ELSE [@ EXCEPT !.pc = "usertrap_return"]]
  /\ UNCHANGED <<freelist, pte_count, mem, pgtbl, sz, state>>

\* copyout() to a user page: the page is made private if it is marked COW;
\* otherwise the bytes are moved whatever PTE_W says.  (On a page that is
\* not valid or not a user page it returns -1 and nothing changes.)
copyout(p, va, v) ==
  /\ InUser(p)
  /\ Valid(pgtbl[p][va])
  /\ "U" \in pgtbl[p][va].flags
  /\ IF "COW" \in pgtbl[p][va].flags
     THEN /\ th' = [th EXCEPT ![p] = [@ EXCEPT !.pc = "cow_alloc", !.va = va,
                                               !.val = v, !.ret = "copyout"]]
          /\ UNCHANGED mem
     ELSE /\ mem' = [mem EXCEPT ![pgtbl[p][va].pa] = v]
          /\ UNCHANGED th
  /\ UNCHANGED <<freelist, pte_count, pgtbl, sz, state>>

\* cow_page_fault(), first step: get a new page or return -1 to the caller.
CowAlloc(p) ==
  /\ At(p, "cow_alloc")
  /\ \/ \E pa \in freelist :
          /\ kalloc(pa)
          /\ th' = [th EXCEPT ![p] = [@ EXCEPT !.pc = "cow_copy", !.pa = pa]]
     \/ /\ freelist = {}
        /\ th' = [th EXCEPT ![p] =
                    IF @.ret = "usertrap"
                    THEN [Idle(p) EXCEPT !.pc = "usertrap_return"]
                    ELSE Idle(p)]
        /\ UNCHANGED <<freelist, pte_count, mem>>
  /\ UNCHANGED <<pgtbl, sz, state>>

\* Slip: the new page is mapped without memmove().
CowCopy_no_memmove(p) ==
  LET old == pgtbl[p][th[p].va] IN
  /\ At(p, "cow_copy")
  /\ pgtbl' = [pgtbl EXCEPT ![p][th[p].va] =
                 [pa |-> th[p].pa, flags |-> (old.flags \cup {"W"}) \ {"COW"}]]
  /\ th' = [th EXCEPT ![p] = [@ EXCEPT !.pc = "cow_free", !.pa = old.pa]]
  /\ UNCHANGED <<freelist, pte_count, mem, sz, state>>

\* Second step: copy the old page and point the PTE to the copy.  The old
\* page stays referenced by the local variable old_pa (th.pa from here on).
CowCopy(p) ==
  LET new == th[p].pa
      old == pgtbl[p][th[p].va]
  IN
  /\ At(p, "cow_copy")
  /\ mem' = [mem EXCEPT ![new] = mem[old.pa]]
  /\ pgtbl' = [pgtbl EXCEPT ![p][th[p].va] =
                 [pa |-> new, flags |-> (old.flags \cup {"W"}) \ {"COW"}]]
  /\ th' = [th EXCEPT ![p] = [@ EXCEPT !.pc = "cow_free", !.pa = old.pa]]
  /\ UNCHANGED <<freelist, pte_count, sz, state>>

\* Slip: the old page is not released.
CowFree_no_kfree(p) ==
  /\ At(p, "cow_free")
  /\ th' = [th EXCEPT ![p] = Idle(p)]
  /\ UNCHANGED <<freelist, pte_count, mem, pgtbl, sz, state>>

\* Third step: drop the reference to the old page.
CowFree(p) ==
  /\ At(p, "cow_free")
  /\ kfree(th[p].pa)
  /\ th' = [th EXCEPT ![p] = IF @.ret = "usertrap" THEN Idle(p)
                             ELSE [@ EXCEPT !.pc = "copyout_write",
                                            !.pa = NoPage]]
  /\ UNCHANGED <<pgtbl, sz, state>>

\* Back in copyout(): walkaddr() finds the private page, memmove() fills it.
CopyoutWrite(p) ==
  /\ At(p, "copyout_write")
  /\ mem' = [mem EXCEPT ![pgtbl[p][th[p].va].pa] = th[p].val]
  /\ th' = [th EXCEPT ![p] = Idle(p)]
  /\ UNCHANGED <<freelist, pte_count, pgtbl, sz, state>>

-----------------------------------------------------------------------------
(* fork() *)

\* allocproc() found an UNUSED slot and could build an empty page table.
Fork(p, np) ==
  /\ InUser(p)
  /\ state[np] = "UNUSED"
  /\ state' = [state EXCEPT ![np] = "USED"]
  /\ th' = [th EXCEPT ![p] = [@ EXCEPT !.pc = "uvmcopy", !.tgt = np]]
  /\ UNCHANGED <<freelist, pte_count, mem, pgtbl, sz>>

\* Slip: the shared page stays writable.
SharedPte_keeps_W(pte) == [pte EXCEPT !.flags = @ \cup {"COW"}]

\* The PTE that parent and child share from now on.
SharedPte(pte) == [pte EXCEPT !.flags = (@ \ {"W"}) \cup {"COW"}]

\* Slip: the undo also covers the page that was not mapped.
UvmcopyUndo_off_by_one(t) ==
  [t EXCEPT !.pc = "uvmunmap", !.i = 0, !.hi = t.i + 1, !.ret = "fork"]

\* uvmcopy() gives up at page th.i: unmap the pages before it.
UvmcopyUndo(t) ==
  [t EXCEPT !.pc = "uvmunmap", !.i = 0, !.hi = t.i, !.ret = "fork"]

\* One iteration of uvmcopy(): mark the parent's PTE, count the reference,
\* then map the page in the child, which may fail for lack of memory.
UvmcopyPage(p) ==
  LET i  == th[p].i
      np == th[p].tgt
      pte == SharedPte(pgtbl[p][i])
  IN
  /\ At(p, "uvmcopy")
  /\ i < sz[p]
  /\ Valid(pgtbl[p][i])                 \* else panic: page not present
  /\ ~Valid(pgtbl[np][i])               \* else panic: remap
  /\ safe_inc_count(pte.pa)
  /\ \/ /\ pgtbl' = [pgtbl EXCEPT ![p][i] = pte, ![np][i] = pte]
        /\ th' = [th EXCEPT ![p].i = @ + 1]
     \/ /\ MapMayFail
        /\ pte_count[pte.pa] < MaxCount
        /\ pgtbl' = [pgtbl EXCEPT ![p][i] = pte]
        /\ th' = [th EXCEPT ![p] = UvmcopyUndo(@)]
  /\ UNCHANGED <<freelist, mem, sz, state>>

\* The rest of fork(): the child becomes RUNNABLE.
ForkDone(p) ==
  LET np == th[p].tgt IN
  /\ At(p, "uvmcopy")
  /\ th[p].i = sz[p]
  /\ sz' = [sz EXCEPT ![np] = sz[p]]
  /\ state' = [state EXCEPT ![np] = "LIVE"]
  /\ th' = [th EXCEPT ![p] = Idle(p)]
  /\ UNCHANGED <<freelist, pte_count, mem, pgtbl>>

-----------------------------------------------------------------------------
(* exit(), wait() and growproc() *)

Exit(p) ==
  /\ InUser(p)
  /\ p # initproc                       \* else panic: init exiting
  /\ state' = [state EXCEPT ![p] = "ZOMBIE"]
  /\ UNCHANGED <<freelist, pte_count, mem, pgtbl, sz, th>>

\* The parent, or init after reparenting, finds zombie q in wait() or
\* waitx() and starts freeproc(q); who is the parent is left open.
\* A zombie has one reaper, because wait() holds q's lock throughout.
Wait(p, q) ==
  /\ InUser(p)
  /\ state[q] = "ZOMBIE"
  /\ \A r \in Procs : ~(At(r, "uvmunmap") /\ th[r].tgt = q)
  /\ th' = [th EXCEPT ![p] = [@ EXCEPT !.pc = "uvmunmap", !.tgt = q, !.i = 0,
                                       !.hi = sz[q], !.ret = "freeproc"]]
  /\ UNCHANGED <<freelist, pte_count, mem, pgtbl, sz, state>>

\* sbrk(n) with n > 0.
Grow(p, n) ==
  /\ InUser(p)
  /\ sz[p] + n <= NVA
  /\ th' = [th EXCEPT ![p] = [@ EXCEPT !.pc = "uvmalloc", !.i = sz[p],
                                       !.hi = sz[p] + n, !.ret = "grow"]]
  /\ UNCHANGED <<freelist, pte_count, mem, pgtbl, sz, state>>

\* sbrk(-n): uvmdealloc() unmaps the top n pages.
Shrink(p, n) ==
  /\ InUser(p)
  /\ n <= sz[p]
  /\ th' = [th EXCEPT ![p] = [@ EXCEPT !.pc = "uvmunmap", !.i = sz[p] - n,
                                       !.hi = sz[p], !.va = sz[p] - n,
                                       !.ret = "shrink"]]
  /\ UNCHANGED <<freelist, pte_count, mem, pgtbl, sz, state>>

\* uvmalloc() gives up at page th.i: uvmdealloc() of what it has mapped.
GrowUndo(t, from) ==
  [t EXCEPT !.pc = "uvmunmap", !.i = from, !.hi = t.i, !.pa = NoPage]

\* One iteration of uvmalloc(): kalloc(), then (next action) mappages().
UvmallocPage(p) ==
  /\ At(p, "uvmalloc")
  /\ th[p].i < th[p].hi
  /\ \/ \E pa \in freelist :
          /\ kalloc(pa)
          /\ th' = [th EXCEPT ![p] = [@ EXCEPT !.pc = "uvmalloc_map",
                                               !.pa = pa]]
     \/ /\ freelist = {}
        /\ th' = [th EXCEPT ![p] = GrowUndo(@, sz[p])]
        /\ UNCHANGED <<freelist, pte_count, mem>>
  /\ UNCHANGED <<pgtbl, sz, state>>

UvmallocMap(p) ==
  LET i == th[p].i
      pa == th[p].pa
  IN
  /\ At(p, "uvmalloc_map")
  /\ ~Valid(pgtbl[p][i])                \* else panic: remap
  /\ \/ /\ mem' = [mem EXCEPT ![pa] = Zero]
        /\ pgtbl' = [pgtbl EXCEPT ![p][i] = [pa |-> pa, flags |-> {"U", "W"}]]
        /\ th' = [th EXCEPT ![p] = [@ EXCEPT !.pc = "uvmalloc", !.i = i + 1,
                                             !.pa = NoPage]]
        /\ UNCHANGED <<freelist, pte_count>>
     \/ /\ MapMayFail
        /\ kfree(pa)
        /\ th' = [th EXCEPT ![p] = GrowUndo(@, sz[p])]
        /\ UNCHANGED pgtbl
  /\ UNCHANGED <<sz, state>>

GrowDone(p) ==
  /\ At(p, "uvmalloc")
  /\ th[p].i = th[p].hi
  /\ sz' = [sz EXCEPT ![p] = th[p].hi]
  /\ th' = [th EXCEPT ![p] = Idle(p)]
  /\ UNCHANGED <<freelist, pte_count, mem, pgtbl, state>>

\* One iteration of uvmunmap(.., do_free = 1).  The PTE is cleared after
\* kfree() has released kmem.lock, but the table has no other user.
UvmunmapPage(p) ==
  LET i == th[p].i
      q == th[p].tgt
  IN
  /\ At(p, "uvmunmap")
  /\ i < th[p].hi
  /\ Valid(pgtbl[q][i])                 \* else panic: not mapped
  /\ kfree(pgtbl[q][i].pa)
  /\ pgtbl' = [pgtbl EXCEPT ![q][i] = NoPte]
  /\ th' = [th EXCEPT ![p].i = @ + 1]
  /\ UNCHANGED <<sz, state>>

\* What the caller of uvmunmap() does next: fork() frees the slot of the
\* child, wait() that of the zombie, sbrk() records the new size (which is
\* the old one if uvmalloc() failed).
UvmunmapDone(p) ==
  LET q == th[p].tgt
      ret == th[p].ret
  IN
  /\ At(p, "uvmunmap")
  /\ th[p].i = th[p].hi
  /\ state' = IF ret \in {"fork", "freeproc"}
              THEN [state EXCEPT ![q] = "UNUSED"] ELSE state
  /\ sz' = CASE ret = "freeproc" -> [sz EXCEPT ![q] = 0]
             [] ret = "shrink" -> [sz EXCEPT ![p] = th[p].va]
             [] OTHER -> sz
  /\ th' = [th EXCEPT ![p] = Idle(p)]
  /\ UNCHANGED <<freelist, pte_count, mem, pgtbl>>

-----------------------------------------------------------------------------
\* kinit() has freed every page; userinit() and the first exec() have built
\* the image of init, whose content is taken to be Zero.
Init ==
  \E image \in [DOMAIN InitFlags -> Pages] :
    LET used == {image[i] : i \in DOMAIN InitFlags} IN
    /\ \A i, j \in DOMAIN InitFlags : image[i] = image[j] => i = j
    /\ freelist = Pages \ used
    /\ pte_count = [pa \in Pages |-> IF pa \in used THEN 1 ELSE 0]
    /\ mem = [pa \in Pages |-> IF pa \in used THEN Zero ELSE Junk]
    /\ pgtbl = [p \in Procs |-> [va \in VAs |->
                  IF p = initproc /\ va < InitSz
                  THEN [pa |-> image[va], flags |-> InitFlags[va]]
                  ELSE NoPte]]
    /\ sz = [p \in Procs |-> IF p = initproc THEN InitSz ELSE 0]
    /\ state = [p \in Procs |-> IF p = initproc THEN "LIVE" ELSE "UNUSED"]
    /\ th = [p \in Procs |-> Idle(p)]

\* Steps of one process that need no argument.
KernelStep(p) ==
  \/ CowAlloc(p) \/ CowCopy(p) \/ CowFree(p) \/ CopyoutWrite(p)
  \/ UvmcopyPage(p) \/ ForkDone(p) \/ Exit(p)
  \/ UvmallocPage(p) \/ UvmallocMap(p) \/ GrowDone(p)
  \/ UvmunmapPage(p) \/ UvmunmapDone(p)

Next ==
  \E p \in Procs :
    \/ KernelStep(p)
    \/ \E va \in VAs : StoreFault(p, va)
    \/ \E va \in VAs, v \in Values : Store(p, va, v) \/ copyout(p, va, v)
    \/ \E q \in Procs : Fork(p, q) \/ Wait(p, q)
    \/ \E n \in 1 .. NVA : Grow(p, n) \/ Shrink(p, n)

Spec == Init /\ [][Next]_vars

-----------------------------------------------------------------------------
(* Properties *)

TypeOK ==
  /\ freelist \subseteq Pages
  /\ pte_count \in [Pages -> Nat]
  /\ mem \in [Pages -> Values \cup {Junk}]
  /\ pgtbl \in [Procs -> [VAs -> Pte]]
  /\ sz \in [Procs -> 0 .. NVA]
  /\ state \in [Procs -> {"UNUSED", "USED", "LIVE", "ZOMBIE"}]
  /\ th \in [Procs -> Thread]

\* The places that can refer to a page: PTE number k of process p or, as
\* number NVA, the local variable of p's kernel thread.
Slots == Procs \X (0 .. NVA)
PageAt(s) == IF s[2] < NVA THEN pgtbl[s[1]][s[2]].pa ELSE th[s[1]].pa
Refs(pa) == {s \in Slots : PageAt(s) = pa}

\* A page on kmem.freelist is referred to by no page table and by no fault
\* handler or sbrk() that is half way: kfree() frees a page only when the
\* last reference goes, however forks, faults and exits interleave.
NoDanglingPage == \A pa \in freelist : Refs(pa) = {}

\* kmem.pte_count never understates the references to an allocated page.
CountCoversRefs ==
  \A pa \in Pages \ freelist : pte_count[pa] >= Cardinality(Refs(pa))

\* References that may have company: a PTE marked PTE_COW, and old_pa in
\* cow_page_fault() once the PTE has been moved to the copy.
MayShare(s) ==
  IF s[2] < NVA THEN "COW" \in pgtbl[s[1]][s[2]].flags
                ELSE At(s[1], "cow_free")

\* A page reached through a PTE that is not marked COW, or fresh from
\* kalloc(), has no second reference, and a COW page is never writable:
\* what one process can write, no other process can see.
SoleOwner ==
  /\ \A s, t \in Slots :
       PageAt(s) = PageAt(t) /\ PageAt(s) # NoPage /\ s # t => MayShare(s)
  /\ \A p \in Procs, va \in VAs : ~({"W", "COW"} \subseteq pgtbl[p][va].flags)

\* None of the panics of vm.c is reached: uvmcopy() finds every page of the
\* parent present and none mapped in the child, mappages() never remaps,
\* uvmunmap() finds what it unmaps, and freewalk() finds no leaf when fork()
\* or wait() gives the page table back.
NoPanic ==
  \A p \in Procs :
    LET t == th[p] IN
    /\ At(p, "uvmcopy") /\ t.i < sz[p] =>
         Valid(pgtbl[p][t.i]) /\ ~Valid(pgtbl[t.tgt][t.i])
    /\ At(p, "uvmalloc_map") => ~Valid(pgtbl[p][t.i])
    /\ At(p, "uvmunmap") /\ t.i < t.hi => Valid(pgtbl[t.tgt][t.i])
    /\ At(p, "uvmunmap") /\ t.i = t.hi /\ t.ret \in {"fork", "freeproc"} =>
         \A va \in VAs : ~Valid(pgtbl[t.tgt][va])

\* With enough page-table memory (MapMayFail = FALSE) the count is exact and
\* no page is lost: what is not on the free list is in use.
NoLostPage ==
  \A pa \in Pages :
    /\ pte_count[pa] = Cardinality(Refs(pa))
    /\ pa \notin freelist => Refs(pa) # {}

\* Every process sees a private memory: CowVm implements PrivateMemory.
PM == INSTANCE PrivateMemory WITH
        Unmapped <- NoPage,
        live <- {p \in Procs : state[p] = "LIVE"},
        view <- [p \in Procs |-> [va \in VAs |->
                   IF state[p] = "LIVE" /\ Valid(pgtbl[p][va])
                   THEN mem[pgtbl[p][va].pa] ELSE NoPage]]
PrivateMemorySpec == PM!Spec

-----------------------------------------------------------------------------
(* What comments and tests of the repository say, and the code does not do *)

\* usertests.c:2424: "check that writes to text segment fault".  A page
\* without PTE_W in the image of init is writable in no process.
TextStaysReadOnly ==
  \A p \in Procs, va \in DOMAIN InitFlags :
    "W" \notin InitFlags[va] /\ sz[p] >= InitSz
      => "W" \notin pgtbl[p][va].flags

=============================================================================
