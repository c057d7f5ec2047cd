------------------------------ MODULE SysExec ------------------------------
(***************************************************************************)
(* exec(): sys_exec() copies the arguments into pages of their own, exec() *)
(* builds a second address space from the file and puts it in the place of *)
(* the first.  Any allocation, any read of the file and any copy may fail, *)
(* and what was built until then has to be undone.                         *)
(*                                                                         *)
(* Sizes and addresses are in half pages, so that rounding to pages shows. *)
(* An address space is the set of its leaf mappings (user page numbers,    *)
(* the trampoline and the trapframe) and the number of its table pages.    *)
(***************************************************************************)
EXTENDS Integers, FiniteSets

CONSTANTS MAXARG, MaxSegments,
          OldSizes,    \* p->sz before the first exec(), as sbrk() leaves it
          Segments     \* program headers: [load, vaddr, filesz, memsz]

VARIABLES
  pc,          \* place in sys_exec() and exec()
  argn,        \* argument pages
  image,       \* p->pagetable and p->sz
  new, sz,     \* pagetable and sz of exec(); NoSpace is a null pointer
  seg,         \* the segment being loaded, and how far uvmalloc() has got
  segs,        \* segments so far
  owned,       \* pages taken from kalloc() and not given back
  ip,          \* exec()'s ip is not null
  held,        \* times the file is held: the log operation, reference and lock
  panicked

vars == <<pc, argn, image, new, sz, seg, segs, owned, ip, held, panicked>>

PGSIZE == 2
PGROUNDUP(n) == n + (n % PGSIZE)
Pages(n) == PGROUNDUP(n) \div PGSIZE
TRAMPOLINE == 99    \* page numbers above all user pages
TRAPFRAME == 98
Kern == {TRAMPOLINE, TRAPFRAME}
NoSpace == [leaves |-> {}, tables |-> 0]
UserPages(n) == 0 .. Pages(n) - 1
\* A root, two tables for the top of the address space, two for user pages.
Space(n) == [leaves |-> UserPages(n) \cup Kern, tables |-> IF n = 0 THEN 3 ELSE 5]
NoSeg == [load |-> FALSE, vaddr |-> 0, filesz |-> 0, memsz |-> 0, at |-> 0]

PagesOf(space) == Cardinality(space.leaves \ Kern) + space.tables

Init ==
  /\ pc = "user" /\ argn = 0
  /\ image \in {[space |-> Space(n), sz |-> n] : n \in OldSizes}
  /\ new = NoSpace /\ sz = 0
  /\ seg = NoSeg /\ segs = 0
  /\ owned = PagesOf(image.space)
  /\ ip = FALSE /\ held = 0
  /\ panicked = FALSE

-----------------------------------------------------------------------------
\* proc_freepagetable() and uvmfree(): uvmunmap() panics on a page that is not
\* mapped, freewalk() on one that is still mapped.
FreeSpace(space, n) ==
  /\ panicked' = (panicked \/ space.leaves # UserPages(n) \cup Kern)
  /\ owned' = owned - PagesOf(space)

\* The loops at the end of sys_exec() that free the arguments.
SysExecReturn ==
  /\ pc = "return"
  /\ owned' = owned - argn
  /\ argn' = 0
  /\ pc' = "user"
  /\ UNCHANGED <<image, new, sz, seg, segs, ip, held, panicked>>

sys_exec ==
  /\ pc = "user"
  /\ pc' = "args"
  /\ UNCHANGED <<argn, image, new, sz, seg, segs, owned, ip, held, panicked>>

\* One argument: too many of them, a bad pointer, no memory; or its page is
\* taken, and then its string may be bad.
SysExecArg ==
  /\ pc = "args"
  /\ \/ pc' = "return" /\ UNCHANGED <<argn, owned>>
     \/ /\ argn < MAXARG
        /\ argn' = argn + 1 /\ owned' = owned + 1
        /\ pc' \in {"args", "return"}
  /\ UNCHANGED <<image, new, sz, seg, segs, ip, held, panicked>>

\* exec() up to the first allocation: namei() fails, or the header is bad.
execStart ==
  /\ pc = "args" /\ argn < MAXARG
  /\ \/ pc' = "return" /\ UNCHANGED <<ip, held>>
     \/ /\ ip' = TRUE /\ held' = held + 1
        /\ pc' \in {"bad", "uvmcreate"}
  /\ UNCHANGED <<argn, image, new, sz, seg, segs, owned, panicked>>

\* proc_pagetable(): when mappages() fails after it has allocated some of the
\* tables, uvmfree() gives all of them back.
proc_pagetable ==
  /\ pc = "uvmcreate"
  /\ \/ pc' = "bad" /\ UNCHANGED <<new, owned>>
     \/ new' = Space(0) /\ owned' = owned + PagesOf(Space(0)) /\ pc' = "phdr"
  /\ UNCHANGED <<argn, image, sz, seg, segs, ip, held, panicked>>

-----------------------------------------------------------------------------
\* A program header: it cannot be read, is not to be loaded, is inconsistent,
\* or tells uvmalloc() how far to grow.
ProgHeader ==
  /\ pc = "phdr" /\ segs < MaxSegments
  /\ segs' = segs + 1
  /\ \/ pc' = "bad" /\ UNCHANGED seg
     \/ \E ph \in Segments :
          /\ seg' = [ph EXCEPT !.at = Pages(sz)]
          /\ pc' = IF ~ph.load THEN "phdr"
                   ELSE IF ph.memsz < ph.filesz \/ ph.vaddr % PGSIZE # 0 THEN "bad"
                   ELSE "uvmalloc"
  /\ UNCHANGED <<argn, image, new, sz, owned, ip, held, panicked>>

SegEnd == seg.vaddr + seg.memsz

\* uvmdealloc(pagetable, a, oldsz), for the pages of this call.
Dealloc ==
  LET undone == {k \in new.leaves \ Kern : k >= Pages(sz) /\ k < seg.at} IN
  /\ new' = [new EXCEPT !.leaves = @ \ undone]
  /\ owned' = owned - Cardinality(undone)

\* A page of uvmalloc(): a page and, for the first one, two tables.
UvmallocPage ==
  /\ pc \in {"uvmalloc", "stack"}
  /\ seg.at < Pages(SegEnd)
  /\ LET first == new.leaves = Kern /\ new.tables = 3
         tables == IF first THEN 2 ELSE 0 IN
     /\ new' = [leaves |-> new.leaves \cup {seg.at}, tables |-> new.tables + tables]
     /\ owned' = owned + 1 + tables
  /\ seg' = [seg EXCEPT !.at = @ + 1]
  /\ UNCHANGED <<pc, argn, image, sz, segs, ip, held, panicked>>

\* kalloc() or mappages() fails; a table that was added stays in the tree.
UvmallocFails ==
  /\ pc \in {"uvmalloc", "stack"}
  /\ seg.at < Pages(SegEnd)
  /\ \/ Dealloc
     \/ /\ new.leaves = Kern /\ new.tables < 5
        /\ new' = [new EXCEPT !.tables = @ + 1]
        /\ owned' = owned + 1
  /\ pc' = "bad"
  /\ UNCHANGED <<argn, image, sz, seg, segs, ip, held, panicked>>

NewSize == IF SegEnd < sz THEN sz ELSE SegEnd

\* loadseg() panics if a page that it reads a piece of the file into is not there.
Loaded == \A k \in 0 .. seg.filesz - 1 : (seg.vaddr + k) \div PGSIZE \in new.leaves

\* uvmalloc() returns the new size; a size of 0 reads as a failure.  Then the
\* segment is loaded, as far as the file can be read.
UvmallocDone ==
  /\ pc = "uvmalloc"
  /\ seg.at >= Pages(SegEnd)
  /\ IF NewSize = 0
     THEN pc' = "bad" /\ UNCHANGED <<sz, panicked>>
     ELSE /\ sz' = NewSize
          /\ panicked' = (panicked \/ ~Loaded)
          /\ pc' \in {"phdr", "bad"}
  /\ UNCHANGED <<argn, image, new, seg, segs, owned, ip, held>>

-----------------------------------------------------------------------------
\* All headers are read: the file is given up, and two more pages are added
\* at the next page boundary.
FileDone ==
  /\ pc = "phdr"
  /\ ip' = FALSE /\ held' = held - 1
  /\ sz' = PGROUNDUP(sz)
  /\ seg' = [NoSeg EXCEPT !.vaddr = sz', !.memsz = 2 * PGSIZE, !.at = Pages(sz)]
  /\ pc' = "stack"
  /\ UNCHANGED <<argn, image, new, segs, owned, panicked>>

\* The arguments are pushed, which may fail.
PushArgs ==
  /\ pc = "stack"
  /\ seg.at >= Pages(SegEnd)
  /\ sz' = SegEnd
  /\ pc' \in {"bad", "commit"}
  /\ UNCHANGED <<argn, image, new, seg, segs, owned, ip, held, panicked>>

\* Slip: the old address space is freed with the size of the new one.
OldSize_new == sz
OldSize == image.sz

Reset == new' = NoSpace /\ sz' = 0 /\ seg' = NoSeg /\ segs' = 0 /\ pc' = "return"

\* The end of exec(): the new image takes the place of the old.
Commit ==
  /\ pc = "commit"
  /\ image' = [space |-> new, sz |-> sz]
  /\ FreeSpace(image.space, OldSize)
  /\ Reset
  /\ UNCHANGED <<argn, ip, held>>

Bad ==
  /\ pc = "bad"
  /\ IF new = NoSpace THEN UNCHANGED <<owned, panicked>> ELSE FreeSpace(new, sz)
  /\ held' = IF ip THEN held - 1 ELSE held
  /\ ip' = FALSE
  /\ Reset
  /\ UNCHANGED <<argn, image>>

Next ==
  \/ sys_exec \/ SysExecArg \/ SysExecReturn
  \/ execStart \/ proc_pagetable
  \/ ProgHeader \/ UvmallocPage \/ UvmallocFails \/ UvmallocDone
  \/ FileDone \/ PushArgs \/ Commit \/ Bad

-----------------------------------------------------------------------------
\* Back in user space, a process owns the pages of its own image and no other,
\* and nothing of the file, however exec() ended; the sizes kept beside the two
\* page tables are those they were built with, so that freeing never panics.
OneImage ==
  /\ ~panicked
  /\ image.space.leaves = UserPages(image.sz) \cup Kern
  /\ pc = "user" => owned = PagesOf(image.space) /\ held = 0
=============================================================================
