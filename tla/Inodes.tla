------------------------------- MODULE Inodes -------------------------------
(***************************************************************************)
(* The inode table, directories and path names of fs.c, and the system     *)
(* calls of sysfile.c that work on them.  A step of a process is a section *)
(* under one inode's sleep-lock, or one critical section of itable.lock.   *)
(*                                                                         *)
(* A path is a sequence of names, from the root or from the current        *)
(* directory.  File contents are the business of FileBlocks, transactions  *)
(* of Log; a directory entry that cannot be written for lack of blocks is  *)
(* a choice.  The table has a slot for every inode there is (NINODE never  *)
(* runs out), and a process has one file descriptor.                       *)
(***************************************************************************)
EXTENDS Naturals, Sequences, FiniteSets, FiniteSetsExt

CONSTANTS Procs, Nobody,
          Names,      \* names of directory entries beside . and ..
          NInodes,    \* inodes of the disk; the first one is the root
          Calls,      \* system calls and their paths: [op, abs, names]
          NewPaths,   \* second paths of link()
          MaxCalls    \* bound on the calls that are made

Inums == 1 .. NInodes
Slots == Inums
ROOTINO == 1
EntryNames == Names \cup {".", ".."}
Ops == {"open", "create", "mkdir", "mknod", "link", "unlink", "chdir"}

ASSUME InodesAssumption ==
  /\ IsFiniteSet(Procs) /\ Nobody \notin Procs
  /\ IsFiniteSet(Names) /\ Names # {} /\ "." \notin Names /\ ".." \notin Names
  /\ NInodes \in Nat /\ NInodes >= 2
  /\ \A c \in Calls : c.op \in Ops /\ c.abs \in BOOLEAN /\ c.names \in Seq(EntryNames)
  /\ \A c \in NewPaths : c.abs \in BOOLEAN /\ c.names \in Seq(EntryNames)
  /\ MaxCalls \in Nat

VARIABLES
  itable,  \* itable.inode[]: inum, ref, valid, lock and the cached fields
  dinode,  \* type and nlink of the inodes on disk
  ents,    \* content of the directories: name -> inum, 0 if there is none
  th,      \* what a process is doing
  cwd,     \* p->cwd, a slot
  ofile,   \* the open file's inode, or 0
  panic,   \* message of the panic that has stopped the system, or "none"
  calls,   \* system calls made so far
  astray   \* history: .. has been looked up in a directory that was removed

vars == <<itable, dinode, ents, th, cwd, ofile, panic, calls, astray>>

\* ip and dp: the inodes a process has a reference to; put: those it is going
\* to drop before it goes on, each with how far iunlockput() has come.
IdleThread == [pc |-> "idle", op |-> "none", rest |-> <<>>, name |-> "none",
               ip |-> 0, dp |-> 0, put |-> <<>>]

EmptySlot == [inum |-> 0, ref |-> 0, valid |-> FALSE, lock |-> Nobody,
              type |-> "free", nlink |-> 0]

NoEntries == [n \in EntryNames |-> 0]

\* mkfs has made a root directory whose . and .. are itself.  The calls under
\* study start from a chain of `depth` directories below it, each the only
\* entry of its parent, and processes that are anywhere in it.
Init ==
  \E depth \in 0 .. NInodes - 2 :
    LET Dirs == 1 .. depth + 1
        first == CHOOSE n \in Names : TRUE
        Up(i) == IF i = ROOTINO THEN ROOTINO ELSE i - 1
        Sub(i) == IF i \in 1 .. depth THEN i + 1 ELSE 0 IN
    /\ cwd \in [Procs -> Dirs]
    /\ itable = [s \in Slots |->
         LET n == Cardinality({p \in Procs : cwd[p] = s}) IN
         IF n > 0 THEN [EmptySlot EXCEPT !.inum = s, !.ref = n] ELSE EmptySlot]
    /\ dinode = [i \in Inums |->
         IF i \in Dirs THEN [type |-> "dir", nlink |-> IF i \in 1 .. depth THEN 2 ELSE 1]
         ELSE [type |-> "free", nlink |-> 0]]
    /\ ents = [i \in Inums |->
         IF i \in Dirs THEN [NoEntries EXCEPT !["."] = i, ![".."] = Up(i), ![first] = Sub(i)]
         ELSE NoEntries]
    /\ th = [p \in Procs |-> IdleThread]
    /\ ofile = [p \in Procs |-> 0]
    /\ panic = "none"
    /\ calls = 0
    /\ astray = FALSE

-----------------------------------------------------------------------------
(* The inode table. *)

\* iget(): the slot of inode i, or the first empty one.
IgetSlot(t, i) ==
  LET have == {s \in Slots : t[s].ref > 0 /\ t[s].inum = i} IN
  Min(IF have # {} THEN have ELSE {s \in Slots : t[s].ref = 0})

iget(t, i) ==
  LET s == IgetSlot(t, i) IN
  IF t[s].ref > 0 THEN [t EXCEPT ![s].ref = @ + 1]
  ELSE [t EXCEPT ![s].inum = i, ![s].ref = 1, ![s].valid = FALSE]

idup(t, s) == [t EXCEPT ![s].ref = @ + 1]

\* ilock() reads the inode if it is not valid.
Load(s) ==
  LET d == dinode[itable[s].inum] IN
  IF itable[s].valid THEN itable
  ELSE [itable EXCEPT ![s].valid = TRUE, ![s].type = d.type, ![s].nlink = d.nlink]

NoType(s) == ~itable[s].valid /\ dinode[itable[s].inum].type = "free"

\* A change of nlink, and iupdate().
SetNlink(t, s, n) == [t EXCEPT ![s].nlink = n]
iupdate(t, s) == [dinode EXCEPT ![t[s].inum] = [type |-> t[s].type, nlink |-> t[s].nlink]]

Locked(t, s, p) == [t EXCEPT ![s].lock = p]

\* The process is at a place where its next step is ilock(ip).
LockPlaces == {"namex", "found", "parent", "exists", "init", "bad", "child"}
Wants(p) == IF th[p].pc \in LockPlaces /\ th[p].put = <<>> THEN th[p].ip ELSE 0

\* The process may take ip's lock here.
AtLock(p, where) ==
  /\ panic = "none"
  /\ th[p].pc = where /\ th[p].put = <<>>
  /\ itable[th[p].ip].lock = Nobody
  /\ ~NoType(th[p].ip)

Stage(s, at) == [s |-> s, at |-> at]
Done(puts) == [IdleThread EXCEPT !.put = puts]

-----------------------------------------------------------------------------
(* iunlockput() of the first inode of put; iput() starts at "drop". *)
AtPut(p, stage) ==
  /\ panic = "none"
  /\ th[p].put # <<>>
  /\ Head(th[p].put).at = stage

Advance(p, stage) == th' = [th EXCEPT ![p].put[1].at = stage]

iunlock(p) ==
  LET s == Head(th[p].put).s IN
  /\ AtPut(p, "unlock")
  /\ itable' = Locked(itable, s, Nobody)
  /\ Advance(p, "drop")
  /\ UNCHANGED <<dinode, ents, cwd, ofile, panic, calls, astray>>

\* Slip: links are looked at, references are not.
LastUse_nlink(s) == itable[s].valid /\ itable[s].nlink = 0
\* Slip: references are looked at, links are not.
LastUse_ref(s) == itable[s].ref = 1 /\ itable[s].valid
LastUse(s) == itable[s].ref = 1 /\ itable[s].valid /\ itable[s].nlink = 0

iput(p) ==
  LET s == Head(th[p].put).s IN
  /\ AtPut(p, "drop")
  /\ ~LastUse(s)
  /\ itable' = [itable EXCEPT ![s].ref = @ - 1]
  /\ th' = [th EXCEPT ![p].put = Tail(@)]
  /\ UNCHANGED <<dinode, ents, cwd, ofile, panic, calls, astray>>

\* The inode is free when its last user has left: lock it, erase it ...
IputFree(p) ==
  LET s == Head(th[p].put).s IN
  /\ AtPut(p, "drop")
  /\ LastUse(s)
  /\ itable[s].lock = Nobody
  /\ itable' = Locked(itable, s, p)
  /\ Advance(p, "erase")
  /\ UNCHANGED <<dinode, ents, cwd, ofile, panic, calls, astray>>

IputErase(p) ==
  LET s == Head(th[p].put).s
      t == [itable EXCEPT ![s].type = "free"] IN
  /\ AtPut(p, "erase")
  /\ itable' = t
  /\ dinode' = iupdate(t, s)
  /\ ents' = [ents EXCEPT ![itable[s].inum] = NoEntries]
  /\ Advance(p, "release")
  /\ UNCHANGED <<cwd, ofile, panic, calls, astray>>

\* ... unlock it, and only then drop the reference.
IputRelease(p) ==
  LET s == Head(th[p].put).s IN
  /\ AtPut(p, "release")
  /\ itable' = [Locked(itable, s, Nobody) EXCEPT ![s].valid = FALSE]
  /\ Advance(p, "last")
  /\ UNCHANGED <<dinode, ents, cwd, ofile, panic, calls, astray>>

IputLast(p) ==
  LET s == Head(th[p].put).s IN
  /\ AtPut(p, "last")
  /\ itable' = [itable EXCEPT ![s].ref = @ - 1]
  /\ th' = [th EXCEPT ![p].put = Tail(@)]
  /\ UNCHANGED <<dinode, ents, cwd, ofile, panic, calls, astray>>

PutStep(p) ==
  iunlock(p) \/ iput(p) \/ IputFree(p) \/ IputErase(p) \/ IputRelease(p) \/ IputLast(p)

-----------------------------------------------------------------------------
(* Directories and paths. *)

\* The inode that name n of directory d names, or 0.
dirlookup(d, n) == ents[d][n]

\* The entries after dirlink() of inode i as name n of directory d.
dirlink(d, n, i) == [ents EXCEPT ![d][n] = i]

\* The entries that name inode i, . and .. aside.
Links(i) == {e \in Inums \X Names : ents[e[1]][e[2]] = i}

\* Whoever looks up name n of directory d goes up from a removed directory:
\* nothing keeps the inode that was its parent.
Look(d, n) ==
  astray' = (astray \/ (n = ".." /\ d # ROOTINO /\ Links(d) = {}))

\* The next name of a path, and what is left of it.
skipelem(path) == [name |-> Head(path), rest |-> Tail(path)]

WantsParent(op) == op \in {"create", "mkdir", "mknod", "unlink", "link2"}

\* The walk has failed; the second one of link() goes on at bad.
Failed(t, puts) ==
  IF t.op = "link2"
  THEN [t EXCEPT !.pc = "bad", !.rest = <<>>, !.ip = t.dp, !.dp = 0, !.put = puts]
  ELSE Done(puts)

\* namex() with the starting point s: a path without names has no parent.
Walk(t, s, names) ==
  LET u == [t EXCEPT !.ip = s, !.rest = names, !.pc = "namex"] IN
  CASE names # <<>> -> u
    [] names = <<>> /\ WantsParent(t.op) -> Failed(u, <<Stage(s, "drop")>>)
    [] OTHER -> [u EXCEPT !.pc = "found"]

StartWalk(p, t, path) ==
  LET tb == IF path.abs THEN iget(itable, ROOTINO) ELSE idup(itable, cwd[p])
      s == IF path.abs THEN IgetSlot(itable, ROOTINO) ELSE cwd[p] IN
  /\ itable' = tb
  /\ th' = [th EXCEPT ![p] = Walk(t, s, path.names)]

Syscall(p, c) ==
  /\ panic = "none"
  /\ th[p] = IdleThread
  /\ calls < MaxCalls
  /\ calls' = calls + 1
  /\ StartWalk(p, [IdleThread EXCEPT !.op = c.op], c)
  /\ UNCHANGED <<dinode, ents, cwd, ofile, panic, astray>>

\* Slip: the directory's reference is dropped before the next one is taken.
NextPut_none(s) == <<>>
NextPut(s) == <<Stage(s, "drop")>>

\* One turn of the loop of namex(), dirlookup() included.
namex(p) ==
  LET t == th[p]
      s == t.ip
      tb == Load(s)
      elem == skipelem(t.rest)
      next == dirlookup(itable[s].inum, elem.name)
      last == elem.rest = <<>> IN
  /\ AtLock(p, "namex")
  /\ CASE tb[s].type # "dir" ->
            /\ itable' = tb
            /\ th' = [th EXCEPT ![p] = Failed(t, <<Stage(s, "drop")>>)]
       [] tb[s].type = "dir" /\ last /\ WantsParent(t.op) ->
            /\ itable' = tb
            /\ th' = [th EXCEPT ![p].pc = "parent", ![p].name = elem.name, ![p].rest = <<>>]
       [] tb[s].type = "dir" /\ ~(last /\ WantsParent(t.op)) /\ next = 0 ->
            /\ itable' = tb
            /\ th' = [th EXCEPT ![p] = Failed(t, <<Stage(s, "drop")>>)]
       [] OTHER ->
            /\ itable' = iget(tb, next)
            /\ th' = [th EXCEPT ![p].pc = IF last THEN "found" ELSE "namex",
                                ![p].rest = elem.rest,
                                ![p].ip = IgetSlot(tb, next),
                                ![p].put = NextPut(s)]
  /\ IF tb[s].type = "dir" /\ ~(last /\ WantsParent(t.op)) THEN Look(itable[s].inum, elem.name)
     ELSE UNCHANGED astray
  /\ UNCHANGED <<dinode, ents, cwd, ofile, panic, calls>>

-----------------------------------------------------------------------------
(* open, mkdir, mknod, close. *)

\* ilock(ip) of open() without O_CREATE; a directory may only be read.
OpenFound(p) ==
  LET s == th[p].ip IN
  /\ AtLock(p, "found") /\ th[p].op = "open"
  /\ \/ /\ itable' = Locked(Load(s), s, p)
        /\ th' = [th EXCEPT ![p].pc = "opened"]
     \/ /\ Load(s)[s].type = "dir"
        /\ itable' = Load(s)
        /\ th' = [th EXCEPT ![p] = Done(<<Stage(s, "drop")>>)]
  /\ UNCHANGED <<dinode, ents, cwd, ofile, panic, calls, astray>>

\* Slip: iput() in the place of iunlockput().
DirReleased_not(t, s, p) == Locked(t, s, p)
DirReleased(t, s, p) == t

\* create() finds the name; the directory is let go before ip is locked.
CreateFinds(p) ==
  LET s == th[p].ip
      i == dirlookup(itable[s].inum, th[p].name)
      tb == Load(s) IN
  /\ AtLock(p, "parent") /\ th[p].op \in {"create", "mkdir", "mknod"}
  /\ i # 0
  /\ itable' = iget(DirReleased(tb, s, p), i)
  /\ th' = [th EXCEPT ![p].pc = "exists", ![p].ip = IgetSlot(tb, i), ![p].put = <<Stage(s, "drop")>>]
  /\ Look(itable[s].inum, th[p].name)
  /\ UNCHANGED <<dinode, ents, cwd, ofile, panic, calls>>

CreateExists(p) ==
  LET s == th[p].ip IN
  /\ AtLock(p, "exists")
  /\ IF th[p].op = "create" /\ Load(s)[s].type # "dir"
     THEN /\ itable' = Locked(Load(s), s, p)
          /\ th' = [th EXCEPT ![p].pc = "opened"]
     ELSE /\ itable' = Load(s)
          /\ th' = [th EXCEPT ![p] = Done(<<Stage(s, "drop")>>)]
  /\ UNCHANGED <<dinode, ents, cwd, ofile, panic, calls, astray>>

TypeOf(op) == CASE op = "create" -> "file" [] op = "mkdir" -> "dir" [] op = "mknod" -> "device"
FreeInums == {i \in Inums : dinode[i].type = "free"}

\* create() allocates an inode (ialloc), with the directory locked.
CreateAlloc(p) ==
  LET s == th[p].ip
      tb == Load(s)
      i == Min(FreeInums) IN
  /\ AtLock(p, "parent") /\ th[p].op \in {"create", "mkdir", "mknod"}
  /\ dirlookup(itable[s].inum, th[p].name) = 0
  /\ IF FreeInums = {}
     THEN /\ itable' = tb
          /\ th' = [th EXCEPT ![p] = Done(<<Stage(s, "drop")>>)]
          /\ UNCHANGED dinode
     ELSE /\ dinode' = [dinode EXCEPT ![i] = [type |-> TypeOf(th[p].op), nlink |-> 0]]
          /\ itable' = iget(Locked(tb, s, p), i)
          /\ th' = [th EXCEPT ![p].pc = "init", ![p].dp = s, ![p].ip = IgetSlot(tb, i)]
  /\ UNCHANGED <<ents, cwd, ofile, panic, calls, astray>>

\* The entries of a new inode of the given type in directory d.
NewEntries(i, d, type) ==
  IF type = "dir" THEN [ents[i] EXCEPT !["."] = i, ![".."] = d] ELSE ents[i]

\* The new inode is filled in and entered into the directory.
CreateLink(p) ==
  LET t == th[p]
      i == itable[t.ip].inum
      d == itable[t.dp].inum
      type == TypeOf(t.op)
      t1 == SetNlink(Locked(Load(t.ip), t.ip, p), t.ip, 1)
      t2 == IF type = "dir" THEN SetNlink(t1, t.dp, t1[t.dp].nlink + 1) ELSE t1 IN
  /\ AtLock(p, "init")
  /\ itable' = t2
  /\ dinode' = [iupdate(t2, t.dp) EXCEPT ![i] = [type |-> type, nlink |-> 1]]
  /\ ents' = [dirlink(d, t.name, i) EXCEPT ![i] = NewEntries(i, d, type)]
  /\ th' = [th EXCEPT ![p] =
       IF t.op = "create"
       THEN [t EXCEPT !.pc = "opened", !.dp = 0, !.put = <<Stage(t.dp, "unlock")>>]
       ELSE Done(<<Stage(t.dp, "unlock"), Stage(t.ip, "unlock")>>)]
  /\ UNCHANGED <<cwd, ofile, panic, calls, astray>>

\* dirlink() fails for lack of blocks: the inode is given up again.
CreateFail(p) ==
  LET t == th[p]
      i == itable[t.ip].inum
      t1 == SetNlink(Locked(Load(t.ip), t.ip, p), t.ip, 0) IN
  /\ AtLock(p, "init")
  /\ itable' = t1
  /\ dinode' = iupdate(t1, t.ip)
  /\ ents' = [ents EXCEPT ![i] = NewEntries(i, itable[t.dp].inum, TypeOf(t.op))]
  /\ th' = [th EXCEPT ![p] = Done(<<Stage(t.ip, "unlock"), Stage(t.dp, "unlock")>>)]
  /\ UNCHANGED <<cwd, ofile, panic, calls, astray>>

\* open() with ip locked: a file and a descriptor, or back out.
OpenFile(p) ==
  LET s == th[p].ip IN
  /\ panic = "none"
  /\ th[p].pc = "opened" /\ th[p].put = <<>>
  /\ ofile[p] = 0
  /\ ofile' = [ofile EXCEPT ![p] = s]
  /\ itable' = Locked(itable, s, Nobody)
  /\ th' = [th EXCEPT ![p] = IdleThread]
  /\ UNCHANGED <<dinode, ents, cwd, panic, calls, astray>>

OpenFail(p) ==
  /\ panic = "none"
  /\ th[p].pc = "opened" /\ th[p].put = <<>>
  /\ th' = [th EXCEPT ![p] = Done(<<Stage(th[p].ip, "unlock")>>)]
  /\ UNCHANGED <<itable, dinode, ents, cwd, ofile, panic, calls, astray>>

\* sys_close() of the last descriptor of a file: fileclose() drops the inode.
Close(p) ==
  /\ panic = "none"
  /\ th[p] = IdleThread /\ ofile[p] # 0
  /\ ofile' = [ofile EXCEPT ![p] = 0]
  /\ th' = [th EXCEPT ![p] = Done(<<Stage(ofile[p], "drop")>>)]
  /\ UNCHANGED <<itable, dinode, ents, cwd, panic, calls, astray>>

-----------------------------------------------------------------------------
(* link, unlink, chdir. *)

\* link() counts the new link first, so that the inode stays ...
LinkOld(p) ==
  LET s == th[p].ip
      tb == Load(s)
      t1 == SetNlink(tb, s, tb[s].nlink + 1) IN
  /\ AtLock(p, "found") /\ th[p].op = "link"
  /\ IF tb[s].type = "dir"
     THEN /\ itable' = tb
          /\ th' = [th EXCEPT ![p] = Done(<<Stage(s, "drop")>>)]
          /\ UNCHANGED dinode
     ELSE /\ itable' = t1
          /\ dinode' = iupdate(t1, s)
          /\ th' = [th EXCEPT ![p].pc = "link2"]
  /\ UNCHANGED <<ents, cwd, ofile, panic, calls, astray>>

LinkNew(p, path) ==
  /\ panic = "none"
  /\ th[p].pc = "link2"
  /\ StartWalk(p, [IdleThread EXCEPT !.op = "link2", !.dp = th[p].ip], path)
  /\ UNCHANGED <<dinode, ents, cwd, ofile, panic, calls, astray>>

\* ... and enters it, unless the name exists ...
LinkDir(p) ==
  LET t == th[p]
      s == t.ip
      tb == Load(s)
      d == itable[s].inum
      i == dirlookup(d, t.name) IN
  /\ AtLock(p, "parent") /\ t.op = "link2"
  /\ Look(d, t.name)
  /\ \/ /\ i # 0
        /\ itable' = Locked(iget(tb, i), s, p)
        /\ th' = [th EXCEPT ![p] = Failed(t, <<Stage(IgetSlot(tb, i), "drop"), Stage(s, "unlock")>>)]
        /\ UNCHANGED ents
     \/ /\ i = 0
        /\ itable' = tb
        /\ ents' = dirlink(d, t.name, itable[t.dp].inum)
        /\ th' = [th EXCEPT ![p] = Done(<<Stage(s, "drop"), Stage(t.dp, "drop")>>)]
     \/ /\ i = 0
        /\ itable' = tb
        /\ th' = [th EXCEPT ![p] = Failed(t, <<Stage(s, "drop")>>)]
        /\ UNCHANGED ents
  /\ UNCHANGED <<dinode, cwd, ofile, panic, calls>>

\* ... and takes the count back if not.
LinkBad(p) ==
  LET s == th[p].ip
      t1 == SetNlink(Load(s), s, Load(s)[s].nlink - 1) IN
  /\ AtLock(p, "bad")
  /\ itable' = t1
  /\ dinode' = iupdate(t1, s)
  /\ th' = [th EXCEPT ![p] = Done(<<Stage(s, "drop")>>)]
  /\ UNCHANGED <<ents, cwd, ofile, panic, calls, astray>>

UnlinkDir(p) ==
  LET t == th[p]
      s == t.ip
      tb == Load(s)
      i == dirlookup(itable[s].inum, t.name) IN
  /\ AtLock(p, "parent") /\ t.op = "unlink"
  /\ IF t.name \in {".", ".."} \/ i = 0
     THEN /\ itable' = tb
          /\ th' = [th EXCEPT ![p] = Done(<<Stage(s, "drop")>>)]
     ELSE /\ itable' = iget(Locked(tb, s, p), i)
          /\ th' = [th EXCEPT ![p].pc = "child", ![p].dp = s, ![p].ip = IgetSlot(tb, i)]
  /\ UNCHANGED <<dinode, ents, cwd, ofile, panic, calls, astray>>

isdirempty(i) == \A n \in Names : ents[i][n] = 0

\* The child is locked too; its entry goes if it is no directory or empty.
UnlinkChild(p) ==
  LET t == th[p]
      i == itable[t.ip].inum
      tb == Locked(Load(t.ip), t.ip, p)
      t1 == IF tb[t.ip].type = "dir" THEN SetNlink(tb, t.dp, tb[t.dp].nlink - 1) ELSE tb IN
  /\ AtLock(p, "child")
  /\ CASE tb[t.ip].nlink < 1 ->
            /\ panic' = "unlink: nlink < 1"
            /\ UNCHANGED <<itable, dinode, ents, th>>
       [] tb[t.ip].nlink >= 1 /\ tb[t.ip].type = "dir" /\ ~isdirempty(i) ->
            /\ itable' = tb
            /\ th' = [th EXCEPT ![p] = Done(<<Stage(t.ip, "unlock"), Stage(t.dp, "unlock")>>)]
            /\ UNCHANGED <<dinode, ents, panic>>
       [] OTHER ->
            /\ itable' = t1
            /\ dinode' = iupdate(t1, t.dp)
            /\ ents' = [ents EXCEPT ![itable[t.dp].inum][t.name] = 0]
            /\ th' = [th EXCEPT ![p].pc = "unlinked", ![p].dp = 0, ![p].put = <<Stage(t.dp, "unlock")>>]
            /\ UNCHANGED panic
  /\ UNCHANGED <<cwd, ofile, calls, astray>>

UnlinkDrop(p) ==
  LET s == th[p].ip
      t1 == SetNlink(itable, s, itable[s].nlink - 1) IN
  /\ panic = "none"
  /\ th[p].pc = "unlinked" /\ th[p].put = <<>>
  /\ itable' = t1
  /\ dinode' = iupdate(t1, s)
  /\ th' = [th EXCEPT ![p] = Done(<<Stage(s, "unlock")>>)]
  /\ UNCHANGED <<ents, cwd, ofile, panic, calls, astray>>

\* chdir() drops the old directory and only then changes p->cwd.
ChdirFound(p) ==
  LET s == th[p].ip IN
  /\ AtLock(p, "found") /\ th[p].op = "chdir"
  /\ itable' = Load(s)
  /\ th' = [th EXCEPT ![p] =
       IF Load(s)[s].type # "dir" THEN Done(<<Stage(s, "drop")>>)
       ELSE [th[p] EXCEPT !.pc = "cd", !.put = <<Stage(cwd[p], "drop")>>]]
  /\ UNCHANGED <<dinode, ents, cwd, ofile, panic, calls, astray>>

ChdirSet(p) ==
  /\ panic = "none"
  /\ th[p].pc = "cd" /\ th[p].put = <<>>
  /\ cwd' = [cwd EXCEPT ![p] = th[p].ip]
  /\ th' = [th EXCEPT ![p] = IdleThread]
  /\ UNCHANGED <<itable, dinode, ents, ofile, panic, calls, astray>>

\* ilock() of an inode that is free on disk.
IlockPanic(p) ==
  /\ panic = "none"
  /\ Wants(p) # 0
  /\ itable[Wants(p)].lock = Nobody
  /\ NoType(Wants(p))
  /\ panic' = "ilock: no type"
  /\ UNCHANGED <<itable, dinode, ents, th, cwd, ofile, calls, astray>>

\* The system has stopped, or made all the calls under study.
Halted ==
  /\ panic # "none" \/ (calls = MaxCalls /\ \A p \in Procs : th[p] = IdleThread)
  /\ UNCHANGED vars

-----------------------------------------------------------------------------
CallStep(p) ==
  \/ namex(p) \/ OpenFound(p) \/ OpenFile(p) \/ OpenFail(p) \/ Close(p)
  \/ CreateFinds(p) \/ CreateExists(p) \/ CreateAlloc(p) \/ CreateLink(p) \/ CreateFail(p)
  \/ LinkOld(p) \/ LinkDir(p) \/ LinkBad(p)
  \/ UnlinkDir(p) \/ UnlinkChild(p) \/ UnlinkDrop(p)
  \/ ChdirFound(p) \/ ChdirSet(p)

Next ==
  \/ \E p \in Procs : \/ \E c \in Calls : Syscall(p, c)
                      \/ \E path \in NewPaths : LinkNew(p, path)
                      \/ CallStep(p) \/ PutStep(p) \/ IlockPanic(p)
  \/ Halted

Spec == Init /\ [][Next]_vars

-----------------------------------------------------------------------------
\* The pointers to slots that a process has: its current directory (but for
\* the moment in chdir() when that one is given up), its open file, and what a
\* system call holds or is about to drop.  0 is no pointer.
Pointers == {"cwd", "ofile", "ip", "dp", "put1", "put2"}
PutSlot(t, k) == IF Len(t.put) >= k THEN t.put[k].s ELSE 0
Pointer(p, v) ==
  CASE v = "cwd" -> IF th[p].pc = "cd" THEN 0 ELSE cwd[p]
    [] v = "ofile" -> ofile[p]
    [] v = "ip" -> th[p].ip
    [] v = "dp" -> th[p].dp
    [] v = "put1" -> PutSlot(th[p], 1)
    [] v = "put2" -> PutSlot(th[p], 2)

Refs(s) == Cardinality({x \in Procs \X Pointers : Pointer(x[1], x[2]) = s})

\* Every path through the calls, the failing ones included, gives back exactly
\* the references it took, and no inode has two slots.
RefsExact ==
  /\ \A s \in Slots : itable[s].ref = Refs(s)
  /\ \A s, u \in Slots : s # u /\ itable[s].ref > 0 /\ itable[u].ref > 0
                           => itable[s].inum # itable[u].inum

\* An inode has at least as many links as entries name it, whoever is in the
\* middle of link(), unlink() or create(): so no entry names an inode that has
\* been freed or reused, unless a process went up from a removed directory.
LinksCover ==
  ~astray => \A i \in Inums : Links(i) # {} =>
    /\ dinode[i].type # "free"
    /\ dinode[i].nlink >= Cardinality(Links(i))

\* What a slot caches is what the disk has, unless its holder is at work.
\* When iput() frees an inode nobody has it locked, as its comment says, and
\* nothing panics: unlink() finds a link to remove, and ilock() an inode in
\* use, unless a process went up from a removed directory.
NoSurprise ==
  /\ \A s \in Slots : itable[s].ref > 0 /\ itable[s].valid /\ itable[s].lock = Nobody =>
       /\ itable[s].type = dinode[itable[s].inum].type
       /\ itable[s].nlink = dinode[itable[s].inum].nlink
  /\ \A p \in Procs : AtPut(p, "drop") /\ LastUse(Head(th[p].put).s)
                        => itable[Head(th[p].put).s].lock = Nobody
  /\ ~astray => panic = "none"

\* No processes wait for one another in a circle: locks are taken from a
\* directory to its child, also while others move up through "..".
NoLockCycle ==
  \A S \in (SUBSET Procs) \ {{}} :
    \E p \in S : Wants(p) = 0 \/ itable[Wants(p)].lock \notin S

\* ilock() never finds an inode without a type: what a process can reach has
\* not been freed.
NoTypePanic == panic # "ilock: no type"
=============================================================================
