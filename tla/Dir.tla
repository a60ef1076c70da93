-------------------------------- MODULE Dir --------------------------------
(***************************************************************************)
(* Directories and path names (the second half of kernel/fs.c) and the     *)
(* calls on them (kernel/sysfile.c): concurrent processes open, create,    *)
(* link, unlink, make directories and change directory.                    *)
(*                                                                         *)
(* What is done under one holding of an inode's lock is one step.  The     *)
(* inode table and the disk inodes are one here, and iput is one step;     *)
(* module Inode has their detail.                                          *)
(***************************************************************************)
EXTENDS Integers, Sequences, FiniteSets, FiniteSetsExt

CONSTANTS Procs, None, NINODES, Names,
          Ops,                \* the calls that each process makes
          Paths, NewPaths     \* [abs, elems]: path names that callers pass, and as
                              \* the second of sys_link

Inums == 1..NINODES
Root == 1

ASSUME DirAssumption == None \notin Procs /\ NINODES \in Nat \ {0} /\ {".", ".."} \cap Names = {}

VARIABLES fs,        \* [node: the inodes, ref: their reference counts]
          lk,        \* holder of an inode's lock across steps, or None
          call,      \* each process: [pc, op, path: what namex has still to walk,
                     \*  new: sys_link's second path, cur: namex's ip and then the
                     \*  call's ip or dp, held: sys_link's and sys_unlink's ip]
          cwd, fd,   \* current directory, open file or 0
          detached,  \* inodes entered in a directory that was removed, and it
          dangling,  \* directories whose parent has been freed
          astray,    \* namex has followed the ".." of such a directory
          panicked

vars == <<fs, lk, call, cwd, fd, detached, dangling, astray, panicked>>

Empty == [n \in Names |-> 0]
FreeNode == [type |-> "free", nlink |-> 0, dotdot |-> 0, ents |-> Empty]
NoCall == [pc |-> "idle", op |-> "none", path |-> <<>>, new |-> None, cur |-> 0, held |-> 0]

Init ==
  /\ fs = [node |-> [i \in Inums |-> IF i # Root THEN FreeNode
                       ELSE [type |-> "dir", nlink |-> 1, dotdot |-> Root, ents |-> Empty]],
           ref |-> [i \in Inums |-> IF i = Root THEN Cardinality(Procs) ELSE 0]]
  /\ lk = [i \in Inums |-> None] /\ call = [p \in Procs |-> NoCall]
  /\ cwd = [p \in Procs |-> Root] /\ fd = [p \in Procs |-> 0]
  /\ detached = {} /\ dangling = {} /\ astray = FALSE /\ panicked = FALSE

-----------------------------------------------------------------------------
\* Operators on the file system s.

Iget(s, i) == [s EXCEPT !.ref[i] = @ + 1]

\* The last reference to an inode without links frees it, and the entries of a
\* directory with it.
Iput(s, i) ==
  [s EXCEPT !.ref[i] = @ - 1,
            !.node[i] = IF s.ref[i] = 1 /\ @.nlink = 0 THEN FreeNode ELSE @]

Dirlookup(s, d, name) ==
  CASE name = "."  -> d
    [] name = ".." -> s.node[d].dotdot
    [] OTHER       -> s.node[d].ents[name]

Dirlink(s, d, name, i) == [s EXCEPT !.node[d].ents[name] = i]

\* Faulty: directories are removed with their entries.
IsdiremptyAlways(s, d) == TRUE

Isdirempty(s, d) == s.node[d].ents = Empty

Nlink(s, i, k) == [s EXCEPT !.node[i].nlink = @ + k]

Live(s) == {i \in Inums : s.node[i].type # "free"}

\* The inode that create makes, entered in d; ".." counts as a link to d.
CreateIn(s, d, name, i, type) ==
  LET t == [s EXCEPT !.node[i] = [type |-> type, nlink |-> 1,
                                  dotdot |-> IF type = "dir" THEN d ELSE 0, ents |-> Empty]]
      u == Dirlink(t, d, name, i)
  IN  IF type = "dir" THEN Nlink(u, d, 1) ELSE u

-----------------------------------------------------------------------------
\* p has entered a name in the directory of its call: create in an inode that is
\* new in s, sys_link in its ip.
Entered(p, s, c) ==
  (Live(s) \ Live(fs)) \cup IF call[p].pc = "enter" /\ c.pc = "idle" THEN {call[p].held} ELSE {}

\* One step of p: the file system becomes s and p's call c.
Becomes(p, s, c) ==
  LET d == call[p].cur
      new == Entered(p, s, c)
      removed == d # 0 /\ (fs.node[d].nlink = 0 \/ d \in detached)
  IN
  /\ fs' = s /\ call' = [call EXCEPT ![p] = c]
  /\ detached' = Live(s) \cap (detached \cup IF removed /\ new # {} THEN new \cup {d} ELSE {})
  /\ dangling' = Live(s) \cap
       (dangling \cup {i \in Live(s) : s.node[i].type = "dir" /\ s.node[i].dotdot \notin Live(s)})

Return(p, s) == Becomes(p, s, NoCall)

\* What ilock waits for next in p's call, and the inodes it can lock: on a free one
\* it panics.
Wanted(p) == IF call[p].pc \in {"erase", "bad"} THEN call[p].held ELSE call[p].cur

Ilock(p) == lk[Wanted(p)] = None /\ Wanted(p) \in Live(fs)

IlockPanic(p) ==
  /\ call[p].pc # "idle" /\ lk[Wanted(p)] = None /\ Wanted(p) \notin Live(fs)
  /\ panicked' = TRUE
  /\ UNCHANGED <<fs, lk, call, cwd, fd, detached, dangling, astray>>

\* nameiparent is what the call wants: it stops one level early.
Parent(o) == o \in {"creat", "mkdir", "mknod", "unlink", "enter"}

\* namex starts on path x in the call c of p.  Without an element it is done: namei
\* has found the inode, nameiparent fails.
Namex(p, s, c, x) ==
  LET i == IF x.abs THEN Root ELSE cwd[p] IN
  IF x.elems # <<>> \/ ~Parent(c.op)
    THEN Becomes(p, Iget(s, i), [c EXCEPT !.cur = i, !.path = x.elems,
                                          !.pc = IF x.elems = <<>> THEN c.op ELSE "walk"])
    ELSE Becomes(p, s, IF c.op = "enter" THEN [c EXCEPT !.pc = "bad", !.cur = 0] ELSE NoCall)

\* A call begins.  Bound: none after a process has gone astray.
Begin(p) ==
  /\ call[p].pc = "idle" /\ ~astray
  /\ \E o \in Ops[p], x \in Paths, y \in NewPaths \cup {None} :
       /\ (o = "link") = (y # None)
       /\ o \in {"open", "creat"} => fd[p] = 0
       /\ Namex(p, fs, [NoCall EXCEPT !.op = o, !.new = y], x)
  /\ UNCHANGED <<lk, cwd, fd, astray, panicked>>

\* One iteration of namex.
NamexStep(p) ==
  LET c == call[p]
      next == Dirlookup(fs, c.cur, Head(c.path))
      stop == Parent(c.op) /\ Len(c.path) = 1
  IN
  /\ c.pc = "walk" /\ Ilock(p)
  /\ \/ /\ fs.node[c.cur].type # "dir" \/ (next = 0 /\ ~stop)
        /\ Becomes(p, Iput(fs, c.cur), IF c.op = "enter" THEN [c EXCEPT !.pc = "bad", !.cur = 0] ELSE NoCall)
        /\ UNCHANGED astray
     \/ /\ fs.node[c.cur].type = "dir" /\ stop
        /\ Becomes(p, fs, [c EXCEPT !.pc = c.op]) /\ UNCHANGED astray
     \/ /\ fs.node[c.cur].type = "dir" /\ ~stop /\ next # 0
        /\ Becomes(p, Iput(Iget(fs, next), c.cur),
                   [c EXCEPT !.cur = next, !.path = Tail(@), !.pc = IF Len(c.path) = 1 THEN c.op ELSE @])
        /\ astray' = (astray \/ (Head(c.path) = ".." /\ c.cur \in dangling))
  /\ UNCHANGED <<lk, cwd, fd, panicked>>

-----------------------------------------------------------------------------
\* The end of sys_open, with ip = i locked: filealloc or fdalloc may fail.
OpenFile(p, s, i) == \/ Return(p, s) /\ fd' = [fd EXCEPT ![p] = i]
                     \/ Return(p, Iput(s, i)) /\ UNCHANGED fd

\* sys_open without O_CREATE, after namei; a directory only for reading.
SysOpen(p) ==
  /\ call[p].pc = "open" /\ Ilock(p)
  /\ \/ OpenFile(p, fs, call[p].cur)
     \/ fs.node[call[p].cur].type = "dir" /\ Return(p, Iput(fs, call[p].cur)) /\ UNCHANGED fd
  /\ UNCHANGED <<lk, cwd, astray, panicked>>

\* The end of sys_mkdir and sys_mknod.
SysMkdir(p, s, i) == Return(p, Iput(s, i)) /\ UNCHANGED fd

\* sys_open with O_CREATE, sys_mkdir, sys_mknod: create, after nameiparent.
\* A device is a file here.
\* Where the disk is full dirlink fails, in the new directory or in dp, and
\* create gives the inode back.
Create(p) ==
  LET c == call[p]
      name == Head(c.path)
      old == Dirlookup(fs, c.cur, name)
      type == IF c.op = "mkdir" THEN "dir" ELSE "file"
  IN
  /\ c.pc \in {"creat", "mkdir", "mknod"} /\ Ilock(p)
  /\ \/ /\ old # 0
        /\ Becomes(p, Iput(Iget(fs, old), c.cur), [c EXCEPT !.pc = "exists", !.cur = old])
        /\ UNCHANGED fd
     \/ old = 0 /\ Return(p, Iput(fs, c.cur)) /\ UNCHANGED fd
     \/ /\ old = 0 /\ Live(fs) # Inums
        /\ LET i == Min(Inums \ Live(fs))
               s == Iput(Iget(CreateIn(fs, c.cur, name, i, type), i), c.cur)
           IN  IF c.op = "creat" THEN OpenFile(p, s, i) ELSE SysMkdir(p, s, i)
  /\ UNCHANGED <<lk, cwd, astray, panicked>>

\* create of a name that exists: what O_CREATE may open
CreateExists(p) ==
  LET i == call[p].cur IN
  /\ call[p].pc = "exists" /\ Ilock(p)
  /\ IF call[p].op = "creat" /\ fs.node[i].type = "file" THEN OpenFile(p, fs, i)
     ELSE Return(p, Iput(fs, i)) /\ UNCHANGED fd
  /\ UNCHANGED <<lk, cwd, astray, panicked>>

Chdir(p) ==
  LET i == call[p].cur IN
  /\ call[p].pc = "chdir" /\ Ilock(p)
  /\ IF fs.node[i].type # "dir" THEN Return(p, Iput(fs, i)) /\ UNCHANGED cwd
     ELSE Return(p, Iput(fs, cwd[p])) /\ cwd' = [cwd EXCEPT ![p] = i]
  /\ UNCHANGED <<lk, fd, astray, panicked>>

\* fileclose of the last reference
Close(p) ==
  /\ call[p].pc = "idle" /\ fd[p] # 0 /\ ~astray
  /\ Return(p, Iput(fs, fd[p])) /\ fd' = [fd EXCEPT ![p] = 0]
  /\ UNCHANGED <<lk, cwd, astray, panicked>>

\* Faulty: ".." may be unlinked.
NotUnlinkableDot(name) == name = "."

NotUnlinkable(name) == name \in {".", ".."}

\* sys_unlink, after nameiparent: dp stays locked while ip's lock is waited for.
UnlinkLookup(p) ==
  LET c == call[p]
      name == Head(c.path)
      i == Dirlookup(fs, c.cur, name)
  IN
  /\ c.pc = "unlink" /\ Ilock(p)
  /\ IF NotUnlinkable(name) \/ i = 0 THEN Return(p, Iput(fs, c.cur)) /\ UNCHANGED lk
     ELSE /\ Becomes(p, Iget(fs, i), [c EXCEPT !.pc = "erase", !.held = i])
          /\ lk' = [lk EXCEPT ![c.cur] = p]
  /\ UNCHANGED <<cwd, fd, astray, panicked>>

\* The entry is erased, dp put, and then ip's link count goes down.
Unlinked(s, d, name, i) ==
  LET t == Dirlink(s, d, name, 0)
      u == IF s.node[i].type = "dir" THEN Nlink(t, d, -1) ELSE t
  IN  Iput(Nlink(Iput(u, d), i, -1), i)

UnlinkErase(p) ==
  LET c == call[p] IN
  /\ c.pc = "erase" /\ Ilock(p)
  /\ panicked' = (fs.node[c.held].nlink < 1)
  /\ lk' = [lk EXCEPT ![c.cur] = None]
  /\ IF fs.node[c.held].type = "dir" /\ ~Isdirempty(fs, c.held)
       THEN Return(p, Iput(Iput(fs, c.held), c.cur))
       ELSE Return(p, Unlinked(fs, c.cur, Head(c.path), c.held))
  /\ UNCHANGED <<cwd, fd, astray>>

\* sys_link, after namei(old): the count goes up first, and namex starts again.
LinkCount(p) ==
  LET c == call[p] IN
  /\ c.pc = "link" /\ Ilock(p)
  /\ IF fs.node[c.cur].type = "dir" THEN Return(p, Iput(fs, c.cur)) 
     ELSE Namex(p, Nlink(fs, c.cur, 1), [c EXCEPT !.op = "enter", !.held = c.cur], c.new)
  /\ UNCHANGED <<lk, cwd, fd, astray, panicked>>

\* sys_link, after nameiparent(new); dirlink fails on a name in use or a full disk.
LinkEnter(p) ==
  LET c == call[p] IN
  /\ c.pc = "enter" /\ Ilock(p)
  /\ \/ Becomes(p, Iput(fs, c.cur), [c EXCEPT !.pc = "bad", !.cur = 0])
     \/ /\ Dirlookup(fs, c.cur, Head(c.path)) = 0
        /\ Return(p, Iput(Iput(Dirlink(fs, c.cur, Head(c.path), c.held), c.cur), c.held))
  /\ UNCHANGED <<lk, cwd, fd, astray, panicked>>

\* Faulty: the failed link leaves the count as it is.
LinkUndoneNot(s, i) == Iput(s, i)

\* Faulty: the failed link keeps its reference.
LinkUndoneRef(s, i) == Nlink(s, i, -1)

LinkUndone(s, i) == Iput(Nlink(s, i, -1), i)

LinkBad(p) ==
  /\ call[p].pc = "bad" /\ Ilock(p)
  /\ Return(p, LinkUndone(fs, call[p].held))
  /\ UNCHANGED <<lk, cwd, fd, astray, panicked>>

Step(p) == \/ Begin(p) \/ NamexStep(p) \/ IlockPanic(p)
           \/ SysOpen(p) \/ Create(p) \/ CreateExists(p) \/ Chdir(p) \/ Close(p)
           \/ UnlinkLookup(p) \/ UnlinkErase(p) \/ LinkCount(p) \/ LinkEnter(p) \/ LinkBad(p)

Next == \E p \in Procs : Step(p)

Spec == Init /\ [][Next]_vars
-----------------------------------------------------------------------------
Entries(i) == {x \in Live(fs) \X Names : fs.node[x[1]].ents[x[2]] = i}

Subdirs(i) == {n \in Names : fs.node[i].ents[n] # 0 /\ fs.node[fs.node[i].ents[n]].type = "dir"}

LinksOf(i) == Cardinality(Entries(i)) + Cardinality(Subdirs(i)) + (IF i = Root THEN 1 ELSE 0)
              + Cardinality({p \in Procs : call[p].op = "enter" /\ call[p].held = i})

\* "Number of links to inode in file system" (struct dinode): at every moment the
\* link count is the number of names, of subdirectories (for their "..") and
\* of sys_link calls under way, which includes every failure of create and
\* sys_link.  Not counted: what was entered in a removed directory.
LinkCounts == ~astray => \A i \in Live(fs) \ detached : fs.node[i].nlink = LinksOf(i)

\* The linked directories are a tree: each has one name, in the directory that its
\* ".." names, and ".." leads to the root.
DirTree ==
  LET up[k \in 0..NINODES] == [i \in Inums |-> IF k = 0 THEN i ELSE fs.node[up[k-1][i]].dotdot] IN
  ~astray => \A i \in Live(fs) \ detached :
    fs.node[i].type = "dir" /\ fs.node[i].nlink > 0 /\ i # Root =>
      /\ \E n \in Names : Entries(i) = {<<fs.node[i].dotdot, n>>}
      /\ up[NINODES][i] = Root

\* Reference counts are exact, as every error path of the calls puts what it got; so
\* no call meets a freed inode (panic "ilock: no type") or one without links ("unlink:
\* nlink < 1"), unless it follows the ".." of a directory whose parent is gone.
RefsExact ==
  ~astray => ~panicked /\ \A i \in Inums :
    fs.ref[i] = Cardinality({p \in Procs : cwd[p] = i}) + Cardinality({p \in Procs : fd[p] = i})
              + Cardinality({p \in Procs : call[p].cur = i}) + Cardinality({p \in Procs : call[p].held = i})

\* ilock never meets a freed inode, and sys_unlink no inode without links
\* (panic "ilock: no type", "unlink: nlink < 1").
NoPanic == ~panicked

\* Waiting for locks ends: no process that waits for an inode's lock while it holds
\* another is in a circle (sys_unlink locks the parent first).
NoCircle ==
  \A p \in Procs : call[p].pc = "erase" =>
    LET q == lk[call[p].held] IN q # None => q # p /\ lk[call[q].held] # p
=============================================================================
