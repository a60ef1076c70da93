------------------------------- MODULE Inode -------------------------------
(***************************************************************************)
(* Inodes and blocks of the file system, kernel/fs.c, with the calls that  *)
(* use them: open, create, read, write, unlink and close of files in one   *)
(* directory, by concurrent processes, with power failures.                *)
(*                                                                         *)
(* disk is what the buffer cache and the log show to the calls, committed  *)
(* what a reboot brings back: the group of calls in progress becomes       *)
(* durable in one step when the last of them ends (module AtomicTrans).    *)
(* What is done under one holding of ip->lock is one step; the directory's *)
(* lock and the lock iput takes are held across steps.                     *)
(***************************************************************************)
EXTENDS Integers, Sequences, FiniteSets, FiniteSetsExt

CONSTANTS Procs, None,
          NFILES,             \* inodes besides the root directory's
          NBLOCKS,            \* data blocks
          NDIRECT, NINDIRECT, BSIZE, MAXOPBLOCKS, LOGBLOCKS,
          Sizes,              \* byte counts that callers pass to read and write
          Written             \* inodes that they read and write

Inums == 1..NFILES + 1
Entries == Inums              \* itable: NINODE entries, enough for all inodes
Root == 1                     \* ROOTINO, and the entry that holds it
Blocks == 1..NBLOCKS
MAXFILE == NDIRECT + NINDIRECT

ASSUME InodeAssumption ==
  /\ None \notin Procs /\ {NDIRECT, NINDIRECT, NBLOCKS, NFILES} \subseteq Nat \ {0}
  /\ MAXOPBLOCKS >= 6 /\ Sizes \subseteq Nat \ {0}
  /\ BSIZE > 2     \* mkfs leaves a hole in a root directory that fills its blocks

VARIABLES disk,       \* [dinode, used: the bitmap, cont: words of a block,
                      \*  ents: the inums in the root directory, by offset]
          committed,  \* the disk after a crash
          itable,     \* [inum, ref, valid, ip] of each entry
          ilk,        \* holder of an entry's lock, or None
          pc, ent,    \* each process: label, and the entry its call works on
          fd,         \* its open file: [e, off], or None
          left,       \* bytes that filewrite has still to write
          logged,     \* blocks logged in the call's transaction
          group,      \* blocks logged since the last commit
          over,       \* a transaction has logged more than is reserved for it
          leaked,     \* inodes that crashes have left without name or reference
          raced,      \* inodes that iput's window has left so (see IputDrop)
          panicked

vars == <<disk, committed, itable, ilk, pc, ent, fd, left, logged, group, over, leaked, raced, panicked>>
mem == <<itable, ilk, pc, ent, fd, left, logged, group, over>>

Zero == [j \in 0..NINDIRECT-1 |-> 0]
Junk == [j \in 0..NINDIRECT-1 |-> NBLOCKS]      \* words of user data
FreeInode == [type |-> "free", nlink |-> 0, size |-> 0,
              addrs |-> [k \in 0..NDIRECT |-> 0]]

NoEntry == [inum |-> 0, ref |-> 0, valid |-> FALSE, ip |-> FreeInode]

\* The inode table after boot: init's current directory is in use.
Booted(d) == [e \in Entries |-> IF e # Root THEN NoEntry
                ELSE [inum |-> Root, ref |-> 1, valid |-> TRUE, ip |-> d.dinode[Root]]]

\* ialloc and iappend of mkfs
NewInode(type) == [FreeInode EXCEPT !.type = type, !.nlink = 1]

Appended(ip, n) ==
  [ip EXCEPT !.size = n, !.addrs = [k \in 0..NDIRECT |-> IF k < NDIRECT /\ k * BSIZE < n THEN k + 1 ELSE 0]]

\* mkfs rounds the size of the root directory up, to one more block if it is full.
Rounded(size) == (size \div BSIZE + 1) * BSIZE

\* The image mkfs makes without files: a root directory with "." and "..".
Image ==
  LET root == Appended(NewInode("dir"), 2)
      size == Rounded(root.size)
  IN
  [dinode |-> [i \in Inums |-> IF i # Root THEN FreeInode ELSE [root EXCEPT !.size = size]],
   used |-> {1},
   cont |-> [b \in Blocks |-> IF b = 1 THEN Junk ELSE Zero],
   ents |-> [k \in 1..size |-> IF k <= 2 THEN Root ELSE 0]]

Init == /\ disk = Image /\ committed = Image
        /\ itable = Booted(Image) /\ ilk = [e \in Entries |-> None]
        /\ pc = [p \in Procs |-> "idle"] /\ ent = [p \in Procs |-> 0]
        /\ fd = [p \in Procs |-> None] /\ left = [p \in Procs |-> 0]
        /\ logged = [p \in Procs |-> {}] /\ group = {} /\ over = FALSE
        /\ leaked = {} /\ raced = {} /\ panicked = FALSE

-----------------------------------------------------------------------------
\* Operators on a call's working state c: the disk d, the inode copy ip, the
\* blocks it logs, the result of bmap, and the position of a write.

Work(d, ip) == [d |-> d, ip |-> ip, log |-> {}, addr |-> 0, off |-> 0, tot |-> 0,
                stop |-> FALSE, bad |-> FALSE]

BBLOCK == -1              \* FSSIZE is less than BPB: one bitmap block
IBLOCK(i) == -1 - i       \* at worst each inode is in a block of its own

Balloc(c) ==
  LET free == Blocks \ c.d.used
      b == Min(free)
  IN  IF free = {} THEN [c EXCEPT !.addr = 0]
      ELSE [c EXCEPT !.d.used = @ \cup {b}, !.d.cont[b] = Zero,
                     !.log = @ \cup {BBLOCK, b}, !.addr = b]

\* ip->addrs[k], allocated if necessary: a direct block or the indirect block
Placed(c, k) == [c EXCEPT !.ip.addrs[k] = c.addr]

Direct(c, k) ==
  IF c.ip.addrs[k] # 0 THEN [c EXCEPT !.addr = c.ip.addrs[k]] ELSE Placed(Balloc(c), k)

\* Word j of the indirect block, which Direct has found.
Entered(c, b, j) ==
  IF c.addr = 0 THEN c ELSE [c EXCEPT !.d.cont[b][j] = c.addr, !.log = @ \cup {b}]

Indirect(c, j) ==
  CASE c.addr = 0 -> c
    [] c.addr # 0 /\ c.d.cont[c.addr][j] # 0 -> [c EXCEPT !.addr = c.d.cont[c.addr][j]]
    [] OTHER -> Entered(Balloc(c), c.addr, j)

Bmap(c, bn) == IF bn < NDIRECT THEN Direct(c, bn) ELSE Indirect(Direct(c, NDIRECT), bn - NDIRECT)

\* The block addresses an inode holds, each with the slot it is in.
Refs(d, ip) ==
  LET direct == {<<k, ip.addrs[k]>> : k \in {k \in 0..NDIRECT : ip.addrs[k] # 0}}
      a == IF ip.addrs[NDIRECT] = 0 THEN Zero ELSE d.cont[ip.addrs[NDIRECT]]
  IN  direct \cup {<<NDIRECT + 1 + j, a[j]>> : j \in {j \in DOMAIN a : a[j] # 0}}

Owned(d, ip) == {r[2] : r \in Refs(d, ip)}

Iupdate(c, i) == [c EXCEPT !.d.dinode[i] = c.ip, !.log = @ \cup {IBLOCK(i)}]

\* bfree of the blocks in some slots.  It panics on a block that is free, the second
\* time on one that is in two slots.
Bfree(c, refs) ==
  LET bs == {r[2] : r \in refs} IN
  [c EXCEPT !.d.used = @ \ bs,
            !.bad = ~(bs \subseteq c.d.used) \/ Cardinality(bs) # Cardinality(refs),
            !.log = @ \cup IF bs = {} THEN {} ELSE {BBLOCK}]

Itrunc(c, i) ==
  Iupdate([Bfree(c, Refs(c.d, c.ip)) EXCEPT !.ip.addrs = FreeInode.addrs, !.ip.size = 0], i)

\* One iteration of writei's loop.  fault is the file block for which the copy
\* from user memory fails.
Copied(c, n, fault) ==
  LET k == Min({n - c.tot, BSIZE - (c.off % BSIZE)}) IN
  IF c.addr = 0 \/ c.off \div BSIZE = fault THEN [c EXCEPT !.stop = TRUE]
  ELSE [c EXCEPT !.d.cont[c.addr] = Junk, !.log = @ \cup {c.addr}, !.tot = @ + k, !.off = @ + k]

WriteBlock(c, n, fault) ==
  IF c.stop \/ c.tot = n THEN c ELSE Copied(Bmap(c, c.off \div BSIZE), n, fault)

\* iupdate with the size that was reached
Sized(c, i) == Iupdate([c EXCEPT !.ip.size = Max({@, c.off})], i)

Writei(d, i, ip, off, n, fault) ==
  LET W[k \in 0..MAXFILE] ==
        IF k = 0 THEN [Work(d, ip) EXCEPT !.off = off] ELSE WriteBlock(W[k-1], n, fault)
  IN  IF off > ip.size \/ off + n > MAXFILE * BSIZE THEN [Work(d, ip) EXCEPT !.tot = -1]
      ELSE Sized(W[MAXFILE], i)

\* readi maps every block it reads; a missing one would be allocated and logged
\* outside of a transaction.  The result is in tot.
Readi(d, ip, off, n) ==
  LET m == IF off > ip.size THEN 0 ELSE Min({n, ip.size - off})
      bns == {b \in 0..MAXFILE-1 : m > 0 /\ b * BSIZE < off + m /\ (b + 1) * BSIZE > off}
  IN  [Work(d, ip) EXCEPT !.tot = m, !.bad = \E b \in bns : Bmap(Work(d, ip), b).d # d]

-----------------------------------------------------------------------------
\* The inode table.

\* Where iget puts a reference to inode i: its entry, or the first free one.  The
\* table has an entry for every inode, so iget's panic "iget: no inodes" is left
\* out: it needs NINODE different inodes in use at a time, of NINODES on disk.
EntryOf(i) ==
  LET hit == {e \in Entries : itable[e].ref > 0 /\ itable[e].inum = i}
  IN  IF hit # {} THEN Min(hit) ELSE Min({e \in Entries : itable[e].ref = 0})

Iget(i) ==
  LET e == EntryOf(i) IN
  [itable EXCEPT ![e] = IF @.ref > 0 THEN [@ EXCEPT !.ref = @ + 1]
                        ELSE [@ EXCEPT !.inum = i, !.ref = 1, !.valid = FALSE]]

\* The inode as ilock finds it, in memory or on disk; with type 0 it panics.
Loaded(e) == IF itable[e].valid THEN itable[e].ip ELSE disk.dinode[itable[e].inum]

\* Entry e with contents ip, after ilock.
Stored(t, e, ip) == [t EXCEPT ![e].valid = TRUE, ![e].ip = ip]

Goto(p, l) == pc' = [pc EXCEPT ![p] = l]

Outstanding(p) == {q \in Procs \ {p} : pc[q] # "idle"}

\* begin_op lets a call in when its reservation fits.
BeginOp(p) == Cardinality(group) + (Cardinality(Outstanding(p)) + 1) * MAXOPBLOCKS <= LOGBLOCKS

\* log_write of the blocks bs.  It refuses the last block of the log, which leaves
\* MAXOPBLOCKS - 1 to each call.
LogWrite(p, bs) ==
  /\ logged' = [logged EXCEPT ![p] = @ \cup bs] /\ group' = group \cup bs
  /\ over' = (over \/ Cardinality(logged[p] \cup bs) > MAXOPBLOCKS - 1)

\* Faulty: a call commits although others are in progress.
EndOpAlone(p, bs) ==
  /\ logged' = [logged EXCEPT ![p] = {}] /\ committed' = disk' /\ group' = {}
  /\ over' = over

\* log_write of the call's last blocks, and end_op: the last call commits.
EndOp(p, bs) ==
  /\ logged' = [logged EXCEPT ![p] = {}]
  /\ over' = (over \/ Cardinality(logged[p] \cup bs) > MAXOPBLOCKS - 1)
  /\ IF Outstanding(p) = {} THEN committed' = disk' /\ group' = {}
                            ELSE UNCHANGED committed /\ group' = group \cup bs

-----------------------------------------------------------------------------
\* System calls.

\* sys_open of a name in the directory: namex returns a reference.
SysOpen(p) ==
  /\ BeginOp(p) /\ pc[p] = "idle" /\ fd[p] = None /\ ilk[Root] = None
  /\ \E k \in 3..Len(disk.ents) :
       /\ disk.ents[k] # 0
       /\ itable' = Iget(disk.ents[k])
       /\ ent' = [ent EXCEPT ![p] = EntryOf(disk.ents[k])]
  /\ Goto(p, "open")
  /\ UNCHANGED <<disk, committed, ilk, fd, left, logged, group, over, leaked, raced, panicked>>

\* The rest of sys_open, from ilock: with O_TRUNC or without; filealloc or
\* fdalloc may fail, and then the reference is put.
OpenDone(p) ==
  LET e == ent[p]
      ip == Loaded(e)
      c == Itrunc(Work(disk, ip), itable[e].inum)
  IN
  /\ pc[p] = "open" /\ ilk[e] = None
  /\ IF ip.type = "free" THEN panicked' = TRUE /\ UNCHANGED <<disk, committed, mem, leaked, raced>>
     ELSE \/ /\ fd' = [fd EXCEPT ![p] = [e |-> e, off |-> 0]]
             /\ \/ disk' = disk /\ itable' = Stored(itable, e, ip) /\ EndOp(p, {}) /\ UNCHANGED panicked
                \/ disk' = c.d /\ itable' = Stored(itable, e, c.ip) /\ EndOp(p, c.log) /\ panicked' = c.bad
             /\ Goto(p, "idle") /\ ent' = [ent EXCEPT ![p] = 0]
             /\ UNCHANGED <<ilk, left, leaked, raced>>
          \/ /\ itable' = Stored(itable, e, ip) /\ Goto(p, "put")
             /\ UNCHANGED <<disk, committed, ilk, ent, fd, left, logged, group, over, leaked, raced, panicked>>

\* create when ialloc finds no free inode: "ialloc: no inodes".
CreateNoInode(p) ==
  /\ pc[p] = "idle" /\ fd[p] = None /\ ilk[Root] = None
  /\ \A i \in Inums : disk.dinode[i].type # "free"
  /\ UNCHANGED vars

\* create of a new name, as far as ialloc: the directory stays locked.
CreateAlloc(p) ==
  LET free == {i \in Inums : disk.dinode[i].type = "free"}
      i == Min(free)
  IN
  /\ BeginOp(p) /\ pc[p] = "idle" /\ fd[p] = None /\ ilk[Root] = None /\ free # {}
  /\ disk' = [disk EXCEPT !.dinode[i] = [FreeInode EXCEPT !.type = "file"]]
  /\ itable' = Iget(i) /\ ent' = [ent EXCEPT ![p] = EntryOf(i)]
  /\ ilk' = [ilk EXCEPT ![Root] = p]
  /\ LogWrite(p, {IBLOCK(i)}) /\ Goto(p, "create")
  /\ UNCHANGED <<committed, fd, left, leaked, raced, panicked>>

\* The offset dirlink writes to: the first empty entry, or the end.
EmptySlot(ents) == Min({k \in 1..Len(ents) + 1 : k <= Len(ents) => ents[k] = 0})

Named(ents, k, i) == IF k > Len(ents) THEN Append(ents, i) ELSE [ents EXCEPT ![k] = i]

\* create gives the inode its link.
CreateInode(p) ==
  LET e == ent[p]
      c == Iupdate(Work(disk, [Loaded(e) EXCEPT !.nlink = 1]), itable[e].inum)
  IN
  /\ pc[p] = "create" /\ ilk[e] = None
  /\ panicked' = (Loaded(e).type = "free")
  /\ disk' = c.d /\ itable' = Stored(itable, e, c.ip)
  /\ ilk' = [ilk EXCEPT ![e] = p]
  /\ LogWrite(p, c.log) /\ Goto(p, "dirlink")
  /\ UNCHANGED <<committed, ent, fd, left, leaked, raced>>

\* The rest of create: dirlink, and sys_open's descriptor, or the undoing, which
\* keeps the directory locked until IputDrop.
CreateLink(p) ==
  LET e == ent[p]
      i == itable[e].inum
      k == EmptySlot(disk.ents)
  IN
  /\ pc[p] = "dirlink"
  /\ \E r \in {Writei(disk, Root, itable[Root].ip, k - 1, 1, MAXFILE)} :
     \/ /\ r.tot = 1
        /\ ilk' = [ilk EXCEPT ![Root] = None, ![e] = None]
        /\ disk' = [r.d EXCEPT !.ents = Named(@, k, i)]
        /\ itable' = Stored(itable, Root, r.ip)
        /\ \/ fd' = [fd EXCEPT ![p] = [e |-> e, off |-> 0]] /\ Goto(p, "idle")
              /\ ent' = [ent EXCEPT ![p] = 0] /\ EndOp(p, r.log)
           \/ Goto(p, "put") /\ LogWrite(p, r.log) /\ UNCHANGED <<fd, ent, committed>>
     \/ /\ r.tot # 1
        /\ ilk' = [ilk EXCEPT ![e] = None]
        /\ \E undo \in {Iupdate(Work(r.d, [itable[e].ip EXCEPT !.nlink = 0]), i)} :
             disk' = undo.d /\ itable' = Stored(Stored(itable, Root, r.ip), e, undo.ip)
        /\ Goto(p, "put") /\ LogWrite(p, r.log) /\ UNCHANGED <<fd, ent, committed>>
  /\ UNCHANGED <<left, leaked, raced, panicked>>

\* sys_unlink: the directory is locked and the name found.
UnlinkLookup(p) ==
  /\ BeginOp(p) /\ pc[p] = "idle" /\ left[p] = 0 /\ ilk[Root] = None
  /\ \E k \in 3..Len(disk.ents) :
       /\ disk.ents[k] # 0
       /\ itable' = Iget(disk.ents[k])
       /\ ent' = [ent EXCEPT ![p] = EntryOf(disk.ents[k])]
  /\ ilk' = [ilk EXCEPT ![Root] = p] /\ Goto(p, "unlink")
  /\ UNCHANGED <<disk, committed, fd, left, logged, group, over, leaked, raced, panicked>>

\* sys_unlink from ilock(ip): the entry is erased,
UnlinkErase(p) ==
  LET e == ent[p]
      k == CHOOSE k \in 3..Len(disk.ents) : disk.ents[k] = itable[e].inum
  IN
  /\ pc[p] = "unlink" /\ ilk[e] = None
  /\ \E r \in {Writei(disk, Root, itable[Root].ip, k - 1, 1, MAXFILE)} :
       /\ panicked' = (Loaded(e).type = "free" \/ Loaded(e).nlink < 1 \/ r.tot # 1)
       /\ disk' = [r.d EXCEPT !.ents[k] = 0]
       /\ itable' = Stored(Stored(itable, Root, r.ip), e, Loaded(e))
       /\ LogWrite(p, r.log)
  /\ ilk' = [ilk EXCEPT ![Root] = None, ![e] = p] /\ Goto(p, "uncount")
  /\ UNCHANGED <<committed, ent, fd, left, leaked, raced>>

\* then the directory is unlocked and the link count goes down.
UnlinkCount(p) ==
  LET e == ent[p]
      c == Iupdate(Work(disk, [itable[e].ip EXCEPT !.nlink = @ - 1]), itable[e].inum)
  IN
  /\ pc[p] = "uncount"
  /\ disk' = c.d /\ itable' = Stored(itable, e, c.ip)
  /\ ilk' = [ilk EXCEPT ![e] = None]
  /\ LogWrite(p, c.log) /\ Goto(p, "put")
  /\ UNCHANGED <<committed, ent, fd, left, leaked, raced, panicked>>

\* fileclose of the last reference to the file: iput in a transaction.
FileClose(p) ==
  /\ BeginOp(p) /\ pc[p] = "idle" /\ fd[p] # None /\ left[p] = 0
  /\ ent' = [ent EXCEPT ![p] = fd[p].e] /\ fd' = [fd EXCEPT ![p] = None]
  /\ Goto(p, "put")
  /\ UNCHANGED <<disk, committed, itable, ilk, left, logged, group, over, leaked, raced, panicked>>

\* fileread from an inode
FileRead(p) ==
  /\ pc[p] = "idle" /\ fd[p] # None /\ left[p] = 0 /\ ilk[fd[p].e] = None
  /\ itable[fd[p].e].inum \in Written
  /\ \E n \in Sizes :
       LET r == Readi(disk, Loaded(fd[p].e), fd[p].off, n) IN
       /\ panicked' = r.bad
       /\ fd' = [fd EXCEPT ![p].off = @ + r.tot]
  /\ itable' = Stored(itable, fd[p].e, Loaded(fd[p].e))
  /\ UNCHANGED <<disk, committed, ilk, pc, ent, left, logged, group, over, leaked, raced>>

\* Faulty: two blocks too many in a transaction.
MaxChunkPlus == ((MAXOPBLOCKS - 1 - 1 - 2) \div 2 + 2) * BSIZE

MaxChunk == ((MAXOPBLOCKS - 1 - 1 - 2) \div 2) * BSIZE

\* filewrite to an inode: one transaction of its loop, the first of a new call or
\* the next of one that has bytes left.
FileWrite(p) ==
  LET e == fd[p].e IN
  /\ BeginOp(p) /\ pc[p] = "idle" /\ fd[p] # None /\ ilk[e] = None
  /\ itable[e].inum \in Written
  /\ \E n \in IF left[p] > 0 THEN {left[p]} ELSE Sizes, fault \in {fd[p].off \div BSIZE, MAXFILE} :
     \E n1 \in {Min({n, MaxChunk})} :
     \E r \in {Writei(disk, itable[e].inum, Loaded(e), fd[p].off, n1, fault)} :
       /\ disk' = r.d /\ itable' = Stored(itable, e, r.ip)
       /\ fd' = IF r.tot > 0 THEN [fd EXCEPT ![p].off = @ + r.tot] ELSE fd
       /\ left' = [left EXCEPT ![p] = IF r.tot = n1 THEN n - n1 ELSE 0]
       /\ EndOp(p, r.log)
  /\ UNCHANGED <<ilk, pc, ent, leaked, raced, panicked>>

-----------------------------------------------------------------------------
\* iput: the decision under itable.lock, the freeing without it, the count.

\* Faulty: iput tests the count as it is after the decrement.
LastUseLate(e) == itable[e].ref = 0 /\ itable[e].valid /\ itable[e].ip.nlink = 0

LastUse(e) == itable[e].ref = 1 /\ itable[e].valid /\ itable[e].ip.nlink = 0

IputFree(p) ==
  /\ pc[p] = "put" /\ LastUse(ent[p]) /\ ilk[ent[p]] = None
  /\ ilk' = [ilk EXCEPT ![ent[p]] = p] /\ Goto(p, "free")
  /\ UNCHANGED <<disk, committed, itable, ent, fd, left, logged, group, over, leaked, raced, panicked>>

\* Faulty: the entry stays valid when its inode is freed.
InvalidatedNot(e) == [itable EXCEPT ![e].ip = FreeInode]

Invalidated(e) == [itable EXCEPT ![e].ip = FreeInode, ![e].valid = FALSE]

IputTrunc(p) ==
  LET e == ent[p]
      i == itable[e].inum
      t == Itrunc(Work(disk, itable[e].ip), i)
      c == Iupdate([t EXCEPT !.ip.type = "free"], i)
  IN
  /\ pc[p] = "free"
  /\ disk' = c.d /\ panicked' = c.bad /\ itable' = Invalidated(e)
  /\ ilk' = [ilk EXCEPT ![e] = None]
  /\ LogWrite(p, c.log) /\ Goto(p, "drop")
  /\ UNCHANGED <<committed, ent, fd, left, leaked, raced>>

\* When iput has freed the inode, the entry may have been taken by an ialloc of
\* the same inode and given up again before the count goes down here.  An entry
\* without references is dead: iget sets what it needs.
IputDrop(p) ==
  /\ pc[p] = "drop" \/ (pc[p] = "put" /\ ~LastUse(ent[p]))
  /\ itable' = [itable EXCEPT ![ent[p]] = IF @.ref = 1 THEN NoEntry ELSE [@ EXCEPT !.ref = @ - 1]]
  /\ Goto(p, "idle") /\ ent' = [ent EXCEPT ![p] = 0]
  /\ disk' = disk /\ EndOp(p, {})
  /\ raced' = raced \cup IF pc[p] = "drop" /\ LastUse(ent[p]) THEN {itable[ent[p]].inum} ELSE {}
  /\ ilk' = [ilk EXCEPT ![Root] = IF @ = p THEN None ELSE @]  \* create's failure
  /\ UNCHANGED <<fd, left, leaked, panicked>>

-----------------------------------------------------------------------------
\* Inodes in use that the directory does not name.
Orphans(d) == {i \in Inums \ {Root} : d.dinode[i].type # "free" /\ \A k \in 1..Len(d.ents) : d.ents[k] # i}

\* Power fails; after the reboot recovery has brought back what was committed.
\* Bound: no further failure once one has leaked an inode.
Crash ==
  /\ leaked = {}
  /\ disk' = committed
  /\ itable' = Booted(committed) /\ ilk' = [e \in Entries |-> None]
  /\ pc' = [p \in Procs |-> "idle"] /\ ent' = [p \in Procs |-> 0]
  /\ fd' = [p \in Procs |-> None] /\ left' = [p \in Procs |-> 0]
  /\ logged' = [p \in Procs |-> {}] /\ group' = {} /\ UNCHANGED over
  /\ leaked' = Orphans(committed) /\ raced' = {} /\ panicked' = FALSE
  /\ UNCHANGED committed

Step(p) == \/ SysOpen(p) \/ OpenDone(p) \/ CreateNoInode(p) \/ CreateAlloc(p) \/ CreateInode(p) \/ CreateLink(p)
           \/ UnlinkLookup(p) \/ UnlinkErase(p) \/ UnlinkCount(p) \/ FileClose(p) \/ FileRead(p)
           \/ FileWrite(p)
           \/ IputFree(p) \/ IputTrunc(p) \/ IputDrop(p)

Next == (\E p \in Procs : Step(p)) \/ Crash

Spec == Init /\ [][Next]_vars
-----------------------------------------------------------------------------
\* The bitmap, the inodes and the directory of a disk agree: no block has two
\* owners, exactly the owned blocks are marked, a link count is the number of
\* names, and only allocated inodes are named.
Consistent(d) ==
  LET live == {i \in Inums : d.dinode[i].type # "free"} IN
  /\ d.used = UNION {Owned(d, d.dinode[i]) : i \in live}
  /\ Cardinality(d.used) = MapThenSumSet(LAMBDA i : Cardinality(Refs(d, d.dinode[i])), live)
  /\ \A i \in Inums \ {Root} :
       d.dinode[i].nlink = Cardinality({k \in 1..Len(d.ents) : d.ents[k] = i})
  /\ \A k \in 1..Len(d.ents) : d.ents[k] # 0 => d.ents[k] \in live

\* The disk that a reboot brings back is consistent at every moment, whatever
\* calls were in progress: what fs.c gets from doing all its updates inside
\* transactions.
DiskConsistent == Consistent(committed)

\* An in-memory inode that nobody has locked agrees with the disk inode
\* ("Must be called after every change to an ip->xxx field", iupdate), also
\* when iput frees the inode while ialloc hands it out again.
CachedAgrees ==
  \A e \in Entries : itable[e].ref > 0 /\ itable[e].valid /\ ilk[e] = None
                     => itable[e].ip = disk.dinode[itable[e].inum]

\* An inode lives as long as it has a name or a user.  Not shorter: nobody holds a
\* reference to a freed inode (panic in ilock), frees a free block (bfree) or meets a
\* hole (readi).  And not longer, except through the window in iput.
OrphansHeld ==
  /\ ~panicked
  /\ \A i \in Orphans(disk) \ (leaked \cup raced) :
       \E e \in Entries : itable[e].inum = i /\ itable[e].ref > 0

\* No call logs more blocks than begin_op reserves and log_write allows, though
\* filewrite's split of a write ("2 blocks of slop for non-aligned writes")
\* counts neither the bitmap nor the inodes exactly.
WithinBudget == ~over
=============================================================================
