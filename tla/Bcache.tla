------------------------------- MODULE Bcache -------------------------------
(***************************************************************************)
(* The buffer cache, kernel/bio.c: bget, bread, bwrite, brelse, bpin and   *)
(* bunpin by concurrent processes.  A critical section of bcache.lock is   *)
(* one step.  A buffer's sleeplock excludes (module Sched).  Processes use *)
(* the cache as log.c does: a block that is changed is pinned until it has *)
(* been written; a block of the log is written at once.                    *)
(*                                                                         *)
(* An element of Procs is one use of a buffer, from bread to brelse.  A    *)
(* process that keeps a buffer while it breads another (bmap and itrunc    *)
(* the indirect block, write_log and install_trans the log block) is two   *)
(* elements, p and q with Outer[q] = p.                                    *)
(***************************************************************************)
EXTENDS Integers, Sequences, FiniteSets

CONSTANTS Procs, Blocks, Vals, InitVal, NBUF,
          Outer,                \* the use during which a use is made, or None
          LogBlocks, Indirect,  \* blocks of the log, indirect blocks
          MaxPins,  \* blocks that the log keeps pinned at a time
          None

Bufs == 1..NBUF

ASSUME BcacheAssumption ==
  /\ NBUF \in Nat /\ MaxPins \in Nat /\ InitVal \in Vals /\ IsFiniteSet(Procs)
  /\ Outer \in [Procs -> Procs \cup {None}]
  /\ None \notin Procs \cup Blocks \cup Vals /\ None \notin Bufs

VARIABLES lru,     \* the list from bcache.head.next to bcache.head.prev
          blockno, refcnt, valid, data,  \* struct buf
          owner,   \* holder of b->lock, or None
          pinned,  \* buffers with a reference by bpin
          disk,
          pc,
          buf      \* the buffer a process is using, or None

vars == <<lru, blockno, refcnt, valid, data, owner, pinned, disk, pc, buf>>

TypeOK ==
  /\ lru \in [Bufs -> Bufs] /\ \A b \in Bufs : \E i \in Bufs : lru[i] = b
  /\ blockno \in [Bufs -> Blocks \cup {None}]
  /\ refcnt \in [Bufs -> Nat] /\ valid \in [Bufs -> BOOLEAN]
  /\ data \in [Bufs -> Vals]
  /\ owner \in [Bufs -> Procs \cup {None}] /\ pinned \subseteq Bufs
  /\ disk \in [Blocks -> Vals]
  /\ pc \in [Procs -> {"idle", "lock", "read", "held", "pin", "write",
                    "unpin", "rel", "panic"}]
  /\ buf \in [Procs -> Bufs \cup {None}]

\* binit
Init == /\ lru = [i \in Bufs |-> i]
        /\ blockno = [b \in Bufs |-> None]
        /\ refcnt = [b \in Bufs |-> 0] /\ valid = [b \in Bufs |-> FALSE]
        /\ data = [b \in Bufs |-> InitVal]
        /\ owner = [b \in Bufs |-> None] /\ pinned = {}
        /\ disk = [k \in Blocks |-> InitVal]
        /\ pc = [p \in Procs |-> "idle"] /\ buf = [p \in Procs |-> None]

Goto(p, l) == pc' = [pc EXCEPT ![p] = l]

\* Faulty: the second block may be any, so perhaps one that is held first elsewhere.
NestedAny(k, j) == k \in LogBlocks \cup Indirect

\* Blocks k and j that one process holds together, k first: the log block and
\* its home block, or the indirect block and a bitmap block or new data block.
Nested(k, j) == \/ k \in LogBlocks /\ j \notin LogBlocks
                \/ k \in Indirect /\ j \notin LogBlocks \cup Indirect

\* bread(k) is called: inside the outer use if there is one, while its process is
\* done with the blocks of its last calls.
Calls(p, k) ==
  /\ pc[p] = "idle"
  /\ Outer[p] # None => /\ pc[Outer[p]] = "held"
                        /\ Nested(blockno[buf[Outer[p]]], k)
  /\ \A q \in Procs : Outer[q] = p => pc[q] = "idle"

\* The process goes on with this use: it is not inside the bread of another.
Runs(p) == \A q \in Procs : Outer[q] = p => pc[q] \notin {"lock", "read", "panic"}
-----------------------------------------------------------------------------
\* bget: a hit, a recycled buffer, or a panic.  The panic keeps bcache.lock.

LockFree == \A q \in Procs : pc[q] # "panic"

Cached(k) == \E b \in Bufs : blockno[b] = k

BgetHit(p, b, k) ==
  /\ LockFree /\ Calls(p, k) /\ blockno[b] = k
  /\ refcnt' = [refcnt EXCEPT ![b] = @ + 1]
  /\ buf' = [buf EXCEPT ![p] = b]
  /\ Goto(p, "lock")
  /\ UNCHANGED <<lru, blockno, valid, data, owner, pinned, disk>>

\* Position i of the list holds the least recently used unreferenced buffer.
Oldest(i) == /\ refcnt[lru[i]] = 0
             /\ \A j \in Bufs : j > i => refcnt[lru[j]] > 0

\* Faulty: the block may be cached already, as if bcache.lock were released
\* between the two scans.
BgetRecycleRace(p, i, k) ==
  LET b == lru[i] IN
  /\ LockFree /\ Calls(p, k) /\ Oldest(i)
  /\ blockno' = [blockno EXCEPT ![b] = k] /\ valid' = [valid EXCEPT ![b] = FALSE]
  /\ refcnt' = [refcnt EXCEPT ![b] = 1]
  /\ buf' = [buf EXCEPT ![p] = b] /\ Goto(p, "lock")
  /\ UNCHANGED <<lru, data, owner, pinned, disk>>

\* Faulty: a recycled buffer stays valid.
BgetRecycleValid(p, i, k) ==
  LET b == lru[i] IN
  /\ LockFree /\ Calls(p, k) /\ ~Cached(k) /\ Oldest(i)
  /\ blockno' = [blockno EXCEPT ![b] = k]
  /\ refcnt' = [refcnt EXCEPT ![b] = 1]
  /\ buf' = [buf EXCEPT ![p] = b] /\ Goto(p, "lock")
  /\ UNCHANGED <<lru, valid, data, owner, pinned, disk>>

BgetRecycle(p, i, k) ==
  LET b == lru[i] IN
  /\ LockFree /\ Calls(p, k) /\ ~Cached(k) /\ Oldest(i)
  /\ blockno' = [blockno EXCEPT ![b] = k]
  /\ valid' = [valid EXCEPT ![b] = FALSE]
  /\ refcnt' = [refcnt EXCEPT ![b] = 1]
  /\ buf' = [buf EXCEPT ![p] = b]
  /\ Goto(p, "lock")
  /\ UNCHANGED <<lru, data, owner, pinned, disk>>

BgetPanic(p, k) ==
  /\ LockFree /\ Calls(p, k) /\ ~Cached(k) /\ \A b \in Bufs : refcnt[b] > 0
  /\ Goto(p, "panic")
  /\ UNCHANGED <<lru, blockno, refcnt, valid, data, owner, pinned, disk, buf>>

AcquireSleep(p) ==
  /\ pc[p] = "lock" /\ owner[buf[p]] = None
  /\ owner' = [owner EXCEPT ![buf[p]] = p]
  /\ Goto(p, IF valid[buf[p]] THEN "held" ELSE "read")
  /\ UNCHANGED <<lru, blockno, refcnt, valid, data, pinned, disk, buf>>

\* bread of an invalid buffer
BreadDisk(p) ==
  /\ pc[p] = "read"
  /\ data' = [data EXCEPT ![buf[p]] = disk[blockno[buf[p]]]]
  /\ valid' = [valid EXCEPT ![buf[p]] = TRUE]
  /\ Goto(p, "held")
  /\ UNCHANGED <<lru, blockno, refcnt, owner, pinned, disk, buf>>
-----------------------------------------------------------------------------
\* The holder's uses, after log_write and install_trans

\* begin_op reserves log space, and with it pins, for what a call will change.
MayPin(b) == LET pins == pinned \cup {buf[q] : q \in {r \in Procs : pc[r] = "pin"}}
             IN b \in pinned \/ Cardinality(pins) < MaxPins

Change(p, v, l) ==
  /\ Runs(p)
  /\ data' = [data EXCEPT ![buf[p]] = v]
  /\ Goto(p, l)
  /\ UNCHANGED <<lru, blockno, refcnt, valid, owner, pinned, disk, buf>>

\* The caller changes the data; log_write then pins a block it has not yet logged.
Modify(p, v) ==
  /\ pc[p] = "held" /\ blockno[buf[p]] \notin LogBlocks /\ MayPin(buf[p])
  /\ Change(p, v, IF buf[p] \in pinned THEN "held" ELSE "pin")

\* write_log and write_head change a block of the log and write it next; it is
\* never pinned.
Overwrite(p, v) ==
  pc[p] = "held" /\ blockno[buf[p]] \in LogBlocks /\ Change(p, v, "write")

Bpin(p) ==
  /\ LockFree /\ pc[p] = "pin" /\ Runs(p)
  /\ refcnt' = [refcnt EXCEPT ![buf[p]] = @ + 1]
  /\ pinned' = pinned \cup {buf[p]}
  /\ Goto(p, "held")
  /\ UNCHANGED <<lru, blockno, valid, data, owner, disk, buf>>

Bwrite(p) ==
  /\ Runs(p)
  /\ \/ pc[p] = "write" /\ Goto(p, "held")
     \/ pc[p] = "held" /\ buf[p] \in pinned /\ Goto(p, "unpin")
  /\ disk' = [disk EXCEPT ![blockno[buf[p]]] = data[buf[p]]]
  /\ UNCHANGED <<lru, blockno, refcnt, valid, data, owner, pinned, buf>>

Bunpin(p) ==
  /\ LockFree /\ pc[p] = "unpin" /\ Runs(p)
  /\ refcnt' = [refcnt EXCEPT ![buf[p]] = @ - 1]
  /\ pinned' = pinned \ {buf[p]}
  /\ Goto(p, "held")
  /\ UNCHANGED <<lru, blockno, valid, data, owner, disk, buf>>
-----------------------------------------------------------------------------
\* brelse: the sleeplock first, then the reference

BrelseUnlock(p) ==
  /\ pc[p] = "held" /\ Runs(p)
  /\ owner' = [owner EXCEPT ![buf[p]] = None]
  /\ Goto(p, "rel")
  /\ UNCHANGED <<lru, blockno, refcnt, valid, data, pinned, disk, buf>>

\* Unlink b and insert it after the list head.
ToFront(b) == LET at == CHOOSE i \in Bufs : lru[i] = b
              IN [i \in Bufs |-> IF i = 1 THEN b
                                 ELSE IF i <= at THEN lru[i-1] ELSE lru[i]]

BrelseDrop(p) ==
  LET b == buf[p] IN
  /\ LockFree /\ pc[p] = "rel" /\ Runs(p)
  /\ refcnt' = [refcnt EXCEPT ![b] = @ - 1]
  /\ lru' = IF refcnt[b] = 1 THEN ToFront(b) ELSE lru
  /\ buf' = [buf EXCEPT ![p] = None]
  /\ Goto(p, "idle")
  /\ UNCHANGED <<blockno, valid, data, owner, pinned, disk>>
-----------------------------------------------------------------------------
Step(p) == AcquireSleep(p) \/ BreadDisk(p) \/ BrelseUnlock(p) \/ BrelseDrop(p)

\* log_write, write_log and install_trans finish what they began.
Finish(p) == Bpin(p) \/ Bunpin(p) \/ (pc[p] = "write" /\ Bwrite(p))

Next == \E p \in Procs :
          \/ Step(p)
          \/ Bpin(p) \/ Bwrite(p) \/ Bunpin(p)
          \/ \E v \in Vals : Modify(p, v) \/ Overwrite(p, v)
          \/ \E k \in Blocks : \/ BgetPanic(p, k)
                               \/ \E b \in Bufs : BgetHit(p, b, k)
                               \/ \E i \in Bufs : BgetRecycle(p, i, k)

Spec == Init /\ [][Next]_vars

\* A holder uses its buffer for a bounded time; the wakeups of releasesleep
\* give every waiter its chance.
FairSpec == /\ Spec
            /\ \A p \in Procs : SF_vars(Step(p)) /\ WF_vars(Finish(p))
-----------------------------------------------------------------------------
\* A block has at most one buffer (bio.c, bget looks it up and recycles under
\* one holding of bcache.lock).
OneCopy == \A b, c \in Bufs : blockno[b] = blockno[c] /\ b # c => blockno[b] = None

\* refcnt counts the uses between bget and the end of brelse and the pin;
\* so a buffer in use or pinned is never recycled (bio.c).
RefcntExact ==
  \A b \in Bufs : refcnt[b] = Cardinality({p \in Procs : buf[p] = b})
                                + (IF b \in pinned THEN 1 ELSE 0)

\* bget gives up only when every buffer is in use or pinned by the log, so a
\* buffer for each use (two for a process that holds one while it breads another)
\* and each logged block is enough (bio.c, panic "bget: no buffers"; param.h, NBUF).
PanicOnlyWhenFull ==
  ~LockFree => \A b \in Bufs : b \in pinned \/ \E p \in Procs : buf[p] = b

\* The cache is sound: the variables have their types (the list is one of all
\* buffers), a block has one buffer, counts are exact, and bget panics only for
\* lack of buffers (bio.c).
BufsSound == TypeOK /\ OneCopy /\ RefcntExact /\ PanicOnlyWhenFull

\* Contents of a block: of its valid buffer if there is one, else of the disk.
Current(k) == IF \E b \in Bufs : blockno[b] = k /\ valid[b]
              THEN data[CHOOSE b \in Bufs : blockno[b] = k /\ valid[b]]
              ELSE disk[k]

Has(p) == pc[p] \in {"held", "pin", "write", "unpin"}

BS == INSTANCE BlockStore
        WITH mem  <- [k \in Blocks |-> Current(k)],
             held <- [p \in Procs |-> IF Has(p) THEN blockno[buf[p]] ELSE None],
             view <- [p \in Procs |-> IF Has(p) THEN data[buf[p]] ELSE None]

\* The cache is a coherent store with exclusive access to blocks: recycling
\* loses no change and bread always returns the latest contents (bio.c).
StoreSpec == BS!Spec

\* bread returns, also where processes hold one buffer and wait for another: a
\* process that has a reference gets the buffer, unless bget ran out of buffers
\* and keeps bcache.lock (bio.c, bget and brelse; fs.c, bmap and itrunc; log.c,
\* write_log and install_trans).
BreadReturns ==
  \A p \in Procs : pc[p] \in {"lock", "read"} ~> pc[p] = "held" \/ ~LockFree
=============================================================================
