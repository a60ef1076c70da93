---------------------------- MODULE BcacheProofs ----------------------------
(***************************************************************************)
(* Proofs about module Bcache for every number of processes, blocks,       *)
(* buffers and pins.                                                       *)
(***************************************************************************)
EXTENDS Bcache, FiniteSetTheorems, TLAPS

Users(b) == {p \in Procs : buf[p] = b}

Holds(p) == pc[p] \in {"read", "held", "pin", "write", "unpin"}

\* A process has a buffer from bget to the end of brelse; it caches a block,
\* with valid contents once bread has returned.
Uses == \A p \in Procs :
  /\ buf[p] = None <=> pc[p] \in {"idle", "panic"}
  /\ buf[p] # None => blockno[buf[p]] # None
  /\ Has(p) => valid[buf[p]]
  /\ pc[p] = "read" => ~valid[buf[p]]

\* b->lock is held from acquiresleep in bget to releasesleep in brelse.
Owners == \A b \in Bufs, p \in Procs : owner[b] = p <=> buf[p] = b /\ Holds(p)

\* Only valid buffers are pinned, of blocks that are not the log's; one about to
\* be unpinned has been written.
Pins ==
  /\ \A b \in Bufs : /\ valid[b] => blockno[b] # None
                     /\ b \in pinned => valid[b] /\ blockno[b] \notin LogBlocks
  /\ \A p \in Procs :
       /\ pc[p] = "pin" => buf[p] \notin pinned /\ blockno[buf[p]] \notin LogBlocks
       /\ pc[p] = "write" => blockno[buf[p]] \in LogBlocks
       /\ pc[p] = "unpin" => /\ buf[p] \in pinned
                             /\ data[buf[p]] = disk[blockno[buf[p]]]

\* A buffer that differs from the disk is pinned, or its holder is about to pin
\* or write it: it has a reference, and bget will not recycle it.
Clean == \A b \in Bufs :
  valid[b] /\ b \notin pinned /\ (\A p \in Procs : buf[p] = b => pc[p] \notin {"pin", "write"})
    => data[b] = disk[blockno[b]]

IInv == /\ TypeOK /\ OneCopy /\ RefcntExact /\ PanicOnlyWhenFull
        /\ Uses /\ Owners /\ Pins /\ Clean
-----------------------------------------------------------------------------
\* What refcnt says about a buffer's users.
LEMMA RefcntValue ==
  ASSUME IInv, NEW b \in Bufs
  PROVE  /\ IsFiniteSet(Users(b)) /\ Cardinality(Users(b)) \in Nat
         /\ refcnt[b] = Cardinality(Users(b)) + (IF b \in pinned THEN 1 ELSE 0)
         /\ refcnt[b] = 0 <=> Users(b) = {} /\ b \notin pinned
         /\ \A p \in Procs : buf[p] = b => refcnt[b] >= 1
<1>1. IsFiniteSet(Users(b))
  BY FS_Subset, BcacheAssumption, SMT, Z3 DEF Users
<1>2. Cardinality(Users(b)) \in Nat /\ (Cardinality(Users(b)) = 0 <=> Users(b) = {})
  BY <1>1, FS_CardinalityType, FS_EmptySet, SMT, Z3
<1>3. refcnt[b] = Cardinality(Users(b)) + (IF b \in pinned THEN 1 ELSE 0)
  BY SMT, Z3 DEF IInv, RefcntExact, Users
<1>4. \A p \in Procs : buf[p] = b => Users(b) # {}
  BY SMT, Z3 DEF Users
<1> QED
  BY <1>1, <1>2, <1>3, <1>4, SMT, Z3

\* After binit no buffer is used, pinned or valid.
LEMMA InitIInv == Init => IInv
<1> SUFFICES ASSUME Init PROVE IInv
  BY SMT, Z3
<1>1. TypeOK
  BY BcacheAssumption, SMT, Z3 DEF Init, TypeOK
<1>2. RefcntExact
  <2>1. \A b \in Bufs : {p \in Procs : buf[p] = b} = {}
    BY BcacheAssumption, SMT, Z3 DEF Init
  <2> QED
    BY <2>1, FS_EmptySet, SMTT(30), Z3T(30) DEF Init, RefcntExact
<1>3. OneCopy /\ PanicOnlyWhenFull
  BY SMT, Z3 DEF Init, OneCopy, PanicOnlyWhenFull, LockFree
<1>4. Uses /\ Owners /\ Pins /\ Clean
  BY BcacheAssumption, SMT, Z3 DEF Init, Uses, Owners, Pins, Clean, Has, Holds
<1> QED
  BY <1>1, <1>2, <1>3, <1>4, SMT, Z3 DEF IInv
-----------------------------------------------------------------------------
\* A step that leaves references, pins and the list alone keeps what is said of
\* them.
LEMMA CountsKept ==
  ASSUME IInv, UNCHANGED <<lru, blockno, refcnt, pinned, buf>>, LockFree' <=> LockFree
  PROVE  OneCopy' /\ RefcntExact' /\ PanicOnlyWhenFull'
BY SMT, Z3 DEF IInv, OneCopy, RefcntExact, PanicOnlyWhenFull

\* acquiresleep succeeds for one waiter, when the buffer has no owner.
LEMMA AcquireSleepStep == ASSUME IInv, NEW p \in Procs, AcquireSleep(p) PROVE IInv'
<1> DEFINE l == IF valid[buf[p]] THEN "held" ELSE "read"
<1>1. /\ pc[p] = "lock" /\ buf[p] \in Bufs /\ owner[buf[p]] = None
      /\ owner' = [owner EXCEPT ![buf[p]] = p] /\ pc' = [pc EXCEPT ![p] = l]
      /\ UNCHANGED <<lru, blockno, refcnt, valid, data, pinned, disk, buf>>
  BY SMTT(30), Z3T(30) DEF AcquireSleep, Goto, IInv, TypeOK, Uses
<1>2. TypeOK'
  BY <1>1, SMT, Z3 DEF IInv, TypeOK
<1>3. OneCopy' /\ RefcntExact' /\ PanicOnlyWhenFull'
  BY <1>1, CountsKept, SMT, Z3 DEF LockFree, IInv, TypeOK
<1>4. Uses'
  BY <1>1, SMT, Z3 DEF IInv, TypeOK, Uses, Has
<1>5. Owners'
  BY <1>1, BcacheAssumption, SMT, Z3 DEF IInv, TypeOK, Owners, Holds
<1>6. Pins' /\ Clean'
  BY <1>1, SMT, Z3 DEF IInv, TypeOK, Pins, Clean
<1> QED
  BY <1>2, <1>3, <1>4, <1>5, <1>6, SMT, Z3 DEF IInv

\* No two processes hold one buffer.
LEMMA HolderAlone ==
  ASSUME IInv, NEW p \in Procs, NEW q \in Procs, Holds(p), Holds(q), buf[p] = buf[q]
  PROVE  p = q
BY SMTT(30), Z3T(30) DEF IInv, TypeOK, Uses, Owners, Holds

\* The owner of an invalid buffer fills it from the disk.
LEMMA BreadDiskStep == ASSUME IInv, NEW p \in Procs, BreadDisk(p) PROVE IInv'
<1>1. /\ pc[p] = "read" /\ buf[p] \in Bufs /\ blockno[buf[p]] \in Blocks
      /\ owner[buf[p]] = p /\ ~valid[buf[p]]
      /\ data' = [data EXCEPT ![buf[p]] = disk[blockno[buf[p]]]]
      /\ valid' = [valid EXCEPT ![buf[p]] = TRUE]
      /\ pc' = [pc EXCEPT ![p] = "held"]
      /\ UNCHANGED <<lru, blockno, refcnt, owner, pinned, disk, buf>>
  <2>1. pc[p] = "read"
    BY SMT, Z3 DEF BreadDisk
  <2>2. buf[p] \in Bufs /\ blockno[buf[p]] \in Blocks /\ owner[buf[p]] = p /\ ~valid[buf[p]]
    BY <2>1, SMT, Z3 DEF IInv, TypeOK, Uses, Owners, Holds
  <2> QED
    BY <2>1, <2>2, SMT, Z3 DEF BreadDisk, Goto
<1>2. TypeOK'
  BY <1>1, SMT, Z3 DEF IInv, TypeOK
<1>3. OneCopy' /\ RefcntExact' /\ PanicOnlyWhenFull'
  BY <1>1, CountsKept, SMTT(30), Z3T(30) DEF LockFree, IInv, TypeOK
<1>4. Uses' /\ Owners'
  BY <1>1, SMT, Z3 DEF IInv, TypeOK, Uses, Has, Owners, Holds
<1>5. Pins'
  <2>1. \A q \in Procs : pc[q] = "unpin" => buf[q] # buf[p]
    BY <1>1, HolderAlone, SMT, Z3 DEF Holds
  <2> QED
    BY <1>1, <2>1, BcacheAssumption, SMT, Z3 DEF IInv, TypeOK, Pins, Uses
<1>6. Clean'
  BY <1>1, SMT, Z3 DEF IInv, TypeOK, Clean, Uses
<1> QED
  BY <1>2, <1>3, <1>4, <1>5, <1>6, SMT, Z3 DEF IInv

\* Where a holder goes when it has changed its buffer, as log.c has it.
After(p, l) == \/ l = "held" /\ buf[p] \in pinned
               \/ l = "pin" /\ buf[p] \notin pinned /\ blockno[buf[p]] \notin LogBlocks
               \/ l = "write" /\ blockno[buf[p]] \in LogBlocks

\* log_write pins what is not pinned; the log's own blocks are written next.
LEMMA Changes ==
  ASSUME IInv, NEW p \in Procs, NEW v \in Vals, Modify(p, v) \/ Overwrite(p, v)
  PROVE  pc[p] = "held" /\ \E l \in {"held", "pin", "write"} : Change(p, v, l) /\ After(p, l)
<1>1. CASE Modify(p, v) /\ buf[p] \in pinned
  BY <1>1, SMT, Z3 DEF Modify, After
<1>2. CASE Modify(p, v) /\ buf[p] \notin pinned
  BY <1>2, SMT, Z3 DEF Modify, After
<1>3. CASE Overwrite(p, v)
  BY <1>3, SMT, Z3 DEF Overwrite, After
<1> QED
  BY <1>1, <1>2, <1>3, SMT, Z3

\* A change makes the buffer dirty: it is pinned already, or its holder pins or
\* writes it next.
LEMMA ChangeStep ==
  ASSUME IInv, NEW p \in Procs, NEW v \in Vals, NEW l \in {"held", "pin", "write"},
         pc[p] = "held", Change(p, v, l), After(p, l)
  PROVE  IInv'
<1>1. /\ pc[p] = "held" /\ buf[p] \in Bufs /\ Holds(p)
      /\ data' = [data EXCEPT ![buf[p]] = v] /\ pc' = [pc EXCEPT ![p] = l]
      /\ UNCHANGED <<lru, blockno, refcnt, valid, owner, pinned, disk, buf>>
  BY SMT, Z3 DEF Change, Goto, IInv, TypeOK, Uses, Holds
<1>2. TypeOK'
  BY <1>1, SMTT(30), Z3T(30) DEF IInv, TypeOK
<1>3. OneCopy' /\ RefcntExact' /\ PanicOnlyWhenFull'
  BY <1>1, CountsKept, SMT, Z3 DEF LockFree, IInv, TypeOK
<1>4. Uses' /\ Owners'
  BY <1>1, SMT, Z3 DEF IInv, TypeOK, Uses, Has, Owners, Holds
<1>5. \A q \in Procs : pc[q] = "unpin" => buf[q] # buf[p]
  BY <1>1, HolderAlone, SMTT(30), Z3T(30) DEF Holds
<1>6. Pins'
  BY <1>1, <1>5, SMTT(30), Z3T(30) DEF IInv, TypeOK, Pins, Uses, After
<1>7. Clean'
  BY <1>1, SMTT(30), Z3T(30) DEF IInv, TypeOK, Clean, After
<1> QED
  BY <1>2, <1>3, <1>4, <1>6, <1>7, SMTT(30), Z3T(30) DEF IInv

\* bwrite makes disk and buffer agree; no other buffer has the block.
LEMMA BwriteStep == ASSUME IInv, NEW p \in Procs, Bwrite(p) PROVE IInv'
<1>0. PICK l \in {"held", "unpin"} :
        /\ \/ pc[p] = "write" /\ l = "held"
           \/ pc[p] = "held" /\ buf[p] \in pinned /\ l = "unpin"
        /\ pc' = [pc EXCEPT ![p] = l]
  BY SMT, Z3 DEF Bwrite, Goto
<1>1. /\ Has(p) /\ Holds(p) /\ buf[p] \in Bufs
      /\ blockno[buf[p]] \in Blocks /\ valid[buf[p]]
      /\ disk' = [disk EXCEPT ![blockno[buf[p]]] = data[buf[p]]]
      /\ UNCHANGED <<lru, blockno, refcnt, valid, data, owner, pinned, buf>>
  BY <1>0, SMT, Z3 DEF Bwrite, IInv, TypeOK, Uses, Has, Holds
<1>2. TypeOK'
  BY <1>0, <1>1, SMT, Z3 DEF IInv, TypeOK
<1>3. OneCopy' /\ RefcntExact' /\ PanicOnlyWhenFull'
  BY <1>0, <1>1, CountsKept, SMTT(30), Z3T(30) DEF LockFree, IInv, TypeOK
<1>4. Uses' /\ Owners'
  BY <1>0, <1>1, SMT, Z3 DEF IInv, TypeOK, Uses, Has, Owners, Holds
<1>5. \A b \in Bufs : b # buf[p] /\ blockno[b] # None => disk'[blockno[b]] = disk[blockno[b]]
  BY <1>0, <1>1, BcacheAssumption, SMTT(30), Z3T(30) DEF IInv, TypeOK, OneCopy
<1>6. Pins'
  BY <1>0, <1>1, <1>5, SMTT(30), Z3T(30) DEF IInv, TypeOK, Pins, Uses
<1>7. Clean'
  BY <1>0, <1>1, <1>5, SMTT(30), Z3T(30) DEF IInv, TypeOK, Clean, Pins
<1> QED
  BY <1>2, <1>3, <1>4, <1>6, <1>7, SMT, Z3 DEF IInv
-----------------------------------------------------------------------------
\* A hit counts one more user of the buffer.
LEMMA BgetHitStep ==
  ASSUME IInv, NEW p \in Procs, NEW b \in Bufs, NEW k \in Blocks, BgetHit(p, b, k)
  PROVE  IInv'
<1>1. /\ LockFree /\ pc[p] = "idle" /\ buf[p] = None /\ blockno[b] # None
      /\ refcnt' = [refcnt EXCEPT ![b] = @ + 1] /\ buf' = [buf EXCEPT ![p] = b]
      /\ pc' = [pc EXCEPT ![p] = "lock"]
      /\ UNCHANGED <<lru, blockno, valid, data, owner, pinned, disk>>
  BY BcacheAssumption, SMT, Z3 DEF BgetHit, Calls, Goto, IInv, Uses
<1>2. TypeOK'
  BY <1>1, SMT, Z3 DEF IInv, TypeOK
<1>3. OneCopy' /\ PanicOnlyWhenFull'
  BY <1>1, SMTT(30), Z3T(30) DEF IInv, TypeOK, OneCopy, PanicOnlyWhenFull, LockFree
<1>4. RefcntExact'
  <2>1. p \notin Users(b) /\ Users(b)' = Users(b) \cup {p}
    BY <1>1, BcacheAssumption, SMTT(30), Z3T(30) DEF Users, IInv, TypeOK
  <2>2. \A c \in Bufs : c # b => Users(c)' = Users(c)
    BY <1>1, BcacheAssumption, SMT, Z3 DEF Users, IInv, TypeOK
  <2>3. Cardinality(Users(b)') = Cardinality(Users(b)) + 1
    <3>1. IsFiniteSet(Users(b))
      BY RefcntValue, SMT, Z3
    <3>2. Cardinality(Users(b) \cup {p}) = Cardinality(Users(b)) + 1
      BY <2>1, <3>1, FS_AddElement, ZenonT(30)
    <3> QED
      BY <2>1, <3>2, Zenon
  <2>4. \A c \in Bufs : refcnt'[c] = Cardinality(Users(c)') + (IF c \in pinned' THEN 1 ELSE 0)
    BY <1>1, <2>2, <2>3, RefcntValue, SMTT(30), Z3T(30) DEF IInv, TypeOK
  <2> QED
    BY <2>4, SMTT(30), Z3T(30) DEF RefcntExact, Users
<1>5. Uses' /\ Owners'
  BY <1>1, BcacheAssumption, SMTT(30), Z3T(30) DEF IInv, TypeOK, Uses, Has, Owners, Holds
<1>6. Pins' /\ Clean'
  BY <1>1, SMT, Z3 DEF IInv, TypeOK, Pins, Clean
<1> QED
  BY <1>2, <1>3, <1>4, <1>5, <1>6, SMT, Z3 DEF IInv

\* A recycled buffer had no users, so it was clean and nobody notices.
LEMMA BgetRecycleStep ==
  ASSUME IInv, NEW p \in Procs, NEW i \in Bufs, NEW k \in Blocks, BgetRecycle(p, i, k)
  PROVE  IInv'
<1>0. PICK b \in Bufs : b = lru[i]
  BY SMT, Z3 DEF IInv, TypeOK
<1>1. /\ LockFree /\ pc[p] = "idle" /\ buf[p] = None /\ refcnt[b] = 0
      /\ \A c \in Bufs : blockno[c] # k
      /\ blockno' = [blockno EXCEPT ![b] = k] /\ valid' = [valid EXCEPT ![b] = FALSE]
      /\ refcnt' = [refcnt EXCEPT ![b] = 1] /\ buf' = [buf EXCEPT ![p] = b]
      /\ pc' = [pc EXCEPT ![p] = "lock"]
      /\ UNCHANGED <<lru, data, owner, pinned, disk>>
  BY <1>0, SMT, Z3 DEF BgetRecycle, Calls, Goto, IInv, Uses, TypeOK, Oldest, Cached
<1>2. b \notin pinned /\ \A q \in Procs : buf[q] # b
  BY <1>1, RefcntValue, Zenon DEF Users
<1>3. TypeOK'
  BY <1>1, SMT, Z3 DEF IInv, TypeOK
<1>4. OneCopy' /\ PanicOnlyWhenFull'
  BY <1>1, SMT, Z3 DEF IInv, TypeOK, OneCopy, PanicOnlyWhenFull, LockFree
<1>5. RefcntExact'
  <2>1. Users(b)' = {p}
    BY <1>1, <1>2, SMTT(30), Z3T(30) DEF Users, IInv, TypeOK
  <2>2. \A c \in Bufs : c # b => Users(c)' = Users(c)
    BY <1>1, BcacheAssumption, SMT, Z3 DEF Users, IInv, TypeOK
  <2>3. Cardinality(Users(b)') = 1
    BY <2>1, FS_Singleton, SMTT(30), Z3T(30)
  <2>4. \A c \in Bufs : refcnt'[c] = Cardinality(Users(c)') + (IF c \in pinned' THEN 1 ELSE 0)
    BY <1>1, <1>2, <2>2, <2>3, RefcntValue, SMTT(30), Z3T(30) DEF IInv, TypeOK
  <2> QED
    BY <2>4, SMT, Z3 DEF RefcntExact, Users
<1>6. Uses' /\ Owners'
  BY <1>1, <1>2, BcacheAssumption, SMTT(30), Z3T(30) DEF IInv, TypeOK, Uses, Has, Owners, Holds
<1>7. Pins'
  BY <1>1, <1>2, SMT, Z3 DEF IInv, TypeOK, Pins, Uses
<1>8. Clean'
  BY <1>1, <1>2, SMT, Z3 DEF IInv, TypeOK, Clean
<1> QED
  BY <1>3, <1>4, <1>5, <1>6, <1>7, <1>8, SMT, Z3 DEF IInv

\* bget panics when no buffer is free, that is, when all are used or pinned.
LEMMA BgetPanicStep ==
  ASSUME IInv, NEW p \in Procs, NEW k \in Blocks, BgetPanic(p, k) PROVE IInv'
<1>1. /\ pc[p] = "idle" /\ \A b \in Bufs : refcnt[b] > 0
      /\ pc' = [pc EXCEPT ![p] = "panic"]
      /\ UNCHANGED <<lru, blockno, refcnt, valid, data, owner, pinned, disk, buf>>
  BY SMT, Z3 DEF BgetPanic, Calls, Goto
<1>2. TypeOK'
  BY <1>1, SMT, Z3 DEF IInv, TypeOK
<1>3. OneCopy' /\ RefcntExact'
  BY <1>1, SMT, Z3 DEF IInv, OneCopy, RefcntExact
<1>4. PanicOnlyWhenFull'
  <2>1. \A b \in Bufs : b \in pinned \/ \E q \in Procs : buf[q] = b
    <3>1. \A b \in Bufs : refcnt[b] # 0
      BY <1>1, SMT, Z3
    <3>2. \A b \in Bufs : Users(b) # {} \/ b \in pinned
      BY <3>1, RefcntValue, Zenon
    <3> QED
      BY <3>2, SMT, Z3 DEF Users
  <2> QED
    BY <1>1, <2>1, SMT, Z3 DEF PanicOnlyWhenFull
<1>5. Uses' /\ Owners' /\ Pins' /\ Clean'
  BY <1>1, SMT, Z3 DEF IInv, TypeOK, Uses, Has, Owners, Holds, Pins, Clean
<1> QED
  BY <1>2, <1>3, <1>4, <1>5, SMT, Z3 DEF IInv

\* log_write's reference, taken by the owner under bcache.lock.
LEMMA BpinStep == ASSUME IInv, NEW p \in Procs, Bpin(p) PROVE IInv'
<1>1. /\ LockFree /\ pc[p] = "pin" /\ buf[p] \in Bufs /\ buf[p] \notin pinned
      /\ valid[buf[p]]
      /\ refcnt' = [refcnt EXCEPT ![buf[p]] = @ + 1] /\ pinned' = pinned \cup {buf[p]}
      /\ pc' = [pc EXCEPT ![p] = "held"]
      /\ UNCHANGED <<lru, blockno, valid, data, owner, disk, buf>>
  BY SMTT(30), Z3T(30) DEF Bpin, Goto, IInv, TypeOK, Uses, Pins, Has
<1>2. TypeOK'
  BY <1>1, SMTT(30), Z3T(30) DEF IInv, TypeOK
<1>3. OneCopy' /\ PanicOnlyWhenFull'
  BY <1>1, SMT, Z3 DEF IInv, TypeOK, OneCopy, PanicOnlyWhenFull, LockFree
<1>4. RefcntExact'
  <2>1. \A b \in Bufs : Users(b)' = Users(b)
    BY <1>1, SMTT(30), Z3T(30) DEF Users
  <2>2. \A b \in Bufs : refcnt'[b] = Cardinality(Users(b)) + (IF b \in pinned' THEN 1 ELSE 0)
    BY <1>1, RefcntValue, SMTT(30), Z3T(30) DEF IInv, TypeOK
  <2> QED
    BY <2>1, <2>2, SMTT(30), Z3T(30) DEF RefcntExact, Users
<1>5. Uses' /\ Owners'
  BY <1>1, SMTT(30), Z3T(30) DEF IInv, TypeOK, Uses, Has, Owners, Holds
<1>6. \A q \in Procs : pc[q] = "pin" /\ q # p => buf[q] # buf[p]
  BY <1>1, HolderAlone, SMTT(30), Z3T(30) DEF Holds
<1>7. Pins' /\ Clean'
  BY <1>1, <1>6, SMT, Z3 DEF IInv, TypeOK, Pins, Clean
<1> QED
  BY <1>2, <1>3, <1>4, <1>5, <1>7, SMTT(30), Z3T(30) DEF IInv

\* install_trans gives the pin back when disk and buffer agree.
LEMMA BunpinStep == ASSUME IInv, NEW p \in Procs, Bunpin(p) PROVE IInv'
<1>1. /\ LockFree /\ pc[p] = "unpin" /\ buf[p] \in Bufs /\ buf[p] \in pinned
      /\ data[buf[p]] = disk[blockno[buf[p]]]
      /\ refcnt' = [refcnt EXCEPT ![buf[p]] = @ - 1] /\ pinned' = pinned \ {buf[p]}
      /\ pc' = [pc EXCEPT ![p] = "held"]
      /\ UNCHANGED <<lru, blockno, valid, data, owner, disk, buf>>
  BY SMT, Z3 DEF Bunpin, Goto, IInv, TypeOK, Uses, Pins, Has
<1>2. RefcntExact' /\ refcnt' \in [Bufs -> Nat]
  <2>1. \A b \in Bufs : Users(b)' = Users(b)
    BY <1>1, SMTT(30), Z3T(30) DEF Users
  <2>2. \A b \in Bufs : /\ refcnt'[b] = Cardinality(Users(b)) + (IF b \in pinned' THEN 1 ELSE 0)
                        /\ refcnt'[b] \in Nat
    BY <1>1, RefcntValue, SMT, Z3 DEF IInv, TypeOK
  <2>3. RefcntExact'
    BY <2>1, <2>2, SMTT(30), Z3T(30) DEF RefcntExact, Users
  <2>4. refcnt' \in [Bufs -> Nat]
    BY <1>1, <2>2, SMTT(30), Z3T(30) DEF IInv, TypeOK
  <2> QED
    BY <2>3, <2>4, SMTT(30), Z3T(30)
<1>3. TypeOK'
  BY <1>1, <1>2, SMTT(30), Z3T(30) DEF IInv, TypeOK
<1>4. OneCopy' /\ PanicOnlyWhenFull'
  BY <1>1, SMTT(30), Z3T(30) DEF IInv, TypeOK, OneCopy, PanicOnlyWhenFull, LockFree
<1>5. Uses' /\ Owners'
  BY <1>1, SMTT(30), Z3T(30) DEF IInv, TypeOK, Uses, Has, Owners, Holds
<1>6. \A q \in Procs : pc[q] = "unpin" /\ q # p => buf[q] # buf[p]
  BY <1>1, HolderAlone, SMTT(30), Z3T(30) DEF Holds
<1>7. Pins' /\ Clean'
  BY <1>1, <1>6, SMTT(30), Z3T(30) DEF IInv, TypeOK, Pins, Clean
<1> QED
  BY <1>2, <1>3, <1>4, <1>5, <1>7, SMTT(30), Z3T(30) DEF IInv

\* releasesleep: the buffer has no owner but keeps its reference.
LEMMA BrelseUnlockStep == ASSUME IInv, NEW p \in Procs, BrelseUnlock(p) PROVE IInv'
<1>1. /\ pc[p] = "held" /\ buf[p] \in Bufs /\ owner[buf[p]] = p
      /\ owner' = [owner EXCEPT ![buf[p]] = None] /\ pc' = [pc EXCEPT ![p] = "rel"]
      /\ UNCHANGED <<lru, blockno, refcnt, valid, data, pinned, disk, buf>>
  BY SMTT(30), Z3T(30) DEF BrelseUnlock, Goto, IInv, TypeOK, Uses, Owners, Holds
<1>2. TypeOK'
  BY <1>1, SMT, Z3 DEF IInv, TypeOK
<1>3. OneCopy' /\ RefcntExact' /\ PanicOnlyWhenFull'
  BY <1>1, CountsKept, SMT, Z3 DEF LockFree, IInv, TypeOK
<1>4. Uses'
  BY <1>1, SMT, Z3 DEF IInv, TypeOK, Uses, Has
<1>5. Owners'
  BY <1>1, BcacheAssumption, SMTT(30), Z3T(30) DEF IInv, TypeOK, Owners, Holds
<1>6. Pins' /\ Clean'
  BY <1>1, SMT, Z3 DEF IInv, TypeOK, Pins, Clean
<1> QED
  BY <1>2, <1>3, <1>4, <1>5, <1>6, SMT, Z3 DEF IInv

\* Moving a buffer to the front of the list loses no buffer.
LEMMA ToFrontKeepsAll ==
  ASSUME IInv, NEW b \in Bufs
  PROVE  ToFront(b) \in [Bufs -> Bufs] /\ \A c \in Bufs : \E i \in Bufs : ToFront(b)[i] = c
<1>1. PICK at \in Bufs : lru[at] = b /\ at = CHOOSE i \in Bufs : lru[i] = b
  BY SMT, Z3 DEF IInv, TypeOK
<1>2. ToFront(b) = [i \in Bufs |-> IF i = 1 THEN b ELSE IF i <= at THEN lru[i-1] ELSE lru[i]]
  BY <1>1, SMT, Z3 DEF ToFront
<1>3. ToFront(b) \in [Bufs -> Bufs]
  <2>1. \A i \in Bufs : i # 1 => i - 1 \in Bufs
    BY BcacheAssumption, SMT, Z3 DEF Bufs
  <2>2. lru \in [Bufs -> Bufs]
    BY SMT, Z3 DEF IInv, TypeOK
  <2> QED
    BY <1>2, <2>1, <2>2, SMT, Z3
<1>4. ASSUME NEW c \in Bufs PROVE \E i \in Bufs : ToFront(b)[i] = c
  <2>1. PICK j \in Bufs : lru[j] = c
    BY SMT, Z3 DEF IInv, TypeOK
  <2>2. CASE c = b
    <3>1. 1 \in Bufs /\ ToFront(b)[1] = c
      BY <1>2, <2>2, BcacheAssumption, SMT, Z3 DEF Bufs
    <3> QED
      BY <3>1, SMT, Z3
  <2>3. CASE c # b /\ j < at
    <3>1. j + 1 \in Bufs /\ ToFront(b)[j + 1] = c
      BY <1>2, <2>1, <2>3, BcacheAssumption, SMTT(30), Z3T(30) DEF Bufs
    <3> QED
      BY <3>1, SMTT(30), Z3T(30)
  <2>4. CASE c # b /\ ~(j < at)
    <3>1. j # at /\ ToFront(b)[j] = c
      BY <1>1, <1>2, <2>1, <2>4, BcacheAssumption, SMTT(30), Z3T(30) DEF Bufs
    <3> QED
      BY <3>1, SMT, Z3
  <2> QED
    BY <2>2, <2>3, <2>4, SMT, Z3
<1> QED
  BY <1>3, <1>4, SMTT(30), Z3T(30)

\* The end of brelse counts one user less.
LEMMA BrelseDropStep == ASSUME IInv, NEW p \in Procs, BrelseDrop(p) PROVE IInv'
<1>0. PICK b \in Bufs : b = buf[p]
  BY SMT, Z3 DEF BrelseDrop, IInv, TypeOK, Uses
<1>1. /\ LockFree /\ pc[p] = "rel"
      /\ refcnt' = [refcnt EXCEPT ![b] = @ - 1] /\ buf' = [buf EXCEPT ![p] = None]
      /\ lru' = ToFront(b) \/ lru' = lru
      /\ pc' = [pc EXCEPT ![p] = "idle"]
      /\ UNCHANGED <<blockno, valid, data, owner, pinned, disk>>
  BY <1>0, SMT, Z3 DEF BrelseDrop, Goto
<1>2. RefcntExact' /\ refcnt' \in [Bufs -> Nat]
  <2>1. p \in Users(b) /\ Users(b)' = Users(b) \ {p}
    BY <1>0, <1>1, BcacheAssumption, SMTT(30), Z3T(30) DEF Users, IInv, TypeOK
  <2>2. \A c \in Bufs : c # b => Users(c)' = Users(c)
    BY <1>0, <1>1, BcacheAssumption, SMT, Z3 DEF Users, IInv, TypeOK
  <2>3. Cardinality(Users(b)') = Cardinality(Users(b)) - 1
    <3>1. IsFiniteSet(Users(b))
      BY RefcntValue, SMT, Z3
    <3>2. Cardinality(Users(b) \ {p}) = Cardinality(Users(b)) - 1
      BY <2>1, <3>1, FS_RemoveElement, Zenon
    <3> QED
      BY <2>1, <3>2, Zenon
  <2>4. refcnt[b] >= 1
    BY <1>0, RefcntValue, Zenon
  <2>5. \A c \in Bufs : /\ refcnt'[c] = Cardinality(Users(c)') + (IF c \in pinned' THEN 1 ELSE 0)
                        /\ refcnt'[c] \in Nat
    BY <1>1, <2>2, <2>3, <2>4, RefcntValue, SMTT(30), Z3T(30) DEF IInv, TypeOK
  <2> QED
    BY <1>1, <2>5, Zenon DEF RefcntExact, Users, IInv, TypeOK
<1>3. TypeOK'
  <2>1. lru' \in [Bufs -> Bufs] /\ \A c \in Bufs : \E i \in Bufs : lru'[i] = c
    <3>1. CASE lru' = ToFront(b)
      BY <3>1, ToFrontKeepsAll, Zenon
    <3>2. CASE lru' = lru
      BY <3>2, SMTT(30), Z3T(30) DEF IInv, TypeOK
    <3> QED
      BY <1>1, <3>1, <3>2, SMT, Z3
  <2> QED
    BY <1>1, <1>2, <2>1, SMTT(30), Z3T(30) DEF IInv, TypeOK
<1>4. OneCopy' /\ PanicOnlyWhenFull'
  BY <1>1, SMTT(30), Z3T(30) DEF IInv, TypeOK, OneCopy, PanicOnlyWhenFull, LockFree
<1>5. Uses' /\ Owners'
  BY <1>1, BcacheAssumption, SMTT(30), Z3T(30) DEF IInv, TypeOK, Uses, Has, Owners, Holds
<1>6. Pins' /\ Clean'
  BY <1>1, SMT, Z3 DEF IInv, TypeOK, Pins, Clean
<1> QED
  BY <1>2, <1>3, <1>4, <1>5, <1>6, SMTT(30), Z3T(30) DEF IInv
-----------------------------------------------------------------------------
\* Every step of bio.c preserves the invariant.
LEMMA NextIInv == IInv /\ [Next]_vars => IInv'
<1> SUFFICES ASSUME IInv, [Next]_vars PROVE IInv'
  BY SMTT(30), Z3T(30)
<1>1. CASE UNCHANGED vars
  BY <1>1, SMTT(30), Z3T(30)
     DEF vars, IInv, TypeOK, OneCopy, RefcntExact, PanicOnlyWhenFull, LockFree,
              Uses, Has, Owners, Holds, Pins, Clean
<1>2. ASSUME NEW p \in Procs, Step(p) PROVE IInv'
  BY <1>2, AcquireSleepStep, BreadDiskStep, BrelseUnlockStep, BrelseDropStep,
     SMTT(30), Z3T(30) DEF Step
<1>3. ASSUME NEW p \in Procs, NEW v \in Vals, Modify(p, v) \/ Overwrite(p, v) PROVE IInv'
  BY <1>3, Changes, ChangeStep, SMTT(30), Z3T(30)
<1> QED
  BY <1>1, <1>2, <1>3, BpinStep, BwriteStep, BunpinStep, BgetPanicStep, BgetHitStep,
     BgetRecycleStep, SMT, Z3 DEF Next

\* The inductive invariant of bio.c.
THEOREM CacheInvariance == Spec => []IInv
BY InitIInv, NextIInv, PTL DEF Spec

\* The cache is sound for every number of processes, blocks and buffers: one
\* buffer per block, exact reference counts, a list of all buffers, and a
\* panic of bget only when each buffer is used or pinned.
THEOREM CacheSound == Spec => []BufsSound
<1>1. IInv => BufsSound
  BY SMTT(30), Z3T(30) DEF IInv, BufsSound
<1> QED
  BY <1>1, CacheInvariance, PTL
-----------------------------------------------------------------------------
(***************************************************************************)
(* The refinement of BlockStore                                            *)
(***************************************************************************)

\* What Current(k) is: the contents of the valid buffer of k, or the disk's.
CurrentIs == \A k \in Blocks :
  /\ \A b \in Bufs : blockno[b] = k /\ valid[b] => Current(k) = data[b]
  /\ (\A b \in Bufs : ~(blockno[b] = k /\ valid[b])) => Current(k) = disk[k]

\* The valid buffer of a block is unique, so CHOOSE finds it.
LEMMA CurrentValue == IInv => CurrentIs
BY BcacheAssumption, SMT, Z3 DEF IInv, OneCopy, CurrentIs, Current

\* The same after the step.
LEMMA CurrentValueNext == IInv' => CurrentIs'
BY CurrentValue, PTL

\* Nothing that BlockStore sees changes.
Hidden ==
  /\ \A k \in Blocks : Current(k)' = Current(k)
  /\ \A q \in Procs : /\ Has(q)' <=> Has(q)
                      /\ Has(q) => /\ blockno'[buf'[q]] = blockno[buf[q]]
                                   /\ data'[buf'[q]] = data[buf[q]]

\* Then the step is a stutter of BlockStore.
LEMMA HiddenStutters == Hidden => UNCHANGED BS!vars
BY SMTT(30), Z3T(30) DEF Hidden, BS!vars

\* A holder has a block, sees its current contents, and is the only one.
LEMMA HolderSees ==
  ASSUME IInv, NEW p \in Procs, Has(p)
  PROVE  /\ blockno[buf[p]] \in Blocks /\ buf[p] \in Bufs /\ valid[buf[p]]
         /\ Current(blockno[buf[p]]) = data[buf[p]]
         /\ \A q \in Procs : Has(q) /\ blockno[buf[q]] = blockno[buf[p]] => q = p
<1>1. /\ blockno[buf[p]] \in Blocks /\ buf[p] \in Bufs /\ valid[buf[p]]
  BY SMTT(30), Z3T(30) DEF IInv, TypeOK, Uses, Has
<1>2. Current(blockno[buf[p]]) = data[buf[p]]
  BY <1>1, CurrentValue, SMTT(30), Z3T(30) DEF CurrentIs
<1>3. ASSUME NEW q \in Procs, Has(q), blockno[buf[q]] = blockno[buf[p]] PROVE q = p
  <2>1. buf[q] \in Bufs
    BY <1>3, SMTT(30), Z3T(30) DEF IInv, TypeOK, Uses, Has
  <2>2. buf[q] = buf[p]
    BY <1>1, <1>3, <2>1, BcacheAssumption, SMTT(30), Z3T(30) DEF IInv, OneCopy
  <2> QED
    BY <1>3, <2>2, HolderAlone, SMTT(30), Z3T(30) DEF Has, Holds
<1> QED
  BY <1>1, <1>2, <1>3, SMTT(30), Z3T(30)

\* A step that changes neither blocks, contents nor holders is hidden.
LEMMA QuietHidden ==
  ASSUME UNCHANGED <<blockno, valid, data, disk>>,
         \A q \in Procs : /\ Has(q)' <=> Has(q)
                          /\ Has(q) => buf'[q] = buf[q]
  PROVE  Hidden
BY SMTT(30), Z3T(30) DEF Hidden, Current

\* bget and the ends of brelse and bpin change nobody's view: what is recycled
\* is clean, and what it is recycled for was only on disk.
LEMMA BgetRecycleHidden ==
  ASSUME IInv, IInv', NEW p \in Procs, NEW i \in Bufs, NEW k \in Blocks,
         BgetRecycle(p, i, k)
  PROVE  Hidden
<1>0. PICK b \in Bufs : b = lru[i]
  BY SMTT(30), Z3T(30) DEF IInv, TypeOK
<1>1. /\ pc[p] = "idle" /\ refcnt[b] = 0 /\ \A c \in Bufs : blockno[c] # k
      /\ blockno' = [blockno EXCEPT ![b] = k] /\ valid' = [valid EXCEPT ![b] = FALSE]
      /\ buf' = [buf EXCEPT ![p] = b] /\ pc' = [pc EXCEPT ![p] = "lock"]
      /\ UNCHANGED <<data, disk>>
  BY <1>0, SMT, Z3 DEF BgetRecycle, Calls, Goto, IInv, TypeOK, Oldest, Cached
<1>2. b \notin pinned /\ \A q \in Procs : buf[q] # b
  BY <1>1, RefcntValue, ZenonT(30) DEF Users
<1>3. valid[b] => data[b] = disk[blockno[b]]
  BY <1>2, SMTT(30), Z3T(30) DEF IInv, Clean
<1>4. ASSUME NEW m \in Blocks PROVE Current(m)' = Current(m)
  <2>1. CASE \E c \in Bufs : c # b /\ blockno[c] = m /\ valid[c]
    <3>1. PICK c \in Bufs : c # b /\ blockno[c] = m /\ valid[c]
      BY <2>1, SMTT(30), Z3T(30)
    <3>2. blockno'[c] = m /\ valid'[c] /\ data'[c] = data[c]
      BY <1>1, <3>1, SMTT(30), Z3T(30) DEF IInv, TypeOK
    <3> QED
      BY <3>1, <3>2, CurrentValue, CurrentValueNext, SMTT(30), Z3T(30) DEF CurrentIs
  <2>2. CASE ~\E c \in Bufs : c # b /\ blockno[c] = m /\ valid[c]
    <3>1. Current(m) = disk[m]
      BY <1>3, <2>2, CurrentValue, SMTT(30), Z3T(30) DEF CurrentIs
    <3>2. \A c \in Bufs : ~(blockno'[c] = m /\ valid'[c])
      BY <1>1, <2>2, SMTT(30), Z3T(30) DEF IInv, TypeOK
    <3> QED
      BY <1>1, <3>1, <3>2, CurrentValueNext, SMTT(30), Z3T(30) DEF CurrentIs
  <2> QED
    BY <2>1, <2>2, SMTT(30), Z3T(30)
<1>5. ASSUME NEW q \in Procs
      PROVE  /\ Has(q)' <=> Has(q)
             /\ Has(q) => /\ blockno'[buf'[q]] = blockno[buf[q]]
                          /\ data'[buf'[q]] = data[buf[q]]
  BY <1>1, <1>2, SMTT(30), Z3T(30) DEF IInv, TypeOK, Uses, Has
<1> QED
  BY <1>4, <1>5, SMTT(30), Z3T(30) DEF Hidden

\* bwrite changes the disk below a valid buffer.
LEMMA BwriteHidden == ASSUME IInv, IInv', NEW p \in Procs, Bwrite(p) PROVE Hidden
<1>1. /\ Has(p) /\ \E l \in {"held", "unpin"} : pc' = [pc EXCEPT ![p] = l]
      /\ disk' = [disk EXCEPT ![blockno[buf[p]]] = data[buf[p]]]
      /\ UNCHANGED <<blockno, valid, data, buf>>
  BY SMTT(30), Z3T(30) DEF Bwrite, Goto, Has
<1>2. blockno[buf[p]] \in Blocks /\ buf[p] \in Bufs /\ valid[buf[p]]
  BY <1>1, HolderSees, SMT, Z3
<1>3. ASSUME NEW m \in Blocks PROVE Current(m)' = Current(m)
  <2>1. CASE \E c \in Bufs : blockno[c] = m /\ valid[c]
    BY <1>1, <2>1, CurrentValue, CurrentValueNext, SMTT(30), Z3T(30) DEF CurrentIs
  <2>2. CASE ~\E c \in Bufs : blockno[c] = m /\ valid[c]
    <3>1. m # blockno[buf[p]] /\ disk'[m] = disk[m]
      BY <1>1, <1>2, <2>2, SMTT(30), Z3T(30) DEF IInv, TypeOK
    <3> QED
      BY <1>1, <2>2, <3>1, CurrentValue, CurrentValueNext, SMTT(30), Z3T(30) DEF CurrentIs
  <2> QED
    BY <2>1, <2>2, SMTT(30), Z3T(30)
<1>4. \A q \in Procs : Has(q)' <=> Has(q)
  BY <1>1, SMTT(30), Z3T(30) DEF IInv, TypeOK, Has
<1> QED
  BY <1>1, <1>3, <1>4, Zenon DEF Hidden

\* The process that gets a block: nobody has it, and the buffer then holds its
\* current contents.
LEMMA Gets ==
  ASSUME IInv, IInv', NEW p \in Procs, pc[p] \in {"lock", "read"},
         \A q \in Procs : Holds(q) /\ buf[q] = buf[p] => q = p,
         pc' = [pc EXCEPT ![p] = "held"], UNCHANGED <<blockno, disk, buf>>,
         \A b \in Bufs : b # buf[p] => valid'[b] = valid[b] /\ data'[b] = data[b],
         valid'[buf[p]], data'[buf[p]] = Current(blockno[buf[p]])
  PROVE  BS!Next
<1>0. PICK k \in Blocks : k = blockno[buf[p]]
  BY SMTT(30), Z3T(30) DEF IInv, TypeOK, Uses
<1>1. buf[p] \in Bufs /\ ~Has(p) /\ Has(p)'
  BY SMTT(30), Z3T(30) DEF IInv, TypeOK, Uses, Has
<1>2. \A q \in Procs : q # p => (Has(q)' <=> Has(q))
  BY SMTT(30), Z3T(30) DEF IInv, TypeOK, Has
<1>3. \A q \in Procs : Has(q) => q # p /\ buf[q] \in Bufs /\ buf[q] # buf[p] /\ blockno[buf[q]] # k
  <2>1. ASSUME NEW q \in Procs, Has(q) PROVE buf[q] \in Bufs /\ buf[q] # buf[p]
    BY <1>1, <2>1, ZenonT(30) DEF IInv, TypeOK, Uses, Has, Holds
  <2> QED
    BY <1>0, <1>1, <2>1, BcacheAssumption, SMT, Z3 DEF IInv, OneCopy
<1>4. ASSUME NEW m \in Blocks PROVE Current(m)' = Current(m)
  <2>1. CASE m = k
    BY <1>0, <1>1, <2>1, CurrentValueNext, Zenon DEF CurrentIs
  <2>2. CASE m # k
    <3>1. \A b \in Bufs : blockno[b] = m => b # buf[p]
      BY <1>0, <2>2, SMTT(30), Z3T(30)
    <3>2. CASE \E b \in Bufs : blockno[b] = m /\ valid[b]
      BY <3>1, <3>2, CurrentValue, CurrentValueNext, SMTT(30), Z3T(30) DEF CurrentIs
    <3>3. CASE ~\E b \in Bufs : blockno[b] = m /\ valid[b]
      BY <3>1, <3>3, CurrentValue, CurrentValueNext, SMTT(30), Z3T(30) DEF CurrentIs
    <3> QED
      BY <3>2, <3>3, SMTT(30), Z3T(30)
  <2> QED
    BY <2>1, <2>2, SMT, Z3
<1>5. BS!Get(p, k)
  <2> DEFINE mem == [m \in Blocks |-> Current(m)]
             held == [q \in Procs |-> IF Has(q) THEN blockno[buf[q]] ELSE None]
             view == [q \in Procs |-> IF Has(q) THEN data[buf[q]] ELSE None]
  <2>1. mem' = mem /\ mem[k] = data'[buf[p]]
    BY <1>0, <1>4, SMTT(30), Z3T(30)
  <2>2. held[p] = None /\ \A q \in Procs : held[q] # k
    BY <1>1, <1>3, BcacheAssumption, Zenon
  <2>3. held' = [held EXCEPT ![p] = k]
    BY <1>0, <1>1, <1>2, Zenon
  <2>4. view' = [view EXCEPT ![p] = mem[k]]
    <3>1. \A q \in Procs : Has(q) => data'[buf[q]] = data[buf[q]]
      BY <1>3, SMT, Z3
    <3> QED
      BY <1>1, <1>2, <2>1, <3>1, Zenon
  <2> QED
    BY <2>1, <2>2, <2>3, <2>4, Zenon DEF BS!Get
<1> QED
  BY <1>5, SMTT(30), Z3T(30) DEF BS!Next

\* bread returns a block, from a valid buffer or from the disk.
LEMMA BreadGets ==
  ASSUME IInv, IInv', NEW p \in Procs, AcquireSleep(p) \/ BreadDisk(p)
  PROVE  BS!Next \/ Hidden
<1>1. CASE AcquireSleep(p) /\ valid[buf[p]]
  <2>1. /\ pc[p] = "lock" /\ owner[buf[p]] = None /\ pc' = [pc EXCEPT ![p] = "held"]
        /\ buf[p] \in Bufs /\ blockno[buf[p]] \in Blocks
        /\ UNCHANGED <<blockno, valid, data, disk, buf>>
    BY <1>1, SMT, Z3 DEF AcquireSleep, Goto, IInv, TypeOK, Uses
  <2>2. \A q \in Procs : Holds(q) /\ buf[q] = buf[p] => q = p
    BY <2>1, BcacheAssumption, ZenonT(30) DEF IInv, Owners
  <2>3. data[buf[p]] = Current(blockno[buf[p]])
    BY <1>1, <2>1, CurrentValue, Zenon DEF CurrentIs
  <2> QED
    BY <1>1, <2>1, <2>2, <2>3, Gets, ZenonT(30)
<1>2. CASE AcquireSleep(p) /\ ~valid[buf[p]]
  BY <1>2, QuietHidden, SMT, Z3 DEF AcquireSleep, Goto, IInv, TypeOK, Has
<1>3. CASE BreadDisk(p)
  <2>1. /\ pc[p] = "read" /\ Holds(p) /\ pc' = [pc EXCEPT ![p] = "held"]
        /\ buf[p] \in Bufs /\ blockno[buf[p]] \in Blocks /\ ~valid[buf[p]]
        /\ valid' = [valid EXCEPT ![buf[p]] = TRUE]
        /\ data' = [data EXCEPT ![buf[p]] = disk[blockno[buf[p]]]]
        /\ UNCHANGED <<blockno, disk, buf>>
    BY <1>3, SMT, Z3 DEF BreadDisk, Goto, IInv, TypeOK, Uses, Holds
  <2>2. \A q \in Procs : Holds(q) /\ buf[q] = buf[p] => q = p
    BY <2>1, HolderAlone, ZenonT(30)
  <2>3. \A b \in Bufs : ~(blockno[b] = blockno[buf[p]] /\ valid[b])
    BY <2>1, BcacheAssumption, SMTT(30), Z3T(30) DEF IInv, OneCopy
  <2>4. disk[blockno[buf[p]]] = Current(blockno[buf[p]])
    BY <2>1, <2>3, CurrentValue, SMTT(30), Z3T(30) DEF CurrentIs
  <2>5. /\ valid'[buf[p]] /\ data'[buf[p]] = Current(blockno[buf[p]])
        /\ \A b \in Bufs : b # buf[p] => valid'[b] = valid[b] /\ data'[b] = data[b]
    BY <2>1, <2>4, SMT, Z3 DEF IInv, TypeOK
  <2> QED
    BY <2>1, <2>2, <2>5, Gets, ZenonT(30)
<1> QED
  BY <1>1, <1>2, <1>3, SMT, Z3

\* A holder changes its block, and only that.
LEMMA ChangeSets ==
  ASSUME IInv, IInv', NEW p \in Procs, NEW v \in Vals, NEW l \in {"held", "pin", "write"},
         pc[p] = "held", Change(p, v, l)
  PROVE  BS!Next
<1>0. Has(p) /\ Has(p)' /\ buf[p] \in Bufs /\ valid[buf[p]]
  BY HolderSees, SMTT(30), Z3T(30) DEF Change, Goto, Has, IInv, TypeOK
<1>1. /\ data' = [data EXCEPT ![buf[p]] = v]
      /\ UNCHANGED <<blockno, valid, disk, buf>>
  BY SMTT(30), Z3T(30) DEF Change
<1>2. \A q \in Procs : Has(q)' <=> Has(q)
  BY SMTT(30), Z3T(30) DEF Change, Goto, Has, IInv, TypeOK
<1>3. PICK k \in Blocks : k = blockno[buf[p]]
  BY <1>0, HolderSees, SMTT(30), Z3T(30)
<1>4. \A q \in Procs : Has(q) /\ q # p => buf[q] \in Bufs /\ buf[q] # buf[p]
  BY <1>0, HolderSees, SMTT(30), Z3T(30)
<1>5. data'[buf[p]] = v /\ \A b \in Bufs : b # buf[p] => data'[b] = data[b]
  BY <1>0, <1>1, SMTT(30), Z3T(30) DEF IInv, TypeOK
<1>6. Current(k)' = v
  BY <1>0, <1>1, <1>3, <1>5, CurrentValueNext, SMTT(30), Z3T(30) DEF CurrentIs
<1>7. ASSUME NEW m \in Blocks, m # k PROVE Current(m)' = Current(m)
  <2>1. \A b \in Bufs : blockno[b] = m => data'[b] = data[b]
    BY <1>3, <1>5, <1>7, SMTT(30), Z3T(30)
  <2>2. CASE \E b \in Bufs : blockno[b] = m /\ valid[b]
    BY <1>1, <2>1, <2>2, CurrentValue, CurrentValueNext, SMTT(30), Z3T(30) DEF CurrentIs
  <2>3. CASE ~\E b \in Bufs : blockno[b] = m /\ valid[b]
    BY <1>1, <2>3, CurrentValue, CurrentValueNext, SMT, Z3 DEF CurrentIs
  <2> QED
    BY <2>2, <2>3, SMTT(30), Z3T(30)
<1>8. BS!Set(p, v)
  <2> DEFINE mem == [m \in Blocks |-> Current(m)]
             held == [q \in Procs |-> IF Has(q) THEN blockno[buf[q]] ELSE None]
             view == [q \in Procs |-> IF Has(q) THEN data[buf[q]] ELSE None]
  <2>1. held[p] = k /\ k # None /\ held' = held
    BY <1>0, <1>1, <1>2, <1>3, BcacheAssumption, SMT, Z3
  <2>2. mem' = [mem EXCEPT ![k] = v]
    BY <1>6, <1>7, Zenon
  <2>3. view' = [view EXCEPT ![p] = v]
    <3>1. \A q \in Procs : Has(q) /\ q # p => data'[buf'[q]] = data[buf[q]]
      BY <1>1, <1>4, <1>5, SMT, Z3
    <3>2. data'[buf'[p]] = v
      BY <1>1, <1>5, SMT, Z3
    <3> QED
      BY <1>0, <1>2, <3>1, <3>2, Zenon
  <2> QED
    BY <2>1, <2>2, <2>3, ZenonT(30) DEF BS!Set
<1> QED
  BY <1>8, SMTT(30), Z3T(30) DEF BS!Next

\* releasesleep gives the block up.
LEMMA BrelsePuts ==
  ASSUME IInv, IInv', NEW p \in Procs, BrelseUnlock(p) PROVE BS!Next
<1>1. /\ Has(p) /\ ~Has(p)' /\ \A q \in Procs : q # p => (Has(q)' <=> Has(q))
      /\ UNCHANGED <<blockno, valid, data, disk, buf>>
  BY SMTT(30), Z3T(30) DEF BrelseUnlock, Goto, Has, IInv, TypeOK
<1>2. blockno[buf[p]] \in Blocks
  BY <1>1, HolderSees, SMTT(30), Z3T(30)
<1>3. \A m \in Blocks : Current(m)' = Current(m)
  BY <1>1, SMT, Z3 DEF Current
<1>4. BS!Put(p)
  BY <1>1, <1>2, <1>3, BcacheAssumption, Zenon DEF BS!Put
<1> QED
  BY <1>4, SMTT(30), Z3T(30) DEF BS!Next

\* Every step of bio.c is a step of the store or is hidden.
LEMMA NextRefines == IInv /\ IInv' /\ [Next]_vars => [BS!Next]_(BS!vars)
<1> SUFFICES ASSUME IInv, IInv', [Next]_vars PROVE BS!Next \/ Hidden
  BY HiddenStutters, SMTT(30), Z3T(30)
<1>1. CASE UNCHANGED vars
  BY <1>1, QuietHidden, SMTT(30), Z3T(30) DEF vars, Has
<1>2. ASSUME NEW p \in Procs, Bpin(p) \/ Bunpin(p) \/ BrelseDrop(p) PROVE Hidden
  BY <1>2, QuietHidden, SMTT(30), Z3T(30) DEF Bpin, Bunpin, BrelseDrop, Goto, IInv, TypeOK, Has
<1>3. ASSUME NEW p \in Procs, NEW k \in Blocks, NEW b \in Bufs, BgetHit(p, b, k) PROVE Hidden
  <2>1. /\ pc[p] = "idle" /\ pc' = [pc EXCEPT ![p] = "lock"]
        /\ buf' = [buf EXCEPT ![p] = b] /\ UNCHANGED <<blockno, valid, data, disk>>
    BY <1>3, SMT, Z3 DEF BgetHit, Calls, Goto
  <2>2. \A q \in Procs : (Has(q)' <=> Has(q)) /\ (Has(q) => buf'[q] = buf[q])
    BY <2>1, SMT, Z3 DEF IInv, TypeOK, Has
  <2> QED
    BY <2>1, <2>2, QuietHidden, SMTT(30), Z3T(30)
<1>4. ASSUME NEW p \in Procs, NEW k \in Blocks, BgetPanic(p, k) PROVE Hidden
  <2>1. /\ pc[p] = "idle" /\ pc' = [pc EXCEPT ![p] = "panic"]
        /\ UNCHANGED <<blockno, valid, data, disk, buf>>
    BY <1>4, SMT, Z3 DEF BgetPanic, Calls, Goto
  <2>2. \A q \in Procs : Has(q)' <=> Has(q)
    BY <2>1, SMT, Z3 DEF IInv, TypeOK, Has
  <2> QED
    BY <2>1, <2>2, QuietHidden, SMTT(30), Z3T(30)
<1>5. ASSUME NEW p \in Procs, Step(p) PROVE BS!Next \/ Hidden
  BY <1>2, <1>5, BreadGets, BrelsePuts, SMTT(30), Z3T(30) DEF Step
<1>6. ASSUME NEW p \in Procs, NEW v \in Vals, Modify(p, v) \/ Overwrite(p, v) PROVE BS!Next
  BY <1>6, Changes, ChangeSets, SMTT(30), Z3T(30)
<1> QED
  BY <1>1, <1>2, <1>3, <1>4, <1>5, <1>6, BwriteHidden, BgetRecycleHidden, SMTT(30), Z3T(30)
     DEF Next

\* binit gives an initial store.
LEMMA InitRefines == Init => BS!Init
<1> SUFFICES ASSUME Init PROVE BS!Init
  BY SMT, Z3
<1>1. \A k \in Blocks : Current(k) = InitVal
  BY SMT, Z3 DEF Init, Current
<1>2. \A p \in Procs : ~Has(p)
  BY SMT, Z3 DEF Init, Has
<1> QED
  BY <1>1, <1>2, BcacheAssumption, SMTT(30), Z3T(30) DEF BS!Init

\* The buffer cache implements the coherent store of module BlockStore for every
\* number of processes, blocks and buffers: no recycling loses a change and every
\* bread returns the latest contents (bio.c).
THEOREM CacheCoherence == Spec => StoreSpec
<1>1. Spec => BS!Init
  BY InitRefines, SMT, Z3 DEF Spec
<1>2. Spec => [][BS!Next]_(BS!vars)
  BY CacheInvariance, NextRefines, PTL DEF Spec
<1> QED
  BY <1>1, <1>2, SMT, Z3 DEF StoreSpec, BS!Spec
=============================================================================
