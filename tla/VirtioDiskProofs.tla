-------------------------- MODULE VirtioDiskProofs --------------------------
(***************************************************************************)
(* Proofs about module VirtioDisk for every number of processes, every     *)
(* number of descriptors and every width of the ring indexes.              *)
(***************************************************************************)
EXTENDS VirtioDisk, Counters, FiniteSetTheorems, WellFoundedInduction

\* The descriptors that a request's process waits for.
Pending(h) == infob[h] \in Procs /\ pc[infob[h]] = "wait" /\ bdisk[infob[h]]

\* The entries of the two rings that have not been read.
Avail == Slots(devNext, availIdx)
Used == Slots(seen, usedIdx)

\* A request's process and its first descriptor know each other.
Heads ==
  /\ \A p \in Active : idx[p] \in Freed(p) /\ infob[idx[p]] = p
  /\ \A h \in Descs : infob[h] # None => infob[h] \in Active /\ idx[infob[h]] = h

\* vdisk_lock is held between the ring entry and the index that publishes it.
Publishing == \A p \in Procs :
  /\ lock = p <=> pc[p] = "publish"
  /\ pc[p] = "publish" => bdisk[p] /\ avail[availIdx % NUM] = idx[p]

\* No ring has more entries than slots.
Windows == /\ Cardinality(Avail) = (availIdx - devNext) % W
           /\ Cardinality(Used) = (usedIdx - seen) % W

\* What is in the rings and at the device is waited for, and is there once.
Placed ==
  /\ \A k \in Avail : avail[k] \in Descs /\ Pending(avail[k]) /\ avail[k] \notin devWork
  /\ \A h \in devWork : Pending(h)
  /\ \A k \in Used : used[k] \in Descs /\ Pending(used[k]) /\ used[k] \notin devWork
  /\ \A j, k \in Avail : avail[j] = avail[k] => j = k
  /\ \A j, k \in Used : used[j] = used[k] => j = k
  /\ \A j \in Avail, k \in Used : avail[j] # used[k]

\* What is waited for is in a ring or at the device.
Found == \A p \in Procs : pc[p] = "wait" /\ bdisk[p] =>
  \/ idx[p] \in devWork
  \/ \E k \in Avail : avail[k] = idx[p]
  \/ \E k \in Used : used[k] = idx[p]

\* What is in the used ring, or no longer waited for, has been transferred.
Transferred ==
  /\ \A k \in Used : status[used[k]] /\ xfer[infob[used[k]]]
  /\ \A p \in Procs : pc[p] = "wait" /\ ~bdisk[p] => xfer[p]

IInv == /\ TypeOK /\ DescsConserved /\ Heads /\ Publishing /\ Windows
        /\ Placed /\ Found /\ Transferred /\ CompletionPending
-----------------------------------------------------------------------------
\* The slots of a ring between two indexes.

\* The window from index from to index to has d slots.
Spans(from, to, d) == /\ d = (to - from) % W
                      /\ d = 0 <=> from = to
                      /\ from + d = to \/ from + d = to + W
                      /\ Slots(from, to) = {(from + k) % NUM : k \in 0..d-1}

\* The distance of two indexes, also where one has wrapped.
LEMMA Distance ==
  ASSUME NEW from \in 0..W-1, NEW to \in 0..W-1
  PROVE  \E d \in 0..W-1 : Spans(from, to, d)
<1>1. (to - from) % W = IF to >= from THEN to - from ELSE to - from + W
  BY ModDiff, VirtioAssumption, SMT, Z3
<1>2. PICK d \in 0..W-1 : d = (to - from) % W
  BY <1>1, VirtioAssumption, SMT, Z3
<1>3. d = 0 <=> from = to
  BY <1>1, <1>2, VirtioAssumption, SMT, Z3
<1>4. from + d = to \/ from + d = to + W
  BY <1>1, <1>2, VirtioAssumption, SMT, Z3
<1>5. Slots(from, to) = {(from + k) % NUM : k \in 0..d-1}
  BY <1>2, Zenon DEF Slots
<1>6. Spans(from, to, d)
  BY <1>2, <1>3, <1>4, <1>5, Zenon DEF Spans
<1> QED
  BY <1>6, Zenon

\* The distance grows by one with the end of the window, also where it wraps.
LEMMA Grows ==
  ASSUME NEW from \in 0..W-1, NEW to \in 0..W-1, NEW t \in 0..W-1, NEW d \in 0..W-1,
         NEW e \in 0..W-1, Spans(from, to, d), Spans(from, t, e), d < NUM,
         t = IF to + 1 = W THEN 0 ELSE to + 1
  PROVE  e = d + 1
<1>1. W \in Nat /\ NUM \in Nat /\ NUM < W
  BY VirtioAssumption, SMT, Z3
<1>2. (from + d = to \/ from + d = to + W) /\ (from + e = t \/ from + e = t + W)
  BY Zenon DEF Spans
<1> QED
  BY <1>1, <1>2, SMT, Z3

\* The distance shrinks by one with the start of the window, also where it wraps.
LEMMA Shrinks ==
  ASSUME NEW from \in 0..W-1, NEW to \in 0..W-1, NEW f \in 0..W-1, NEW d \in 0..W-1,
         NEW e \in 0..W-1, Spans(from, to, d), Spans(f, to, e), from # to,
         f = IF from + 1 = W THEN 0 ELSE from + 1
  PROVE  e = d - 1
<1>1. W \in Nat
  BY VirtioAssumption, SMT, Z3
<1>2. (from + d = to \/ from + d = to + W) /\ (f + e = to \/ f + e = to + W)
  BY Zenon DEF Spans
<1> QED
  BY <1>1, <1>2, SMT, Z3

\* Slots are numbered like descriptors.
LEMMA SlotsType ==
  ASSUME NEW from \in 0..W-1, NEW to \in 0..W-1
  PROVE  Slots(from, to) \in SUBSET Descs /\ (from = to => Slots(from, to) = {})
<1>1. PICK d \in 0..W-1 : Spans(from, to, d)
  BY Distance, Zenon
<1>2. \A k \in 0..d-1 : (from + k) % NUM \in Descs
  BY VirtioAssumption, SMT, Z3 DEF Descs
<1>3. d = 0 => 0..d-1 = {}
  BY VirtioAssumption, SMT, Z3
<1> QED
  BY <1>1, <1>2, <1>3, Zenon DEF Spans

\* The slot of an index is one of 0..NUM-1.
LEMMA SlotOf == ASSUME NEW i \in 0..W-1 PROVE i % NUM \in Descs
BY VirtioAssumption, SMT, Z3 DEF Descs

\* Advancing the end of a window that is not full adds the slot at the end, which
\* was not in the window.
LEMMA SlotsAdd ==
  ASSUME NEW from \in 0..W-1, NEW to \in 0..W-1, (to - from) % W < NUM
  PROVE  /\ (to + 1) % W \in 0..W-1
         /\ Slots(from, (to + 1) % W) = Slots(from, to) \cup {to % NUM}
         /\ to % NUM \notin Slots(from, to)
         /\ (((to + 1) % W) - from) % W = ((to - from) % W) + 1
<1> USE VirtioAssumption
<1>0. NUM \in Nat \ {0} /\ W \in Nat /\ W % NUM = 0 /\ from \in Int /\ to \in Int
  BY SMT, Z3
<1>1. PICK d \in 0..W-1 : Spans(from, to, d)
  BY Distance, Zenon
<1>2. PICK t \in 0..W-1 : t = (to + 1) % W /\ t = IF to + 1 = W THEN 0 ELSE to + 1
  <2>1. (to + 1) % W = IF to + 1 = W THEN 0 ELSE to + 1
    BY ModNext, SMT, Z3
  <2> QED
    BY <2>1, SMT, Z3
<1>3. PICK e \in 0..W-1 : Spans(from, t, e)
  BY Distance, Zenon
<1>4. e = d + 1
  <2>1. d < NUM
    BY <1>1, Zenon DEF Spans
  <2> QED
    BY <1>1, <1>2, <1>3, <2>1, Grows, SMTT(30), Z3T(30)
<1>5. (from + d) % NUM = to % NUM
  <2>1. (to + W) % NUM = to % NUM
    BY <1>0, ModShift, Zenon
  <2> QED
    BY <1>1, <2>1, Zenon DEF Spans
<1>6. 0..e-1 = (0..d-1) \cup {d}
  BY <1>4, SMT, Z3
<1>7. Slots(from, t) = Slots(from, to) \cup {to % NUM}
  <2>1. /\ Slots(from, t) = {(from + k) % NUM : k \in 0..e-1}
        /\ Slots(from, to) = {(from + k) % NUM : k \in 0..d-1}
    BY <1>1, <1>3, Zenon DEF Spans
  <2> QED
    BY <2>1, <1>5, <1>6, Zenon
<1>8. \A k \in 0..d-1 : (from + k) % NUM # to % NUM
  <2> TAKE k \in 0..d-1
  <2>1. d < NUM
    BY <1>1, Zenon DEF Spans
  <2>2. PICK g \in 1..NUM-1 : g = d - k
    BY <1>0, <2>1, SMT, Z3
  <2>3. PICK a \in Int : a = from + k
    BY SMT, Z3
  <2>4. (a + g) % NUM # a % NUM
    BY <1>0, <2>2, <2>3, ModApart, Zenon
  <2>5. a + g = from + d
    BY <2>2, <2>3, SMT, Z3
  <2> QED
    BY <1>5, <2>3, <2>4, <2>5, Zenon
<1> QED
  BY <1>1, <1>2, <1>3, <1>4, <1>7, <1>8, Zenon DEF Spans

\* Advancing the start of a window that is not empty removes the slot at the start.
LEMMA SlotsDrop ==
  ASSUME NEW from \in 0..W-1, NEW to \in 0..W-1, from # to, (to - from) % W <= NUM
  PROVE  /\ (from + 1) % W \in 0..W-1
         /\ Slots((from + 1) % W, to) = Slots(from, to) \ {from % NUM}
         /\ from % NUM \in Slots(from, to)
         /\ (to - ((from + 1) % W)) % W = ((to - from) % W) - 1
<1> USE VirtioAssumption
<1>0. NUM \in Nat \ {0} /\ W \in Nat /\ W % NUM = 0 /\ from \in Int /\ to \in Int
  BY SMT, Z3
<1>1. PICK d \in 0..W-1 : Spans(from, to, d)
  BY Distance, Zenon
<1>2. PICK f \in 0..W-1 : f = (from + 1) % W /\ f = IF from + 1 = W THEN 0 ELSE from + 1
  <2>1. (from + 1) % W = IF from + 1 = W THEN 0 ELSE from + 1
    BY ModNext, SMT, Z3
  <2> QED
    BY <2>1, SMT, Z3
<1>3. PICK e \in 0..W-1 : Spans(f, to, e)
  BY Distance, Zenon
<1>4. e = d - 1
  BY <1>1, <1>2, <1>3, Shrinks, SMTT(30), Z3T(30)
<1>5. \A k \in 0..e-1 : (f + k) % NUM = (from + (k + 1)) % NUM
  <2>1. TAKE k \in 0..e-1
  <2>0. PICK a \in Int : a = from + (k + 1)
    BY SMT, Z3
  <2>2. (a - W) % NUM = a % NUM
    BY <1>0, ModShift, Zenon
  <2>3. f + k = from + (k + 1) \/ f + k = from + (k + 1) - W
    BY <1>2, SMT, Z3
  <2> QED
    BY <2>0, <2>2, <2>3, SMT, Z3
<1>6. \A k \in 1..d-1 : (from + k) % NUM # from % NUM
  <2>1. \A k \in 1..NUM-1 : (from + k) % NUM # from % NUM
    BY <1>0, ModApart, Zenon
  <2> QED
    BY <1>1, <2>1, SMTT(30), Z3T(30) DEF Spans
<1>7. from % NUM \in Slots(from, to)
  <2>1. 0 \in 0..d-1 /\ (from + 0) % NUM = from % NUM
    BY <1>1, SMT, Z3 DEF Spans
  <2> QED
    BY <1>1, <2>1, Zenon DEF Spans
<1>8. Slots(f, to) = Slots(from, to) \ {from % NUM}
  <2>1. ASSUME NEW x \in Slots(f, to) PROVE x \in Slots(from, to) \ {from % NUM}
    <3>1. PICK k \in 0..e-1 : x = (f + k) % NUM
      BY <1>3, <2>1, Zenon DEF Spans
    <3>2. PICK j \in 1..d-1 : j = k + 1 /\ j \in 0..d-1
      BY <1>4, SMT, Z3
    <3>3. x = (from + j) % NUM
      BY <1>5, <3>1, <3>2, Zenon
    <3> QED
      BY <1>1, <1>6, <3>2, <3>3, Zenon DEF Spans
  <2>2. ASSUME NEW x \in Slots(from, to), x # from % NUM PROVE x \in Slots(f, to)
    <3>1. PICK j \in 0..d-1 : x = (from + j) % NUM
      BY <1>1, <2>2, Zenon DEF Spans
    <3>2. j # 0
      BY <2>2, <3>1, SMTT(30), Z3T(30)
    <3>3. PICK k \in 0..e-1 : j = k + 1
      BY <1>4, <3>2, SMT, Z3
    <3>4. x = (f + k) % NUM
      BY <1>5, <3>1, <3>3, Zenon
    <3> QED
      BY <1>3, <3>4, Zenon DEF Spans
  <2> QED
    BY <2>1, <2>2, Zenon
<1> QED
  BY <1>1, <1>2, <1>3, <1>4, <1>7, <1>8, Zenon DEF Spans
-----------------------------------------------------------------------------
\* Sets of descriptors.

\* There are NUM descriptors.
LEMMA DescsFinite ==
  /\ IsFiniteSet(Descs) /\ Cardinality(Descs) = NUM
  /\ \A S \in SUBSET Descs : /\ IsFiniteSet(S) /\ Cardinality(S) \in Nat
                             /\ Cardinality(S) <= NUM
<1>1. IsFiniteSet(Descs) /\ Cardinality(Descs) = NUM
  BY FS_Interval, VirtioAssumption, SMT, Z3 DEF Descs
<1>2. ASSUME NEW S \in SUBSET Descs
      PROVE  IsFiniteSet(S) /\ Cardinality(S) \in Nat /\ Cardinality(S) <= NUM
  <2>1. IsFiniteSet(S) /\ Cardinality(S) <= Cardinality(Descs)
    BY <1>1, FS_Subset, Zenon
  <2> QED
    BY <1>1, <2>1, FS_CardinalityType, Zenon
<1> QED
  BY <1>1, <1>2, Zenon

\* A ring whose entries differ from each other and from some descriptor is not full.
LEMMA Room ==
  ASSUME NEW S \in SUBSET Descs, NEW f, NEW h \in Descs,
         \A k \in S : f[k] \in Descs /\ f[k] # h,
         \A j, k \in S : f[j] = f[k] => j = k
  PROVE  Cardinality(S) < NUM
<1> DEFINE g == [k \in S |-> f[k]]
<1>1. g \in Injection(S, Descs \ {h})
  BY Zenon DEF Injection, IsInjective
<1>2. IsFiniteSet(Descs \ {h}) /\ Cardinality(Descs \ {h}) = NUM - 1
  BY DescsFinite, FS_RemoveElement, Zenon
<1>3. Cardinality(S) <= Cardinality(Descs \ {h})
  <2> HIDE DEF g
  <2> QED
    BY <1>1, <1>2, FS_Injection, Zenon
<1>4. Cardinality(S) \in Nat
  BY DescsFinite, Zenon
<1> QED
  BY <1>2, <1>3, <1>4, VirtioAssumption, SMT, Z3

\* alloc_desc takes a free descriptor, if there is one.
LEMMA LowestFree == ASSUME NEW S \in SUBSET Nat, S # {} PROVE Lowest(S) \in S
<1>1. PICK x \in S : \A y \in S : ~(<<y, x>> \in OpToRel(<, Nat))
  BY WFMin, NatLessThanWellFounded, Zenon
<1>2. ASSUME NEW y \in S PROVE x <= y
  <2>1. y < x => <<y, x>> \in OpToRel(<, Nat)
    BY Zenon DEF OpToRel
  <2>2. ~(y < x)
    BY <1>1, <2>1, Zenon
  <2> QED
    BY <2>2, SMT, Z3
<1> QED
  BY <1>2, Zenon DEF Lowest, Min

\* alloc3_desc takes three of them.
LEMMA ThreeFree ==
  ASSUME free \in SUBSET Descs, Cardinality(free) >= 3
  PROVE  \E a, b, c \in free : a # b /\ a # c /\ b # c /\ Three = <<a, b, c>>
<1>0. IsFiniteSet(free) /\ Cardinality(free) \in Nat /\ free \in SUBSET Nat
  BY DescsFinite, VirtioAssumption, SMT, Z3 DEF Descs
<1>1. PICK a \in free : a = Lowest(free)
  <2>1. free # {}
    BY <1>0, FS_EmptySet, SMT, Z3
  <2> QED
    BY <1>0, <2>1, LowestFree, Zenon
<1>2. /\ IsFiniteSet(free \ {a}) /\ Cardinality(free \ {a}) = Cardinality(free) - 1
      /\ free \ {a} \in SUBSET Nat
  BY <1>0, FS_RemoveElement, Zenon
<1>3. PICK b \in free \ {a} : b = Lowest(free \ {a})
  <2>1. free \ {a} # {}
    BY <1>0, <1>2, FS_EmptySet, SMT, Z3
  <2> QED
    BY <1>2, <2>1, LowestFree, Zenon
<1>4. free \ {a, b} = (free \ {a}) \ {b}
  BY Zenon
<1>5. /\ IsFiniteSet(free \ {a, b}) /\ Cardinality(free \ {a, b}) = Cardinality(free) - 2
      /\ free \ {a, b} \in SUBSET Nat
  <2>1. /\ IsFiniteSet((free \ {a}) \ {b})
        /\ Cardinality((free \ {a}) \ {b}) = Cardinality(free \ {a}) - 1
    BY <1>2, FS_RemoveElement, Zenon
  <2> QED
    BY <1>0, <1>2, <1>4, <2>1, SMT, Z3
<1>6. PICK c \in free \ {a, b} : c = Lowest(free \ {a, b})
  <2>1. free \ {a, b} # {}
    BY <1>0, <1>5, FS_EmptySet, SMT, Z3
  <2> QED
    BY <1>5, <2>1, LowestFree, Zenon
<1>7. Three = <<a, b, c>>
  BY <1>1, <1>3, <1>6, Zenon DEF Three
<1> QED
  BY <1>7, Zenon

\* The windows of the two rings are sets of slots, and are empty exactly when their
\* indexes are equal.
LEMMA Rings ==
  ASSUME TypeOK
  PROVE  /\ Avail \in SUBSET Descs /\ Used \in SUBSET Descs
         /\ availIdx % NUM \in Descs /\ devNext % NUM \in Descs
         /\ usedIdx % NUM \in Descs /\ seen % NUM \in Descs
         /\ Cardinality(Avail) \in Nat /\ Cardinality(Avail) <= NUM
         /\ Cardinality(Used) \in Nat /\ Cardinality(Used) <= NUM
<1>1. availIdx \in 0..W-1 /\ usedIdx \in 0..W-1 /\ seen \in 0..W-1 /\ devNext \in 0..W-1
  BY Zenon DEF TypeOK
<1>2. Avail \in SUBSET Descs /\ Used \in SUBSET Descs
  BY <1>1, SlotsType, Zenon DEF Avail, Used
<1>3. /\ availIdx % NUM \in Descs /\ devNext % NUM \in Descs
      /\ usedIdx % NUM \in Descs /\ seen % NUM \in Descs
  BY <1>1, SlotOf, Zenon
<1> QED
  BY <1>2, <1>3, DescsFinite, Zenon
-----------------------------------------------------------------------------
\* virtio_disk_init
LEMMA InitIInv == Init => IInv
<1> SUFFICES ASSUME Init PROVE IInv
  BY Zenon
<1>1. Active = {}
  BY Zenon DEF Init, Active
<1>2. 0 \in 0..W-1 /\ 0 \in Descs
  BY VirtioAssumption, SMT, Z3 DEF Descs
<1>3. TypeOK
  <2>1. xfer \in [Procs -> BOOLEAN] /\ bdisk \in [Procs -> BOOLEAN] /\ intr \in BOOLEAN
    BY Zenon DEF Init
  <2> QED
    BY <1>2, <2>1, VirtioAssumption, Zenon DEF Init, TypeOK
<1>4. Avail = {} /\ Used = {}
  BY <1>2, SlotsType, Zenon DEF Init, Avail, Used
<1>5. (0 - 0) % W = 0
  BY <1>2, ModDiff, VirtioAssumption, SMT, Z3
<1>6. DescsConserved /\ Heads
  BY <1>1, Zenon DEF Init, DescsConserved, Heads
<1>7. Publishing
  BY VirtioAssumption, Zenon DEF Init, Publishing
<1>8. Windows
  BY <1>4, <1>5, FS_EmptySet, Zenon DEF Init, Windows
<1>9. Placed /\ Found /\ Transferred /\ CompletionPending
  BY <1>4, Zenon DEF Init, Placed, Found, Transferred, CompletionPending
<1> QED
  BY <1>3, <1>6, <1>7, <1>8, <1>9, Zenon DEF IInv

\* A step that leaves requests and rings alone keeps what is said of them.
LEMMA Frame ==
  ASSUME IInv, TypeOK', CompletionPending',
         UNCHANGED <<driver, status, avail, availIdx, used, usedIdx, seen, dev, xfer>>,
         \A p \in Procs : /\ pc'[p] = "wait" <=> pc[p] = "wait"
                          /\ pc'[p] = "publish" <=> pc[p] = "publish"
                          /\ lock' = p <=> lock = p
  PROVE  IInv'
<1>1. /\ Active' = Active /\ Avail' = Avail /\ Used' = Used
      /\ \A p : Freed(p)' = Freed(p)
  BY Zenon DEF Active, Avail, Used, Freed, driver, dev, Slots
<1>2. \A h : Pending(h)' <=> Pending(h)
  BY Zenon DEF Pending, driver
<1>3. DescsConserved' /\ Heads'
  BY <1>1, SMT, Z3 DEF IInv, DescsConserved, Heads, driver
<1>4. Publishing' /\ Windows'
  BY <1>1, Zenon DEF IInv, Publishing, Windows, driver, dev
<1>5. Placed'
  BY <1>1, <1>2, ZenonT(30) DEF IInv, Placed, driver, dev
<1>6. Found' /\ Transferred'
  BY <1>1, Zenon DEF IInv, Found, Transferred, driver, dev
<1> QED
  BY <1>3, <1>4, <1>5, <1>6, Zenon DEF IInv

\* A call, a failed alloc3_desc, a spurious wakeup, and the ends of the handler leave
\* requests and rings alone.
LEMMA QuietStep ==
  ASSUME IInv,
         \/ \E p \in Procs : Rw(p) \/ AllocSleep(p) \/ WaitAgain(p) \/ Kill(p)
         \/ IntrAck \/ IntrReturn
  PROVE  IInv'
<1> USE DEF IInv
<1>1. ASSUME NEW p \in Procs, Rw(p) PROVE IInv'
  <2>1. TypeOK' /\ CompletionPending'
    BY <1>1, Zenon DEF TypeOK, CompletionPending, Rw, Goto, driver, dev
  <2> QED
    BY <1>1, <2>1, Frame, Zenon DEF TypeOK, Rw, Goto
<1>2. ASSUME NEW p \in Procs, AllocSleep(p) PROVE IInv'
  <2>1. asleep' \in [Procs -> {"no", "free", "buf"}]
    BY <1>2, Zenon DEF TypeOK, AllocSleep, WakeFree
  <2>2. TypeOK' /\ CompletionPending'
    BY <1>2, <2>1, Zenon DEF TypeOK, CompletionPending, AllocSleep, driver, dev
  <2> QED
    BY <1>2, <2>2, Frame, Zenon DEF AllocSleep
<1>3. ASSUME NEW p \in Procs, WaitAgain(p) PROVE IInv'
  <2>1. TypeOK' /\ CompletionPending'
    BY <1>3, Zenon DEF TypeOK, CompletionPending, WaitAgain, driver, dev
  <2> QED
    BY <1>3, <2>1, Frame, Zenon DEF WaitAgain
<1>4. ASSUME NEW p \in Procs, Kill(p) PROVE IInv'
  <2>1. TypeOK' /\ CompletionPending'
    BY <1>4, Zenon DEF TypeOK, CompletionPending, Kill, driver, dev
  <2> QED
    BY <1>4, <2>1, Frame, Zenon DEF Kill
<1>5. CASE IntrAck
  <2>1. TypeOK' /\ CompletionPending'
    BY <1>5, Zenon DEF TypeOK, CompletionPending, IntrAck, driver, dev
  <2> QED
    BY <1>5, <2>1, Frame, VirtioAssumption, Zenon DEF IntrAck
<1>6. CASE IntrReturn
  <2>1. TypeOK' /\ CompletionPending'
    BY <1>6, Zenon DEF TypeOK, CompletionPending, IntrReturn, driver, dev
  <2> QED
    BY <1>6, <2>1, Frame, VirtioAssumption, Zenon DEF IntrReturn
<1> QED
  BY <1>1, <1>2, <1>3, <1>4, <1>5, <1>6, Zenon
-----------------------------------------------------------------------------
\* A descriptor with a buffer is in the chain of the buffer's process.
LEMMA HeadOf ==
  ASSUME IInv, NEW h \in Descs, infob[h] # None
  PROVE  /\ infob[h] \in Active /\ idx[infob[h]] = h
         /\ h \notin free /\ \A q \in Active : q # infob[h] => h \notin Freed(q)
<1>1. infob[h] \in Active /\ idx[infob[h]] = h /\ h \in Freed(infob[h])
  BY Zenon DEF IInv, Heads
<1> QED
  BY <1>1, Zenon DEF IInv, DescsConserved

\* The avail ring has a free slot for a descriptor that nobody waits for.
LEMMA AvailRoom ==
  ASSUME IInv, NEW h \in Descs, ~Pending(h)
  PROVE  (availIdx - devNext) % W < NUM /\ availIdx % NUM \notin Avail
<1>1. Avail \in SUBSET Descs /\ availIdx \in 0..W-1 /\ devNext \in 0..W-1
  BY Rings, Zenon DEF IInv, TypeOK
<1>2. \A k \in Avail : avail[k] \in Descs /\ avail[k] # h
  BY Zenon DEF IInv, Placed
<1>3. \A j, k \in Avail : avail[j] = avail[k] => j = k
  BY Zenon DEF IInv, Placed
<1>4. Cardinality(Avail) < NUM
  BY <1>1, <1>2, <1>3, Room, Zenon
<1>5. (availIdx - devNext) % W < NUM
  BY <1>4, Zenon DEF IInv, Windows
<1> QED
  BY <1>1, <1>5, SlotsAdd, Zenon DEF Avail

\* Three descriptors are three.
LEMMA ThreeElements ==
  ASSUME NEW a, NEW b, NEW c, a # b, a # c, b # c
  PROVE  Cardinality({a, b, c}) = 3
<1>1. IsFiniteSet({a}) /\ Cardinality({a}) = 1
  BY FS_Singleton, Zenon
<1>2. IsFiniteSet({a} \cup {b}) /\ Cardinality({a} \cup {b}) = Cardinality({a}) + 1
  <2>1. b \notin {a}
    BY Zenon
  <2> QED
    BY <1>1, <2>1, FS_AddElement, Zenon
<1>3. Cardinality(({a} \cup {b}) \cup {c}) = Cardinality({a} \cup {b}) + 1
  <2>1. c \notin {a} \cup {b}
    BY Zenon
  <2> QED
    BY <1>2, <2>1, FS_AddElement, Zenon
<1>4. ({a} \cup {b}) \cup {c} = {a, b, c}
  BY Zenon
<1> QED
  BY <1>1, <1>2, <1>3, <1>4, SMT, Z3

\* alloc3_desc succeeds.
LEMMA AllocStep ==
  ASSUME IInv, NEW p \in Procs, Alloc(p)
  PROVE  IInv'
<1>0. TypeOK /\ free \in SUBSET Descs /\ availIdx % NUM \in Descs
  BY Rings, Zenon DEF IInv, TypeOK
<1>1. PICK a, b, c \in free : a # b /\ a # c /\ b # c /\ Three = <<a, b, c>>
  BY <1>0, ThreeFree, Zenon DEF Alloc
<1>2. /\ pc[p] = "alloc" /\ lock = None
      /\ free' = free \ {a, b, c}
      /\ chain' = [chain EXCEPT ![a] = <<a, b, c>>]
      /\ status' = [status EXCEPT ![a] = FALSE]
      /\ infob' = [infob EXCEPT ![a] = p]
      /\ bdisk' = [bdisk EXCEPT ![p] = TRUE] /\ xfer' = [xfer EXCEPT ![p] = FALSE]
      /\ idx' = [idx EXCEPT ![p] = a]
      /\ avail' = [avail EXCEPT ![availIdx % NUM] = a]
      /\ lock' = p /\ pc' = [pc EXCEPT ![p] = "publish"]
      /\ UNCHANGED <<availIdx, used, usedIdx, seen, asleep, devNext, devWork, intr>>
  <2>1. {<<a, b, c>>[k] : k \in 1..3} = {a, b, c} /\ <<a, b, c>>[1] = a
    BY SMT, Z3
  <2> QED
    BY <1>1, <2>1, Zenon DEF Alloc, Ready, Goto, dev
<1>3. a \in Descs /\ b \in Descs /\ c \in Descs /\ <<a, b, c>> \in Descs \X Descs \X Descs
  BY <1>0, Zenon
<1>4. infob[a] = None /\ ~Pending(a)
  <2>1. infob[a] = None
    BY <1>3, HeadOf, Zenon
  <2> QED
    BY <2>1, VirtioAssumption, Zenon DEF Pending
<1>5. availIdx % NUM \notin Avail
  BY <1>3, <1>4, AvailRoom, Zenon
<1>6. TypeOK'
  <2>1. bdisk' \in [Procs -> BOOLEAN] /\ xfer' \in [Procs -> BOOLEAN]
    BY <1>0, <1>2, Zenon DEF TypeOK
  <2>2. status' \in [Descs -> BOOLEAN]
    BY <1>0, <1>2, <1>3, Zenon DEF TypeOK
  <2>3. chain' \in [Descs -> {<< >>} \cup (Descs \X Descs \X Descs)]
    BY <1>0, <1>2, <1>3, Zenon DEF TypeOK
  <2> QED
    BY <1>0, <1>2, <1>3, <2>1, <2>2, <2>3, Zenon DEF TypeOK
<1>7. p \notin Active /\ Active' = Active \cup {p} /\ Avail' = Avail /\ Used' = Used
  BY <1>0, <1>2, ZenonT(30) DEF TypeOK, Active, Avail, Used, Slots
<1>8. \A q \in Active : q # p /\ idx'[q] = idx[q] /\ idx[q] # a /\ Freed(q)' = Freed(q)
  <2> TAKE q \in Active
  <2>1. q # p /\ q \in Procs
    BY <1>7, Zenon DEF Active
  <2>2. idx[q] # a /\ idx[q] \in Descs
    BY <1>0, <2>1, SMT, Z3 DEF IInv, Heads, DescsConserved, TypeOK
  <2>3. idx'[q] = idx[q] /\ chain'[idx[q]] = chain[idx[q]]
    BY <1>0, <1>2, <2>1, <2>2, Zenon DEF TypeOK
  <2> QED
    BY <2>1, <2>2, <2>3, Zenon DEF Freed
<1>9. Freed(p)' = {a, b, c} /\ idx'[p] = a
  <2>1. idx'[p] = a /\ chain'[a] = <<a, b, c>>
    BY <1>0, <1>2, <1>3, Zenon DEF TypeOK
  <2> QED
    BY <2>1, SMTT(30), Z3T(30) DEF Freed
<1>10. DescsConserved'
  <2>1. Cardinality({a, b, c}) = 3
    BY <1>1, ThreeElements, Zenon
  <2>2. ASSUME NEW q \in Active' PROVE Cardinality(Freed(q)') = 3 /\ Freed(q)' \cap free' = {}
    BY <1>2, <1>7, <1>8, <1>9, <2>1, <2>2, ZenonT(30) DEF IInv, DescsConserved
  <2>3. ASSUME NEW q \in Active', NEW r \in Active', q # r PROVE Freed(q)' \cap Freed(r)' = {}
    BY <1>7, <1>8, <1>9, <2>3, SMT, Z3 DEF IInv, DescsConserved
  <2>4. free' \cup UNION {Freed(q)' : q \in Active'} = Descs
    <3>1. free \cup UNION {Freed(q) : q \in Active} = Descs
      BY Zenon DEF IInv, DescsConserved
    <3>2. /\ \A x : x \in UNION {Freed(q) : q \in Active} <=> \E q \in Active : x \in Freed(q)
          /\ \A x : x \in UNION {Freed(q)' : q \in Active'} <=> \E q \in Active' : x \in Freed(q)'
      BY Zenon
    <3>3. \A x : (\E q \in Active' : x \in Freed(q)') <=>
                   (\E q \in Active : x \in Freed(q)) \/ x \in {a, b, c}
      BY <1>7, <1>8, <1>9, Zenon
    <3>4. \A x : x \in free' <=> x \in free /\ x \notin {a, b, c}
      BY <1>2, Zenon
    <3>5. \A x \in {a, b, c} : x \in free
      BY Zenon
    <3> QED
      BY <3>1, <3>2, <3>3, <3>4, <3>5, Zenon
  <2> QED
    BY <2>2, <2>3, <2>4, Zenon DEF DescsConserved
<1>11. Heads'
  BY <1>0, <1>2, <1>3, <1>7, <1>8, <1>9, SMTT(30), Z3T(30) DEF IInv, Heads, TypeOK
<1>12. Publishing'
  <2>1. avail'[availIdx % NUM] = a
    BY <1>0, <1>2, Zenon DEF TypeOK
  <2> QED
    BY <1>0, <1>2, <1>9, <2>1, VirtioAssumption, SMTT(30), Z3T(30) DEF IInv, Publishing, TypeOK
<1>13. Windows'
  BY <1>2, <1>7, Zenon DEF IInv, Windows
<1>14. \A h \in Descs : Pending(h) => h # a /\ infob'[h] = infob[h] /\ Pending(h)'
  BY <1>0, <1>2, <1>4, Zenon DEF Pending, TypeOK
<1>15. \A k \in Avail : avail'[k] = avail[k]
  BY <1>0, <1>2, <1>5, Rings, ZenonT(30) DEF TypeOK
<1>16. Placed'
  BY <1>0, <1>2, <1>7, <1>14, <1>15, SMTT(30), Z3T(30) DEF IInv, Placed, TypeOK
<1>17. Found'
  BY <1>0, <1>2, <1>7, <1>15, SMTT(30), Z3T(30) DEF IInv, Found, TypeOK
<1>18. Transferred'
  <2>1. ASSUME NEW k \in Used PROVE status'[used[k]] /\ xfer'[infob'[used[k]]]
    <3>1. /\ used[k] \in Descs /\ Pending(used[k])
          /\ status[used[k]] /\ xfer[infob[used[k]]]
      BY Zenon DEF IInv, Placed, Transferred
    <3>2. used[k] # a /\ infob'[used[k]] = infob[used[k]] /\ infob[used[k]] # p
      BY <1>2, <1>14, <3>1, Zenon DEF Pending
    <3> QED
      BY <1>0, <1>2, <3>1, <3>2, Zenon DEF TypeOK, Pending
  <2>2. \A q \in Procs : pc'[q] = "wait" /\ ~bdisk'[q] => xfer'[q]
    BY <1>0, <1>2, Zenon DEF IInv, Transferred, TypeOK
  <2> QED
    BY <1>2, <1>7, <2>1, <2>2, Zenon DEF Transferred
<1>19. CompletionPending'
  BY <1>2, VirtioAssumption, Zenon DEF IInv, CompletionPending
<1> QED
  BY <1>6, <1>10, <1>11, <1>12, <1>13, <1>16, <1>17, <1>18, <1>19, ZenonT(30) DEF IInv

\* avail->idx += 1: the request is published.
LEMMA PublishStep ==
  ASSUME IInv, NEW p \in Procs, Publish(p)
  PROVE  IInv'
<1>0. TypeOK /\ pc[p] = "publish" /\ p \in Active /\ idx[p] \in Descs /\ infob[idx[p]] = p
  BY Zenon DEF IInv, TypeOK, Heads, Publish, Active
<1>1. /\ lock = p /\ bdisk[p] /\ avail[availIdx % NUM] = idx[p] /\ ~Pending(idx[p])
  BY <1>0, Zenon DEF IInv, Publishing, Pending
<1>2. /\ availIdx' = (availIdx + 1) % W /\ asleep' = [asleep EXCEPT ![p] = "buf"]
      /\ lock' = None /\ pc' = [pc EXCEPT ![p] = "wait"]
      /\ UNCHANGED <<free, chain, infob, bdisk, idx, status, avail, used, usedIdx, seen,
                     devNext, devWork, intr, xfer>>
  BY Zenon DEF Publish, Goto, driver, dev
<1>3. /\ availIdx' \in 0..W-1 /\ Avail' = Avail \cup {availIdx % NUM}
      /\ availIdx % NUM \notin Avail
      /\ (availIdx' - devNext) % W = ((availIdx - devNext) % W) + 1
  <2>1. (availIdx - devNext) % W < NUM
    BY <1>0, <1>1, AvailRoom, Zenon
  <2>2. availIdx \in 0..W-1 /\ devNext \in 0..W-1
    BY <1>0, Zenon DEF TypeOK
  <2>3. /\ (availIdx + 1) % W \in 0..W-1
        /\ Slots(devNext, (availIdx + 1) % W) = Slots(devNext, availIdx) \cup {availIdx % NUM}
        /\ availIdx % NUM \notin Slots(devNext, availIdx)
        /\ (((availIdx + 1) % W) - devNext) % W = ((availIdx - devNext) % W) + 1
    BY <2>1, <2>2, SlotsAdd, Zenon
  <2>4. Avail' = Slots(devNext, (availIdx + 1) % W)
    BY <1>2, Zenon DEF Avail, Slots
  <2> QED
    BY <1>2, <2>3, <2>4, Zenon DEF Avail
<1>4. TypeOK'
  BY <1>0, <1>2, <1>3, ZenonT(30) DEF TypeOK
<1>5. Active' = Active /\ Used' = Used /\ \A q : Freed(q)' = Freed(q)
  BY <1>0, <1>2, SMTT(30), Z3T(30) DEF TypeOK, Active, Used, Slots, Freed
<1>6. DescsConserved' /\ Heads'
  BY <1>2, <1>5, SMTT(30), Z3T(30) DEF IInv, DescsConserved, Heads
<1>7. Publishing'
  BY <1>0, <1>1, <1>2, VirtioAssumption, ZenonT(30) DEF IInv, Publishing, TypeOK
<1>8. Windows'
  <2>1. Cardinality(Avail') = Cardinality(Avail) + 1
    <3>1. IsFiniteSet(Avail)
      BY <1>0, Rings, DescsFinite, Zenon
    <3> QED
      BY <1>3, <3>1, FS_AddElement, Zenon
  <2> QED
    BY <1>2, <1>3, <1>5, <2>1, Zenon DEF IInv, Windows
<1>9. \A h \in Descs : Pending(h)' <=> Pending(h) \/ h = idx[p]
  <2>1. \A h \in Descs : infob[h] = p => h = idx[p]
    BY VirtioAssumption, ZenonT(30) DEF IInv, Heads
  <2>2. \A h \in Descs : h = idx[p] => Pending(h)'
    BY <1>0, <1>1, <1>2, SMTT(30), Z3T(30) DEF Pending, TypeOK
  <2>3. \A h \in Descs : h # idx[p] => (Pending(h)' <=> Pending(h))
    BY <1>0, <1>2, <2>1, ZenonT(30) DEF Pending, TypeOK
  <2> QED
    BY <2>2, <2>3, Zenon
<1>10. Placed'
  <2>1. \A k \in Avail : avail[k] # idx[p]
    BY <1>1, Zenon DEF IInv, Placed
  <2>2. \A k \in Used : used[k] # idx[p]
    BY <1>1, Zenon DEF IInv, Placed
  <2>3. idx[p] \notin devWork /\ devWork \subseteq Descs
    BY <1>0, <1>1, ZenonT(30) DEF IInv, Placed, TypeOK
  <2> QED
    BY <1>0, <1>1, <1>2, <1>3, <1>5, <1>9, <2>1, <2>2, <2>3, SMTT(30), Z3T(30) DEF IInv, Placed
<1>11. Found'
  BY <1>0, <1>1, <1>2, <1>3, <1>5, SMTT(30), Z3T(30) DEF IInv, Found, TypeOK
<1>12. Transferred' /\ CompletionPending'
  BY <1>0, <1>1, <1>2, <1>5, VirtioAssumption, SMTT(30), Z3T(30)
     DEF IInv, Transferred, CompletionPending, TypeOK
<1> QED
  BY <1>4, <1>6, <1>7, <1>8, <1>10, <1>11, <1>12, ZenonT(30) DEF IInv

\* The request is done: free_chain.
LEMMA FinishStep ==
  ASSUME IInv, NEW p \in Procs, Finish(p)
  PROVE  IInv'
<1>0. TypeOK /\ pc[p] = "wait" /\ p \in Active /\ idx[p] \in Descs /\ infob[idx[p]] = p
      /\ ~bdisk[p] /\ lock = None
  BY Zenon DEF IInv, TypeOK, Heads, Finish, Ready, Active
<1>1. /\ free' = free \cup Freed(p)
      /\ chain' = [chain EXCEPT ![idx[p]] = << >>]
      /\ infob' = [infob EXCEPT ![idx[p]] = None]
      /\ idx' = [idx EXCEPT ![p] = 0] /\ xfer' = [xfer EXCEPT ![p] = FALSE]
      /\ asleep' = WakeFree /\ pc' = [pc EXCEPT ![p] = "idle"]
      /\ UNCHANGED <<bdisk, status, avail, availIdx, used, usedIdx, seen, lock, devNext,
                     devWork, intr>>
  BY Zenon DEF Finish, Goto, dev
<1>2. Freed(p) \subseteq Descs
  <2>1. free \cup UNION {Freed(q) : q \in Active} = Descs
    BY Zenon DEF IInv, DescsConserved
  <2> QED
    BY <1>0, <2>1, Zenon
<1>3. TypeOK'
  <2>1. xfer' \in [Procs -> BOOLEAN]
    BY <1>0, <1>1, Zenon DEF TypeOK
  <2>2. chain' \in [Descs -> {<< >>} \cup (Descs \X Descs \X Descs)]
    BY <1>0, <1>1, Zenon DEF TypeOK
  <2>3. asleep' \in [Procs -> {"no", "free", "buf"}]
    BY <1>0, <1>1, ZenonT(30) DEF TypeOK, WakeFree
  <2>4. idx' \in [Procs -> Descs]
    BY <1>0, <1>1, VirtioAssumption, SMTT(30), Z3T(30) DEF TypeOK, Descs
  <2> QED
    BY <1>0, <1>1, <1>2, <2>1, <2>2, <2>3, <2>4, ZenonT(30) DEF TypeOK
<1>4. Active' = Active \ {p} /\ Avail' = Avail /\ Used' = Used
  BY <1>0, <1>1, SMT, Z3 DEF TypeOK, Active, Avail, Used, Slots
<1>5. \A q \in Active' : q # p /\ q \in Active /\ idx'[q] = idx[q] /\ idx[q] # idx[p]
                         /\ Freed(q)' = Freed(q)
  <2> TAKE q \in Active'
  <2>1. q # p /\ q \in Procs /\ q \in Active
    BY <1>4, Zenon DEF Active
  <2>2. idx[q] # idx[p] /\ idx[q] \in Descs
    BY <1>0, <2>1, Zenon DEF IInv, Heads, TypeOK
  <2>3. idx'[q] = idx[q] /\ chain'[idx[q]] = chain[idx[q]]
    BY <1>0, <1>1, <2>1, <2>2, Zenon DEF TypeOK
  <2> QED
    BY <2>1, <2>2, <2>3, Zenon DEF Freed
<1>6. DescsConserved'
  <2>1. ASSUME NEW q \in Active' PROVE Cardinality(Freed(q)') = 3 /\ Freed(q)' \cap free' = {}
    BY <1>0, <1>1, <1>5, <2>1, SMT, Z3 DEF IInv, DescsConserved
  <2>2. ASSUME NEW q \in Active', NEW r \in Active', q # r PROVE Freed(q)' \cap Freed(r)' = {}
    BY <1>5, <2>2, SMTT(30), Z3T(30) DEF IInv, DescsConserved
  <2>3. free' \cup UNION {Freed(q)' : q \in Active'} = Descs
    <3>1. free \cup UNION {Freed(q) : q \in Active} = Descs
      BY Zenon DEF IInv, DescsConserved
    <3>2. /\ \A x : x \in UNION {Freed(q) : q \in Active} <=> \E q \in Active : x \in Freed(q)
          /\ \A x : x \in UNION {Freed(q)' : q \in Active'} <=> \E q \in Active' : x \in Freed(q)'
      BY Zenon
    <3>3. \A x : (\E q \in Active : x \in Freed(q)) <=>
                   (\E q \in Active' : x \in Freed(q)') \/ x \in Freed(p)
      BY <1>0, <1>4, <1>5, Zenon
    <3>4. \A x : x \in free' <=> x \in free \/ x \in Freed(p)
      BY <1>1, ZenonT(30)
    <3> QED
      BY <3>1, <3>2, <3>3, <3>4, ZenonT(30)
  <2> QED
    BY <2>1, <2>2, <2>3, Zenon DEF DescsConserved
<1>7. Heads'
  BY <1>0, <1>1, <1>4, <1>5, VirtioAssumption, SMTT(30), Z3T(30) DEF IInv, Heads, TypeOK
<1>8. Publishing'
  BY <1>0, <1>1, Zenon DEF IInv, Publishing, TypeOK
<1>9. Windows' /\ CompletionPending'
  BY <1>1, <1>4, Zenon DEF IInv, Windows, CompletionPending
<1>10. \A h \in Descs : Pending(h) => h # idx[p] /\ infob'[h] = infob[h] /\ Pending(h)'
  BY <1>0, <1>1, ZenonT(30) DEF Pending, TypeOK
<1>11. Placed'
  BY <1>0, <1>1, <1>4, <1>10, SMTT(30), Z3T(30) DEF IInv, Placed, TypeOK
<1>12. Found'
  BY <1>0, <1>1, <1>4, ZenonT(30) DEF IInv, Found, TypeOK
<1>13. Transferred'
  <2>1. ASSUME NEW k \in Used PROVE status'[used[k]] /\ xfer'[infob'[used[k]]]
    <3>1. /\ used[k] \in Descs /\ Pending(used[k])
          /\ status[used[k]] /\ xfer[infob[used[k]]]
      BY Zenon DEF IInv, Placed, Transferred
    <3>2. infob'[used[k]] = infob[used[k]] /\ infob[used[k]] # p
      BY <1>0, <1>10, <3>1, Zenon DEF Pending
    <3> QED
      BY <1>0, <1>1, <3>1, <3>2, Zenon DEF TypeOK, Pending
  <2>2. \A q \in Procs : pc'[q] = "wait" /\ ~bdisk'[q] => xfer'[q]
    BY <1>0, <1>1, Zenon DEF IInv, Transferred, TypeOK
  <2> QED
    BY <1>1, <1>4, <2>1, <2>2, Zenon DEF Transferred
<1> QED
  BY <1>3, <1>6, <1>7, <1>8, <1>9, <1>11, <1>12, <1>13, ZenonT(30) DEF IInv
-----------------------------------------------------------------------------
\* The device fetches a request.
LEMMA DevFetchStep ==
  ASSUME IInv, DevFetch
  PROVE  IInv'
<1>0. TypeOK /\ devNext # availIdx /\ devNext % NUM \in Descs /\ Avail \in SUBSET Descs
  BY Rings, Zenon DEF IInv, DevFetch
<1>1. /\ devWork' = devWork \cup {avail[devNext % NUM]}
      /\ avail' = [avail EXCEPT ![devNext % NUM] = None]
      /\ devNext' = (devNext + 1) % W
      /\ UNCHANGED <<free, chain, infob, bdisk, idx, status, availIdx, used, usedIdx, seen,
                     lock, pc, asleep, intr, xfer>>
  BY Zenon DEF DevFetch, driver
<1>2. /\ devNext' \in 0..W-1 /\ Avail' = Avail \ {devNext % NUM}
      /\ devNext % NUM \in Avail
      /\ (availIdx - devNext') % W = ((availIdx - devNext) % W) - 1
  <2>1. (availIdx - devNext) % W <= NUM
    BY <1>0, Rings, Zenon DEF IInv, Windows
  <2>2. availIdx \in 0..W-1 /\ devNext \in 0..W-1
    BY <1>0, Zenon DEF TypeOK
  <2>3. /\ (devNext + 1) % W \in 0..W-1
        /\ Slots((devNext + 1) % W, availIdx) = Slots(devNext, availIdx) \ {devNext % NUM}
        /\ devNext % NUM \in Slots(devNext, availIdx)
        /\ (availIdx - ((devNext + 1) % W)) % W = ((availIdx - devNext) % W) - 1
    BY <1>0, <2>1, <2>2, SlotsDrop, Zenon
  <2>4. Avail' = Slots((devNext + 1) % W, availIdx)
    BY <1>1, Zenon DEF Avail, Slots
  <2> QED
    BY <1>1, <2>3, <2>4, Zenon DEF Avail
<1>3. PICK h \in Descs : h = avail[devNext % NUM] /\ Pending(h) /\ h \notin devWork
  BY <1>2, Zenon DEF IInv, Placed
<1>4. TypeOK'
  <2>1. avail' \in [Descs -> Descs \cup {None}]
    BY <1>0, <1>1, Zenon DEF TypeOK
  <2> QED
    BY <1>0, <1>1, <1>2, <1>3, <2>1, SMTT(30), Z3T(30) DEF TypeOK
<1>5. Active' = Active /\ Used' = Used /\ \A q : Freed(q)' = Freed(q)
  BY <1>1, Zenon DEF Active, Used, Slots, Freed
<1>6. DescsConserved' /\ Heads' /\ CompletionPending'
  BY <1>1, <1>5, SMTT(30), Z3T(30) DEF IInv, DescsConserved, Heads, CompletionPending
<1>7. Publishing'
  <2>1. ASSUME NEW p \in Procs, pc[p] = "publish" PROVE availIdx % NUM # devNext % NUM
    <3>1. idx[p] \in Descs /\ ~Pending(idx[p])
      BY <1>0, <2>1, Zenon DEF IInv, Heads, Active, Pending, TypeOK
    <3>2. availIdx % NUM \notin Avail
      BY <3>1, AvailRoom, Zenon
    <3> QED
      BY <1>2, <3>2, Zenon
  <2>2. \A p \in Procs : pc[p] = "publish" => avail'[availIdx % NUM] = avail[availIdx % NUM]
    BY <1>0, <1>1, <2>1, Rings, Zenon DEF TypeOK
  <2> QED
    BY <1>1, <2>2, Zenon DEF IInv, Publishing
<1>8. Windows'
  <2>1. Cardinality(Avail') = Cardinality(Avail) - 1
    <3>1. IsFiniteSet(Avail)
      BY <1>0, DescsFinite, Zenon
    <3> QED
      BY <1>2, <3>1, FS_RemoveElement, Zenon
  <2> QED
    BY <1>1, <1>2, <1>5, <2>1, Zenon DEF IInv, Windows
<1>9. \A g : Pending(g)' <=> Pending(g)
  BY <1>1, Zenon DEF Pending
<1>10. \A k \in Avail' : k \in Avail /\ avail'[k] = avail[k] /\ avail[k] # h
  BY <1>0, <1>1, <1>2, <1>3, Zenon DEF IInv, Placed, TypeOK
<1>11. \A k \in Used : used[k] # h
  BY <1>2, <1>3, Zenon DEF IInv, Placed
<1>12. Placed'
  BY <1>1, <1>3, <1>5, <1>9, <1>10, <1>11, SMTT(30), Z3T(30) DEF IInv, Placed
<1>13. Found'
  <2>1. \A k \in Avail : k \in Avail' \/ avail[k] = h
    BY <1>2, <1>3, Zenon
  <2> QED
    BY <1>1, <1>3, <1>5, <1>10, <2>1, SMTT(30), Z3T(30) DEF IInv, Found
<1>14. Transferred'
  BY <1>1, <1>5, Zenon DEF IInv, Transferred
<1> QED
  BY <1>4, <1>6, <1>7, <1>8, <1>12, <1>13, <1>14, ZenonT(30) DEF IInv

\* The device finishes a request.
LEMMA DevDoneStep ==
  ASSUME IInv, NEW h \in Descs, DevDone(h)
  PROVE  IInv'
<1>0. TypeOK /\ h \in devWork /\ Pending(h) /\ usedIdx % NUM \in Descs /\ Used \in SUBSET Descs
  BY Rings, Zenon DEF IInv, DevDone, Placed
<1>1. /\ devWork' = devWork \ {h}
      /\ status' = [status EXCEPT ![h] = TRUE]
      /\ xfer' = [p \in Procs |-> xfer[p] \/ infob[h] = p]
      /\ used' = [used EXCEPT ![usedIdx % NUM] = h]
      /\ usedIdx' = (usedIdx + 1) % W
      /\ intr' = TRUE
      /\ UNCHANGED <<free, chain, infob, bdisk, idx, avail, availIdx, seen, lock, pc,
                     asleep, devNext>>
  BY Zenon DEF DevDone, driver
<1>2. \A k \in Used : used[k] \in Descs /\ used[k] # h
  BY <1>0, Zenon DEF IInv, Placed
<1>3. /\ usedIdx' \in 0..W-1 /\ Used' = Used \cup {usedIdx % NUM}
      /\ usedIdx % NUM \notin Used
      /\ (usedIdx' - seen) % W = ((usedIdx - seen) % W) + 1
  <2>0. \A j, k \in Used : used[j] = used[k] => j = k
    BY Zenon DEF IInv, Placed
  <2>1. (usedIdx - seen) % W < NUM
    <3>1. Cardinality(Used) < NUM
      BY <1>0, <1>2, <2>0, Room, Zenon
    <3> QED
      BY <3>1, Zenon DEF IInv, Windows
  <2>2. usedIdx \in 0..W-1 /\ seen \in 0..W-1
    BY <1>0, Zenon DEF TypeOK
  <2>3. /\ (usedIdx + 1) % W \in 0..W-1
        /\ Slots(seen, (usedIdx + 1) % W) = Slots(seen, usedIdx) \cup {usedIdx % NUM}
        /\ usedIdx % NUM \notin Slots(seen, usedIdx)
        /\ (((usedIdx + 1) % W) - seen) % W = ((usedIdx - seen) % W) + 1
    BY <2>1, <2>2, SlotsAdd, Zenon
  <2>4. Used' = Slots(seen, (usedIdx + 1) % W)
    BY <1>1, Zenon DEF Used, Slots
  <2> QED
    BY <1>1, <2>3, <2>4, Zenon DEF Used
<1>4. TypeOK'
  <2>1. status' \in [Descs -> BOOLEAN] /\ intr' \in BOOLEAN
    BY <1>0, <1>1, Zenon DEF TypeOK
  <2>2. xfer' \in [Procs -> BOOLEAN]
    BY <1>1, Zenon
  <2> QED
    BY <1>0, <1>1, <1>3, <2>1, <2>2, Zenon DEF TypeOK
<1>5. Active' = Active /\ Avail' = Avail /\ \A q : Freed(q)' = Freed(q)
  BY <1>1, Zenon DEF Active, Avail, Slots, Freed
<1>6. DescsConserved' /\ Heads' /\ Publishing'
  BY <1>1, <1>5, SMT, Z3 DEF IInv, DescsConserved, Heads, Publishing
<1>7. CompletionPending'
  BY <1>1, Zenon DEF CompletionPending
<1>8. Windows'
  <2>1. Cardinality(Used') = Cardinality(Used) + 1
    <3>1. IsFiniteSet(Used)
      BY <1>0, DescsFinite, Zenon
    <3> QED
      BY <1>3, <3>1, FS_AddElement, Zenon
  <2> QED
    BY <1>1, <1>3, <1>5, <2>1, Zenon DEF IInv, Windows
<1>9. \A g : Pending(g)' <=> Pending(g)
  BY <1>1, Zenon DEF Pending
<1>10. used'[usedIdx % NUM] = h /\ \A k \in Used : used'[k] = used[k]
  BY <1>0, <1>1, <1>3, ZenonT(30) DEF TypeOK
<1>11. Placed'
  <2>1. \A k \in Avail : avail[k] # h
    BY <1>0, ZenonT(30) DEF IInv, Placed
  <2> QED
    BY <1>0, <1>1, <1>2, <1>3, <1>5, <1>9, <1>10, <2>1, SMTT(30), Z3T(30) DEF IInv, Placed
<1>12. Found'
  BY <1>0, <1>1, <1>3, <1>5, <1>10, SMTT(30), Z3T(30) DEF IInv, Found
<1>13. Transferred'
  <2>1. infob[h] \in Procs
    BY <1>0, Zenon DEF Pending
  <2>2. \A p \in Procs : xfer'[p] <=> xfer[p] \/ infob[h] = p
    BY <1>1, Zenon
  <2>3. status'[h] /\ \A g \in Descs : status[g] => status'[g]
    BY <1>0, <1>1, Zenon DEF TypeOK
  <2>4. ASSUME NEW k \in Used' PROVE status'[used'[k]] /\ xfer'[infob'[used'[k]]]
    <3>1. CASE k = usedIdx % NUM
      <4>1. used'[k] = h /\ infob'[h] = infob[h]
        BY <1>1, <1>10, <3>1, Zenon
      <4>2. xfer'[infob[h]]
        BY <2>1, <2>2, Zenon
      <4> QED
        BY <2>3, <4>1, <4>2, Zenon
    <3>2. CASE k \in Used
      <4>1. used[k] \in Descs /\ infob[used[k]] \in Procs
        BY <1>2, <3>2, Zenon DEF IInv, Placed, Pending
      <4>2. status[used[k]] /\ xfer[infob[used[k]]]
        BY <3>2, Zenon DEF IInv, Transferred
      <4> QED
        BY <1>1, <1>10, <2>2, <2>3, <3>2, <4>1, <4>2, ZenonT(30)
    <3> QED
      BY <1>3, <2>4, <3>1, <3>2, Zenon
  <2>5. \A p \in Procs : pc'[p] = "wait" /\ ~bdisk'[p] => xfer'[p]
    BY <1>1, <2>2, Zenon DEF IInv, Transferred
  <2> QED
    BY <2>4, <2>5, Zenon DEF Transferred
<1> QED
  BY <1>4, <1>6, <1>7, <1>8, <1>11, <1>12, <1>13, Zenon DEF IInv
-----------------------------------------------------------------------------
\* The handler takes an entry of the used ring.
LEMMA IntrEntryStep ==
  ASSUME IInv, IntrEntry
  PROVE  IInv'
<1>0. /\ TypeOK /\ lock = Handler /\ seen # usedIdx /\ seen % NUM \in Descs
      /\ Used \in SUBSET Descs
  BY Rings, Zenon DEF IInv, IntrEntry
<1>1. /\ seen' = (seen + 1) % W /\ used' = [used EXCEPT ![seen % NUM] = None]
      /\ bdisk' = [bdisk EXCEPT ![infob[used[seen % NUM]]] = FALSE]
      /\ asleep' = [asleep EXCEPT ![infob[used[seen % NUM]]] = IF @ = "buf" THEN "no" ELSE @]
      /\ UNCHANGED <<free, chain, infob, idx, status, avail, availIdx, usedIdx, lock, pc,
                     devNext, devWork, intr, xfer>>
  BY Zenon DEF IntrEntry, dev
<1>2. /\ seen' \in 0..W-1 /\ Used' = Used \ {seen % NUM}
      /\ seen % NUM \in Used
      /\ (usedIdx - seen') % W = ((usedIdx - seen) % W) - 1
  <2>1. (usedIdx - seen) % W <= NUM
    BY <1>0, Rings, Zenon DEF IInv, Windows
  <2>2. usedIdx \in 0..W-1 /\ seen \in 0..W-1
    BY <1>0, Zenon DEF TypeOK
  <2>3. /\ (seen + 1) % W \in 0..W-1
        /\ Slots((seen + 1) % W, usedIdx) = Slots(seen, usedIdx) \ {seen % NUM}
        /\ seen % NUM \in Slots(seen, usedIdx)
        /\ (usedIdx - ((seen + 1) % W)) % W = ((usedIdx - seen) % W) - 1
    BY <1>0, <2>1, <2>2, SlotsDrop, Zenon
  <2>4. Used' = Slots((seen + 1) % W, usedIdx)
    BY <1>1, Zenon DEF Used, Slots
  <2> QED
    BY <1>1, <2>3, <2>4, Zenon DEF Used
<1>3. PICK h \in Descs, b \in Procs :
        /\ h = used[seen % NUM] /\ b = infob[h] /\ pc[b] = "wait" /\ bdisk[b] /\ xfer[b]
        /\ h \notin devWork
  BY <1>2, Zenon DEF IInv, Placed, Transferred, Pending
<1>4. TypeOK'
  <2>1. used' \in [Descs -> Descs \cup {None}]
    BY <1>0, <1>1, Zenon DEF TypeOK
  <2>2. bdisk' \in [Procs -> BOOLEAN]
    BY <1>0, <1>1, <1>3, ZenonT(30) DEF TypeOK
  <2>3. asleep' \in [Procs -> {"no", "free", "buf"}]
    BY <1>0, <1>1, <1>3, Zenon DEF TypeOK
  <2> QED
    BY <1>0, <1>1, <1>2, <2>1, <2>2, <2>3, Zenon DEF TypeOK
<1>5. Active' = Active /\ Avail' = Avail /\ \A q : Freed(q)' = Freed(q)
  BY <1>1, ZenonT(30) DEF Active, Avail, Slots, Freed
<1>6. DescsConserved' /\ Heads'
  BY <1>1, <1>5, SMT, Z3 DEF IInv, DescsConserved, Heads
<1>7. \A p \in Procs : bdisk'[p] <=> bdisk[p] /\ p # b
  BY <1>0, <1>1, <1>3, Zenon DEF TypeOK
<1>8. Publishing' /\ CompletionPending'
  <2>1. \A p \in Procs : pc[p] = "publish" => p # b
    BY <1>3, Zenon
  <2>2. Publishing'
    BY <1>1, <1>7, <2>1, Zenon DEF IInv, Publishing
  <2> QED
    BY <1>0, <1>1, <2>2, Zenon DEF CompletionPending
<1>9. Windows'
  <2>1. Cardinality(Used') = Cardinality(Used) - 1
    <3>1. IsFiniteSet(Used)
      BY <1>0, DescsFinite, Zenon
    <3> QED
      BY <1>2, <3>1, FS_RemoveElement, Zenon
  <2> QED
    BY <1>1, <1>2, <1>5, <2>1, ZenonT(30) DEF IInv, Windows
<1>10. \A g \in Descs : Pending(g) /\ g # h => Pending(g)'
  <2>1. \A g \in Descs : infob[g] = b => g = h
    BY <1>3, VirtioAssumption, ZenonT(30) DEF IInv, Heads
  <2> QED
    BY <1>1, <1>7, <2>1, Zenon DEF Pending
<1>11. \A k \in Used' : k \in Used /\ used'[k] = used[k] /\ used[k] # h
  BY <1>0, <1>1, <1>2, <1>3, Zenon DEF IInv, Placed, TypeOK
<1>12. \A k \in Avail : avail[k] # h
  BY <1>2, <1>3, Zenon DEF IInv, Placed
<1>13. Placed'
  <2>1. devWork \subseteq Descs
    BY <1>0, Zenon DEF TypeOK
  <2>2. \A k \in Avail' : avail'[k] \in Descs /\ Pending(avail[k])' /\ avail'[k] \notin devWork'
    BY <1>1, <1>5, <1>10, <1>12, Zenon DEF IInv, Placed
  <2>3. \A g \in devWork' : Pending(g)'
    BY <1>1, <1>3, <1>10, <2>1, ZenonT(30) DEF IInv, Placed
  <2>4. ASSUME NEW k \in Used'
        PROVE  used'[k] \in Descs /\ Pending(used[k])' /\ used'[k] \notin devWork'
    <3>1. PICK g \in Descs : g = used'[k] /\ g # h /\ Pending(g) /\ g \notin devWork
      BY <1>11, Zenon DEF IInv, Placed
    <3>2. Pending(g)'
      BY <1>10, <3>1, Zenon
    <3> QED
      BY <1>1, <3>1, <3>2, Zenon DEF Pending
  <2>5. \A j, k \in Avail' : avail'[j] = avail'[k] => j = k
    BY <1>1, <1>5, Zenon DEF IInv, Placed
  <2>6. \A j, k \in Used' : used'[j] = used'[k] => j = k
    BY <1>11, Zenon DEF IInv, Placed
  <2>7. \A j \in Avail', k \in Used' : avail'[j] # used'[k]
    <3>1. \A j \in Avail' : j \in Avail /\ avail'[j] = avail[j]
      BY <1>1, <1>5, Zenon
    <3> QED
      BY <1>11, <3>1, ZenonT(60) DEF IInv, Placed
  <2> QED
    BY <2>2, <2>3, <2>4, <2>5, <2>6, <2>7, Zenon DEF Placed
<1>14. Found'
  <2>1. \A k \in Used : k \in Used' \/ used[k] = h
    BY <1>2, <1>3, Zenon
  <2>2. \A p \in Procs : p # b /\ pc[p] = "wait" => idx[p] # h
    BY <1>3, Zenon DEF IInv, Heads, Active
  <2> QED
    BY <1>1, <1>5, <1>7, <1>11, <2>1, <2>2, SMT, Z3 DEF IInv, Found
<1>15. Transferred'
  BY <1>1, <1>3, <1>7, <1>11, Zenon DEF IInv, Transferred
<1> QED
  BY <1>4, <1>6, <1>8, <1>9, <1>13, <1>14, <1>15, ZenonT(30) DEF IInv

\* Every step keeps the invariant.
LEMMA NextIInv == IInv /\ [Next]_vars => IInv'
<1> SUFFICES ASSUME IInv, [Next]_vars PROVE IInv'
  BY Zenon
<1>1. CASE UNCHANGED vars
  <2>1. TypeOK' /\ CompletionPending'
    BY <1>1, Zenon DEF IInv, TypeOK, CompletionPending, vars, driver, dev
  <2> QED
    BY <1>1, <2>1, Frame, Zenon DEF vars
<1>2. CASE Next
  BY ZenonT(30), <1>2, QuietStep, AllocStep, PublishStep, FinishStep, DevFetchStep, DevDoneStep,
     IntrEntryStep, Zenon DEF Next, RwStep, Device, Intr
<1> QED
  BY <1>1, <1>2, Zenon
-----------------------------------------------------------------------------
\* The inductive invariant of virtio_disk.c.
THEOREM DiskInvariance == Spec => []IInv
BY InitIInv, NextIInv, PTL DEF Spec

\* A request that is waited for is in exactly one place.
LEMMA Tracked == IInv => RequestsTracked
<1> SUFFICES ASSUME IInv, NEW p \in Procs, pc[p] = "wait", bdisk[p], NEW h, h = idx[p]
             PROVE  Cardinality({k \in Avail : avail[k] = h})
                      + Cardinality({k \in Used : used[k] = h})
                      + (IF h \in devWork THEN 1 ELSE 0) = 1
  BY Zenon DEF RequestsTracked, Avail, Used
<1> DEFINE A == {k \in Avail : avail[k] = h}
           U == {k \in Used : used[k] = h}
<1>1. A = {} \/ \E k \in Avail : avail[k] = h /\ A = {k}
  BY SMTT(30), Z3T(30) DEF IInv, Placed
<1>2. U = {} \/ \E k \in Used : used[k] = h /\ U = {k}
  BY SMT, Z3 DEF IInv, Placed
<1>3. h \in devWork => A = {} /\ U = {}
  BY Zenon DEF IInv, Placed
<1>4. A # {} => U = {}
  BY ZenonT(30) DEF IInv, Placed
<1>5. h \in devWork \/ A # {} \/ U # {}
  BY Zenon DEF IInv, Found
<1>6. \A x : Cardinality({x}) = 1
  BY FS_Singleton, Zenon
<1>7. (A = {} /\ Cardinality(A) = 0) \/ (A # {} /\ Cardinality(A) = 1)
  BY <1>1, <1>6, FS_EmptySet, Zenon
<1>8. (U = {} /\ Cardinality(U) = 0) \/ (U # {} /\ Cardinality(U) = 1)
  BY <1>2, <1>6, FS_EmptySet, Zenon
<1> HIDE DEF A, U
<1>9. Cardinality(A) + Cardinality(U) + (IF h \in devWork THEN 1 ELSE 0) = 1
  BY <1>3, <1>4, <1>5, <1>7, <1>8, SMTT(30), Z3T(30)
<1> QED
  BY <1>9, Zenon DEF A, U

\* virtio_disk.c keeps its descriptors and requests for every number of processes, every
\* NUM and every width of the ring indexes: no descriptor is lost, shared or freed
\* twice, no ring entry is overwritten before it is read, also when the indexes wrap,
\* each request is in one place, and what virtio_disk_rw reports done is done.
THEOREM RequestsKept == Spec => []RequestsSound
<1>1. IInv => RequestsSound
  <2> SUFFICES ASSUME IInv PROVE RequestsSound
    BY Zenon
  <2>1. \A k \in Used : status[used[k]] /\ infob[used[k]] # None
    <3>1. None \notin Procs
      BY VirtioAssumption, Zenon
    <3>2. \A h \in Descs : Pending(h) => infob[h] # None
      BY <3>1, Zenon DEF Pending
    <3>3. \A k \in Used : used[k] \in Descs /\ Pending(used[k])
      BY Zenon DEF IInv, Placed
    <3>4. \A k \in Used : status[used[k]]
      BY Zenon DEF IInv, Transferred
    <3> QED
      BY <3>2, <3>3, <3>4, Zenon
  <2>2. TransferDone
    BY <2>1, Zenon DEF TransferDone, IInv, Transferred, Used
  <2> QED
    BY <2>2, Tracked, Zenon DEF IInv, RequestsSound
<1> QED
  BY <1>1, DiskInvariance, PTL
=============================================================================
