----------------------------- MODULE VirtioDisk -----------------------------
(***************************************************************************)
(* kernel/virtio_disk.c: virtio_disk_rw and virtio_disk_intr sharing the   *)
(* descriptor table and the two rings with the device.  Each process has   *)
(* one buffer, which it holds locked during a transfer.  The device is     *)
(* external: it may finish requests in any order.                          *)
(***************************************************************************)
EXTENDS Integers, Sequences, FiniteSets, FiniteSetsExt

CONSTANTS Procs,
          NUM,      \* descriptors
          W,        \* ring indexes are unsigned integers modulo W
          Handler,  \* the interrupt handler, as holder of vdisk_lock
          None      \* also the content of a ring entry that has been consumed:
                    \* what it held must not matter any more

Descs == 0..NUM-1

ASSUME VirtioAssumption ==
  /\ NUM \in Nat \ {0} /\ W \in Nat /\ W > NUM /\ W % NUM = 0
  /\ Handler \notin Procs /\ None \notin Procs /\ None # Handler
  /\ None \notin Descs

VARIABLES free,    \* disk.free: the free descriptors
          chain,   \* desc[].next of a head: the chain it starts
          infob,   \* disk.info[].b: process whose buffer it is, or None
          status,  \* disk.info[].status is 0
          avail, availIdx, used, usedIdx, \* the rings and their idx fields
          seen,    \* disk.used_idx
          lock,    \* holder of vdisk_lock
          pc, idx, \* virtio_disk_rw: label, idx[0]
          bdisk,   \* b->disk of the process's buffer
          asleep,  \* "no", or the channel: "free" for &disk.free[0], "buf" for b
          devNext, \* device: next avail index to fetch
          devWork, \* device: heads fetched and not finished
          intr,    \* device: interrupt pending
          xfer     \* the device has transferred the buffer's data

driver == <<free, chain, infob, bdisk, idx>>
dev == <<devNext, devWork>>
vars == <<driver, status, avail, availIdx, used, usedIdx, seen, lock, pc, asleep,
          dev, intr, xfer>>

TypeOK ==
  /\ free \subseteq Descs
  /\ chain \in [Descs -> {<< >>} \cup (Descs \X Descs \X Descs)]
  /\ infob \in [Descs -> Procs \cup {None}]
  /\ status \in [Descs -> BOOLEAN]
  /\ avail \in [Descs -> Descs \cup {None}] /\ used \in [Descs -> Descs \cup {None}]
  /\ availIdx \in 0..W-1 /\ usedIdx \in 0..W-1 /\ seen \in 0..W-1 /\ devNext \in 0..W-1
  /\ lock \in Procs \cup {Handler, None}
  /\ pc \in [Procs -> {"idle", "alloc", "publish", "wait"}]
  /\ idx \in [Procs -> Descs]
  /\ bdisk \in [Procs -> BOOLEAN] /\ xfer \in [Procs -> BOOLEAN]
  /\ asleep \in [Procs -> {"no", "free", "buf"}]
  /\ devWork \subseteq Descs
  /\ intr \in BOOLEAN

Init ==
  /\ free = Descs
  /\ chain = [d \in Descs |-> << >>]
  /\ infob = [d \in Descs |-> None] /\ status = [d \in Descs |-> FALSE]
  /\ avail = [d \in Descs |-> None] /\ used = [d \in Descs |-> None]
  /\ availIdx = 0 /\ usedIdx = 0 /\ seen = 0 /\ devNext = 0
  /\ lock = None
  /\ pc = [p \in Procs |-> "idle"] /\ idx = [p \in Procs |-> 0]
  /\ bdisk = [p \in Procs |-> FALSE] /\ xfer = [p \in Procs |-> FALSE]
  /\ asleep = [p \in Procs |-> "no"]
  /\ devWork = {} /\ intr = FALSE

Goto(p, l) == pc' = [pc EXCEPT ![p] = l]
Ready(p, l) == pc[p] = l /\ asleep[p] = "no" /\ lock = None
WakeFree == [q \in Procs |-> IF asleep[q] = "free" THEN "no" ELSE asleep[q]]
-----------------------------------------------------------------------------
\* virtio_disk_rw

Rw(p) == /\ pc[p] = "idle"
         /\ Goto(p, "alloc")
         /\ UNCHANGED <<driver, status, avail, availIdx, used, usedIdx, seen,
                        lock, asleep, dev, intr, xfer>>

\* alloc_desc takes the lowest free descriptor, three times
Lowest(S) == Min(S)
Three == LET a == Lowest(free)
             b == Lowest(free \ {a})
         IN <<a, b, Lowest(free \ {a, b})>>

\* alloc3_desc fails: free_desc puts back what it took and wakes the others
AllocSleep(p) ==
  /\ Ready(p, "alloc") /\ Cardinality(free) < 3
  /\ asleep' = [IF free # {} THEN WakeFree ELSE asleep EXCEPT ![p] = "free"]
  /\ UNCHANGED <<driver, status, avail, availIdx, used, usedIdx, seen, lock, pc,
                 dev, intr, xfer>>

\* format the descriptors and fill the ring entry
Alloc(p) ==
  LET h == Three[1] IN
  /\ Ready(p, "alloc") /\ Cardinality(free) >= 3
  /\ free' = free \ {Three[k] : k \in 1..3}
  /\ chain' = [chain EXCEPT ![h] = Three]
  /\ status' = [status EXCEPT ![h] = FALSE]
  /\ infob' = [infob EXCEPT ![h] = p]
  /\ bdisk' = [bdisk EXCEPT ![p] = TRUE] /\ xfer' = [xfer EXCEPT ![p] = FALSE]
  /\ idx' = [idx EXCEPT ![p] = h]
  /\ avail' = [avail EXCEPT ![availIdx % NUM] = h]
  /\ lock' = p
  /\ Goto(p, "publish")
  /\ UNCHANGED <<availIdx, used, usedIdx, seen, asleep, dev, intr>>

\* avail->idx += 1, notify the device, sleep on b
Publish(p) ==
  /\ pc[p] = "publish"
  /\ availIdx' = (availIdx + 1) % W
  /\ asleep' = [asleep EXCEPT ![p] = "buf"]
  /\ lock' = None
  /\ Goto(p, "wait")
  /\ UNCHANGED <<driver, status, avail, used, usedIdx, seen, dev, intr, xfer>>

WaitAgain(p) ==
  /\ Ready(p, "wait") /\ bdisk[p]
  /\ asleep' = [asleep EXCEPT ![p] = "buf"]
  /\ UNCHANGED <<driver, status, avail, availIdx, used, usedIdx, seen, lock, pc,
                 dev, intr, xfer>>

\* free_chain follows the chain; every free_desc wakes &disk.free[0]
Freed(p) == {chain[idx[p]][k] : k \in DOMAIN chain[idx[p]]}

Finish(p) ==
  /\ Ready(p, "wait") /\ ~bdisk[p]
  /\ free' = free \cup Freed(p)
  /\ chain' = [chain EXCEPT ![idx[p]] = << >>]
  /\ infob' = [infob EXCEPT ![idx[p]] = None]
  /\ idx' = [idx EXCEPT ![p] = 0] /\ xfer' = [xfer EXCEPT ![p] = FALSE]
  /\ asleep' = WakeFree
  /\ Goto(p, "idle")
  /\ UNCHANGED <<bdisk, status, avail, availIdx, used, usedIdx, seen, lock, dev,
                 intr>>

\* kill makes a sleeper runnable before its condition holds
Kill(p) == /\ asleep[p] # "no"
           /\ asleep' = [asleep EXCEPT ![p] = "no"]
           /\ UNCHANGED <<driver, status, avail, availIdx, used, usedIdx, seen,
                          lock, pc, dev, intr, xfer>>
-----------------------------------------------------------------------------
\* The device

DevFetch == /\ devNext # availIdx
            /\ devWork' = devWork \cup {avail[devNext % NUM]}
            /\ avail' = [avail EXCEPT ![devNext % NUM] = None]
            /\ devNext' = (devNext + 1) % W
            /\ UNCHANGED <<driver, status, availIdx, used, usedIdx, seen,
                           lock, pc, asleep, intr, xfer>>

DevDone(h) == /\ h \in devWork
              /\ devWork' = devWork \ {h}
              /\ status' = [status EXCEPT ![h] = TRUE]
              /\ xfer' = [p \in Procs |-> xfer[p] \/ infob[h] = p]
              /\ used' = [used EXCEPT ![usedIdx % NUM] = h]
              /\ usedIdx' = (usedIdx + 1) % W
              /\ intr' = TRUE
              /\ UNCHANGED <<driver, avail, availIdx, seen, lock, pc, asleep, devNext>>
-----------------------------------------------------------------------------
\* virtio_disk_intr

IntrAck == /\ intr /\ lock = None
           /\ intr' = FALSE
           /\ lock' = Handler
           /\ UNCHANGED <<driver, status, avail, availIdx, used, usedIdx, seen, pc,
                          asleep, dev, xfer>>

\* Faulty: the process waiting for the buffer is not woken.
IntrEntryQuiet ==
  /\ lock = Handler /\ seen # usedIdx
  /\ bdisk' = [bdisk EXCEPT ![infob[used[seen % NUM]]] = FALSE]
  /\ used' = [used EXCEPT ![seen % NUM] = None]
  /\ seen' = (seen + 1) % W
  /\ UNCHANGED <<free, chain, infob, idx, status, avail, availIdx, usedIdx, lock,
                 pc, asleep, dev, intr, xfer>>

IntrEntry ==
  LET b == infob[used[seen % NUM]] IN
  /\ lock = Handler /\ seen # usedIdx
  /\ bdisk' = [bdisk EXCEPT ![b] = FALSE]
  /\ asleep' = [asleep EXCEPT ![b] = IF @ = "buf" THEN "no" ELSE @]
  /\ used' = [used EXCEPT ![seen % NUM] = None]
  /\ seen' = (seen + 1) % W
  /\ UNCHANGED <<free, chain, infob, idx, status, avail, availIdx, usedIdx, lock,
                 pc, dev, intr, xfer>>

\* Faulty: the handler looks at one entry per interrupt.
IntrReturnOne == /\ lock = Handler
                 /\ lock' = None
                 /\ UNCHANGED <<driver, status, avail, availIdx, used, usedIdx, seen,
                                pc, asleep, dev, intr, xfer>>

IntrReturn == /\ lock = Handler /\ seen = usedIdx
              /\ lock' = None
              /\ UNCHANGED <<driver, status, avail, availIdx, used, usedIdx, seen,
                             pc, asleep, dev, intr, xfer>>
-----------------------------------------------------------------------------
RwStep(p) == AllocSleep(p) \/ Alloc(p) \/ Publish(p) \/ WaitAgain(p) \/ Finish(p)
Device == DevFetch \/ \E h \in Descs : DevDone(h)
Intr == IntrAck \/ IntrEntry \/ IntrReturn

Next == \/ \E p \in Procs : Rw(p) \/ RwStep(p) \/ Kill(p)
        \/ Device
        \/ Intr

Spec == Init /\ [][Next]_vars

\* The device finishes every request it fetched; a pending interrupt is taken;
\* processes run and get the lock.  Getting three descriptors in competition
\* with others is strong fairness.
FairSpec ==
  /\ Spec
  /\ WF_vars(DevFetch) /\ SF_vars(Intr)
  /\ \A p \in Procs : /\ WF_vars(DevDone(idx[p]))
                       /\ SF_vars(Alloc(p) \/ Publish(p) \/ Finish(p))
-----------------------------------------------------------------------------
Active == {p \in Procs : pc[p] \in {"publish", "wait"}}

\* Every descriptor is free or in the chain of exactly one request: none leaks,
\* none is shared, none is freed twice (virtio_disk.c, alloc3_desc, free_chain).
DescsConserved ==
  /\ \A p \in Active : Cardinality(Freed(p)) = 3 /\ Freed(p) \cap free = {}
  /\ \A p, q \in Active : p # q => Freed(p) \cap Freed(q) = {}
  /\ free \cup UNION {Freed(p) : p \in Active} = Descs

\* Ring slots between two indexes, the second excluded.
Slots(from, to) == {(from + k) % NUM : k \in 0..((to - from) % W) - 1}

\* A request the driver waits for is in exactly one place: not yet fetched from
\* the avail ring, at the device, or in the used ring not yet seen.  So no ring
\* entry is overwritten before it is read, also when the 16-bit indexes wrap
\* (virtio_disk.c, virtio_disk_rw and virtio_disk_intr).
RequestsTracked ==
  \A p \in Procs : pc[p] = "wait" /\ bdisk[p] =>
    LET h == idx[p]
        inAvail == {k \in Slots(devNext, availIdx) : avail[k] = h}
        inUsed  == {k \in Slots(seen, usedIdx) : used[k] = h}
    IN Cardinality(inAvail) + Cardinality(inUsed)
         + (IF h \in devWork THEN 1 ELSE 0) = 1

\* virtio_disk_rw returns only after the device has transferred this buffer, and
\* the handler completes only requests with a good status (virtio_disk.c).
TransferDone ==
  /\ \A p \in Procs : pc[p] = "wait" /\ ~bdisk[p] => xfer[p]
  /\ \A k \in Slots(seen, usedIdx) : status[used[k]] /\ infob[used[k]] # None

\* A finished request is never forgotten: while a used entry is unseen the
\* handler runs or an interrupt is pending (virtio_disk.c, the acknowledgement
\* before the loop of virtio_disk_intr).
CompletionPending == seen # usedIdx => intr \/ lock = Handler

\* The rings are sound: the variables have their types, no descriptor is lost or
\* shared, every request is in one place, and what the driver reports done is done
\* and will be seen (virtio_disk.c).
RequestsSound == TypeOK /\ DescsConserved /\ RequestsTracked /\ TransferDone /\ CompletionPending

\* Every disk request returns (virtio_disk.c, virtio_disk_rw).
RwReturns == \A p \in Procs : pc[p] # "idle" ~> pc[p] = "idle"
=============================================================================
