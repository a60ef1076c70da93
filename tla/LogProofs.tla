----------------------------- MODULE LogProofs -----------------------------
(***************************************************************************)
(* Proofs about module Log for every number of processes, blocks, block    *)
(* contents and every log size: log.c implements atomic transactions, and  *)
(* what begin_op reserves is enough for log_write.  For the reservation an *)
(* open operation holds one credit for each of its MAXOPBLOCKS blocks that *)
(* it has not logged yet: counting a set of credits replaces a sum over    *)
(* the open operations.                                                    *)
(***************************************************************************)
EXTENDS Log, FiniteSetTheorems, TLAPS

InOp == {p \in Procs : pc[p] = "op"}
Phase(l) == \E p \in Procs : pc[p] = l
Committer(p) == pc[p] \in {"write_log", "write_head", "install", "clear", "done"}

\* Log entries whose block install_trans has already copied home and unpinned.
Installed == IF Phase("install") THEN tail - 1
             ELSE IF Phase("clear") THEN Len(lh) ELSE 0

Pending(b) == \E i \in 1..Len(lh) : i > Installed /\ lh[i] = b

Injective(s) == \A i, j \in 1..Len(s) : s[i] = s[j] => i = j

\* The two headers list distinct blocks that fit in the log area.
HeadersOK == /\ Injective(lh) /\ Len(lh) <= LogLen - 1
             /\ Injective(head) /\ Len(head) <= LogLen - 1

\* While recover_from_log runs, the file system is not in use.
BootIdle == boot # "up" =>
  /\ outstanding = 0 /\ ~committing /\ ~panicked
  /\ \A p \in Procs : pc[p] = "idle"
  /\ \A b \in Blocks : pin[b] = 0
  /\ cache = home

Recovering ==
  /\ boot = "read_head" => lh = << >> /\ tail = 1
  /\ boot = "install" => /\ lh = head /\ tail \in 1..Len(lh)
                         /\ \A i \in 1..tail-1 : home[head[i]] = logd[i]
  /\ boot = "clear" => /\ lh = head /\ tail = 1
                       /\ \A i \in 1..Len(head) : home[head[i]] = logd[i]

\* log.outstanding counts the open operations; a commit excludes them, and
\* there is one committer exactly while log.committing is set.
Exclusion == boot = "up" =>
  /\ outstanding = Cardinality(InOp)
  /\ committing => InOp = {}
  /\ committing <=> \E p \in Procs : Committer(p)
  /\ \A p, q \in Procs : Committer(p) /\ Committer(q) => p = q

\* A block differs from its home location only while it is logged and not yet
\* installed, and then it is pinned.
Pinned == boot = "up" =>
  \A b \in Blocks : /\ pin[b] = IF Pending(b) THEN 1 ELSE 0
                    /\ ~Pending(b) => cache[b] = home[b]

\* Where the commit is determines what is in the log area.
Committing == boot = "up" =>
  /\ ~Phase("install") /\ ~Phase("clear") => head = << >>
  /\ outstanding = 0 /\ ~committing => lh = << >>
  /\ Phase("write_log") => /\ tail \in 1..Len(lh)
                           /\ \A i \in 1..tail-1 : logd[i] = cache[lh[i]]
  /\ Phase("write_head") => /\ tail = 1 /\ Len(lh) > 0
                            /\ \A i \in 1..Len(lh) : logd[i] = cache[lh[i]]
  /\ Phase("install") => /\ head = lh /\ tail \in 1..Len(lh)
                         /\ \A i \in 1..Len(lh) : logd[i] = cache[lh[i]]
  /\ Phase("clear") => /\ head = lh
                       /\ \A i \in 1..Len(lh) : logd[i] = cache[lh[i]]
  /\ Phase("done") => lh = << >>

IInv == /\ TypeOK /\ HeadersOK /\ BootIdle /\ Recovering
        /\ Exclusion /\ Pinned /\ Committing /\ NoLostWakeup
-----------------------------------------------------------------------------
\* At power-on, with the empty log that mkfs wrote, nothing is logged, pinned or running.
LEMMA InitIInv == Init => IInv
<1> SUFFICES ASSUME Init PROVE IInv
  BY Zenon
<1>1. InOp = {} /\ Cardinality(InOp) = 0
  BY FS_EmptySet, Zenon DEF Init, InOp
<1>2. TypeOK
  <2>1. /\ home \in [Blocks -> Vals] /\ cache \in [Blocks -> Vals]
        /\ logd \in [1..LogLen-1 -> Vals]
    BY ConstAssumption, Zenon DEF Init
  <2>2. head \in Seq(Blocks) /\ lh \in Seq(Blocks)
    BY SMT, Z3 DEF Init
  <2>3. /\ pin \in [Blocks -> Nat] /\ outstanding \in Nat /\ tail \in Nat
        /\ pc \in [Procs -> PCs]
    BY Zenon DEF Init, PCs
  <2>4. /\ wrote \in [Procs -> SUBSET Blocks] /\ committing \in BOOLEAN
        /\ panicked \in BOOLEAN
    BY Zenon DEF Init
  <2> QED
    BY <2>1, <2>2, <2>3, <2>4, Zenon DEF TypeOK, Init
<1>4. HeadersOK
  BY ConstAssumption, SMT, Z3 DEF Init, HeadersOK, Injective
<1>5. BootIdle /\ Recovering
  BY Zenon DEF Init, BootIdle, Recovering
<1>3. Exclusion /\ Pinned /\ Committing /\ NoLostWakeup
  BY <1>1, Zenon DEF Init, Exclusion, Pinned, Committing, NoLostWakeup
<1> QED
  BY <1>2, <1>3, <1>4, <1>5, Zenon DEF IInv

\* Entering begin_op, or going to sleep in it, only moves one process.
LEMMA CallStep ==
  ASSUME IInv, NEW p \in Procs, CallBeginOp(p) \/ BeginOpSleep(p)
  PROVE  IInv'
<1> PICK l \in {"begin", "asleep"} :
      /\ pc[p] \in {"idle", "begin"} /\ Goto(p, l) /\ boot = "up"
      /\ l = "asleep" => MustWait
      /\ UNCHANGED <<disk, cache, pin, lh, outstanding, committing, tail, wrote, boot, panicked>>
  BY Zenon DEF CallBeginOp, BeginOpSleep, Running
<1> USE DEF IInv
<1>1. pc' \in [Procs -> PCs] /\ \A q \in Procs : pc'[q] = IF q = p THEN l ELSE pc[q]
  BY Zenon DEF TypeOK, PCs, Goto
<1>2. /\ InOp' = InOp /\ \A q \in Procs : Committer(q)' <=> Committer(q)
      /\ Phase("install")' = Phase("install") /\ Phase("clear")' = Phase("clear")
      /\ Phase("write_log")' = Phase("write_log") /\ Phase("done")' = Phase("done")
      /\ Phase("write_head")' = Phase("write_head")
  BY <1>1, Zenon DEF InOp, Phase, Committer, PCs
<1>3. Installed' = Installed /\ \A b : Pending(b)' <=> Pending(b)
  BY <1>2, Zenon DEF Installed, Pending
<1>4. TypeOK' /\ HeadersOK' /\ BootIdle' /\ Recovering'
  BY <1>1, SMT, Z3 DEF TypeOK, HeadersOK, Injective, BootIdle, Recovering, disk
<1>5. Exclusion' /\ Committing'
  BY <1>2, Zenon DEF Exclusion, Committing, disk
<1>6. Pinned'
  BY <1>3, Zenon DEF Pinned, disk
<1>7. NoLostWakeup'
  BY <1>1, ConstAssumption, SMT, Z3 DEF NoLostWakeup, MustWait, Committing, TypeOK
<1> QED
  BY <1>4, <1>5, <1>6, <1>7, Zenon

\* Operations in progress can be counted.
LEMMA OpenFinite == IsFiniteSet(InOp)
  BY ConstAssumption, FS_Subset, Zenon DEF InOp

\* Between begin_op and end_op nobody commits.
LEMMA OpenNoCommit ==
  ASSUME IInv, boot = "up", NEW p \in Procs, pc[p] = "op"
  PROVE  /\ ~committing /\ \A q \in Procs : ~Committer(q)
         /\ ~Phase("install") /\ ~Phase("clear") /\ ~Phase("write_log")
         /\ ~Phase("write_head") /\ ~Phase("done")
         /\ Installed = 0
<1>1. ~committing /\ \A q \in Procs : ~Committer(q)
  BY Zenon DEF IInv, Exclusion, InOp
<1> QED
  BY <1>1, Zenon DEF Committer, Phase, Installed

\* begin_op admits one more operation only when nobody commits.
LEMMA BeginOpGoStep ==
  ASSUME IInv, NEW p \in Procs, BeginOpGo(p)
  PROVE  IInv'
<1> USE DEF IInv
<1>1. /\ boot = "up" /\ pc[p] = "begin" /\ ~committing /\ Goto(p, "op")
      /\ outstanding' = outstanding + 1 /\ wrote' = [wrote EXCEPT ![p] = {}]
      /\ UNCHANGED <<home, logd, head, cache, pin, lh, committing, tail, boot, panicked>>
  BY Zenon DEF BeginOpGo, Running, MustWait, disk
<1>2. pc' \in [Procs -> PCs] /\ \A q \in Procs : pc'[q] = IF q = p THEN "op" ELSE pc[q]
  BY <1>1, Zenon DEF TypeOK, PCs, Goto
<1>3. /\ \A q \in Procs : Committer(q)' <=> Committer(q)
      /\ Phase("install")' = Phase("install") /\ Phase("clear")' = Phase("clear")
      /\ Phase("write_log")' = Phase("write_log") /\ Phase("done")' = Phase("done")
      /\ Phase("write_head")' = Phase("write_head")
  BY <1>1, <1>2, Zenon DEF Phase, Committer, PCs
<1>4. InOp' = InOp \cup {p} /\ p \notin InOp
  BY <1>1, <1>2, Zenon DEF InOp
<1>5. outstanding' = Cardinality(InOp')
  BY <1>1, <1>4, OpenFinite, FS_AddElement, Zenon DEF Exclusion
<1>6. Installed' = Installed /\ \A b : Pending(b)' <=> Pending(b)
  BY <1>1, <1>3, Zenon DEF Installed, Pending
<1>7. TypeOK'
  <2>1. wrote' \in [Procs -> SUBSET Blocks] /\ outstanding' \in Nat
    BY <1>1, SMT, Z3 DEF TypeOK
  <2> QED
    BY <1>1, <1>2, <2>1, Zenon DEF TypeOK
<1>8. HeadersOK' /\ BootIdle' /\ Recovering'
  BY <1>1, SMT, Z3 DEF HeadersOK, Injective, BootIdle, Recovering
<1>9. Exclusion' /\ Committing'
  BY <1>1, <1>3, <1>5, SMT, Z3 DEF Exclusion, Committing, TypeOK
<1>10. Pinned'
  BY <1>1, <1>6, Zenon DEF Pinned
<1>11. NoLostWakeup'
  BY <1>1, SMT, Z3 DEF NoLostWakeup, TypeOK
<1> QED
  BY <1>7, <1>8, <1>9, <1>10, <1>11, Zenon

\* log_write records and pins the block, or absorbs a second write to it.
LEMMA LogWriteStep ==
  ASSUME IInv, NEW p \in Procs, NEW b \in Blocks, NEW v \in Vals, LogWrite(p, b, v)
  PROVE  IInv'
<1> USE DEF IInv
<1>1. /\ boot = "up" /\ pc[p] = "op" /\ ~LogFull /\ Record(b)
      /\ cache' = [cache EXCEPT ![b] = v]
      /\ wrote' = [wrote EXCEPT ![p] = @ \cup {b}]
      /\ UNCHANGED <<home, logd, head, outstanding, committing, pc, tail, boot, panicked>>
  BY Zenon DEF LogWrite, CanWrite, Running, disk
<1>2. /\ ~committing /\ \A q \in Procs : ~Committer(q)
      /\ ~Phase("install") /\ ~Phase("clear") /\ ~Phase("write_log")
      /\ ~Phase("write_head") /\ ~Phase("done") /\ Installed = 0
  BY <1>1, OpenNoCommit, Zenon
<1>3. /\ InOp' = InOp /\ Installed' = 0
      /\ ~Phase("install")' /\ ~Phase("clear")' /\ ~Phase("write_log")'
      /\ ~Phase("write_head")' /\ ~Phase("done")'
      /\ \A q \in Procs : Committer(q)' <=> Committer(q)
  BY <1>1, <1>2, Zenon DEF InOp, Phase, Installed, Committer
<1>4. lh \in Seq(Blocks) /\ cache' \in [Blocks -> Vals] /\ wrote' \in [Procs -> SUBSET Blocks]
  BY <1>1, Zenon DEF TypeOK
<1>5. outstanding > 0
  <2>1. p \in InOp
    BY <1>1, Zenon DEF InOp
  <2> QED
    BY <1>1, <2>1, OpenFinite, FS_EmptySet, SMT, Z3 DEF Exclusion, TypeOK
<1>6. Exclusion' /\ BootIdle' /\ Recovering'
  BY <1>1, <1>3, Zenon DEF Exclusion, BootIdle, Recovering
<1>7. Committing' /\ NoLostWakeup'
  BY <1>1, <1>2, <1>3, <1>5, SMT, Z3 DEF Committing, NoLostWakeup
<1>8. CASE InSeq(b, lh)
  <2>1. UNCHANGED <<lh, pin>>
    BY <1>1, <1>8, Zenon DEF Record
  <2>2. Pending(b) /\ \A c : Pending(c)' <=> Pending(c)
    BY <1>2, <1>3, <1>8, <2>1, SMT, Z3 DEF Pending, InSeq
  <2>3. TypeOK' /\ HeadersOK'
    BY <1>1, <1>4, <2>1, ZenonT(30) DEF TypeOK, HeadersOK, Injective
  <2>4. Pinned'
    BY <1>1, <2>1, <2>2, Zenon DEF Pinned, TypeOK
  <2> QED
    BY <1>6, <1>7, <2>3, <2>4, Zenon
<1>9. CASE ~InSeq(b, lh)
  <2>1. lh' = Append(lh, b) /\ pin' = [pin EXCEPT ![b] = @ + 1]
    BY <1>1, <1>9, Zenon DEF Record
  <2>2. /\ lh' \in Seq(Blocks) /\ Len(lh') = Len(lh) + 1 /\ lh'[Len(lh) + 1] = b
        /\ \A i \in 1..Len(lh) : lh'[i] = lh[i]
    BY <1>4, <2>1, SMT, Z3
  <2>3. \A c \in Blocks : Pending(c)' <=> Pending(c) \/ c = b
    BY <1>2, <1>3, <1>4, <2>2, SMTT(30), Z3T(30) DEF Pending
  <2>4. ~Pending(b)
    BY <1>2, <1>9, Zenon DEF Pending, InSeq
  <2>5. TypeOK'
    BY <1>1, <1>4, <2>1, <2>2, SMT, Z3 DEF TypeOK
  <2>6. HeadersOK'
    <3>1. Len(lh') <= LogLen - 1
      BY <1>1, <1>4, <2>2, ConstAssumption, SMT, Z3 DEF LogFull
    <3>2. Injective(lh)'
      BY <1>4, <1>9, <2>2, SMTT(30), Z3T(30) DEF Injective, InSeq, HeadersOK
    <3> QED
      BY <1>1, <3>1, <3>2, Zenon DEF HeadersOK, Injective
  <2>7. Pinned'
    BY <1>1, <2>1, <2>3, <2>4, SMT, Z3 DEF Pinned, TypeOK
  <2> QED
    BY <1>6, <1>7, <2>5, <2>6, <2>7, Zenon
<1> QED
  BY <1>8, <1>9, Zenon

\* end_op closes an operation; the last one becomes the committer.
LEMMA EndOpStep ==
  ASSUME IInv, NEW p \in Procs, EndOp(p)
  PROVE  IInv'
<1> USE DEF IInv
<1>1. /\ boot = "up" /\ pc[p] = "op" /\ outstanding' = outstanding - 1
      /\ UNCHANGED <<home, logd, head, cache, pin, lh, wrote, boot>>
  BY Zenon DEF EndOp, Running, disk
<1>2. /\ ~committing /\ \A q \in Procs : ~Committer(q)
      /\ ~Phase("install") /\ ~Phase("clear") /\ ~Phase("write_log")
      /\ ~Phase("write_head") /\ ~Phase("done") /\ Installed = 0
  BY <1>1, OpenNoCommit, Zenon
<1>3. UNCHANGED panicked
  BY <1>2, Zenon DEF EndOp
<1>4. p \in InOp /\ IsFiniteSet(InOp) /\ outstanding = Cardinality(InOp)
  BY <1>1, OpenFinite, Zenon DEF InOp, Exclusion
<1>5. outstanding' = Cardinality(InOp \ {p}) /\ outstanding' \in Nat
  <2>1. IsFiniteSet(InOp \ {p}) /\ Cardinality(InOp \ {p}) = Cardinality(InOp) - 1
    BY <1>4, FS_RemoveElement, Zenon
  <2>2. Cardinality(InOp \ {p}) \in Nat
    BY <2>1, FS_CardinalityType, Zenon
  <2> QED
    BY <1>1, <1>4, <2>1, <2>2, Zenon
<1>6. \E l \in {"idle", "done", "write_log"} :
        /\ l = "idle" => outstanding > 1 /\ UNCHANGED <<committing, tail>>
        /\ l # "idle" => outstanding = 1 /\ committing' = TRUE /\ tail' = 1
        /\ l = "done" <=> outstanding = 1 /\ lh = << >>
        /\ \A q \in Procs : pc'[q] = IF q = p THEN l
                                     ELSE IF l = "idle" /\ pc[q] = "asleep" THEN "begin"
                                     ELSE pc[q]
        /\ pc' \in [Procs -> PCs]
  <2>1. CASE outstanding = 1
    BY <1>2, <2>1, Zenon DEF EndOp, Goto, TypeOK, PCs
  <2>2. CASE outstanding # 1
    BY <1>2, <1>1, <1>5, <2>2, SMT, Z3 DEF EndOp, WakeupLog, TypeOK, PCs
  <2> QED
    BY <2>1, <2>2, Zenon
<1> PICK l \in {"idle", "done", "write_log"} :
        /\ l = "idle" => outstanding > 1 /\ UNCHANGED <<committing, tail>>
        /\ l # "idle" => outstanding = 1 /\ committing' = TRUE /\ tail' = 1
        /\ l = "done" <=> outstanding = 1 /\ lh = << >>
        /\ \A q \in Procs : pc'[q] = IF q = p THEN l
                                     ELSE IF l = "idle" /\ pc[q] = "asleep" THEN "begin"
                                     ELSE pc[q]
        /\ pc' \in [Procs -> PCs]
  BY <1>6, Zenon
<1>7. InOp' = InOp \ {p}
  BY <1>1, Zenon DEF InOp
<1>8. /\ ~Phase("install")' /\ ~Phase("clear")' /\ ~Phase("write_head")'
      /\ Phase("write_log")' <=> l = "write_log"
      /\ Phase("done")' <=> l = "done"
      /\ \A q \in Procs : Committer(q)' <=> q = p /\ l # "idle"
  BY <1>1, <1>2, Zenon DEF Phase, Committer
<1>9. Installed' = 0 /\ \A b : Pending(b)' <=> Pending(b)
  BY <1>1, <1>2, <1>8, Zenon DEF Installed, Pending
<1>10. TypeOK'
  <2>1. tail' \in Nat /\ committing' \in BOOLEAN
    BY Zenon DEF TypeOK
  <2> QED
    BY <1>1, <1>3, <1>5, <2>1, Zenon DEF TypeOK
<1>11. HeadersOK' /\ BootIdle' /\ Recovering'
  BY <1>1, SMT, Z3 DEF HeadersOK, Injective, BootIdle, Recovering
<1>12. Exclusion'
  <2>1. committing' <=> l # "idle"
    BY <1>2, SMTT(30), Z3T(30)
  <2>2. committing' => InOp' = {}
    BY <1>1, <1>4, <1>5, <1>7, <2>1, FS_RemoveElement, FS_EmptySet, SMTT(30), Z3T(30)
  <2> QED
    BY <1>5, <1>7, <1>8, <2>1, <2>2, Zenon DEF Exclusion
<1>13. Pinned'
  BY <1>1, <1>9, Zenon DEF Pinned
<1>14. Committing'
  <2>1. outstanding' = 0 => committing'
    BY <1>1, <1>4, <1>5, SMT, Z3 DEF TypeOK
  <2>2. l = "write_log" => 1 \in 1..Len(lh)
    BY SMT, Z3 DEF TypeOK
  <2> QED
    BY <1>1, <1>2, <1>8, <2>1, <2>2, SMTT(30), Z3T(30) DEF Committing
<1>15. NoLostWakeup'
  BY <1>1, <1>5, Zenon DEF NoLostWakeup, TypeOK
<1> QED
  BY <1>10, <1>11, <1>12, <1>13, <1>14, <1>15, Zenon

\* The committer is alone: no operation is open, and its label is the phase.
LEMMA CommitterAlone ==
  ASSUME IInv, boot = "up", NEW p \in Procs, Committer(p)
  PROVE  /\ committing /\ outstanding = 0 /\ InOp = {}
         /\ \A q \in Procs : Committer(q) => q = p
         /\ Phase("write_log") <=> pc[p] = "write_log"
         /\ Phase("write_head") <=> pc[p] = "write_head"
         /\ Phase("install") <=> pc[p] = "install"
         /\ Phase("clear") <=> pc[p] = "clear"
         /\ Phase("done") <=> pc[p] = "done"
<1>1. /\ committing /\ InOp = {} /\ outstanding = 0
      /\ \A q \in Procs : Committer(q) => q = p
  BY FS_EmptySet, Zenon DEF IInv, Exclusion
<1> QED
  BY <1>1, Zenon DEF Phase, Committer

CommitLabels == {"write_log", "write_head", "install", "clear", "done"}

\* What does not depend on the phase survives a step of the committer.
LEMMA CommitMove ==
  ASSUME IInv, boot = "up", NEW p \in Procs, Committer(p), NEW l \in CommitLabels,
         pc' = [pc EXCEPT ![p] = l],
         UNCHANGED <<outstanding, committing, wrote, boot, panicked>>
  PROVE  /\ pc' \in [Procs -> PCs]
         /\ Phase("write_log")' <=> l = "write_log"
         /\ Phase("write_head")' <=> l = "write_head"
         /\ Phase("install")' <=> l = "install"
         /\ Phase("clear")' <=> l = "clear"
         /\ Phase("done")' <=> l = "done"
         /\ BootIdle' /\ Recovering' /\ Exclusion' /\ NoLostWakeup'
<1>1. /\ committing /\ outstanding = 0 /\ InOp = {}
      /\ \A q \in Procs : Committer(q) => q = p
  BY CommitterAlone, Zenon
<1>2. pc' \in [Procs -> PCs] /\ \A q \in Procs : pc'[q] = IF q = p THEN l ELSE pc[q]
  BY Zenon DEF IInv, TypeOK, PCs, CommitLabels
<1>3. InOp' = {} /\ \A q \in Procs : Committer(q)' <=> q = p
  BY <1>1, <1>2, Zenon DEF InOp, Committer, CommitLabels
<1>4. Exclusion'
  BY <1>1, <1>3, FS_EmptySet, Zenon DEF Exclusion
<1>5. BootIdle' /\ Recovering' /\ NoLostWakeup'
  BY <1>1, Zenon DEF BootIdle, Recovering, NoLostWakeup
<1>6. /\ Phase("write_log")' <=> l = "write_log"
      /\ Phase("write_head")' <=> l = "write_head"
      /\ Phase("install")' <=> l = "install"
      /\ Phase("clear")' <=> l = "clear"
      /\ Phase("done")' <=> l = "done"
  BY <1>2, <1>3, Zenon DEF Phase, Committer, CommitLabels
<1> QED
  BY <1>2, <1>4, <1>5, <1>6, ZenonT(30)

\* write_log copies one cached block to its place in the log.
LEMMA WriteLogStep ==
  ASSUME IInv, NEW p \in Procs, WriteLog(p)
  PROVE  IInv'
<1> USE DEF IInv
<1>1. /\ boot = "up" /\ pc[p] = "write_log" /\ Committer(p)
      /\ logd' = [logd EXCEPT ![tail] = cache[lh[tail]]] /\ Advance(p, "write_head")
      /\ UNCHANGED <<home, head, cache, pin, lh, outstanding, committing, wrote, boot,
                     panicked>>
  BY Zenon DEF WriteLog, Running, Committer
<1>2. /\ Phase("write_log") /\ ~Phase("install") /\ ~Phase("clear")
      /\ committing
  BY <1>1, CommitterAlone, Zenon
<1>3. /\ head = << >> /\ tail \in 1..Len(lh) /\ lh \in Seq(Blocks)
      /\ \A i \in 1..tail-1 : logd[i] = cache[lh[i]]
      /\ Len(lh) <= LogLen - 1
  BY <1>1, <1>2, Zenon DEF Committing, TypeOK, HeadersOK
<1>4. /\ logd' \in [1..LogLen-1 -> Vals] /\ tail' \in Nat
      /\ \A i \in 1..tail : logd'[i] = cache[lh[i]]
  BY <1>1, <1>3, ConstAssumption, SMTT(30), Z3T(30) DEF TypeOK, Advance
<1>5. \E l \in {"write_log", "write_head"} :
         /\ pc' = [pc EXCEPT ![p] = l]
         /\ l = "write_head" => tail = Len(lh) /\ tail' = 1
         /\ l = "write_log" => tail # Len(lh) /\ tail' = tail + 1
  BY <1>1, Zenon DEF Advance, Goto, TypeOK
<1> PICK l \in {"write_log", "write_head"} :
         /\ pc' = [pc EXCEPT ![p] = l]
         /\ l = "write_head" => tail = Len(lh) /\ tail' = 1
         /\ l = "write_log" => tail # Len(lh) /\ tail' = tail + 1
  BY <1>5, Zenon
<1> l \in CommitLabels
  BY Zenon DEF CommitLabels
<1>6. /\ pc' \in [Procs -> PCs]
      /\ Phase("write_log")' <=> l = "write_log"
      /\ Phase("write_head")' <=> l = "write_head"
      /\ ~Phase("install")' /\ ~Phase("clear")' /\ ~Phase("done")'
      /\ BootIdle' /\ Recovering' /\ Exclusion' /\ NoLostWakeup'
  BY <1>1, CommitMove, Zenon
<1>7. TypeOK' /\ HeadersOK'
  <2>1. TypeOK'
    BY <1>1, <1>4, <1>6, Zenon DEF TypeOK
  <2>2. HeadersOK'
    BY <1>1, ZenonT(30) DEF HeadersOK, Injective
  <2> QED
    BY <2>1, <2>2, Zenon
<1>8. Pinned'
  <2>1. \A b : Pending(b)' <=> Pending(b)
    BY <1>1, <1>2, <1>6, Zenon DEF Pending, Installed
  <2> QED
    BY <1>1, <2>1, Zenon DEF Pinned
<1>9. Committing'
  <2>1. l = "write_log" => tail' \in 1..Len(lh) /\ tail' - 1 = tail
    BY <1>3, SMT, Z3
  <2>2. l = "write_head" => tail' = 1 /\ Len(lh) > 0 /\ Len(lh) = tail
    BY <1>3, SMT, Z3
  <2> QED
    BY <1>1, <1>2, <1>3, <1>4, <1>6, <2>1, <2>2, ZenonT(30) DEF Committing
<1> QED
  BY <1>6, <1>7, <1>8, <1>9, Zenon

\* write_head writes the commit record: the on-disk header lists the group.
LEMMA WriteHeadStep ==
  ASSUME IInv, NEW p \in Procs, WriteHead(p)
  PROVE  IInv'
<1> USE DEF IInv
<1>1. /\ boot = "up" /\ pc[p] = "write_head" /\ Committer(p)
      /\ head' = lh /\ pc' = [pc EXCEPT ![p] = "install"]
      /\ UNCHANGED <<home, logd, cache, pin, lh, outstanding, committing, tail, wrote,
                     boot, panicked>>
  BY Zenon DEF WriteHead, Running, Committer, Goto
<1>2. Phase("write_head") /\ ~Phase("install") /\ ~Phase("clear") /\ committing
  BY <1>1, CommitterAlone, Zenon
<1>3. /\ tail = 1 /\ Len(lh) > 0 /\ lh \in Seq(Blocks)
      /\ \A i \in 1..Len(lh) : logd[i] = cache[lh[i]]
  BY <1>1, <1>2, Zenon DEF Committing, TypeOK
<1>4. /\ pc' \in [Procs -> PCs] /\ Phase("install")' /\ ~Phase("clear")'
      /\ ~Phase("write_log")' /\ ~Phase("write_head")' /\ ~Phase("done")'
      /\ BootIdle' /\ Recovering' /\ Exclusion' /\ NoLostWakeup'
  BY <1>1, CommitMove, Zenon DEF CommitLabels
<1>5. TypeOK' /\ HeadersOK'
  BY <1>1, <1>4, ZenonT(30) DEF TypeOK, HeadersOK, Injective
<1>6. Pinned'
  <2>1. \A b : Pending(b)' <=> Pending(b)
    BY <1>1, <1>2, <1>3, <1>4, SMTT(30), Z3T(30) DEF Pending, Installed
  <2> QED
    BY <1>1, <2>1, Zenon DEF Pinned
<1>7. Committing'
  BY <1>1, <1>2, <1>3, <1>4, SMT, Z3 DEF Committing
<1> QED
  BY <1>4, <1>5, <1>6, <1>7, Zenon

\* install_trans copies one logged block home and unpins its buffer.
LEMMA InstallStep ==
  ASSUME IInv, NEW p \in Procs, Install(p)
  PROVE  IInv'
<1> USE DEF IInv
<1>1. /\ boot = "up" /\ pc[p] = "install" /\ Committer(p)
      /\ home'  = [home  EXCEPT ![lh[tail]] = logd[tail]]
      /\ cache' = [cache EXCEPT ![lh[tail]] = logd[tail]]
      /\ pin' = [pin EXCEPT ![lh[tail]] = @ - 1] /\ Advance(p, "clear")
      /\ UNCHANGED <<logd, head, lh, outstanding, committing, wrote, boot, panicked>>
  BY Zenon DEF Install, CopyHome, Running, Committer
<1>2. Phase("install") /\ committing /\ Installed = tail - 1
  BY <1>1, CommitterAlone, Zenon DEF Installed
<1>3. /\ head = lh /\ tail \in 1..Len(lh) /\ lh \in Seq(Blocks) /\ lh[tail] \in Blocks
      /\ \A i \in 1..Len(lh) : logd[i] = cache[lh[i]]
      /\ Injective(lh)
  BY <1>1, <1>2, SMT, Z3 DEF Committing, TypeOK, HeadersOK
<1>4. /\ cache' = cache /\ cache \in [Blocks -> Vals]
      /\ \A b \in Blocks : home'[b] = IF b = lh[tail] THEN cache[b] ELSE home[b]
      /\ home' \in [Blocks -> Vals]
  BY <1>1, <1>3, Zenon DEF TypeOK
<1>5. \E l \in {"install", "clear"} :
         /\ pc' = [pc EXCEPT ![p] = l]
         /\ l = "clear" => tail = Len(lh) /\ tail' = 1
         /\ l = "install" => tail # Len(lh) /\ tail' = tail + 1
  BY <1>1, Zenon DEF Advance, Goto, TypeOK
<1> PICK l \in {"install", "clear"} :
         /\ pc' = [pc EXCEPT ![p] = l]
         /\ l = "clear" => tail = Len(lh) /\ tail' = 1
         /\ l = "install" => tail # Len(lh) /\ tail' = tail + 1
  BY <1>5, Zenon
<1> l \in CommitLabels
  BY Zenon DEF CommitLabels
<1>6. /\ pc' \in [Procs -> PCs]
      /\ Phase("install")' <=> l = "install"
      /\ Phase("clear")' <=> l = "clear"
      /\ ~Phase("write_log")' /\ ~Phase("write_head")' /\ ~Phase("done")'
      /\ BootIdle' /\ Recovering' /\ Exclusion' /\ NoLostWakeup'
  BY <1>1, CommitMove, Zenon
<1>7. Installed' = tail
  BY <1>1, <1>3, <1>6, SMTT(30), Z3T(30) DEF Installed
<1>8. \A b : Pending(b)' <=> Pending(b) /\ b # lh[tail]
  BY <1>1, <1>2, <1>3, <1>7, SMTT(30), Z3T(30) DEF Pending, Injective
<1>9. Pending(lh[tail])
  BY <1>2, <1>3, SMTT(30), Z3T(30) DEF Pending
<1>10. pin' \in [Blocks -> Nat] /\ tail' \in Nat
  BY <1>1, <1>3, <1>9, SMT, Z3 DEF TypeOK, Pinned
<1>11. TypeOK' /\ HeadersOK'
  <2>1. TypeOK'
    BY <1>1, <1>4, <1>6, <1>10, Zenon DEF TypeOK
  <2>2. HeadersOK'
    BY <1>1, ZenonT(30) DEF HeadersOK, Injective
  <2> QED
    BY <2>1, <2>2, Zenon
<1>12. Pinned'
  BY <1>1, <1>3, <1>4, <1>8, <1>9, SMTT(30), Z3T(30) DEF Pinned, TypeOK
<1>13. Committing'
  BY <1>1, <1>2, <1>3, <1>4, <1>6, SMTT(30), Z3T(30) DEF Committing
<1> QED
  BY <1>6, <1>11, <1>12, <1>13, Zenon

\* The second write_head of commit erases the transaction.
LEMMA ClearHeadStep ==
  ASSUME IInv, NEW p \in Procs, ClearHead(p)
  PROVE  IInv'
<1> USE DEF IInv
<1>1. /\ boot = "up" /\ pc[p] = "clear" /\ Committer(p)
      /\ lh' = << >> /\ head' = << >> /\ pc' = [pc EXCEPT ![p] = "done"]
      /\ UNCHANGED <<home, logd, cache, pin, outstanding, committing, tail, wrote,
                     boot, panicked>>
  BY Zenon DEF ClearHead, Running, Committer, Goto
<1>2. ~Phase("install") /\ Phase("clear") /\ committing /\ Installed = Len(lh)
  BY <1>1, CommitterAlone, Zenon DEF Installed
<1>3. /\ pc' \in [Procs -> PCs] /\ ~Phase("install")' /\ ~Phase("clear")'
      /\ ~Phase("write_log")' /\ ~Phase("write_head")' /\ Phase("done")'
      /\ BootIdle' /\ Recovering' /\ Exclusion' /\ NoLostWakeup'
  BY <1>1, CommitMove, ZenonT(30) DEF CommitLabels
<1>4. TypeOK'
  BY <1>1, <1>3, SMT, Z3 DEF TypeOK
<1>5. HeadersOK'
  BY <1>1, ConstAssumption, SMT, Z3 DEF HeadersOK, Injective
<1>6. Pinned'
  <2>1. \A b : ~Pending(b)' /\ ~Pending(b)
    BY <1>1, <1>2, SMTT(30), Z3T(30) DEF Pending, TypeOK
  <2> QED
    BY <1>1, <2>1, Zenon DEF Pinned
<1>7. Committing'
  BY <1>1, <1>3, Zenon DEF Committing
<1> QED
  BY <1>3, <1>4, <1>5, <1>6, <1>7, Zenon

\* end_op lets operations in again once commit has returned.
LEMMA CommitDoneStep ==
  ASSUME IInv, NEW p \in Procs, CommitDone(p)
  PROVE  IInv'
<1> USE DEF IInv
<1>1. /\ boot = "up" /\ pc[p] = "done" /\ Committer(p) /\ committing' = FALSE
      /\ WakeupLog(p, "idle")
      /\ UNCHANGED <<home, logd, head, cache, pin, lh, outstanding, tail, wrote, boot,
                     panicked>>
  BY Zenon DEF CommitDone, Running, Committer, disk
<1>2. /\ committing /\ outstanding = 0 /\ InOp = {}
      /\ \A q \in Procs : Committer(q) => q = p
      /\ ~Phase("install") /\ ~Phase("clear") /\ Phase("done")
  BY <1>1, CommitterAlone, Zenon
<1>3. /\ pc' \in [Procs -> PCs]
      /\ \A q \in Procs : pc'[q] = IF q = p THEN "idle"
                                   ELSE IF pc[q] = "asleep" THEN "begin" ELSE pc[q]
  BY <1>1, Zenon DEF WakeupLog, TypeOK, PCs
<1>4. InOp' = {} /\ \A q \in Procs : ~Committer(q)'
  BY <1>2, <1>3, Zenon DEF InOp, Committer
<1>5. /\ ~Phase("install")' /\ ~Phase("clear")' /\ ~Phase("write_log")'
      /\ ~Phase("write_head")' /\ ~Phase("done")'
  BY <1>4, Zenon DEF Phase, Committer
<1>6. TypeOK' /\ HeadersOK' /\ BootIdle' /\ Recovering'
  <2>1. TypeOK'
    BY <1>1, <1>3, ZenonT(30) DEF TypeOK
  <2>2. HeadersOK' /\ BootIdle' /\ Recovering'
    BY <1>1, SMTT(30), Z3T(30) DEF HeadersOK, Injective, BootIdle, Recovering
  <2> QED
    BY <2>1, <2>2, Zenon
<1>7. Exclusion'
  BY <1>1, <1>2, <1>4, FS_EmptySet, Zenon DEF Exclusion
<1>8. Pinned'
  <2>1. \A b : Pending(b)' <=> Pending(b)
    BY <1>1, <1>2, <1>5, Zenon DEF Pending, Installed
  <2> QED
    BY <1>1, <2>1, Zenon DEF Pinned
<1>9. Committing' /\ NoLostWakeup'
  BY <1>1, <1>2, <1>3, <1>5, Zenon DEF Committing, NoLostWakeup
<1> QED
  BY <1>6, <1>7, <1>8, <1>9, Zenon

\* A step that leaves disk and memory alone, a panic included, is harmless.
LEMMA Unchanged == ASSUME IInv, UNCHANGED <<disk, mem, boot>>, panicked' \in BOOLEAN,
                          boot # "up" => panicked' = panicked
                   PROVE  IInv'
<1>1. UNCHANGED <<home, logd, head, cache, pin, lh, outstanding, committing, pc, tail,
                  wrote, boot>>
  BY Zenon DEF disk, mem
<1>2. /\ UNCHANGED <<InOp, Installed>>
      /\ \A q : Committer(q)' <=> Committer(q)
      /\ \A l : Phase(l)' <=> Phase(l)
      /\ \A b : Pending(b)' <=> Pending(b)
  BY <1>1, Zenon DEF InOp, Committer, Phase, Installed, Pending
<1>3. TypeOK' /\ HeadersOK' /\ BootIdle' /\ Recovering'
  BY <1>1, SMTT(30), Z3T(30) DEF IInv, TypeOK, HeadersOK, Injective, BootIdle, Recovering
<1>4. Exclusion' /\ Pinned' /\ Committing' /\ NoLostWakeup'
  BY <1>1, <1>2, ZenonT(30) DEF IInv, Exclusion, Pinned, Committing, NoLostWakeup
<1> QED
  BY <1>3, <1>4, Zenon DEF IInv

\* Recycling an unreferenced buffer changes nothing: it equals its home block.
LEMMA EvictStutters == ASSUME IInv, NEW b \in Blocks, Evict(b) PROVE UNCHANGED vars
<1>1. boot = "up" /\ pin[b] = 0 /\ cache' = [cache EXCEPT ![b] = home[b]]
  BY Zenon DEF Evict
<1>2. cache[b] = home[b]
  BY <1>1, SMT, Z3 DEF IInv, Pinned
<1>3. cache' = cache
  BY <1>1, <1>2, Zenon DEF IInv, TypeOK
<1> QED
  BY <1>3, Zenon DEF Evict, vars, disk, mem

\* At power-on, whatever the disk holds.
LEMMA PowerOn ==
  ASSUME IInv, Crash PROVE IInv'
<1> USE DEF IInv
<1>1. /\ head' = head /\ cache' = home' /\ pin' = [b \in Blocks |-> 0] /\ lh' = << >>
      /\ outstanding' = 0 /\ committing' = FALSE /\ pc' = [p \in Procs |-> "idle"]
      /\ tail' = 1 /\ wrote' = [p \in Procs |-> {}] /\ boot' = "read_head"
      /\ panicked' = FALSE /\ logd' \in TornLog /\ home' \in TornHome
  BY Zenon DEF Crash
<1>2. logd' \in [1..LogLen-1 -> Vals] /\ home' \in [Blocks -> Vals]
  BY <1>1, ZenonT(30) DEF TypeOK, TornLog, TornHome
<1>3. TypeOK'
  <2>1. /\ pin' \in [Blocks -> Nat] /\ outstanding' \in Nat /\ tail' \in Nat
        /\ pc' \in [Procs -> PCs] /\ lh' \in Seq(Blocks)
    BY <1>1, SMT, Z3 DEF PCs
  <2>2. /\ wrote' \in [Procs -> SUBSET Blocks] /\ committing' \in BOOLEAN
        /\ panicked' \in BOOLEAN
    BY <1>1, Zenon
  <2> QED
    BY <1>1, <1>2, <2>1, <2>2, Zenon DEF TypeOK
<1>4. HeadersOK'
  BY <1>1, ConstAssumption, SMT, Z3 DEF HeadersOK, Injective
<1>5. BootIdle' /\ Recovering'
  BY <1>1, Zenon DEF BootIdle, Recovering
<1>6. Exclusion' /\ Pinned' /\ Committing' /\ NoLostWakeup'
  BY <1>1, Zenon DEF Exclusion, Pinned, Committing, NoLostWakeup
<1> QED
  BY <1>3, <1>4, <1>5, <1>6, Zenon

\* read_head loads the header that recovery replays.
LEMMA ReadHeadStep == ASSUME IInv, ReadHead PROVE IInv'
<1> USE DEF IInv
<1>1. /\ boot = "read_head" /\ lh' = head /\ tail = 1
      /\ boot' = IF head = << >> THEN "clear" ELSE "install"
      /\ UNCHANGED <<home, logd, head, cache, pin, outstanding, committing, pc, tail,
                     wrote, panicked>>
  BY Zenon DEF ReadHead, disk, Recovering
<1>2. TypeOK' /\ HeadersOK'
  BY <1>1, Zenon DEF TypeOK, HeadersOK, Injective
<1>3. BootIdle' /\ Recovering'
  BY <1>1, SMTT(30), Z3T(30) DEF BootIdle, Recovering, TypeOK
<1>4. Exclusion' /\ Pinned' /\ Committing' /\ NoLostWakeup'
  BY <1>1, Zenon DEF Exclusion, Pinned, Committing, NoLostWakeup, BootIdle
<1> QED
  BY <1>2, <1>3, <1>4, Zenon

\* install_trans(1) replays one logged block.
LEMMA RecoverInstallStep == ASSUME IInv, RecoverInstall PROVE IInv'
<1> USE DEF IInv
<1>1. /\ boot = "install"
      /\ home'  = [home  EXCEPT ![lh[tail]] = logd[tail]]
      /\ cache' = [cache EXCEPT ![lh[tail]] = logd[tail]]
      /\ \/ tail = Len(lh) /\ boot' = "clear" /\ tail' = 1
         \/ tail # Len(lh) /\ boot' = "install" /\ tail' = tail + 1
      /\ UNCHANGED <<logd, head, pin, lh, outstanding, committing, pc, wrote, panicked>>
  BY Zenon DEF RecoverInstall, CopyHome
<1>2. /\ lh = head /\ tail \in 1..Len(lh) /\ lh \in Seq(Blocks) /\ Injective(lh)
      /\ Len(lh) <= LogLen - 1
      /\ \A i \in 1..tail-1 : home[lh[i]] = logd[i]
  BY <1>1, Zenon DEF Recovering, TypeOK, HeadersOK
<1>3. lh[tail] \in Blocks /\ logd[tail] \in Vals
  BY <1>2, ConstAssumption, SMTT(30), Z3T(30) DEF TypeOK
<1>4. home' \in [Blocks -> Vals] /\ cache' = home' /\ tail' \in Nat
  BY <1>1, <1>2, <1>3, SMTT(30), Z3T(30) DEF TypeOK, BootIdle
<1>5. \A i \in 1..tail : home'[lh[i]] = logd[i]
  BY <1>1, <1>2, <1>3, SMTT(30), Z3T(30) DEF Injective, TypeOK
<1>6. TypeOK'
  BY <1>1, <1>4, Zenon DEF TypeOK
<1>7. HeadersOK' /\ BootIdle'
  BY <1>1, <1>4, ZenonT(30) DEF HeadersOK, Injective, BootIdle
<1>8. Recovering'
  BY <1>1, <1>2, <1>5, SMTT(30), Z3T(30) DEF Recovering
<1>9. Exclusion' /\ Pinned' /\ Committing' /\ NoLostWakeup'
  BY <1>1, Zenon DEF Exclusion, Pinned, Committing, NoLostWakeup, BootIdle
<1> QED
  BY <1>6, <1>7, <1>8, <1>9, Zenon

\* recover_from_log ends by erasing the header it replayed.
LEMMA RecoverClearStep == ASSUME IInv, RecoverClear PROVE IInv'
<1> USE DEF IInv
<1>1. /\ boot = "clear" /\ lh' = << >> /\ head' = << >> /\ boot' = "up"
      /\ UNCHANGED <<home, logd, cache, pin, outstanding, committing, pc, tail, wrote,
                     panicked>>
  BY Zenon DEF RecoverClear
<1>2. /\ outstanding = 0 /\ ~committing /\ \A p \in Procs : pc[p] = "idle"
      /\ \A b \in Blocks : pin[b] = 0
      /\ cache = home
  BY <1>1, Zenon DEF BootIdle
<1>3. /\ InOp' = {} /\ \A p \in Procs : ~Committer(p)'
      /\ ~Phase("install")' /\ ~Phase("clear")' /\ ~Phase("write_log")'
      /\ ~Phase("write_head")' /\ ~Phase("done")'
  BY <1>1, <1>2, Zenon DEF InOp, Committer, Phase
<1>4. TypeOK'
  BY <1>1, SMTT(30), Z3T(30) DEF TypeOK
<1>5. HeadersOK' /\ BootIdle' /\ Recovering'
  BY <1>1, ConstAssumption, SMT, Z3 DEF HeadersOK, Injective, BootIdle, Recovering
<1>6. Exclusion'
  BY <1>1, <1>2, <1>3, FS_EmptySet, Zenon DEF Exclusion
<1>7. Pinned'
  <2>1. \A b : ~Pending(b)'
    BY <1>1, SMT, Z3 DEF Pending
  <2> QED
    BY <1>1, <1>2, <2>1, Zenon DEF Pinned
<1>8. Committing' /\ NoLostWakeup'
  BY <1>1, <1>2, <1>3, Zenon DEF Committing, NoLostWakeup
<1> QED
  BY <1>4, <1>5, <1>6, <1>7, <1>8, Zenon
-----------------------------------------------------------------------------
\* Every step of log.c, and every crash, preserves the inductive invariant.
LEMMA NextIInv == IInv /\ [Next]_vars => IInv'
<1> SUFFICES ASSUME IInv, [Next]_vars PROVE IInv'
  BY Zenon
<1>1. CASE UNCHANGED vars
  <2>1. UNCHANGED <<disk, mem, boot, panicked>> /\ panicked \in BOOLEAN
    BY <1>1, Zenon DEF vars, IInv, TypeOK
  <2> QED
    BY <2>1, Unchanged, Zenon
<1>2. ASSUME NEW p \in Procs, CallBeginOp(p) \/ Step(p) PROVE IInv'
  BY ZenonT(30), <1>2, CallStep, BeginOpGoStep, EndOpStep, WriteLogStep, WriteHeadStep, InstallStep,
     ClearHeadStep, CommitDoneStep DEF Step
<1>3. ASSUME NEW p \in Procs, NEW b \in Blocks, LogWritePanic(p, b) PROVE IInv'
  <2>1. UNCHANGED <<disk, mem, boot>> /\ panicked' = TRUE /\ boot = "up"
    BY <1>3, Zenon DEF LogWritePanic, CanWrite, Running
  <2> QED
    BY <2>1, Unchanged, Zenon
<1>4. ASSUME NEW p \in Procs, NEW b \in Blocks, NEW v \in Vals, LogWrite(p, b, v)
      PROVE  IInv'
  BY <1>4, LogWriteStep, Zenon
<1>5. ASSUME NEW b \in Blocks, Evict(b) PROVE IInv'
  <2>1. UNCHANGED <<disk, mem, boot, panicked>> /\ panicked \in BOOLEAN
    BY <1>5, EvictStutters, Zenon DEF vars, IInv, TypeOK
  <2> QED
    BY <2>1, Unchanged, Zenon
<1>6. CASE Recover
  BY <1>6, ReadHeadStep, RecoverInstallStep, RecoverClearStep, Zenon DEF Recover
<1>7. CASE Crash
  BY <1>7, PowerOn, Zenon
<1> QED
  BY <1>1, <1>2, <1>3, <1>4, <1>5, <1>6, <1>7, Zenon DEF Next

\* The inductive invariant holds in every reachable state of log.c.
THEOREM Invariance == Spec => []IInv
  BY InitIInv, NextIInv, PTL DEF Spec

\* log.c keeps its variables in their types: in particular log.outstanding and
\* the pin counts never go below zero.
THEOREM TypeCorrect == Spec => []TypeOK
<1>1. IInv => TypeOK
  BY Zenon DEF IInv
<1> QED
  BY Invariance, <1>1, PTL

\* Nobody sleeps in begin_op without somebody left to wake it.
THEOREM NobodyForgotten == Spec => []NoLostWakeup
<1>1. IInv => NoLostWakeup
  BY Zenon DEF IInv
<1> QED
  BY Invariance, <1>1, PTL

\* When the last end_op has returned its group is home and the log is empty.
THEOREM AtRest == Spec => []DurableAtRest
<1>1. IInv => DurableAtRest
  <2> SUFFICES ASSUME IInv, boot = "up", outstanding = 0, ~committing
               PROVE  home = cache /\ head = << >> /\ lh = << >>
    BY Zenon DEF DurableAtRest
  <2>1. \A p \in Procs : ~Committer(p)
    BY Zenon DEF IInv, Exclusion
  <2>2. ~Phase("install") /\ ~Phase("clear") /\ Installed = 0
    BY <2>1, Zenon DEF Phase, Committer, Installed
  <2>3. head = << >> /\ lh = << >>
    BY <2>2, Zenon DEF IInv, Committing
  <2>4. \A b \in Blocks : cache[b] = home[b]
    BY <2>3, SMT, Z3 DEF IInv, Pinned, Pending
  <2> QED
    BY <2>3, <2>4, SMT, Z3 DEF IInv, TypeOK
<1> QED
  BY Invariance, <1>1, PTL
-----------------------------------------------------------------------------
\* What recovery would restore, as a function of the disk.
Rec(h, l, d) == [b \in Blocks |-> IF InSeq(b, h)
                                  THEN l[CHOOSE i \in 1..Len(h) : h[i] = b] ELSE d[b]]

\* What recovery would restore, as a function of the three disk regions.
LEMMA RecoveredIsRec == /\ Recovered = Rec(head, logd, home)
                        /\ Recovered' = Rec(head', logd', home')
  BY Zenon DEF Recovered, Rec

Volatile == IF boot = "up" THEN cache ELSE Recovered

\* Recovery would restore the home blocks before the header is written and,
\* while the transaction is being installed, the cached blocks.
DurableIs ==
  /\ boot = "up" /\ ~Phase("install") /\ ~Phase("clear") => Recovered = home
  /\ boot = "up" /\ (Phase("install") \/ Phase("clear")) => Recovered = cache
  /\ boot = "clear" => Recovered = home

\* What recovery would restore, at each phase of a commit.
LEMMA DurableValue == IInv => DurableIs
<1> SUFFICES ASSUME IInv PROVE DurableIs
  BY Zenon
<1>0. head \in Seq(Blocks) /\ Injective(head)
  BY Zenon DEF IInv, TypeOK, HeadersOK
<1>1. /\ \A i \in 1..Len(head) : Recovered[head[i]] = logd[i]
      /\ \A b \in Blocks : ~InSeq(b, head) => Recovered[b] = home[b]
  <2>1. ASSUME NEW i \in 1..Len(head) PROVE Recovered[head[i]] = logd[i]
    <3>1. head[i] \in Blocks /\ InSeq(head[i], head)
      BY <1>0, SMT, Z3 DEF InSeq
    <3>2. (CHOOSE j \in 1..Len(head) : head[j] = head[i]) = i
      BY <1>0, Zenon DEF Injective
    <3> QED
      BY <3>1, <3>2, Zenon DEF Recovered
  <2>2. ASSUME NEW b \in Blocks, ~InSeq(b, head) PROVE Recovered[b] = home[b]
    BY <2>2, Zenon DEF Recovered
  <2> QED
    BY <2>1, <2>2, Zenon
<1>2. /\ Recovered = [b \in Blocks |-> Recovered[b]]
      /\ home = [b \in Blocks |-> home[b]] /\ cache = [b \in Blocks |-> cache[b]]
  BY SMT, Z3 DEF Recovered, IInv, TypeOK
<1>3. ASSUME boot = "up", ~Phase("install"), ~Phase("clear") PROVE Recovered = home
  <2>1. \A b \in Blocks : ~InSeq(b, head)
    BY <1>3, SMT, Z3 DEF IInv, Committing, InSeq
  <2> QED
    BY <1>1, <1>2, <2>1, Zenon
<1>4. ASSUME boot = "up", Phase("install") \/ Phase("clear") PROVE Recovered = cache
  <2>1. head = lh /\ \A i \in 1..Len(lh) : logd[i] = cache[lh[i]]
    BY <1>4, Zenon DEF IInv, Committing
  <2>2. \A b \in Blocks : ~InSeq(b, head) => cache[b] = home[b]
    BY <1>4, <2>1, Zenon DEF IInv, Pinned, Pending, InSeq
  <2>3. \A b \in Blocks : Recovered[b] = cache[b]
    BY <1>1, <2>1, <2>2, SMT, Z3 DEF InSeq
  <2> QED
    BY <1>2, <2>3, Zenon
<1>5. ASSUME boot = "clear" PROVE Recovered = home
  <2>1. \A i \in 1..Len(head) : home[head[i]] = logd[i]
    BY <1>5, Zenon DEF IInv, Recovering
  <2>2. \A b \in Blocks : Recovered[b] = home[b]
    BY <1>1, <2>1, SMT, Z3 DEF InSeq
  <2> QED
    BY <1>2, <2>2, Zenon
<1> QED
  BY <1>3, <1>4, <1>5, Zenon DEF DurableIs

\* The same after the step.
LEMMA DurableValueNext == IInv' => DurableIs'
  BY DurableValue, PTL

\* Recovery with an empty header changes nothing.
LEMMA RecEmpty == ASSUME NEW l, NEW d \in [Blocks -> Vals] PROVE Rec(<< >>, l, d) = d
  BY SMT, Z3 DEF Rec, InSeq

\* Recovery overwrites the home location of a logged block.
LEMMA RecMask ==
  ASSUME NEW h \in Seq(Blocks), NEW l, NEW d \in [Blocks -> Vals], NEW e, NEW v,
         NEW i \in 1..Len(h), e = [d EXCEPT ![h[i]] = v]
  PROVE  Rec(h, l, e) = Rec(h, l, d)
<1>1. \A b \in Blocks : ~InSeq(b, h) => e[b] = d[b]
  BY Zenon DEF InSeq
<1> QED
  BY <1>1, SMT, Z3 DEF Rec

Hidden == UNCHANGED <<Recovered, Volatile, InOp>>

\* The steps that only move processes are invisible to an operation.
LEMMA LockSteps ==
  ASSUME IInv, NEW p \in Procs, CallBeginOp(p) \/ BeginOpSleep(p) \/ CommitDone(p)
  PROVE  Hidden
<1>1. /\ UNCHANGED <<home, logd, head, cache, boot>> /\ pc[p] # "op"
      /\ \A q \in Procs : pc'[q] = "op" <=> pc[q] = "op"
  BY Zenon DEF CallBeginOp, BeginOpSleep, CommitDone, Goto, WakeupLog, disk, IInv, TypeOK
<1> QED
  BY <1>1, SMT, Z3 DEF Hidden, Recovered, Volatile, InOp

\* Filling the log area is invisible while the header is empty.
LEMMA WriteLogHidden == ASSUME IInv, NEW p \in Procs, WriteLog(p) PROVE Hidden
<1>1. /\ boot = "up" /\ pc[p] = "write_log" /\ Committer(p)
      /\ UNCHANGED <<home, head, cache, boot>>
      /\ pc' = pc \/ pc' = [pc EXCEPT ![p] = "write_head"]
  BY Zenon DEF WriteLog, Running, Committer, Advance, Goto
<1>2. head = << >>
  BY <1>1, CommitterAlone, Zenon DEF IInv, Committing
<1>3. Recovered = home /\ Recovered' = home
  BY <1>1, <1>2, RecEmpty, RecoveredIsRec, Zenon DEF IInv, TypeOK
<1>4. InOp' = InOp
  BY <1>1, Zenon DEF InOp, IInv, TypeOK
<1> QED
  BY <1>1, <1>3, <1>4, Zenon DEF Hidden, Volatile

\* Installing a block is invisible: recovery would have done the same.
LEMMA InstallHidden == ASSUME IInv, IInv', NEW p \in Procs, Install(p) PROVE Hidden
<1>1. /\ boot = "up" /\ pc[p] = "install" /\ Committer(p) /\ boot' = "up"
      /\ cache' = [cache EXCEPT ![lh[tail]] = logd[tail]]
      /\ pc' = pc \/ pc' = [pc EXCEPT ![p] = "clear"]
  BY Zenon DEF Install, CopyHome, Running, Committer, Advance, Goto
<1>2. Phase("install") /\ (Phase("install")' \/ Phase("clear")') /\ InOp' = InOp
  BY <1>1, ZenonT(30) DEF Phase, InOp, IInv, TypeOK
<1>3. cache' = cache
  BY <1>1, <1>2, SMTT(30), Z3T(30) DEF IInv, Committing, TypeOK
<1>4. Recovered = cache /\ Recovered' = cache'
  BY <1>1, <1>2, DurableValue, DurableValueNext, Zenon DEF DurableIs
<1> QED
  BY <1>1, <1>2, <1>3, <1>4, Zenon DEF Hidden, Volatile

\* Erasing the header is invisible once every block is home.
LEMMA ClearHeadHidden == ASSUME IInv, NEW p \in Procs, ClearHead(p) PROVE Hidden
<1>1. /\ boot = "up" /\ pc[p] = "clear" /\ Committer(p) /\ head' = << >>
      /\ UNCHANGED <<home, cache, boot>> /\ pc' = [pc EXCEPT ![p] = "done"]
  BY Zenon DEF ClearHead, Running, Committer, Goto
<1>2. ~Phase("install") /\ Phase("clear")
  BY <1>1, CommitterAlone, Zenon
<1>3. \A b \in Blocks : cache[b] = home[b]
  BY <1>1, <1>2, SMTT(30), Z3T(30) DEF IInv, Pinned, Pending, Installed, TypeOK
<1>4. cache = home
  BY <1>3, SMT, Z3 DEF IInv, TypeOK
<1>5. Recovered' = home
  BY <1>1, RecEmpty, RecoveredIsRec, Zenon DEF IInv, TypeOK
<1>6. Recovered = cache
  BY <1>1, <1>2, DurableValue, Zenon DEF DurableIs
<1>7. InOp' = InOp
  BY <1>1, Zenon DEF InOp, IInv, TypeOK
<1> QED
  BY <1>1, <1>4, <1>5, <1>6, <1>7, Zenon DEF Hidden, Volatile

\* The steps of recovery, repeated or interrupted, restore the same disk.
LEMMA RecoverHidden == ASSUME IInv, Recover PROVE Hidden
<1>1. InOp' = InOp
  BY Zenon DEF Recover, ReadHead, RecoverInstall, RecoverClear, InOp
<1>2. CASE ReadHead
  BY <1>1, <1>2, SMT, Z3 DEF ReadHead, disk, Hidden, Recovered, Volatile
<1>3. CASE RecoverInstall
  <2>1. /\ boot = "install" /\ boot' # "up" /\ UNCHANGED <<logd, head>>
        /\ home' = [home EXCEPT ![lh[tail]] = logd[tail]]
    BY <1>3, Zenon DEF RecoverInstall, CopyHome
  <2>2. /\ lh = head /\ head \in Seq(Blocks) /\ tail \in 1..Len(head)
        /\ home \in [Blocks -> Vals]
    BY <2>1, Zenon DEF IInv, Recovering, TypeOK
  <2>3. home' = [home EXCEPT ![head[tail]] = logd[tail]]
    BY <2>1, <2>2, Zenon
  <2>4. Recovered' = Recovered
    <3>1. Rec(head, logd, home') = Rec(head, logd, home)
      BY <2>2, <2>3, RecMask, Zenon
    <3> QED
      BY <2>1, <3>1, RecoveredIsRec, Zenon
  <2> QED
    BY <1>1, <2>1, <2>4, Zenon DEF Hidden, Volatile
<1>4. CASE RecoverClear
  <2>1. /\ boot = "clear" /\ boot' = "up" /\ head' = << >> /\ UNCHANGED <<home, cache>>
    BY <1>4, Zenon DEF RecoverClear
  <2>2. Recovered = home /\ cache = home
    BY <2>1, DurableValue, Zenon DEF DurableIs, IInv, BootIdle
  <2>3. Recovered' = home
    BY <2>1, RecEmpty, RecoveredIsRec, Zenon DEF IInv, TypeOK
  <2> QED
    BY <1>1, <2>1, <2>2, <2>3, Zenon DEF Hidden, Volatile
<1> QED
  BY <1>2, <1>3, <1>4, Zenon DEF Recover

\* A crash, torn writes included, changes nothing that recovery would restore.
LEMMA CrashKeeps == ASSUME IInv, Crash PROVE Recovered' = Recovered
<1>0. head \in Seq(Blocks) /\ home \in [Blocks -> Vals]
  BY Zenon DEF IInv, TypeOK
<1>1. head' = head /\ logd' \in TornLog /\ home' \in TornHome
  BY Zenon DEF Crash
<1>2. CASE boot = "up" /\ Phase("write_log")
  <2>1. PICK p \in Procs : pc[p] = "write_log"
    BY <1>2, Zenon DEF Phase
  <2>2. ~Phase("install") /\ ~Phase("clear")
    BY <1>2, <2>1, CommitterAlone, Zenon DEF Committer
  <2>3. head = << >> /\ home' = home
    BY <1>1, <1>2, <2>2, Zenon DEF IInv, Committing, TornHome, Phase
  <2> QED
    BY <1>0, <1>1, <2>3, RecEmpty, RecoveredIsRec, Zenon
<1>3. CASE ~(boot = "up" /\ Phase("write_log"))
  <2>1. logd' = logd
    BY <1>1, <1>3, Zenon DEF TornLog, Phase
  <2>2. CASE home' = home
    BY <1>1, <2>1, <2>2, SMT, Z3 DEF Recovered
  <2>3. CASE home' # home
    <3>1. boot = "install" \/ (boot = "up" /\ Phase("install"))
      BY <1>1, <2>3, Zenon DEF TornHome, Phase
    <3>2. head = lh /\ tail \in 1..Len(head)
      BY <3>1, Zenon DEF IInv, Recovering, Committing
    <3>3. PICK v \in Vals : home' = [home EXCEPT ![head[tail]] = v]
      BY <1>1, <2>3, <3>2, Zenon DEF TornHome
    <3>4. Rec(head, logd, home') = Rec(head, logd, home)
      <4>1. tail \in 1..Len(head)
        BY <3>2, Zenon
      <4> QED
        BY <1>0, <3>3, <4>1, RecMask, Zenon
    <3> QED
      BY <1>1, <2>1, <3>4, RecoveredIsRec, Zenon
  <2> QED
    BY <2>2, <2>3, Zenon
<1> QED
  BY <1>2, <1>3, Zenon

\* Every step of log.c is a step of the abstract transactions or changes
\* nothing they see.
LEMMA NextRefines == IInv /\ IInv' /\ [Next]_vars => [AT!Next]_(AT!vars)
<1> SUFFICES ASSUME IInv, IInv', [Next]_vars
             PROVE  AT!Next \/ UNCHANGED AT!vars
  BY Zenon
<1>1. Hidden => UNCHANGED AT!vars
  BY Zenon DEF Hidden, Volatile, InOp, AT!vars
<1>2. CASE UNCHANGED vars
  BY <1>1, <1>2, SMT, Z3 DEF vars, disk, mem, Hidden, Recovered, Volatile, InOp
<1>3. ASSUME NEW p \in Procs, BeginOpGo(p) PROVE AT!Begin(p)
  <2>1. /\ boot = "up" /\ pc[p] = "begin" /\ pc' = [pc EXCEPT ![p] = "op"]
        /\ UNCHANGED <<home, logd, head, cache, boot>>
    BY <1>3, Zenon DEF BeginOpGo, Running, Goto, disk
  <2>2. InOp' = InOp \cup {p} /\ p \notin InOp
    BY <2>1, ZenonT(30) DEF InOp, IInv, TypeOK
  <2>3. UNCHANGED <<Recovered, Volatile>>
    BY <2>1, SMTT(30), Z3T(30) DEF Recovered, Volatile
  <2> QED
    BY <2>2, <2>3, Zenon DEF AT!Begin, InOp, Volatile
<1>4. ASSUME NEW p \in Procs, EndOp(p) PROVE AT!End(p)
  <2>1. boot = "up" /\ pc[p] = "op" /\ UNCHANGED <<home, logd, head, cache, boot>>
    BY <1>4, Zenon DEF EndOp, Running, disk
  <2>2. \A q \in Procs : pc'[q] = "op" <=> pc[q] = "op" /\ q # p
    <3>1. ~committing
      BY <2>1, OpenNoCommit, Zenon
    <3> QED
      BY <1>4, <2>1, <3>1, Zenon DEF EndOp, Goto, WakeupLog, IInv, TypeOK
  <2>3. p \in InOp /\ InOp' = InOp \ {p}
    BY <2>1, <2>2, Zenon DEF InOp
  <2>4. UNCHANGED <<Recovered, Volatile>>
    BY <2>1, SMT, Z3 DEF Recovered, Volatile
  <2> QED
    BY <2>3, <2>4, Zenon DEF AT!End, InOp, Volatile
<1>5. ASSUME NEW p \in Procs, NEW b \in Blocks, NEW v \in Vals, LogWrite(p, b, v)
      PROVE  AT!Write(p, b, v)
  <2>1. /\ boot = "up" /\ pc[p] = "op" /\ cache' = [cache EXCEPT ![b] = v]
        /\ UNCHANGED <<home, logd, head, boot, pc>>
    BY <1>5, Zenon DEF LogWrite, CanWrite, Running, disk
  <2>2. p \in InOp /\ UNCHANGED <<Recovered, InOp>> /\ Volatile = cache /\ Volatile' = cache'
    BY <2>1, SMT, Z3 DEF Recovered, InOp, Volatile
  <2> QED
    BY <2>1, <2>2, Zenon DEF AT!Write, InOp, Volatile
<1>6. ASSUME NEW p \in Procs, WriteHead(p) PROVE AT!Commit
  <2>1. /\ boot = "up" /\ pc[p] = "write_head" /\ Committer(p)
        /\ pc' = [pc EXCEPT ![p] = "install"] /\ UNCHANGED <<cache, boot>>
    BY <1>6, Zenon DEF WriteHead, Running, Committer, Goto
  <2>2. InOp = {}
    BY <2>1, CommitterAlone, Zenon
  <2>3. InOp' = InOp /\ Phase("install")'
    BY <2>1, Zenon DEF InOp, Phase, IInv, TypeOK
  <2>4. Recovered' = cache /\ Volatile = cache /\ Volatile' = cache
    BY <2>1, <2>3, DurableValueNext, ZenonT(30) DEF DurableIs, Volatile
  <2> QED
    BY <2>2, <2>3, <2>4, Zenon DEF AT!Commit, InOp, Volatile
<1>7. ASSUME NEW p \in Procs, NEW b \in Blocks, LogWritePanic(p, b) PROVE Hidden
  BY <1>7, SMTT(30), Z3T(30) DEF LogWritePanic, disk, mem, Hidden, Recovered, Volatile, InOp
<1>8. ASSUME NEW b \in Blocks, Evict(b) PROVE Hidden
  <2>1. UNCHANGED <<home, logd, head, cache, boot, pc>>
    BY <1>8, EvictStutters, Zenon DEF vars, disk, mem
  <2> QED
    BY <2>1, SMT, Z3 DEF Hidden, Recovered, Volatile, InOp
<1>9. CASE Crash
  <2>1. Recovered' = Recovered
    BY <1>9, CrashKeeps, Zenon
  <2>2. InOp' = {} /\ Volatile' = Recovered'
    BY <1>9, Zenon DEF Crash, InOp, Volatile
  <2> QED
    BY <2>1, <2>2, Zenon DEF AT!Next, AT!Crash, InOp, Volatile
<1>10. CASE Recover
  BY <1>1, <1>10, RecoverHidden, Zenon
<1>11. ASSUME NEW p \in Procs, CallBeginOp(p) \/ Step(p)
       PROVE  AT!Next \/ UNCHANGED AT!vars
  <2>1. CASE BeginOpGo(p) \/ EndOp(p) \/ WriteHead(p)
    BY <1>3, <1>4, <1>6, <2>1, Zenon DEF AT!Next
  <2>2. CASE CallBeginOp(p) \/ BeginOpSleep(p) \/ CommitDone(p)
    BY <1>1, <2>2, LockSteps, Zenon
  <2>3. CASE WriteLog(p) \/ Install(p) \/ ClearHead(p)
    BY <1>1, <2>3, WriteLogHidden, InstallHidden, ClearHeadHidden, Zenon
  <2> QED
    BY <1>11, <2>1, <2>2, <2>3, Zenon DEF Step
<1>12. ASSUME NEW p \in Procs, NEW b \in Blocks, NEW v \in Vals, LogWrite(p, b, v)
       PROVE  AT!Next
  BY <1>5, <1>12, Zenon DEF AT!Next
<1> QED
  BY <1>1, <1>2, <1>7, <1>8, <1>9, <1>10, <1>11, <1>12, Zenon DEF Next

\* The booted log is an initial state of the abstract transactions.
LEMMA InitRefines == Init => AT!Init
<1> SUFFICES ASSUME Init PROVE AT!Init
  BY Zenon
<1>1. Recovered = home
  BY RecEmpty, RecoveredIsRec, ConstAssumption, SMT, Z3 DEF Init
<1> QED
  BY <1>1, Zenon DEF Init, AT!Init

\* Crash atomicity: for any processes, blocks and log size, log.c implements
\* the atomic transactions of module AtomicTrans, whatever step a crash
\* interrupts and however often recovery itself is interrupted.
THEOREM CrashAtomicity == Spec => AtomicSpec
<1>1. Spec => AT!Init
  BY InitRefines, Zenon DEF Spec
<1>2. Spec => [][AT!Next]_(AT!vars)
  BY Invariance, NextRefines, PTL DEF Spec
<1> QED
  BY <1>1, <1>2, Zenon DEF AtomicSpec, AT!Spec
-----------------------------------------------------------------------------
\* The reservation of begin_op: the blocks an operation has logged, and its credits.
Logged(p) == Cardinality(wrote[p])
Credit == {c \in InOp \X (1..MAXOPBLOCKS) : c[2] > Logged(c[1])}

\* What an operation wrote is in the log, and is within its budget.
Charged(p) == /\ IsFiniteSet(wrote[p]) /\ Logged(p) <= MAXOPBLOCKS
              /\ \A b \in wrote[p] : InSeq(b, lh)

Budget == boot = "up" => /\ Len(lh) + Cardinality(Credit) <= LOGSIZE
                         /\ \A p \in InOp : Charged(p)

\* The credits are finitely many: at most MAXOPBLOCKS for each open operation.
LEMMA CreditFinite ==
  ASSUME IInv
  PROVE  /\ IsFiniteSet(Credit) /\ Cardinality(Credit) \in Nat
         /\ Cardinality(Credit) <= Cardinality(InOp) * MAXOPBLOCKS
<1>1. IsFiniteSet(InOp) /\ Cardinality(InOp) \in Nat
  BY OpenFinite, FS_CardinalityType, Zenon
<1>2. IsFiniteSet(1..MAXOPBLOCKS) /\ Cardinality(1..MAXOPBLOCKS) = MAXOPBLOCKS
  BY ConstAssumption, FS_Interval, SMT, Z3
<1> DEFINE All == InOp \X (1..MAXOPBLOCKS)
<1>3. IsFiniteSet(All) /\ Cardinality(All) = Cardinality(InOp) * MAXOPBLOCKS
  BY <1>1, <1>2, FS_Product, Zenon
<1>4. Credit \in SUBSET All
  BY Zenon DEF Credit
<1>5. IsFiniteSet(Credit) /\ Cardinality(Credit) <= Cardinality(All)
  BY <1>3, <1>4, FS_Subset, Zenon
<1> QED
  BY <1>3, <1>5, FS_CardinalityType, Zenon

\* A step that opens no operation and logs nothing keeps the budget.
LEMMA BudgetKept ==
  ASSUME IInv, Budget, boot = "up", InOp' \subseteq InOp, UNCHANGED <<wrote, lh>>
  PROVE  Budget'
<1>1. IsFiniteSet(Credit) /\ Cardinality(Credit) \in Nat /\ Len(lh) \in Nat
  BY CreditFinite, SMT, Z3 DEF IInv, TypeOK
<1>2. Credit' \in SUBSET Credit
  <2>1. \A p : Logged(p)' = Logged(p)
    BY Zenon DEF Logged
  <2> QED
    BY <2>1, Zenon DEF Credit
<1>3. Cardinality(Credit') <= Cardinality(Credit) /\ Cardinality(Credit') \in Nat
  BY <1>1, <1>2, FS_Subset, FS_CardinalityType, Zenon
<1>4. Len(lh') + Cardinality(Credit') <= LOGSIZE
  BY <1>1, <1>3, ConstAssumption, SMT, Z3 DEF Budget
<1>5. \A p \in InOp' : Charged(p)'
  BY Zenon DEF Budget, Charged, Logged
<1> QED
  BY <1>4, <1>5, Zenon DEF Budget

\* An empty log and no open operation are within the budget.
LEMMA BudgetEmpty ==
  ASSUME InOp' = {}, lh' = << >>
  PROVE  Budget'
<1>1. Credit' = {}
  BY Zenon DEF Credit
<1> QED
  BY <1>1, FS_EmptySet, ConstAssumption, SMT, Z3 DEF Budget

\* begin_op admits an operation only when the log has room for its credits too.
LEMMA BudgetBegin ==
  ASSUME IInv, IInv', Budget, NEW p \in Procs, BeginOpGo(p)
  PROVE  Budget'
<1>1. /\ boot = "up" /\ pc[p] = "begin" /\ pc' = [pc EXCEPT ![p] = "op"] /\ pc \in [Procs -> PCs]
      /\ Len(lh) + (outstanding + 1) * MAXOPBLOCKS <= LOGSIZE
      /\ outstanding' = outstanding + 1 /\ lh' = lh /\ boot' = "up"
      /\ wrote' = [wrote EXCEPT ![p] = {}] /\ wrote \in [Procs -> SUBSET Blocks]
  <2>1. Len(lh) \in Nat /\ outstanding \in Nat
    BY SMT, Z3 DEF IInv, TypeOK
  <2>2. ~(Len(lh) + (outstanding + 1) * MAXOPBLOCKS > LOGSIZE)
    BY Zenon DEF BeginOpGo, MustWait
  <2>3. (outstanding + 1) * MAXOPBLOCKS \in Nat
    BY <2>1, ConstAssumption, SMT, Z3
  <2>4. PICK m \in Nat : m = (outstanding + 1) * MAXOPBLOCKS
    BY <2>3, Zenon
  <2>5. ~(Len(lh) + m > LOGSIZE)
    BY <2>2, <2>4, Zenon
  <2>6. Len(lh) + m <= LOGSIZE /\ LOGSIZE \in Nat
    BY <2>1, <2>5, ConstAssumption, SMT, Z3
  <2> QED
    BY <2>4, <2>6, Zenon DEF BeginOpGo, Running, Goto, IInv, TypeOK
<1>2. outstanding' = Cardinality(InOp')
  BY <1>1, Zenon DEF IInv, Exclusion
<1>3. (Cardinality(Credit) <= Cardinality(InOp) * MAXOPBLOCKS /\ Cardinality(Credit) \in Nat)'
  BY CreditFinite, PTL
<1>4. Len(lh') + Cardinality(Credit') <= LOGSIZE
  <2>1. Len(lh) \in Nat /\ outstanding + 1 \in Nat
    BY SMT, Z3 DEF IInv, TypeOK
  <2> DEFINE r == (outstanding + 1) * MAXOPBLOCKS
  <2>2. r \in Nat /\ Cardinality(Credit') <= r
    BY <1>1, <1>2, <1>3, <2>1, ConstAssumption, SMTT(30), Z3T(30)
  <2> HIDE DEF r
  <2>3. Len(lh) + r <= LOGSIZE
    BY <1>1, Zenon DEF r
  <2> QED
    BY <1>1, <1>3, <2>1, <2>2, <2>3, ConstAssumption, SMTT(30), Z3T(30)
<1>5. ASSUME NEW q \in InOp' PROVE Charged(q)'
  <2>1. CASE q = p
    <3>1. wrote'[p] = {}
      BY <1>1, Zenon
    <3> QED
      BY <2>1, <3>1, FS_EmptySet, ConstAssumption, SMT, Z3 DEF Charged, Logged
  <2>2. CASE q # p
    <3>1. q \in InOp /\ wrote'[q] = wrote[q]
      BY <1>1, <1>5, <2>2, Zenon DEF InOp
    <3> QED
      BY <1>1, <3>1, Zenon DEF Budget, Charged, Logged
  <2> QED
    BY <2>1, <2>2, Zenon
<1> QED
  BY <1>4, <1>5, Zenon DEF Budget

\* A block new to its operation uses up one credit, and adds at most one entry to
\* the log; a block that the operation has written before adds none (absorption).
LEMMA BudgetWrite ==
  ASSUME IInv, IInv', Budget, OpBlocks <= MAXOPBLOCKS,
         NEW p \in Procs, NEW b \in Blocks, NEW v \in Vals, LogWrite(p, b, v)
  PROVE  Budget'
<1>1. /\ boot = "up" /\ pc[p] = "op" /\ pc' = pc /\ boot' = "up" /\ Record(b)
      /\ wrote' = [wrote EXCEPT ![p] = @ \cup {b}] /\ wrote \in [Procs -> SUBSET Blocks]
      /\ Cardinality(wrote[p] \cup {b}) <= OpBlocks
      /\ lh \in Seq(Blocks)
  BY Zenon DEF LogWrite, CanWrite, Running, IInv, TypeOK
<1>2. /\ InOp' = InOp /\ p \in InOp /\ InOp \subseteq Procs /\ wrote'[p] = wrote[p] \cup {b}
      /\ \A q \in InOp \ {p} : wrote'[q] = wrote[q]
  BY <1>1, Zenon DEF InOp
<1>3. /\ Len(lh) \in Nat /\ Len(lh') \in {Len(lh), Len(lh) + 1}
      /\ InSeq(b, lh) => lh' = lh
      /\ InSeq(b, lh') /\ \A d \in Blocks : InSeq(d, lh) => InSeq(d, lh')
  <2>1. CASE InSeq(b, lh)
    BY <1>1, <2>1, SMT, Z3 DEF Record
  <2>2. CASE ~InSeq(b, lh)
    <3>1. /\ lh' = Append(lh, b) /\ Len(lh') = Len(lh) + 1 /\ lh'[Len(lh) + 1] = b
          /\ \A i \in 1..Len(lh) : lh'[i] = lh[i]
      BY <1>1, <2>2, SMTT(30), Z3T(30) DEF Record
    <3> QED
      BY <1>1, <2>2, <3>1, SMT, Z3 DEF InSeq
  <2> QED
    BY <2>1, <2>2, Zenon
<1>4. IsFiniteSet(wrote[p]) /\ Logged(p) \in Nat /\ Logged(p) <= MAXOPBLOCKS
  BY <1>1, <1>2, FS_CardinalityType, Zenon DEF Budget, Charged, Logged
<1>5. /\ IsFiniteSet(wrote'[p]) /\ Logged(p)' \in Nat /\ Logged(p)' <= MAXOPBLOCKS
      /\ Logged(p)' = IF b \in wrote[p] THEN Logged(p) ELSE Logged(p) + 1
  <2>1. IsFiniteSet(wrote[p] \cup {b})
        /\ Cardinality(wrote[p] \cup {b})
             = IF b \in wrote[p] THEN Cardinality(wrote[p]) ELSE Cardinality(wrote[p]) + 1
    BY <1>4, FS_AddElement, Zenon
  <2> QED
    BY <1>1, <1>2, <1>4, <2>1, ConstAssumption, SMT, Z3 DEF Logged
<1>6. ASSUME NEW q \in InOp' PROVE Charged(q)'
  <2>1. CASE q = p
    BY <1>1, <1>2, <1>3, <1>5, <2>1, Zenon DEF Charged, Logged, Budget
  <2>2. CASE q # p
    BY <1>1, <1>2, <1>3, <1>6, <2>2, Zenon DEF Charged, Logged, Budget
  <2> QED
    BY <2>1, <2>2, Zenon
<1>7. /\ IsFiniteSet(Credit) /\ Cardinality(Credit) \in Nat
      /\ Len(lh) + Cardinality(Credit) <= LOGSIZE
  BY <1>1, CreditFinite, Zenon DEF Budget
<1>8. CASE b \in wrote[p]
  <2>1. lh' = lh /\ Credit' = Credit
    <3>1. lh' = lh
      BY <1>1, <1>2, <1>3, <1>8, Zenon DEF Budget, Charged
    <3>2. \A q \in InOp : Logged(q)' = Logged(q)
      BY <1>2, <1>5, <1>8, Zenon DEF Logged
    <3> QED
      BY <1>2, <3>1, <3>2, Zenon DEF Credit
  <2> QED
    BY <1>6, <1>7, <2>1, Zenon DEF Budget
<1>9. CASE b \notin wrote[p]
  <2> DEFINE k == <<p, Logged(p) + 1>>
  <2>1. k \in Credit
    BY <1>2, <1>4, <1>5, <1>9, ConstAssumption, SMTT(30), Z3T(30) DEF Credit
  <2>2. Credit' \in SUBSET (Credit \ {k})
    <3>1. \A q \in InOp : q # p => Logged(q)' = Logged(q)
      BY <1>2, Zenon DEF Logged
    <3>2. Logged(p)' = Logged(p) + 1
      BY <1>5, <1>9, Zenon
    <3> SUFFICES ASSUME NEW c \in Credit' PROVE c \in Credit /\ c # k
      BY Zenon
    <3>3. c \in InOp \X (1..MAXOPBLOCKS) /\ c[2] > Logged(c[1])'
      BY <1>2, Zenon DEF Credit
    <3>4. c[1] \in InOp /\ c[2] \in 1..MAXOPBLOCKS
      BY <3>3, ZenonT(30)
    <3>5. CASE c[1] = p
      BY <1>4, <3>2, <3>3, <3>4, <3>5, ConstAssumption, SMTT(30), Z3T(30) DEF Credit
    <3>6. CASE c[1] # p
      BY <3>1, <3>3, <3>4, <3>6, SMT, Z3 DEF Credit
    <3> QED
      BY <3>5, <3>6, Zenon
  <2>3. IsFiniteSet(Credit \ {k}) /\ Cardinality(Credit \ {k}) = Cardinality(Credit) - 1
    BY <1>7, <2>1, FS_RemoveElement, ZenonT(30)
  <2>4. Cardinality(Credit') <= Cardinality(Credit) - 1 /\ Cardinality(Credit') \in Nat
    BY <2>2, <2>3, FS_Subset, FS_CardinalityType, SMTT(30), Z3T(30)
  <2>5. Len(lh') + Cardinality(Credit') <= LOGSIZE
    BY <1>3, <1>7, <2>4, ConstAssumption, SMTT(30), Z3T(30)
  <2> QED
    BY <1>6, <2>5, ZenonT(30) DEF Budget
<1> QED
  BY <1>8, <1>9, Zenon

\* Every step of log.c keeps the budget.
LEMMA BudgetStep ==
  ASSUME OpBlocks <= MAXOPBLOCKS, IInv, IInv', Budget, [Next]_vars
  PROVE  Budget'
<1> USE DEF InOp
<1>1. boot # "up" => InOp = {}
  BY Zenon DEF IInv, BootIdle
<1>2. CASE UNCHANGED vars
  <2>1. UNCHANGED <<boot, pc, wrote, lh>>
    BY <1>2, Zenon DEF vars, mem
  <2>2. CASE boot = "up"
    BY <2>1, <2>2, BudgetKept, Zenon
  <2>3. CASE boot # "up"
    BY <2>1, <2>3, Zenon DEF Budget
  <2> QED
    BY <2>2, <2>3, Zenon
<1>3. ASSUME NEW p \in Procs, CallBeginOp(p) \/ BeginOpSleep(p) \/ WriteLog(p) \/ WriteHead(p)
                              \/ Install(p) \/ CommitDone(p)
      PROVE  Budget'
  <2>1. boot = "up" /\ UNCHANGED <<lh, wrote, boot>> /\ pc \in [Procs -> PCs]
    BY Zenon, <1>3 DEF CallBeginOp, BeginOpSleep, WriteLog, WriteHead, Install, CommitDone, Running,
                IInv, TypeOK
  <2>2. InOp' \subseteq InOp
    BY Zenon, <1>3, <2>1 DEF CallBeginOp, BeginOpSleep, WriteLog, WriteHead, Install, CommitDone, Goto,
                      Advance, WakeupLog
  <2> QED
    BY <2>1, <2>2, BudgetKept, Zenon
<1>4. ASSUME NEW p \in Procs, BeginOpGo(p) PROVE Budget'
  BY <1>4, BudgetBegin, Zenon
<1>5. ASSUME NEW p \in Procs, EndOp(p) PROVE Budget'
  <2>1. boot = "up" /\ UNCHANGED <<lh, wrote, boot>> /\ pc \in [Procs -> PCs]
    BY <1>5, Zenon DEF EndOp, Running, IInv, TypeOK
  <2>2. InOp' \subseteq InOp
    BY <1>5, <2>1, Zenon DEF EndOp, Goto, WakeupLog
  <2> QED
    BY <2>1, <2>2, BudgetKept, Zenon
<1>6. ASSUME NEW p \in Procs, ClearHead(p) PROVE Budget'
  <2>1. /\ boot = "up" /\ pc \in [Procs -> PCs] /\ pc[p] = "clear" /\ lh' = << >>
        /\ pc' = [pc EXCEPT ![p] = "done"] /\ UNCHANGED <<wrote, boot>>
    BY <1>6, Zenon DEF ClearHead, Running, Goto, IInv, TypeOK
  <2>2. InOp = {}
    BY <2>1, CommitterAlone, Zenon DEF Committer
  <2>3. InOp' = {}
    BY <2>1, <2>2, Zenon
  <2> QED
    BY <2>1, <2>3, BudgetEmpty, Zenon
<1>7. ASSUME NEW p \in Procs, NEW b \in Blocks, LogWritePanic(p, b) PROVE Budget'
  BY <1>1, <1>7, BudgetKept, Zenon DEF LogWritePanic, CanWrite, Running, mem
<1>8. ASSUME NEW p \in Procs, NEW b \in Blocks, NEW v \in Vals, LogWrite(p, b, v) PROVE Budget'
  BY <1>8, BudgetWrite, Zenon
<1>9. ASSUME NEW b \in Blocks, Evict(b) PROVE Budget'
  BY <1>9, BudgetKept, Zenon DEF Evict
<1>10. CASE Recover
  <2>1. InOp' = {} /\ (boot' = "up" => lh' = << >>)
    BY <1>1, <1>10, Zenon DEF Recover, ReadHead, RecoverInstall, RecoverClear
  <2>2. CASE boot' = "up"
    BY <2>1, <2>2, BudgetEmpty, Zenon
  <2>3. CASE boot' # "up"
    BY <2>3, Zenon DEF Budget
  <2> QED
    BY <2>2, <2>3, Zenon
<1>11. CASE Crash
  BY <1>11, Zenon DEF Crash, Budget
<1> QED
  BY <1>2, <1>3, <1>4, <1>5, <1>6, <1>7, <1>8, <1>9, <1>10, <1>11, ZenonT(30) DEF Next, Step

\* log_write panics only when at most one credit is left, and an operation that has
\* logged fewer than MAXOPBLOCKS - 1 blocks has two.
LEMMA PanicStep ==
  ASSUME LogLen >= LOGSIZE, IInv, Budget, BudgetHolds, [Next]_vars, IInv'
  PROVE  BudgetHolds'
<1> SUFFICES ASSUME panicked' = TRUE PROVE BudgetHolds'
  <2>1. panicked' \in BOOLEAN
    BY Zenon DEF IInv, TypeOK
  <2> QED
    BY <2>1, Zenon DEF BudgetHolds
<1>1. CASE panicked
  <2>1. boot = "up" \/ ~panicked
    BY Zenon DEF IInv, BootIdle
  <2>2. UNCHANGED <<pc, wrote>>
    BY ZenonT(30), <1>1, <2>1
       DEF Next, Step, CallBeginOp, BeginOpSleep, BeginOpGo, EndOp, WriteLog, WriteHead,
       Install, ClearHead, CommitDone, LogWrite, LogWritePanic, CanWrite, Evict, Recover, ReadHead,
       RecoverInstall, RecoverClear, Crash, Running, vars, mem
  <2> QED
    BY <1>1, <2>2, Zenon DEF BudgetHolds
<1>2. CASE ~panicked
  <2>1. ASSUME NEW p \in Procs, EndOp(p) PROVE FALSE
    <3>1. ~committing
      BY <2>1, OpenNoCommit, Zenon DEF EndOp, Running
    <3> QED
      BY <1>2, <2>1, <3>1, Zenon DEF EndOp
  <2>2. \E p \in Procs, b \in Blocks : LogWritePanic(p, b)
    <3>1. ~(UNCHANGED vars) /\ ~Crash /\ ~Recover /\ \A b \in Blocks : ~Evict(b)
      BY <1>2, Zenon DEF vars, Crash, Recover, ReadHead, RecoverInstall, RecoverClear, Evict
    <3>2. \A p \in Procs : ~CallBeginOp(p) /\ ~Step(p)
      BY <1>2, <2>1, Zenon DEF CallBeginOp, Step, BeginOpSleep, BeginOpGo, WriteLog, WriteHead,
                               Install, ClearHead, CommitDone
    <3>3. \A p \in Procs, b \in Blocks, v \in Vals : ~LogWrite(p, b, v)
      BY <1>2, Zenon DEF LogWrite
    <3> QED
      BY <3>1, <3>2, <3>3, Zenon DEF Next
  <2>3. boot = "up" /\ UNCHANGED <<pc, wrote>> /\ LogFull
    BY <2>2, Zenon DEF LogWritePanic, CanWrite, Running, mem
  <2>4. /\ Len(lh) \in Nat /\ Len(lh) >= LOGSIZE - 1 /\ IsFiniteSet(Credit)
        /\ Cardinality(Credit) \in Nat /\ Cardinality(Credit) <= 1
    <3>1. Len(lh) \in Nat /\ Len(lh) >= LOGSIZE - 1
      BY <2>3, ConstAssumption, SMTT(30), Z3T(30) DEF LogFull, IInv, TypeOK
    <3> QED
      BY <2>3, <3>1, CreditFinite, ConstAssumption, SMTT(30), Z3T(30) DEF Budget
  <2>5. ASSUME NEW p \in Procs, pc[p] = "op", ~(Logged(p) >= MAXOPBLOCKS - 1) PROVE FALSE
    <3>1. p \in InOp /\ Logged(p) \in Nat
      BY <2>3, <2>5, FS_CardinalityType, ZenonT(30) DEF InOp, Budget, Charged, Logged
    <3> DEFINE k1 == <<p, MAXOPBLOCKS>>
               k2 == <<p, MAXOPBLOCKS - 1>>
    <3>2. k1 \in Credit /\ k2 \in Credit /\ k1 # k2
      BY <2>5, <3>1, ConstAssumption, SMT, Z3 DEF Credit
    <3> HIDE DEF k1, k2
    <3>3. IsFiniteSet(Credit \ {k1}) /\ Cardinality(Credit \ {k1}) = Cardinality(Credit) - 1
      BY <2>4, <3>2, FS_RemoveElement, Zenon
    <3>4. k2 \in Credit \ {k1}
      BY <3>2, Zenon
    <3>5. Cardinality(Credit \ {k1}) # 0
      BY <3>3, <3>4, FS_EmptySet, Zenon
    <3>6. Cardinality(Credit \ {k1}) \in Nat
      BY <3>3, FS_CardinalityType, Zenon
    <3> QED
      BY <2>4, <3>3, <3>5, <3>6, SMTT(30), Z3T(30)
  <2> QED
    BY <2>3, <2>5, Zenon DEF BudgetHolds, Logged
<1> QED
  BY <1>1, <1>2, Zenon

\* begin_op's reservation is enough, for every number of processes and every log
\* size: with calls that keep to MAXOPBLOCKS distinct blocks and the log area that
\* mkfs makes (LOGSIZE blocks with its header), log_write panics only when every
\* open call has logged at least MAXOPBLOCKS - 1 blocks.
THEOREM ReservationEnough ==
  ASSUME OpBlocks <= MAXOPBLOCKS, LogLen >= LOGSIZE
  PROVE  Spec => []BudgetHolds
<1>1. Init => Budget /\ BudgetHolds
  BY Zenon DEF Init, Budget, BudgetHolds
<1>2. IInv /\ IInv' /\ Budget /\ [Next]_vars => Budget'
  BY BudgetStep, Zenon
<1>3. IInv /\ IInv' /\ Budget /\ BudgetHolds /\ [Next]_vars => BudgetHolds'
  BY PanicStep, Zenon
<1> QED
  BY <1>1, <1>2, <1>3, Invariance, PTL DEF Spec
=============================================================================
