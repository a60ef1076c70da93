----------------------------- MODULE ProcProofs -----------------------------
(***************************************************************************)
(* Proofs about module Proc for every number of processes and pids.        *)
(***************************************************************************)
EXTENDS Proc, TLAPS

\* Labels at which a process holds wait_lock, and at which fork has a child.
Holding == {"exit_reparent", "exit_wakeup", "exit_zombie", "wait_scan", "wait_sleep"}
Forking == {"fork_copied", "fork_parent", "fork_publish"}

\* A slot's state says where its process can be.
Stages == \A s \in Slots :
  /\ state[s] \in {"UNUSED", "USED"} => pc[s] = "none"
  /\ state[s] = "UNUSED" => parent[s] = None
  /\ state[s] = "ZOMBIE" => pc[s] \in {"none", "exit_swtch"}
  /\ state[s] \in {"RUNNABLE", "RUNNING"} => pc[s] \notin {"none", "exit_swtch"}
  /\ state[s] = "SLEEPING" => pc[s] = "wait"
  /\ pid[s] < nextpid

\* wait_lock excludes.
LockHeld == \A p \in Slots : wait_lock = p <=> pc[p] \in Holding

\* The child of a fork in progress is USED and belongs to that fork alone.
Forks == \A p \in Slots :
  /\ np[p] # None <=> pc[p] \in Forking
  /\ np[p] # None => /\ state[np[p]] = "USED"
                     /\ parent[np[p]] = IF pc[p] = "fork_publish" THEN p ELSE None
  /\ \A q \in Slots : np[p] # None /\ np[p] = np[q] => p = q

\* init never exits, so it can always take orphans.
InitLives ==
  /\ state[Initproc] \notin {"UNUSED", "USED", "ZOMBIE"}
  /\ parent[Initproc] = None
  /\ pc[Initproc] \notin {"exit_lock", "exit_reparent", "exit_wakeup", "exit_zombie"}

\* What exit and wait know while they hold wait_lock.
Decided == \A p \in Slots :
  /\ pc[p] = "wait_sleep" => \A q \in Slots : parent[q] = p => state[q] # "ZOMBIE"
  /\ pc[p] \in {"exit_wakeup", "exit_zombie"} => \A q \in Slots : parent[q] # p
  /\ pc[p] = "exit_zombie" /\ parent[p] \in Slots => state[parent[p]] # "SLEEPING"

IInv == /\ TypeOK /\ PidsUnique /\ ParentLives /\ NoMissedExit
        /\ Stages /\ LockHeld /\ Forks /\ InitLives /\ Decided
-----------------------------------------------------------------------------
\* userinit: one process, no locks held.
LEMMA InitIInv == Init => IInv
<1> SUFFICES ASSUME Init PROVE IInv
  BY SMT, Z3
<1>1. TypeOK
  BY ProcAssumption, SMT, Z3 DEF Init, TypeOK, States, Labels
<1>2. PidsUnique /\ ParentLives /\ NoMissedExit
  BY ProcAssumption, SMT, Z3
     DEF Init, PidsUnique, ParentLives, NoMissedExit, ZombieChildren, Children, Live
<1>3. Stages /\ LockHeld /\ Forks /\ InitLives /\ Decided
  BY ProcAssumption, SMT, Z3
     DEF Init, Stages, LockHeld, Holding, Forks, Forking, InitLives, Decided
<1> QED
  BY <1>1, <1>2, <1>3, SMT, Z3 DEF IInv
-----------------------------------------------------------------------------
\* acquire(&wait_lock) only spins here.
LEMMA AcquireStep == ASSUME IInv, NEW p \in Slots, Acquire(p) PROVE IInv'
<1>1. TypeOK'
  BY SMT, Z3 DEF IInv, TypeOK, Labels, Acquire, Goto, Spins
<1>2. (PidsUnique /\ Stages)'
  BY SMT, Z3 DEF IInv, TypeOK, PidsUnique, Stages, Acquire, At, Goto, Spins
<1>3. (LockHeld /\ Forks /\ InitLives)'
  BY SMT, Z3 DEF IInv, TypeOK, LockHeld, Holding, Forks, Forking, InitLives, Acquire, Goto,
         Spins
<1>4. Decided'
  BY SMT, Z3 DEF IInv, TypeOK, Decided, Acquire, Goto, Spins
<1>5. ParentLives'
  BY SMT, Z3 DEF IInv, TypeOK, ParentLives, Live, Acquire, Goto, Spins
<1>6. NoMissedExit'
  BY SMT, Z3 DEF IInv, TypeOK, NoMissedExit, ZombieChildren, Children, Acquire
<1> QED
  BY <1>1, <1>2, <1>3, <1>4, <1>5, <1>6, SMT, Z3 DEF IInv

\* allocproc gives a free slot a new pid.
LEMMA ForkAllocStep ==
  ASSUME IInv, NEW p \in Slots, NEW s \in Slots, ForkAlloc(p, s)
  PROVE  IInv'
<1>1. TypeOK'
  BY ProcAssumption, SMT, Z3 DEF IInv, TypeOK, States, Labels, ForkAlloc, MayFork, Goto
<1>2. (PidsUnique /\ Stages)'
  BY SMT, Z3 DEF IInv, TypeOK, PidsUnique, Stages, ForkAlloc, MayFork, Calls, At, Goto
<1>3. (LockHeld /\ Forks /\ InitLives)'
  BY ProcAssumption, SMT, Z3 DEF IInv, TypeOK, LockHeld, Holding, Forks, Forking, InitLives,
                        Stages, ForkAlloc, MayFork, Calls, At, Goto
<1>4. Decided'
  BY SMT, Z3 DEF IInv, TypeOK, Decided, ForkAlloc, Goto
<1>5. ParentLives'
  BY SMT, Z3 DEF IInv, TypeOK, ParentLives, Live, Stages, ForkAlloc, MayFork, Calls, At, Goto
<1>6. NoMissedExit'
  BY SMT, Z3 DEF IInv, TypeOK, NoMissedExit, ZombieChildren, Children, ForkAlloc
<1> QED
  BY <1>1, <1>2, <1>3, <1>4, <1>5, <1>6, SMT, Z3 DEF IInv

\* A failed fork uses up a pid.
LEMMA ForkFailStep ==
  ASSUME IInv, NEW p \in Slots, NEW s \in Slots, ForkFail(p, s)
  PROVE  IInv'
<1>1. TypeOK'
  BY ProcAssumption, SMT, Z3 DEF IInv, TypeOK, Labels, ForkFail, MayFork, Failed, Goto
<1>2. (PidsUnique /\ Stages)'
  BY SMT, Z3 DEF IInv, TypeOK, PidsUnique, Stages, ForkFail, MayFork, Calls, At, Failed, Goto
<1>3. (LockHeld /\ Forks /\ InitLives)'
  BY SMT, Z3 DEF IInv, TypeOK, LockHeld, Holding, Forks, Forking, InitLives, ForkFail, MayFork,
         Calls, At, Failed, Goto
<1>4. Decided'
  BY SMT, Z3 DEF IInv, TypeOK, Decided, ForkFail, Failed, Goto
<1>5. ParentLives'
  BY SMT, Z3 DEF IInv, TypeOK, ParentLives, Live, ForkFail, MayFork, Calls, At, Failed, Goto
<1>6. NoMissedExit'
  BY SMT, Z3 DEF IInv, TypeOK, NoMissedExit, ZombieChildren, Children, ForkFail
<1> QED
  BY <1>1, <1>2, <1>3, <1>4, <1>5, <1>6, SMT, Z3 DEF IInv

\* A fork without a slot changes nothing.
LEMMA ForkNoSlotStep == ASSUME IInv, NEW p \in Slots, ForkNoSlot(p) PROVE IInv'
<1>1. TypeOK'
  BY SMT, Z3 DEF IInv, TypeOK, Labels, ForkNoSlot, Failed, Goto
<1>2. (PidsUnique /\ Stages)'
  BY SMT, Z3 DEF IInv, TypeOK, PidsUnique, Stages, ForkNoSlot, MayFork, Calls, At, Failed, Goto
<1>3. (LockHeld /\ Forks /\ InitLives)'
  BY SMT, Z3 DEF IInv, TypeOK, LockHeld, Holding, Forks, Forking, InitLives, ForkNoSlot,
         MayFork, Calls, At, Failed, Goto
<1>4. Decided'
  BY SMT, Z3 DEF IInv, TypeOK, Decided, ForkNoSlot, Failed, Goto
<1>5. ParentLives'
  BY SMT, Z3 DEF IInv, TypeOK, ParentLives, Live, ForkNoSlot, MayFork, Calls, At, Failed, Goto
<1>6. NoMissedExit'
  BY SMT, Z3 DEF IInv, TypeOK, NoMissedExit, ZombieChildren, Children, ForkNoSlot
<1> QED
  BY <1>1, <1>2, <1>3, <1>4, <1>5, <1>6, SMT, Z3 DEF IInv

\* The child gets its parent.
LEMMA ForkParentStep == ASSUME IInv, NEW p \in Slots, ForkParent(p) PROVE IInv'
<1>1. TypeOK'
  BY ProcAssumption, Zenon DEF IInv, TypeOK, States, Labels, Forks, ForkParent, At, Goto
<1>2. (PidsUnique /\ Stages)'
  BY ProcAssumption, SMT, Z3 DEF IInv, TypeOK, PidsUnique, Stages, Forks, ForkParent, At, Goto
<1>3. (LockHeld /\ Forks /\ InitLives)'
  BY SMT, Z3 DEF IInv, TypeOK, LockHeld, Holding, Forks, Forking, InitLives, ForkParent, At,
         Goto
<1>4. Decided'
  BY SMT, Z3 DEF IInv, TypeOK, Decided, ForkParent, At, Goto
<1>5. ParentLives'
  BY SMT, Z3 DEF IInv, TypeOK, ParentLives, Live, LockHeld, Holding, ForkParent, At, Goto
<1>6. NoMissedExit'
  BY SMT, Z3 DEF IInv, TypeOK, NoMissedExit, ZombieChildren, Children, ForkParent, At
<1> QED
  BY <1>1, <1>2, <1>3, <1>4, <1>5, <1>6, SMT, Z3 DEF IInv

\* The child becomes RUNNABLE.
LEMMA ForkPublishStep == ASSUME IInv, NEW p \in Slots, ForkPublish(p) PROVE IInv'
<1>1. TypeOK'
  <2>1. np[p] \in Slots
    BY SMT, Z3 DEF IInv, TypeOK, Forks, Forking, ForkPublish, At
  <2>2. /\ state' = [state EXCEPT ![np[p]] = "RUNNABLE"]
        /\ pc' = [pc EXCEPT ![np[p]] = "user", ![p] = "user"]
        /\ sh' = pid[np[p]] \/ sh' = sh
        /\ np' = [np EXCEPT ![p] = None]
        /\ UNCHANGED <<pid, parent, killed, wait_lock, nextpid>>
    BY SMT, Z3 DEF ForkPublish
  <2> QED
    BY <2>1, <2>2, SMT, Z3 DEF IInv, TypeOK, States, Labels
<1>2. (PidsUnique /\ Stages)'
  BY ProcAssumption, SMTT(30), Z3T(30)
     DEF IInv, TypeOK, PidsUnique, Stages, Forks, ForkPublish, At
<1>3. (LockHeld /\ Forks /\ InitLives)'
  BY ProcAssumption, SMT, Z3 DEF IInv, TypeOK, LockHeld, Holding, Forks, Forking, InitLives,
                        Stages, ForkPublish, At
<1>4. Decided'
  BY SMT, Z3 DEF IInv, TypeOK, Decided, ForkPublish
<1>5. ParentLives'
  BY SMT, Z3 DEF IInv, TypeOK, ParentLives, Live, Forks, Forking, Stages, ForkPublish, At
<1>6. NoMissedExit'
  BY SMT, Z3 DEF IInv, TypeOK, NoMissedExit, ZombieChildren, Children, ForkPublish
<1> QED
  BY <1>1, <1>2, <1>3, <1>4, <1>5, <1>6, SMT, Z3 DEF IInv

\* exit starts.
LEMMA ExitCallStep == ASSUME IInv, NEW p \in Slots, ExitCall(p) PROVE IInv'
<1>1. TypeOK'
  BY SMT, Z3 DEF IInv, TypeOK, Labels, ExitCall, Goto
<1>2. (PidsUnique /\ Stages)'
  BY SMT, Z3 DEF IInv, TypeOK, PidsUnique, Stages, ExitCall, At, Goto
<1>3. (LockHeld /\ Forks /\ InitLives)'
  BY SMT, Z3 DEF IInv, TypeOK, LockHeld, Holding, Forks, Forking, InitLives, ExitCall, At, Goto
<1>4. Decided'
  BY SMT, Z3 DEF IInv, TypeOK, Decided, ExitCall, Goto
<1>5. ParentLives'
  BY SMT, Z3 DEF IInv, TypeOK, ParentLives, Live, ExitCall, At, Goto
<1>6. NoMissedExit'
  BY SMT, Z3 DEF IInv, TypeOK, NoMissedExit, ZombieChildren, Children, ExitCall
<1> QED
  BY <1>1, <1>2, <1>3, <1>4, <1>5, <1>6, SMT, Z3 DEF IInv

\* init panics in exit and never dies.
LEMMA ExitInitStep == ASSUME IInv, ExitInit PROVE IInv'
<1>1. TypeOK'
  BY ProcAssumption, SMT, Z3 DEF IInv, TypeOK, Labels, ExitInit, Goto
<1>2. (PidsUnique /\ Stages)'
  BY SMT, Z3 DEF IInv, TypeOK, PidsUnique, Stages, ExitInit, At, Goto
<1>3. (LockHeld /\ Forks /\ InitLives)'
  BY SMT, Z3 DEF IInv, TypeOK, LockHeld, Holding, Forks, Forking, InitLives, ExitInit, At, Goto
<1>4. Decided'
  BY SMT, Z3 DEF IInv, TypeOK, Decided, ExitInit, Goto
<1>5. ParentLives'
  BY SMT, Z3 DEF IInv, TypeOK, ParentLives, Live, ExitInit, At, Goto
<1>6. NoMissedExit'
  BY SMT, Z3 DEF IInv, TypeOK, NoMissedExit, ZombieChildren, Children, ExitInit
<1> QED
  BY <1>1, <1>2, <1>3, <1>4, <1>5, <1>6, SMT, Z3 DEF IInv

\* exit takes wait_lock.
LEMMA ExitLockStep == ASSUME IInv, NEW p \in Slots, ExitLock(p) PROVE IInv'
<1>1. TypeOK'
  BY SMT, Z3 DEF IInv, TypeOK, Labels, ExitLock, Goto
<1>2. (PidsUnique /\ Stages)'
  BY SMT, Z3 DEF IInv, TypeOK, PidsUnique, Stages, ExitLock, At, Goto
<1>3. (LockHeld /\ Forks /\ InitLives)'
  BY ProcAssumption, SMT, Z3 DEF IInv, TypeOK, LockHeld, Holding, Forks, Forking, InitLives,
                        ExitLock, At, Goto
<1>4. Decided'
  BY SMT, Z3 DEF IInv, TypeOK, Decided, ExitLock, Goto
<1>5. ParentLives'
  BY SMT, Z3 DEF IInv, TypeOK, ParentLives, Live, ExitLock, At, Goto
<1>6. NoMissedExit'
  BY SMT, Z3 DEF IInv, TypeOK, NoMissedExit, ZombieChildren, Children, ExitLock
<1> QED
  BY <1>1, <1>2, <1>3, <1>4, <1>5, <1>6, SMT, Z3 DEF IInv

\* All children go to init, which is woken.
LEMMA ExitReparentStep == ASSUME IInv, NEW p \in Slots, ExitReparent(p) PROVE IInv'
<1>1. TypeOK'
  BY ProcAssumption, SMT, Z3 DEF IInv, TypeOK, States, Labels, ExitReparent, Goto, Woken
<1>2. (PidsUnique /\ Stages)'
  BY ProcAssumption, SMT, Z3 DEF IInv, TypeOK, PidsUnique, Stages, ExitReparent, At, Goto, Woken
<1>3. (LockHeld /\ Forks /\ InitLives)'
  BY ProcAssumption, SMT, Z3 DEF IInv, TypeOK, LockHeld, Holding, Forks, Forking, InitLives,
                        ExitReparent, At, Goto, Woken
<1>4. Decided'
  BY SMTT(30), Z3T(30)
     DEF IInv, TypeOK, Decided, LockHeld, Holding, InitLives, ExitReparent, At, Goto
<1>5. ParentLives'
  BY ProcAssumption, SMT, Z3 DEF IInv, TypeOK, ParentLives, Live, InitLives, ExitReparent, At,
                        Goto, Woken
<1>6. NoMissedExit'
  BY ProcAssumption, SMT, Z3 DEF IInv, TypeOK, NoMissedExit, ZombieChildren, Children,
                        ExitReparent, Woken
<1> QED
  BY <1>1, <1>2, <1>3, <1>4, <1>5, <1>6, SMT, Z3 DEF IInv

\* The parent is woken, and cannot sleep again before exit releases wait_lock.
LEMMA ExitWakeupStep == ASSUME IInv, NEW p \in Slots, ExitWakeup(p) PROVE IInv'
<1>1. TypeOK'
  BY SMT, Z3 DEF IInv, TypeOK, States, Labels, ExitWakeup, Goto, Woken
<1>2. (PidsUnique /\ Stages)'
  BY SMT, Z3 DEF IInv, TypeOK, PidsUnique, Stages, ExitWakeup, At, Goto, Woken
<1>3. (LockHeld /\ Forks /\ InitLives)'
  BY SMT, Z3 DEF IInv, TypeOK, LockHeld, Holding, Forks, Forking, InitLives, ExitWakeup, At,
         Goto, Woken
<1>4. Decided'
  BY ProcAssumption, SMT, Z3 DEF IInv, TypeOK, Decided, ExitWakeup, At, Goto, Woken
<1>5. ParentLives'
  BY SMT, Z3 DEF IInv, TypeOK, ParentLives, Live, ExitWakeup, At, Goto, Woken
<1>6. NoMissedExit'
  BY SMTT(30), Z3T(30) DEF IInv, TypeOK, NoMissedExit, ZombieChildren, Children, ExitWakeup, Woken
<1> QED
  BY <1>1, <1>2, <1>3, <1>4, <1>5, <1>6, SMT, Z3 DEF IInv

\* A process without children dies; its parent is awake.
LEMMA ExitZombieStep == ASSUME IInv, NEW p \in Slots, ExitZombie(p) PROVE IInv'
<1>1. TypeOK'
  BY SMT, Z3 DEF IInv, TypeOK, States, Labels, ExitZombie, Goto
<1>2. (PidsUnique /\ Stages)'
  BY SMT, Z3 DEF IInv, TypeOK, PidsUnique, Stages, ExitZombie, At, Goto
<1>3. (LockHeld /\ Forks /\ InitLives)'
  BY ProcAssumption, SMT, Z3 DEF IInv, TypeOK, LockHeld, Holding, Forks, Forking, InitLives,
                        ExitZombie, At, Goto
<1>4. Decided'
  BY SMT, Z3 DEF IInv, TypeOK, Decided, LockHeld, Holding, ExitZombie, At, Goto
<1>5. ParentLives'
  BY SMT, Z3 DEF IInv, TypeOK, ParentLives, Live, Decided, ExitZombie, At, Goto
<1>6. NoMissedExit'
  BY SMT, Z3 DEF IInv, TypeOK, NoMissedExit, ZombieChildren, Children, Decided, ExitZombie, At
<1> QED
  BY <1>1, <1>2, <1>3, <1>4, <1>5, <1>6, SMT, Z3 DEF IInv

\* The dead process leaves its stack.
LEMMA ExitSwtchStep == ASSUME IInv, NEW p \in Slots, ExitSwtch(p) PROVE IInv'
<1>1. TypeOK'
  BY SMTT(30), Z3T(30) DEF IInv, TypeOK, Labels, ExitSwtch, Goto
<1>2. (PidsUnique /\ Stages)'
  BY SMT, Z3 DEF IInv, TypeOK, PidsUnique, Stages, ExitSwtch, Goto
<1>3. (LockHeld /\ Forks /\ InitLives)'
  BY SMT, Z3 DEF IInv, TypeOK, LockHeld, Holding, Forks, Forking, InitLives, ExitSwtch, Goto
<1>4. Decided'
  BY SMT, Z3 DEF IInv, TypeOK, Decided, ExitSwtch, Goto
<1>5. ParentLives'
  BY SMT, Z3 DEF IInv, TypeOK, ParentLives, Live, ExitSwtch, Goto
<1>6. NoMissedExit'
  BY SMT, Z3 DEF IInv, TypeOK, NoMissedExit, ZombieChildren, Children, ExitSwtch
<1> QED
  BY <1>1, <1>2, <1>3, <1>4, <1>5, <1>6, SMT, Z3 DEF IInv

\* wait starts.
LEMMA WaitCallStep == ASSUME IInv, NEW p \in Slots, WaitCall(p) PROVE IInv'
<1>1. TypeOK'
  BY SMT, Z3 DEF IInv, TypeOK, Labels, WaitCall, Goto
<1>2. (PidsUnique /\ Stages)'
  BY SMT, Z3 DEF IInv, TypeOK, PidsUnique, Stages, WaitCall, Calls, At, Goto
<1>3. (LockHeld /\ Forks /\ InitLives)'
  BY SMT, Z3 DEF IInv, TypeOK, LockHeld, Holding, Forks, Forking, InitLives, WaitCall, Calls,
         At, Goto
<1>4. Decided'
  BY SMT, Z3 DEF IInv, TypeOK, Decided, WaitCall, Goto
<1>5. ParentLives'
  BY SMT, Z3 DEF IInv, TypeOK, ParentLives, Live, WaitCall, Calls, At, Goto
<1>6. NoMissedExit'
  BY SMTT(30), Z3T(30) DEF IInv, TypeOK, NoMissedExit, ZombieChildren, Children, WaitCall
<1> QED
  BY <1>1, <1>2, <1>3, <1>4, <1>5, <1>6, SMT, Z3 DEF IInv

\* wait takes wait_lock.
LEMMA WaitLockStep == ASSUME IInv, NEW p \in Slots, WaitLock(p) PROVE IInv'
<1>1. TypeOK'
  BY SMT, Z3 DEF IInv, TypeOK, Labels, WaitLock, Goto
<1>2. (PidsUnique /\ Stages)'
  BY SMT, Z3 DEF IInv, TypeOK, PidsUnique, Stages, WaitLock, At, Goto
<1>3. (LockHeld /\ Forks /\ InitLives)'
  BY ProcAssumption, SMT, Z3 DEF IInv, TypeOK, LockHeld, Holding, Forks, Forking, InitLives,
                        WaitLock, At, Goto
<1>4. Decided'
  BY SMT, Z3 DEF IInv, TypeOK, Decided, WaitLock, Goto
<1>5. ParentLives'
  BY SMT, Z3 DEF IInv, TypeOK, ParentLives, Live, WaitLock, At, Goto
<1>6. NoMissedExit'
  BY SMTT(30), Z3T(30) DEF IInv, TypeOK, NoMissedExit, ZombieChildren, Children, WaitLock
<1> QED
  BY <1>1, <1>2, <1>3, <1>4, <1>5, <1>6, SMT, Z3 DEF IInv

\* A zombie without children is freed.
LEMMA WaitReapStep ==
  ASSUME IInv, NEW p \in Slots, NEW q \in Slots, WaitReap(p, q)
  PROVE  IInv'
<1>1. TypeOK'
  BY ProcAssumption, SMTT(30), Z3T(30) DEF IInv, TypeOK, States, Labels, WaitReap, Goto
<1>2. (PidsUnique /\ Stages)'
  BY SMT, Z3 DEF IInv, TypeOK, PidsUnique, Stages, WaitReap, ZombieChildren, Unlocked, At, Goto
<1>3. (LockHeld /\ Forks /\ InitLives)'
  BY ProcAssumption, SMT, Z3 DEF IInv, TypeOK, LockHeld, Holding, Forks, Forking, InitLives,
                        WaitReap, ZombieChildren, At, Goto
<1>4. Decided'
  BY SMT, Z3 DEF IInv, TypeOK, Decided, LockHeld, Holding, WaitReap, At, Goto
<1>5. ParentLives'
  BY SMT, Z3 DEF IInv, TypeOK, ParentLives, Live, WaitReap, ZombieChildren, At, Goto
<1>6. NoMissedExit'
  BY SMT, Z3 DEF IInv, TypeOK, NoMissedExit, ZombieChildren, Children, WaitReap
<1> QED
  BY <1>1, <1>2, <1>3, <1>4, <1>5, <1>6, SMT, Z3 DEF IInv

\* wait fails in copyout.
LEMMA WaitCopyFailStep ==
  ASSUME IInv, NEW p \in Slots, NEW q \in Slots, WaitCopyFail(p, q)
  PROVE  IInv'
<1>1. TypeOK'
  BY SMT, Z3 DEF IInv, TypeOK, Labels, WaitCopyFail, Goto
<1>2. (PidsUnique /\ Stages)'
  BY SMTT(30), Z3T(30) DEF IInv, TypeOK, PidsUnique, Stages, WaitCopyFail, At, Goto
<1>3. (LockHeld /\ Forks /\ InitLives)'
  BY ProcAssumption, SMTT(30), Z3T(30)
     DEF IInv, TypeOK, LockHeld, Holding, Forks, Forking, InitLives,
                        WaitCopyFail, At, Goto
<1>4. Decided'
  BY SMT, Z3 DEF IInv, TypeOK, Decided, WaitCopyFail, Goto
<1>5. ParentLives'
  BY SMT, Z3 DEF IInv, TypeOK, ParentLives, Live, WaitCopyFail, At, Goto
<1>6. NoMissedExit'
  BY SMTT(30), Z3T(30) DEF IInv, TypeOK, NoMissedExit, ZombieChildren, Children, WaitCopyFail
<1> QED
  BY <1>1, <1>2, <1>3, <1>4, <1>5, <1>6, SMT, Z3 DEF IInv

\* wait has nothing to wait for.
LEMMA WaitFailStep == ASSUME IInv, NEW p \in Slots, WaitFail(p) PROVE IInv'
<1>1. TypeOK'
  BY SMTT(30), Z3T(30) DEF IInv, TypeOK, Labels, WaitFail, Failed, Goto
<1>2. (PidsUnique /\ Stages)'
  BY SMTT(30), Z3T(30) DEF IInv, TypeOK, PidsUnique, Stages, WaitFail, At, Failed, Goto
<1>3. (LockHeld /\ Forks /\ InitLives)'
  BY ProcAssumption, SMTT(30), Z3T(30)
     DEF IInv, TypeOK, LockHeld, Holding, Forks, Forking, InitLives,
                        WaitFail, At, Failed, Goto
<1>4. Decided'
  BY SMTT(30), Z3T(30) DEF IInv, TypeOK, Decided, WaitFail, Failed, Goto
<1>5. ParentLives'
  BY SMT, Z3 DEF IInv, TypeOK, ParentLives, Live, WaitFail, At, Failed, Goto
<1>6. NoMissedExit'
  BY SMT, Z3 DEF IInv, TypeOK, NoMissedExit, ZombieChildren, Children, WaitFail
<1> QED
  BY <1>1, <1>2, <1>3, <1>4, <1>5, <1>6, SMT, Z3 DEF IInv

\* wait has found no zombie and decides to sleep.
LEMMA WaitDecideStep == ASSUME IInv, NEW p \in Slots, WaitDecide(p) PROVE IInv'
<1>1. TypeOK'
  BY SMT, Z3 DEF IInv, TypeOK, Labels, WaitDecide, Goto
<1>2. (PidsUnique /\ Stages)'
  BY SMTT(30), Z3T(30) DEF IInv, TypeOK, PidsUnique, Stages, WaitDecide, At, Goto
<1>3. (LockHeld /\ Forks /\ InitLives)'
  BY SMT, Z3 DEF IInv, TypeOK, LockHeld, Holding, Forks, Forking, InitLives, WaitDecide, At,
         Goto
<1>4. Decided'
  BY SMT, Z3 DEF IInv, TypeOK, Decided, WaitDecide, ZombieChildren, Children, Goto
<1>5. ParentLives'
  BY SMT, Z3 DEF IInv, TypeOK, ParentLives, Live, WaitDecide, At, Goto
<1>6. NoMissedExit'
  BY SMTT(30), Z3T(30) DEF IInv, TypeOK, NoMissedExit, ZombieChildren, Children, WaitDecide
<1> QED
  BY <1>1, <1>2, <1>3, <1>4, <1>5, <1>6, SMT, Z3 DEF IInv

\* sleep gives up wait_lock; no child has died since the scan.
LEMMA WaitSleepStep == ASSUME IInv, NEW p \in Slots, WaitSleep(p) PROVE IInv'
<1>1. TypeOK'
  BY SMTT(30), Z3T(30) DEF IInv, TypeOK, States, Labels, WaitSleep, Goto
<1>2. (PidsUnique /\ Stages)'
  BY SMTT(30), Z3T(30) DEF IInv, TypeOK, PidsUnique, Stages, WaitSleep, At, Goto
<1>3. (LockHeld /\ Forks /\ InitLives)'
  BY ProcAssumption, SMTT(30), Z3T(30)
     DEF IInv, TypeOK, LockHeld, Holding, Forks, Forking, InitLives,
                        WaitSleep, At, Goto
<1>4. Decided'
  BY SMTT(30), Z3T(30) DEF IInv, TypeOK, Decided, LockHeld, Holding, WaitSleep, At, Goto
<1>5. ParentLives'
  BY SMT, Z3 DEF IInv, TypeOK, ParentLives, Live, WaitSleep, At, Goto
<1>6. NoMissedExit'
  BY SMT, Z3 DEF IInv, TypeOK, NoMissedExit, ZombieChildren, Children, Decided, WaitSleep, At
<1> QED
  BY <1>1, <1>2, <1>3, <1>4, <1>5, <1>6, SMT, Z3 DEF IInv

\* kill only wakes.
LEMMA KillStep ==
  ASSUME IInv, NEW p \in Slots, NEW s \in Slots, NEW k \in KillArgs, Kill(p, k, s)
  PROVE  IInv'
<1>1. TypeOK'
  BY SMTT(30), Z3T(30) DEF IInv, TypeOK, States, Kill
<1>2. (PidsUnique /\ Stages)'
  BY SMTT(30), Z3T(30) DEF IInv, TypeOK, PidsUnique, Stages, Kill
<1>3. (LockHeld /\ Forks /\ InitLives)'
  BY SMT, Z3 DEF IInv, TypeOK, LockHeld, Forks, InitLives, Kill
<1>4. Decided'
  BY SMTT(30), Z3T(30) DEF IInv, TypeOK, Decided, Kill
<1>5. ParentLives'
  BY SMTT(30), Z3T(30) DEF IInv, TypeOK, ParentLives, Live, Kill
<1>6. NoMissedExit'
  BY SMTT(30), Z3T(30) DEF IInv, TypeOK, NoMissedExit, ZombieChildren, Children, Kill
<1> QED
  BY <1>1, <1>2, <1>3, <1>4, <1>5, <1>6, SMT, Z3 DEF IInv

\* A process marks itself killed.
LEMMA SetKilledStep == ASSUME IInv, NEW p \in Slots, SetKilled(p) PROVE IInv'
<1>1. TypeOK'
  BY SMTT(30), Z3T(30) DEF IInv, TypeOK, SetKilled
<1>2. (PidsUnique /\ Stages)'
  BY SMTT(30), Z3T(30) DEF IInv, TypeOK, PidsUnique, Stages, SetKilled
<1>3. (LockHeld /\ Forks /\ InitLives)'
  BY SMTT(30), Z3T(30) DEF IInv, TypeOK, LockHeld, Forks, InitLives, SetKilled
<1>4. Decided'
  BY SMT, Z3 DEF IInv, TypeOK, Decided, SetKilled
<1>5. ParentLives'
  BY SMT, Z3 DEF IInv, TypeOK, ParentLives, Live, SetKilled
<1>6. NoMissedExit'
  BY SMT, Z3 DEF IInv, TypeOK, NoMissedExit, ZombieChildren, Children, SetKilled
<1> QED
  BY <1>1, <1>2, <1>3, <1>4, <1>5, <1>6, SMT, Z3 DEF IInv

\* The scheduler runs a process.
LEMMA RunStep == ASSUME IInv, NEW p \in Slots, Run(p) PROVE IInv'
<1>1. TypeOK'
  BY SMTT(30), Z3T(30) DEF IInv, TypeOK, States, Run
<1>2. (PidsUnique /\ Stages)'
  BY SMT, Z3 DEF IInv, TypeOK, PidsUnique, Stages, Run
<1>3. (LockHeld /\ Forks /\ InitLives)'
  BY SMTT(30), Z3T(30) DEF IInv, TypeOK, LockHeld, Forks, InitLives, Run
<1>4. Decided'
  BY SMT, Z3 DEF IInv, TypeOK, Decided, Run
<1>5. ParentLives'
  BY SMT, Z3 DEF IInv, TypeOK, ParentLives, Live, Run
<1>6. NoMissedExit'
  BY SMTT(30), Z3T(30) DEF IInv, TypeOK, NoMissedExit, ZombieChildren, Children, Run
<1> QED
  BY <1>1, <1>2, <1>3, <1>4, <1>5, <1>6, SMT, Z3 DEF IInv

\* A process gives up its CPU.
LEMMA YieldStep == ASSUME IInv, NEW p \in Slots, Yield(p) PROVE IInv'
<1>1. TypeOK'
  BY SMTT(30), Z3T(30) DEF IInv, TypeOK, States, Yield
<1>2. (PidsUnique /\ Stages)'
  BY SMTT(30), Z3T(30) DEF IInv, TypeOK, PidsUnique, Stages, Yield
<1>3. (LockHeld /\ Forks /\ InitLives)'
  BY SMT, Z3 DEF IInv, TypeOK, LockHeld, Forks, InitLives, Yield
<1>4. Decided'
  BY SMT, Z3 DEF IInv, TypeOK, Decided, Yield
<1>5. ParentLives'
  BY SMTT(30), Z3T(30) DEF IInv, TypeOK, ParentLives, Live, Yield
<1>6. NoMissedExit'
  BY SMT, Z3 DEF IInv, TypeOK, NoMissedExit, ZombieChildren, Children, Yield
<1> QED
  BY <1>1, <1>2, <1>3, <1>4, <1>5, <1>6, SMT, Z3 DEF IInv
-----------------------------------------------------------------------------
\* Every step of proc.c preserves the invariant.
LEMMA NextIInv == IInv /\ [Next]_vars => IInv'
<1> SUFFICES ASSUME IInv, [Next]_vars PROVE IInv'
  BY SMTT(30), Z3T(30)
<1>1. CASE UNCHANGED vars
  BY <1>1, SMT, Z3
     DEF vars, IInv, TypeOK, PidsUnique, ParentLives, Live, NoMissedExit, ZombieChildren,
              Children, Stages, LockHeld, Forks, InitLives, Decided
<1>2. ASSUME NEW p \in Slots, KernelStep(p) PROVE IInv'
  BY <1>2, AcquireStep, ForkParentStep, ForkPublishStep, ExitLockStep, ExitReparentStep,
     ExitWakeupStep, ExitZombieStep, ExitSwtchStep, WaitLockStep, WaitFailStep,
     WaitDecideStep, WaitSleepStep, WaitReapStep, WaitCopyFailStep, SMT, Z3 DEF KernelStep
<1>3. ASSUME NEW p \in Slots, UserStep(p) PROVE IInv'
  BY <1>3, ForkNoSlotStep, ExitCallStep, WaitCallStep, SetKilledStep, ForkAllocStep,
     ForkFailStep, SMT, Z3 DEF UserStep
<1> QED
  BY <1>1, <1>2, <1>3, RunStep, YieldStep, KillStep, ExitInitStep, SMT, Z3 DEF Next

\* The inductive invariant of the process table.
THEOREM ProcInvariance == Spec => []IInv
BY InitIInv, NextIInv, PTL DEF Spec

\* For every number of slots and pids: pids identify processes, every process has
\* a live parent, and fork's store of RUNNABLE without np->lock overwrites nothing
\* (proc.c, allocproc, fork, reparent, exit, wait).
THEOREM TableSound == Spec => []ProcTable
<1>1. IInv => ProcTable
  <2>1. IInv => PublishIsSafe
    BY SMT, Z3 DEF IInv, TypeOK, Forks, Forking, PublishIsSafe
  <2> QED
    BY <2>1, SMT, Z3 DEF IInv, ProcTable
<1> QED
  BY <1>1, ProcInvariance, PTL

\* No parent sleeps in wait over a zombie child (proc.c, exit against wait).
THEOREM ExitSeen == Spec => []NoMissedExit
<1>1. IInv => NoMissedExit
  BY SMTT(30), Z3T(30) DEF IInv
<1> QED
  BY <1>1, ProcInvariance, PTL

\* In one step only wait frees a slot: its caller holds wait_lock and is the
\* parent, and the child is a zombie that has left its stack.
LEMMA FreeStep ==
  ASSUME IInv, [Next]_vars, NEW q \in Slots, state[q] # "UNUSED", state'[q] = "UNUSED"
  PROVE  state[q] = "ZOMBIE" /\ pc[q] = "none" /\ wait_lock = parent[q]
<1>1. ASSUME NEW p \in Slots, NEW z \in Slots, WaitReap(p, z)
      PROVE  state[q] = "ZOMBIE" /\ pc[q] = "none" /\ wait_lock = parent[q]
  <2>1. q = z
    BY <1>1, SMTT(30), Z3T(30) DEF WaitReap, IInv, TypeOK
  <2> QED
    BY <1>1, <2>1, SMT, Z3
       DEF WaitReap, ZombieChildren, Children, Unlocked, At, IInv, TypeOK, Stages,
                      LockHeld, Holding
<1>2. ASSUME NEW p \in Slots, KernelStep(p), ~\E z \in Slots : WaitReap(p, z) PROVE FALSE
  BY <1>2, SMTT(30), Z3T(30)
     DEF KernelStep, Acquire, ForkParent, ForkPublish, ExitLock, ExitReparent, ExitWakeup,
              ExitZombie, ExitSwtch, WaitLock, WaitFail, WaitDecide, WaitSleep, WaitCopyFail,
              Woken, IInv, TypeOK
<1>3. ASSUME NEW p \in Slots, UserStep(p) \/ Run(p) \/ Yield(p) PROVE FALSE
  BY <1>3, SMTT(30), Z3T(30)
     DEF UserStep, ForkNoSlot, ExitCall, WaitCall, SetKilled, ForkAlloc, ForkFail, Run,
              Yield, IInv, TypeOK
<1>4. ASSUME NEW p \in Slots, NEW s \in Slots, NEW k \in KillArgs, Kill(p, k, s) PROVE FALSE
  BY <1>4, SMT, Z3 DEF Kill, IInv, TypeOK
<1>5. ~ExitInit /\ ~UNCHANGED vars
  BY SMT, Z3 DEF ExitInit, vars
<1> QED
  BY <1>1, <1>2, <1>3, <1>4, <1>5, SMTT(30), Z3T(30) DEF Next

\* The slot, stack and page table of a process are freed only after it has left
\* its kernel stack, and only by its parent (proc.c, wait and freeproc against
\* the end of exit).
THEOREM StackFreed == Spec => FreedOffStack
<1>1. IInv /\ [Next]_vars =>
        [\A q \in Slots : state[q] # "UNUSED" /\ state'[q] = "UNUSED" =>
           state[q] = "ZOMBIE" /\ pc[q] = "none" /\ wait_lock = parent[q]]_vars
  BY FreeStep, SMT, Z3
<1> QED
  BY <1>1, ProcInvariance, PTL DEF Spec, FreedOffStack
=============================================================================
