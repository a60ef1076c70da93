-------------------------------- MODULE Proc --------------------------------
(***************************************************************************)
(* The life of processes: allocproc, freeproc, userinit, fork, exit,       *)
(* reparent, wait and kill of proc.c, with user/init.c as the first        *)
(* process.  A critical section of a p->lock is one step (module Sched     *)
(* shows what that rests on); wait_lock is held across steps.  The         *)
(* exception is exit, which keeps p->lock until its CPU has left p's       *)
(* kernel stack: that is label "exit_swtch".                               *)
(***************************************************************************)
EXTENDS Integers, FiniteSets

CONSTANTS Slots,     \* the entries of proc[NPROC]
          Initproc,  \* the slot of init
          None,      \* the null pointer
          MaxPid,    \* bound on the pids handed out
          KillArgs   \* pids that processes try to kill

ASSUME ProcAssumption == /\ Initproc \in Slots /\ None \notin Slots
                         /\ MaxPid \in Nat \ {0} /\ KillArgs \subseteq Nat

VARIABLES state, pid, parent, killed,  \* struct proc
          wait_lock,                   \* slot of the holder, or None
          nextpid,
          pc,                          \* where the process is in the kernel
          np,                          \* fork's local: the child's slot
          sh                           \* init.c: pid of the shell it waits for

vars == <<state, pid, parent, killed, wait_lock, nextpid, pc, np, sh>>

States == {"UNUSED", "USED", "SLEEPING", "RUNNABLE", "RUNNING", "ZOMBIE"}
Labels == {"none", "user", "fork_copied", "fork_parent", "fork_publish", "exit",
           "exit_lock", "exit_reparent", "exit_wakeup", "exit_zombie", "exit_swtch",
           "wait", "wait_lock", "wait_scan", "wait_sleep", "panic"}

TypeOK ==
  /\ state \in [Slots -> States]
  /\ pid \in [Slots -> 0..MaxPid]
  /\ parent \in [Slots -> Slots \cup {None}]
  /\ killed \in [Slots -> BOOLEAN]
  /\ wait_lock \in Slots \cup {None}
  /\ nextpid \in 1..MaxPid+1
  /\ pc \in [Slots -> Labels]
  /\ np \in [Slots -> Slots \cup {None}]
  /\ sh \in 0..MaxPid

\* userinit: the first process has pid 1 and is, in user mode.
Init ==
  /\ state = [s \in Slots |-> IF s = Initproc THEN "RUNNABLE" ELSE "UNUSED"]
  /\ pid = [s \in Slots |-> IF s = Initproc THEN 1 ELSE 0]
  /\ parent = [s \in Slots |-> None]
  /\ killed = [s \in Slots |-> FALSE]
  /\ wait_lock = None /\ nextpid = 2
  /\ pc = [s \in Slots |-> IF s = Initproc THEN "user" ELSE "none"]
  /\ np = [s \in Slots |-> None]
  /\ sh = 0

At(p, l) == state[p] = "RUNNING" /\ pc[p] = l

\* A system call entered from user mode; usertrap makes a killed process exit.
Calls(p) == At(p, "user") /\ ~killed[p]

Goto(p, l) == pc' = [pc EXCEPT ![p] = l]
Children(p) == {q \in Slots : parent[q] = p}

\* The effect of wakeup(p) on the states: only wait sleeps on channel p.
Woken(p) == IF p # None /\ state[p] = "SLEEPING"
            THEN [state EXCEPT ![p] = "RUNNABLE"] ELSE state

Spins == [fork_copied |-> "fork_parent", exit |-> "exit_lock", wait |-> "wait_lock"]

\* acquire(&wait_lock): from here on p spins with interrupts off
Acquire(p) ==
  /\ At(p, pc[p]) /\ pc[p] \in DOMAIN Spins /\ (pc[p] = "exit" => p # Initproc)
  /\ Goto(p, Spins[pc[p]])
  /\ UNCHANGED <<state, pid, parent, killed, wait_lock, nextpid, np, sh>>
-----------------------------------------------------------------------------
\* fork

\* init.c forks a shell when it has none; other processes fork at will.
MayFork(p) == Calls(p) /\ nextpid <= MaxPid /\ (p = Initproc => sh = 0)

\* allocproc and the copying, all under np->lock
ForkAlloc(p, s) ==
  /\ MayFork(p) /\ state[s] = "UNUSED"
  /\ state' = [state EXCEPT ![s] = "USED"]
  /\ pid' = [pid EXCEPT ![s] = nextpid]
  /\ nextpid' = nextpid + 1
  /\ np' = [np EXCEPT ![p] = s]
  /\ Goto(p, "fork_copied")
  /\ UNCHANGED <<parent, killed, wait_lock, sh>>

\* init.c calls exit when its fork or its wait fails, which exit answers with
\* a panic; other processes see -1 and go on.
Failed(p) == IF p = Initproc THEN Goto(p, "exit") ELSE Goto(p, "user")

\* kalloc or uvmcopy fails: freeproc gives the slot back, the pid is used up
ForkFail(p, s) ==
  /\ MayFork(p) /\ state[s] = "UNUSED"
  /\ nextpid' = nextpid + 1
  /\ killed' = [killed EXCEPT ![s] = FALSE]
  /\ Failed(p)
  /\ UNCHANGED <<state, pid, parent, wait_lock, np, sh>>

ForkNoSlot(p) ==
  /\ MayFork(p) /\ \A s \in Slots : state[s] # "UNUSED"
  /\ Failed(p)
  /\ UNCHANGED <<state, pid, parent, killed, wait_lock, nextpid, np, sh>>

ForkParent(p) ==
  /\ At(p, "fork_parent") /\ wait_lock = None
  /\ parent' = [parent EXCEPT ![np[p]] = p]
  /\ Goto(p, "fork_publish")
  /\ UNCHANGED <<state, pid, killed, wait_lock, nextpid, np, sh>>

\* np->state = RUNNABLE, stored without np->lock
ForkPublish(p) ==
  /\ At(p, "fork_publish")
  /\ state' = [state EXCEPT ![np[p]] = "RUNNABLE"]
  /\ pc' = [pc EXCEPT ![np[p]] = "user", ![p] = "user"]
  /\ sh' = IF p = Initproc THEN pid[np[p]] ELSE sh
  /\ np' = [np EXCEPT ![p] = None]
  /\ UNCHANGED <<pid, parent, killed, wait_lock, nextpid>>
-----------------------------------------------------------------------------
\* exit

\* exit(), or usertrap's exit(-1) of a killed process.  init only exits if killed.
ExitCall(p) ==
  /\ At(p, "user") /\ (p = Initproc => killed[p])
  /\ Goto(p, "exit")
  /\ UNCHANGED <<state, pid, parent, killed, wait_lock, nextpid, np, sh>>

\* The panic is an endless loop of this process; the others go on.
ExitInit == /\ At(Initproc, "exit")
            /\ Goto(Initproc, "panic")
            /\ UNCHANGED <<state, pid, parent, killed, wait_lock, nextpid, np, sh>>

ExitLock(p) ==
  /\ At(p, "exit_lock") /\ wait_lock = None
  /\ wait_lock' = p
  /\ Goto(p, "exit_reparent")
  /\ UNCHANGED <<state, pid, parent, killed, nextpid, np, sh>>

\* Faulty: children keep their dead parent.
ExitReparentNot(p) ==
  /\ At(p, "exit_reparent") /\ Goto(p, "exit_wakeup")
  /\ UNCHANGED <<state, parent, pid, killed, wait_lock, nextpid, np, sh>>

\* Faulty: init is not told of its new children.
ExitReparentQuiet(p) ==
  /\ At(p, "exit_reparent") /\ Goto(p, "exit_wakeup")
  /\ parent' = [q \in Slots |-> IF parent[q] = p THEN Initproc ELSE parent[q]]
  /\ UNCHANGED <<state, pid, killed, wait_lock, nextpid, np, sh>>

ExitReparent(p) ==
  /\ At(p, "exit_reparent")
  /\ parent' = [q \in Slots |-> IF parent[q] = p THEN Initproc ELSE parent[q]]
  /\ state' = IF Children(p) # {} THEN Woken(Initproc) ELSE state
  /\ Goto(p, "exit_wakeup")
  /\ UNCHANGED <<pid, killed, wait_lock, nextpid, np, sh>>

ExitWakeup(p) ==
  /\ At(p, "exit_wakeup")
  /\ state' = Woken(parent[p])
  /\ Goto(p, "exit_zombie")
  /\ UNCHANGED <<pid, parent, killed, wait_lock, nextpid, np, sh>>

ExitZombie(p) ==
  /\ At(p, "exit_zombie")
  /\ state' = [state EXCEPT ![p] = "ZOMBIE"]
  /\ wait_lock' = None
  /\ Goto(p, "exit_swtch")
  /\ UNCHANGED <<pid, parent, killed, nextpid, np, sh>>

\* sched: off p's stack; the scheduler releases p->lock
ExitSwtch(p) ==
  /\ state[p] = "ZOMBIE" /\ pc[p] = "exit_swtch"
  /\ Goto(p, "none")
  /\ UNCHANGED <<state, pid, parent, killed, wait_lock, nextpid, np, sh>>
-----------------------------------------------------------------------------
\* wait

\* init.c waits while its shell lives.  (When the bound on pids keeps it from
\* forking another one, it waits for the children it has.)
MayWait(p) == p = Initproc =>
                \/ sh # 0
                \/ nextpid > MaxPid /\ Children(Initproc) # {}

WaitCall(p) ==
  /\ Calls(p) /\ MayWait(p)
  /\ Goto(p, "wait")
  /\ UNCHANGED <<state, pid, parent, killed, wait_lock, nextpid, np, sh>>

WaitLock(p) ==
  /\ At(p, "wait_lock") /\ wait_lock = None
  /\ wait_lock' = p
  /\ Goto(p, "wait_scan")
  /\ UNCHANGED <<state, pid, parent, killed, nextpid, np, sh>>

ZombieChildren(p) == {q \in Children(p) : state[q] = "ZOMBIE"}

\* Faulty: the child's lock is not acquired.
UnlockedAlways(q) == TRUE

\* acquire(&pp->lock) waits for the child to be off its kernel stack
Unlocked(q) == pc[q] # "exit_swtch"

\* Faulty: freeproc is not called.
WaitReapNoFree(p, q) ==
  /\ At(p, "wait_scan") /\ q \in ZombieChildren(p) /\ Unlocked(q)
  /\ wait_lock' = None /\ Goto(p, "user")
  /\ sh' = IF p = Initproc /\ pid[q] = sh THEN 0 ELSE sh
  /\ UNCHANGED <<state, pid, parent, killed, nextpid, np>>

\* freeproc under pp->lock
WaitReap(p, q) ==
  /\ At(p, "wait_scan") /\ q \in ZombieChildren(p) /\ Unlocked(q)
  /\ state' = [state EXCEPT ![q] = "UNUSED"]
  /\ pid' = [pid EXCEPT ![q] = 0]
  /\ parent' = [parent EXCEPT ![q] = None]
  /\ killed' = [killed EXCEPT ![q] = FALSE]
  /\ wait_lock' = None
  /\ sh' = IF p = Initproc /\ pid[q] = sh THEN 0 ELSE sh
  /\ Goto(p, "user")
  /\ UNCHANGED <<nextpid, np>>

\* copyout of the exit status fails; init.c passes no address
WaitCopyFail(p, q) ==
  /\ At(p, "wait_scan") /\ q \in ZombieChildren(p) /\ Unlocked(q)
  /\ p # Initproc
  /\ wait_lock' = None
  /\ Goto(p, "user")
  /\ UNCHANGED <<state, pid, parent, killed, nextpid, np, sh>>

NothingToWaitFor(p) == Children(p) = {} \/ killed[p]

WaitFail(p) ==
  /\ At(p, "wait_scan") /\ ZombieChildren(p) = {} /\ NothingToWaitFor(p)
  /\ wait_lock' = None
  /\ Failed(p)
  /\ UNCHANGED <<state, pid, parent, killed, nextpid, np, sh>>

WaitDecide(p) ==
  /\ At(p, "wait_scan") /\ ZombieChildren(p) = {} /\ ~NothingToWaitFor(p)
  /\ Goto(p, "wait_sleep")
  /\ UNCHANGED <<state, pid, parent, killed, wait_lock, nextpid, np, sh>>

\* sleep(p, &wait_lock)
WaitSleep(p) ==
  /\ At(p, "wait_sleep")
  /\ state' = [state EXCEPT ![p] = "SLEEPING"]
  /\ wait_lock' = None
  /\ Goto(p, "wait")
  /\ UNCHANGED <<pid, parent, killed, nextpid, np, sh>>
-----------------------------------------------------------------------------
\* kill, and the scheduler

\* The scan compares pids only: the slot may also be a free one, with pid 0.  It
\* holds one p->lock at a time, so any slot with the pid may be found.
Kill(p, k, s) ==
  /\ Calls(p) /\ p # Initproc /\ pid[s] = k /\ Unlocked(s)
  /\ killed' = [killed EXCEPT ![s] = TRUE]
  /\ state' = IF state[s] = "SLEEPING"
              THEN [state EXCEPT ![s] = "RUNNABLE"] ELSE state
  /\ UNCHANGED <<pid, parent, wait_lock, nextpid, pc, np, sh>>

\* usertrap's setkilled after an exception of the process's own; init has none
SetKilled(p) ==
  /\ At(p, "user") /\ p # Initproc
  /\ killed' = [killed EXCEPT ![p] = TRUE]
  /\ UNCHANGED <<state, pid, parent, wait_lock, nextpid, pc, np, sh>>

Run(p) ==
  /\ state[p] = "RUNNABLE"
  /\ state' = [state EXCEPT ![p] = "RUNNING"]
  /\ UNCHANGED <<pid, parent, killed, wait_lock, nextpid, pc, np, sh>>

\* The timer interrupts only code that neither holds nor spins on a spinlock.
Interruptible(p) == wait_lock # p /\ \A l \in DOMAIN Spins : pc[p] # Spins[l]

Yield(p) ==
  /\ state[p] = "RUNNING" /\ Interruptible(p)
  /\ state' = [state EXCEPT ![p] = "RUNNABLE"]
  /\ UNCHANGED <<pid, parent, killed, wait_lock, nextpid, pc, np, sh>>
-----------------------------------------------------------------------------
\* Steps inside the kernel, which a process takes by itself once there.
KernelStep(p) ==
  \/ Acquire(p) \/ ForkParent(p) \/ ForkPublish(p)
  \/ ExitLock(p) \/ ExitReparent(p) \/ ExitWakeup(p) \/ ExitZombie(p) \/ ExitSwtch(p)
  \/ WaitLock(p) \/ WaitFail(p) \/ WaitDecide(p) \/ WaitSleep(p)
  \/ \E q \in Slots : WaitReap(p, q) \/ WaitCopyFail(p, q)

UserStep(p) ==
  \/ ForkNoSlot(p) \/ ExitCall(p) \/ WaitCall(p) \/ SetKilled(p)
  \/ \E s \in Slots : ForkAlloc(p, s) \/ ForkFail(p, s)

Next == \/ \E p \in Slots : KernelStep(p) \/ UserStep(p) \/ Run(p) \/ Yield(p)
        \/ \E p, s \in Slots, k \in KillArgs : Kill(p, k, s)
        \/ ExitInit

Spec == Init /\ [][Next]_vars

\* Spinlocks are contended but free infinitely often and the scheduler is
\* round robin (Sched): strong fairness for kernel steps.  init.c is known to
\* go on calling fork and wait; of other processes nothing is assumed.
FairSpec == /\ Spec
            /\ \A p \in Slots : SF_vars(KernelStep(p)) /\ WF_vars(Run(p))
            /\ SF_vars(UserStep(Initproc) \/ ExitInit)
-----------------------------------------------------------------------------
Live(q) == state[q] \notin {"UNUSED", "ZOMBIE"}

\* Pids identify processes: no two used slots share one, and exactly the free
\* slots have pid 0 (proc.c, allocpid, allocproc, freeproc).
PidsUnique ==
  /\ \A s, t \in Slots : pid[s] = pid[t] /\ s # t => pid[s] = 0
  /\ \A s \in Slots : pid[s] = 0 <=> state[s] = "UNUSED"

\* Somebody who can still call wait is responsible for every process and every
\* zombie: its parent is live.  Only a child whose fork has not yet reached
\* wait_lock has no parent (proc.c, fork, reparent, exit).
ParentLives ==
  \A q \in Slots \ {Initproc} : state[q] # "UNUSED" =>
    \/ parent[q] # None /\ Live(parent[q])
    \/ parent[q] = None /\ \E p \in Slots : pc[p] \in {"fork_copied", "fork_parent"} /\ np[p] = q

\* fork stores RUNNABLE into np->state without np->lock; nobody else moves the
\* child out of USED meanwhile, so no state change is overwritten (proc.c, fork).
PublishIsSafe ==
  \A p \in Slots : pc[p] = "fork_publish" => state[np[p]] = "USED" /\ parent[np[p]] = p

\* The process table is sound: the variables have their types, pids identify
\* processes, every process has a live parent, and fork's unlocked store is safe
\* (proc.c).
ProcTable == TypeOK /\ PidsUnique /\ ParentLives /\ PublishIsSafe

\* A parent does not sleep in wait while it has a zombie to reap (proc.c, exit's
\* wakeup against wait's scan, both under wait_lock).
NoMissedExit ==
  \A p \in Slots : state[p] = "SLEEPING" => ZombieChildren(p) = {}

\* A slot is freed only when its process is a zombie that has left its kernel
\* stack, and by nobody but its parent (proc.c, wait, freeproc, exit's sched).
FreedOffStack ==
  [][\A q \in Slots : state[q] # "UNUSED" /\ state'[q] = "UNUSED" =>
       state[q] = "ZOMBIE" /\ pc[q] = "none" /\ wait_lock = parent[q]]_vars

\* A zombie that init is responsible for is reaped (proc.c, reparent and
\* wakeup(initproc); user/init.c).
OrphansReaped ==
  \A q \in Slots : state[q] = "ZOMBIE" /\ parent[q] = Initproc
                     ~> state[q] = "UNUSED" \/ pc[Initproc] = "panic"
=============================================================================
