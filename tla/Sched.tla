------------------------------- MODULE Sched -------------------------------
(***************************************************************************)
(* Threads, CPUs and locks: spinlock.c, sleeplock.c, the scheduler, sched, *)
(* yield, forkret, sleep and wakeup of proc.c, and the timer path of       *)
(* kerneltrap.  Processes share one sleeplock.  p->lock and the sleeplock's*)
(* spinlock are explicit, so that the hand-over of p->lock across swtch    *)
(* and the sleep/wakeup race are visible.                                  *)
(***************************************************************************)
EXTENDS Integers, FiniteSets

CONSTANTS CPUs, NPROC, None

ASSUME SchedAssumption == NPROC \in Nat /\ None \notin CPUs

Procs == 1..NPROC

VARIABLES cpu,    \* struct cpu and its hart: proc, noff, intena; ie is the
                  \* interrupt-enable bit, stack the kernel stack in use
                  \* (0 is the scheduler's own)
          plock,  \* holder of each p->lock (spinlock.cpu), or None
          lk,     \* holder of the sleeplock's spinlock, or None
          slk,    \* the sleeplock: locked, pid
          state, chan,
          th,     \* kernel thread of a process: pc; ret, where it resumes after
                  \* swtch; back, the pc a timer interrupt interrupted; intena,
                  \* sched's local; wk, wakeup's loop index
          sc      \* scheduler thread of a CPU: pc, i (its loop index)

vars == <<cpu, plock, lk, slk, state, chan, th, sc>>

Labels == {"forkret", "out", "as", "as_spin", "as_test", "sl_spin", "sl_rel",
           "sl_set", "swtch", "sl_ret", "cs", "rs_spin", "wake", "y_spin",
           "y_ret"}

TypeOK ==
  /\ cpu \in [CPUs -> [proc : 0..NPROC, stack : 0..NPROC, noff : 0..3,
                       intena : BOOLEAN, ie : BOOLEAN]]
  /\ plock \in [Procs -> CPUs \cup {None}]
  /\ lk \in CPUs \cup {None}
  /\ slk \in [locked : BOOLEAN, pid : 0..NPROC]
  /\ state \in [Procs -> {"SLEEPING", "RUNNABLE", "RUNNING"}]
  /\ chan \in [Procs -> BOOLEAN]
  /\ th \in [Procs -> [pc : Labels, ret : Labels, back : Labels,
                       intena : BOOLEAN, wk : 1..NPROC+1]]
  /\ sc \in [CPUs -> [pc : {"top", "scan", "spin", "back"}, i : 1..NPROC+1]]

Init ==
  /\ cpu = [c \in CPUs |-> [proc |-> 0, stack |-> 0, noff |-> 0,
                            intena |-> FALSE, ie |-> FALSE]]
  /\ plock = [p \in Procs |-> None] /\ lk = None
  /\ slk = [locked |-> FALSE, pid |-> 0]
  /\ state = [p \in Procs |-> "RUNNABLE"] /\ chan = [p \in Procs |-> FALSE]
  /\ th = [p \in Procs |-> [pc |-> "forkret", ret |-> "out", back |-> "out",
                            intena |-> FALSE, wk |-> 1]]
  /\ sc = [c \in CPUs |-> [pc |-> "top", i |-> 1]]
-----------------------------------------------------------------------------
\* push_off and pop_off on a cpu record

PushOff(r) == [r EXCEPT !.intena = IF r.noff = 0 THEN r.ie ELSE @,
                        !.noff = @ + 1, !.ie = FALSE]

PopOff(r) == [r EXCEPT !.noff = @ - 1, !.ie = r.noff = 1 /\ r.intena]

\* The kernel thread of p executes on c and is at label l.
At(p, c, l) == cpu[c].stack = p /\ th[p].pc = l

Goto(p, l) == th' = [th EXCEPT ![p].pc = l]

Enter(c) == cpu' = [cpu EXCEPT ![c] = PushOff(@)]
Leave(c) == cpu' = [cpu EXCEPT ![c] = PopOff(@)]
-----------------------------------------------------------------------------
\* acquiresleep

AcquireSleep(p, c) ==
  /\ At(p, c, "out") \/ At(p, c, "as")
  /\ Enter(c) /\ Goto(p, "as_spin")
  /\ UNCHANGED <<plock, lk, slk, state, chan, sc>>

AcquireSleepSpin(p, c) ==
  /\ At(p, c, "as_spin") /\ lk = None
  /\ lk' = c /\ Goto(p, "as_test")
  /\ UNCHANGED <<cpu, plock, slk, state, chan, sc>>

AcquireSleepTaken(p, c) ==   \* while (lk->locked) sleep(lk, &lk->lk)
  /\ At(p, c, "as_test") /\ slk.locked
  /\ Enter(c) /\ Goto(p, "sl_spin")
  /\ UNCHANGED <<plock, lk, slk, state, chan, sc>>

\* Faulty: the lock is taken whether it is free or not.
AcquireSleepGotBlind(p, c) ==
  /\ At(p, c, "as_test")
  /\ slk' = [locked |-> TRUE, pid |-> p]
  /\ lk' = None /\ Leave(c) /\ Goto(p, "cs")
  /\ UNCHANGED <<plock, state, chan, sc>>

AcquireSleepGot(p, c) ==
  /\ At(p, c, "as_test") /\ ~slk.locked
  /\ slk' = [locked |-> TRUE, pid |-> p]
  /\ lk' = None /\ Leave(c) /\ Goto(p, "cs")
  /\ UNCHANGED <<plock, state, chan, sc>>

\* sleep
SleepLockProc(p, c) ==
  /\ At(p, c, "sl_spin") /\ plock[p] = None
  /\ plock' = [plock EXCEPT ![p] = c] /\ Goto(p, "sl_rel")
  /\ UNCHANGED <<cpu, lk, slk, state, chan, sc>>

\* Faulty: sleep keeps the condition lock.
SleepReleaseNot(p, c) ==
  /\ At(p, c, "sl_rel") /\ Goto(p, "sl_set")
  /\ UNCHANGED <<cpu, lk, plock, slk, state, chan, sc>>

SleepRelease(p, c) ==
  /\ At(p, c, "sl_rel")
  /\ lk' = None /\ Leave(c) /\ Goto(p, "sl_set")
  /\ UNCHANGED <<plock, slk, state, chan, sc>>

SleepSet(p, c) ==
  /\ At(p, c, "sl_set")
  /\ chan' = [chan EXCEPT ![p] = TRUE]
  /\ state' = [state EXCEPT ![p] = "SLEEPING"]
  /\ th' = [th EXCEPT ![p].pc = "swtch", ![p].ret = "sl_ret"]
  /\ UNCHANGED <<cpu, plock, lk, slk, sc>>

\* sched: save intena, swtch to the scheduler's stack
Swtch(p, c) ==
  /\ At(p, c, "swtch")
  /\ th' = [th EXCEPT ![p].pc = th[p].ret, ![p].intena = cpu[c].intena]
  /\ cpu' = [cpu EXCEPT ![c].stack = 0]
  /\ UNCHANGED <<plock, lk, slk, state, chan, sc>>

\* sched returns on whatever CPU picked p: restore intena, release p->lock
Resume(p, c) == cpu' = [cpu EXCEPT ![c] = PopOff([@ EXCEPT !.intena = th[p].intena])]

SleepReturn(p, c) ==
  /\ At(p, c, "sl_ret")
  /\ chan' = [chan EXCEPT ![p] = FALSE]
  /\ plock' = [plock EXCEPT ![p] = None]
  /\ Resume(p, c) /\ Goto(p, "as")
  /\ UNCHANGED <<lk, slk, state, sc>>
-----------------------------------------------------------------------------
\* releasesleep and wakeup

ReleaseSleep(p, c) ==
  /\ At(p, c, "cs")
  /\ Enter(c) /\ Goto(p, "rs_spin")
  /\ UNCHANGED <<plock, lk, slk, state, chan, sc>>

\* Faulty: the wakeup loop starts one process late.
ReleaseSleepSpinLate(p, c) ==
  /\ At(p, c, "rs_spin") /\ lk = None
  /\ lk' = c /\ slk' = [locked |-> FALSE, pid |-> 0]
  /\ th' = [th EXCEPT ![p].pc = "wake", ![p].wk = 2]
  /\ UNCHANGED <<cpu, plock, state, chan, sc>>

ReleaseSleepSpin(p, c) ==
  /\ At(p, c, "rs_spin") /\ lk = None
  /\ lk' = c
  /\ slk' = [locked |-> FALSE, pid |-> 0]
  /\ th' = [th EXCEPT ![p].pc = "wake", ![p].wk = 1]
  /\ UNCHANGED <<cpu, plock, state, chan, sc>>

\* One iteration of wakeup; q's lock is held only within it.
Wakeup(p, c) ==
  LET q == th[p].wk IN
  /\ At(p, c, "wake") /\ q <= NPROC
  /\ q # p => plock[q] = None
  /\ state' = IF q # p /\ state[q] = "SLEEPING" /\ chan[q]
              THEN [state EXCEPT ![q] = "RUNNABLE"] ELSE state
  /\ th' = [th EXCEPT ![p].wk = q + 1]
  /\ UNCHANGED <<cpu, plock, lk, slk, chan, sc>>

ReleaseSleepDone(p, c) ==
  /\ At(p, c, "wake") /\ th[p].wk = NPROC + 1
  /\ lk' = None /\ Leave(c) /\ Goto(p, "out")
  /\ UNCHANGED <<plock, slk, state, chan, sc>>
-----------------------------------------------------------------------------
\* Timer interrupt and yield; forkret

\* The trap disables interrupts; kerneltrap calls yield, which acquires p->lock.
Timer(p, c) ==
  /\ cpu[c].stack = p /\ cpu[c].ie
  /\ cpu' = [cpu EXCEPT ![c] = PushOff([@ EXCEPT !.ie = FALSE])]
  /\ th' = [th EXCEPT ![p].pc = "y_spin", ![p].back = th[p].pc]
  /\ UNCHANGED <<plock, lk, slk, state, chan, sc>>

\* Faulty: yield changes the state without p->lock.
YieldSpinUnlocked(p, c) ==
  /\ At(p, c, "y_spin")
  /\ state' = [state EXCEPT ![p] = "RUNNABLE"]
  /\ th' = [th EXCEPT ![p].pc = "swtch", ![p].ret = "y_ret"]
  /\ UNCHANGED <<cpu, plock, lk, slk, chan, sc>>

YieldSpin(p, c) ==
  /\ At(p, c, "y_spin") /\ plock[p] = None
  /\ plock' = [plock EXCEPT ![p] = c]
  /\ state' = [state EXCEPT ![p] = "RUNNABLE"]
  /\ th' = [th EXCEPT ![p].pc = "swtch", ![p].ret = "y_ret"]
  /\ UNCHANGED <<cpu, lk, slk, chan, sc>>

\* yield returns and the trap return enables interrupts again.
YieldReturn(p, c) ==
  /\ At(p, c, "y_ret")
  /\ plock' = [plock EXCEPT ![p] = None]
  /\ cpu' = [cpu EXCEPT ![c] =
               [PopOff([@ EXCEPT !.intena = th[p].intena]) EXCEPT !.ie = TRUE]]
  /\ Goto(p, th[p].back)
  /\ UNCHANGED <<lk, slk, state, chan, sc>>

ForkRet(p, c) ==
  /\ At(p, c, "forkret")
  /\ plock' = [plock EXCEPT ![p] = None]
  /\ cpu' = [cpu EXCEPT ![c] = [PopOff(@) EXCEPT !.ie = TRUE]]
  /\ Goto(p, "out")
  /\ UNCHANGED <<lk, slk, state, chan, sc>>
-----------------------------------------------------------------------------
\* scheduler

SchedAt(c, l) == cpu[c].stack = 0 /\ sc[c].pc = l

\* Faulty: the scan does not start again from the first process.
SchedTopStuck(c) ==
  /\ SchedAt(c, "top")
  /\ cpu' = [cpu EXCEPT ![c].ie = TRUE]
  /\ sc' = [sc EXCEPT ![c].pc = "scan"]
  /\ UNCHANGED <<plock, lk, slk, state, chan, th>>

SchedTop(c) ==
  /\ SchedAt(c, "top")
  /\ cpu' = [cpu EXCEPT ![c].ie = TRUE]
  /\ sc' = [sc EXCEPT ![c] = [pc |-> "scan", i |-> 1]]
  /\ UNCHANGED <<plock, lk, slk, state, chan, th>>

SchedScan(c) ==
  /\ SchedAt(c, "scan")
  /\ IF sc[c].i > NPROC
     THEN sc' = [sc EXCEPT ![c].pc = "top"] /\ UNCHANGED cpu
     ELSE sc' = [sc EXCEPT ![c].pc = "spin"] /\ Enter(c)
  /\ UNCHANGED <<plock, lk, slk, state, chan, th>>

SchedSkip(c) ==
  LET p == sc[c].i IN
  /\ SchedAt(c, "spin") /\ plock[p] = None /\ state[p] # "RUNNABLE"
  /\ Leave(c)
  /\ sc' = [sc EXCEPT ![c] = [pc |-> "scan", i |-> p + 1]]
  /\ UNCHANGED <<plock, lk, slk, state, chan, th>>

SchedRun(c) ==
  LET p == sc[c].i IN
  /\ SchedAt(c, "spin") /\ plock[p] = None /\ state[p] = "RUNNABLE"
  /\ plock' = [plock EXCEPT ![p] = c]
  /\ state' = [state EXCEPT ![p] = "RUNNING"]
  /\ cpu' = [cpu EXCEPT ![c].proc = p, ![c].stack = p]
  /\ sc' = [sc EXCEPT ![c].pc = "back"]
  /\ UNCHANGED <<lk, slk, chan, th>>

SchedBack(c) ==
  LET p == sc[c].i IN
  /\ SchedAt(c, "back")
  /\ plock' = [plock EXCEPT ![p] = None]
  /\ cpu' = [cpu EXCEPT ![c] = PopOff([@ EXCEPT !.proc = 0])]
  /\ sc' = [sc EXCEPT ![c] = [pc |-> "scan", i |-> p + 1]]
  /\ UNCHANGED <<lk, slk, state, chan, th>>
-----------------------------------------------------------------------------
SleepLockStep(p, c) ==
  \/ AcquireSleep(p, c) \/ AcquireSleepSpin(p, c) \/ AcquireSleepTaken(p, c)
  \/ AcquireSleepGot(p, c) \/ SleepLockProc(p, c) \/ SleepRelease(p, c)
  \/ SleepSet(p, c) \/ SleepReturn(p, c) \/ ReleaseSleep(p, c)
  \/ ReleaseSleepSpin(p, c) \/ Wakeup(p, c) \/ ReleaseSleepDone(p, c)

SwitchStep(p, c) ==
  Swtch(p, c) \/ YieldSpin(p, c) \/ YieldReturn(p, c) \/ ForkRet(p, c)

SchedStep(c) ==
  SchedTop(c) \/ SchedScan(c) \/ SchedSkip(c) \/ SchedRun(c) \/ SchedBack(c)

Next == \/ \E c \in CPUs : SchedStep(c)
        \/ \E c \in CPUs, p \in Procs :
             SleepLockStep(p, c) \/ SwitchStep(p, c) \/ Timer(p, c)

Spec == Init /\ [][Next]_vars

\* Every CPU keeps executing.  A timer interrupt stays pending until the CPU
\* can take it, and in a time slice (a tenth of a second) a process does more
\* than take the next timer interrupt: both are strong fairness.
FairSpec ==
  /\ Spec
  /\ \A c \in CPUs : WF_vars(SchedStep(c))
  /\ \A c \in CPUs : SF_vars(\E p \in Procs : Timer(p, c))
  /\ \A p \in Procs : /\ SF_vars(\E c \in CPUs : SleepLockStep(p, c))
                       /\ SF_vars(\E c \in CPUs : SwitchStep(p, c))
-----------------------------------------------------------------------------
Held(c) == {p \in Procs : plock[p] = c}
           \cup (IF lk = c THEN {0} ELSE {})

Spinning(c) ==
  \/ SchedAt(c, "spin")
  \/ \E p \in Procs : cpu[c].stack = p
                      /\ th[p].pc \in {"as_spin", "sl_spin", "rs_spin", "y_spin"}

\* Two CPUs never execute on the kernel stack of the same process, and a
\* process that a scheduler may pick (RUNNABLE, p->lock free) is on none: the
\* hand-over of p->lock across swtch (proc.c, scheduler, sched, sleep, yield).
OneStack ==
  /\ \A c, d \in CPUs : cpu[c].stack # 0 /\ cpu[c].stack = cpu[d].stack => c = d
  /\ \A p \in Procs : plock[p] = None /\ state[p] # "RUNNING"
                        => \A c \in CPUs : cpu[c].stack # p

\* noff counts exactly the spinlocks that a CPU holds or spins on, and
\* interrupts are off while it is not zero; so no interrupt handler can spin
\* on a lock held by the code it interrupted (spinlock.c, push_off, pop_off).
NoffCountsLocks ==
  \A c \in CPUs :
    /\ cpu[c].noff = Cardinality(Held(c)) + (IF Spinning(c) THEN 1 ELSE 0)
    /\ cpu[c].noff > 0 => ~cpu[c].ie

\* The checks that panic in sched, acquire and release never fail: swtch is
\* reached holding p->lock and no other spinlock, nobody acquires a lock its
\* CPU holds, and every release is by the holder (proc.c, spinlock.c).
PanicFree ==
  \A c \in CPUs, p \in Procs : cpu[c].stack = p =>
    /\ th[p].pc = "swtch" => /\ plock[p] = c /\ cpu[c].noff = 1
                             /\ state[p] # "RUNNING" /\ ~cpu[c].ie
    /\ th[p].pc \in {"as_spin", "rs_spin"} => lk # c
    /\ th[p].pc \in {"sl_spin", "y_spin"} => plock[p] # c
    /\ th[p].pc \in {"as_test", "sl_rel", "wake"} => lk = c
    /\ th[p].pc \in {"sl_ret", "y_ret", "forkret"} => plock[p] = c

InCS(p) == \/ th[p].pc \in {"cs", "rs_spin"}
           \/ th[p].pc \in {"y_spin", "y_ret", "swtch"} /\ th[p].back = "cs"
              /\ (th[p].pc = "swtch" => th[p].ret = "y_ret")

\* The sleeplock is held by at most one process, the one lk->pid names, also
\* across the holder's own yields (sleeplock.c).
SleepLockExclusive == \A p \in Procs : InCS(p) => slk.locked /\ slk.pid = p

\* A process that sleeps while the lock is free is still ahead of a wakeup
\* loop in progress: no wakeup is lost (proc.c, sleep and wakeup; sleeplock.c).
NoLostWakeup ==
  \A p \in Procs : state[p] = "SLEEPING" /\ ~slk.locked =>
    \E q \in Procs \ {p} : th[q].pc = "wake" /\ th[q].wk <= p

\* Locks are sound: the variables have their types, noff counts the locks a CPU
\* holds, and no check of sched, acquire and release panics (spinlock.c, proc.c).
LocksSound == TypeOK /\ NoffCountsLocks /\ PanicFree

\* The sleeplock is exclusive, and nobody sleeps on a free one without a wakeup
\* to come (sleeplock.c, acquiresleep and releasesleep).
SleepLockSound == SleepLockExclusive /\ NoLostWakeup

\* A RUNNABLE process is eventually run (proc.c, scheduler's round robin).
RunnableRuns == \A p \in Procs : state[p] = "RUNNABLE" ~> state[p] = "RUNNING"

\* A sleeper is eventually woken (sleeplock.c, releasesleep).
SleepersWake == \A p \in Procs : state[p] = "SLEEPING" ~> state[p] = "RUNNABLE"
=============================================================================
