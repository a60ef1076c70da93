---------------------------- MODULE SchedProofs ----------------------------
(***************************************************************************)
(* Proofs about module Sched for every number of CPUs and processes: the   *)
(* inductive invariant, that every step of acquiresleep, releasesleep,     *)
(* sleep, sched, wakeup, scheduler, yield and the timer preserves it, and  *)
(* what follows from it for stacks, locks and wakeups.                     *)
(***************************************************************************)
EXTENDS Sched, TLAPS

\* The parts of the records that the invariant speaks about, one function each;
\* the CPUs with interrupts on and the processes with a channel.
Pc == [p \in Procs |-> th[p].pc]
Ret == [p \in Procs |-> th[p].ret]
Back == [p \in Procs |-> th[p].back]
Wk == [p \in Procs |-> th[p].wk]
Stack == [c \in CPUs |-> cpu[c].stack]
Noff == [c \in CPUs |-> cpu[c].noff]
Ion == {c \in CPUs : cpu[c].ie}
Sp == [c \in CPUs |-> sc[c].pc]
Si == [c \in CPUs |-> sc[c].i]
Chan == {p \in Procs : chan[p]}

Views ==
  /\ Pc \in [Procs -> Labels] /\ Ret \in [Procs -> Labels]
  /\ Back \in [Procs -> Labels] /\ Wk \in [Procs -> 1..NPROC+1]
  /\ Stack \in [CPUs -> 0..NPROC] /\ Noff \in [CPUs -> 0..3]
  /\ Sp \in [CPUs -> {"top", "scan", "spin", "back"}] /\ Si \in [CPUs -> 1..NPROC+1]
  /\ plock \in [Procs -> CPUs \cup {None}] /\ lk \in CPUs \cup {None}
  /\ state \in [Procs -> {"SLEEPING", "RUNNABLE", "RUNNING"}]

\* Labels at which a kernel thread holds its p->lock, and the sleeplock's
\* spinlock; where it is when it is on no CPU; where interrupts may be on.
PLabels == {"sl_rel", "sl_set", "swtch", "sl_ret", "y_ret", "forkret"}
LkLabels == {"as_test", "sl_spin", "sl_rel", "wake"}
Parked == {"forkret", "sl_ret", "y_ret"}
Open == {"out", "as", "cs"}

\* How deep push_off is nested at a label.
Depth(l) == IF l \in Open THEN 0 ELSE IF l \in {"sl_spin", "sl_rel"} THEN 2 ELSE 1

\* A stack is used by one CPU, the one whose scheduler switched to it; a thread
\* on no stack is parked in swtch.
Placement ==
  /\ \A c, d \in CPUs : Stack[c] # 0 /\ Stack[c] = Stack[d] => c = d
  /\ \A c \in CPUs : Stack[c] # 0 => Sp[c] = "back" /\ Si[c] = Stack[c]
  /\ \A c \in CPUs : Sp[c] \in {"spin", "back"} => Si[c] \in Procs
  /\ \A p \in Procs : (\A c \in CPUs : Stack[c] # p) => Pc[p] \in Parked

\* RUNNING means on a CPU and not about to leave it; a sleeper has its channel
\* and is inside sleep.
Conditions == \A p \in Procs :
  /\ state[p] = "RUNNING" <=> (\E c \in CPUs : Stack[c] = p) /\ Pc[p] # "swtch"
  /\ Pc[p] = "swtch" => /\ Ret[p] \in {"sl_ret", "y_ret"}
                        /\ state[p] = IF Ret[p] = "sl_ret" THEN "SLEEPING" ELSE "RUNNABLE"
  /\ state[p] = "SLEEPING" => p \in Chan /\ Pc[p] \in {"swtch", "sl_ret"}
  /\ Back[p] \in Open

\* p->lock is held by the thread itself or, across swtch, by the scheduler.
PLocks == \A p \in Procs, c \in CPUs :
  plock[p] = c <=> \/ Stack[c] = p /\ Pc[p] \in PLabels
                   \/ Stack[c] = 0 /\ Sp[c] = "back" /\ Si[c] = p

LkHeld == \A c \in CPUs : lk = c <=> Stack[c] \in Procs /\ Pc[Stack[c]] \in LkLabels

\* noff is the nesting depth at the label, and interrupts are off inside.
Nesting == \A c \in CPUs :
  /\ Stack[c] = 0 => Noff[c] = IF Sp[c] \in {"spin", "back"} THEN 1 ELSE 0
  /\ \A p \in Procs : Stack[c] = p => Noff[c] = Depth(Pc[p])
  /\ Noff[c] > 0 => c \notin Ion

\* The sleeplock is taken by the process that is past acquiresleep.
Owner == \A p \in Procs :
  \/ Pc[p] \in {"cs", "rs_spin"}
  \/ Pc[p] \in {"y_spin", "y_ret", "swtch"} /\ Back[p] = "cs"
     /\ (Pc[p] = "swtch" => Ret[p] = "y_ret")
  => slk.locked = TRUE /\ slk.pid = p

\* A process on its way to sleep has seen the sleeplock taken, or a wakeup loop
\* has yet to reach it.
Sleepers == \A p \in Procs :
  /\ Pc[p] \in {"sl_spin", "sl_rel"} => slk.locked = TRUE
  /\ Pc[p] = "sl_set" \/ state[p] = "SLEEPING" =>
       slk.locked = TRUE \/ \E q \in Procs \ {p} : Pc[q] = "wake" /\ Wk[q] <= p

IInv == /\ TypeOK /\ Placement /\ Conditions /\ PLocks /\ LkHeld /\ Nesting
        /\ Owner /\ Sleepers
-----------------------------------------------------------------------------
CpuRec == [proc : 0..NPROC, stack : 0..NPROC, noff : 0..3, intena : BOOLEAN, ie : BOOLEAN]
ThRec == [pc : Labels, ret : Labels, back : Labels, intena : BOOLEAN, wk : 1..NPROC+1]
ScRec == [pc : {"top", "scan", "spin", "back"}, i : 1..NPROC+1]

\* What a step does to thread p and to CPU c, in terms of these parts: the thread goes
\* to l; push_off; pop_off; pop_off and a return that enables interrupts.
Moves(p, l) ==
  /\ th' \in [Procs -> ThRec]
  /\ Pc' = [Pc EXCEPT ![p] = l] /\ UNCHANGED <<Ret, Back, Wk>>

Pushes(c) ==
  /\ cpu' \in [CPUs -> CpuRec] /\ Stack' = Stack
  /\ Noff' = [Noff EXCEPT ![c] = Noff[c] + 1] /\ Ion' = Ion \ {c}

Pops(c) ==
  /\ cpu' \in [CPUs -> CpuRec] /\ Stack' = Stack
  /\ Noff' = [Noff EXCEPT ![c] = Noff[c] - 1]
  /\ Ion' \subseteq Ion \cup {c} /\ (Noff[c] # 1 => Ion' = Ion \ {c})

Traps(c) ==
  /\ cpu' \in [CPUs -> CpuRec] /\ Stack' = Stack
  /\ Noff' = [Noff EXCEPT ![c] = Noff[c] - 1] /\ Ion' = Ion \cup {c}

Switches(c, p) ==
  /\ cpu' \in [CPUs -> CpuRec] /\ Stack' = [Stack EXCEPT ![c] = p]
  /\ Noff' = Noff /\ Ion' = Ion

\* The parts have the types of the fields they are made of.
LEMMA ViewsOK == ASSUME TypeOK PROVE Views
BY Zenon DEF TypeOK, Views, Pc, Ret, Back, Wk, Stack, Noff, Sp, Si

\* One cpu record is replaced.
LEMMA CpuEffect ==
  ASSUME TypeOK, NEW c \in CPUs, NEW r \in CpuRec, cpu' = [cpu EXCEPT ![c] = r]
  PROVE  /\ cpu' \in [CPUs -> CpuRec]
         /\ Stack' = [Stack EXCEPT ![c] = r.stack]
         /\ Noff' = [Noff EXCEPT ![c] = r.noff]
         /\ Ion' = IF r.ie THEN Ion \cup {c} ELSE Ion \ {c}
<1>1. cpu \in [CPUs -> CpuRec] /\ cpu' \in [CPUs -> CpuRec]
  BY Zenon DEF TypeOK, CpuRec
<1>2. Stack' = [Stack EXCEPT ![c] = r.stack]
  BY <1>1, Zenon DEF Stack
<1>3. Noff' = [Noff EXCEPT ![c] = r.noff]
  BY <1>1, Zenon DEF Noff
<1>4. \A d \in CPUs : cpu'[d] = IF d = c THEN r ELSE cpu[d]
  BY <1>1, Zenon
<1>5. \A d \in CPUs : cpu'[d].ie <=> IF d = c THEN r.ie ELSE cpu[d].ie
  BY <1>4, Zenon
<1>6. \A d : d \in Ion' <=> d \in IF r.ie THEN Ion \cup {c} ELSE Ion \ {c}
  BY <1>5, Zenon DEF Ion
<1>7. Ion' = IF r.ie THEN Ion \cup {c} ELSE Ion \ {c}
  BY <1>6, Zenon
<1> QED
  BY <1>1, <1>2, <1>3, <1>7, Zenon

\* push_off and pop_off change noff by one; push_off disables interrupts, and
\* pop_off enables them at the outermost level only.
LEMMA PushPop ==
  ASSUME NEW r \in CpuRec
  PROVE  /\ r.noff < 3 => /\ PushOff(r) \in CpuRec /\ PushOff(r).stack = r.stack
                          /\ PushOff(r).noff = r.noff + 1 /\ ~PushOff(r).ie
         /\ r.noff > 0 => /\ PopOff(r) \in CpuRec /\ PopOff(r).stack = r.stack
                          /\ PopOff(r).noff = r.noff - 1
                          /\ r.noff # 1 => ~PopOff(r).ie
<1>1. ASSUME r.noff < 3
      PROVE  /\ PushOff(r) \in CpuRec /\ PushOff(r).stack = r.stack
             /\ PushOff(r).noff = r.noff + 1 /\ ~PushOff(r).ie
  <2>1. PICK b \in BOOLEAN : b = IF r.noff = 0 THEN r.ie ELSE r.intena
    BY Zenon DEF CpuRec
  <2>2. PushOff(r) = [r EXCEPT !.intena = b, !.noff = r.noff + 1, !.ie = FALSE]
    BY <2>1, Zenon DEF PushOff
  <2>3. PICK n \in 0..3 : n = r.noff + 1
    BY <1>1, SMT, Z3 DEF CpuRec
  <2>4. [r EXCEPT !.intena = b, !.noff = n, !.ie = FALSE] \in CpuRec
    BY Zenon DEF CpuRec
  <2>5. PushOff(r).stack = r.stack /\ PushOff(r).noff = r.noff + 1 /\ PushOff(r).ie = FALSE
    BY <2>2, Zenon DEF CpuRec
  <2> QED
    BY <2>2, <2>3, <2>4, <2>5, Zenon
<1>2. ASSUME r.noff > 0
      PROVE  /\ PopOff(r) \in CpuRec /\ PopOff(r).stack = r.stack
             /\ PopOff(r).noff = r.noff - 1
             /\ r.noff # 1 => ~PopOff(r).ie
  <2>1. PICK b \in BOOLEAN : b = (r.noff = 1 /\ r.intena)
    BY Zenon
  <2>2. PopOff(r) = [r EXCEPT !.noff = r.noff - 1, !.ie = b]
    BY <2>1, Zenon DEF PopOff
  <2>3. PopOff(r) \in CpuRec /\ PopOff(r).stack = r.stack /\ PopOff(r).noff = r.noff - 1
        /\ PopOff(r).ie = b
    <3>1. PICK n \in 0..3 : n = r.noff - 1
      BY <1>2, SMT, Z3 DEF CpuRec
    <3>2. [r EXCEPT !.noff = n, !.ie = b] \in CpuRec
      BY Zenon DEF CpuRec
    <3>3. PopOff(r).stack = r.stack /\ PopOff(r).noff = r.noff - 1 /\ PopOff(r).ie = b
      BY <2>2, Zenon DEF CpuRec
    <3> QED
      BY <2>2, <3>1, <3>2, <3>3, Zenon
  <2> QED
    BY <2>1, <2>3, Zenon
<1> QED
  BY <1>1, <1>2, Zenon

\* acquire's push_off.
LEMMA EnterEffect ==
  ASSUME TypeOK, NEW c \in CPUs, Noff[c] < 3, Enter(c)
  PROVE  Pushes(c)
<1>1. PICK r \in CpuRec : r = cpu[c] /\ r.noff < 3 /\ r.noff = Noff[c] /\ r.stack = Stack[c]
  BY Zenon DEF TypeOK, CpuRec, Noff, Stack
<1>2. cpu' = [cpu EXCEPT ![c] = PushOff(r)]
  BY <1>1, Zenon DEF Enter
<1>3. /\ PushOff(r) \in CpuRec /\ PushOff(r).stack = r.stack
      /\ PushOff(r).noff = r.noff + 1 /\ ~PushOff(r).ie
  BY <1>1, PushPop, Zenon
<1>4. /\ cpu' \in [CPUs -> CpuRec] /\ Ion' = Ion \ {c}
      /\ Stack' = [Stack EXCEPT ![c] = Stack[c]] /\ Noff' = [Noff EXCEPT ![c] = Noff[c] + 1]
  <2>1. PICK t \in CpuRec : t = PushOff(r)
    BY <1>3, Zenon
  <2>2. /\ cpu' \in [CPUs -> CpuRec] /\ Stack' = [Stack EXCEPT ![c] = t.stack]
        /\ Noff' = [Noff EXCEPT ![c] = t.noff]
        /\ Ion' = IF t.ie THEN Ion \cup {c} ELSE Ion \ {c}
    BY <1>2, <2>1, CpuEffect, Zenon
  <2> QED
    BY <1>1, <1>3, <2>1, <2>2, Zenon
<1> QED
  BY <1>4, ViewsOK, Zenon DEF Views, Pushes

\* release's pop_off, also where sched has just restored intena.
LEMMA LeaveEffect ==
  ASSUME TypeOK, NEW c \in CPUs, Noff[c] > 0,
         Leave(c) \/ \E p \in Procs : Resume(p, c)
  PROVE  Pops(c)
<1>1. PICK r \in CpuRec : /\ r.noff > 0 /\ r.noff = Noff[c] /\ r.stack = Stack[c]
                          /\ cpu' = [cpu EXCEPT ![c] = PopOff(r)]
  <2>1. CASE Leave(c)
    BY <2>1, Zenon DEF Leave, TypeOK, CpuRec, Noff, Stack
  <2>2. ASSUME NEW p \in Procs, Resume(p, c)
        PROVE  \E r \in CpuRec : /\ r.noff > 0 /\ r.noff = Noff[c] /\ r.stack = Stack[c]
                                 /\ cpu' = [cpu EXCEPT ![c] = PopOff(r)]
    <3>1. PICK b \in BOOLEAN : b = th[p].intena
      BY Zenon DEF TypeOK
    <3>2. PICK r \in CpuRec : r = cpu[c]
      BY Zenon DEF TypeOK, CpuRec
    <3>3. [r EXCEPT !.intena = b] \in CpuRec
      BY Zenon DEF CpuRec
    <3> QED
      BY <2>2, <3>1, <3>2, <3>3, Zenon DEF Resume, TypeOK, CpuRec, Noff, Stack
  <2> QED
    BY <2>1, <2>2, Zenon
<1>2. /\ PopOff(r) \in CpuRec /\ PopOff(r).stack = r.stack
      /\ PopOff(r).noff = r.noff - 1 /\ (r.noff # 1 => ~PopOff(r).ie)
  BY <1>1, PushPop, Zenon
<1>3. /\ cpu' \in [CPUs -> CpuRec]
      /\ Ion' = IF PopOff(r).ie THEN Ion \cup {c} ELSE Ion \ {c}
      /\ Stack' = [Stack EXCEPT ![c] = Stack[c]] /\ Noff' = [Noff EXCEPT ![c] = Noff[c] - 1]
  <2>1. PICK t \in CpuRec : t = PopOff(r)
    BY <1>2, Zenon
  <2>2. /\ cpu' \in [CPUs -> CpuRec] /\ Stack' = [Stack EXCEPT ![c] = t.stack]
        /\ Noff' = [Noff EXCEPT ![c] = t.noff]
        /\ Ion' = IF t.ie THEN Ion \cup {c} ELSE Ion \ {c}
    BY <1>1, <2>1, CpuEffect, Zenon
  <2> QED
    BY <1>1, <1>2, <2>1, <2>2, Zenon
<1>4. Ion' \subseteq Ion \cup {c} /\ (Noff[c] # 1 => Ion' = Ion \ {c})
  BY <1>1, <1>2, <1>3, Zenon
<1> QED
  BY <1>3, <1>4, ViewsOK, Zenon DEF Views, Pops

\* One step of a kernel thread.
LEMMA GotoEffect ==
  ASSUME TypeOK, NEW p \in Procs, NEW l \in Labels, Goto(p, l)
  PROVE  Moves(p, l)
<1>1. th \in [Procs -> ThRec] /\ th' \in [Procs -> ThRec]
  BY SMTT(30), Z3T(30) DEF TypeOK, ThRec, Goto
<1> QED
  BY <1>1, Zenon DEF ThRec, Moves, Goto, Pc, Ret, Back, Wk

\* The cpu record of CPU c as a value of its own.
LEMMA CpuOf ==
  ASSUME TypeOK, NEW c \in CPUs
  PROVE  \E r \in CpuRec : /\ r = cpu[c] /\ r.noff = Noff[c] /\ r.stack = Stack[c]
                           /\ (r.ie <=> c \in Ion)
<1>1. PICK r \in CpuRec : r = cpu[c]
  BY Zenon DEF TypeOK, CpuRec
<1>2. r.noff = Noff[c] /\ r.stack = Stack[c]
  BY <1>1, Zenon DEF Noff, Stack
<1>3. r.ie <=> c \in Ion
  BY <1>1, Zenon DEF Ion
<1> QED
  BY <1>1, <1>2, <1>3, Zenon

\* swtch changes the stack and nothing else that the invariant speaks about.
LEMMA SwitchEffect ==
  ASSUME TypeOK, NEW c \in CPUs, NEW n \in 0..NPROC,
         \/ cpu' = [cpu EXCEPT ![c].stack = n]
         \/ cpu' = [cpu EXCEPT ![c].proc = n, ![c].stack = n]
  PROVE  Switches(c, n)
<1>1. PICK r \in CpuRec : /\ r = cpu[c] /\ r.noff = Noff[c] /\ r.stack = Stack[c]
                          /\ (r.ie <=> c \in Ion)
  BY CpuOf, Zenon
<1>2. PICK t \in CpuRec : /\ cpu' = [cpu EXCEPT ![c] = t]
                          /\ t.stack = n /\ t.noff = r.noff /\ t.ie = r.ie
  <2>1. CASE cpu' = [cpu EXCEPT ![c].stack = n]
    <3>1. [r EXCEPT !.stack = n] \in CpuRec
      BY Zenon DEF CpuRec
    <3>2. /\ [r EXCEPT !.stack = n].stack = n /\ [r EXCEPT !.stack = n].noff = r.noff
          /\ [r EXCEPT !.stack = n].ie = r.ie
      BY Zenon DEF CpuRec
    <3>3. cpu' = [cpu EXCEPT ![c] = [r EXCEPT !.stack = n]]
      BY <1>1, <2>1, Zenon
    <3> QED
      BY <3>1, <3>2, <3>3, Zenon
  <2>2. CASE cpu' = [cpu EXCEPT ![c].proc = n, ![c].stack = n]
    <3>1. [r EXCEPT !.proc = n, !.stack = n] \in CpuRec
      BY Zenon DEF CpuRec
    <3>2. /\ [r EXCEPT !.proc = n, !.stack = n].stack = n
          /\ [r EXCEPT !.proc = n, !.stack = n].noff = r.noff
          /\ [r EXCEPT !.proc = n, !.stack = n].ie = r.ie
      BY Zenon DEF CpuRec
    <3>3. cpu' = [cpu EXCEPT ![c] = [r EXCEPT !.proc = n, !.stack = n]]
      BY <1>1, <2>2, Zenon DEF TypeOK
    <3> QED
      BY <3>1, <3>2, <3>3, Zenon
  <2> QED
    BY <2>1, <2>2, Zenon
<1>3. /\ cpu' \in [CPUs -> CpuRec] /\ Stack' = [Stack EXCEPT ![c] = n]
      /\ Noff' = [Noff EXCEPT ![c] = Noff[c]]
      /\ Ion' = IF c \in Ion THEN Ion \cup {c} ELSE Ion \ {c}
  <2>1. /\ cpu' \in [CPUs -> CpuRec] /\ Stack' = [Stack EXCEPT ![c] = t.stack]
        /\ Noff' = [Noff EXCEPT ![c] = t.noff]
        /\ Ion' = IF t.ie THEN Ion \cup {c} ELSE Ion \ {c}
    BY <1>2, CpuEffect, ZenonT(30)
  <2> QED
    BY <1>1, <1>2, <2>1, Zenon
<1>4. Ion' = Ion
  BY <1>3, Zenon
<1>5. Noff' = Noff
  BY <1>3, ViewsOK, Zenon DEF Views
<1> QED
  BY <1>3, <1>4, <1>5, Zenon DEF Switches

\* The trap return after yield, and forkret, enable interrupts.
LEMMA TrapReturnEffect ==
  ASSUME TypeOK, NEW c \in CPUs, NEW r \in CpuRec, r.noff = Noff[c], r.stack = Stack[c],
         r.noff > 0, cpu' = [cpu EXCEPT ![c] = [PopOff(r) EXCEPT !.ie = TRUE]]
  PROVE  Traps(c)
<1>1. PICK s \in CpuRec : s = PopOff(r) /\ s.stack = Stack[c] /\ s.noff = Noff[c] - 1
  BY PushPop, SMT, Z3
<1>2. [s EXCEPT !.ie = TRUE] \in CpuRec
  BY Zenon DEF CpuRec
<1>3. /\ [s EXCEPT !.ie = TRUE].stack = Stack[c] /\ [s EXCEPT !.ie = TRUE].noff = Noff[c] - 1
      /\ [s EXCEPT !.ie = TRUE].ie = TRUE
  BY <1>1, Zenon DEF CpuRec
<1>4. PICK t \in CpuRec : /\ cpu' = [cpu EXCEPT ![c] = t] /\ t.stack = Stack[c]
                          /\ t.noff = Noff[c] - 1 /\ t.ie = TRUE
  BY <1>1, <1>2, <1>3, Zenon
<1>5. /\ cpu' \in [CPUs -> CpuRec] /\ Stack' = [Stack EXCEPT ![c] = Stack[c]]
      /\ Noff' = [Noff EXCEPT ![c] = Noff[c] - 1]
      /\ Ion' = IF t.ie THEN Ion \cup {c} ELSE Ion \ {c}
  <2>1. /\ cpu' \in [CPUs -> CpuRec] /\ Stack' = [Stack EXCEPT ![c] = t.stack]
        /\ Noff' = [Noff EXCEPT ![c] = t.noff]
        /\ Ion' = IF t.ie THEN Ion \cup {c} ELSE Ion \ {c}
    BY <1>4, CpuEffect, Zenon
  <2> QED
    BY <1>4, <2>1, Zenon
<1>6. Ion' = Ion \cup {c}
  BY <1>4, <1>5, Zenon
<1> QED
  BY <1>5, <1>6, ViewsOK, Zenon DEF Views, Traps

\* One thread record is replaced.
LEMMA ThEffect ==
  ASSUME TypeOK, NEW p \in Procs, NEW t \in ThRec, th' = [th EXCEPT ![p] = t]
  PROVE  /\ th' \in [Procs -> ThRec] /\ Pc' = [Pc EXCEPT ![p] = t.pc]
         /\ Ret' = [Ret EXCEPT ![p] = t.ret] /\ Back' = [Back EXCEPT ![p] = t.back]
         /\ Wk' = [Wk EXCEPT ![p] = t.wk]
<1>1. th \in [Procs -> ThRec] /\ th' \in [Procs -> ThRec]
  BY Zenon DEF TypeOK, ThRec
<1> QED
  BY <1>1, Zenon DEF Pc, Ret, Back, Wk

\* The thread record of p as a value of its own.
LEMMA ThOf ==
  ASSUME TypeOK, NEW p \in Procs
  PROVE  \E r \in ThRec : /\ r = th[p] /\ r.pc = Pc[p] /\ r.ret = Ret[p]
                          /\ r.back = Back[p] /\ r.wk = Wk[p]
<1>1. PICK r \in ThRec : r = th[p]
  BY Zenon DEF TypeOK, ThRec
<1> QED
  BY <1>1, Zenon DEF Pc, Ret, Back, Wk

\* One scheduler record is replaced.
LEMMA ScEffect ==
  ASSUME TypeOK, NEW c \in CPUs, NEW s \in ScRec, sc' = [sc EXCEPT ![c] = s]
  PROVE  /\ sc' \in [CPUs -> ScRec]
         /\ Sp' = [Sp EXCEPT ![c] = s.pc] /\ Si' = [Si EXCEPT ![c] = s.i]
<1>1. sc \in [CPUs -> ScRec] /\ sc' \in [CPUs -> ScRec]
  BY Zenon DEF TypeOK, ScRec
<1> QED
  BY <1>1, Zenon DEF Sp, Si

\* A thread on CPU c was put there by c's scheduler, and noff is its depth.
LEMMA OnCpu ==
  ASSUME IInv, NEW p \in Procs, NEW c \in CPUs, NEW l \in Labels, At(p, c, l)
  PROVE  /\ Views /\ Stack[c] = p /\ Pc[p] = l
         /\ Sp[c] = "back" /\ Si[c] = p /\ Noff[c] = Depth(l)
         /\ \A d \in CPUs : d # c => Stack[d] # p
<1>1. Views
  BY ViewsOK, Zenon DEF IInv
<1>2. Stack[c] = p /\ Pc[p] = l /\ p # 0
  BY SMT, Z3 DEF At, Stack, Pc, Procs
<1>3. Sp[c] = "back" /\ Si[c] = p /\ \A d \in CPUs : d # c => Stack[d] # p
  BY <1>2, Zenon DEF IInv, Placement
<1>4. Noff[c] = Depth(l)
  BY <1>2, Zenon DEF IInv, Nesting
<1> QED
  BY <1>1, <1>2, <1>3, <1>4, Zenon

\* acquiresleep calls acquire.
LEMMA AcquireSleepStep ==
  ASSUME IInv, NEW p \in Procs, NEW c \in CPUs, AcquireSleep(p, c)
  PROVE  IInv'
<1>1. Views
  BY ViewsOK, Zenon DEF IInv
<1>2. /\ Stack[c] = p /\ Sp[c] = "back" /\ Si[c] = p /\ Noff[c] = 0
      /\ Pc[p] \in {"out", "as"}
      /\ \A d \in CPUs : d # c => Stack[d] # p
  BY OnCpu, SMT, Z3 DEF AcquireSleep, Labels, Depth, Open
<1>3. Moves(p, "as_spin")
  BY GotoEffect, Zenon DEF IInv, AcquireSleep, Labels
<1>4. Pushes(c)
  BY <1>2, EnterEffect, SMT, Z3 DEF IInv, AcquireSleep
<1>5. UNCHANGED <<plock, lk, slk, state, chan, Chan, sc, Sp, Si>>
  BY <1>1, <1>2, Zenon DEF IInv, TypeOK, AcquireSleep, Chan, Sp, Si, ScRec, Procs
<1>6. TypeOK'
  BY <1>3, <1>4, <1>5, Zenon DEF IInv, TypeOK, CpuRec, ThRec, ScRec, Moves, Pushes
<1>7. Placement'
  BY <1>1, <1>2, <1>3, <1>4, <1>5, Zenon DEF IInv, Views, Moves, Pushes, Placement
<1>8. Conditions'
  BY <1>1, <1>2, <1>3, <1>4, <1>5, SMT, Z3 DEF IInv, Views, Moves, Pushes, Conditions
<1>9. PLocks'
  BY <1>1, <1>2, <1>3, <1>4, <1>5, SMT, Z3 DEF IInv, Views, Moves, Pushes, PLocks, PLabels
<1>10. LkHeld'
  BY <1>1, <1>2, <1>3, <1>4, <1>5, Zenon DEF IInv, Views, Moves, Pushes, LkHeld, LkLabels
<1>11. Nesting'
  BY <1>1, <1>2, <1>3, <1>4, <1>5, SMT, Z3 DEF IInv, Views, Moves, Pushes, Nesting, Depth, Open
<1>12. Owner'
  BY <1>1, <1>3, <1>5, Zenon DEF IInv, Views, Moves, Owner
<1>13. Sleepers'
  BY <1>1, <1>2, <1>3, <1>5, Zenon DEF IInv, Views, Moves, Sleepers
<1> QED
  BY <1>6, <1>7, <1>8, <1>9, <1>10, <1>11, <1>12, <1>13, Zenon DEF IInv

\* acquiresleep gets the spinlock.
LEMMA AcquireSleepSpinStep ==
  ASSUME IInv, NEW p \in Procs, NEW c \in CPUs, AcquireSleepSpin(p, c)
  PROVE  IInv'
<1>1. Views
  BY ViewsOK, Zenon DEF IInv
<1>2. /\ Stack[c] = p /\ Sp[c] = "back" /\ Si[c] = p /\ Noff[c] = 1
      /\ Pc[p] = "as_spin"
      /\ \A d \in CPUs : d # c => Stack[d] # p
      /\ lk = None
  <2>1. /\ Stack[c] = p /\ Sp[c] = "back" /\ Si[c] = p /\ Noff[c] = 1
        /\ Pc[p] = "as_spin"
        /\ \A d \in CPUs : d # c => Stack[d] # p
    BY OnCpu, SMT, Z3 DEF AcquireSleepSpin, Labels, Depth, Open
  <2> QED
    BY <1>1, <2>1, Zenon DEF IInv, Views, AcquireSleepSpin, TypeOK
<1>3. Moves(p, "as_test")
  BY GotoEffect, Zenon DEF IInv, AcquireSleepSpin, Labels
<1>4. UNCHANGED <<cpu, Stack, Noff, Ion>>
  BY Zenon DEF AcquireSleepSpin, Stack, Noff, Ion
<1>5. /\ lk' = c
      /\ UNCHANGED <<plock, slk, state, chan, Chan, sc, Sp, Si>>
  BY <1>1, <1>2, Zenon DEF IInv, TypeOK, AcquireSleepSpin, Chan, Sp, Si, ScRec, Procs
<1>6. TypeOK'
  BY <1>3, <1>4, <1>5, Zenon DEF IInv, TypeOK, CpuRec, ThRec, ScRec, Moves
<1>7. Placement'
  BY <1>1, <1>2, <1>3, <1>4, <1>5, Zenon DEF IInv, Views, Moves, Placement
<1>8. Conditions'
  BY <1>1, <1>2, <1>3, <1>4, <1>5, SMT, Z3 DEF IInv, Views, Moves, Conditions
<1>9. PLocks'
  BY <1>1, <1>2, <1>3, <1>4, <1>5, SMT, Z3 DEF IInv, Views, Moves, PLocks, PLabels
<1>10. LkHeld'
  BY <1>1, <1>2, <1>3, <1>4, <1>5, SchedAssumption, SMT, Z3 DEF IInv, Views, Moves, LkHeld,
     LkLabels
<1>11. Nesting'
  BY <1>1, <1>2, <1>3, <1>4, <1>5, SMT, Z3 DEF IInv, Views, Moves, Nesting, Depth, Open
<1>12. Owner'
  BY <1>1, <1>3, <1>5, Zenon DEF IInv, Views, Moves, Owner
<1>13. Sleepers'
  BY <1>1, <1>2, <1>3, <1>5, SMT, Z3 DEF IInv, Views, Moves, Sleepers
<1> QED
  BY <1>6, <1>7, <1>8, <1>9, <1>10, <1>11, <1>12, <1>13, Zenon DEF IInv

\* The sleeplock is taken: sleep is called.
LEMMA AcquireSleepTakenStep ==
  ASSUME IInv, NEW p \in Procs, NEW c \in CPUs, AcquireSleepTaken(p, c)
  PROVE  IInv'
<1>1. Views
  BY ViewsOK, Zenon DEF IInv
<1>2. /\ Stack[c] = p /\ Sp[c] = "back" /\ Si[c] = p /\ Noff[c] = 1
      /\ Pc[p] = "as_test"
      /\ \A d \in CPUs : d # c => Stack[d] # p
      /\ slk.locked = TRUE
  <2>1. /\ Stack[c] = p /\ Sp[c] = "back" /\ Si[c] = p /\ Noff[c] = 1
        /\ Pc[p] = "as_test"
        /\ \A d \in CPUs : d # c => Stack[d] # p
    BY OnCpu, SMT, Z3 DEF AcquireSleepTaken, Labels, Depth, Open
  <2> QED
    BY <1>1, <2>1, Zenon DEF IInv, Views, AcquireSleepTaken, TypeOK
<1>3. Moves(p, "sl_spin")
  BY GotoEffect, Zenon DEF IInv, AcquireSleepTaken, Labels
<1>4. Pushes(c)
  BY <1>2, EnterEffect, SMT, Z3 DEF IInv, AcquireSleepTaken
<1>5. UNCHANGED <<plock, lk, slk, state, chan, Chan, sc, Sp, Si>>
  BY <1>1, <1>2, Zenon DEF IInv, TypeOK, AcquireSleepTaken, Chan, Sp, Si, ScRec, Procs
<1>6. TypeOK'
  BY <1>3, <1>4, <1>5, Zenon DEF IInv, TypeOK, CpuRec, ThRec, ScRec, Moves, Pushes
<1>7. Placement'
  BY <1>1, <1>2, <1>3, <1>4, <1>5, SMT, Z3 DEF IInv, Views, Moves, Pushes, Placement
<1>8. Conditions'
  BY <1>1, <1>2, <1>3, <1>4, <1>5, SMT, Z3 DEF IInv, Views, Moves, Pushes, Conditions
<1>9. PLocks'
  BY <1>1, <1>2, <1>3, <1>4, <1>5, SMT, Z3 DEF IInv, Views, Moves, Pushes, PLocks, PLabels
<1>10. LkHeld'
  BY <1>1, <1>2, <1>3, <1>4, <1>5, ZenonT(30) DEF IInv, Views, Moves, Pushes, LkHeld, LkLabels
<1>11. Nesting'
  BY <1>1, <1>2, <1>3, <1>4, <1>5, SMT, Z3 DEF IInv, Views, Moves, Pushes, Nesting, Depth, Open
<1>12. Owner'
  BY <1>1, <1>3, <1>5, Zenon DEF IInv, Views, Moves, Owner
<1>13. Sleepers'
  BY <1>1, <1>2, <1>5, Zenon DEF IInv, Views, Sleepers
<1> QED
  BY <1>6, <1>7, <1>8, <1>9, <1>10, <1>11, <1>12, <1>13, Zenon DEF IInv

\* The sleeplock is free and is taken.
LEMMA AcquireSleepGotStep ==
  ASSUME IInv, NEW p \in Procs, NEW c \in CPUs, AcquireSleepGot(p, c)
  PROVE  IInv'
<1>1. Views
  BY ViewsOK, Zenon DEF IInv
<1>2. /\ Stack[c] = p /\ Sp[c] = "back" /\ Si[c] = p /\ Noff[c] = 1
      /\ Pc[p] = "as_test"
      /\ \A d \in CPUs : d # c => Stack[d] # p
      /\ slk.locked = FALSE
  <2>1. /\ Stack[c] = p /\ Sp[c] = "back" /\ Si[c] = p /\ Noff[c] = 1
        /\ Pc[p] = "as_test"
        /\ \A d \in CPUs : d # c => Stack[d] # p
    BY OnCpu, SMT, Z3 DEF AcquireSleepGot, Labels, Depth, Open
  <2> QED
    BY <1>1, <2>1, Zenon DEF IInv, Views, AcquireSleepGot, TypeOK
<1>3. Moves(p, "cs")
  BY GotoEffect, Zenon DEF IInv, AcquireSleepGot, Labels
<1>4. Pops(c)
  BY <1>2, LeaveEffect, SMT, Z3 DEF IInv, AcquireSleepGot
<1>5. /\ lk' = None
      /\ slk' \in [locked : BOOLEAN, pid : 0..NPROC] /\ slk'.locked = TRUE /\ slk'.pid = p
      /\ UNCHANGED <<plock, state, chan, Chan, sc, Sp, Si>>
  <2>1. slk' = [locked |-> TRUE, pid |-> p]
    BY Zenon DEF AcquireSleepGot
  <2>2. [locked |-> TRUE, pid |-> p] \in [locked : BOOLEAN, pid : 0..NPROC]
    BY SchedAssumption, SMT, Z3 DEF Procs
  <2> QED
    BY <2>1, <2>2, SMT, Z3 DEF AcquireSleepGot, Chan, Sp, Si
<1>6. TypeOK'
  BY <1>3, <1>4, <1>5, Zenon DEF IInv, TypeOK, CpuRec, ThRec, ScRec, Moves, Pops
<1>7. Placement'
  BY <1>1, <1>2, <1>3, <1>4, <1>5, SMT, Z3 DEF IInv, Views, Moves, Pops, Placement
<1>8. Conditions'
  BY <1>1, <1>2, <1>3, <1>4, <1>5, SMT, Z3 DEF IInv, Views, Moves, Pops, Conditions
<1>9. PLocks'
  BY <1>1, <1>2, <1>3, <1>4, <1>5, SMT, Z3 DEF IInv, Views, Moves, Pops, PLocks, PLabels
<1>10. LkHeld'
  BY <1>1, <1>2, <1>3, <1>4, <1>5, SchedAssumption, SMT, Z3 DEF IInv, Views, Moves, Pops, LkHeld,
     LkLabels
<1>11. Nesting'
  BY <1>1, <1>2, <1>3, <1>4, <1>5, SMT, Z3 DEF IInv, Views, Moves, Pops, Nesting, Depth, Open
<1>12. Owner'
  BY <1>1, <1>2, <1>3, <1>5, ZenonT(30) DEF IInv, Views, Moves, Owner
<1>13. Sleepers'
  BY <1>1, <1>5, Zenon DEF IInv, Views, Sleepers
<1> QED
  BY <1>6, <1>7, <1>8, <1>9, <1>10, <1>11, <1>12, <1>13, Zenon DEF IInv

\* sleep acquires p->lock.
LEMMA SleepLockProcStep ==
  ASSUME IInv, NEW p \in Procs, NEW c \in CPUs, SleepLockProc(p, c)
  PROVE  IInv'
<1>1. Views
  BY ViewsOK, Zenon DEF IInv
<1>2. /\ Stack[c] = p /\ Sp[c] = "back" /\ Si[c] = p /\ Noff[c] = 2
      /\ Pc[p] = "sl_spin"
      /\ \A d \in CPUs : d # c => Stack[d] # p
      /\ plock[p] = None
  <2>1. /\ Stack[c] = p /\ Sp[c] = "back" /\ Si[c] = p /\ Noff[c] = 2
        /\ Pc[p] = "sl_spin"
        /\ \A d \in CPUs : d # c => Stack[d] # p
    BY OnCpu, SMT, Z3 DEF SleepLockProc, Labels, Depth, Open
  <2> QED
    BY <1>1, <2>1, Zenon DEF IInv, Views, SleepLockProc, TypeOK
<1>3. Moves(p, "sl_rel")
  BY GotoEffect, Zenon DEF IInv, SleepLockProc, Labels
<1>4. UNCHANGED <<cpu, Stack, Noff, Ion>>
  BY Zenon DEF SleepLockProc, Stack, Noff, Ion
<1>5. /\ plock' = [plock EXCEPT ![p] = c]
      /\ UNCHANGED <<lk, slk, state, chan, Chan, sc, Sp, Si>>
  BY <1>1, <1>2, Zenon DEF IInv, TypeOK, SleepLockProc, Chan, Sp, Si, ScRec, Procs
<1>6. TypeOK'
  <2>1. plock' \in [Procs -> CPUs \cup {None}]
    BY <1>1, <1>5, Zenon DEF Views
  <2> QED
    BY <1>3, <1>4, <1>5, <2>1, Zenon DEF IInv, TypeOK, CpuRec, ThRec, ScRec, Moves
<1>7. Placement'
  BY <1>1, <1>2, <1>3, <1>4, <1>5, SMT, Z3 DEF IInv, Views, Moves, Placement
<1>8. Conditions'
  BY <1>1, <1>2, <1>3, <1>4, <1>5, SMT, Z3 DEF IInv, Views, Moves, Conditions
<1>9. PLocks'
  BY <1>1, <1>2, <1>3, <1>4, <1>5, SchedAssumption, SMT, Z3 DEF IInv, Views, Moves, PLocks,
     PLabels
<1>10. LkHeld'
  BY <1>1, <1>2, <1>3, <1>4, <1>5, Zenon DEF IInv, Views, Moves, LkHeld, LkLabels
<1>11. Nesting'
  BY <1>1, <1>2, <1>3, <1>4, <1>5, SMT, Z3 DEF IInv, Views, Moves, Nesting, Depth, Open
<1>12. Owner'
  BY <1>1, <1>3, <1>5, ZenonT(30) DEF IInv, Views, Moves, Owner
<1>13. Sleepers'
  BY <1>1, <1>2, <1>5, Zenon DEF IInv, Views, Sleepers
<1> QED
  BY <1>6, <1>7, <1>8, <1>9, <1>10, <1>11, <1>12, <1>13, Zenon DEF IInv

\* sleep releases the condition lock.
LEMMA SleepReleaseStep ==
  ASSUME IInv, NEW p \in Procs, NEW c \in CPUs, SleepRelease(p, c)
  PROVE  IInv'
<1>1. Views
  BY ViewsOK, Zenon DEF IInv
<1>2. /\ Stack[c] = p /\ Sp[c] = "back" /\ Si[c] = p /\ Noff[c] = 2
      /\ Pc[p] = "sl_rel"
      /\ \A d \in CPUs : d # c => Stack[d] # p
  BY OnCpu, SMT, Z3 DEF SleepRelease, Labels, Depth, Open
<1>3. Moves(p, "sl_set")
  BY GotoEffect, Zenon DEF IInv, SleepRelease, Labels
<1>4. Pops(c)
  BY <1>2, LeaveEffect, SMT, Z3 DEF IInv, SleepRelease
<1>5. /\ lk' = None
      /\ UNCHANGED <<plock, slk, state, chan, Chan, sc, Sp, Si>>
  BY <1>1, <1>2, Zenon DEF IInv, TypeOK, SleepRelease, Chan, Sp, Si, ScRec, Procs
<1>6. TypeOK'
  BY <1>3, <1>4, <1>5, Zenon DEF IInv, TypeOK, CpuRec, ThRec, ScRec, Moves, Pops
<1>7. Placement'
  BY <1>1, <1>2, <1>3, <1>4, <1>5, SMT, Z3 DEF IInv, Views, Moves, Pops, Placement
<1>8. Conditions'
  BY <1>1, <1>2, <1>3, <1>4, <1>5, SMT, Z3 DEF IInv, Views, Moves, Pops, Conditions
<1>9. PLocks'
  BY <1>1, <1>2, <1>3, <1>4, <1>5, SMT, Z3 DEF IInv, Views, Moves, Pops, PLocks, PLabels
<1>10. LkHeld'
  BY <1>1, <1>2, <1>3, <1>4, <1>5, SchedAssumption, SMTT(30), Z3T(30)
     DEF IInv, Views, Moves, Pops, LkHeld,
     LkLabels
<1>11. Nesting'
  BY <1>1, <1>2, <1>3, <1>4, <1>5, SMT, Z3 DEF IInv, Views, Moves, Pops, Nesting, Depth, Open
<1>12. Owner'
  BY <1>1, <1>3, <1>5, Zenon DEF IInv, Views, Moves, Owner
<1>13. Sleepers'
  BY <1>1, <1>2, <1>5, Zenon DEF IInv, Views, Sleepers
<1> QED
  BY <1>6, <1>7, <1>8, <1>9, <1>10, <1>11, <1>12, <1>13, Zenon DEF IInv

\* sleep sets the channel and the state.
LEMMA SleepSetStep ==
  ASSUME IInv, NEW p \in Procs, NEW c \in CPUs, SleepSet(p, c)
  PROVE  IInv'
<1>1. Views
  BY ViewsOK, Zenon DEF IInv
<1>2. /\ Stack[c] = p /\ Sp[c] = "back" /\ Si[c] = p /\ Noff[c] = 1
      /\ Pc[p] = "sl_set"
      /\ \A d \in CPUs : d # c => Stack[d] # p
  BY OnCpu, SMT, Z3 DEF SleepSet, Labels, Depth, Open
<1>3. /\ th' \in [Procs -> ThRec] /\ Pc' = [Pc EXCEPT ![p] = "swtch"]
      /\ Ret' = [Ret EXCEPT ![p] = "sl_ret"] /\ UNCHANGED <<Back, Wk>>
  <2>1. PICK r \in ThRec : /\ r = th[p] /\ r.pc = Pc[p] /\ r.ret = Ret[p]
                           /\ r.back = Back[p] /\ r.wk = Wk[p]
    BY ThOf, Zenon DEF IInv
  <2>2. [r EXCEPT !.pc = "swtch", !.ret = "sl_ret"] \in ThRec
    BY Zenon DEF ThRec, Labels
  <2>3. PICK t \in ThRec : t = [r EXCEPT !.pc = "swtch", !.ret = "sl_ret"]
    BY <2>2, Zenon
  <2>4. /\ t.pc = "swtch" /\ t.ret = "sl_ret"
        /\ t.back = Back[p] /\ t.wk = Wk[p]
    BY <2>1, <2>3, Zenon DEF ThRec
  <2>5. th' = [th EXCEPT ![p] = t]
    BY <1>2, <2>1, <2>3, Zenon DEF SleepSet, IInv, TypeOK, Pc, Wk
  <2>6. /\ th' \in [Procs -> ThRec] /\ Pc' = [Pc EXCEPT ![p] = t.pc]
        /\ Ret' = [Ret EXCEPT ![p] = t.ret] /\ Back' = [Back EXCEPT ![p] = t.back]
        /\ Wk' = [Wk EXCEPT ![p] = t.wk]
    BY <2>5, ThEffect, Zenon DEF IInv
  <2> QED
    BY <1>1, <2>4, <2>6, Zenon DEF Views
<1>4. UNCHANGED <<cpu, Stack, Noff, Ion>>
  BY Zenon DEF SleepSet, Stack, Noff, Ion
<1>5. /\ state' = [state EXCEPT ![p] = "SLEEPING"]
      /\ Chan' = Chan \cup {p}
      /\ UNCHANGED <<plock, lk, slk, sc, Sp, Si>>
  BY <1>1, <1>2, SMT, Z3 DEF IInv, TypeOK, SleepSet, Chan, Sp, Si, ScRec, Procs
<1>6. TypeOK'
  <2>1. state' \in [Procs -> {"SLEEPING", "RUNNABLE", "RUNNING"}]
    BY <1>1, <1>5, Zenon DEF Views
  <2>2. chan' \in [Procs -> BOOLEAN]
    BY Zenon DEF IInv, TypeOK, SleepSet
  <2> QED
    BY <1>3, <1>4, <1>5, <2>1, <2>2, Zenon DEF IInv, TypeOK, CpuRec, ThRec, ScRec
<1>7. Placement'
  BY <1>1, <1>2, <1>3, <1>4, <1>5, Zenon DEF IInv, Views, Placement
<1>8. Conditions'
  BY <1>1, <1>3, <1>4, <1>5, SMT, Z3 DEF IInv, Views, Conditions
<1>9. PLocks'
  BY <1>1, <1>2, <1>3, <1>4, <1>5, SMT, Z3 DEF IInv, Views, PLocks, PLabels
<1>10. LkHeld'
  BY <1>1, <1>2, <1>3, <1>4, <1>5, Zenon DEF IInv, Views, LkHeld, LkLabels
<1>11. Nesting'
  BY <1>1, <1>2, <1>3, <1>4, <1>5, SMT, Z3 DEF IInv, Views, Nesting, Depth, Open
<1>12. Owner'
  BY <1>1, <1>3, <1>5, Zenon DEF IInv, Views, Owner
<1>13. Sleepers'
  BY <1>1, <1>2, <1>3, <1>5, Zenon DEF IInv, Views, Sleepers
<1> QED
  BY <1>6, <1>7, <1>8, <1>9, <1>10, <1>11, <1>12, <1>13, Zenon DEF IInv

\* sched switches to the scheduler.
LEMMA SwtchStep ==
  ASSUME IInv, NEW p \in Procs, NEW c \in CPUs, Swtch(p, c)
  PROVE  IInv'
<1>1. Views
  BY ViewsOK, Zenon DEF IInv
<1>2. PICK l \in {"sl_ret", "y_ret"} :
      /\ Stack[c] = p /\ Sp[c] = "back" /\ Si[c] = p /\ Noff[c] = 1
      /\ Pc[p] = "swtch"
      /\ \A d \in CPUs : d # c => Stack[d] # p
      /\ l = Ret[p]
      /\ state[p] = IF l = "sl_ret" THEN "SLEEPING" ELSE "RUNNABLE"
  <2>1. /\ Stack[c] = p /\ Sp[c] = "back" /\ Si[c] = p /\ Noff[c] = 1
        /\ Pc[p] = "swtch"
        /\ \A d \in CPUs : d # c => Stack[d] # p
    BY OnCpu, SMT, Z3 DEF Swtch, Labels, Depth, Open
  <2> QED
    BY <1>1, <2>1, Zenon DEF IInv, Views, Swtch, Conditions
<1>3. Moves(p, l)
  <2>1. PICK r \in ThRec : /\ r = th[p] /\ r.pc = Pc[p] /\ r.ret = Ret[p]
                           /\ r.back = Back[p] /\ r.wk = Wk[p]
    BY ThOf, Zenon DEF IInv
  <2>2. PICK b \in BOOLEAN : b = cpu[c].intena
    BY Zenon DEF IInv, TypeOK
  <2>3. PICK k \in Labels : k = l
    BY Zenon DEF Labels
  <2>4. PICK t \in ThRec : t = [r EXCEPT !.pc = k, !.intena = b]
    BY Zenon DEF ThRec
  <2>5. t.pc = l /\ t.ret = Ret[p] /\ t.back = Back[p] /\ t.wk = Wk[p]
    BY <2>1, <2>3, <2>4, Zenon DEF ThRec
  <2>6. th' = [th EXCEPT ![p] = t]
    BY <1>2, <2>1, <2>2, <2>3, <2>4, Zenon DEF Swtch, Ret, IInv, TypeOK
  <2>7. /\ th' \in [Procs -> ThRec] /\ Pc' = [Pc EXCEPT ![p] = t.pc]
        /\ Ret' = [Ret EXCEPT ![p] = t.ret] /\ Back' = [Back EXCEPT ![p] = t.back]
        /\ Wk' = [Wk EXCEPT ![p] = t.wk]
    BY <2>6, ThEffect, Zenon DEF IInv
  <2> QED
    BY <1>1, <2>5, <2>7, Zenon DEF Views, Moves
<1>4. Switches(c, 0)
  <2>1. 0 \in 0..NPROC /\ cpu' = [cpu EXCEPT ![c].stack = 0]
    BY SchedAssumption, SMT, Z3 DEF Swtch
  <2> QED
    BY <2>1, SwitchEffect, Zenon DEF IInv
<1>5. UNCHANGED <<plock, lk, slk, state, chan, Chan, sc, Sp, Si>>
  BY <1>1, <1>2, Zenon DEF IInv, TypeOK, Swtch, Chan, Sp, Si, ScRec, Procs
<1>6. TypeOK'
  BY <1>3, <1>4, <1>5, Zenon DEF IInv, TypeOK, CpuRec, ThRec, ScRec, Moves, Switches
<1>7. Placement'
  BY <1>1, <1>2, <1>3, <1>4, <1>5, SMT, Z3 DEF IInv, Views, Moves, Switches, Placement, Parked
<1>8. Conditions'
  BY <1>1, <1>2, <1>3, <1>4, <1>5, SMT, Z3 DEF IInv, Views, Procs, Moves, Switches, Conditions
<1>9. PLocks'
  BY <1>1, <1>2, <1>3, <1>4, <1>5, SMT, Z3 DEF IInv, Views, Procs, Moves, Switches, PLocks,
     PLabels
<1>10. LkHeld'
  BY <1>1, <1>2, <1>3, <1>4, <1>5, SMT, Z3 DEF IInv, Views, Procs, Moves, Switches, LkHeld,
     LkLabels
<1>11. Nesting'
  BY <1>1, <1>2, <1>3, <1>4, <1>5, SMT, Z3 DEF IInv, Views, Procs, Moves, Switches, Nesting,
     Depth, Open
<1>12. Owner'
  BY <1>1, <1>2, <1>3, <1>5, SMT, Z3 DEF IInv, Views, Moves, Owner
<1>13. Sleepers'
  BY <1>1, <1>2, <1>3, <1>5, SMTT(30), Z3T(30) DEF IInv, Views, Moves, Sleepers
<1> QED
  BY <1>6, <1>7, <1>8, <1>9, <1>10, <1>11, <1>12, <1>13, Zenon DEF IInv

\* sleep returns after swtch.
LEMMA SleepReturnStep ==
  ASSUME IInv, NEW p \in Procs, NEW c \in CPUs, SleepReturn(p, c)
  PROVE  IInv'
<1>1. Views
  BY ViewsOK, Zenon DEF IInv
<1>2. /\ Stack[c] = p /\ Sp[c] = "back" /\ Si[c] = p /\ Noff[c] = 1
      /\ Pc[p] = "sl_ret"
      /\ \A d \in CPUs : d # c => Stack[d] # p
  BY OnCpu, SMT, Z3 DEF SleepReturn, Labels, Depth, Open
<1>3. Moves(p, "as")
  BY GotoEffect, Zenon DEF IInv, SleepReturn, Labels
<1>4. Pops(c)
  BY <1>2, LeaveEffect, SMT, Z3 DEF IInv, SleepReturn
<1>5. /\ plock' = [plock EXCEPT ![p] = None]
      /\ Chan' = Chan \ {p}
      /\ UNCHANGED <<lk, slk, state, sc, Sp, Si>>
  BY <1>1, <1>2, Zenon DEF IInv, TypeOK, SleepReturn, Chan, Sp, Si, ScRec, Procs
<1>6. TypeOK'
  <2>1. plock' \in [Procs -> CPUs \cup {None}]
    BY <1>1, <1>5, Zenon DEF Views
  <2>2. chan' \in [Procs -> BOOLEAN]
    BY Zenon DEF IInv, TypeOK, SleepReturn
  <2> QED
    BY <1>3, <1>4, <1>5, <2>1, <2>2, Zenon DEF IInv, TypeOK, CpuRec, ThRec, ScRec, Moves, Pops
<1>7. Placement'
  BY <1>1, <1>2, <1>3, <1>4, <1>5, SMTT(30), Z3T(30) DEF IInv, Views, Moves, Pops, Placement
<1>8. Conditions'
  BY <1>1, <1>2, <1>3, <1>4, <1>5, SMTT(30), Z3T(30) DEF IInv, Views, Moves, Pops, Conditions
<1>9. PLocks'
  BY <1>1, <1>2, <1>3, <1>4, <1>5, SchedAssumption, SMTT(30), Z3T(30)
     DEF IInv, Views, Moves, Pops, PLocks,
     PLabels
<1>10. LkHeld'
  BY <1>1, <1>2, <1>3, <1>4, <1>5, Zenon DEF IInv, Views, Moves, Pops, LkHeld, LkLabels
<1>11. Nesting'
  BY <1>1, <1>2, <1>3, <1>4, <1>5, SMT, Z3 DEF IInv, Views, Moves, Pops, Nesting, Depth, Open
<1>12. Owner'
  BY <1>1, <1>3, <1>5, Zenon DEF IInv, Views, Moves, Owner
<1>13. Sleepers'
  BY <1>1, <1>2, <1>3, <1>5, ZenonT(30) DEF IInv, Views, Moves, Sleepers
<1> QED
  BY <1>6, <1>7, <1>8, <1>9, <1>10, <1>11, <1>12, <1>13, Zenon DEF IInv

\* releasesleep calls acquire.
LEMMA ReleaseSleepStep ==
  ASSUME IInv, NEW p \in Procs, NEW c \in CPUs, ReleaseSleep(p, c)
  PROVE  IInv'
<1>1. Views
  BY ViewsOK, Zenon DEF IInv
<1>2. /\ Stack[c] = p /\ Sp[c] = "back" /\ Si[c] = p /\ Noff[c] = 0
      /\ Pc[p] = "cs"
      /\ \A d \in CPUs : d # c => Stack[d] # p
  BY OnCpu, SMT, Z3 DEF ReleaseSleep, Labels, Depth, Open
<1>3. Moves(p, "rs_spin")
  BY GotoEffect, Zenon DEF IInv, ReleaseSleep, Labels
<1>4. Pushes(c)
  BY <1>2, EnterEffect, SMT, Z3 DEF IInv, ReleaseSleep
<1>5. UNCHANGED <<plock, lk, slk, state, chan, Chan, sc, Sp, Si>>
  BY <1>1, <1>2, Zenon DEF IInv, TypeOK, ReleaseSleep, Chan, Sp, Si, ScRec, Procs
<1>6. TypeOK'
  BY <1>3, <1>4, <1>5, Zenon DEF IInv, TypeOK, CpuRec, ThRec, ScRec, Moves, Pushes
<1>7. Placement'
  BY <1>1, <1>2, <1>3, <1>4, <1>5, Zenon DEF IInv, Views, Moves, Pushes, Placement
<1>8. Conditions'
  BY <1>1, <1>2, <1>3, <1>4, <1>5, SMT, Z3 DEF IInv, Views, Moves, Pushes, Conditions
<1>9. PLocks'
  BY <1>1, <1>2, <1>3, <1>4, <1>5, SMTT(30), Z3T(30)
     DEF IInv, Views, Moves, Pushes, PLocks, PLabels
<1>10. LkHeld'
  BY <1>1, <1>2, <1>3, <1>4, <1>5, Zenon DEF IInv, Views, Moves, Pushes, LkHeld, LkLabels
<1>11. Nesting'
  BY <1>1, <1>2, <1>3, <1>4, <1>5, SMT, Z3 DEF IInv, Views, Moves, Pushes, Nesting, Depth, Open
<1>12. Owner'
  BY <1>1, <1>2, <1>3, <1>5, Zenon DEF IInv, Views, Moves, Owner
<1>13. Sleepers'
  BY <1>1, <1>2, <1>3, <1>5, Zenon DEF IInv, Views, Moves, Sleepers
<1> QED
  BY <1>6, <1>7, <1>8, <1>9, <1>10, <1>11, <1>12, <1>13, Zenon DEF IInv

\* releasesleep gets the spinlock and frees the sleeplock.
LEMMA ReleaseSleepSpinStep ==
  ASSUME IInv, NEW p \in Procs, NEW c \in CPUs, ReleaseSleepSpin(p, c)
  PROVE  IInv'
<1>1. Views
  BY ViewsOK, Zenon DEF IInv
<1>2. /\ Stack[c] = p /\ Sp[c] = "back" /\ Si[c] = p /\ Noff[c] = 1
      /\ Pc[p] = "rs_spin"
      /\ \A d \in CPUs : d # c => Stack[d] # p
      /\ lk = None
  <2>1. /\ Stack[c] = p /\ Sp[c] = "back" /\ Si[c] = p /\ Noff[c] = 1
        /\ Pc[p] = "rs_spin"
        /\ \A d \in CPUs : d # c => Stack[d] # p
    BY OnCpu, SMT, Z3 DEF ReleaseSleepSpin, Labels, Depth, Open
  <2> QED
    BY <1>1, <2>1, Zenon DEF IInv, Views, ReleaseSleepSpin, TypeOK
<1>3. /\ th' \in [Procs -> ThRec] /\ Pc' = [Pc EXCEPT ![p] = "wake"]
      /\ Wk' = [Wk EXCEPT ![p] = 1] /\ UNCHANGED <<Ret, Back>>
  <2>0. PICK n \in 1..NPROC+1 : n = 1
    BY SchedAssumption, SMT, Z3 DEF Procs
  <2>1. PICK r \in ThRec : /\ r = th[p] /\ r.pc = Pc[p] /\ r.ret = Ret[p]
                           /\ r.back = Back[p] /\ r.wk = Wk[p]
    BY ThOf, Zenon DEF IInv
  <2>2. [r EXCEPT !.pc = "wake", !.wk = n] \in ThRec
    BY Zenon DEF ThRec, Labels
  <2>3. PICK t \in ThRec : t = [r EXCEPT !.pc = "wake", !.wk = n]
    BY <2>2, Zenon
  <2>4. /\ t.pc = "wake" /\ t.ret = Ret[p]
        /\ t.back = Back[p] /\ t.wk = 1
    BY <2>0, <2>1, <2>3, Zenon DEF ThRec
  <2>5. th' = [th EXCEPT ![p] = t]
    BY <2>0, <1>2, <2>1, <2>3, Zenon DEF ReleaseSleepSpin, IInv, TypeOK, Pc, Wk
  <2>6. /\ th' \in [Procs -> ThRec] /\ Pc' = [Pc EXCEPT ![p] = t.pc]
        /\ Ret' = [Ret EXCEPT ![p] = t.ret] /\ Back' = [Back EXCEPT ![p] = t.back]
        /\ Wk' = [Wk EXCEPT ![p] = t.wk]
    BY <2>5, ThEffect, Zenon DEF IInv
  <2> QED
    BY <1>1, <2>4, <2>6, Zenon DEF Views
<1>4. UNCHANGED <<cpu, Stack, Noff, Ion>>
  BY Zenon DEF ReleaseSleepSpin, Stack, Noff, Ion
<1>5. /\ lk' = c
      /\ slk' \in [locked : BOOLEAN, pid : 0..NPROC] /\ slk'.locked = FALSE
      /\ UNCHANGED <<plock, state, chan, Chan, sc, Sp, Si>>
  <2>1. slk' = [locked |-> FALSE, pid |-> 0]
    BY Zenon DEF ReleaseSleepSpin
  <2>2. [locked |-> FALSE, pid |-> 0] \in [locked : BOOLEAN, pid : 0..NPROC]
    BY SchedAssumption, SMT, Z3 DEF Procs
  <2> QED
    BY <2>1, <2>2, Zenon DEF ReleaseSleepSpin, Chan, Sp, Si
<1>6. TypeOK'
  BY <1>3, <1>4, <1>5, Zenon DEF IInv, TypeOK, CpuRec, ThRec, ScRec
<1>7. Placement'
  BY <1>1, <1>2, <1>3, <1>4, <1>5, SMTT(30), Z3T(30) DEF IInv, Views, Placement
<1>8. Conditions'
  BY <1>1, <1>2, <1>3, <1>4, <1>5, SMTT(30), Z3T(30) DEF IInv, Views, Conditions
<1>9. PLocks'
  BY <1>1, <1>2, <1>3, <1>4, <1>5, SMT, Z3 DEF IInv, Views, PLocks, PLabels
<1>10. LkHeld'
  BY <1>1, <1>2, <1>3, <1>4, <1>5, SchedAssumption, SMTT(30), Z3T(30)
     DEF IInv, Views, LkHeld, LkLabels
<1>11. Nesting'
  BY <1>1, <1>2, <1>3, <1>4, <1>5, SMTT(30), Z3T(30) DEF IInv, Views, Nesting, Depth, Open
<1>12. Owner'
  <2>1. slk.pid = p
    BY <1>2, Zenon DEF IInv, Owner
  <2>2. \A q \in Procs \ {p} : Pc'[q] = Pc[q]
    BY <1>1, <1>3, Zenon DEF Views
  <2> QED
    BY <1>1, <1>3, <2>1, <2>2, Zenon DEF IInv, Views, Owner
<1>13. Sleepers'
  <2>1. \A q \in Procs : Pc[q] \notin LkLabels
    BY <1>1, <1>2, SchedAssumption, SMT, Z3 DEF IInv, Views, LkHeld, LkLabels, Placement, Parked
  <2>2. Pc'[p] = "wake" /\ \A q \in Procs : Wk'[p] <= q
    BY <1>1, <1>3, SMT, Z3 DEF Views, Procs
  <2>3. state[p] # "SLEEPING"
    BY <1>2, Zenon DEF IInv, Conditions
  <2> QED
    BY <1>1, <1>3, <1>5, <2>1, <2>2, <2>3, Zenon DEF Views, Sleepers, LkLabels
<1> QED
  BY <1>6, <1>7, <1>8, <1>9, <1>10, <1>11, <1>12, <1>13, Zenon DEF IInv

\* One iteration of wakeup.
LEMMA WakeupStep ==
  ASSUME IInv, NEW p \in Procs, NEW c \in CPUs, Wakeup(p, c)
  PROVE  IInv'
<1>1. Views
  BY ViewsOK, Zenon DEF IInv
<1>2. PICK q \in Procs :
      /\ Stack[c] = p /\ Sp[c] = "back" /\ Si[c] = p /\ Noff[c] = 1
      /\ Pc[p] = "wake"
      /\ \A d \in CPUs : d # c => Stack[d] # p
      /\ q = Wk[p]
      /\ q # p => plock[q] = None
  <2>1. /\ Stack[c] = p /\ Sp[c] = "back" /\ Si[c] = p /\ Noff[c] = 1
        /\ Pc[p] = "wake"
        /\ \A d \in CPUs : d # c => Stack[d] # p
    BY OnCpu, SMT, Z3 DEF Wakeup, Labels, Depth, Open
  <2> QED
    BY <1>1, <2>1, SMT, Z3 DEF IInv, Views, Wakeup, At, Wk, Procs
<1>3. /\ th' \in [Procs -> ThRec] /\ Wk' = [Wk EXCEPT ![p] = q + 1]
      /\ UNCHANGED <<Pc, Ret, Back>>
  <2>0. PICK n \in 1..NPROC+1 : n = q + 1
    BY SchedAssumption, SMT, Z3 DEF Procs
  <2>1. PICK r \in ThRec : /\ r = th[p] /\ r.pc = Pc[p] /\ r.ret = Ret[p]
                           /\ r.back = Back[p] /\ r.wk = Wk[p]
    BY ThOf, Zenon DEF IInv
  <2>2. [r EXCEPT !.wk = n] \in ThRec
    BY Zenon DEF ThRec, Labels
  <2>3. PICK t \in ThRec : t = [r EXCEPT !.wk = n]
    BY <2>2, Zenon
  <2>4. /\ t.pc = Pc[p] /\ t.ret = Ret[p]
        /\ t.back = Back[p] /\ t.wk = q + 1
    BY <2>0, <2>1, <2>3, Zenon DEF ThRec
  <2>5. th' = [th EXCEPT ![p] = t]
    BY <2>0, <1>2, <2>1, <2>3, Zenon DEF Wakeup, IInv, TypeOK, Pc, Wk
  <2>6. /\ th' \in [Procs -> ThRec] /\ Pc' = [Pc EXCEPT ![p] = t.pc]
        /\ Ret' = [Ret EXCEPT ![p] = t.ret] /\ Back' = [Back EXCEPT ![p] = t.back]
        /\ Wk' = [Wk EXCEPT ![p] = t.wk]
    BY <2>5, ThEffect, Zenon DEF IInv
  <2> QED
    BY <1>1, <2>4, <2>6, Zenon DEF Views
<1>4. UNCHANGED <<cpu, Stack, Noff, Ion>>
  BY Zenon DEF Wakeup, Stack, Noff, Ion
<1>5. /\ \A k \in Procs : state'[k] = IF k = q /\ q # p /\ state[q] = "SLEEPING" THEN "RUNNABLE" ELSE state[k]
      /\ state' \in [Procs -> {"SLEEPING", "RUNNABLE", "RUNNING"}]
      /\ UNCHANGED <<plock, lk, slk, chan, Chan, sc, Sp, Si>>
  <2>1. state' = IF q # p /\ state[q] = "SLEEPING" /\ chan[q]
                 THEN [state EXCEPT ![q] = "RUNNABLE"] ELSE state
    BY <1>2, Zenon DEF Wakeup, Wk
  <2>2. state[q] = "SLEEPING" => chan[q]
    BY Zenon DEF IInv, Conditions, Chan
  <2>3. state' = IF q # p /\ state[q] = "SLEEPING"
                 THEN [state EXCEPT ![q] = "RUNNABLE"] ELSE state
    BY <2>1, <2>2, Zenon
  <2> QED
    BY <1>1, <2>3, ZenonT(30) DEF Wakeup, Chan, Sp, Si, Views
<1>6. TypeOK'
  BY <1>3, <1>4, <1>5, Zenon DEF IInv, TypeOK, CpuRec, ThRec, ScRec
<1>7. Placement'
  BY <1>1, <1>3, <1>4, <1>5, Zenon DEF IInv, Views, Placement
<1>8. Conditions'
  <2>1. q # p => Pc[q] # "swtch"
    BY <1>2, SchedAssumption, SMTT(30), Z3T(30) DEF IInv, PLocks, PLabels, Placement, Parked
  <2> QED
    BY <1>1, <1>2, <1>3, <1>4, <1>5, <2>1, SMTT(30), Z3T(30) DEF IInv, Views, Conditions
<1>9. PLocks'
  BY <1>1, <1>3, <1>4, <1>5, SMT, Z3 DEF IInv, Views, PLocks
<1>10. LkHeld'
  BY <1>1, <1>3, <1>4, <1>5, Zenon DEF IInv, Views, LkHeld
<1>11. Nesting'
  BY <1>1, <1>3, <1>4, <1>5, Zenon DEF IInv, Views, Nesting
<1>12. Owner'
  BY <1>1, <1>3, <1>5, Zenon DEF IInv, Views, Owner
<1>13. Sleepers'
  <2>1. q # p => Pc[q] # "sl_set"
    BY <1>2, SchedAssumption, SMT, Z3 DEF IInv, PLocks, PLabels, Placement, Parked
  <2>2. Pc[p] # "sl_set" /\ state[p] # "SLEEPING" /\ state'[p] # "SLEEPING"
    BY <1>2, <1>5, Zenon DEF IInv, Conditions
  <2>3. \A k \in Procs : Wk[p] <= k /\ k # q => Wk'[p] <= k
    BY <1>1, <1>2, <1>3, SMT, Z3 DEF Views, Procs
  <2>4. \A k \in Procs : Pc'[k] = "sl_set" \/ state'[k] = "SLEEPING"
          => k # q /\ (Pc[k] = "sl_set" \/ state[k] = "SLEEPING")
    BY <1>3, <1>5, <2>1, <2>2, Zenon
  <2>5. \A k \in Procs \ {p} : Wk'[k] = Wk[k]
    BY <1>1, <1>3, Zenon DEF Views
  <2> QED
    BY <1>3, <1>5, <2>3, <2>4, <2>5, ZenonT(30) DEF IInv, Sleepers
<1> QED
  BY <1>6, <1>7, <1>8, <1>9, <1>10, <1>11, <1>12, <1>13, Zenon DEF IInv


\* wakeup ends and releasesleep releases the spinlock.
LEMMA ReleaseSleepDoneStep ==
  ASSUME IInv, NEW p \in Procs, NEW c \in CPUs, ReleaseSleepDone(p, c)
  PROVE  IInv'
<1>1. Views
  BY ViewsOK, Zenon DEF IInv
<1>2. /\ Stack[c] = p /\ Sp[c] = "back" /\ Si[c] = p /\ Noff[c] = 1
      /\ Pc[p] = "wake"
      /\ \A d \in CPUs : d # c => Stack[d] # p
      /\ Wk[p] = NPROC + 1
  <2>1. /\ Stack[c] = p /\ Sp[c] = "back" /\ Si[c] = p /\ Noff[c] = 1
        /\ Pc[p] = "wake"
        /\ \A d \in CPUs : d # c => Stack[d] # p
    BY OnCpu, SMT, Z3 DEF ReleaseSleepDone, Labels, Depth, Open
  <2> QED
    BY <1>1, <2>1, Zenon DEF IInv, Views, ReleaseSleepDone, At, Wk
<1>3. Moves(p, "out")
  BY GotoEffect, Zenon DEF IInv, ReleaseSleepDone, Labels
<1>4. Pops(c)
  BY <1>2, LeaveEffect, SMT, Z3 DEF IInv, ReleaseSleepDone
<1>5. /\ lk' = None
      /\ UNCHANGED <<plock, slk, state, chan, Chan, sc, Sp, Si>>
  BY <1>1, <1>2, Zenon DEF IInv, TypeOK, ReleaseSleepDone, Chan, Sp, Si, ScRec, Procs
<1>6. TypeOK'
  BY <1>3, <1>4, <1>5, Zenon DEF IInv, TypeOK, CpuRec, ThRec, ScRec, Moves, Pops
<1>7. Placement'
  BY <1>1, <1>2, <1>3, <1>4, <1>5, ZenonT(30) DEF IInv, Views, Moves, Pops, Placement
<1>8. Conditions'
  BY <1>1, <1>2, <1>3, <1>4, <1>5, SMT, Z3 DEF IInv, Views, Moves, Pops, Conditions
<1>9. PLocks'
  BY <1>1, <1>2, <1>3, <1>4, <1>5, SMTT(30), Z3T(30) DEF IInv, Views, Moves, Pops, PLocks, PLabels
<1>10. LkHeld'
  BY <1>1, <1>2, <1>3, <1>4, <1>5, SchedAssumption, SMTT(30), Z3T(30)
     DEF IInv, Views, Moves, Pops, LkHeld,
     LkLabels
<1>11. Nesting'
  BY <1>1, <1>2, <1>3, <1>4, <1>5, SMT, Z3 DEF IInv, Views, Moves, Pops, Nesting, Depth, Open
<1>12. Owner'
  BY <1>1, <1>3, <1>5, Zenon DEF IInv, Views, Moves, Owner
<1>13. Sleepers'
  BY <1>1, <1>2, <1>3, <1>5, SchedAssumption, SMTT(30), Z3T(30)
     DEF IInv, Views, Procs, Moves, Sleepers
<1> QED
  BY <1>6, <1>7, <1>8, <1>9, <1>10, <1>11, <1>12, <1>13, Zenon DEF IInv

\* A timer interrupt: kerneltrap calls yield.
LEMMA TimerStep ==
  ASSUME IInv, NEW p \in Procs, NEW c \in CPUs, Timer(p, c)
  PROVE  IInv'
<1>1. Views
  BY ViewsOK, Zenon DEF IInv
<1>2. /\ Stack[c] = p /\ Sp[c] = "back" /\ Si[c] = p /\ Noff[c] = 0
      /\ c \in Ion
      /\ Pc[p] \in Open
      /\ \A d \in CPUs : d # c => Stack[d] # p
  <2>1. Stack[c] = p /\ c \in Ion /\ At(p, c, Pc[p])
    BY Zenon DEF Timer, Stack, Ion, At, Pc
  <2>2. PICK l \in Labels : l = Pc[p]
    BY <1>1, ZenonT(30) DEF Views
  <2>3. /\ Sp[c] = "back" /\ Si[c] = p /\ Noff[c] = Depth(l)
        /\ \A d \in CPUs : d # c => Stack[d] # p
    BY <2>1, <2>2, OnCpu, SMT, Z3
  <2>4. Noff[c] = 0
    BY <1>1, <2>1, SMT, Z3 DEF IInv, Nesting, Views
  <2>5. Pc[p] \in Open
    BY <2>2, <2>3, <2>4, SMT, Z3 DEF Depth
  <2> QED
    BY <2>1, <2>3, <2>4, <2>5, Zenon
<1>3. /\ th' \in [Procs -> ThRec] /\ Pc' = [Pc EXCEPT ![p] = "y_spin"]
      /\ Back' = [Back EXCEPT ![p] = Pc[p]] /\ UNCHANGED <<Ret, Wk>>
  <2>1. PICK r \in ThRec : /\ r = th[p] /\ r.pc = Pc[p] /\ r.ret = Ret[p]
                           /\ r.back = Back[p] /\ r.wk = Wk[p]
    BY ThOf, Zenon DEF IInv
  <2>2. [r EXCEPT !.pc = "y_spin", !.back = Pc[p]] \in ThRec
    BY <1>2, Zenon DEF ThRec, Labels, Open
  <2>3. PICK t \in ThRec : t = [r EXCEPT !.pc = "y_spin", !.back = Pc[p]]
    BY <2>2, Zenon
  <2>4. /\ t.pc = "y_spin" /\ t.ret = Ret[p]
        /\ t.back = Pc[p] /\ t.wk = Wk[p]
    BY <2>1, <2>3, Zenon DEF ThRec
  <2>5. th' = [th EXCEPT ![p] = t]
    BY <1>2, <2>1, <2>3, Zenon DEF Timer, IInv, TypeOK, Pc, Wk
  <2>6. /\ th' \in [Procs -> ThRec] /\ Pc' = [Pc EXCEPT ![p] = t.pc]
        /\ Ret' = [Ret EXCEPT ![p] = t.ret] /\ Back' = [Back EXCEPT ![p] = t.back]
        /\ Wk' = [Wk EXCEPT ![p] = t.wk]
    BY <2>5, ThEffect, Zenon DEF IInv
  <2> QED
    BY <1>1, <2>4, <2>6, Zenon DEF Views
<1>4. Pushes(c)
  <2>1. PICK r \in CpuRec : /\ r = cpu[c] /\ r.noff = Noff[c] /\ r.stack = Stack[c]
                            /\ (r.ie <=> c \in Ion)
    BY CpuOf, Zenon DEF IInv
  <2>2. PICK s \in CpuRec : s = [r EXCEPT !.ie = FALSE] /\ s.noff = 0 /\ s.stack = Stack[c]
    <3>1. [r EXCEPT !.ie = FALSE] \in CpuRec
      BY Zenon DEF CpuRec
    <3>2. [r EXCEPT !.ie = FALSE].noff = 0 /\ [r EXCEPT !.ie = FALSE].stack = Stack[c]
      BY <1>2, <2>1, Zenon DEF CpuRec
    <3> QED
      BY <3>1, <3>2, Zenon
  <2>3. PICK t \in CpuRec : t = PushOff(s) /\ t.noff = 1 /\ t.stack = Stack[c] /\ ~t.ie
    <3>1. s.noff < 3 /\ s.noff + 1 = 1
      BY <2>2, SMT, Z3
    <3>2. /\ PushOff(s) \in CpuRec /\ PushOff(s).stack = s.stack
          /\ PushOff(s).noff = s.noff + 1 /\ ~PushOff(s).ie
      BY <3>1, PushPop, Zenon
    <3> QED
      BY <2>2, <3>1, <3>2, Zenon
  <2>4. cpu' = [cpu EXCEPT ![c] = t]
    BY <2>1, <2>2, <2>3, Zenon DEF Timer
  <2>5. /\ cpu' \in [CPUs -> CpuRec] /\ Stack' = [Stack EXCEPT ![c] = t.stack]
        /\ Noff' = [Noff EXCEPT ![c] = t.noff]
        /\ Ion' = IF t.ie THEN Ion \cup {c} ELSE Ion \ {c}
    BY <2>4, CpuEffect, Zenon DEF IInv
  <2>6. Ion' = Ion \ {c}
    BY <2>3, <2>5, Zenon
  <2> QED
    BY <1>1, <1>2, <2>3, <2>5, <2>6, SMT, Z3 DEF Views, Pushes
<1>5. UNCHANGED <<plock, lk, slk, state, chan, Chan, sc, Sp, Si>>
  BY <1>1, <1>2, Zenon DEF IInv, TypeOK, Timer, Chan, Sp, Si, ScRec, Procs
<1>6. TypeOK'
  BY <1>3, <1>4, <1>5, Zenon DEF IInv, TypeOK, CpuRec, ThRec, ScRec, Pushes
<1>7. Placement'
  BY <1>1, <1>2, <1>3, <1>4, <1>5, Zenon DEF IInv, Views, Pushes, Placement
<1>8. Conditions'
  BY <1>1, <1>2, <1>3, <1>4, <1>5, SMT, Z3 DEF IInv, Views, Pushes, Conditions, Open
<1>9. PLocks'
  BY <1>1, <1>2, <1>3, <1>4, <1>5, SMT, Z3 DEF IInv, Views, Pushes, PLocks, PLabels, Open
<1>10. LkHeld'
  BY <1>1, <1>2, <1>3, <1>4, <1>5, Zenon DEF IInv, Views, Pushes, LkHeld, LkLabels, Open
<1>11. Nesting'
  BY <1>1, <1>2, <1>3, <1>4, <1>5, SMT, Z3 DEF IInv, Views, Pushes, Nesting, Depth, Open
<1>12. Owner'
  BY <1>1, <1>3, <1>5, ZenonT(30) DEF IInv, Views, Owner
<1>13. Sleepers'
  BY <1>1, <1>2, <1>3, <1>5, Zenon DEF IInv, Views, Sleepers, Open
<1> QED
  BY <1>6, <1>7, <1>8, <1>9, <1>10, <1>11, <1>12, <1>13, Zenon DEF IInv

\* yield gets p->lock.
LEMMA YieldSpinStep ==
  ASSUME IInv, NEW p \in Procs, NEW c \in CPUs, YieldSpin(p, c)
  PROVE  IInv'
<1>1. Views
  BY ViewsOK, Zenon DEF IInv
<1>2. /\ Stack[c] = p /\ Sp[c] = "back" /\ Si[c] = p /\ Noff[c] = 1
      /\ Pc[p] = "y_spin"
      /\ \A d \in CPUs : d # c => Stack[d] # p
      /\ plock[p] = None
  <2>1. /\ Stack[c] = p /\ Sp[c] = "back" /\ Si[c] = p /\ Noff[c] = 1
        /\ Pc[p] = "y_spin"
        /\ \A d \in CPUs : d # c => Stack[d] # p
    BY OnCpu, SMT, Z3 DEF YieldSpin, Labels, Depth, Open
  <2> QED
    BY <1>1, <2>1, Zenon DEF IInv, Views, YieldSpin, TypeOK
<1>3. /\ th' \in [Procs -> ThRec] /\ Pc' = [Pc EXCEPT ![p] = "swtch"]
      /\ Ret' = [Ret EXCEPT ![p] = "y_ret"] /\ UNCHANGED <<Back, Wk>>
  <2>1. PICK r \in ThRec : /\ r = th[p] /\ r.pc = Pc[p] /\ r.ret = Ret[p]
                           /\ r.back = Back[p] /\ r.wk = Wk[p]
    BY ThOf, Zenon DEF IInv
  <2>2. [r EXCEPT !.pc = "swtch", !.ret = "y_ret"] \in ThRec
    BY Zenon DEF ThRec, Labels
  <2>3. PICK t \in ThRec : t = [r EXCEPT !.pc = "swtch", !.ret = "y_ret"]
    BY <2>2, Zenon
  <2>4. /\ t.pc = "swtch" /\ t.ret = "y_ret"
        /\ t.back = Back[p] /\ t.wk = Wk[p]
    BY <2>1, <2>3, Zenon DEF ThRec
  <2>5. th' = [th EXCEPT ![p] = t]
    BY <1>2, <2>1, <2>3, Zenon DEF YieldSpin, IInv, TypeOK, Pc, Wk
  <2>6. /\ th' \in [Procs -> ThRec] /\ Pc' = [Pc EXCEPT ![p] = t.pc]
        /\ Ret' = [Ret EXCEPT ![p] = t.ret] /\ Back' = [Back EXCEPT ![p] = t.back]
        /\ Wk' = [Wk EXCEPT ![p] = t.wk]
    BY <2>5, ThEffect, Zenon DEF IInv
  <2> QED
    BY <1>1, <2>4, <2>6, Zenon DEF Views
<1>4. UNCHANGED <<cpu, Stack, Noff, Ion>>
  BY Zenon DEF YieldSpin, Stack, Noff, Ion
<1>5. /\ plock' = [plock EXCEPT ![p] = c]
      /\ state' = [state EXCEPT ![p] = "RUNNABLE"]
      /\ UNCHANGED <<lk, slk, chan, Chan, sc, Sp, Si>>
  BY <1>1, <1>2, Zenon DEF IInv, TypeOK, YieldSpin, Chan, Sp, Si, ScRec, Procs
<1>6. TypeOK'
  <2>1. plock' \in [Procs -> CPUs \cup {None}]
    BY <1>1, <1>5, Zenon DEF Views
  <2>2. state' \in [Procs -> {"SLEEPING", "RUNNABLE", "RUNNING"}]
    BY <1>1, <1>5, Zenon DEF Views
  <2> QED
    BY <1>3, <1>4, <1>5, <2>1, <2>2, Zenon DEF IInv, TypeOK, CpuRec, ThRec, ScRec
<1>7. Placement'
  BY <1>1, <1>2, <1>3, <1>4, <1>5, ZenonT(30) DEF IInv, Views, Placement
<1>8. Conditions'
  BY <1>1, <1>3, <1>4, <1>5, SMTT(30), Z3T(30) DEF IInv, Views, Conditions
<1>9. PLocks'
  BY <1>1, <1>2, <1>3, <1>4, <1>5, SchedAssumption, SMT, Z3 DEF IInv, Views, PLocks, PLabels
<1>10. LkHeld'
  BY <1>1, <1>2, <1>3, <1>4, <1>5, Zenon DEF IInv, Views, LkHeld, LkLabels
<1>11. Nesting'
  BY <1>1, <1>2, <1>3, <1>4, <1>5, ZenonT(30) DEF IInv, Views, Nesting, Depth, Open
<1>12. Owner'
  BY <1>1, <1>2, <1>3, <1>5, SMT, Z3 DEF IInv, Views, Owner
<1>13. Sleepers'
  BY <1>1, <1>2, <1>3, <1>5, ZenonT(30) DEF IInv, Views, Sleepers
<1> QED
  BY <1>6, <1>7, <1>8, <1>9, <1>10, <1>11, <1>12, <1>13, Zenon DEF IInv

\* yield returns after swtch and the trap ends.
LEMMA YieldReturnStep ==
  ASSUME IInv, NEW p \in Procs, NEW c \in CPUs, YieldReturn(p, c)
  PROVE  IInv'
<1>1. Views
  BY ViewsOK, Zenon DEF IInv
<1>2. PICK l \in Open :
      /\ Stack[c] = p /\ Sp[c] = "back" /\ Si[c] = p /\ Noff[c] = 1
      /\ Pc[p] = "y_ret"
      /\ \A d \in CPUs : d # c => Stack[d] # p
      /\ l = Back[p]
  <2>1. /\ Stack[c] = p /\ Sp[c] = "back" /\ Si[c] = p /\ Noff[c] = 1
        /\ Pc[p] = "y_ret"
        /\ \A d \in CPUs : d # c => Stack[d] # p
    BY OnCpu, SMT, Z3 DEF YieldReturn, Labels, Depth, Open
  <2> QED
    BY <1>1, <2>1, Zenon DEF IInv, Views, YieldReturn, Conditions
<1>3. Moves(p, l)
  <2>1. l \in Labels /\ Goto(p, l)
    BY <1>2, Zenon DEF YieldReturn, Back, Open, Labels
  <2> QED
    BY <2>1, GotoEffect, Zenon DEF IInv
<1>4. Traps(c)
  <2>1. PICK r \in CpuRec : /\ r = cpu[c] /\ r.noff = Noff[c] /\ r.stack = Stack[c]
                            /\ (r.ie <=> c \in Ion)
    BY CpuOf, Zenon DEF IInv
  <2>2. PICK b \in BOOLEAN : b = th[p].intena
    BY Zenon DEF IInv, TypeOK
  <2>3. PICK s \in CpuRec : /\ s = [r EXCEPT !.intena = b]
                            /\ s.noff = Noff[c] /\ s.stack = Stack[c]
    <3>1. [r EXCEPT !.intena = b] \in CpuRec
      BY Zenon DEF CpuRec
    <3>2. [r EXCEPT !.intena = b].noff = Noff[c] /\ [r EXCEPT !.intena = b].stack = Stack[c]
      BY <2>1, Zenon DEF CpuRec
    <3> QED
      BY <3>1, <3>2, Zenon
  <2>4. cpu' = [cpu EXCEPT ![c] = [PopOff(s) EXCEPT !.ie = TRUE]]
    BY <2>1, <2>2, <2>3, Zenon DEF YieldReturn
  <2>5. s.noff > 0
    BY <1>2, <2>3, SMT, Z3
  <2> QED
    BY <2>3, <2>4, <2>5, TrapReturnEffect, Zenon DEF IInv
<1>5. /\ plock' = [plock EXCEPT ![p] = None]
      /\ UNCHANGED <<lk, slk, state, chan, Chan, sc, Sp, Si>>
  BY <1>1, <1>2, Zenon DEF IInv, TypeOK, YieldReturn, Chan, Sp, Si, ScRec, Procs
<1>6. TypeOK'
  <2>1. plock' \in [Procs -> CPUs \cup {None}]
    BY <1>1, <1>5, Zenon DEF Views
  <2> QED
    BY <1>3, <1>4, <1>5, <2>1, Zenon DEF IInv, TypeOK, CpuRec, ThRec, ScRec, Moves, Traps
<1>7. Placement'
  BY <1>1, <1>2, <1>3, <1>4, <1>5, ZenonT(30) DEF IInv, Views, Moves, Traps, Placement
<1>8. Conditions'
  BY <1>1, <1>2, <1>3, <1>4, <1>5, SMTT(30), Z3T(30)
     DEF IInv, Views, Moves, Traps, Conditions, Open
<1>9. PLocks'
  BY <1>1, <1>2, <1>3, <1>4, <1>5, SchedAssumption, SMT, Z3 DEF IInv, Views, Moves, Traps,
     PLocks, PLabels, Open
<1>10. LkHeld'
  BY <1>1, <1>2, <1>3, <1>4, <1>5, ZenonT(30) DEF IInv, Views, Moves, Traps, LkHeld, LkLabels, Open
<1>11. Nesting'
  BY <1>1, <1>2, <1>3, <1>4, <1>5, SMT, Z3 DEF IInv, Views, Moves, Traps, Nesting, Depth
<1>12. Owner'
  BY <1>1, <1>2, <1>3, <1>5, Zenon DEF IInv, Views, Moves, Owner, Open
<1>13. Sleepers'
  BY <1>1, <1>2, <1>3, <1>5, ZenonT(30) DEF IInv, Views, Moves, Sleepers, Open
<1> QED
  BY <1>6, <1>7, <1>8, <1>9, <1>10, <1>11, <1>12, <1>13, Zenon DEF IInv

\* forkret: the first run of a process.
LEMMA ForkRetStep ==
  ASSUME IInv, NEW p \in Procs, NEW c \in CPUs, ForkRet(p, c)
  PROVE  IInv'
<1>1. Views
  BY ViewsOK, Zenon DEF IInv
<1>2. /\ Stack[c] = p /\ Sp[c] = "back" /\ Si[c] = p /\ Noff[c] = 1
      /\ Pc[p] = "forkret"
      /\ \A d \in CPUs : d # c => Stack[d] # p
  BY OnCpu, SMT, Z3 DEF ForkRet, Labels, Depth, Open
<1>3. Moves(p, "out")
  BY GotoEffect, Zenon DEF IInv, ForkRet, Labels
<1>4. Traps(c)
  <2>1. PICK r \in CpuRec : /\ r = cpu[c] /\ r.noff = Noff[c] /\ r.stack = Stack[c]
                            /\ (r.ie <=> c \in Ion)
    BY CpuOf, Zenon DEF IInv
  <2>2. cpu' = [cpu EXCEPT ![c] = [PopOff(r) EXCEPT !.ie = TRUE]]
    BY <2>1, Zenon DEF ForkRet
  <2>3. r.noff > 0
    BY <1>2, <2>1, SMT, Z3
  <2> QED
    BY <2>1, <2>2, <2>3, TrapReturnEffect, Zenon DEF IInv
<1>5. /\ plock' = [plock EXCEPT ![p] = None]
      /\ UNCHANGED <<lk, slk, state, chan, Chan, sc, Sp, Si>>
  BY <1>1, <1>2, Zenon DEF IInv, TypeOK, ForkRet, Chan, Sp, Si, ScRec, Procs
<1>6. TypeOK'
  <2>1. plock' \in [Procs -> CPUs \cup {None}]
    BY <1>1, <1>5, Zenon DEF Views
  <2> QED
    BY <1>3, <1>4, <1>5, <2>1, Zenon DEF IInv, TypeOK, CpuRec, ThRec, ScRec, Moves, Traps
<1>7. Placement'
  BY <1>1, <1>2, <1>3, <1>4, <1>5, ZenonT(30) DEF IInv, Views, Moves, Traps, Placement
<1>8. Conditions'
  BY <1>1, <1>2, <1>3, <1>4, <1>5, SMTT(30), Z3T(30) DEF IInv, Views, Moves, Traps, Conditions
<1>9. PLocks'
  BY <1>1, <1>2, <1>3, <1>4, <1>5, SchedAssumption, SMT, Z3 DEF IInv, Views, Moves, Traps,
     PLocks, PLabels
<1>10. LkHeld'
  BY <1>1, <1>2, <1>3, <1>4, <1>5, ZenonT(30) DEF IInv, Views, Moves, Traps, LkHeld, LkLabels
<1>11. Nesting'
  BY <1>1, <1>2, <1>3, <1>4, <1>5, SMT, Z3 DEF IInv, Views, Moves, Traps, Nesting, Depth, Open
<1>12. Owner'
  BY <1>1, <1>3, <1>5, Zenon DEF IInv, Views, Moves, Owner
<1>13. Sleepers'
  BY <1>1, <1>2, <1>3, <1>5, Zenon DEF IInv, Views, Moves, Sleepers
<1> QED
  BY <1>6, <1>7, <1>8, <1>9, <1>10, <1>11, <1>12, <1>13, Zenon DEF IInv

\* The scheduler starts its scan with interrupts on.
LEMMA SchedTopStep ==
  ASSUME IInv, NEW c \in CPUs, SchedTop(c)
  PROVE  IInv'
<1>1. Views
  BY ViewsOK, Zenon DEF IInv
<1>2. /\ Stack[c] = 0
      /\ Sp[c] = "top"
  BY <1>1, Zenon DEF IInv, Views, Placement, Nesting, SchedTop, SchedAt, Stack, Sp
<1>3. UNCHANGED <<th, Pc, Ret, Back, Wk>>
  BY Zenon DEF SchedTop, Pc, Ret, Back, Wk
<1>4. /\ cpu' \in [CPUs -> CpuRec] /\ Stack' = Stack
      /\ Noff' = Noff /\ Ion' = Ion \cup {c}
  <2>1. PICK r \in CpuRec : /\ r = cpu[c] /\ r.noff = Noff[c] /\ r.stack = Stack[c]
                            /\ (r.ie <=> c \in Ion)
    BY CpuOf, Zenon DEF IInv
  <2>2. PICK t \in CpuRec : /\ t = [r EXCEPT !.ie = TRUE] /\ t.noff = Noff[c]
                            /\ t.stack = Stack[c] /\ t.ie = TRUE
    <3>1. [r EXCEPT !.ie = TRUE] \in CpuRec
      BY Zenon DEF CpuRec
    <3>2. /\ [r EXCEPT !.ie = TRUE].noff = Noff[c] /\ [r EXCEPT !.ie = TRUE].stack = Stack[c]
          /\ [r EXCEPT !.ie = TRUE].ie = TRUE
      BY <2>1, Zenon DEF CpuRec
    <3> QED
      BY <3>1, <3>2, Zenon
  <2>3. cpu' = [cpu EXCEPT ![c] = t]
    BY <2>1, <2>2, Zenon DEF SchedTop
  <2>4. /\ cpu' \in [CPUs -> CpuRec] /\ Stack' = [Stack EXCEPT ![c] = t.stack]
        /\ Noff' = [Noff EXCEPT ![c] = t.noff]
        /\ Ion' = IF t.ie THEN Ion \cup {c} ELSE Ion \ {c}
    BY <2>3, CpuEffect, Zenon DEF IInv
  <2>5. Ion' = Ion \cup {c}
    BY <2>2, <2>4, Zenon
  <2> QED
    BY <1>1, <2>2, <2>4, <2>5, Zenon DEF Views
<1>5. /\ sc' \in [CPUs -> ScRec]
      /\ Sp' = [Sp EXCEPT ![c] = "scan"]
      /\ Si' = [Si EXCEPT ![c] = 1]
      /\ UNCHANGED <<plock, lk, slk, state, chan, Chan>>
  <2>0. PICK n \in 1..NPROC+1 : n = 1
    BY SchedAssumption, SMT, Z3 DEF Procs
  <2>1. PICK s \in ScRec : s = [pc |-> "scan", i |-> n]
    BY Zenon DEF ScRec
  <2>2. sc' = [sc EXCEPT ![c] = s]
    BY <1>2, <2>0, <2>1, Zenon DEF SchedTop, Si
  <2>3. sc' \in [CPUs -> ScRec] /\ Sp' = [Sp EXCEPT ![c] = s.pc] /\ Si' = [Si EXCEPT ![c] = s.i]
    BY <2>2, ScEffect, Zenon DEF IInv
  <2>4. UNCHANGED <<plock, lk, slk, state, chan, Chan>>
    BY <1>2, Zenon DEF SchedTop, Chan, Si
  <2> QED
    BY <2>0, <2>1, <2>3, <2>4, Zenon
<1>6. TypeOK'
  BY <1>3, <1>4, <1>5, Zenon DEF IInv, TypeOK, CpuRec, ThRec, ScRec
<1>7. Placement'
  BY <1>1, <1>2, <1>3, <1>4, <1>5, Zenon DEF IInv, Views, Placement
<1>8. Conditions'
  BY <1>1, <1>3, <1>4, <1>5, ZenonT(30) DEF IInv, Views, Conditions
<1>9. PLocks'
  BY <1>1, <1>2, <1>3, <1>4, <1>5, SMT, Z3 DEF IInv, Views, PLocks
<1>10. LkHeld'
  BY <1>1, <1>3, <1>4, <1>5, Zenon DEF IInv, Views, LkHeld
<1>11. Nesting'
  BY <1>1, <1>2, <1>3, <1>4, <1>5, SMT, Z3 DEF IInv, Views, Nesting
<1>12. Owner'
  BY <1>1, <1>3, <1>5, Zenon DEF IInv, Views, Owner
<1>13. Sleepers'
  BY <1>1, <1>3, <1>5, Zenon DEF IInv, Views, Sleepers
<1> QED
  BY <1>6, <1>7, <1>8, <1>9, <1>10, <1>11, <1>12, <1>13, Zenon DEF IInv

\* The process is not RUNNABLE.
LEMMA SchedSkipStep ==
  ASSUME IInv, NEW c \in CPUs, SchedSkip(c)
  PROVE  IInv'
<1>1. Views
  BY ViewsOK, Zenon DEF IInv
<1>2. PICK q \in Procs :
      /\ q = Si[c]
      /\ Stack[c] = 0
      /\ Sp[c] = "spin"
      /\ Noff[c] = 1
  BY <1>1, Zenon DEF IInv, Views, Placement, Nesting, SchedSkip, SchedAt, Stack, Sp
<1>3. UNCHANGED <<th, Pc, Ret, Back, Wk>>
  BY ZenonT(30) DEF SchedSkip, Pc, Ret, Back, Wk
<1>4. Pops(c)
  <2>1. Leave(c)
    BY Zenon DEF SchedSkip
  <2> QED
    BY <1>2, <2>1, LeaveEffect, SMT, Z3 DEF IInv
<1>5. /\ sc' \in [CPUs -> ScRec]
      /\ Sp' = [Sp EXCEPT ![c] = "scan"]
      /\ Si' = [Si EXCEPT ![c] = q + 1]
      /\ UNCHANGED <<plock, lk, slk, state, chan, Chan>>
  <2>0. PICK n \in 1..NPROC+1 : n = q + 1
    BY SchedAssumption, SMT, Z3 DEF Procs
  <2>1. PICK s \in ScRec : s = [pc |-> "scan", i |-> n]
    BY Zenon DEF ScRec
  <2>2. sc' = [sc EXCEPT ![c] = s]
    BY <1>2, <2>0, <2>1, Zenon DEF SchedSkip, Si
  <2>3. sc' \in [CPUs -> ScRec] /\ Sp' = [Sp EXCEPT ![c] = s.pc] /\ Si' = [Si EXCEPT ![c] = s.i]
    BY <2>2, ScEffect, Zenon DEF IInv
  <2>4. UNCHANGED <<plock, lk, slk, state, chan, Chan>>
    BY <1>2, Zenon DEF SchedSkip, Chan, Si
  <2> QED
    BY <2>0, <2>1, <2>3, <2>4, Zenon
<1>6. TypeOK'
  BY <1>3, <1>4, <1>5, Zenon DEF IInv, TypeOK, CpuRec, ThRec, ScRec, Pops
<1>7. Placement'
  BY <1>1, <1>2, <1>3, <1>4, <1>5, Zenon DEF IInv, Views, Pops, Placement
<1>8. Conditions'
  BY <1>1, <1>3, <1>4, <1>5, ZenonT(30) DEF IInv, Views, Pops, Conditions
<1>9. PLocks'
  BY <1>1, <1>2, <1>3, <1>4, <1>5, SMT, Z3 DEF IInv, Views, Pops, PLocks
<1>10. LkHeld'
  BY <1>1, <1>3, <1>4, <1>5, Zenon DEF IInv, Views, Pops, LkHeld
<1>11. Nesting'
  BY <1>1, <1>2, <1>3, <1>4, <1>5, SMT, Z3 DEF IInv, Views, Procs, Pops, Nesting
<1>12. Owner'
  BY <1>1, <1>3, <1>5, Zenon DEF IInv, Views, Owner
<1>13. Sleepers'
  BY <1>1, <1>3, <1>5, Zenon DEF IInv, Views, Sleepers
<1> QED
  BY <1>6, <1>7, <1>8, <1>9, <1>10, <1>11, <1>12, <1>13, SMTT(30), Z3T(30) DEF IInv

\* The scheduler switches to a RUNNABLE process.
LEMMA SchedRunStep ==
  ASSUME IInv, NEW c \in CPUs, SchedRun(c)
  PROVE  IInv'
<1>1. Views
  BY ViewsOK, Zenon DEF IInv
<1>2. PICK q \in Procs :
      /\ q = Si[c]
      /\ Stack[c] = 0
      /\ Sp[c] = "spin"
      /\ Noff[c] = 1
      /\ plock[q] = None
      /\ state[q] = "RUNNABLE"
      /\ Pc[q] \in Parked
      /\ \A d \in CPUs : Stack[d] # q
  <2>1. PICK q \in Procs : q = Si[c] /\ Stack[c] = 0 /\ Sp[c] = "spin" /\ Noff[c] = 1
    BY <1>1, Zenon DEF IInv, Views, Placement, Nesting, SchedRun, SchedAt, Stack, Sp
  <2>2. plock[q] = None /\ state[q] = "RUNNABLE"
    BY <2>1, ZenonT(30) DEF SchedRun, Si
  <2>3. \A d \in CPUs : Stack[d] # q
    BY <2>2, SchedAssumption, SMT, Z3 DEF IInv, Conditions, PLocks, PLabels
  <2>4. Pc[q] \in Parked
    BY <2>3, Zenon DEF IInv, Placement
  <2> QED
    BY <2>1, <2>2, <2>3, <2>4, Zenon
<1>3. UNCHANGED <<th, Pc, Ret, Back, Wk>>
  BY Zenon DEF SchedRun, Pc, Ret, Back, Wk
<1>4. Switches(c, q)
  <2>1. q \in 0..NPROC /\ cpu' = [cpu EXCEPT ![c].proc = q, ![c].stack = q]
    BY <1>2, SMT, Z3 DEF SchedRun, Si, Procs
  <2> QED
    BY <2>1, SwitchEffect, Zenon DEF IInv
<1>5. /\ plock' = [plock EXCEPT ![q] = c]
      /\ state' = [state EXCEPT ![q] = "RUNNING"]
      /\ sc' \in [CPUs -> ScRec]
      /\ Sp' = [Sp EXCEPT ![c] = "back"]
      /\ Si' = Si
      /\ UNCHANGED <<lk, slk, chan, Chan>>
  BY <1>1, <1>2, ZenonT(30) DEF IInv, TypeOK, SchedRun, Chan, Sp, Si, ScRec, Procs
<1>6. TypeOK'
  <2>1. plock' \in [Procs -> CPUs \cup {None}]
    BY <1>1, <1>5, Zenon DEF Views
  <2>2. state' \in [Procs -> {"SLEEPING", "RUNNABLE", "RUNNING"}]
    BY <1>1, <1>5, Zenon DEF Views
  <2> QED
    BY <1>3, <1>4, <1>5, <2>1, <2>2, Zenon DEF IInv, TypeOK, CpuRec, ThRec, ScRec, Switches
<1>7. Placement'
  BY <1>1, <1>2, <1>3, <1>4, <1>5, SMTT(30), Z3T(30) DEF IInv, Views, Procs, Switches, Placement
<1>8. Conditions'
  <2>1. \A k \in Procs, d \in CPUs : Stack'[d] = k <=> IF d = c THEN k = q ELSE Stack[d] = k
    BY <1>1, <1>2, <1>4, ZenonT(30) DEF Views, Switches
  <2>2. \A k \in Procs \ {q}, d \in CPUs : Stack'[d] = k <=> Stack[d] = k
    BY <1>2, <2>1, SMT, Z3 DEF Procs
  <2>3. \A k \in Procs \ {q} : state'[k] = state[k]
    BY <1>1, <1>5, Zenon DEF Views
  <2>4. state'[q] = "RUNNING" /\ Stack'[c] = q
    BY <1>1, <1>5, <2>1, ZenonT(30) DEF Views
  <2>5. ASSUME NEW k \in Procs, k # q
        PROVE  /\ state'[k] = state[k] /\ Pc'[k] = Pc[k] /\ Ret'[k] = Ret[k] /\ Back'[k] = Back[k]
               /\ k \in Chan' <=> k \in Chan
               /\ (\E d \in CPUs : Stack'[d] = k) <=> \E d \in CPUs : Stack[d] = k
    <3>1. k \in Procs \ {q}
      BY <2>5, Zenon
    <3> QED
      BY <1>3, <1>5, <2>2, <2>3, <3>1, Zenon
  <2>6. /\ state'[q] = "RUNNING" /\ Pc'[q] = Pc[q] /\ Back'[q] = Back[q] /\ Pc[q] # "swtch"
        /\ \E d \in CPUs : Stack'[d] = q
    BY <1>2, <1>3, <2>4, Zenon DEF Parked
  <2>7. Conditions
    BY Zenon DEF IInv
  <2>8. SUFFICES ASSUME NEW k \in Procs
        PROVE  /\ state'[k] = "RUNNING" <=> (\E d \in CPUs : Stack'[d] = k) /\ Pc'[k] # "swtch"
               /\ Pc'[k] = "swtch" => /\ Ret'[k] \in {"sl_ret", "y_ret"}
                                     /\ state'[k] = IF Ret'[k] = "sl_ret" THEN "SLEEPING" ELSE "RUNNABLE"
               /\ state'[k] = "SLEEPING" => k \in Chan' /\ Pc'[k] \in {"swtch", "sl_ret"}
               /\ Back'[k] \in Open
    BY Zenon DEF Conditions
  <2>9. CASE k = q
    BY <2>6, <2>7, <2>9, Zenon DEF Conditions
  <2>10. CASE k # q
    <3>1. /\ state[k] = "RUNNING" <=> (\E d \in CPUs : Stack[d] = k) /\ Pc[k] # "swtch"
          /\ Pc[k] = "swtch" => /\ Ret[k] \in {"sl_ret", "y_ret"}
                               /\ state[k] = IF Ret[k] = "sl_ret" THEN "SLEEPING" ELSE "RUNNABLE"
          /\ state[k] = "SLEEPING" => k \in Chan /\ Pc[k] \in {"swtch", "sl_ret"}
          /\ Back[k] \in Open
      BY <2>7, Zenon DEF Conditions
    <3>2. /\ state'[k] = state[k] /\ Pc'[k] = Pc[k] /\ Ret'[k] = Ret[k] /\ Back'[k] = Back[k]
          /\ k \in Chan' <=> k \in Chan
          /\ (\E d \in CPUs : Stack'[d] = k) <=> \E d \in CPUs : Stack[d] = k
      BY <2>5, <2>10, Zenon
    <3>3. state'[k] = "RUNNING" <=> (\E d \in CPUs : Stack'[d] = k) /\ Pc'[k] # "swtch"
      BY <3>1, <3>2, Zenon
    <3>4. Pc'[k] = "swtch" => /\ Ret'[k] \in {"sl_ret", "y_ret"}
                             /\ state'[k] = IF Ret'[k] = "sl_ret" THEN "SLEEPING" ELSE "RUNNABLE"
      BY <3>1, <3>2, Zenon
    <3>5. state'[k] = "SLEEPING" => k \in Chan' /\ Pc'[k] \in {"swtch", "sl_ret"}
      BY <3>1, <3>2, Zenon
    <3> QED
      BY <3>1, <3>2, <3>3, <3>4, <3>5, Zenon
  <2> QED
    BY <2>9, <2>10, Zenon
<1>9. PLocks'
  <2>1. \A k \in Procs, d \in CPUs : Stack'[d] = k <=> IF d = c THEN k = q ELSE Stack[d] = k
    BY <1>1, <1>2, <1>4, Zenon DEF Views, Switches
  <2>2. \A k \in Procs \ {q}, d \in CPUs : Stack'[d] = k <=> Stack[d] = k
    BY <1>2, <2>1, SMT, Z3 DEF Procs
  <2>3. Stack'[c] = q /\ q # 0 /\ \A d \in CPUs \ {c} : Stack'[d] = Stack[d] /\ Sp'[d] = Sp[d]
    BY <1>1, <1>4, <1>5, SMT, Z3 DEF Views, Procs, Switches
  <2>4. \A d \in CPUs : Stack'[d] = 0 /\ Sp'[d] = "back"
                          <=> d # c /\ Stack[d] = 0 /\ Sp[d] = "back"
    BY <1>1, <2>3, Zenon
  <2>5. \A k \in Procs \ {q} : plock'[k] = plock[k]
    BY <1>1, <1>5, ZenonT(30) DEF Views
  <2>6. ASSUME NEW k \in Procs \ {q}, NEW d \in CPUs
        PROVE  plock'[k] = d <=>
                 \/ Stack'[d] = k /\ Pc'[k] \in PLabels
                 \/ Stack'[d] = 0 /\ Sp'[d] = "back" /\ Si'[d] = k
    BY <1>2, <1>3, <1>5, <2>2, <2>4, <2>5, SMTT(30), Z3T(30) DEF IInv, PLocks
  <2>7. ASSUME NEW d \in CPUs
        PROVE  plock'[q] = d <=>
                 \/ Stack'[d] = q /\ Pc'[q] \in PLabels
                 \/ Stack'[d] = 0 /\ Sp'[d] = "back" /\ Si'[d] = q
    <3>1. plock'[q] = c
      BY <1>1, <1>5, Zenon DEF Views
    <3>2. Pc'[q] \in PLabels
      BY <1>2, <1>3, Zenon DEF Parked, PLabels
    <3>3. ~(d # c /\ Stack[d] = 0 /\ Sp[d] = "back" /\ Si[d] = q)
      BY <1>2, SchedAssumption, SMTT(30), Z3T(30) DEF IInv, PLocks
    <3> QED
      BY <1>2, <1>5, <2>1, <2>4, <3>1, <3>2, <3>3, SMTT(30), Z3T(30)
  <2> QED
    BY <2>6, <2>7, Zenon DEF PLocks
<1>10. LkHeld'
  BY <1>1, <1>2, <1>3, <1>4, <1>5, SMTT(30), Z3T(30)
     DEF IInv, Views, Procs, Switches, LkHeld, LkLabels,
     Parked
<1>11. Nesting'
  <2>1. \A k \in Procs, d \in CPUs : Stack'[d] = k <=> IF d = c THEN k = q ELSE Stack[d] = k
    BY <1>1, <1>2, <1>4, Zenon DEF Views, Switches
  <2>2. \A k \in Procs \ {q}, d \in CPUs : Stack'[d] = k <=> Stack[d] = k
    BY <1>2, <2>1, SMT, Z3 DEF Procs
  <2>3. Stack'[c] = q /\ q # 0 /\ \A d \in CPUs \ {c} : Stack'[d] = Stack[d] /\ Sp'[d] = Sp[d]
    BY <1>1, <1>4, <1>5, SMT, Z3 DEF Views, Procs, Switches
  <2>4. Depth(Pc[q]) = 1
    BY <1>2, Zenon DEF Parked, Depth, Open
  <2>5. \A k \in Procs : Stack'[c] = k => k = q
    BY <2>3, Zenon
  <2>6. Pc' = Pc /\ Noff' = Noff /\ Ion' = Ion
    BY <1>3, <1>4, ZenonT(30) DEF Switches
  <2>7. ASSUME NEW d \in CPUs \ {c} PROVE
          /\ Stack'[d] = 0 => Noff'[d] = IF Sp'[d] \in {"spin", "back"} THEN 1 ELSE 0
          /\ \A k \in Procs : Stack'[d] = k => Noff'[d] = Depth(Pc'[k])
    BY <2>3, <2>6, SMT, Z3 DEF IInv, Nesting
  <2>8. /\ Stack'[c] = 0 => Noff'[c] = IF Sp'[c] \in {"spin", "back"} THEN 1 ELSE 0
        /\ \A k \in Procs : Stack'[c] = k => Noff'[c] = Depth(Pc'[k])
    BY <1>2, <2>3, <2>4, <2>5, <2>6, Zenon
  <2>9. \A d \in CPUs : Noff'[d] > 0 => d \notin Ion'
    BY <2>6, Zenon DEF IInv, Nesting
  <2> QED
    BY <2>7, <2>8, <2>9, ZenonT(30) DEF Nesting
<1>12. Owner'
  BY <1>1, <1>3, <1>5, Zenon DEF IInv, Views, Owner
<1>13. Sleepers'
  <2>1. \A k \in Procs : state'[k] = "SLEEPING" => state[k] = "SLEEPING"
    BY <1>1, <1>5, Zenon DEF Views
  <2> QED
    BY <1>3, <1>5, <2>1, Zenon DEF IInv, Sleepers
<1> QED
  BY <1>6, <1>7, <1>8, <1>9, <1>10, <1>11, <1>12, <1>13, Zenon DEF IInv

\* A process has switched back to the scheduler.
LEMMA SchedBackStep ==
  ASSUME IInv, NEW c \in CPUs, SchedBack(c)
  PROVE  IInv'
<1>1. Views
  BY ViewsOK, Zenon DEF IInv
<1>2. PICK q \in Procs :
      /\ q = Si[c]
      /\ Stack[c] = 0
      /\ Sp[c] = "back"
      /\ Noff[c] = 1
  BY <1>1, Zenon DEF IInv, Views, Placement, Nesting, SchedBack, SchedAt, Stack, Sp
<1>3. UNCHANGED <<th, Pc, Ret, Back, Wk>>
  BY Zenon DEF SchedBack, Pc, Ret, Back, Wk
<1>4. Pops(c)
  <2>1. PICK r \in CpuRec : /\ r = cpu[c] /\ r.noff = Noff[c] /\ r.stack = Stack[c]
                            /\ (r.ie <=> c \in Ion)
    BY CpuOf, Zenon DEF IInv
  <2>2. PICK s \in CpuRec : s = [r EXCEPT !.proc = 0] /\ s.noff = Noff[c] /\ s.stack = Stack[c]
    <3>1. [r EXCEPT !.proc = 0] \in CpuRec
      BY SchedAssumption, SMT, Z3 DEF CpuRec
    <3>2. [r EXCEPT !.proc = 0].noff = Noff[c] /\ [r EXCEPT !.proc = 0].stack = Stack[c]
      BY <2>1, Zenon DEF CpuRec
    <3> QED
      BY <3>1, <3>2, Zenon
  <2>3. s.noff > 0 /\ s.noff - 1 = 0
    BY <1>2, <2>2, SMT, Z3
  <2>4. PICK t \in CpuRec : t = PopOff(s) /\ t.noff = 0 /\ t.stack = Stack[c]
    <3>1. /\ PopOff(s) \in CpuRec /\ PopOff(s).stack = s.stack /\ PopOff(s).noff = s.noff - 1
      BY <2>3, PushPop, Zenon
    <3> QED
      BY <2>2, <2>3, <3>1, Zenon
  <2>5. cpu' = [cpu EXCEPT ![c] = t]
    BY <2>1, <2>2, <2>4, Zenon DEF SchedBack
  <2>6. /\ cpu' \in [CPUs -> CpuRec] /\ Stack' = [Stack EXCEPT ![c] = t.stack]
        /\ Noff' = [Noff EXCEPT ![c] = t.noff]
        /\ Ion' = IF t.ie THEN Ion \cup {c} ELSE Ion \ {c}
    BY <2>5, CpuEffect, Zenon DEF IInv
  <2>7. Ion' \subseteq Ion \cup {c}
    BY <2>6, Zenon
  <2> QED
    BY <1>1, <1>2, <2>4, <2>6, <2>7, SMT, Z3 DEF Views, Pops
<1>5. /\ plock' = [plock EXCEPT ![q] = None]
      /\ sc' \in [CPUs -> ScRec]
      /\ Sp' = [Sp EXCEPT ![c] = "scan"]
      /\ Si' = [Si EXCEPT ![c] = q + 1]
      /\ UNCHANGED <<lk, slk, state, chan, Chan>>
  <2>0. PICK n \in 1..NPROC+1 : n = q + 1
    BY SchedAssumption, SMT, Z3 DEF Procs
  <2>1. PICK s \in ScRec : s = [pc |-> "scan", i |-> n]
    BY Zenon DEF ScRec
  <2>2. sc' = [sc EXCEPT ![c] = s]
    BY <1>2, <2>0, <2>1, Zenon DEF SchedBack, Si
  <2>3. sc' \in [CPUs -> ScRec] /\ Sp' = [Sp EXCEPT ![c] = s.pc] /\ Si' = [Si EXCEPT ![c] = s.i]
    BY <2>2, ScEffect, Zenon DEF IInv
  <2>4. /\ plock' = [plock EXCEPT ![q] = None]
        /\ UNCHANGED <<lk, slk, state, chan, Chan>>
    BY <1>2, Zenon DEF SchedBack, Chan, Si
  <2> QED
    BY <2>0, <2>1, <2>3, <2>4, Zenon
<1>6. TypeOK'
  <2>1. plock' \in [Procs -> CPUs \cup {None}]
    BY <1>1, <1>5, Zenon DEF Views
  <2> QED
    BY <1>3, <1>4, <1>5, <2>1, Zenon DEF IInv, TypeOK, CpuRec, ThRec, ScRec, Pops
<1>7. Placement'
  BY <1>1, <1>2, <1>3, <1>4, <1>5, ZenonT(30) DEF IInv, Views, Pops, Placement
<1>8. Conditions'
  BY <1>1, <1>3, <1>4, <1>5, ZenonT(30) DEF IInv, Views, Pops, Conditions
<1>9. PLocks'
  BY <1>1, <1>2, <1>3, <1>4, <1>5, SchedAssumption, SMTT(30), Z3T(30)
     DEF IInv, Views, Pops, PLocks
<1>10. LkHeld'
  BY <1>1, <1>3, <1>4, <1>5, ZenonT(30) DEF IInv, Views, Pops, LkHeld
<1>11. Nesting'
  BY <1>1, <1>2, <1>3, <1>4, <1>5, SMTT(30), Z3T(30) DEF IInv, Views, Procs, Pops, Nesting
<1>12. Owner'
  BY <1>1, <1>3, <1>5, Zenon DEF IInv, Views, Owner
<1>13. Sleepers'
  BY <1>1, <1>3, <1>5, Zenon DEF IInv, Views, Sleepers
<1> QED
  BY <1>6, <1>7, <1>8, <1>9, <1>10, <1>11, <1>12, <1>13, Zenon DEF IInv

\* The scan ends, or acquires the lock of the next process.
LEMMA SchedScanStep ==
  ASSUME IInv, NEW c \in CPUs, SchedScan(c)
  PROVE  IInv'
<1>1. Views
  BY ViewsOK, Zenon DEF IInv
<1>2. Stack[c] = 0 /\ Sp[c] = "scan" /\ Noff[c] = 0
  BY Zenon DEF IInv, Nesting, SchedScan, SchedAt, Stack, Sp
<1>3. PICK l \in {"top", "spin"} :
      /\ sc' = [sc EXCEPT ![c].pc = l]
      /\ l = "top" => UNCHANGED cpu
      /\ l = "spin" => Si[c] \in Procs /\ Enter(c)
  <2>1. CASE sc[c].i > NPROC
    BY <2>1, Zenon DEF SchedScan
  <2>2. CASE ~(sc[c].i > NPROC)
    <3>1. Si[c] \in Procs
      BY <1>1, <2>2, SchedAssumption, SMT, Z3 DEF Views, Si, Procs
    <3> QED
      BY <2>2, <3>1, ZenonT(30) DEF SchedScan
  <2> QED
    BY <2>1, <2>2, Zenon
<1>4. sc' \in [CPUs -> ScRec] /\ Sp' = [Sp EXCEPT ![c] = l] /\ Si' = Si
  <2>1. sc \in [CPUs -> ScRec] /\ sc' \in [CPUs -> ScRec]
    BY <1>3, ZenonT(60) DEF IInv, TypeOK, ScRec
  <2> QED
    BY <1>3, <2>1, ZenonT(30) DEF Sp, Si, ScRec
<1>5. UNCHANGED <<th, Pc, Ret, Back, Wk, plock, lk, slk, state, chan, Chan>>
  BY Zenon DEF SchedScan, Pc, Ret, Back, Wk, Chan
<1>6. cpu' \in [CPUs -> CpuRec] /\ Stack' = Stack /\ Ion' \subseteq Ion
  <2>1. CASE l = "top"
    BY <1>3, <2>1, Zenon DEF Stack, Ion, IInv, TypeOK, CpuRec
  <2>2. CASE l = "spin"
    BY <1>2, <1>3, <2>2, EnterEffect, SMT, Z3 DEF IInv, Pushes
  <2> QED
    BY <2>1, <2>2, Zenon
<1>7. /\ l = "top" => Noff' = Noff
      /\ l = "spin" => Noff' = [Noff EXCEPT ![c] = 1] /\ c \notin Ion'
  <2>1. CASE l = "top"
    BY <1>3, <2>1, Zenon DEF Noff
  <2>2. CASE l = "spin"
    BY <1>2, <1>3, <2>2, EnterEffect, SMT, Z3 DEF IInv, Pushes
  <2> QED
    BY <2>1, <2>2, Zenon
<1>8. TypeOK'
  BY <1>4, <1>5, <1>6, Zenon DEF IInv, TypeOK, CpuRec, ScRec
<1>9. Placement'
  BY <1>1, <1>2, <1>3, <1>4, <1>5, <1>6, ZenonT(30) DEF IInv, Views, Placement
<1>10. (Conditions /\ LkHeld /\ Owner /\ Sleepers)'
  BY <1>5, <1>6, SMTT(30), Z3T(30) DEF IInv, Conditions, LkHeld, Owner, Sleepers
<1>11. PLocks'
  BY <1>1, <1>2, <1>4, <1>5, <1>6, SMTT(30), Z3T(30) DEF IInv, Views, PLocks
<1>12. Nesting'
  BY <1>1, <1>2, <1>4, <1>5, <1>6, <1>7, SMTT(30), Z3T(30) DEF IInv, Views, Nesting, Procs
<1> QED
  BY <1>8, <1>9, <1>10, <1>11, <1>12, Zenon DEF IInv

-----------------------------------------------------------------------------
\* procinit, userinit and the start of every hart's scheduler.
LEMMA InitIInv == Init => IInv
<1> SUFFICES ASSUME Init PROVE IInv
  BY Zenon
<1>1. cpu \in [CPUs -> CpuRec]
  BY SchedAssumption, SMTT(30), Z3T(30) DEF Init, CpuRec
<1>2. th \in [Procs -> ThRec]
  BY SchedAssumption, SMTT(30), Z3T(30) DEF Init, ThRec, Labels
<1>3. sc \in [CPUs -> ScRec]
  BY SchedAssumption, SMTT(30), Z3T(30) DEF Init, ScRec
<1>4. slk \in [locked : BOOLEAN, pid : 0..NPROC] /\ chan \in [Procs -> BOOLEAN]
  BY SchedAssumption, SMTT(30), Z3T(30) DEF Init
<1>5. TypeOK
  BY <1>1, <1>2, <1>3, <1>4, Zenon DEF Init, TypeOK, CpuRec, ThRec, ScRec
<1>6. /\ \A c \in CPUs : Stack[c] = 0 /\ Noff[c] = 0 /\ Sp[c] = "top"
      /\ \A p \in Procs : Pc[p] = "forkret" /\ Back[p] = "out"
      /\ \A p \in Procs : state[p] = "RUNNABLE" /\ plock[p] = None /\ p # 0
      /\ lk = None
  BY SMTT(30), Z3T(30) DEF Init, Stack, Noff, Sp, Pc, Back, Procs
<1>7. Placement /\ LkHeld
  BY <1>6, SchedAssumption, ZenonT(30) DEF Placement, Parked, LkHeld
<1>8. Conditions /\ PLocks
  BY <1>6, SchedAssumption, SMTT(30), Z3T(30) DEF Conditions, Open, PLocks
<1>9. Nesting /\ Owner /\ Sleepers
  BY <1>6, SchedAssumption, SMTT(30), Z3T(30) DEF Nesting, Owner, Sleepers
<1> QED
  BY <1>5, <1>7, <1>8, <1>9, Zenon DEF IInv

\* Every step of a kernel thread or of a scheduler preserves the invariant.
LEMMA NextIInv == IInv /\ [Next]_vars => IInv'
<1> SUFFICES ASSUME IInv, [Next]_vars PROVE IInv'
  BY Zenon
<1>1. CASE UNCHANGED vars
  <2>1. UNCHANGED <<Pc, Ret, Back, Wk, Stack, Noff, Ion, Sp, Si, Chan, plock, lk, slk, state>>
    BY <1>1, Zenon DEF vars, Pc, Ret, Back, Wk, Stack, Noff, Ion, Sp, Si, Chan
  <2>2. TypeOK'
    BY <1>1, ZenonT(30) DEF vars, IInv, TypeOK
  <2>3. Placement' /\ Conditions' /\ PLocks' /\ LkHeld'
    <3>1. Placement /\ Conditions /\ PLocks /\ LkHeld
      BY Zenon DEF IInv
    <3>2. Placement'
      BY <2>1, <3>1, Zenon DEF Placement
    <3>3. Conditions'
      BY <2>1, <3>1, Zenon DEF Conditions
    <3>4. PLocks'
      <4>1. \A p \in Procs, c \in CPUs : /\ plock'[p] = plock[p] /\ Stack'[c] = Stack[c]
                                       /\ Pc'[p] = Pc[p] /\ Sp'[c] = Sp[c] /\ Si'[c] = Si[c]
        BY <2>1, Zenon
      <4> QED
        BY <3>1, <4>1, SMTT(30), Z3T(30) DEF PLocks
    <3>5. LkHeld'
      BY <2>1, <3>1, Zenon DEF LkHeld
    <3> QED
      BY <3>2, <3>3, <3>4, <3>5, Zenon
  <2>5. (Nesting /\ Owner /\ Sleepers)'
    BY <2>1, Zenon DEF IInv, Nesting, Owner, Sleepers
  <2> QED
    BY <2>2, <2>3, <2>5, Zenon DEF IInv
<1>2. ASSUME NEW c \in CPUs, SchedStep(c) PROVE IInv'
  BY <1>2, SchedTopStep, SchedScanStep, SchedSkipStep, SchedRunStep, SchedBackStep, Zenon
     DEF SchedStep
<1>3. ASSUME NEW c \in CPUs, NEW p \in Procs, SleepLockStep(p, c) PROVE IInv'
  BY Zenon, <1>3, AcquireSleepStep, AcquireSleepSpinStep, AcquireSleepTakenStep,
     AcquireSleepGotStep, SleepLockProcStep, SleepReleaseStep, SleepSetStep,
     SleepReturnStep, ReleaseSleepStep, ReleaseSleepSpinStep, WakeupStep,
     ReleaseSleepDoneStep DEF SleepLockStep
<1>4. ASSUME NEW c \in CPUs, NEW p \in Procs, SwitchStep(p, c) PROVE IInv'
  BY <1>4, SwtchStep, YieldSpinStep, YieldReturnStep, ForkRetStep, Zenon DEF SwitchStep
<1> QED
  BY <1>1, <1>2, <1>3, <1>4, TimerStep, Zenon DEF Next

\* The inductive invariant of threads, CPUs and locks.
THEOREM SchedInvariance == Spec => []IInv
BY InitIInv, NextIInv, PTL DEF Spec

\* On any number of CPUs no two execute on the kernel stack of one process, and a
\* process that a scheduler may pick is on none: p->lock is handed over across swtch
\* (proc.c, scheduler, sched, sleep, yield).
THEOREM StacksExclusive == Spec => []OneStack
<1>1. IInv => OneStack
  <2> SUFFICES ASSUME IInv PROVE OneStack
    BY Zenon
  <2>1. \A c \in CPUs : Stack[c] = cpu[c].stack
    BY Zenon DEF Stack
  <2>2. ASSUME NEW p \in Procs, NEW c \in CPUs, plock[p] = None, state[p] # "RUNNING"
        PROVE  Stack[c] # p
    BY <2>2, SchedAssumption, SMT, Z3 DEF IInv, Conditions, PLocks, PLabels
  <2>3. \A c, d \in CPUs : Stack[c] # 0 /\ Stack[c] = Stack[d] => c = d
    BY Zenon DEF IInv, Placement
  <2> QED
    BY <2>1, <2>2, <2>3, ZenonT(30) DEF OneStack
<1> QED
  BY <1>1, SchedInvariance, PTL

\* The equation of the function by which Cardinality is defined.
Counts(S, g) == \A T \in SUBSET S : g[T] = IF T = {} THEN 0 ELSE 1 + g[T \ {CHOOSE x : x \in T}]

\* Cardinality is given by a function that counts, if there is one.
LEMMA CardinalityCounts ==
  ASSUME NEW S, NEW f, DOMAIN f = SUBSET S, f = [T \in SUBSET S |-> f[T]], Counts(S, f)
  PROVE  \E g : Counts(S, g) /\ Cardinality(S) = g[S]
<1> DEFINE CS == CHOOSE g : g = [T \in SUBSET S |-> IF T = {} THEN 0
                                                   ELSE 1 + g[T \ {CHOOSE x : x \in T}]]
<1>1. f = [T \in SUBSET S |-> IF T = {} THEN 0 ELSE 1 + f[T \ {CHOOSE x : x \in T}]]
  BY Zenon DEF Counts
<1>2. CS = [T \in SUBSET S |-> IF T = {} THEN 0 ELSE 1 + CS[T \ {CHOOSE x : x \in T}]]
  BY <1>1, Zenon
<1>3. Cardinality(S) = CS[S]
  BY Zenon DEF Cardinality
<1>4. Counts(S, CS)
  <2> HIDE DEF CS
  <2> QED
    BY <1>2, Zenon DEF Counts
<1> QED
  BY <1>3, <1>4, Zenon

\* The cardinality of a set of at most two elements.
LEMMA SmallSets ==
  ASSUME NEW x, NEW y
  PROVE  /\ Cardinality({}) = 0 /\ Cardinality({x}) = 1
         /\ x # y => Cardinality({x, y}) = 2
<1>1. Cardinality({}) = 0
  <2>1. Counts({}, [T \in SUBSET {} |-> 0])
    BY Zenon DEF Counts
  <2>2. PICK g : Counts({}, g) /\ Cardinality({}) = g[{}]
    BY <2>1, CardinalityCounts, Zenon
  <2> QED
    BY <2>2, Zenon DEF Counts
<1>2. ASSUME NEW S, S = {x} \/ (x # y /\ S = {x, y})
      PROVE  \E g : Counts(S, g) /\ Cardinality(S) = g[S]
  <2> DEFINE f == [T \in SUBSET S |-> IF T = {} THEN 0 ELSE IF x \in T /\ y \in T /\ x # y THEN 2 ELSE 1]
  <2>1. ASSUME NEW T \in SUBSET S, T # {} PROVE f[T] = 1 + f[T \ {CHOOSE u : u \in T}]
    <3>1. PICK z : z = (CHOOSE u : u \in T) /\ z \in T
      BY <2>1, Zenon
    <3>2. T \ {z} \in SUBSET S /\ ~(x \in T \ {z} /\ y \in T \ {z} /\ x # y)
      BY <1>2, <3>1, Zenon
    <3>3. f[T \ {z}] = IF T \ {z} = {} THEN 0 ELSE 1
      BY <3>2, Zenon
    <3>4. T \ {z} = {} <=> ~(x \in T /\ y \in T /\ x # y)
      <4>1. ASSUME NEW t \in T, t # z PROVE x \in T /\ y \in T /\ x # y
        <5>1. z \in S /\ t \in S /\ z \in T
          BY <2>1, <3>1, Zenon
        <5> QED
          BY <1>2, <4>1, <5>1, SMT, Z3
      <4>2. ASSUME x \in T, y \in T, x # y PROVE T \ {z} # {}
        BY <4>2, SMT, Z3
      <4> QED
        BY <4>1, <4>2, Zenon
    <3>5. f[T] = IF x \in T /\ y \in T /\ x # y THEN 2 ELSE 1
      BY <2>1, Zenon
    <3> HIDE DEF f
    <3> QED
      BY <3>1, <3>3, <3>4, <3>5, SMT, Z3
  <2>2. Counts(S, f)
    <3>1. f[{}] = 0
      BY Zenon
    <3> HIDE DEF f
    <3> QED
      BY <2>1, <3>1, Zenon DEF Counts
  <2>3. DOMAIN f = SUBSET S /\ f = [T \in SUBSET S |-> f[T]]
    BY Zenon
  <2> HIDE DEF f
  <2> QED
    BY <2>2, <2>3, CardinalityCounts, Zenon
<1>3. Cardinality({x}) = 1
  <2>1. PICK g : Counts({x}, g) /\ Cardinality({x}) = g[{x}]
    BY <1>2, SMT, Z3
  <2>2. {x} \ {CHOOSE u : u \in {x}} = {} /\ {x} # {}
    BY Zenon
  <2>3. g[{}] = 0 /\ g[{x}] = 1 + g[{}]
    BY <2>1, <2>2, Zenon DEF Counts
  <2> QED
    BY <2>1, <2>3, SMTT(30), Z3T(30)
<1>4. ASSUME x # y PROVE Cardinality({x, y}) = 2
  <2>1. PICK g : Counts({x, y}, g) /\ Cardinality({x, y}) = g[{x, y}]
    BY <1>2, <1>4, Zenon
  <2>2. PICK z \in {x, y} : z = CHOOSE u : u \in {x, y}
    BY Zenon
  <2>3. PICK w \in {x, y} : {x, y} \ {z} = {w}
    BY <1>4, SMT, Z3
  <2>4. {w} \ {CHOOSE u : u \in {w}} = {} /\ {w} # {} /\ {w} \in SUBSET {x, y}
    BY Zenon
  <2>5. g[{}] = 0 /\ g[{w}] = 1 + g[{}]
    BY <2>1, <2>4, Zenon DEF Counts
  <2>6. g[{x, y}] = 1 + g[{w}]
    BY <2>1, <2>2, <2>3, Zenon DEF Counts
  <2> QED
    BY <2>1, <2>5, <2>6, SMT, Z3
<1> QED
  BY <1>1, <1>3, <1>4, Zenon
\* noff counts the spinlocks of a CPU.
LEMMA NoffExact == ASSUME IInv PROVE NoffCountsLocks
<1>1. Views
  BY ViewsOK, Zenon DEF IInv
<1>2. SUFFICES ASSUME NEW c \in CPUs
               PROVE  /\ cpu[c].noff = Cardinality(Held(c)) + (IF Spinning(c) THEN 1 ELSE 0)
                      /\ cpu[c].noff > 0 => ~cpu[c].ie
  BY Zenon DEF NoffCountsLocks
<1>3. cpu[c].noff = Noff[c] /\ cpu[c].stack = Stack[c] /\ sc[c].pc = Sp[c]
      /\ \A p \in Procs : th[p].pc = Pc[p]
  BY Zenon DEF Noff, Stack, Sp, Pc
<1>4. Noff[c] > 0 => ~cpu[c].ie
  <2>1. Noff[c] > 0 => c \notin Ion
    BY Zenon DEF IInv, Nesting
  <2> QED
    BY <2>1, Zenon DEF Ion
<1>5. Held(c) = {p \in Procs : plock[p] = c} \cup (IF lk = c THEN {0} ELSE {})
  BY Zenon DEF Held
<1>6. ASSUME Stack[c] = 0
      PROVE  Noff[c] = Cardinality(Held(c)) + (IF Spinning(c) THEN 1 ELSE 0)
  <2>1. lk # c
    BY <1>6, SMTT(30), Z3T(30) DEF IInv, LkHeld, Procs
  <2>2. Spinning(c) <=> Sp[c] = "spin"
    BY <1>3, <1>6, SMTT(30), Z3T(30) DEF Spinning, SchedAt, Procs
  <2>3. CASE Sp[c] = "back"
    <3>1. Held(c) = {Si[c]}
      BY <1>5, <1>6, <2>1, <2>3, SMTT(30), Z3T(30) DEF IInv, PLocks, Placement, Procs
    <3>2. Cardinality(Held(c)) = 1
      BY <3>1, SmallSets, ZenonT(30)
    <3> QED
      BY <1>6, <2>2, <2>3, <3>2, SMTT(30), Z3T(30) DEF IInv, Nesting
  <2>4. CASE Sp[c] # "back"
    <3>1. Held(c) = {}
      BY <1>5, <1>6, <2>1, <2>4, SMTT(30), Z3T(30) DEF IInv, PLocks, Procs
    <3>2. Cardinality(Held(c)) = 0
      BY <3>1, SmallSets, Zenon
    <3> QED
      BY <1>6, <2>2, <2>4, <3>2, SMTT(30), Z3T(30) DEF IInv, Nesting
  <2> QED
    BY <2>3, <2>4, Zenon
<1>7. ASSUME NEW p \in Procs, Stack[c] = p
      PROVE  Noff[c] = Cardinality(Held(c)) + (IF Spinning(c) THEN 1 ELSE 0)
  <2>1. PICK l \in Labels : l = Pc[p] /\ Noff[c] = Depth(l) /\ p # 0
    BY <1>1, <1>7, SMT, Z3 DEF IInv, Nesting, Views, Procs
  <2>2. lk = c <=> l \in LkLabels
    BY <1>7, <2>1, Zenon DEF IInv, LkHeld
  <2>3. {q \in Procs : plock[q] = c} = IF l \in PLabels THEN {p} ELSE {}
    BY <1>7, <2>1, SMT, Z3 DEF IInv, PLocks
  <2>4. Spinning(c) <=> l \in {"as_spin", "sl_spin", "rs_spin", "y_spin"}
    BY <1>3, <1>7, <2>1, Zenon DEF Spinning, SchedAt
  <2>5. CASE l \in PLabels /\ l \in LkLabels
    <3>1. Held(c) = {p} \cup {0}
      BY <1>5, <2>2, <2>3, <2>5, Zenon
    <3>2. {p} \cup {0} = {p, 0}
      BY Zenon
    <3>3. Cardinality({p, 0}) = 2
      BY <2>1, SmallSets, Zenon
    <3>4. Noff[c] = 2 /\ ~Spinning(c)
      BY <2>1, <2>4, <2>5, Zenon DEF PLabels, LkLabels, Depth, Open
    <3> QED
      BY <3>1, <3>2, <3>3, <3>4, SMT, Z3
  <2>6. CASE l \in PLabels /\ l \notin LkLabels
    <3>1. Held(c) = {p}
      BY <1>5, <2>2, <2>3, <2>6, Zenon
    <3>2. Cardinality({p}) = 1
      BY SmallSets, Zenon
    <3>3. Noff[c] = 1 /\ ~Spinning(c)
      BY <2>1, <2>4, <2>6, Zenon DEF PLabels, LkLabels, Depth, Open
    <3> QED
      BY <3>1, <3>2, <3>3, SMT, Z3
  <2>7. CASE l \notin PLabels /\ l \in LkLabels
    <3>1. Held(c) = {0}
      BY <1>5, <2>2, <2>3, <2>7, Zenon
    <3>2. Cardinality({0}) = 1
      BY SmallSets, Zenon
    <3>3. Noff[c] = 1 + (IF Spinning(c) THEN 1 ELSE 0)
      BY <2>1, <2>4, <2>7, SMT, Z3 DEF PLabels, LkLabels, Depth, Open
    <3> QED
      BY <3>1, <3>2, <3>3, Zenon
  <2>8. CASE l \notin PLabels /\ l \notin LkLabels
    <3>1. Held(c) = {}
      BY <1>5, <2>2, <2>3, <2>8, Zenon
    <3>2. Cardinality({}) = 0
      BY SmallSets, Zenon
    <3>3. Noff[c] = 0 + (IF Spinning(c) THEN 1 ELSE 0)
      BY <2>1, <2>4, <2>8, SMT, Z3 DEF PLabels, LkLabels, Depth, Open, Labels
    <3> QED
      BY <3>1, <3>2, <3>3, Zenon
  <2> QED
    BY <2>5, <2>6, <2>7, <2>8, ZenonT(30)
<1>8. Stack[c] = 0 \/ Stack[c] \in Procs
  BY <1>1, SchedAssumption, SMT, Z3 DEF Views, Procs
<1>9. Noff[c] = Cardinality(Held(c)) + (IF Spinning(c) THEN 1 ELSE 0)
  BY <1>6, <1>7, <1>8, Zenon
<1> QED
  BY <1>3, <1>4, <1>9, Zenon

\* The checks in sched, acquire and release pass.
LEMMA ChecksPass == ASSUME IInv PROVE PanicFree
<1> SUFFICES ASSUME NEW c \in CPUs, NEW p \in Procs, cpu[c].stack = p
             PROVE  /\ th[p].pc = "swtch" => /\ plock[p] = c /\ cpu[c].noff = 1
                                             /\ state[p] # "RUNNING" /\ ~cpu[c].ie
                    /\ th[p].pc \in {"as_spin", "rs_spin"} => lk # c
                    /\ th[p].pc \in {"sl_spin", "y_spin"} => plock[p] # c
                    /\ th[p].pc \in {"as_test", "sl_rel", "wake"} => lk = c
                    /\ th[p].pc \in {"sl_ret", "y_ret", "forkret"} => plock[p] = c
  BY Zenon DEF PanicFree
<1>1. PICK l \in Labels : l = Pc[p]
  BY ViewsOK, Zenon DEF IInv, Views
<1>2. Stack[c] = p /\ th[p].pc = l /\ cpu[c].noff = Noff[c] /\ p # 0 /\ (cpu[c].ie => c \in Ion)
  <2>1. Stack[c] = p /\ th[p].pc = l /\ cpu[c].noff = Noff[c] /\ p # 0
    BY <1>1, SMT, Z3 DEF Stack, Pc, Noff, Procs
  <2>2. cpu[c].ie => c \in Ion
    BY Zenon DEF Ion
  <2> QED
    BY <2>1, <2>2, Zenon
<1>3. plock[p] = c <=> l \in PLabels
  BY <1>1, <1>2, SMT, Z3 DEF IInv, PLocks
<1>4. lk = c <=> l \in LkLabels
  BY <1>1, <1>2, Zenon DEF IInv, LkHeld
<1>5. l = "swtch" => Noff[c] = 1 /\ state[p] # "RUNNING" /\ c \notin Ion
  <2>1. l = "swtch" => Noff[c] = 1
    BY <1>1, <1>2, Zenon DEF IInv, Nesting, Depth, Open
  <2>2. Noff[c] = 1 => c \notin Ion
    BY SMT, Z3 DEF IInv, Nesting
  <2>3. l = "swtch" => state[p] # "RUNNING"
    BY <1>1, Zenon DEF IInv, Conditions
  <2> QED
    BY <2>1, <2>2, <2>3, Zenon
<1>6. /\ l = "swtch" => plock[p] = c
      /\ l \in {"as_spin", "rs_spin"} => lk # c
      /\ l \in {"sl_spin", "y_spin"} => plock[p] # c
      /\ l \in {"as_test", "sl_rel", "wake"} => lk = c
      /\ l \in {"sl_ret", "y_ret", "forkret"} => plock[p] = c
  BY <1>3, <1>4, Zenon DEF PLabels, LkLabels
<1> QED
  BY <1>2, <1>5, <1>6, Zenon

\* On any number of CPUs noff counts the spinlocks a CPU holds or spins on, with
\* interrupts off while there are any, and no check of sched, acquire and release
\* panics (spinlock.c, push_off and pop_off; proc.c, sched).
THEOREM LocksHeldRight == Spec => []LocksSound
<1>1. IInv => LocksSound
  BY NoffExact, ChecksPass, Zenon DEF IInv, LocksSound
<1> QED
  BY <1>1, SchedInvariance, PTL

\* For any number of processes the sleeplock has one holder, and nobody sleeps on a
\* free one without a wakeup to come (sleeplock.c; proc.c, sleep and wakeup).
THEOREM SleepLockRight == Spec => []SleepLockSound
<1>1. IInv => SleepLockExclusive
  <2> SUFFICES ASSUME IInv, NEW p \in Procs, InCS(p) PROVE slk.locked /\ slk.pid = p
    BY Zenon DEF SleepLockExclusive
  <2>1. th[p].pc = Pc[p] /\ th[p].ret = Ret[p] /\ th[p].back = Back[p]
    BY Zenon DEF Pc, Ret, Back
  <2>2. slk.locked = TRUE /\ slk.pid = p
    BY <2>1, Zenon DEF IInv, Owner, InCS
  <2> QED
    BY <2>2, Zenon
<1>2. IInv => NoLostWakeup
  <2> SUFFICES ASSUME IInv, NEW p \in Procs, state[p] = "SLEEPING", ~slk.locked
               PROVE  \E q \in Procs \ {p} : th[q].pc = "wake" /\ th[q].wk <= p
    BY Zenon DEF NoLostWakeup
  <2>1. \A q \in Procs : th[q].pc = Pc[q] /\ th[q].wk = Wk[q]
    BY Zenon DEF Pc, Wk
  <2>2. slk.locked # TRUE
    BY Zenon
  <2> QED
    BY <2>1, <2>2, ZenonT(30) DEF IInv, Sleepers
<1> QED
  BY <1>1, <1>2, SchedInvariance, PTL DEF SleepLockSound
=============================================================================
