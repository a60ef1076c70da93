----------------------------- MODULE PipeProofs -----------------------------
(***************************************************************************)
(* Proofs about module Pipe for every number of readers and writers, every *)
(* PIPESIZE and every width of the counters.                               *)
(***************************************************************************)
EXTENDS Pipe, Counters, SequenceTheorems

-----------------------------------------------------------------------------
\* Labels at which a process holds pi->lock.
Inside == {"w_loop", "w_body", "r_wait", "r_sleep", "r_copy"}

\* Writers run pipewrite and readers piperead.
Sides ==
  /\ \A w \in Writers : pc[w] \in {"idle", "w_lock", "w_loop", "w_body", "close"}
  /\ \A r \in Readers : pc[r] \in {"idle", "r_lock", "r_wait", "r_sleep", "r_copy", "close"}

Mutex == \A p \in Procs : lock = p <=> pc[p] \in Inside

\* A call has its descriptor; the process that closes an end is the last one
\* there; a closed end has no user; and a freed pipe has no open end.
Ends ==
  /\ \A p \in Procs : pc[p] \notin {"idle", "close"} => p \in open
  /\ \A p \in Procs : pc[p] = "close" =>
       \A q \in Side(p) : q \notin open /\ (q # p => pc[q] = "idle")
  /\ ~writeopen => \A w \in Writers : w \notin open /\ pc[w] = "idle"
  /\ ~readopen => \A r \in Readers : r \notin open /\ pc[r] = "idle"
  /\ freed => ~writeopen /\ ~readopen

\* What was tested under pi->lock still holds; only a call waiting for pi->lock
\* can be asleep.
Tested == \A p \in Procs :
  /\ pc[p] = "w_body" => left[p] > 0 /\ readopen
  /\ pc[p] = "r_sleep" => Empty /\ writeopen
  /\ asleep[p] = "nwrite" => pc[p] = "w_lock"
  /\ asleep[p] = "nread" => pc[p] = "r_lock"

IInv == TypeOK /\ Sides /\ Mutex /\ Ends /\ Tested
-----------------------------------------------------------------------------
\* pipealloc and the forks: everybody is outside.
LEMMA InitIInv == Init => IInv
<1> SUFFICES ASSUME Init PROVE IInv
  BY SMT, Z3
<1>1. TypeOK
  <2>1. killed \in [Procs -> BOOLEAN] /\ readopen \in BOOLEAN /\ writeopen \in BOOLEAN
        /\ freed \in BOOLEAN
    BY Zenon DEF Init
  <2>2. data \in [0..PIPESIZE-1 -> Bytes] /\ got \in Bytes
    BY SMT, Z3 DEF Init
  <2> QED
    BY <2>1, <2>2, PipeAssumption, SMT, Z3 DEF Init, TypeOK, Labels
<1>2. Sides /\ Mutex /\ Ends /\ Tested
  BY PipeAssumption, SMT, Z3 DEF Init, Procs, Sides, Mutex, Inside, Ends, Tested
<1> QED
  BY <1>1, <1>2, SMT, Z3 DEF IInv

\* A call of write.
LEMMA WriteCallStep ==
  ASSUME IInv, NEW w \in Writers, NEW len \in 0..MaxN, Write(w, len)
  PROVE  IInv'
<1>1. TypeOK'
  BY SMT, Z3 DEF IInv, TypeOK, pipe, Labels, Write, Call, Goto
<1>2. (Sides /\ Mutex)'
  BY PipeAssumption, SMT, Z3 DEF IInv, TypeOK, pipe, Sides, Mutex, Inside, Write, Call, Goto
<1>3. Ends'
  BY SMT, Z3 DEF IInv, TypeOK, pipe, Ends, Write, Call, Goto
<1>4. Tested'
  BY SMT, Z3 DEF IInv, TypeOK, pipe, Tested, Empty, Write, Call, Goto
<1> QED
  BY <1>1, <1>2, <1>3, <1>4, SMT, Z3 DEF IInv

\* pipewrite takes pi->lock, or gets it back after sleep.
LEMMA WriteLockStep == ASSUME IInv, NEW w \in Writers, WriteLock(w) PROVE IInv'
<1>1. TypeOK'
  BY SMT, Z3 DEF IInv, TypeOK, pipe, Labels, Procs, WriteLock, Acquire, Goto
<1>2. (Sides /\ Mutex)'
  BY PipeAssumption, SMT, Z3 DEF IInv, TypeOK, Sides, Mutex, Inside, WriteLock, Acquire, Goto
<1>3. Ends'
  BY SMT, Z3 DEF IInv, TypeOK, pipe, Ends, WriteLock, Acquire, Goto
<1>4. Tested'
  BY SMT, Z3 DEF IInv, TypeOK, pipe, Tested, Empty, WriteLock, Acquire, Goto
<1> QED
  BY <1>1, <1>2, <1>3, <1>4, SMT, Z3 DEF IInv

\* pipewrite tests readopen and killed.
LEMMA WriteTestStep == ASSUME IInv, NEW w \in Writers, WriteTest(w) PROVE IInv'
<1>1. TypeOK'
  <2>1. UNCHANGED <<pipe, open, asleep, killed>>
    BY SMT, Z3 DEF WriteTest
  <2>2. CASE Return(w)
    BY <2>1, <2>2, PipeAssumption, SMT, Z3 DEF Return, Goto, pipe, Procs, IInv, TypeOK, Labels
  <2>3. CASE Goto(w, "w_body") /\ UNCHANGED <<lock, left>>
    BY <2>1, <2>3, SMT, Z3 DEF Goto, pipe, Procs, IInv, TypeOK, Labels
  <2> QED
    BY <2>2, <2>3, Zenon DEF WriteTest
<1>2. (Sides /\ Mutex)'
  <2>1. /\ w \notin Readers /\ pc \in [Procs -> Labels]
        /\ pc' = [pc EXCEPT ![w] = "idle"] \/ pc' = [pc EXCEPT ![w] = "w_body"]
    BY PipeAssumption, SMT, Z3 DEF IInv, TypeOK, WriteTest, Return, Goto
  <2>2. Sides'
    BY <2>1, SMT, Z3 DEF IInv, Sides, Procs
  <2>3. Mutex'
    BY PipeAssumption, SMTT(30), Z3T(30)
       DEF IInv, TypeOK, Procs, Mutex, Inside, WriteTest, Return, Locked, Goto
  <2> QED
    BY <2>2, <2>3, SMT, Z3
<1>3. Ends'
  BY SMTT(30), Z3T(30) DEF IInv, TypeOK, pipe, Procs, Ends, Side, WriteTest, Return, Locked, Goto
<1>4. Tested'
  BY SMT, Z3 DEF IInv, TypeOK, pipe, Tested, Empty, WriteTest, Return, Locked, Goto
<1> QED
  BY <1>1, <1>2, <1>3, <1>4, SMT, Z3 DEF IInv

\* pipewrite wakes the readers and sleeps.
LEMMA WriteSleepStep == ASSUME IInv, NEW w \in Writers, WriteSleep(w) PROVE IInv'
<1>1. TypeOK'
  BY SMT, Z3 DEF IInv, TypeOK, pipe, Labels, Procs, WriteSleep, Goto
<1>2. (Sides /\ Mutex)'
  BY PipeAssumption, SMT, Z3 DEF IInv, TypeOK, Sides, Mutex, Inside, WriteSleep, Locked, Goto
<1>3. Ends'
  BY SMT, Z3 DEF IInv, TypeOK, pipe, Ends, WriteSleep, Locked, Goto
<1>4. Tested'
  BY SMT, Z3 DEF IInv, TypeOK, Tested, Mutex, Inside, WriteSleep, Locked, Goto
<1> QED
  BY <1>1, <1>2, <1>3, <1>4, SMT, Z3 DEF IInv

\* pipewrite stores a byte.
LEMMA WriteByteStep ==
  ASSUME IInv, NEW w \in Writers, NEW ch \in Bytes, WriteByte(w, ch)
  PROVE  IInv'
<1>1. TypeOK'
  BY PipeAssumption, SMT, Z3 DEF IInv, TypeOK, Labels, Procs, Tested, WriteByte, Locked, Goto
<1>2. (Sides /\ Mutex)'
  BY SMT, Z3 DEF IInv, TypeOK, Sides, Mutex, Inside, WriteByte, Locked, Goto
<1>3. Ends'
  BY SMT, Z3 DEF IInv, TypeOK, Ends, WriteByte, Locked, Goto
<1>4. Tested'
  BY SMT, Z3 DEF IInv, TypeOK, Tested, Mutex, Inside, WriteByte, Locked, Goto
<1> QED
  BY <1>1, <1>2, <1>3, <1>4, SMT, Z3 DEF IInv

\* pipewrite wakes the readers and returns.
LEMMA WriteDoneStep == ASSUME IInv, NEW w \in Writers, WriteDone(w) PROVE IInv'
<1>1. TypeOK'
  BY PipeAssumption, SMT, Z3 DEF IInv, TypeOK, pipe, Labels, Procs, WriteDone, Return, Wakeup,
                        Goto
<1>2. (Sides /\ Mutex)'
  BY PipeAssumption, SMT, Z3 DEF IInv, TypeOK, Sides, Mutex, Inside, WriteDone, Return, Locked,
                        Goto
<1>3. Ends'
  BY SMT, Z3 DEF IInv, TypeOK, pipe, Ends, WriteDone, Return, Goto
<1>4. Tested'
  BY SMT, Z3 DEF IInv, TypeOK, Tested, Mutex, Inside, WriteDone, Return, Wakeup, Locked, Goto
<1> QED
  BY <1>1, <1>2, <1>3, <1>4, SMT, Z3 DEF IInv

\* A call of read.
LEMMA ReadCallStep ==
  ASSUME IInv, NEW r \in Readers, NEW len \in 0..MaxN, Read(r, len)
  PROVE  IInv'
<1>1. TypeOK'
  BY SMT, Z3 DEF IInv, TypeOK, pipe, Labels, Read, Call, Goto
<1>2. (Sides /\ Mutex)'
  BY PipeAssumption, SMT, Z3 DEF IInv, TypeOK, Sides, Mutex, Inside, Read, Call, Goto
<1>3. Ends'
  BY SMT, Z3 DEF IInv, TypeOK, pipe, Ends, Read, Call, Goto
<1>4. Tested'
  BY SMT, Z3 DEF IInv, TypeOK, pipe, Tested, Empty, Read, Call, Goto
<1> QED
  BY <1>1, <1>2, <1>3, <1>4, SMT, Z3 DEF IInv

\* piperead takes pi->lock, or gets it back after sleep.
LEMMA ReadLockStep == ASSUME IInv, NEW r \in Readers, ReadLock(r) PROVE IInv'
<1>1. TypeOK'
  BY SMT, Z3 DEF IInv, TypeOK, pipe, Labels, Procs, ReadLock, Acquire, Goto
<1>2. (Sides /\ Mutex)'
  BY PipeAssumption, SMT, Z3 DEF IInv, TypeOK, Sides, Mutex, Inside, ReadLock, Acquire, Goto
<1>3. Ends'
  BY SMT, Z3 DEF IInv, TypeOK, pipe, Ends, ReadLock, Acquire, Goto
<1>4. Tested'
  BY SMT, Z3 DEF IInv, TypeOK, pipe, Tested, Empty, ReadLock, Acquire, Goto
<1> QED
  BY <1>1, <1>2, <1>3, <1>4, SMT, Z3 DEF IInv

\* piperead tests whether it has to wait.
LEMMA ReadTestStep == ASSUME IInv, NEW r \in Readers, ReadTest(r) PROVE IInv'
<1>1. TypeOK'
  BY PipeAssumption, SMTT(30), Z3T(30)
     DEF IInv, TypeOK, pipe, Labels, Tested, ReadTest, Return, Locked,
                        Goto
<1>2. (Sides /\ Mutex)'
  <2>1. Sides'
    BY PipeAssumption, SMTT(30), Z3T(30)
       DEF IInv, TypeOK, Procs, Sides, ReadTest, Return, Locked, Goto
  <2>2. Mutex'
    BY PipeAssumption, SMT, Z3
       DEF IInv, TypeOK, Procs, Mutex, Inside, ReadTest, Return, Locked, Goto
  <2> QED
    BY <2>1, <2>2, SMT, Z3
<1>3. Ends'
  BY SMTT(30), Z3T(30)
     DEF IInv, TypeOK, pipe, Procs, Ends, Side, Mutex, ReadTest, Return, Locked, Goto
<1>4. Tested'
  BY SMT, Z3 DEF IInv, TypeOK, pipe, Tested, Empty, ReadTest, Return, Locked, Goto
<1> QED
  BY <1>1, <1>2, <1>3, <1>4, SMT, Z3 DEF IInv

\* piperead sleeps.
LEMMA ReadSleepStep == ASSUME IInv, NEW r \in Readers, ReadSleep(r) PROVE IInv'
<1>1. TypeOK'
  BY SMT, Z3 DEF IInv, TypeOK, pipe, Labels, Procs, ReadSleep, Goto
<1>2. (Sides /\ Mutex)'
  BY PipeAssumption, SMT, Z3 DEF IInv, TypeOK, Sides, Mutex, Inside, ReadSleep, Locked, Goto
<1>3. Ends'
  BY SMT, Z3 DEF IInv, TypeOK, pipe, Ends, ReadSleep, Locked, Goto
<1>4. Tested'
  BY SMTT(30), Z3T(30) DEF IInv, TypeOK, Tested, Mutex, Inside, ReadSleep, Locked, Goto
<1> QED
  BY <1>1, <1>2, <1>3, <1>4, SMT, Z3 DEF IInv

\* piperead takes a byte.
LEMMA ReadByteStep == ASSUME IInv, NEW r \in Readers, ReadByte(r) PROVE IInv'
<1>1. TypeOK'
  BY PipeAssumption, SMTT(30), Z3T(30) DEF IInv, TypeOK, Procs, ReadByte, Take
<1>2. (Sides /\ Mutex)'
  BY SMT, Z3 DEF IInv, TypeOK, Sides, Mutex, ReadByte
<1>3. Ends'
  BY SMT, Z3 DEF IInv, TypeOK, Ends, ReadByte, Take
<1>4. Tested'
  BY SMT, Z3 DEF IInv, TypeOK, Tested, ReadByte, Take, Locked
<1> QED
  BY <1>1, <1>2, <1>3, <1>4, SMT, Z3 DEF IInv

\* piperead takes a byte and fails to copy it out.
LEMMA ReadFaultStep == ASSUME IInv, NEW r \in Readers, ReadFault(r) PROVE IInv'
<1>1. TypeOK'
  BY PipeAssumption, SMT, Z3 DEF IInv, TypeOK, Labels, Procs, ReadFault, Take, Return, Wakeup,
                        Goto
<1>2. (Sides /\ Mutex)'
  BY PipeAssumption, SMT, Z3 DEF IInv, TypeOK, Sides, Mutex, Inside, ReadFault, Take, Return,
                        Locked, Goto
<1>3. Ends'
  BY SMT, Z3 DEF IInv, TypeOK, Ends, ReadFault, Take, Return, Goto
<1>4. Tested'
  BY SMT, Z3 DEF IInv, TypeOK, Tested, ReadFault, Take, Return, Wakeup, Locked, Goto
<1> QED
  BY <1>1, <1>2, <1>3, <1>4, SMT, Z3 DEF IInv

\* piperead wakes the writers and returns.
LEMMA ReadDoneStep == ASSUME IInv, NEW r \in Readers, ReadDone(r) PROVE IInv'
<1>1. TypeOK'
  BY PipeAssumption, SMT, Z3 DEF IInv, TypeOK, pipe, Labels, Procs, ReadDone, Return, Wakeup,
                        Goto
<1>2. (Sides /\ Mutex)'
  BY PipeAssumption, SMT, Z3 DEF IInv, TypeOK, Sides, Mutex, Inside, ReadDone, Return, Locked,
                        Goto
<1>3. Ends'
  BY SMT, Z3 DEF IInv, TypeOK, pipe, Ends, ReadDone, Return, Goto
<1>4. Tested'
  BY SMT, Z3 DEF IInv, TypeOK, Tested, Mutex, Inside, ReadDone, Return, Wakeup, Locked, Goto
<1> QED
  BY <1>1, <1>2, <1>3, <1>4, SMT, Z3 DEF IInv

\* A descriptor is closed.
LEMMA FileCloseStep == ASSUME IInv, NEW p \in Procs, FileClose(p) PROVE IInv'
<1>1. TypeOK'
  BY SMT, Z3 DEF IInv, TypeOK, pipe, Labels, FileClose, Goto
<1>2. (Sides /\ Mutex)'
  BY SMT, Z3 DEF IInv, TypeOK, Sides, Mutex, Inside, FileClose, Goto
<1>3. Ends'
  BY PipeAssumption, SMT, Z3 DEF IInv, TypeOK, pipe, Procs, Ends, Side, FileClose, Goto
<1>4. Tested'
  BY SMT, Z3 DEF IInv, TypeOK, pipe, Tested, Empty, FileClose, Goto
<1> QED
  BY <1>1, <1>2, <1>3, <1>4, SMT, Z3 DEF IInv

\* The last descriptor of an end is closed.
LEMMA PipeCloseStep == ASSUME IInv, NEW p \in Procs, PipeClose(p) PROVE IInv'
<1>1. TypeOK'
  <2>1. readopen' \in BOOLEAN /\ writeopen' \in BOOLEAN /\ freed' \in BOOLEAN
    BY Zenon DEF PipeClose, IInv, TypeOK
  <2>2. /\ UNCHANGED <<data, nread, nwrite, got, lock, open, left, killed>>
        /\ pc' = [pc EXCEPT ![p] = "idle"] /\ (Wakeup("nread") \/ Wakeup("nwrite"))
    BY Zenon DEF PipeClose, Goto
  <2>3. asleep' \in [Procs -> {"no", "nread", "nwrite"}]
    BY <2>2, SMT, Z3 DEF Wakeup, IInv, TypeOK
  <2> QED
    BY <2>1, <2>2, <2>3, Zenon DEF IInv, TypeOK, Labels
<1>2. (Sides /\ Mutex)'
  BY SMTT(30), Z3T(30) DEF IInv, TypeOK, Sides, Mutex, Inside, PipeClose, Goto
<1>3. Ends'
  BY SMT, Z3 DEF IInv, TypeOK, Ends, Side, PipeClose, Goto
<1>4. Tested'
  BY PipeAssumption, SMT, Z3 DEF IInv, TypeOK, Tested, Mutex, Inside, PipeClose, Wakeup, Goto
<1> QED
  BY <1>1, <1>2, <1>3, <1>4, SMT, Z3 DEF IInv

\* A process is killed.
LEMMA KillStep == ASSUME IInv, NEW p \in Procs, Kill(p) PROVE IInv'
<1>1. TypeOK'
  BY SMT, Z3 DEF IInv, TypeOK, pipe, Kill
<1>2. (Sides /\ Mutex)'
  BY SMT, Z3 DEF IInv, TypeOK, Sides, Mutex, Kill
<1>3. Ends'
  BY SMT, Z3 DEF IInv, TypeOK, pipe, Ends, Kill
<1>4. Tested'
  BY SMT, Z3 DEF IInv, TypeOK, pipe, Tested, Empty, Kill
<1> QED
  BY <1>1, <1>2, <1>3, <1>4, SMT, Z3 DEF IInv
-----------------------------------------------------------------------------
\* Every step of pipe.c and fileclose preserves the invariant.
LEMMA NextIInv == IInv /\ [Next]_vars => IInv'
<1> SUFFICES ASSUME IInv, [Next]_vars PROVE IInv'
  BY SMTT(30), Z3T(30)
<1>1. CASE UNCHANGED vars
  BY <1>1, SMT, Z3 DEF vars, pipe, IInv, TypeOK, Sides, Mutex, Ends, Tested, Empty
<1>2. ASSUME NEW w \in Writers, WriteStep(w) PROVE IInv'
  BY <1>2, WriteLockStep, WriteTestStep, WriteSleepStep, WriteByteStep, WriteDoneStep, SMT, Z3
     DEF WriteStep
<1>3. ASSUME NEW r \in Readers, ReadStep(r) PROVE IInv'
  BY <1>3, ReadLockStep, ReadTestStep, ReadSleepStep, ReadByteStep, ReadFaultStep, ReadDoneStep,
     SMT, Z3
     DEF ReadStep
<1> QED
  BY <1>1, <1>2, <1>3, WriteCallStep, ReadCallStep, FileCloseStep, PipeCloseStep, KillStep, SMT, Z3
     DEF Next, Finished

\* The inductive invariant of the pipe.
THEOREM PipeInvariance == Spec => []IInv
BY InitIInv, NextIInv, PTL DEF Spec

\* For any number of readers and writers the page of a pipe is freed only when
\* nobody is inside pipe.c or can get there (pipe.c, pipeclose; file.c, fileclose).
THEOREM FreedUnused == Spec => []NoUseAfterFree
<1>1. IInv => NoUseAfterFree
  BY SMTT(30), Z3T(30) DEF IInv, Ends, NoUseAfterFree, Procs
<1> QED
  BY <1>1, PipeInvariance, PTL

-----------------------------------------------------------------------------
\* A killed writer that has left pipewrite, maybe without waking the readers.
Gone(w) == killed[w] /\ pc[w] \in {"idle", "close"}

\* A sleeping reader has an open pipe that is empty, or a writer holds pi->lock and
\* will wake it before it sleeps or returns, unless it is killed.
ReadersWoken == \A r \in Procs : asleep[r] = "nread" =>
  writeopen /\ (Empty \/ \E w \in Writers : lock = w \/ Gone(w))

\* A sleeping writer has an open pipe that is full, or a reader holds pi->lock and
\* will wake it before it returns.
WritersWoken == \A w \in Procs : asleep[w] = "nwrite" =>
  readopen /\ (Full \/ \E r \in Readers : lock = r /\ pc[r] = "r_copy")

\* A killed writer makes no more calls.
LEMMA GoneStays ==
  ASSUME IInv, [Next]_vars, NEW w \in Writers, Gone(w)
  PROVE  Gone(w)'
<1> USE PipeAssumption DEF Gone, IInv, TypeOK, Procs
<1>1. CASE UNCHANGED vars
  BY <1>1, SMTT(30), Z3T(30) DEF vars
<1>2. ASSUME NEW q \in Writers, WriteStep(q) PROVE Gone(w)'
  BY <1>2, SMTT(30), Z3T(30)
     DEF WriteStep, WriteLock, WriteTest, WriteSleep, WriteByte, WriteDone, Acquire, Locked,
         Goto, Return
<1>3. ASSUME NEW q \in Readers, ReadStep(q) PROVE Gone(w)'
  BY <1>3, SMTT(30), Z3T(30)
     DEF ReadStep, ReadLock, ReadTest, ReadSleep, ReadByte, ReadFault, ReadDone, Take, Acquire,
         Locked, Goto, Return
<1>4. ASSUME NEW q \in Procs, NEW len \in 0..MaxN, Write(q, len) \/ Read(q, len) PROVE Gone(w)'
  BY <1>4, SMTT(30), Z3T(30) DEF Write, Read, Call, Goto
<1>5. ASSUME NEW q \in Procs, FileClose(q) \/ PipeClose(q) \/ Kill(q) PROVE Gone(w)'
  BY <1>5, SMTT(30), Z3T(30) DEF FileClose, PipeClose, Kill, Goto
<1> QED
  BY <1>1, <1>2, <1>3, <1>4, <1>5, SMTT(30), Z3T(30) DEF Next, Finished

\* No step of pipewrite, piperead or pipeclose leaves a reader asleep beside a byte,
\* except the return of a killed writer from pipewrite's loop.
LEMMA ReadersStep == ASSUME IInv, ReadersWoken, [Next]_vars PROVE ReadersWoken'
<1> USE PipeAssumption, GoneStays DEF ReadersWoken, IInv, TypeOK, Empty, pipe, Procs
<1>1. CASE UNCHANGED vars
  BY <1>1, SMTT(30), Z3T(30) DEF vars
<1>2. ASSUME NEW w \in Writers, WriteLock(w) PROVE ReadersWoken'
  BY <1>2, SMT, Z3 DEF WriteLock, Acquire
<1>3. ASSUME NEW w \in Writers, WriteTest(w) PROVE ReadersWoken'
  <2>1. CASE killed[w]
    <3>1. Gone(w)' /\ asleep' = asleep /\ writeopen' = writeopen
      BY <1>3, <2>1, SMTT(30), Z3T(30) DEF WriteTest, Gone, Goto, Return
    <3> QED
      BY <3>1, SMTT(30), Z3T(30)
  <2>2. CASE ~readopen
    <3>1. \A q \in Procs : asleep[q] # "nread"
      BY <2>2, SMT, Z3 DEF Ends, Sides, Tested
    <3> QED
      BY <1>3, <3>1, SMTT(30), Z3T(30) DEF WriteTest
  <2>3. CASE readopen /\ ~killed[w]
    BY <1>3, <2>3, SMTT(30), Z3T(30) DEF WriteTest, Locked
  <2> QED
    BY <2>1, <2>2, <2>3, SMT, Z3
<1>4. ASSUME NEW w \in Writers, WriteSleep(w) PROVE ReadersWoken'
  BY <1>4, SMT, Z3 DEF WriteSleep
<1>5. ASSUME NEW w \in Writers, NEW ch \in Bytes, WriteByte(w, ch) PROVE ReadersWoken'
  BY <1>5, SMT, Z3 DEF WriteByte, Locked
<1>6. ASSUME NEW w \in Writers, WriteDone(w) PROVE ReadersWoken'
  BY <1>6, SMT, Z3 DEF WriteDone, Wakeup
<1>7. ASSUME NEW p \in Procs, NEW len \in 0..MaxN, Write(p, len) \/ Read(p, len)
      PROVE  ReadersWoken'
  BY <1>7, SMTT(30), Z3T(30) DEF Write, Read, Call
<1>8. ASSUME NEW r \in Readers, ReadLock(r) \/ ReadTest(r) PROVE ReadersWoken'
  BY <1>8, SMTT(30), Z3T(30) DEF ReadLock, ReadTest, Acquire, Locked, Return
<1>9. ASSUME NEW r \in Readers, ReadSleep(r) PROVE ReadersWoken'
  BY <1>9, SMTT(30), Z3T(30) DEF ReadSleep, Locked, Tested
<1>10. ASSUME NEW r \in Readers, ReadByte(r) \/ ReadFault(r) PROVE ReadersWoken'
  BY <1>10, SMTT(30), Z3T(30) DEF ReadByte, ReadFault, Take, Locked, Wakeup
<1>11. ASSUME NEW r \in Readers, ReadDone(r) PROVE ReadersWoken'
  BY <1>11, SMT, Z3 DEF ReadDone, Locked, Wakeup
<1>12. ASSUME NEW p \in Procs, FileClose(p) \/ Kill(p) PROVE ReadersWoken'
  BY <1>12, SMT, Z3 DEF FileClose, Kill
<1>13. ASSUME NEW p \in Procs, PipeClose(p) PROVE ReadersWoken'
  BY <1>13, SMT, Z3 DEF PipeClose, Wakeup
<1> QED
  BY <1>1, <1>2, <1>3, <1>4, <1>5, <1>6, <1>7, <1>8, <1>9, <1>10, <1>11, <1>12, <1>13,
     SMTT(30), Z3T(30)
     DEF Next, WriteStep, ReadStep, Finished

\* No step leaves a writer asleep beside a free place.
LEMMA WritersStep == ASSUME IInv, WritersWoken, [Next]_vars PROVE WritersWoken'
<1> USE PipeAssumption DEF WritersWoken, IInv, TypeOK, pipe, Procs
<1>0. UNCHANGED <<nread, nwrite>> => Full' = Full
  BY SMTT(30), Z3T(30) DEF Full
<1>1. CASE UNCHANGED vars
  BY <1>0, <1>1, SMTT(30), Z3T(30) DEF vars
<1>2. ASSUME NEW w \in Writers, WriteLock(w) \/ WriteTest(w) PROVE WritersWoken'
  BY <1>0, <1>2, SMTT(30), Z3T(30) DEF WriteLock, WriteTest, Acquire, Goto, Locked, Return
<1>3. ASSUME NEW w \in Writers, WriteSleep(w) PROVE WritersWoken'
  BY <1>0, <1>3, SMTT(30), Z3T(30) DEF WriteSleep, Locked, Goto, Tested
<1>4. ASSUME NEW w \in Writers, NEW ch \in Bytes, WriteByte(w, ch) PROVE WritersWoken'
  BY <1>4, SMTT(30), Z3T(30) DEF WriteByte, Locked
<1>5. ASSUME NEW w \in Writers, WriteDone(w) PROVE WritersWoken'
  BY <1>0, <1>5, SMTT(30), Z3T(30) DEF WriteDone, Wakeup, Return, Locked
<1>6. ASSUME NEW p \in Procs, NEW len \in 0..MaxN, Write(p, len) \/ Read(p, len)
      PROVE  WritersWoken'
  BY <1>0, <1>6, SMTT(30), Z3T(30) DEF Write, Read, Call, Goto
<1>7. ASSUME NEW r \in Readers, ReadLock(r) PROVE WritersWoken'
  BY <1>0, <1>7, SMTT(30), Z3T(30) DEF ReadLock, Acquire
<1>8. ASSUME NEW r \in Readers, ReadTest(r) PROVE WritersWoken'
  BY <1>0, <1>8, SMT, Z3 DEF ReadTest, Locked, Return
<1>9. ASSUME NEW r \in Readers, ReadSleep(r) PROVE WritersWoken'
  BY <1>0, <1>9, SMTT(30), Z3T(30) DEF ReadSleep, Locked
<1>10. ASSUME NEW r \in Readers, ReadByte(r) PROVE WritersWoken'
  BY <1>10, SMTT(30), Z3T(30) DEF ReadByte, Take, Locked
<1>11. ASSUME NEW r \in Readers, ReadFault(r) \/ ReadDone(r) PROVE WritersWoken'
  BY <1>11, SMTT(30), Z3T(30) DEF ReadFault, ReadDone, Take, Wakeup
<1>12. ASSUME NEW p \in Procs, FileClose(p) PROVE WritersWoken'
  BY <1>0, <1>12, SMTT(30), Z3T(30) DEF FileClose, Goto
<1>13. ASSUME NEW p \in Procs, Kill(p) PROVE WritersWoken'
  BY <1>0, <1>13, SMTT(30), Z3T(30) DEF Kill
<1>14. ASSUME NEW p \in Procs, PipeClose(p) PROVE WritersWoken'
  BY <1>0, <1>14, SMT, Z3 DEF PipeClose, Wakeup, Goto
<1> QED
  BY ZenonT(30), <1>1, <1>2, <1>3, <1>4, <1>5, <1>6, <1>7, <1>8, <1>9, <1>10, <1>11, <1>12, <1>13,
     <1>14 DEF Next, WriteStep, ReadStep, Finished

\* Whoever is killed, nobody sleeps on a pipe that has something for them, except a
\* reader beside bytes that a killed writer has left behind (pipe.c, the sleeps of
\* pipewrite and piperead against all wakeups).
THEOREM WakeupsSound == Spec => []WakeupsKept
<1>1. Init => ReadersWoken /\ WritersWoken
  BY SMT, Z3 DEF Init, ReadersWoken, WritersWoken
<1>2. IInv /\ ReadersWoken /\ WritersWoken /\ [Next]_vars => (ReadersWoken /\ WritersWoken)'
  BY ReadersStep, WritersStep, SMT, Z3
<1>3. IInv /\ ReadersWoken /\ WritersWoken => WakeupsKept
  BY PipeAssumption, SMT, Z3
     DEF IInv, ReadersWoken, WritersWoken, WakeupsKept, ReaderWakeup, WriterWakeup, Gone, Procs
<1> QED
  BY <1>1, <1>2, <1>3, PipeInvariance, PTL DEF Spec

-----------------------------------------------------------------------------
\* Bytes in the ring buffer.
Count == (nwrite - nread) % M

\* The ring never holds more than it has places for.
Bounded == Count <= PIPESIZE

\* Count is the distance of the two counters, also when one of them has wrapped.
LEMMA CountIs ==
  ASSUME TypeOK
  PROVE  /\ Count \in 0..M-1
         /\ Count = IF nwrite >= nread THEN nwrite - nread ELSE nwrite - nread + M
<1>1. M \in Nat \ {0} /\ nwrite \in 0..M-1 /\ nread \in 0..M-1
  BY PipeAssumption, SMT, Z3 DEF TypeOK
<1> QED
  BY <1>1, ModDiff, SMT, Z3 DEF Count

\* nread + PIPESIZE modulo M.
LEMMA RingEnd ==
  ASSUME TypeOK
  PROVE  (nread + PIPESIZE) % M = IF nread + PIPESIZE < M THEN nread + PIPESIZE
                                  ELSE nread + PIPESIZE - M
<1>1. M \in Nat \ {0} /\ nread \in 0..M-1 /\ PIPESIZE \in 1..M-1
  BY PipeAssumption, SMT, Z3 DEF TypeOK
<1>2. CASE nread + PIPESIZE < M
  <2>1. (M * 0 + (nread + PIPESIZE)) % M = nread + PIPESIZE
    BY <1>1, <1>2, ModUnique, SMT, Z3
  <2> QED
    BY <1>1, <1>2, <2>1, SMT, Z3
<1>3. CASE nread + PIPESIZE >= M
  <2>1. (M * 1 + (nread + PIPESIZE - M)) % M = nread + PIPESIZE - M
    BY <1>1, <1>3, ModUnique, SMT, Z3
  <2> QED
    BY <1>1, <1>3, <2>1, SMT, Z3
<1> QED
  BY <1>1, <1>2, <1>3, SMT, Z3

\* The tests of pipewrite and piperead on the two counters count the bytes.
LEMMA FullEmpty ==
  ASSUME TypeOK PROVE (Full <=> Count = PIPESIZE) /\ (Empty <=> Count = 0)
<1>1. M \in Nat \ {0} /\ nwrite \in 0..M-1 /\ nread \in 0..M-1 /\ PIPESIZE \in 1..M-1
  BY PipeAssumption, SMT, Z3 DEF TypeOK
<1> QED
  BY <1>1, CountIs, RingEnd, SMT, Z3 DEF Full, Empty

\* A stored byte adds one and a taken byte removes one.
LEMMA CountStep ==
  ASSUME TypeOK, TypeOK', Bounded
  PROVE  /\ nwrite' = (nwrite + 1) % M /\ nread' = nread /\ ~Full => Count' = Count + 1
         /\ nread' = (nread + 1) % M /\ nwrite' = nwrite /\ ~Empty => Count' = Count - 1
<1>1. M \in Nat \ {0} /\ nwrite \in 0..M-1 /\ nread \in 0..M-1 /\ PIPESIZE \in 1..M-1
      /\ nwrite' \in 0..M-1 /\ nread' \in 0..M-1
  BY PipeAssumption, SMT, Z3 DEF TypeOK
<1>2. Count' = IF nwrite' >= nread' THEN nwrite' - nread' ELSE nwrite' - nread' + M
  BY <1>1, ModDiff, Zenon DEF Count
<1>3. (nwrite + 1) % M = IF nwrite + 1 = M THEN 0 ELSE nwrite + 1
  BY <1>1, ModNext, SMT, Z3
<1>4. (nread + 1) % M = IF nread + 1 = M THEN 0 ELSE nread + 1
  BY <1>1, ModNext, SMT, Z3
<1>5. Count \in 0..M-1 /\ Count <= PIPESIZE /\ (Full <=> Count = PIPESIZE) /\ (Empty <=> Count = 0)
  BY CountIs, FullEmpty, SMT, Z3 DEF Bounded
<1>6. Count = IF nwrite >= nread THEN nwrite - nread ELSE nwrite - nread + M
  BY CountIs, SMT, Z3
<1>7. ASSUME nwrite' = (nwrite + 1) % M, nread' = nread, ~Full PROVE Count' = Count + 1
  BY <1>1, <1>2, <1>3, <1>5, <1>6, <1>7, SMTT(30), Z3T(30)
<1>8. ASSUME nread' = (nread + 1) % M, nwrite' = nwrite, ~Empty PROVE Count' = Count - 1
  BY <1>1, <1>2, <1>4, <1>5, <1>6, <1>8, SMT, Z3
<1> QED
  BY <1>7, <1>8, SMTT(30), Z3T(30)

\* The place of the k-th byte does not depend on whether nread has wrapped.
LEMMA NextPlace ==
  ASSUME TypeOK, NEW k \in Int
  PROVE  (((nread + 1) % M) + k) % PIPESIZE = (nread + 1 + k) % PIPESIZE
<1>1. M \in Nat \ {0} /\ nread \in 0..M-1
  BY PipeAssumption, SMT, Z3 DEF TypeOK
<1>2. (nread + 1) % M = IF nread + 1 = M THEN 0 ELSE nread + 1
  BY <1>1, ModNext, SMT, Z3
<1>3. CASE nread + 1 # M
  BY <1>1, <1>2, <1>3, SMT, Z3
<1>4. CASE nread + 1 = M
  <2>1. (k + M) % PIPESIZE = k % PIPESIZE
    BY PipeAssumption, ModShift, Zenon
  <2>2. nread + 1 + k = k + M /\ ((nread + 1) % M) + k = k
    BY <1>1, <1>2, <1>4, SMT, Z3
  <2> QED
    BY <2>1, <2>2, SMT, Z3
<1> QED
  BY <1>3, <1>4, SMT, Z3

\* A byte is stored right behind the Count bytes that are there.
LEMMA TailPlace == ASSUME TypeOK PROVE (nread + Count) % PIPESIZE = nwrite % PIPESIZE
<1>1. M \in Nat \ {0} /\ nwrite \in 0..M-1 /\ nread \in 0..M-1
  BY PipeAssumption, SMT, Z3 DEF TypeOK
<1>2. Count = IF nwrite >= nread THEN nwrite - nread ELSE nwrite - nread + M
  BY CountIs, SMT, Z3
<1>3. CASE nwrite >= nread
  <2>1. nread + Count = nwrite
    BY <1>1, <1>2, <1>3, SMT, Z3
  <2> QED
    BY <2>1, SMT, Z3
<1>4. CASE nwrite < nread
  <2>1. nread + Count = nwrite + M
    BY <1>1, <1>2, <1>4, SMT, Z3
  <2>2. nwrite \in Int
    BY <1>1, SMT, Z3
  <2>3. (nwrite + M) % PIPESIZE = nwrite % PIPESIZE
    BY <2>2, PipeAssumption, ModShift, Zenon
  <2> QED
    BY <2>1, <2>3, SMT, Z3
<1> QED
  BY <1>1, <1>3, <1>4, SMTT(30), Z3T(30)

-----------------------------------------------------------------------------
Queued == /\ Content \in Seq(Bytes) /\ Len(Content) = Count
          /\ \A k \in 1..Count : Content[k] = data[(nread + k - 1) % PIPESIZE]

\* The ring buffer holds a sequence of Count bytes.
LEMMA ContentIs == TypeOK => Queued
<1> SUFFICES ASSUME TypeOK PROVE Queued
  BY SMT, Z3
<1>1. Count \in Nat
  BY CountIs, PipeAssumption, SMTT(30), Z3T(30)
<1>2. \A k \in 1..Count : (nread + k - 1) % PIPESIZE \in 0..PIPESIZE-1
  BY <1>1, PipeAssumption, SMT, Z3 DEF TypeOK
<1>3. Content = [k \in 1..Count |-> data[(nread + k - 1) % PIPESIZE]]
  BY SMT, Z3 DEF Content, Count
<1>4. Content \in [1..Count -> Bytes]
  BY <1>2, <1>3, SMT, Z3 DEF TypeOK
<1>5. Content \in Seq(Bytes)
  BY <1>1, <1>4, SeqDef, SMT, Z3
<1>6. 1..Count = 1..Len(Content) /\ Len(Content) \in Nat
  BY <1>4, <1>5, LenProperties, SMT, Z3
<1>7. Len(Content) = Count
  BY <1>1, <1>6, SMT, Z3
<1> QED
  BY <1>3, <1>5, <1>7, Zenon DEF Queued

\* The same after a step.
LEMMA ContentNext == TypeOK' => Queued'
BY ContentIs, PTL

\* pipewrite's store appends the byte to the queue.
LEMMA PutStep ==
  ASSUME IInv, IInv', Bounded, NEW w \in Writers, NEW ch \in Bytes, WriteByte(w, ch)
  PROVE  Bounded' /\ F!Put(ch)
<1>1. TypeOK /\ TypeOK' /\ PIPESIZE \in Nat \ {0} /\ nread \in Int /\ nwrite \in Int
  BY PipeAssumption, SMTT(30), Z3T(30) DEF IInv, TypeOK
<1>2. /\ ~Full /\ nread' = nread /\ nwrite' = (nwrite + 1) % M /\ got' = got
      /\ data' = [data EXCEPT ![nwrite % PIPESIZE] = ch]
  BY SMT, Z3 DEF WriteByte
<1>3. Count \in Nat /\ Count < PIPESIZE /\ Count' = Count + 1
  BY <1>1, <1>2, CountIs, CountStep, FullEmpty, SMTT(30), Z3T(30) DEF Bounded
<1>4. /\ Content \in Seq(Bytes) /\ Len(Content) = Count
      /\ \A k \in 1..Count : Content[k] = data[(nread + k - 1) % PIPESIZE]
  BY <1>1, ContentIs, SMTT(30), Z3T(30) DEF Queued
<1>5. Queued'
  BY <1>1, ContentNext, SMT, Z3
<1>6. /\ Content' \in Seq(Bytes) /\ Len(Content') = Count + 1
      /\ \A k \in 1..Count + 1 : Content'[k] = data'[(nread + k - 1) % PIPESIZE]
  BY <1>2, <1>3, <1>5, SMT, Z3 DEF Queued
<1>7. /\ Append(Content, ch) \in Seq(Bytes) /\ Len(Append(Content, ch)) = Count + 1
      /\ \A k \in 1..Count : Append(Content, ch)[k] = Content[k]
      /\ Append(Content, ch)[Count + 1] = ch
  BY <1>3, <1>4, AppendProperties, SMT, Z3
<1>8. \A k \in 1..Count + 1 : Content'[k] = Append(Content, ch)[k]
  <2> SUFFICES ASSUME NEW k \in 1..Count + 1 PROVE Content'[k] = Append(Content, ch)[k]
    BY ZenonT(30)
  <2>1. CASE k = Count + 1
    <3>1. nread + k - 1 = nread + Count
      BY <1>1, <1>3, <2>1, SMT, Z3
    <3>2. (nread + k - 1) % PIPESIZE = nwrite % PIPESIZE
      BY <1>1, <3>1, TailPlace, SMTT(30), Z3T(30)
    <3>3. nwrite % PIPESIZE \in 0..PIPESIZE-1
      BY <1>1, SMTT(30), Z3T(30)
    <3>4. data'[nwrite % PIPESIZE] = ch
      BY <1>1, <1>2, <3>3, SMTT(30), Z3T(30) DEF TypeOK
    <3> QED
      BY <1>6, <1>7, <2>1, <3>2, <3>4, SMT, Z3
  <2>2. CASE k \in 1..Count
    <3>1. nread + k - 1 \in Int /\ Count - k + 1 \in 1..PIPESIZE-1
          /\ nread + k - 1 + (Count - k + 1) = nread + Count
      BY <1>1, <1>3, <2>2, SMT, Z3
    <3>2. (nread + Count) % PIPESIZE # (nread + k - 1) % PIPESIZE
      BY <1>1, <3>1, ModApart, Zenon
    <3>3. (nread + k - 1) % PIPESIZE # nwrite % PIPESIZE
      BY <1>1, <3>2, TailPlace, SMT, Z3
    <3>4. (nread + k - 1) % PIPESIZE \in 0..PIPESIZE-1
      BY <1>1, <3>1, SMTT(30), Z3T(30)
    <3>5. data'[(nread + k - 1) % PIPESIZE] = data[(nread + k - 1) % PIPESIZE]
      BY <1>1, <1>2, <3>3, <3>4, SMT, Z3 DEF TypeOK
    <3> QED
      BY <1>4, <1>6, <1>7, <2>2, <3>5, SMT, Z3
  <2>3. k = Count + 1 \/ k \in 1..Count
    BY <1>3, SMTT(30), Z3T(30)
  <2> QED
    BY <2>1, <2>2, <2>3, Zenon
<1>9. Content' = Append(Content, ch)
  BY <1>6, <1>7, <1>8, SeqEqual, SMT, Z3
<1>10. Bounded'
  BY <1>1, <1>3, SMT, Z3 DEF Bounded
<1> QED
  BY <1>2, <1>3, <1>4, <1>9, <1>10, SMTT(30), Z3T(30) DEF F!Put

\* piperead's load takes the first byte of the queue.
LEMMA GetStep ==
  ASSUME IInv, IInv', Bounded, NEW r \in Readers, Take(r)
  PROVE  Bounded' /\ F!Get
<1>1. TypeOK /\ TypeOK' /\ PIPESIZE \in Nat \ {0} /\ nread \in Int /\ nwrite \in Int
  BY PipeAssumption, SMT, Z3 DEF IInv, TypeOK
<1>2. /\ ~Empty /\ nread' = (nread + 1) % M /\ nwrite' = nwrite /\ data' = data
      /\ got' = data[nread % PIPESIZE]
  BY SMT, Z3 DEF Take
<1>3. Count \in Nat /\ Count > 0 /\ Count' = Count - 1
  BY <1>1, <1>2, CountIs, CountStep, FullEmpty, SMTT(30), Z3T(30) DEF Bounded
<1>4. /\ Content \in Seq(Bytes) /\ Len(Content) = Count
      /\ \A k \in 1..Count : Content[k] = data[(nread + k - 1) % PIPESIZE]
  BY <1>1, ContentIs, SMT, Z3 DEF Queued
<1>5. Queued'
  BY <1>1, ContentNext, SMTT(30), Z3T(30)
<1>6. /\ Content' \in Seq(Bytes) /\ Len(Content') = Count - 1
      /\ \A k \in 1..Count - 1 : Content'[k] = data[(((nread + 1) % M) + k - 1) % PIPESIZE]
  BY <1>2, <1>3, <1>5, SMTT(30), Z3T(30) DEF Queued
<1>7. Content # << >>
  BY <1>3, <1>4, EmptySeq, SMT, Z3
<1>8. /\ Tail(Content) \in Seq(Bytes) /\ Len(Tail(Content)) = Count - 1
      /\ \A k \in 1..Count - 1 : Tail(Content)[k] = Content[k + 1]
      /\ Head(Content) = Content[1]
  BY <1>3, <1>4, <1>7, HeadTailProperties, SMT, Z3
<1>9. \A k \in 1..Count - 1 : Content'[k] = Tail(Content)[k]
  <2> SUFFICES ASSUME NEW k \in 1..Count - 1 PROVE Content'[k] = Tail(Content)[k]
    BY Zenon
  <2>1. (nread + 1) % M \in Int /\ k - 1 \in Int /\ k + 1 \in 1..Count
    BY <1>1, <1>2, <1>3, SMT, Z3 DEF TypeOK
  <2>2. (((nread + 1) % M) + (k - 1)) % PIPESIZE = (nread + 1 + (k - 1)) % PIPESIZE
    BY <1>1, <2>1, NextPlace, SMT, Z3
  <2>3. ((nread + 1) % M) + k - 1 = ((nread + 1) % M) + (k - 1)
        /\ nread + 1 + (k - 1) = nread + (k + 1) - 1
    BY <1>1, <2>1, SMTT(30), Z3T(30)
  <2>4. Content[k + 1] = data[(nread + (k + 1) - 1) % PIPESIZE]
    BY <1>4, <2>1, SMT, Z3
  <2>5. Tail(Content)[k] = Content[k + 1]
    BY <1>8, SMT, Z3
  <2>6. Content'[k] = data[(((nread + 1) % M) + k - 1) % PIPESIZE]
    BY <1>6, SMT, Z3
  <2>7. Content'[k] = data[(nread + (k + 1) - 1) % PIPESIZE]
    BY <2>2, <2>3, <2>6, Zenon
  <2> QED
    BY <2>4, <2>5, <2>7, Zenon
<1>10. Content' = Tail(Content)
  BY <1>6, <1>8, <1>9, SeqEqual, SMTT(30), Z3T(30)
<1>11. got' = Head(Content)
  <2>1. nread + 1 - 1 = nread /\ 1 \in 1..Count
    BY <1>1, <1>3, SMT, Z3
  <2> QED
    BY <1>2, <1>4, <1>8, <2>1, SMT, Z3
<1>12. Bounded'
  BY <1>1, <1>3, SMT, Z3 DEF Bounded
<1> QED
  BY <1>7, <1>10, <1>11, <1>12, SMTT(30), Z3T(30) DEF F!Get

\* Every other step leaves the queue alone.
LEMMA FifoStep ==
  ASSUME IInv, IInv', Bounded, [Next]_vars PROVE Bounded' /\ [F!Next]_(F!vars)
<1>1. UNCHANGED <<data, nread, nwrite, got>> => Bounded' /\ UNCHANGED F!vars
  BY SMT, Z3 DEF Bounded, Count, Content, F!vars
<1>2. CASE UNCHANGED vars
  BY <1>1, <1>2, SMT, Z3 DEF vars, pipe
<1>3. ASSUME NEW w \in Writers, WriteStep(w) PROVE Bounded' /\ [F!Next]_(F!vars)
  <2>1. ASSUME NEW ch \in Bytes, WriteByte(w, ch) PROVE Bounded' /\ [F!Next]_(F!vars)
    BY <2>1, PutStep, SMTT(30), Z3T(30) DEF F!Next
  <2>2. CASE WriteLock(w) \/ WriteTest(w) \/ WriteSleep(w) \/ WriteDone(w)
    BY <1>1, <2>2, SMTT(30), Z3T(30)
       DEF WriteLock, Acquire, WriteTest, WriteSleep, WriteDone, pipe
  <2> QED
    BY <1>3, <2>1, <2>2, SMT, Z3 DEF WriteStep
<1>4. ASSUME NEW r \in Readers, ReadStep(r) PROVE Bounded' /\ [F!Next]_(F!vars)
  <2>1. CASE ReadByte(r) \/ ReadFault(r)
    BY <2>1, GetStep, SMTT(30), Z3T(30) DEF ReadByte, ReadFault, F!Next
  <2>2. CASE ReadLock(r) \/ ReadTest(r) \/ ReadSleep(r) \/ ReadDone(r)
    BY <1>1, <2>2, Zenon DEF ReadLock, Acquire, ReadTest, ReadSleep, ReadDone, pipe
  <2> QED
    BY <1>4, <2>1, <2>2, SMT, Z3 DEF ReadStep
<1>5. ASSUME NEW p \in Procs, NEW len \in 0..MaxN, Write(p, len) \/ Read(p, len)
      PROVE  Bounded' /\ [F!Next]_(F!vars)
  BY <1>1, <1>5, Zenon DEF Write, Read, Call, pipe
<1>6. ASSUME NEW p \in Procs, FileClose(p) \/ PipeClose(p) \/ Kill(p)
      PROVE  Bounded' /\ [F!Next]_(F!vars)
  BY <1>1, <1>6, SMT, Z3 DEF FileClose, PipeClose, Kill, pipe
<1> QED
  BY <1>2, <1>3, <1>4, <1>5, <1>6, SMT, Z3 DEF Next, Finished, Procs

\* The pipe is a bounded FIFO queue for every PIPESIZE and every width of nread and
\* nwrite that is a multiple of it, any number of readers and writers, kills and
\* failing copies included (pipe.c, pipewrite and piperead).
THEOREM PipeIsFifo == Spec => FifoSpec
<1>1. Init => Bounded /\ F!Init
  <2> SUFFICES ASSUME Init PROVE Bounded /\ F!Init
    BY SMT, Z3
  <2>1. TypeOK
    BY InitIInv, SMT, Z3 DEF IInv
  <2>2. Count = 0
    BY <2>1, FullEmpty, SMT, Z3 DEF Init, Empty
  <2>3. Content = << >>
    BY <2>1, <2>2, ContentIs, EmptySeq, SMT, Z3 DEF Queued
  <2> QED
    BY <2>1, <2>2, <2>3, PipeAssumption, SMT, Z3 DEF Bounded, F!Init, TypeOK
<1>2. IInv /\ IInv' /\ Bounded /\ [Next]_vars => Bounded' /\ [F!Next]_(F!vars)
  BY FifoStep, SMT, Z3
<1> QED
  BY <1>1, <1>2, PipeInvariance, PTL DEF Spec, FifoSpec, F!Spec
=============================================================================
