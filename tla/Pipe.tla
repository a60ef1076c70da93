-------------------------------- MODULE Pipe --------------------------------
(***************************************************************************)
(* One pipe (kernel/pipe.c) shared by several readers and writers, each    *)
(* with one reference to its end (file.c, fileclose).  pi->lock is         *)
(* explicit; a loop iteration under it is one step.  sleep releases the    *)
(* lock and wakeup wakes all sleepers of a channel, as in module Sched.    *)
(***************************************************************************)
EXTENDS Integers, Sequences, FiniteSets

CONSTANTS Readers, Writers,
          PIPESIZE,
          M,         \* nread and nwrite are unsigned integers modulo M
          MaxN,      \* longest read or write
          Bytes,
          MaxKills,  \* bound: processes that get killed
          None

Procs == Readers \cup Writers

ASSUME PipeAssumption ==
  /\ Readers \cap Writers = {} /\ None \notin Procs
  /\ PIPESIZE \in Nat \ {0} /\ MaxN \in Nat /\ MaxKills \in Nat
  /\ M \in Nat /\ M > PIPESIZE /\ M % PIPESIZE = 0

VARIABLES data, nread, nwrite, readopen, writeopen,  \* struct pipe
          lock,    \* holder of pi->lock or None
          freed,   \* kfree((char*)pi) has run
          open,    \* processes that still have their descriptor
          pc,
          left,    \* bytes the current call has still to copy: n - i
          asleep,  \* the channel a process sleeps on, or "no"
          killed,
          got      \* ch of the last piperead iteration

pipe == <<data, nread, nwrite, readopen, writeopen, freed, got>>
vars == <<pipe, lock, open, pc, left, asleep, killed>>

Labels == {"idle", "w_lock", "w_loop", "w_body", "r_lock", "r_wait", "r_sleep",
           "r_copy", "close"}

TypeOK ==
  /\ data \in [0..PIPESIZE-1 -> Bytes]
  /\ nread \in 0..M-1 /\ nwrite \in 0..M-1
  /\ readopen \in BOOLEAN /\ writeopen \in BOOLEAN /\ freed \in BOOLEAN
  /\ lock \in Procs \cup {None}
  /\ open \subseteq Procs
  /\ pc \in [Procs -> Labels]
  /\ left \in [Procs -> 0..MaxN]
  /\ asleep \in [Procs -> {"no", "nread", "nwrite"}]
  /\ killed \in [Procs -> BOOLEAN]
  /\ got \in Bytes

\* pipealloc, and the descriptors handed out by fork
Init ==
  /\ \E v \in Bytes : data = [k \in 0..PIPESIZE-1 |-> v] /\ got = v
  /\ nread = 0 /\ nwrite = 0 /\ readopen = TRUE /\ writeopen = TRUE
  /\ lock = None /\ freed = FALSE /\ open = Procs
  /\ pc = [p \in Procs |-> "idle"]
  /\ left = [p \in Procs |-> 0]
  /\ asleep = [p \in Procs |-> "no"]
  /\ killed = [p \in Procs |-> FALSE]

Empty == nread = nwrite

\* Faulty: one byte too many.
FullLate == nwrite = (nread + PIPESIZE + 1) % M

Full  == nwrite = (nread + PIPESIZE) % M

Goto(p, l) == pc' = [pc EXCEPT ![p] = l]
Wakeup(ch) == asleep' = [q \in Procs |-> IF asleep[q] = ch THEN "no" ELSE asleep[q]]

\* p holds pi->lock at label l
Locked(p, l) == lock = p /\ pc[p] = l
-----------------------------------------------------------------------------
\* acquire(&pi->lock), at the start of a call and at the end of sleep

Acquire(p, from, to) ==
  /\ pc[p] = from /\ asleep[p] = "no" /\ lock = None
  /\ lock' = p
  /\ Goto(p, to)
  /\ UNCHANGED <<pipe, open, left, asleep, killed>>

\* A system call of p; one that is killed only gets to close its files.
Call(p, len, to) ==
  /\ pc[p] = "idle" /\ p \in open /\ ~killed[p]
  /\ left' = [left EXCEPT ![p] = len]
  /\ Goto(p, to)
  /\ UNCHANGED <<pipe, lock, open, asleep, killed>>

Return(p) == /\ lock' = None
             /\ left' = [left EXCEPT ![p] = 0]
             /\ Goto(p, "idle")
-----------------------------------------------------------------------------
\* pipewrite

Write(p, len) == Call(p, len, "w_lock")
WriteLock(p) == Acquire(p, "w_lock", "w_loop")

WriteTest(p) ==
  /\ Locked(p, "w_loop") /\ left[p] > 0
  /\ IF ~readopen \/ killed[p] THEN Return(p)
                               ELSE Goto(p, "w_body") /\ UNCHANGED <<lock, left>>
  /\ UNCHANGED <<pipe, open, asleep, killed>>

WriteSleep(p) ==
  /\ Locked(p, "w_body") /\ Full
  /\ asleep' = [q \in Procs |-> IF q = p THEN "nwrite"
                                ELSE IF asleep[q] = "nread" THEN "no" ELSE asleep[q]]
  /\ lock' = None
  /\ Goto(p, "w_lock")
  /\ UNCHANGED <<pipe, open, left, killed>>

WriteByte(p, ch) ==
  /\ Locked(p, "w_body") /\ ~Full
  /\ data' = [data EXCEPT ![nwrite % PIPESIZE] = ch]
  /\ nwrite' = (nwrite + 1) % M
  /\ left' = [left EXCEPT ![p] = @ - 1]
  /\ Goto(p, "w_loop")
  /\ UNCHANGED <<nread, readopen, writeopen, freed, got, lock, open, asleep, killed>>

\* Faulty: no wakeup for the readers.
WriteDoneQuiet(p) ==
  /\ \/ Locked(p, "w_loop") /\ left[p] = 0
     \/ Locked(p, "w_body") /\ ~Full
  /\ Return(p)
  /\ UNCHANGED <<pipe, open, asleep, killed>>

\* The loop ends, or copyin fails and breaks out of it.
WriteDone(p) ==
  /\ \/ Locked(p, "w_loop") /\ left[p] = 0
     \/ Locked(p, "w_body") /\ ~Full
  /\ Wakeup("nread") /\ Return(p)
  /\ UNCHANGED <<pipe, open, killed>>
-----------------------------------------------------------------------------
\* piperead

Read(p, len) == Call(p, len, "r_lock")
ReadLock(p) == Acquire(p, "r_lock", "r_wait")

ReadTest(p) ==
  /\ Locked(p, "r_wait")
  /\ IF Empty /\ writeopen
     THEN IF killed[p] THEN Return(p)
                       ELSE Goto(p, "r_sleep") /\ UNCHANGED <<lock, left>>
     ELSE Goto(p, "r_copy") /\ UNCHANGED <<lock, left>>
  /\ UNCHANGED <<pipe, open, asleep, killed>>

ReadSleep(p) ==
  /\ Locked(p, "r_sleep")
  /\ asleep' = [asleep EXCEPT ![p] = "nread"]
  /\ lock' = None
  /\ Goto(p, "r_lock")
  /\ UNCHANGED <<pipe, open, left, killed>>

\* ch = pi->data[pi->nread++ % PIPESIZE]
Take(p) == /\ Locked(p, "r_copy") /\ left[p] > 0 /\ ~Empty
           /\ got' = data[nread % PIPESIZE]
           /\ nread' = (nread + 1) % M
           /\ UNCHANGED <<data, nwrite, readopen, writeopen, freed>>

ReadByte(p) ==
  /\ Take(p)
  /\ left' = [left EXCEPT ![p] = @ - 1]
  /\ UNCHANGED <<lock, open, pc, asleep, killed>>

\* copyout fails: the byte is gone from the pipe
ReadFault(p) ==
  /\ Take(p)
  /\ Wakeup("nwrite") /\ Return(p)
  /\ UNCHANGED <<open, killed>>

ReadDone(p) ==
  /\ Locked(p, "r_copy") /\ (left[p] = 0 \/ Empty)
  /\ Wakeup("nwrite") /\ Return(p)
  /\ UNCHANGED <<pipe, open, killed>>
-----------------------------------------------------------------------------
\* fileclose and pipeclose; kill

Side(p) == IF p \in Writers THEN Writers ELSE Readers

\* Faulty: every close reaches pipeclose, not only the last.
FileCloseEach(p) ==
  /\ pc[p] = "idle" /\ p \in open
  /\ open' = open \ {p} /\ Goto(p, "close")
  /\ UNCHANGED <<pipe, lock, left, asleep, killed>>

\* Only the last reference to an end reaches pipeclose.
FileClose(p) ==
  /\ pc[p] = "idle" /\ p \in open
  /\ open' = open \ {p}
  /\ Goto(p, IF open \cap Side(p) = {p} THEN "close" ELSE "idle")
  /\ UNCHANGED <<pipe, lock, left, asleep, killed>>

\* Faulty: no wakeup for the other end.
PipeCloseQuiet(p) ==
  /\ pc[p] = "close" /\ lock = None /\ Goto(p, "idle")
  /\ writeopen' = (writeopen /\ p \notin Writers)
  /\ readopen' = (readopen /\ p \notin Readers)
  /\ freed' = (~writeopen' /\ ~readopen')
  /\ UNCHANGED <<data, nread, nwrite, got, lock, open, left, asleep, killed>>

PipeClose(p) ==
  /\ pc[p] = "close" /\ lock = None
  /\ IF p \in Writers
     THEN /\ writeopen' = FALSE /\ Wakeup("nread")
          /\ freed' = ~readopen /\ UNCHANGED readopen
     ELSE /\ readopen' = FALSE /\ Wakeup("nwrite")
          /\ freed' = ~writeopen /\ UNCHANGED writeopen
  /\ Goto(p, "idle")
  /\ UNCHANGED <<data, nread, nwrite, got, lock, open, left, killed>>

\* kill reaches any process, and wakes it.
Kill(p) == /\ ~killed[p] /\ Cardinality({q \in Procs : killed[q]}) < MaxKills
           /\ killed' = [killed EXCEPT ![p] = TRUE]
           /\ asleep' = [asleep EXCEPT ![p] = "no"]
           /\ UNCHANGED <<pipe, lock, open, pc, left>>
-----------------------------------------------------------------------------
WriteStep(p) == WriteLock(p) \/ WriteTest(p) \/ WriteSleep(p) \/ WriteDone(p)
                \/ \E ch \in Bytes : WriteByte(p, ch)

ReadStep(p) == ReadLock(p) \/ ReadTest(p) \/ ReadSleep(p) \/ ReadByte(p)
               \/ ReadFault(p) \/ ReadDone(p)

\* Both ends are closed and every process has returned.
Finished == open = {} /\ freed /\ UNCHANGED vars

Next == \/ \E w \in Writers : WriteStep(w) \/ \E len \in 0..MaxN : Write(w, len)
        \/ \E r \in Readers : ReadStep(r) \/ \E len \in 0..MaxN : Read(r, len)
        \/ \E p \in Procs : FileClose(p) \/ PipeClose(p) \/ Kill(p)
        \/ Finished

Spec == Init /\ [][Next]_vars

\* pi->lock is a spinlock whose holder never stops holding it for long; the
\* scheduler runs every runnable process.  A killed process closes its files.
FairSpec ==
  /\ Spec
  /\ \A w \in Writers : SF_vars(WriteStep(w) \/ PipeClose(w) \/ (killed[w] /\ FileClose(w)))
  /\ \A r \in Readers : SF_vars(ReadStep(r) \/ PipeClose(r) \/ (killed[r] /\ FileClose(r)))
-----------------------------------------------------------------------------
\* The queue that the ring buffer holds.
Content == [k \in 1..(nwrite - nread) % M |-> data[(nread + k - 1) % PIPESIZE]]

F == INSTANCE Fifo WITH queue <- Content, Size <- PIPESIZE

\* The pipe is a bounded FIFO queue: bytes come out in the order they went in,
\* none lost or duplicated inside it, also when nread and nwrite wrap around
\* (pipe.c, pipewrite and piperead).
FifoSpec == F!Spec

\* A reader sleeps only while a writer may come and the pipe is empty, unless a killed
\* writer has left pipewrite: it returns -1 without waking the readers for the bytes
\* it has stored (pipe.c, piperead's loop against the wakeups of pipewrite and
\* pipeclose).
ReaderWakeup ==
  lock = None => \A r \in Procs :
    asleep[r] = "nread" =>
      writeopen /\ (Empty \/ \E w \in Writers : killed[w] /\ pc[w] \in {"idle", "close"})

\* A writer sleeps only while the pipe is full and a reader may come
\* (pipe.c, pipewrite's loop against the wakeups of piperead and pipeclose).
WriterWakeup ==
  lock = None => \A w \in Procs : asleep[w] = "nwrite" => Full /\ readopen

\* Nobody sleeps on a pipe that has something for them, except for bytes that a
\* killed writer has left behind, and the variables have their types (pipe.c, the
\* sleeps of pipewrite and piperead against all wakeups).
WakeupsKept == TypeOK /\ ReaderWakeup /\ WriterWakeup

\* Once the pipe is freed nobody is inside pipe.c or can get there (pipe.c,
\* pipeclose; file.c, fileclose).
NoUseAfterFree ==
  freed => \A p \in Procs : pc[p] = "idle" /\ p \notin open

\* Closing the last descriptor of one end ends every call on the other one
\* (pipe.c, pipeclose).
CloseUnblocks ==
  /\ \A r \in Readers : ~writeopen /\ pc[r] # "idle" ~> pc[r] = "idle"
  /\ \A w \in Writers : ~readopen /\ pc[w] # "idle" ~> pc[w] = "idle"
=============================================================================
