-------------------------------- MODULE Log --------------------------------
(***************************************************************************)
(* The redo log of kernel/log.c: concurrent begin_op/log_write/end_op,     *)
(* group commit, crashes at any moment and recovery at boot.  A critical   *)
(* section of log.lock is one step; a disk write of one block is one step. *)
(***************************************************************************)
EXTENDS Integers, Sequences, FiniteSets

CONSTANTS Procs,        \* processes making file-system calls
          Blocks,       \* home blocks of the file system
          Vals,         \* block contents
          InitVal,      \* contents written by mkfs
          LOGSIZE,      \* param.h
          MAXOPBLOCKS,  \* param.h
          LogLen,       \* sb.nlog: blocks of the log area, header included
          OpBlocks      \* distinct blocks a call really writes

ASSUME ConstAssumption ==
  /\ IsFiniteSet(Procs) /\ InitVal \in Vals
  /\ LOGSIZE \in Nat /\ MAXOPBLOCKS \in Nat /\ OpBlocks \in Nat
  /\ MAXOPBLOCKS <= LOGSIZE
  /\ LogLen \in Nat /\ LogLen >= 1

VARIABLES home,        \* disk: home blocks
          logd,        \* disk: log data blocks, logd[i] is block log.start+i
          head,        \* disk: header block, the block numbers it lists
          cache,       \* what bread of a home block returns
          pin,         \* references that bpin holds on the cached block
          lh,          \* log.lh in memory
          outstanding, \* log.outstanding
          committing,  \* log.committing
          pc,          \* where each process is in log.c
          tail,        \* the loop index of write_log and install_trans
          wrote,       \* blocks that the current call of a process has written
          boot,        \* recover_from_log's progress; "up" once it returned
          panicked     \* some process panicked holding log.lock

disk == <<home, logd, head>>
mem  == <<cache, pin, lh, outstanding, committing, pc, tail, wrote>>
vars == <<disk, mem, boot, panicked>>

InSeq(b, s) == \E i \in 1..Len(s) : s[i] = b

PCs == {"idle", "begin", "asleep", "op", "write_log", "write_head",
        "install", "clear", "done"}

TypeOK ==
  /\ home \in [Blocks -> Vals] /\ cache \in [Blocks -> Vals]
  /\ logd \in [1..LogLen-1 -> Vals]
  /\ head \in Seq(Blocks) /\ lh \in Seq(Blocks)
  /\ pin \in [Blocks -> Nat]
  /\ outstanding \in Nat /\ committing \in BOOLEAN
  /\ pc \in [Procs -> PCs]
  /\ tail \in Nat
  /\ wrote \in [Procs -> SUBSET Blocks]
  /\ boot \in {"read_head", "install", "clear", "up"}
  /\ panicked \in BOOLEAN

Init == /\ home = [b \in Blocks |-> InitVal]
        /\ logd = [i \in 1..LogLen-1 |-> InitVal]
        /\ head = << >>
        /\ cache = home /\ pin = [b \in Blocks |-> 0]
        /\ lh = << >> /\ outstanding = 0 /\ committing = FALSE
        /\ pc = [p \in Procs |-> "idle"] /\ tail = 1
        /\ wrote = [p \in Procs |-> {}]
        /\ boot = "read_head" /\ panicked = FALSE

Running == boot = "up" /\ ~panicked

Goto(p, l) == pc' = [pc EXCEPT ![p] = l]

\* Faulty: the waiters are forgotten.
WakeupLogNone(p, l) == pc' = [pc EXCEPT ![p] = l]

\* wakeup(&log) together with the caller's own move to label l.
WakeupLog(p, l) ==
  pc' = [q \in Procs |-> IF q = p THEN l
                         ELSE IF pc[q] = "asleep" THEN "begin" ELSE pc[q]]
-----------------------------------------------------------------------------
\* begin_op

CallBeginOp(p) == /\ Running /\ pc[p] = "idle"
                  /\ Goto(p, "begin")
                  /\ UNCHANGED <<disk, cache, pin, lh, outstanding, committing,
                                 tail, wrote, boot, panicked>>

\* Faulty: the operation that is being admitted is not counted.
MustWaitShort == committing \/ Len(lh) + outstanding * MAXOPBLOCKS > LOGSIZE

MustWait == \/ committing
            \/ Len(lh) + (outstanding + 1) * MAXOPBLOCKS > LOGSIZE

BeginOpSleep(p) == /\ Running /\ pc[p] = "begin" /\ MustWait
                   /\ Goto(p, "asleep")
                   /\ UNCHANGED <<disk, cache, pin, lh, outstanding, committing,
                                  tail, wrote, boot, panicked>>

BeginOpGo(p) == /\ Running /\ pc[p] = "begin" /\ ~MustWait
                /\ outstanding' = outstanding + 1
                /\ wrote' = [wrote EXCEPT ![p] = {}]
                /\ Goto(p, "op")
                /\ UNCHANGED <<disk, cache, pin, lh, committing, tail, boot,
                               panicked>>
-----------------------------------------------------------------------------
\* log_write, with the caller's change to the buffer that precedes it

LogFull == Len(lh) >= LOGSIZE \/ Len(lh) >= LogLen - 1

\* Faulty: the block is logged but not pinned.
RecordNoPin(b) == /\ lh' = IF InSeq(b, lh) THEN lh ELSE Append(lh, b)
                  /\ UNCHANGED pin

\* Absorption: a block already listed keeps its slot and its one pin.
Record(b) == IF InSeq(b, lh)
             THEN UNCHANGED <<lh, pin>>
             ELSE /\ lh' = Append(lh, b)
                  /\ pin' = [pin EXCEPT ![b] = @ + 1]

CanWrite(p, b) == /\ Running /\ pc[p] = "op"
                  /\ Cardinality(wrote[p] \cup {b}) <= OpBlocks

LogWrite(p, b, v) ==
  /\ CanWrite(p, b) /\ ~LogFull
  /\ cache' = [cache EXCEPT ![b] = v]
  /\ Record(b)
  /\ wrote' = [wrote EXCEPT ![p] = @ \cup {b}]
  /\ UNCHANGED <<disk, outstanding, committing, pc, tail, boot, panicked>>

\* The panic stops the caller with the buffer locked: nobody reads it again.
LogWritePanic(p, b) ==
  /\ CanWrite(p, b) /\ LogFull
  /\ panicked' = TRUE
  /\ UNCHANGED <<disk, mem, boot>>
-----------------------------------------------------------------------------
\* end_op and commit

EndOp(p) ==
  /\ Running /\ pc[p] = "op"
  /\ outstanding' = outstanding - 1
  /\ IF committing
     THEN panicked' = TRUE /\ UNCHANGED <<committing, pc, tail>>
     ELSE /\ UNCHANGED panicked
          /\ IF outstanding = 1
             THEN /\ committing' = TRUE /\ tail' = 1
                  /\ Goto(p, IF lh = << >> THEN "done" ELSE "write_log")
             ELSE WakeupLog(p, "idle") /\ UNCHANGED <<committing, tail>>
  /\ UNCHANGED <<disk, cache, pin, lh, wrote, boot>>

\* One step of a for(tail ...) loop: on the last block go to label l.
Advance(p, l) == IF tail = Len(lh) THEN Goto(p, l) /\ tail' = 1
                                   ELSE tail' = tail + 1 /\ UNCHANGED pc

WriteLog(p) ==
  /\ Running /\ pc[p] = "write_log"
  /\ logd' = [logd EXCEPT ![tail] = cache[lh[tail]]]
  /\ Advance(p, "write_head")
  /\ UNCHANGED <<home, head, cache, pin, lh, outstanding, committing, wrote,
                 boot, panicked>>

WriteHead(p) ==
  /\ Running /\ pc[p] = "write_head"
  /\ head' = lh
  /\ Goto(p, "install")
  /\ UNCHANGED <<home, logd, cache, pin, lh, outstanding, committing, tail,
                 wrote, boot, panicked>>

\* The body of install_trans's loop.
CopyHome == /\ home'  = [home  EXCEPT ![lh[tail]] = logd[tail]]
            /\ cache' = [cache EXCEPT ![lh[tail]] = logd[tail]]

Install(p) ==
  /\ Running /\ pc[p] = "install"
  /\ CopyHome
  /\ pin' = [pin EXCEPT ![lh[tail]] = @ - 1]
  /\ Advance(p, "clear")
  /\ UNCHANGED <<logd, head, lh, outstanding, committing, wrote, boot, panicked>>

\* Faulty: the transaction is erased in memory only.
ClearHeadMemory(p) ==
  /\ Running /\ pc[p] = "clear"
  /\ lh' = << >> /\ Goto(p, "done")
  /\ UNCHANGED <<disk, cache, pin, outstanding, committing, tail, wrote, boot, panicked>>

ClearHead(p) ==
  /\ Running /\ pc[p] = "clear"
  /\ lh' = << >> /\ head' = << >>
  /\ Goto(p, "done")
  /\ UNCHANGED <<home, logd, cache, pin, outstanding, committing, tail, wrote,
                 boot, panicked>>

CommitDone(p) ==
  /\ Running /\ pc[p] = "done"
  /\ committing' = FALSE
  /\ WakeupLog(p, "idle")
  /\ UNCHANGED <<disk, cache, pin, lh, outstanding, tail, wrote, boot, panicked>>

\* The buffer cache may recycle a buffer nobody references; the next bread
\* of the block reads the disk again.
Evict(b) == /\ boot = "up" /\ pin[b] = 0
            /\ cache' = [cache EXCEPT ![b] = home[b]]
            /\ UNCHANGED <<disk, pin, lh, outstanding, committing, pc, tail,
                           wrote, boot, panicked>>
-----------------------------------------------------------------------------
\* Crash and recover_from_log

\* The power may fail in the middle of a block write.  The header's fields
\* lie in the block's first sector, so a header write is all or nothing; a
\* data block that was being written may hold anything.
TornLog == IF boot = "up" /\ \E p \in Procs : pc[p] = "write_log"
           THEN {[logd EXCEPT ![tail] = v] : v \in Vals} ELSE {logd}

TornHome == IF \/ boot = "install"
               \/ boot = "up" /\ \E p \in Procs : pc[p] = "install"
            THEN {[home EXCEPT ![lh[tail]] = v] : v \in Vals} ELSE {home}

\* The disk keeps what was written; memory starts again as at power-on.
Crash == /\ logd' \in TornLog
         /\ home' \in TornHome
         /\ head' = head
         /\ cache' = home' /\ pin' = [b \in Blocks |-> 0]
         /\ lh' = << >> /\ outstanding' = 0 /\ committing' = FALSE
         /\ pc' = [p \in Procs |-> "idle"] /\ tail' = 1
         /\ wrote' = [p \in Procs |-> {}]
         /\ boot' = "read_head" /\ panicked' = FALSE

ReadHead == /\ boot = "read_head"
            /\ lh' = head
            /\ boot' = IF head = << >> THEN "clear" ELSE "install"
            /\ UNCHANGED <<disk, cache, pin, outstanding, committing, pc, tail,
                           wrote, panicked>>

RecoverInstall ==
  /\ boot = "install"
  /\ CopyHome
  /\ IF tail = Len(lh) THEN boot' = "clear" /\ tail' = 1
                       ELSE tail' = tail + 1 /\ UNCHANGED boot
  /\ UNCHANGED <<logd, head, pin, lh, outstanding, committing, pc, wrote,
                 panicked>>

RecoverClear == /\ boot = "clear"
                /\ lh' = << >> /\ head' = << >>
                /\ boot' = "up"
                /\ UNCHANGED <<home, logd, cache, pin, outstanding, committing,
                               pc, tail, wrote, panicked>>
-----------------------------------------------------------------------------
Step(p) == \/ BeginOpSleep(p) \/ BeginOpGo(p) \/ EndOp(p)
           \/ WriteLog(p) \/ WriteHead(p) \/ Install(p) \/ ClearHead(p)
           \/ CommitDone(p)

Recover == ReadHead \/ RecoverInstall \/ RecoverClear

Next == \/ \E p \in Procs : CallBeginOp(p) \/ Step(p)
        \/ \E p \in Procs, b \in Blocks :
             LogWritePanic(p, b) \/ \E v \in Vals : LogWrite(p, b, v)
        \/ \E b \in Blocks : Evict(b)
        \/ Recover
        \/ Crash

Spec == Init /\ [][Next]_vars

-----------------------------------------------------------------------------
\* The contents that recover_from_log would leave at the home locations if
\* the machine lost power now.
Recovered ==
  [b \in Blocks |-> IF InSeq(b, head)
                    THEN logd[CHOOSE i \in 1..Len(head) : head[i] = b]
                    ELSE home[b]]

AT == INSTANCE AtomicTrans
        WITH durable  <- Recovered,
             volatile <- IF boot = "up" THEN cache ELSE Recovered,
             active   <- {p \in Procs : pc[p] = "op"}

\* Crash atomicity: log.c implements atomic transactions.  Whatever block
\* write a crash interrupts, even a block write of recovery itself, recovery
\* brings back the writes of complete transactions only, and all of those
\* whose commit wrote the header (log.c, commit and recover_from_log).
AtomicSpec == AT!Spec

\* A process asleep in begin_op has somebody left to wake it: an operation
\* that will call end_op or a commit that will finish (log.c, begin_op's two
\* sleeps against end_op's two wakeups).
NoLostWakeup ==
  (\E p \in Procs : pc[p] = "asleep") => committing \/ outstanding > 0

\* When the last end_op has returned, everything its group wrote is at its
\* home location and the log is empty, in memory and on disk (log.c, commit).
DurableAtRest ==
  boot = "up" /\ outstanding = 0 /\ ~committing
    => home = cache /\ head = << >> /\ lh = << >>

\* begin_op's reservation is enough for MAXOPBLOCKS - 1 blocks: log_write finds the
\* log full only when every call in progress has logged that many (log.c:220, where
\* the limit is log.size - 1 and absorption comes after it).
BudgetHolds ==
  panicked => \A p \in Procs : pc[p] = "op" => Cardinality(wrote[p]) >= MAXOPBLOCKS - 1
=============================================================================
