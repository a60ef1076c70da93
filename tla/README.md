# xv6 (RISC-V): TLA+ models, model checking and proofs

This directory holds TLA+ specifications of the xv6 kernel in `src/kernel`: its
log and file system, locks and scheduler, processes, memory, pipes and devices.
TLC configurations check them on small instances, and TLAPS proofs about the redo
log, the scheduler and its locks, the process table, pipes, the buffer cache, the disk
driver, the console and the uart hold for instances of every size.  `PROJECT.json` lists, in machine-readable
form, the components, the runs, the source lines each definition models, the
hazards and the theorems.

To check a run, or the proofs, from this directory:

    tlc -workers 2 -config MCLog.cfg MCLog
    tlapm LogProofs.tla

## 1. The system and its parts

| component | state | operations | what makes it hard |
|---|---|---|---|
| redo log, `log.c` | on-disk header and log blocks; `log.lh`, `outstanding`, `committing`; pins | `begin_op`, `log_write`, `end_op`, `commit`, `recover_from_log` | group commit; power loss between or inside block writes; recovery that is itself interrupted; space reservation |
| spinlocks, sleeplocks, scheduler, `spinlock.c`, `sleeplock.c`, `proc.c`, `swtch.S`, `trap.c` | `struct cpu`, `p->lock`, `p->state`, `p->chan`, kernel stacks | `acquire`/`release`, `push_off`/`pop_off`, `scheduler`, `sched`, `yield`, `sleep`, `wakeup`, `acquiresleep`/`releasesleep` | `p->lock` is handed across `swtch` to another thread; the sleep/wakeup race; interrupts inside critical sections |
| process lifecycle, `proc.c`, `user/init.c` | process table, `parent`, `wait_lock`, `nextpid` | `allocproc`, `freeproc`, `userinit`, `fork`, `exit`, `reparent`, `wait`, `kill` | parent and child exit together; a zombie still on its kernel stack; kill of a slot that is freed or reused |
| pipes, `pipe.c`, `file.c` | ring buffer, wrapping `nread`/`nwrite`, open ends | `pipealloc`, `pipewrite`, `piperead`, `pipeclose` | two sleep channels, kill during a write, free on the last close |
| disk driver, `virtio_disk.c` | descriptors, avail and used rings, `disk.info` | `virtio_disk_rw`, `virtio_disk_intr` | memory shared with a device that completes out of order; 16-bit indexes; coalesced interrupts |
| buffer cache, `bio.c` | LRU list, `refcnt`, `valid`, sleeplocks | `bget`, `bread`, `bwrite`, `brelse`, `bpin`, `bunpin` | one copy per block; recycling against waiters; running out of buffers |
| file table, `file.c` | `ftable`, descriptors | `filealloc`, `filedup`, `fileclose`, `fileread`, `filewrite` | last reference; writes split into transactions |
| inodes and blocks, `fs.c` | `itable`, dinodes, bitmap | `ialloc`, `iget`, `ilock`, `iput`, `itrunc`, `bmap`, `balloc`, `bfree` | `iput` frees without `itable.lock`; crash with an unlinked open file |
| directories, `fs.c` | directory entries | `dirlookup`, `dirlink`, `namex` | hand-over between directory locks |
| file system calls, `sysfile.c` | all of the above | `sys_open`, `sys_link`, `sys_unlink`, `create`, `sys_pipe` | failure after the first of several updates |
| page allocator, virtual memory, exec, `kalloc.c`, `vm.c`, `exec.c` | free list, page tables | `kalloc`/`kfree`, `mappages`, `uvmalloc`, `uvmcopy`, `copyin`/`copyout`, `exec` | roll-back on failure; address arithmetic |
| console and uart, `console.c`, `uart.c` | two ring buffers | `consoleintr`, `consoleread`, `uartputc`, `uartstart` | three indexes, interrupt against top half |
| traps and ticks, `trap.c`, `sysproc.c` | `ticks`, `killed` | `usertrap`, `kerneltrap`, `devintr`, `clockintr`, `sys_sleep` | wrapping counter, kill of a sleeping process |
| system calls, boot, printf, user programs, `mkfs` | – | – | sequential code |

How they interact.  File system calls bracket their updates with
`begin_op`/`end_op`; the log reads and writes blocks through the buffer cache
and pins them there; the cache reads and writes through the disk driver; all of
them wait with sleeplocks or `sleep`/`wakeup`, which rest on the scheduler and
on `p->lock`.  `exit`, `wait` and `kill` use the same `sleep`/`wakeup`.

What should hold of each part:

- log: a crash keeps all of a group of calls or none of it; nobody is forgotten
  in `begin_op`; the log never overflows;
- locks and scheduler: no stack is used by two CPUs, no wakeup is lost, nesting
  of interrupt disabling is exact, runnable processes run;
- lifecycle: pids are unique, every process has somebody to reap it, exit is
  never missed by wait, nothing is freed under a running process;
- pipes: a bounded FIFO; sleepers have a reason; no use after free;
- driver: descriptors are conserved, a completion reaches its own request, every
  request returns;
- cache: at most one buffer per block, exact reference counts, coherent contents;
- inodes: every disk a reboot can bring back is consistent, no block has two
  owners, an inode lives exactly as long as it is named or used;
- directories: link counts agree with the entries, directories are a tree, every
  failure path gives back what it got, lock waiting ends;
- memory and files: every page and every open file has one use, on every success
  and every failure; user memory is touched only where the image allows it;
- console and clock: no byte is lost or overwritten, no interrupt is missed, a
  killed process exits.

The hazards that follow from this list are in `PROJECT.json`, each at the line
where it bites, with the properties that cover it.

## 2. The modules

Each component module has its state as variables, one action per operation or
critical section, a type invariant and its properties.  Definitions marked
`Faulty:` are variants that a plausible bug would produce; nothing uses them
except the check that each property would notice such a bug.

| module | models | abstract specification |
|---|---|---|
| `Log` | `log.c` | `AtomicTrans` |
| `Sched` | `spinlock.c`, `sleeplock.c`, `scheduler`..`wakeup` in `proc.c`, timer path of `trap.c` | – |
| `Proc` | `allocproc`..`kill` in `proc.c`, `user/init.c` | – |
| `Pipe` | `pipe.c`, the pipe part of `fileclose` | `Fifo` |
| `VirtioDisk` | `virtio_disk.c` and the device | – |
| `Bcache` | `bio.c` | `BlockStore` |
| `Inode` | the first half of `fs.c`, `filewrite`, `fileread`, the inode side of `sysfile.c` | – |
| `Dir` | the second half of `fs.c`, `sysfile.c` | – |
| `Vm` | `kalloc.c`, `vm.c`, page tables of `proc.c`, as operators | – |
| `Resources` | `file.c`, `pipealloc`, `growproc`, `fork`, `exec.c`, `exit`, `wait`, the descriptors of `sysfile.c`, over `Vm` | – |
| `Dev` | `console.c`, `uart.c`, `clockintr`, `devintr`, `sys_sleep`, the killed tests of `usertrap` | – |
| `LogProofs`, `SchedProofs`, `ProcProofs`, `PipeProofs`, `BcacheProofs`, `VirtioDiskProofs`, `DevProofs` | theorems about `Log`, `Sched`, `Proc`, `Pipe`, `Bcache`, `VirtioDisk`, `Dev` | – |
| `Counters` | lemmas on wrapping counters, for the rings of `Pipe`, `VirtioDisk` and `Dev` | – |

`MCLog`, `MCSched` and `MCInode` add the symmetry sets of their runs; `MCDir`,
`MCResources`, `MCDev` and `MCBcache` define paths, programs, workloads and nested
uses of buffers; the other runs use the component modules directly.  Runs that check
liveness have no symmetry.
The modules meet at their abstractions: `Inode` uses the log as `AtomicTrans`, a
group of calls that becomes durable in one step, which `Log` implements; `Log`
uses the cache as a store whose pinned blocks are kept and whose unpinned ones may
be dropped (`Evict`), which is what `Bcache` shows; `Bcache` uses one-step
transfers, which is what `VirtioDisk` shows a process sees (`TransferDone` in
`RequestsSound`); `Dir` uses a one-step `iput`, whose steps `Inode` has;
`Resources` uses one-step calls.  `Proc`, `Pipe`, `Bcache`, `VirtioDisk`, `Inode`,
`Dir` and `Dev` use one-step critical sections and an atomic release-and-sleep,
which is what `Sched` shows (`SleepLockSound`).

Some properties are conjunctions, each conjunct a definition with its own comment:
`LocksSound`, `SleepLockSound` (`Sched`), `ProcTable` (`Proc`), `WakeupsKept`
(`Pipe`), `RequestsSound` (`VirtioDisk`), `BufsSound` (`Bcache`).

### Log

`home`, `logd` and `head` are the disk; `cache`, `pin`, `lh`, `outstanding`,
`committing` are memory, lost by `Crash`.  `CallBeginOp`, `BeginOpSleep` and
`BeginOpGo` are `begin_op`; `LogWrite` and `LogWritePanic` are `log_write`;
`EndOp` is the critical section of `end_op`; `WriteLog`, `WriteHead`, `Install`,
`ClearHead` are the block writes of `commit`, one step for each; `CommitDone` is
the second critical section of `end_op`.  `ReadHead`, `RecoverInstall`,
`RecoverClear` are `recover_from_log`.  `Crash` may happen at any moment and may
leave the block being written with any contents (a torn write).  The header is
written whole: its `n` and block numbers lie in the first sector of the block
for the sizes of `param.h`.  A panic in `log_write` keeps `log.lock`, so it stops
everybody who uses the log: `panicked` disables all but `Crash`.

### Sched

Each CPU has `proc`, `noff`, `intena`, its interrupt-enable bit and the stack it
executes on; each process has a kernel thread with its own label.  `plock` and
`lk` (the sleeplock's spinlock) are held by CPUs, as in `spinlock.c`.  Spinning
is a label of its own, with interrupts off.  `Timer` is a timer interrupt at any
point where interrupts are on, followed by `yield`.  Left out: `wfi`, and timer
interrupts taken on the scheduler's stack, which do not yield.  Memory is
sequentially consistent, which the fences of `acquire` and `release` provide for
data under locks.

### Proc

A critical section of `p->lock` is one step, except `exit`'s, which spans
`swtch`.  `wait_lock` is held across steps, and a process that spins for it has
interrupts off and cannot be preempted (`Spins`, `Acquire`).  `allocproc` and
`kill` scan the table without a lock on the whole of it, so they may find any
matching slot.  `fork` sets `np->state = RUNNABLE` at `proc.c:328` without
`np->lock`, which `proc.h:88` asks for; the model has that store as a step of its
own, and `PublishIsSafe` states what makes it harmless: nobody else changes the
state of a USED slot.  `init`'s exit is a panic that stops init alone.
`MaxPid` bounds the number of forks.

### Pipe

`pi->lock` is explicit; an iteration of a copy loop is a step.  Counters are
modulo `M`, a multiple of `PIPESIZE` as 2^32 is of 512.  `Init` is the state after
`pipealloc` and the forks that share the descriptors.  `Kill` may hit any reader or
writer at any moment; `MaxKills` bounds how many get killed.

### VirtioDisk

Descriptors, chains, both rings, `disk.info` and the 16-bit indexes (modulo `W`)
are explicit.  `Alloc` is `alloc3_desc` with its roll-back, `Publish` fills and
announces the chain, `Finish` frees it.  `IntrEntry`, `IntrAck` and `IntrReturn`
are the interrupt handler.  `DevFetch` and `DevDone` are the device, written from
how the driver uses it: it takes requests in order, completes them in any order,
and may raise one interrupt for several.  A consumed ring entry is set to `None`:
its old contents must not matter.

### Bcache

A critical section of `bcache.lock` is a step.  Callers behave as `log.c` does:
`Modify` changes a held buffer and, if it is not yet logged, goes on to `Bpin`;
`Bwrite` and `Bunpin` write it home.  `Overwrite` and `Bwrite` are `write_log` and
`write_head`, which write a block of the log without a pin.  `MaxPins` is the log's
reservation.  A panic in `bget` keeps `bcache.lock`, and with it blocks everybody
who needs that lock.

An element of `Procs` is one use of a buffer, from `bread` to `brelse`.  A process
that keeps one buffer while it breads another is two elements, the second with the
first as its `Outer`: `bmap` and `itrunc` hold the indirect block while `balloc` and
`bfree` bread the bitmap, `write_log` and `install_trans` hold a log block while they
bread its home block.  `Nested` has these orders; they are what keeps processes that
hold one buffer and wait for another from waiting in a circle (`BreadReturns`).  The
theorems hold for every `Outer`.  Recovery, where `install_trans` writes home blocks
that are not pinned, runs before any other process and is left to `Log`.

### Inode

`disk` is what the calls see through log and cache, `committed` what a reboot
brings back.  `EndOp` makes the group durable when the last call ends; `Crash` may
happen at any moment and forgets all memory.  A disk has dinodes, a bitmap, the
words of blocks (for indirect blocks) and the entries of one directory.  The
operators `Balloc`, `Bmap`, `Bfree`, `Itrunc`, `WriteBlock`, `Writei`, `Readi`,
`Iupdate` are the functions of that name on a working copy that also collects the
blocks logged; `writei` may stop for a full disk or a bad user address.
`CreateAlloc`, `CreateInode`, `CreateLink` are `create` inside `sys_open`,
`UnlinkLookup`, `UnlinkErase`, `UnlinkCount` are `sys_unlink`, and `IputFree`,
`IputTrunc`, `IputDrop` the three parts of `iput`, between which others run.  The
inode table has an entry for every inode, so the panic `iget: no inodes`
(`fs.c:266`), which needs `NINODE` = 50 different inodes in use at a time, is not in
the model.  `Image` is `mkfs` without files to copy.
`leaked` and `raced` remember the two ways in which an inode can outlive its last
use: a crash, and the window of Observation 2.  Bounds: `NFILES`, `NBLOCKS`,
`Sizes`, `Written`, and no second crash after one that leaked.

### Dir

A call is a record: what `namex` has still to walk, the inode it is at, the inode
that `sys_link` and `sys_unlink` hold.  `Namex` and `NamexStep` are `namex`, one
step for each element, since `namex` holds one lock at a time; `lk` has the lock
that `sys_unlink` holds while it waits for the second.  Failure of `filealloc`,
`fdalloc`, `dirlink` (a full disk) and `ialloc` are choices.  `Create` is one step:
the inode it allocates is not reachable before the directory is unlocked.
`detached` and `astray` mark what happened in directories that were removed while
in use (Observation 1 and the finding).

### Vm and Resources

`Vm` has no variables: its operators take and return a working state with the free
pages, the page table at work and a flag `bad` for every panic of `vm.c` and
`kalloc.c` and every double free.  `room` says how many pages the call still gets,
so every `kalloc` of every call fails in some behaviour.  A page table has its
upper-level pages, which cost memory too; a page of PTEs covers 8 pages.  Address
arithmetic is modulo `ADDR`.  `Resources` has one action per system call, with
`Image` for `exec`, `Fileclose` and `Pipealloc` for files.  A user address is
written with words of one byte.

### Dev

`consoleread`, `consolewrite`, `uartputc` and `uartstart` step by step, with
`cons.lock`, `uart_tx_lock` and `tickslock`.  `Claim`, `Consoleintr`, `IntrStart`
and `Complete` are the uart's interrupt from `plic_claim` to `plic_complete`; the
uart (`Transmit`, `Key`, the FIFO and the two interrupt causes) is external, from
how `uart.c` uses a 16550.  No key arrives while `uartintr` is in its input loop: the
line is slower than the loop.  `Call` reads `ticks0` in a step before `sys_sleep`'s
first test, where the code holds `tickslock` over both; a tick in between is a
behaviour more, and `SleepNotEarly` holds with it.  All counters are modulo `UINT`.
`load` picks one of six workloads, so that one run has small instances for each
question.

## 3. The runs

Bounds are chosen so that each hard case happens: at least two processes in
conflict and, where a third one changes the picture (a second waiter, a bystander
woken for nothing), three; counters that wrap several times; resources one short
of what everybody wants together.

| run | instance | checks | shows |
|---|---|---|---|
| `log` | 2 processes, 3 blocks, 2 values, a log of 3 data blocks | `BudgetHolds`, `NoLostWakeup`, `DurableAtRest`, `AtomicSpec` | group commit with absorption, crashes and torn writes anywhere, `log_write`'s panic included: `log.c` implements atomic transactions, and only operations that use all of `MAXOPBLOCKS` can panic |
| `sched` | 2 CPUs, 3 processes | `OneStack`, `LocksSound`, `SleepLockSound` | the hand-over of `p->lock` across `swtch` and the sleep/wakeup protocol are right under preemption |
| `sched_live` | 2 CPUs, 2 processes, fair | `RunnableRuns`, `SleepersWake` | round robin starves nobody, and every sleeper of the sleeplock is woken |
| `proc` | 3 slots, 4 pids (a slot is used twice), fair | `ProcTable`, `NoMissedExit`, `FreedOffStack`, `OrphansReaped` | fork, exit, wait and kill in every order; init reaps what it inherits, unless it panicked |
| `pipe` | 2 readers, 1 writer, one of them killed, 2 places, counters modulo 4, fair | `WakeupsKept`, `NoUseAfterFree`, `FifoSpec`, `CloseUnblocks` | the ring is a FIFO across wrap-around, sleepers have a reason, and closing one end ends the calls on the other |
| `virtio` | 3 processes, 8 descriptors, indexes modulo 16, fair | `RequestsSound`, `RwReturns` | two requests fit, the third finds two descriptors and puts them back; `NUM` is the real value |
| `bcache` | 2 processes, one with two uses at a time, 3 blocks (log, indirect, other), 2 buffers, 1 pin, fair | `BufsSound`, `StoreSpec`, `BreadReturns` | recycling loses no change, waiters get their buffer, also from a process that waits for a second one, and `bget` gives up only when every buffer is in use |
| `inode` | 2 processes, 2 files, 5 blocks of 3 bytes, one direct and two indirect, writes of 4 and 7 bytes | `DiskConsistent`, `CachedAgrees`, `OrphansHeld`, `WithinBudget` | the disk fills up, the directory grows into its indirect block, inodes are reused; a chunk of 3 bytes at offset 4 needs the five blocks that `log_write` leaves to a call, not more |
| `dir` | 2 processes, 3 inodes, 2 names, paths with one or two elements and `..` | `LinkCounts`, `DirTree`, `RefsExact`, `NoCircle` | counts are exact on every path through the calls, and `sys_unlink`'s two locks cannot meet in a circle |
| `mem` | 2 processes, 15 pages of 2 bytes, 16 virtual pages, 3 files, 2 descriptors each, 36 addresses | `PagesConserved`, `FilesExact`, `CopyChecked`, `FailureIsClean` | nothing is lost or used twice whichever `kalloc` fails; `CopyChecked` compares the copy loops with their definition at every address |
| `dev` | 2 processes, rings of 2, counters modulo 4, six workloads, fair | `InputIntact`, `OutputIntact`, `SleepNotEarly`, `CallsProgress`, `KilledReturns` | rings keep their bytes, interrupts are not lost, a killed process exits |
| `dir_dotdot` | as `dir` | `NoPanic` is violated | the finding below |

Deadlock is not checked in `bcache`, where `bget` may panic, and in the two runs of
`Dir`, whose processes stop after one has gone astray; every other run checks it.

### Fairness

- Kernel steps of a process are fair because the scheduler is round robin with a
  timer (`RunnableRuns` of `Sched`).  Where a process competes for a spinlock or
  for descriptors, the step is enabled again and again but not continuously:
  strong fairness.  `acquire` itself gives no order among spinning CPUs, so this
  assumes that the hardware does not starve one forever.
- `Sched` assumes that CPUs keep executing and that a process does more in a time
  slice than take the next timer interrupt.
- Nothing is assumed of user programs, except that init goes on with its loop of
  `fork` and `wait`, which is its code, and that a killed process closes its files.
- A process that holds an operation open, or a buffer, releases it after a while:
  kernel code between `begin_op` and `end_op`, or `bread` and `brelse`, has no
  unbounded loop.
- The device finishes each request it fetched, and a pending interrupt is taken.
- In `Dev` the uart sends what it has and the clock goes on; nothing is assumed of
  the keyboard or of readers.
- `Log`, `Inode`, `Dir` and `Resources` state no liveness.  That nobody waits in
  `begin_op` without somebody to wake them is the invariant `NoLostWakeup`.

### Finding

`dir_dotdot`: a process makes directory `a/b` its current one; `a/b` and then `a`
are removed.  The process still holds `b`, whose `..` entry names `a`, but no
longer counts as a link, so `a` is freed.  A path that starts with `..` then gets
a reference to a free inode, and `ilock` panics.  In run `dir` calls end once that
has happened (`astray`).

### Observations

Places where the code does less than one might expect.  The models contain the
behaviour unless it says otherwise; the properties are stated so as to hold.

1. What is created or linked in a directory that has been removed while in use has
   a link count that no longer matches (`create` and `sys_link` do not test
   `dp->nlink`); it leaks, at the latest, when the directory is freed.
   `LinkCounts` and `DirTree` leave it out (`detached`).
2. `iput` takes `itable.lock` again after it freed the inode (`fs.c:357`).  If in
   the meantime the same inode was allocated, used, unlinked and put by others, its
   last use is the count that this `iput` takes down, without looking at `nlink`:
   the inode stays allocated without a name, though `fs.c:332` says "If that was
   the last reference and the inode has no links to it, free the inode (and its
   content) on disk."  `OrphansHeld` leaves it out (`raced`).
3. `begin_op` counts with `LOGSIZE` data blocks, but `mkfs` makes a log area of
   `LOGSIZE` blocks with the header among them, and `log_write` compares with
   `log.size - 1`, before it looks for absorption.  Operations that use all of
   `MAXOPBLOCKS`, which `param.h:13` allows, can panic; `BudgetHolds` says that
   `MAXOPBLOCKS` - 1 is safe, and `WithinBudget` that the file system's calls keep
   to it.
4. `pipewrite` returns without waking readers when the writer is killed after it
   put bytes in the pipe (`pipe.c:84`).  They sleep beside these bytes until
   another writer wakes them or the last writer closes its end; `WakeupsKept` makes an
   exception for readers once a killed writer has left `pipewrite`, and for nothing
   else.
5. `kill(0)` matches a free slot (`proc.c:609`), and the process later created
   there is born killed.  Run `proc` uses pids above 0.
6. A process killed between `consoleread`'s test of `killed` and its `sleep` waits
   for the next line (`KilledReturns` says so); the same delay is possible in
   `piperead`.
7. While keys arrive as fast as the uart sends, echoes keep its FIFO busy and
   writers wait (`CallsProgress` assumes that the keyboard rests).
8. `mkfs` rounds the size of the root directory up to the next block, by a whole
   block when its entries fill the last one exactly, which leaves a hole that
   `readi` would allocate outside of a transaction.  `Inode` assumes the case away
   (`BSIZE > 2` entries, as in an image with few files).
9. A failing `sbrk` keeps the page-table pages it made, until exit
   (`FailureIsClean`).

## 4. The proofs

Each theorem holds for every value of the constants that satisfies the named
assumption of its module.  The assumptions say that sets are finite where they are
counted, that `None` is not a member of the sets it stands beside, and what
`param.h` guarantees of sizes; TLC evaluates them in the runs.

| module | theorem | property | for every |
|---|---|---|---|
| `LogProofs` | `TypeCorrect`, `NobodyForgotten`, `AtRest` | `TypeOK`, `NoLostWakeup`, `DurableAtRest` | set of processes, blocks, contents, log size |
| | `CrashAtomicity` | `AtomicSpec`: `log.c` implements `AtomicTrans` | the same |
| | `ReservationEnough` | `BudgetHolds` | the same, if `OpBlocks <= MAXOPBLOCKS` and `LogLen >= LOGSIZE` |
| `SchedProofs` | `StacksExclusive`, `LocksHeldRight`, `SleepLockRight` | `OneStack`, `LocksSound`, `SleepLockSound` | number of CPUs and processes |
| `ProcProofs` | `TableSound`, `ExitSeen`, `StackFreed` | `ProcTable`, `NoMissedExit`, `FreedOffStack` | table size, number of pids |
| `PipeProofs` | `FreedUnused`, `WakeupsSound` | `NoUseAfterFree`, `WakeupsKept` | set of readers and writers, number of kills, `PIPESIZE`, width of the counters |
| | `PipeIsFifo` | `FifoSpec`: `pipe.c` implements `Fifo` | the same |
| `BcacheProofs` | `CacheSound` | `BufsSound` | set of uses (nested or not) and of blocks, number of buffers and pins |
| | `CacheCoherence` | `StoreSpec`: `bio.c` implements `BlockStore` | the same |
| `VirtioDiskProofs` | `RequestsKept` | `RequestsSound` | set of processes, `NUM`, width of the ring indexes |
| `DevProofs` | `InputKept`, `OutputKept` | `InputIntact`, `OutputIntact` | set of processes and workloads, size of the two buffers, width of the counters |
| | `SleepsKept` | `SleepNotEarly`, an action property | the same, width of `ticks` |

All rest on a theorem `Spec => []IInv` (`Invariance`, `SchedInvariance`, ...): `IInv`
is inductive, which none of the properties is by itself.  Each module has one lemma
per action, joined in `NextIInv`.  A leaf that cites `SMT, Z3` is one that needs the
SMT solver; the second name asks for a second try, since the translation of a leaf to
the solver has a time limit of its own, which it may exceed on a busy machine.  What
`IInv` adds to the properties, and why:

**Log.**  That a crash during `install_trans` is harmless needs to know that the
log blocks still equal the cached ones, which needs to know that nobody changes
the cache during a commit, which needs to know that `outstanding` counts the open
operations exactly and that there is one committer.  `HeadersOK`: both headers list
distinct blocks and fit in the log area.  `BootIdle`, `Recovering`: during recovery
nothing else runs, and the first `tail - 1` logged blocks are home.  `Exclusion`:
`outstanding` is the number of open operations, a commit excludes them, and
`committing` is set exactly while there is one committer.  `Pinned`: a cached block
differs from its home block only while it is logged and not yet installed, and then
it has exactly one pin.  `Committing`: what the header and the log blocks hold at
each phase of commit.

For the refinement, `DurableValue` computes what recovery would restore at each
phase.  `WriteHead` is then the abstract `Commit`, `Crash` is the abstract `Crash`
(`CrashKeeps`: a torn write hits only what recovery ignores or writes again), and the
remaining block writes are stutters (`WriteLogHidden`, `InstallHidden`,
`ClearHeadHidden`, `RecoverHidden`).

`ReservationEnough` needs the sum of what the open operations may still log.  It counts a
set instead: an open operation has a credit `<<p, i>>` for each `i` from the number
of blocks it has logged plus one to `MAXOPBLOCKS`, and `Budget` says that the log and
the credits fit in `LOGSIZE`.  `begin_op` tests that before it hands out
`MAXOPBLOCKS` credits; a block new to its operation costs one credit and at most one
entry; a second write of it costs neither, because it is still in the log.  When
`log_write` panics, one credit at most is left, so no operation has two.  The two
hypotheses are what `param.h:13` asks of callers and the log area that `mkfs` makes.

**Sched.**  The invariant speaks of parts of the records (`Pc`, `Stack`, `Noff`, ...),
each a function, so that a step is a change of few of them (`Moves`, `Pushes`, `Pops`,
`Traps`, `Switches`).  `Placement`: a stack is used by one CPU, the one whose scheduler
switched to it, and a thread on no CPU is parked in `swtch` or has never run.
`Conditions`: `RUNNING` means on a CPU; a sleeper has its channel.  `PLocks`: `p->lock`
is held by the thread at the labels between `acquire` and `release` or, on the other
side of `swtch`, by the scheduler.  `LkHeld` says the same of the sleeplock's spinlock.
`Nesting`: `noff` is a function of the label.  From these `NoffExact` counts the locks
a CPU holds (`SmallSets`: none, one or two), and `ChecksPass` shows that the panics of `acquire`, `release`, `pop_off`
and `sched` cannot happen.  `Owner` and `Sleepers` are the sleeplock's half: who is past
`acquiresleep` owns it, across preemption too, and who has set `SLEEPING`
has seen it taken or has a `wakeup` loop coming that has not passed its slot.

**Proc.**  `Stages`: a slot's state says where its process can be.  `LockHeld`:
`wait_lock` excludes.  `Forks`: the child of a fork in progress is `USED` and belongs
to that fork alone, which is what makes the unlocked store of `RUNNABLE` harmless.
`InitLives`: init can always take orphans.  `Decided`: what `exit` and `wait` have
established under `wait_lock` still holds when they act on it: no zombie child when
`wait` goes to sleep, no child left when `exit` becomes a zombie, and a parent already
woken.

**Pipe.**  `Sides`, `Mutex`: who runs which call, and `pi->lock` excludes.  `Ends`: a
call has its descriptor, and the last process of an end closes it.  `Tested`: the test
that `piperead` made still holds when it sleeps.  `ReadersWoken` and `WritersWoken` are
the inductive forms of `WakeupsKept`: a reader sleeps beside bytes only while their
writer still holds `pi->lock`, or when a killed writer has left `pipewrite` (`Gone`,
`GoneStays`; Observation 4).  For the refinement `Content` is the queue, read out of the ring;
the lemmas on `%` in `Counters` (`ModNext`, `ModDiff`, `ModShift`, `ModApart`) show that with a counter width that is a multiple of `PIPESIZE` the slot a
write takes is the one after the last and is no slot in use, also when `nwrite` has
wrapped and `nread` has not.

**Bcache.**  `Uses`, `Owners`: who has a buffer, and that its lock is held from
`acquiresleep` to `releasesleep`.  `Pins`, `Clean`: a buffer that differs from the disk
is pinned, or its holder is about to pin or write it, so its `refcnt` is not zero and
`bget` will not recycle it.
The store's contents are the valid buffer of a block or, without one, the disk; `bget`
and `bread` then change nothing (`Current`).

**VirtioDisk.**  `Heads`: a request's process and its first descriptor know each other.
`Publishing`: `vdisk_lock` is held between the store to the available ring and the
increment of its index, and the slot still has the request then.  `Windows`: the unread
part of a ring has as many slots as its indexes are apart, so no slot is in it twice.
`Placed` and `Found`: what is in the available ring, at the device or in the used ring
is waited for and is there once, and what is waited for is in one of the three.
`Transferred`: what has reached the used ring is done.  That no entry is overwritten
before it is read is the pigeonhole principle (`Room`): the entries of a ring are
different first descriptors and the one to be added is none of them, so there are
fewer than `NUM`.  `Spans`, `SlotsAdd` and `SlotsDrop` say what a step of an index does
to the unread part, also where the index wraps, which needs `W` to be a multiple of
`NUM`.

**Dev.**  `Holds` relates a ring to the sequence it should hold.  `Input`: the console's
buffer holds the committed lines followed by the line being edited; that line never
contains a newline, which is why ^U goes back as far as `w` and not beyond; a full
buffer is committed; and a reader that decided to sleep did so on an empty buffer.
`Output`: the uart's buffer holds the bytes not yet sent, counted from `Base`, since
`uartstart` moves `uart_tx_r` on before it writes the byte; `uart_tx_lock` is held by
who runs `uartstart`.  `Sleep`: `ticks - ticks0`, modulo the width of `ticks`, is the
number of ticks counted since the call (a sleeper runs again before the counter has
gone round once, the bound in `Clockintr`), so `sys_sleep` compares what it should, and
`SleepNotEarly` follows.

Only model-checked:

- all liveness properties, since the prover does not handle fairness: `RunnableRuns`,
  `SleepersWake`, `OrphansReaped`, `CloseUnblocks`, `RwReturns`, `BreadReturns`,
  `CallsProgress`, `KilledReturns`;
- `DiskConsistent`, `CachedAgrees`, `OrphansHeld` and `WithinBudget` of `Inode`, and the
  properties of `Dir`: their inductive invariants, which have to count block maps and
  directory trees, have not been worked out;
- everything about `Vm` and `Resources`, which use RECURSIVE operators that the prover
  does not support.

## 5. Not modelled

- Boot code (`main.c`, `start.c`, `entry.S`): sequential; its result is each
  module's `Init`.  `kvmmake` and the kernel's page table belong to it.
- Saving and restoring registers (`trampoline.S`, `kernelvec.S`, `trapframe`):
  straight-line machine code; `swtch` is modelled as the change of stacks.
- `printf.c` and `string.c`: formatting and memory copies.
- The system call table of `syscall.c`: a lookup.  `filestat` and `sys_uptime`
  change nothing.
- Feature negotiation in `virtio_disk_init`, and `uartinit`.
- The contents of files, of user memory and of program headers, beyond sizes and
  addresses.
- User programs other than init, and what `mkfs` does after the root directory.

Possible extensions: proofs of `DiskConsistent` of `Inode` and of `LinkCounts` of `Dir`;
a composition of `Dir` with the crashes of `Inode`.
