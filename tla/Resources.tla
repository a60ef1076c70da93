----------------------------- MODULE Resources -----------------------------
(***************************************************************************)
(* What the calls of processes take and give back: pages (module Vm), open *)
(* files and pipes (kernel/file.c, pipealloc and pipeclose of              *)
(* kernel/pipe.c, kernel/sysfile.c), with sbrk, fork, exec, exit and wait. *)
(*                                                                         *)
(* A call is one step: calls of different processes meet only in kmem and  *)
(* in ftable, each of whose operations is atomic, and what one call can    *)
(* see of another is that a kalloc fails (room in Vm) or a table is full.  *)
(***************************************************************************)
EXTENDS Vm, Sequences

CONSTANTS NPROC, NFILE, NOFILE,
          Calls,        \* bound: the calls each process makes
          Increments,   \* arguments of sbrk
          Programs,     \* sequences of [vaddr, memsz, filesz, perm, short]
          MAXARG, ArgBytes,
          Addrs         \* user addresses passed to pipe and wait

Procs == 1..NPROC
Files == 1..NFILE
Fds == 0..NOFILE-1
Init1 == 1              \* initproc

VARIABLES free,    \* kmem.freelist
          proc,    \* [st, tf: trapframe page, t: page table, sz, ofile]
          ftab,    \* [ref, type, pi: page of the pipe, end: "r" or "w"]
          pipe,    \* the open ends of the pipe in a page
          ret,     \* result of the last call
          bad      \* a panic or a double free

vars == <<free, proc, ftab, pipe, ret, bad>>

Unused == [st |-> "unused", tf |-> 0, t |-> NoTable, sz |-> 0, ofile |-> [i \in Fds |-> 0]]
NoFile == [ref |-> 0, type |-> "none", pi |-> 0, end |-> "r"]

\* allocproc: the working state, and the page of the trapframe.
AllocTable(k) == IF k.pg = 0 THEN [s |-> [k EXCEPT !.ok = FALSE], tf |-> 0]
                 ELSE [s |-> ProcPagetable(k, k.pg), tf |-> k.pg]

Allocproc(s) == AllocTable(Kalloc(s))

\* The first process after userinit: allocproc and uvmfirst.
Booted(a) == [s |-> Fill(a.s, 0, 0, 0, [v \in Vpns |-> {"U", "W"}]), tf |-> a.tf]

Init ==
  /\ \E b \in {Booted(Allocproc(Work(Pages, Cardinality(Pages), NoTable)))} :
       /\ free = b.s.free
       /\ proc = [p \in Procs |-> IF p # Init1 THEN Unused
                    ELSE [Unused EXCEPT !.st = "run", !.tf = b.tf, !.t = b.s.t, !.sz = PGSIZE]]
  /\ ftab = [f \in Files |-> NoFile] /\ pipe = [a \in Pages |-> {}]
  /\ ret = "ok" /\ bad = FALSE

Running(p, call) == proc[p].st = "run" /\ call \in Calls[p]

Rooms == 0..Cardinality(free)

\* A call of p that leaves the working state s, and the files as they are.
Memory(s, result) ==
  /\ free' = s.free /\ bad' = s.bad /\ ret' = result

-----------------------------------------------------------------------------
\* growproc; sz + n is computed modulo 2^64.
Growproc(s, sz, n) == IF n > 0 THEN Uvmalloc(s, sz, (sz + n) % ADDR, {"W"})
                      ELSE Uvmdealloc(s, sz, (sz + n) % ADDR)

Sbrk(p) ==
  /\ Running(p, "sbrk")
  /\ \E n \in Increments, room \in Rooms :
       \E r \in {Growproc(Work(free, room, proc[p].t), proc[p].sz, n)} :
         LET fails == n > 0 /\ r.ret = 0 IN
         /\ proc' = [proc EXCEPT ![p].t = r.t, ![p].sz = IF fails THEN @ ELSE r.ret]
         /\ Memory(r, IF fails THEN "fail" ELSE "ok")
  /\ UNCHANGED <<ftab, pipe>>

FreeTable(s, pr) == IF pr.t.root # 0 THEN ProcFreepagetable(s, pr.t, pr.sz) ELSE s

\* Faulty: the trapframe is not given back.
FreeprocKept(s, pr) == FreeTable(s, pr)

\* freeproc of the process record pr
Freeproc(s, pr) == FreeTable(IF pr.tf # 0 THEN Kfree(s, {pr.tf}) ELSE s, pr)

\* filedup of every open file of a process
Filedup(ofile) == [f \in Files |-> [ftab[f] EXCEPT !.ref = @ + Cardinality({i \in Fds : ofile[i] = f})]]

Fork(p, q) ==
  /\ Running(p, "fork") /\ proc[q].st = "unused"
  /\ \E room \in Rooms :
     \E a \in {Allocproc(Work(free, room, NoTable))} :
     \E c \in {IF a.s.ok THEN Uvmcopy(a.s, proc[p].t, proc[p].sz) ELSE a.s} :
       LET np == [Unused EXCEPT !.tf = a.tf, !.t = c.t] IN
       \/ /\ c.ok
          /\ proc' = [proc EXCEPT ![q] = [np EXCEPT !.st = "run", !.sz = proc[p].sz, !.ofile = proc[p].ofile]]
          /\ ftab' = Filedup(proc[p].ofile) /\ Memory(c, "ok")
       \/ ~c.ok /\ Memory(Freeproc(c, np), "fail") /\ UNCHANGED <<proc, ftab>>
  /\ UNCHANGED pipe

-----------------------------------------------------------------------------
\* exec.  In the working state s, ret is the variable sz; once ok is false the rest
\* is skipped, as by goto bad.

\* sz after uvmalloc, whose result is 0 on failure
Grown(a, sz) == [a EXCEPT !.ok = a.ret # 0, !.ret = IF @ = 0 THEN sz ELSE @]

Loadseg(a, g) ==
  IF ~a.ok THEN a
  ELSE [a EXCEPT !.ok = ~g.short,
                 !.bad = @ \/ \E b \in g.vaddr..g.vaddr + g.filesz - 1 : ~Walkaddr(a.t, b \div PGSIZE, {})]

Segment(s, g) ==
  LET end == (g.vaddr + g.memsz) % ADDR IN
  IF g.memsz < g.filesz \/ end < g.vaddr \/ g.vaddr % PGSIZE # 0 THEN [s EXCEPT !.ok = FALSE]
  ELSE Loadseg(Grown(Uvmalloc(s, s.ret, end, g.perm), s.ret), g)

RECURSIVE Load(_, _)
Load(s, segs) == IF ~s.ok \/ segs = <<>> THEN s ELSE Load(Segment(s, Head(segs)), Tail(segs))

\* Guard page and stack, and the arguments on it.
Guarded(u) == IF u.ok THEN Uvmclear(u, Npages(u.ret) - 2) ELSE u

Stack(s) ==
  LET sz == PGROUNDUP(s.ret) IN
  IF s.ok THEN Guarded(Grown(Uvmalloc(s, sz, sz + 2 * PGSIZE, {"W"}), sz)) ELSE s

Push(s, args) == [s EXCEPT !.ok = @ /\ args <= PGSIZE /\ CopyOk(s.t, s.ret - args, args, {"W"})]

\* bad: the new image is given back.
OrBad(s) == IF s.ok \/ s.t.root = 0 THEN s ELSE [ProcFreepagetable(s, s.t, s.ret) EXCEPT !.ok = FALSE]

Image(s, tf, segs, args) == OrBad(Push(Stack(Load(ProcPagetable(s, tf), segs)), args))

\* The pages that sys_exec copies k arguments to.
ArgPages(k) == {a \in free : Cardinality({b \in free : b < a}) < k}

\* sys_exec: a bad argument pointer, too many arguments or a failing kalloc end it
\* early; in every case the pages of the arguments are freed.
SysExec(p) ==
  /\ Running(p, "exec")
  /\ \/ \E k \in 0..MAXARG :
          Memory(Kfree(Work(free \ ArgPages(k), 0, NoTable), ArgPages(k)), "fail") /\ UNCHANGED proc
     \/ \E room \in Rooms, segs \in Programs, k \in 0..MAXARG - 1, args \in ArgBytes :
          /\ room >= k
          /\ \E c \in {Image(Work(free \ ArgPages(k), room - k, NoTable), proc[p].tf, segs, args)} :
               \/ /\ ~c.ok
                  /\ Memory(Kfree(c, ArgPages(k)), "fail") /\ UNCHANGED proc
               \/ /\ c.ok
                  /\ Memory(Kfree(ProcFreepagetable(c, proc[p].t, proc[p].sz), ArgPages(k)), "ok")
                  /\ proc' = [proc EXCEPT ![p].t = c.t, ![p].sz = c.ret]
  /\ UNCHANGED <<ftab, pipe>>

-----------------------------------------------------------------------------
\* Open files.  x is [s: working state of Vm, ft: ftable, pp: the pipes].

\* filealloc takes the first unused file and sets nothing but the count.
Unref(ft) == {f \in Files : ft[f].ref = 0}

Filealloc(x, f) == [x EXCEPT !.ft[f].ref = 1]

\* Faulty: the type of a closed file stays.
ClosedStale(file) == [file EXCEPT !.ref = 0]

\* pi and end, which nothing reads once type is none, are forgotten.
Closed(file) == [file EXCEPT !.ref = 0, !.type = "none", !.pi = 0, !.end = "r"]

Pipeclose(x, file) ==
  LET ends == x.pp[file.pi] \ {file.end}
  IN  [x EXCEPT !.pp[file.pi] = ends, !.s = IF ends = {} THEN Kfree(@, {file.pi}) ELSE @]

\* fileclose; the inode of a file is put (module Inode).
FileEnd(x, file) == IF file.type = "pipe" THEN Pipeclose(x, file) ELSE x

Fileclose(x, f) ==
  IF x.ft[f].ref > 1 THEN [x EXCEPT !.ft[f].ref = @ - 1]
  ELSE FileEnd([x EXCEPT !.ft[f] = Closed(@), !.s.bad = @ \/ x.ft[f].ref < 1], x.ft[f])

RECURSIVE FilecloseAll(_, _)
FilecloseAll(x, fs) == IF fs = <<>> THEN x ELSE FilecloseAll(Fileclose(x, Head(fs)), Tail(fs))

Open(room) == [s |-> Work(free, room, NoTable), ft |-> ftab, pp |-> pipe]

Become(x, result) == ftab' = x.ft /\ pipe' = x.pp /\ Memory(x.s, result)

\* argfd takes an open descriptor, fdalloc the first free one.
OpenFds(p) == {i \in Fds : proc[p].ofile[i] # 0}

FreeFds(p) == Fds \ OpenFds(p)

\* sys_open, as far as file table and descriptor go.
SysOpen(p) ==
  LET x == Filealloc(Open(0), Min(Unref(ftab))) IN
  /\ Running(p, "open")
  /\ \/ /\ Unref(ftab) = {} /\ Become(Open(0), "fail") /\ UNCHANGED proc
     \/ /\ Unref(ftab) # {} /\ FreeFds(p) = {}
        /\ Become(Fileclose(x, Min(Unref(ftab))), "fail") /\ UNCHANGED proc
     \/ /\ Unref(ftab) # {} /\ FreeFds(p) # {}
        /\ Become([x EXCEPT !.ft[Min(Unref(ftab))].type = "inode"], "ok")
        /\ proc' = [proc EXCEPT ![p].ofile[Min(FreeFds(p))] = Min(Unref(ftab))]

SysDup(p) ==
  /\ Running(p, "dup")
  /\ \E i \in OpenFds(p) :
       IF FreeFds(p) = {} THEN Become(Open(0), "fail") /\ UNCHANGED proc
       ELSE /\ Become([Open(0) EXCEPT !.ft[proc[p].ofile[i]].ref = @ + 1], "ok")
            /\ proc' = [proc EXCEPT ![p].ofile[Min(FreeFds(p))] = proc[p].ofile[i]]

SysClose(p) ==
  /\ Running(p, "close")
  /\ \E i \in OpenFds(p) :
       /\ Become(Fileclose(Open(0), proc[p].ofile[i]), "ok")
       /\ proc' = [proc EXCEPT ![p].ofile[i] = 0]

\* pipealloc: two files and a page, or what it has got is given back and ok is false.
Failed(x) == [x EXCEPT !.s.ok = FALSE]

PipePage(x, k, f0, f1) ==
  LET file(e) == [ref |-> 1, type |-> "pipe", pi |-> k.pg, end |-> e] IN
  IF k.pg = 0 THEN Failed(FilecloseAll(x, <<f0, f1>>))
  ELSE [x EXCEPT !.s = k, !.ft[f0] = file("r"), !.ft[f1] = file("w"), !.pp[k.pg] = {"r", "w"}]

Pipealloc(x, f0, f1) ==
  CASE f0 = 0           -> Failed(x)
    [] f0 # 0 /\ f1 = 0 -> Failed(Fileclose(Filealloc(x, f0), f0))
    [] OTHER            -> PipePage(Filealloc(Filealloc(x, f0), f1), Kalloc(x.s), f0, f1)

\* sys_pipe: descriptors, and both numbers copied to addr.
SysPipe(p) ==
  LET f0 == Min(Unref(ftab) \cup {NFILE + 1}) % (NFILE + 1)
      f1 == Min((Unref(ftab) \ {f0}) \cup {NFILE + 1}) % (NFILE + 1)
      fd0 == Min(FreeFds(p))
      fd1 == Min(FreeFds(p) \ {fd0})
  IN
  /\ Running(p, "pipe")
  /\ \E room \in {0, 1} \cap Rooms, addr \in Addrs :
     \E x \in {Pipealloc(Open(room), f0, f1)} :
       LET given == Cardinality(FreeFds(p)) >= 2 /\ CopyOk(proc[p].t, addr, 1, {"W"})
                    /\ CopyOk(proc[p].t, (addr + 1) % ADDR, 1, {"W"})
       IN  \/ ~x.s.ok /\ Become(x, "fail") /\ UNCHANGED proc
           \/ x.s.ok /\ ~given /\ Become(FilecloseAll(x, <<f0, f1>>), "fail") /\ UNCHANGED proc
           \/ /\ x.s.ok /\ given /\ Become(x, "ok")
              /\ proc' = [proc EXCEPT ![p].ofile[fd0] = f0, ![p].ofile[fd1] = f1]

\* exit closes the files; the memory stays until wait.
Exit(p) ==
  /\ Running(p, "exit") /\ p # Init1
  /\ Become(FilecloseAll(Open(0), SelectSeq([i \in 1..NOFILE |-> proc[p].ofile[i-1]], LAMBDA f : f # 0)), "ok")
  /\ proc' = [proc EXCEPT ![p].st = "zombie", ![p].ofile = Unused.ofile]

\* wait(addr) finds a zombie: freeproc, unless its status cannot be copied out.
Wait(p, q) ==
  /\ Running(p, "wait") /\ proc[q].st = "zombie"
  /\ \E addr \in Addrs :
       IF addr # 0 /\ ~CopyOk(proc[p].t, addr, 1, {"W"})
         THEN Memory(Work(free, 0, NoTable), "fail") /\ UNCHANGED proc
         ELSE Memory(Freeproc(Work(free, 0, NoTable), proc[q]), "ok") /\ proc' = [proc EXCEPT ![q] = Unused]
  /\ UNCHANGED <<ftab, pipe>>

Next == \E p \in Procs :
          \/ Sbrk(p) \/ SysExec(p) \/ SysOpen(p) \/ SysDup(p) \/ SysClose(p) \/ SysPipe(p) \/ Exit(p)
          \/ \E q \in Procs : Fork(p, q) \/ Wait(p, q)

Spec == Init /\ [][Next]_vars
-----------------------------------------------------------------------------
Live == {p \in Procs : proc[p].st # "unused"}

\* Who holds pages: trapframe, root, the other page-table pages, user pages, pipes.
Holdings ==
  UNION {{<<p, 4, 0, proc[p].tf>>, <<p, 3, 0, proc[p].t.root>>}
           \cup {<<p, k[1], k[2], proc[p].t.tab[k]>> : k \in {k \in Tables : proc[p].t.tab[k] # 0}}
           \cup {<<p, 0, v, proc[p].t.leaf[v].pa>> : v \in 0..Npages(proc[p].sz) - 1} : p \in Live}
  \cup {<<0, 0, a, a>> : a \in {a \in Pages : pipe[a] # {}}}

\* A process has exactly the pages below its size mapped, with a trampoline and
\* its trapframe out of reach of user code.  The panics of vm.c rest on it ("uvmcopy:
\* pte should exist", "uvmunmap: not mapped", "mappages: remap", loadseg's "address
\* should exist", freewalk's "leaf"): neither these nor those of kfree, filedup and
\* fileclose are reached, and no page is freed twice.
ImageExact ==
  /\ ~bad
  /\ \A p \in Live :
       /\ {v \in Vpns : Mapped(proc[p].t, v)} = 0..Npages(proc[p].sz) - 1 \cup {TRAMPOLINE, TRAPFRAME}
       /\ proc[p].t.leaf[TRAPFRAME] = [pa |-> proc[p].tf, perm |-> {"W"}]
       /\ "U" \notin proc[p].t.leaf[TRAMPOLINE].perm

\* No page is lost and none is used twice: images are exact and the pages that are
\* not free have one use each, after every success and every failure, at whatever
\* kalloc, of fork, exec, sbrk and pipe.
PagesConserved ==
  /\ ImageExact
  /\ {h[4] : h \in Holdings} = Pages \ free
  /\ Cardinality(Holdings) = Cardinality(Pages \ free)

\* "frees any allocated pages on failure" (uvmcopy): a call that fails leaves every
\* process, file and pipe as it was, and the free pages too; only a failing sbrk
\* may keep page-table pages, which exit gives back.
FailureIsClean ==
  [][ret' = "fail" =>
       /\ UNCHANGED <<ftab, pipe>>
       /\ \A p \in Procs : proc'[p] = [proc[p] EXCEPT !.t.tab = proc'[p].t.tab]
       /\ free' # free => \E p \in Procs : proc'[p].t.tab # proc[p].t.tab /\ proc'[p].sz = proc[p].sz]_vars

\* A file's count is the number of descriptors that name it, and a pipe's end is
\* open exactly as long as a file stands for it, also after pipealloc and sys_open
\* have closed files that were only half made.
FilesExact ==
  /\ \A f \in Files : ftab[f].ref = Cardinality({x \in Procs \X Fds : proc[x[1]].ofile[x[2]] = f})
  /\ \A a \in Pages : pipe[a] = {ftab[f].end : f \in {f \in Files : ftab[f].ref > 0 /\ ftab[f].type = "pipe" /\ ftab[f].pi = a}}

\* copyout, copyin, copyinstr and fetchaddr stop at the first byte outside the
\* process's image or on its guard page and at no other, for every address up to
\* the last one, where va + len wraps around.
CopyChecked ==
  LET len == PGSIZE + 1 IN
  \A p \in Live, va \in 0..ADDR-1, perm \in {{}, {"W"}} :
    LET may(a) == /\ a \div PGSIZE < Npages(proc[p].sz)
                  /\ {"U"} \cup perm \subseteq proc[p].t.leaf[a \div PGSIZE].perm
        good == {n \in 0..len : \A a \in va..va + n - 1 : may(a)}
    IN  /\ Copied(proc[p].t, va, len, perm) = Max(good)
        /\ perm = {} =>
             /\ \A nul \in va..va + len : Copyinstr(proc[p].t, va, len, nul) = (nul - va + 1 \in good)
             /\ Fetchaddr(proc[p].t, proc[p].sz, va, len) = (va + len <= proc[p].sz /\ len \in good)
=============================================================================
