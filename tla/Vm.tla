--------------------------------- MODULE Vm ---------------------------------
(***************************************************************************)
(* The physical page allocator and the page tables of user processes       *)
(* (kernel/kalloc.c, kernel/vm.c, kernel/proc.c) as operators on a working *)
(* state s of one system call:                                             *)
(*   free   the pages on kmem.freelist,                                    *)
(*   room   how many of them the call can still get: other processes may   *)
(*          hold any number of free pages for a while, so that any kalloc  *)
(*          of a call can fail,                                            *)
(*   t      the page table at work: [root, tab: pages of the upper levels, *)
(*          leaf: the PTEs],                                               *)
(*   ok, pg, ret   results of the last operator,                           *)
(*   bad    a panic, or a page freed twice.                                *)
(***************************************************************************)
EXTENDS Integers, FiniteSets, FiniteSetsExt

CONSTANTS KEND, PHYSTOP,   \* physical memory for kalloc
          PGSIZE, MAXVA,
          ADDR             \* number of addresses: 2^64

Vpns == 0..MAXVA \div PGSIZE - 1
TRAMPOLINE == MAXVA \div PGSIZE - 1
TRAPFRAME == TRAMPOLINE - 1

PGROUNDUP(sz) == ((sz + PGSIZE - 1) \div PGSIZE) * PGSIZE
Npages(sz) == PGROUNDUP(sz) \div PGSIZE

\* freerange: whole pages only.
Pages == {a \in PGROUNDUP(KEND)..PHYSTOP : a % PGSIZE = 0 /\ a + PGSIZE <= PHYSTOP}

ASSUME VmAssumption ==
  /\ {KEND, PHYSTOP, PGSIZE, MAXVA, ADDR} \subseteq Nat \ {0} /\ MAXVA % PGSIZE = 0 /\ MAXVA < ADDR
  \* RAM, less the five pages every image needs, is smaller than the user address space
  /\ Cardinality(Pages) < TRAPFRAME + 5

\* Sv39 in small: a page of PTEs covers 8 pages, one of the level above 16.
Path(v) == <<<<2, v \div 16>>, <<1, v \div 8>>>>
Tables == {Path(v)[l] : v \in Vpns, l \in {1, 2}}

NoPte == [pa |-> 0, perm |-> {}]
NoTable == [root |-> 0, tab |-> [k \in Tables |-> 0], leaf |-> [v \in Vpns |-> NoPte]]
Mapped(t, v) == t.leaf[v].pa # 0

Work(free, room, t) == [free |-> free, room |-> room, t |-> t, ok |-> TRUE, pg |-> 0, ret |-> 0, bad |-> FALSE]

-----------------------------------------------------------------------------
Kalloc(s) ==
  IF s.room = 0 \/ s.free = {} THEN [s EXCEPT !.pg = 0]
  ELSE [s EXCEPT !.pg = Min(s.free), !.free = @ \ {Min(s.free)}, !.room = @ - 1]

Kfree(s, pas) == [s EXCEPT !.free = @ \cup pas, !.bad = @ \/ pas \cap s.free # {} \/ ~(pas \subseteq Pages)]

\* One level of walk with alloc = 1.
Tabled(a, k) == [a EXCEPT !.t.tab[k] = a.pg, !.ok = a.pg # 0]

Level(s, k) == IF s.t.tab[k] # 0 THEN [s EXCEPT !.ok = TRUE] ELSE Tabled(Kalloc(s), k)

Descend(a, k) == IF a.ok THEN Level(a, k) ELSE a

Walk(s, v) == Descend(Level(s, Path(v)[1]), Path(v)[2])

\* mappages of one page
SetPte(w, v, pte) == IF w.ok THEN [w EXCEPT !.t.leaf[v] = pte, !.bad = @ \/ Mapped(w.t, v)] ELSE w

Mappages(s, v, pa, perm) == SetPte(Walk(s, v), v, [pa |-> pa, perm |-> perm])

\* Pages v..v+n-1 must be mapped; those of the pool are freed where dofree is.
Cleared(s, vs, pas, n) ==
  [s EXCEPT !.t.leaf = [a \in Vpns |-> IF a \in vs THEN NoPte ELSE @[a]],
            !.bad = @ \/ 0 \in pas \/ Cardinality(pas) # n]

Uvmunmap(s, v, n, dofree) ==
  LET pas == {s.t.leaf[a].pa : a \in v..v + n - 1}
  IN  Cleared(IF dofree THEN Kfree(s, pas \ {0}) ELSE s, v..v + n - 1, pas, n)

Rooted(a) == [a EXCEPT !.t = [NoTable EXCEPT !.root = a.pg], !.ok = a.pg # 0]

Uvmcreate(s) == Rooted(Kalloc(s))

Uvmdealloc(s, oldsz, newsz) ==
  IF newsz >= oldsz THEN [s EXCEPT !.ret = oldsz]
  ELSE [Uvmunmap(s, Npages(newsz), Npages(oldsz) - Npages(newsz), TRUE) EXCEPT !.ret = newsz]

\* Faulty: the page is not given back when its PTE cannot be made.
UnmappedKept(s, a, first, pg) == Uvmunmap(s, first, a - first, TRUE)

\* uvmalloc and uvmcopy when page a cannot be had or, with page pg, not be mapped:
\* what was mapped from page first on is taken back.
Unmapped(s, a, first, pg) ==
  Uvmunmap(IF pg = 0 THEN s ELSE Kfree(s, {pg}), first, a - first, TRUE)

\* The loop of uvmalloc and uvmcopy, from page a to page last: k has the new page,
\* m has it mapped.
RECURSIVE Fill(_, _, _, _, _), FillMap(_, _, _, _, _), FillNext(_, _, _, _, _, _)
Fill(s, a, first, last, perm) ==
  IF a > last THEN [s EXCEPT !.ok = TRUE] ELSE FillMap(Kalloc(s), a, first, last, perm)

FillMap(k, a, first, last, perm) ==
  IF k.pg = 0 THEN [Unmapped(k, a, first, 0) EXCEPT !.ok = FALSE]
  ELSE FillNext(Mappages(k, a, k.pg, perm[a]), k.pg, a, first, last, perm)

FillNext(m, pg, a, first, last, perm) ==
  IF m.ok THEN Fill(m, a + 1, first, last, perm) ELSE [Unmapped(m, a, first, pg) EXCEPT !.ok = FALSE]

Resized(f, newsz) == [f EXCEPT !.ret = IF f.ok THEN newsz ELSE 0]

Uvmalloc(s, oldsz, newsz, xperm) ==
  IF newsz < oldsz THEN [s EXCEPT !.ret = oldsz]
  ELSE Resized(Fill(s, Npages(oldsz), Npages(oldsz), Npages(newsz) - 1, [a \in Vpns |-> {"U"} \cup xperm]), newsz)

\* The pages of table old are copied with their permissions.
Uvmcopy(s, old, sz) ==
  [Fill(s, 0, 0, Npages(sz) - 1, [a \in Vpns |-> old.leaf[a].perm])
     EXCEPT !.bad = @ \/ \E a \in 0..Npages(sz) - 1 : ~Mapped(old, a)]

Freewalk(s) ==
  LET tabs == {k \in Tables : s.t.tab[k] # 0}
      pas == {s.t.root} \cup {s.t.tab[k] : k \in tabs}
  IN  Kfree([s EXCEPT !.t = NoTable,
                      !.bad = @ \/ (\E v \in Vpns : Mapped(s.t, v)) \/ Cardinality(pas) # Cardinality(tabs) + 1],
            pas)

Uvmfree(s, sz) == Freewalk(Uvmunmap(s, 0, Npages(sz), TRUE))

Uvmclear(s, v) == [s EXCEPT !.t.leaf[v].perm = @ \ {"U"}, !.bad = @ \/ ~Mapped(s.t, v)]

\* proc_pagetable: when one of the two pages cannot be mapped, what there is is freed.
OrFreed(m) ==
  IF m.ok THEN m
  ELSE [Uvmfree(IF Mapped(m.t, TRAMPOLINE) THEN Uvmunmap(m, TRAMPOLINE, 1, FALSE) ELSE m, 0) EXCEPT !.ok = FALSE]

WithPage(c, v, pa, perm) == IF c.ok THEN OrFreed(Mappages(c, v, pa, perm)) ELSE c

ProcPagetable(s, tf) ==
  WithPage(WithPage(Uvmcreate(s), TRAMPOLINE, -1, {}), TRAPFRAME, tf, {"W"})

ProcFreepagetable(s, t, sz) ==
  Uvmfree(Uvmunmap(Uvmunmap([s EXCEPT !.t = t], TRAMPOLINE, 1, FALSE), TRAPFRAME, 1, FALSE), sz)

-----------------------------------------------------------------------------
\* Copying between kernel and user: the loops return how many bytes they moved.

\* Faulty: PTE_U is not checked.
WalkaddrAny(t, v, perm) == v \in Vpns /\ Mapped(t, v) /\ perm \subseteq t.leaf[v].perm

Walkaddr(t, v, perm) == v \in Vpns /\ Mapped(t, v) /\ {"U"} \cup perm \subseteq t.leaf[v].perm

\* copyout (perm {"W"}) and copyin (perm {})
RECURSIVE Copied(_, _, _, _)
Copied(t, va, len, perm) ==
  LET va0 == (va \div PGSIZE) * PGSIZE
      n == Min({PGSIZE - (va - va0), len})
  IN  IF len = 0 \/ ~Walkaddr(t, va0 \div PGSIZE, perm) THEN 0
      ELSE n + Copied(t, (va0 + PGSIZE) % ADDR, len - n, perm)

CopyOk(t, va, len, perm) == Copied(t, va, len, perm) = len

\* copyinstr, with the first nul at address nul
RECURSIVE Copyinstr(_, _, _, _)
Copyinstr(t, va, max, nul) ==
  LET va0 == (va \div PGSIZE) * PGSIZE
      n == Min({PGSIZE - (va - va0), max})
  IN  /\ max > 0 /\ Walkaddr(t, va0 \div PGSIZE, {})
      /\ nul \in va..va + n - 1 \/ Copyinstr(t, (va0 + PGSIZE) % ADDR, max - n, nul)

\* fetchaddr of a word of size w in a process of size sz
Fetchaddr(t, sz, va, w) == va < sz /\ (va + w) % ADDR <= sz /\ CopyOk(t, va, w, {})
=============================================================================
