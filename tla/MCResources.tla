---------------------------- MODULE MCResources ----------------------------
EXTENDS Resources
MCCalls == <<{"sbrk", "fork", "wait", "pipe", "close"}, {"exec", "sbrk", "open", "dup", "pipe", "close", "exit"}>>
MCIncrements == {3, -3, -32}

Seg(vaddr, memsz, filesz, perm, short) ==
  [vaddr |-> vaddr, memsz |-> memsz, filesz |-> filesz, perm |-> perm, short |-> short]
Text == Seg(0, 2, 2, {}, FALSE)
\* A good program, one whose data is below its text, and a failure of each kind.
MCPrograms ==
  {<<Text, Seg(2, 1, 0, {"W"}, FALSE)>>, <<Text, Seg(0, 1, 1, {"W"}, FALSE)>>,
   <<Text, Seg(3, 1, 1, {}, FALSE)>>, <<Text, Seg(ADDR - 2, 3, 1, {}, FALSE)>>,
   <<Text, Seg(2, 1, 1, {}, TRUE)>>, <<Seg(0, 0, 0, {}, FALSE)>>}
=============================================================================
