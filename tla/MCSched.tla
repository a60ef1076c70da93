------------------------------ MODULE MCSched ------------------------------
EXTENDS Sched, TLC
Perms == Permutations(CPUs)
=============================================================================
