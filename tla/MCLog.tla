------------------------------- MODULE MCLog -------------------------------
EXTENDS Log, TLC
Perms == Permutations(Procs) \cup Permutations(Blocks)
=============================================================================
