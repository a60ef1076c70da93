------------------------------ MODULE MCInode ------------------------------
EXTENDS Inode, TLC
Perms == Permutations(Procs)
=============================================================================
