------------------------------ MODULE MCBcache ------------------------------
(***************************************************************************)
(* Two processes; the first may bread a second block while it holds one.   *)
(***************************************************************************)
EXTENDS Bcache

CONSTANTS p1, p2, p3

MCOuter == [p \in Procs |-> IF p = p2 THEN p1 ELSE None]
=============================================================================
