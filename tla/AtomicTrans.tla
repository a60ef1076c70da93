---------------------------- MODULE AtomicTrans ----------------------------
(***************************************************************************)
(* What the logging layer promises to the file system: system calls group  *)
(* their block writes into transactions, and a crash keeps either all of   *)
(* the writes of a transaction or none of them.                            *)
(***************************************************************************)
CONSTANTS Procs, Blocks, Vals, InitVal

VARIABLES durable,   \* the contents a reboot would bring back
          volatile,  \* the contents that reads return now
          active     \* processes between begin_op and end_op

vars == <<durable, volatile, active>>

Init == /\ durable = [b \in Blocks |-> InitVal]
        /\ volatile = durable
        /\ active = {}

Begin(p) == /\ p \notin active
            /\ active' = active \cup {p}
            /\ UNCHANGED <<durable, volatile>>

Write(p, b, v) == /\ p \in active
                  /\ volatile' = [volatile EXCEPT ![b] = v]
                  /\ UNCHANGED <<durable, active>>

End(p) == /\ p \in active
          /\ active' = active \ {p}
          /\ UNCHANGED <<durable, volatile>>

\* Everything written so far becomes durable in one step, and only at a
\* moment when no transaction is half done.
Commit == /\ active = {}
          /\ durable' = volatile
          /\ UNCHANGED <<volatile, active>>

Crash == /\ volatile' = durable
         /\ active' = {}
         /\ UNCHANGED durable

Next == \/ \E p \in Procs : Begin(p) \/ End(p)
        \/ \E p \in Procs, b \in Blocks, v \in Vals : Write(p, b, v)
        \/ Commit
        \/ Crash

Spec == Init /\ [][Next]_vars
=============================================================================
