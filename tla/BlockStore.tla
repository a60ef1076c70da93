----------------------------- MODULE BlockStore -----------------------------
(***************************************************************************)
(* What the buffer cache promises: one store of blocks; a process that has *)
(* a block sees its current contents and nobody else has it.               *)
(***************************************************************************)
CONSTANTS Procs, Blocks, Vals, None

VARIABLES mem,   \* current contents of every block
          held,  \* block that a process has between bread and brelse, or None
          view   \* contents it sees in its buffer

vars == <<mem, held, view>>

Init == /\ mem \in [Blocks -> Vals]
        /\ held = [p \in Procs |-> None]
        /\ view = [p \in Procs |-> None]

Get(p, k) == /\ held[p] = None
             /\ \A q \in Procs : held[q] # k
             /\ held' = [held EXCEPT ![p] = k]
             /\ view' = [view EXCEPT ![p] = mem[k]]
             /\ UNCHANGED mem

Set(p, v) == /\ held[p] # None
             /\ mem' = [mem EXCEPT ![held[p]] = v]
             /\ view' = [view EXCEPT ![p] = v]
             /\ UNCHANGED held

Put(p) == /\ held[p] # None
          /\ held' = [held EXCEPT ![p] = None]
          /\ view' = [view EXCEPT ![p] = None]
          /\ UNCHANGED mem

Next == \E p \in Procs : \/ Put(p)
                         \/ \E k \in Blocks : Get(p, k)
                         \/ \E v \in Vals : Set(p, v)

Spec == Init /\ [][Next]_vars
=============================================================================
