-------------------------------- MODULE Fifo --------------------------------
(***************************************************************************)
(* What a pipe promises: a bounded first-in first-out queue of bytes.      *)
(***************************************************************************)
EXTENDS Integers, Sequences

CONSTANTS Bytes, Size

VARIABLES queue,  \* bytes written and not yet read
          got     \* the byte read last

vars == <<queue, got>>

Init == queue = << >> /\ got \in Bytes

Put(v) == /\ Len(queue) < Size
          /\ queue' = Append(queue, v)
          /\ UNCHANGED got

Get == /\ queue # << >>
       /\ got' = Head(queue)
       /\ queue' = Tail(queue)

Next == Get \/ \E v \in Bytes : Put(v)

Spec == Init /\ [][Next]_vars
=============================================================================
