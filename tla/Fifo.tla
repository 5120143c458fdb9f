-------------------------------- MODULE Fifo --------------------------------
(***************************************************************************)
(* What every FIFO of the library promises to the logic around it: words   *)
(* leave in the order in which they entered, none is lost, repeated or     *)
(* altered, and at most Capacity are stored at a time.                     *)
(***************************************************************************)
EXTENDS Naturals, Sequences

CONSTANTS Capacity, Data

VARIABLES queue,    \* the words stored, oldest first
          taken     \* the last word handed to the reader

vars == <<queue, taken>>

Init == queue = <<>> /\ taken \in Data

Put(d) == /\ Len(queue) < Capacity
          /\ queue' = Append(queue, d)
          /\ UNCHANGED taken

Get == /\ queue # <<>>
       /\ taken' = Head(queue)
       /\ queue' = Tail(queue)

(* The two sides have clocks of their own, which may tick together. *)
PutGet(d) == /\ queue # <<>>
             /\ Len(queue) < Capacity
             /\ taken' = Head(queue)
             /\ queue' = Append(Tail(queue), d)

Clear == queue' = <<>> /\ UNCHANGED taken

Next == \/ \E d \in Data : Put(d) \/ PutGet(d)
        \/ Get
        \/ Clear

Spec == Init /\ [][Next]_vars
=============================================================================
