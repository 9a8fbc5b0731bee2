------------------------------ MODULE LogQueue ------------------------------
(***************************************************************************)
(* What the application log promises: at most Limit accepted entries wait, *)
(* and each is settled in its turn, by being stored or by being lost.      *)
(***************************************************************************)
EXTENDS Naturals, Sequences

CONSTANTS Entries, Limit

VARIABLES pending, stored

queue == <<pending, stored>>

Init == pending = <<>> /\ stored = <<>>

Accept(e) == /\ Len(pending) < Limit
             /\ pending' = Append(pending, e)
             /\ UNCHANGED stored

Settle == /\ pending # <<>>
          /\ pending' = Tail(pending)
          /\ stored' \in {stored, Append(stored, Head(pending))}

Next == Settle \/ \E e \in Entries : Accept(e)

Spec == Init /\ [][Next]_queue
============================================================================
