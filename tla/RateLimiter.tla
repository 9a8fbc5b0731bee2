---------------------------- MODULE RateLimiter ----------------------------
(***************************************************************************)
(* What the suppression map of the notifications promises: under one       *)
(* context key nothing passes less than Window after what passed before.   *)
(* A restart forgets everything.                                           *)
(***************************************************************************)
EXTENDS Naturals

CONSTANTS Keys, Window, None

VARIABLES last, clock

limiter == <<last, clock>>

Silent == [k \in Keys |-> None]

Init == last = Silent /\ clock = 0

Pass(k) == /\ last[k] # None => clock >= last[k] + Window
           /\ last' = [last EXCEPT ![k] = clock]
           /\ UNCHANGED clock

Forget  == last' = Silent /\ UNCHANGED clock
Advance == clock' = clock + 1 /\ UNCHANGED last

Next == Advance \/ Forget \/ \E k \in Keys : Pass(k)

Spec == Init /\ [][Next]_limiter
============================================================================
