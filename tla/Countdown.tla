----------------------------- MODULE Countdown -----------------------------
(***************************************************************************)
(* What a turn of an agent promises about its length, with no mechanism:   *)
(* while it runs, every step of it takes something from a natural number,  *)
(* so a turn cannot go on for ever, whatever the provider answers.         *)
(***************************************************************************)
EXTENDS Naturals

VARIABLES
    running,   \* is there a turn?
    left       \* no more steps than this are left of it

vars == <<running, left>>

Init == running = FALSE /\ left \in Nat

Begin ==
    /\ ~running
    /\ running' = TRUE
    /\ left' \in Nat

Step ==
    /\ running
    /\ running' \in BOOLEAN
    /\ left' \in Nat
    /\ left' < left

Next == Begin \/ Step

Spec == Init /\ [][Next]_vars
=============================================================================
