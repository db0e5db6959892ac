--------------------------- MODULE DurableWrites ---------------------------
(***************************************************************************)
(* What a write operation promises its caller, with no mechanism: the      *)
(* write may become durable at some moment while the caller waits, and the *)
(* caller is told that it did exactly if it did.                           *)
(***************************************************************************)

CONSTANT Writers

VARIABLES
    told,    \* by writer: what its caller knows
    stored   \* the writers whose rows are durable

vars == <<told, stored>>

Init ==
    /\ told = [w \in Writers |-> "nothing"]
    /\ stored = {}

Store(w) ==
    /\ told[w] = "nothing"
    /\ stored' = stored \cup {w}
    /\ UNCHANGED told

Tell(w) ==
    /\ told[w] = "nothing"
    /\ told' = [told EXCEPT ![w] = IF w \in stored THEN "stored" ELSE "not stored"]
    /\ UNCHANGED stored

Next == \E w \in Writers : Store(w) \/ Tell(w)

Spec == Init /\ [][Next]_vars
============================================================================
