-------------------------- MODULE SharedExclusive --------------------------
(***************************************************************************)
(* What litecoder's workspace lock promises its users, whatever it does    *)
(* inside: a process asks for shared ("read") or exclusive ("write")       *)
(* access, may be admitted, and drops its request when it is done or       *)
(* cancelled.  Whoever has access is compatible with everybody else who    *)
(* has it.                                                                 *)
(*                                                                         *)
(* One step asks or drops ONE request and admits ANY set of standing ones: *)
(* the lock hands over in the critical section that asks or releases.      *)
(***************************************************************************)
CONSTANT Procs

VARIABLES
    want,   \* the access each process's standing request is for
    have    \* the access each process has been given

Modes == {"read", "write"}
Access == Modes \cup {"none"}

Compatible(h) ==
    \A p, q \in Procs : (p # q /\ h[p] = "write") => h[q] = "none"

Init ==
    /\ want = [p \in Procs |-> "none"]
    /\ have = [p \in Procs |-> "none"]

\* The standing requests of `admitted` get what they ask for; p, if it has
\* dropped its request, keeps nothing; everybody else keeps what it has.
Admit(p, admitted) ==
    /\ \A q \in admitted : want'[q] # "none" /\ have[q] = "none"
    /\ have' = [q \in Procs |-> IF q \in admitted THEN want'[q]
                                ELSE IF q = p /\ want'[p] = "none" THEN "none"
                                ELSE have[q]]
    /\ Compatible(have')

Ask(p, m, admitted) ==
    /\ want[p] = "none"
    /\ want' = [want EXCEPT ![p] = m]
    /\ Admit(p, admitted)

Drop(p, admitted) ==
    /\ want[p] # "none"
    /\ want' = [want EXCEPT ![p] = "none"]
    /\ Admit(p, admitted)

Next ==
    \E p \in Procs, admitted \in SUBSET Procs :
        \/ \E m \in Modes : Ask(p, m, admitted)
        \/ Drop(p, admitted)

Spec == Init /\ [][Next]_<<want, have>>
=============================================================================
