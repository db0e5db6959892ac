------------------------------- MODULE Claims -------------------------------
(***************************************************************************)
(* What litecoder's durable task board promises to the agents that share   *)
(* it: a piece of work is declared after the work it requires, is held by  *)
(* one agent at a time and only once everything it requires is done, is    *)
(* finished by the agent that holds it, and stays finished.  Nothing else  *)
(* about a task (how it failed, who it is reserved for, whether files are  *)
(* being rewritten) is visible here.                                       *)
(***************************************************************************)
CONSTANTS Tasks, Agents, None

VARIABLES
    known,      \* the declared tasks
    requires,   \* what each declared task builds on
    holder,     \* the agent at work on a task, or None
    done        \* the finished tasks

vars == <<known, requires, holder, done>>

Init ==
    /\ known = {}
    /\ requires = [t \in Tasks |-> {}]
    /\ holder = [t \in Tasks |-> None]
    /\ done = {}

Declare(t, prerequisites) ==
    /\ t \notin known
    /\ prerequisites \subseteq known
    /\ known' = known \cup {t}
    /\ requires' = [requires EXCEPT ![t] = prerequisites]
    /\ UNCHANGED <<holder, done>>

Claim(t, a) ==
    /\ t \in known \ done
    /\ holder[t] = None
    /\ requires[t] \subseteq done
    /\ holder' = [holder EXCEPT ![t] = a]
    /\ UNCHANGED <<known, requires, done>>

\* The work stops unfinished: it failed, was cancelled or was interrupted.
Release(t) ==
    /\ holder[t] # None
    /\ holder' = [holder EXCEPT ![t] = None]
    /\ UNCHANGED <<known, requires, done>>

Finish(t) ==
    /\ holder[t] # None
    /\ holder' = [holder EXCEPT ![t] = None]
    /\ done' = done \cup {t}
    /\ UNCHANGED <<known, requires>>

Next ==
    \E t \in Tasks :
        \/ \E prerequisites \in SUBSET Tasks : Declare(t, prerequisites)
        \/ \E a \in Agents : Claim(t, a)
        \/ Release(t)
        \/ Finish(t)

Spec == Init /\ [][Next]_vars
=============================================================================
