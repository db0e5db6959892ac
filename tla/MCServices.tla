----------------------------- MODULE MCServices -----------------------------
(* A few actors and small bounds for each of the services, for TLC.         *)
EXTENDS Services

CONSTANTS
    u1, u2, u3, o1, o2,         \* users and objects of a file lock
    lead, below, other,         \* sessions
    MaxTasks                    \* of a run of the evaluation

MCObjectOf == [u \in {u1, u2, u3} |-> IF u = u3 THEN o2 ELSE o1]
MCParentOf == [s \in {lead, below, other} |-> IF s = below THEN lead ELSE NoParent]
Single == {"agent-benchmark", "memory", "tools-hooks", "context-manager", "task-state"}
MCPlans == {<<mode>> : mode \in Single} \cup {<<"agent-benchmark", "agent-benchmark">>}
MCTasksOf == [mode \in Single |-> IF mode = "context-manager" THEN 1 ELSE MaxTasks]
=============================================================================
