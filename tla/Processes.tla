------------------------------ MODULE Processes ------------------------------
(***************************************************************************)
(* run_bounded_process (src/litecoder/tools/builtin/process.py) on POSIX:  *)
(* a tool call starts a command in a process group of its own, reads its   *)
(* output to the end, and kills the group when it times out, fails or is   *)
(* cancelled, at whichever await that happens.  The command may start      *)
(* helpers that outlive it: one that holds its output, one that does not,  *)
(* and one that holds it from a group of its own, where no kill reaches.   *)
(***************************************************************************)
CONSTANT Calls

VARIABLES
    call,       \* by call: where it is
    spawn,      \* by call: the task that starts the command
    root,       \* by call: the command's own process
    helpers,    \* by call: the kinds of its helpers that are alive
    started,    \* by call: the kinds of helpers it has started
    reason      \* by call: what it will end as, once it cleans up

vars == <<call, spawn, root, helpers, started, reason>>

Kinds == {"holding", "quiet", "escaped"}
Endings == {"completed", "timed out", "failed", "cancelled"}
Cleaning == {"cleaning", "cleaning still"}

TypeOK ==
    /\ call \in [Calls -> {"new", "spawning", "waiting", "running"}
                            \cup Cleaning \cup Endings]
    /\ spawn \in [Calls -> {"none", "pending", "done"}]
    /\ root \in [Calls -> {"none", "alive", "dead"}]
    /\ helpers \in [Calls -> SUBSET Kinds]
    /\ started \in [Calls -> SUBSET Kinds]
    /\ reason \in [Calls -> {"none"} \cup Endings]

Init ==
    /\ call = [c \in Calls |-> "new"]
    /\ spawn = [c \in Calls |-> "none"]
    /\ root = [c \in Calls |-> "none"]
    /\ helpers = [c \in Calls |-> {}]
    /\ started = [c \in Calls |-> {}]
    /\ reason = [c \in Calls |-> "none"]

Goes(c, from, to) ==
    /\ call[c] = from
    /\ call' = [call EXCEPT ![c] = to]

\* terminate_tree: whoever is in the group is killed.
TerminateTree(c) ==
    /\ root' = [root EXCEPT ![c] = "dead"]
    /\ helpers' = [helpers EXCEPT ![c] = @ \cap {"escaped"}]

-----------------------------------------------------------------------------
(* The command's own doing.                                                *)

StartHelper(c, kind) ==
    /\ root[c] = "alive"
    /\ kind \notin started[c]
    /\ helpers' = [helpers EXCEPT ![c] = @ \cup {kind}]
    /\ started' = [started EXCEPT ![c] = @ \cup {kind}]
    /\ UNCHANGED <<call, spawn, root, reason>>

HelperExits(c, kind) ==
    /\ kind \in helpers[c]
    /\ helpers' = [helpers EXCEPT ![c] = @ \ {kind}]
    /\ UNCHANGED <<call, spawn, root, started, reason>>

RootExits(c) ==
    /\ root[c] = "alive"
    /\ root' = [root EXCEPT ![c] = "dead"]
    /\ UNCHANGED <<call, spawn, helpers, started, reason>>

\* The command is gone and nobody holds its output.
Silent(c) == root[c] = "dead" /\ helpers[c] \subseteq {"quiet"}

-----------------------------------------------------------------------------
(* _spawn_owned                                                            *)

Spawn(c) ==
    /\ Goes(c, "new", "spawning")
    /\ spawn' = [spawn EXCEPT ![c] = "pending"]
    /\ UNCHANGED <<root, helpers, started, reason>>

\* The process exists before the shielded task that starts it is done.
Execs(c) ==
    /\ spawn[c] = "pending"
    /\ root[c] = "none"
    /\ root' = [root EXCEPT ![c] = "alive"]
    /\ UNCHANGED <<call, spawn, helpers, started, reason>>

Spawned(c) ==
    /\ spawn[c] = "pending"
    /\ root[c] # "none"
    /\ spawn' = [spawn EXCEPT ![c] = "done"]
    /\ UNCHANGED <<call, root, helpers, started, reason>>

\* An OSError or ValueError, told as a failure or as the cancellation before it.
SpawnFails(c) ==
    /\ spawn[c] = "pending"
    /\ root[c] = "none"
    /\ \/ Goes(c, "spawning", "failed")
       \/ Goes(c, "waiting", "cancelled")
    /\ spawn' = [spawn EXCEPT ![c] = "none"]
    /\ UNCHANGED <<root, helpers, started, reason>>

CancelSpawnAtOnce(c) ==
    /\ Goes(c, "spawning", "cancelled")
    /\ UNCHANGED <<spawn, root, helpers, started, reason>>

\* A cancelled call still waits for the process it has to kill; further
\* cancellations are ignored.
CancelSpawn(c) ==
    /\ Goes(c, "spawning", "waiting")
    /\ UNCHANGED <<spawn, root, helpers, started, reason>>

\* It waits for so long only; the event loop kills the process, not its group.
AbandonSpawn(c) ==
    /\ spawn[c] = "pending"
    /\ Goes(c, "waiting", "cancelled")
    /\ spawn' = [spawn EXCEPT ![c] = "none"]
    /\ root' = [root EXCEPT ![c] = "dead"]
    /\ UNCHANGED <<helpers, started, reason>>

Accept(c) ==
    /\ spawn[c] = "done"
    /\ Goes(c, "spawning", "running")
    /\ UNCHANGED <<spawn, root, helpers, started, reason>>

-----------------------------------------------------------------------------
(* run_bounded_process, _cleanup_owned                                     *)

Complete(c) ==
    /\ Silent(c)
    /\ Goes(c, "running", "completed")
    /\ UNCHANGED <<spawn, root, helpers, started, reason>>

CleansUp(c, from, why) ==
    /\ Goes(c, from, "cleaning")
    /\ reason' = [reason EXCEPT ![c] = why]
    /\ TerminateTree(c)
    /\ UNCHANGED <<spawn, started>>

\* _cleanup_unaccepted
Unaccepted(c) == spawn[c] = "done" /\ CleansUp(c, "waiting", "cancelled")
Timeout(c) == CleansUp(c, "running", "timed out")
CaptureFails(c) == CleansUp(c, "running", "failed")
Cancel(c) == CleansUp(c, "running", "cancelled")

\* The output is read to its end.
Cleaned(c) ==
    /\ call[c] \in Cleaning
    /\ Silent(c)
    /\ call' = [call EXCEPT ![c] = reason[c]]
    /\ UNCHANGED <<spawn, root, helpers, started, reason>>

\* A cancellation starts the wait once more, and is not raised again.
CancelCleanup(c) ==
    /\ Goes(c, "cleaning", "cleaning still")
    /\ UNCHANGED <<spawn, root, helpers, started, reason>>

\* Too long, or cancelled again: what there is of the output has to do.
GiveUp(c) ==
    /\ call[c] \in Cleaning
    /\ call' = [call EXCEPT ![c] = reason[c]]
    /\ TerminateTree(c)
    /\ UNCHANGED <<spawn, started, reason>>

Next ==
    \E c \in Calls :
        \/ \E kind \in Kinds : StartHelper(c, kind) \/ HelperExits(c, kind)
        \/ RootExits(c)
        \/ Spawn(c)
        \/ Execs(c)
        \/ Spawned(c)
        \/ SpawnFails(c)
        \/ CancelSpawn(c)
        \/ AbandonSpawn(c)
        \/ Accept(c)
        \/ Complete(c)
        \/ Unaccepted(c)
        \/ Timeout(c)
        \/ CaptureFails(c)
        \/ Cancel(c)
        \/ Cleaned(c)
        \/ CancelCleanup(c)
        \/ GiveUp(c)

Spec == Init /\ [][Next]_vars

-----------------------------------------------------------------------------
\* A call that is over has left no command running, and one that was cut short has
\* left nothing of the command's group, although it may be cancelled while the
\* command is being started or killed (run_bounded_process, _spawn_owned).
NothingRunsOn ==
    \A c \in Calls :
        /\ call[c] \in Endings => root[c] # "alive" /\ spawn[c] # "pending"
        /\ (call[c] \in Endings /\ reason[c] # "none") =>
              helpers[c] \subseteq {"escaped"}
=============================================================================
