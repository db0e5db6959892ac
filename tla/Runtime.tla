------------------------------ MODULE Runtime ------------------------------
(***************************************************************************)
(* AgentRuntime (src/litecoder/agent/runtime.py) in several processes over *)
(* one project: startup recovery, the turns of root sessions under their   *)
(* session-tree locks, and the child agents that SubagentManager           *)
(* (src/litecoder/tasks/subagents.py) spawns in those turns.               *)
(*                                                                         *)
(* A tree lock is taken while the startup lock is held, and recovery holds *)
(* the startup lock throughout.  A child takes no lock: it runs on the     *)
(* lease of the turn that spawned it, which is revoked after the turn's    *)
(* tree lock is given back.  A foreground child is awaited by its turn; a  *)
(* detached one (a teammate, or a spawn in a background job) is not.       *)
(***************************************************************************)
EXTENDS Naturals, FiniteSets

CONSTANTS
    Processes,
    Roots,        \* root sessions
    Children,     \* child agents: each with a session and a delegated task
    MaxCrashes    \* bound: crashes explored

VARIABLES
    place,        \* by process: what it does with the project
    turnRoot,     \* by process: the root of its turn, if any
    startup,      \* the owner of the startup lock, if any
    tree,         \* by root: the owner of its session-tree lock, if any
    status,       \* by session: SessionRecord.status in the store
    listed,       \* by process: the ACTIVE sessions its recovery has listed
    toProbe,      \* by process: roots whose lock it has yet to try
    lockedRoots,  \* by process: roots it found locked
    child,        \* by child: where its spawn is
    detached,     \* the children no turn waits for
    host,         \* by child: its process
    parent,       \* by child: its root
    lease,        \* by child: the lease of the turn that spawns it
    delegated,    \* by child: the status of its task
    crashes

processVars == <<place, turnRoot>>
recoveryVars == <<listed, toProbe, lockedRoots>>
childVars == <<child, detached, host, parent, lease>>
vars == <<processVars, startup, tree, status, recoveryVars, childVars, delegated, crashes>>

Sessions == Roots \cup Children

\* A status is "over" when the turn wrote it: COMPLETED, FAILED, CANCELLED or
\* its own INCOMPLETE; recovery writes "recovered".
Statuses == {"none", "idle", "active", "over", "recovered"}
Owning == {"owning", "activated", "turn", "finishing", "leaving"}
Spawning == {"creating", "created", "assigned"}
InTurn == {"activated", "running"}

TypeOK ==
    /\ place \in [Processes -> {"down", "probing", "tasks", "idle", "ending"} \cup Owning]
    /\ turnRoot \in [Processes -> SUBSET Roots]
    /\ startup \subseteq Processes
    /\ tree \in [Roots -> SUBSET Processes]
    /\ status \in [Sessions -> Statuses]
    /\ listed \in [Processes -> SUBSET Sessions]
    /\ toProbe \in [Processes -> SUBSET Roots]
    /\ lockedRoots \in [Processes -> SUBSET Roots]
    /\ child \in [Children -> {"none", "unwinding", "over"} \cup Spawning \cup InTurn]
    /\ detached \subseteq Children
    /\ host \in [Children -> SUBSET Processes]
    /\ parent \in [Children -> SUBSET Roots]
    /\ lease \in [Children -> {"none", "offered", "expired", "held", "revoked", "unleased"}]
    /\ delegated \in [Children ->
          {"pending", "in_progress", "completed", "failed", "interrupted"}]
    /\ crashes \in Nat

Init ==
    /\ place = [p \in Processes |-> "down"]
    /\ turnRoot = [p \in Processes |-> {}]
    /\ startup = {}
    /\ tree = [r \in Roots |-> {}]
    /\ status = [s \in Sessions |-> "none"]
    /\ listed = [p \in Processes |-> {}]
    /\ toProbe = [p \in Processes |-> {}]
    /\ lockedRoots = [p \in Processes |-> {}]
    /\ child = [c \in Children |-> "none"]
    /\ detached = {}
    /\ host = [c \in Children |-> {}]
    /\ parent = [c \in Children |-> {}]
    /\ lease = [c \in Children |-> "none"]
    /\ delegated = [c \in Children |-> "pending"]
    /\ crashes = 0

RootsOf(s) == IF s \in Roots THEN {s} ELSE parent[s]

Goes(p, from, to) ==
    /\ place[p] = from
    /\ place' = [place EXCEPT ![p] = to]

-----------------------------------------------------------------------------
(* start, _recover_startup_state                                           *)

\* The startup lock is taken and the project's sessions are listed.
Start(p) ==
    /\ Goes(p, "down", "probing")
    /\ startup = {}
    /\ startup' = {p}
    /\ listed' = [listed EXCEPT ![p] = {s \in Sessions : status[s] = "active"}]
    /\ toProbe' = [toProbe EXCEPT ![p] = {r \in Roots : status[r] # "none"}]
    /\ UNCHANGED <<turnRoot, tree, status, lockedRoots, childVars, delegated, crashes>>

\* Every root's lock is tried, and kept when it was free.
Probe(p, r) ==
    /\ place[p] = "probing"
    /\ r \in toProbe[p]
    /\ toProbe' = [toProbe EXCEPT ![p] = @ \ {r}]
    /\ IF tree[r] = {}
       THEN tree' = [tree EXCEPT ![r] = {p}] /\ UNCHANGED lockedRoots
       ELSE lockedRoots' = [lockedRoots EXCEPT ![p] = @ \cup {r}] /\ UNCHANGED tree
    /\ UNCHANGED <<processVars, startup, status, listed, childVars, delegated, crashes>>

\* recover_active_sessions: those listed under an unlocked root that still are
\* ACTIVE; then the probed locks are given back.
Recovered(p, targets) ==
    /\ status' = [s \in Sessions |-> IF s \in targets /\ status[s] = "active"
                                     THEN "recovered" ELSE status[s]]
    /\ tree' = [r \in Roots |-> tree[r] \ {p}]
    /\ UNCHANGED <<turnRoot, startup, recoveryVars, childVars, delegated, crashes>>

RecoverAllSessions(p) ==
    /\ Goes(p, "probing", "tasks")
    /\ toProbe[p] = {}
    /\ Recovered(p, listed[p])

RecoverSessions(p) ==
    /\ Goes(p, "probing", "tasks")
    /\ toProbe[p] = {}
    /\ Recovered(p, {s \in listed[p] : RootsOf(s) \cap lockedRoots[p] = {}})

Forgets(p) ==
    /\ listed' = [listed EXCEPT ![p] = {}]
    /\ toProbe' = [toProbe EXCEPT ![p] = {}]
    /\ lockedRoots' = [lockedRoots EXCEPT ![p] = {}]

\* recover_interrupted, unless a live root was found; the startup lock goes back.
RecoverTasks(p) ==
    /\ Goes(p, "tasks", "idle")
    /\ delegated' = [c \in Children |->
          IF delegated[c] = "in_progress" /\ lockedRoots[p] = {}
          THEN "interrupted" ELSE delegated[c]]
    /\ startup' = {}
    /\ Forgets(p)
    /\ UNCHANGED <<turnRoot, tree, status, childVars, crashes>>

-----------------------------------------------------------------------------
(* run, resume: the turn of a root session.                                *)

rest == <<recoveryVars, detached, host, parent, delegated, crashes>>

CreateSession(p, r) ==
    /\ place[p] = "idle"
    /\ status[r] = "none"
    /\ status' = [status EXCEPT ![r] = "idle"]
    /\ UNCHANGED <<place, turnRoot, startup, tree, child, lease, rest>>

\* The tree lock, under the startup lock.  One that is taken is refused at once,
\* and nothing is marked.
TakeTree(p, r) ==
    /\ Goes(p, "idle", "owning")
    /\ status[r] # "none"
    /\ startup = {}
    /\ tree[r] = {}
    /\ tree' = [tree EXCEPT ![r] = {p}]
    /\ turnRoot' = [turnRoot EXCEPT ![p] = {r}]
    /\ UNCHANGED <<startup, status, child, lease, rest>>

\* Any other error before the lock is owned: the session is marked FAILED, whoever
\* is running it.
FailsUnowned(p, r) ==
    /\ place[p] = "idle"
    /\ status[r] # "none"
    /\ status' = [status EXCEPT ![r] = "over"]
    /\ UNCHANGED <<place, turnRoot, startup, tree, child, lease, rest>>

\* What the owner of a tree writes about its session; the store may fail.
Marks(p, mark) ==
    /\ status' \in {[s \in Sessions |-> IF s \in turnRoot[p] THEN mark ELSE status[s]],
                    status}
    /\ UNCHANGED <<turnRoot, startup, tree, child, lease, rest>>

Activate(p) ==
    /\ Goes(p, "owning", "activated")
    /\ status' = [s \in Sessions |-> IF s \in turnRoot[p] THEN "active" ELSE status[s]]
    /\ UNCHANGED <<turnRoot, startup, tree, child, lease, rest>>

\* The store fails or the call is cancelled, or _begin_turn finds the runtime closing.
NotBegun(p) ==
    /\ \/ Goes(p, "owning", "leaving")
       \/ Goes(p, "activated", "leaving")
    /\ Marks(p, "over")

\* _begin_turn: a new lease.
BeginTurn(p) ==
    /\ Goes(p, "activated", "turn")
    /\ UNCHANGED <<turnRoot, startup, tree, status, child, lease, rest>>

\* run_turn is over, however it ended, and with it the children it awaited.
TurnEndsEarly(p) ==
    /\ Goes(p, "turn", "finishing")
    /\ Marks(p, "over")

TurnEnds(p) ==
    /\ Goes(p, "turn", "finishing")
    /\ \A c \in Children \ detached :
          host[c] = {p} => child[c] \in {"none", "over"}
    /\ Marks(p, "over")

\* The tree lock is given back ...
ReleaseTree(p) ==
    /\ \/ Goes(p, "finishing", "ending") /\ UNCHANGED turnRoot
       \/ /\ Goes(p, "leaving", "idle")
          /\ turnRoot' = [turnRoot EXCEPT ![p] = {}]
    /\ tree' = [r \in Roots |-> tree[r] \ {p}]
    /\ UNCHANGED <<startup, status, child, lease, rest>>

\* ... before _end_turn stops the team, which may be cut short, and revokes the
\* lease.
EndTurn(p) ==
    /\ Goes(p, "ending", "idle")
    /\ turnRoot' = [turnRoot EXCEPT ![p] = {}]
    /\ lease' = [c \in Children |->
          IF host[c] # {p} THEN lease[c]
          ELSE CASE lease[c] = "offered" -> "expired"
                 [] lease[c] = "held"    -> "revoked"
                 [] OTHER                -> lease[c]]
    /\ UNCHANGED <<startup, tree, status, child, rest>>

\* The process ends at any point, or exits: the system takes its locks back.
Crash(p) ==
    /\ place[p] # "down"
    /\ crashes < MaxCrashes
    /\ crashes' = crashes + 1
    /\ place' = [place EXCEPT ![p] = "down"]
    /\ turnRoot' = [turnRoot EXCEPT ![p] = {}]
    /\ startup' = startup \ {p}
    /\ tree' = [r \in Roots |-> tree[r] \ {p}]
    /\ child' = [c \in Children |-> IF host[c] = {p} THEN "over" ELSE child[c]]
    /\ Forgets(p)
    /\ UNCHANGED <<status, detached, host, parent, lease, delegated>>

-----------------------------------------------------------------------------
(* SubagentManager.spawn, and the child's run.                             *)

childRest == <<processVars, startup, tree, recoveryVars, detached, host, parent, crashes>>

At(c, from, to) ==
    /\ child[c] = from
    /\ child' = [child EXCEPT ![c] = to]

\* The call begins in a turn, and has its context ever after.
Spawn(p, c) ==
    /\ At(c, "none", "creating")
    /\ place[p] = "turn"
    /\ detached' \in {detached, detached \cup {c}}
    /\ host' = [host EXCEPT ![c] = {p}]
    /\ parent' = [parent EXCEPT ![c] = turnRoot[p]]
    /\ lease' = [lease EXCEPT ![c] = "offered"]
    /\ UNCHANGED <<processVars, startup, tree, status, recoveryVars, delegated, crashes>>

\* create_child, after the hooks: active_root_turn_lease knows no revoked lease, and
\* a runtime without one owes nothing to a root.
Create(c) ==
    /\ At(c, "creating", "created")
    /\ lease' = [lease EXCEPT ![c] = IF @ = "offered" THEN "held" ELSE "unleased"]
    /\ UNCHANGED <<childRest, status, delegated>>

Assign(c) ==
    /\ At(c, "created", "assigned")
    /\ delegated[c] = "pending"
    /\ delegated' = [delegated EXCEPT ![c] = "in_progress"]
    /\ UNCHANGED <<childRest, status, lease>>

\* Denied, or cancelled: in assign_and_start the task may be left in progress.
SpawnFails(c) ==
    /\ \/ At(c, "creating", "over") /\ UNCHANGED delegated
       \/ /\ At(c, "created", "over")
          /\ delegated' \in {delegated,
                [delegated EXCEPT ![c] = IF @ = "pending" THEN "in_progress" ELSE @]}
    /\ UNCHANGED <<childRest, status, lease>>

Leased(c) == lease[c] \in {"held", "unleased"}

\* create_session, _session_tree_lock, mark_status.
ActivateChild(c) ==
    /\ At(c, "assigned", "activated")
    /\ Leased(c)
    /\ status' = [status EXCEPT ![c] = "active"]
    /\ UNCHANGED <<childRest, lease, delegated>>

\* The lease is looked at again as the child's turn begins.
BeginChild(c) ==
    /\ At(c, "activated", "running")
    /\ Leased(c)
    /\ UNCHANGED <<childRest, status, lease, delegated>>

\* The lease does not match, the store fails, or the spawn is cancelled.
ChildRefused(c) ==
    /\ \/ At(c, "assigned", "unwinding")
       \/ At(c, "activated", "unwinding")
    /\ status' \in {status, [status EXCEPT ![c] = "over"]}
    /\ UNCHANGED <<childRest, lease, delegated>>

\* task_complete in the child's turn.
Completes(c) ==
    /\ child[c] = "running"
    /\ delegated[c] = "in_progress"
    /\ delegated' = [delegated EXCEPT ![c] = "completed"]
    /\ UNCHANGED <<childRest, child, status, lease>>

ChildEnds(c) ==
    /\ At(c, "running", "unwinding")
    /\ status' \in {status, [status EXCEPT ![c] = "over"]}
    /\ UNCHANGED <<childRest, lease, delegated>>

\* _fail_unfinished_delegated_task, whose errors are swallowed.
ChildOver(c) ==
    /\ At(c, "unwinding", "over")
    /\ delegated' \in {delegated,
          [delegated EXCEPT ![c] = IF @ = "in_progress" THEN "failed" ELSE @]}
    /\ UNCHANGED <<childRest, status, lease>>

-----------------------------------------------------------------------------
Next ==
    \/ \E p \in Processes :
          \/ Start(p)
          \/ RecoverSessions(p)
          \/ RecoverTasks(p)
          \/ Activate(p)
          \/ NotBegun(p)
          \/ BeginTurn(p)
          \/ TurnEnds(p)
          \/ ReleaseTree(p)
          \/ EndTurn(p)
          \/ Crash(p)
          \/ \E r \in Roots :
                \/ Probe(p, r)
                \/ CreateSession(p, r)
                \/ TakeTree(p, r)
                \/ FailsUnowned(p, r)
          \/ \E c \in Children : Spawn(p, c)
    \/ \E c \in Children :
          \/ Create(c)
          \/ Assign(c)
          \/ SpawnFails(c)
          \/ ActivateChild(c)
          \/ BeginChild(c)
          \/ ChildRefused(c)
          \/ Completes(c)
          \/ ChildEnds(c)
          \/ ChildOver(c)

Spec == Init /\ [][Next]_vars

-----------------------------------------------------------------------------
(* What the runtimes promise.                                              *)

\* The session's turn goes on in a process that owns the session's tree.
LiveUnderTree(s) ==
    \E p \in Processes :
        /\ s \in Roots => turnRoot[p] = {s} /\ place[p] \in {"activated", "turn"}
        /\ s \in Children => host[s] = {p} /\ child[s] \in InTurn
        /\ \E r \in RootsOf(s) : tree[r] = {p}

\* The recovery of a process that starts leaves the turns of the others alone: no
\* session whose turn goes on under its tree lock is taken for interrupted, nor is
\* the task of such a child (_recover_startup_state).
LiveTurnsAreNotRecovered ==
    [][\A s \in Sessions : LiveUnderTree(s) /\ LiveUnderTree(s)' =>
          /\ status'[s] = "recovered" => status[s] = "recovered"
          /\ s \in Children =>
                (delegated'[s] = "interrupted" => delegated[s] = "interrupted")]_vars

\* A tree is worked on by one process at a time: its turn, the recovery that probes
\* it, and the children that a turn awaits (resume, spawn).
OneProcessPerTree ==
    \A r \in Roots :
        LET working ==
                {p \in Processes : turnRoot[p] = {r} /\ place[p] \in Owning}
                \cup {p \in Processes : \E c \in Children \ detached :
                        /\ host[c] = {p}
                        /\ parent[c] = {r}
                        /\ child[c] \notin {"none", "over"}}
        IN  \A p \in working : tree[r] = {p}
=============================================================================
