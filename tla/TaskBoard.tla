----------------------------- MODULE TaskBoard -----------------------------
(***************************************************************************)
(* The durable task board of one project: TaskManager over TaskStore       *)
(* (src/litecoder/tasks/{manager,store,models,planning}.py).               *)
(*                                                                         *)
(* Every operation runs under the project's task lock (an asyncio lock and *)
(* a file lock, so one caller in any process at a time) and never awaits   *)
(* while it holds it.  An operation that rewrites ONE record moves one     *)
(* temporary file into place: it happens or it does not, whatever crashes, *)
(* and is one action.  recover_interrupted rewrites ALL records, file by   *)
(* file, and can be cut short between two of them.                         *)
(*                                                                         *)
(* Operations that raise leave the board as it was and are not steps.      *)
(***************************************************************************)
EXTENDS FiniteSets

CONSTANTS
    Tasks,       \* task ids (as the store compares them: ignoring case)
    Agents,      \* agent ids
    Worktrees,   \* worktree binding ids
    None         \* no owner, no worktree

ASSUME NoneAssumption == None \notin Agents \cup Worktrees

VARIABLES
    board,   \* the record in each task's file, or Absent
    staged   \* by task: the temporary files replace_many has yet to move

vars == <<board, staged>>

Statuses ==
    {"pending", "in_progress", "interrupted", "completed", "failed", "cancelled"}

TaskRecords ==
    [status : Statuses \cup {"absent"}, owner : Agents \cup {None},
     worktree : Worktrees \cup {None}, dependencies : SUBSET Tasks]

Absent ==
    [status |-> "absent", owner |-> None, worktree |-> None, dependencies |-> {}]

TypeOK ==
    /\ board \in [Tasks -> TaskRecords]
    /\ \E files \in SUBSET Tasks : staged \in [files -> TaskRecords]

Init ==
    /\ board = [t \in Tasks |-> Absent]
    /\ staged = [t \in {} |-> Absent]

-----------------------------------------------------------------------------
(* What the operations look at.                                            *)

\* The table _ALLOWED_TRANSITIONS; recover_interrupted does not consult it.
Transitions ==
    {"pending"} \X {"in_progress", "cancelled"}
    \cup {"in_progress"} \X {"completed", "failed", "cancelled", "interrupted"}
    \cup {"interrupted"} \X {"pending", "in_progress", "cancelled"}
    \cup {"failed"} \X {"pending", "cancelled"}
    \cup {"cancelled"} \X {"pending"}

Allows(t, target) == <<board[t].status, target>> \in Transitions

Exists(t) == board[t].status # "absent"

\* TaskManager._locked: nobody is inside another operation.
UnlockedAlways == TRUE
Unlocked == DOMAIN staged = {}

BlockedByUnsettled(t) ==
    \E d \in board[t].dependencies : board[d].status \in {"pending", "in_progress"}
Blocked(t) ==
    \E d \in board[t].dependencies : board[d].status # "completed"

\* TaskStore.write
Write(t, record) ==
    /\ board' = [board EXCEPT ![t] = record]
    /\ UNCHANGED staged

-----------------------------------------------------------------------------
(* TaskManager's operations.                                               *)

\* PlanningView.ordered_tasks accepts a new record with these dependencies: all
\* of them are tasks the store holds.  The record itself is not one yet, and no
\* other depends on it, so no cycle is closed.
Plannable(dependencies) == \A d \in dependencies : Exists(d)

CreateUnplanned(t, dependencies, owner, worktree) ==
    /\ Unlocked
    /\ ~Exists(t)
    /\ Write(t, [status |-> "pending", owner |-> owner, worktree |-> worktree,
                 dependencies |-> dependencies \ {t}])

Create(t, dependencies, owner, worktree) ==
    /\ Unlocked
    /\ ~Exists(t)
    /\ Plannable(dependencies)
    /\ Write(t, [status |-> "pending", owner |-> owner, worktree |-> worktree,
                 dependencies |-> dependencies])

BindWorktree(t, w) ==
    /\ Unlocked
    /\ Exists(t)
    /\ board[t].worktree \in {None, w}
    /\ Write(t, [board[t] EXCEPT !.worktree = w])

UnbindWorktree(t, w) ==
    /\ Unlocked
    /\ Exists(t)
    /\ board[t].worktree = w
    /\ Write(t, [board[t] EXCEPT !.worktree = None])

\* Called again by the agent already at work it returns the record unchanged.
AssignAndStart(t, a) ==
    /\ Unlocked
    /\ board[t].status = "pending"
    /\ board[t].owner = None
    /\ ~Blocked(t)
    /\ Write(t, [board[t] EXCEPT !.owner = a, !.status = "in_progress"])

StartByAnybody(t, a) ==
    /\ Unlocked
    /\ Exists(t)
    /\ ~Blocked(t)
    /\ Allows(t, "in_progress")
    /\ Write(t, [board[t] EXCEPT !.status = "in_progress"])

Start(t, a) ==
    /\ Unlocked
    /\ Exists(t)
    /\ board[t].owner = a
    /\ ~Blocked(t)
    /\ Allows(t, "in_progress")
    /\ Write(t, [board[t] EXCEPT !.status = "in_progress"])

Resume(t, a) == Start(t, a)

OwnedTransition(t, a, target) ==
    /\ Unlocked
    /\ Exists(t)
    /\ board[t].owner = a
    /\ Allows(t, target)
    /\ Write(t, [board[t] EXCEPT !.status = target])

Complete(t, a) == OwnedTransition(t, a, "completed")

Fail(t, a) == OwnedTransition(t, a, "failed")

\* a = None: the caller gave no agent id, and may only cancel unowned work.
Cancel(t, a) ==
    /\ Unlocked
    /\ Exists(t)
    /\ board[t].owner \in {None, a}
    /\ Allows(t, "cancelled")
    /\ Write(t, [board[t] EXCEPT !.status = "cancelled"])

ResetToBlank(t) ==
    /\ Unlocked
    /\ Exists(t)
    /\ Allows(t, "pending")
    /\ Write(t, [board[t] EXCEPT !.status = "pending", !.owner = "",
                                 !.worktree = None])

ResetAnyStatus(t) ==
    /\ Unlocked
    /\ Exists(t)
    /\ Write(t, [board[t] EXCEPT !.status = "pending", !.owner = None,
                                 !.worktree = None])

Reset(t) ==
    /\ Unlocked
    /\ Exists(t)
    /\ Allows(t, "pending")
    /\ Write(t, [board[t] EXCEPT !.status = "pending", !.owner = None,
                                 !.worktree = None])

ReassignRunning(t, a) ==
    /\ Unlocked
    /\ Exists(t)
    /\ board[t].status \notin {"completed", "cancelled"}
    /\ Write(t, [board[t] EXCEPT !.owner = a])

Reassign(t, a) ==
    /\ Unlocked
    /\ Exists(t)
    /\ board[t].status \notin {"in_progress", "completed", "cancelled"}
    /\ Write(t, [board[t] EXCEPT !.owner = a])

-----------------------------------------------------------------------------
(* Startup recovery: every record read, the running ones marked, and all   *)
(* of them written back.                                                   *)

Recovered(record) ==
    IF record.status = "in_progress"
    THEN [record EXCEPT !.status = "interrupted"]
    ELSE record

RecoverInterrupted ==
    /\ Unlocked
    /\ \E t \in Tasks : board[t].status = "in_progress"
    /\ staged' = [t \in {u \in Tasks : Exists(u)} |-> Recovered(board[t])]
    /\ UNCHANGED board

Unstaged(t) == [u \in DOMAIN staged \ {t} |-> staged[u]]

\* os.replace of one staged file; the store's order is by file name, which
\* no other operation can observe.
ReplaceFile(t) ==
    /\ t \in DOMAIN staged
    /\ board' = [board EXCEPT ![t] = staged[t]]
    /\ staged' = Unstaged(t)

\* An OSError, or a crash of the process, half way through: what was moved
\* stays, what was not is dropped, and the lock is free again.
AbandonRecovery ==
    /\ DOMAIN staged # {}
    /\ staged' = [t \in {} |-> Absent]
    /\ UNCHANGED board

-----------------------------------------------------------------------------
Next ==
    \/ \E t \in Tasks :
        \/ \E D \in SUBSET Tasks, a \in Agents \cup {None},
              w \in Worktrees \cup {None} : Create(t, D, a, w)
        \/ \E w \in Worktrees : BindWorktree(t, w) \/ UnbindWorktree(t, w)
        \/ \E a \in Agents :
            \/ AssignAndStart(t, a)
            \/ Start(t, a)
            \/ Resume(t, a)
            \/ Complete(t, a)
            \/ Fail(t, a)
            \/ Reassign(t, a)
        \/ \E a \in Agents \cup {None} : Cancel(t, a)
        \/ Reset(t)
        \/ ReplaceFile(t)
    \/ RecoverInterrupted
    \/ AbandonRecovery

Spec == Init /\ [][Next]_vars

-----------------------------------------------------------------------------
(* Safety.                                                                 *)

Begun == {"in_progress", "interrupted", "completed", "failed"}

\* No agent ever works, or has worked, on a task whose dependencies are not
\* all completed: assign_and_start, start and resume check them once, and
\* nothing that happens to a dependency afterwards can undo the answer.
BegunOnCompletedWork ==
    \A t \in Tasks : board[t].status \in Begun =>
        \A d \in board[t].dependencies : board[d].status = "completed"

\* Work that was begun keeps an owner until it is reset, so that somebody may
\* complete, fail, cancel or resume it.
BegunWorkIsOwned ==
    \A t \in Tasks : board[t].status \in Begun => board[t].owner # None

\* The dependency graph never closes a cycle: among any tasks on the board one
\* depends on none of the others.  Were it otherwise those tasks would wait
\* for each other for ever.  create orders the whole graph before it writes.
NoCircularWait ==
    \A S \in SUBSET {t \in Tasks : Exists(t)} : S # {} =>
        \E t \in S : board[t].dependencies \cap S = {}

\* Recovery loses no update: what it is about to write is what the file holds,
\* with running work marked as interrupted.  It rewrites records it read
\* earlier, so a transition that slipped in between would be undone.
RecoveryIsCurrent ==
    \A t \in DOMAIN staged : staged[t] = Recovered(board[t])

\* A completed task never changes status, whatever is called on it or crashes;
\* BegunOnCompletedWork depends on it.
CompletedIsFinal ==
    [][\A t \in Tasks : board[t].status = "completed"
                            => board'[t].status = "completed"]_vars

\* Running work does not change hands: to give it to another agent it has to
\* stop first (no two agents believe they own it).
RunningWorkKeepsItsOwner ==
    [][\A t \in Tasks :
        (board[t].status = "in_progress" /\ board'[t].status = "in_progress")
            => board'[t].owner = board[t].owner]_vars

\* The board keeps the promise of Claims: one holder at a time, only over
\* completed requirements, finished once and for ever.
Promise == INSTANCE Claims WITH
    known <- {t \in Tasks : Exists(t)},
    requires <- [t \in Tasks |-> board[t].dependencies],
    holder <- [t \in Tasks |-> IF board[t].status = "in_progress"
                               THEN board[t].owner ELSE None],
    done <- {t \in Tasks : board[t].status = "completed"}

ImplementsClaims == Promise!Spec
=============================================================================
