------------------------------ MODULE Worktrees ------------------------------
(***************************************************************************)
(* The worktree tools (src/litecoder/tools/builtin/worktree.py) over the   *)
(* manager of the task-bound Git worktrees (tasks/worktrees.py).  Git is   *)
(* the truth: a binding's id is made of the worktree's nonce and its head, *)
(* so every commit makes the id a task remembers stale.  Each tool         *)
(* first repairs the tasks' side (_reconcile_task_bindings), reading Git   *)
(* and the board one after the other, under different locks.               *)
(***************************************************************************)
EXTENDS Naturals

CONSTANTS
    Tasks,
    Calls,          \* tool calls, in the processes of the project
    MaxChanges      \* bound: worktrees and commits made

VARIABLES
    git,        \* by task: the binding of its worktree in Git, if any
    bound,      \* by task: its worktree_id
    at,         \* by call: where it is
    tool,       \* by call: what it does
    task,       \* by call: the task it is about
    wanted,     \* by call: the binding it removes, or has created
    seen,       \* by call: the bindings its reconciliation read
    repair,     \* by call: by task, what it is to unbind, and then to bind
    disturbed,  \* the calls during which anything else happened
    changes

vars ==
    <<git, bound, at, tool, task, wanted, seen, repair, disturbed, changes>>

\* A binding, of a task, is the nonce of its worktree, which no other has unless
\* it could not be written, and its head, at first that of the project.
NoBinding == [nonce |-> 0, head |-> 0]
ProjectHead == 1
Bindings == [nonce : 0 .. MaxChanges, head : 0 .. MaxChanges + 1]
Tools == {"create", "list", "remove"}
Steps ==
    {"listing", "reconciling", "reading", "unbinding", "binding", "checking",
     "creating", "created", "removing", "removed"}
Ends == {"idle", "done", "refused"}

TypeOK ==
    /\ git \in [Tasks -> Bindings]
    /\ bound \in [Tasks -> Bindings]
    /\ at \in [Calls -> Steps \cup Ends]
    /\ tool \in [Calls -> Tools]
    /\ task \in [Calls -> Tasks]
    /\ wanted \in [Calls -> Bindings]
    /\ seen \in [Calls -> [Tasks -> Bindings]]
    /\ repair \in [Calls -> [Tasks -> Bindings]]
    /\ disturbed \subseteq Calls
    /\ changes \in 0 .. MaxChanges

Nothing == [t \in Tasks |-> NoBinding]

Init ==
    /\ git = Nothing
    /\ bound = Nothing
    /\ at = [c \in Calls |-> "idle"]
    /\ tool = [c \in Calls |-> "list"]
    /\ task \in [Calls -> Tasks]
    /\ wanted = [c \in Calls |-> NoBinding]
    /\ seen = [c \in Calls |-> Nothing]
    /\ repair = [c \in Calls |-> Nothing]
    /\ disturbed = {}
    /\ changes = 0

UnderWay == {c \in Calls : at[c] \in Steps}
callVars == <<tool, task, wanted, seen, repair>>

Goes(c, from, to) ==
    /\ at[c] = from
    /\ at' = [at EXCEPT ![c] = to]
    /\ disturbed' = IF to \in Ends THEN disturbed \ {c} ELSE disturbed

\* What the call knew is gone with it.
Over(c, from, to) ==
    /\ Goes(c, from, to)
    /\ tool' = [tool EXCEPT ![c] = "list"]
    /\ wanted' = [wanted EXCEPT ![c] = NoBinding]
    /\ seen' = [seen EXCEPT ![c] = Nothing]
    /\ repair' = [repair EXCEPT ![c] = Nothing]
    /\ UNCHANGED task

-----------------------------------------------------------------------------
(* A call, up to the end of the reconciliation.                            *)

\* A tool that writes has the workspace to itself; one that lists shares it, and
\* calls of other processes that list it do not wait.
Start(c) ==
    /\ at[c] \in Ends
    /\ \E what \in Tools :
          /\ what # "list" => \A d \in UnderWay : tool[d] = "list"
          /\ tool' = [tool EXCEPT ![c] = what]
          /\ at' = [at EXCEPT ![c] = IF what = "create" THEN "reconciling"
                                     ELSE "listing"]
    /\ disturbed' = IF UnderWay = {} THEN {} ELSE UnderWay \cup {c}
    /\ UNCHANGED <<git, bound, task, wanted, seen, repair, changes>>

\* list: for what it answers, or to look the binding up.
List(c) ==
    /\ Goes(c, "listing", "reconciling")
    /\ wanted' = IF tool[c] = "remove" THEN [wanted EXCEPT ![c] = git[task[c]]]
                 ELSE wanted
    /\ UNCHANGED <<git, bound, tool, task, seen, repair, changes>>

Reconcile(c) ==
    /\ Goes(c, "reconciling", "reading")
    /\ seen' = [seen EXCEPT ![c] = git]
    /\ UNCHANGED <<git, bound, tool, task, wanted, repair, changes>>

\* An id is made of the task and its branch too: no other task's is the same.
InGit(bindings, t, id) == bindings[t] = id

ReadTasksOnly(c) ==
    /\ Goes(c, "reading", "unbinding")
    /\ repair' = [repair EXCEPT ![c] = Nothing]
    /\ UNCHANGED <<git, bound, tool, task, wanted, seen, changes>>

\* The tasks whose worktree_id was not in Git when it was read.
ReadTasks(c) ==
    /\ Goes(c, "reading", "unbinding")
    /\ repair' = [repair EXCEPT ![c] =
                    [t \in Tasks |-> IF InGit(seen[c], t, bound[t]) THEN NoBinding
                                     ELSE bound[t]]]
    /\ UNCHANGED <<git, bound, tool, task, wanted, seen, changes>>

\* unbind_worktree: only the worktree that is named.
Unbind(c, t) ==
    /\ at[c] = "unbinding"
    /\ repair[c][t] # NoBinding
    /\ bound[t] \in {NoBinding, repair[c][t]}
    /\ bound' = [bound EXCEPT ![t] = NoBinding]
    /\ repair' = [repair EXCEPT ![c][t] = NoBinding]
    /\ UNCHANGED <<git, at, tool, task, wanted, seen, disturbed, changes>>

UnbindRefused(c, t) ==
    /\ Over(c, "unbinding", "refused")
    /\ repair[c][t] # NoBinding
    /\ bound[t] \notin {NoBinding, repair[c][t]}
    /\ UNCHANGED <<git, bound, changes>>

Unbound(c) ==
    /\ Goes(c, "unbinding", "binding")
    /\ repair[c] = Nothing
    /\ UNCHANGED <<git, bound, callVars, changes>>

\* A task that has no worktree is to get the one of its name.
GetTask(c, t) ==
    /\ at[c] = "binding"
    /\ repair[c] = Nothing
    /\ seen[c][t] # NoBinding
    /\ seen' = [seen EXCEPT ![c][t] = NoBinding]
    /\ repair' = [repair EXCEPT ![c][t] =
                      IF bound[t] = NoBinding THEN seen[c][t] ELSE NoBinding]
    /\ UNCHANGED <<git, bound, at, tool, task, wanted, disturbed, changes>>

\* bind_worktree: unless it has got another since.
Bind(c, t) ==
    /\ at[c] = "binding"
    /\ repair[c][t] # NoBinding
    /\ bound[t] \in {NoBinding, repair[c][t]}
    /\ bound' = [bound EXCEPT ![t] = repair[c][t]]
    /\ repair' = [repair EXCEPT ![c][t] = NoBinding]
    /\ UNCHANGED <<git, at, tool, task, wanted, seen, disturbed, changes>>

BindRefused(c, t) ==
    /\ Over(c, "binding", "refused")
    /\ repair[c][t] # NoBinding
    /\ bound[t] \notin {NoBinding, repair[c][t]}
    /\ UNCHANGED <<git, bound, changes>>

Reconciled(c) ==
    /\ seen[c] = Nothing /\ repair[c] = Nothing
    /\ tool[c] = "list"
    /\ Over(c, "binding", "done")
    /\ UNCHANGED <<git, bound, changes>>

\* A tool that writes goes on.
Repaired(c) ==
    /\ seen[c] = Nothing /\ repair[c] = Nothing
    /\ tool[c] # "list"
    /\ Goes(c, "binding", IF tool[c] = "create" THEN "creating" ELSE "checking")
    /\ UNCHANGED <<git, bound, callVars, changes>>

-----------------------------------------------------------------------------
(* worktree_create, worktree_remove: what is done to Git is done under the *)
(* project's lock.                                                          *)

Fresh == [nonce |-> changes + 1, head |-> ProjectHead]

Create(c) ==
    /\ Goes(c, "creating", "created")
    /\ git[task[c]] = NoBinding
    /\ changes < MaxChanges
    /\ changes' = changes + 1
    /\ git' = [git EXCEPT ![task[c]] = Fresh]
    /\ wanted' = [wanted EXCEPT ![c] = Fresh]
    /\ UNCHANGED <<bound, tool, task, seen, repair>>

\* The path is taken, the branch is, or Git fails and what it made is removed.
CreateRefused(c) ==
    /\ Over(c, "creating", "refused")
    /\ UNCHANGED <<git, bound, changes>>

\* Git fails, or the call is cancelled, and the clean-up fails too: the worktree
\* stays, maybe with the nonce not written.
CreateLeavesWorktree(c) ==
    /\ Over(c, "creating", "idle")
    /\ git[task[c]] = NoBinding
    /\ changes < MaxChanges
    /\ changes' = changes + 1
    /\ \E left \in {Fresh, [Fresh EXCEPT !.nonce = 0]} :
          git' = [git EXCEPT ![task[c]] = left]
    /\ UNCHANGED bound

BindCreated(c) ==
    /\ bound[task[c]] \in {NoBinding, wanted[c]}
    /\ bound' = [bound EXCEPT ![task[c]] = wanted[c]]
    /\ Over(c, "created", "done")
    /\ UNCHANGED <<git, changes>>

\* It is removed again, unless it has changed in the meantime.
BindCreatedRefused(c) ==
    /\ Over(c, "created", "refused")
    /\ bound[task[c]] \notin {NoBinding, wanted[c]}
    /\ git' = [git EXCEPT ![task[c]] = IF @ = wanted[c] THEN NoBinding ELSE @]
    /\ UNCHANGED <<bound, changes>>

CheckRemoval(c) ==
    /\ IF wanted[c] # NoBinding /\ bound[task[c]] = wanted[c]
       THEN Goes(c, "checking", "removing") /\ UNCHANGED callVars
       ELSE Over(c, "checking", "refused")
    /\ UNCHANGED <<git, bound, changes>>

Remove(c) ==
    /\ Goes(c, "removing", "removed")
    /\ git[task[c]] = wanted[c]
    /\ git' = [git EXCEPT ![task[c]] = NoBinding]
    /\ UNCHANGED <<bound, callVars, changes>>

\* The binding has changed, the work in it is not safe, or Git fails.
RemoveRefused(c) ==
    /\ Over(c, "removing", "refused")
    /\ UNCHANGED <<git, bound, changes>>

UnbindRemoved(c) ==
    /\ IF bound[task[c]] \in {NoBinding, wanted[c]}
       THEN /\ Over(c, "removed", "done")
            /\ bound' = [bound EXCEPT ![task[c]] = NoBinding]
       ELSE Over(c, "removed", "refused") /\ UNCHANGED bound
    /\ UNCHANGED <<git, changes>>

-----------------------------------------------------------------------------
(* What interferes.                                                        *)

\* The call is cancelled, its process dies, or Git cannot list the worktrees.
Fail(c) ==
    /\ at[c] \in Steps
    /\ Over(c, at[c], "idle")
    /\ UNCHANGED <<git, bound, changes>>

\* A teammate or the user commits in the worktree.
Commit(t) ==
    /\ git[t] # NoBinding
    /\ changes < MaxChanges
    /\ changes' = changes + 1
    /\ git' = [git EXCEPT ![t].head = ProjectHead + changes']
    /\ disturbed' = disturbed \cup UnderWay
    /\ UNCHANGED <<bound, at, callVars>>

\* The user removes it with Git.
RemoveByHand(t) ==
    /\ git[t] # NoBinding
    /\ git' = [git EXCEPT ![t] = NoBinding]
    /\ disturbed' = disturbed \cup UnderWay
    /\ UNCHANGED <<bound, at, callVars, changes>>

\* TaskManager.reset
Reset(t) ==
    /\ bound[t] # NoBinding
    /\ bound' = [bound EXCEPT ![t] = NoBinding]
    /\ disturbed' = disturbed \cup UnderWay
    /\ UNCHANGED <<git, at, callVars, changes>>

Next ==
    \/ \E c \in Calls :
          \/ Start(c)
          \/ List(c)
          \/ Reconcile(c)
          \/ ReadTasks(c)
          \/ \E t \in Tasks :
                \/ Unbind(c, t)
                \/ UnbindRefused(c, t)
                \/ GetTask(c, t)
                \/ Bind(c, t)
                \/ BindRefused(c, t)
          \/ Unbound(c)
          \/ Reconciled(c)
          \/ Repaired(c)
          \/ Create(c)
          \/ CreateRefused(c)
          \/ CreateLeavesWorktree(c)
          \/ BindCreated(c)
          \/ BindCreatedRefused(c)
          \/ CheckRemoval(c)
          \/ Remove(c)
          \/ RemoveRefused(c)
          \/ UnbindRemoved(c)
          \/ Fail(c)
    \/ \E t \in Tasks : Commit(t) \/ RemoveByHand(t) \/ Reset(t)

Spec == Init /\ [][Next]_vars

-----------------------------------------------------------------------------
\* Whatever was cancelled, removed by hand, committed or reset before, a call that
\* nothing disturbs leaves every task with the worktree Git has for it, and none
\* it does not have; and one that only lists is not refused by the board.
CallsRepair ==
    [][\A c \in Calls :
          (c \notin disturbed /\ at[c] \in Steps) =>
              /\ at'[c] = "done" => bound' = git'
              /\ tool[c] = "list" => at'[c] # "refused"]_vars
=============================================================================
