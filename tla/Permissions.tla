---------------------------- MODULE Permissions ----------------------------
(***************************************************************************)
(* Whether a tool may run: the policy of the mode, what the user has       *)
(* allowed for a root session, and otherwise a prompt (PermissionService   *)
(* and PermissionBroker in src/litecoder/tools/permission.py).  The calls  *)
(* of all agents share one prompt pane (request_permission and what is     *)
(* around it in src/litecoder/ui/tui.py): one request is active, the       *)
(* others queue, and the task whose request is settled activates the next  *)
(* one before it goes on with its own answer.                              *)
(***************************************************************************)
EXTENDS Naturals, Sequences, FiniteSets

CONSTANTS
    Calls,
    ToolOf,             \* by call: its tool and arguments
    RootOf,             \* by call: the root session of its agent
    RiskOf,             \* by call: "safe", "change" or "confirm"
    Nobody,             \* no call
    MaxKeys,            \* bound: choices made and not yet handled
    MaxCancels          \* bound: of calls, and of the whole turn

VARIABLES
    mode,               \* of the runtime
    running,            \* the application
    at,                 \* by call: where it is
    action,             \* by call: what the policy says
    future,             \* by call: the answer to its request
    result,             \* by call
    byApproval,         \* by call: allowed without a prompt
    queue,              \* _permission_queue
    active,             \* _permission_active
    activating,         \* by call: the request its task is activating
    shown,              \* the pane's prompt
    timer,              \* the request that the timeout's task is for
    keys,               \* choices made in the pane, on their way, and whose prompt it showed
    approvals,          \* _session_approvals
    cancels,
    pressedFor          \* history, by call: whose prompt the pane showed when the key
                        \* was pressed that decided it

vars ==
    <<mode, running, at, action, future, result, byApproval, queue, active,
      activating, shown, timer, keys, approvals, cancels, pressedFor>>

Modes == {"ask", "read_only", "bypass"}
Choices == {"once", "session", "deny"}
Allowing == {"once", "session"}
Keys == [choice : Choices, prompt : Calls]

TypeOK ==
    /\ mode \in Modes /\ running \in BOOLEAN
    /\ at \in [Calls -> {"idle", "showing", "waiting", "handing", "done"}]
    /\ action \in [Calls -> {"none", "allow", "deny", "prompt"}]
    /\ future \in [Calls -> Choices \cup {"pending", "cancelled"}]
    /\ result \in [Calls -> {"none", "allow", "deny", "cancelled"}]
    /\ byApproval \in [Calls -> BOOLEAN]
    /\ queue \in Seq(Calls)
    /\ active \in Calls \cup {Nobody}
    /\ activating \in [Calls -> Calls \cup {Nobody}]
    /\ shown \in Calls \cup {Nobody} /\ timer \in Calls \cup {Nobody}
    /\ keys \in Seq(Keys)
    /\ cancels \in 0 .. MaxCancels
    /\ pressedFor \in [Calls -> Calls \cup {Nobody}]

Init ==
    /\ mode \in Modes
    /\ running = TRUE
    /\ at = [c \in Calls |-> "idle"]
    /\ action = [c \in Calls |-> "none"]
    /\ future = [c \in Calls |-> "pending"]
    /\ result = [c \in Calls |-> "none"]
    /\ byApproval = [c \in Calls |-> FALSE]
    /\ queue = <<>>
    /\ active = Nobody
    /\ activating = [c \in Calls |-> Nobody]
    /\ shown = Nobody /\ timer = Nobody
    /\ keys = <<>>
    /\ approvals = {}
    /\ cancels = 0
    /\ pressedFor = [c \in Calls |-> Nobody]

paneVars == <<queue, active, shown, timer>>

-----------------------------------------------------------------------------
(* PermissionService                                                       *)

\* "bypass" stands for an authorized one; without authorization it asks.
Classify(m, risk) ==
    CASE risk = "safe" -> "allow"
      [] m = "read_only" -> "deny"
      [] m = "bypass" /\ risk = "change" -> "allow"
      [] OTHER -> "prompt"

KeyWithoutRoot(c) == <<"any", ToolOf[c]>>

\* _approval_key
Key(c) == <<RootOf[c], ToolOf[c]>>

\* What the choice says, and what is remembered of it.
Decides(c) ==
    /\ result' = [result EXCEPT ![c] =
                    CASE future'[c] \in Allowing -> "allow"
                      [] future'[c] = "cancelled" -> "cancelled"
                      [] OTHER -> "deny"]
    /\ approvals' = IF future'[c] = "session" /\ RiskOf[c] # "confirm"
                    THEN approvals \cup {Key(c)} ELSE approvals
    /\ at' = [at EXCEPT ![c] = "done"]

\* The first of the queue that is still open is taken; those before it are dropped.
FirstOpen(q) == {i \in 1 .. Len(q) : future[q[i]] = "pending" /\
                    \A j \in 1 .. i - 1 : future[q[j]] # "pending"}

\* _activate_next_permission, up to the wait for the events that are to be shown
\* before the prompt.
Activates(c, q) ==
    IF FirstOpen(q) = {}
    THEN /\ active' = Nobody /\ queue' = <<>>
         /\ activating' = [activating EXCEPT ![c] = Nobody]
    ELSE \E i \in FirstOpen(q) :
            /\ active' = q[i]
            /\ queue' = SubSeq(q, i + 1, Len(q))
            /\ activating' = [activating EXCEPT ![c] = q[i]]

\* classify, decide, request_permission; a child asks its parent's service.
Decide(c) ==
    /\ at[c] = "idle"
    /\ LET what == Classify(mode, RiskOf[c])
           approved == what = "prompt" /\ RiskOf[c] # "confirm"
                       /\ Key(c) \in approvals
           asks == what = "prompt" /\ ~approved /\ running
       IN /\ action' = [action EXCEPT ![c] = what]
          /\ byApproval' = [byApproval EXCEPT ![c] = approved]
          /\ IF asks
             THEN /\ IF active = Nobody
                     THEN /\ Activates(c, Append(queue, c))
                          /\ at' = [at EXCEPT ![c] = "showing"]
                     ELSE /\ queue' = Append(queue, c)
                          /\ at' = [at EXCEPT ![c] = "waiting"]
                          /\ UNCHANGED <<active, activating>>
                  /\ UNCHANGED result
             ELSE /\ at' = [at EXCEPT ![c] = "done"]
                  /\ result' = [result EXCEPT ![c] =
                                  IF approved \/ what = "allow" THEN "allow"
                                  ELSE "deny"]
                  /\ UNCHANGED <<queue, active, activating>>
    /\ UNCHANGED <<mode, running, future, shown, timer, keys, approvals,
                   cancels, pressedFor>>

\* The hard guard refuses, or it or the prompt raises: denied without a prompt.
Guarded(c) ==
    /\ at[c] = "idle"
    /\ at' = [at EXCEPT ![c] = "done"]
    /\ result' = [result EXCEPT ![c] = "deny"]
    /\ UNCHANGED <<mode, running, action, future, byApproval, paneVars, activating,
                   keys, approvals, cancels, pressedFor>>

-----------------------------------------------------------------------------
(* The pane                                                                *)

\* After an activation: a call whose own request it was waits for the answer, and
\* one that handed over the pane goes on with the answer it has.
Continues(c) ==
    IF at[c] = "handing" THEN Decides(c)
    ELSE at' = [at EXCEPT ![c] = "waiting"] /\ UNCHANGED <<result, approvals>>

\* The events are shown: the prompt is too, if it is still the one.
Show(c) ==
    /\ activating[c] # Nobody
    /\ UNCHANGED <<mode, running, action, future, byApproval, keys,
                   cancels, pressedFor>>
    /\ LET r == activating[c] IN
       IF active = r /\ future[r] # "pending"
       THEN /\ Activates(c, queue)
            /\ IF FirstOpen(queue) = {} THEN Continues(c)
               ELSE UNCHANGED <<at, result, approvals>>
            /\ UNCHANGED <<shown, timer>>
       ELSE /\ activating' = [activating EXCEPT ![c] = Nobody]
            /\ IF active = r THEN shown' = r /\ timer' = r
               ELSE UNCHANGED <<shown, timer>>
            /\ Continues(c)
            /\ UNCHANGED <<active, queue>>

\* The queue's remove(request): the first of them, if it is there.
Withdraws(c) ==
    \/ /\ \A i \in 1 .. Len(queue) : queue[i] # c
       /\ UNCHANGED queue
    \/ \E i \in 1 .. Len(queue) :
          /\ queue[i] = c /\ \A j \in 1 .. i - 1 : queue[j] # c
          /\ queue' = SubSeq(queue, 1, i - 1) \o SubSeq(queue, i + 1, Len(queue))

\* The end of request_permission's wait: the pane is handed over.
HandsOver(c) ==
    IF active = c
    THEN /\ shown' = Nobody /\ timer' = Nobody
         /\ Activates(c, queue)
         /\ IF FirstOpen(queue) = {} THEN Decides(c)
            ELSE /\ at' = [at EXCEPT ![c] = "handing"]
                 /\ UNCHANGED <<result, approvals>>
    ELSE /\ Withdraws(c)
         /\ activating' = [activating EXCEPT ![c] = Nobody]
         /\ Decides(c)
         /\ UNCHANGED <<active, shown, timer>>

Answered(c) ==
    /\ at[c] = "waiting" /\ future[c] # "pending"
    /\ UNCHANGED future
    /\ HandsOver(c)
    /\ UNCHANGED <<mode, running, action, byApproval, keys, cancels, pressedFor>>

\* The task of the call is cancelled: in the wait for the answer or for its own
\* prompt to be shown.
Cancel(c) ==
    /\ at[c] \in {"showing", "waiting"}
    /\ cancels < MaxCancels
    /\ cancels' = cancels + 1
    /\ future' = [future EXCEPT ![c] = "cancelled"]
    /\ HandsOver(c)
    /\ UNCHANGED <<mode, running, action, byApproval, keys, pressedFor>>

\* Or while it activates the next request, which stays the active one.
CancelHandingOver(c) ==
    /\ at[c] = "handing"
    /\ cancels < MaxCancels
    /\ cancels' = cancels + 1
    /\ future' = [future EXCEPT ![c] = "cancelled"]
    /\ activating' = [activating EXCEPT ![c] = Nobody]
    /\ Decides(c)
    /\ UNCHANGED <<mode, running, action, byApproval, paneVars, keys, pressedFor>>

\* PermissionPane: the user chooses; the message goes to the application.
Press ==
    /\ shown # Nobody
    /\ Len(keys) < MaxKeys
    /\ \E choice \in Choices :
          keys' = Append(keys, [choice |-> choice, prompt |-> shown])
    /\ UNCHANGED <<mode, running, at, action, future, result, byApproval, paneVars,
                   activating, approvals, cancels, pressedFor>>

\* on_permission_pane_resolved
Resolved ==
    /\ keys # <<>>
    /\ keys' = Tail(keys)
    /\ IF active = Nobody \/ future[active] # "pending"
       THEN UNCHANGED <<future, pressedFor>>
       ELSE /\ future' = [future EXCEPT ![active] = Head(keys).choice]
            /\ pressedFor' = [pressedFor EXCEPT ![active] = Head(keys).prompt]
    /\ UNCHANGED <<mode, running, at, action, result, byApproval, paneVars,
                   activating, approvals, cancels>>

\* _deny_permission_after_timeout
Timeout ==
    /\ timer # Nobody
    /\ timer' = Nobody
    /\ future' = IF active = timer /\ future[timer] = "pending"
                 THEN [future EXCEPT ![timer] = "deny"] ELSE future
    /\ UNCHANGED <<mode, running, at, action, result, byApproval, queue, active,
                   activating, shown, keys, approvals, cancels, pressedFor>>

\* _resolve_all_permissions
ResolvesAll ==
    /\ timer' = Nobody /\ shown' = Nobody
    /\ queue' = <<>>
    /\ future' = [c \in Calls |->
                    IF (c = active \/ \E i \in 1 .. Len(queue) : queue[i] = c)
                       /\ future[c] = "pending"
                    THEN "deny" ELSE future[c]]

\* Escape or Ctrl-C while a turn runs; its calls are cancelled after that.
CancelTurn ==
    /\ running
    /\ cancels < MaxCancels
    /\ cancels' = cancels + 1
    /\ ResolvesAll
    /\ UNCHANGED <<mode, running, at, action, result, byApproval, active,
                   activating, keys, approvals, pressedFor>>

Unmount ==
    /\ running
    /\ running' = FALSE
    /\ ResolvesAll
    /\ UNCHANGED <<mode, at, action, result, byApproval, active, activating, keys,
                   approvals, cancels, pressedFor>>

CycleMode ==
    /\ running
    /\ mode' = CASE mode = "ask" -> "read_only"
                 [] mode = "read_only" -> "bypass"
                 [] mode = "bypass" -> "ask"
    /\ UNCHANGED <<running, at, action, future, result, byApproval, paneVars,
                   activating, keys, approvals, cancels, pressedFor>>

Next ==
    \/ \E c \in Calls :
          \/ Decide(c)
          \/ Guarded(c)
          \/ Show(c)
          \/ Answered(c)
          \/ Cancel(c)
          \/ CancelHandingOver(c)
    \/ Press
    \/ Resolved
    \/ Timeout
    \/ CancelTurn
    \/ Unmount
    \/ CycleMode

Spec == Init /\ [][Next]_vars

-----------------------------------------------------------------------------
\* A key that was pressed in the prompt of a call that is settled by the time the
\* key is handled, by its timeout, a cancellation or another key, goes to the request
\* that is active then.
IsStray(c) == pressedFor[c] # c /\ future[pressedFor[c]] # "pending"

\* What runs is allowed by the policy or by the user: a key was pressed in this
\* very call's prompt, and strays are the one exception, so that no key goes to
\* another call while the one it was meant for is open; or the user has allowed this
\* tool, these arguments and this root session before, never for a call that must be
\* confirmed.  And while a call waits for its answer it is the active one or in the
\* queue, whatever times out or is cancelled around it (decide, request_permission,
\* on_permission_pane_resolved).
AllowedByTheUser ==
    LET chosen == {c \in Calls : future[c] \in Allowing} IN
    /\ \A c \in chosen :
          pressedFor[c] # Nobody /\ (pressedFor[c] = c \/ IsStray(c))
    /\ \A c \in Calls :
          /\ (result[c] = "allow" /\ action[c] = "prompt" /\ byApproval[c]) =>
                  /\ RiskOf[c] # "confirm"
                  /\ \E d \in chosen : /\ future[d] = "session"
                                       /\ RootOf[d] = RootOf[c]
                                       /\ ToolOf[d] = ToolOf[c]
          /\ (result[c] = "allow" /\ action[c] = "prompt" /\ ~byApproval[c]) =>
                  c \in chosen
          /\ (at[c] = "waiting" /\ future[c] = "pending") =>
                  (active = c \/ \E i \in 1 .. Len(queue) : queue[i] = c)

\* The active request is in the pane with its timeout running, or somebody is
\* about to put it there ("Auto-deny after ... seconds", PermissionPane).
ActiveRequestIsShown ==
    (active # Nobody /\ future[active] = "pending") =>
        \/ shown = active /\ timer = active
        \/ \E c \in Calls : activating[c] = active
=============================================================================
