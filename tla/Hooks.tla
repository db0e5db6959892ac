-------------------------------- MODULE Hooks --------------------------------
(***************************************************************************)
(* HookManager (src/litecoder/hooks/manager.py): the user's hooks at one   *)
(* point.  A dispatch takes the hooks registered as it begins and runs     *)
(* them one after the other.  Before an action (dispatch_pre) a hook that  *)
(* blocks, fails or answers nonsense ends it, and blocks the action; after *)
(* one (dispatch_post) neither changes anything.  Every step is told to    *)
(* the mandatory trace first, whose record does not suspend, but whoever   *)
(* awaits it does: a cancellation may arrive with the record made.         *)
(***************************************************************************)
EXTENDS Sequences, FiniteSets

CONSTANTS
    Hooks,          \* user hooks, each registered at most once
    Dispatches

VARIABLES
    registered,     \* _hooks[point]: in the order they were registered
    retired,        \* the hooks that were removed
    pre,            \* the dispatches made by dispatch_pre
    at,             \* by dispatch: what it awaits
    plan,           \* by dispatch: the hooks yet to finish, the current first
    invocation,     \* by dispatch: the hook of its state: hook_id, if any
    verdict,        \* by dispatch: what its caller is told
    requested,      \* the dispatches whose task was cancelled
    trace,          \* by dispatch: what the trace says of it
    traceBroken     \* the recorder's worker has failed: every record raises

vars ==
    <<registered, retired, pre, at, plan, invocation, verdict, requested,
      trace, traceBroken>>

Awaits == {"started", "invoking", "running", "invoked", "ending"}
Places == {"new", "over"} \cup Awaits
Verdicts == {"none", "unblocked", "blocked", "told", "raised", "cancelled"}
HookEnds == {"completed", "ignored", "blocked", "failed"}

Entry(event, hook, status) ==
    [event |-> event, hook |-> hook, status |-> status]
Entries ==
    [event : {"start", "end"}, hook : SUBSET Hooks,
     status : {"started", "cancelled", "unblocked", "told"} \cup HookEnds]

TypeOK ==
    /\ registered \in Seq(Hooks)
    /\ retired \subseteq Hooks
    /\ pre \subseteq Dispatches
    /\ at \in [Dispatches -> Places]
    /\ plan \in [Dispatches -> Seq(Hooks)]
    /\ invocation \in [Dispatches -> SUBSET Hooks]
    /\ verdict \in [Dispatches -> Verdicts]
    /\ requested \subseteq Dispatches
    /\ trace \in [Dispatches -> Seq(Entries)]
    /\ traceBroken \in BOOLEAN

Init ==
    /\ registered = <<>>
    /\ retired = {}
    /\ pre \in SUBSET Dispatches
    /\ at = [d \in Dispatches |-> "new"]
    /\ plan = [d \in Dispatches |-> <<>>]
    /\ invocation = [d \in Dispatches |-> {}]
    /\ verdict = [d \in Dispatches |-> "none"]
    /\ requested = {}
    /\ trace = [d \in Dispatches |-> <<>>]
    /\ traceBroken = FALSE

Names(s) == {s[i] : i \in DOMAIN s}
dispatchVars ==
    <<pre, at, plan, invocation, verdict, requested, trace, traceBroken>>

-----------------------------------------------------------------------------
(* Registration, between any two awaits of a dispatch.                     *)

Register(h) ==
    /\ h \notin Names(registered) \cup retired
    /\ registered' = Append(registered, h)
    /\ UNCHANGED <<retired, dispatchVars>>

Unregister(h) ==
    /\ h \in Names(registered)
    /\ registered' = SelectSeq(registered, LAMBDA g : g # h)
    /\ retired' = retired \cup {h}
    /\ UNCHANGED dispatchVars

Clear ==
    /\ registered # <<>>
    /\ registered' = <<>>
    /\ retired' = retired \cup Names(registered)
    /\ UNCHANGED dispatchVars

-----------------------------------------------------------------------------
(* A dispatch.                                                             *)

\* Its task is not to be cancelled at its next step.
Proceeds(d, place) ==
    /\ at[d] = place
    /\ d \notin requested

\* _trace: the record is made before the dispatch resumes; one that raises ends
\* the dispatch, and its caller's call with it.
Traces(d, entry, place) ==
    IF traceBroken
    THEN /\ at' = [at EXCEPT ![d] = "over"]
         /\ verdict' = [verdict EXCEPT ![d] = "raised"]
         /\ UNCHANGED trace
    ELSE /\ at' = [at EXCEPT ![d] = place]
         /\ trace' = [trace EXCEPT ![d] = Append(@, entry)]
         /\ UNCHANGED verdict

\* The membership is fixed before the first record.
Begin(d) ==
    /\ Proceeds(d, "new")
    /\ plan' = [plan EXCEPT ![d] = registered]
    /\ Traces(d, Entry("start", {}, "started"), "started")
    /\ UNCHANGED <<registered, retired, pre, invocation, requested,
                   traceBroken>>

Concludes(d, status) ==
    /\ Traces(d, Entry("end", {}, status), "ending")
    /\ invocation' = [invocation EXCEPT ![d] = {}]
    /\ UNCHANGED <<registered, retired, pre, requested, traceBroken>>

\* begin_invocation comes before its record.
Invokes(d, hooks) ==
    /\ invocation' = [invocation EXCEPT ![d] = {Head(hooks)}]
    /\ Traces(d, Entry("start", {Head(hooks)}, "started"), "invoking")
    /\ UNCHANGED <<registered, retired, pre, requested, traceBroken>>

ContinuesWith(d, hooks) ==
    /\ plan' = [plan EXCEPT ![d] = hooks]
    /\ IF hooks = <<>>
       THEN Concludes(d, IF d \in pre THEN "unblocked" ELSE "told")
       ELSE Invokes(d, hooks)

Snapshot(d) ==
    /\ Proceeds(d, "started")
    /\ ContinuesWith(d, plan[d])

\* A payload that cannot be copied blocks the action before it.
SnapshotFails(d) ==
    /\ Proceeds(d, "started")
    /\ plan' = [plan EXCEPT ![d] = <<>>]
    /\ Concludes(d, IF d \in pre THEN "blocked" ELSE "told")

Runs(d) ==
    /\ Proceeds(d, "invoking")
    /\ at' = [at EXCEPT ![d] = "running"]
    /\ UNCHANGED <<registered, retired, pre, plan, invocation, verdict, requested,
                   trace, traceBroken>>

\* What the hook's answer is to the dispatch: after an action, what it would
\* change or block is ignored.
Answers(d) ==
    IF d \in pre THEN {"completed", "blocked"} ELSE {"completed", "ignored"}

Finished(d, status) ==
    /\ Traces(d, Entry("end", invocation[d], status), "invoked")
    /\ UNCHANGED <<registered, retired, pre, plan, invocation, requested,
                   traceBroken>>

HookAnswers(d) ==
    /\ Proceeds(d, "running")
    /\ \E status \in Answers(d) : Finished(d, status)

\* It raises, answers something else than an outcome, or with a payload that
\* cannot be copied; or its envelope cannot be made.
HookFails(d) ==
    /\ \/ Proceeds(d, "invoking")
       \/ Proceeds(d, "running")
    /\ Finished(d, "failed")

LastStatus(d) == trace[d][Len(trace[d])].status

\* A hook that failed does not count.
NextHookLeniently(d) ==
    /\ Proceeds(d, "invoked")
    /\ IF d \in pre /\ LastStatus(d) = "blocked"
       THEN Concludes(d, "blocked") /\ UNCHANGED plan
       ELSE ContinuesWith(d, Tail(plan[d]))

\* finish_invocation, and on to the next hook unless this one decided.
NextHook(d) ==
    /\ Proceeds(d, "invoked")
    /\ IF d \in pre /\ LastStatus(d) \in {"blocked", "failed"}
       THEN Concludes(d, "blocked") /\ UNCHANGED plan
       ELSE ContinuesWith(d, Tail(plan[d]))

End(d) ==
    /\ Proceeds(d, "ending")
    /\ at' = [at EXCEPT ![d] = "over"]
    /\ verdict' = [verdict EXCEPT ![d] = LastStatus(d)]
    /\ UNCHANGED <<registered, retired, pre, plan, invocation, requested,
                   trace, traceBroken>>

-----------------------------------------------------------------------------
(* Cancellation, and the trace's failure.                                  *)

Cancel(d) ==
    /\ at[d] \in Awaits
    /\ requested' = requested \cup {d}
    /\ UNCHANGED <<registered, retired, pre, at, plan, invocation, verdict,
                   trace, traceBroken>>

\* _trace_cancellation: the hook is cancelled too, and left behind should it not
\* end; a trace that fails now does not replace the cancellation.
Cancelled(d) ==
    /\ at[d] \in Awaits
    /\ d \in requested
    /\ at' = [at EXCEPT ![d] = "over"]
    /\ verdict' = [verdict EXCEPT ![d] = "cancelled"]
    /\ trace' = [trace EXCEPT ![d] =
                    IF traceBroken THEN @
                    ELSE @ \o (IF invocation[d] = {} THEN <<>>
                               ELSE <<Entry("end", invocation[d], "cancelled")>>)
                           \o <<Entry("end", {}, "cancelled")>>]
    /\ UNCHANGED <<registered, retired, pre, plan, invocation, requested,
                   traceBroken>>

TraceBreaks ==
    /\ ~traceBroken
    /\ traceBroken' = TRUE
    /\ UNCHANGED <<registered, retired, pre, at, plan, invocation, verdict,
                   requested, trace>>

Next ==
    \/ \E h \in Hooks : Register(h) \/ Unregister(h)
    \/ Clear
    \/ \E d \in Dispatches :
          \/ Begin(d)
          \/ Snapshot(d)
          \/ SnapshotFails(d)
          \/ Runs(d)
          \/ HookAnswers(d)
          \/ HookFails(d)
          \/ NextHook(d)
          \/ End(d)
          \/ Cancel(d)
          \/ Cancelled(d)
    \/ TraceBreaks

Spec == Init /\ [][Next]_vars

-----------------------------------------------------------------------------
Started(d) == {e.hook : e \in {f \in Names(trace[d]) : f.event = "start"}}
EndedAs(d, hook) ==
    {e.status : e \in
        {f \in Names(trace[d]) : f.event = "end" /\ f.hook = hook}}

\* The trace of a dispatch that is over tells what happened: whatever was started
\* has ended, unless the trace itself broke; the action was let through only when
\* no hook failed, blocked or was cut short, and blocked only by its last hook or
\* by the payload; nothing follows the end its caller was told of.
TraceTellsTheStory ==
    \A d \in Dispatches :
        LET last == trace[d][Len(trace[d])] IN
        /\ (at[d] = "over" /\ ~traceBroken) =>
              /\ \A hook \in Started(d) : EndedAs(d, hook) # {}
              /\ last.hook = {}
              /\ last.status = verdict[d]
        /\ verdict[d] = "unblocked" =>
              \A hook \in Started(d) \ {{}} : EndedAs(d, hook) = {"completed"}
        /\ verdict[d] = "blocked" =>
              \A hook \in Started(d) \ {{}} :
                  EndedAs(d, hook) = {"completed"} \/ hook = {Head(plan[d])}
=============================================================================
