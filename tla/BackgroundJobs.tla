--------------------------- MODULE BackgroundJobs ---------------------------
(***************************************************************************)
(* BackgroundManager and its tools (src/litecoder/tools/background.py):    *)
(* a job is a future; its end is recorded by whoever sees it first - the   *)
(* future's own callback, a status, a cancel, a drain or close - and the   *)
(* record puts one notification in the queue for the session that started  *)
(* it.  A job that is cancelled may take its time, finish all the same, or *)
(* fail; cancel and close wait for it a moment and then call it cancelled. *)
(***************************************************************************)
EXTENDS Naturals

CONSTANTS
    Jobs,       \* background ids
    Sessions    \* agent sessions that start jobs

VARIABLES
    jobFuture,  \* by job: its asyncio future
    states,     \* by job: the BackgroundStatus in _states
    owner,      \* by job: metadata["agent_session_id"]
    notifications,   \* by job: how many of its are in _notifications
    delivered,  \* by job: notifications its session has drained
    cancelling, \* the jobs a cancel call is waiting for
    closing     \* close: "no", "waiting" for the running jobs, or "yes"

vars == <<jobFuture, states, owner, notifications, delivered, cancelling, closing>>

\* Nobody owns a job that was not started.
AnySession == CHOOSE s \in Sessions : TRUE

Ends == {"finished", "erred", "cancelled"}
Terminal == {"completed", "failed", "cancelled"}

TypeOK ==
    /\ jobFuture \in [Jobs -> {"none", "running", "unwinding"} \cup Ends]
    /\ states \in [Jobs -> {"none", "running"} \cup Terminal]
    /\ owner \in [Jobs -> Sessions \cup {AnySession}]
    /\ notifications \in [Jobs -> Nat]
    /\ delivered \in [Jobs -> Nat]
    /\ cancelling \subseteq Jobs
    /\ closing \in {"no", "waiting", "yes", "abandoned"}

Init ==
    /\ jobFuture = [j \in Jobs |-> "none"]
    /\ states = [j \in Jobs |-> "none"]
    /\ owner = [j \in Jobs |-> AnySession]
    /\ notifications = [j \in Jobs |-> 0]
    /\ delivered = [j \in Jobs |-> 0]
    /\ cancelling = {}
    /\ closing = "no"

Live == {j \in Jobs : jobFuture[j] \in {"running", "unwinding"}}
Done(j) == jobFuture[j] \in Ends

-----------------------------------------------------------------------------
(* Recording the end of jobs.                                              *)

\* What the result makes of the status; an unsuccessful ToolResult has failed.
StatusOf(end) ==
    CASE end = "finished"  -> "completed"
      [] end = "erred"     -> "failed"
      [] end = "cancelled" -> "cancelled"

\* _finish and _mark_cancelled for the jobs of a set: the first record counts.
RecordAgain(ended) ==
    /\ states' = [j \in Jobs |->
                    IF j \notin ended THEN states[j]
                    ELSE IF Done(j) THEN StatusOf(jobFuture[j]) ELSE "cancelled"]
    /\ notifications' = [j \in Jobs |-> notifications[j] + IF j \in ended THEN 1 ELSE 0]

Record(ended) ==
    LET fresh == {j \in ended : states[j] = "running"} IN
    /\ states' = [j \in Jobs |->
                    IF j \notin fresh THEN states[j]
                    ELSE IF Done(j) THEN StatusOf(jobFuture[j]) ELSE "cancelled"]
    /\ notifications' = [j \in Jobs |-> notifications[j] + IF j \in fresh THEN 1 ELSE 0]

-----------------------------------------------------------------------------
(* The manager's operations.                                               *)

\* background_start; refused after close.
Start(j, s) ==
    /\ closing = "no"
    /\ jobFuture[j] = "none"
    /\ jobFuture' = [jobFuture EXCEPT ![j] = "running"]
    /\ states' = [states EXCEPT ![j] = "running"]
    /\ owner' = [owner EXCEPT ![j] = s]
    /\ UNCHANGED <<notifications, delivered, cancelling, closing>>

\* The job's end: a tool result, an exception, or its cancellation - or any other
\* end although it was cancelled.
End(j) ==
    /\ j \in Live
    /\ \E end \in Ends :
          /\ end = "cancelled" => jobFuture[j] = "unwinding"
          /\ jobFuture' = [jobFuture EXCEPT ![j] = end]
    /\ UNCHANGED <<states, owner, notifications, delivered, cancelling, closing>>

\* The future's callback, or background_status, sees the end.
Notice(j) ==
    /\ Done(j)
    /\ states[j] = "running"
    /\ Record({j})
    /\ UNCHANGED <<jobFuture, owner, delivered, cancelling, closing>>

\* background_cancel by the owner: look first, then cancel and wait.
Cancel(j) ==
    /\ jobFuture[j] # "none"
    /\ j \notin cancelling
    /\ IF Done(j)
       THEN Record({j}) /\ UNCHANGED <<jobFuture, cancelling>>
       ELSE /\ states[j] = "running"
            /\ jobFuture' = [jobFuture EXCEPT ![j] = "unwinding"]
            /\ cancelling' = cancelling \cup {j}
            /\ UNCHANGED <<states, notifications>>
    /\ UNCHANGED <<owner, delivered, closing>>

\* The job is done, or close_timeout has passed.
CancelEnds(j) ==
    /\ j \in cancelling
    /\ Record({j})
    /\ cancelling' = cancelling \ {j}
    /\ UNCHANGED <<jobFuture, owner, delivered, closing>>

\* The call that waits is itself cancelled.
CancelIsCancelled(j) ==
    /\ j \in cancelling
    /\ cancelling' = cancelling \ {j}
    /\ UNCHANGED <<jobFuture, states, owner, notifications, delivered, closing>>

\* drain_notifications(agent_session_id): the done ones are recorded first.
Drain(s) ==
    /\ LET done == {j \in Jobs : Done(j) /\ states[j] = "running"}
           ready == [j \in Jobs |-> notifications[j] + IF j \in done THEN 1 ELSE 0]
       IN  /\ states' = [j \in Jobs |->
                           IF j \in done THEN StatusOf(jobFuture[j]) ELSE states[j]]
           /\ delivered' = [j \in Jobs |->
                              IF owner[j] = s THEN delivered[j] + ready[j]
                              ELSE delivered[j]]
           /\ notifications' = [j \in Jobs |-> IF owner[j] = s THEN 0 ELSE ready[j]]
    /\ UNCHANGED <<jobFuture, owner, cancelling, closing>>

Close ==
    /\ closing = "no"
    /\ closing' = IF \E j \in Jobs : states[j] = "running" THEN "waiting" ELSE "yes"
    /\ jobFuture' = [j \in Jobs |-> IF j \in Live /\ states[j] = "running"
                                 THEN "unwinding" ELSE jobFuture[j]]
    /\ UNCHANGED <<states, owner, notifications, delivered, cancelling>>

\* The jobs are done, or close_timeout has passed.
CloseLeavesPending ==
    /\ closing = "waiting"
    /\ closing' = "yes"
    /\ Record({j \in Jobs : Done(j)})
    /\ UNCHANGED <<jobFuture, owner, delivered, cancelling>>

CloseEnds ==
    /\ closing = "waiting"
    /\ closing' = "yes"
    /\ Record(Jobs)
    /\ UNCHANGED <<jobFuture, owner, delivered, cancelling>>

CloseIsCancelled ==
    /\ closing = "waiting"
    /\ closing' = "abandoned"
    /\ UNCHANGED <<jobFuture, states, owner, notifications, delivered, cancelling>>

Next ==
    \/ \E j \in Jobs, s \in Sessions : Start(j, s)
    \/ \E j \in Jobs :
          \/ End(j)
          \/ Notice(j)
          \/ Cancel(j)
          \/ CancelEnds(j)
          \/ CancelIsCancelled(j)
    \/ \E s \in Sessions : Drain(s)
    \/ Close
    \/ CloseEnds
    \/ CloseIsCancelled

\* The timer of close fires; nothing makes a job end.
Fairness == WF_vars(CloseEnds)

Spec == Init /\ [][Next]_vars /\ Fairness

-----------------------------------------------------------------------------
(* What the manager promises.                                              *)

\* Callback, states, cancel, drain and close race to record a job's end: its
\* session gets exactly one notification of it, and "completed" or "failed" is
\* only ever said of a job that ended so (_finish, _mark_cancelled).
NotifiedOnce ==
    \A j \in Jobs :
        /\ notifications[j] + delivered[j] = IF states[j] \in Terminal THEN 1 ELSE 0
        /\ states[j] = "completed" => jobFuture[j] = "finished"
        /\ states[j] = "failed" => jobFuture[j] = "erred"

\* Closing the manager reports every job as over, the ones that ignore their
\* cancellation included, once close_timeout has passed - unless close is itself
\* cancelled while it waits.
ClosedJobsAreReported ==
    (closing = "waiting") ~>
        (closing = "abandoned" \/ \A j \in Jobs : states[j] # "running")
=============================================================================
