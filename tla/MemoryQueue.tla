---------------------------- MODULE MemoryQueue ----------------------------
(***************************************************************************)
(* MemoryCoordinator (src/litecoder/memory/coordinator.py): every finished *)
(* lead turn submits the extraction of its memories, and perhaps their     *)
(* consolidation ("dream"), to run in the background.  Each submission is  *)
(* a task that waits for the one before it (_tail), runs a job under a     *)
(* timeout and reports diagnostics.  A job that timed out is cancelled but *)
(* not waited for: it may still be in the service ("lingering").           *)
(***************************************************************************)
EXTENDS Naturals

CONSTANT MaxSubmissions   \* bound: submissions explored

VARIABLES
    tail,       \* how many were submitted: the last one is _tail
    submission, \* by submission: its _run_after task
    job,        \* by submission: its _run_job task
    events,     \* by submission: the operations with an event in its progress
    reported,   \* by submission: diagnostics emitted
    shuttingDown   \* close: "no", "waiting", "yes"

vars == <<tail, submission, job, events, reported, shuttingDown>>

Submissions == 1..MaxSubmissions
Operations == {"extract", "dream"}
Over == {"over", "cancelled"}

TypeOK ==
    /\ tail \in 0..MaxSubmissions
    /\ submission \in [Submissions -> {"none", "waiting", "working", "reporting"} \cup Over]
    /\ job \in [Submissions -> {"none", "lingering", "succeeded", "failed"} \cup Operations]
    /\ events \in [Submissions -> SUBSET Operations]
    /\ reported \in [Submissions -> SUBSET (Operations \X {"event", "timeout", "failed"})]
    /\ shuttingDown \in {"no", "waiting", "yes"}

Init ==
    /\ tail = 0
    /\ submission = [i \in Submissions |-> "none"]
    /\ job = [i \in Submissions |-> "none"]
    /\ events = [i \in Submissions |-> {}]
    /\ reported = [i \in Submissions |-> {}]
    /\ shuttingDown = "no"

-----------------------------------------------------------------------------
\* submit: dropped once close has begun.
Submit ==
    /\ shuttingDown = "no"
    /\ tail < MaxSubmissions
    /\ tail' = tail + 1
    /\ submission' = [submission EXCEPT ![tail + 1] = "waiting"]
    /\ UNCHANGED <<job, events, reported, shuttingDown>>

Begin(i) ==
    /\ submission' = [submission EXCEPT ![i] = "working"]
    /\ job' = [job EXCEPT ![i] = "extract"]
    /\ UNCHANGED <<tail, events, reported, shuttingDown>>

StartAtOnce(i) == submission[i] = "waiting" /\ Begin(i)

\* await previous
Start(i) ==
    /\ submission[i] = "waiting"
    /\ i > 1 => submission[i - 1] \in Over
    /\ Begin(i)

\* _run_job: extract_memories returns; _should_dream looks at what it wrote.
Extract(i) ==
    /\ job[i] = "extract"
    /\ submission[i] = "working"
    /\ events' = [events EXCEPT ![i] = @ \cup {"extract"}]
    /\ \E next \in {"dream", "succeeded"} : job' = [job EXCEPT ![i] = next]
    /\ UNCHANGED <<tail, submission, reported, shuttingDown>>

ExtractFails(i) ==
    /\ job[i] = "extract"
    /\ job' = [job EXCEPT ![i] = "failed"]
    /\ UNCHANGED <<tail, submission, events, reported, shuttingDown>>

\* consolidate_memories: an error is an event too, "skipped" is none.
Dream(i) ==
    /\ job[i] = "dream"
    /\ job' = [job EXCEPT ![i] = "succeeded"]
    /\ \/ events' = [events EXCEPT ![i] = @ \cup {"dream"}]
       \/ UNCHANGED events
    /\ UNCHANGED <<tail, submission, reported, shuttingDown>>

\* The job is done within the timeout.
Finish(i) ==
    /\ submission[i] = "working"
    /\ job[i] \in {"succeeded", "failed"}
    /\ submission' = [submission EXCEPT ![i] = "reporting"]
    /\ reported' = [reported EXCEPT ![i] =
          IF job[i] = "failed"
          THEN IF events[i] = {} THEN {<<"extract", "failed">>} ELSE {}
          ELSE events[i] \X {"event"}]
    /\ UNCHANGED <<tail, job, events, shuttingDown>>

\* _LifecycleProgress.operation
Operation(i) == IF job[i] = "dream" THEN "dream" ELSE "extract"

TimeOut(i) ==
    /\ submission[i] = "working"
    /\ job[i] \in Operations
    /\ submission' = [submission EXCEPT ![i] = "reporting"]
    /\ reported' = [reported EXCEPT ![i] =
          (events[i] \X {"event"}) \cup {<<Operation(i), "timeout">>}]
    /\ job' = [job EXCEPT ![i] = "lingering"]
    /\ UNCHANGED <<tail, events, shuttingDown>>

\* The diagnostics are written, or their sink failed.
Report(i) ==
    /\ submission[i] = "reporting"
    /\ submission' = [submission EXCEPT ![i] = "over"]
    /\ UNCHANGED <<tail, job, events, reported, shuttingDown>>

\* A cancelled job leaves the service when it likes; nobody looks at its end.
Linger(i) ==
    /\ job[i] = "lingering"
    /\ job' = [job EXCEPT ![i] = "failed"]
    /\ UNCHANGED <<tail, submission, events, reported, shuttingDown>>

-----------------------------------------------------------------------------
Close ==
    /\ shuttingDown = "no"
    /\ shuttingDown' = "waiting"
    /\ UNCHANGED <<tail, submission, job, events, reported>>

\* All are over, or close_timeout has passed: the others are cancelled, those that
\* wait for a cancelled one included.
CloseEnds ==
    /\ shuttingDown = "waiting"
    /\ shuttingDown' = "yes"
    /\ submission' = [i \in Submissions |->
                  IF submission[i] \in {"waiting", "working", "reporting"} THEN "cancelled"
                  ELSE submission[i]]
    /\ job' = [i \in Submissions |->
                  IF submission[i] = "working" /\ job[i] \in Operations THEN "lingering"
                  ELSE job[i]]
    /\ UNCHANGED <<tail, events, reported>>

Next ==
    \/ Submit
    \/ \E i \in Submissions :
          \/ Start(i)
          \/ Extract(i)
          \/ ExtractFails(i)
          \/ Dream(i)
          \/ Finish(i)
          \/ TimeOut(i)
          \/ Report(i)
          \/ Linger(i)
    \/ Close
    \/ CloseEnds

Spec == Init /\ [][Next]_vars

-----------------------------------------------------------------------------
(* What the coordinator promises.                                          *)

\* Submissions have their turn one after the other and in order, whatever timed
\* out or failed before them; only a job that timed out can be in the service
\* beside the current one; and each that had its turn has reported how it went
\* (MemoryCoordinator, "serially in the background").
SerialInOrder ==
    /\ \A i, k \in Submissions : i < k /\ job[k] # "none" => submission[i] \in Over
    /\ \A i, k \in Submissions : {job[i], job[k]} \subseteq Operations => i = k
    /\ \A i \in Submissions : submission[i] = "over" => reported[i] # {}
=============================================================================
