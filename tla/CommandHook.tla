----------------------------- MODULE CommandHook -----------------------------
(***************************************************************************)
(* CommandHook (src/litecoder/hooks/command.py): a hook that is a command  *)
(* of the user's.  One call of it: the event is written to the command,    *)
(* its two streams and its exit are awaited by tasks of their own, and its *)
(* output is the answer; whatever goes wrong, the command is ended and the *)
(* action it was asked about is blocked.  A helper of the command's may    *)
(* hold its streams after it.                                              *)
(***************************************************************************)
EXTENDS Naturals

CONSTANT Limit      \* units of a stream that are read at most

VARIABLES
    point,      \* "pre": before an action; "start": before a subagent's, which no
                \* hook changes; "post": after either
    at,         \* what the call awaits
    process,    \* the command
    held,       \* a helper holds its streams
    said, got,  \* by stream: units that were written, and read
    answer,     \* what the output amounts to, as far as it was written
    tasks,      \* the tasks that read the streams and wait for the exit
    reason,     \* why the command is being ended
    outcome,    \* what the dispatch is told
    disturbed   \* cancelled while it was ending the command

vars ==
    <<point, at, process, held, said, got, answer, tasks, reason, outcome,
      disturbed>>
commandVars == <<process, held, said, answer>>

Streams == {"stdout", "stderr"}
Tasks == Streams \cup {"exit"}
Answers == {"nonsense", "pass", "block", "change"}
Ending == {"terminating", "killing"}

TypeOK ==
    /\ point \in {"pre", "start", "post"}
    /\ at \in {"new", "sending", "collecting", "settling", "over"} \cup Ending
    /\ process \in {"none", "running", "succeeded", "failed"}
    /\ held \in BOOLEAN
    /\ said \in [Streams -> 0 .. Limit + 1]
    /\ got \in [Streams -> 0 .. Limit + 1]
    /\ answer \in Answers
    /\ tasks \in [Tasks -> {"none", "running", "done", "raised"}]
    /\ reason \in {"none", "cancelled", "timed_out", "output_too_large",
                   "execution_failed"}
    /\ outcome.told \in {"nothing", "answered", "failed", "cancelled"}
    /\ disturbed \in BOOLEAN

NoTasks == [t \in Tasks |-> "none"]
Told(how, blocked, changed) ==
    [told |-> how, blocked |-> blocked, changed |-> changed]

Init ==
    /\ point \in {"pre", "start", "post"}
    /\ at = "new"
    /\ process = "none" /\ held = FALSE
    /\ said = [s \in Streams |-> 0] /\ got = [s \in Streams |-> 0]
    /\ answer = "nonsense"
    /\ tasks = NoTasks
    /\ reason = "none"
    /\ outcome = Told("nothing", FALSE, FALSE)
    /\ disturbed = FALSE

\* _failed_outcome: before an action a command that fails blocks it.
Failed == Told("failed", point # "post", FALSE)

-----------------------------------------------------------------------------
(* The command and its helper.                                             *)

\* More than the limit is one unit too much.
Say(s) ==
    /\ process = "running" \/ held
    /\ said[s] <= Limit
    /\ said' = [said EXCEPT ![s] = @ + 1]
    /\ answer' \in IF s = "stdout" THEN Answers ELSE {answer}
    /\ UNCHANGED <<point, at, process, held, got, tasks, reason, outcome, disturbed>>

Exit ==
    /\ process = "running"
    /\ process' \in {"succeeded", "failed"}
    /\ held' \in BOOLEAN
    /\ UNCHANGED <<point, at, said, got, answer, tasks, reason, outcome, disturbed>>

HelperExits ==
    /\ held
    /\ held' = FALSE
    /\ UNCHANGED <<point, at, process, said, got, answer, tasks, reason, outcome,
                   disturbed>>

-----------------------------------------------------------------------------
(* The call.                                                               *)

\* The event cannot be written down or is too long, or there is no such command.
Refuse ==
    /\ at = "new"
    /\ at' = "over" /\ outcome' = Failed
    /\ UNCHANGED <<point, commandVars, got, tasks, reason, disturbed>>

\* create_subprocess_exec; one that is cancelled meanwhile is asyncio's to end.
Start ==
    /\ at = "new"
    /\ at' = "sending" /\ process' = "running"
    /\ UNCHANGED <<point, held, said, got, answer, tasks, reason, outcome, disturbed>>

\* The event fits into the pipe, or the command has read enough of it.
Sent ==
    /\ at = "sending"
    /\ at' = "collecting" /\ tasks' = [t \in Tasks |-> "running"]
    /\ UNCHANGED <<point, commandVars, got, reason, outcome, disturbed>>

Read(s) ==
    /\ tasks[s] = "running" /\ got[s] < said[s]
    /\ got' = [got EXCEPT ![s] = @ + 1]
    /\ tasks' = [tasks EXCEPT ![s] = IF got[s] = Limit THEN "raised" ELSE @]
    /\ UNCHANGED <<point, at, commandVars, reason, outcome, disturbed>>

ReadEnd(s) ==
    /\ tasks[s] = "running" /\ got[s] = said[s]
    /\ process # "running" /\ ~held
    /\ tasks' = [tasks EXCEPT ![s] = "done"]
    /\ UNCHANGED <<point, at, commandVars, got, reason, outcome, disturbed>>

Reap ==
    /\ tasks["exit"] = "running" /\ process # "running"
    /\ tasks' = [tasks EXCEPT !["exit"] = "done"]
    /\ UNCHANGED <<point, at, commandVars, got, reason, outcome, disturbed>>

\* _response_object, _outcome_from_response
Answer ==
    CASE answer = "nonsense" -> Failed
      [] answer = "pass"     -> Told("answered", FALSE, FALSE)
      [] answer = "block"    -> Told("answered", TRUE, FALSE)
      [] answer = "change"   -> Told("answered", FALSE, point = "pre")

Collected ==
    /\ at = "collecting" /\ \A t \in Tasks : tasks[t] = "done"
    /\ at' = "over"
    /\ outcome' = IF process = "succeeded" THEN Answer ELSE Failed
    /\ UNCHANGED <<point, commandVars, got, tasks, reason, disturbed>>

\* The first half of _stop_process: a command that has ended is left alone.
Stop(why) ==
    /\ reason' = why
    /\ at' = IF process = "running" THEN "terminating" ELSE "settling"
    /\ UNCHANGED <<point, commandVars, got, outcome, disturbed>>

\* The tasks of a gather that is timed out or cancelled are cancelled with it.
TimeOut ==
    /\ at \in {"sending", "collecting"}
    /\ tasks' = NoTasks
    /\ Stop("timed_out")
\* Mutant of Cancel: the cancellation of the task is thought to be enough.
CancelTheTaskOnly ==
    /\ at \in {"sending", "collecting"}
    /\ tasks' = NoTasks
    /\ at' = "over" /\ outcome' = Told("cancelled", FALSE, FALSE)
    /\ UNCHANGED <<point, commandVars, got, reason, disturbed>>
Cancel ==
    /\ at \in {"sending", "collecting"}
    /\ tasks' = NoTasks
    /\ Stop("cancelled")

\* Those of one that fails go on.
TooLong ==
    /\ at = "collecting" /\ \E s \in Streams : tasks[s] = "raised"
    /\ Stop("output_too_large")
    /\ UNCHANGED tasks
\* A broken pipe.
Break ==
    /\ at \in {"sending", "collecting"}
    /\ Stop("execution_failed")
    /\ UNCHANGED tasks

\* SIGTERM is obeyed, in time or too late, or ignored.
Kill ==
    /\ at = "terminating" /\ process = "running"
    /\ at' = "killing" /\ process' = "failed"
    /\ UNCHANGED <<point, held, said, got, answer, tasks, reason, outcome, disturbed>>

Stopped ==
    /\ at \in Ending /\ process # "running"
    /\ at' = "settling"
    /\ UNCHANGED <<point, commandVars, got, tasks, reason, outcome, disturbed>>

\* _cancel_tasks, and the answer.
Settle ==
    /\ at = "settling"
    /\ at' = "over" /\ tasks' = NoTasks
    /\ outcome' = IF reason = "cancelled" THEN Told("cancelled", FALSE, FALSE) ELSE Failed
    /\ UNCHANGED <<point, commandVars, got, reason, disturbed>>

\* A cancellation while the command is being ended: there is no handler of it, and
\* nobody sends the signal that is still to come.
CancelEnding ==
    /\ at \in Ending
    /\ at' = "over" /\ disturbed' = TRUE
    /\ outcome' = Told("cancelled", FALSE, FALSE)
    /\ UNCHANGED <<point, commandVars, got, tasks, reason>>
CancelSettling ==
    /\ at = "settling"
    /\ at' = "over" /\ tasks' = NoTasks
    /\ outcome' = Told("cancelled", FALSE, FALSE)
    /\ UNCHANGED <<point, commandVars, got, reason, disturbed>>

Next ==
    \/ \E s \in Streams : Say(s) \/ Read(s) \/ ReadEnd(s)
    \/ Exit \/ HelperExits
    \/ Refuse \/ Start \/ Sent \/ Reap \/ Collected
    \/ TimeOut \/ Cancel \/ TooLong \/ Break
    \/ Kill \/ Stopped \/ Settle
    \/ CancelEnding \/ CancelSettling

Spec == Init /\ [][Next]_vars

-----------------------------------------------------------------------------
\* A call that is over has left neither its command nor a task of its own running,
\* whatever the command, its helper, the deadlines and a cancellation did meanwhile,
\* unless it was cancelled once more while it ended the command; a command's answer
\* is taken only if it ended well and the whole of its output was read and within
\* the limit; neither a subagent nor what is over already is changed; and before an
\* action nothing but an answer lets it pass (_run_command, _failed_outcome).
NothingRunsOn ==
    at = "over" =>
        /\ disturbed \/ (process # "running" /\ \A t \in Tasks : tasks[t] # "running")
        /\ outcome.told = "answered" =>
              /\ process = "succeeded"
              /\ \A s \in Streams : got[s] = said[s] /\ got[s] <= Limit
              /\ outcome.blocked = (answer = "block")
              /\ outcome.changed => point = "pre" /\ answer = "change"
        /\ point # "post" /\ outcome.told = "failed" => outcome.blocked
=============================================================================
