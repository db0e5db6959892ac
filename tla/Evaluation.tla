----------------------------- MODULE Evaluation -----------------------------
(* The evaluation harness (eval/suite.py, orchestrator.py, execution.py and  *)
(* the scores of eval/modes): a suite is a run per mode, a run a case per    *)
(* task, a case a candidate or two, and a candidate a script of steps with a *)
(* runtime, any of which may fail, the clean-up included.  The solution and  *)
(* what the evidence shows of it are choices; metrics are left out.          *)
EXTENDS Naturals, Sequences

CONSTANTS
    Plans,      \* the modes a suite may consist of, in order
    Tasks       \* bound: by mode, the tasks of a run

VARIABLES
    plan,       \* the modes of this suite
    runs,       \* the status of each run that was reported
    cases,      \* of the run under way: the status of each case
    reports,    \* of the case under way: its candidates' reports
    phase,      \* of the candidate under way: its script, or what comes after it
    step,       \* of its script
    execution,  \* what has become of it
    scored,     \* the reports behind the last case, until the next begins
    suite       \* "running", or how it ended

vars == <<plan, runs, cases, reports, phase, step, execution, scored, suite>>

Modes == {"agent-benchmark", "memory", "tools-hooks", "context-manager", "task-state"}
Mode == plan[Len(runs) + 1]

\* ExecutionCandidate: what a candidate's run consists of.
Turn == <<"build", "start", "turn", "state">>
Continued == <<"build", "start", "setup", "turn", "state">>
Recovered ==
    <<"build", "start", "stage", "shut", "build", "start", "resume", "turn",
      "finish", "state">>
Candidates(mode) ==
    CASE mode \in {"agent-benchmark", "memory"} -> <<Turn>>
      [] mode = "tools-hooks" -> <<Continued>>
      [] mode = "context-manager" -> <<Continued, Continued>>
      [] mode = "task-state" -> <<Recovered>>
Script == Candidates(Mode)[Len(reports) + 1]

\* Of the evidence: what a mode must have exercised for a case to count, and what
\* it must show for the case to pass.
Exercised(mode) ==
    CASE mode = "context-manager" -> {"compacted"}
      [] mode = "tools-hooks" -> {"probed"}
      [] OTHER -> {}
Required(mode) ==
    CASE mode \in {"memory", "context-manager"} -> {"marker"}
      [] mode = "tools-hooks" -> {"traced"}
      [] mode = "task-state" -> {"recovered", "dependencies", "artifact", "workflow"}
      [] OTHER -> {}

Fresh ==
    [open |-> FALSE,        \* its runtime was built and not closed
     result |-> "none",     \* of the last turn
     error |-> "none",      \* run_error: the step that failed
     raised |-> "none",     \* what leaves _run_once
     provider |-> FALSE,    \* a provider's final error was among the events
     shown |-> {},          \* evidence
     trouble |-> {}]        \* every step that ever failed, or "tidying"
NotScored == [status |-> "none", reports |-> <<>>]

TypeOK ==
    /\ plan \in Plans
    /\ \A r \in DOMAIN runs :
          runs[r] \in {"completed", "completed_with_infra_errors", "interrupted"}
    /\ \A c \in DOMAIN cases : cases[c] \in {"passed", "failed", "infra_error", "invalid"}
    /\ execution.open \in BOOLEAN /\ execution.provider \in BOOLEAN
    /\ execution.result \in {"none", "completed", "budget", "stopped"}
    /\ execution.raised \in {"none", "error", "cancelled"}
    /\ suite \in {"running", "completed", "completed_with_infra_errors",
                  "interrupted", "crashed"}

Init ==
    /\ plan \in Plans
    /\ runs = <<>> /\ cases = <<>> /\ reports = <<>>
    /\ phase = "next" /\ step = 1
    /\ execution = Fresh
    /\ scored = NotScored
    /\ suite = "running"

-----------------------------------------------------------------------------
(* A candidate's run (RuntimeCaseExecutor._run_once).                      *)

\* prepare_case, prepare_candidate.
Begin ==
    /\ suite = "running" /\ phase = "next"
    /\ Len(runs) < Len(plan) /\ Len(cases) < Tasks[Mode]
    /\ phase' = "script" /\ step' = 1
    /\ execution' = Fresh
    /\ scored' = NotScored
    /\ UNCHANGED <<plan, runs, cases, reports, suite>>

\* What a step does when it succeeds.  Only a setup that is not completed is the
\* result, and no turn follows.
Effects(kind) ==
    CASE kind = "build" -> {[execution EXCEPT !.open = TRUE]}
      [] kind = "shut" -> {[execution EXCEPT !.open = FALSE]}
      [] kind = "resume" ->
            {[execution EXCEPT !.shown = @ \cup {"recovered"} \cup kept] :
                kept \in SUBSET {"dependencies", "artifact"}}
      [] kind = "setup" ->
            {[execution EXCEPT !.result = turn.result, !.provider = turn.provider] :
                turn \in [result : {"none", "budget", "stopped"}, provider : BOOLEAN]}
      [] kind = "turn" ->
            {[execution EXCEPT !.result = turn.result, !.provider = @ \/ turn.provider] :
                turn \in [result : {"completed", "budget", "stopped"}, provider : BOOLEAN]}
      [] kind = "finish" ->
            {[execution EXCEPT !.shown =
                @ \cup (IF execution.result = "completed" THEN {"workflow"} ELSE {})]}
      [] kind = "state" ->
            {[execution EXCEPT !.shown = @ \cup compacted] :
                compacted \in SUBSET {"compacted"}}
      [] OTHER -> {execution}
Following(kind, result) ==
    IF kind = "setup" /\ result # "none" THEN step + 2 ELSE step + 1

Running == suite = "running" /\ phase = "script"
Succeed ==
    /\ Running
    /\ execution' \in Effects(Script[step])
    /\ IF step = Len(Script) THEN phase' = "close" /\ step' = 1
       ELSE step' = Following(Script[step], execution'.result) /\ UNCHANGED phase
    /\ UNCHANGED <<plan, runs, cases, reports, scored, suite>>

\* Only the first runtime is built outside of the try.
Fail ==
    /\ Running
    /\ Script[step] # "state"
    /\ execution' = [execution EXCEPT
            !.trouble = @ \cup {Script[step]},
            !.error = IF step = 1 THEN @ ELSE Script[step],
            !.raised = IF step = 1 THEN "error" ELSE @]
    /\ phase' = IF step = 1 THEN "executed" ELSE "close"
    /\ step' = 1
    /\ UNCHANGED <<plan, runs, cases, reports, scored, suite>>
Cancel ==
    /\ Running
    /\ Script[step] # "state"
    /\ execution' = [execution EXCEPT !.raised = "cancelled"]
    /\ phase' = IF step = 1 THEN "executed" ELSE "close"
    /\ step' = 1
    /\ UNCHANGED <<plan, runs, cases, reports, scored, suite>>

\* The nested finally: every part is tried, and what the last of those that
\* failed has raised is what is raised.
TidyUp(part, next) ==
    /\ suite = "running" /\ phase = part
    /\ \E raised \in {execution.raised, "error"}
                        \cup (IF part = "copy" THEN {} ELSE {"cancelled"}) :
          execution' = [execution EXCEPT
              !.raised = raised,
              !.open = IF part = "close" /\ raised = execution.raised THEN FALSE ELSE @,
              !.trouble = IF raised = "error" THEN @ \cup {"tidying"} ELSE @]
    /\ phase' = next
    /\ UNCHANGED <<step, plan, runs, cases, reports, scored, suite>>
Close == TidyUp("close", "copy")
CopyTrace == TidyUp("copy", "clients")
CloseClients == TidyUp("clients", "flush")
Flush == TidyUp("flush", "executed")

-----------------------------------------------------------------------------
(* A candidate's report (_run_candidate_once).                             *)

\* Mutant of Failure: the budget is looked at before the error of a step.
FailureOfBudget(x) ==
    IF x.raised = "error" THEN "orchestrator"
    ELSE IF x.result = "completed" THEN "none"
    ELSE IF x.result = "budget" THEN "budget"
    ELSE IF x.error # "none" THEN "runtime"
    ELSE IF x.provider THEN "provider" ELSE "agent"

\* _execution_failure, _execute_candidate.
Failure(x) ==
    IF x.raised = "error" THEN "orchestrator"
    ELSE IF x.result = "completed" THEN "none"
    ELSE IF x.error # "none" THEN "runtime"
    ELSE IF x.result = "budget" THEN "budget"
    ELSE IF x.provider THEN "provider" ELSE "agent"
Infrastructure == {"orchestrator", "runtime", "provider"}

\* _score_candidate.
CandidateStatus(failure, verdict, measured) ==
    IF verdict = "error" \/ failure \in Infrastructure THEN "infra_error"
    ELSE IF ~measured THEN "invalid"
    ELSE IF failure = "none" /\ verdict = "right" THEN "passed"
    ELSE "failed"

\* Of a report, what the properties compare its status with.
Untroubled(x) ==
    /\ x.trouble \subseteq {"finish"}
    /\ x.trouble # {} => x.result = "completed"
Truth(x, verdict, measured) ==
    [flawless |-> x.trouble = {},
     earned |-> x.result = "completed" /\ verdict = "right",
     fair |-> Untroubled(x) /\ verdict # "error" /\ measured,
     disturbed |-> x.trouble # {} \/ x.provider \/ verdict = "error"]

\* What is measured is in the solution or in the copied trace; nobody asks for the
\* evidence of any but the last candidate, and it is not kept here.
Measurable == {"marker", "probed", "traced"}
IsLast == Len(reports) + 1 = Len(Candidates(Mode))
Judge ==
    /\ suite = "running" /\ phase = "executed" /\ execution.raised # "cancelled"
    /\ \E verdict \in {"right", "wrong", "error"}, measured \in BOOLEAN :
       \E seen \in SUBSET (Measurable \cap (Exercised(Mode) \cup Required(Mode))) :
          reports' = Append(reports,
            [status |-> CandidateStatus(Failure(execution), verdict, measured),
             shown |-> IF ~IsLast THEN {}
                       ELSE (IF measured THEN seen ELSE {})
                            \cup (IF execution.raised = "error" THEN {} ELSE execution.shown),
             truth |-> Truth(execution, verdict, measured)])
    /\ phase' = IF IsLast THEN "score" ELSE "next"
    /\ UNCHANGED <<plan, runs, cases, step, execution, scored, suite>>

\* Nothing around it expects that the solution cannot be read any more.
CaptureFails ==
    /\ suite = "running" /\ phase = "executed" /\ execution.raised # "cancelled"
    /\ suite' = "crashed"
    /\ UNCHANGED <<plan, runs, cases, reports, phase, step, execution, scored>>

-----------------------------------------------------------------------------
(* Cases, runs and the suite.                                              *)

\* The score of a mode looks at the last candidate, if none of them is unfit.
CaseStatus ==
    LET statuses == {reports[r].status : r \in DOMAIN reports}
        main == reports[Len(reports)]
    IN  IF "infra_error" \in statuses THEN "infra_error"
        ELSE IF "invalid" \in statuses \/ ~(Exercised(Mode) \subseteq main.shown)
             THEN "invalid"
        ELSE IF main.status = "passed" /\ Required(Mode) \subseteq main.shown
             THEN "passed"
        ELSE "failed"
Score ==
    /\ suite = "running" /\ phase = "score"
    /\ cases' = Append(cases, CaseStatus)
    /\ scored' = [status |-> CaseStatus, mode |-> Mode, reports |-> reports]
    /\ reports' = <<>>
    /\ execution' = Fresh
    /\ phase' = "next"
    /\ UNCHANGED <<plan, runs, step, suite>>

RunStatus ==
    IF \E c \in DOMAIN cases : cases[c] = "infra_error"
    THEN "completed_with_infra_errors" ELSE "completed"
EndRun ==
    /\ suite = "running" /\ phase = "next"
    /\ Len(runs) < Len(plan) /\ Len(cases) = Tasks[Mode]
    /\ runs' = Append(runs, RunStatus)
    /\ cases' = <<>> /\ scored' = NotScored
    /\ suite' = IF Len(runs') < Len(plan) THEN suite
                ELSE IF \E r \in DOMAIN runs' : runs'[r] # "completed"
                     THEN "completed_with_infra_errors" ELSE "completed"
    /\ UNCHANGED <<plan, reports, phase, step, execution>>

\* A cancelled case is left out of its run's report, and nothing comes after it.
Interrupted ==
    /\ suite = "running" /\ phase = "executed" /\ execution.raised = "cancelled"
    /\ runs' = Append(runs, "interrupted")
    /\ suite' = "interrupted"
    /\ UNCHANGED <<plan, cases, reports, phase, step, execution, scored>>

Next ==
    \/ Begin \/ Succeed \/ Fail \/ Cancel
    \/ Close \/ CopyTrace \/ CloseClients \/ Flush
    \/ Judge \/ CaptureFails \/ Score \/ EndRun \/ Interrupted

Spec == Init /\ [][Next]_vars

-----------------------------------------------------------------------------
(* What a score is worth.                                                  *)

Last == scored.reports[Len(scored.reports)]
Truths == {scored.reports[r].truth : r \in DOMAIN scored.reports}

\* Whatever step of whichever candidate fails, the clean-up included, and whatever
\* else it has done by then: a case passes only by a turn that was completed, a
\* solution that is right and all the evidence its mode asks for, with nothing that
\* failed; a case counts as failed only when the harness did its part (but for the
\* tasks' last steps after a completed turn, which cost the case its evidence);
\* no runtime outlives its candidate unless its own closing failed; and a suite
\* that is called completed had nothing but such cases, each of them reported
\* (RuntimeCaseExecutor._run_once, _score_candidate, the modes' score, run_suite).
ScoresAreHonest ==
    /\ scored.status = "passed" =>
          /\ \A truth \in Truths : truth.flawless
          /\ Last.truth.earned
          /\ Required(scored.mode) \cup Exercised(scored.mode) \subseteq Last.shown
    /\ scored.status = "failed" => \A truth \in Truths : truth.fair
    /\ scored.status = "infra_error" => \E truth \in Truths : truth.disturbed
    /\ phase \in {"executed", "score", "next"} /\ execution.open =>
          execution.raised # "none"
    /\ suite = "completed" =>
          Len(runs) = Len(plan) /\ \A r \in DOMAIN runs : runs[r] = "completed"
=============================================================================
