--------------------------- MODULE SolutionCheck ---------------------------
(* The check of a solution where evalplus' own cannot run                    *)
(* (eval/evalplus.py, eval/validation.py).  The inputs of two groups are     *)
(* tried in a process of their own, which reports over a pipe when it begins *)
(* and ends with one and leaves its marks in shared memory; the supervisor   *)
(* polls the pipe, watches the limits of time and ends it if it must.  A     *)
(* check that could not be made is made once more.                           *)
EXTENDS Naturals, Sequences, SequencesExt, FiniteSets

CONSTANTS
    Inputs,         \* number of inputs of a group
    MaxAttempts     \* max_infra_retries + 1

VARIABLES
    tries,      \* attempts so far
    verdicts,   \* of the groups of this attempt, in order
    outcome,    \* "none", or the evaluation
    runner,     \* the process: where it is, its exit code
    marks,      \* details: right or wrong, of the inputs tried
    finished,   \* status: that of unsafe_execute
    pipe,       \* what it has sent and the supervisor has not read
    overtime,   \* inputs whose limit of time has passed; 0 for the group's
    late,       \* those that ended after that
    supervisor, \* where the supervisor is
    watching,   \* the input whose limit it watches, or 0
    heard       \* inputs of whose end it has read

vars == <<tries, verdicts, outcome, runner, marks, finished, pipe, overtime, late,
          supervisor, watching, heard>>

checkVars == <<tries, verdicts, outcome>>
runnerVars == <<runner, marks, finished>>

NoRunner == [at |-> "none", exit |-> 0]
Groups == 2
All == [n \in 1 .. Inputs |-> TRUE]

TypeOK ==
    /\ tries \in 0 .. MaxAttempts
    /\ verdicts \in BoundedSeq({"pass", "fail", "timeout"}, Groups)
    /\ outcome \in {"none", "passed", "failed", "error"}
    /\ runner.at \in {"none", "between", "trying", "over", "closed", "dead"}
    /\ marks \in BoundedSeq(BOOLEAN, Inputs)
    /\ finished \in {"none", "pass", "fail"}
    /\ overtime \subseteq 0 .. Inputs /\ late \subseteq 1 .. Inputs
    /\ supervisor \in {"idle", "look", "poll", "read", "join"}
    /\ watching \in 0 .. Inputs /\ heard \subseteq 1 .. Inputs

Init ==
    /\ tries = 0 /\ verdicts = <<>> /\ outcome = "none"
    /\ runner = NoRunner /\ marks = <<>> /\ finished = "none"
    /\ pipe = <<>> /\ overtime = {} /\ late = {}
    /\ supervisor = "idle" /\ watching = 0 /\ heard = {}

-----------------------------------------------------------------------------
(* The process (_windows_evalplus_worker and evalplus' unsafe_execute).    *)

Alive == runner.at \notin {"none", "dead"}
Trying == Len(marks) + 1

\* supervised_time_limit begins and ends; a wrong answer is the last.
Try ==
    /\ runner.at = "between" /\ Len(marks) < Inputs
    /\ runner' = [runner EXCEPT !.at = "trying"]
    /\ pipe' = Append(pipe, <<"start", Trying>>)
    /\ UNCHANGED <<checkVars, marks, finished, overtime, late, supervisor, watching, heard>>
Answer(right) ==
    /\ runner.at = "trying"
    /\ pipe' = Append(pipe, <<"end", Trying>>)
    /\ late' = IF Trying \in overtime THEN late \cup {Trying} ELSE late
    /\ marks' = Append(marks, right)
    /\ runner' = [runner EXCEPT !.at = IF right THEN "between" ELSE "over"]
    /\ finished' = IF right THEN finished ELSE "fail"
    /\ UNCHANGED <<checkVars, overtime, supervisor, watching, heard>>
AllTried ==
    /\ runner.at = "between" /\ Len(marks) = Inputs
    /\ runner' = [runner EXCEPT !.at = "over"]
    /\ finished' = "pass"
    /\ UNCHANGED <<checkVars, marks, pipe, overtime, late, supervisor, watching, heard>>

\* A solution that cannot be loaded; what the check itself raises is told.
Unloadable ==
    /\ runner.at = "between" /\ marks = <<>>
    /\ runner' = [runner EXCEPT !.at = "over"]
    /\ finished' = "fail"
    /\ UNCHANGED <<checkVars, marks, pipe, overtime, late, supervisor, watching, heard>>
Raise ==
    /\ runner.at = "between" /\ marks = <<>>
    /\ runner' = [at |-> "over", exit |-> 1]
    /\ pipe' = Append(pipe, <<"error", 0>>)
    /\ UNCHANGED <<checkVars, marks, finished, overtime, late, supervisor, watching, heard>>
ClosePipe ==
    /\ runner.at = "over"
    /\ runner' = [runner EXCEPT !.at = "closed"]
    /\ UNCHANGED <<checkVars, marks, finished, pipe, overtime, late, supervisor, watching, heard>>
Exit ==
    /\ runner.at = "closed"
    /\ runner' = [runner EXCEPT !.at = "dead"]
    /\ UNCHANGED <<checkVars, marks, finished, pipe, overtime, late, supervisor, watching, heard>>

\* The solution takes the process with it.
Die(code) ==
    /\ runner.at = "trying"
    /\ runner' = [at |-> "dead", exit |-> code]
    /\ UNCHANGED <<checkVars, marks, finished, pipe, overtime, late, supervisor, watching, heard>>

\* Time passes: the limit of an input that was begun, or that of the group.
Elapse(limit) ==
    /\ limit \notin overtime
    /\ Alive /\ limit <= IF runner.at = "trying" THEN Trying ELSE Len(marks)
    /\ overtime' = overtime \cup {limit}
    /\ UNCHANGED <<checkVars, runnerVars, pipe, late, supervisor, watching, heard>>

-----------------------------------------------------------------------------
(* The supervisor (_windows_untrusted_check, _monitor_windows_evalplus_worker).*)

\* A group's verdict, behind which its process is gone (_stop_process).
NextGroup(verdict) ==
    /\ verdicts' = Append(verdicts, verdict)
    /\ outcome' = IF Len(verdicts') < Groups THEN outcome
                  ELSE IF \A g \in 1 .. Groups : verdicts'[g] = "pass" THEN "passed"
                  ELSE "failed"
    /\ UNCHANGED tries
\* No verdict: the whole check is made again, or given up (EvalPlusValidator).
NoVerdict ==
    /\ verdicts' = <<>>
    /\ outcome' = IF tries < MaxAttempts THEN outcome ELSE "error"
    /\ UNCHANGED tries
Gone ==
    /\ runner' = IF Alive THEN [at |-> "dead", exit |-> 1] ELSE runner
    /\ supervisor' = "idle"
    /\ UNCHANGED <<marks, finished, pipe, overtime, late, watching, heard>>

StartRunner ==
    /\ supervisor = "idle" /\ outcome = "none"
    /\ tries' = IF verdicts = <<>> THEN tries + 1 ELSE tries
    /\ runner' = [at |-> "between", exit |-> 0]
    /\ marks' = <<>> /\ finished' = "none" /\ pipe' = <<>>
    /\ overtime' = {} /\ late' = {} /\ watching' = 0 /\ heard' = {}
    /\ supervisor' = "look"
    /\ UNCHANGED <<verdicts, outcome>>
StartFails ==
    /\ supervisor = "idle" /\ outcome = "none"
    /\ tries' = IF verdicts = <<>> THEN tries + 1 ELSE tries
    /\ verdicts' = <<>>
    /\ outcome' = IF tries' < MaxAttempts THEN outcome ELSE "error"
    /\ UNCHANGED <<runnerVars, pipe, overtime, late, supervisor, watching, heard>>

GoesOn(at) ==
    /\ supervisor' = at
    /\ UNCHANGED <<checkVars, runnerVars, pipe, overtime, late, watching, heard>>

\* What the loop looks at first; a process that is gone is not asked any more.
Look ==
    /\ supervisor = "look"
    /\ IF ~Alive THEN GoesOn("join")
       ELSE IF watching # 0 /\ watching \in overtime THEN NextGroup("fail") /\ Gone
       ELSE IF 0 \in overtime THEN NextGroup("timeout") /\ Gone
       ELSE GoesOn("poll")
Ended == runner.at \in {"closed", "dead"}
Poll ==
    /\ supervisor = "poll"
    /\ GoesOn(IF pipe # <<>> \/ Ended THEN "read" ELSE "look")

\* Mutant of TooLate: when an input ended is not asked.
TooLateToWatch(input) == FALSE
\* An end after the limit that is being watched.
TooLate(input) == watching # 0 /\ input \in late

Read ==
    /\ supervisor = "read" /\ pipe # <<>>
    /\ pipe' = Tail(pipe)
    /\ heard' = IF pipe[1][1] = "end" THEN heard \cup {pipe[1][2]} ELSE heard
    /\ watching' = CASE pipe[1][1] = "start" -> pipe[1][2]
                     [] pipe[1][1] = "end" -> 0
                     [] OTHER -> watching
    /\ IF pipe[1][1] = "end" /\ TooLate(pipe[1][2])
       THEN /\ NextGroup("fail")
            /\ runner' = IF Alive THEN [at |-> "dead", exit |-> 1] ELSE runner
            /\ supervisor' = "idle"
       ELSE /\ supervisor' = IF pipe' # <<>> \/ Ended THEN "read" ELSE "look"
            /\ UNCHANGED <<checkVars, runner>>
    /\ UNCHANGED <<marks, finished, overtime, late>>

\* The end of the pipe: the process is waited for a while.
ReadClosed ==
    /\ supervisor = "read" /\ pipe = <<>>
    /\ IF Alive THEN NoVerdict /\ Gone ELSE GoesOn("join")

\* _windows_untrusted_check: the exit code, the status, and the marks behind it.
Conclude ==
    /\ supervisor = "join"
    /\ IF runner.exit # 0 \/ finished = "none" THEN NoVerdict
       ELSE NextGroup(IF finished = "pass" /\ marks = All THEN "pass" ELSE "fail")
    /\ Gone

Next ==
    \/ Try \/ AllTried \/ Unloadable \/ Raise \/ ClosePipe \/ Exit
    \/ \E right \in BOOLEAN : Answer(right)
    \/ \E code \in 0 .. 1 : Die(code)
    \/ \E limit \in 0 .. Inputs : Elapse(limit)
    \/ StartRunner \/ StartFails \/ Look \/ Poll \/ Read \/ ReadClosed \/ Conclude

Spec == Init /\ [][Next]_vars

-----------------------------------------------------------------------------
(* What a verdict is worth.                                                *)

\* However the process, the pipe and the clock race with the supervisor: a group
\* passes only when every input was tried and answered right and none whose end
\* the supervisor has read was too late (it does not read what is left of a process
\* that is gone); nothing is concluded while the process lives; and a check that is
\* given up was given up as often as it may be tried (_windows_untrusted_check,
\* EvalPlusValidator.validate).
VerdictsAreEarned ==
    /\ supervisor = "idle" /\ verdicts # <<>> /\ verdicts[Len(verdicts)] = "pass" =>
          marks = All /\ heard \cap late = {}
    /\ supervisor = "idle" => ~Alive
    /\ outcome = "passed" => verdicts = [g \in 1 .. Groups |-> "pass"]
    /\ outcome = "error" => tries = MaxAttempts
=============================================================================
