----------------------------- MODULE AgentTurn -----------------------------
(***************************************************************************)
(* The turns of one session: AgentLoop.run_turn with its RecoveryPolicy    *)
(* and StopPolicy (src/litecoder/agent/{loop,stop}.py and                  *)
(* src/litecoder/common/errors/{recovery,retry}.py).                       *)
(*                                                                         *)
(* A turn repeats: take in what other agents and background jobs left, ask *)
(* the model, act on the answer.  A fresh AgentLoop and RecoveryPolicy     *)
(* serve each turn, and a session runs one turn at a time (AgentRuntime).  *)
(* Every await is a place where the turn may be cancelled or may raise,    *)
(* and where notices may arrive; a phase is the code between two of them.  *)
(*                                                                         *)
(* No provider adapter produces PAUSE_TURN or STOP_SEQUENCE, so the loop's *)
(* branches for them are left out.  What a batch of tool calls does is     *)
(* ToolExecutor's matter; memory extraction, hooks after the fact and UI   *)
(* events change nothing here.  A todo list that cannot be read counts as   *)
(* done in the code; here it can be read.                                  *)
(***************************************************************************)
EXTENDS Integers, Sequences

CONSTANTS
    MaxRounds,          \* RuntimeBudgets.max_rounds
    Limited,            \* RuntimeBudgets.max_tokens is not None
    MaxContinuations,   \* MAX_CONTINUATIONS
    MaxRetries,         \* RetryBudget.max_attempts
    MaxRepairs,         \* RepairBudget.max_attempts
    RepairsPerKind,     \* RepairBudget.max_attempts_per_category
    ReminderRounds,     \* TODO_REMINDER_TOOL_ROUNDS
    CanCompact,         \* ContextManager.can_compact
    Stops,              \* the stop reasons of the adapter in use
    StreamFailures,     \* its failure codes for invalid streams
    TransportFailures,  \* its codes for errors that may pass
    Notices,            \* what background jobs and teammates may report
    MaxTurns,           \* bound: turns of the session
    MaxSummaries,       \* bound: summaries in the session's log
    MaxLogOfOthers      \* bound: messages in the log when others than the turn act

ASSUME BudgetAssumptions ==
    /\ MaxRounds \in Nat \ {0}
    /\ MaxContinuations \in Nat /\ MaxRetries \in Nat
    /\ MaxRepairs \in Nat /\ RepairsPerKind \in Nat
    /\ ReminderRounds \in Nat \ {0}
    /\ Limited \in BOOLEAN /\ CanCompact \in BOOLEAN
    /\ MaxTurns \in Nat /\ MaxSummaries \in Nat /\ MaxLogOfOthers \in Nat
    /\ Stops \subseteq {"end_turn", "tool_use", "max_tokens", "refusal",
                       "context_exhausted", "unknown", "missing"}
    /\ TransportFailures \subseteq {"provider_transient", "provider_rate_limit"}

VARIABLES
    phase,           \* where the turn is
    turns,           \* how many turns have begun
    status,          \* the session's status in the store
    outcome,         \* status of the turn: what _finish gets
    round,           \* round_number
    continuations,   \* continuations
    expanded,        \* max_tokens_expanded
    compacted,       \* reactive_compaction_attempted
    retries,         \* RetryBudget.attempts
    repairs,         \* RepairBudget.attempts
    repaired,        \* RepairBudget.total_attempts
    reconciled,      \* final_todo_reconciliation_attempted
    sinceTodo,       \* rounds_since_todo
    pending,         \* the kind of pending_recovery
    feedback,        \* response_repair_feedback is not None
    over,            \* usage exceeds max_tokens
    openTodos,       \* _has_open_todos of the session's list
    log,             \* the session's messages
    queue,           \* by source: notices that wait for this session
    hand,            \* notices taken from a source and not yet in the log
    arrived,         \* history: notices that ever came
    lost,            \* history: notices in hand when a turn was cut short
    heard            \* history: what the turn's last request brought

budgets == <<round, continuations, expanded, compacted, retries, repairs,
             repaired, reconciled, sinceTodo>>
recovery == <<pending, feedback, heard>>
mail == <<queue, hand, lost, arrived>>
session == <<log, openTodos>>
vars == <<phase, turns, status, outcome, budgets, recovery, over, session, mail>>

-----------------------------------------------------------------------------
Sources == {"jobs", "team"}

\* The phases in which the turn is in its loop.
Drains == {"jobs", "jobs_in_hand", "team", "team_in_hand"}
LoopPhases ==
    Drains \cup {"build", "model", "recover", "reconcile", "tools", "remind"}
Phases == LoopPhases \cup {"rest", "prompt", "finish", "closing"}

Answers == [stop : Stops, blocks : {"empty", "text", "calls"}]

Messages ==
    [kind : {"prompt", "answer", "results", "continue", "reminder", "notices",
             "summary", "compaction"},
     stop : Stops \cup {"none"}, calls : BOOLEAN, notices : SUBSET Notices]

Message(kind) ==
    [kind |-> kind, stop |-> "none", calls |-> FALSE, notices |-> {}]
NoticeMessage(ns) ==
    [kind |-> "notices", stop |-> "none", calls |-> FALSE, notices |-> ns]
AnswerMessage(a) ==
    [kind |-> "answer", stop |-> a.stop, calls |-> a.blocks = "calls", notices |-> {}]

Outcomes == {"completed", "incomplete", "refused", "failed", "cancelled"}

\* The table in _finish.
SessionStatus(o) ==
    CASE o = "completed" -> "idle"
      [] o = "incomplete" -> "incomplete"
      [] o = "cancelled" -> "cancelled"
      [] OTHER -> "failed"

\* _invalid_completed_response_error: an answer that says nothing usable.
Invalid(a) ==
    \/ a.stop \in {"unknown", "missing"}
    \/ a.stop = "tool_use" /\ a.blocks # "calls"
    \/ a.stop = "end_turn" /\ a.blocks = "empty"

FailureCode(a) ==
    CASE a.stop = "missing" -> "missing_response_completed"
      [] a.stop = "unknown" -> "unknown_stop_reason"
      [] a.stop = "tool_use" -> "tool_use_without_calls"
      [] OTHER -> "empty_response"

RepairKinds ==
    {"missing_response_completed", "unknown_stop_reason",
     "tool_use_without_calls", "empty_response"} \cup StreamFailures

RetryKinds == {"provider_transient", "provider_rate_limit", "context_overflow"}

TypeOK ==
    /\ phase \in Phases
    /\ turns \in 0..MaxTurns
    /\ status \in {"idle", "active", "incomplete", "failed", "cancelled"}
    /\ outcome \in Outcomes \cup {"none"}
    /\ round \in 1..MaxRounds + 1
    /\ continuations \in 0..MaxContinuations
    /\ expanded \in BOOLEAN /\ compacted \in BOOLEAN /\ reconciled \in BOOLEAN
    /\ feedback \in BOOLEAN /\ over \in BOOLEAN /\ openTodos \in BOOLEAN
    /\ retries \in [RetryKinds -> 0..MaxRetries]
    /\ repairs \in [RepairKinds -> 0..RepairsPerKind]
    /\ repaired \in 0..MaxRepairs
    /\ sinceTodo \in 0..ReminderRounds
    /\ pending \in {"none", "retry", "retry_with_feedback", "compact_then_retry"}
    /\ log \in Seq(Messages)
    /\ queue \in [Sources -> SUBSET Notices]
    /\ hand \subseteq Notices /\ lost \subseteq Notices /\ arrived \subseteq Notices
    /\ heard \in {"nothing", "answer", "failure"}

\* The loop and the policy live as long as the turn: at rest they are as new.
Fresh ==
    /\ round' = 1
    /\ continuations' = 0
    /\ retries' = [k \in RetryKinds |-> 0]
    /\ repairs' = [k \in RepairKinds |-> 0]
    /\ repaired' = 0
    /\ sinceTodo' = 0
    /\ expanded' = FALSE /\ compacted' = FALSE /\ reconciled' = FALSE
    /\ pending' = "none" /\ feedback' = FALSE /\ heard' = "nothing"
    /\ over' = FALSE

Init ==
    /\ phase = "rest" /\ turns = 0 /\ status = "idle" /\ outcome = "none"
    /\ round = 1 /\ continuations = 0 /\ repaired = 0 /\ sinceTodo = 0
    /\ retries = [k \in RetryKinds |-> 0]
    /\ repairs = [k \in RepairKinds |-> 0]
    /\ expanded = FALSE /\ compacted = FALSE /\ reconciled = FALSE
    /\ pending = "none" /\ feedback = FALSE /\ heard = "nothing"
    /\ over = FALSE /\ openTodos \in BOOLEAN /\ log = <<>>
    /\ queue = [s \in Sources |-> {}] /\ hand = {} /\ lost = {} /\ arrived = {}

-----------------------------------------------------------------------------
(* The loop.                                                               *)

Goto(p) == phase' = p /\ UNCHANGED outcome

\* The loop ends; what remains is to tell so.
Stop(o) == phase' = "finish" /\ outcome' = o

\* A runtime gives the session a turn, with a loop and a policy of its own.
Start ==
    /\ phase = "rest"
    /\ turns < MaxTurns
    /\ turns' = turns + 1
    /\ phase' = "prompt" /\ outcome' = "none"
    /\ status' = "active"
    /\ UNCHANGED <<budgets, recovery, over, session, mail>>

\* USER_PROMPT_SUBMIT hooks may refuse the prompt; else it is appended.
SubmitPrompt ==
    /\ phase = "prompt"
    /\ \/ Stop("failed") /\ UNCHANGED log
       \/ Goto("jobs") /\ log' = Append(log, Message("prompt"))
    /\ UNCHANGED <<turns, status, budgets, recovery, over, openTodos, mail>>

AfterDrain(source) == IF source = "jobs" THEN "team" ELSE "build"
InHand(source) == IF source = "jobs" THEN "jobs_in_hand" ELSE "team_in_hand"

\* drain_notifications and drain_inbox forget what they return.
TakeAndKeep(source) == UNCHANGED queue
Take(source) == queue' = [queue EXCEPT ![source] = {}]

Drain(source) ==
    /\ phase = source
    /\ hand' = queue[source]
    /\ Take(source)
    /\ Goto(IF queue[source] = {} THEN AfterDrain(source) ELSE InHand(source))
    /\ UNCHANGED <<turns, status, budgets, recovery, over, session, lost, arrived>>

Inject(source) ==
    /\ phase = InHand(source)
    /\ log' = Append(log, NoticeMessage(hand))
    /\ hand' = {}
    /\ Goto(AfterDrain(source))
    /\ UNCHANGED <<turns, status, budgets, recovery, over, openTodos, queue, lost,
                   arrived>>

\* A summary is one more message; older ones are no longer sent.  Those that
\* /compact leaves are told apart from the turn's own.
IsSummary(m) == m.kind \in {"summary", "compaction"}
SummariesFit == Len(SelectSeq(log, IsSummary)) < MaxSummaries
MaySummarize ==
    \/ UNCHANGED log
    \/ /\ CanCompact
       /\ SummariesFit
       /\ log' = Append(log, Message("summary"))

\* build_request, which may compact, and PRE_MODEL_CALL hooks, which may refuse.
Build ==
    /\ phase = "build"
    /\ MaySummarize
    /\ Goto("model") \/ Stop("failed")
    /\ UNCHANGED <<turns, status, budgets, recovery, over, openTodos, mail>>

-----------------------------------------------------------------------------
(* What a request brings.                                                  *)

\* commit_round: the usage of a round, failed or not, counts.
Spend == over' \in (IF Limited THEN {over, TRUE} ELSE {over})

\* A usable answer settles the recovery that asked for it.
SettleKeepsFeedback == pending' = "none" /\ heard' = "answer" /\ UNCHANGED feedback
Settle ==
    /\ pending' = "none"
    /\ feedback' = (feedback /\ pending = "none")
    /\ heard' = "answer"

MayContinueOnceMore == continuations <= MaxContinuations
MayContinue == continuations < MaxContinuations

\* An answer cut off by the output limit is continued, with a higher limit.
Truncated(a) ==
    /\ phase = "model" /\ a.stop = "max_tokens"
    /\ Spend /\ Settle
    /\ IF over' \/ ~MayContinue
       THEN /\ Stop("incomplete")
            /\ log' = Append(log, AnswerMessage(a))
            /\ UNCHANGED budgets
       ELSE /\ Goto("jobs")
            /\ expanded' = TRUE
            /\ continuations' = continuations + 1
            /\ log' = Append(Append(log, AnswerMessage(a)), Message("continue"))
            /\ UNCHANGED <<round, compacted, retries, repairs, repaired,
                           reconciled, sinceTodo>>
    /\ UNCHANGED <<turns, status, openTodos, mail>>

\* The other answers, by StopPolicy.decide.
Answered(a) ==
    /\ phase = "model" /\ ~Invalid(a)
    /\ a.stop \in {"end_turn", "tool_use", "refusal"}
    /\ Spend /\ Settle
    /\ log' = Append(log, AnswerMessage(a))
    /\ IF over' THEN Stop("incomplete")
       ELSE \/ a.stop = "end_turn" /\ Goto("reconcile")
            \/ a.stop = "tool_use" /\ Goto("tools")
            \/ a.stop = "refusal" /\ Stop("refused")
    /\ UNCHANGED <<turns, status, budgets, openTodos, mail>>

\* RecoveryPolicy.choose and _recover_provider_error, up to the first await.
Retry(code) ==
    IF retries[code] < MaxRetries
    THEN /\ retries' = [retries EXCEPT ![code] = @ + 1]
         /\ pending' = "retry"
         /\ Goto("recover")
    ELSE Stop("incomplete") /\ UNCHANGED <<retries, pending>>

Repair(code) ==
    IF repaired < MaxRepairs /\ repairs[code] < RepairsPerKind
    THEN /\ repairs' = [repairs EXCEPT ![code] = @ + 1]
         /\ repaired' = repaired + 1
         /\ pending' = "retry_with_feedback"
         /\ feedback' = TRUE
         /\ Goto("jobs")
    ELSE Stop("incomplete") /\ UNCHANGED <<repairs, repaired, pending, feedback>>

Overflow ==
    /\ compacted' = TRUE
    /\ IF CanCompact /\ ~compacted /\ retries["context_overflow"] < MaxRetries
       THEN /\ retries' = [retries EXCEPT !["context_overflow"] = @ + 1]
            /\ pending' = "compact_then_retry"
            /\ Goto("recover")
       ELSE Stop("incomplete") /\ UNCHANGED <<retries, pending>>

Failing == phase = "model" /\ Spend /\ heard' = "failure"

ProviderFails(code) ==
    /\ Failing
    /\ Retry(code)
    /\ UNCHANGED <<turns, status, round, continuations, expanded, compacted, repairs,
                   repaired, reconciled, sinceTodo, feedback, session, mail>>

ProviderRefuses ==
    /\ Failing
    /\ Stop("failed")
    /\ UNCHANGED <<turns, status, budgets, pending, feedback, session, mail>>

AnswerInvalid(code) ==
    /\ Failing
    /\ Repair(code)
    /\ UNCHANGED <<turns, status, round, continuations, expanded, compacted, retries,
                   reconciled, sinceTodo, session, mail>>

ContextOverflows ==
    /\ Failing
    /\ Overflow
    /\ UNCHANGED <<turns, status, round, continuations, expanded, repairs, repaired,
                   reconciled, sinceTodo, feedback, session, mail>>

Respond ==
    \/ \E a \in Answers : \/ Truncated(a)
                          \/ Answered(a)
                          \/ Invalid(a) /\ AnswerInvalid(FailureCode(a))
    \/ \E code \in StreamFailures : AnswerInvalid(code)
    \/ \E code \in TransportFailures : ProviderFails(code)
    \/ ContextOverflows
    \/ ProviderRefuses

\* The delay before a retry, or a compaction, which may fail.
Recover ==
    /\ phase = "recover"
    /\ \/ pending = "retry" /\ Goto("jobs") /\ UNCHANGED log
       \/ pending = "compact_then_retry" /\ Goto("jobs") /\ MaySummarize
       \/ pending = "compact_then_retry" /\ Stop("failed") /\ UNCHANGED log
    /\ UNCHANGED <<turns, status, budgets, recovery, over, openTodos, mail>>

-----------------------------------------------------------------------------
(* What follows an answer.                                                 *)

CountForFree == UNCHANGED round
CountRound == round' = round + 1

MaySendBackTooEarly == ~reconciled /\ round + 1 < MaxRounds
MaySendBack == ~reconciled /\ round < MaxRounds

\* The model says it is done: once, open todos send it back.
Reconcile ==
    /\ phase = "reconcile"
    /\ IF MaySendBack /\ openTodos
       THEN /\ reconciled' = TRUE
            /\ log' = Append(log, Message("reminder"))
            /\ CountRound
            /\ Goto("jobs")
       ELSE Stop("completed") /\ UNCHANGED <<reconciled, log, round>>
    /\ UNCHANGED <<turns, status, continuations, expanded, compacted, retries, repairs,
                   repaired, sinceTodo, recovery, over, openTodos, mail>>

AppendReminderThenResults ==
    log' = Append(Append(log, Message("reminder")), Message("results"))
AppendResults == log' = Append(log, Message("results"))

\* The batch has run and its results are appended; todo_write may be in it.
RunTools ==
    /\ phase = "tools"
    /\ AppendResults
    /\ \E wrote \in BOOLEAN :
          /\ openTodos' \in (IF wrote THEN BOOLEAN ELSE {openTodos})
          /\ sinceTodo' = IF openTodos' /\ ~wrote THEN sinceTodo + 1 ELSE 0
    /\ Goto("remind")
    /\ UNCHANGED <<turns, status, round, continuations, expanded, compacted, retries,
                   repairs, repaired, reconciled, recovery, over, mail>>

Remind ==
    /\ phase = "remind"
    /\ IF sinceTodo >= ReminderRounds
       THEN log' = Append(log, Message("reminder")) /\ sinceTodo' = 0
       ELSE UNCHANGED <<log, sinceTodo>>
    /\ expanded' = FALSE
    /\ continuations' = 0
    /\ CountRound
    /\ IF round < MaxRounds THEN Goto("jobs") ELSE Stop("incomplete")
    /\ UNCHANGED <<turns, status, compacted, retries, repairs, repaired, reconciled,
                   recovery, over, openTodos, mail>>

\* _finish stores the status; hooks and displays follow.
Finish ==
    /\ phase = "finish"
    /\ status' = SessionStatus(outcome)
    /\ Goto("closing")
    /\ UNCHANGED <<turns, budgets, recovery, over, session, mail>>

Return ==
    /\ phase = "closing"
    /\ Goto("rest")
    /\ Fresh
    /\ UNCHANGED <<turns, status, session, mail>>

\* _cancelled, _failed_exception: the status is stored if it is done in time.
Abort(o) ==
    /\ phase # "rest"
    /\ phase' = "rest" /\ outcome' = o
    /\ status' \in {status, SessionStatus(o)}
    /\ hand' = {} /\ lost' = lost \cup hand
    /\ Fresh
    /\ UNCHANGED <<turns, session, queue, arrived>>

OthersMayAct == Len(log) <= MaxLogOfOthers

\* A background job ends, or a teammate writes.
Arrive(source, n) ==
    /\ n \notin arrived
    /\ OthersMayAct
    /\ arrived' = arrived \cup {n}
    /\ queue' = [queue EXCEPT ![source] = @ \cup {n}]
    /\ UNCHANGED <<phase, turns, status, outcome, budgets, recovery, over, session,
                   hand, lost>>

\* /compact summarizes the session, here or in another process: it takes neither
\* the lock of the session's tree nor a lease, so any turn may be under way.
CompactSession ==
    /\ log # <<>>
    /\ OthersMayAct
    /\ SummariesFit
    /\ log' = Append(log, Message("compaction"))
    /\ UNCHANGED <<phase, turns, status, outcome, budgets, recovery, over, openTodos,
                   mail>>

Next ==
    \/ Start \/ SubmitPrompt
    \/ \E s \in Sources : Drain(s) \/ Inject(s)
    \/ Build \/ Respond \/ Recover
    \/ Reconcile \/ RunTools \/ Remind
    \/ Finish \/ Return
    \/ \E o \in {"cancelled", "failed"} : Abort(o)
    \/ \E s \in Sources, n \in Notices : Arrive(s, n)
    \/ CompactSession

Spec == Init /\ [][Next]_vars

-----------------------------------------------------------------------------
(* What the turns promise.                                                 *)

Asks(m) == m.stop = "tool_use"

\* The message at j is the next after the one at i, but for what /compact left.
Adjoin(l, i, j) == i < j /\ \A k \in i + 1 .. j - 1 : l[k].kind = "compaction"

\* The calls a model stops for are answered, in the very next message, before
\* the model is asked again: the turn itself puts nothing between them, neither a
\* notice nor a reminder nor a summary of its own, and results answer calls that
\* are there.  Only a turn that was cut short leaves them without results; the
\* next turn's prompt follows then.  A summary that /compact appends meanwhile is
\* the one thing that gets between (compact_session waits for no turn), and
\* _valid_groups, which drops calls and results that do not adjoin (_run_turn),
\* is then without both.  Calls in an answer that stopped for another reason are
\* not run.
AnsweredBeforeNext ==
    /\ \A i \in DOMAIN log :
          log[i].kind = "results" =>
              \E j \in DOMAIN log : Adjoin(log, j, i) /\ Asks(log[j]) /\ log[j].calls
    /\ \A i \in DOMAIN log :
          Asks(log[i]) =>
              /\ \A j \in DOMAIN log :
                    Adjoin(log, i, j) => log[j].kind \in {"results", "prompt", "compaction"}
              /\ Adjoin(log, i, Len(log) + 1) => phase \notin LoopPhases \ {"tools"}

\* A turn is reported as completed only if the last message, but for what
\* /compact left, is the model's own end of turn, within the token budget, and no
\* todo is left open that the model was not reminded of while there were rounds
\* to go; and the status the session is left with is the one of the outcome
\* (_run_turn, _finish).
CompletedMeansDone ==
    phase \in {"finish", "closing"} /\ outcome = "completed" =>
        /\ \E i \in DOMAIN log :
              Adjoin(log, i, Len(log) + 1) /\ log[i].stop = "end_turn"
        /\ ~over
        /\ openTodos => reconciled \/ round = MaxRounds
StatusTellsOutcome ==
    phase = "rest" /\ outcome \in {"completed", "incomplete", "refused"} =>
        status = SessionStatus(outcome)
OutcomeIsHonest == CompletedMeansDone /\ StatusTellsOutcome

\* The model is asked again beyond the token budget only to recover from a
\* response that failed, is told to repair a response only as long as no usable
\* one has come since, and has the higher output limit just when an answer has
\* been cut off since the last results or the prompt (the resets in _run_turn).
OverBudgetOnlyToRecover == over => heard = "failure"
FeedbackIsCurrent == feedback => heard = "failure"
CutOff ==
    \E i \in DOMAIN log :
        /\ log[i].stop = "max_tokens"
        /\ \A j \in i + 1 .. Len(log) : log[j].kind \notin {"prompt", "results"}
LimitFollowsTruncation == phase # "remind" => (expanded <=> CutOff)
RequestsFit ==
    phase \in LoopPhases =>
        OverBudgetOnlyToRecover /\ FeedbackIsCurrent /\ LimitFollowsTruncation

\* A notice that came is in one place: waiting, taken, in one message of the
\* log, or lost with a turn that was cut short with the notice in hand
\* (_inject_background_notifications and _inject_team_messages).
InLog == UNION {log[i].notices : i \in DOMAIN log}
Waiting == queue["jobs"] \cup queue["team"]
NoticesOnce ==
    /\ arrived = Waiting \cup hand \cup lost \cup InLog
    /\ queue["jobs"] \cap queue["team"] = {}
    /\ Waiting \cap (hand \cup lost \cup InLog) = {}
    /\ hand \cap (lost \cup InLog) = {}
    /\ lost \cap InLog = {}
    /\ \A i, j \in DOMAIN log : i # j => log[i].notices \cap log[j].notices = {}

\* How much a turn may still do: a round has its continuations, and retries,
\* repairs, a compaction and continuations each pay for one more request.
\* Between two requests the phases only go down.
RoundsAfter(r) == (MaxRounds - r) * (MaxContinuations + 1)
Fuel ==
    RoundsAfter(round) + (MaxContinuations - continuations)
    + (MaxRetries - retries["provider_transient"])
    + (MaxRetries - retries["provider_rate_limit"])
    + (MaxRepairs - repaired) + (IF compacted THEN 0 ELSE 1)
Rank ==
    [p \in Phases |->
        CASE p \in {"prompt", "recover"} -> 11
          [] p = "jobs" -> 10 [] p = "jobs_in_hand" -> 9
          [] p = "team" -> 8 [] p = "team_in_hand" -> 7
          [] p = "build" -> 6 [] p = "model" -> 5
          [] p \in {"reconcile", "tools"} -> 4 [] p = "remind" -> 3
          [] p = "finish" -> 2 [] p = "closing" -> 1 [] p = "rest" -> 0]
Variant ==
    Rank[phase] + (IF phase \in LoopPhases \cup {"prompt"} THEN 12 * Fuel ELSE 0)

\* A turn ends: all that the loop does, including what recovery and
\* continuation make it repeat, counts down (the budgets of _run_turn).
Length == INSTANCE Countdown WITH running <- phase # "rest", left <- Variant
TurnCountsDown == Length!Spec
=============================================================================
