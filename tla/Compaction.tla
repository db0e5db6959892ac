----------------------------- MODULE Compaction -----------------------------
(* What of a session's messages a request shows its model                   *)
(* (context/manager.py, context/compaction.py, context/manual_compaction.py).*)
(* Every request is built from the whole log: results of old tool rounds are *)
(* shortened, the oldest rounds left out, and when that is not enough, or    *)
(* when a provider has refused the request as too long, a summary of the     *)
(* oldest part is asked for and appended to the log, to stand for it from    *)
(* then on.  A second process may have the session open: its /compact takes  *)
(* no lock.  A message is as long as its tokens.                             *)
EXTENDS Naturals, Sequences, FiniteSets, FiniteSetsExt, SequencesExt

CONSTANTS
    Budget,         \* tokens of history a request may have
    ToolBudget,     \* tool_result_budget_tokens
    KeepRecent,     \* keep_recent_tool_rounds
    Preview,        \* tokens of a result that was shortened
    PromptSizes,    \* sets of tokens of the messages
    ResultSizes,
    SummarySizes,
    MaxLog,         \* bound: messages that are not summaries
    MaxSummaries,   \* bound
    MaxManual       \* bound: /compact of the other process

VARIABLES
    log,        \* the session's rows, in order: the index is the sequence
    turn,       \* where the agent's turn is
    overflows,  \* reactive_compaction_attempted
    jobs,       \* by actor: the compaction under way, or NoJob
    request,    \* what the last request showed: summary, messages, shortening
    manuals

vars == <<log, turn, overflows, jobs, request, manuals>>

Actors == {"turn", "manual"}
Stages == 0 .. 3        \* of a result: whole, preview, "[compacted]", empty
NoRequest == [summary |-> 0, shown |-> <<>>, stage |-> <<>>, budget |-> 0]
NoJob == [step |-> "none"]

TypeOK ==
    /\ \A n \in DOMAIN log :
          /\ log[n].kind \in {"prompt", "answer", "calls", "result", "summary"}
          /\ log[n].size \in Nat /\ log[n].cutoff \in 0 .. n - 1
          /\ log[n].told \subseteq 1 .. n - 1
    /\ turn \in {"idle", "building", "asking", "calling"}
    /\ overflows \in BOOLEAN
    /\ \A a \in Actors : jobs[a].step \in {"none", "loading", "ready", "summarizing"}
    /\ request.summary \in 0 .. Len(log)
    /\ manuals \in 0 .. MaxManual

Init ==
    /\ log = <<>>
    /\ turn = "idle"
    /\ overflows = FALSE
    /\ jobs = [a \in Actors |-> NoJob]
    /\ request = NoRequest
    /\ manuals = 0

Row(kind, size) ==
    [kind |-> kind, size |-> size, cutoff |-> 0, told |-> {}, text |-> TRUE]
Written(kind) == Cardinality({n \in DOMAIN log : log[n].kind = kind})
Messages == {n \in DOMAIN log : log[n].kind # "summary"}

-----------------------------------------------------------------------------
(* What is loaded, and how it is cut to size.                              *)

\* _restore_messages: the last summary, and the messages it does not cover.
Latest(rows) == Max({0} \cup {n \in DOMAIN rows : rows[n].kind = "summary"})
Restored(rows) ==
    LET cutoff == IF Latest(rows) = 0 THEN 0 ELSE rows[Latest(rows)].cutoff
    IN  SelectSeq([n \in 1 .. Len(rows) |-> n],
                  LAMBDA n : rows[n].kind # "summary" /\ n > cutoff)

\* _valid_groups: a round is a message with calls and the one with their results
\* right behind it; calls and results without each other are taken out.
PairAt(rows, view, i) ==
    /\ i \in 1 .. Len(view) - 1
    /\ rows[view[i]].kind = "calls" /\ rows[view[i + 1]].kind = "result"
Groups(rows, view) ==
    LET starts == SelectSeq([i \in 1 .. Len(view) |-> i], LAMBDA i :
            \/ PairAt(rows, view, i)
            \/ rows[view[i]].kind \notin {"calls", "result"}
            \/ rows[view[i]].kind = "calls" /\ rows[view[i]].text)
    IN  [g \in 1 .. Len(starts) |->
            LET i == starts[g]
            IN  IF PairAt(rows, view, i) THEN <<view[i], view[i + 1]>> ELSE <<view[i]>>]
Rounds(groups) == {g \in DOMAIN groups : Len(groups[g]) = 2}
Flat(groups) == FlattenSeq(groups)

\* estimate_message_tokens: a result is as long as it is left.
Length(rows, stage, n) ==
    IF n \notin DOMAIN stage THEN rows[n].size
    ELSE CASE stage[n] = 0 -> rows[n].size
           [] stage[n] = 1 -> Preview
           [] stage[n] = 2 -> 1
           [] OTHER -> 0
Tokens(rows, stage, numbers) ==
    FoldLeft(LAMBDA sum, n : sum + Length(rows, stage, n), 0, numbers)

\* _compact_tool_result: a preview, if that is shorter.
Previewed(rows, stage, n) ==
    IF stage[n] = 0 /\ Preview < rows[n].size THEN [stage EXCEPT ![n] = 1] ELSE stage

\* _enforce_total_tool_result_budget, _compact_older_tool_results.
Cut(rows, results, stage, cut) ==
    IF Tokens(rows, stage, results) <= ToolBudget THEN stage
    ELSE IF cut[1] = 1 THEN Previewed(rows, stage, cut[2])
    ELSE [stage EXCEPT ![cut[2]] = cut[1]]
Enforced(rows, results) ==
    FoldLeft(LAMBDA stage, cut : Cut(rows, results, stage, cut),
             [n \in Range(results) |-> 0],
             FlattenSeq([s \in 1 .. 3 |-> [r \in DOMAIN results |-> <<s, results[r]>>]]))
Shortened(rows, results) ==
    FoldLeft(LAMBDA stage, n : Previewed(rows, stage, n),
             Enforced(rows, results),
             SubSeq(results, 1, Len(results) - Min({KeepRecent, Len(results)})))
ResultsOf(groups) ==
    FoldLeft(LAMBDA results, g : IF Len(g) = 2 THEN Append(results, g[2]) ELSE results,
             <<>>, groups)

\* How much of the groups is left out: _snip_complete_groups, and with a forced
\* summary at least one; _expand_summary_prefix.
Rest(groups, k) == Flat(SubSeq(groups, k + 1, Len(groups)))
Fits(rows, stage, groups, k, budget) ==
    Tokens(rows, stage, Rest(groups, k)) <= budget
Protected(groups, g) ==
    g \in Rounds(groups) /\ Cardinality({h \in Rounds(groups) : h > g}) < KeepRecent
Snipped(rows, stage, groups, budget) ==
    Min({k \in 0 .. Len(groups) :
            \/ Fits(rows, stage, groups, k, budget)
            \/ k >= Len(groups) - 1
            \/ Protected(groups, k + 1)})
Expanded(rows, stage, groups, snipped, budget) ==
    Min({k \in snipped .. Len(groups) :
            Fits(rows, stage, groups, k, budget) \/ k = Len(groups)})

\* CompactionPolicy.compact up to the first summary: what it leaves out, and
\* whether that has to be summarized.
Reduced(rows, groups, stage, budget, force, forced) ==
    LET enough == Fits(rows, stage, groups, forced, budget) /\ ~(force /\ forced > 0)
    IN  [groups |-> groups, stage |-> stage,
         left |-> IF enough THEN forced
                  ELSE Expanded(rows, stage, groups, forced, budget),
         summarize |-> ~enough /\ groups # <<>>]
Forced(snipped, forcing, groups) ==
    IF forcing /\ snipped = 0 /\ groups # <<>> THEN 1 ELSE snipped
Planned(rows, groups, stage, budget, force, forcing) ==
    IF Fits(rows, stage, groups, 0, budget) /\ ~forcing
    THEN [groups |-> groups, stage |-> stage, left |-> 0, summarize |-> FALSE]
    ELSE Reduced(rows, groups, stage, budget, force,
                 Forced(Snipped(rows, stage, groups, budget), forcing, groups))
PlanFor(rows, groups, budget, force) ==
    Planned(rows, groups, Shortened(rows, ResultsOf(groups)), budget, force,
            force /\ Tokens(rows, <<>>, Restored(rows)) > budget)
Plan(rows, budget, force) ==
    PlanFor(rows, Groups(rows, Restored(rows)), budget, force)

-----------------------------------------------------------------------------
(* A compaction (_compact_loaded).                                         *)

\* What the last summary leaves of the budget, if it does not exceed it.
Previous(rows) == IF Latest(rows) = 0 THEN 0 ELSE rows[Latest(rows)].size
Available(rows, budget) == Previous(rows) <= budget

\* The request of a turn is there, or a turn goes on behind a forced compaction.
Shows(summary, job, left) ==
    [summary |-> summary, shown |-> Rest(job.plan.groups, left),
     stage |-> job.plan.stage, budget |-> job.budget]
Job(rows, budget, force) ==
    [step |-> "ready", rows |-> rows, budget |-> budget, force |-> force,
     plan |-> Plan(rows, budget - Previous(rows), force)]
Asked(job) == IF job.plan.summarize THEN [job EXCEPT !.step = "summarizing"] ELSE job
NewJob(a, budget, force) ==
    jobs' = [jobs EXCEPT ![a] =
        IF Available(log, budget) THEN Asked(Job(log, budget, force)) ELSE NoJob]

\* A turn whose compaction fails ends.
Fails(a) ==
    /\ jobs' = [jobs EXCEPT ![a] = NoJob]
    /\ turn' = IF a = "turn" THEN "idle" ELSE turn

\* No summary is needed.
Done(a) ==
    /\ jobs[a].step = "ready"
    /\ jobs' = [jobs EXCEPT ![a] = NoJob]
    /\ IF a = "turn" /\ ~jobs[a].force
       THEN /\ request' = Shows(Latest(jobs[a].rows), jobs[a], jobs[a].plan.left)
            /\ turn' = "asking"
       ELSE UNCHANGED <<request, turn>>
    /\ UNCHANGED <<log, overflows, manuals>>

\* Mutant of CutoffOf: everything that was loaded.
CutoffOfLast(job, left) == Max(Range(Flat(job.plan.groups)))

\* The numbers a summary speaks of: those given to the summarizer, and those the
\* summary before it spoke of.
CutoffOf(job, left) ==
    LET groups == job.plan.groups
        last == groups[left][Len(groups[left])]
    IN  IF Latest(job.rows) = 0 THEN last
        ELSE Max({job.rows[Latest(job.rows)].cutoff, last})
ToldOf(job, left) ==
    Range(Flat(SubSeq(job.plan.groups, 1, left)))
        \cup (IF Latest(job.rows) = 0 THEN {} ELSE job.rows[Latest(job.rows)].told)
Suffix(job, left) ==
    SelectSeq(Restored(job.rows), LAMBDA n : n > CutoffOf(job, left))

\* The summarizer has answered: its summary fits and is appended, or it has to
\* speak of one group more, or there is none.  What is redacted may grow.
AppendSummary(a, size) ==
    LET job == jobs[a]
        left == job.plan.left
    IN  /\ log' = Append(log, [Row("summary", size) EXCEPT
                                !.cutoff = CutoffOf(job, left),
                                !.told = ToldOf(job, left)])
        /\ jobs' = [jobs EXCEPT ![a] = NoJob]
        /\ IF a = "turn" /\ ~job.force
           THEN request' = Shows(Len(log'), job, left) /\ turn' = "asking"
           ELSE UNCHANGED <<request, turn>>
TooLong(job, size) ==
    size + Tokens(job.rows, <<>>, Suffix(job, job.plan.left)) > job.budget
Summarized(a) ==
    /\ jobs[a].step = "summarizing"
    /\ Written("summary") < MaxSummaries
    /\ \E size \in SummarySizes :
          /\ ~TooLong(jobs[a], size)
          /\ AppendSummary(a, size)
    /\ UNCHANGED <<overflows, manuals>>
SummarizedTooLong(a) ==
    /\ jobs[a].step = "summarizing"
    /\ \E size \in SummarySizes : TooLong(jobs[a], size)
    /\ IF jobs[a].plan.left < Len(jobs[a].plan.groups)
       THEN jobs' = [jobs EXCEPT ![a].plan.left = @ + 1] /\ UNCHANGED turn
       ELSE Fails(a)
    /\ UNCHANGED <<log, overflows, request, manuals>>
SummaryFails(a) ==
    /\ jobs[a].step = "summarizing"
    /\ Fails(a)
    /\ UNCHANGED <<log, overflows, request, manuals>>

-----------------------------------------------------------------------------
(* The turn.                                                               *)

Says(row) == Cardinality(Messages) < MaxLog /\ log' = Append(log, row)

Prompt ==
    /\ turn = "idle"
    /\ \E size \in PromptSizes : Says(Row("prompt", size))
    /\ turn' = "building" /\ overflows' = FALSE
    /\ UNCHANGED <<jobs, request, manuals>>

\* build_request; a summary that exceeds the budget ends the turn.
Build ==
    /\ turn = "building" /\ jobs["turn"] = NoJob
    /\ NewJob("turn", Budget, FALSE)
    /\ turn' = IF Available(log, Budget) THEN turn ELSE "idle"
    /\ UNCHANGED <<log, overflows, request, manuals>>

Answer ==
    /\ turn = "asking"
    /\ Says(Row("answer", 1))
    /\ turn' = "idle" /\ request' = NoRequest
    /\ UNCHANGED <<overflows, jobs, manuals>>

\* The calls of an answer, with a text or without.
Calls ==
    /\ turn = "asking"
    /\ \E text \in BOOLEAN : Says([Row("calls", 1) EXCEPT !.text = text])
    /\ turn' = "calling" /\ request' = NoRequest
    /\ UNCHANGED <<overflows, jobs, manuals>>
Results ==
    /\ turn = "calling"
    /\ \E size \in ResultSizes : Says(Row("result", size))
    /\ turn' = "building"
    /\ UNCHANGED <<overflows, jobs, request, manuals>>

\* compact_reactively, once per turn: to two thirds, with a summary.
Overflow ==
    /\ turn = "asking" /\ ~overflows
    /\ overflows' = TRUE
    /\ NewJob("turn", (Budget * 2) \div 3, TRUE)
    /\ turn' = IF Available(log, (Budget * 2) \div 3) THEN "building" ELSE "idle"
    /\ request' = NoRequest
    /\ UNCHANGED <<log, manuals>>

\* The turn, or its process, is cut off.
CutOff ==
    /\ turn # "idle"
    /\ turn' = "idle"
    /\ jobs' = [jobs EXCEPT !["turn"] = NoJob]
    /\ request' = NoRequest
    /\ UNCHANGED <<log, overflows, manuals>>

\* ManualCompactor.compact: the target is of the first look, the messages are
\* those of the second.
Target(rows) ==
    ((Previous(rows) + Tokens(rows, <<>>, Restored(rows))) * 2) \div 3
ManualBegins ==
    /\ jobs["manual"] = NoJob /\ manuals < MaxManual
    /\ Target(log) > 0
    /\ jobs' = [jobs EXCEPT !["manual"] =
                    [step |-> "loading", budget |-> Target(log)]]
    /\ manuals' = manuals + 1
    /\ UNCHANGED <<log, turn, overflows, request>>
ManualLoads ==
    /\ jobs["manual"].step = "loading"
    /\ NewJob("manual", jobs["manual"].budget, TRUE)
    /\ UNCHANGED <<log, turn, overflows, request, manuals>>

Next ==
    \/ Prompt \/ Build \/ Answer \/ Calls \/ Results \/ Overflow \/ CutOff
    \/ ManualBegins \/ ManualLoads
    \/ \E a \in Actors :
        Done(a) \/ Summarized(a) \/ SummarizedTooLong(a) \/ SummaryFails(a)

Spec == Init /\ [][Next]_vars

-----------------------------------------------------------------------------
(* What a request promises.                                                *)

Before(n) == Max({0} \cup {m \in Messages : m < n})
After(n) == Min({Len(log) + 1} \cup {m \in Messages : m > n})
Shown == Range(request.shown)
Told == IF request.summary = 0 THEN {} ELSE log[request.summary].told
Cutoff == IF request.summary = 0 THEN 0 ELSE log[request.summary].cutoff
SummaryTokens == IF request.summary = 0 THEN 0 ELSE log[request.summary].size

PairsAreWhole ==
    LET shown == request.shown
        IsResult(i) == i \in DOMAIN shown /\ log[shown[i]].kind = "result"
        IsCall(i) == i \in DOMAIN shown /\ log[shown[i]].kind = "calls"
    IN  \A i \in DOMAIN shown :
            /\ IsResult(i) => IsCall(i - 1)
            /\ IsCall(i) => IsResult(i + 1) \/ log[shown[i]].text

\* Calls that were never answered; results whose calls a summary of the other
\* process speaks of already.
Unanswered(n) ==
    /\ log[n].kind = "calls" /\ ~log[n].text
    /\ After(n) \in Messages => log[After(n)].kind # "result"
Orphaned(n) == log[n].kind = "result" /\ Before(n) \in Told

\* With it, and all that comes after it, the request would be too long.
NoRoomFor(n) ==
    LET first == IF log[n].kind = "result" THEN Before(n) ELSE n
        later == SetToSortSeq({m \in Messages :
                    m >= first /\ m > Cutoff /\ ~Unanswered(m) /\ ~Orphaned(m)}, <)
    IN  SummaryTokens + Tokens(log, request.stage, later) > request.budget

\* Whenever a summary is written, by whichever process, out of whichever look at
\* the log: a request shows in order what its summary does not stand for, calls
\* with their results, within its budget; and what it does not show its summary was
\* really made of, or it was never answered, or is older than all that is shown
\* and there was no room for it (build_request, _compact_loaded).
RequestsTellTheStory ==
    turn = "asking" =>
        /\ PairsAreWhole
        /\ \A i, j \in DOMAIN request.shown :
              i < j => request.shown[i] < request.shown[j]
        /\ \A n \in Shown : n > Cutoff
        /\ SummaryTokens + Tokens(log, request.stage, request.shown) <= request.budget
        /\ \A n \in Messages \ (Shown \cup Told) :
              \/ Unanswered(n) \/ Orphaned(n)
              \/ NoRoomFor(n) /\ \A m \in Shown : m > n
=============================================================================
