------------------------------ MODULE Terminal ------------------------------
(***************************************************************************)
(* What the user sees of a turn (ui/tui.py, ui/presentation.py and the     *)
(* events of agent/loop.py).  The turn runs in a worker and emits events;  *)
(* the sink keeps them in a queue and posts one message to the             *)
(* application, whose handlers run one at a time, take everything that     *)
(* waits, fold it into the transcript and the live tail, and mount the     *)
(* blocks of the transcript that have no widget yet.  The worker mounts    *)
(* blocks too, a flush is one more message, and the user goes on           *)
(* submitting prompts and pressing escape.                                 *)
(***************************************************************************)
EXTENDS Naturals, Sequences, FiniteSets, SequencesExt

CONSTANTS
    MaxPrompts,     \* bound: prompts submitted
    MaxPieces,      \* bound: pieces of text streamed
    MaxTroubles     \* bound: turns cancelled, events of another thread

VARIABLES
    pending,        \* TextualUISink._pending
    drainPosted,    \* _drain_posted
    messages,       \* to the application, in order
    handler,        \* the message whose handler is mounting blocks, or None
    emitter,        \* where the other thread is
    live,           \* the live tail
    blocks,         \* of the transcript
    mounted,        \* how many have a widget
    at,             \* by prompt: where it is
    step,           \* by prompt: where its turn is
    attempt,        \* by prompt: the text it is streaming
    round,          \* by prompt: the texts completed in this round
    turnWorker,     \* _turn_worker: a prompt, or 0
    queued,         \* _queued_prompts
    cancelSent,     \* prompts whose worker is to be cancelled
    said,           \* pieces streamed
    log,            \* by prompt: the texts kept in the session
    disturbed,      \* ghost: prompts whose worker was cancelled
    troubles

vars ==
    <<pending, drainPosted, messages, handler, emitter, live, blocks, mounted,
      at, step, attempt, round, turnWorker, queued, cancelSent, said, log,
      disturbed, troubles>>

Prompts == 1 .. MaxPrompts
None == "none"
Ready == <<"ready", 0>>
Flush(p) == <<"flush", p>>
Start(p) == <<"start", p>>
Texts == Seq(1 .. MaxPieces)
Event(type, p, text) == [type |-> type, of |-> p, text |-> text]
Block(kind, p, text) == [kind |-> kind, of |-> p, text |-> text]
Kinds == {"user", "assistant", "error", "summary", "notice"}
Types == {"start", "delta", "completed", "error", "failed", "finished", "notice"}
Places ==
    {"none", "queued", "posted", "started", "prompt", "running", "flushing",
     "cancelled", "interrupted", "done"}
Steps == {"begin", "streaming", "answered", "broken", "over"}
Working == {"started", "prompt", "running", "flushing", "cancelled", "interrupted"}

TypeOK ==
    /\ \A e \in ToSet(pending) :
           e.type \in Types /\ e.of \in 0 .. MaxPrompts /\ e.text \in Texts
    /\ drainPosted \in BOOLEAN
    /\ ToSet(messages) \subseteq
           {Ready} \cup {Flush(p) : p \in Prompts} \cup {Start(p) : p \in Prompts}
    /\ handler \in {<<None, 0>>, Ready} \cup {Flush(p) : p \in Prompts}
    /\ emitter \in {"idle", "appended", "posting"}
    /\ live.text \in Texts /\ live.error \in BOOLEAN
    /\ \A b \in ToSet(blocks) :
           b.kind \in Kinds /\ b.of \in 0 .. MaxPrompts /\ b.text \in Texts
    /\ mounted \in 0 .. Len(blocks)
    /\ at \in [Prompts -> Places] /\ step \in [Prompts -> Steps]
    /\ attempt \in [Prompts -> Texts] /\ said \in 0 .. MaxPieces
    /\ turnWorker \in 0 .. MaxPrompts /\ queued \in Seq(Prompts)
    /\ cancelSent \subseteq Prompts /\ disturbed \subseteq Prompts
    /\ troubles \in 0 .. MaxTroubles

Init ==
    /\ pending = <<>> /\ drainPosted = FALSE /\ messages = <<>>
    /\ handler = <<None, 0>> /\ emitter = "idle"
    /\ live = [text |-> <<>>, error |-> FALSE]
    /\ blocks = <<>> /\ mounted = 0
    /\ at = [p \in Prompts |-> "none"] /\ step = [p \in Prompts |-> "begin"]
    /\ attempt = [p \in Prompts |-> <<>>] /\ round = [p \in Prompts |-> <<>>]
    /\ turnWorker = 0 /\ queued = <<>> /\ cancelSent = {}
    /\ said = 0
    /\ log = [p \in Prompts |-> <<>>] /\ disturbed = {}
    /\ troubles = 0

sinkVars == <<pending, drainPosted, messages, emitter>>
screenVars == <<live, blocks, mounted, handler>>
workVars ==
    <<at, step, attempt, round, turnWorker, queued, cancelSent, said, log, disturbed>>

-----------------------------------------------------------------------------
(* The sink: one message to the application for a batch of events.         *)

\* What emit and flush post in the loop's own thread, then.
RequestDrain(more) ==
    IF drainPosted \/ pending' = <<>>
    THEN messages' = messages \o more /\ UNCHANGED drainPosted
    ELSE messages' = messages \o <<Ready>> \o more /\ drainPosted' = TRUE

Emit(event, more) ==
    pending' = Append(pending, event) /\ RequestDrain(more) /\ UNCHANGED emitter

\* The other thread is between its steps while the loop goes on.
NoticeAppended ==
    /\ emitter = "idle" /\ troubles < MaxTroubles
    /\ pending' = Append(pending, Event("notice", 0, <<>>))
    /\ troubles' = troubles + 1 /\ emitter' = "appended"
    /\ UNCHANGED <<drainPosted, messages, screenVars, workVars>>

NoticeRequested ==
    /\ emitter = "appended"
    /\ IF drainPosted \/ pending = <<>>
       THEN emitter' = "idle" /\ UNCHANGED drainPosted
       ELSE emitter' = "posting" /\ drainPosted' = TRUE
    /\ UNCHANGED <<pending, messages, screenVars, workVars, troubles>>

NoticePosted ==
    /\ emitter = "posting"
    /\ messages' = Append(messages, Ready) /\ emitter' = "idle"
    /\ UNCHANGED <<pending, drainPosted, screenVars, workVars,
                   troubles>>

TakePendingAndStayPosted == pending' = <<>> /\ UNCHANGED drainPosted
TakePending == pending' = <<>> /\ drainPosted' = FALSE

-----------------------------------------------------------------------------
(* The application: a handler folds what waits, then mounts.               *)

Quiet == [text |-> <<>>, error |-> FALSE]

\* PresentationReducer.apply on the transcript and the live tail.
Apply(view, e) ==
    CASE e.type = "start" -> [view EXCEPT !.live = Quiet]
      [] e.type = "delta" ->
           [view EXCEPT !.live = [text |-> view.live.text \o e.text, error |-> FALSE]]
      [] e.type = "completed" ->
           [live |-> Quiet,
            blocks |-> Append(view.blocks, Block("assistant", e.of, e.text))]
      [] e.type = "error" -> [view EXCEPT !.live.error = TRUE]
      [] e.type = "notice" -> view
      [] OTHER ->
           [live |-> Quiet,
            blocks |-> view.blocks
                \o (IF view.live.text = <<>> THEN <<>>
                    ELSE <<Block("assistant", e.of, view.live.text)>>)
                \o (IF view.live.error /\ e.type = "failed"
                    THEN <<Block("error", e.of, <<>>)>> ELSE <<>>)
                \o <<Block("summary", e.of, <<>>)>>]

\* What shows once the first n of the events that wait are applied, in their order.
View[n \in 0 .. Len(pending)] ==
    IF n = 0 THEN [live |-> live, blocks |-> blocks]
    ELSE Apply(View[n - 1], pending[n])

\* on_runtime_events_ready, on_flush_runtime_output: up to the first mount.
Handle ==
    /\ handler[1] = None /\ messages # <<>> /\ Head(messages)[1] # "start"
    /\ handler' = Head(messages) /\ messages' = Tail(messages)
    /\ LET view == View[Len(pending)] IN live' = view.live /\ blocks' = view.blocks
    /\ TakePending
    /\ UNCHANGED <<mounted, emitter, workVars, troubles>>

Mounting == handler[1] # None \/ \E p \in Prompts : at[p] \in {"prompt", "interrupted"}

\* _sync_transcript, of the handler or of the worker.
Mount ==
    /\ Mounting /\ mounted < Len(blocks)
    /\ mounted' = Len(blocks)
    /\ UNCHANGED <<sinkVars, live, blocks, handler, workVars, troubles>>

\* The handler is done; the turn that waits for its flush goes on, unless its wait
\* was cancelled.
Handled ==
    /\ handler[1] # None /\ mounted = Len(blocks)
    /\ handler' = <<None, 0>>
    /\ at' = [p \in Prompts |->
                IF /\ handler = Flush(p) /\ at[p] = "flushing"
                   /\ p \notin cancelSent
                THEN "running" ELSE at[p]]
    /\ UNCHANGED <<sinkVars, live, blocks, mounted, step, attempt, round,
                   turnWorker, queued, cancelSent, said, log, disturbed, troubles>>

-----------------------------------------------------------------------------
(* The user's prompts and the worker of each.                              *)

Running(p) == at[p] \in Working

\* Worker.is_running: it has taken its first step.
Begun(p) == Running(p) /\ at[p] # "started"

\* _start_prompt: an exclusive worker cancels the one before.
StartPrompt(p) ==
    /\ turnWorker' = p
    /\ cancelSent' = cancelSent \cup {q \in Prompts \ {p} : Running(q)}
    /\ live' = Quiet

\* on_prompt_editor_submitted, between two messages.
Submit(p) ==
    /\ handler[1] = None
    /\ at[p] = "none" /\ \A q \in Prompts : q < p => at[q] # "none"
    /\ IF turnWorker # 0 /\ Begun(turnWorker)
       THEN /\ queued' = Append(queued, p)
            /\ at' = [at EXCEPT ![p] = "queued"]
            /\ UNCHANGED <<turnWorker, cancelSent, live>>
       ELSE /\ StartPrompt(p)
            /\ at' = [at EXCEPT ![p] = "started"]
            /\ UNCHANGED queued
    /\ UNCHANGED <<sinkVars, handler, blocks, mounted, step, attempt, round, said,
                   log, disturbed, troubles>>

\* The call_later of _process_prompt.
StartQueued(p) ==
    /\ handler[1] = None /\ messages # <<>> /\ Head(messages) = Start(p)
    /\ messages' = Tail(messages)
    /\ StartPrompt(p)
    /\ at' = [at EXCEPT ![p] = "started"]
    /\ UNCHANGED <<pending, drainPosted, emitter, handler, blocks, mounted, step, attempt, round,
                   queued, said, log, disturbed, troubles>>

\* The first step of _process_prompt.
Begin(p) ==
    /\ at[p] = "started" /\ p \notin cancelSent
    /\ at' = [at EXCEPT ![p] = "prompt"]
    /\ blocks' = Append(blocks, Block("user", p, <<>>))
    /\ UNCHANGED <<sinkVars, handler, live, mounted, step, attempt, round,
                   turnWorker, queued, cancelSent, said, log, disturbed, troubles>>

PromptShown(p) ==
    /\ at[p] = "prompt" /\ mounted = Len(blocks) /\ p \notin cancelSent
    /\ at' = [at EXCEPT ![p] = "running"]
    /\ UNCHANGED <<sinkVars, screenVars, step, attempt, round, turnWorker, queued,
                   cancelSent, said, log, disturbed, troubles>>

\* action_cancel_turn and action_interrupt, on a turn.
Escape ==
    /\ handler[1] = None /\ troubles < MaxTroubles
    /\ turnWorker # 0 /\ Begun(turnWorker)
    /\ troubles' = troubles + 1
    /\ cancelSent' = cancelSent \cup {turnWorker}
    /\ UNCHANGED <<sinkVars, screenVars, at, step, attempt, round, turnWorker,
                   queued, said, log, disturbed>>

\* The finally of _process_prompt.
Leave(p) ==
    /\ turnWorker' = 0
    /\ cancelSent' = cancelSent \ {p}
    /\ IF queued = <<>>
       THEN at' = [at EXCEPT ![p] = "done"] /\ UNCHANGED <<queued, messages>>
       ELSE /\ at' = [at EXCEPT ![p] = "done", ![Head(queued)] = "posted"]
            /\ queued' = Tail(queued)
            /\ messages' = Append(messages, Start(Head(queued)))

\* A worker that never ran just ends: its finally has not been entered.
NeverRun(p) ==
    /\ p \in cancelSent /\ at[p] = "started"
    /\ at' = [at EXCEPT ![p] = "done"]
    /\ cancelSent' = cancelSent \ {p} /\ disturbed' = disturbed \cup {p}
    /\ UNCHANGED <<sinkVars, screenVars, step, attempt, round, turnWorker, queued,
                   said, log, troubles>>

\* AgentLoop._cancelled: it flushes, for a bounded time.
TurnCancelled(p) ==
    /\ p \in cancelSent /\ at[p] \in {"running", "flushing"}
    /\ at' = [at EXCEPT ![p] = "cancelled"]
    /\ cancelSent' = cancelSent \ {p} /\ disturbed' = disturbed \cup {p}
    /\ UNCHANGED pending /\ RequestDrain(<<Flush(p)>>)
    /\ UNCHANGED <<emitter, screenVars, step, attempt, round, turnWorker,
                   queued, said, log, troubles>>

\* The flush is over or given up, or the prompt was never sent.
Interrupted(p) ==
    /\ \/ at[p] = "cancelled"
       \/ at[p] = "prompt" /\ p \in cancelSent
    /\ at' = [at EXCEPT ![p] = "interrupted"]
    /\ cancelSent' = cancelSent \ {p} /\ disturbed' = disturbed \cup {p}
    /\ live' = Quiet /\ blocks' = Append(blocks, Block("notice", p, <<>>))
    /\ UNCHANGED <<sinkVars, handler, mounted, step, attempt, round, turnWorker,
                   queued, said, log, troubles>>

Ended(p) ==
    /\ \/ at[p] = "interrupted" /\ (mounted = Len(blocks) \/ p \in cancelSent)
       \/ at[p] = "running" /\ step[p] = "over"
    /\ Leave(p)
    /\ UNCHANGED <<pending, drainPosted, emitter, screenVars, step, attempt, round, said, log, disturbed,
                   troubles>>

-----------------------------------------------------------------------------
(* The turn, as far as it tells the user (AgentLoop).                      *)

Turning(p, s) == at[p] = "running" /\ step[p] = s /\ p \notin cancelSent
turnRest == <<turnWorker, queued, cancelSent, disturbed, troubles, screenVars>>

TurnStarts(p) ==
    /\ Turning(p, "begin")
    /\ Emit(Event("start", p, <<>>), <<>>)
    /\ step' = [step EXCEPT ![p] = "streaming"]
    /\ UNCHANGED <<at, attempt, round, said, log, turnRest>>

TextDelta(p) ==
    /\ Turning(p, "streaming") /\ said < MaxPieces
    /\ said' = said + 1
    /\ attempt' = [attempt EXCEPT ![p] = Append(@, said')]
    /\ Emit(Event("delta", p, <<said'>>), <<>>)
    /\ UNCHANGED <<at, step, round, log, turnRest>>

ContentCompleted(p) ==
    /\ Turning(p, "streaming") /\ attempt[p] # <<>>
    /\ round' = [round EXCEPT ![p] = Append(@, attempt[p])]
    /\ attempt' = [attempt EXCEPT ![p] = <<>>]
    /\ Emit(Event("completed", p, attempt[p]), <<>>)
    /\ UNCHANGED <<at, step, said, log, turnRest>>

\* The response is complete: flush_ui before anything is kept.
Responded(p) ==
    /\ Turning(p, "streaming") /\ attempt[p] = <<>> /\ round[p] # <<>>
    /\ step' = [step EXCEPT ![p] = "answered"]
    /\ at' = [at EXCEPT ![p] = "flushing"]
    /\ UNCHANGED pending /\ RequestDrain(<<Flush(p)>>)
    /\ UNCHANGED <<emitter, attempt, round, said, log, turnRest>>

\* It broke off: _recover_provider_error tells so, then the flush.
Broken(p) ==
    /\ Turning(p, "streaming")
    /\ step' = [step EXCEPT ![p] = "broken"]
    /\ at' = [at EXCEPT ![p] = "flushing"]
    /\ Emit(Event("error", p, <<>>), <<Flush(p)>>)
    /\ UNCHANGED <<attempt, round, said, log, turnRest>>

\* The next request, after tools or to try again.
NextRequest(p) ==
    /\ \E s \in {"answered", "broken"} : Turning(p, s)
    /\ log' = [log EXCEPT ![p] = IF step[p] = "answered" THEN @ \o round[p] ELSE @]
    /\ step' = [step EXCEPT ![p] = "streaming"]
    /\ attempt' = [attempt EXCEPT ![p] = <<>>]
    /\ round' = [round EXCEPT ![p] = <<>>]
    /\ UNCHANGED <<at, said, sinkVars, turnRest>>

\* _finish_with_ui.
TurnFinishes(p) ==
    /\ \E s \in {"answered", "broken"} : Turning(p, s)
    /\ log' = [log EXCEPT ![p] = IF step[p] = "answered" THEN @ \o round[p] ELSE @]
    /\ round' = [round EXCEPT ![p] = <<>>]
    /\ step' = [step EXCEPT ![p] = "over"]
    /\ at' = [at EXCEPT ![p] = "flushing"]
    /\ Emit(Event(IF step[p] = "answered" THEN "finished" ELSE "failed", p, <<>>),
            <<Flush(p)>>)
    /\ UNCHANGED <<attempt, said, turnRest>>

Next ==
    \/ NoticeAppended \/ NoticeRequested \/ NoticePosted
    \/ Handle \/ Mount \/ Handled \/ Escape
    \/ \E p \in Prompts :
        \/ Submit(p) \/ StartQueued(p) \/ Begin(p) \/ PromptShown(p)
        \/ NeverRun(p) \/ TurnCancelled(p) \/ Interrupted(p) \/ Ended(p)
        \/ TurnStarts(p) \/ TextDelta(p) \/ ContentCompleted(p)
        \/ Responded(p) \/ Broken(p) \/ NextRequest(p) \/ TurnFinishes(p)

Spec == Init /\ [][Next]_vars

-----------------------------------------------------------------------------
(* What the terminal promises.                                             *)

\* Nothing that waits is left waiting: a message to take it is on its way.
DrainIsComing ==
    pending # <<>> => Ready \in ToSet(messages) \/ emitter # "idle"

\* A turn nobody cancelled is in the transcript as it happened, from its prompt
\* to its summary: each text the session keeps, in order, and nothing of another
\* turn in between, but of one that was cancelled and flushed for too short.
Positions(kind, p) == {i \in DOMAIN blocks : blocks[i].kind = kind /\ blocks[i].of = p}

TurnIsTold(p) ==
    \E first, last \in DOMAIN blocks :
        /\ first < last /\ last <= mounted
        /\ Positions("user", p) = {first} /\ Positions("summary", p) = {last}
        /\ Positions("assistant", p) \subseteq first .. last
        /\ \E place \in [DOMAIN log[p] -> first .. last] :
              /\ \A i \in DOMAIN log[p] :
                    blocks[place[i]] = Block("assistant", p, log[p][i])
              /\ \A i, j \in DOMAIN log[p] : i < j => place[i] < place[j]
        /\ \A i \in first .. last : blocks[i].of \in {p} \cup disturbed \cup cancelSent

\* What a turn shows comes to the screen, in its order: events that wait are on
\* their way, and a turn that ended by itself is in the transcript as the session
\* keeps it (TextualUISink, PresentationReducer, _sync_transcript).
TurnsAreTold ==
    /\ DrainIsComing
    /\ \A p \in Prompts : at[p] = "done" /\ p \notin disturbed => TurnIsTold(p)
=============================================================================
