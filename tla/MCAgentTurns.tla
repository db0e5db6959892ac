---------------------------- MODULE MCAgentTurns ----------------------------
(* The turns of a session, what its requests show of its log, whom its      *)
(* calls ask, or what the terminal shows of it: the first state says which  *)
(* of the four a behaviour is about, the others stay where they begin.      *)
EXTENDS AgentTurn

CONSTANTS
    Budget, ToolBudget, KeepRecent, Preview,    \* tokens, and rounds kept
    PromptSizes, ResultSizes, SummarySizes, MaxLog, MaxWrittenSummaries, MaxManual,
    ToolCalls, ToolOf, RootOf, RiskOf,          \* whose user may be asked
    Nobody, MaxKeys, MaxCancels,
    MaxPrompts, MaxPieces, MaxTroubles          \* of the terminal

\* Nobody is none of the calls.
ASSUME NobodyAssumption == Nobody \notin ToolCalls
ASSUME ScreenAssumption == MaxPrompts \in Nat /\ MaxPieces \in Nat

VARIABLES
    service,    \* the one that moves
    rows, turn, overflows, jobs, request, manuals,
    mode, running, callAt, action, future, result, byApproval, asked, active,
    activating, shown, timer, keys, approvals, cancels, pressedFor,
    waiting, drainPosted, posted, handler, emitter, tail, blocks, mounted,
    promptAt, step, attempt, shownRound, turnWorker, queued, turnsCancelled, said,
    shownLog, disturbed, troubles

Context == INSTANCE Compaction
    WITH log <- rows, MaxSummaries <- MaxWrittenSummaries
Permission == INSTANCE Permissions
    WITH Calls <- ToolCalls, at <- callAt, queue <- asked
Screen == INSTANCE Terminal
    WITH pending <- waiting, messages <- posted,
         live <- tail, at <- promptAt, round <- shownRound,
         cancelSent <- turnsCancelled, log <- shownLog

Services == {"turns", "context", "permissions", "screen"}

SessionInit ==
    /\ service \in Services
    /\ Init
    /\ service # "turns" => ~openTodos
    /\ Context!Init
    /\ IF service = "permissions" THEN TRUE ELSE mode = "ask"
    /\ Permission!Init
    /\ Screen!Init

contextVars == <<rows, turn, overflows, jobs, request, manuals>>
permissionVars ==
    <<mode, running, callAt, action, future, result, byApproval, asked, active,
      activating, shown, timer, keys, approvals, cancels, pressedFor>>
screenVars ==
    <<waiting, drainPosted, posted, handler, emitter, tail, blocks, mounted,
      promptAt, step, attempt, shownRound, turnWorker, queued, turnsCancelled, said,
      shownLog, disturbed, troubles>>
sessionVars == <<service, vars, contextVars, permissionVars, screenVars>>

\* The others stay where they begin.
Moves(moving) ==
    /\ service = moving
    /\ UNCHANGED service
    /\ IF moving = "turns" THEN TRUE ELSE UNCHANGED vars
    /\ IF moving = "context" THEN TRUE ELSE UNCHANGED contextVars
    /\ IF moving = "permissions" THEN TRUE ELSE UNCHANGED permissionVars
    /\ IF moving = "screen" THEN TRUE ELSE UNCHANGED screenVars

SessionNext ==
    \/ Moves("turns") /\ Next
    \/ Moves("context") /\ Context!Next
    \/ Moves("permissions") /\ Permission!Next
    \/ Moves("screen") /\ Screen!Next

SessionSpec == SessionInit /\ [][SessionNext]_sessionVars

-----------------------------------------------------------------------------
\* What a request shows tells the story of the log (in Compaction), what is allowed
\* is what the user allowed (in Permissions), and the screen tells of the turns in
\* order (in Terminal).
RequestsTellTheStory == Context!RequestsTellTheStory
AllowedByTheUser == Permission!AllowedByTheUser
TurnsAreTold == Screen!TurnsAreTold

-----------------------------------------------------------------------------
(* Three calls of two root sessions that ask for the same, for TLC.         *)

CONSTANTS n1, t1, t2, t3, r1, r2    \* a notice, the calls, the sessions

MCRootOf == [c \in ToolCalls |-> IF c = t3 THEN r2 ELSE r1]
MCToolOf == [c \in ToolCalls |-> "tool"]
MCRiskOf == [c \in ToolCalls |-> "change"]
=============================================================================
