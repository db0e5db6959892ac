------------------------------ MODULE Services ------------------------------
(* The services the agents share, one at a time: the first state says which *)
(* one a behaviour is about, and the others stay where they begin.          *)
EXTENDS Naturals, Sequences, FiniteSets

CONSTANTS
    Writers,                        \* calls of the session store
    Users, Objects, ObjectOf,       \* of a file lock
    Jobs, JobSessions,              \* background jobs, and who starts them
    MaxSubmissions,                 \* memory submissions
    Requests, Responses, MaxShutdowns,  \* of the protocols
    Processes, Roots, Children, MaxCrashes,     \* runtimes and their sessions
    MaxRows, MaxCuts,               \* rows of a trace, and crashes
    Hooks, Dispatches,
    WorktreeTasks, WorktreeCalls, MaxChanges,
    ProcessCalls,                   \* calls that start a process
    StreamTools, MaxChunks,         \* of a provider's stream
    MaxRetries, MaxContinuations,
    Plans, TasksOf,                 \* suites of the evaluation
    Inputs, MaxAttempts,            \* of a solution's check
    MaxWords,                       \* of a hook's command on a stream
    Family, ParentOf, NoParent, Ids     \* sessions, and call ids of their results

\* Every user of a file lock goes through one of the objects that name the file.
ASSUME ObjectAssumption == ObjectOf \in [Users -> Objects]
ASSUME BoundAssumption ==
    /\ MaxSubmissions \in Nat /\ MaxShutdowns \in Nat /\ MaxChanges \in Nat
    /\ Inputs \in Nat /\ MaxAttempts \in Nat \ {0} /\ MaxWords \in Nat
\* A session has one parent at most, and is no stage of a call.
ASSUME FamilyAssumption ==
    /\ ParentOf \in [Family -> Family \cup {NoParent}]
    /\ {"idle", "unlinking"} \cap Family = {}

VARIABLES
    service,    \* the one that moves
    caller, worker, requested, operating, open, written, durable,
    attempt, thread, cancelled, owning, file,
    jobFuture, states, owner, notifications, delivered, cancelling, closing,
    tail, submission, job, events, reported, shuttingDown,
    asking, outcome, pending, manager, issuer, limited, timers, armed,
    responding, answer, mailbox, shutdown,
    place, turnRoot, startup, tree, status, listed, toProbe, lockedRoots,
    child, detached, host, parent, lease, delegated, crashes,
    recorder, sequence, queue, traceFile, traceTail, synced, writing, kept, cuts,
    registered, retired, pre, awaiting, plan, invocation, verdict, cancelRequested,
    trace, traceBroken,
    git, bound, at, tool, task, wanted, seen, repair, disturbed, changes,
    call, spawn, root, helpers, started, reason,
    dialect, stage, order, content, pieces, known, begun, complete, sent, told,
    chunks,
    options, accumulated, expanded, continuations, retries, stop, result,
    emitted, lastText,
    suitePlan, runs, cases, reports, phase, step, execution, scored, suite,
    tries, verdicts, evaluation, runner, marks, finished, pipe, overtime, late,
    supervisor, watching, heard,
    there, messages, progress, writer, files, remover, left,
    hookPoint, hookAt, hookProcess, streamsHeld, said, got, hookAnswer, hookTasks,
    hookReason, hookOutcome, disturbedTwice

Store == INSTANCE WriteTransaction
Lock == INSTANCE FileLock
Background == INSTANCE BackgroundJobs WITH Sessions <- JobSessions
Memory == INSTANCE MemoryQueue
Protocol == INSTANCE Protocols WITH Answers <- Responses
Agents == INSTANCE Runtime
Audit == INSTANCE TraceRecorder
    WITH Recording <- Processes, Keeping <- FALSE, file <- traceFile,
         tail <- traceTail
Hooking == INSTANCE Hooks WITH at <- awaiting, requested <- cancelRequested
Trees == INSTANCE Worktrees WITH Tasks <- WorktreeTasks, Calls <- WorktreeCalls
Commands == INSTANCE Processes WITH Calls <- ProcessCalls
Streaming == INSTANCE ProviderStream
    WITH Tools <- StreamTools, pending <- pieces
Texts == INSTANCE TextCompletion
Evaluating == INSTANCE Evaluation WITH plan <- suitePlan, Tasks <- TasksOf
Checking == INSTANCE SolutionCheck WITH outcome <- evaluation
Deleting == INSTANCE SessionFiles
HookCommands == INSTANCE CommandHook
    WITH Limit <- MaxWords, point <- hookPoint, at <- hookAt,
         process <- hookProcess, held <- streamsHeld, answer <- hookAnswer,
         tasks <- hookTasks, reason <- hookReason, outcome <- hookOutcome,
         disturbed <- disturbedTwice

\* A plan names the modes that there are.
ASSUME PlansAssumption == Plans \subseteq Seq(Evaluating!Modes)

Services ==
    {"store", "lock", "background", "memory", "protocol", "runtime", "audit",
     "hooks", "worktrees", "commands", "streams", "texts",
     "evaluation", "checks", "sessions", "hook commands"}

Init ==
    /\ service \in Services
    /\ Store!Init
    /\ Lock!Init
    /\ Background!Init
    /\ Memory!Init
    /\ Protocol!Init
    /\ Agents!Init
    /\ Audit!Init
    /\ Hooking!Init
    /\ service # "hooks" => pre = {}
    /\ Trees!Init
    /\ Commands!Init
    /\ Streaming!Init
    /\ service # "streams" => dialect = "completion"
    /\ Texts!Init
    /\ service # "texts" => options = {}
    /\ Evaluating!Init
    /\ service # "evaluation" => suitePlan = <<"memory">>
    /\ Checking!Init
    /\ Deleting!Init
    /\ HookCommands!Init
    /\ service # "hook commands" => hookPoint = "pre"

storeVars ==
    <<caller, worker, requested, operating, open, written, durable>>
lockVars ==
    <<attempt, thread, cancelled, owning, file>>
backgroundVars ==
    <<jobFuture, states, owner, notifications, delivered, cancelling, closing>>
memoryVars ==
    <<tail, submission, job, events, reported, shuttingDown>>
protocolVars ==
    <<asking, outcome, pending, manager, issuer, limited, timers, armed,
      responding, answer, mailbox, shutdown>>
runtimeVars ==
    <<place, turnRoot, startup, tree, status, listed, toProbe, lockedRoots,
      child, detached, host, parent, lease, delegated, crashes>>
auditVars ==
    <<recorder, sequence, queue, traceFile, traceTail, synced, writing, kept, cuts>>
hookVars ==
    <<registered, retired, pre, awaiting, plan, invocation, verdict,
      cancelRequested, trace, traceBroken>>
worktreeVars ==
    <<git, bound, at, tool, task, wanted, seen, repair, disturbed, changes>>
commandVars ==
    <<call, spawn, root, helpers, started, reason>>
streamVars ==
    <<dialect, stage, order, content, pieces, known, begun, complete, sent, told,
      chunks>>
textVars ==
    <<options, accumulated, expanded, continuations, retries, stop, result,
      emitted, lastText>>
evaluationVars ==
    <<suitePlan, runs, cases, reports, phase, step, execution, scored, suite>>
checksVars ==
    <<tries, verdicts, evaluation, runner, marks, finished, pipe, overtime, late,
      supervisor, watching, heard>>
sessionVars ==
    <<there, messages, progress, writer, files, remover, left>>
hookCommandVars ==
    <<hookPoint, hookAt, hookProcess, streamsHeld, said, got, hookAnswer, hookTasks,
      hookReason, hookOutcome, disturbedTwice>>
vars ==
    <<service, storeVars, lockVars, backgroundVars, memoryVars, protocolVars,
      runtimeVars, auditVars, hookVars, worktreeVars, commandVars, streamVars,
      textVars, evaluationVars, checksVars, sessionVars, hookCommandVars>>

\* The others stay where they begin.
Moves(moving) ==
    /\ service = moving
    /\ UNCHANGED service
    /\ IF moving = "store" THEN TRUE ELSE UNCHANGED storeVars
    /\ IF moving = "lock" THEN TRUE ELSE UNCHANGED lockVars
    /\ IF moving = "background" THEN TRUE ELSE UNCHANGED backgroundVars
    /\ IF moving = "memory" THEN TRUE ELSE UNCHANGED memoryVars
    /\ IF moving = "protocol" THEN TRUE ELSE UNCHANGED protocolVars
    /\ IF moving = "runtime" THEN TRUE ELSE UNCHANGED runtimeVars
    /\ IF moving = "audit" THEN TRUE ELSE UNCHANGED auditVars
    /\ IF moving = "hooks" THEN TRUE ELSE UNCHANGED hookVars
    /\ IF moving = "worktrees" THEN TRUE ELSE UNCHANGED worktreeVars
    /\ IF moving = "commands" THEN TRUE ELSE UNCHANGED commandVars
    /\ IF moving = "streams" THEN TRUE ELSE UNCHANGED streamVars
    /\ IF moving = "texts" THEN TRUE ELSE UNCHANGED textVars
    /\ IF moving = "evaluation" THEN TRUE ELSE UNCHANGED evaluationVars
    /\ IF moving = "checks" THEN TRUE ELSE UNCHANGED checksVars
    /\ IF moving = "sessions" THEN TRUE ELSE UNCHANGED sessionVars
    /\ IF moving = "hook commands" THEN TRUE ELSE UNCHANGED hookCommandVars

Next ==
    \/ Moves("store") /\ Store!Next
    \/ Moves("lock") /\ Lock!Next
    \/ Moves("background") /\ Background!Next
    \/ Moves("memory") /\ Memory!Next
    \/ Moves("protocol") /\ Protocol!Next
    \/ Moves("runtime") /\ Agents!Next
    \/ Moves("audit") /\ Audit!Next
    \/ Moves("hooks") /\ Hooking!Next
    \/ Moves("worktrees") /\ Trees!Next
    \/ Moves("commands") /\ Commands!Next
    \/ Moves("streams") /\ Streaming!Next
    \/ Moves("texts") /\ Texts!Next
    \/ Moves("evaluation") /\ Evaluating!Next
    \/ Moves("checks") /\ Checking!Next
    \/ Moves("sessions") /\ Deleting!Next
    \/ Moves("hook commands") /\ HookCommands!Next

Spec == Init /\ [][Next]_vars

-----------------------------------------------------------------------------
(* What each of them promises, in its own module.                          *)

ImplementsDurableWrites == Store!ImplementsDurableWrites
LockGivenBack == Lock!LockGivenBack
NotifiedOnce == Background!NotifiedOnce
SerialInOrder == Memory!SerialInOrder
AnswersCount == Protocol!AnswersCount
OneProcessPerTree == Agents!OneProcessPerTree
LiveTurnsAreNotRecovered == Agents!LiveTurnsAreNotRecovered
AuditIsComplete == Audit!AuditIsComplete
TraceTellsTheStory == Hooking!TraceTellsTheStory
CallsRepair == Trees!CallsRepair
\* No process that a tool or a hook has started runs on after its call, and a
\* hook's answer is what its command said (in Processes and CommandHook).
NothingRunsOn == Commands!NothingRunsOn /\ HookCommands!NothingRunsOn
ToldAsSent == Streaming!ToldAsSent
TextIsContiguous == Texts!TextIsContiguous
ScoresAreHonest == Evaluating!ScoresAreHonest
VerdictsAreEarned == Checking!VerdictsAreEarned
ReferencesAreKept == Deleting!ReferencesAreKept
=============================================================================
