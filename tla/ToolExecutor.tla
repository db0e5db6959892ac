---------------------------- MODULE ToolExecutor ----------------------------
(***************************************************************************)
(* One workspace's tool calls: the pipeline of ToolExecutor over           *)
(* DuplicateGuard and the workspace's lock and version                     *)
(* (src/litecoder/tools/{executor,duplicate_guard,workspace_version}.py).  *)
(*                                                                         *)
(* A call runs in its own asyncio task.  It can be overtaken by others in  *)
(* its hooks, while it waits for the lease on its fingerprint, while it is *)
(* being permitted and waits for the lock, while its tool runs, and while  *)
(* it waits to number a change that was not its to make.  Everything the   *)
(* guard does under its own mutex never awaits, so it is part of a step.   *)
(*                                                                         *)
(* Arguments are abstracted to one set per tool: two calls of one session  *)
(* for one tool have the same fingerprint.  The lock is AsyncRWLock as     *)
(* SharedExclusive promises it (see RWLock); fresh, stale and unversioned  *)
(* are history, which no guard reads.                                      *)
(***************************************************************************)
EXTENDS Integers, FiniteSets

CONSTANTS
    Calls,          \* tasks that run tool calls
    Sessions,       \* agent sessions
    SessionOf,      \* the session of each task
    Background,     \* those that background_start runs beside the loop
    Tools,          \* registered tools
    Mutating,       \* spec.mutates_workspace
    Exclusive,      \* spec.concurrency = "exclusive"
    LockFree,       \* spec.workspace_lock is False
    Breaching,      \* tools that change the workspace though they must not
    Undeduped,      \* spec.dedupe_policy = "none"
    Window,         \* DUPLICATE_CALL_WINDOW_ROUNDS
    MaxRound, MaxMessages, MaxVersion,   \* bounds
    Interrupts      \* how often a call that waits to number a change is cancelled

ASSUME ToolAssumptions ==
    /\ SessionOf \in [Calls -> Sessions]
    /\ Background \subseteq Calls
    /\ IsFiniteSet(Calls) /\ Tools # {}
    /\ Exclusive \subseteq Tools /\ LockFree \subseteq Tools
    \* ToolSpec.__post_init__
    /\ Mutating \subseteq Exclusive /\ Mutating \cap LockFree = {}
    /\ Breaching \cap Mutating = {}

ASSUME BoundAssumptions ==
    /\ Window \in Nat \ {0}
    /\ MaxRound \in Nat /\ MaxMessages \in Nat /\ MaxVersion \in Nat
    /\ Interrupts \in Nat

VARIABLES
    call,          \* what each task is doing
    version,       \* WorkspaceState.version
    records,       \* DuplicateGuard._records
    generation,    \* DuplicateGuard._generations
    observed,      \* DuplicateGuard._rounds, 0 for none
    loopRound,     \* AgentLoop's round_number, 0 before the first message
    unversioned    \* the content has changed and no version has been given to it

guard == <<records, generation, observed>>
vars == <<call, version, records, generation, observed, loopRound, unversioned>>

CallStates ==
    [at : {"idle", "hooks", "leasing", "permitting", "running", "owing", "unwinding"},
     tool : Tools, round : Nat, generation : Nat,
     before : Nat, touched : BOOLEAN, stale : BOOLEAN, cancelled : Nat]

Records ==
    [session : Sessions, generation : Nat, version : Nat, tool : Tools,
     round : Nat, fresh : BOOLEAN]

TypeOK ==
    /\ call \in [Calls -> CallStates]
    /\ version \in Nat
    /\ records \subseteq Records
    /\ generation \in [Sessions -> Nat]
    /\ observed \in [Sessions -> Nat]
    /\ loopRound \in [Sessions -> Nat]
    /\ unversioned \in BOOLEAN

Idle ==
    [at |-> "idle", tool |-> CHOOSE t \in Tools : TRUE, round |-> 0,
     generation |-> 0, before |-> 0, touched |-> FALSE,
     stale |-> FALSE, cancelled |-> 0]

Init ==
    /\ call = [c \in Calls |-> Idle]
    /\ version = 0
    /\ records = {}
    /\ generation = [s \in Sessions |-> 0]
    /\ observed = [s \in Sessions |-> 0]
    /\ loopRound = [s \in Sessions |-> 0]
    /\ unversioned = FALSE

-----------------------------------------------------------------------------
(* What a call is and holds.                                               *)

At(c, place) == call[c].at = place
Move(c, place) == [call EXCEPT ![c].at = place]
End(c) == [call EXCEPT ![c] = Idle]

Mutates(c) == call[c].tool \in Mutating
Deduped(c) == call[c].tool \notin Undeduped
Locked(c) == call[c].tool \notin LockFree

HoldsLock(c) == At(c, "running") /\ Locked(c)
HoldsWrite(c) == HoldsLock(c) /\ call[c].tool \in Exclusive
HoldsLease(c) == Deduped(c) /\ call[c].at \in {"permitting", "running", "owing"}

\* It has changed what it must not, and still has to give that a version.
Owes(c) == call[c].at \in {"owing", "unwinding"}

\* The message the call was made for is still the session's latest.
IsCurrent(c) == call[c].generation = generation[SessionOf[c]]

SameFingerprint(c, d) ==
    /\ SessionOf[c] = SessionOf[d]
    /\ call[c].tool = call[d].tool
    /\ call[c].generation = call[d].generation

LeaseIgnored(c) == TRUE
LeaseFree(c) ==
    Deduped(c) => \A d \in Calls \ {c} : ~(HoldsLease(d) /\ SameFingerprint(c, d))

LockFreeFor(c) ==
    \/ ~Locked(c)
    \/ \A d \in Calls : ~HoldsLock(d)
    \/ call[c].tool \notin Exclusive /\ \A d \in Calls : ~HoldsWrite(d)

\* r answers a call c made at version v.
Answers(r, c, v) ==
    /\ Deduped(c)
    /\ r.session = SessionOf[c] /\ r.generation = call[c].generation
    /\ r.tool = call[c].tool /\ r.version = v
    /\ call[c].round - r.round < Window

IsDuplicate(c) == \E r \in records : Answers(r, c, version)

-----------------------------------------------------------------------------
(* The loop: messages, rounds, and the calls they make.                    *)

NoneInForeground(s) ==
    \A c \in Calls : SessionOf[c] = s => c \in Background \/ At(c, "idle")

\* AgentLoop._run_turn begins: DuplicateGuard.start_user_message.
NewMessage(s) ==
    /\ generation[s] < MaxMessages
    /\ NoneInForeground(s)
    /\ records' = {r \in records : r.session # s}
    /\ observed' = [observed EXCEPT ![s] = 0]
    /\ generation' = [generation EXCEPT ![s] = @ + 1]
    /\ loopRound' = [loopRound EXCEPT ![s] = 1]
    /\ UNCHANGED <<call, version, unversioned>>

\* Every call of the round's batches has answered.
NextRound(s) ==
    /\ loopRound[s] \in 1..(MaxRound - 1)
    /\ NoneInForeground(s)
    /\ loopRound' = [loopRound EXCEPT ![s] = @ + 1]
    /\ UNCHANGED <<call, version, guard, unversioned>>

\* A call of the batch, or one that background_start makes: it takes the
\* context, round included, of the round that starts it.
Begin(c, t) ==
    /\ At(c, "idle")
    /\ loopRound[SessionOf[c]] > 0
    /\ call' = [call EXCEPT ![c] =
                   [Idle EXCEPT !.at = "hooks", !.tool = t,
                                !.round = loopRound[SessionOf[c]]]]
    /\ UNCHANGED <<version, guard, loopRound, unversioned>>

-----------------------------------------------------------------------------
(* Before the tool runs.                                                   *)

\* DuplicateGuard.prepare, after the PRE_TOOL_USE hooks.
Prepare(c) ==
    /\ At(c, "hooks")
    /\ call' = [call EXCEPT ![c].at = "leasing",
                            ![c].generation = generation[SessionOf[c]]]
    /\ UNCHANGED <<version, guard, loopRound, unversioned>>

\* Blocked by a hook, an unknown tool, invalid arguments, denied, cancelled, no
\* file lock: an answer without running the tool.
GiveUp(c) ==
    /\ call[c].at \in {"hooks", "leasing", "permitting"}
    /\ call' = End(c)
    /\ UNCHANGED <<version, guard, loopRound, unversioned>>

\* _purge_stale_generation
OfThisMessage(s) == {r \in records : r.session = s => r.generation = generation[s]}

\* _observe_round: what is left of the records when s has reached the round.
InWindow(s, round) ==
    {r \in OfThisMessage(s) : r.session = s => r.round > round - Window}

Leased(c) == At(c, "leasing") /\ LeaseFree(c)

Behind(c) == call[c].round < observed[SessionOf[c]]

Observe(c) ==
    /\ records' = InWindow(SessionOf[c], call[c].round)
    /\ observed' = [observed EXCEPT ![SessionOf[c]] = call[c].round]
    /\ UNCHANGED generation

\* check: the call belongs to an earlier message, nothing is looked up.
CheckLate(c) ==
    /\ Leased(c) /\ ~IsCurrent(c)
    /\ call' = Move(c, "permitting")
    /\ records' = OfThisMessage(SessionOf[c])
    /\ UNCHANGED <<version, generation, observed, loopRound, unversioned>>

\* check: "round_number must be monotonic" is raised.
CheckRefused(c) ==
    /\ Leased(c) /\ IsCurrent(c) /\ Behind(c)
    /\ call' = End(c)
    /\ records' = OfThisMessage(SessionOf[c])
    /\ UNCHANGED <<version, generation, observed, loopRound, unversioned>>

\* check: duplicate_blocked.
CheckDuplicate(c) ==
    /\ Leased(c) /\ IsCurrent(c) /\ ~Behind(c)
    /\ IsDuplicate(c)
    /\ Observe(c)
    /\ call' = End(c)
    /\ UNCHANGED <<version, loopRound, unversioned>>

CheckClear(c) ==
    /\ Leased(c) /\ IsCurrent(c) /\ ~Behind(c)
    /\ ~IsDuplicate(c)
    /\ Observe(c)
    /\ call' = Move(c, "permitting")
    /\ UNCHANGED <<version, loopRound, unversioned>>

Started == {c \in Calls : At(c, "running") \/ Owes(c)}

StartAnyhow(c) ==
    /\ At(c, "permitting")
    /\ version + Cardinality(Started) < MaxVersion
    /\ \A d \in Calls : ~HoldsWrite(d)
    /\ call' = [call EXCEPT ![c].at = "running", ![c].before = version]
    /\ UNCHANGED <<version, guard, loopRound, unversioned>>

\* Permitted, and the workspace lock (and the file lock that keeps the writers
\* of other processes out) is there.
Start(c) ==
    /\ At(c, "permitting")
    /\ version + Cardinality(Started) < MaxVersion
    /\ LockFreeFor(c)
    /\ call' = [call EXCEPT ![c].at = "running", ![c].before = version]
    /\ UNCHANGED <<version, guard, loopRound, unversioned>>

-----------------------------------------------------------------------------
(* The tool runs.                                                          *)

\* Call c has changed the content: what others have seen of it is out of date.
Overtaken(c, calls) ==
    [d \in Calls |-> IF d # c /\ At(d, "running")
                     THEN [calls[d] EXCEPT !.stale = TRUE] ELSE calls[d]]

Outdated == {[r EXCEPT !.fresh = FALSE] : r \in records}

Touch(c) ==
    /\ At(c, "running") /\ Mutates(c) /\ ~call[c].touched
    /\ call' = Overtaken(c, [call EXCEPT ![c].touched = TRUE])
    /\ records' = Outdated
    /\ unversioned' = TRUE
    /\ UNCHANGED <<version, generation, observed, loopRound>>

\* record_prepared_success under the version before the call and the one after.
Recorded(c, after) ==
    LET isOld(r) == /\ r.session = SessionOf[c] /\ r.tool = call[c].tool
                    /\ r.generation = call[c].generation
                    /\ r.version \in {call[c].before, after}
    IN  {r \in OfThisMessage(SessionOf[c]) : ~isOld(r)}
        \cup {[session |-> SessionOf[c], generation |-> call[c].generation,
               version |-> v, tool |-> call[c].tool, round |-> call[c].round,
               fresh |-> ~call[c].stale] : v \in {call[c].before, after}}

CommitForAnyMessage(c) ==
    LET after == IF call[c].touched THEN version + 1 ELSE version IN
    /\ At(c, "running")
    /\ version' = after
    /\ unversioned' = (unversioned /\ ~call[c].touched)
    /\ records' = IF Deduped(c) THEN Recorded(c, after) ELSE records
    /\ call' = End(c)
    /\ UNCHANGED <<generation, observed, loopRound>>

CommitUnversioned(c) ==
    /\ At(c, "running")
    /\ records' = IF Deduped(c) /\ IsCurrent(c)
                  THEN Recorded(c, version) ELSE records
    /\ call' = End(c)
    /\ UNCHANGED <<version, generation, observed, loopRound, unversioned>>

\* _commit_success_shielded: the tool succeeded.  Once scheduled, its body runs
\* in one piece whatever is cancelled.
Commit(c) ==
    LET after == IF call[c].touched THEN version + 1 ELSE version IN
    /\ At(c, "running")
    /\ version' = after
    /\ unversioned' = (unversioned /\ ~call[c].touched)
    /\ records' = IF Deduped(c) /\ IsCurrent(c) THEN Recorded(c, after)
                  ELSE IF Deduped(c) THEN OfThisMessage(SessionOf[c])
                  ELSE records
    /\ call' = End(c)
    /\ UNCHANGED <<generation, observed, loopRound>>

\* ToolDenied, ToolFailure, a partial failure that changed nothing; any other
\* failure or a cancellation of a tool that does not mutate.
Fail(c) ==
    /\ At(c, "running") /\ ~call[c].touched
    /\ call' = End(c)
    /\ UNCHANGED <<version, guard, loopRound, unversioned>>

SpoilRollingBack(c) ==
    /\ At(c, "running") /\ Mutates(c)
    /\ version' = version - 1
    /\ unversioned' = FALSE
    /\ call' = End(c)
    /\ UNCHANGED <<guard, loopRound>>

SpoilQuietly(c) ==
    /\ At(c, "running") /\ Mutates(c)
    /\ call' = End(c)
    /\ UNCHANGED <<version, guard, loopRound, unversioned>>

\* A mutating tool failed half way, raised, broke its contract or was cancelled:
\* it may have changed the content, so the version moves and nothing is recorded.
Spoil(c) ==
    /\ At(c, "running") /\ Mutates(c)
    /\ version' = version + 1
    /\ unversioned' = FALSE
    /\ call' = End(c)
    /\ UNCHANGED <<guard, loopRound>>

\* A tool that must not mutate reports that it did.  It held the lock shared, if
\* at all, so it has to number the change after it let go.
Breach(c) ==
    /\ At(c, "running") /\ call[c].tool \in Breaching
    /\ call' = Overtaken(c, [call EXCEPT ![c].at = "owing", ![c].before = 0,
                                         ![c].stale = FALSE])
    /\ records' = Outdated
    /\ unversioned' = TRUE
    /\ UNCHANGED <<version, generation, observed, loopRound>>

\* Cancelled as it gives back its lock, it gives up its lease as well, and numbers
\* the change in execute's handler.
Unwind(c) ==
    /\ At(c, "owing") /\ call[c].cancelled = 0
    /\ call' = Move(c, "unwinding")
    /\ UNCHANGED <<version, guard, loopRound, unversioned>>

SettleAtOnce(c) ==
    /\ Owes(c)
    /\ version' = version + 1
    /\ unversioned' = FALSE
    /\ call' = End(c)
    /\ UNCHANGED <<guard, loopRound>>

\* The increment of _increment_exclusive_shielded has the lock to itself.
Settle(c) ==
    /\ Owes(c)
    /\ \A d \in Calls : ~HoldsLock(d)
    /\ version' = version + 1
    /\ unversioned' = FALSE
    /\ call' = End(c)
    /\ UNCHANGED <<guard, loopRound>>

\* A cancellation meets the shield, and the call waits on for its increment; the
\* next one reaches the increment itself.
Interrupt(c) ==
    /\ Owes(c)
    /\ call[c].cancelled < Interrupts
    /\ call' = IF call[c].cancelled = 0
               THEN [call EXCEPT ![c].cancelled = 1] ELSE End(c)
    /\ UNCHANGED <<version, guard, loopRound, unversioned>>

-----------------------------------------------------------------------------
Next ==
    \/ \E s \in Sessions : NewMessage(s) \/ NextRound(s)
    \/ \E c \in Calls :
        \/ \E t \in Tools : Begin(c, t)
        \/ Prepare(c) \/ GiveUp(c)
        \/ CheckLate(c) \/ CheckRefused(c) \/ CheckDuplicate(c) \/ CheckClear(c)
        \/ Start(c)
        \/ Touch(c) \/ Commit(c) \/ Fail(c) \/ Spoil(c)
        \/ Breach(c) \/ Unwind(c) \/ Settle(c) \/ Interrupt(c)

Spec == Init /\ [][Next]_vars

-----------------------------------------------------------------------------
(* Safety.                                                                 *)

\* A tool under the lock sees one version of the workspace from the moment it
\* starts until it ends: nobody else's change, failure, or late increment moves
\* the version below it.
OneVersionPerRun ==
    \A c \in Calls : HoldsLock(c) => call[c].before = version

\* Within one user message a session never does again, at the same version,
\* what it has done within the window: neither after an identical call that
\* succeeded while this one was being permitted, nor beside one still running.
NoRepeatedWork ==
    \A c \in Calls : (At(c, "running") /\ Deduped(c) /\ IsCurrent(c)) =>
        /\ ~\E r \in records : Answers(r, c, call[c].before)
        /\ \A d \in Calls \ {c} : ~(At(d, "running") /\ SameFingerprint(c, d))

ChangeUnderWay ==
    \E c \in Calls : Owes(c) \/ (At(c, "running") /\ call[c].touched)

\* A change of the content gets a version of its own, however the call that
\* made it ends: until it has one, a call that changed something is still at it.
ChangesAreVersioned == unversioned => ChangeUnderWay

\* What a call under the lock left behind at the workspace's present version
\* still holds, unless a change is on its way to a version of its own: whoever
\* is answered from it is not told of content that is gone.
RecordsAreCurrent ==
    \A r \in records :
        (r.version = version /\ r.tool \notin LockFree) => (r.fresh \/ ChangeUnderWay)

\* The same of every tool, those included that run without the lock.
EveryRecordIsCurrent ==
    \A r \in records : r.version = version => (r.fresh \/ ChangeUnderWay)

\* A call begun for an earlier message leaves no trace in the next: whatever
\* suppresses a call was done for the same message, and at a version that the
\* workspace has had.
RecordsOfThisMessage ==
    \A r \in records :
        r.generation = generation[r.session] /\ r.version <= version

\* No call is refused because its round is behind one already seen.
RoundsNeverGoBack ==
    \A c \in Calls : (Leased(c) /\ IsCurrent(c)) => ~Behind(c)
=============================================================================
