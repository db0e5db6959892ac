------------------------- MODULE ToolExecutorProofs -------------------------
(***************************************************************************)
(* The properties of ToolExecutor hold for any number of calls, sessions,  *)
(* tools, rounds, messages and versions.                                   *)
(***************************************************************************)
EXTENDS ToolExecutor, TLAPS

-----------------------------------------------------------------------------
(* The inductive invariant.                                                *)

LockIsExclusive ==
    \A c, d \in Calls : (c # d /\ HoldsWrite(c)) => ~HoldsLock(d)

LeaseIsExclusive ==
    \A c, d \in Calls :
        (c # d /\ HoldsLease(c) /\ HoldsLease(d)) => ~SameFingerprint(c, d)

\* What a call remembers is of the past, and only a call whose tool runs has
\* seen or made a change.
CallsFit ==
    \A c \in Calls :
        /\ call[c].generation <= generation[SessionOf[c]]
        /\ At(c, "running") => call[c].before <= version
        /\ call[c].touched => (At(c, "running") /\ Mutates(c))
        /\ call[c].stale => At(c, "running")

\* A call that was found not to be a duplicate does not become one while it is
\* being permitted.
ClearStaysClear ==
    \A c \in Calls :
        (At(c, "permitting") /\ Deduped(c) /\ IsCurrent(c)) => ~IsDuplicate(c)

\* What a call under the lock has missed is a change that waits for the lock to
\* be numbered.
StaleIsExplained ==
    \A c \in Calls :
        (HoldsLock(c) /\ call[c].stale) => \E d \in Calls \ {c} : Owes(d)

\* What holds however often a call is cancelled...
Core ==
    /\ TypeOK
    /\ LockIsExclusive
    /\ LeaseIsExclusive
    /\ CallsFit
    /\ OneVersionPerRun
    /\ RecordsOfThisMessage
    /\ ClearStaysClear
    /\ NoRepeatedWork

\* ... and what holds if no cancellation reaches the increment of a version.
Currency ==
    /\ ChangesAreVersioned
    /\ StaleIsExplained
    /\ RecordsAreCurrent

LEMMA InitInv == Init => Core /\ Currency
<1> SUFFICES ASSUME Init PROVE Core /\ Currency
    OBVIOUS
<1>1. Idle \in CallStates
    BY ToolAssumptions DEF Idle, CallStates
<1>2. TypeOK
    BY <1>1 DEF Init, TypeOK
<1> QED
    BY <1>2, ToolAssumptions DEF Core, Currency, Init, Idle, LockIsExclusive, LeaseIsExclusive,
       CallsFit, OneVersionPerRun, RecordsOfThisMessage, ClearStaysClear,
       NoRepeatedWork, ChangesAreVersioned, StaleIsExplained, RecordsAreCurrent,
       At, HoldsLock, HoldsWrite, HoldsLease, IsDuplicate

-----------------------------------------------------------------------------
(* Types.                                                                  *)

LEMMA RecordedType ==
    ASSUME TypeOK, NEW c \in Calls, NEW after \in Nat
    PROVE  Recorded(c, after) \subseteq Records
<1>1. SessionOf[c] \in Sessions
    BY ToolAssumptions
<1>2. /\ call[c].generation \in Nat /\ call[c].tool \in Tools
      /\ call[c].round \in Nat /\ call[c].before \in Nat
    BY DEF TypeOK, CallStates
<1>3. (~call[c].stale) \in BOOLEAN
    OBVIOUS
<1>4. ASSUME NEW v \in {call[c].before, after}
      PROVE  [session |-> SessionOf[c], generation |-> call[c].generation,
              version |-> v, tool |-> call[c].tool, round |-> call[c].round,
              fresh |-> ~call[c].stale] \in Records
    BY <1>1, <1>2, <1>3 DEF Records
<1> QED
    BY <1>4 DEF Recorded, OfThisMessage, TypeOK

LEMMA TypeStep == TypeOK /\ Next => TypeOK'
<1> SUFFICES ASSUME TypeOK, Next PROVE TypeOK'
    OBVIOUS
<1> USE DEF TypeOK, guard
<1>0. Idle \in CallStates
    BY ToolAssumptions DEF Idle, CallStates
<1>1. ASSUME NEW s \in Sessions, NewMessage(s) \/ NextRound(s) PROVE TypeOK'
    BY <1>1, BoundAssumptions DEF NewMessage, NextRound
<1>2. ASSUME NEW c \in Calls PROVE End(c) \in [Calls -> CallStates]
    BY <1>0 DEF End
<1>3. ASSUME NEW c \in Calls, NEW place \in {"idle", "hooks", "leasing", "permitting", "running", "owing", "unwinding"}
      PROVE Move(c, place) \in [Calls -> CallStates]
    BY DEF Move, CallStates
<1>4. ASSUME NEW c \in Calls, NEW t \in Tools, Begin(c, t) PROVE TypeOK'
    BY <1>4, <1>0, ToolAssumptions DEF Begin, CallStates
<1>5. ASSUME NEW c \in Calls, Prepare(c) \/ GiveUp(c) PROVE TypeOK'
  <2>1. CASE Prepare(c)
    <3>1. generation[SessionOf[c]] \in Nat
      BY ToolAssumptions
    <3>2. [call[c] EXCEPT !.at = "leasing", !.generation = generation[SessionOf[c]]]
              \in CallStates
      BY <3>1 DEF CallStates
    <3> QED
      BY <2>1, <3>2 DEF Prepare
  <2>2. CASE GiveUp(c)
    BY <2>2, <1>2, ZenonT(20) DEF GiveUp
  <2> QED
    BY <1>5, <2>1, <2>2
<1>6. ASSUME NEW c \in Calls, CheckLate(c) \/ CheckRefused(c) PROVE TypeOK'
    BY <1>6, <1>2, <1>3 DEF CheckLate, CheckRefused, OfThisMessage
<1>7. ASSUME NEW c \in Calls, CheckDuplicate(c) \/ CheckClear(c) PROVE TypeOK'
  <2>1. call[c].round \in Nat /\ SessionOf[c] \in Sessions
    BY ToolAssumptions DEF CallStates
  <2>2. Observe(c)
    BY <1>7, ZenonT(20) DEF CheckDuplicate, CheckClear
  <2>3. /\ records' \subseteq Records
        /\ observed' \in [Sessions -> Nat]
        /\ generation' = generation
    BY <2>1, <2>2 DEF Observe, InWindow, OfThisMessage
  <2>4. call' \in [Calls -> CallStates]
    BY <1>7, <1>2, <1>3 DEF CheckDuplicate, CheckClear
  <2>5. UNCHANGED <<version, loopRound, unversioned>>
    BY <1>7, ZenonT(20) DEF CheckDuplicate, CheckClear
  <2> QED
    BY <2>3, <2>4, <2>5
<1>8. ASSUME NEW c \in Calls, Start(c) PROVE TypeOK'
  <2>1. [call[c] EXCEPT !.at = "running", !.before = version] \in CallStates
    BY DEF CallStates
  <2> QED
    BY <1>8, <2>1 DEF Start
<1>9. Outdated \subseteq Records
    BY DEF Outdated, Records
<1>10. ASSUME NEW c \in Calls, NEW calls \in [Calls -> CallStates]
       PROVE  Overtaken(c, calls) \in [Calls -> CallStates]
    BY DEF Overtaken, CallStates
<1>11. ASSUME NEW c \in Calls, Touch(c) PROVE TypeOK'
  <2>1. [call EXCEPT ![c].touched = TRUE] \in [Calls -> CallStates]
    BY DEF CallStates
  <2> QED
    BY <1>11, <1>9, <1>10, <2>1 DEF Touch
<1>12. ASSUME NEW c \in Calls, Breach(c) PROVE TypeOK'
  <2>1. [call[c] EXCEPT !.at = "owing", !.before = 0, !.stale = FALSE]
            \in CallStates
    BY DEF CallStates
  <2>2. [call EXCEPT ![c].at = "owing", ![c].before = 0, ![c].stale = FALSE]
            \in [Calls -> CallStates]
    BY <2>1
  <2> QED
    BY <1>12, <1>9, <1>10, <2>2 DEF Breach
<1>13. ASSUME NEW c \in Calls, Commit(c) PROVE TypeOK'
  <2> DEFINE after == IF call[c].touched THEN version + 1 ELSE version
  <2>1. after \in Nat
    OBVIOUS
  <2>2. records' \subseteq Records
    BY <1>13, <2>1, RecordedType DEF Commit, OfThisMessage
  <2>3. version' \in Nat /\ unversioned' \in BOOLEAN
    BY <1>13, <2>1 DEF Commit
  <2> QED
    BY <1>13, <2>2, <2>3, <1>2 DEF Commit
<1>14. ASSUME NEW c \in Calls, Fail(c) \/ Spoil(c) \/ Settle(c) PROVE TypeOK'
  <2>1. version + 1 \in Nat
    OBVIOUS
  <2>2. version' \in Nat /\ unversioned' \in BOOLEAN /\ call' = End(c)
    BY <1>14, <2>1, ZenonT(20) DEF Fail, Spoil, Settle
  <2>3. UNCHANGED <<guard, loopRound>>
    BY <1>14, ZenonT(20) DEF Fail, Spoil, Settle
  <2> QED
    BY <1>2, <2>2, <2>3
<1>15. ASSUME NEW c \in Calls, Interrupt(c) PROVE TypeOK'
  <2>1. [call EXCEPT ![c].cancelled = 1] \in [Calls -> CallStates]
    BY DEF CallStates
  <2> QED
    BY <1>15, <1>2, <2>1 DEF Interrupt
<1>16. ASSUME NEW c \in Calls, Unwind(c) PROVE TypeOK'
    BY <1>16, <1>3 DEF Unwind
<1> QED
    BY <1>1, <1>4, <1>5, <1>6, <1>7, <1>8, <1>11, <1>12, <1>13, <1>14, <1>15, <1>16
       DEF Next

-----------------------------------------------------------------------------
(* What the steps do to the calls.                                         *)

CallActions(c) ==
    \/ \E t \in Tools : Begin(c, t)
    \/ Prepare(c) \/ GiveUp(c)
    \/ CheckLate(c) \/ CheckRefused(c) \/ CheckDuplicate(c) \/ CheckClear(c)
    \/ Start(c)
    \/ Touch(c) \/ Commit(c) \/ Fail(c) \/ Spoil(c)
    \/ Breach(c) \/ Unwind(c) \/ Settle(c) \/ Interrupt(c)

\* A call that another one's step leaves alone may only learn that it is stale.
Same(r, q) ==
    /\ q.at = r.at /\ q.tool = r.tool /\ q.round = r.round
    /\ q.generation = r.generation /\ q.before = r.before
    /\ q.touched = r.touched /\ q.cancelled = r.cancelled

LEMMA IdleFields ==
    /\ Idle \in CallStates
    /\ Idle.at = "idle" /\ Idle.generation = 0 /\ Idle.before = 0
    /\ Idle.touched = FALSE /\ Idle.stale = FALSE
<1> QED
    BY ToolAssumptions DEF Idle, CallStates

LEMMA OthersStay ==
    ASSUME TypeOK, NEW c \in Calls, CallActions(c), NEW d \in Calls \ {c}
    PROVE  /\ Same(call[d], call'[d])
           /\ call'[d].stale = call[d].stale \/ Touch(c) \/ Breach(c)
<1> USE DEF TypeOK, Same
<1>1. CASE \E t \in Tools : Begin(c, t)
    BY <1>1 DEF Begin
<1>2. CASE Prepare(c) \/ GiveUp(c)
    BY <1>2 DEF Prepare, GiveUp, End
<1>3. CASE CheckLate(c) \/ CheckRefused(c) \/ CheckDuplicate(c) \/ CheckClear(c)
    BY <1>3 DEF CheckLate, CheckRefused, CheckDuplicate, CheckClear, End, Move
<1>4. CASE Start(c)
    BY <1>4 DEF Start
<1>5. CASE Touch(c)
    BY <1>5 DEF Touch, Overtaken, CallStates
<1>6. CASE Commit(c) \/ Fail(c) \/ Spoil(c) \/ Settle(c)
    BY <1>6 DEF Commit, Fail, Spoil, Settle, End
<1>7. CASE Breach(c)
    BY <1>7 DEF Breach, Overtaken, CallStates
<1>8. CASE Interrupt(c) \/ Unwind(c)
    BY <1>8 DEF Interrupt, Unwind, Move, End
<1> QED
    BY <1>1, <1>2, <1>3, <1>4, <1>5, <1>6, <1>7, <1>8 DEF CallActions

LEMMA OwnStep ==
    ASSUME TypeOK, NEW c \in Calls, CallActions(c)
    PROVE  /\ (GiveUp(c) \/ CheckRefused(c) \/ CheckDuplicate(c) \/ Commit(c)
                \/ Fail(c) \/ Spoil(c) \/ Settle(c)) => call'[c] = Idle
           /\ (\E t \in Tools : Begin(c, t)) =>
                  /\ call'[c].at = "hooks" /\ call'[c].generation = 0
                  /\ ~call'[c].touched /\ ~call'[c].stale
           /\ Prepare(c) =>
                  /\ call'[c].at = "leasing"
                  /\ call'[c].generation = generation[SessionOf[c]]
                  /\ call'[c].touched = call[c].touched
                  /\ call'[c].stale = call[c].stale
           /\ (CheckLate(c) \/ CheckClear(c)) =>
                  /\ At(c, "leasing")
                  /\ call'[c] = [call[c] EXCEPT !.at = "permitting"]
           /\ Start(c) =>
                  call'[c] = [call[c] EXCEPT !.at = "running", !.before = version]
           /\ Touch(c) => call'[c] = [call[c] EXCEPT !.touched = TRUE]
           /\ Breach(c) =>
                  call'[c] = [call[c] EXCEPT !.at = "owing", !.before = 0,
                                             !.stale = FALSE]
           /\ Unwind(c) => call'[c] = [call[c] EXCEPT !.at = "unwinding"]
           /\ Interrupt(c) =>
                  \/ call[c].cancelled = 0
                     /\ call'[c] = [call[c] EXCEPT !.cancelled = 1]
                  \/ call[c].cancelled > 0 /\ call'[c] = Idle
<1> USE DEF TypeOK
<1>1. (GiveUp(c) \/ CheckRefused(c) \/ CheckDuplicate(c) \/ Commit(c)
        \/ Fail(c) \/ Spoil(c) \/ Settle(c)) => call'[c] = Idle
    BY DEF GiveUp, CheckRefused, CheckDuplicate, Commit, Fail, Spoil, Settle, End
<1>2. (\E t \in Tools : Begin(c, t)) =>
          /\ call'[c].at = "hooks" /\ call'[c].generation = 0
          /\ ~call'[c].touched /\ ~call'[c].stale
    BY IdleFields DEF Begin, CallStates
<1>3. Prepare(c) =>
          /\ call'[c].at = "leasing"
          /\ call'[c].generation = generation[SessionOf[c]]
          /\ call'[c].touched = call[c].touched
          /\ call'[c].stale = call[c].stale
    BY DEF Prepare, CallStates
<1>4. (CheckLate(c) \/ CheckClear(c)) =>
          /\ At(c, "leasing")
          /\ call'[c] = [call[c] EXCEPT !.at = "permitting"]
    BY DEF CheckLate, CheckClear, Leased, Move
<1>5. Start(c) => call'[c] = [call[c] EXCEPT !.at = "running", !.before = version]
    BY DEF Start
<1>6. Touch(c) => call'[c] = [call[c] EXCEPT !.touched = TRUE]
    BY DEF Touch, Overtaken
<1>7. Breach(c) => call'[c] = [call[c] EXCEPT !.at = "owing", !.before = 0,
                                              !.stale = FALSE]
    BY DEF Breach, Overtaken
<1>8. Interrupt(c) => \/ call[c].cancelled = 0
                         /\ call'[c] = [call[c] EXCEPT !.cancelled = 1]
                      \/ call[c].cancelled > 0 /\ call'[c] = Idle
    BY DEF Interrupt, End, CallStates
<1>9. Unwind(c) => call'[c] = [call[c] EXCEPT !.at = "unwinding"]
    BY DEF Unwind, Move
<1> QED
    BY <1>1, <1>2, <1>3, <1>4, <1>5, <1>6, <1>7, <1>8, <1>9

\* Only Start lets a call's tool run.
LEMMA Running ==
    ASSUME TypeOK, NEW c \in Calls, CallActions(c), call'[c].at = "running"
    PROVE  Start(c) \/ Touch(c)
<1>1. call[c] \in CallStates
    BY DEF TypeOK
<1>2. call'[c] # Idle
    BY IdleFields
<1>3. ~(\E t \in Tools : Begin(c, t)) /\ ~Prepare(c)
    BY OwnStep
<1>4. ~CheckLate(c) /\ ~CheckClear(c) /\ ~Breach(c) /\ ~Unwind(c)
    BY <1>1, OwnStep DEF CallStates
<1>5. Interrupt(c) => call'[c].at = call[c].at /\ Owes(c)
    BY <1>1, <1>2, OwnStep DEF CallStates, Interrupt
<1> QED
    BY <1>2, <1>3, <1>4, <1>5, OwnStep DEF CallActions, Owes

\* Only Start gives a call the lock, and only a check gives it a lease.
LEMMA LockGained ==
    ASSUME TypeOK, NEW c \in Calls, CallActions(c), NEW d \in Calls, HoldsLock(d)'
    PROVE  \/ /\ HoldsLock(d)
              /\ call'[d].tool = call[d].tool /\ call'[d].before = call[d].before
           \/ d = c /\ Start(c) /\ call'[d].tool = call[d].tool
<1> USE DEF HoldsLock, At, Locked
<1>1. CASE d # c
    BY <1>1, OthersStay DEF Same
<1>2. CASE d = c
  <2>1. call[c] \in CallStates
    BY DEF TypeOK
  <2>2. Start(c) \/ Touch(c)
    BY <1>2, Running
  <2>3. Start(c) => call'[c].tool = call[c].tool
    BY <2>1, OwnStep DEF CallStates
  <2>4. Touch(c) => /\ At(c, "running") /\ call'[c].tool = call[c].tool
                    /\ call'[c].before = call[c].before
    BY <2>1, OwnStep DEF Touch, CallStates
  <2> QED
    BY <1>2, <2>2, <2>3, <2>4
<1> QED
    BY <1>1, <1>2

LEMMA LeaseGained ==
    ASSUME TypeOK, NEW c \in Calls, CallActions(c), NEW d \in Calls, HoldsLease(d)'
    PROVE  /\ call'[d].tool = call[d].tool /\ call'[d].generation = call[d].generation
           /\ HoldsLease(d) \/ (d = c /\ (CheckLate(c) \/ CheckClear(c)))
<1> USE DEF HoldsLease, At, Deduped
<1>1. CASE d # c
    BY <1>1, OthersStay DEF Same
<1>2. CASE d = c
  <2>1. call[c] \in CallStates
    BY DEF TypeOK
  <2>2. call'[c] # Idle
    BY <1>2, IdleFields
  <2>3. ~(\E t \in Tools : Begin(c, t)) /\ ~Prepare(c) /\ ~Unwind(c)
    BY <1>2, <2>1, OwnStep DEF CallStates
  <2>4. CheckLate(c) \/ CheckClear(c) \/ Start(c) \/ Touch(c) \/ Breach(c)
        \/ Interrupt(c)
    BY <2>2, <2>3, OwnStep DEF CallActions
  <2>5. call'[c].tool = call[c].tool /\ call'[c].generation = call[c].generation
    BY <2>1, <2>2, <2>4, OwnStep DEF CallStates
  <2>6. Start(c) => HoldsLease(c)
    BY <1>2, <2>5 DEF Start
  <2>7. Touch(c) \/ Breach(c) => HoldsLease(c)
    BY <1>2, <2>5 DEF Touch, Breach
  <2>8. Interrupt(c) => call'[c].at = call[c].at
    BY <2>1, <2>2, OwnStep DEF CallStates
  <2> QED
    BY <1>2, <2>4, <2>5, <2>6, <2>7, <2>8
<1> QED
    BY <1>1, <1>2

-----------------------------------------------------------------------------
(* What the steps do to the version and to the records.                    *)

LEMMA LockOfMutator ==
    ASSUME NEW c \in Calls, At(c, "running"), Mutates(c)
    PROVE  HoldsWrite(c)
<1> QED
    BY ToolAssumptions DEF Mutates, HoldsWrite, HoldsLock, Locked

LEMMA VersionMoves ==
    ASSUME TypeOK, CallsFit, NEW c \in Calls, CallActions(c)
    PROVE  \/ version' = version /\ (unversioned' = unversioned \/ Touch(c) \/ Breach(c))
           \/ /\ version' = version + 1 /\ unversioned' = FALSE /\ call'[c] = Idle
              /\ Settle(c) \/ HoldsWrite(c)
<1>1. CASE Commit(c)
  <2>1. CASE call[c].touched
    <3>1. HoldsWrite(c)
      BY <2>1, LockOfMutator DEF CallsFit
    <3>2. version' = version + 1 /\ unversioned' = FALSE
      BY <1>1, <2>1 DEF Commit
    <3> QED
      BY <1>1, <3>1, <3>2, OwnStep
  <2>2. CASE ~call[c].touched
    BY <1>1, <2>2 DEF Commit, TypeOK
  <2> QED
    BY <2>1, <2>2
<1>2. CASE Spoil(c)
    BY <1>2, OwnStep, LockOfMutator DEF Spoil
<1>3. CASE Settle(c)
    BY <1>3, OwnStep DEF Settle
<1>4. CASE ~Commit(c) /\ ~Spoil(c) /\ ~Settle(c)
    BY <1>4 DEF CallActions, Begin, Prepare, GiveUp, CheckLate, CheckRefused,
       CheckDuplicate, CheckClear, Start, Touch, Fail, Breach, Unwind, Interrupt
<1> QED
    BY <1>1, <1>2, <1>3, <1>4

SameKey(r, q) ==
    /\ q.session = r.session /\ q.generation = r.generation
    /\ q.version = r.version /\ q.tool = r.tool /\ q.round = r.round

\* A record that a successful call c leaves, at whatever version.
IsResult(r, c) ==
    /\ r.session = SessionOf[c] /\ r.generation = call[c].generation
    /\ r.tool = call[c].tool /\ r.round = call[c].round
    /\ r.fresh = ~call[c].stale

LEMMA RecordsFrom ==
    ASSUME TypeOK, NEW c \in Calls, CallActions(c), NEW r \in records'
    PROVE  \/ \E q \in records : SameKey(r, q) /\ (r.fresh = q.fresh \/ Touch(c) \/ Breach(c))
           \/ Commit(c) /\ Deduped(c) /\ IsCurrent(c) /\ IsResult(r, c)
              /\ r.version \in {call[c].before, version'}
<1> USE DEF SameKey
<1>1. CASE r \in records
    BY <1>1
<1>2. CASE Touch(c) \/ Breach(c)
  <2>1. r \in Outdated
    BY <1>2 DEF Touch, Breach
  <2>2. PICK q \in records : r = [q EXCEPT !.fresh = FALSE]
    BY <2>1 DEF Outdated
  <2>3. SameKey(r, q)
    BY <2>2 DEF TypeOK, Records
  <2> QED
    BY <1>2, <2>3
<1>3. CASE Commit(c) /\ r \notin records
  <2>1. Deduped(c) /\ IsCurrent(c)
    BY <1>3 DEF Commit, OfThisMessage
  <2>2. records' = Recorded(c, version')
    BY <1>3, <2>1 DEF Commit
  <2>3. PICK v \in {call[c].before, version'} :
            r = [session |-> SessionOf[c], generation |-> call[c].generation,
                 version |-> v, tool |-> call[c].tool, round |-> call[c].round,
                 fresh |-> ~call[c].stale]
    BY <1>3, <2>2 DEF Recorded, OfThisMessage
  <2>4. IsResult(r, c)
              /\ r.version \in {call[c].before, version'}
    BY <2>3 DEF IsResult
  <2> QED
    BY <1>3, <2>1, <2>4
<1>4. CASE ~Touch(c) /\ ~Breach(c) /\ ~Commit(c)
  <2>1. records' \subseteq records
    BY <1>4 DEF CallActions, Begin, Prepare, GiveUp, CheckLate, CheckRefused,
       CheckDuplicate, CheckClear, Observe, InWindow, OfThisMessage, Start, Fail,
       Spoil, Unwind, Settle, Interrupt, guard
  <2> QED
    BY <2>1, <1>1
<1> QED
    BY <1>1, <1>2, <1>3, <1>4

-----------------------------------------------------------------------------
(* Every call's step keeps the invariant.                                  *)

LEMMA LockStep ==
    ASSUME TypeOK, LockIsExclusive, NEW c \in Calls, CallActions(c)
    PROVE  LockIsExclusive'
<1> SUFFICES ASSUME NEW d \in Calls, NEW e \in Calls, d # e,
                    HoldsWrite(d)', HoldsLock(e)'
             PROVE  FALSE
    BY DEF LockIsExclusive
<1>1. HoldsLock(d)' /\ call'[d].tool \in Exclusive
    BY DEF HoldsWrite
<1>2. CASE HoldsLock(d) /\ HoldsLock(e)
  <2>1. call'[d].tool = call[d].tool
    BY <1>1, LockGained
  <2> QED
    BY <1>1, <1>2, <2>1 DEF LockIsExclusive, HoldsWrite
<1>3. CASE ~HoldsLock(d)
  <2>1. d = c /\ Start(c) /\ call'[d].tool = call[d].tool
    BY <1>1, <1>3, LockGained
  <2>2. HoldsLock(e)
    BY <2>1, LockGained
  <2>3. Locked(c)
    BY <1>1, <2>1 DEF HoldsLock, Locked
  <2> QED
    BY <1>1, <2>1, <2>2, <2>3 DEF Start, LockFreeFor
<1>4. CASE ~HoldsLock(e)
  <2>1. e = c /\ Start(c) /\ call'[e].tool = call[e].tool
    BY <1>4, LockGained
  <2>2. HoldsLock(d) /\ call'[d].tool = call[d].tool
    BY <1>1, <2>1, LockGained
  <2>3. Locked(c)
    BY <2>1 DEF HoldsLock, Locked
  <2> QED
    BY <1>1, <2>1, <2>2, <2>3 DEF Start, LockFreeFor, HoldsWrite
<1> QED
    BY <1>2, <1>3, <1>4

LEMMA LeaseStep ==
    ASSUME TypeOK, LeaseIsExclusive, NEW c \in Calls, CallActions(c)
    PROVE  LeaseIsExclusive'
<1> SUFFICES ASSUME NEW d \in Calls, NEW e \in Calls, d # e,
                    HoldsLease(d)', HoldsLease(e)', SameFingerprint(d, e)'
             PROVE  FALSE
    BY DEF LeaseIsExclusive
<1>1. SameFingerprint(d, e) /\ SameFingerprint(e, d)
    BY LeaseGained DEF SameFingerprint
<1>2. CASE HoldsLease(d) /\ HoldsLease(e)
    BY <1>1, <1>2 DEF LeaseIsExclusive
<1>3. ASSUME NEW f \in {d, e}, ~HoldsLease(f) PROVE FALSE
  <2>1. f = c /\ (CheckLate(c) \/ CheckClear(c)) /\ call'[c].tool = call[c].tool
    BY <1>3, LeaseGained
  <2>2. LeaseFree(c)
    BY <2>1 DEF CheckLate, CheckClear, Leased
  <2>3. Deduped(c)
    BY <2>1 DEF HoldsLease, Deduped
  <2>4. \A g \in {d, e} \ {c} : HoldsLease(g)
    BY LeaseGained
  <2> QED
    BY <1>1, <2>1, <2>2, <2>3, <2>4 DEF LeaseFree
<1> QED
    BY <1>2, <1>3

LEMMA FitStep ==
    ASSUME TypeOK, CallsFit, NEW c \in Calls, CallActions(c)
    PROVE  CallsFit'
<1>1. generation' = generation
    BY DEF CallActions, Begin, Prepare, GiveUp, CheckLate, CheckRefused,
       CheckDuplicate, CheckClear, Observe, Start, Touch, Commit, Fail, Spoil,
       Breach, Unwind, Settle, Interrupt, guard
<1>2. version \in Nat /\ version' \in Nat /\ version' >= version
  <2>1. version' = version \/ version' = version + 1
    BY VersionMoves
  <2> QED
    BY <2>1 DEF TypeOK
<1> SUFFICES ASSUME NEW d \in Calls
             PROVE  /\ call'[d].generation <= generation[SessionOf[d]]
                    /\ call'[d].at = "running" => call'[d].before <= version'
                    /\ call'[d].touched =>
                          (call'[d].at = "running" /\ call'[d].tool \in Mutating)
                    /\ call'[d].stale => call'[d].at = "running"
    BY <1>1 DEF CallsFit, At, Mutates
<1>3. /\ call[d].generation <= generation[SessionOf[d]]
      /\ call[d].at = "running" => call[d].before <= version
      /\ call[d].touched => (call[d].at = "running" /\ call[d].tool \in Mutating)
      /\ call[d].stale => call[d].at = "running"
    BY DEF CallsFit, At, Mutates
<1>4. /\ call[d] \in CallStates /\ generation[SessionOf[d]] \in Nat
    BY ToolAssumptions DEF TypeOK
<1>5. CASE d # c
  <2>1. CASE call'[d].stale = call[d].stale
    BY <1>2, <1>3, <1>4, <1>5, <2>1, OthersStay DEF Same, CallStates
  <2>2. CASE Touch(c) \/ Breach(c)
    <3>1. call'[d].stale = call[d].stale \/ call[d].at = "running"
      BY <1>5, <2>2 DEF Touch, Breach, Overtaken, At, TypeOK
    <3> QED
      BY <1>2, <1>3, <1>4, <1>5, <3>1, OthersStay DEF Same, CallStates
  <2> QED
    BY <1>5, <2>1, <2>2, OthersStay
<1>6. CASE d = c
  <2>1. Prepare(c) => At(c, "hooks")
    BY DEF Prepare
  <2>2. Touch(c) => At(c, "running") /\ Mutates(c)
    BY DEF Touch
  <2>3. Breach(c) => call[c].tool \in Breaching
    BY DEF Breach
  <2>4. Start(c) => At(c, "permitting")
    BY DEF Start
  <2>5. Interrupt(c) \/ Unwind(c) => Owes(c)
    BY DEF Interrupt, Unwind, Owes, At
  <2>6. call'[c] = Idle => call'[d].generation = 0 /\ call'[d].at = "idle"
                           /\ ~call'[d].touched /\ ~call'[d].stale
    BY <1>6, IdleFields
  <2>7. CASE call'[c] = Idle
    BY <1>2, <1>4, <1>6, <2>6, <2>7
  <2>8. CASE (\E t \in Tools : Begin(c, t)) \/ Prepare(c)
    <3>1. Prepare(c) => ~call[c].touched /\ ~call[c].stale
      BY <1>3, <1>6, <2>1 DEF At
    <3>2. /\ call'[c].at \in {"hooks", "leasing"}
          /\ ~call'[c].touched /\ ~call'[c].stale
          /\ call'[c].generation \in {0, generation[SessionOf[c]]}
      BY <2>8, <3>1, OwnStep
    <3> QED
      BY <1>4, <1>6, <3>2
  <2>9. CASE CheckLate(c) \/ CheckClear(c) \/ Start(c)
    <3>1. \/ call'[c] = [call[c] EXCEPT !.at = "permitting"] /\ At(c, "leasing")
          \/ call'[c] = [call[c] EXCEPT !.at = "running", !.before = version]
             /\ At(c, "permitting")
      BY <2>4, <2>9, OwnStep
    <3> QED
      BY <1>2, <1>3, <1>4, <1>6, <3>1 DEF CallStates, At
  <2>10. CASE Touch(c)
    <3>1. call[c].at = "running" /\ call[c].tool \in Mutating
      BY <2>2, <2>10 DEF At, Mutates
    <3>2. call'[c] = [call[c] EXCEPT !.touched = TRUE]
      BY <2>10, OwnStep
    <3>3. /\ call'[c].at = call[c].at /\ call'[c].tool = call[c].tool
          /\ call'[c].generation = call[c].generation
          /\ call'[c].before = call[c].before
      BY <1>4, <1>6, <3>2 DEF CallStates
    <3>4. call[c].before \in Nat
      BY <1>4, <1>6 DEF CallStates
    <3> QED
      BY <1>2, <1>3, <1>6, <3>1, <3>3, <3>4
  <2>11. CASE Breach(c)
    <3> call[c].tool \notin Mutating
      BY <2>3, <2>11, ToolAssumptions
    <3>1. ~call[c].touched
      BY <1>3, <1>6
    <3>2. call'[c] = [call[c] EXCEPT !.at = "owing", !.before = 0, !.stale = FALSE]
      BY <2>11, OwnStep
    <3>3. /\ call'[c].at = "owing" /\ call'[c].stale = FALSE
          /\ call'[c].touched = call[c].touched
          /\ call'[c].generation = call[c].generation
      BY <1>4, <1>6, <3>2 DEF CallStates
    <3> QED
      BY <1>3, <1>6, <3>1, <3>3
  <2>12. CASE Interrupt(c) /\ call'[c] # Idle
    <3>1. ~call[c].touched /\ ~call[c].stale /\ call[c].at # "running"
      BY <1>3, <1>6, <2>5, <2>12 DEF Owes
    <3>2. call'[c] = [call[c] EXCEPT !.cancelled = 1]
      BY <2>12, OwnStep
    <3> QED
      BY <1>3, <1>4, <1>6, <3>1, <3>2 DEF CallStates
  <2>13. CASE Unwind(c)
    <3>1. ~call[c].touched /\ ~call[c].stale
      BY <1>3, <1>6, <2>5, <2>13 DEF Owes
    <3>2. call'[c] = [call[c] EXCEPT !.at = "unwinding"]
      BY <2>13, OwnStep
    <3> QED
      BY <1>3, <1>4, <1>6, <3>1, <3>2 DEF CallStates
  <2> QED
    BY <2>7, <2>8, <2>9, <2>10, <2>11, <2>12, <2>13, OwnStep DEF CallActions
<1> QED
    BY <1>5, <1>6

LEMMA GenerationStays ==
    ASSUME NEW c \in Calls, CallActions(c)
    PROVE  generation' = generation
<1> QED
    BY DEF CallActions, Begin, Prepare, GiveUp, CheckLate, CheckRefused,
       CheckDuplicate, CheckClear, Observe, Start, Touch, Commit, Fail, Spoil,
       Breach, Unwind, Settle, Interrupt, guard

LEMMA OneVersionStep ==
    ASSUME TypeOK, CallsFit, LockIsExclusive, OneVersionPerRun,
           NEW c \in Calls, CallActions(c)
    PROVE  OneVersionPerRun'
<1> SUFFICES ASSUME NEW d \in Calls, HoldsLock(d)' PROVE call'[d].before = version'
    BY DEF OneVersionPerRun
<1>1. CASE ~HoldsLock(d)
  <2>1. d = c /\ Start(c)
    BY <1>1, LockGained
  <2>2. call'[c] = [call[c] EXCEPT !.at = "running", !.before = version]
    BY <2>1, OwnStep
  <2>3. version' = version /\ call[c] \in CallStates
    BY <2>1 DEF Start, TypeOK
  <2> QED
    BY <2>1, <2>2, <2>3 DEF CallStates
<1>2. CASE HoldsLock(d) /\ version' = version
  <2>1. call'[d].before = call[d].before
    BY <1>2, LockGained DEF Start, HoldsLock, At
  <2> QED
    BY <1>2, <2>1 DEF OneVersionPerRun
<1>3. CASE HoldsLock(d) /\ version' # version
  <2>1. call'[c] = Idle /\ (Settle(c) \/ HoldsWrite(c))
    BY <1>3, VersionMoves
  <2>2. d # c
    BY <2>1, IdleFields DEF HoldsLock, At
  <2> QED
    BY <1>3, <2>1, <2>2 DEF Settle, LockIsExclusive
<1> QED
    BY <1>1, <1>2, <1>3

LEMMA ThisMessageStep ==
    ASSUME TypeOK, CallsFit, RecordsOfThisMessage, NEW c \in Calls, CallActions(c)
    PROVE  RecordsOfThisMessage'
<1> SUFFICES ASSUME NEW r \in records'
             PROVE  r.generation = generation[r.session] /\ r.version <= version'
    BY GenerationStays DEF RecordsOfThisMessage
<1>1. version \in Nat /\ (version' = version \/ version' = version + 1)
  <2>1. version' = version \/ version' = version + 1
    BY VersionMoves
  <2> QED
    BY <2>1 DEF TypeOK
<1>2. ASSUME NEW q \in records, SameKey(r, q)
      PROVE  r.generation = generation[r.session] /\ r.version <= version'
  <2>1. q.version \in Nat /\ q.version <= version /\ q.generation = generation[q.session]
    BY DEF TypeOK, Records, RecordsOfThisMessage
  <2> QED
    BY <1>1, <1>2, <2>1 DEF SameKey
<1>3. CASE Commit(c) /\ Deduped(c) /\ IsCurrent(c) /\ IsResult(r, c)
              /\ r.version \in {call[c].before, version'}
  <2>1. call[c].before \in Nat /\ call[c].before <= version
    BY <1>3 DEF Commit, CallsFit, TypeOK, CallStates
  <2> QED
    BY <1>1, <1>3, <2>1 DEF IsResult, IsCurrent
<1>4. \/ \E q \in records : SameKey(r, q) /\ (r.fresh = q.fresh \/ Touch(c) \/ Breach(c))
      \/ Commit(c) /\ Deduped(c) /\ IsCurrent(c) /\ IsResult(r, c)
              /\ r.version \in {call[c].before, version'}
    BY RecordsFrom
<1> QED
    BY <1>2, <1>3, <1>4

\* No step adds an answer to a call that holds its lease.
LEMMA NoNewAnswer ==
    ASSUME TypeOK, LeaseIsExclusive, NEW c \in Calls, CallActions(c),
           NEW d \in Calls, HoldsLease(d) \/ d = c, ~(d = c /\ Commit(c)),
           NEW r \in records', r.session = SessionOf[d], r.tool = call[d].tool,
           r.generation = call[d].generation
    PROVE  \E q \in records : SameKey(r, q)
<1>1. CASE Commit(c) /\ Deduped(c) /\ IsCurrent(c) /\ IsResult(r, c)
              /\ r.version \in {call[c].before, version'}
  <2>1. HoldsLease(c)
    BY <1>1 DEF Commit, HoldsLease, At
  <2>2. SameFingerprint(c, d)
    BY <1>1 DEF IsResult, SameFingerprint
  <2> QED
    BY <1>1, <2>1, <2>2 DEF LeaseIsExclusive
<1>2. \/ \E q \in records : SameKey(r, q) /\ (r.fresh = q.fresh \/ Touch(c) \/ Breach(c))
      \/ Commit(c) /\ Deduped(c) /\ IsCurrent(c) /\ IsResult(r, c)
              /\ r.version \in {call[c].before, version'}
    BY RecordsFrom
<1> QED
    BY <1>1, <1>2

\* Only a check lets its call be permitted.
LEMMA Permitted ==
    ASSUME TypeOK, NEW c \in Calls, CallActions(c), call'[c].at = "permitting"
    PROVE  CheckLate(c) \/ CheckClear(c)
<1>1. call[c] \in CallStates
    BY DEF TypeOK
<1>2. call'[c] # Idle
    BY IdleFields
<1>3. ~(\E t \in Tools : Begin(c, t)) /\ ~Prepare(c)
    BY OwnStep
<1>4. ~Start(c) /\ ~Breach(c) /\ ~Unwind(c)
    BY <1>1, OwnStep DEF CallStates
<1>5. Touch(c) => call'[c].at = call[c].at /\ call[c].at = "running"
    BY <1>1, OwnStep DEF CallStates, Touch, At
<1>6. Interrupt(c) => call'[c].at = call[c].at /\ Owes(c)
    BY <1>1, <1>2, OwnStep DEF CallStates, Interrupt
<1> QED
    BY <1>2, <1>3, <1>4, <1>5, <1>6, OwnStep DEF CallActions, Owes

LEMMA ClearStep ==
    ASSUME TypeOK, CallsFit, LeaseIsExclusive, RecordsOfThisMessage, ClearStaysClear,
           NEW c \in Calls, CallActions(c)
    PROVE  ClearStaysClear'
<1> SUFFICES ASSUME NEW d \in Calls, At(d, "permitting")', Deduped(d)', IsCurrent(d)',
                    NEW r \in records', Answers(r, d, version)'
             PROVE  FALSE
    BY DEF ClearStaysClear, IsDuplicate
<1>1. HoldsLease(d)'
    BY DEF HoldsLease, At
<1>2. /\ call'[d].tool = call[d].tool /\ call'[d].generation = call[d].generation
      /\ HoldsLease(d) \/ (d = c /\ (CheckLate(c) \/ CheckClear(c)))
    BY <1>1, LeaseGained
<1>3. IsCurrent(d) /\ Deduped(d)
    BY <1>2, GenerationStays DEF IsCurrent, Deduped
<1>4. \/ d # c /\ At(d, "permitting")
      \/ d = c /\ CheckClear(c)
  <2>1. CASE d # c
    BY <2>1, OthersStay DEF Same, At
  <2>2. CASE d = c
    <3>1. CheckLate(c) \/ CheckClear(c)
      BY <2>2, Permitted DEF At
    <3> QED
      BY <1>3, <2>2, <3>1 DEF CheckLate
  <2> QED
    BY <2>1, <2>2
<1>5. call'[d].round = call[d].round
  <2>1. CASE d # c
    BY <2>1, OthersStay DEF Same
  <2>2. CASE d = c
    BY <1>4, <2>2, OwnStep DEF TypeOK, CallStates
  <2> QED
    BY <2>1, <2>2
<1>6. /\ r.session = SessionOf[d] /\ r.generation = call[d].generation
      /\ r.tool = call[d].tool /\ r.version = version'
      /\ call[d].round - r.round < Window
    BY <1>2, <1>5 DEF Answers
<1>7. ~(d = c /\ Commit(c))
    BY OwnStep, IdleFields DEF At
<1>8. PICK q \in records : SameKey(r, q)
    BY <1>2, <1>6, <1>7, NoNewAnswer
<1>9. q.version \in Nat /\ q.version <= version /\ version \in Nat
    BY DEF RecordsOfThisMessage, TypeOK, Records
<1>10. version' = version
  <2>1. version' = version \/ version' = version + 1
    BY VersionMoves
  <2> QED
    BY <1>6, <1>8, <1>9, <2>1 DEF SameKey
<1>11. Answers(q, d, version)
    BY <1>3, <1>6, <1>8, <1>10 DEF Answers, SameKey
<1> QED
    BY <1>3, <1>4, <1>11 DEF ClearStaysClear, IsDuplicate, CheckClear

LEMMA RepeatStep ==
    ASSUME TypeOK, LeaseIsExclusive, LeaseIsExclusive', ClearStaysClear,
           NoRepeatedWork, NEW c \in Calls, CallActions(c)
    PROVE  NoRepeatedWork'
<1> SUFFICES ASSUME NEW d \in Calls, At(d, "running")', Deduped(d)', IsCurrent(d)'
             PROVE  /\ ~\E r \in records' : Answers(r, d, call[d].before)'
                    /\ \A e \in Calls \ {d} :
                           ~(At(e, "running")' /\ SameFingerprint(d, e)')
    BY DEF NoRepeatedWork
<1>1. HoldsLease(d)'
    BY DEF HoldsLease, At
<1>2. ASSUME NEW e \in Calls \ {d}, At(e, "running")', SameFingerprint(d, e)'
      PROVE  FALSE
    BY <1>1, <1>2 DEF LeaseIsExclusive, HoldsLease, SameFingerprint, At, Deduped
<1>3. ASSUME NEW r \in records', Answers(r, d, call[d].before)'
      PROVE  FALSE
  <2>1. call'[d].tool = call[d].tool /\ call'[d].generation = call[d].generation
    BY <1>1, LeaseGained
  <2>2. IsCurrent(d) /\ Deduped(d)
    BY <2>1, GenerationStays DEF IsCurrent, Deduped
  <2>3. /\ r.session = SessionOf[d] /\ r.generation = call[d].generation
        /\ r.tool = call[d].tool /\ r.version = call'[d].before
        /\ call'[d].round - r.round < Window
    BY <1>3, <2>1 DEF Answers
  <2>4. CASE d = c /\ Start(c)
    <3>1. /\ At(c, "permitting") /\ records' = records
      BY <2>4 DEF Start, guard
    <3>2. call'[c].before = version /\ call'[c].round = call[c].round
      <4>1. call'[c] = [call[c] EXCEPT !.at = "running", !.before = version]
        BY <2>4, OwnStep
      <4> QED
        BY <4>1 DEF TypeOK, CallStates
    <3>3. Answers(r, c, version)
      BY <2>2, <2>3, <2>4, <3>2 DEF Answers
    <3> QED
      BY <2>2, <2>4, <3>1, <3>3 DEF ClearStaysClear, IsDuplicate
  <2>5. CASE d # c \/ Touch(c)
    <3>1. /\ At(d, "running")
          /\ call'[d].before = call[d].before /\ call'[d].round = call[d].round
      <4>1. CASE d # c
        BY <4>1, OthersStay DEF Same, At
      <4>2. CASE d = c
        <5>1. Touch(c) /\ call[c] \in CallStates
          BY <2>5, <4>2 DEF TypeOK
        <5> QED
          BY <4>2, <5>1, OwnStep DEF Touch, CallStates, At
      <4> QED
        BY <4>1, <4>2
    <3>2. HoldsLease(d)
      BY <2>2, <3>1 DEF HoldsLease, At
    <3>3. ~(d = c /\ Commit(c))
      BY OwnStep, IdleFields DEF At
    <3>4. PICK q \in records : SameKey(r, q)
      BY <2>3, <3>2, <3>3, NoNewAnswer
    <3>5. Answers(q, d, call[d].before)
      BY <2>2, <2>3, <3>1, <3>4 DEF Answers, SameKey
    <3> QED
      BY <2>2, <3>1, <3>5 DEF NoRepeatedWork
  <2> QED
    BY <2>4, <2>5, Running DEF At
<1> QED
    BY <1>2, <1>3

\* A call that has changed something stays at it until the change has a version.
LEMMA UnderWayStays ==
    ASSUME TypeOK, CallsFit, Interrupts <= 1, NEW c \in Calls, CallActions(c),
           NEW d \in Calls, version' = version \/ d # c
    PROVE  /\ Owes(d) => Owes(d)'
           /\ (At(d, "running") /\ call[d].touched) =>
                  (At(d, "running") /\ call[d].touched)'
<1>1. CASE d # c
    BY <1>1, OthersStay DEF Same, At, Owes
<1>2. CASE d = c
  <2>1. version \in Nat /\ version + 1 # version /\ version' = version
    BY <1>2 DEF TypeOK
  <2>2. ~Settle(c) /\ ~Spoil(c) /\ ~(Commit(c) /\ call[c].touched)
    BY <2>1 DEF Settle, Spoil, Commit
  <2>3. ASSUME Owes(c) PROVE Owes(c)'
    <3>1. call[c] \in CallStates
      BY DEF TypeOK
    <3>2. Interrupt(c) \/ Unwind(c)
      BY <2>2, <2>3 DEF CallActions, At, Owes, Begin, Prepare, GiveUp, CheckLate,
         CheckRefused, CheckDuplicate, CheckClear, Leased, Start, Touch, Commit,
         Fail, Breach
    <3>3. CASE Interrupt(c)
      <4>1. call[c].cancelled = 0
        BY <3>1, <3>3, BoundAssumptions DEF Interrupt, CallStates
      <4>2. call'[c] = [call[c] EXCEPT !.cancelled = 1]
        BY <3>3, <4>1 DEF Interrupt, TypeOK
      <4>3. call'[c].at = call[c].at
        BY <3>1, <4>2 DEF CallStates
      <4> QED
        BY <2>3, <4>3 DEF Owes
    <3>4. CASE Unwind(c)
      BY <3>1, <3>4, OwnStep DEF CallStates, Owes
    <3> QED
      BY <3>2, <3>3, <3>4
  <2>4. ASSUME At(c, "running"), call[c].touched PROVE FALSE
    <3>1. ~Breach(c)
      BY <2>4, ToolAssumptions DEF Breach, CallsFit, Mutates
    <3> QED
      BY <2>2, <2>4, <3>1 DEF CallActions, At, Owes, Begin, Prepare, GiveUp,
         CheckLate, CheckRefused, CheckDuplicate, CheckClear, Leased, Start, Touch,
         Commit, Fail, Unwind, Interrupt
  <2> QED
    BY <1>2, <2>3, <2>4
<1> QED
    BY <1>1, <1>2

LEMMA VersionedStep ==
    ASSUME TypeOK, CallsFit, ChangesAreVersioned, Interrupts <= 1,
           NEW c \in Calls, CallActions(c)
    PROVE  /\ ChangesAreVersioned'
           /\ Touch(c) \/ Breach(c) => ChangeUnderWay'
           /\ version' = version /\ ChangeUnderWay => ChangeUnderWay'
<1>1. version' = version /\ ChangeUnderWay => ChangeUnderWay'
    BY UnderWayStays DEF ChangeUnderWay
<1>2. Touch(c) \/ Breach(c) => ChangeUnderWay'
  <2>1. call[c] \in CallStates
    BY DEF TypeOK
  <2>2. Touch(c) => At(c, "running")' /\ call'[c].touched
    BY <2>1, OwnStep DEF Touch, At, CallStates
  <2>3. Breach(c) => Owes(c)'
    BY <2>1, OwnStep DEF Owes, CallStates
  <2> QED
    BY <2>2, <2>3 DEF ChangeUnderWay
<1> QED
    BY <1>1, <1>2, VersionMoves DEF ChangesAreVersioned

LEMMA ExplainedStep ==
    ASSUME TypeOK, CallsFit, LockIsExclusive, StaleIsExplained, Interrupts <= 1,
           NEW c \in Calls, CallActions(c)
    PROVE  StaleIsExplained'
<1> SUFFICES ASSUME NEW d \in Calls, HoldsLock(d)', call'[d].stale
             PROVE  \E e \in Calls \ {d} : Owes(e)'
    BY DEF StaleIsExplained
<1>1. call[c] \in CallStates
    BY DEF TypeOK
<1>2. CASE d = c
  <2>1. Start(c) \/ Touch(c)
    BY <1>2, Running DEF HoldsLock, At
  <2>2. CASE Start(c)
    <3>1. call'[c] = [call[c] EXCEPT !.at = "running", !.before = version]
      BY <2>2, OwnStep
    <3>2. call[c].stale
      BY <1>1, <1>2, <3>1 DEF CallStates
    <3> QED
      BY <2>2, <3>2 DEF CallsFit, Start, At
  <2>3. CASE Touch(c)
    <3>1. call'[c] = [call[c] EXCEPT !.touched = TRUE]
      BY <2>3, OwnStep
    <3>2. call[c].stale /\ call'[c].tool = call[c].tool
      BY <1>1, <1>2, <3>1 DEF CallStates
    <3>3. HoldsLock(c)
      BY <1>2, <2>3, <3>2 DEF Touch, HoldsLock, Locked
    <3>4. PICK e \in Calls \ {c} : Owes(e)
      BY <3>2, <3>3 DEF StaleIsExplained
    <3> QED
      BY <1>2, <3>4, OthersStay DEF Same, Owes
  <2> QED
    BY <2>1, <2>2, <2>3
<1>3. CASE d # c
  <2>1. HoldsLock(d)
    BY <1>3, LockGained
  <2>2. CASE call'[d].stale = call[d].stale
    <3>1. PICK e \in Calls \ {d} : Owes(e)
      BY <2>1, <2>2 DEF StaleIsExplained
    <3>2. CASE e # c
      BY <3>1, <3>2, OthersStay DEF Same, Owes
    <3>3. CASE e = c
      <4>1. ~HoldsWrite(c)
        BY <3>1, <3>3 DEF HoldsWrite, HoldsLock, Owes, At
      <4>2. ~Settle(c)
        BY <2>1 DEF Settle
      <4>3. version' = version
        BY <4>1, <4>2, VersionMoves
      <4> QED
        BY <3>1, <3>3, <4>3, UnderWayStays
    <3> QED
      BY <3>2, <3>3
  <2>3. CASE Touch(c)
    <3>1. HoldsWrite(c)
      BY <2>3, LockOfMutator DEF Touch
    <3> QED
      BY <1>3, <2>1, <3>1 DEF LockIsExclusive
  <2>4. CASE Breach(c)
    <3>1. call'[c] = [call[c] EXCEPT !.at = "owing", !.before = 0, !.stale = FALSE]
      BY <2>4, OwnStep
    <3>2. Owes(c)'
      BY <1>1, <3>1 DEF CallStates, Owes
    <3> QED
      BY <1>3, <3>2
  <2> QED
    BY <1>3, <2>2, <2>3, <2>4, OthersStay
<1> QED
    BY <1>2, <1>3

LEMMA CurrentStep ==
    ASSUME TypeOK, CallsFit, ChangesAreVersioned, StaleIsExplained,
           RecordsOfThisMessage, RecordsAreCurrent, Interrupts <= 1,
           NEW c \in Calls, CallActions(c)
    PROVE  RecordsAreCurrent'
<1> SUFFICES ASSUME NEW r \in records', r.version = version', r.tool \notin LockFree
             PROVE  r.fresh \/ ChangeUnderWay'
    BY DEF RecordsAreCurrent
<1>1. ASSUME NEW q \in records, SameKey(r, q),
             r.fresh = q.fresh \/ Touch(c) \/ Breach(c)
      PROVE  r.fresh \/ ChangeUnderWay'
  <2>1. q.version \in Nat /\ q.version <= version /\ version \in Nat
    BY DEF RecordsOfThisMessage, TypeOK, Records
  <2>2. version' = version
    <3>1. version' = version \/ version' = version + 1
      BY VersionMoves
    <3> QED
      BY <1>1, <2>1, <3>1 DEF SameKey
  <2>3. q.fresh \/ ChangeUnderWay
    BY <1>1, <2>2 DEF RecordsAreCurrent, SameKey
  <2> QED
    BY <1>1, <2>2, <2>3, VersionedStep
<1>2. CASE Commit(c) /\ IsResult(r, c)
  <2>1. ASSUME call[c].stale PROVE ChangeUnderWay'
    <3>1. HoldsLock(c)
      BY <1>2 DEF Commit, IsResult, HoldsLock, Locked
    <3>2. PICK e \in Calls \ {c} : Owes(e)
      BY <2>1, <3>1 DEF StaleIsExplained
    <3>3. Owes(e)'
      BY <3>2, OthersStay DEF Same, Owes
    <3> QED
      BY <3>3 DEF ChangeUnderWay
  <2> QED
    BY <1>2, <2>1 DEF IsResult
<1>3. \/ \E q \in records : SameKey(r, q) /\ (r.fresh = q.fresh \/ Touch(c) \/ Breach(c))
      \/ Commit(c) /\ Deduped(c) /\ IsCurrent(c) /\ IsResult(r, c)
              /\ r.version \in {call[c].before, version'}
    BY RecordsFrom
<1> QED
    BY <1>1, <1>2, <1>3

-----------------------------------------------------------------------------
(* So does every step of the loop.                                         *)

LEMMA MessageStep ==
    ASSUME Core, TypeOK', NEW s \in Sessions, NewMessage(s) \/ NextRound(s)
    PROVE  Core' /\ (Currency => Currency')
<1> USE DEF Core
<1>1. /\ UNCHANGED <<call, version, unversioned>>
      /\ records' \subseteq records
    BY ZenonT(20) DEF NewMessage, NextRound, guard
<1>2. \/ generation' = generation
      \/ /\ generation' = [generation EXCEPT ![s] = @ + 1]
         /\ records' = {r \in records : r.session # s}
    BY DEF NewMessage, NextRound, guard
<1>3. \A u \in Sessions : /\ generation[u] \in Nat /\ generation'[u] >= generation[u]
                          /\ generation'[u] > generation[u] \/ generation'[u] = generation[u]
    BY <1>2 DEF TypeOK
<1>4. \A c \in Calls : /\ SessionOf[c] \in Sessions /\ call[c].generation \in Nat
                       /\ call[c].generation <= generation[SessionOf[c]]
    BY ToolAssumptions DEF TypeOK, CallStates, CallsFit
<1>5. \A c \in Calls : IsCurrent(c)' => IsCurrent(c)
    BY <1>1, <1>3, <1>4 DEF IsCurrent
<1>6. /\ LockIsExclusive' /\ LeaseIsExclusive' /\ OneVersionPerRun'
      /\ Currency => Currency'
    BY <1>1 DEF Currency, LockIsExclusive, LeaseIsExclusive, OneVersionPerRun,
       ChangesAreVersioned, StaleIsExplained, RecordsAreCurrent, ChangeUnderWay,
       HoldsWrite, HoldsLock, HoldsLease, SameFingerprint, Deduped, Locked, Owes, At
<1>7. CallsFit'
  <2>1. \A u \in Sessions : generation'[u] \in Nat
    BY DEF TypeOK
  <2>2. \A c \in Calls : call[c].generation <= generation'[SessionOf[c]]
    BY <1>3, <1>4, <2>1
  <2> QED
    BY <1>1, <2>2 DEF CallsFit, At, Mutates
<1>8. RecordsOfThisMessage'
  <2> SUFFICES ASSUME NEW r \in records'
               PROVE  r.generation = generation'[r.session] /\ r.version <= version
    BY <1>1 DEF RecordsOfThisMessage
  <2>1. r \in records /\ generation'[r.session] = generation[r.session]
    BY <1>1, <1>2 DEF TypeOK, Records
  <2> QED
    BY <2>1 DEF RecordsOfThisMessage
<1>9. ClearStaysClear'
  <2> SUFFICES ASSUME NEW c \in Calls, At(c, "permitting")', Deduped(c)', IsCurrent(c)',
                      NEW r \in records', Answers(r, c, version)'
               PROVE  FALSE
    BY DEF ClearStaysClear, IsDuplicate
  <2>1. At(c, "permitting") /\ Deduped(c) /\ IsCurrent(c)
    BY <1>1, <1>5 DEF At, Deduped
  <2>2. r \in records /\ Answers(r, c, version)
    BY <1>1 DEF Answers, Deduped
  <2> QED
    BY <2>1, <2>2 DEF ClearStaysClear, IsDuplicate
<1>10. NoRepeatedWork'
  <2> SUFFICES ASSUME NEW c \in Calls, At(c, "running")', Deduped(c)', IsCurrent(c)'
               PROVE  /\ ~\E r \in records' : Answers(r, c, call[c].before)'
                      /\ \A d \in Calls \ {c} :
                             ~(At(d, "running")' /\ SameFingerprint(c, d)')
    BY DEF NoRepeatedWork
  <2>1. At(c, "running") /\ Deduped(c) /\ IsCurrent(c)
    BY <1>1, <1>5 DEF At, Deduped
  <2>2. ASSUME NEW r \in records', Answers(r, c, call[c].before)' PROVE FALSE
    <3>1. r \in records /\ Answers(r, c, call[c].before)
      BY <1>1, <2>2 DEF Answers, Deduped
    <3> QED
      BY <2>1, <3>1 DEF NoRepeatedWork
  <2>3. \A d \in Calls \ {c} : ~(At(d, "running")' /\ SameFingerprint(c, d)')
    BY <1>1, <2>1 DEF NoRepeatedWork, At, SameFingerprint
  <2> QED
    BY <2>2, <2>3
<1> QED
    BY <1>6, <1>7, <1>8, <1>9, <1>10

-----------------------------------------------------------------------------
(* The theorems.                                                           *)

LEMMA CallStep ==
    ASSUME Core, TypeOK', NEW c \in Calls, CallActions(c)
    PROVE  Core' /\ (Interrupts <= 1 /\ Currency => Currency')
<1> USE DEF Core
<1>1. LockIsExclusive' /\ LeaseIsExclusive' /\ CallsFit'
    BY LockStep, LeaseStep, FitStep
<1>2. OneVersionPerRun' /\ RecordsOfThisMessage'
    BY OneVersionStep, ThisMessageStep
<1>3. ClearStaysClear' /\ NoRepeatedWork'
    BY <1>1, ClearStep, RepeatStep
<1>4. ASSUME Interrupts <= 1, Currency PROVE Currency'
    BY <1>4, VersionedStep, ExplainedStep, CurrentStep DEF Currency
<1> QED
    BY <1>1, <1>2, <1>3, <1>4

LEMMA Step == Core /\ [Next]_vars => Core' /\ (Interrupts <= 1 /\ Currency => Currency')
<1> SUFFICES ASSUME Core, [Next]_vars
             PROVE  Core' /\ (Interrupts <= 1 /\ Currency => Currency')
    OBVIOUS
<1>1. CASE Next
  <2>1. TypeOK'
    BY <1>1, TypeStep DEF Core
  <2>2. \/ \E s \in Sessions : NewMessage(s) \/ NextRound(s)
        \/ \E c \in Calls : CallActions(c)
    BY <1>1 DEF Next, CallActions
  <2> QED
    BY <2>1, <2>2, MessageStep, CallStep
<1>2. CASE UNCHANGED vars
    BY <1>2 DEF vars, Core, Currency, TypeOK, LockIsExclusive, LeaseIsExclusive,
       CallsFit, OneVersionPerRun, RecordsOfThisMessage, ClearStaysClear,
       NoRepeatedWork, ChangesAreVersioned, StaleIsExplained, RecordsAreCurrent,
       ChangeUnderWay, HoldsWrite, HoldsLock, HoldsLease, SameFingerprint,
       IsCurrent, IsDuplicate, Answers, Deduped, Locked, Mutates, Owes, At
<1> QED
    BY <1>1, <1>2

-----------------------------------------------------------------------------
(* The theorems.                                                           *)

\* However calls, rounds, messages and cancellations interleave, the invariant's
\* core holds: locks and leases exclude, and nothing is answered twice.
THEOREM Invariance == Spec => []Core
<1>1. Core /\ [Next]_vars => Core'
    BY Step
<1> QED
    BY InitInv, <1>1, PTL DEF Spec

\* The state of the executor and of the guard stays within its types.
THEOREM TypeCorrect == Spec => []TypeOK
<1>1. Core => TypeOK
    BY DEF Core
<1> QED
    BY Invariance, <1>1, PTL

\* A tool under the lock sees one version of the workspace from start to end.
THEOREM RunsSeeOneVersion == Spec => []OneVersionPerRun
<1>1. Core => OneVersionPerRun
    BY DEF Core
<1> QED
    BY Invariance, <1>1, PTL

\* Records suppress nothing but calls of the message that left them.
THEOREM RecordsExpire == Spec => []RecordsOfThisMessage
<1>1. Core => RecordsOfThisMessage
    BY DEF Core
<1> QED
    BY Invariance, <1>1, PTL

\* A deduplicated call whose tool runs repeats neither a success within the
\* window at its version nor an identical call that still runs.
THEOREM WorkIsNotRepeated == Spec => []NoRepeatedWork
<1>1. Core => NoRepeatedWork
    BY DEF Core
<1> QED
    BY Invariance, <1>1, PTL

\* No cancellation reaches the increment of a version: one that meets the shield
\* leaves it alone, only the next would not (MCToolExecutorInterrupted).
AtMostOneCancellation == Interrupts <= 1

\* With at most one cancellation of a call that waits to number its change, the
\* whole invariant holds.
THEOREM FullInvariance == AtMostOneCancellation => (Spec => [](Core /\ Currency))
<1> SUFFICES ASSUME AtMostOneCancellation PROVE Spec => [](Core /\ Currency)
    OBVIOUS
<1>1. Core /\ Currency /\ [Next]_vars => Core' /\ Currency'
    BY Step DEF AtMostOneCancellation
<1> QED
    BY InitInv, <1>1, PTL DEF Spec

\* Every change of the content gets a version of its own, and until then a call
\* that changed something is still at it.
THEOREM EveryChangeIsNumbered ==
    AtMostOneCancellation => (Spec => []ChangesAreVersioned)
<1>1. Core /\ Currency => ChangesAreVersioned
    BY DEF Currency
<1> QED
    BY FullInvariance, <1>1, PTL

\* What a tool under the lock left at the present version still holds.
THEOREM AnswersAreCurrent ==
    AtMostOneCancellation => (Spec => []RecordsAreCurrent)
<1>1. Core /\ Currency => RecordsAreCurrent
    BY DEF Currency
<1> QED
    BY FullInvariance, <1>1, PTL
=============================================================================
