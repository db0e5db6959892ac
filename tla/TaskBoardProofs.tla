-------------------------- MODULE TaskBoardProofs --------------------------
(***************************************************************************)
(* The task board's properties, for any sets of tasks, agents and          *)
(* worktrees, finite or not.                                               *)
(*                                                                         *)
(* Every operation on a task that is already on the board, and every file  *)
(* that recovery moves into place, ADVANCES one record: Advances(t, r)     *)
(* collects what they have in common, and the invariants, the action       *)
(* properties and the refinement are proved once from it.                  *)
(***************************************************************************)
EXTENDS TaskBoard, TLAPS

\* Together with the properties this is inductive: recovery's lost-update
\* freedom is what makes its writes advance the record in the file, and tasks
\* never disappear is what keeps the graph closed.
DependenciesExist ==
    \A t \in Tasks : Exists(t) => \A d \in board[t].dependencies : Exists(d)

StagedExist ==
    \A t \in DOMAIN staged : Exists(t)

IInv ==
    /\ TypeOK
    /\ DependenciesExist
    /\ BegunOnCompletedWork
    /\ BegunWorkIsOwned
    /\ NoCircularWait
    /\ RecoveryIsCurrent
    /\ StagedExist

Advances(t, r) ==
    /\ Exists(t)
    /\ r.status # "absent"
    /\ r.dependencies = board[t].dependencies
    /\ r.status \in Begun => r.owner # None
    /\ r.status = "completed" => board[t].status \in {"in_progress", "completed"}
    /\ board[t].status = "completed" => r.status = "completed"
    /\ (r.status \in Begun /\ board[t].status \notin Begun) => ~Blocked(t)
    /\ (r.status = "in_progress" /\ board[t].status = "in_progress")
          => r.owner = board[t].owner

Fresh(t, r) ==
    /\ ~Exists(t)
    /\ r.status = "pending"
    /\ \A d \in r.dependencies : Exists(d)

-----------------------------------------------------------------------------
(* What a step does.                                                       *)

\* Each operation on a task writes one record that advances the one in the file.
LEMMA OperationsAdvance ==
    ASSUME IInv, NEW t \in Tasks,
           \/ \E w \in Worktrees : BindWorktree(t, w) \/ UnbindWorktree(t, w)
           \/ \E a \in Agents : \/ AssignAndStart(t, a) \/ Start(t, a)
                                \/ Resume(t, a) \/ Complete(t, a)
                                \/ Fail(t, a) \/ Reassign(t, a)
           \/ \E a \in Agents \cup {None} : Cancel(t, a)
           \/ Reset(t)
    PROVE  Unlocked /\ \E r \in TaskRecords : Advances(t, r) /\ Write(t, r)
<1> USE NoneAssumption
<1>1. board[t] \in TaskRecords
    BY DEF IInv, TypeOK
<1>2. board[t].status \in Begun => board[t].owner # None
    BY DEF IInv, BegunWorkIsOwned
<1>3. board[t].status \in Begun => ~Blocked(t)
    BY DEF IInv, BegunOnCompletedWork, Blocked
<1> DEFINE Written(r) == r \in TaskRecords /\ Advances(t, r) /\ Write(t, r)
<1>4. ASSUME NEW w \in Worktrees, BindWorktree(t, w) \/ UnbindWorktree(t, w)
      PROVE  Unlocked /\ \E r : Written(r)
    <2>1. CASE BindWorktree(t, w)
        <3>1. Written([board[t] EXCEPT !.worktree = w])
            BY <1>1, <1>2, <1>3, <2>1
               DEF BindWorktree, Advances, TaskRecords, Statuses, Begun, Exists
        <3> QED BY <3>1, <2>1 DEF BindWorktree
    <2>2. CASE UnbindWorktree(t, w)
        <3>1. Written([board[t] EXCEPT !.worktree = None])
            BY <1>1, <1>2, <1>3, <2>2
               DEF UnbindWorktree, Advances, TaskRecords, Statuses, Begun, Exists
        <3> QED BY <3>1, <2>2 DEF UnbindWorktree
    <2> QED BY <1>4, <2>1, <2>2
<1>5. ASSUME NEW a \in Agents, AssignAndStart(t, a)
      PROVE  Unlocked /\ \E r : Written(r)
    <2>1. Written([board[t] EXCEPT !.owner = a, !.status = "in_progress"])
        BY <1>1, <1>5
           DEF AssignAndStart, Advances, TaskRecords, Statuses, Begun, Exists
    <2> QED BY <2>1, <1>5 DEF AssignAndStart
<1>6. ASSUME NEW a \in Agents, Start(t, a) \/ Resume(t, a)
      PROVE  Unlocked /\ \E r : Written(r)
    <2>1. Start(t, a)
        BY <1>6 DEF Resume
    <2>2. Written([board[t] EXCEPT !.status = "in_progress"])
        BY <1>1, <2>1
           DEF Start, Allows, Transitions, Advances, TaskRecords, Statuses, Begun,
               Exists
    <2> QED BY <2>1, <2>2 DEF Start
<1>7. ASSUME NEW a \in Agents, Complete(t, a) \/ Fail(t, a)
      PROVE  Unlocked /\ \E r : Written(r)
    <2>1. PICK target \in {"completed", "failed"} : OwnedTransition(t, a, target)
        BY <1>7 DEF Complete, Fail
    <2>2. board[t].status = "in_progress"
        BY <2>1, <1>1
           DEF OwnedTransition, Allows, Transitions, TaskRecords, Statuses
    <2>3. Written([board[t] EXCEPT !.status = target])
        BY <1>1, <1>2, <2>1, <2>2
           DEF OwnedTransition, Advances, TaskRecords, Statuses, Begun, Exists
    <2> QED BY <2>1, <2>3 DEF OwnedTransition
<1>8. ASSUME NEW a \in Agents, Reassign(t, a)
      PROVE  Unlocked /\ \E r : Written(r)
    <2>1. Written([board[t] EXCEPT !.owner = a])
        BY <1>1, <1>3, <1>8
           DEF Reassign, Advances, TaskRecords, Statuses, Begun, Exists
    <2> QED BY <2>1, <1>8 DEF Reassign
<1>9. ASSUME NEW a \in Agents \cup {None}, Cancel(t, a)
      PROVE  Unlocked /\ \E r : Written(r)
    <2>1. Written([board[t] EXCEPT !.status = "cancelled"])
        BY <1>1, <1>9
           DEF Cancel, Allows, Transitions, Advances, TaskRecords, Statuses, Begun,
               Exists
    <2> QED BY <2>1, <1>9 DEF Cancel
<1>10. ASSUME Reset(t)
       PROVE  Unlocked /\ \E r : Written(r)
    <2>1. Written([board[t] EXCEPT !.status = "pending", !.owner = None,
                                   !.worktree = None])
        BY <1>1, <1>10
           DEF Reset, Allows, Transitions, Advances, TaskRecords, Statuses, Begun,
               Exists
    <2> QED BY <2>1, <1>10 DEF Reset
<1> HIDE DEF Written
<1>11. Unlocked /\ \E r : Written(r)
    BY <1>4, <1>5, <1>6, <1>7, <1>8, <1>9, <1>10
<1> QED BY <1>11 DEF Written

\* A step creates a record, advances one, or changes no record.
LEMMA StepShape ==
    ASSUME IInv, [Next]_vars
    PROVE  \/ /\ \E t \in Tasks, r \in TaskRecords : Fresh(t, r) /\ Write(t, r)
              /\ Unlocked
           \/ /\ \E t \in Tasks, r \in TaskRecords : Advances(t, r) /\ Write(t, r)
              /\ Unlocked
           \/ \E t \in DOMAIN staged :
                /\ t \in Tasks
                /\ staged[t] \in TaskRecords
                /\ Advances(t, staged[t])
                /\ ReplaceFile(t)
           \/ RecoverInterrupted
           \/ AbandonRecovery
           \/ UNCHANGED vars
<1>1. ASSUME NEW t \in Tasks, NEW D \in SUBSET Tasks, NEW a \in Agents \cup {None},
             NEW w \in Worktrees \cup {None}, Create(t, D, a, w)
      PROVE  Unlocked /\ \E r \in TaskRecords : Fresh(t, r) /\ Write(t, r)
    <2> DEFINE r == [status |-> "pending", owner |-> a, worktree |-> w,
                     dependencies |-> D]
    <2>1. r \in TaskRecords
        BY DEF TaskRecords, Statuses
    <2>2. Fresh(t, r)
        BY <1>1 DEF Create, Plannable, Fresh
    <2>3. Write(t, r) /\ Unlocked
        BY <1>1 DEF Create, Plannable
    <2> HIDE DEF r
    <2> QED BY <2>1, <2>2, <2>3
<1>2. ASSUME NEW t \in Tasks, ReplaceFile(t)
      PROVE  t \in DOMAIN staged /\ staged[t] \in TaskRecords /\ Advances(t, staged[t])
    <2>1. t \in DOMAIN staged
        BY <1>2 DEF ReplaceFile
    <2>2. staged[t] = Recovered(board[t])
        BY <2>1 DEF IInv, RecoveryIsCurrent
    <2>3. PICK files \in SUBSET Tasks : staged \in [files -> TaskRecords]
        BY DEF IInv, TypeOK
    <2>4. staged[t] \in TaskRecords
        BY <2>1, <2>3
    <2>5. board[t] \in TaskRecords /\ Exists(t)
        BY <2>1 DEF IInv, TypeOK, StagedExist
    <2>6. board[t].status = "in_progress" => board[t].owner # None
        BY DEF IInv, BegunWorkIsOwned, Begun
    <2>7. Advances(t, Recovered(board[t]))
        BY <2>5, <2>6
           DEF IInv, Recovered, Advances, TaskRecords, Statuses, Begun, Exists,
               BegunWorkIsOwned
    <2> QED BY <2>1, <2>2, <2>4, <2>7
<1>3. CASE UNCHANGED vars
    BY <1>3
<1>4. CASE RecoverInterrupted \/ AbandonRecovery
    BY <1>4
<1>5. CASE \E t \in Tasks, D \in SUBSET Tasks, a \in Agents \cup {None},
              w \in Worktrees \cup {None} : Create(t, D, a, w)
    BY <1>1, <1>5
<1>6. CASE \E t \in Tasks : ReplaceFile(t)
    BY <1>2, <1>6
<1>7. CASE \E t \in Tasks :
              \/ \E w \in Worktrees : BindWorktree(t, w) \/ UnbindWorktree(t, w)
              \/ \E a \in Agents : \/ AssignAndStart(t, a) \/ Start(t, a)
                                   \/ Resume(t, a) \/ Complete(t, a)
                                   \/ Fail(t, a) \/ Reassign(t, a)
              \/ \E a \in Agents \cup {None} : Cancel(t, a)
              \/ Reset(t)
    BY OperationsAdvance, <1>7
<1> QED BY <1>3, <1>4, <1>5, <1>6, <1>7, Zenon DEF Next

-----------------------------------------------------------------------------
(* Creating a record, and advancing one, preserve what is said of the board.*)

BoardInv ==
    /\ board \in [Tasks -> TaskRecords]
    /\ DependenciesExist
    /\ BegunOnCompletedWork
    /\ BegunWorkIsOwned
    /\ NoCircularWait

LEMMA FreshPreserves ==
    ASSUME BoardInv, NEW t \in Tasks, NEW r \in TaskRecords, Fresh(t, r),
           board' = [board EXCEPT ![t] = r]
    PROVE  BoardInv'
<1>1. board' \in [Tasks -> TaskRecords]
    BY DEF BoardInv
<1>2. board'[t] = r /\ \A u \in Tasks : u # t => board'[u] = board[u]
    BY DEF BoardInv
<1>3. \A u \in Tasks : board[u].dependencies \subseteq Tasks
    BY DEF BoardInv, TaskRecords
<1>4. r.dependencies \subseteq Tasks /\ t \notin r.dependencies
    BY DEF TaskRecords, Fresh
<1>5. Exists(t)' /\ \A u \in Tasks : Exists(u) => Exists(u)'
    BY <1>2 DEF Exists, Fresh
<1>6. DependenciesExist'
    <2> SUFFICES ASSUME NEW u \in Tasks, Exists(u)', NEW d \in board'[u].dependencies
                 PROVE  Exists(d)'
        BY DEF DependenciesExist
    <2>1. CASE u = t
        BY <2>1, <1>2, <1>4, <1>5 DEF Fresh
    <2>2. CASE u # t
        BY <2>2, <1>2, <1>3, <1>5 DEF BoardInv, DependenciesExist, Exists
    <2> QED BY <2>1, <2>2
<1>7. BegunOnCompletedWork'
    <2> SUFFICES ASSUME NEW u \in Tasks, board'[u].status \in Begun,
                        NEW d \in board'[u].dependencies
                 PROVE  board'[d].status = "completed"
        BY DEF BegunOnCompletedWork, Begun
    <2>1. u # t
        BY <1>2 DEF Fresh, Begun
    <2>2. d \in Tasks /\ board[d].status = "completed"
        BY <2>1, <1>2, <1>3 DEF BoardInv, BegunOnCompletedWork
    <2>3. d # t
        BY <2>2 DEF Fresh, Exists
    <2> QED BY <2>2, <2>3, <1>2
<1>8. BegunWorkIsOwned'
    BY <1>2 DEF BoardInv, BegunWorkIsOwned, Begun, Fresh
<1>9. NoCircularWait'
    <2> SUFFICES ASSUME NEW S, S \subseteq Tasks, \A u \in S : Exists(u)', S # {}
                 PROVE  \E u \in S : board'[u].dependencies \cap S = {}
        BY DEF NoCircularWait
    <2>1. CASE S = {t}
        BY <2>1, <1>2, <1>4
    <2>2. CASE S # {t}
        <3>1. \A u \in S \ {t} : Exists(u)
            BY <1>2 DEF Exists
        <3>2. PICK u \in S \ {t} : board[u].dependencies \cap (S \ {t}) = {}
            <4>1. S \ {t} # {} /\ S \ {t} \in SUBSET {v \in Tasks : Exists(v)}
                BY <2>2, <3>1
            <4> QED BY <4>1 DEF BoardInv, NoCircularWait
        <3>3. t \notin board[u].dependencies
            BY <3>1 DEF BoardInv, DependenciesExist, Fresh
        <3> QED BY <3>2, <3>3, <1>2
    <2> QED BY <2>1, <2>2
<1> QED BY <1>1, <1>6, <1>7, <1>8, <1>9 DEF BoardInv

LEMMA AdvancePreserves ==
    ASSUME BoardInv, NEW t \in Tasks, NEW r \in TaskRecords, Advances(t, r),
           board' = [board EXCEPT ![t] = r]
    PROVE  BoardInv'
<1>1. board' \in [Tasks -> TaskRecords]
    BY DEF BoardInv
<1>2. board'[t] = r /\ \A u \in Tasks : u # t => board'[u] = board[u]
    BY DEF BoardInv
<1>3. \A u \in Tasks : /\ board'[u].dependencies = board[u].dependencies
                       /\ board[u].dependencies \subseteq Tasks
    BY <1>2 DEF BoardInv, TaskRecords, Advances
<1>4. \A u \in Tasks : Exists(u) <=> Exists(u)'
    BY <1>2 DEF Exists, Advances
<1>5. DependenciesExist'
    BY <1>3, <1>4 DEF BoardInv, DependenciesExist
<1>6. \A u \in Tasks : board[u].status = "completed"
                           => board'[u].status = "completed"
    BY <1>2 DEF Advances
<1>7. BegunOnCompletedWork'
    <2> SUFFICES ASSUME NEW u \in Tasks, board'[u].status \in Begun,
                        NEW d \in board[u].dependencies
                 PROVE  board[d].status = "completed"
        BY <1>3, <1>6 DEF BegunOnCompletedWork, Begun
    <2>1. CASE board[u].status \in Begun
        BY <2>1 DEF BoardInv, BegunOnCompletedWork
    <2>2. CASE board[u].status \notin Begun
        BY <2>2, <1>2 DEF Advances, Blocked
    <2> QED BY <2>1, <2>2
<1>8. BegunWorkIsOwned'
    BY <1>2 DEF BoardInv, BegunWorkIsOwned, Begun, Advances
<1>9. NoCircularWait'
    <2> SUFFICES ASSUME NEW S, S \subseteq Tasks, \A u \in S : Exists(u)', S # {}
                 PROVE  \E u \in S : board'[u].dependencies \cap S = {}
        BY DEF NoCircularWait
    <2>1. PICK u \in S : board[u].dependencies \cap S = {}
        BY <1>4 DEF BoardInv, NoCircularWait
    <2> QED BY <2>1, <1>3
<1> QED BY <1>1, <1>5, <1>7, <1>8, <1>9 DEF BoardInv

-----------------------------------------------------------------------------
(* The invariant.                                                          *)

\* IInv is about the board, and about the staged files matching it.
LEMMA IInvParts ==
    IInv <=> /\ BoardInv
             /\ \E files \in SUBSET Tasks : staged \in [files -> TaskRecords]
             /\ RecoveryIsCurrent
             /\ StagedExist
BY DEF IInv, BoardInv, TypeOK

LEMMA InitInv == Init => IInv
<1> SUFFICES ASSUME Init PROVE IInv
    OBVIOUS
<1>1. board \in [Tasks -> TaskRecords] /\ \A t \in Tasks : board[t] = Absent
    BY DEF Init, Absent, TaskRecords
<1>2. \A t \in Tasks : ~Exists(t) /\ board[t].status = "absent"
    BY <1>1 DEF Exists, Absent
<1>3. BoardInv
    BY <1>1, <1>2
       DEF BoardInv, DependenciesExist, BegunOnCompletedWork, BegunWorkIsOwned,
           NoCircularWait, Begun
<1>4. DOMAIN staged = {} /\ staged \in [{} -> TaskRecords]
    BY DEF Init
<1> QED BY <1>3, <1>4, IInvParts DEF RecoveryIsCurrent, StagedExist

LEMMA NextInv == IInv /\ [Next]_vars => IInv'
<1> SUFFICES ASSUME IInv, [Next]_vars PROVE IInv'
    OBVIOUS
<1>1. BoardInv /\ RecoveryIsCurrent /\ StagedExist
    BY IInvParts
<1>2. PICK files \in SUBSET Tasks : staged \in [files -> TaskRecords]
    BY IInvParts
<1>3. ASSUME BoardInv', DOMAIN staged = {}, staged' = staged
      PROVE  IInv'
    <2>1. RecoveryIsCurrent' /\ StagedExist'
        BY <1>3 DEF RecoveryIsCurrent, StagedExist
    <2>2. \E S \in SUBSET Tasks : staged' \in [S -> TaskRecords]
        BY <1>2, <1>3
    <2> QED BY <1>3, <2>1, <2>2, IInvParts DEF IInv, BoardInv, TypeOK
<1>4. ASSUME NEW t \in Tasks, NEW r \in TaskRecords, Fresh(t, r) \/ Advances(t, r),
             Write(t, r), Unlocked
      PROVE  IInv'
    <2>1. BoardInv'
        BY <1>1, <1>4, FreshPreserves, AdvancePreserves DEF Write
    <2> QED BY <2>1, <1>3, <1>4 DEF Write, Unlocked
<1>5. ASSUME NEW t \in DOMAIN staged, t \in Tasks, staged[t] \in TaskRecords,
             Advances(t, staged[t]), ReplaceFile(t)
      PROVE  IInv'
    <2>1. BoardInv'
        BY <1>1, <1>5, AdvancePreserves DEF ReplaceFile
    <2>2. /\ DOMAIN staged' = DOMAIN staged \ {t}
          /\ \A u \in DOMAIN staged' : staged'[u] = staged[u]
        BY <1>5 DEF ReplaceFile, Unstaged
    <2>3. \A u \in Tasks : u # t => board'[u] = board[u]
        BY <1>5, <1>1 DEF ReplaceFile, BoardInv
    <2>4. DOMAIN staged \subseteq Tasks
        BY <1>2
    <2>5. RecoveryIsCurrent'
        BY <1>1, <2>2, <2>3, <2>4 DEF RecoveryIsCurrent, Recovered
    <2>6. StagedExist'
        BY <1>1, <2>2, <2>3, <2>4 DEF StagedExist, Exists
    <2>7. staged' \in [files \ {t} -> TaskRecords]
        BY <1>2, <1>5 DEF ReplaceFile, Unstaged
    <2> QED BY <2>1, <2>5, <2>6, <2>7 DEF IInv, BoardInv, TypeOK
<1>6. CASE RecoverInterrupted
    <2> DEFINE S == {u \in Tasks : Exists(u)}
    <2>1. board' = board /\ staged' = [t \in S |-> Recovered(board[t])]
        BY <1>6 DEF RecoverInterrupted
    <2>2. \A t \in Tasks : Recovered(board[t]) \in TaskRecords
        BY <1>1 DEF BoardInv, Recovered, TaskRecords, Statuses
    <2>3. staged' \in [S -> TaskRecords]
        BY <2>1, <2>2
    <2>4. BoardInv'
        BY <1>1, <2>1
           DEF BoardInv, DependenciesExist, BegunOnCompletedWork, BegunWorkIsOwned,
               NoCircularWait, Exists
    <2>5. RecoveryIsCurrent' /\ StagedExist'
        BY <2>1 DEF RecoveryIsCurrent, StagedExist, Exists
    <2> QED BY <2>3, <2>4, <2>5 DEF IInv, BoardInv, TypeOK
<1>7. CASE AbandonRecovery
    <2>1. board' = board /\ DOMAIN staged' = {} /\ staged' \in [{} -> TaskRecords]
        BY <1>7 DEF AbandonRecovery
    <2>2. BoardInv'
        BY <1>1, <2>1
           DEF BoardInv, DependenciesExist, BegunOnCompletedWork, BegunWorkIsOwned,
               NoCircularWait, Exists
    <2>3. RecoveryIsCurrent' /\ StagedExist'
        BY <2>1 DEF RecoveryIsCurrent, StagedExist
    <2> QED BY <2>1, <2>2, <2>3 DEF IInv, BoardInv, TypeOK
<1>8. CASE UNCHANGED vars
    BY <1>8 DEF vars, IInv, TypeOK, DependenciesExist, BegunOnCompletedWork,
                BegunWorkIsOwned, NoCircularWait, RecoveryIsCurrent, StagedExist,
                Exists
<1> QED BY StepShape, <1>4, <1>5, <1>6, <1>7, <1>8

\* Every behaviour of the board keeps the invariant.
THEOREM Invariance == Spec => []IInv
BY InitInv, NextInv, PTL DEF Spec

\* The board and the staged files always hold well-formed records.
THEOREM TypeCorrect == Spec => []TypeOK
<1>1. IInv => TypeOK
    BY DEF IInv
<1> QED BY <1>1, Invariance, PTL

\* Nobody works, or has worked, on a task with an uncompleted dependency.
THEOREM WorkFollowsDependencies == Spec => []BegunOnCompletedWork
<1>1. IInv => BegunOnCompletedWork
    BY DEF IInv
<1> QED BY <1>1, Invariance, PTL

\* Work that was begun has an owner.
THEOREM WorkHasAnOwner == Spec => []BegunWorkIsOwned
<1>1. IInv => BegunWorkIsOwned
    BY DEF IInv
<1> QED BY <1>1, Invariance, PTL

\* The tasks on the board never wait for each other in a circle.
THEOREM GraphIsAcyclic == Spec => []NoCircularWait
<1>1. IInv => NoCircularWait
    BY DEF IInv
<1> QED BY <1>1, Invariance, PTL

\* A recovery cut short anywhere has lost no update and will lose none.
THEOREM RecoveryLosesNothing == Spec => []RecoveryIsCurrent
<1>1. IInv => RecoveryIsCurrent
    BY DEF IInv
<1> QED BY <1>1, Invariance, PTL

-----------------------------------------------------------------------------
(* What a step may never do.                                               *)

\* Seen from the records, a step does one of three things.
LEMMA BoardStep ==
    ASSUME IInv, [Next]_vars
    PROVE  \/ \E t \in Tasks, r \in TaskRecords :
                 Fresh(t, r) /\ board' = [board EXCEPT ![t] = r]
           \/ \E t \in Tasks, r \in TaskRecords :
                 Advances(t, r) /\ board' = [board EXCEPT ![t] = r]
           \/ board' = board
BY StepShape DEF Write, ReplaceFile, RecoverInterrupted, AbandonRecovery, vars

\* A completed task stays completed.
THEOREM CompletionIsFinal == Spec => CompletedIsFinal
<1> DEFINE Kept == \A t \in Tasks : board[t].status = "completed"
                                        => board'[t].status = "completed"
<1>1. IInv /\ [Next]_vars => [Kept]_vars
    <2> SUFFICES ASSUME IInv, [Next]_vars, NEW t \in Tasks,
                        board[t].status = "completed"
                 PROVE  board'[t].status = "completed"
        OBVIOUS
    <2>1. board \in [Tasks -> TaskRecords]
        BY DEF IInv, TypeOK
    <2>2. CASE board' = board
        BY <2>2
    <2>3. ASSUME NEW u \in Tasks, NEW r \in TaskRecords, Fresh(u, r) \/ Advances(u, r),
                 board' = [board EXCEPT ![u] = r]
          PROVE  board'[t].status = "completed"
        BY <2>1, <2>3 DEF Fresh, Advances, Exists
    <2> QED BY <2>2, <2>3, BoardStep
<1> QED BY <1>1, Invariance, PTL DEF Spec, CompletedIsFinal

\* A task that keeps running keeps its owner.
THEOREM RunningWorkStays == Spec => RunningWorkKeepsItsOwner
<1> DEFINE Kept == \A t \in Tasks :
                      (board[t].status = "in_progress"
                          /\ board'[t].status = "in_progress")
                      => board'[t].owner = board[t].owner
<1>1. IInv /\ [Next]_vars => [Kept]_vars
    <2> SUFFICES ASSUME IInv, [Next]_vars, NEW t \in Tasks,
                        board[t].status = "in_progress",
                        board'[t].status = "in_progress"
                 PROVE  board'[t].owner = board[t].owner
        OBVIOUS
    <2>1. board \in [Tasks -> TaskRecords]
        BY DEF IInv, TypeOK
    <2>2. CASE board' = board
        BY <2>2
    <2>3. ASSUME NEW u \in Tasks, NEW r \in TaskRecords, Fresh(u, r) \/ Advances(u, r),
                 board' = [board EXCEPT ![u] = r]
          PROVE  board'[t].owner = board[t].owner
        BY <2>1, <2>3 DEF Fresh, Advances, Exists
    <2> QED BY <2>2, <2>3, BoardStep
<1> QED BY <1>1, Invariance, PTL DEF Spec, RunningWorkKeepsItsOwner

-----------------------------------------------------------------------------
(* The board implements Claims.                                            *)

Known == {t \in Tasks : Exists(t)}
Requires == [t \in Tasks |-> board[t].dependencies]
Holder == [t \in Tasks |-> IF board[t].status = "in_progress"
                           THEN board[t].owner ELSE None]
Done == {t \in Tasks : board[t].status = "completed"}

\* A new record is a declaration.
LEMMA FreshDeclares ==
    ASSUME IInv, NEW t \in Tasks, NEW r \in TaskRecords, Fresh(t, r),
           board' = [board EXCEPT ![t] = r]
    PROVE  Promise!Declare(t, r.dependencies) /\ r.dependencies \in SUBSET Tasks
<1>1. board \in [Tasks -> TaskRecords] /\ board'[t] = r
    BY DEF IInv, TypeOK
<1>2. \A u \in Tasks : u # t => board'[u] = board[u]
    BY <1>1
<1>3. board[t].status = "absent"
    BY DEF Fresh, Exists
<1>4. r.dependencies \in SUBSET Tasks
    BY DEF TaskRecords
<1>5. t \notin Known /\ r.dependencies \subseteq Known /\ Known' = Known \cup {t}
    BY <1>1, <1>2, <1>3, <1>4 DEF Known, Exists, Fresh
<1>6. Requires' = [Requires EXCEPT ![t] = r.dependencies]
    BY <1>1, <1>2 DEF Requires
<1>7. Holder' = Holder
    BY <1>1, <1>2, <1>3 DEF Holder, Fresh
<1>8. Done' = Done
    BY <1>1, <1>2, <1>3 DEF Done, Fresh
<1> QED BY <1>4, <1>5, <1>6, <1>7, <1>8
        DEF Promise!Declare, Known, Requires, Holder, Done

\* A record that advances claims, releases or finishes its task, or does none
\* of them.
LEMMA AdvanceKeepsPromise ==
    ASSUME IInv, NEW t \in Tasks, NEW r \in TaskRecords, Advances(t, r),
           board' = [board EXCEPT ![t] = r]
    PROVE  Promise!Next \/ UNCHANGED Promise!vars
<1>1. board \in [Tasks -> TaskRecords] /\ board'[t] = r
    BY DEF IInv, TypeOK
<1>2. \A u \in Tasks : u # t => board'[u] = board[u]
    BY <1>1
<1>3. Known' = Known /\ Requires' = Requires
    BY <1>1, <1>2 DEF Known, Requires, Exists, Advances
<1> DEFINE was == board[t].status
<1>4. Holder[t] = IF was = "in_progress" THEN board[t].owner ELSE None
    BY DEF Holder
<1>5. was = "in_progress" => board[t].owner # None
    BY DEF IInv, BegunWorkIsOwned, Begun
<1>6. CASE r.status = "completed" /\ was = "in_progress"
    <2>1. Holder' = [Holder EXCEPT ![t] = None]
        BY <1>1, <1>2, <1>6 DEF Holder
    <2>2. Done' = Done \cup {t}
        BY <1>1, <1>2, <1>6 DEF Done
    <2>3. Promise!Finish(t)
        BY <1>3, <1>4, <1>5, <1>6, <2>1, <2>2
           DEF Promise!Finish, Known, Requires, Holder, Done
    <2> QED BY <2>3 DEF Promise!Next
<1>7. CASE r.status # "completed" /\ r.status # "in_progress" /\ was = "in_progress"
    <2>1. Holder' = [Holder EXCEPT ![t] = None]
        BY <1>1, <1>2, <1>7 DEF Holder
    <2>2. Done' = Done
        BY <1>1, <1>2, <1>7 DEF Done
    <2>3. Promise!Release(t)
        BY <1>3, <1>4, <1>5, <1>7, <2>1, <2>2
           DEF Promise!Release, Known, Requires, Holder, Done
    <2> QED BY <2>3 DEF Promise!Next
<1>8. CASE r.status = "in_progress" /\ was # "in_progress"
    <2>1. Holder' = [Holder EXCEPT ![t] = r.owner]
        BY <1>1, <1>2, <1>8 DEF Holder
    <2>2. Done' = Done /\ t \notin Done /\ t \in Known
        BY <1>1, <1>2, <1>8 DEF Done, Known, Advances
    <2>3. r.owner \in Agents
        BY <1>8 DEF Advances, Begun, TaskRecords
    <2>4. \A d \in board[t].dependencies : d \in Done
        <3>1. ~Blocked(t)
            BY <1>8 DEF Advances, Begun, IInv, BegunOnCompletedWork, Blocked
        <3>2. board[t].dependencies \subseteq Tasks
            BY <1>1 DEF TaskRecords
        <3> QED BY <3>1, <3>2 DEF Blocked, Done
    <2>5. Promise!Claim(t, r.owner)
        BY <1>3, <1>4, <1>8, <2>1, <2>2, <2>4
           DEF Promise!Claim, Known, Requires, Holder, Done
    <2> QED BY <2>3, <2>5 DEF Promise!Next
<1>9. CASE (r.status = "in_progress") <=> (was = "in_progress")
    <2>1. CASE r.status # "completed" \/ was = "completed"
        <3>1. Holder' = Holder
            BY <1>1, <1>2, <1>9 DEF Holder, Advances
        <3>2. Done' = Done
            BY <1>1, <1>2, <2>1 DEF Done, Advances
        <3> QED BY <1>3, <3>1, <3>2
                DEF Promise!vars, Known, Requires, Holder, Done
    <2>2. CASE r.status = "completed" /\ was # "completed"
        BY <2>2, <1>9 DEF Advances
    <2> QED BY <2>1, <2>2
<1> QED BY <1>6, <1>7, <1>8, <1>9

\* The task board keeps the promise of Claims: every step of the code claims,
\* releases, finishes or declares one task for one agent, or nothing at all.
THEOREM Refinement == Spec => ImplementsClaims
<1>1. Init => Promise!Init
    <2> SUFFICES ASSUME Init PROVE Promise!Init
        OBVIOUS
    <2>1. \A t \in Tasks : board[t] = Absent
        BY DEF Init
    <2>2. Known = {} /\ Requires = [t \in Tasks |-> {}]
          /\ Holder = [t \in Tasks |-> None] /\ Done = {}
        BY <2>1 DEF Known, Requires, Holder, Done, Exists, Absent
    <2> QED BY <2>2 DEF Promise!Init, Known, Requires, Holder, Done
<1>2. IInv /\ [Next]_vars => [Promise!Next]_(Promise!vars)
    <2> SUFFICES ASSUME IInv, [Next]_vars PROVE [Promise!Next]_(Promise!vars)
        OBVIOUS
    <2>1. CASE board' = board
        <3>1. Known' = Known /\ Requires' = Requires /\ Holder' = Holder /\ Done' = Done
            BY <2>1 DEF Known, Requires, Holder, Done, Exists
        <3> QED BY <3>1 DEF Promise!vars, Known, Requires, Holder, Done
    <2>2. ASSUME NEW t \in Tasks, NEW r \in TaskRecords, Fresh(t, r),
                 board' = [board EXCEPT ![t] = r]
          PROVE  Promise!Next
        BY <2>2, FreshDeclares DEF Promise!Next
    <2>3. ASSUME NEW t \in Tasks, NEW r \in TaskRecords, Advances(t, r),
                 board' = [board EXCEPT ![t] = r]
          PROVE  Promise!Next \/ UNCHANGED Promise!vars
        BY <2>3, AdvanceKeepsPromise
    <2> QED BY <2>1, <2>2, <2>3, BoardStep
<1> QED BY <1>1, <1>2, Invariance, PTL DEF Spec, ImplementsClaims, Promise!Spec
=============================================================================
