--------------------------- MODULE ServicesProofs ---------------------------
(* What is proved of the services that keep something on a disk or for each *)
(* other: the store and the files of sessions, the trace, the lock of a     *)
(* file, background and memory jobs, protocols, runtimes, and the dispatch  *)
(* of hooks. Each has its inductive invariant, which its own steps keep     *)
(* (its Step) and the steps of the others leave alone (Moving).             *)
EXTENDS Services, TLAPS

\* A step of the composition is a step of each service, or leaves it alone.
LEMMA Moving ==
    [Next]_vars =>
        /\ [Store!Next]_(Store!vars) /\ [Lock!Next]_(Lock!vars)
        /\ [Background!Next]_(Background!vars) /\ [Memory!Next]_(Memory!vars)
        /\ [Protocol!Next]_(Protocol!vars) /\ [Agents!Next]_(Agents!vars)
        /\ [Audit!Next]_(Audit!vars) /\ [Deleting!Next]_(Deleting!vars)
        /\ [Hooking!Next]_(Hooking!vars)
<1> SUFFICES ASSUME [Next]_vars
             PROVE  /\ [Store!Next]_(Store!vars) /\ [Lock!Next]_(Lock!vars)
                    /\ [Background!Next]_(Background!vars)
                    /\ [Memory!Next]_(Memory!vars)
                    /\ [Protocol!Next]_(Protocol!vars) /\ [Agents!Next]_(Agents!vars)
                    /\ [Audit!Next]_(Audit!vars) /\ [Deleting!Next]_(Deleting!vars)
                    /\ [Hooking!Next]_(Hooking!vars)
  OBVIOUS
<1>1. [Store!Next]_(Store!vars)
  BY DEF Next, Moves, vars, storeVars, Store!vars
<1>2. [Lock!Next]_(Lock!vars)
  BY DEF Next, Moves, vars, lockVars, Lock!vars
<1>3. [Background!Next]_(Background!vars)
  BY DEF Next, Moves, vars, backgroundVars, Background!vars
<1>4. [Memory!Next]_(Memory!vars)
  BY DEF Next, Moves, vars, memoryVars, Memory!vars
<1>5. [Protocol!Next]_(Protocol!vars)
  BY DEF Next, Moves, vars, protocolVars, Protocol!vars, Protocol!bookkeeping
<1>6. [Agents!Next]_(Agents!vars)
  BY DEF Next, Moves, vars, runtimeVars, Agents!vars, Agents!processVars,
     Agents!recoveryVars, Agents!childVars
<1>7. [Audit!Next]_(Audit!vars)
  BY DEF Next, Moves, vars, auditVars, Audit!vars
<1>8. [Deleting!Next]_(Deleting!vars)
  BY DEF Next, Moves, vars, sessionVars, Deleting!vars
<1>9. [Hooking!Next]_(Hooking!vars)
  BY DEF Next, Moves, vars, hookVars, Hooking!vars
<1> QED
  BY <1>1, <1>2, <1>3, <1>4, <1>5, <1>6, <1>7, <1>8, <1>9

-----------------------------------------------------------------------------
(* The session store.                                                      *)

\* One writer is inside, and a worker has begun only for one that got there.
WriteTurns ==
    /\ \A u \in Writers : caller[u] = "waiting" <=> u \in operating
    /\ \A u, v \in operating : u = v
    /\ \A u \in Writers : caller[u] \in {"new", "queued"} => worker[u] = "none"
    /\ \A u \in Writers : caller[u] = "returned" => worker[u] = "committed"
    /\ \A u \in Writers : caller[u] = "cancelled" =>
           worker[u] \in {"none", "rolled back"}
    /\ \A u \in Writers : caller[u] = "raised" => worker[u] = "failed"

\* The one transaction of the connection is that of the worker that may commit it.
OneTransaction ==
    /\ \A u \in Writers :
          caller[u] = "waiting" /\ worker[u] \in {"operation", "commit", "rollback"} =>
              open = {u}
    /\ written \subseteq open
    /\ \A u \in Writers : caller[u] = "waiting" /\ worker[u] = "commit" => u \in written

CommitsAreDurable ==
    \A u \in Writers : u \in durable <=> worker[u] = "committed"

StoreInv == Store!TypeOK /\ WriteTurns /\ OneTransaction /\ CommitsAreDurable

LEMMA StoreInit == Store!Init => StoreInv
  BY DEF Store!Init, StoreInv, Store!TypeOK, Store!CallerStates, Store!WorkerStates,
     Store!Settled, Store!Outcomes,
     WriteTurns, OneTransaction, CommitsAreDurable

\* A worker's step: who is inside stays so.
LEMMA WorkerGoes ==
    ASSUME Store!TypeOK, WriteTurns, CommitsAreDurable,
           NEW w \in Writers, NEW from \in {"begin", "operation", "commit", "rollback", "handler"},
           NEW to \in Store!WorkerStates \ {"none"}, Store!At(w, from), Store!Goes(w, to),
           durable' = IF to = "committed" THEN durable \cup {w} ELSE durable
    PROVE  /\ worker' \in [Writers -> Store!WorkerStates]
           /\ worker'[w] = to
           /\ \A u \in Writers \ {w} : worker'[u] = worker[u] /\ caller[u] # "waiting"
           /\ caller' = caller
           /\ WriteTurns'
           /\ CommitsAreDurable'
<1>1. /\ worker' \in [Writers -> Store!WorkerStates]
      /\ worker'[w] = to
      /\ \A u \in Writers \ {w} : worker'[u] = worker[u]
  BY DEF Store!TypeOK, Store!Goes
<1>2. caller' = caller /\ operating' = operating /\ caller[w] = "waiting" /\ worker[w] = from
  BY DEF Store!Goes, Store!At
<1>3. WriteTurns'
  BY <1>1, <1>2 DEF WriteTurns
<1>4. CommitsAreDurable'
  BY <1>1, <1>2 DEF CommitsAreDurable
<1>5. \A u \in Writers \ {w} : caller[u] # "waiting"
  BY <1>2 DEF WriteTurns, Store!TypeOK
<1> QED
  BY <1>1, <1>2, <1>3, <1>4, <1>5

LEMMA StoreStep == StoreInv /\ [Store!Next]_(Store!vars) => StoreInv'
<1> SUFFICES ASSUME StoreInv, [Store!Next]_(Store!vars)
             PROVE  StoreInv'
  OBVIOUS
<1>0. Store!TypeOK /\ WriteTurns /\ OneTransaction /\ CommitsAreDurable
  BY DEF StoreInv
<1>1. CASE UNCHANGED Store!vars
  BY <1>0, <1>1 DEF Store!vars, StoreInv, Store!TypeOK, WriteTurns, OneTransaction,
     CommitsAreDurable
<1>2. ASSUME NEW w \in Writers, Store!Call(w)
      PROVE  StoreInv'
  <2>1. Store!TypeOK'
    BY <1>0, <1>2 DEF Store!Call, Store!TypeOK, Store!CallerStates
  <2>2. WriteTurns'
    BY <1>0, <1>2 DEF Store!Call, Store!TypeOK, WriteTurns
  <2>3. OneTransaction' /\ CommitsAreDurable'
    BY <1>0, <1>2 DEF Store!Call, Store!TypeOK, OneTransaction, CommitsAreDurable
  <2> QED
    BY <2>1, <2>2, <2>3 DEF StoreInv
<1>3. ASSUME NEW w \in Writers, Store!Cancel(w)
      PROVE  StoreInv'
  <2>1. Store!TypeOK'
    BY <1>0, <1>3 DEF Store!Cancel, Store!TypeOK, Store!CallerStates, Store!Settled
  <2>2. WriteTurns'
    BY <1>0, <1>3 DEF Store!Cancel, Store!TypeOK, WriteTurns
  <2>3. OneTransaction' /\ CommitsAreDurable'
    BY <1>0, <1>3 DEF Store!Cancel, Store!TypeOK, OneTransaction, CommitsAreDurable
  <2> QED
    BY <2>1, <2>2, <2>3 DEF StoreInv
<1>4. ASSUME NEW w \in Writers, Store!Enter(w)
      PROVE  StoreInv'
  <2>1. Store!TypeOK'
    BY <1>0, <1>4 DEF Store!Enter, Store!TypeOK, Store!CallerStates, Store!WorkerStates
  <2>2. WriteTurns'
    BY <1>0, <1>4 DEF Store!Enter, Store!TypeOK, WriteTurns
  <2>3. OneTransaction' /\ CommitsAreDurable'
    BY <1>0, <1>4 DEF Store!Enter, Store!TypeOK, WriteTurns, OneTransaction,
       CommitsAreDurable
  <2> QED
    BY <2>1, <2>2, <2>3 DEF StoreInv
<1>5. ASSUME NEW w \in Writers, Store!Leave(w)
      PROVE  StoreInv'
  <2>1. Store!Told(worker[w]) \in Store!Settled
    BY <1>5 DEF Store!Leave, Store!Told, Store!Outcomes, Store!Settled
  <2>2. Store!TypeOK'
    BY <1>0, <1>5, <2>1 DEF Store!Leave, Store!TypeOK, Store!CallerStates
  <2>3. WriteTurns'
    BY <1>0, <1>5 DEF Store!Leave, Store!Told, Store!Outcomes, Store!TypeOK, WriteTurns
  <2>4. OneTransaction' /\ CommitsAreDurable'
    BY <1>0, <1>5, <2>1 DEF Store!Leave, Store!Settled, Store!TypeOK, OneTransaction,
       CommitsAreDurable
  <2> QED
    BY <2>2, <2>3, <2>4 DEF StoreInv
<1>6. CASE Store!Crash
  <2>1. Store!TypeOK'
    BY <1>0, <1>6 DEF Store!Crash, Store!TypeOK, Store!CallerStates
  <2>2. WriteTurns'
    BY <1>0, <1>6 DEF Store!Crash, Store!TypeOK, WriteTurns
  <2>3. OneTransaction' /\ CommitsAreDurable'
    BY <1>0, <1>6 DEF Store!Crash, Store!TypeOK, OneTransaction, CommitsAreDurable
  <2> QED
    BY <2>1, <2>2, <2>3 DEF StoreInv
<1>w. ASSUME NEW w \in Writers,
             NEW from \in {"begin", "operation", "commit", "rollback", "handler"},
             NEW to \in Store!WorkerStates \ {"none"}, Store!At(w, from), Store!Goes(w, to),
             durable' = IF to = "committed" THEN durable \cup {w} ELSE durable,
             written' \subseteq open', open' \subseteq Writers,
             to \in {"operation", "commit", "rollback"} => open' = {w},
             to = "commit" => w \in written'
      PROVE  StoreInv'
  <2>1. /\ worker' \in [Writers -> Store!WorkerStates]
        /\ worker'[w] = to
        /\ \A u \in Writers \ {w} : worker'[u] = worker[u] /\ caller[u] # "waiting"
        /\ caller' = caller
        /\ WriteTurns'
        /\ CommitsAreDurable'
    BY <1>0, <1>w, WorkerGoes
  <2>2. Store!TypeOK'
    BY <1>0, <1>w, <2>1 DEF Store!Goes, Store!TypeOK
  <2>3. OneTransaction'
    BY <1>w, <2>1 DEF OneTransaction
  <2> QED
    BY <2>1, <2>2, <2>3 DEF StoreInv
<1>7. ASSUME NEW w \in Writers, Store!Begin(w)
      PROVE  StoreInv'
  <2> DEFINE to == IF w \in requested THEN "rollback" ELSE "operation"
  <2>1. Store!At(w, "begin") /\ Store!Goes(w, to) /\ open' = {w} /\ open = {} /\ written' = written /\ durable' = durable
    BY <1>7 DEF Store!Begin, Store!GoesUnlessCancelled
  <2>2. to \in {"rollback", "operation"} /\ to \in Store!WorkerStates \ {"none"}
    BY DEF Store!WorkerStates
  <2> HIDE DEF to
  <2> QED
    BY <1>0, <1>w, <2>1, <2>2 DEF OneTransaction
<1>8. ASSUME NEW w \in Writers, NEW from \in {"begin", "rollback"}, Store!At(w, from),
             Store!Goes(w, "handler"),
             UNCHANGED <<open, written, durable>>
      PROVE  StoreInv'
  <2>1. "handler" \in Store!WorkerStates \ {"none"} /\ written \subseteq open /\ open \subseteq Writers
    BY <1>0 DEF Store!WorkerStates, OneTransaction, Store!TypeOK
  <2> QED
    BY <1>w, <1>8, <2>1
<1>9. ASSUME NEW w \in Writers, Store!Operate(w)
      PROVE  StoreInv'
  <2> DEFINE to == IF w \in requested THEN "rollback" ELSE "commit"
  <2>1. Store!At(w, "operation") /\ Store!Goes(w, to) /\ open' = open /\ written' = written \cup {w} /\ durable' = durable
    BY <1>9 DEF Store!Operate, Store!GoesUnlessCancelled
  <2>2. to \in {"rollback", "commit"} /\ to \in Store!WorkerStates \ {"none"}
    BY DEF Store!WorkerStates
  <2> HIDE DEF to
  <2>3. open = {w} /\ written \subseteq open
    BY <1>0, <2>1 DEF OneTransaction, Store!At
  <2> QED
    BY <1>w, <2>1, <2>2, <2>3
<1>10. ASSUME NEW w \in Writers, Store!OperateFails(w)
      PROVE  StoreInv'
  <2>1. Store!At(w, "operation") /\ Store!Goes(w, "handler") /\ open' = open /\ written' \subseteq written \cup {w} /\ durable' = durable
    BY <1>10 DEF Store!OperateFails
  <2>2. open = {w} /\ written \subseteq open /\ "handler" \in Store!WorkerStates \ {"none"}
    BY <1>0, <2>1 DEF OneTransaction, Store!At, Store!WorkerStates
  <2> QED
    BY <1>w, <2>1, <2>2
<1>11. ASSUME NEW w \in Writers, Store!Commit(w)
      PROVE  StoreInv'
  <2>1. Store!At(w, "commit") /\ Store!Goes(w, "committed") /\ open' = {} /\ written' = {} /\ durable' = durable \cup written
    BY <1>11 DEF Store!Commit
  <2>2. written = {w} /\ "committed" \in Store!WorkerStates \ {"none"}
    BY <1>0, <2>1 DEF OneTransaction, Store!At, Store!WorkerStates, Store!Outcomes
  <2> QED
    BY <1>w, <2>1, <2>2
<1>12. ASSUME NEW w \in Writers, NEW from \in {"commit", "rollback", "handler"},
              NEW to \in {"handler", "rolled back", "failed"}, Store!At(w, from), Store!Goes(w, to),
              \/ UNCHANGED <<open, written>>
              \/ open' = {} /\ written' = {},
              durable' = durable
       PROVE  StoreInv'
  <2>1. to \in Store!WorkerStates \ {"none"} /\ written' \subseteq open' /\ open' \subseteq Writers
    BY <1>0, <1>12 DEF Store!WorkerStates, Store!Outcomes, OneTransaction, Store!TypeOK
  <2> QED
    BY <1>w, <1>12, <2>1
<1>13. ASSUME NEW w \in Writers, Store!BeginFails(w) \/ Store!RollbackFails(w)
       PROVE  StoreInv'
  BY <1>8, <1>13 DEF Store!BeginFails, Store!RollbackFails
<1>14. ASSUME NEW w \in Writers,
              Store!CommitFails(w) \/ Store!Rollback(w) \/ Store!Handle(w)
       PROVE  StoreInv'
  BY <1>12, <1>14 DEF Store!CommitFails, Store!Rollback, Store!Handle
<1> QED
  BY <1>1, <1>2, <1>3, <1>4, <1>5, <1>6, <1>7, <1>9, <1>10, <1>11, <1>13, <1>14 DEF
     Store!Next, Store!Step

LEMMA StoreStarts == Store!Init => Store!Promise!Init
  BY DEF Store!Init, Store!Promise!Init

\* What a caller that is told nothing yet may still become.
Untold(state) == state \notin {"returned", "cancelled", "raised"}

LEMMA StoreKeepsPromise == StoreInv /\ [Store!Next]_(Store!vars) =>
          [Store!Promise!Next]_(Store!Promise!vars)
<1> SUFFICES ASSUME StoreInv, [Store!Next]_(Store!vars)
             PROVE  [Store!Promise!Next]_(Store!Promise!vars)
  OBVIOUS
<1> DEFINE Tells == [w \in Writers |->
                CASE caller[w] = "returned"               -> "stored"
                  [] caller[w] \in {"cancelled", "raised"} -> "not stored"
                  [] OTHER                                 -> "nothing"]
<1>0. Store!TypeOK /\ WriteTurns /\ OneTransaction /\ CommitsAreDurable
  BY DEF StoreInv
<1>1. ASSUME \A w \in Writers : caller'[w] # caller[w] =>
                 Untold(caller[w]) /\ Untold(caller'[w]),
             durable' = durable
      PROVE  UNCHANGED Store!Promise!vars
  <2>1. \A w \in Writers : Tells'[w] = Tells[w]
    BY <1>1 DEF Untold
  <2>2. Tells' = Tells
    BY <2>1
  <2> QED
    BY <1>1, <2>2 DEF Store!Promise!vars
<1>2. ASSUME caller' = caller, durable' = durable
      PROVE  UNCHANGED Store!Promise!vars
  BY <1>1, <1>2
<1>3. ASSUME NEW w \in Writers, NEW end \in {"returned", "cancelled", "raised"},
             caller' = [caller EXCEPT ![w] = end], Untold(caller[w]), durable' = durable,
             end = "returned" <=> w \in durable
      PROVE  Store!Promise!Tell(w)
  <2>1. caller'[w] = end /\ \A u \in Writers \ {w} : caller'[u] = caller[u]
    BY <1>0, <1>3 DEF Store!TypeOK
  <2>2. Tells[w] = "nothing"
    BY <1>3 DEF Untold
  <2>3. Tells'[w] = IF w \in durable THEN "stored" ELSE "not stored"
    BY <1>3, <2>1
  <2>4. \A u \in Writers \ {w} : Tells'[u] = Tells[u]
    BY <2>1
  <2>5. Tells' = [Tells EXCEPT ![w] = IF w \in durable THEN "stored" ELSE "not stored"]
    BY <2>3, <2>4
  <2> QED
    BY <1>3, <2>2, <2>5 DEF Store!Promise!Tell
<1>4. ASSUME NEW w \in Writers, Store!Call(w) \/ Store!Enter(w)
      PROVE  UNCHANGED Store!Promise!vars
  BY <1>0, <1>1, <1>4 DEF Store!Call, Store!Enter, Store!TypeOK, Untold
<1>5. CASE Store!Crash
  BY <1>0, <1>1, <1>5 DEF Store!Crash, Store!TypeOK, Untold
<1>6. ASSUME NEW w \in Writers, Store!Cancel(w)
      PROVE  [Store!Promise!Next]_(Store!Promise!vars)
  <2>1. CASE caller[w] = "waiting"
    BY <1>2, <1>6, <2>1 DEF Store!Cancel
  <2>2. CASE caller[w] = "queued"
    <3>1. worker[w] = "none" /\ w \notin durable
      BY <1>0, <2>2 DEF WriteTurns, CommitsAreDurable
    <3>2. caller' = [caller EXCEPT ![w] = "cancelled"] /\ durable' = durable
      BY <1>6, <2>2 DEF Store!Cancel
    <3>3. Store!Promise!Tell(w)
      BY <1>3, <2>2, <3>1, <3>2 DEF Untold
    <3> QED
      BY <3>3 DEF Store!Promise!Next
  <2> QED
    BY <1>6, <2>1, <2>2 DEF Store!Cancel
<1>7. ASSUME NEW w \in Writers, Store!Leave(w)
      PROVE  [Store!Promise!Next]_(Store!Promise!vars)
  <2> DEFINE end == Store!Told(worker[w])
  <2>1. /\ end \in {"returned", "cancelled", "raised"}
        /\ end = "returned" <=> worker[w] = "committed"
    BY <1>7 DEF Store!Leave, Store!Told, Store!Outcomes
  <2>2. caller' = [caller EXCEPT ![w] = end] /\ durable' = durable /\ Untold(caller[w])
    BY <1>7 DEF Store!Leave, Untold
  <2>3. worker[w] = "committed" <=> w \in durable
    BY <1>0 DEF CommitsAreDurable
  <2> HIDE DEF end
  <2>4. Store!Promise!Tell(w)
    BY <1>3, <2>1, <2>2, <2>3
  <2> QED
    BY <2>4 DEF Store!Promise!Next
<1>8. ASSUME NEW w \in Writers, Store!Commit(w)
      PROVE  [Store!Promise!Next]_(Store!Promise!vars)
  <2>1. written = {w} /\ caller' = caller /\ caller[w] = "waiting" /\ durable' = durable \cup {w}
    BY <1>0, <1>8 DEF Store!Commit, Store!At, Store!Goes, OneTransaction
  <2>2. Tells[w] = "nothing" /\ Tells' = Tells
    BY <2>1
  <2>3. Store!Promise!Store(w)
    BY <2>1, <2>2 DEF Store!Promise!Store
  <2> QED
    BY <2>3 DEF Store!Promise!Next
<1>9. ASSUME NEW w \in Writers,
             \/ Store!Begin(w) \/ Store!BeginFails(w) \/ Store!Operate(w) \/ Store!OperateFails(w)
             \/ Store!CommitFails(w) \/ Store!Rollback(w) \/ Store!RollbackFails(w) \/ Store!Handle(w)
      PROVE  UNCHANGED Store!Promise!vars
  BY <1>2, <1>9 DEF Store!Begin, Store!BeginFails, Store!Operate, Store!OperateFails,
     Store!CommitFails, Store!Rollback,
     Store!RollbackFails, Store!Handle, Store!Goes, Store!GoesUnlessCancelled
<1>10. CASE UNCHANGED Store!vars
  BY <1>2, <1>10 DEF Store!vars
<1> QED
  BY <1>4, <1>5, <1>6, <1>7, <1>8, <1>9, <1>10 DEF Store!Next, Store!Step

\* The store keeps the promise of durable writes: a write is stored once, a call
\* that returned has been stored, and one that was told of its failure or its
\* cancellation has not (ImplementsDurableWrites: the write transaction of
\* SessionStore and the shield around its worker).
THEOREM WritesAreDurable == Spec => ImplementsDurableWrites
<1>1. Init => StoreInv /\ Store!Promise!Init
  BY StoreInit, StoreStarts DEF Init
<1>2. StoreInv /\ [Next]_vars => StoreInv' /\ [Store!Promise!Next]_(Store!Promise!vars)
  BY StoreStep, StoreKeepsPromise, Moving
<1> QED
  BY <1>1, <1>2, PTL DEF Spec, ImplementsDurableWrites, Store!ImplementsDurableWrites

-----------------------------------------------------------------------------
(* The file lock.                                                          *)

Owns == {"open", "holds", "unlock", "disown"}
Locks == {"holds", "unlock"}

LockStages ==
    \A u \in Users :
        /\ attempt[u] = "new" => thread[u] = "none"
        /\ attempt[u] = "acquiring" =>
               thread[u] \in {"claim", "open", "holds", "refused"}
        /\ attempt[u] = "inside" => thread[u] = "holds"
        /\ attempt[u] \in {"releasing", "giving back"} =>
              thread[u] \in {"unlock", "disown", "gave back"}
        /\ attempt[u] \in Lock!Over => thread[u] \in {"refused", "gave back"}

LockOwnership ==
    /\ \A u \in Users : u \in owning[ObjectOf[u]] <=> thread[u] \in Owns
    /\ \A u, v \in Users :
          /\ thread[u] \in Owns /\ thread[v] \in Owns /\ ObjectOf[u] = ObjectOf[v]
          => u = v

FileOwnership ==
    /\ \A u \in Users : thread[u] \in Locks => ObjectOf[u] \in file
    /\ \A u, v \in Users : thread[u] \in Locks /\ thread[v] \in Locks => u = v
    /\ \A o \in file : \E u \in Users : ObjectOf[u] = o /\ thread[u] \in Locks

LockInv == Lock!TypeOK /\ LockStages /\ LockOwnership /\ FileOwnership

LEMMA LockInit == Lock!Init => LockInv
  BY ObjectAssumption DEF Lock!Init, LockInv, Lock!TypeOK, Lock!TaskStates,
     Lock!ThreadStates, Lock!Over,
     LockStages, LockOwnership, FileOwnership, Owns, Locks

LEMMA OwnershipKept ==
    ASSUME LockOwnership, owning' = owning,
           \A u \in Users : thread'[u] \in Owns <=> thread[u] \in Owns
    PROVE  LockOwnership'
  BY DEF LockOwnership

LEMMA FileKept ==
    ASSUME FileOwnership, file' = file,
           \A u \in Users : thread'[u] \in Locks <=> thread[u] \in Locks
    PROVE  FileOwnership'
  BY DEF FileOwnership

LEMMA LockStep == LockInv /\ [Lock!Next]_(Lock!vars) => LockInv'
<1> SUFFICES ASSUME LockInv, [Lock!Next]_(Lock!vars)
             PROVE  LockInv'
  OBVIOUS
<1> USE ObjectAssumption
<1> USE DEF Lock!Thread, Lock!Task, Owns, Locks
<1>0. /\ Lock!TypeOK /\ LockStages /\ LockOwnership /\ FileOwnership
  BY DEF LockInv
<1>1. CASE UNCHANGED Lock!vars
  BY <1>0, <1>1 DEF Lock!vars, Lock!TypeOK, LockStages, LockOwnership, FileOwnership,
     LockInv
<1>2. ASSUME NEW u \in Users, Lock!Enter(u)
      PROVE  LockInv'
  <2>1. Lock!TypeOK'
    BY <1>0, <1>2 DEF Lock!Enter, Lock!TypeOK, Lock!TaskStates, Lock!ThreadStates,
       Lock!Over
  <2>2. LockStages'
    BY <1>0, <1>2 DEF Lock!Enter, Lock!TypeOK, LockStages, Lock!Over
  <2>3. LockOwnership'
    BY <1>0, <1>2, OwnershipKept DEF Lock!Enter, Lock!TypeOK, LockStages
  <2>4. FileOwnership'
    BY <1>0, <1>2, FileKept DEF Lock!Enter, Lock!TypeOK, LockStages
  <2> QED
    BY <2>1, <2>2, <2>3, <2>4 DEF LockInv
<1>3. ASSUME NEW u \in Users, Lock!Cancel(u)
      PROVE  LockInv'
  <2>1. Lock!TypeOK'
    BY <1>0, <1>3 DEF Lock!Cancel, Lock!TypeOK, Lock!TaskStates, Lock!ThreadStates,
       Lock!Over
  <2>2. LockStages'
    BY <1>0, <1>3 DEF Lock!Cancel, Lock!TypeOK, LockStages, Lock!Over
  <2>3. LockOwnership'
    BY <1>0, <1>3, OwnershipKept DEF Lock!Cancel, Lock!TypeOK, LockStages
  <2>4. FileOwnership'
    BY <1>0, <1>3, FileKept DEF Lock!Cancel, Lock!TypeOK, LockStages
  <2> QED
    BY <2>1, <2>2, <2>3, <2>4 DEF LockInv
<1>4. ASSUME NEW u \in Users, Lock!Claim(u)
      PROVE  LockInv'
  <2>1. Lock!TypeOK'
    BY <1>0, <1>4 DEF Lock!Claim, Lock!TypeOK, Lock!TaskStates, Lock!ThreadStates,
       Lock!Over
  <2>2. LockStages'
    BY <1>0, <1>4 DEF Lock!Claim, Lock!TypeOK, LockStages, Lock!Over
  <2>3. LockOwnership'
    BY <1>0, <1>4 DEF Lock!Claim, Lock!TypeOK, LockOwnership
  <2>4. FileOwnership'
    BY <1>0, <1>4, FileKept DEF Lock!Claim, Lock!TypeOK
  <2> QED
    BY <2>1, <2>2, <2>3, <2>4 DEF LockInv
<1>5. ASSUME NEW u \in Users, Lock!ClaimTimesOut(u)
      PROVE  LockInv'
  <2>1. Lock!TypeOK'
    BY <1>0, <1>5 DEF Lock!ClaimTimesOut, Lock!TypeOK, Lock!TaskStates,
       Lock!ThreadStates, Lock!Over
  <2>2. LockStages'
    BY <1>0, <1>5 DEF Lock!ClaimTimesOut, Lock!TypeOK, LockStages, Lock!Over
  <2>3. LockOwnership'
    BY <1>0, <1>5, OwnershipKept DEF Lock!ClaimTimesOut, Lock!TypeOK
  <2>4. FileOwnership'
    BY <1>0, <1>5, FileKept DEF Lock!ClaimTimesOut, Lock!TypeOK
  <2> QED
    BY <2>1, <2>2, <2>3, <2>4 DEF LockInv
<1>6. ASSUME NEW u \in Users, Lock!Open(u)
      PROVE  LockInv'
  <2>1. Lock!TypeOK'
    BY <1>0, <1>6 DEF Lock!Open, Lock!TypeOK, Lock!TaskStates, Lock!ThreadStates,
       Lock!Over
  <2>2. LockStages'
    BY <1>0, <1>6 DEF Lock!Open, Lock!TypeOK, LockStages, Lock!Over
  <2>3. LockOwnership'
    BY <1>0, <1>6, OwnershipKept DEF Lock!Open, Lock!TypeOK
  <2>4. FileOwnership'
    BY <1>0, <1>6 DEF Lock!Open, Lock!TypeOK, FileOwnership
  <2> QED
    BY <2>1, <2>2, <2>3, <2>4 DEF LockInv
<1>7. ASSUME NEW u \in Users, Lock!OpenFails(u)
      PROVE  LockInv'
  <2>1. Lock!TypeOK'
    BY <1>0, <1>7 DEF Lock!OpenFails, Lock!TypeOK, Lock!TaskStates, Lock!ThreadStates,
       Lock!Over
  <2>2. LockStages'
    BY <1>0, <1>7 DEF Lock!OpenFails, Lock!TypeOK, LockStages, Lock!Over
  <2>3. LockOwnership'
    BY <1>0, <1>7 DEF Lock!OpenFails, Lock!TypeOK, LockOwnership
  <2>4. FileOwnership'
    BY <1>0, <1>7, FileKept DEF Lock!OpenFails, Lock!TypeOK
  <2> QED
    BY <2>1, <2>2, <2>3, <2>4 DEF LockInv
<1>8. ASSUME NEW u \in Users, Lock!Unlock(u)
      PROVE  LockInv'
  <2>1. Lock!TypeOK'
    BY <1>0, <1>8 DEF Lock!Unlock, Lock!TypeOK, Lock!TaskStates, Lock!ThreadStates,
       Lock!Over
  <2>2. LockStages'
    BY <1>0, <1>8 DEF Lock!Unlock, Lock!TypeOK, LockStages, Lock!Over
  <2>3. LockOwnership'
    BY <1>0, <1>8, OwnershipKept DEF Lock!Unlock, Lock!TypeOK
  <2>4. FileOwnership'
    BY <1>0, <1>8 DEF Lock!Unlock, Lock!TypeOK, FileOwnership
  <2> QED
    BY <2>1, <2>2, <2>3, <2>4 DEF LockInv
<1>9. ASSUME NEW u \in Users, Lock!Disown(u)
      PROVE  LockInv'
  <2>1. Lock!TypeOK'
    BY <1>0, <1>9 DEF Lock!Disown, Lock!TypeOK, Lock!TaskStates, Lock!ThreadStates,
       Lock!Over
  <2>2. LockStages'
    BY <1>0, <1>9 DEF Lock!Disown, Lock!TypeOK, LockStages, Lock!Over
  <2>3. LockOwnership'
    BY <1>0, <1>9 DEF Lock!Disown, Lock!TypeOK, LockOwnership
  <2>4. FileOwnership'
    BY <1>0, <1>9, FileKept DEF Lock!Disown, Lock!TypeOK
  <2> QED
    BY <2>1, <2>2, <2>3, <2>4 DEF LockInv
<1>10. ASSUME NEW u \in Users, Lock!Acquired(u)
      PROVE  LockInv'
  <2>1. Lock!TypeOK'
    BY <1>0, <1>10 DEF Lock!Acquired, Lock!TypeOK, Lock!TaskStates, Lock!ThreadStates,
       Lock!Over
  <2>2. LockStages'
    BY <1>0, <1>10 DEF Lock!Acquired, Lock!TypeOK, LockStages, Lock!Over
  <2>3. LockOwnership'
    BY <1>0, <1>10, OwnershipKept DEF Lock!Acquired, Lock!TypeOK, LockStages
  <2>4. FileOwnership'
    BY <1>0, <1>10, FileKept DEF Lock!Acquired, Lock!TypeOK, LockStages
  <2> QED
    BY <2>1, <2>2, <2>3, <2>4 DEF LockInv
<1>11. ASSUME NEW u \in Users, Lock!Unavailable(u)
      PROVE  LockInv'
  <2>1. Lock!TypeOK'
    BY <1>0, <1>11 DEF Lock!Unavailable, Lock!TypeOK, Lock!TaskStates,
       Lock!ThreadStates, Lock!Over
  <2>2. LockStages'
    BY <1>0, <1>11 DEF Lock!Unavailable, Lock!TypeOK, LockStages, Lock!Over
  <2>3. LockOwnership'
    BY <1>0, <1>11, OwnershipKept DEF Lock!Unavailable, Lock!TypeOK
  <2>4. FileOwnership'
    BY <1>0, <1>11, FileKept DEF Lock!Unavailable, Lock!TypeOK
  <2> QED
    BY <2>1, <2>2, <2>3, <2>4 DEF LockInv
<1>12. ASSUME NEW u \in Users, Lock!GiveBack(u)
      PROVE  LockInv'
  <2>1. Lock!TypeOK'
    BY <1>0, <1>12 DEF Lock!GiveBack, Lock!TypeOK, Lock!TaskStates, Lock!ThreadStates,
       Lock!Over
  <2>2. LockStages'
    BY <1>0, <1>12 DEF Lock!GiveBack, Lock!TypeOK, LockStages, Lock!Over
  <2>3. LockOwnership'
    BY <1>0, <1>12, OwnershipKept DEF Lock!GiveBack, Lock!TypeOK, LockStages
  <2>4. FileOwnership'
    BY <1>0, <1>12, FileKept DEF Lock!GiveBack, Lock!TypeOK, LockStages
  <2> QED
    BY <2>1, <2>2, <2>3, <2>4 DEF LockInv
<1>13. ASSUME NEW u \in Users, Lock!Exit(u)
      PROVE  LockInv'
  <2>1. Lock!TypeOK'
    BY <1>0, <1>13 DEF Lock!Exit, Lock!TypeOK, Lock!TaskStates, Lock!ThreadStates,
       Lock!Over
  <2>2. LockStages'
    BY <1>0, <1>13 DEF Lock!Exit, Lock!TypeOK, LockStages, Lock!Over
  <2>3. LockOwnership'
    BY <1>0, <1>13, OwnershipKept DEF Lock!Exit, Lock!TypeOK, LockStages
  <2>4. FileOwnership'
    BY <1>0, <1>13, FileKept DEF Lock!Exit, Lock!TypeOK, LockStages
  <2> QED
    BY <2>1, <2>2, <2>3, <2>4 DEF LockInv
<1>14. ASSUME NEW u \in Users, Lock!Released(u)
      PROVE  LockInv'
  <2>1. Lock!TypeOK'
    BY <1>0, <1>14 DEF Lock!Released, Lock!TypeOK, Lock!TaskStates, Lock!ThreadStates,
       Lock!Over
  <2>2. LockStages'
    BY <1>0, <1>14 DEF Lock!Released, Lock!TypeOK, LockStages, Lock!Over
  <2>3. LockOwnership'
    BY <1>0, <1>14, OwnershipKept DEF Lock!Released, Lock!TypeOK
  <2>4. FileOwnership'
    BY <1>0, <1>14, FileKept DEF Lock!Released, Lock!TypeOK
  <2> QED
    BY <2>1, <2>2, <2>3, <2>4 DEF LockInv
<1> QED
  BY <1>1, <1>2, <1>3, <1>4, <1>5, <1>6, <1>7, <1>8, <1>9, <1>10, <1>11, <1>12, <1>13,
     <1>14
  DEF Lock!Next, Lock!Step

\* Whoever has a file lock holds the one lock of the file, alone, through one
\* object at a time; and a cancelled call leaves neither the object nor the file
\* locked (LockGivenBack: FileLock and what _acquire's thread does after its
\* caller is gone).
THEOREM LockIsGivenBack == Spec => []LockGivenBack
<1>1. Init => LockInv
  BY LockInit DEF Init
<1>2. LockInv /\ [Next]_vars => LockInv'
  BY LockStep, Moving
<1>3. LockInv => LockGivenBack
  BY ObjectAssumption DEF LockInv, Lock!TypeOK, LockStages, LockOwnership,
     FileOwnership, LockGivenBack, Lock!LockGivenBack, Owns, Locks
<1> QED
  BY <1>1, <1>2, <1>3, PTL DEF Spec

-----------------------------------------------------------------------------
(* Background jobs.                                                        *)

\* A job and the status that is said of it agree.
JobStates ==
    \A j \in Jobs :
        /\ states[j] = "none" <=> jobFuture[j] = "none"
        /\ j \in cancelling => jobFuture[j] # "none"

JobInv == Background!TypeOK /\ JobStates /\ Background!NotifiedOnce

LEMMA JobInit == Background!Init => JobInv
  BY DEF Background!Init, JobInv, Background!TypeOK, JobStates, Background!NotifiedOnce,
     Background!Ends, Background!Terminal

\* Whichever record comes first, it is the only one.
LEMMA RecordOnce ==
    ASSUME JobInv, NEW ended \in SUBSET Jobs, Background!Record(ended),
           UNCHANGED <<jobFuture, owner, delivered>>,
           \A j \in ended : jobFuture[j] # "none"  \/ states[j] # "running"
    PROVE  /\ states' \in [Jobs -> {"none", "running"} \cup Background!Terminal]
           /\ notifications' \in [Jobs -> Nat]
           /\ \A j \in Jobs : states'[j] = "none" <=> jobFuture[j] = "none"
           /\ Background!NotifiedOnce'
<1> USE DEF JobInv, Background!TypeOK, JobStates, Background!NotifiedOnce,
   Background!Ends, Background!Terminal, Background!Done, Background!StatusOf
<1>1. \A j \in Jobs :
        /\ states'[j] = IF j \in ended /\ states[j] = "running"
                        THEN IF Background!Done(j) THEN Background!StatusOf(jobFuture[j]) ELSE "cancelled"
                        ELSE states[j]
        /\ notifications'[j] =
              notifications[j] + IF j \in ended /\ states[j] = "running" THEN 1 ELSE 0
  BY DEF Background!Record
<1>2. states' \in [Jobs -> {"none", "running"} \cup Background!Terminal]
  BY DEF Background!Record
<1>3. notifications' \in [Jobs -> Nat]
  BY DEF Background!Record
<1>4. \A j \in Jobs : states'[j] = "none" <=> jobFuture[j] = "none"
  BY <1>1
<1>5. Background!NotifiedOnce'
  BY <1>1
<1> QED
  BY <1>2, <1>3, <1>4, <1>5

LEMMA JobStep == JobInv /\ [Background!Next]_(Background!vars) => JobInv'
<1> SUFFICES ASSUME JobInv, [Background!Next]_(Background!vars)
             PROVE  JobInv'
  OBVIOUS
<1> USE DEF JobInv, Background!TypeOK, JobStates, Background!NotifiedOnce,
   Background!Ends, Background!Terminal
<1>1. CASE UNCHANGED Background!vars
  BY <1>1 DEF Background!vars
<1>2. ASSUME NEW j \in Jobs, NEW s \in JobSessions, Background!Start(j, s)
      PROVE  JobInv'
  BY <1>2 DEF Background!Start
<1>3. ASSUME NEW j \in Jobs, Background!End(j)
      PROVE  JobInv'
  BY <1>3 DEF Background!End, Background!Live
<1>4. ASSUME NEW j \in Jobs, Background!Notice(j)
      PROVE  JobInv'
  BY <1>4, RecordOnce DEF Background!Notice, Background!Done
<1>5. ASSUME NEW j \in Jobs, Background!Cancel(j)
      PROVE  JobInv'
  <2>1. CASE Background!Done(j)
    BY <1>5, <2>1, RecordOnce DEF Background!Cancel, Background!Done
  <2>2. CASE ~Background!Done(j)
    BY <1>5, <2>2 DEF Background!Cancel, Background!Done
  <2> QED
    BY <2>1, <2>2
<1>6. ASSUME NEW j \in Jobs, Background!CancelEnds(j)
      PROVE  JobInv'
  BY <1>6, RecordOnce DEF Background!CancelEnds
<1>7. ASSUME NEW j \in Jobs, Background!CancelIsCancelled(j)
      PROVE  JobInv'
  BY <1>7 DEF Background!CancelIsCancelled
<1>8. ASSUME NEW s \in JobSessions, Background!Drain(s)
      PROVE  JobInv'
  BY <1>8 DEF Background!Drain, Background!Done, Background!StatusOf
<1>9. CASE Background!Close
  BY <1>9 DEF Background!Close, Background!Live
<1>10. CASE Background!CloseEnds
  BY <1>10, RecordOnce DEF Background!CloseEnds
<1>11. CASE Background!CloseIsCancelled
  BY <1>11 DEF Background!CloseIsCancelled
<1> QED
  BY <1>1, <1>2, <1>3, <1>4, <1>5, <1>6, <1>7, <1>8, <1>9, <1>10, <1>11 DEF
     Background!Next

\* However a job ends, and whichever of its end, its cancellation and the close
\* of the service comes first, its session is told once (NotifiedOnce: _record).
THEOREM JobsAreNotifiedOnce == Spec => []NotifiedOnce
<1>1. Init => JobInv
  BY JobInit DEF Init
<1>2. JobInv /\ [Next]_vars => JobInv'
  BY JobStep, Moving
<1>3. JobInv => NotifiedOnce
  BY DEF JobInv, NotifiedOnce
<1> QED
  BY <1>1, <1>2, <1>3, PTL DEF Spec

-----------------------------------------------------------------------------
(* Memory jobs.                                                            *)

QueueStages ==
    \A i \in Memory!Submissions :
        /\ submission[i] = "none" <=> i > tail
        /\ submission[i] \in {"none", "waiting"} => job[i] = "none" /\ events[i] = {}
        /\ submission[i] = "working" =>
               job[i] \in {"extract", "dream", "succeeded", "failed"}
        /\ submission[i] \in {"reporting", "over"} =>
              job[i] \in {"lingering", "succeeded", "failed"} /\ reported[i] # {}
        /\ submission[i] = "cancelled" => job[i] \notin Memory!Operations

\* What is yet to be reported of a job in its turn.
QueueEvents ==
    \A i \in Memory!Submissions : submission[i] = "working" =>
        /\ job[i] \in {"extract", "failed"} => events[i] = {}
        /\ job[i] \in {"dream", "succeeded"} => events[i] # {}

QueueOrder ==
    \A i, k \in Memory!Submissions :
        /\ i < k
        /\ job[k] # "none" \/ submission[k] \in Memory!Over
        => submission[i] \in Memory!Over

QueueInv == Memory!TypeOK /\ QueueStages /\ QueueEvents /\ QueueOrder

LEMMA QueueInit == Memory!Init => QueueInv
  BY BoundAssumption DEF Memory!Init, QueueInv, Memory!TypeOK, QueueStages, QueueEvents,
     QueueOrder, Memory!Submissions, Memory!Over, Memory!Operations

LEMMA QueueStep == QueueInv /\ [Memory!Next]_(Memory!vars) => QueueInv'
<1> SUFFICES ASSUME QueueInv, [Memory!Next]_(Memory!vars)
             PROVE  QueueInv'
  OBVIOUS
<1> USE BoundAssumption DEF Memory!Submissions, Memory!Over, Memory!Operations
<1>0. Memory!TypeOK /\ QueueStages /\ QueueEvents /\ QueueOrder
  BY DEF QueueInv
<1>1. CASE UNCHANGED Memory!vars
  BY <1>0, <1>1 DEF Memory!vars, QueueInv, Memory!TypeOK, QueueStages, QueueEvents,
     QueueOrder
<1>2. CASE Memory!Submit
  <2>1. Memory!TypeOK'
    BY <1>0, <1>2 DEF Memory!Submit, Memory!TypeOK
  <2>2. QueueStages'
    BY <1>0, <1>2 DEF Memory!Submit, Memory!TypeOK, QueueStages, QueueEvents
  <2>3. QueueEvents'
    BY <1>0, <1>2 DEF Memory!Submit, Memory!TypeOK, QueueStages, QueueEvents
  <2>4. QueueOrder'
    BY <1>0, <1>2 DEF Memory!Submit, Memory!TypeOK, QueueStages, QueueOrder
  <2> QED
    BY <2>1, <2>2, <2>3, <2>4 DEF QueueInv
<1>3. ASSUME NEW i \in Memory!Submissions, Memory!Start(i)
      PROVE  QueueInv'
  <2>1. Memory!TypeOK'
    BY <1>0, <1>3 DEF Memory!Start, Memory!Begin, Memory!TypeOK
  <2>2. QueueStages'
    BY <1>0, <1>3 DEF Memory!Start, Memory!Begin, Memory!TypeOK, QueueStages,
       QueueEvents
  <2>3. QueueEvents'
    BY <1>0, <1>3 DEF Memory!Start, Memory!Begin, Memory!TypeOK, QueueStages,
       QueueEvents
  <2>4. QueueOrder'
    <3>1. \A j \in Memory!Submissions : j < i => submission[j] \in Memory!Over
      <4>1. ASSUME NEW j \in Memory!Submissions, j < i
            PROVE  submission[j] \in Memory!Over
        <5>1. i - 1 \in Memory!Submissions /\ submission[i - 1] \in Memory!Over
          BY <1>3, <4>1 DEF Memory!Start
        <5>2. j = i - 1 \/ j < i - 1
          BY <4>1
        <5> QED
          BY <1>0, <4>1, <5>1, <5>2 DEF QueueOrder
      <4> QED
        BY <4>1
    <3> QED
      BY <1>0, <1>3, <3>1 DEF Memory!Start, Memory!Begin, Memory!TypeOK, QueueStages,
         QueueOrder
  <2> QED
    BY <2>1, <2>2, <2>3, <2>4 DEF QueueInv
<1>4. ASSUME NEW i \in Memory!Submissions, Memory!Extract(i)
      PROVE  QueueInv'
  <2>1. Memory!TypeOK'
    BY <1>0, <1>4 DEF Memory!Extract, Memory!TypeOK
  <2>2. QueueStages'
    BY <1>0, <1>4 DEF Memory!Extract, Memory!TypeOK, QueueStages, QueueEvents
  <2>3. QueueEvents'
    BY <1>0, <1>4 DEF Memory!Extract, Memory!TypeOK, QueueStages, QueueEvents
  <2>4. QueueOrder'
    BY <1>0, <1>4 DEF Memory!Extract, Memory!TypeOK, QueueStages, QueueOrder
  <2> QED
    BY <2>1, <2>2, <2>3, <2>4 DEF QueueInv
<1>5. ASSUME NEW i \in Memory!Submissions, Memory!ExtractFails(i)
      PROVE  QueueInv'
  <2>1. Memory!TypeOK'
    BY <1>0, <1>5 DEF Memory!ExtractFails, Memory!TypeOK
  <2>2. QueueStages'
    BY <1>0, <1>5 DEF Memory!ExtractFails, Memory!TypeOK, QueueStages, QueueEvents
  <2>3. QueueEvents'
    BY <1>0, <1>5 DEF Memory!ExtractFails, Memory!TypeOK, QueueStages, QueueEvents
  <2>4. QueueOrder'
    BY <1>0, <1>5 DEF Memory!ExtractFails, Memory!TypeOK, QueueStages, QueueOrder
  <2> QED
    BY <2>1, <2>2, <2>3, <2>4 DEF QueueInv
<1>6. ASSUME NEW i \in Memory!Submissions, Memory!Dream(i)
      PROVE  QueueInv'
  <2>1. Memory!TypeOK'
    BY <1>0, <1>6 DEF Memory!Dream, Memory!TypeOK
  <2>2. QueueStages'
    BY <1>0, <1>6 DEF Memory!Dream, Memory!TypeOK, QueueStages, QueueEvents
  <2>3. QueueEvents'
    BY <1>0, <1>6 DEF Memory!Dream, Memory!TypeOK, QueueStages, QueueEvents
  <2>4. QueueOrder'
    BY <1>0, <1>6 DEF Memory!Dream, Memory!TypeOK, QueueStages, QueueOrder
  <2> QED
    BY <2>1, <2>2, <2>3, <2>4 DEF QueueInv
<1>7. ASSUME NEW i \in Memory!Submissions, Memory!Finish(i)
      PROVE  QueueInv'
  <2>1. Memory!TypeOK'
    BY <1>0, <1>7 DEF Memory!Finish, Memory!TypeOK
  <2>2. QueueStages'
    <3>1. reported'[i] # {}
      <4>1. CASE job[i] = "failed"
        BY <1>0, <1>7, <4>1 DEF Memory!Finish, Memory!TypeOK, QueueEvents
      <4>2. CASE job[i] # "failed"
        <5>1. PICK e \in events[i] : TRUE
          BY <1>0, <1>7, <4>2 DEF Memory!Finish, Memory!TypeOK, QueueEvents
        <5>2. <<e, "event">> \in reported'[i]
          BY <1>0, <1>7, <4>2, <5>1 DEF Memory!Finish, Memory!TypeOK
        <5> QED
          BY <5>2
      <4> QED
        BY <4>1, <4>2
    <3> QED
      BY <1>0, <1>7, <3>1 DEF Memory!Finish, Memory!TypeOK, QueueStages
  <2>3. QueueEvents'
    BY <1>0, <1>7 DEF Memory!Finish, Memory!TypeOK, QueueStages, QueueEvents
  <2>4. QueueOrder'
    BY <1>0, <1>7 DEF Memory!Finish, Memory!TypeOK, QueueStages, QueueOrder
  <2> QED
    BY <2>1, <2>2, <2>3, <2>4 DEF QueueInv
<1>8. ASSUME NEW i \in Memory!Submissions, Memory!TimeOut(i)
      PROVE  QueueInv'
  <2>1. Memory!TypeOK'
    BY <1>0, <1>8 DEF Memory!TimeOut, Memory!Operation, Memory!TypeOK
  <2>2. QueueStages'
    BY <1>0, <1>8 DEF Memory!TimeOut, Memory!Operation, Memory!TypeOK, QueueStages,
       QueueEvents
  <2>3. QueueEvents'
    BY <1>0, <1>8 DEF Memory!TimeOut, Memory!Operation, Memory!TypeOK, QueueStages,
       QueueEvents
  <2>4. QueueOrder'
    BY <1>0, <1>8 DEF Memory!TimeOut, Memory!Operation, Memory!TypeOK, QueueStages,
       QueueOrder
  <2> QED
    BY <2>1, <2>2, <2>3, <2>4 DEF QueueInv
<1>9. ASSUME NEW i \in Memory!Submissions, Memory!Report(i)
      PROVE  QueueInv'
  <2>1. Memory!TypeOK'
    BY <1>0, <1>9 DEF Memory!Report, Memory!TypeOK
  <2>2. QueueStages'
    BY <1>0, <1>9 DEF Memory!Report, Memory!TypeOK, QueueStages, QueueEvents
  <2>3. QueueEvents'
    BY <1>0, <1>9 DEF Memory!Report, Memory!TypeOK, QueueStages, QueueEvents
  <2>4. QueueOrder'
    BY <1>0, <1>9 DEF Memory!Report, Memory!TypeOK, QueueStages, QueueOrder
  <2> QED
    BY <2>1, <2>2, <2>3, <2>4 DEF QueueInv
<1>10. ASSUME NEW i \in Memory!Submissions, Memory!Linger(i)
      PROVE  QueueInv'
  <2>1. Memory!TypeOK'
    BY <1>0, <1>10 DEF Memory!Linger, Memory!TypeOK
  <2>2. QueueStages'
    BY <1>0, <1>10 DEF Memory!Linger, Memory!TypeOK, QueueStages, QueueEvents
  <2>3. QueueEvents'
    BY <1>0, <1>10 DEF Memory!Linger, Memory!TypeOK, QueueStages, QueueEvents
  <2>4. QueueOrder'
    BY <1>0, <1>10 DEF Memory!Linger, Memory!TypeOK, QueueStages, QueueOrder
  <2> QED
    BY <2>1, <2>2, <2>3, <2>4 DEF QueueInv
<1>11. CASE Memory!Close
  <2>1. Memory!TypeOK'
    BY <1>0, <1>11 DEF Memory!Close, Memory!TypeOK
  <2>2. QueueStages'
    BY <1>0, <1>11 DEF Memory!Close, Memory!TypeOK, QueueStages, QueueEvents
  <2>3. QueueEvents'
    BY <1>0, <1>11 DEF Memory!Close, Memory!TypeOK, QueueStages, QueueEvents
  <2>4. QueueOrder'
    BY <1>0, <1>11 DEF Memory!Close, Memory!TypeOK, QueueStages, QueueOrder
  <2> QED
    BY <2>1, <2>2, <2>3, <2>4 DEF QueueInv
<1>12. CASE Memory!CloseEnds
  <2>1. Memory!TypeOK'
    BY <1>0, <1>12 DEF Memory!CloseEnds, Memory!TypeOK
  <2>2. QueueStages'
    BY <1>0, <1>12 DEF Memory!CloseEnds, Memory!TypeOK, QueueStages, QueueEvents
  <2>3. QueueEvents'
    BY <1>0, <1>12 DEF Memory!CloseEnds, Memory!TypeOK, QueueStages, QueueEvents
  <2>4. QueueOrder'
    BY <1>0, <1>12 DEF Memory!CloseEnds, Memory!TypeOK, QueueStages, QueueOrder
  <2> QED
    BY <2>1, <2>2, <2>3, <2>4 DEF QueueInv
<1> QED
  BY <1>1, <1>2, <1>3, <1>4, <1>5, <1>6, <1>7, <1>8, <1>9, <1>10, <1>11, <1>12 DEF
     Memory!Next

LEMMA QueueSerial == QueueInv => Memory!SerialInOrder
<1> SUFFICES ASSUME QueueInv
             PROVE  Memory!SerialInOrder
  OBVIOUS
<1> USE BoundAssumption DEF Memory!Submissions, Memory!Over, Memory!Operations
<1>1. Memory!TypeOK /\ QueueStages /\ QueueEvents /\ QueueOrder
  BY DEF QueueInv
<1>3. \A i, k \in Memory!Submissions : {job[i], job[k]} \subseteq Memory!Operations =>
          i = k
  BY <1>1 DEF Memory!TypeOK, QueueStages, QueueOrder
<1>4. \A i, k \in Memory!Submissions : i < k /\ job[k] # "none" =>
          submission[i] \in Memory!Over
  BY <1>1 DEF QueueOrder
<1>5. \A i \in Memory!Submissions : submission[i] = "over" => reported[i] # {}
  BY <1>1 DEF QueueStages
<1> QED
  BY <1>3, <1>4, <1>5 DEF Memory!SerialInOrder

\* One memory job works at a time, in the order of submission, and each job that
\* is over has been reported (SerialInOrder: MemoryService.submit and _run).
THEOREM MemoryIsSerial == Spec => []SerialInOrder
<1>1. Init => QueueInv
  BY QueueInit DEF Init
<1>2. QueueInv /\ [Next]_vars => QueueInv'
  BY QueueStep, Moving
<1>3. QueueInv => SerialInOrder
  BY QueueSerial DEF SerialInOrder
<1> QED
  BY <1>1, <1>2, <1>3, PTL DEF Spec

-----------------------------------------------------------------------------
(* Protocols.                                                              *)

\* The type, by who reads what.
BookType ==
    /\ asking \in [Requests -> {"new", "returned", "raised"} \cup Protocol!InFlight]
    /\ outcome \in [Requests -> {"none", "pending"} \cup Protocol!Outcomes]
    /\ pending \subseteq Requests
    /\ timers \in [Requests -> Nat]
    /\ armed \subseteq Requests
LifeType ==
    /\ manager \in 0..MaxShutdowns
    /\ issuer \in [Requests -> 0..MaxShutdowns]
    /\ limited \subseteq Requests
    /\ shutdown \in {"no", "draining"}
    /\ shutdown = "draining" => manager < MaxShutdowns
AnswerType == answer \in [Responses -> Protocol!AnswerStates]
MailType ==
    /\ responding \subseteq Requests
    /\ mailbox \subseteq (Requests \X ({"request"} \cup Protocol!Verdicts))

\* A request is in the book from its beginning, and a timer is set when the call
\* has returned.
AskingAgrees ==
    \A r \in Requests :
        /\ asking[r] = "new" <=> outcome[r] = "none"
        /\ r \in armed => asking[r] = "returned"

\* An answer that stopped a timer has it for itself.
PausedAlone ==
    \A a \in Responses : answer[a].at \in Protocol!InFlight /\ answer[a].paused =>
        asking[answer[a].to] = "returned" /\ answer[a].to \notin armed

Claims(a) == answer[a].at \in Protocol!InFlight \cup {"accepted"}

\* Which answers there are to a request.
AnswersBelong ==
    /\ \A a \in Responses : answer[a].at # "new" => answer[a].to \in Requests
    /\ \A a \in Responses : answer[a].at \in Protocol!InFlight =>
           answer[a].to \in responding
    /\ \A a, b \in Responses : answer[a].to = answer[b].to /\ Claims(a) /\ Claims(b) =>
           a = b

AnswersHold ==
    /\ \A a \in Responses : answer[a].at \in {"announced", "accepted"} =>
          <<answer[a].to, answer[a].verdict>> \in mailbox
    /\ \A a \in Responses : answer[a].at = "accepted" =>
          outcome[answer[a].to] = answer[a].verdict
    /\ \A r \in Requests : outcome[r] \in Protocol!Verdicts =>
          \E a \in Responses : answer[a].at = "accepted" /\ answer[a].to = r

ProtocolInv ==
    /\ BookType /\ LifeType /\ AnswerType /\ MailType
    /\ Protocol!BookAgrees /\ AskingAgrees /\ PausedAlone /\ AnswersBelong
    /\ AnswersHold

LEMMA Staged ==
    ASSUME NEW Stages, NEW Whom, NEW Says,
           NEW given \in [at : Stages, to : Whom, verdict : Says, paused : BOOLEAN],
           NEW next \in Stages
    PROVE  [given EXCEPT !.at = next] \in [at : Stages, to : Whom, verdict : Says, paused : BOOLEAN]
  OBVIOUS
LEMMA AnswerMoves ==
    ASSUME AnswerType, NEW a \in Responses,
           NEW next \in {"accepted", "too late", "failed", "announced"},
           answer' = [answer EXCEPT ![a].at = next]
    PROVE  /\ AnswerType'
           /\ \A b \in Responses \ {a} : answer'[b] = answer[b]
           /\ answer'[a].at = next
           /\ answer'[a].to = answer[a].to
           /\ answer'[a].verdict = answer[a].verdict
           /\ answer'[a].paused = answer[a].paused
<1> DEFINE Stages == {"new", "accepted", "too late", "failed", "cancelled"} \cup Protocol!InFlight
<1>1. answer'[a] = [answer[a] EXCEPT !.at = next] /\ \A b \in Responses \ {a} :
          answer'[b] = answer[b]
  BY DEF AnswerType
<1>2. answer[a] \in Protocol!AnswerStates
  BY DEF AnswerType
<1>3. next \in Stages
  BY DEF Protocol!InFlight
<1> HIDE DEF Stages
<1>4. [answer[a] EXCEPT !.at = next] \in Protocol!AnswerStates
  BY <1>2, <1>3, Staged DEF Protocol!AnswerStates, Stages
<1>5. AnswerType'
  BY <1>1, <1>4 DEF AnswerType
<1>7. /\ answer'[a].at = next
      /\ answer'[a].to = answer[a].to
      /\ answer'[a].verdict = answer[a].verdict
      /\ answer'[a].paused = answer[a].paused
  BY <1>1, <1>2 DEF Protocol!AnswerStates
<1> QED
  BY <1>1, <1>5, <1>7
LEMMA ProtocolInit == Protocol!Init => ProtocolInv
<1> SUFFICES ASSUME Protocol!Init
             PROVE  ProtocolInv
  OBVIOUS
<1> USE BoundAssumption DEF Protocol!Init, Protocol!Verdicts, Protocol!Outcomes,
   Protocol!InFlight
<1>1. BookType /\ LifeType /\ MailType
  BY DEF BookType, LifeType, MailType
<1>2. AnswerType /\ \A a \in Responses : answer[a].at = "new"
  BY DEF AnswerType, Protocol!AnswerStates
<1>3. Protocol!BookAgrees /\ AskingAgrees
  BY DEF Protocol!BookAgrees, AskingAgrees
<1>4. PausedAlone /\ AnswersBelong /\ AnswersHold
  BY <1>2 DEF PausedAlone, AnswersBelong, AnswersHold, Claims
<1> QED
  BY <1>1, <1>2, <1>3, <1>4 DEF ProtocolInv


Alone == /\ PausedAlone /\ AnswersBelong /\ AnswersHold
Book == BookType /\ Protocol!BookAgrees /\ AskingAgrees

LEMMA Given ==
    ASSUME NEW Stages, NEW Whom, NEW Says,
           NEW now \in Stages, NEW whom \in Whom, NEW says \in Says, NEW stopped \in BOOLEAN
    PROVE  [at |-> now, to |-> whom, verdict |-> says, paused |-> stopped]
              \in [at : Stages, to : Whom, verdict : Says, paused : BOOLEAN]
  OBVIOUS

\* An answer goes on, and keeps its claim or gives it up.
LEMMA ClaimsKept ==
    ASSUME AnswersBelong, NEW a \in Responses, answer[a].at \in Protocol!InFlight,
           \A b \in Responses \ {a} : answer'[b] = answer[b],
           answer'[a].to = answer[a].to,
           responding' \in {responding, responding \ {answer[a].to}},
           answer'[a].at \in Protocol!InFlight => responding' = responding
    PROVE  AnswersBelong'
<1>1. \A b \in Responses : answer'[b].at # "new" => answer'[b].to \in Requests
  BY DEF AnswersBelong, Protocol!InFlight
<1>2. \A b \in Responses \ {a} : answer[b].at \in Protocol!InFlight =>
          answer[b].to # answer[a].to
  BY DEF AnswersBelong, Claims
<1>3. \A b \in Responses : answer'[b].at \in Protocol!InFlight =>
          answer'[b].to \in responding'
  BY <1>2 DEF AnswersBelong
<1>4. \A b \in Responses : Claims(b)' => Claims(b) /\ answer'[b].to = answer[b].to
  BY DEF Claims
<1> QED
  BY <1>1, <1>3, <1>4 DEF AnswersBelong

LEMMA HoldKept ==
    ASSUME AnswersHold, NEW a \in Responses, answer[a].at \in Protocol!InFlight,
           answer'[a].at \notin {"announced", "accepted"},
           \A b \in Responses \ {a} : answer'[b] = answer[b],
           mailbox' = mailbox, outcome' = outcome
    PROVE  AnswersHold'
<1>1. \A b \in Responses : answer'[b].at = "accepted" <=> answer[b].at = "accepted"
  BY DEF Protocol!InFlight
<1> QED
  BY <1>1 DEF AnswersHold

\* What happens to the book alone leaves the answers as they are.
LEMMA AnswersStay ==
    ASSUME AnswerType, Alone,
           answer' = answer, responding' = responding, mailbox \subseteq mailbox',
           \A r \in Requests :
              /\ outcome'[r] # outcome[r] =>
                     outcome[r] \notin Protocol!Verdicts /\ outcome'[r] \notin Protocol!Verdicts
              /\ asking[r] = "returned" => asking'[r] = "returned"
              /\ r \in armed' => r \in armed \/ asking[r] # "returned"
    PROVE  Alone'
<1>1. PausedAlone'
  BY DEF Alone, PausedAlone, AnswersBelong, Protocol!InFlight
<1>2. AnswersBelong'
  BY DEF Alone, AnswersBelong, Claims
<1>a. \A a \in Responses : answer[a].verdict \in Protocol!Verdicts
  BY DEF AnswerType, Protocol!AnswerStates
<1>b. ASSUME NEW a \in Responses, answer[a].at = "accepted"
      PROVE  outcome'[answer[a].to] = answer[a].verdict
  BY <1>a, <1>b DEF Alone, AnswersHold, AnswersBelong
<1>3. /\ \A a \in Responses : answer'[a].at = "accepted" =>
             outcome'[answer'[a].to] = answer'[a].verdict
      /\ \A a \in Responses : answer'[a].at \in {"announced", "accepted"} =>
            <<answer'[a].to, answer'[a].verdict>> \in mailbox'
  BY <1>b DEF Alone, AnswersHold
<1>4. ASSUME NEW r \in Requests, outcome'[r] \in Protocol!Verdicts
      PROVE  \E a \in Responses : answer'[a].at = "accepted" /\ answer'[a].to = r
  BY <1>4 DEF Alone, AnswersHold
<1> QED
  BY <1>1, <1>2, <1>3, <1>4 DEF Alone, AnswersHold

\* The steps of the book: a request that is settled, and one whose timer is set.
LEMMA Settles ==
    ASSUME BookType, Protocol!BookAgrees, NEW r \in Requests, r \in pending,
           NEW end \in Protocol!Outcomes, Protocol!Settle(r, end)
    PROVE  /\ outcome' \in [Requests -> {"none", "pending"} \cup Protocol!Outcomes]
           /\ timers' \in [Requests -> Nat]
           /\ pending' \subseteq Requests
           /\ armed' \subseteq Requests
           /\ Protocol!BookAgrees'
           /\ outcome'[r] = end
           /\ r \notin pending' /\ r \notin armed'
           /\ \A q \in Requests \ {r} : outcome'[q] = outcome[q]
           /\ armed' \subseteq armed
<1>1. /\ outcome' \in [Requests -> {"none", "pending"} \cup Protocol!Outcomes]
      /\ outcome'[r] = end
      /\ \A q \in Requests \ {r} : outcome'[q] = outcome[q]
  BY DEF Protocol!Settle, BookType
<1>2. /\ pending' = pending \ {r} /\ armed' = armed \ {r}
  BY DEF Protocol!Settle
<1>3. timers[r] = IF r \in armed THEN 1 ELSE 0
  BY DEF Protocol!BookAgrees
<1>4. /\ timers'[r] = 0
      /\ \A q \in Requests \ {r} : timers'[q] = timers[q]
      /\ timers' \in [Requests -> Nat]
  BY <1>3 DEF Protocol!Settle, BookType
<1>5. end # "pending"
  BY DEF Protocol!Outcomes, Protocol!Verdicts
<1>6. Protocol!BookAgrees'
  BY <1>1, <1>2, <1>4, <1>5 DEF Protocol!BookAgrees, BookType
<1> QED
  BY <1>1, <1>2, <1>4, <1>6 DEF BookType

LEMMA Arms ==
    ASSUME BookType, Protocol!BookAgrees, NEW r \in Requests, r \notin armed,
           Protocol!Arm(r)
    PROVE  /\ timers' \in [Requests -> Nat]
           /\ armed' \subseteq armed \cup {r}
           /\ Protocol!BookAgrees'
           /\ outcome' = outcome /\ pending' = pending
<1>1. CASE r \in pending
  <2>1. /\ armed' = armed \cup {r}
        /\ outcome' = outcome /\ pending' = pending
    BY <1>1 DEF Protocol!Arm
  <2>2. timers[r] = 0
    BY DEF Protocol!BookAgrees
  <2>3. /\ timers'[r] = 1
        /\ \A q \in Requests \ {r} : timers'[q] = timers[q]
        /\ timers' \in [Requests -> Nat]
    BY <1>1, <2>2 DEF Protocol!Arm, BookType
  <2>4. Protocol!BookAgrees'
    BY <1>1, <2>1, <2>3 DEF Protocol!BookAgrees, BookType
  <2> QED
    BY <2>1, <2>3, <2>4
<1>2. CASE r \notin pending
  BY <1>2 DEF Protocol!Arm, Protocol!BookAgrees, BookType
<1> QED
  BY <1>1, <1>2

LEMMA ProtocolStep == ProtocolInv /\ [Protocol!Next]_(Protocol!vars) => ProtocolInv'
<1> SUFFICES ASSUME ProtocolInv, [Protocol!Next]_(Protocol!vars)
             PROVE  ProtocolInv'
  OBVIOUS
<1> USE BoundAssumption
<1>0. /\ BookType /\ LifeType /\ AnswerType /\ MailType
      /\ Protocol!BookAgrees /\ AskingAgrees /\ Alone /\ PausedAlone /\ AnswersBelong
      /\ AnswersHold
  BY DEF ProtocolInv, Alone
<1>a. BookType' /\ LifeType' /\ AnswerType' /\ MailType' /\ Protocol!BookAgrees' /\ AskingAgrees' /\ Alone'
      => ProtocolInv'
  BY DEF ProtocolInv, Alone
<1>1. CASE UNCHANGED Protocol!vars
  <2> USE <1>1 DEF Protocol!vars
  <2>1. BookType' /\ LifeType' /\ AnswerType' /\ MailType'
    BY <1>0 DEF BookType, LifeType, AnswerType, MailType
  <2>2. Protocol!BookAgrees' /\ AskingAgrees'
    BY <1>0 DEF Protocol!BookAgrees, AskingAgrees
  <2>3. Alone'
    BY <1>0 DEF Alone, PausedAlone, AnswersBelong, Claims, AnswersHold
  <2> QED
    BY <1>a, <2>1, <2>2, <2>3
<1>2. ASSUME NEW r \in Requests, Protocol!Ask(r)
      PROVE  ProtocolInv'
  <2> USE <1>2 DEF Protocol!Ask
  <2>1. BookType'
    BY <1>0 DEF BookType, Protocol!InFlight
  <2>2. LifeType' /\ AnswerType' /\ MailType'
    BY <1>0 DEF LifeType, AnswerType, MailType
  <2>3. timers' = timers /\ armed' = armed /\ r \notin armed
    BY <1>0 DEF AskingAgrees
  <2>4. Protocol!BookAgrees'
    BY <1>0, <2>3 DEF BookType, Protocol!BookAgrees
  <2>5. AskingAgrees'
    BY <1>0, <2>3 DEF BookType, AskingAgrees
  <2>6. /\ answer' = answer /\ responding' = responding /\ mailbox' = mailbox
        /\ \A q \in Requests \ {r} : outcome'[q] = outcome[q] /\ asking'[q] = asking[q]
        /\ outcome[r] = "none" /\ outcome'[r] = "pending" /\ asking[r] = "new"
    BY <1>0 DEF BookType, AskingAgrees
  <2>7. Alone'
    BY <1>0, <2>3, <2>6, AnswersStay DEF Protocol!Verdicts
  <2> QED
    BY <1>a, <2>1, <2>2, <2>4, <2>5, <2>7
<1>3. ASSUME NEW r \in Requests, Protocol!RequestPosted(r)
      PROVE  ProtocolInv'
  <2> USE <1>3 DEF Protocol!RequestPosted, Protocol!bookkeeping, Protocol!lifetime
  <2>1. BookType'
    BY <1>0 DEF BookType, Protocol!InFlight
  <2>2. LifeType' /\ AnswerType' /\ MailType'
    BY <1>0 DEF LifeType, AnswerType, MailType
  <2>3. Protocol!BookAgrees'
    BY <1>0 DEF Protocol!BookAgrees
  <2>4. AskingAgrees'
    BY <1>0 DEF BookType, AskingAgrees
  <2>5. /\ answer' = answer /\ responding' = responding /\ mailbox \subseteq mailbox'
        /\ outcome' = outcome /\ armed' = armed
        /\ \A q \in Requests : asking[q] = "returned" => asking'[q] = "returned"
    BY <1>0 DEF BookType
  <2>6. Alone'
    BY <1>0, <2>5, AnswersStay
  <2> QED
    BY <1>a, <2>1, <2>2, <2>3, <2>4, <2>6
<1>4. ASSUME NEW r \in Requests, Protocol!AskFails(r)
      PROVE  ProtocolInv'
  <2>1. /\ asking' = [asking EXCEPT ![r] = "raised"]
        /\ asking[r] # "returned" /\ asking[r] # "new"
        /\ UNCHANGED Protocol!lifetime /\ answer' = answer /\ responding' = responding
        /\ mailbox' = mailbox
    BY <1>4 DEF Protocol!AskFails, Protocol!InFlight
  <2>2. LifeType' /\ AnswerType' /\ MailType'
    BY <1>0, <2>1 DEF LifeType, AnswerType, MailType, Protocol!lifetime
  <2>3. /\ asking' \in [Requests -> {"new", "returned", "raised"} \cup Protocol!InFlight]
        /\ asking'[r] = "raised"
        /\ \A q \in Requests \ {r} : asking'[q] = asking[q]
    BY <1>0, <2>1 DEF BookType
  <2>4. CASE r \in pending
    <3>1. Protocol!Settle(r, "cancelled")
      BY <1>4, <2>4 DEF Protocol!AskFails
    <3>2. "cancelled" \in Protocol!Outcomes /\ "cancelled" # "none" /\ "cancelled" \notin Protocol!Verdicts
      BY DEF Protocol!Outcomes, Protocol!Verdicts
    <3>3. /\ outcome' \in [Requests -> {"none", "pending"} \cup Protocol!Outcomes]
          /\ timers' \in [Requests -> Nat]
          /\ pending' \subseteq Requests
          /\ armed' \subseteq Requests
          /\ Protocol!BookAgrees'
          /\ outcome'[r] = "cancelled"
          /\ r \notin armed'
          /\ \A q \in Requests \ {r} : outcome'[q] = outcome[q]
          /\ armed' \subseteq armed
      BY <1>0, <2>4, <3>1, <3>2, Settles
    <3>4. BookType'
      BY <2>3, <3>3 DEF BookType
    <3>5. AskingAgrees'
      BY <1>0, <2>1, <2>3, <3>2, <3>3 DEF AskingAgrees
    <3>6. outcome[r] = "pending" /\ "pending" \notin Protocol!Verdicts
      BY <1>0, <2>4 DEF Protocol!BookAgrees, Protocol!Verdicts
    <3>7. Alone'
      BY <1>0, <2>1, <2>3, <3>2, <3>3, <3>6, AnswersStay
    <3> QED
      BY <1>a, <2>2, <3>3, <3>4, <3>5, <3>7
  <2>5. CASE r \notin pending
    <3>1. UNCHANGED Protocol!bookkeeping
      BY <1>4, <2>5 DEF Protocol!AskFails
    <3>2. BookType' /\ Protocol!BookAgrees'
      BY <1>0, <2>3, <3>1 DEF BookType, Protocol!BookAgrees, Protocol!bookkeeping
    <3>3. AskingAgrees'
      BY <1>0, <2>1, <2>3, <3>1 DEF AskingAgrees, Protocol!bookkeeping
    <3>4. Alone'
      BY <1>0, <2>1, <2>3, <3>1, AnswersStay DEF Protocol!bookkeeping
    <3> QED
      BY <1>a, <2>2, <3>2, <3>3, <3>4
  <2> QED
    BY <2>4, <2>5
<1>5. ASSUME NEW r \in Requests, Protocol!Asked(r)
      PROVE  ProtocolInv'
  <2>1. /\ asking' = [asking EXCEPT ![r] = "returned"]
        /\ asking[r] # "returned" /\ asking[r] # "new"
        /\ UNCHANGED Protocol!lifetime /\ answer' = answer /\ responding' = responding
        /\ mailbox' = mailbox
    BY <1>5 DEF Protocol!Asked
  <2>2. LifeType' /\ AnswerType' /\ MailType'
    BY <1>0, <2>1 DEF LifeType, AnswerType, MailType, Protocol!lifetime
  <2>3. /\ asking' \in [Requests -> {"new", "returned", "raised"} \cup Protocol!InFlight]
        /\ asking'[r] = "returned"
        /\ \A q \in Requests \ {r} : asking'[q] = asking[q]
    BY <1>0, <2>1 DEF BookType
  <2>4. r \notin armed
    BY <1>0, <2>1 DEF AskingAgrees
  <2>5. /\ timers' \in [Requests -> Nat]
        /\ armed' \subseteq armed \cup {r}
        /\ Protocol!BookAgrees'
        /\ outcome' = outcome /\ pending' = pending
    <3>1. CASE Protocol!Arm(r)
      BY <1>0, <2>4, <3>1, Arms
    <3>2. CASE UNCHANGED Protocol!bookkeeping
      BY <1>0, <3>2 DEF Protocol!bookkeeping, BookType, Protocol!BookAgrees
    <3> QED
      BY <1>5, <3>1, <3>2 DEF Protocol!Asked
  <2>6. BookType'
    BY <1>0, <2>3, <2>5 DEF BookType
  <2>7. AskingAgrees'
    BY <1>0, <2>1, <2>3, <2>5 DEF AskingAgrees
  <2>8. Alone'
    BY <1>0, <2>1, <2>3, <2>5, AnswersStay
  <2> QED
    BY <1>a, <2>2, <2>5, <2>6, <2>7, <2>8
<1>6. ASSUME NEW r \in Requests, Protocol!Expire(r)
      PROVE  ProtocolInv'
  <2>1. r \in armed /\ r \in pending /\ outcome[r] = "pending" /\ timers[r] = 1
    <3>1. timers[r] > 0 /\ timers[r] = IF r \in armed THEN 1 ELSE 0
      BY <1>0, <1>6 DEF Protocol!Expire, Protocol!BookAgrees
    <3> QED
      BY <1>0, <3>1 DEF Protocol!BookAgrees
  <2>2. Protocol!Settle(r, "timed out")
    BY <1>6, <2>1 DEF Protocol!Expire, Protocol!Settle
  <2>3. UNCHANGED Protocol!lifetime /\ answer' = answer /\ responding' = responding /\ mailbox' = mailbox /\ asking' = asking
    BY <1>6 DEF Protocol!Expire
  <2>4. LifeType' /\ AnswerType' /\ MailType'
    BY <1>0, <2>3 DEF LifeType, AnswerType, MailType, Protocol!lifetime
  <2>5. "timed out" \in Protocol!Outcomes /\ "timed out" # "none" /\ "timed out" \notin Protocol!Verdicts /\ "pending" \notin Protocol!Verdicts
    BY DEF Protocol!Outcomes, Protocol!Verdicts
  <2>6. /\ outcome' \in [Requests -> {"none", "pending"} \cup Protocol!Outcomes]
        /\ timers' \in [Requests -> Nat]
        /\ pending' \subseteq Requests
        /\ armed' \subseteq Requests
        /\ Protocol!BookAgrees'
        /\ outcome'[r] = "timed out"
        /\ \A q \in Requests \ {r} : outcome'[q] = outcome[q]
        /\ armed' \subseteq armed
    BY <1>0, <2>1, <2>2, <2>5, Settles
  <2>7. BookType'
    BY <1>0, <2>3, <2>6 DEF BookType
  <2>8. AskingAgrees'
    BY <1>0, <2>1, <2>3, <2>5, <2>6 DEF AskingAgrees
  <2>9. Alone'
    BY <1>0, <2>1, <2>3, <2>5, <2>6, AnswersStay
  <2> QED
    BY <1>a, <2>4, <2>6, <2>7, <2>8, <2>9
<1>12. CASE Protocol!ShutdownClears
  <2> DEFINE held == {r \in pending : issuer[r] = manager}
  <2>1. /\ UNCHANGED <<asking, manager, issuer, limited, responding, answer, mailbox>>
        /\ shutdown' = "draining" /\ manager < MaxShutdowns
        /\ armed' = armed \ held /\ pending' = pending \ held
    BY <1>12 DEF Protocol!ShutdownClears
  <2>2. LifeType' /\ AnswerType' /\ MailType'
    BY <1>0, <2>1 DEF LifeType, AnswerType, MailType
  <2>3. /\ \A r \in Requests :
               outcome'[r] = IF r \in held THEN "cancelled" ELSE outcome[r]
        /\ outcome' \in [Requests -> {"none", "pending"} \cup Protocol!Outcomes]
    BY <1>0, <1>12 DEF Protocol!ShutdownClears, BookType, Protocol!Outcomes
  <2>4. \A r \in Requests :
            timers'[r] = IF r \in held /\ r \in armed THEN timers[r] - 1 ELSE timers[r]
    BY <1>12 DEF Protocol!ShutdownClears
  <2>5. \A r \in Requests : r \in held => r \in pending /\ outcome[r] = "pending"
    BY <1>0 DEF Protocol!BookAgrees
  <2>6. \A r \in Requests : r \in held /\ r \in armed => timers[r] = 1
    BY <1>0 DEF Protocol!BookAgrees
  <2>t. timers' = [r \in Requests |-> timers'[r]]
    BY <1>12 DEF Protocol!ShutdownClears
  <2> HIDE DEF held
  <2>7. timers' \in [Requests -> Nat]
    BY <1>0, <2>4, <2>6, <2>t DEF BookType
  <2>8. BookType'
    BY <1>0, <2>1, <2>3, <2>7 DEF BookType
  <2>9. Protocol!BookAgrees'
    BY <1>0, <2>1, <2>3, <2>4, <2>5 DEF Protocol!BookAgrees, BookType
  <2>10. AskingAgrees'
    BY <1>0, <2>1, <2>3, <2>5 DEF AskingAgrees
  <2>11. Alone'
    BY <1>0, <2>1, <2>3, <2>5, AnswersStay DEF Protocol!Verdicts
  <2> QED
    BY <1>a, <2>2, <2>8, <2>9, <2>10, <2>11
<1>13. CASE Protocol!ShutdownReplaces \/ Protocol!ShutdownIsCancelled
  <2>1. UNCHANGED <<asking, outcome, pending, timers, armed, issuer, limited, responding, answer, mailbox>>
    BY <1>13 DEF Protocol!ShutdownReplaces, Protocol!ShutdownIsCancelled,
       Protocol!bookkeeping
  <2>2. shutdown' = "no" /\ manager' \in 0..MaxShutdowns
    BY <1>0, <1>13 DEF Protocol!ShutdownReplaces, Protocol!ShutdownIsCancelled, LifeType
  <2>3. BookType' /\ LifeType' /\ AnswerType' /\ MailType'
    BY <1>0, <2>1, <2>2 DEF BookType, LifeType, AnswerType, MailType
  <2>4. Protocol!BookAgrees' /\ AskingAgrees'
    BY <1>0, <2>1 DEF Protocol!BookAgrees, AskingAgrees
  <2>5. Alone'
    BY <1>0, <2>1, AnswersStay
  <2> QED
    BY <1>a, <2>3, <2>4, <2>5
<1>7. ASSUME NEW a \in Responses, NEW r \in Requests, NEW says \in Protocol!Verdicts,
             Protocol!Respond(a, r, says)
      PROVE  ProtocolInv'
  <2>1. /\ answer[a].at = "new" /\ r \in pending /\ r \notin responding
        /\ answer' = [answer EXCEPT ![a] = [at |-> "announcing", to |-> r,
                        verdict |-> says, paused |-> r \in armed]]
        /\ responding' = responding \cup {r}
        /\ timers' = [timers EXCEPT ![r] = IF r \in armed THEN @ - 1 ELSE @]
        /\ armed' = armed \ {r}
        /\ UNCHANGED <<asking, outcome, pending, Protocol!lifetime, mailbox>>
    BY <1>7 DEF Protocol!Respond, Protocol!Known, Protocol!AnswerBegins
  <2>2. [at |-> "announcing", to |-> r, verdict |-> says, paused |-> r \in armed] \in Protocol!AnswerStates
    BY Given DEF Protocol!AnswerStates, Protocol!InFlight
  <2>3. /\ AnswerType'
        /\ \A b \in Responses \ {a} : answer'[b] = answer[b]
        /\ answer'[a].at = "announcing"
        /\ answer'[a].to = r
        /\ answer'[a].verdict = says
        /\ answer'[a].paused => r \in armed
    BY <1>0, <2>1, <2>2 DEF AnswerType
  <2>4. LifeType' /\ MailType'
    BY <1>0, <2>1 DEF LifeType, MailType, Protocol!lifetime
  <2>5. /\ timers'[r] = 0
        /\ \A q \in Requests \ {r} : timers'[q] = timers[q]
        /\ timers' \in [Requests -> Nat]
    <3>1. timers[r] = IF r \in armed THEN 1 ELSE 0
      BY <1>0 DEF Protocol!BookAgrees
    <3> QED
      BY <1>0, <2>1, <3>1 DEF BookType
  <2>6. BookType' /\ Protocol!BookAgrees'
    BY <1>0, <2>1, <2>5 DEF BookType, Protocol!BookAgrees
  <2>7. AskingAgrees'
    BY <1>0, <2>1 DEF AskingAgrees
  <2>8. PausedAlone'
    BY <1>0, <2>1, <2>3 DEF PausedAlone, AskingAgrees, AnswersBelong, Protocol!InFlight
  <2>9. \A b \in Responses : answer[b].to = r => ~Claims(b)
    <3>1. ASSUME NEW b \in Responses, answer[b].to = r, answer[b].at = "accepted"
          PROVE  FALSE
      <4>1. outcome[r] = answer[b].verdict /\ answer[b].verdict \in Protocol!Verdicts
        BY <1>0, <3>1 DEF AnswersHold, AnswerType, Protocol!AnswerStates
      <4> QED
        BY <1>0, <2>1, <4>1 DEF Protocol!BookAgrees, Protocol!Verdicts
    <3>2. ASSUME NEW b \in Responses, answer[b].to = r, answer[b].at \in Protocol!InFlight
          PROVE  FALSE
      BY <1>0, <2>1, <3>2 DEF AnswersBelong
    <3> QED
      BY <3>1, <3>2 DEF Claims
  <2>10. AnswersBelong'
    <3>1. \A b \in Responses : answer'[b].at # "new" => answer'[b].to \in Requests
      BY <1>0, <2>3 DEF AnswersBelong
    <3>2. \A b \in Responses : answer'[b].at \in Protocol!InFlight =>
              answer'[b].to \in responding'
      BY <1>0, <2>1, <2>3 DEF AnswersBelong
    <3>3. \A b \in Responses \ {a} : Claims(b)' =>
              Claims(b) /\ answer'[b].to = answer[b].to
      BY <2>3 DEF Claims
    <3>4. \A b, c \in Responses :
              answer'[b].to = answer'[c].to /\ Claims(b)' /\ Claims(c)' => b = c
      BY <1>0, <2>3, <2>9, <3>3 DEF AnswersBelong
    <3> QED
      BY <3>1, <3>2, <3>4 DEF AnswersBelong
  <2>11. AnswersHold'
    BY <1>0, <2>1, <2>3 DEF AnswersHold
  <2> QED
    BY <1>a, <2>3, <2>4, <2>6, <2>7, <2>8, <2>10, <2>11 DEF Alone
<1>8. ASSUME NEW a \in Responses, Protocol!AnswerPosted(a)
      PROVE  ProtocolInv'
  <2>1. /\ answer[a].at = "announcing"
        /\ answer' = [answer EXCEPT ![a].at = "announced"]
        /\ mailbox' = mailbox \cup {<<answer[a].to, answer[a].verdict>>}
        /\ UNCHANGED <<asking, Protocol!bookkeeping, Protocol!lifetime, responding>>
    BY <1>8 DEF Protocol!AnswerPosted
  <2>2. /\ AnswerType'
        /\ \A b \in Responses \ {a} : answer'[b] = answer[b]
        /\ answer'[a].at = "announced"
        /\ answer'[a].to = answer[a].to
        /\ answer'[a].verdict = answer[a].verdict
        /\ answer'[a].paused = answer[a].paused
    BY <1>0, <2>1, AnswerMoves
  <2>3. answer[a].verdict \in Protocol!Verdicts /\ answer[a].to \in Requests
    BY <1>0, <2>1 DEF AnswerType, Protocol!AnswerStates, AnswersBelong
  <2>4. BookType' /\ LifeType' /\ MailType'
    BY <1>0, <2>1, <2>3 DEF BookType, LifeType, MailType, Protocol!lifetime,
       Protocol!bookkeeping
  <2>5. Protocol!BookAgrees' /\ AskingAgrees'
    BY <1>0, <2>1 DEF Protocol!BookAgrees, AskingAgrees, Protocol!bookkeeping
  <2>6. PausedAlone'
    BY <1>0, <2>1, <2>2 DEF PausedAlone, Protocol!bookkeeping, Protocol!InFlight
  <2>7. AnswersBelong'
    BY <1>0, <2>1, <2>2, ClaimsKept DEF Protocol!InFlight
  <2>8. AnswersHold'
    BY <1>0, <2>1, <2>2 DEF AnswersHold, Protocol!bookkeeping
  <2> QED
    BY <1>a, <2>2, <2>4, <2>5, <2>6, <2>7, <2>8 DEF Alone
<1>9. ASSUME NEW a \in Responses, Protocol!AnswerFails(a)
      PROVE  ProtocolInv'
  <2> DEFINE r == answer[a].to
  <2>1. /\ answer[a].at \in Protocol!InFlight
        /\ answer' = [answer EXCEPT ![a].at = "failed"]
        /\ responding' = responding \ {r}
        /\ UNCHANGED <<asking, Protocol!lifetime, mailbox>>
    BY <1>9 DEF Protocol!AnswerFails
  <2>2. /\ AnswerType'
        /\ \A b \in Responses \ {a} : answer'[b] = answer[b]
        /\ answer'[a].at = "failed"
        /\ answer'[a].to = answer[a].to
        /\ answer'[a].verdict = answer[a].verdict
        /\ answer'[a].paused = answer[a].paused
    BY <1>0, <2>1, AnswerMoves
  <2>3. r \in Requests
    BY <1>0, <2>1 DEF AnswersBelong, Protocol!InFlight
  <2>4. LifeType' /\ MailType'
    BY <1>0, <2>1 DEF LifeType, MailType, Protocol!lifetime
  <2>5. /\ timers' \in [Requests -> Nat]
        /\ armed' \subseteq armed \cup {r}
        /\ Protocol!BookAgrees'
        /\ outcome' = outcome /\ pending' = pending
        /\ armed' # armed => answer[a].paused
    <3>1. CASE answer[a].paused
      <4>1. r \notin armed
        BY <1>0, <2>1, <3>1 DEF PausedAlone
      <4>2. Protocol!Arm(r)
        BY <1>9, <3>1 DEF Protocol!AnswerFails
      <4> QED
        BY <1>0, <2>3, <3>1, <4>1, <4>2, Arms
    <3>2. CASE ~answer[a].paused
      BY <1>0, <1>9, <3>2 DEF Protocol!AnswerFails, Protocol!bookkeeping, BookType,
         Protocol!BookAgrees
    <3> QED
      BY <3>1, <3>2
  <2>6. BookType'
    BY <1>0, <2>1, <2>3, <2>5 DEF BookType
  <2>7. AskingAgrees'
    BY <1>0, <2>1, <2>3, <2>5 DEF AskingAgrees, PausedAlone
  <2>8. \A b \in Responses \ {a} : answer[b].at \in Protocol!InFlight => answer[b].to # r
    BY <1>0, <2>1 DEF AnswersBelong, Claims
  <2>9. PausedAlone'
    BY <1>0, <2>1, <2>2, <2>5, <2>8 DEF PausedAlone, Protocol!InFlight
  <2>10. AnswersBelong'
    BY <1>0, <2>1, <2>2, ClaimsKept DEF Protocol!InFlight
  <2>11. AnswersHold'
    BY <1>0, <2>1, <2>2, <2>5, HoldKept DEF Protocol!InFlight
  <2> QED
    BY <1>a, <2>2, <2>4, <2>5, <2>6, <2>7, <2>9, <2>10, <2>11 DEF Alone
<1>10. ASSUME NEW a \in Responses, Protocol!AnswerAccepted(a)
      PROVE  ProtocolInv'
  <2> DEFINE r == answer[a].to
             end == answer[a].verdict
  <2>1. /\ answer[a].at = "announced" /\ r \in pending
        /\ answer' = [answer EXCEPT ![a].at = "accepted"]
        /\ responding' = responding \ {r}
        /\ Protocol!Settle(r, end)
        /\ UNCHANGED <<asking, Protocol!lifetime, mailbox>>
    BY <1>10 DEF Protocol!AnswerAccepted
  <2>2. /\ AnswerType'
        /\ \A b \in Responses \ {a} : answer'[b] = answer[b]
        /\ answer'[a].at = "accepted"
        /\ answer'[a].to = answer[a].to
        /\ answer'[a].verdict = answer[a].verdict
        /\ answer'[a].paused = answer[a].paused
    BY <1>0, <2>1, AnswerMoves
  <2>3. r \in Requests /\ end \in Protocol!Verdicts /\ end \in Protocol!Outcomes /\ end # "none"
    BY <1>0, <2>1 DEF BookType, AnswerType, Protocol!AnswerStates, Protocol!Outcomes,
       Protocol!Verdicts
  <2>4. LifeType' /\ MailType'
    BY <1>0, <2>1 DEF LifeType, MailType, Protocol!lifetime
  <2> HIDE DEF end
  <2>5. /\ outcome' \in [Requests -> {"none", "pending"} \cup Protocol!Outcomes]
        /\ timers' \in [Requests -> Nat]
        /\ pending' \subseteq Requests
        /\ armed' \subseteq Requests
        /\ Protocol!BookAgrees'
        /\ outcome'[r] = end
        /\ \A q \in Requests \ {r} : outcome'[q] = outcome[q]
        /\ armed' \subseteq armed
    BY <1>0, <2>1, <2>3, Settles
  <2>6. BookType'
    BY <1>0, <2>1, <2>5 DEF BookType
  <2>7. outcome[r] = "pending" /\ "pending" \notin Protocol!Verdicts /\ "pending" # "none"
    BY <1>0, <2>1, <2>3 DEF Protocol!BookAgrees, Protocol!Verdicts
  <2>8. AskingAgrees'
    BY <1>0, <2>1, <2>3, <2>5, <2>7 DEF AskingAgrees
  <2>9. PausedAlone'
    BY <1>0, <2>1, <2>2, <2>5 DEF PausedAlone, Protocol!InFlight
  <2>10. AnswersBelong'
    BY <1>0, <2>1, <2>2, ClaimsKept DEF Protocol!InFlight
  <2>11. \A b \in Responses : answer[b].at = "accepted" => answer[b].to # r
    <3>1. \A b \in Responses : answer[b].verdict # "pending"
      BY <1>0, <2>7 DEF AnswerType, Protocol!AnswerStates
    <3> QED
      BY <1>0, <2>7, <3>1 DEF AnswersHold
  <2>12. \A b \in Responses : answer'[b].at = "accepted" =>
            outcome'[answer'[b].to] = answer'[b].verdict
    BY <1>0, <2>2, <2>5, <2>11 DEF AnswersHold, AnswersBelong, end
  <2>13. \A b \in Responses : answer'[b].at \in {"announced", "accepted"} =>
            <<answer'[b].to, answer'[b].verdict>> \in mailbox'
    BY <1>0, <2>1, <2>2 DEF AnswersHold
  <2>14. ASSUME NEW q \in Requests, outcome'[q] \in Protocol!Verdicts
         PROVE  \E b \in Responses : answer'[b].at = "accepted" /\ answer'[b].to = q
    <3>1. CASE q = r
      BY <2>2, <3>1
    <3>2. CASE q # r
      <4>1. PICK b \in Responses : answer[b].at = "accepted" /\ answer[b].to = q
        BY <1>0, <2>5, <2>14, <3>2 DEF AnswersHold
      <4> QED
        BY <2>1, <2>2, <4>1
    <3> QED
      BY <3>1, <3>2
  <2>15. AnswersHold'
    BY <2>12, <2>13, <2>14 DEF AnswersHold
  <2> QED
    BY <1>a, <2>2, <2>4, <2>5, <2>6, <2>8, <2>9, <2>10, <2>15 DEF Alone
<1>11. ASSUME NEW a \in Responses, Protocol!AnswerTooLate(a)
      PROVE  ProtocolInv'
  <2>1. /\ answer[a].at = "announced"
        /\ answer' = [answer EXCEPT ![a].at = "too late"]
        /\ responding' = responding \ {answer[a].to}
        /\ UNCHANGED <<asking, Protocol!bookkeeping, Protocol!lifetime, mailbox>>
    BY <1>11 DEF Protocol!AnswerTooLate
  <2>2. /\ AnswerType'
        /\ \A b \in Responses \ {a} : answer'[b] = answer[b]
        /\ answer'[a].at = "too late"
        /\ answer'[a].to = answer[a].to
        /\ answer'[a].verdict = answer[a].verdict
        /\ answer'[a].paused = answer[a].paused
    BY <1>0, <2>1, AnswerMoves
  <2>3. BookType' /\ LifeType' /\ MailType'
    BY <1>0, <2>1 DEF BookType, LifeType, MailType, Protocol!lifetime,
       Protocol!bookkeeping
  <2>4. Protocol!BookAgrees' /\ AskingAgrees'
    BY <1>0, <2>1 DEF Protocol!BookAgrees, AskingAgrees, Protocol!bookkeeping
  <2>5. PausedAlone'
    <3>1. \A b \in Responses : answer'[b].at \in Protocol!InFlight => b # a
      BY <2>2 DEF Protocol!InFlight
    <3>2. asking' = asking /\ armed' = armed
      BY <2>1 DEF Protocol!bookkeeping
    <3>3. \A b \in Responses : answer'[b].at \in Protocol!InFlight =>
              answer'[b] = answer[b]
      BY <2>2, <3>1
    <3> QED
      BY <1>0, <3>2, <3>3 DEF PausedAlone
  <2>6. AnswersBelong'
    BY <1>0, <2>1, <2>2, ClaimsKept DEF Protocol!InFlight
  <2>7. AnswersHold'
    BY <1>0, <2>1, <2>2, HoldKept DEF Protocol!bookkeeping, Protocol!InFlight
  <2> QED
    BY <1>a, <2>2, <2>3, <2>4, <2>5, <2>6, <2>7 DEF Alone
<1> QED
  BY <1>1, <1>2, <1>3, <1>4, <1>5, <1>6, <1>7, <1>8, <1>9, <1>10, <1>11, <1>12, <1>13
     DEF Protocol!Next

LEMMA ProtocolCounts == ProtocolInv => Protocol!AnswersCount
  BY DEF ProtocolInv, AnswersBelong, AnswersHold, Protocol!AnswersCount, Claims

\* A request is settled by one answer, and an answer that was accepted settled it
\* (AnswersCount: the claim of a response before its first await, and its undo).
THEOREM AnswersAreCounted == Spec => []AnswersCount
<1>1. Init => ProtocolInv
  BY ProtocolInit DEF Init
<1>2. ProtocolInv /\ [Next]_vars => ProtocolInv'
  BY ProtocolStep, Moving
<1>3. ProtocolInv => AnswersCount
  BY ProtocolCounts DEF AnswersCount
<1> QED
  BY <1>1, <1>2, <1>3, PTL DEF Spec

-----------------------------------------------------------------------------
(* Runtimes.                                                               *)

Away == {"down", "probing", "tasks"}
Alive(c) == child[c] \notin {"none", "over"}

\* A turn owns the tree of its root, and a tree has one owner, of a stored session.
TreesAreOwned ==
    /\ \A p \in Processes, r \in Roots :
          turnRoot[p] = {r} /\ place[p] \in Agents!Owning => tree[r] = {p}
    /\ \A r \in Roots : \A p, q \in tree[r] : p = q
    /\ \A r \in Roots : tree[r] # {} => status[r] # "none"

\* An awaited child runs in the turn that spawned it, and any child in a process
\* that has started.
ChildrenAreHosted ==
    \A c \in Children, p \in Processes : host[c] = {p} /\ Alive(c) =>
        /\ place[p] \notin Away
        /\ c \notin detached => place[p] = "turn" /\ parent[c] = turnRoot[p]

\* A recovery has the startup lock, and every tree that another process owns is
\* one that it has found locked, or will.
RecoveryKnows ==
    \A p \in Processes : place[p] \in {"probing", "tasks"} =>
        /\ startup = {p}
        /\ \A r \in Roots :
              tree[r] # {} /\ p \notin tree[r] => r \in toProbe[p] \cup lockedRoots[p]
        /\ \A r \in toProbe[p] : status[r] # "none"
        /\ place[p] = "tasks" => toProbe[p] = {}

RuntimeType ==
    /\ place \in [Processes -> {"down", "probing", "tasks", "idle", "ending"} \cup Agents!Owning]
    /\ turnRoot \in [Processes -> SUBSET Roots]
    /\ startup \subseteq Processes
    /\ tree \in [Roots -> SUBSET Processes]
    /\ toProbe \in [Processes -> SUBSET Roots]
    /\ lockedRoots \in [Processes -> SUBSET Roots]
SessionType ==
    /\ status \in [Agents!Sessions -> Agents!Statuses]
    /\ delegated \in [Children ->
          {"pending", "in_progress", "completed", "failed", "interrupted"}]
ChildType ==
    /\ child \in [Children -> {"none", "unwinding", "over"} \cup Agents!Spawning \cup Agents!InTurn]
    /\ host \in [Children -> SUBSET Processes]
    /\ parent \in [Children -> SUBSET Roots]

RuntimeInv ==
    /\ RuntimeType /\ SessionType /\ ChildType
    /\ TreesAreOwned /\ ChildrenAreHosted /\ RecoveryKnows

Stored == \A s \in Agents!Sessions : status[s] # "none" => status'[s] # "none"

LEMMA RuntimeInit == Agents!Init => RuntimeInv
<1> SUFFICES ASSUME Agents!Init
             PROVE  RuntimeInv
  OBVIOUS
<1> USE DEF Agents!Init
<1>1. RuntimeType /\ SessionType /\ ChildType
  BY DEF RuntimeType, SessionType, ChildType, Agents!Statuses
<1>2. TreesAreOwned /\ ChildrenAreHosted /\ RecoveryKnows
  BY DEF TreesAreOwned, ChildrenAreHosted, RecoveryKnows, Alive, Agents!Owning
<1> QED
  BY <1>1, <1>2 DEF RuntimeInv

\* What only children and statuses change.
LEMMA ChildrenMove ==
    ASSUME RuntimeInv, UNCHANGED <<place, turnRoot, startup, tree, toProbe, lockedRoots, detached, host, parent>>,
           SessionType', ChildType', Stored,
           \A c \in Children : Alive(c)' => Alive(c)
    PROVE  RuntimeInv'
<1>1. RuntimeType'
  BY DEF RuntimeInv, RuntimeType
<1>2. TreesAreOwned'
  BY DEF RuntimeInv, TreesAreOwned, Stored, Agents!Sessions
<1>3. ChildrenAreHosted'
  BY DEF RuntimeInv, ChildrenAreHosted
<1>4. RecoveryKnows'
  BY DEF RuntimeInv, RuntimeType, RecoveryKnows, Stored, Agents!Sessions
<1> QED
  BY <1>1, <1>2, <1>3, <1>4 DEF RuntimeInv

\* A turn goes on, or its children are over.
LEMMA TurnMoves ==
    ASSUME RuntimeInv, NEW p \in Processes, NEW to \in Agents!Owning,
           place[p] \in Agents!Owning, place' = [place EXCEPT ![p] = to],
           UNCHANGED <<turnRoot, startup, tree, toProbe, lockedRoots, child, detached, host, parent>>,
           SessionType', Stored,
           \A c \in Children \ detached : host[c] = {p} => ~Alive(c)
    PROVE  RuntimeInv'
<1>1. RuntimeType' /\ ChildType'
  BY DEF RuntimeInv, RuntimeType, ChildType
<1>2. place'[p] = to /\ \A q \in Processes \ {p} : place'[q] = place[q]
  BY DEF RuntimeInv, RuntimeType
<1>3. TreesAreOwned'
  BY <1>2 DEF RuntimeInv, TreesAreOwned, Stored, Agents!Sessions
<1>4. ChildrenAreHosted'
  BY <1>2 DEF RuntimeInv, ChildrenAreHosted, Alive, Agents!Owning, Away
<1>5. RecoveryKnows'
  BY <1>2 DEF RuntimeInv, RuntimeType, RecoveryKnows, Agents!Owning, Stored,
     Agents!Sessions
<1> QED
  BY <1>1, <1>3, <1>4, <1>5 DEF RuntimeInv

\* A process gives its trees back.
LEMMA TreesGoBack ==
    ASSUME RuntimeInv, NEW p \in Processes, NEW to,
           to \in {"down", "tasks", "idle", "ending"}, place' = [place EXCEPT ![p] = to],
           \A r \in Roots : tree'[r] = tree[r] \ {p},
           tree' = [r \in Roots |-> tree'[r]],
           turnRoot' \in {turnRoot, [turnRoot EXCEPT ![p] = {}]},
           \A c \in Children \ detached : host[c] = {p} => ~Alive(c)',
           to \in Away => \A c \in Children : host[c] = {p} => ~Alive(c)',
           place[p] \in Away => to \in {"down", "tasks"},
           \A c \in Children : Alive(c)' => Alive(c),
           \A q \in Processes \ {p} :
              toProbe'[q] = toProbe[q] /\ lockedRoots'[q] = lockedRoots[q],
           to = "tasks" =>
               toProbe'[p] = {} /\ toProbe[p] = {} /\ lockedRoots' = lockedRoots,
           startup' \in {startup, startup \ {p}}, to = "tasks" =>
               startup' = startup /\ place[p] = "probing",
           RuntimeType', SessionType', ChildType', Stored,
           UNCHANGED <<host, parent, detached>>
    PROVE  RuntimeInv'
<1>1. place'[p] = to /\ \A q \in Processes \ {p} : place'[q] = place[q]
  BY DEF RuntimeInv, RuntimeType
<1>2. \A q \in Processes \ {p} : turnRoot'[q] = turnRoot[q]
  BY DEF RuntimeInv, RuntimeType
<1>3. TreesAreOwned'
  BY <1>1, <1>2 DEF RuntimeInv, TreesAreOwned, Agents!Owning, Stored, Agents!Sessions
<1>4. ChildrenAreHosted'
  BY <1>1, <1>2 DEF RuntimeInv, ChildrenAreHosted
<1>5. RecoveryKnows'
  <2>1. ASSUME NEW q \in Processes \ {p}, place'[q] \in {"probing", "tasks"}
        PROVE  /\ startup' = {q}
               /\ \A r \in Roots :
                     tree'[r] # {} /\ q \notin tree'[r] =>
                         r \in toProbe'[q] \cup lockedRoots'[q]
               /\ \A r \in toProbe'[q] : status'[r] # "none"
               /\ place'[q] = "tasks" => toProbe'[q] = {}
    BY <1>1, <2>1 DEF RuntimeInv, RuntimeType, RecoveryKnows, Stored, Agents!Sessions
  <2>2. ASSUME place'[p] \in {"probing", "tasks"}
        PROVE  /\ startup' = {p}
               /\ \A r \in Roots :
                     tree'[r] # {} /\ p \notin tree'[r] =>
                         r \in toProbe'[p] \cup lockedRoots'[p]
               /\ \A r \in toProbe'[p] : status'[r] # "none"
               /\ place'[p] = "tasks" => toProbe'[p] = {}
    <3>1. to = "tasks" /\ place[p] = "probing"
      BY <1>1, <2>2
    <3>2. \A r \in Roots : tree'[r] # {} => p \notin tree[r]
      BY DEF RuntimeInv, TreesAreOwned
    <3> QED
      BY <1>1, <3>1, <3>2 DEF RuntimeInv, RecoveryKnows
  <2> QED
    BY <2>1, <2>2 DEF RecoveryKnows
<1> QED
  BY <1>3, <1>4, <1>5 DEF RuntimeInv

\* What a spawn and its child write about their task.
LEMMA Delegates ==
    ASSUME SessionType, NEW c \in Children,
           \/ Agents!Create(c) \/ Agents!Assign(c) \/ Agents!SpawnFails(c) \/ Agents!ActivateChild(c) \/ Agents!BeginChild(c)
           \/ Agents!ChildRefused(c) \/ Agents!ChildEnds(c) \/ Agents!ChildOver(c) \/ Agents!Completes(c)
    PROVE  \/ delegated' = delegated
           \/ \E mark \in {"in_progress", "completed", "failed"} :
                 delegated' = [delegated EXCEPT ![c] = mark]
<1>1. CASE Agents!SpawnFails(c)
  <2>1. CASE delegated[c] = "pending"
    BY <1>1, <2>1 DEF Agents!SpawnFails
  <2>2. CASE delegated[c] # "pending"
    BY <1>1, <2>2 DEF Agents!SpawnFails, SessionType
  <2> QED
    BY <2>1, <2>2
<1>2. CASE Agents!ChildOver(c)
  <2>1. CASE delegated[c] = "in_progress"
    BY <1>2, <2>1 DEF Agents!ChildOver
  <2>2. CASE delegated[c] # "in_progress"
    BY <1>2, <2>2 DEF Agents!ChildOver, SessionType
  <2> QED
    BY <2>1, <2>2
<1>3. CASE Agents!Create(c) \/ Agents!Assign(c) \/ Agents!ActivateChild(c) \/ Agents!BeginChild(c)
           \/ Agents!ChildRefused(c) \/ Agents!ChildEnds(c) \/ Agents!Completes(c)
  BY <1>3 DEF Agents!Create, Agents!Assign, Agents!ActivateChild, Agents!BeginChild,
     Agents!ChildRefused, Agents!ChildEnds, Agents!Completes
<1> QED
  BY <1>1, <1>2, <1>3

LEMMA RuntimeStep == RuntimeInv /\ [Agents!Next]_(Agents!vars) => RuntimeInv'
<1> SUFFICES ASSUME RuntimeInv, [Agents!Next]_(Agents!vars)
             PROVE  RuntimeInv'
  OBVIOUS
<1> USE DEF Agents!processVars, Agents!recoveryVars, Agents!childVars, Agents!rest,
   Agents!childRest
<1>0. /\ RuntimeType /\ SessionType /\ ChildType
      /\ TreesAreOwned /\ ChildrenAreHosted /\ RecoveryKnows
  BY DEF RuntimeInv
<1>1. CASE UNCHANGED Agents!vars
  <2>1. RuntimeType' /\ SessionType' /\ ChildType'
    BY <1>0, <1>1 DEF Agents!vars, RuntimeType, SessionType, ChildType
  <2>2. TreesAreOwned' /\ ChildrenAreHosted' /\ RecoveryKnows'
    BY <1>0, <1>1 DEF Agents!vars, TreesAreOwned, ChildrenAreHosted, RecoveryKnows,
       Alive
  <2> QED
    BY <2>1, <2>2 DEF RuntimeInv
<1>2. ASSUME NEW p \in Processes, Agents!Start(p)
      PROVE  RuntimeInv'
  <2>1. /\ place[p] = "down" /\ place' = [place EXCEPT ![p] = "probing"]
        /\ startup = {} /\ startup' = {p}
        /\ toProbe' = [toProbe EXCEPT ![p] = {r \in Roots : status[r] # "none"}]
        /\ UNCHANGED <<turnRoot, tree, status, lockedRoots, child, detached, host, parent, delegated>>
    BY <1>2 DEF Agents!Start, Agents!Goes
  <2>2. RuntimeType' /\ SessionType' /\ ChildType'
    BY <1>0, <2>1 DEF RuntimeType, SessionType, ChildType
  <2>3. place'[p] = "probing" /\ \A q \in Processes \ {p} : place'[q] = place[q]
    BY <1>0, <2>1 DEF RuntimeType
  <2>4. TreesAreOwned'
    BY <1>0, <2>1, <2>3 DEF TreesAreOwned, Agents!Owning
  <2>5. ChildrenAreHosted'
    BY <1>0, <2>1, <2>3 DEF ChildrenAreHosted, Alive, Away
  <2>6. \A q \in Processes \ {p} : place'[q] \notin {"probing", "tasks"}
    BY <1>0, <2>1, <2>3 DEF RecoveryKnows
  <2>7. RecoveryKnows'
    BY <1>0, <2>1, <2>3, <2>6 DEF RuntimeType, RecoveryKnows, TreesAreOwned
  <2> QED
    BY <2>2, <2>4, <2>5, <2>7 DEF RuntimeInv
<1>3. ASSUME NEW p \in Processes, NEW r \in Roots, Agents!Probe(p, r)
      PROVE  RuntimeInv'
  <2>1. /\ place[p] = "probing" /\ r \in toProbe[p]
        /\ toProbe' = [toProbe EXCEPT ![p] = @ \ {r}]
        /\ UNCHANGED <<place, turnRoot, startup, status, child, detached, host, parent, delegated>>
        /\ \/ tree[r] = {} /\ tree' = [tree EXCEPT ![r] = {p}] /\ lockedRoots' = lockedRoots
           \/ tree[r] # {} /\ lockedRoots' = [lockedRoots EXCEPT ![p] = @ \cup {r}] /\ tree' = tree
    BY <1>3 DEF Agents!Probe
  <2>2. RuntimeType' /\ SessionType' /\ ChildType'
    BY <1>0, <2>1 DEF RuntimeType, SessionType, ChildType
  <2>3. /\ toProbe'[p] = toProbe[p] \ {r}
        /\ \A q \in Processes \ {p} : toProbe'[q] = toProbe[q]
        /\ \A t \in Roots \ {r} : tree'[t] = tree[t]
        /\ tree'[r] \in {tree[r], {p}} /\ (tree[r] # {} => tree'[r] = tree[r])
        /\ \A q \in Processes : lockedRoots[q] \subseteq lockedRoots'[q]
        /\ tree[r] # {} => r \in lockedRoots'[p]
        /\ tree[r] = {} => tree'[r] = {p}
    BY <1>0, <2>1 DEF RuntimeType
  <2>4. status[r] # "none" /\ startup = {p}
    BY <1>0, <2>1 DEF RecoveryKnows
  <2>5. TreesAreOwned'
    BY <1>0, <2>1, <2>3, <2>4 DEF TreesAreOwned
  <2>6. ChildrenAreHosted'
    BY <1>0, <2>1 DEF ChildrenAreHosted, Alive
  <2>7. \A q \in Processes \ {p} : place[q] \notin {"probing", "tasks"}
    BY <1>0, <2>4 DEF RecoveryKnows
  <2>8. RecoveryKnows'
    BY <1>0, <2>1, <2>3, <2>7 DEF RecoveryKnows
  <2> QED
    BY <2>2, <2>5, <2>6, <2>8 DEF RuntimeInv
<1>4. ASSUME NEW p \in Processes, Agents!RecoverSessions(p)
      PROVE  RuntimeInv'
  <2>1. /\ place[p] = "probing" /\ place' = [place EXCEPT ![p] = "tasks"]
        /\ toProbe[p] = {}
        /\ tree' = [r \in Roots |-> tree[r] \ {p}]
        /\ UNCHANGED <<turnRoot, startup, toProbe, lockedRoots, child, detached, host, parent>>
    BY <1>4 DEF Agents!RecoverSessions, Agents!Goes, Agents!Recovered
  <2>2. SessionType' /\ Stored
    BY <1>0, <1>4 DEF Agents!RecoverSessions, Agents!Recovered, SessionType, Stored,
       Agents!Statuses
  <2>3. RuntimeType' /\ ChildType'
    BY <1>0, <2>1 DEF RuntimeType, ChildType
  <2>4. \A c \in Children : host[c] = {p} => ~Alive(c)
    BY <1>0, <2>1 DEF ChildrenAreHosted, Away
  <2>5. \A c \in Children : Alive(c)' <=> Alive(c)
    BY <2>1 DEF Alive
  <2> QED
    BY <2>1, <2>2, <2>3, <2>4, <2>5, TreesGoBack
<1>5. ASSUME NEW p \in Processes, Agents!RecoverTasks(p)
      PROVE  RuntimeInv'
  <2>1. /\ place[p] = "tasks" /\ place' = [place EXCEPT ![p] = "idle"]
        /\ startup' = {}
        /\ toProbe' = [toProbe EXCEPT ![p] = {}]
        /\ lockedRoots' = [lockedRoots EXCEPT ![p] = {}]
        /\ UNCHANGED <<turnRoot, tree, status, child, detached, host, parent>>
    BY <1>5 DEF Agents!RecoverTasks, Agents!Goes, Agents!Forgets
  <2>2. RuntimeType' /\ SessionType' /\ ChildType'
    BY <1>0, <1>5, <2>1 DEF Agents!RecoverTasks, RuntimeType, SessionType, ChildType
  <2>3. place'[p] = "idle" /\ \A q \in Processes \ {p} : place'[q] = place[q]
    BY <1>0, <2>1 DEF RuntimeType
  <2>4. TreesAreOwned'
    BY <1>0, <2>1, <2>3 DEF TreesAreOwned, Agents!Owning
  <2>5. ChildrenAreHosted'
    BY <1>0, <2>1, <2>3 DEF ChildrenAreHosted, Alive, Away
  <2>6. \A q \in Processes \ {p} : place[q] \notin {"probing", "tasks"}
    BY <1>0, <2>1 DEF RecoveryKnows
  <2>7. RecoveryKnows'
    BY <2>3, <2>6 DEF RecoveryKnows
  <2> QED
    BY <2>2, <2>4, <2>5, <2>7 DEF RuntimeInv
<1>6. ASSUME NEW p \in Processes, NEW r \in Roots,
             Agents!CreateSession(p, r) \/ Agents!FailsUnowned(p, r)
      PROVE  RuntimeInv'
  <2>1. UNCHANGED <<place, turnRoot, startup, tree, toProbe, lockedRoots, child, detached, host, parent>>
    BY <1>6 DEF Agents!CreateSession, Agents!FailsUnowned
  <2>2. SessionType' /\ Stored
    BY <1>0, <1>6 DEF Agents!CreateSession, Agents!FailsUnowned, SessionType, Stored,
       Agents!Statuses, Agents!Sessions
  <2>3. ChildType' /\ \A c \in Children : Alive(c)' => Alive(c)
    BY <1>0, <2>1 DEF ChildType, Alive
  <2> QED
    BY <2>1, <2>2, <2>3, ChildrenMove
<1>7. ASSUME NEW p \in Processes, NEW r \in Roots, Agents!TakeTree(p, r)
      PROVE  RuntimeInv'
  <2>1. /\ place[p] = "idle" /\ place' = [place EXCEPT ![p] = "owning"]
        /\ status[r] # "none" /\ startup = {} /\ tree[r] = {}
        /\ tree' = [tree EXCEPT ![r] = {p}]
        /\ turnRoot' = [turnRoot EXCEPT ![p] = {r}]
        /\ UNCHANGED <<startup, status, child, toProbe, lockedRoots, detached, host, parent, delegated>>
    BY <1>7 DEF Agents!TakeTree, Agents!Goes
  <2>2. RuntimeType' /\ SessionType' /\ ChildType'
    BY <1>0, <2>1 DEF RuntimeType, SessionType, ChildType, Agents!Owning
  <2>3. /\ place'[p] = "owning" /\ \A q \in Processes \ {p} : place'[q] = place[q]
        /\ turnRoot'[p] = {r} /\ \A q \in Processes \ {p} : turnRoot'[q] = turnRoot[q]
        /\ tree'[r] = {p} /\ \A t \in Roots \ {r} : tree'[t] = tree[t]
    BY <1>0, <2>1 DEF RuntimeType
  <2>4. TreesAreOwned'
    BY <1>0, <2>1, <2>3 DEF TreesAreOwned
  <2>5. \A c \in Children \ detached : host[c] = {p} => ~Alive(c)
    BY <1>0, <2>1 DEF ChildrenAreHosted
  <2>6. ChildrenAreHosted'
    BY <1>0, <2>1, <2>3, <2>5 DEF ChildrenAreHosted, Alive, Away
  <2>7. RecoveryKnows'
    BY <1>0, <2>1, <2>3 DEF RecoveryKnows
  <2> QED
    BY <2>2, <2>4, <2>6, <2>7 DEF RuntimeInv
<1>8. ASSUME NEW p \in Processes,
             Agents!Activate(p) \/ Agents!NotBegun(p) \/ Agents!BeginTurn(p) \/ Agents!TurnEnds(p)
      PROVE  RuntimeInv'
  <2>1. UNCHANGED <<turnRoot, startup, tree, toProbe, lockedRoots, child, detached, host, parent>>
    BY <1>8 DEF Agents!Activate, Agents!NotBegun, Agents!BeginTurn, Agents!TurnEnds,
       Agents!Marks
  <2>2. PICK to \in Agents!Owning : place' = [place EXCEPT ![p] = to]
    BY <1>8 DEF Agents!Activate, Agents!NotBegun, Agents!BeginTurn, Agents!TurnEnds,
       Agents!Goes, Agents!Owning
  <2>3. place[p] \in Agents!Owning
    BY <1>8 DEF Agents!Activate, Agents!NotBegun, Agents!BeginTurn, Agents!TurnEnds,
       Agents!Goes, Agents!Owning
  <2>4. SessionType' /\ Stored
    BY <1>0, <1>8 DEF Agents!Activate, Agents!NotBegun, Agents!BeginTurn,
       Agents!TurnEnds, Agents!Marks, SessionType, Stored, Agents!Statuses
  <2>5. ASSUME NEW c \in Children \ detached, host[c] = {p}, Alive(c)
        PROVE  FALSE
    <3>1. place[p] = "turn"
      BY <1>0, <2>5 DEF ChildrenAreHosted
    <3>2. Agents!TurnEnds(p)
      BY <1>8, <3>1 DEF Agents!Activate, Agents!NotBegun, Agents!BeginTurn, Agents!Goes
    <3> QED
      BY <2>5, <3>2 DEF Agents!TurnEnds, Alive
  <2> QED
    BY <2>1, <2>2, <2>3, <2>4, <2>5, TurnMoves
<1>9. ASSUME NEW p \in Processes, Agents!ReleaseTree(p)
      PROVE  RuntimeInv'
  <2>1. PICK to \in {"idle", "ending"} : place' = [place EXCEPT ![p] = to]
    BY <1>9 DEF Agents!ReleaseTree, Agents!Goes
  <2>2. /\ place[p] \in {"finishing", "leaving"}
        /\ turnRoot' \in {turnRoot, [turnRoot EXCEPT ![p] = {}]}
        /\ tree' = [r \in Roots |-> tree[r] \ {p}]
        /\ UNCHANGED <<startup, status, child, toProbe, lockedRoots, detached, host, parent, delegated>>
    BY <1>9 DEF Agents!ReleaseTree, Agents!Goes
  <2>3. RuntimeType' /\ SessionType' /\ ChildType' /\ Stored
    BY <1>0, <2>1, <2>2 DEF RuntimeType, SessionType, ChildType, Stored
  <2>4. \A c \in Children \ detached : host[c] = {p} => ~Alive(c)
    BY <1>0, <2>2 DEF ChildrenAreHosted
  <2>5. \A c \in Children : Alive(c)' <=> Alive(c)
    BY <2>2 DEF Alive
  <2>6. place[p] \notin Away /\ to \notin Away
    BY <2>2 DEF Away
  <2> QED
    BY <2>1, <2>2, <2>3, <2>4, <2>5, <2>6, TreesGoBack
<1>10. ASSUME NEW p \in Processes, Agents!EndTurn(p)
       PROVE  RuntimeInv'
  <2>1. /\ place[p] = "ending" /\ place' = [place EXCEPT ![p] = "idle"]
        /\ turnRoot' = [turnRoot EXCEPT ![p] = {}]
        /\ UNCHANGED <<startup, tree, status, child, toProbe, lockedRoots, detached, host, parent, delegated>>
    BY <1>10 DEF Agents!EndTurn, Agents!Goes
  <2>2. RuntimeType' /\ SessionType' /\ ChildType'
    BY <1>0, <2>1 DEF RuntimeType, SessionType, ChildType
  <2>3. /\ place'[p] = "idle" /\ \A q \in Processes \ {p} : place'[q] = place[q]
        /\ \A q \in Processes \ {p} : turnRoot'[q] = turnRoot[q]
    BY <1>0, <2>1 DEF RuntimeType
  <2>4. TreesAreOwned'
    BY <1>0, <2>1, <2>3 DEF TreesAreOwned, Agents!Owning
  <2>5. \A c \in Children \ detached : host[c] = {p} => ~Alive(c)
    BY <1>0, <2>1 DEF ChildrenAreHosted
  <2>6. ChildrenAreHosted'
    BY <1>0, <2>1, <2>3, <2>5 DEF ChildrenAreHosted, Alive, Away
  <2>7. RecoveryKnows'
    BY <1>0, <2>1, <2>3 DEF RecoveryKnows
  <2> QED
    BY <2>2, <2>4, <2>6, <2>7 DEF RuntimeInv
<1>11. ASSUME NEW p \in Processes, Agents!Crash(p)
       PROVE  RuntimeInv'
  <2>1. /\ place' = [place EXCEPT ![p] = "down"]
        /\ turnRoot' = [turnRoot EXCEPT ![p] = {}]
        /\ startup' = startup \ {p}
        /\ tree' = [r \in Roots |-> tree[r] \ {p}]
        /\ child' = [c \in Children |-> IF host[c] = {p} THEN "over" ELSE child[c]]
        /\ toProbe' = [toProbe EXCEPT ![p] = {}]
        /\ lockedRoots' = [lockedRoots EXCEPT ![p] = {}]
        /\ UNCHANGED <<status, detached, host, parent, delegated>>
    BY <1>11 DEF Agents!Crash, Agents!Forgets
  <2>2. RuntimeType' /\ SessionType' /\ Stored
    BY <1>0, <2>1 DEF RuntimeType, SessionType, Stored
  <2>3. ChildType'
    BY <1>0, <2>1 DEF ChildType
  <2>4. /\ \A c \in Children : host[c] = {p} => ~Alive(c)'
        /\ \A c \in Children : Alive(c)' => Alive(c)
    BY <2>1 DEF Alive
  <2>5. \A q \in Processes \ {p} :
           toProbe'[q] = toProbe[q] /\ lockedRoots'[q] = lockedRoots[q]
    BY <1>0, <2>1 DEF RuntimeType
  <2>6. (\A r \in Roots : tree'[r] = tree[r] \ {p}) /\ tree' = [r \in Roots |-> tree'[r]]
    BY <2>1
  <2>7. turnRoot' \in {turnRoot, [turnRoot EXCEPT ![p] = {}]}
        /\ startup' \in {startup, startup \ {p}}
    BY <2>1
  <2>8. PICK to \in {"down", "tasks", "idle", "ending"} : to = "down"
    OBVIOUS
  <2>9. place' = [place EXCEPT ![p] = to] /\ UNCHANGED <<host, parent, detached>> /\ to # "tasks"
    BY <2>1, <2>8
  <2> QED
    BY <2>2, <2>3, <2>4, <2>5, <2>6, <2>7, <2>8, <2>9, TreesGoBack
<1>12. ASSUME NEW p \in Processes, NEW c \in Children, Agents!Spawn(p, c)
       PROVE  RuntimeInv'
  <2>1. /\ child' = [child EXCEPT ![c] = "creating"]
        /\ place[p] = "turn" /\ child[c] = "none"
        /\ detached' \in {detached, detached \cup {c}}
        /\ host' = [host EXCEPT ![c] = {p}]
        /\ parent' = [parent EXCEPT ![c] = turnRoot[p]]
        /\ UNCHANGED <<place, turnRoot, startup, tree, status, toProbe, lockedRoots, delegated>>
    BY <1>12 DEF Agents!Spawn, Agents!At
  <2>2. RuntimeType' /\ SessionType' /\ ChildType'
    BY <1>0, <2>1 DEF RuntimeType, SessionType, ChildType, Agents!Spawning
  <2>3. TreesAreOwned' /\ RecoveryKnows'
    BY <1>0, <2>1 DEF TreesAreOwned, RecoveryKnows
  <2>4. /\ host'[c] = {p} /\ parent'[c] = turnRoot[p]
        /\ \A d \in Children \ {c} :
              host'[d] = host[d] /\ parent'[d] = parent[d] /\ (Alive(d)' <=> Alive(d))
    BY <1>0, <2>1 DEF ChildType, Alive
  <2>5. ChildrenAreHosted'
    BY <1>0, <2>1, <2>4 DEF ChildrenAreHosted, Away
  <2> QED
    BY <2>2, <2>3, <2>5 DEF RuntimeInv
<1>13. ASSUME NEW c \in Children,
              \/ Agents!Create(c) \/ Agents!Assign(c) \/ Agents!SpawnFails(c) \/ Agents!ActivateChild(c) \/ Agents!BeginChild(c)
              \/ Agents!ChildRefused(c) \/ Agents!ChildEnds(c) \/ Agents!ChildOver(c) \/ Agents!Completes(c)
       PROVE  RuntimeInv'
  <2>1. UNCHANGED <<place, turnRoot, startup, tree, toProbe, lockedRoots, detached, host, parent>>
    BY <1>13 DEF Agents!Create, Agents!Assign, Agents!SpawnFails, Agents!ActivateChild,
       Agents!BeginChild, Agents!ChildRefused,
       Agents!ChildEnds, Agents!ChildOver, Agents!Completes
  <2>2. SessionType' /\ Stored
    <3>1. \/ status' = status
          \/ \E mark \in {"active", "over"} : status' = [status EXCEPT ![c] = mark]
      BY <1>13 DEF Agents!Create, Agents!Assign, Agents!SpawnFails,
         Agents!ActivateChild, Agents!BeginChild, Agents!ChildRefused,
         Agents!ChildEnds, Agents!ChildOver, Agents!Completes
    <3>2. \/ delegated' = delegated
          \/ \E mark \in {"in_progress", "completed", "failed"} :
                delegated' = [delegated EXCEPT ![c] = mark]
      BY <1>0, <1>13, Delegates
    <3> QED
      BY <1>0, <3>1, <3>2 DEF SessionType, Stored, Agents!Statuses, Agents!Sessions
  <2>3. \/ child' = child
        \/ /\ child[c] \notin {"none", "over"}
           /\ \E to \in {"created", "assigned", "over", "activated", "running", "unwinding"} :
                 child' = [child EXCEPT ![c] = to]
    BY <1>13 DEF Agents!Create, Agents!Assign, Agents!SpawnFails, Agents!ActivateChild,
       Agents!BeginChild, Agents!ChildRefused,
       Agents!ChildEnds, Agents!ChildOver, Agents!Completes, Agents!At
  <2>4. ChildType'
    BY <1>0, <2>1, <2>3 DEF ChildType, Agents!Spawning, Agents!InTurn
  <2>5. \A d \in Children : Alive(d)' => Alive(d)
    BY <1>0, <2>3 DEF ChildType, Alive
  <2> QED
    BY <2>1, <2>2, <2>4, <2>5, ChildrenMove
<1> QED
  BY <1>1, <1>2, <1>3, <1>4, <1>5, <1>6, <1>7, <1>8, <1>9, <1>10, <1>11, <1>12, <1>13
     DEF Agents!Next

LEMMA OneWorks == RuntimeInv => Agents!OneProcessPerTree
<1> SUFFICES ASSUME RuntimeInv, NEW r \in Roots, NEW p \in Processes,
                    \/ turnRoot[p] = {r} /\ place[p] \in Agents!Owning
                    \/ \E c \in Children \ detached :
                          host[c] = {p} /\ parent[c] = {r} /\ child[c] \notin {"none", "over"}
             PROVE  tree[r] = {p}
  BY DEF Agents!OneProcessPerTree
<1>1. turnRoot[p] = {r} /\ place[p] \in Agents!Owning
  BY DEF RuntimeInv, ChildrenAreHosted, Alive, Agents!Owning
<1> QED
  BY <1>1 DEF RuntimeInv, TreesAreOwned

LEMMA LiveAreSpared ==
    RuntimeInv /\ [Agents!Next]_(Agents!vars) =>
        [\A s \in Agents!Sessions : Agents!LiveUnderTree(s) /\ Agents!LiveUnderTree(s)' =>
              /\ status'[s] = "recovered" => status[s] = "recovered"
              /\ s \in Children =>
                    (delegated'[s] = "interrupted" => delegated[s] = "interrupted")]_(Agents!vars)
<1> SUFFICES ASSUME RuntimeInv, Agents!Next, NEW s \in Agents!Sessions,
                    Agents!LiveUnderTree(s)
             PROVE  /\ status'[s] = "recovered" => status[s] = "recovered"
                    /\ s \in Children =>
                          (delegated'[s] = "interrupted" => delegated[s] = "interrupted")
  OBVIOUS
<1> USE DEF Agents!processVars, Agents!recoveryVars, Agents!childVars, Agents!rest,
   Agents!childRest
<1>0. /\ RuntimeType /\ SessionType /\ ChildType
      /\ TreesAreOwned /\ ChildrenAreHosted /\ RecoveryKnows
  BY DEF RuntimeInv
<1>1. PICK q \in Processes : /\ s \in Roots => place[q] \in {"activated", "turn"}
                             /\ s \in Children =>
                                    host[s] = {q} /\ child[s] \in Agents!InTurn
                             /\ \E r \in Agents!RootsOf(s) : tree[r] = {q}
  BY DEF Agents!LiveUnderTree
<1>2. PICK r \in Roots : r \in Agents!RootsOf(s) /\ tree[r] = {q}
  BY <1>0, <1>1 DEF Agents!RootsOf, ChildType, Agents!Sessions
<1>3. place[q] \notin Away
  BY <1>0, <1>1 DEF ChildrenAreHosted, Alive, Agents!InTurn, Away, Agents!Sessions
<1>4. ASSUME NEW p \in Processes, place[p] \in {"probing", "tasks"}
      PROVE  r \in toProbe[p] \cup lockedRoots[p]
  <2>1. p # q
    BY <1>3, <1>4 DEF Away
  <2> QED
    BY <1>0, <1>2, <1>4, <2>1 DEF RecoveryKnows
<1>5. ASSUME NEW p \in Processes, Agents!RecoverSessions(p)
      PROVE  status'[s] = status[s] /\ delegated' = delegated
  <2>1. r \in lockedRoots[p]
    BY <1>4, <1>5 DEF Agents!RecoverSessions, Agents!Goes
  <2> QED
    BY <1>2, <1>5, <2>1 DEF Agents!RecoverSessions, Agents!Recovered
<1>6. ASSUME NEW p \in Processes, Agents!RecoverTasks(p)
      PROVE  status' = status /\ (s \in Children => delegated'[s] = delegated[s])
  <2>1. r \in lockedRoots[p]
    BY <1>0, <1>4, <1>6 DEF Agents!RecoverTasks, Agents!Goes, RecoveryKnows
  <2> QED
    BY <1>6, <2>1 DEF Agents!RecoverTasks
<1>7. ASSUME NEW p \in Processes, NEW t \in Roots,
             Agents!Probe(p, t) \/ Agents!CreateSession(p, t) \/ Agents!TakeTree(p, t) \/ Agents!FailsUnowned(p, t)
      PROVE  (status'[s] = "recovered" => status[s] = "recovered") /\ delegated' = delegated
  BY <1>0, <1>7 DEF Agents!Probe, Agents!CreateSession, Agents!TakeTree,
     Agents!FailsUnowned, SessionType
<1>8. ASSUME NEW p \in Processes,
             \/ Agents!Start(p) \/ Agents!Activate(p) \/ Agents!NotBegun(p) \/ Agents!BeginTurn(p) \/ Agents!TurnEnds(p)
             \/ Agents!ReleaseTree(p) \/ Agents!EndTurn(p) \/ Agents!Crash(p)
      PROVE  (status'[s] = "recovered" => status[s] = "recovered") /\ delegated' = delegated
  BY <1>8 DEF Agents!Start, Agents!Activate, Agents!NotBegun, Agents!BeginTurn,
     Agents!TurnEnds, Agents!Marks, Agents!ReleaseTree, Agents!EndTurn, Agents!Crash
<1>9. ASSUME NEW p \in Processes, NEW c \in Children, Agents!Spawn(p, c)
      PROVE  status' = status /\ delegated' = delegated
  BY <1>9 DEF Agents!Spawn
<1>10. ASSUME NEW c \in Children,
              \/ Agents!Create(c) \/ Agents!Assign(c) \/ Agents!SpawnFails(c) \/ Agents!ActivateChild(c) \/ Agents!BeginChild(c)
              \/ Agents!ChildRefused(c) \/ Agents!ChildEnds(c) \/ Agents!ChildOver(c) \/ Agents!Completes(c)
       PROVE  /\ status'[s] = "recovered" => status[s] = "recovered"
              /\ s \in Children =>
                     (delegated'[s] = "interrupted" => delegated[s] = "interrupted")
  <2>1. \/ status' = status
        \/ \E mark \in {"active", "over"} : status' = [status EXCEPT ![c] = mark]
    BY <1>10 DEF Agents!Create, Agents!Assign, Agents!SpawnFails, Agents!ActivateChild,
       Agents!BeginChild, Agents!ChildRefused,
       Agents!ChildEnds, Agents!ChildOver, Agents!Completes
  <2>2. \/ delegated' = delegated
        \/ \E mark \in {"in_progress", "completed", "failed"} :
              delegated' = [delegated EXCEPT ![c] = mark]
    BY <1>0, <1>10, Delegates
  <2> QED
    BY <1>0, <2>1, <2>2 DEF SessionType
<1> QED
  BY <1>5, <1>6, <1>7, <1>8, <1>9, <1>10 DEF Agents!Next

\* Whatever crashes and starts again, the turns of a session tree run in one
\* process (OneProcessPerTree: the lock of the root's session).
THEOREM OneWorksInATree == Spec => []OneProcessPerTree
<1>1. Init => RuntimeInv
  BY RuntimeInit DEF Init
<1>2. RuntimeInv /\ [Next]_vars => RuntimeInv'
  BY RuntimeStep, Moving
<1>3. RuntimeInv => OneProcessPerTree
  BY OneWorks DEF OneProcessPerTree
<1> QED
  BY <1>1, <1>2, <1>3, PTL DEF Spec

\* A runtime that starts marks no session or task as interrupted that a live turn
\* works for (LiveTurnsAreNotRecovered: the probes under the startup lock).
THEOREM LiveTurnsSurviveStartup == Spec => LiveTurnsAreNotRecovered
<1>1. Init => RuntimeInv
  BY RuntimeInit DEF Init
<1>2. RuntimeInv /\ [Next]_vars => RuntimeInv'
  BY RuntimeStep, Moving
<1>3. RuntimeInv /\ [Next]_vars =>
          [\A s \in Agents!Sessions : Agents!LiveUnderTree(s) /\ Agents!LiveUnderTree(s)' =>
              /\ status'[s] = "recovered" => status[s] = "recovered"
              /\ s \in Children =>
                    (delegated'[s] = "interrupted" => delegated[s] = "interrupted")]_(Agents!vars)
  BY LiveAreSpared, Moving
<1> QED
  BY <1>1, <1>2, <1>3, PTL DEF Spec, LiveTurnsAreNotRecovered,
     Agents!LiveTurnsAreNotRecovered

-----------------------------------------------------------------------------
(* The trace of a session.                                                 *)

TraceType ==
    /\ recorder \in [Processes -> {"none", "open", "awaiting", "broken"}]
    /\ sequence \in [Processes -> Nat]
    /\ queue \in [Processes -> Seq(Nat)]
    /\ traceFile \in Seq(Nat)
    /\ synced \in Nat
    /\ kept \subseteq Nat

\* A row at the end of a file.
LEMMA RowAppended ==
    ASSUME NEW rows \in Seq(Nat), NEW number \in Nat
    PROVE  /\ Append(rows, number) \in Seq(Nat)
           /\ Len(rows) \in Nat /\ Len(Append(rows, number)) = Len(rows) + 1
           /\ \A i \in 1 .. Len(rows) : Append(rows, number)[i] = rows[i]
           /\ Append(rows, number)[Len(rows) + 1] = number
  OBVIOUS

\* The first row, and the rows after it.
LEMMA RowTaken ==
    ASSUME NEW rows \in Seq(Nat), rows # <<>>
    PROVE  /\ Head(rows) = rows[1] /\ Tail(rows) \in Seq(Nat)
           /\ Len(rows) \in Nat /\ Len(Tail(rows)) = Len(rows) - 1 /\ Len(rows) >= 1
           /\ \A i \in 1 .. Len(Tail(rows)) : Tail(rows)[i] = rows[i + 1]
  OBVIOUS

\* Only who has the lock has a recorder, and rows for it.
OneRecords ==
    /\ \A p, q \in writing : p = q
    /\ \A p \in Processes : p \notin writing => recorder[p] = "none"
    /\ \A p \in Processes : recorder[p] = "none" => queue[p] = <<>>

BrokenQueuesNothing ==
    \A p \in Processes : recorder[p] = "broken" => queue[p] = <<>>

FileIsNumbered == \A i \in 1 .. Len(traceFile) : traceFile[i] = i

\* What is queued goes on where the file ends.
QueueGoesOn ==
    \A p \in Processes : recorder[p] \in {"open", "awaiting"} =>
        /\ traceTail = "clean"
        /\ sequence[p] = Len(traceFile) + Len(queue[p])
        /\ \A i \in 1 .. Len(queue[p]) : queue[p][i] = Len(traceFile) + i

\* A row that a caller was or will be told about is synced.
KeptIsSynced ==
    /\ synced <= Len(traceFile)
    /\ \A number \in kept : number <= synced
    /\ \A p \in Processes :
          recorder[p] = "awaiting" /\ queue[p] = <<>> => sequence[p] <= synced

TraceInv ==
    TraceType /\ OneRecords /\ BrokenQueuesNothing /\ FileIsNumbered /\ QueueGoesOn /\ KeptIsSynced

LEMMA TraceInit == Audit!Init => TraceInv
<1> SUFFICES ASSUME Audit!Init
             PROVE  TraceInv
  OBVIOUS
<1>1. TraceType
  BY DEF Audit!Init, TraceType
<1>2. OneRecords /\ BrokenQueuesNothing /\ FileIsNumbered /\ QueueGoesOn /\ KeptIsSynced
  BY DEF Audit!Init, OneRecords, BrokenQueuesNothing, FileIsNumbered, QueueGoesOn,
     KeptIsSynced
<1> QED
  BY <1>1, <1>2 DEF TraceInv

\* One that has the lock has it alone, and no other has a recorder.
LEMMA OthersHaveNone ==
    ASSUME TraceInv, NEW p \in Processes, recorder[p] # "none"
    PROVE  \A q \in Processes \ {p} : recorder[q] = "none"
  BY DEF TraceInv, OneRecords

LEMMA TraceStep == TraceInv /\ [Audit!Next]_(Audit!vars) => TraceInv'
<1> SUFFICES ASSUME TraceInv, [Audit!Next]_(Audit!vars)
             PROVE  TraceInv'
  OBVIOUS
<1> USE BoundAssumption
<1>0. TraceType /\ OneRecords /\ BrokenQueuesNothing /\ FileIsNumbered /\ QueueGoesOn /\ KeptIsSynced
  BY DEF TraceInv
<1>1. CASE UNCHANGED Audit!vars
  BY <1>0, <1>1 DEF Audit!vars, TraceInv, TraceType, OneRecords, BrokenQueuesNothing,
     FileIsNumbered, QueueGoesOn, KeptIsSynced
<1>2. ASSUME NEW p \in Processes, Audit!Take(p)
      PROVE  TraceInv'
  BY <1>0, <1>2 DEF Audit!Take, TraceInv, TraceType, OneRecords, BrokenQueuesNothing,
     FileIsNumbered, QueueGoesOn, KeptIsSynced
<1>3. ASSUME NEW p \in Processes, Audit!Open(p)
      PROVE  TraceInv'
  <2> DEFINE repaired == IF traceTail = "torn" THEN <<Audit!LastSequence + 1>> ELSE <<>>
  <2>1. Audit!LastSequence = Len(traceFile)
    <3>1. traceFile \in Seq(Nat) /\ Len(traceFile) \in Nat /\ (traceFile = <<>> <=> Len(traceFile) = 0)
      BY <1>0 DEF TraceType
    <3>2. traceFile # <<>> => traceFile[Len(traceFile)] = Len(traceFile)
      BY <1>0, <3>1 DEF FileIsNumbered
    <3> QED
      BY <3>1, <3>2 DEF Audit!LastSequence
  <2>2. /\ repaired \in Seq(Nat)
        /\ \A i \in 1 .. Len(repaired) : repaired[i] = Len(traceFile) + i
        /\ Len(repaired) \in Nat
    BY <1>0, <2>1 DEF TraceType
  <2>3. /\ writing = {p} /\ recorder[p] = "none"
        /\ recorder' = [recorder EXCEPT ![p] = "open"]
        /\ traceTail' = "clean"
        /\ sequence' = [sequence EXCEPT ![p] = Audit!LastSequence + Len(repaired)]
        /\ queue' = [queue EXCEPT ![p] = repaired]
        /\ UNCHANGED <<traceFile, synced, writing, kept, cuts>>
    BY <1>3 DEF Audit!Open
  <2> HIDE DEF repaired
  <2>4. /\ recorder'[p] = "open" /\ queue'[p] = repaired
        /\ sequence'[p] = Len(traceFile) + Len(repaired)
        /\ recorder' \in [Processes -> {"none", "open", "awaiting", "broken"}]
        /\ sequence' \in [Processes -> Nat]
        /\ queue' \in [Processes -> Seq(Nat)]
        /\ \A q \in Processes \ {p} :
              recorder'[q] = recorder[q] /\ sequence'[q] = sequence[q] /\ queue'[q] = queue[q]
    BY <1>0, <2>1, <2>2, <2>3 DEF TraceType
  <2>5. \A q \in Processes \ {p} : recorder[q] = "none"
    BY <1>0, <2>3 DEF OneRecords
  <2>6. TraceType' /\ FileIsNumbered'
    BY <1>0, <2>3, <2>4 DEF TraceType, FileIsNumbered
  <2>7. OneRecords' /\ BrokenQueuesNothing'
    BY <1>0, <2>3, <2>4 DEF OneRecords, BrokenQueuesNothing
  <2>8. QueueGoesOn'
    BY <1>0, <2>2, <2>3, <2>4, <2>5 DEF QueueGoesOn
  <2>9. KeptIsSynced'
    BY <1>0, <2>3, <2>4, <2>5 DEF KeptIsSynced
  <2> QED
    BY <2>6, <2>7, <2>8, <2>9 DEF TraceInv
<1>4. ASSUME NEW p \in Processes, Audit!Record(p)
      PROVE  TraceInv'
  <2>1. /\ writing = {p} /\ recorder[p] = "open"
        /\ recorder' = [recorder EXCEPT ![p] = "awaiting"]
        /\ sequence' = [sequence EXCEPT ![p] = sequence[p] + 1]
        /\ queue' = [queue EXCEPT ![p] = Append(queue[p], sequence[p] + 1)]
        /\ UNCHANGED <<traceFile, traceTail, synced, writing, kept, cuts>>
    BY <1>4 DEF Audit!Record, Audit!Given
  <2>2. /\ recorder'[p] = "awaiting" /\ queue'[p] = Append(queue[p], sequence[p] + 1)
        /\ sequence'[p] = sequence[p] + 1
        /\ recorder' \in [Processes -> {"none", "open", "awaiting", "broken"}]
        /\ sequence' \in [Processes -> Nat]
        /\ queue' \in [Processes -> Seq(Nat)]
        /\ \A q \in Processes \ {p} :
              recorder'[q] = recorder[q] /\ sequence'[q] = sequence[q] /\ queue'[q] = queue[q]
    BY <1>0, <2>1 DEF TraceType
  <2>3. \A q \in Processes \ {p} : recorder[q] = "none"
    BY <1>0, <2>1 DEF OneRecords
  <2>4. TraceType' /\ FileIsNumbered'
    BY <1>0, <2>1, <2>2 DEF TraceType, FileIsNumbered
  <2>5. OneRecords' /\ BrokenQueuesNothing'
    BY <1>0, <2>1, <2>2 DEF OneRecords, BrokenQueuesNothing
  <2>6. QueueGoesOn'
    <3>1. /\ traceTail = "clean" /\ sequence[p] = Len(traceFile) + Len(queue[p])
          /\ \A i \in 1 .. Len(queue[p]) : queue[p][i] = Len(traceFile) + i
          /\ queue[p] \in Seq(Nat) /\ Len(traceFile) \in Nat /\ Len(queue[p]) \in Nat
      BY <1>0, <2>1 DEF QueueGoesOn, TraceType
    <3>2. /\ Len(queue'[p]) = Len(queue[p]) + 1
          /\ \A i \in 1 .. Len(queue'[p]) : queue'[p][i] = Len(traceFile) + i
      <4>1. sequence[p] + 1 \in Nat /\ sequence[p] + 1 = Len(traceFile) + (Len(queue[p]) + 1)
        BY <3>1
      <4>2. /\ Len(Append(queue[p], sequence[p] + 1)) = Len(queue[p]) + 1
            /\ \A i \in 1 .. Len(queue[p]) :
                  Append(queue[p], sequence[p] + 1)[i] = queue[p][i]
            /\ Append(queue[p], sequence[p] + 1)[Len(queue[p]) + 1] = sequence[p] + 1
        BY <3>1, <4>1, RowAppended
      <4>3. \A i \in 1 .. Len(queue[p]) + 1 :
                i \in 1 .. Len(queue[p]) \/ i = Len(queue[p]) + 1
        BY <3>1
      <4> QED
        BY <2>2, <3>1, <4>1, <4>2, <4>3
    <3>3. sequence'[p] = Len(traceFile) + Len(queue'[p])
      BY <2>2, <3>1, <3>2
    <3> QED
      BY <2>1, <2>2, <2>3, <3>1, <3>2, <3>3 DEF QueueGoesOn
  <2>7. KeptIsSynced'
    <3>1. queue'[p] # <<>>
      BY <1>0, <2>2 DEF TraceType
    <3> QED
      BY <1>0, <2>1, <2>2, <2>3, <3>1 DEF KeptIsSynced
  <2> QED
    BY <2>4, <2>5, <2>6, <2>7 DEF TraceInv
<1>5. ASSUME NEW p \in Processes, Audit!GiveBack(p)
      PROVE  TraceInv'
  <2>1. /\ writing = {p} /\ recorder[p] \in {"awaiting", "broken"} /\ queue[p] = <<>>
        /\ writing' = {} /\ recorder'[p] = "none"
        /\ \A q \in Processes \ {p} : recorder'[q] = recorder[q]
        /\ recorder' \in [Processes -> {"none", "open", "awaiting", "broken"}]
        /\ kept' = IF recorder[p] = "awaiting" THEN kept \cup {sequence[p]} ELSE kept
        /\ UNCHANGED <<sequence, queue, traceFile, traceTail, synced, cuts>>
    BY <1>0, <1>5 DEF Audit!GiveBack, TraceType
  <2>2. TraceType' /\ FileIsNumbered'
    <3>1. kept' \subseteq Nat
      BY <1>0, <2>1 DEF TraceType
    <3> QED
      BY <1>0, <2>1, <3>1 DEF TraceType, FileIsNumbered
  <2>4. OneRecords' /\ BrokenQueuesNothing'
    BY <1>0, <2>1 DEF OneRecords, BrokenQueuesNothing
  <2>5. QueueGoesOn'
    BY <1>0, <2>1 DEF QueueGoesOn
  <2>3. KeptIsSynced'
    BY <1>0, <2>1 DEF KeptIsSynced
  <2> QED
    BY <2>2, <2>3, <2>4, <2>5 DEF TraceInv
<1>6. ASSUME NEW p \in Processes, Audit!Write(p)
      PROVE  TraceInv'
  <2>1. /\ recorder[p] \in {"open", "awaiting"} /\ queue[p] # <<>>
        /\ traceTail = "clean" /\ sequence[p] = Len(traceFile) + Len(queue[p])
        /\ \A i \in 1 .. Len(queue[p]) : queue[p][i] = Len(traceFile) + i
        /\ queue[p] \in Seq(Nat) /\ Len(traceFile) \in Nat /\ Len(queue[p]) \in Nat
        /\ traceFile \in Seq(Nat) /\ sequence[p] \in Nat /\ synced \in Nat
    BY <1>0, <1>6 DEF Audit!Write, QueueGoesOn, TraceType
  <2>2. /\ traceFile' = Append(traceFile, Head(queue[p])) /\ traceTail' = "clean"
        /\ queue' = [queue EXCEPT ![p] = Tail(queue[p])]
        /\ synced' = IF recorder[p] = "awaiting" /\ Head(queue[p]) = sequence[p]
                     THEN Len(traceFile') ELSE synced
        /\ UNCHANGED <<recorder, sequence, writing, kept, cuts>>
    BY <1>6, <2>1 DEF Audit!Write, Audit!Written
  <2>3. /\ Head(queue[p]) = Len(traceFile) + 1 /\ Tail(queue[p]) \in Seq(Nat)
        /\ Len(Tail(queue[p])) = Len(queue[p]) - 1 /\ Len(queue[p]) >= 1
        /\ \A i \in 1 .. Len(Tail(queue[p])) : Tail(queue[p])[i] = queue[p][i + 1]
    <3>1. /\ Head(queue[p]) = queue[p][1] /\ Tail(queue[p]) \in Seq(Nat)
          /\ Len(Tail(queue[p])) = Len(queue[p]) - 1 /\ Len(queue[p]) >= 1
          /\ \A i \in 1 .. Len(Tail(queue[p])) : Tail(queue[p])[i] = queue[p][i + 1]
      BY <2>1, RowTaken
    <3>2. 1 \in 1 .. Len(queue[p])
      BY <2>1, <3>1
    <3> QED
      BY <2>1, <3>1, <3>2
  <2>4. /\ traceFile' \in Seq(Nat) /\ Len(traceFile') = Len(traceFile) + 1
        /\ \A i \in 1 .. Len(traceFile) : traceFile'[i] = traceFile[i]
        /\ traceFile'[Len(traceFile) + 1] = Len(traceFile) + 1
    BY <2>1, <2>2, <2>3
  <2>5. /\ queue'[p] = Tail(queue[p]) /\ queue' \in [Processes -> Seq(Nat)]
        /\ \A q \in Processes \ {p} : queue'[q] = queue[q]
    BY <1>0, <2>2, <2>3 DEF TraceType
  <2>6. \A q \in Processes \ {p} : recorder[q] = "none"
    BY <1>0, <2>1 DEF OneRecords
  <2>7. synced' \in Nat /\ synced <= synced' /\ synced' <= Len(traceFile')
    BY <1>0, <2>1, <2>2, <2>4 DEF KeptIsSynced
  <2>8. TraceType' /\ OneRecords' /\ BrokenQueuesNothing'
    BY <1>0, <2>1, <2>2, <2>4, <2>5, <2>7 DEF TraceType, OneRecords, BrokenQueuesNothing
  <2>9. FileIsNumbered'
    <3> SUFFICES ASSUME NEW i \in 1 .. Len(traceFile')
                 PROVE  traceFile'[i] = i
      BY DEF FileIsNumbered
    <3>1. i \in 1 .. Len(traceFile) \/ i = Len(traceFile) + 1
      BY <2>1, <2>4
    <3> QED
      BY <1>0, <2>4, <3>1 DEF FileIsNumbered
  <2>10. QueueGoesOn'
    <3>1. sequence[p] = Len(traceFile') + Len(queue'[p])
      <4>1. Len(queue'[p]) = Len(queue[p]) - 1
        BY <2>3, <2>5
      <4>2. Len(traceFile') = Len(traceFile) + 1
        BY <2>4
      <4>3. sequence[p] = Len(traceFile) + Len(queue[p]) /\ Len(traceFile) \in Nat /\ Len(queue[p]) \in Nat
        BY <2>1
      <4>4. \A l, q \in Nat : l + q = (l + 1) + (q - 1)
        OBVIOUS
      <4>5. Len(traceFile) + Len(queue[p]) = (Len(traceFile) + 1) + (Len(queue[p]) - 1)
        BY <4>3, <4>4
      <4> QED
        BY <4>1, <4>2, <4>3, <4>5
    <3>2. \A i \in 1 .. Len(queue'[p]) : queue'[p][i] = Len(traceFile') + i
      <4> SUFFICES ASSUME NEW i \in 1 .. Len(queue'[p])
                   PROVE  queue'[p][i] = Len(traceFile') + i
        OBVIOUS
      <4>1. i \in Nat /\ i + 1 \in 1 .. Len(queue[p]) /\ i \in 1 .. Len(Tail(queue[p]))
        BY <2>1, <2>3, <2>5
      <4>2. queue'[p][i] = queue[p][i + 1] /\ queue[p][i + 1] = Len(traceFile) + (i + 1)
        BY <2>1, <2>3, <2>5, <4>1
      <4> QED
        BY <2>1, <2>4, <4>1, <4>2
    <3> QED
      BY <2>2, <2>6, <3>1, <3>2 DEF QueueGoesOn
  <2>11. KeptIsSynced'
    <3>1. ASSUME recorder[p] = "awaiting", queue'[p] = <<>>
          PROVE  sequence[p] <= synced'
      <4>1. Len(queue[p]) = 1
        <5>0. Len(<<>>) = 0
          OBVIOUS
        <5>1. Len(Tail(queue[p])) = 0
          BY <2>5, <3>1, <5>0
        <5> QED
          BY <2>1, <2>3, <5>1
      <4>2. Head(queue[p]) = sequence[p]
        BY <2>1, <2>3, <4>1
      <4> QED
        BY <2>1, <2>2, <2>4, <3>1, <4>1, <4>2
    <3>2. \A number \in kept : number <= synced'
      BY <1>0, <2>1, <2>7 DEF KeptIsSynced, TraceType
    <3> QED
      BY <2>2, <2>6, <2>7, <3>1, <3>2 DEF KeptIsSynced
  <2> QED
    BY <2>8, <2>9, <2>10, <2>11 DEF TraceInv
<1>7. ASSUME NEW p \in Processes, Audit!WriteFails(p)
      PROVE  TraceInv'
  <2>1. /\ recorder[p] \in {"open", "awaiting"} /\ queue[p] # <<>>
        /\ traceTail = "clean" /\ queue[p] \in Seq(Nat) /\ Len(traceFile) \in Nat
        /\ traceFile \in Seq(Nat)
        /\ Head(queue[p]) = Len(traceFile) + 1
    BY <1>0, <1>7 DEF Audit!WriteFails, QueueGoesOn, TraceType
  <2>2. /\ recorder'[p] = "broken" /\ queue'[p] = <<>>
        /\ recorder' \in [Processes -> {"none", "open", "awaiting", "broken"}]
        /\ queue' \in [Processes -> Seq(Nat)]
        /\ \A q \in Processes \ {p} : recorder'[q] = recorder[q] /\ queue'[q] = queue[q]
        /\ UNCHANGED <<sequence, synced, writing, kept>>
        /\ traceFile' = traceFile \/ traceFile' = Append(traceFile, Head(queue[p]))
    BY <1>0, <1>7, <2>1 DEF Audit!WriteFails, TraceType, Audit!Written
  <2>3. /\ traceFile' \in Seq(Nat) /\ Len(traceFile) <= Len(traceFile')
        /\ \A i \in 1 .. Len(traceFile') : traceFile'[i] = i
    <3>1. \A i \in 1 .. Len(traceFile) : traceFile[i] = i
      BY <1>0 DEF FileIsNumbered
    <3>2. CASE traceFile' = traceFile
      BY <2>1, <3>1, <3>2
    <3>3. CASE traceFile' = Append(traceFile, Len(traceFile) + 1)
      <4>1. /\ traceFile' \in Seq(Nat) /\ Len(traceFile') = Len(traceFile) + 1
            /\ \A i \in 1 .. Len(traceFile) : traceFile'[i] = traceFile[i]
            /\ traceFile'[Len(traceFile) + 1] = Len(traceFile) + 1
        BY <2>1, <3>3, RowAppended
      <4>2. \A i \in 1 .. Len(traceFile') :
                i \in 1 .. Len(traceFile) \/ i = Len(traceFile) + 1
        BY <2>1, <4>1
      <4> QED
        BY <2>1, <3>1, <4>1, <4>2
    <3> QED
      BY <2>1, <2>2, <3>2, <3>3
  <2>4. \A q \in Processes \ {p} : recorder[q] = "none"
    BY <1>0, <2>1 DEF OneRecords
  <2>5. TraceType' /\ OneRecords' /\ BrokenQueuesNothing'
    BY <1>0, <2>1, <2>2, <2>3 DEF TraceType, OneRecords, BrokenQueuesNothing
  <2>6. FileIsNumbered'
    BY <2>3 DEF FileIsNumbered
  <2>7. QueueGoesOn'
    BY <2>2, <2>4 DEF QueueGoesOn
  <2>8. KeptIsSynced'
    <3>1. synced <= Len(traceFile')
      BY <1>0, <2>1, <2>3 DEF KeptIsSynced, TraceType
    <3> QED
      BY <1>0, <2>2, <2>4, <3>1 DEF KeptIsSynced
  <2> QED
    BY <2>5, <2>6, <2>7, <2>8 DEF TraceInv
<1>e. ASSUME NEW gone \in SUBSET Processes, Audit!Ends(gone)
      PROVE  /\ recorder' \in [Processes -> {"none", "open", "awaiting", "broken"}]
             /\ queue' \in [Processes -> Seq(Nat)]
             /\ \A q \in gone :
                    recorder'[q] = "none" /\ queue'[q] = <<>> /\ q \notin writing'
             /\ \A q \in Processes \ gone :
                   recorder'[q] = recorder[q] /\ queue'[q] = queue[q] /\ (q \in writing' <=> q \in writing)
             /\ writing' \subseteq writing
             /\ UNCHANGED <<sequence, kept>>
  <2>1. <<>> \in Seq(Nat)
    OBVIOUS
  <2> QED
    BY <1>0, <1>e, <2>1 DEF Audit!Ends, TraceType
<1>8. ASSUME NEW p \in Processes, Audit!Crash(p)
      PROVE  TraceInv'
  <2>1. /\ recorder' \in [Processes -> {"none", "open", "awaiting", "broken"}]
        /\ queue' \in [Processes -> Seq(Nat)]
        /\ recorder'[p] = "none" /\ queue'[p] = <<>> /\ p \notin writing'
        /\ \A q \in Processes \ {p} :
              recorder'[q] = recorder[q] /\ queue'[q] = queue[q] /\ (q \in writing' <=> q \in writing)
        /\ writing' \subseteq writing
        /\ UNCHANGED <<sequence, kept, synced>>
    BY <1>8, <1>e DEF Audit!Crash
  <2>2. \A q \in Processes \ {p} : recorder[q] = "none"
    BY <1>0, <1>8 DEF OneRecords, Audit!Crash
  <2>3. traceFile' = traceFile \/ (traceFile' = Append(traceFile, Len(traceFile) + 1))
    <3>1. CASE queue[p] # <<>> /\ traceTail = "clean" /\ traceFile' = Append(traceFile, Head(queue[p]))
      <4>1. recorder[p] # "none"
        BY <1>0, <3>1 DEF OneRecords
      <4>2. queue[p] \in Seq(Nat)
        BY <1>0 DEF TraceType
      <4>3. recorder[p] \in {"open", "awaiting"} \/ recorder[p] = "broken"
        BY <1>0, <4>1 DEF TraceType
      <4>4. recorder[p] # "broken"
        BY <1>0, <3>1 DEF BrokenQueuesNothing
      <4>5. 1 \in 1 .. Len(queue[p]) /\ Head(queue[p]) = queue[p][1]
        BY <3>1, <4>2
      <4>6. queue[p][1] = Len(traceFile) + 1
        BY <1>0, <4>3, <4>4, <4>5 DEF QueueGoesOn
      <4> QED
        BY <3>1, <4>5, <4>6
    <3> QED
      BY <1>8, <3>1 DEF Audit!Crash
  <2>4. /\ traceFile' \in Seq(Nat) /\ Len(traceFile) <= Len(traceFile')
        /\ \A i \in 1 .. Len(traceFile') : traceFile'[i] = i
        /\ Len(traceFile') \in Nat /\ Len(traceFile) \in Nat /\ synced \in Nat
    <3>0. traceFile \in Seq(Nat) /\ Len(traceFile) \in Nat /\ synced \in Nat
      BY <1>0 DEF TraceType
    <3>1. \A i \in 1 .. Len(traceFile) : traceFile[i] = i
      BY <1>0 DEF FileIsNumbered
    <3>2. CASE traceFile' = traceFile
      BY <3>0, <3>1, <3>2
    <3>3. CASE traceFile' = Append(traceFile, Len(traceFile) + 1)
      <4>1. /\ traceFile' \in Seq(Nat) /\ Len(traceFile') = Len(traceFile) + 1
            /\ \A i \in 1 .. Len(traceFile) : traceFile'[i] = traceFile[i]
            /\ traceFile'[Len(traceFile) + 1] = Len(traceFile) + 1
        BY <3>0, <3>3, RowAppended
      <4>2. \A i \in 1 .. Len(traceFile') :
                i \in 1 .. Len(traceFile) \/ i = Len(traceFile) + 1
        BY <3>0, <4>1
      <4> QED
        BY <3>0, <3>1, <4>1, <4>2
    <3> QED
      BY <2>3, <3>2, <3>3
  <2>5. TraceType' /\ OneRecords' /\ BrokenQueuesNothing'
    BY <1>0, <2>1, <2>4 DEF TraceType, OneRecords, BrokenQueuesNothing
  <2>6. FileIsNumbered'
    BY <2>4 DEF FileIsNumbered
  <2>7. QueueGoesOn'
    BY <2>1, <2>2 DEF QueueGoesOn
  <2>8. KeptIsSynced'
    <3>1. synced <= Len(traceFile')
      BY <1>0, <2>4 DEF KeptIsSynced
    <3> QED
      BY <1>0, <2>1, <2>2, <3>1 DEF KeptIsSynced
  <2> QED
    BY <2>5, <2>6, <2>7, <2>8 DEF TraceInv
<1>9. CASE Audit!PowerCut
  <2>1. /\ recorder' \in [Processes -> {"none", "open", "awaiting", "broken"}]
        /\ queue' \in [Processes -> Seq(Nat)]
        /\ \A q \in Processes : recorder'[q] = "none" /\ queue'[q] = <<>>
        /\ writing' \subseteq writing
        /\ UNCHANGED <<sequence, kept, synced>>
    BY <1>9, <1>e DEF Audit!PowerCut
  <2>2. PICK n \in synced .. Len(traceFile) : traceFile' = SubSeq(traceFile, 1, n)
    BY <1>9 DEF Audit!PowerCut
  <2>3. traceFile \in Seq(Nat) /\ Len(traceFile) \in Nat /\ synced \in Nat /\ n \in Nat
    BY <1>0, <2>2 DEF TraceType
  <2>4. /\ traceFile' \in Seq(Nat) /\ Len(traceFile') = n
        /\ \A i \in 1 .. n : traceFile'[i] = traceFile[i]
    BY <2>2, <2>3
  <2>5. TraceType' /\ OneRecords' /\ BrokenQueuesNothing'
    BY <1>0, <2>1, <2>4 DEF TraceType, OneRecords, BrokenQueuesNothing
  <2>6. FileIsNumbered'
    BY <1>0, <2>2, <2>3, <2>4 DEF FileIsNumbered
  <2>7. QueueGoesOn' /\ KeptIsSynced'
    BY <1>0, <2>1, <2>2, <2>3, <2>4 DEF QueueGoesOn, KeptIsSynced, TraceType
  <2> QED
    BY <2>5, <2>6, <2>7 DEF TraceInv
<1> QED
  BY <1>1, <1>2, <1>3, <1>4, <1>5, <1>6, <1>7, <1>8, <1>9 DEF Audit!Next

LEMMA TraceIsComplete == TraceInv => Audit!AuditIsComplete
<1> SUFFICES ASSUME TraceInv
             PROVE  Audit!AuditIsComplete
  OBVIOUS
<1>1. DOMAIN traceFile = 1 .. Len(traceFile) /\ Len(traceFile) \in Nat /\ synced \in Nat /\ kept \subseteq Nat
  BY DEF TraceInv, TraceType
<1> QED
  BY <1>1 DEF TraceInv, FileIsNumbered, KeptIsSynced, Audit!AuditIsComplete

\* The rows of the audit are numbered from one without a gap or a repetition,
\* whatever processes and machines crashed in between, and a row whose command was
\* told it is durable stays among them (AuditIsComplete: recover_last_sequence and
\* record_and_flush).
THEOREM AuditCompletes == Spec => []AuditIsComplete
<1>1. Init => TraceInv
  BY TraceInit DEF Init
<1>2. TraceInv /\ [Next]_vars => TraceInv'
  BY TraceStep, Moving
<1>3. TraceInv => AuditIsComplete
  BY TraceIsComplete DEF AuditIsComplete
<1> QED
  BY <1>1, <1>2, <1>3, PTL DEF Spec

-----------------------------------------------------------------------------
(* The files of sessions.                                                  *)

\* The file of a result, and the row that refers to it.
FileOf(r) == [path |-> r, of |-> r]
Rows == [of : Deleting!Results, path : Deleting!Results \cup {Deleting!NoPath}]

FilesType ==
    /\ there \in [Family -> {"new", "there", "gone"}]
    /\ messages \in [Family -> SUBSET Rows]
    /\ progress \in [Deleting!Results -> {"none", "persisting", "stored", "plain", "done", "dropped"}]
    /\ writer \in [Deleting!Results -> {"none", "writing", "written", "failed"}]
    /\ files \subseteq [path : Deleting!Results, of : Deleting!Results]
    /\ remover \in [at : {"idle", "unlinking"} \cup Family, paths : SUBSET Deleting!Results]

\* What the thread has written is what the call refers to.
WritersAgree ==
    \A r \in Deleting!Results :
        /\ progress[r] = "none" => writer[r] = "none"
        /\ progress[r] # "none" => there[r[1]] # "new"
        /\ progress[r] = "stored" => writer[r] = "written"
        /\ progress[r] = "plain" => writer[r] = "failed"
        /\ progress[r] = "done" => writer[r] \in {"written", "failed"}
        /\ writer[r] = "written" /\ progress[r] # "done" => FileOf(r) \in files

FilesAreWritten ==
    \A f \in files : f.path = f.of /\ writer[f.of] = "written"

\* A row is its session's, and refers to its own result or to none.
RowsBelong ==
    \A s \in Family : \A m \in messages[s] :
        /\ m.of[1] = s /\ there[s] = "there" /\ progress[m.of] = "done"
        /\ m.path = Deleting!NoPath \/ (m.path = m.of /\ FileOf(m.of) \in files)

\* A written result of a session that is there has its row.
ResultsHaveRows ==
    \A r \in Deleting!Results :
        progress[r] = "done" /\ writer[r] = "written" /\ there[r[1]] = "there" =>
            \E m \in messages[r[1]] : m.path = r

\* What is being unlinked belonged to a session that is gone.
UnlinkedIsGone ==
    /\ \A r \in remover.paths : there[r[1]] = "gone" /\ progress[r] = "done"
    /\ remover.at # "unlinking" => remover.paths = {}

ParentsAreThere ==
    \A s \in Family :
        there[s] = "there" /\ ParentOf[s] # NoParent => there[ParentOf[s]] = "there"
NothingIsLeft ==
    \A f \in files :
        there[f.of[1]] = "gone" /\ progress[f.of] = "done" =>
            f.path \in remover.paths \cup left

FilesInv ==
    /\ FilesType /\ WritersAgree /\ FilesAreWritten /\ RowsBelong /\ ResultsHaveRows
    /\ UnlinkedIsGone /\ ParentsAreThere /\ NothingIsLeft

LEMMA ResultsArePairs ==
    ASSUME NEW r \in Deleting!Results
    PROVE  r[1] \in Family /\ r # Deleting!NoPath
  BY DEF Deleting!Results, Deleting!NoPath

LEMMA FilesInit == Deleting!Init => FilesInv
<1> SUFFICES ASSUME Deleting!Init
             PROVE  FilesInv
  OBVIOUS
<1>1. FilesType
  BY DEF Deleting!Init, FilesType, Deleting!NoRemover
<1>2. /\ WritersAgree /\ FilesAreWritten /\ RowsBelong /\ ResultsHaveRows
      /\ UnlinkedIsGone /\ ParentsAreThere /\ NothingIsLeft
  BY DEF Deleting!Init, WritersAgree, FilesAreWritten, RowsBelong, ResultsHaveRows,
     UnlinkedIsGone, ParentsAreThere, NothingIsLeft, Deleting!NoRemover
<1> QED
  BY <1>1, <1>2 DEF FilesInv

\* A deletion takes all that is below the session, and what its rows refer to.
LEMMA Deletes ==
    ASSUME FilesInv, Deleting!DeleteTree
    PROVE  \E deleted \in SUBSET Family :
              /\ \A s \in Family :
                     there'[s] = (IF s \in deleted THEN "gone" ELSE there[s])
              /\ \A s \in Family :
                     messages'[s] = (IF s \in deleted THEN {} ELSE messages[s])
              /\ messages' \in [Family -> SUBSET Rows]
              /\ there' \in [Family -> {"new", "there", "gone"}]
              /\ remover'.at = "unlinking"
              /\ remover'.paths =
                    {r \in Deleting!Results : \E s \in deleted : \E m \in messages[s] : m.path = r}
              /\ remover' \in [at : {"idle", "unlinking"} \cup Family, paths : SUBSET Deleting!Results]
              /\ \A s \in Family :
                    there[s] = "there" /\ ParentOf[s] \in deleted => s \in deleted
<1> DEFINE deleted == Deleting!Below(remover.at)
           paths2 == Deleting!Referred(deleted) \ Deleting!Referred(Family \ deleted)
<1>0. /\ FilesType /\ RowsBelong
      /\ remover' = [at |-> "unlinking", paths |-> paths2]
      /\ there' = [s \in Family |-> IF s \in deleted THEN "gone" ELSE there[s]]
      /\ messages' = [s \in Family |-> IF s \in deleted THEN {} ELSE messages[s]]
  BY DEF FilesInv, Deleting!DeleteTree
<1>1. deleted \in SUBSET Family
  BY DEF Deleting!Below
<1>2. ASSUME NEW s \in Family, there[s] = "there", ParentOf[s] \in deleted
      PROVE  s \in deleted
  <2> SUFFICES ASSUME NEW some \in SUBSET Family, remover.at \in some,
                      Deleting!Closed(some)
               PROVE  s \in some
    BY DEF Deleting!Below
  <2>1. ParentOf[s] \in some
    BY <1>2 DEF Deleting!Below
  <2> QED
    BY <1>2, <2>1 DEF Deleting!Closed
<1> HIDE DEF deleted
<1>3. ASSUME NEW x
      PROVE  x \in paths2 <=> x \in Deleting!Results /\ \E s \in deleted :
                 \E m \in messages[s] : m.path = x
  <2>1. \A sessions \in SUBSET Family :
            x \in Deleting!Referred(sessions) <=> x # Deleting!NoPath /\ \E s \in sessions : \E m \in messages[s] : m.path = x
    BY DEF Deleting!Referred
  <2>2. \A s \in Family : \A m \in messages[s] :
            m.path # Deleting!NoPath => m.path \in Deleting!Results /\ m.path[1] = s
    BY <1>0 DEF RowsBelong, FilesType, Rows
  <2>3. x \in Deleting!Results => x # Deleting!NoPath
    BY ResultsArePairs
  <2>4. (Family \ deleted) \in SUBSET Family
    OBVIOUS
  <2>5. x \in Deleting!Referred(deleted) <=> x \in Deleting!Results /\ \E s \in deleted :
            \E m \in messages[s] : m.path = x
    BY <1>1, <2>1, <2>2, <2>3
  <2>6. x \in Deleting!Referred(deleted) => x[1] \in deleted
    BY <1>1, <2>1, <2>2
  <2>7. x \in Deleting!Referred(Family \ deleted) => x[1] \notin deleted
    BY <2>1, <2>2, <2>4
  <2> QED
    BY <2>5, <2>6, <2>7
<1>4. paths2 = {r \in Deleting!Results : \E s \in deleted : \E m \in messages[s] : m.path = r}
  BY <1>3
<1> HIDE DEF paths2
<1>5. remover'.at = "unlinking" /\ remover'.paths = paths2
  BY <1>0
<1>6. remover' \in [at : {"idle", "unlinking"} \cup Family, paths : SUBSET Deleting!Results]
  <2>1. paths2 \in SUBSET Deleting!Results
    BY <1>4
  <2> QED
    BY <1>0, <2>1
<1>7. /\ messages' \in [Family -> SUBSET Rows]
      /\ there' \in [Family -> {"new", "there", "gone"}]
  BY <1>0 DEF FilesType
<1>8. /\ \A s \in Family : there'[s] = (IF s \in deleted THEN "gone" ELSE there[s])
      /\ \A s \in Family : messages'[s] = (IF s \in deleted THEN {} ELSE messages[s])
  BY <1>0
<1> QED
  BY <1>1, <1>2, <1>4, <1>5, <1>6, <1>7, <1>8

\* What a step of a call changes.
LEMMA CallMoves ==
    ASSUME FilesInv,
           NEW r \in Deleting!Results, UNCHANGED <<there, messages, remover, left>>,
           NEW p \in {"none", "persisting", "stored", "plain", "dropped"},
           NEW w \in {"none", "writing", "written", "failed"},
           progress' = [progress EXCEPT ![r] = p], writer' = [writer EXCEPT ![r] = w],
           progress[r] # "done",
           p # "none" => there[r[1]] # "new",
           p = "none" => w = "none", p = "stored" => w = "written", p = "plain" =>
               w = "failed",
           \/ files' = files /\ (w = "written" <=> writer[r] = "written")
           \/ writer[r] # "written" /\ w = "written"
              /\ files' = {f \in files : f.path # r} \cup {FileOf(r)}
           \/ writer[r] # "written" /\ w # "written" /\ files' = files
    PROVE  FilesInv'
<1>0. /\ FilesType /\ WritersAgree /\ FilesAreWritten /\ RowsBelong /\ ResultsHaveRows
      /\ UnlinkedIsGone /\ ParentsAreThere /\ NothingIsLeft
  BY DEF FilesInv
<1>1. /\ progress' \in [Deleting!Results -> {"none", "persisting", "stored", "plain", "done", "dropped"}]
      /\ writer' \in [Deleting!Results -> {"none", "writing", "written", "failed"}]
      /\ progress'[r] = p /\ writer'[r] = w
      /\ \A q \in Deleting!Results \ {r} :
             progress'[q] = progress[q] /\ writer'[q] = writer[q]
  BY <1>0 DEF FilesType
<1>2. FileOf(r) \in [path : Deleting!Results, of : Deleting!Results] /\ FileOf(r).path = r /\ FileOf(r).of = r
  BY DEF FileOf
<1>3. \A f \in files' : f \in files \/ (f = FileOf(r) /\ w = "written")
  OBVIOUS
<1>4. \A f \in files : f \in files' \/ f.path = r
  OBVIOUS
<1>5. \A q \in Deleting!Results : FileOf(q) \in files => FileOf(q) \in files'
  BY <1>4 DEF FileOf
<1>6. w = "written" => FileOf(r) \in files'
  BY <1>0, <1>5 DEF WritersAgree
<1>7. FilesType'
  BY <1>0, <1>1, <1>2, <1>3 DEF FilesType
<1>8. WritersAgree'
  BY <1>0, <1>1, <1>5, <1>6 DEF WritersAgree
<1>9. FilesAreWritten'
  <2> SUFFICES ASSUME NEW f \in files'
               PROVE  f.path = f.of /\ writer'[f.of] = "written"
    BY DEF FilesAreWritten
  <2>1. CASE f = FileOf(r) /\ w = "written"
    BY <1>1, <1>2, <2>1
  <2>2. CASE f \in files /\ f.of # r
    BY <1>0, <1>1, <2>2 DEF FilesAreWritten, FilesType
  <2>3. CASE f \in files /\ f.of = r
    <3>1. writer[r] = "written" /\ f.path = r
      BY <1>0, <2>3 DEF FilesAreWritten
    <3> QED
      BY <1>1, <2>3, <3>1
  <2> QED
    BY <1>3, <2>1, <2>2, <2>3
<1>10. RowsBelong'
  BY <1>0, <1>5 DEF RowsBelong, FilesType, Rows
<1>11. ResultsHaveRows'
  BY <1>0, <1>1 DEF ResultsHaveRows
<1>12. UnlinkedIsGone'
  BY <1>0, <1>1 DEF UnlinkedIsGone, FilesType
<1>13. ParentsAreThere'
  BY <1>0 DEF ParentsAreThere
<1>14. NothingIsLeft'
  <2> SUFFICES ASSUME NEW f \in files', there[f.of[1]] = "gone", progress'[f.of] = "done"
               PROVE  f.path \in remover.paths \cup left
    BY DEF NothingIsLeft
  <2>1. f.of # r
    BY <1>1
  <2>2. f \in files /\ f.of \in Deleting!Results
    BY <1>0, <1>2, <1>3, <2>1 DEF FilesType
  <2> QED
    BY <1>0, <1>1, <2>1, <2>2 DEF NothingIsLeft
<1> QED
  BY <1>7, <1>8, <1>9, <1>10, <1>11, <1>12, <1>13, <1>14 DEF FilesInv

LEMMA FilesStep == FilesInv /\ [Deleting!Next]_(Deleting!vars) => FilesInv'
<1> SUFFICES ASSUME FilesInv, [Deleting!Next]_(Deleting!vars)
             PROVE  FilesInv'
  OBVIOUS
<1> USE FamilyAssumption DEF Deleting!callVars, Deleting!deletionVars
<1>0. /\ FilesType /\ WritersAgree /\ FilesAreWritten /\ RowsBelong /\ ResultsHaveRows
      /\ UnlinkedIsGone /\ ParentsAreThere /\ NothingIsLeft
  BY DEF FilesInv
<1>p. \A r \in Deleting!Results : r[1] \in Family /\ r # Deleting!NoPath
  BY ResultsArePairs
<1>1. CASE UNCHANGED Deleting!vars
  BY <1>0, <1>1 DEF Deleting!vars, FilesInv, FilesType, WritersAgree, FilesAreWritten,
     RowsBelong,
     ResultsHaveRows, UnlinkedIsGone, ParentsAreThere, NothingIsLeft
<1>2. ASSUME NEW s \in Family, Deleting!Create(s)
      PROVE  FilesInv'
  <2>1. /\ there[s] = "new" /\ there'[s] = "there"
        /\ \A t \in Family \ {s} : there'[t] = there[t]
        /\ there' \in [Family -> {"new", "there", "gone"}]
        /\ ParentOf[s] # NoParent => there[ParentOf[s]] = "there"
        /\ UNCHANGED <<messages, progress, writer, files, remover, left>>
    BY <1>0, <1>2 DEF Deleting!Create, FilesType
  <2>2. FilesType' /\ WritersAgree' /\ FilesAreWritten'
    BY <1>0, <1>p, <2>1 DEF FilesType, WritersAgree, FilesAreWritten
  <2>3. RowsBelong'
    BY <1>0, <2>1 DEF RowsBelong
  <2>4. UnlinkedIsGone'
    BY <1>0, <1>p, <2>1 DEF UnlinkedIsGone, FilesType
  <2>5. ParentsAreThere'
    BY <1>0, <2>1 DEF ParentsAreThere
  <2>6. NothingIsLeft'
    BY <1>0, <1>p, <2>1 DEF NothingIsLeft, FilesType
  <2>7. ResultsHaveRows'
    BY <1>0, <1>p, <2>1 DEF ResultsHaveRows, WritersAgree
  <2> QED
    BY <2>2, <2>3, <2>4, <2>5, <2>6, <2>7 DEF FilesInv
<1>3. ASSUME NEW s \in Family, Deleting!LookUp(s)
      PROVE  FilesInv'
  <2>1. /\ remover.at = "idle" /\ remover'.at = s /\ remover'.paths = remover.paths
        /\ remover' \in [at : {"idle", "unlinking"} \cup Family, paths : SUBSET Deleting!Results]
        /\ UNCHANGED <<there, messages, progress, writer, files, left>>
    BY <1>0, <1>3 DEF Deleting!LookUp, FilesType
  <2>2. FilesType' /\ WritersAgree' /\ FilesAreWritten' /\ RowsBelong' /\ ResultsHaveRows' /\ ParentsAreThere'
    BY <1>0, <2>1 DEF FilesType, WritersAgree, FilesAreWritten, RowsBelong,
       ResultsHaveRows, ParentsAreThere
  <2>3. UnlinkedIsGone' /\ NothingIsLeft'
    BY <1>0, <2>1 DEF UnlinkedIsGone, NothingIsLeft
  <2> QED
    BY <2>2, <2>3 DEF FilesInv
<1>4. ASSUME NEW r \in Deleting!Results, Deleting!Persist(r)
      PROVE  FilesInv'
  BY <1>0, <1>4, CallMoves DEF Deleting!Persist, WritersAgree
<1>a. ASSUME NEW r \in Deleting!Results, writer[r] = "writing"
      PROVE  progress[r] \in {"persisting", "dropped"}
  BY <1>0, <1>a DEF WritersAgree, FilesType
<1>d. ASSUME NEW r \in Deleting!Results, progress[r] # "none"
      PROVE  there[r[1]] # "new"
  BY <1>0, <1>d DEF WritersAgree
<1>b. progress = [r \in Deleting!Results |-> progress[r]] /\ writer = [r \in Deleting!Results |-> writer[r]]
  BY <1>0 DEF FilesType
<1>c. ASSUME NEW r \in Deleting!Results
      PROVE  /\ progress = [progress EXCEPT ![r] = progress[r]]
             /\ writer = [writer EXCEPT ![r] = writer[r]]
  BY <1>b
<1>5. ASSUME NEW r \in Deleting!Results, Deleting!Write(r)
      PROVE  FilesInv'
  <2>1. /\ writer[r] = "writing" /\ writer' = [writer EXCEPT ![r] = "written"]
        /\ files' = {f \in files : f.path # r} \cup {FileOf(r)}
        /\ progress' = [progress EXCEPT ![r] = progress[r]]
        /\ UNCHANGED <<there, messages, remover, left>>
    BY <1>5, <1>c DEF Deleting!Write, Deleting!Identity, FileOf
  <2> QED
    BY <1>a, <1>d, <2>1, CallMoves
<1>6. ASSUME NEW r \in Deleting!Results, Deleting!WriteFails(r)
      PROVE  FilesInv'
  <2>1. /\ writer[r] = "writing" /\ writer' = [writer EXCEPT ![r] = "failed"]
        /\ progress' = [progress EXCEPT ![r] = progress[r]]
        /\ UNCHANGED <<there, messages, files, remover, left>>
    BY <1>6, <1>c DEF Deleting!WriteFails
  <2> QED
    BY <1>a, <1>d, <2>1, CallMoves
<1>7. ASSUME NEW r \in Deleting!Results, Deleting!Persisted(r)
      PROVE  FilesInv'
  <2>1. /\ progress[r] = "persisting" /\ writer[r] \in {"written", "failed"}
        /\ progress' =
               [progress EXCEPT ![r] = IF writer[r] = "written" THEN "stored" ELSE "plain"]
        /\ writer' = [writer EXCEPT ![r] = writer[r]]
        /\ UNCHANGED <<there, messages, files, remover, left>>
    BY <1>7, <1>c DEF Deleting!Persisted
  <2> QED
    BY <1>d, <2>1, CallMoves
<1>8. ASSUME NEW r \in Deleting!Results, Deleting!CancelCall(r)
      PROVE  FilesInv'
  <2>1. /\ progress[r] # "done"
        /\ writer[r] \in {"none", "writing", "written", "failed"}
        /\ progress' = [progress EXCEPT ![r] = "dropped"]
        /\ writer' = [writer EXCEPT ![r] = writer[r]]
        /\ UNCHANGED <<there, messages, files, remover, left>>
    BY <1>0, <1>8, <1>c DEF Deleting!CancelCall, FilesType
  <2> QED
    BY <1>d, <1>8, <2>1, CallMoves DEF Deleting!CancelCall
<1>9. ASSUME NEW r \in Deleting!Results, Deleting!AppendResult(r)
      PROVE  FilesInv'
  <2>1. CASE there[r[1]] # "there"
    <3>1. /\ progress[r] # "done"
          /\ writer[r] \in {"none", "writing", "written", "failed"}
          /\ progress' = [progress EXCEPT ![r] = "dropped"]
          /\ writer' = [writer EXCEPT ![r] = writer[r]]
          /\ UNCHANGED <<there, messages, files, remover, left>>
      BY <1>0, <1>9, <1>c, <2>1 DEF Deleting!AppendResult, FilesType
    <3> QED
      BY <1>d, <1>9, <3>1, CallMoves DEF Deleting!AppendResult
  <2>2. CASE there[r[1]] = "there"
    <3> DEFINE row == [of |-> r, path |-> IF progress[r] = "stored" THEN r ELSE Deleting!NoPath]
    <3>1. /\ progress[r] \in {"stored", "plain"}
          /\ progress' = [progress EXCEPT ![r] = "done"]
          /\ messages' = [messages EXCEPT ![r[1]] = @ \cup {row}]
          /\ UNCHANGED <<there, writer, files, remover, left>>
      BY <1>9, <2>2 DEF Deleting!AppendResult, Deleting!Identity
    <3>2. row \in Rows /\ row.of = r /\ row.path = (IF progress[r] = "stored" THEN r ELSE Deleting!NoPath)
      BY DEF Rows
    <3> HIDE DEF row
    <3>3. /\ progress' \in [Deleting!Results -> {"none", "persisting", "stored", "plain", "done", "dropped"}]
          /\ progress'[r] = "done"
          /\ \A q \in Deleting!Results \ {r} : progress'[q] = progress[q]
          /\ messages' \in [Family -> SUBSET Rows]
          /\ messages'[r[1]] = messages[r[1]] \cup {row}
          /\ \A s \in Family \ {r[1]} : messages'[s] = messages[s]
      BY <1>0, <1>p, <3>1, <3>2 DEF FilesType
    <3>4. FilesType'
      BY <1>0, <3>1, <3>3 DEF FilesType
    <3>5. WritersAgree' /\ FilesAreWritten'
      BY <1>0, <3>1, <3>3 DEF WritersAgree, FilesAreWritten
    <3>6. RowsBelong'
      <4> SUFFICES ASSUME NEW s \in Family, NEW m \in messages'[s]
                   PROVE  /\ m.of[1] = s /\ there[s] = "there"
                          /\ progress'[m.of] = "done"
                          /\ m.path = Deleting!NoPath \/ (m.path = m.of /\ FileOf(m.of) \in files)
        BY <3>1 DEF RowsBelong
      <4>1. CASE m \in messages[s]
        BY <1>0, <3>3, <4>1 DEF RowsBelong, FilesType, Rows
      <4>2. CASE m = row /\ s = r[1]
        BY <1>0, <2>2, <3>1, <3>2, <3>3, <4>2 DEF WritersAgree
      <4> QED
        BY <3>3, <4>1, <4>2
    <3>7. ResultsHaveRows'
      <4> SUFFICES ASSUME NEW q \in Deleting!Results, progress'[q] = "done", writer[q] = "written", there[q[1]] = "there"
                   PROVE  \E m \in messages'[q[1]] : m.path = q
        BY <3>1 DEF ResultsHaveRows
      <4>1. CASE q = r
        <5>1. progress[r] = "stored"
          BY <1>0, <3>1, <4>1 DEF WritersAgree
        <5>2. row \in messages'[q[1]] /\ row.path = q
          BY <3>2, <3>3, <4>1, <5>1
        <5> QED
          BY <5>2
      <4>2. CASE q # r
        <5>1. PICK m \in messages[q[1]] : m.path = q
          BY <1>0, <3>3, <4>2 DEF ResultsHaveRows
        <5>2. m \in messages'[q[1]]
          BY <1>p, <3>3
        <5> QED
          BY <5>1, <5>2
      <4> QED
        BY <4>1, <4>2
    <3>8. UnlinkedIsGone' /\ ParentsAreThere'
      BY <1>0, <3>1, <3>3 DEF UnlinkedIsGone, ParentsAreThere, FilesType
    <3>9. NothingIsLeft'
      BY <1>0, <2>2, <3>1, <3>3 DEF NothingIsLeft, FilesType
    <3> QED
      BY <3>4, <3>5, <3>6, <3>7, <3>8, <3>9 DEF FilesInv
  <2> QED
    BY <2>1, <2>2
<1>10. CASE Deleting!AgentsCrash
  <2>1. /\ \A r \in Deleting!Results : progress'[r] =
              (IF progress[r] \in {"persisting", "stored", "plain"} THEN "dropped" ELSE progress[r])
        /\ \A r \in Deleting!Results :
               writer'[r] = (IF writer[r] = "writing" THEN "failed" ELSE writer[r])
        /\ progress' \in [Deleting!Results -> {"none", "persisting", "stored", "plain", "done", "dropped"}]
        /\ writer' \in [Deleting!Results -> {"none", "writing", "written", "failed"}]
        /\ UNCHANGED <<there, messages, files, remover, left>>
    BY <1>0, <1>10 DEF Deleting!AgentsCrash, FilesType
  <2>2. FilesType'
    BY <1>0, <2>1 DEF FilesType
  <2>3. WritersAgree'
    BY <1>0, <2>1 DEF WritersAgree, FilesType
  <2>4. FilesAreWritten'
    BY <1>0, <2>1 DEF FilesAreWritten, FilesType
  <2>5. RowsBelong' /\ ParentsAreThere'
    BY <1>0, <2>1 DEF RowsBelong, ParentsAreThere, FilesType, Rows
  <2>6. ResultsHaveRows'
    BY <1>0, <2>1 DEF ResultsHaveRows, FilesType
  <2>7. UnlinkedIsGone'
    BY <1>0, <2>1 DEF UnlinkedIsGone, FilesType
  <2>8. NothingIsLeft'
    BY <1>0, <2>1 DEF NothingIsLeft, FilesType
  <2> QED
    BY <2>2, <2>3, <2>4, <2>5, <2>6, <2>7, <2>8 DEF FilesInv
<1>11. CASE Deleting!DeleteTree
  <2>1. PICK deleted \in SUBSET Family :
              /\ \A s \in Family :
                     there'[s] = (IF s \in deleted THEN "gone" ELSE there[s])
              /\ \A s \in Family :
                     messages'[s] = (IF s \in deleted THEN {} ELSE messages[s])
              /\ messages' \in [Family -> SUBSET Rows]
              /\ there' \in [Family -> {"new", "there", "gone"}]
              /\ remover'.at = "unlinking"
              /\ remover'.paths =
                    {r \in Deleting!Results : \E s \in deleted : \E m \in messages[s] : m.path = r}
              /\ remover' \in [at : {"idle", "unlinking"} \cup Family, paths : SUBSET Deleting!Results]
              /\ \A s \in Family :
                    there[s] = "there" /\ ParentOf[s] \in deleted => s \in deleted
    BY <1>11, Deletes
  <2>2. UNCHANGED <<progress, writer, files, left>> /\ remover.paths = {}
    BY <1>0, <1>11 DEF Deleting!DeleteTree, UnlinkedIsGone
  <2>3. FilesType' /\ WritersAgree' /\ FilesAreWritten'
    BY <1>0, <1>p, <2>1, <2>2 DEF FilesType, WritersAgree, FilesAreWritten
  <2>4. RowsBelong'
    BY <1>0, <2>1, <2>2 DEF RowsBelong
  <2>5. ResultsHaveRows'
    BY <1>0, <1>p, <2>1, <2>2 DEF ResultsHaveRows
  <2>6. UnlinkedIsGone'
    <3>1. ASSUME NEW r \in remover'.paths
          PROVE  there'[r[1]] = "gone" /\ progress'[r] = "done"
      <4>1. PICK s \in deleted : \E m \in messages[s] : m.path = r
        BY <2>1, <3>1
      <4>2. PICK m \in messages[s] : m.path = r
        BY <4>1
      <4>3. r \in Deleting!Results /\ m.path = m.of /\ r[1] = s /\ FileOf(r) \in files
        BY <1>0, <1>p, <2>1, <3>1, <4>2 DEF RowsBelong
      <4>4. writer[r] = "written"
        BY <1>0, <4>3 DEF FilesAreWritten, FileOf
      <4>5. progress[r] = "done"
        BY <1>0, <2>1, <4>2, <4>3 DEF RowsBelong
      <4> QED
        BY <2>1, <2>2, <4>3, <4>5
    <3> QED
      BY <2>1, <3>1 DEF UnlinkedIsGone
  <2>7. ParentsAreThere'
    BY <1>0, <2>1 DEF ParentsAreThere
  <2>8. NothingIsLeft'
    <3> SUFFICES ASSUME NEW f \in files, there'[f.of[1]] = "gone", progress[f.of] = "done"
                 PROVE  f.path \in remover'.paths \cup left
      BY <2>2 DEF NothingIsLeft
    <3>1. f.of \in Deleting!Results /\ f.path = f.of /\ writer[f.of] = "written" /\ f.of[1] \in Family
      BY <1>0, <1>p DEF FilesType, FilesAreWritten
    <3>2. CASE there[f.of[1]] = "gone"
      BY <1>0, <2>2, <3>2 DEF NothingIsLeft
    <3>3. CASE f.of[1] \in deleted /\ there[f.of[1]] = "there"
      BY <1>0, <2>1, <3>1, <3>3 DEF ResultsHaveRows
    <3>4. CASE there[f.of[1]] = "new"
      BY <1>0, <3>1, <3>4 DEF WritersAgree
    <3> QED
      BY <1>0, <2>1, <3>1, <3>2, <3>3, <3>4 DEF FilesType
  <2> QED
    BY <2>3, <2>4, <2>5, <2>6, <2>7, <2>8 DEF FilesInv
<1>12. ASSUME NEW path \in remover.paths, Deleting!Unlink(path)
       PROVE  FilesInv'
  <2>1. /\ path \in Deleting!Results /\ there[path[1]] = "gone"
        /\ progress[path] = "done"
        /\ files' = {f \in files : f.path # path}
        /\ remover'.at = remover.at /\ remover'.paths = remover.paths \ {path}
        /\ remover' \in [at : {"idle", "unlinking"} \cup Family, paths : SUBSET Deleting!Results]
        /\ UNCHANGED <<there, messages, progress, writer, left>>
    BY <1>0, <1>12 DEF Deleting!Unlink, FilesType, UnlinkedIsGone
  <2>2. \A r \in Deleting!Results : r # path /\ FileOf(r) \in files =>
            FileOf(r) \in files'
    BY <2>1 DEF FileOf
  <2>3. FilesType' /\ FilesAreWritten' /\ ParentsAreThere' /\ ResultsHaveRows'
    BY <1>0, <2>1 DEF FilesType, FilesAreWritten, ParentsAreThere, ResultsHaveRows
  <2>4. WritersAgree'
    BY <1>0, <2>1, <2>2 DEF WritersAgree
  <2>5. RowsBelong'
    BY <1>0, <2>1, <2>2 DEF RowsBelong, FilesType, Rows
  <2>6. UnlinkedIsGone' /\ NothingIsLeft'
    BY <1>0, <2>1 DEF UnlinkedIsGone, NothingIsLeft
  <2> QED
    BY <2>3, <2>4, <2>5, <2>6 DEF FilesInv
<1>13. CASE Deleting!DeletionDone \/ Deleting!DeletionBreaksOff
  <2>1. /\ remover' = Deleting!NoRemover /\ remover.paths \subseteq left'
        /\ left \subseteq left'
        /\ UNCHANGED <<there, messages, progress, writer, files>>
    BY <1>13 DEF Deleting!DeletionDone, Deleting!DeletionBreaksOff
  <2>2. remover'.at = "idle" /\ remover'.paths = {}
    BY <2>1 DEF Deleting!NoRemover
  <2>3. remover' \in [at : {"idle", "unlinking"} \cup Family, paths : SUBSET Deleting!Results]
    BY <2>1 DEF Deleting!NoRemover
  <2>4. FilesType'
    BY <1>0, <2>1, <2>3 DEF FilesType
  <2>5. WritersAgree' /\ FilesAreWritten' /\ RowsBelong' /\ ResultsHaveRows' /\ ParentsAreThere'
    BY <1>0, <2>1 DEF WritersAgree, FilesAreWritten, RowsBelong, ResultsHaveRows,
       ParentsAreThere
  <2>6. UnlinkedIsGone' /\ NothingIsLeft'
    BY <1>0, <2>1, <2>2 DEF UnlinkedIsGone, NothingIsLeft
  <2> QED
    BY <2>4, <2>5, <2>6 DEF FilesInv
<1> QED
  BY <1>1, <1>2, <1>3, <1>4, <1>5, <1>6, <1>7, <1>8, <1>9, <1>10, <1>11, <1>12, <1>13
     DEF Deleting!Next

LEMMA FilesKept == FilesInv => Deleting!ReferencesAreKept
  BY DEF FilesInv, RowsBelong, ParentsAreThere, NothingIsLeft,
     Deleting!ReferencesAreKept, FileOf

\* A file that a row refers to is there and holds the result of that row's call,
\* and of a deleted session no file is left that is not being unlinked, however
\* writing, cancelling, crashing and deleting interleave (ReferencesAreKept:
\* ArtifactStore.persist, delete_session_tree, remove_session_files).
THEOREM ReferencesKept == Spec => []ReferencesAreKept
<1>1. Init => FilesInv
  BY FilesInit DEF Init
<1>2. FilesInv /\ [Next]_vars => FilesInv'
  BY FilesStep, Moving
<1>3. FilesInv => ReferencesAreKept
  BY FilesKept DEF ReferencesAreKept
<1> QED
  BY <1>1, <1>2, <1>3, PTL DEF Spec

-----------------------------------------------------------------------------
(* Hooks.                                                                  *)

IsSequence(s) == \E S : s \in Seq(S)

HooksType ==
    /\ awaiting \in [Dispatches -> Hooking!Places]
    /\ verdict \in [Dispatches -> Hooking!Verdicts]
    /\ plan = [d \in Dispatches |-> plan[d]]
    /\ invocation = [d \in Dispatches |-> invocation[d]]
    /\ trace = [d \in Dispatches |-> trace[d]]
    /\ \A d \in Dispatches : IsSequence(trace[d])
    /\ traceBroken \in BOOLEAN

\* What the records of a dispatch say of a hook, or of the dispatch.
HasEnded(names, hook) == \E e \in names : e.event = "end" /\ e.hook = hook
StartedHaveEnded(names, others) ==
    \A e \in names : e.event = "start" => e.hook \in others \/ HasEnded(names, e.hook)
HooksCompleted(names, others) ==
    \A e \in names : e.event = "end" /\ e.hook # {} =>
        e.status = "completed" \/ e.hook \in others

Told(d) == Hooking!Names(trace[d])
Latest(d) == trace[d][Len(trace[d])]

\* What a dispatch has told by the time it awaits.
StoryOf(d) ==
    /\ awaiting[d] = "new" => trace[d] = <<>> /\ invocation[d] = {}
    /\ awaiting[d] # "over" => verdict[d] = "none"
    /\ awaiting[d] \in Hooking!Awaits => StartedHaveEnded(Told(d), {{}, invocation[d]})
    /\ awaiting[d] \in {"started", "ending"} => invocation[d] = {}
    /\ awaiting[d] \in {"invoking", "running", "invoked"} =>
           invocation[d] = {Head(plan[d])}
    /\ d \in pre /\ awaiting[d] \in {"started", "invoking", "running"} =>
           HooksCompleted(Told(d), {})
    /\ awaiting[d] = "invoked" => HasEnded(Told(d), invocation[d])
    /\ d \in pre /\ awaiting[d] = "invoked" =>
          /\ HooksCompleted(Told(d), {invocation[d]})
          /\ Hooking!LastStatus(d) \notin {"blocked", "failed"} =>
                 HooksCompleted(Told(d), {})
    /\ awaiting[d] = "ending" =>
          /\ HasEnded(Told(d), {}) /\ Latest(d).hook = {}
          /\ Hooking!LastStatus(d) \in {"unblocked", "told", "blocked"}
          /\ Hooking!LastStatus(d) = "unblocked" => HooksCompleted(Told(d), {})
          /\ Hooking!LastStatus(d) = "blocked" =>
                 HooksCompleted(Told(d), {{Head(plan[d])}})
    /\ awaiting[d] = "over" /\ ~traceBroken =>
          /\ StartedHaveEnded(Told(d), {})
          /\ Latest(d).hook = {} /\ Latest(d).status = verdict[d]
    /\ verdict[d] = "unblocked" =>
          HooksCompleted(Told(d), {}) /\ StartedHaveEnded(Told(d), {{}})
    /\ verdict[d] = "blocked" =>
          HooksCompleted(Told(d), {{Head(plan[d])}}) /\ StartedHaveEnded(Told(d), {{}})

HooksInv == HooksType /\ \A d \in Dispatches : StoryOf(d)

\* What a record adds to the trace.
LEMMA Recorded ==
    ASSUME NEW s, IsSequence(s), NEW e
    PROVE  /\ IsSequence(Append(s, e)) /\ IsSequence(s \o <<e>>)
           /\ Hooking!Names(Append(s, e)) = Hooking!Names(s) \cup {e}
           /\ Append(s, e)[Len(Append(s, e))] = e
           /\ s \o <<e>> = Append(s, e) /\ s \o <<>> = s
<1>1. PICK S : s \in Seq(S)
  BY DEF IsSequence
<1> DEFINE T == S \cup {e}
<1>2. s \in Seq(T) /\ e \in T
  <2>1. \A i \in 1 .. Len(s) : s[i] \in T
    BY <1>1
  <2> QED
    BY <1>1, <2>1
<1> HIDE DEF T
<1>3. /\ Append(s, e) \in Seq(T) /\ Len(s) \in Nat /\ Len(Append(s, e)) = Len(s) + 1
      /\ \A i \in 1 .. Len(s) : Append(s, e)[i] = s[i]
      /\ Append(s, e)[Len(s) + 1] = e
      /\ DOMAIN s = 1 .. Len(s) /\ DOMAIN Append(s, e) = 1 .. (Len(s) + 1)
  BY <1>2
<1>4. s \o <<e>> = Append(s, e) /\ s \o <<>> = s
  BY <1>2
<1>5. ASSUME NEW x
      PROVE  x \in Hooking!Names(Append(s, e)) <=> x \in Hooking!Names(s) \/ x = e
  <2>1. x \in Hooking!Names(Append(s, e)) <=> \E i \in 1 .. (Len(s) + 1) :
            x = Append(s, e)[i]
    BY <1>3 DEF Hooking!Names
  <2>2. x \in Hooking!Names(s) <=> \E i \in 1 .. Len(s) : x = s[i]
    BY <1>3 DEF Hooking!Names
  <2>3. \A i \in 1 .. (Len(s) + 1) : i \in 1 .. Len(s) \/ i = Len(s) + 1
    BY <1>3
  <2>4. /\ \A i \in 1 .. Len(s) : i \in 1 .. (Len(s) + 1)
        /\ Len(s) + 1 \in 1 .. (Len(s) + 1)
    BY <1>3
  <2> QED
    BY <1>3, <2>1, <2>2, <2>3, <2>4
<1>6. IsSequence(Append(s, e))
  BY <1>3 DEF IsSequence
<1> QED
  BY <1>3, <1>4, <1>5, <1>6

LEMMA HooksInit == Hooking!Init => HooksInv
<1> SUFFICES ASSUME Hooking!Init
             PROVE  HooksInv
  OBVIOUS
<1>1. IsSequence(<<>>)
  <2>1. <<>> \in Seq({})
    OBVIOUS
  <2> QED
    BY <2>1 DEF IsSequence
<1>2. HooksType
  BY <1>1 DEF Hooking!Init, HooksType, Hooking!Places, Hooking!Verdicts
<1>3. ASSUME NEW d \in Dispatches
      PROVE  StoryOf(d)
  BY DEF Hooking!Init, StoryOf, Hooking!Awaits
<1> QED
  BY <1>2, <1>3 DEF HooksInv

\* Only the dispatch moves.
LEMMA OthersAwait ==
    ASSUME HooksInv, NEW d \in Dispatches,
           awaiting' \in [Dispatches -> Hooking!Places], verdict' \in [Dispatches -> Hooking!Verdicts],
           plan' = [c \in Dispatches |-> plan'[c]],
           invocation' = [c \in Dispatches |-> invocation'[c]],
           trace' = [c \in Dispatches |-> trace'[c]],
           IsSequence(trace'[d]),
           \A c \in Dispatches \ {d} :
              /\ awaiting'[c] = awaiting[c] /\ verdict'[c] = verdict[c]
              /\ plan'[c] = plan[c]
              /\ invocation'[c] = invocation[c] /\ trace'[c] = trace[c],
           pre' = pre, traceBroken' = traceBroken,
           StoryOf(d)'
    PROVE  HooksInv'
<1>1. HooksType'
  BY DEF HooksInv, HooksType
<1>2. ASSUME NEW c \in Dispatches \ {d}
      PROVE  StoryOf(c)'
  <2>1. StoryOf(c) /\ c \in Dispatches
    BY <1>2 DEF HooksInv
  <2>2. /\ awaiting'[c] = awaiting[c] /\ verdict'[c] = verdict[c] /\ plan'[c] = plan[c]
        /\ invocation'[c] = invocation[c] /\ trace'[c] = trace[c]
        /\ pre' = pre /\ traceBroken' = traceBroken
    BY <1>2
  <2>3. Told(c)' = Told(c) /\ Latest(c)' = Latest(c) /\ Hooking!LastStatus(c)' = Hooking!LastStatus(c)
    BY <2>2 DEF Told, Latest, Hooking!LastStatus
  <2> QED
    BY <2>1, <2>2, <2>3 DEF StoryOf
<1> QED
  BY <1>1, <1>2 DEF HooksInv

\* The record is made, or the dispatch ends with the trace.
LEMMA TraceMoves ==
    ASSUME HooksInv, NEW d \in Dispatches, NEW entry, NEW next \in Hooking!Awaits,
           Hooking!Traces(d, entry, next)
    PROVE  /\ awaiting' \in [Dispatches -> Hooking!Places]
           /\ verdict' \in [Dispatches -> Hooking!Verdicts]
           /\ trace' = [c \in Dispatches |-> trace'[c]]
           /\ IsSequence(trace'[d])
           /\ \A c \in Dispatches \ {d} :
                 awaiting'[c] = awaiting[c] /\ verdict'[c] = verdict[c] /\ trace'[c] = trace[c]
           /\ traceBroken => awaiting'[d] = "over" /\ verdict'[d] = "raised"
           /\ ~traceBroken =>
                 /\ awaiting'[d] = next /\ verdict'[d] = verdict[d]
                 /\ Told(d)' = Told(d) \cup {entry}
                 /\ Latest(d)' = entry /\ Hooking!LastStatus(d)' = entry.status
<1>0. HooksType
  BY DEF HooksInv
<1>1. CASE traceBroken
  <2>1. /\ awaiting' = [awaiting EXCEPT ![d] = "over"]
        /\ verdict' = [verdict EXCEPT ![d] = "raised"]
        /\ trace' = trace
    BY <1>1 DEF Hooking!Traces
  <2> QED
    BY <1>0, <1>1, <2>1 DEF HooksType, Hooking!Places, Hooking!Verdicts
<1>2. CASE ~traceBroken
  <2>1. /\ awaiting' = [awaiting EXCEPT ![d] = next] /\ verdict' = verdict
        /\ trace' = [trace EXCEPT ![d] = Append(trace[d], entry)]
    BY <1>2 DEF Hooking!Traces
  <2>2. /\ trace'[d] = Append(trace[d], entry)
        /\ \A c \in Dispatches \ {d} : trace'[c] = trace[c]
        /\ trace' = [c \in Dispatches |-> trace'[c]]
    BY <1>0, <2>1 DEF HooksType
  <2>3. IsSequence(trace[d])
    BY <1>0 DEF HooksType
  <2>4. /\ IsSequence(trace'[d]) /\ Told(d)' = Told(d) \cup {entry}
        /\ Latest(d)' = entry
        /\ Hooking!LastStatus(d)' = entry.status
    <3> DEFINE longer == Append(trace[d], entry)
    <3>1. /\ IsSequence(longer)
          /\ Hooking!Names(longer) = Hooking!Names(trace[d]) \cup {entry}
          /\ longer[Len(longer)] = entry
      BY <2>3, Recorded
    <3> HIDE DEF longer
    <3>2. trace'[d] = longer
      BY <2>2 DEF longer
    <3> QED
      BY <3>1, <3>2 DEF Told, Latest, Hooking!LastStatus
  <2>5. awaiting' \in [Dispatches -> Hooking!Places] /\ awaiting'[d] = next
        /\ \A c \in Dispatches \ {d} : awaiting'[c] = awaiting[c]
    BY <1>0, <2>1 DEF HooksType, Hooking!Places
  <2> QED
    BY <1>0, <1>2, <2>1, <2>2, <2>4, <2>5 DEF HooksType
<1> QED
  BY <1>0, <1>1, <1>2 DEF HooksType

\* A dispatch that raises with the trace.
LEMMA Raised ==
    ASSUME NEW d \in Dispatches, traceBroken', awaiting'[d] = "over", verdict'[d] = "raised"
    PROVE  StoryOf(d)'
  BY DEF StoryOf, Hooking!Awaits

\* The dispatch concludes.
LEMMA ConcludesWell ==
    ASSUME HooksInv, NEW d \in Dispatches, awaiting[d] \in Hooking!Awaits,
           NEW ending \in {"unblocked", "told", "blocked"},
           Hooking!Concludes(d, ending),
           plan' = [c \in Dispatches |-> plan'[c]],
           \A c \in Dispatches \ {d} : plan'[c] = plan[c],
           StartedHaveEnded(Told(d), {{}}),
           ending = "unblocked" => HooksCompleted(Told(d), {}),
           ending = "blocked" => HooksCompleted(Told(d), {{Head(plan'[d])}})
    PROVE  HooksInv'
<1> DEFINE entry == Hooking!Entry("end", {}, ending)
<1>0. HooksType /\ StoryOf(d)
  BY DEF HooksInv
<1>1. /\ Hooking!Traces(d, entry, "ending") /\ pre' = pre /\ traceBroken' = traceBroken
      /\ invocation' = [invocation EXCEPT ![d] = {}]
  BY DEF Hooking!Concludes
<1>2. entry.event = "end" /\ entry.hook = {} /\ entry.status = ending
  BY DEF Hooking!Entry
<1> HIDE DEF entry
<1>3. /\ awaiting' \in [Dispatches -> Hooking!Places]
      /\ verdict' \in [Dispatches -> Hooking!Verdicts]
      /\ trace' = [c \in Dispatches |-> trace'[c]]
      /\ IsSequence(trace'[d])
      /\ \A c \in Dispatches \ {d} :
            awaiting'[c] = awaiting[c] /\ verdict'[c] = verdict[c] /\ trace'[c] = trace[c]
      /\ traceBroken => awaiting'[d] = "over" /\ verdict'[d] = "raised"
      /\ ~traceBroken =>
            /\ awaiting'[d] = "ending" /\ verdict'[d] = verdict[d]
            /\ Told(d)' = Told(d) \cup {entry}
            /\ Latest(d)' = entry /\ Hooking!LastStatus(d)' = entry.status
  <2>1. "ending" \in Hooking!Awaits
    BY DEF Hooking!Awaits
  <2> QED
    BY <1>1, <2>1, TraceMoves
<1>4. /\ invocation'[d] = {} /\ invocation' = [c \in Dispatches |-> invocation'[c]]
      /\ \A c \in Dispatches \ {d} : invocation'[c] = invocation[c]
  BY <1>0, <1>1 DEF HooksType
<1>5. StoryOf(d)'
  <2>1. CASE traceBroken
    BY <1>1, <1>3, <2>1, Raised
  <2>2. CASE ~traceBroken
    <3>1. verdict'[d] = "none" /\ awaiting'[d] = "ending"
      BY <1>0, <1>3, <2>2 DEF StoryOf, Hooking!Awaits
    <3>2. HasEnded(Told(d)', {}) /\ StartedHaveEnded(Told(d)', {{}, invocation'[d]})
      BY <1>2, <1>3, <2>2 DEF HasEnded, StartedHaveEnded
    <3>3. /\ ending = "unblocked" => HooksCompleted(Told(d)', {})
          /\ ending = "blocked" => HooksCompleted(Told(d)', {{Head(plan'[d])}})
      BY <1>2, <1>3, <2>2 DEF HooksCompleted
    <3> QED
      BY <1>1, <1>2, <1>3, <1>4, <2>2, <3>1, <3>2, <3>3 DEF StoryOf
  <2> QED
    BY <2>1, <2>2
<1> QED
  BY <1>1, <1>3, <1>4, <1>5, OthersAwait

\* The next hook is invoked, or there is none.
LEMMA ContinuesWell ==
    ASSUME HooksInv, NEW d \in Dispatches, awaiting[d] \in Hooking!Awaits, NEW hooks,
           Hooking!ContinuesWith(d, hooks),
           StartedHaveEnded(Told(d), {{}}),
           d \in pre => HooksCompleted(Told(d), {})
    PROVE  HooksInv'
<1>0. HooksType /\ StoryOf(d)
  BY DEF HooksInv
<1>1. /\ plan' = [plan EXCEPT ![d] = hooks]
      /\ plan'[d] = hooks /\ plan' = [c \in Dispatches |-> plan'[c]]
      /\ \A c \in Dispatches \ {d} : plan'[c] = plan[c]
  BY <1>0 DEF HooksType, Hooking!ContinuesWith
<1>2. CASE hooks = <<>>
  <2>1. Hooking!Concludes(d, IF d \in pre THEN "unblocked" ELSE "told")
    BY <1>2 DEF Hooking!ContinuesWith
  <2>2. CASE d \in pre
    BY <1>1, <2>1, <2>2, ConcludesWell
  <2>3. CASE d \notin pre
    BY <1>1, <2>1, <2>3, ConcludesWell
  <2> QED
    BY <2>2, <2>3
<1>3. CASE hooks # <<>>
  <2> DEFINE entry == Hooking!Entry("start", {Head(hooks)}, "started")
  <2>1. /\ Hooking!Traces(d, entry, "invoking") /\ pre' = pre
        /\ traceBroken' = traceBroken
        /\ invocation' = [invocation EXCEPT ![d] = {Head(hooks)}]
    BY <1>3 DEF Hooking!ContinuesWith, Hooking!Invokes
  <2>2. entry.event = "start" /\ entry.hook = {Head(hooks)}
    BY DEF Hooking!Entry
  <2> HIDE DEF entry
  <2>3. /\ awaiting' \in [Dispatches -> Hooking!Places]
        /\ verdict' \in [Dispatches -> Hooking!Verdicts]
        /\ trace' = [c \in Dispatches |-> trace'[c]]
        /\ IsSequence(trace'[d])
        /\ \A c \in Dispatches \ {d} :
              awaiting'[c] = awaiting[c] /\ verdict'[c] = verdict[c] /\ trace'[c] = trace[c]
        /\ traceBroken => awaiting'[d] = "over" /\ verdict'[d] = "raised"
        /\ ~traceBroken =>
              /\ awaiting'[d] = "invoking" /\ verdict'[d] = verdict[d]
              /\ Told(d)' = Told(d) \cup {entry}
    <3>1. "invoking" \in Hooking!Awaits
      BY DEF Hooking!Awaits
    <3> QED
      BY <2>1, <3>1, TraceMoves
  <2>4. /\ invocation'[d] = {Head(hooks)}
        /\ invocation' = [c \in Dispatches |-> invocation'[c]]
        /\ \A c \in Dispatches \ {d} : invocation'[c] = invocation[c]
    BY <1>0, <2>1 DEF HooksType
  <2>5. StoryOf(d)'
    <3>1. CASE traceBroken
      BY <2>1, <2>3, <3>1, Raised
    <3>2. CASE ~traceBroken
      <4>1. verdict'[d] = "none" /\ awaiting'[d] = "invoking"
        BY <1>0, <2>3, <3>2 DEF StoryOf, Hooking!Awaits
      <4>2. StartedHaveEnded(Told(d)', {{}, invocation'[d]})
        BY <2>2, <2>3, <2>4, <3>2 DEF HasEnded, StartedHaveEnded
      <4>3. d \in pre => HooksCompleted(Told(d)', {})
        BY <2>2, <2>3, <3>2 DEF HooksCompleted
      <4> QED
        BY <1>1, <2>1, <2>4, <4>1, <4>2, <4>3 DEF StoryOf
    <3> QED
      BY <3>1, <3>2
  <2> QED
    BY <1>1, <2>1, <2>3, <2>4, <2>5, OthersAwait
<1> QED
  BY <1>2, <1>3

\* A hook has ended.
LEMMA FinishesWell ==
    ASSUME HooksInv, NEW d \in Dispatches, awaiting[d] \in {"invoking", "running"},
           NEW ending \in {"completed", "ignored", "blocked", "failed"},
           d \in pre => ending # "ignored",
           Hooking!Finished(d, ending)
    PROVE  HooksInv'
<1> DEFINE entry == Hooking!Entry("end", invocation[d], ending)
<1>0. HooksType /\ StoryOf(d)
  BY DEF HooksInv
<1>1. /\ Hooking!Traces(d, entry, "invoked") /\ pre' = pre /\ traceBroken' = traceBroken
      /\ invocation' = invocation /\ plan' = plan
  BY DEF Hooking!Finished
<1>2. entry.event = "end" /\ entry.hook = invocation[d] /\ entry.status = ending
  BY DEF Hooking!Entry
<1> HIDE DEF entry
<1>3. /\ awaiting' \in [Dispatches -> Hooking!Places]
      /\ verdict' \in [Dispatches -> Hooking!Verdicts]
      /\ trace' = [c \in Dispatches |-> trace'[c]]
      /\ IsSequence(trace'[d])
      /\ \A c \in Dispatches \ {d} :
            awaiting'[c] = awaiting[c] /\ verdict'[c] = verdict[c] /\ trace'[c] = trace[c]
      /\ traceBroken => awaiting'[d] = "over" /\ verdict'[d] = "raised"
      /\ ~traceBroken =>
            /\ awaiting'[d] = "invoked" /\ verdict'[d] = verdict[d]
            /\ Told(d)' = Told(d) \cup {entry}
            /\ Latest(d)' = entry /\ Hooking!LastStatus(d)' = entry.status
  <2>1. "invoked" \in Hooking!Awaits
    BY DEF Hooking!Awaits
  <2> QED
    BY <1>1, <2>1, TraceMoves
<1>4. StoryOf(d)'
  <2>1. CASE traceBroken
    BY <1>1, <1>3, <2>1, Raised
  <2>2. CASE ~traceBroken
    <3>1. /\ verdict'[d] = "none" /\ awaiting'[d] = "invoked"
          /\ invocation'[d] = {Head(plan'[d])}
          /\ StartedHaveEnded(Told(d), {{}, invocation[d]})
          /\ d \in pre => HooksCompleted(Told(d), {})
      BY <1>0, <1>1, <1>3, <2>2 DEF StoryOf, Hooking!Awaits
    <3>2. HasEnded(Told(d)', invocation'[d]) /\ StartedHaveEnded(Told(d)', {{}, invocation'[d]})
      BY <1>1, <1>2, <1>3, <2>2, <3>1 DEF HasEnded, StartedHaveEnded
    <3>3. d \in pre => HooksCompleted(Told(d)', {invocation'[d]})
      BY <1>1, <1>2, <1>3, <2>2, <3>1 DEF HooksCompleted
    <3>4. d \in pre /\ ending = "completed" => HooksCompleted(Told(d)', {})
      BY <1>1, <1>2, <1>3, <2>2, <3>1 DEF HooksCompleted
    <3> QED
      BY <1>1, <1>2, <1>3, <2>2, <3>1, <3>2, <3>3, <3>4 DEF StoryOf
  <2> QED
    BY <2>1, <2>2
<1>5. /\ plan' = [c \in Dispatches |-> plan'[c]]
      /\ invocation' = [c \in Dispatches |-> invocation'[c]]
      /\ \A c \in Dispatches \ {d} :
             plan'[c] = plan[c] /\ invocation'[c] = invocation[c]
  BY <1>0, <1>1 DEF HooksType
<1> QED
  BY <1>1, <1>3, <1>4, <1>5, OthersAwait

LEMMA HooksStep == HooksInv /\ [Hooking!Next]_(Hooking!vars) => HooksInv'
<1> SUFFICES ASSUME HooksInv, [Hooking!Next]_(Hooking!vars)
             PROVE  HooksInv'
  OBVIOUS
<1>0. HooksType /\ \A d \in Dispatches : StoryOf(d)
  BY DEF HooksInv
<1>1. ASSUME UNCHANGED Hooking!dispatchVars
      PROVE  HooksInv'
  BY <1>0, <1>1 DEF Hooking!dispatchVars, HooksInv, HooksType, StoryOf, Told, Latest,
     Hooking!LastStatus
<1>2. CASE UNCHANGED Hooking!vars
  BY <1>1, <1>2 DEF Hooking!vars, Hooking!dispatchVars
<1>3. CASE (\E h \in Hooks : Hooking!Register(h) \/ Hooking!Unregister(h)) \/ Hooking!Clear
  BY <1>1, <1>3 DEF Hooking!Register, Hooking!Unregister, Hooking!Clear
<1>4. ASSUME NEW d \in Dispatches, Hooking!Begin(d)
      PROVE  HooksInv'
  <2> DEFINE entry == Hooking!Entry("start", {}, "started")
  <2>1. /\ Hooking!Traces(d, entry, "started") /\ pre' = pre
        /\ traceBroken' = traceBroken
        /\ invocation' = invocation /\ plan' = [plan EXCEPT ![d] = registered]
        /\ awaiting[d] = "new"
    BY <1>4 DEF Hooking!Begin, Hooking!Proceeds
  <2>2. entry.event = "start" /\ entry.hook = {}
    BY DEF Hooking!Entry
  <2> HIDE DEF entry
  <2>3. /\ awaiting' \in [Dispatches -> Hooking!Places]
        /\ verdict' \in [Dispatches -> Hooking!Verdicts]
        /\ trace' = [c \in Dispatches |-> trace'[c]]
        /\ IsSequence(trace'[d])
        /\ \A c \in Dispatches \ {d} :
              awaiting'[c] = awaiting[c] /\ verdict'[c] = verdict[c] /\ trace'[c] = trace[c]
        /\ traceBroken => awaiting'[d] = "over" /\ verdict'[d] = "raised"
        /\ ~traceBroken =>
              /\ awaiting'[d] = "started" /\ verdict'[d] = verdict[d]
              /\ Told(d)' = Told(d) \cup {entry}
    <3>1. "started" \in Hooking!Awaits
      BY DEF Hooking!Awaits
    <3> QED
      BY <2>1, <3>1, TraceMoves
  <2>4. StoryOf(d)'
    <3>1. CASE traceBroken
      BY <2>1, <2>3, <3>1, Raised
    <3>2. CASE ~traceBroken
      <4>1. trace[d] = <<>> /\ invocation[d] = {} /\ verdict[d] = "none"
        BY <1>0, <2>1 DEF StoryOf
      <4>2. Told(d) = {}
        BY <4>1 DEF Told, Hooking!Names
      <4>3. Told(d)' = {entry}
        BY <2>3, <3>2, <4>2
      <4>4. StartedHaveEnded(Told(d)', {{}, invocation'[d]}) /\ HooksCompleted(Told(d)', {})
        BY <2>2, <4>3 DEF StartedHaveEnded, HooksCompleted
      <4> QED
        BY <2>1, <2>3, <3>2, <4>1, <4>4 DEF StoryOf
    <3> QED
      BY <3>1, <3>2
  <2>5. /\ plan' = [c \in Dispatches |-> plan'[c]]
        /\ invocation' = [c \in Dispatches |-> invocation'[c]]
        /\ \A c \in Dispatches \ {d} :
               plan'[c] = plan[c] /\ invocation'[c] = invocation[c]
    BY <1>0, <2>1 DEF HooksType
  <2> QED
    BY <2>1, <2>3, <2>4, <2>5, OthersAwait
<1>5. ASSUME NEW d \in Dispatches, awaiting[d] = "started"
      PROVE  /\ awaiting[d] \in Hooking!Awaits /\ StartedHaveEnded(Told(d), {{}})
             /\ d \in pre => HooksCompleted(Told(d), {})
  <2>1. StoryOf(d) /\ awaiting[d] \in Hooking!Awaits
    BY <1>0, <1>5 DEF Hooking!Awaits
  <2>2. invocation[d] = {} /\ StartedHaveEnded(Told(d), {{}, invocation[d]})
    BY <1>5, <2>1 DEF StoryOf
  <2>3. StartedHaveEnded(Told(d), {{}})
    BY <2>2 DEF StartedHaveEnded
  <2> QED
    BY <1>5, <2>1, <2>3 DEF StoryOf
<1>6. ASSUME NEW d \in Dispatches, Hooking!Snapshot(d)
      PROVE  HooksInv'
  BY <1>5, <1>6, ContinuesWell DEF Hooking!Snapshot, Hooking!Proceeds
<1>7. ASSUME NEW d \in Dispatches, Hooking!SnapshotFails(d)
      PROVE  HooksInv'
  <2>1. /\ awaiting[d] = "started" /\ plan' = [plan EXCEPT ![d] = <<>>]
        /\ Hooking!Concludes(d, IF d \in pre THEN "blocked" ELSE "told")
    BY <1>7 DEF Hooking!SnapshotFails, Hooking!Proceeds
  <2>2. plan' = [c \in Dispatches |-> plan'[c]] /\ \A c \in Dispatches \ {d} :
            plan'[c] = plan[c]
    BY <1>0, <2>1 DEF HooksType
  <2>3. d \in pre => HooksCompleted(Told(d), {{Head(plan'[d])}})
    BY <1>5, <2>1 DEF HooksCompleted
  <2>4. CASE d \in pre
    BY <1>5, <2>1, <2>2, <2>3, <2>4, ConcludesWell
  <2>5. CASE d \notin pre
    BY <1>5, <2>1, <2>2, <2>5, ConcludesWell
  <2> QED
    BY <2>4, <2>5
<1>8. ASSUME NEW d \in Dispatches, Hooking!Runs(d)
      PROVE  HooksInv'
  <2>1. /\ awaiting[d] = "invoking" /\ awaiting' = [awaiting EXCEPT ![d] = "running"]
        /\ UNCHANGED <<pre, plan, invocation, verdict, trace, traceBroken>>
    BY <1>8 DEF Hooking!Runs, Hooking!Proceeds
  <2>2. /\ awaiting'[d] = "running" /\ awaiting' \in [Dispatches -> Hooking!Places]
        /\ \A c \in Dispatches \ {d} : awaiting'[c] = awaiting[c]
    BY <1>0, <2>1 DEF HooksType, Hooking!Places, Hooking!Awaits
  <2>3. StoryOf(d)'
    BY <1>0, <2>1, <2>2 DEF StoryOf, Told, Hooking!Awaits
  <2>4. HooksType'
    BY <1>0, <2>1, <2>2 DEF HooksType
  <2> QED
    BY <1>0, <2>1, <2>2, <2>3, <2>4, OthersAwait DEF HooksType
<1>9. ASSUME NEW d \in Dispatches, Hooking!HookAnswers(d)
      PROVE  HooksInv'
  <2>1. awaiting[d] = "running" /\ \E ending \in Hooking!Answers(d) :
            Hooking!Finished(d, ending)
    BY <1>9 DEF Hooking!HookAnswers, Hooking!Proceeds
  <2>2. PICK ending \in Hooking!Answers(d) : Hooking!Finished(d, ending)
    BY <2>1
  <2>3. ending \in {"completed", "ignored", "blocked", "failed"} /\ (d \in pre => ending # "ignored")
    BY <2>2 DEF Hooking!Answers
  <2> QED
    BY <2>1, <2>2, <2>3, FinishesWell
<1>10. ASSUME NEW d \in Dispatches, Hooking!HookFails(d)
       PROVE  HooksInv'
  <2>1. awaiting[d] \in {"invoking", "running"} /\ Hooking!Finished(d, "failed")
    BY <1>10 DEF Hooking!HookFails, Hooking!Proceeds
  <2> QED
    BY <2>1, FinishesWell
<1>11. ASSUME NEW d \in Dispatches, Hooking!NextHook(d)
       PROVE  HooksInv'
  <2>1. awaiting[d] = "invoked" /\ StoryOf(d) /\ awaiting[d] \in Hooking!Awaits
    BY <1>0, <1>11 DEF Hooking!NextHook, Hooking!Proceeds, Hooking!Awaits
  <2>2. /\ StartedHaveEnded(Told(d), {{}, invocation[d]})
        /\ HasEnded(Told(d), invocation[d])
        /\ invocation[d] = {Head(plan[d])}
        /\ d \in pre => HooksCompleted(Told(d), {invocation[d]})
        /\ d \in pre /\ Hooking!LastStatus(d) \notin {"blocked", "failed"} =>
               HooksCompleted(Told(d), {})
    BY <2>1 DEF StoryOf
  <2>3. StartedHaveEnded(Told(d), {{}})
    BY <2>2 DEF StartedHaveEnded
  <2>4. CASE d \in pre /\ Hooking!LastStatus(d) \in {"blocked", "failed"}
    <3>1. Hooking!Concludes(d, "blocked") /\ plan' = plan
      BY <1>11, <2>4 DEF Hooking!NextHook
    <3>2. plan' = [c \in Dispatches |-> plan'[c]] /\ \A c \in Dispatches \ {d} :
              plan'[c] = plan[c]
      BY <1>0, <3>1 DEF HooksType
    <3>3. HooksCompleted(Told(d), {{Head(plan'[d])}})
      BY <2>2, <2>4, <3>1
    <3> QED
      BY <2>1, <2>3, <3>1, <3>2, <3>3, ConcludesWell
  <2>5. CASE ~(d \in pre /\ Hooking!LastStatus(d) \in {"blocked", "failed"})
    <3>1. Hooking!ContinuesWith(d, Tail(plan[d]))
      BY <1>11, <2>5 DEF Hooking!NextHook
    <3> QED
      BY <2>1, <2>2, <2>3, <2>5, <3>1, ContinuesWell
  <2> QED
    BY <2>4, <2>5
<1>12. ASSUME NEW d \in Dispatches, Hooking!End(d)
       PROVE  HooksInv'
  <2>1. /\ awaiting[d] = "ending" /\ awaiting' = [awaiting EXCEPT ![d] = "over"]
        /\ verdict' = [verdict EXCEPT ![d] = Hooking!LastStatus(d)]
        /\ UNCHANGED <<pre, plan, invocation, trace, traceBroken>>
    BY <1>12 DEF Hooking!End, Hooking!Proceeds
  <2>2. /\ StoryOf(d) /\ invocation[d] = {}
        /\ StartedHaveEnded(Told(d), {{}, invocation[d]})
        /\ HasEnded(Told(d), {}) /\ Latest(d).hook = {}
        /\ Hooking!LastStatus(d) \in {"unblocked", "told", "blocked"}
        /\ Hooking!LastStatus(d) = "unblocked" => HooksCompleted(Told(d), {})
        /\ Hooking!LastStatus(d) = "blocked" =>
               HooksCompleted(Told(d), {{Head(plan[d])}})
    BY <1>0, <2>1 DEF StoryOf, Hooking!Awaits
  <2>3. StartedHaveEnded(Told(d), {}) /\ StartedHaveEnded(Told(d), {{}})
    BY <2>2 DEF StartedHaveEnded
  <2>4. /\ awaiting'[d] = "over" /\ awaiting' \in [Dispatches -> Hooking!Places]
        /\ verdict'[d] = Hooking!LastStatus(d)
        /\ verdict' \in [Dispatches -> Hooking!Verdicts]
        /\ \A c \in Dispatches \ {d} :
               awaiting'[c] = awaiting[c] /\ verdict'[c] = verdict[c]
    BY <1>0, <2>1, <2>2 DEF HooksType, Hooking!Places, Hooking!Verdicts
  <2>5. StoryOf(d)'
    BY <2>1, <2>2, <2>3, <2>4 DEF StoryOf, Told, Latest, Hooking!LastStatus,
       Hooking!Awaits
  <2> QED
    BY <1>0, <2>1, <2>4, <2>5, OthersAwait DEF HooksType
<1>13. ASSUME NEW d \in Dispatches, Hooking!Cancel(d)
       PROVE  HooksInv'
  BY <1>1, <1>13 DEF Hooking!Cancel, Hooking!dispatchVars, HooksInv, HooksType, StoryOf,
     Told, Latest, Hooking!LastStatus
<1>14. ASSUME NEW d \in Dispatches, Hooking!Cancelled(d)
       PROVE  HooksInv'
  <2> DEFINE hookEntry == Hooking!Entry("end", invocation[d], "cancelled")
             entry == Hooking!Entry("end", {}, "cancelled")
             before == trace[d] \o (IF invocation[d] = {} THEN <<>> ELSE <<hookEntry>>)
  <2>1. /\ awaiting[d] \in Hooking!Awaits /\ awaiting' = [awaiting EXCEPT ![d] = "over"]
        /\ verdict' = [verdict EXCEPT ![d] = "cancelled"]
        /\ trace' =
               [trace EXCEPT ![d] = IF traceBroken THEN trace[d] ELSE before \o <<entry>>]
        /\ UNCHANGED <<pre, plan, invocation, traceBroken>>
    BY <1>14 DEF Hooking!Cancelled
  <2>2. /\ entry.event = "end" /\ entry.hook = {} /\ entry.status = "cancelled"
        /\ hookEntry.event = "end" /\ hookEntry.hook = invocation[d]
    BY DEF Hooking!Entry
  <2> HIDE DEF hookEntry, entry
  <2>3. IsSequence(trace[d])
    BY <1>0 DEF HooksType
  <2>4. /\ IsSequence(before)
        /\ Hooking!Names(before) = Told(d) \cup (IF invocation[d] = {} THEN {} ELSE {hookEntry})
    BY <2>3, Recorded DEF Told
  <2> HIDE DEF before
  <2>5. /\ awaiting'[d] = "over" /\ awaiting' \in [Dispatches -> Hooking!Places]
        /\ verdict'[d] = "cancelled" /\ verdict' \in [Dispatches -> Hooking!Verdicts]
        /\ \A c \in Dispatches \ {d} :
               awaiting'[c] = awaiting[c] /\ verdict'[c] = verdict[c] /\ trace'[c] = trace[c]
        /\ trace' = [c \in Dispatches |-> trace'[c]]
        /\ trace'[d] = IF traceBroken THEN trace[d] ELSE before \o <<entry>>
    BY <1>0, <2>1 DEF HooksType, Hooking!Places, Hooking!Verdicts
  <2>6. IsSequence(trace'[d])
    BY <2>3, <2>4, <2>5, Recorded
  <2>7. StoryOf(d)'
    <3>1. CASE traceBroken
      BY <2>1, <2>5, <3>1 DEF StoryOf, Hooking!Awaits
    <3>2. CASE ~traceBroken
      <4>1. Told(d)' = Hooking!Names(before) \cup {entry} /\ Latest(d)' = entry
        <5> DEFINE longer == Append(before, entry)
        <5>1. /\ Hooking!Names(longer) = Hooking!Names(before) \cup {entry}
              /\ longer[Len(longer)] = entry
              /\ before \o <<entry>> = longer
          BY <2>4, Recorded
        <5> HIDE DEF longer
        <5>2. trace'[d] = longer
          BY <2>5, <3>2, <5>1
        <5> QED
          BY <5>1, <5>2 DEF Told, Latest
      <4>2. StartedHaveEnded(Told(d), {{}, invocation[d]})
        BY <1>0, <2>1 DEF StoryOf
      <4>3. StartedHaveEnded(Told(d)', {})
        BY <2>2, <2>4, <4>1, <4>2 DEF StartedHaveEnded, HasEnded
      <4> QED
        BY <2>2, <2>5, <4>1, <4>3 DEF StoryOf, Hooking!Awaits
    <3> QED
      BY <3>1, <3>2
  <2> QED
    BY <1>0, <2>1, <2>5, <2>6, <2>7, OthersAwait DEF HooksType
<1>15. CASE Hooking!TraceBreaks
  <2>1. traceBroken' = TRUE /\ UNCHANGED <<pre, awaiting, plan, invocation, verdict, trace>>
    BY <1>15 DEF Hooking!TraceBreaks
  <2>2. HooksType'
    BY <1>0, <2>1 DEF HooksType
  <2>3. \A d \in Dispatches : StoryOf(d)'
    BY <1>0, <2>1 DEF StoryOf, Told, Latest, Hooking!LastStatus
  <2> QED
    BY <2>2, <2>3 DEF HooksInv
<1> QED
  BY <1>2, <1>3, <1>4, <1>6, <1>7, <1>8, <1>9, <1>10, <1>11, <1>12, <1>13, <1>14, <1>15
     DEF Hooking!Next

LEMMA StoriesTold == HooksInv => Hooking!TraceTellsTheStory
<1> SUFFICES ASSUME HooksInv, NEW d \in Dispatches
             PROVE
        LET last == trace[d][Len(trace[d])] IN
        /\ (awaiting[d] = "over" /\ ~traceBroken) =>
              /\ \A hook \in Hooking!Started(d) : Hooking!EndedAs(d, hook) # {}
              /\ last.hook = {}
              /\ last.status = verdict[d]
        /\ verdict[d] = "unblocked" =>
              \A hook \in Hooking!Started(d) \ {{}} :
                  Hooking!EndedAs(d, hook) = {"completed"}
        /\ verdict[d] = "blocked" =>
              \A hook \in Hooking!Started(d) \ {{}} :
                  Hooking!EndedAs(d, hook) = {"completed"} \/ hook = {Head(plan[d])}
  BY DEF Hooking!TraceTellsTheStory
<1>0. StoryOf(d)
  BY DEF HooksInv
<1>1. ASSUME NEW hook \in Hooking!Started(d)
      PROVE  \E e \in Told(d) : e.event = "start" /\ e.hook = hook
  BY DEF Hooking!Started, Told
<1>2. ASSUME NEW hook
      PROVE  \A x : x \in Hooking!EndedAs(d, hook) <=>
                       \E e \in Told(d) :
                           e.event = "end" /\ e.hook = hook /\ e.status = x
  BY DEF Hooking!EndedAs, Told
<1>3. ASSUME NEW hook, HasEnded(Told(d), hook)
      PROVE  Hooking!EndedAs(d, hook) # {}
  BY <1>2, <1>3 DEF HasEnded
<1>4. ASSUME NEW others, StartedHaveEnded(Told(d), others),
             NEW hook \in Hooking!Started(d), hook \notin others
      PROVE  Hooking!EndedAs(d, hook) # {}
  BY <1>1, <1>3, <1>4 DEF StartedHaveEnded
<1>5. ASSUME NEW others, HooksCompleted(Told(d), others),
             NEW hook, hook # {}, hook \notin others,
             Hooking!EndedAs(d, hook) # {}
      PROVE  Hooking!EndedAs(d, hook) = {"completed"}
  <2>1. \A x \in Hooking!EndedAs(d, hook) : x = "completed"
    BY <1>2, <1>5 DEF HooksCompleted
  <2> QED
    BY <1>5, <2>1
<1>6. ASSUME awaiting[d] = "over", ~traceBroken
      PROVE  /\ \A hook \in Hooking!Started(d) : Hooking!EndedAs(d, hook) # {}
             /\ Latest(d).hook = {} /\ Latest(d).status = verdict[d]
  <2>1. /\ StartedHaveEnded(Told(d), {})
        /\ Latest(d).hook = {} /\ Latest(d).status = verdict[d]
    BY <1>0, <1>6 DEF StoryOf
  <2> QED
    BY <1>4, <2>1
<1>7. ASSUME verdict[d] = "unblocked", NEW hook \in Hooking!Started(d) \ {{}}
      PROVE  Hooking!EndedAs(d, hook) = {"completed"}
  <2>1. HooksCompleted(Told(d), {}) /\ StartedHaveEnded(Told(d), {{}})
    BY <1>0, <1>7 DEF StoryOf
  <2>2. Hooking!EndedAs(d, hook) # {}
    BY <1>4, <2>1
  <2> QED
    BY <1>5, <2>1, <2>2
<1>8. ASSUME verdict[d] = "blocked",
             NEW hook \in Hooking!Started(d) \ {{}}, hook # {Head(plan[d])}
      PROVE  Hooking!EndedAs(d, hook) = {"completed"}
  <2>1. HooksCompleted(Told(d), {{Head(plan[d])}}) /\ StartedHaveEnded(Told(d), {{}})
    BY <1>0, <1>8 DEF StoryOf
  <2>2. Hooking!EndedAs(d, hook) # {}
    BY <1>4, <2>1
  <2> QED
    BY <1>5, <1>8, <2>1, <2>2
<1> QED
  BY <1>6, <1>7, <1>8 DEF Latest

\* The trace of a dispatch that is over tells what happened: what started has
\* ended, an action is let through only when no hook failed, blocked or was cut
\* short, and nothing follows the end that the caller was told of
\* (TraceTellsTheStory: HookManager's dispatch).
THEOREM StoriesAreTold == Spec => []TraceTellsTheStory
<1>1. Init => HooksInv
  BY HooksInit DEF Init
<1>2. HooksInv /\ [Next]_vars => HooksInv'
  BY HooksStep, Moving
<1>3. HooksInv => TraceTellsTheStory
  BY StoriesTold DEF TraceTellsTheStory
<1> QED
  BY <1>1, <1>2, <1>3, PTL DEF Spec

=============================================================================
