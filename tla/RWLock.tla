------------------------------- MODULE RWLock -------------------------------
(***************************************************************************)
(* AsyncRWLock (src/litecoder/tools/workspace_version.py): the readers and *)
(* writers lock that every tool call takes on its workspace.               *)
(*                                                                         *)
(* Processes are asyncio tasks of one event loop.  The bodies guarded by   *)
(* the lock's internal mutex never await, so each of them is one action.   *)
(* A task is suspended only while its waiter's future is pending, and it   *)
(* runs again one loop iteration AFTER the future was resolved: in between *)
(* it can still be cancelled although it has been granted the lock.        *)
(***************************************************************************)
EXTENDS Integers, Sequences, FiniteSets

CONSTANT Procs

ASSUME ProcsAssumption == IsFiniteSet(Procs)

VARIABLES
    pc,        \* where each task stands in `async with lock.read() / write()`
    mode,      \* _Waiter.mode of its latest request
    granted,   \* _Waiter.granted
    wake,      \* its future: "none" pending, else what resuming will deliver
    readers,   \* _readers
    writer,    \* _writer
    waiters    \* _waiters, oldest request first

vars == <<pc, mode, granted, wake, readers, writer, waiters>>

Modes == {"read", "write"}

TypeOK ==
    /\ pc \in [Procs -> {"idle", "waiting", "inside", "leaving"}]
    /\ mode \in [Procs -> Modes]
    /\ granted \in [Procs -> BOOLEAN]
    /\ wake \in [Procs -> {"none", "result", "cancel"}]
    /\ readers \in Nat
    /\ writer \in BOOLEAN
    /\ waiters \in Seq(Procs)

Init ==
    /\ pc = [p \in Procs |-> "idle"]
    /\ mode = [p \in Procs |-> "read"]
    /\ granted = [p \in Procs |-> FALSE]
    /\ wake = [p \in Procs |-> "none"]
    /\ readers = 0
    /\ writer = FALSE
    /\ waiters = <<>>

-----------------------------------------------------------------------------
(* _wake_next: hand a free lock to the head of the queue.                  *)

\* The length of the leading run of read requests of queue q.
LeadingReads(q, m) ==
    CHOOSE n \in 0..Len(q) :
        /\ \A i \in 1..n : m[q[i]] = "read"
        /\ n < Len(q) => m[q[n + 1]] = "write"

AdmittedIgnoringReaders(r, w, q, m) ==
    IF w \/ q = <<>> THEN 0
    ELSE IF m[Head(q)] = "write" THEN 1
    ELSE LeadingReads(q, m)

\* How many requests at the head of q a lock with r readers and writer flag w
\* admits: one writer alone, or every reader up to the first writer.
Admitted(r, w, q, m) ==
    IF w \/ r > 0 \/ q = <<>> THEN 0
    ELSE IF m[Head(q)] = "write" THEN 1
    ELSE LeadingReads(q, m)

\* The lock and its waiters after a _wake_next called with readers r, writer
\* flag w and queue q, where g, m and f are the waiters' grants, modes and
\* futures.  A future that is already cancelled is left as it is, but its waiter
\* is granted all the same.
WakeNext(r, w, q, m, g, f) ==
    LET n == Admitted(r, w, q, m)
        admitted == {q[i] : i \in 1..n}
    IN  [readers |-> r + Cardinality({p \in admitted : m[p] = "read"}),
         writer |-> w \/ \E p \in admitted : m[p] = "write",
         waiters |-> SubSeq(q, n + 1, Len(q)),
         granted |-> [p \in Procs |-> g[p] \/ p \in admitted],
         wake |-> [p \in Procs |-> IF p \in admitted /\ f[p] = "none"
                                  THEN "result" ELSE f[p]]]

Becomes(s) ==
    /\ readers' = s.readers
    /\ writer' = s.writer
    /\ waiters' = s.waiters
    /\ granted' = s.granted
    /\ wake' = s.wake

-----------------------------------------------------------------------------
(* _acquire *)

JoinsReadersBarging(m) == m = "read" /\ readers > 0

\* A reader joins the readers inside at once, but only if nobody queues.
JoinsReaders(m) == m = "read" /\ readers > 0 /\ waiters = <<>>

Acquire(p, m) ==
    /\ pc[p] = "idle"
    /\ mode' = [mode EXCEPT ![p] = m]
    /\ \/ /\ JoinsReaders(m)
          /\ granted' = [granted EXCEPT ![p] = TRUE]
          /\ readers' = readers + 1
          /\ wake' = [wake EXCEPT ![p] = "result"]
          /\ UNCHANGED <<writer, waiters>>
       \/ /\ ~JoinsReaders(m)
          /\ Becomes(WakeNext(readers, writer, Append(waiters, p), mode',
                              granted, [wake EXCEPT ![p] = "none"]))
    \* A future that is already resolved does not suspend the task.
    /\ pc' = [pc EXCEPT ![p] = IF granted'[p] THEN "inside" ELSE "waiting"]

\* The loop runs a task whose waiter's future got its result.
Resume(p) ==
    /\ pc[p] = "waiting" /\ wake[p] = "result"
    /\ pc' = [pc EXCEPT ![p] = "inside"]
    /\ UNCHANGED <<mode, granted, wake, readers, writer, waiters>>

\* Task.cancel() on a suspended task: it cancels a pending future, and makes
\* a task whose future is resolved but that has not run yet raise as it runs.
Cancel(p) ==
    /\ pc[p] = "waiting"
    /\ wake' = [wake EXCEPT ![p] = "cancel"]
    /\ UNCHANGED <<pc, mode, granted, readers, writer, waiters>>

ReleaseOwnedKeepingFlag(p) ==
    Becomes(WakeNext(readers - (IF mode[p] = "read" THEN 1 ELSE 0),
                     writer /\ mode[p] = "read",
                     waiters, mode, granted, [wake EXCEPT ![p] = "none"]))

ReleaseOwnedWakingNobody(p) ==
    /\ readers' = readers - (IF mode[p] = "read" THEN 1 ELSE 0)
    /\ writer' = (writer /\ mode[p] = "read")
    /\ granted' = [granted EXCEPT ![p] = FALSE]
    /\ wake' = [wake EXCEPT ![p] = "none"]
    /\ UNCHANGED waiters

\* _release_owned and the _wake_next that follows it under the same mutex.
ReleaseOwned(p) ==
    Becomes(WakeNext(readers - (IF mode[p] = "read" THEN 1 ELSE 0),
                     writer /\ mode[p] = "read",
                     waiters, mode, [granted EXCEPT ![p] = FALSE],
                     [wake EXCEPT ![p] = "none"]))

Without(q, i) == SubSeq(q, 1, i - 1) \o SubSeq(q, i + 1, Len(q))

\* _waiters.remove(waiter) and the _wake_next that follows it.
ForgetWaiter(p) ==
    \E i \in 1..Len(waiters) :
        /\ waiters[i] = p
        /\ Becomes(WakeNext(readers, writer, Without(waiters, i), mode, granted,
                            [wake EXCEPT ![p] = "none"]))

CancelHandlerForgetting(p) ==
    /\ pc[p] = "waiting" /\ wake[p] = "cancel"
    /\ IF granted[p] THEN UNCHANGED <<granted, wake, readers, writer, waiters>>
       ELSE ForgetWaiter(p)
    /\ pc' = [pc EXCEPT ![p] = "idle"]
    /\ UNCHANGED mode

\* The loop runs a cancelled task: the `except CancelledError` of _acquire
\* gives back a lock that was granted meanwhile, or leaves the queue.
CancelHandler(p) ==
    /\ pc[p] = "waiting" /\ wake[p] = "cancel"
    /\ IF granted[p] THEN ReleaseOwned(p) ELSE ForgetWaiter(p)
    /\ pc' = [pc EXCEPT ![p] = "idle"]
    /\ UNCHANGED mode

-----------------------------------------------------------------------------
(* read() / write(): the context managers' exits, and _release_shielded.   *)

\* The body ends, by a return, an exception or a cancellation; its `finally`
\* starts the task that releases the lock and waits for it.
Leave(p) ==
    /\ pc[p] = "inside"
    /\ pc' = [pc EXCEPT ![p] = "leaving"]
    /\ UNCHANGED <<mode, granted, wake, readers, writer, waiters>>

\* The release task runs.  It was scheduled before any cancellation of its
\* awaiter could be delivered, so it cannot be cancelled before it runs.
Release(p) ==
    /\ pc[p] = "leaving"
    /\ ReleaseOwned(p)
    /\ pc' = [pc EXCEPT ![p] = "idle"]
    /\ UNCHANGED mode

Next ==
    \E p \in Procs :
        \/ \E m \in Modes : Acquire(p, m)
        \/ Resume(p)
        \/ Cancel(p)
        \/ CancelHandler(p)
        \/ Leave(p)
        \/ Release(p)

Spec == Init /\ [][Next]_vars

\* The event loop runs every ready task and the bodies under the lock end;
\* nothing makes a task ask for the lock or be cancelled.
Fairness ==
    \A p \in Procs : /\ WF_vars(Resume(p)) /\ WF_vars(CancelHandler(p))
                     /\ WF_vars(Leave(p)) /\ WF_vars(Release(p))

FairSpec == Spec /\ Fairness

-----------------------------------------------------------------------------
(* Properties *)

Owners(m) == {p \in Procs : granted[p] /\ mode[p] = m}

Queued(p) == \E i \in 1..Len(waiters) : waiters[i] = p

\* The counters that admission is decided on agree with who owns the lock, so
\* a cancellation that races a grant neither leaks the lock nor gives it back
\* twice (the two "ownership underflow" errors of _release_owned are dead).
OwnershipExact ==
    /\ readers = Cardinality(Owners("read"))
    /\ Cardinality(Owners("write")) = IF writer THEN 1 ELSE 0
    /\ \A p \in Procs : pc[p] \in {"inside", "leaving"} => granted[p]
    /\ \A p \in Procs : pc[p] = "idle" => ~granted[p]

\* Whoever is between its grant and its release excludes what it must.
MutualExclusion ==
    \A p, q \in Procs :
        (p # q /\ granted[p] /\ granted[q]) => mode[p] = "read" /\ mode[q] = "read"

\* A suspended request that nobody has resolved is in the queue, and the lock
\* is never free while somebody queues: no wakeup is lost when the head of the
\* queue is cancelled or a granted waiter gives up.
NoLostWakeup ==
    /\ \A p \in Procs : (pc[p] = "waiting" /\ ~granted[p]) => Queued(p)
    /\ waiters # <<>> => (writer \/ readers > 0)

\* Nobody is admitted past a request that was there before it: _wake_next
\* admits from the head, and a reader that arrives does not pass a writer that
\* waits.
FifoAdmission ==
    [][\A p \in Procs :
         (~granted[p] /\ granted'[p]) =>
            \A i \in 1..Len(waiters) :
                (\A j \in 1..i : waiters[j] # p) =>
                    \A k \in 1..Len(waiters') : waiters'[k] # waiters[i]]_vars

\* The lock is the shared/exclusive lock its users rely on.
Promise == INSTANCE SharedExclusive WITH
    want <- [p \in Procs |-> IF pc[p] = "idle" THEN "none" ELSE mode[p]],
    have <- [p \in Procs |-> IF granted[p] THEN mode[p] ELSE "none"]

ImplementsSharedExclusive == Promise!Spec

\* A request for the lock is admitted or abandoned; no reader and no writer
\* starves as long as the bodies under the lock end.
EveryRequestSettles ==
    \A p \in Procs : (pc[p] = "waiting") ~> (pc[p] \in {"inside", "idle"})
=============================================================================
