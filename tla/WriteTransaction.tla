-------------------------- MODULE WriteTransaction --------------------------
(***************************************************************************)
(* The session store's write operations                                    *)
(* (src/litecoder/context/session/store.py): callers take turns through    *)
(* the operation lock; the one inside hands its statements to a worker     *)
(* task that is shielded from cancellation, and waits for its outcome.     *)
(* A cancellation is a flag the worker looks at before it enters the       *)
(* commit.  All operations share ONE connection, so a transaction that     *)
(* could not be rolled back is still open when the next operation begins.  *)
(***************************************************************************)
CONSTANT Writers   \* the calls of create_session, append_message, mark_status, ...

VARIABLES
    caller,      \* by writer: where its caller is
    worker,      \* by writer: where its worker task is
    requested,   \* the writers whose caller was cancelled: cancel_requested
    operating,   \* _operation_lock: the writer inside, if any
    open,        \* the writer whose BEGIN the connection has open, if any
    written,     \* the writers whose statements are in the open transaction
    durable      \* the writers whose rows are in the database file

vars == <<caller, worker, requested, operating, open, written, durable>>

Settled == {"returned", "cancelled", "raised"}
CallerStates == {"new", "queued", "waiting", "crashed"} \cup Settled
Outcomes == {"committed", "rolled back", "failed"}
WorkerStates ==
    {"none", "begin", "operation", "commit", "rollback", "handler"} \cup Outcomes

TypeOK ==
    /\ caller \in [Writers -> CallerStates]
    /\ worker \in [Writers -> WorkerStates]
    /\ requested \subseteq Writers
    /\ operating \subseteq Writers
    /\ open \subseteq Writers
    /\ written \subseteq Writers
    /\ durable \subseteq Writers

Init ==
    /\ caller = [w \in Writers |-> "new"]
    /\ worker = [w \in Writers |-> "none"]
    /\ requested = {}
    /\ operating = {}
    /\ open = {}
    /\ written = {}
    /\ durable = {}

-----------------------------------------------------------------------------
(* The caller.                                                             *)

Call(w) ==
    /\ caller[w] = "new"
    /\ caller' = [caller EXCEPT ![w] = "queued"]
    /\ UNCHANGED <<worker, requested, operating, open, written, durable>>

\* async with self._operation_lock; the worker task is created.
Enter(w) ==
    /\ caller[w] = "queued"
    /\ operating = {}
    /\ operating' = {w}
    /\ caller' = [caller EXCEPT ![w] = "waiting"]
    /\ worker' = [worker EXCEPT ![w] = "begin"]
    /\ UNCHANGED <<requested, open, written, durable>>

\* A cancellation in the queue ends the call; later it only raises the flag.
Cancel(w) ==
    \/ /\ caller[w] = "queued"
       /\ caller' = [caller EXCEPT ![w] = "cancelled"]
       /\ UNCHANGED <<worker, requested, operating, open, written, durable>>
    \/ /\ caller[w] = "waiting"
       /\ w \notin requested
       /\ requested' = requested \cup {w}
       /\ UNCHANGED <<caller, worker, operating, open, written, durable>>

\* What the caller is told: a commit wins over the cancellation, which is then
\* cleared; an error wins over it too.
Told(outcome) ==
    CASE outcome = "committed"   -> "returned"
      [] outcome = "failed"      -> "raised"
      [] outcome = "rolled back" -> "cancelled"

LeaveAsCancelled(w) ==
    /\ caller[w] = "waiting"
    /\ worker[w] \in Outcomes
    /\ caller' = [caller EXCEPT ![w] =
                    IF w \in requested THEN "cancelled" ELSE Told(worker[w])]
    /\ operating' = {}
    /\ UNCHANGED <<worker, requested, open, written, durable>>

Leave(w) ==
    /\ caller[w] = "waiting"
    /\ worker[w] \in Outcomes
    /\ caller' = [caller EXCEPT ![w] = Told(worker[w])]
    /\ operating' = {}
    /\ UNCHANGED <<worker, requested, open, written, durable>>

-----------------------------------------------------------------------------
(* The worker: every await may end in an exception.                        *)

At(w, place) ==
    /\ caller[w] = "waiting"
    /\ worker[w] = place

Goes(w, place) ==
    /\ worker' = [worker EXCEPT ![w] = place]
    /\ UNCHANGED <<caller, requested, operating>>

\* The flag is looked at as the await ends, with no suspension in between.
GoesUnlessCancelled(w, place) ==
    Goes(w, IF w \in requested THEN "rollback" ELSE place)

BeginAnyhow(w) ==
    /\ At(w, "begin")
    /\ open' = {w}
    /\ GoesUnlessCancelled(w, "operation")
    /\ UNCHANGED <<written, durable>>

Begin(w) ==
    /\ At(w, "begin")
    /\ open = {}
    /\ open' = {w}
    /\ GoesUnlessCancelled(w, "operation")
    /\ UNCHANGED <<written, durable>>

\* Another process holds the database, or the connection is in a transaction.
BeginFails(w) ==
    /\ At(w, "begin")
    /\ Goes(w, "handler")
    /\ UNCHANGED <<open, written, durable>>

Operate(w) ==
    /\ At(w, "operation")
    /\ written' = written \cup {w}
    /\ GoesUnlessCancelled(w, "commit")
    /\ UNCHANGED <<open, durable>>

\* A constraint, a missing row, an invalid record: some statements may have run.
OperateFails(w) ==
    /\ At(w, "operation")
    /\ written' \in {written, written \cup {w}}
    /\ Goes(w, "handler")
    /\ UNCHANGED <<open, durable>>

Commit(w) ==
    /\ At(w, "commit")
    /\ durable' = durable \cup written
    /\ written' = {}
    /\ open' = {}
    /\ Goes(w, "committed")

\* The transaction is still open, or SQLite has rolled it back by itself.
CommitFails(w) ==
    /\ At(w, "commit")
    /\ \/ UNCHANGED <<open, written>>
       \/ open' = {} /\ written' = {}
    /\ Goes(w, "handler")
    /\ UNCHANGED durable

Rollback(w) ==
    /\ At(w, "rollback")
    /\ open' = {}
    /\ written' = {}
    /\ Goes(w, "rolled back")
    /\ UNCHANGED durable

RollbackFails(w) ==
    /\ At(w, "rollback")
    /\ Goes(w, "handler")
    /\ UNCHANGED <<open, written, durable>>

\* except BaseException: roll back what is open, whoever opened it; the note of
\* a second failure changes nothing.
Handle(w) ==
    /\ At(w, "handler")
    /\ \/ open' = {} /\ written' = {}
       \/ open # {} /\ UNCHANGED <<open, written>>
    /\ Goes(w, "failed")
    /\ UNCHANGED durable

-----------------------------------------------------------------------------
\* The process ends and the file keeps what was committed; the calls still to
\* come are those of the next process, over a new connection.
Crash ==
    /\ \E w \in Writers : caller[w] \in {"queued", "waiting"}
    /\ caller' = [w \in Writers |->
                    IF caller[w] \in {"queued", "waiting"} THEN "crashed"
                    ELSE caller[w]]
    /\ operating' = {}
    /\ open' = {}
    /\ written' = {}
    /\ UNCHANGED <<worker, requested, durable>>

Step(w) ==
    \/ Enter(w)
    \/ Leave(w)
    \/ Begin(w)
    \/ BeginFails(w)
    \/ Operate(w)
    \/ OperateFails(w)
    \/ Commit(w)
    \/ CommitFails(w)
    \/ Rollback(w)
    \/ RollbackFails(w)
    \/ Handle(w)

Next ==
    \/ \E w \in Writers : Call(w) \/ Cancel(w) \/ Step(w)
    \/ Crash

Spec == Init /\ [][Next]_vars

-----------------------------------------------------------------------------
(* What a write operation promises.                                        *)

\* A caller that got its result finds its rows in the file; one that got an error
\* or a cancellation does not, and no later transaction on the shared connection
\* carries them in (_run_write_transaction, "without ambiguous cancellation
\* outcomes").
OutcomeUnambiguous ==
    \A w \in Writers :
        /\ caller[w] = "returned" => w \in durable
        /\ caller[w] \in {"cancelled", "raised"} => w \notin durable

\* Every operation is one write its caller is told the truth about.
Promise == INSTANCE DurableWrites WITH
    told <- [w \in Writers |->
                CASE caller[w] = "returned"               -> "stored"
                  [] caller[w] \in {"cancelled", "raised"} -> "not stored"
                  [] OTHER                                 -> "nothing"],
    stored <- durable

ImplementsDurableWrites == Promise!Init /\ [][Promise!Next]_(Promise!vars)
============================================================================
