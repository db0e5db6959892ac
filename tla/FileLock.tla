------------------------------ MODULE FileLock ------------------------------
(***************************************************************************)
(* NamedFileLock (src/litecoder/common/locks.py): one lock file, the lock  *)
(* objects that name it in one or more processes, and the tasks that use   *)
(* acquired_async.  The blocking calls run in a thread the task cannot     *)
(* stop: a task that is cancelled while its thread takes the lock waits    *)
(* for the thread and gives back what it got.                              *)
(***************************************************************************)
CONSTANTS
    Users,      \* tasks that enter acquired_async, once each
    Objects,    \* NamedFileLock objects that name the same file
    ObjectOf    \* by user: the object it uses

VARIABLES
    attempt,    \* by user: where the task is in acquired_async
    thread,     \* by user: what its thread does
    cancelled,  \* the users that were sent a cancellation
    owning,     \* by object: the user whose thread took _ownership_lock
    file        \* the object the operating system gave the file to

vars == <<attempt, thread, cancelled, owning, file>>

Over == {"finished", "cancelled", "unavailable", "cancelled, unavailable"}
TaskStates == {"new", "acquiring", "inside", "releasing", "giving back"} \cup Over
ThreadStates ==
    {"none", "claim", "open", "holds", "refused", "unlock", "disown", "gave back"}

TypeOK ==
    /\ attempt \in [Users -> TaskStates]
    /\ thread \in [Users -> ThreadStates]
    /\ cancelled \subseteq Users
    /\ owning \in [Objects -> SUBSET Users]
    /\ file \subseteq Objects

Init ==
    /\ attempt = [u \in Users |-> "new"]
    /\ thread = [u \in Users |-> "none"]
    /\ cancelled = {}
    /\ owning = [o \in Objects |-> {}]
    /\ file = {}

-----------------------------------------------------------------------------
(* The threads: acquire and release.                                       *)

Thread(u, from, to) ==
    /\ thread[u] = from
    /\ thread' = [thread EXCEPT ![u] = to]

\* The ownership lock is taken at once or within the timeout ...
Claim(u) ==
    /\ Thread(u, "claim", "open")
    /\ owning[ObjectOf[u]] = {}
    /\ owning' = [owning EXCEPT ![ObjectOf[u]] = {u}]
    /\ UNCHANGED <<attempt, cancelled, file>>

ClaimTimesOut(u) ==
    /\ Thread(u, "claim", "refused")
    /\ owning[ObjectOf[u]] # {}
    /\ UNCHANGED <<attempt, cancelled, owning, file>>

\* ... then the file, for what is left of the timeout.
Open(u) ==
    /\ Thread(u, "open", "holds")
    /\ file = {}
    /\ file' = {ObjectOf[u]}
    /\ UNCHANGED <<attempt, cancelled, owning>>

\* Locked by another object, or the file cannot be opened: ownership goes back.
OpenFailsOwning(u) ==
    /\ Thread(u, "open", "refused")
    /\ UNCHANGED <<attempt, cancelled, owning, file>>

OpenFails(u) ==
    /\ Thread(u, "open", "refused")
    /\ owning' = [owning EXCEPT ![ObjectOf[u]] = {}]
    /\ UNCHANGED <<attempt, cancelled, file>>

\* release: the file first, then _lock and the ownership lock (finally).  Only a
\* task that holds the lock gets here, so _lock is set.
Unlock(u) ==
    /\ Thread(u, "unlock", "disown")
    /\ file' = {}
    /\ UNCHANGED <<attempt, cancelled, owning>>

Disown(u) ==
    /\ Thread(u, "disown", "gave back")
    /\ owning' = [owning EXCEPT ![ObjectOf[u]] = {}]
    /\ UNCHANGED <<attempt, cancelled, file>>

-----------------------------------------------------------------------------
(* The tasks.                                                              *)

Task(u, from, to) ==
    /\ attempt[u] = from
    /\ attempt' = [attempt EXCEPT ![u] = to]

Enter(u) ==
    /\ Task(u, "new", "acquiring")
    /\ thread' = [thread EXCEPT ![u] = "claim"]
    /\ UNCHANGED <<cancelled, owning, file>>

\* The cancellation interrupts the task, never its thread.
Cancel(u) ==
    /\ attempt[u] \in {"acquiring", "inside", "releasing", "giving back"}
    /\ u \notin cancelled
    /\ cancelled' = cancelled \cup {u}
    /\ attempt' = IF attempt[u] = "inside"
               THEN [attempt EXCEPT ![u] = "releasing"] ELSE attempt
    /\ thread' = IF attempt[u] = "inside"
                 THEN [thread EXCEPT ![u] = "unlock"] ELSE thread
    /\ UNCHANGED <<owning, file>>

\* await asyncio.shield(acquisition)
Acquired(u) ==
    /\ Task(u, "acquiring", "inside")
    /\ thread[u] = "holds"
    /\ u \notin cancelled
    /\ UNCHANGED <<thread, cancelled, owning, file>>

Unavailable(u) ==
    /\ attempt[u] = "acquiring"
    /\ thread[u] = "refused"
    /\ attempt' = [attempt EXCEPT ![u] =
                  IF u \in cancelled THEN "cancelled, unavailable" ELSE "unavailable"]
    /\ UNCHANGED <<thread, cancelled, owning, file>>

\* except CancelledError: wait for the thread, give back what it took.
DropLock(u) ==
    /\ attempt[u] = "acquiring"
    /\ u \in cancelled
    /\ attempt' = [attempt EXCEPT ![u] = "cancelled"]
    /\ UNCHANGED <<thread, cancelled, owning, file>>

GiveBack(u) ==
    /\ Task(u, "acquiring", "giving back")
    /\ thread[u] = "holds"
    /\ u \in cancelled
    /\ thread' = [thread EXCEPT ![u] = "unlock"]
    /\ UNCHANGED <<cancelled, owning, file>>

\* The body ends, or raises.
Exit(u) ==
    /\ Task(u, "inside", "releasing")
    /\ thread' = [thread EXCEPT ![u] = "unlock"]
    /\ UNCHANGED <<cancelled, owning, file>>

\* _release_async waits for its thread through any number of cancellations.
Released(u) ==
    /\ attempt[u] \in {"releasing", "giving back"}
    /\ thread[u] = "gave back"
    /\ attempt' = [attempt EXCEPT ![u] =
                  IF u \in cancelled THEN "cancelled" ELSE "finished"]
    /\ UNCHANGED <<thread, cancelled, owning, file>>

Step(u) ==
    \/ Claim(u)
    \/ ClaimTimesOut(u)
    \/ Open(u)
    \/ OpenFails(u)
    \/ Unlock(u)
    \/ Disown(u)
    \/ Acquired(u)
    \/ Unavailable(u)
    \/ GiveBack(u)
    \/ Exit(u)
    \/ Released(u)

Next == \E u \in Users : Enter(u) \/ Cancel(u) \/ Step(u)

Spec == Init /\ [][Next]_vars

-----------------------------------------------------------------------------
(* What the lock promises.                                                 *)

\* At most one task is inside, and a task that is over, however it ended, has left
\* neither the file nor its object locked (acquired_async).
LockGivenBack ==
    /\ \A u, v \in Users : attempt[u] = "inside" /\ attempt[v] = "inside" => u = v
    /\ \A u \in Users : attempt[u] \in Over => u \notin owning[ObjectOf[u]]
    /\ \A o \in file : owning[o] # {}
=============================================================================
