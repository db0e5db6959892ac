---------------------------- MODULE SessionFiles ----------------------------
(* The long results of calls and the deletion of sessions                   *)
(* (tools/artifacts.py, context/session/store.py, cli/sessions.py).  A long  *)
(* result goes to a file, by a thread, and a row that refers to the file     *)
(* follows when the round is over; meanwhile another process, which takes no *)
(* lock, may delete the session with its children and then their files.      *)
(* The trace of a tree, which goes first, is left out.                       *)
EXTENDS FiniteSets

CONSTANTS
    Family,     \* the sessions
    ParentOf,   \* of each, or NoParent
    NoParent,
    Ids         \* a provider's call ids, used once in a session

VARIABLES
    there,      \* "new", "there" or "gone", of each session
    messages,   \* rows of each session: the call, the file they refer to or NoPath
    progress,   \* of each call
    writer,     \* its thread
    files,      \* artifacts: the path, and the call whose result it holds
    remover,    \* sessions delete: where it is, the session, paths to unlink
    left        \* paths it gave up on

vars == <<there, messages, progress, writer, files, remover, left>>

callVars == <<progress, writer, files>>
deletionVars == <<remover, left>>

Results == Family \X Ids
NoPath == <<>>
NoRemover == [at |-> "idle", paths |-> {}]

\* Mutant of Identity: the scope of the store is forgotten.
IdentityOfCall(result) == <<NoParent, result[2]>>
\* persist: the scope is the session.
Identity(result) == result

TypeOK ==
    /\ there \in [Family -> {"new", "there", "gone"}]
    /\ \A s \in Family : \A m \in messages[s] : m.of \in Results
    /\ progress \in [Results ->
            {"none", "persisting", "stored", "plain", "done", "dropped"}]
    /\ writer \in [Results -> {"none", "writing", "written", "failed"}]
    /\ \A f \in files : f.of \in Results
    /\ remover.at \in {"idle"} \cup Family \cup {"unlinking"}

Init ==
    /\ there = [s \in Family |-> "new"]
    /\ messages = [s \in Family |-> {}]
    /\ progress = [r \in Results |-> "none"]
    /\ writer = [r \in Results |-> "none"]
    /\ files = {}
    /\ remover = NoRemover /\ left = {}

-----------------------------------------------------------------------------
(* The agents' process.                                                    *)

\* create_session, with its parent by the foreign key.
Create(s) ==
    /\ there[s] = "new"
    /\ \A parent \in {ParentOf[s]} \ {NoParent} : there[parent] = "there"
    /\ there' = [there EXCEPT ![s] = "there"]
    /\ UNCHANGED <<messages, callVars, deletionVars>>

\* _offload_result of a long result: an agent may be at work in a session that
\* somebody has deleted.
Persist(r) ==
    /\ progress[r] = "none" /\ there[r[1]] # "new"
    /\ progress' = [progress EXCEPT ![r] = "persisting"]
    /\ writer' = [writer EXCEPT ![r] = "writing"]
    /\ UNCHANGED <<there, messages, files, deletionVars>>

\* _write_atomic, on its thread, for a call that may have been cancelled.
Write(r) ==
    /\ writer[r] = "writing"
    /\ writer' = [writer EXCEPT ![r] = "written"]
    /\ files' = {f \in files : f.path # Identity(r)} \cup {[path |-> Identity(r), of |-> r]}
    /\ UNCHANGED <<there, messages, progress, deletionVars>>
WriteFails(r) ==
    /\ writer[r] = "writing"
    /\ writer' = [writer EXCEPT ![r] = "failed"]
    /\ UNCHANGED <<there, messages, progress, files, deletionVars>>

\* The reference, or a result that says that it is cut.
Persisted(r) ==
    /\ progress[r] = "persisting" /\ writer[r] \in {"written", "failed"}
    /\ progress' = [progress EXCEPT
            ![r] = IF writer[r] = "written" THEN "stored" ELSE "plain"]
    /\ UNCHANGED <<there, messages, writer, files, deletionVars>>

\* append_message; without its session the row is refused, and the turn fails.
AppendResult(r) ==
    /\ progress[r] \in {"stored", "plain"}
    /\ IF there[r[1]] = "there"
       THEN /\ messages' = [messages EXCEPT ![r[1]] = @ \cup
                 {[of |-> r, path |-> IF progress[r] = "stored" THEN Identity(r) ELSE NoPath]}]
            /\ progress' = [progress EXCEPT ![r] = "done"]
       ELSE /\ progress' = [progress EXCEPT ![r] = "dropped"]
            /\ UNCHANGED messages
    /\ UNCHANGED <<there, writer, files, deletionVars>>

\* The turn is cancelled; the thread goes on.
CancelCall(r) ==
    /\ progress[r] \in {"persisting", "stored", "plain"}
    /\ progress' = [progress EXCEPT ![r] = "dropped"]
    /\ UNCHANGED <<there, messages, writer, files, deletionVars>>

\* The process is gone, and its threads.
AgentsCrash ==
    /\ \E r \in Results : progress[r] = "persisting" \/ writer[r] = "writing"
    /\ progress' = [r \in Results |->
            IF progress[r] \in {"persisting", "stored", "plain"} THEN "dropped"
            ELSE progress[r]]
    /\ writer' = [r \in Results |->
            IF writer[r] = "writing" THEN "failed" ELSE writer[r]]
    /\ UNCHANGED <<there, messages, files, deletionVars>>

-----------------------------------------------------------------------------
(* The process that deletes (_delete_session).                             *)

Referred(sessions) ==
    {m.path : m \in UNION {messages[s] : s \in sessions}} \ {NoPath}
Closed(sessions) ==
    \A s \in Family :
        ParentOf[s] \in sessions /\ there[s] = "there" => s \in sessions
\* A session with all that is below it: what no set of sessions that is closed
\* towards their children can leave out.
Below(session) ==
    {s \in Family : \A sessions \in SUBSET Family :
        session \in sessions /\ Closed(sessions) => s \in sessions}

\* root_session_id; an unknown session is refused.
LookUp(s) ==
    /\ remover.at = "idle" /\ there[s] = "there"
    /\ remover' = [remover EXCEPT !.at = s]
    /\ UNCHANGED <<there, messages, callVars, left>>

\* delete_session_tree: one transaction; what other sessions refer to is kept.
DeleteTree ==
    /\ remover.at \in Family
    /\ LET deleted == Below(remover.at)
       IN  /\ there' = [s \in Family |-> IF s \in deleted THEN "gone" ELSE there[s]]
           /\ messages' = [s \in Family |-> IF s \in deleted THEN {} ELSE messages[s]]
           /\ remover' = [at |-> "unlinking",
                          paths |-> Referred(deleted) \ Referred(Family \ deleted)]
    /\ UNCHANGED <<callVars, left>>

\* remove_session_files, a path after the other.
Unlink(path) ==
    /\ remover.at = "unlinking" /\ path \in remover.paths
    /\ files' = {f \in files : f.path # path}
    /\ remover' = [remover EXCEPT !.paths = @ \ {path}]
    /\ UNCHANGED <<there, messages, progress, writer, left>>
DeletionDone ==
    /\ remover.at = "unlinking" /\ remover.paths = {}
    /\ remover' = NoRemover
    /\ UNCHANGED <<there, messages, callVars, left>>

\* A path that cannot be unlinked, or a crash.
DeletionBreaksOff ==
    /\ remover.at = "unlinking"
    /\ left' = left \cup remover.paths
    /\ remover' = NoRemover
    /\ UNCHANGED <<there, messages, callVars>>

Next ==
    \/ \E s \in Family : Create(s) \/ LookUp(s)
    \/ \E r \in Results :
          Persist(r) \/ Write(r) \/ WriteFails(r) \/ Persisted(r)
            \/ AppendResult(r) \/ CancelCall(r)
    \/ AgentsCrash
    \/ DeleteTree
    \/ \E path \in remover.paths : Unlink(path)
    \/ DeletionDone \/ DeletionBreaksOff

Spec == Init /\ [][Next]_vars

-----------------------------------------------------------------------------
(* What a reference is worth.                                              *)

\* However the writing of results, the appending of rows, cancellations and crashes
\* interleave with the deletion of a session or of its tree: a row's session is
\* there, and so is its parent; a file that a row refers to is there and holds the
\* result of that row's call, not of the same id in another session; and of what the
\* rows of a deleted session referred to nothing is left that is not being unlinked,
\* but for a deletion that broke off (ArtifactStore.persist, delete_session_tree,
\* remove_session_files).
ReferencesAreKept ==
    /\ \A s \in Family :
          there[s] = "there" /\ ParentOf[s] # NoParent => there[ParentOf[s]] = "there"
    /\ \A s \in Family : \A m \in messages[s] :
          /\ there[s] = "there"
          /\ m.path # NoPath => [path |-> m.path, of |-> m.of] \in files
    /\ \A f \in files :
          there[f.of[1]] = "gone" /\ progress[f.of] = "done" =>
             f.path \in remover.paths \cup left
=============================================================================
