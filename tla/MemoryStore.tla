---------------------------- MODULE MemoryStore ----------------------------
(***************************************************************************)
(* The durable memories of a project (src/litecoder/memory/store.py): one  *)
(* file for each and an index, changed as a whole under a gate of the      *)
(* process and a file lock.  The tools (src/litecoder/tools/memory.py)     *)
(* change one memory and wait without blocking the event loop; extraction  *)
(* and consolidation (extraction.py, consolidation.py) ask the model and   *)
(* then change the store in the event loop's own thread.                   *)
(***************************************************************************)
EXTENDS Naturals, FiniteSets

CONSTANTS
    Names,          \* of memories
    Callers,
    ProcessOf,      \* by caller: its process
    MaxVersion,     \* bound: contents written
    MaxFailures     \* bound: crashes, and files that cannot be moved

VARIABLES
    root,           \* .memory: absent, without an index, or with one
    files,          \* by name: the version of its content, 0 for no file
    index,          \* by name: the version it was listed with
    at,             \* by caller: where it is
    how,            \* by caller: what it does
    seen,           \* by caller: what a consolidation has read
    gate,           \* _operation_gate, by process: who holds it
    lock,           \* the file lock: who holds it
    target,         \* what its holder is to make of the files
    left,           \* the names it has yet to move or remove
    backup,         \* the files it began with
    owed,           \* by name: the versions the user may find
    torn,           \* a change was left half done
    versions,
    failures

vars ==
    <<root, files, index, at, how, seen, gate, lock, target, left, backup, owed,
      torn, versions, failures>>

Processes == {ProcessOf[c] : c \in Callers}
Contents == [Names -> 0 .. MaxVersion]
Nothing == [n \in Names |-> 0]
Tools == {"update", "delete"}
Jobs == {"extract", "consolidate"}
Places ==
    {"idle", "asking", "gating", "gated", "locking", "locked", "moving",
     "undoing", "worked"}

TypeOK ==
    /\ root \in {"absent", "bare", "indexed"}
    /\ files \in Contents /\ index \in Contents
    /\ at \in [Callers -> Places]
    /\ how \in [Callers -> Tools \cup Jobs]
    /\ seen \in [Callers -> Contents \X Contents]
    /\ gate \in [Processes -> SUBSET Callers]
    /\ lock \in SUBSET Callers
    /\ target \in Contents /\ left \in SUBSET Names /\ backup \in Contents
    /\ owed \in [Names -> SUBSET (0 .. MaxVersion)]
    /\ torn \in BOOLEAN
    /\ versions \in 0 .. MaxVersion
    /\ failures \in 0 .. MaxFailures

Init ==
    /\ root \in {"absent", "bare"}
    /\ files = Nothing /\ index = Nothing
    /\ at = [c \in Callers |-> "idle"]
    /\ how = [c \in Callers |-> "update"]
    /\ seen = [c \in Callers |-> <<Nothing, Nothing>>]
    /\ gate = [p \in Processes |-> {}]
    /\ lock = {}
    /\ target = Nothing /\ left = {} /\ backup = Nothing
    /\ owed = [n \in Names |-> {0}]
    /\ torn = FALSE
    /\ versions = 0
    /\ failures = 0

diskVars == <<root, files, index, owed, torn>>
workVars == <<target, left, backup>>

-----------------------------------------------------------------------------
(* The event loop, the gate and the lock.                                  *)

Waits == {"gating", "gated", "locking", "locked", "moving", "undoing"}

\* Nobody who has the gate, or wants it, does so in the thread of the loop.
LoopIsFree(p) ==
    \A c \in Callers :
        ProcessOf[c] = p => ~(how[c] \in Jobs /\ at[c] \in Waits)

\* Only the thread of a tool's worker moves while the loop does not.
Runs(c, from, to) ==
    /\ at[c] = from
    /\ how[c] \in Tools => LoopIsFree(ProcessOf[c])
    /\ at' = [at EXCEPT ![c] = to]

Forgets(gone) ==
    /\ how' = [c \in Callers |-> IF c \in gone THEN "update" ELSE how[c]]
    /\ seen' = [c \in Callers |->
                  IF c \in gone THEN <<Nothing, Nothing>> ELSE seen[c]]

\* A consolidation first reads the whole store, which it waits for in the thread
\* of the loop; the wait is like the one of "gating" and is left out.
Call(c) ==
    /\ at[c] = "idle"
    /\ LoopIsFree(ProcessOf[c])
    /\ \E what \in Tools \cup Jobs :
          /\ how' = [how EXCEPT ![c] = what]
          /\ at' = [at EXCEPT ![c] = IF what \in Tools THEN "gating" ELSE "asking"]
          /\ IF what = "consolidate"
             THEN /\ gate[ProcessOf[c]] = {} /\ lock = {}
                  /\ seen' = [seen EXCEPT ![c] = <<index, files>>]
             ELSE UNCHANGED seen
    /\ UNCHANGED <<diskVars, gate, lock, workVars, versions, failures>>

\* The model has answered: the store is called, and the loop waits for it.
Answered(c) ==
    /\ at[c] = "asking"
    /\ LoopIsFree(ProcessOf[c])
    /\ at' = [at EXCEPT ![c] = "gating"]
    /\ UNCHANGED <<diskVars, how, seen, gate, lock, workVars, versions, failures>>

\* The model gave no answer, or none that can be used.
Declined(c) ==
    /\ at[c] = "asking"
    /\ LoopIsFree(ProcessOf[c])
    /\ at' = [at EXCEPT ![c] = "idle"]
    /\ Forgets({c})
    /\ UNCHANGED <<diskVars, gate, lock, workVars, versions, failures>>

\* A tool's wait is in a thread.
TakeGate(c) ==
    /\ at[c] = "gating"
    /\ gate[ProcessOf[c]] = {}
    /\ at' = [at EXCEPT ![c] = "gated"]
    /\ gate' = [gate EXCEPT ![ProcessOf[c]] = {c}]
    /\ UNCHANGED <<diskVars, how, seen, lock, workVars, versions, failures>>

AskLock(c) ==
    /\ Runs(c, "gated", "locking")
    /\ UNCHANGED <<diskVars, how, seen, gate, lock, workVars, versions, failures>>

TakeLock(c) ==
    /\ at[c] = "locking"
    /\ lock = {}
    /\ at' = [at EXCEPT ![c] = "locked"]
    /\ lock' = {c}
    /\ UNCHANGED <<diskVars, how, seen, gate, workVars, versions, failures>>

\* ResourceLockUnavailable: another process has it for too long.
LockUnavailable(c) ==
    /\ Runs(c, "locking", "idle")
    /\ lock # {}
    /\ gate' = [gate EXCEPT ![ProcessOf[c]] = {}]
    /\ Forgets({c})
    /\ UNCHANGED <<diskVars, lock, workVars, versions, failures>>

\* The worker is done, whether it changed anything or raised; a tool's call that
\* was cancelled waits for it all the same.
Return(c) ==
    /\ Runs(c, "worked", "idle")
    /\ lock' = {}
    /\ gate' = [gate EXCEPT ![ProcessOf[c]] = {}]
    /\ Forgets({c})
    /\ target' = Nothing /\ left' = {} /\ backup' = Nothing
    /\ UNCHANGED <<diskVars, versions, failures>>

-----------------------------------------------------------------------------
(* update, replace_all, _replace_all_locked: by whoever holds the lock.    *)

\* A root without an index has no memories, whatever files are in it.
Current == IF root = "indexed" THEN files ELSE Nothing

\* What the call wants: new content for some names, one less, or whatever the
\* model makes of all of them.
Wanted(c, base) ==
    LET new == versions + 1 IN
    CASE how[c] = "update" ->
            {[base EXCEPT ![n] = new] : n \in Names}
      [] how[c] = "extract" ->
            {[n \in Names |-> IF n \in some THEN new ELSE base[n]] :
                some \in SUBSET Names \ {{}}}
      [] how[c] = "delete" ->
            {[base EXCEPT ![n] = 0] : n \in {m \in Names : base[m] # 0}}
      [] how[c] = "consolidate" ->
            {[n \in Names |-> IF base[n] = 0 \/ n \in drop THEN 0 ELSE
                              IF n \in merge THEN new ELSE base[n]] :
                drop \in SUBSET Names, merge \in SUBSET Names}

\* The names whose content is this call's to decide.
Decides(c) ==
    IF how[c] = "consolidate" THEN {n \in Names : seen[c][2][n] = files[n]}
    ELSE {n \in Names : target'[n] # Current[n]}

Plans(c, base) ==
    /\ at[c] = "locked"
    /\ target' \in Wanted(c, base)
    /\ \/ \A n \in Names : target'[n] # versions + 1
       \/ versions < MaxVersion
    /\ versions' = IF \E n \in Names : target'[n] > versions THEN versions + 1
                   ELSE versions
    /\ backup' = files
    /\ IF root = "absent"
       THEN \* _install_initial_locked renames a whole directory
            /\ files' = target' /\ index' = target'
            /\ root' = IF target' = Nothing THEN root ELSE "indexed"
            /\ owed' = [n \in Names |-> {target'[n]}]
            /\ left' = {}
            /\ at' = [at EXCEPT ![c] = "worked"]
       ELSE /\ left' = {n \in Names : target'[n] # files[n]}
            /\ owed' = [n \in Names |->
                          owed[n] \cup (IF n \in Decides(c) THEN {target'[n]}
                                        ELSE {})]
            /\ at' = [at EXCEPT ![c] = "moving"]
            /\ UNCHANGED <<root, files, index>>
    /\ UNCHANGED <<how, seen, gate, lock, torn, failures>>

PlanWhateverWasRead(c) ==
    Plans(c, IF how[c] = "consolidate" THEN seen[c][2] ELSE Current)

\* A consolidation is refused when the store is not what it has read.
Plan(c) ==
    /\ how[c] = "consolidate" => seen[c] = <<index, files>>
    /\ Plans(c, IF how[c] = "consolidate" THEN seen[c][2] ELSE Current)

\* MemoryConflictError, _MissingMemory, too many entries, or the new contents
\* cannot be staged: nothing is touched.
Refused(c) ==
    /\ at[c] = "locked"
    /\ at' = [at EXCEPT ![c] = "worked"]
    /\ UNCHANGED <<diskVars, how, seen, gate, lock, workVars, versions, failures>>

\* First what stays is replaced, then what goes is removed.
Move(c) ==
    /\ at[c] = "moving"
    /\ \E n \in left :
          /\ target[n] = 0 => \A m \in left : target[m] = 0
          /\ files' = [files EXCEPT ![n] = target[n]]
          /\ left' = left \ {n}
    /\ UNCHANGED <<root, index, at, how, seen, gate, lock, target, backup, owed,
                   torn, versions, failures>>

\* The index last.
MoveIndex(c) ==
    /\ at[c] = "moving"
    /\ left = {}
    /\ index' = target
    /\ root' = "indexed"
    /\ owed' = [n \in Names |-> IF target[n] \in owed[n] THEN {target[n]}
                                ELSE owed[n]]
    /\ torn' = FALSE
    /\ at' = [at EXCEPT ![c] = "worked"]
    /\ UNCHANGED <<files, how, seen, gate, lock, workVars, versions, failures>>

MoveFails(c) ==
    /\ at[c] = "moving"
    /\ failures < MaxFailures
    /\ failures' = failures + 1
    /\ at' = [at EXCEPT ![c] = "undoing"]
    /\ UNCHANGED <<diskVars, how, seen, gate, lock, workVars, versions>>

\* _rollback_locked
Undo(c) ==
    /\ at[c] = "undoing"
    /\ files' = backup
    /\ owed' = [n \in Names |->
                   LET was == IF root = "indexed" THEN backup[n] ELSE 0
                   IN IF was \in owed[n] THEN {was} ELSE owed[n]]
    /\ at' = [at EXCEPT ![c] = "worked"]
    /\ UNCHANGED <<root, index, how, seen, gate, lock, workVars, torn, versions,
                   failures>>

\* Some files are as they were before and some are not.
HalfUndone ==
    /\ files' \in {[n \in Names |-> IF n \in back THEN backup[n] ELSE files[n]] :
                      back \in SUBSET Names}
    /\ torn' = TRUE
    /\ failures < MaxFailures
    /\ failures' = failures + 1
    /\ UNCHANGED <<root, index, owed>>

UndoFails(c) ==
    /\ at[c] = "undoing"
    /\ HalfUndone
    /\ at' = [at EXCEPT ![c] = "worked"]
    /\ UNCHANGED <<how, seen, gate, lock, workVars, versions>>

Crash(p) ==
    LET gone == {c \in Callers : ProcessOf[c] = p}
        Any(place) == \E c \in gone : at[c] = place
    IN
    /\ \E c \in gone : at[c] # "idle"
    /\ IF Any("undoing") THEN HalfUndone
       ELSE /\ torn' = (torn \/ Any("moving"))
            /\ failures < MaxFailures
            /\ failures' = failures + 1
            /\ UNCHANGED <<root, files, index, owed>>
    /\ at' = [c \in Callers |-> IF c \in gone THEN "idle" ELSE at[c]]
    /\ gate' = [gate EXCEPT ![p] = {}]
    /\ lock' = lock \ gone
    /\ Forgets(gone)
    /\ IF lock \subseteq gone
       THEN target' = Nothing /\ left' = {} /\ backup' = Nothing
       ELSE UNCHANGED workVars
    /\ UNCHANGED versions

Next ==
    \/ \E c \in Callers :
          \/ Call(c)
          \/ Answered(c)
          \/ Declined(c)
          \/ TakeGate(c)
          \/ AskLock(c)
          \/ TakeLock(c)
          \/ LockUnavailable(c)
          \/ Return(c)
          \/ Plan(c)
          \/ Refused(c)
          \/ Move(c)
          \/ MoveIndex(c)
          \/ MoveFails(c)
          \/ Undo(c)
          \/ UndoFails(c)
    \/ \E p \in Processes : Crash(p)

Spec == Init /\ [][Next]_vars

-----------------------------------------------------------------------------
\* Whoever changes the memories, and whatever crashes or fails in between, the
\* user finds what was last written or deleted with success, or what an attempt
\* cut short was about to make of it; a consolidation undoes nothing that it has
\* not read; and the index lists the files unless a change was left half done
\* (_replace_all_locked, consolidate_memories).
MemoriesAreKept ==
    lock = {} =>
        /\ \A n \in Names : Current[n] \in owed[n]
        /\ (root = "indexed" /\ ~torn) => index = files

\* The event loop never waits for the gate while a task of its own, which only
\* goes on in the loop, has it (system_payload_async, _run_async_file_lock).
NobodyWaitsForItself ==
    \A c, d \in Callers :
        (how[c] \in Jobs /\ at[c] = "gating" /\ gate[ProcessOf[c]] = {d}) =>
            how[d] \notin Tools
=============================================================================
