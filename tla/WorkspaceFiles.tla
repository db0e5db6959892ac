--------------------------- MODULE WorkspaceFiles ---------------------------
(***************************************************************************)
(* read_file, write_file and edit_file (src/litecoder/tools/builtin/       *)
(* filesystem.py) and the way they reach a file (secure_path.py): the      *)
(* directories of its path are opened one from the other, or on Windows    *)
(* each by its name while those above cannot be moved, and a new content   *)
(* is written beside the file and renamed over it.  The user, and programs *)
(* the user runs, change the same files at any moment.                     *)
(***************************************************************************)
EXTENDS Naturals, FiniteSets

CONSTANTS
    Directories,    \* that the path may lead to
    Callers,        \* one call of a tool each
    MaxVersion,     \* bound: contents written
    MaxTroubles     \* bound: failures of the system, interrupts, crashes

VARIABLES
    platform,
    leads,          \* what the path's directory is: one of them, a link, nothing
    content,        \* by directory: its file: none, a link, cut off, a version
    leftovers,      \* by directory: the temporary files of calls, as they are
    at,             \* by call: where it is
    tool,           \* by call
    held,           \* by call: the directory it has open
    read,           \* by call: the content it has read
    payload,        \* by call: the version it writes
    replaced,       \* by call
    outcome,        \* by call
    found,          \* ghost: the content when the call looked for the last time
    versions,
    troubles

vars ==
    <<platform, leads, content, leftovers, at, tool, held, read, payload,
      replaced, outcome, found, versions, troubles>>

None == 0
Versions == 1 .. MaxVersion
Contents == {None} \cup Versions \cup {MaxVersion + 1, MaxVersion + 2}
Odd == MaxVersion + 1                   \* a link, a directory, a device
Cut == MaxVersion + 2                   \* what a lost write has left
Tools == {"read", "write", "edit"}
NotOpen == "nothing"
Failures == {"denied", "failed", "interrupted"}
Outcomes == Failures \cup {"none", "read", "unchanged", "changed", "partial"}
Open == {"parent", "looking", "creating", "writing", "syncing", "renaming",
         "settling", "cleaning"}

TypeOK ==
    /\ platform \in {"posix", "windows"}
    /\ leads \in Directories \cup {"link", "nothing"}
    /\ content \in [Directories -> Contents]
    /\ leftovers \in [Directories -> SUBSET (Callers \X {"part", "whole"})]
    /\ at \in [Callers -> Open \cup {"idle", "matching", "done", "dead"}]
    /\ tool \in [Callers -> Tools]
    /\ held \in [Callers -> Directories \cup {NotOpen}]
    /\ read \in [Callers -> Contents]
    /\ payload \in [Callers -> Contents]
    /\ replaced \in [Callers -> BOOLEAN]
    /\ outcome \in [Callers -> Outcomes]
    /\ found \in [Callers -> Contents]
    /\ versions \in 0 .. MaxVersion
    /\ troubles \in 0 .. MaxTroubles

Init ==
    /\ platform \in {"posix", "windows"}
    /\ leads \in Directories
    /\ \E d \in Directories, c \in {None, 1} :
          content = [e \in Directories |-> IF e = d THEN c ELSE None]
    /\ leftovers = [d \in Directories |-> {}]
    /\ at = [c \in Callers |-> "idle"]
    /\ tool = [c \in Callers |-> "read"]
    /\ held = [c \in Callers |-> NotOpen]
    /\ read = [c \in Callers |-> None]
    /\ payload = [c \in Callers |-> None]
    /\ replaced = [c \in Callers |-> FALSE]
    /\ outcome = [c \in Callers |-> "none"]
    /\ found = [c \in Callers |-> None]
    /\ versions = 1
    /\ troubles = 0

diskVars == <<platform, leads, content, leftovers>>
callVars == <<tool, held, read, payload, replaced, outcome, found>>

-----------------------------------------------------------------------------
(* A call.  Those that write have the workspace to themselves.             *)

Goes(c, from, to) ==
    /\ at[c] = from
    /\ at' = [at EXCEPT ![c] = to]

\* The end of a call: what it has open is closed.
Ends(c, from, how) ==
    /\ Goes(c, from, "done")
    /\ outcome' = [outcome EXCEPT ![c] = how]
    /\ held' = [held EXCEPT ![c] = NotOpen]

Trouble ==
    /\ troubles < MaxTroubles
    /\ troubles' = troubles + 1

Writing(c) == at[c] \notin {"idle", "done", "dead"} /\ tool[c] # "read"

Call(c) ==
    /\ Goes(c, "idle", "parent")
    /\ \E t \in Tools :
          /\ tool' = [tool EXCEPT ![c] = t]
          /\ \A d \in Callers :
                at[d] \notin {"idle", "done", "dead"} =>
                    t = "read" /\ ~Writing(d)
          /\ IF t = "write"
             THEN \E v \in Versions :
                     /\ v <= versions + 1
                     /\ payload' = [payload EXCEPT ![c] = v]
                     /\ versions' = IF v > versions THEN v ELSE versions
             ELSE UNCHANGED <<payload, versions>>
    /\ UNCHANGED <<diskVars, held, read, replaced, outcome, found, troubles>>

\* _posix_parent, _windows_parent
OpenParent(c) ==
    /\ Goes(c, "parent", "looking")
    /\ leads \in Directories
    /\ held' = [held EXCEPT ![c] = leads]
    /\ UNCHANGED <<diskVars, tool, read, payload, replaced, outcome, found,
                   versions, troubles>>

\* A component is a link, or is not there: on Windows what is not there ends the
\* call in an error of its own, which the executor reports as a failure.
ParentDenied(c) ==
    /\ leads \notin Directories
    /\ Ends(c, "parent",
            IF platform = "windows" /\ leads = "nothing" THEN "failed"
            ELSE "denied")
    /\ UNCHANGED <<diskVars, tool, read, payload, replaced, found, versions,
                   troubles>>

\* What is in the directory that is open, wherever that is by now.
Here(c) == content[held[c]]

\* The file is read: by read_file, and by edit_file before it writes.
Read(c) ==
    /\ at[c] = "looking" /\ tool[c] # "write" /\ payload[c] = None
    /\ Here(c) \in Versions \cup {Cut}
    /\ read' = [read EXCEPT ![c] = Here(c)]
    /\ IF tool[c] = "read" THEN Ends(c, "looking", "read")
       ELSE /\ Goes(c, "looking", "matching")
            /\ held' = [held EXCEPT ![c] = NotOpen]
            /\ UNCHANGED outcome
    /\ UNCHANGED <<diskVars, tool, payload, replaced, found, versions, troubles>>

\* Not there for a reader, or not a regular file for anybody.
LookDenied(c) ==
    /\ at[c] = "looking"
    /\ \/ Here(c) = Odd
       \/ Here(c) = None /\ tool[c] # "write" /\ payload[c] = None
    /\ Ends(c, "looking",
            IF platform = "windows" /\ Here(c) = None THEN "failed" ELSE "denied")
    /\ UNCHANGED <<diskVars, tool, read, payload, replaced, found, versions,
                   troubles>>

\* It cannot be opened or read.
LookFails(c) ==
    /\ Trouble
    /\ \E how \in Failures : Ends(c, "looking", how)
    /\ UNCHANGED <<diskVars, tool, read, payload, replaced, found, versions>>

\* The text to replace is not there, or more than once; the file is too long.
NoMatch(c) ==
    /\ Ends(c, "matching", "failed")
    /\ UNCHANGED <<diskVars, tool, read, payload, replaced, found, versions,
                   troubles>>

\* The edited text, written by a second walk to the file; it may be the same.
Match(c) ==
    /\ Goes(c, "matching", "parent")
    /\ \/ /\ payload' = [payload EXCEPT ![c] = read[c]]
          /\ UNCHANGED versions
       \/ /\ versions < MaxVersion
          /\ payload' = [payload EXCEPT ![c] = versions + 1]
          /\ versions' = versions + 1
    /\ UNCHANGED <<diskVars, tool, held, read, replaced, outcome, found,
                   troubles>>

-----------------------------------------------------------------------------
(* _posix_write, _windows_write                                            *)

Unchanged(c) ==
    /\ payload[c] # None /\ at[c] = "looking" /\ Here(c) = payload[c]
    /\ found' = [found EXCEPT ![c] = Here(c)]
    /\ Ends(c, "looking", "unchanged")
    /\ UNCHANGED <<diskVars, tool, read, payload, replaced, versions, troubles>>

Differs(c) ==
    /\ payload[c] # None /\ at[c] = "looking"
    /\ Here(c) \notin {payload[c], Odd}
    /\ Goes(c, "looking", "creating")
    /\ found' = [found EXCEPT ![c] = Here(c)]
    /\ UNCHANGED <<diskVars, tool, held, read, payload, replaced, outcome,
                   versions, troubles>>

Temporary(c, state) ==
    leftovers' = [leftovers EXCEPT ![held[c]] =
        {t \in @ : t[1] # c} \cup (IF state = "gone" THEN {} ELSE {<<c, state>>})]

Create(c) ==
    /\ Goes(c, "creating", "writing")
    /\ Temporary(c, "part")
    /\ UNCHANGED <<platform, leads, content, callVars, versions, troubles>>

\* write, flush and fsync
Write(c) ==
    /\ Goes(c, "writing", "renaming")
    /\ Temporary(c, "whole")
    /\ UNCHANGED <<platform, leads, content, callVars, versions, troubles>>

\* Until its bytes are on the disk a renamed file may turn out to be cut off.
Rename(c) ==
    /\ Goes(c, "renaming", "settling")
    /\ content[held[c]] # Odd
    /\ content' = [content EXCEPT ![held[c]] =
                     IF <<c, "whole">> \in leftovers[held[c]] THEN payload[c]
                     ELSE Cut]
    /\ Temporary(c, "gone")
    /\ replaced' = [replaced EXCEPT ![c] = TRUE]
    /\ UNCHANGED <<platform, leads, tool, held, read, payload, outcome, found,
                   versions, troubles>>

\* The rename replaces a link itself, and cannot replace a directory.
RenameOverOdd(c) ==
    /\ at[c] = "renaming" /\ content[held[c]] = Odd
    /\ \/ /\ Goes(c, "renaming", "settling")
          /\ content' = [content EXCEPT ![held[c]] = payload[c]]
          /\ Temporary(c, "gone")
          /\ replaced' = [replaced EXCEPT ![c] = TRUE]
       \/ /\ Goes(c, "renaming", "cleaning")
          /\ UNCHANGED <<content, leftovers, replaced>>
    /\ UNCHANGED <<platform, leads, tool, held, read, payload, outcome, found,
                   versions, troubles>>

\* The directory is synced, or on Windows the file is opened again and checked.
Settle(c) ==
    /\ at[c] = "settling"
    /\ platform = "windows" => Here(c) \notin {None, Odd}
    /\ Ends(c, "settling", "changed")
    /\ UNCHANGED <<diskVars, tool, read, payload, replaced, found, versions,
                   troubles>>

\* ToolPartialFailure in phase "durability" or "containment"
SettleFails(c) ==
    /\ at[c] = "settling"
    /\ IF platform = "windows" /\ Here(c) \in {None, Odd} THEN UNCHANGED troubles
       ELSE Trouble
    /\ Ends(c, "settling", "partial")
    /\ UNCHANGED <<diskVars, tool, read, payload, replaced, found, versions>>

\* No temporary file, no space, no rename, or an interrupt.
WriteFails(c) ==
    /\ at[c] \in {"creating", "writing", "renaming"}
    /\ Trouble
    /\ at' = [at EXCEPT ![c] = "cleaning"]
    /\ UNCHANGED <<diskVars, callVars, versions>>

HasLeft(c) == \E t \in leftovers[held[c]] : t[1] = c

CleanUp(c) ==
    /\ \E how \in Failures : Ends(c, "cleaning", how)
    /\ Temporary(c, "gone")
    /\ UNCHANGED <<platform, leads, content, tool, read, payload, replaced, found,
                   versions, troubles>>

CleanUpFailsUnsaid(c) ==
    /\ at[c] = "cleaning" /\ HasLeft(c)
    /\ Trouble
    /\ Ends(c, "cleaning", "failed")
    /\ UNCHANGED <<diskVars, tool, read, payload, replaced, found, versions>>

\* ToolPartialFailure in phase "cleanup"
CleanUpFails(c) ==
    /\ at[c] = "cleaning" /\ HasLeft(c)
    /\ Trouble
    /\ Ends(c, "cleaning", "partial")
    /\ UNCHANGED <<diskVars, tool, read, payload, replaced, found, versions>>

-----------------------------------------------------------------------------
(* The user, and the end of the process.                                   *)

\* Windows lets nobody move a directory, or replace a file, that a call has open.
Pinned == platform = "windows" /\ \E c \in Callers : held[c] # NotOpen

Relink ==
    /\ ~Pinned
    /\ leads' \in (Directories \cup {"link", "nothing"}) \ {leads}
    /\ UNCHANGED <<platform, content, leftovers, at, callVars, versions, troubles>>

UserWrites(d) ==
    /\ \/ /\ versions < MaxVersion
          /\ content' = [content EXCEPT ![d] = versions + 1]
          /\ versions' = versions + 1
       \/ /\ content' = [content EXCEPT ![d] = Odd]
          /\ content[d] # Odd
          /\ UNCHANGED versions
       \/ /\ content' = [content EXCEPT ![d] = None]
          /\ content[d] # None
          /\ UNCHANGED versions
    /\ UNCHANGED <<platform, leads, leftovers, at, callVars, troubles>>

Crash ==
    /\ \E c \in Callers : at[c] \notin {"idle", "done", "dead"}
    /\ Trouble
    /\ at' = [c \in Callers |-> IF at[c] = "done" THEN "done" ELSE "dead"]
    /\ held' = [c \in Callers |-> NotOpen]
    /\ UNCHANGED <<diskVars, tool, read, payload, replaced, outcome, found,
                   versions>>

Next ==
    \/ \E c \in Callers :
          \/ Call(c)
          \/ OpenParent(c)
          \/ ParentDenied(c)
          \/ Read(c)
          \/ LookDenied(c)
          \/ LookFails(c)
          \/ NoMatch(c)
          \/ Match(c)
          \/ Unchanged(c)
          \/ Differs(c)
          \/ Create(c)
          \/ Write(c)
          \/ Rename(c)
          \/ RenameOverOdd(c)
          \/ Settle(c)
          \/ SettleFails(c)
          \/ WriteFails(c)
          \/ CleanUp(c)
          \/ CleanUpFails(c)
    \/ Relink
    \/ \E d \in Directories : UserWrites(d)
    \/ Crash

Spec == Init /\ [][Next]_vars

-----------------------------------------------------------------------------
\* Whatever the user does meanwhile, and whatever fails or crashes, nobody ever
\* finds half a file; and a call tells the truth: a denial or a failure has
\* changed nothing and left nothing behind, "changed" has put its own text in
\* place, "unchanged" has met the very text it was to write, and whatever else
\* may have stayed is a partial failure (_posix_write, _windows_write).
ChangesAreWholeAndTold ==
    /\ \A d \in Directories : content[d] # Cut
    /\ \A c \in Callers :
          LET left == \E d \in Directories : \E t \in leftovers[d] : t[1] = c
          IN CASE outcome[c] \in Failures -> ~replaced[c] /\ ~left
               [] outcome[c] = "changed" -> replaced[c] /\ ~left
               [] outcome[c] = "unchanged" ->
                     ~replaced[c] /\ ~left /\ found[c] = payload[c]
               [] outcome[c] = "partial" -> replaced[c] \/ left
               [] outcome[c] = "read" ->
                     ~replaced[c] /\ ~left /\ read[c] \in Versions
               [] OTHER -> TRUE
=============================================================================
