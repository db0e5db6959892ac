------------------------------- MODULE MCWork -------------------------------
(* A team, and what its members work with, one at a time: the first state   *)
(* says which one a behaviour is about, the others stay where they begin.   *)
EXTENDS Teams

CONSTANTS
    Names, Callers, ProcessOf,      \* memories, and who changes them
    MaxVersion, MaxFailures,
    Directories, FileCalls,         \* of the file tools
    MaxFileVersion, MaxTroubles,
    Queries,                        \* of a search
    MaxLine, MaxSearch, MaxFiles, MaxText,
    Nodes, ParentOf, Hidden, Patterns,      \* of a glob
    MaxDirectory, MaxTotal, MaxGlob, MaxLinks, MaxChanges

\* A directory is none of the other things a path may lead to.
ASSUME DirectoryAssumption == Directories \cap {"link", "nothing"} = {}
ASSUME VersionAssumption == MaxVersion \in Nat /\ MaxFileVersion \in Nat \ {0}

\* The nodes are a tree: from each one leads a way to the root, which is none of them.
ASSUME TreeAssumption ==
    /\ Nodes \subseteq Nat \ {0} /\ IsFiniteSet(Nodes)
    /\ ParentOf \in [Nodes -> Nodes \cup {0}]
    /\ \A ring \in SUBSET Nodes :
          ring # {} => \E n \in ring : ParentOf[n] \notin ring
ASSUME WalkAssumption ==
    /\ MaxDirectory \in Nat /\ MaxTotal \in Nat /\ MaxGlob \in Nat
    /\ Patterns \subseteq SUBSET Nodes

VARIABLES
    service,    \* the one that moves
    memoryRoot, memories, memoryIndex, memoryAt, how, memorySeen, gate,
    memoryLock, target, left, backup, owed, torn, memoryVersions, failures,
    platform, leads, content, leftovers, fileAt, tool, parentHeld, readText,
    payload, replaced, outcome, found, fileVersions, troubles,
    query, regex, caseSensitive, searchLimit, searchAt, scan, afterReturn,
    searchMatches, searchTruncated, searchIncomplete, text, expected, searched,
    length,
    kind, shared, pattern, globLimit, walk, paths, globMatches, globTruncated,
    truncated, traversed, finished, steady, been, changes

Memory == INSTANCE MemoryStore
    WITH root <- memoryRoot, files <- memories, index <- memoryIndex,
         at <- memoryAt, seen <- memorySeen, lock <- memoryLock,
         versions <- memoryVersions
Files == INSTANCE WorkspaceFiles
    WITH Callers <- FileCalls, MaxVersion <- MaxFileVersion,
         at <- fileAt, held <- parentHeld, read <- readText,
         versions <- fileVersions
Search == INSTANCE TextSearch
    WITH MaxLimit <- MaxSearch, limit <- searchLimit,
         at <- searchAt, matches <- searchMatches,
         resultTruncated <- searchTruncated, files <- searched
Glob == INSTANCE Traversal
    WITH MaxLimit <- MaxGlob, limit <- globLimit,
         matches <- globMatches, resultTruncated <- globTruncated

Services == {"team", "memory", "files", "search", "glob"}

WorkInit ==
    /\ service \in Services
    /\ Init
    /\ IF service = "memory" THEN TRUE ELSE memoryRoot = "absent"
    /\ Memory!Init
    /\ IF service = "files" THEN TRUE
       ELSE /\ platform = "posix" /\ leads = CHOOSE d \in Directories : TRUE
            /\ content = [d \in Directories |-> 0]
    /\ Files!Init
    /\ IF service = "search" THEN TRUE
       ELSE /\ query = (CHOOSE q \in Queries : TRUE) /\ regex = FALSE
            /\ caseSensitive = FALSE /\ searchLimit = 1
    /\ Search!Init
    /\ IF service = "glob" THEN TRUE
       ELSE /\ kind = [n \in Nodes |-> "none"]
            /\ shared = FALSE /\ globLimit = 1
            /\ pattern = CHOOSE p \in Patterns : TRUE
    /\ Glob!Init

memoryVars ==
    <<memoryRoot, memories, memoryIndex, memoryAt, how, memorySeen, gate,
      memoryLock, target, left, backup, owed, torn, memoryVersions, failures>>
fileVars ==
    <<platform, leads, content, leftovers, fileAt, tool, parentHeld, readText,
      payload, replaced, outcome, found, fileVersions, troubles>>
searchVars ==
    <<query, regex, caseSensitive, searchLimit, searchAt, scan, afterReturn,
      searchMatches, searchTruncated, searchIncomplete, text, expected, searched,
      length>>
globVars ==
    <<kind, shared, pattern, globLimit, walk, paths, globMatches, globTruncated,
      truncated, traversed, finished, steady, been, changes>>
workVars ==
    <<service, vars, memoryVars, fileVars, searchVars, globVars>>

\* The others stay where they begin.
Moves(moving) ==
    /\ service = moving
    /\ UNCHANGED service
    /\ IF moving = "team" THEN TRUE ELSE UNCHANGED vars
    /\ IF moving = "memory" THEN TRUE ELSE UNCHANGED memoryVars
    /\ IF moving = "files" THEN TRUE ELSE UNCHANGED fileVars
    /\ IF moving = "search" THEN TRUE ELSE UNCHANGED searchVars
    /\ IF moving = "glob" THEN TRUE ELSE UNCHANGED globVars

WorkNext ==
    \/ Moves("team") /\ Next
    \/ Moves("memory") /\ Memory!Next
    \/ Moves("files") /\ Files!Next
    \/ Moves("search") /\ Search!Next
    \/ Moves("glob") /\ Glob!Next

WorkSpec == WorkInit /\ [][WorkNext]_workVars /\ Fairness

-----------------------------------------------------------------------------
(* What each of them promises, in its own module; the team's properties are *)
(* those of Teams.                                                          *)

MemoriesAreKept == Memory!MemoriesAreKept
NobodyWaitsForItself == Memory!NobodyWaitsForItself
ChangesAreWholeAndTold == Files!ChangesAreWholeAndTold
SearchIsExact == Search!SearchIsExact
NothingIsMissedUnsaid == Glob!NothingIsMissedUnsaid

-----------------------------------------------------------------------------
(* A few of each, for TLC.                                                 *)

CONSTANTS c1, p1, p2    \* a caller and its process, the process of the others

MCProcessOf == [c \in Callers |-> IF c = c1 THEN p1 ELSE p2]
MCQueries == {<<"a", "a">>, <<"a", "a", "A">>}
MCParentOf == [n \in 1 .. 5 |-> CASE n = 2 -> 1 [] n = 5 -> 4 [] OTHER -> 0]
MCNodes == 1 .. 5
MCPatterns == {{2, 3, 5}}
=============================================================================
