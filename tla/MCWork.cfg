CONSTANTS
    Lead = Lead
    Members = {m1, m2}
    Background = {m2}
    Delegated = {m1}
    Agents = {m1, m2, Lead}
    MaxWork = 3
    c1 = c1
    p1 = p1
    p2 = p2
    Names = {n1, n2}
    Callers = {c1, c2}
    ProcessOf <- MCProcessOf
    MaxVersion = 1
    MaxFailures = 2
    Directories = {d1, d2}
    FileCalls = {f1}
    MaxFileVersion = 2
    MaxTroubles = 2
    Queries <- MCQueries
    MaxLine = 3
    MaxSearch = 2
    MaxFiles = 2
    MaxText = 5
    Nodes <- MCNodes
    ParentOf <- MCParentOf
    Hidden = {4}
    Patterns <- MCPatterns
    MaxDirectory = 2
    MaxTotal = 3
    MaxGlob = 2
    MaxLinks = 1
    MaxChanges = 1
SPECIFICATION WorkSpec
INVARIANTS NothingOutlivesTheTeam MessagesReadOnce MemoriesAreKept
    ChangesAreWholeAndTold SearchIsExact NothingIsMissedUnsaid
PROPERTIES ShutdownFinishes
CHECK_DEADLOCK FALSE
