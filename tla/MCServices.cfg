CONSTANTS
    Writers = {w1, w2, w3}
    u1 = u1  u2 = u2  u3 = u3  o1 = o1  o2 = o2
    Users = {u1, u2, u3}
    Objects = {o1, o2}
    ObjectOf <- MCObjectOf
    Jobs = {j1, j2}
    JobSessions = {s1, s2}
    MaxSubmissions = 3
    Requests = {q1}
    Responses = {a1, a2, a3}
    MaxShutdowns = 2
    Processes = {p1, p2}
    lead = lead  below = below  other = other
    Roots = {lead}
    Children = {child1}
    MaxCrashes = 2
    MaxRows = 3
    MaxCuts = 3
    Hooks = {h1, h2}
    Dispatches = {d1}
    WorktreeTasks = {t1}
    WorktreeCalls = {c1, c2}
    MaxChanges = 2
    ProcessCalls = {c1}
    StreamTools = {"tool", "function"}
    MaxChunks = 3
    MaxRetries = 5
    MaxContinuations = 3
    MaxTasks = 2
    Plans <- MCPlans
    TasksOf <- MCTasksOf
    Inputs = 2
    MaxAttempts = 2
    MaxWords = 1
    Family = {lead, below, other}
    NoParent = NoParent
    ParentOf <- MCParentOf
    Ids = {i1}
SPECIFICATION Spec
INVARIANTS LockGivenBack NotifiedOnce SerialInOrder AnswersCount OneProcessPerTree
    AuditIsComplete TraceTellsTheStory NothingRunsOn ToldAsSent TextIsContiguous
    ScoresAreHonest VerdictsAreEarned ReferencesAreKept
PROPERTIES ImplementsDurableWrites LiveTurnsAreNotRecovered CallsRepair
CHECK_DEADLOCK FALSE
