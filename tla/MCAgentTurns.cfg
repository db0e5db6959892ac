CONSTANTS
    n1 = n1
    Notices = {n1}
    MaxRounds = 2
    Limited = FALSE
    MaxContinuations = 0
    MaxRetries = 0
    MaxRepairs = 0
    RepairsPerKind = 1
    ReminderRounds = 1
    CanCompact = TRUE
    Stops = {"end_turn", "tool_use"}
    StreamFailures = {}
    TransportFailures = {}
    MaxTurns = 2
    MaxSummaries = 1
    MaxLogOfOthers = 4
    Budget = 4
    ToolBudget = 2
    KeepRecent = 1
    Preview = 2
    PromptSizes = {1, 2}
    ResultSizes = {0, 3}
    SummarySizes = {1, 2}
    MaxLog = 4
    MaxWrittenSummaries = 2
    MaxManual = 1
    t1 = t1
    t2 = t2
    t3 = t3
    ToolCalls = {t1, t2, t3}
    ToolOf <- MCToolOf
    RootOf <- MCRootOf
    RiskOf <- MCRiskOf
    r1 = r1
    r2 = r2
    Nobody = Nobody
    MaxKeys = 1
    MaxCancels = 1
    MaxPrompts = 3
    MaxPieces = 1
    MaxTroubles = 1
SPECIFICATION SessionSpec
INVARIANTS AnsweredBeforeNext NoticesOnce RequestsTellTheStory
    AllowedByTheUser TurnsAreTold
CHECK_DEADLOCK FALSE
