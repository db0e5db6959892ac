CONSTANTS
    n1 = n1
    Notices = {n1}
    MaxRounds = 2
    Limited = TRUE
    MaxContinuations = 1
    MaxRetries = 1
    MaxRepairs = 1
    RepairsPerKind = 1
    ReminderRounds = 1
    CanCompact = TRUE
    Stops = {"end_turn", "tool_use", "max_tokens", "refusal", "context_exhausted"}
    StreamFailures = {"invalid_provider_stream"}
    TransportFailures = {"provider_transient"}
    MaxTurns = 1
    MaxSummaries = 1
    MaxLogOfOthers = 2
SPECIFICATION Spec
INVARIANTS OutcomeIsHonest RequestsFit
PROPERTIES TurnCountsDown
CHECK_DEADLOCK FALSE
