CONSTANTS
    Procs = {p1, p2, p3, p4}
    Jobs = {j1, j2}
    Sessions = {s1, s2}
    Requests = {q1}
    Answers = {a1, a2}
    MaxShutdowns = 2
SPECIFICATION AnswersSpec
PROPERTIES ImplementsSharedExclusive EveryRequestSettles ClosedJobsAreReported
    TimedRequestsSettle
CHECK_DEADLOCK FALSE
