CONSTANTS
    c1 = c1
    c2 = c2
    NoCaller = NoCaller
    Callers = {c1, c2}
    MaxRetries = 1
    Budgets <- Scenarios
SPECIFICATION FairSpec
INVARIANTS  ResultsFollowCalls   RetriesBounded
PROPERTIES PromptsSettle
CHECK_DEADLOCK FALSE
