SPECIFICATION FairSpec
CONSTANTS
    Budgets <- QueuesOrFailures
    MaxCalls = 2
    QueueModes = {"all", "one-at-a-time"}
INVARIANT ContextMirrorsTranscript
INVARIANT ToolResultsInOrder
INVARIANT QueuedOnceInOrder
INVARIANT NothingVanishes
INVARIANT PendingToolCallsExact
PROPERTY RunSettles
CHECK_DEADLOCK FALSE
