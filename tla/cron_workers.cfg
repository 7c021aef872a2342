\* One tick shares two jobs between two workers; rejected ticks leave
\* stragglers behind that run beside the next tick.
SPECIFICATION Spec
CONSTANTS
    Minute = 1
    Jobs = {j1, j2}
    Schedules <- OnlyEveryMinute
    Limits = {1}
    ScriptJobs = {j2}
    NoAgentJobs = {}
    Procs = {p1}
    Daemons = {}
    Ticks = {t1, t2}
    MaxParallel = 2
    AgentTimeout = 1
    ScriptTimeout = 1
    DeliveryTime = 0
    ScriptsEnabled = TRUE
    NoAgentEnabled = TRUE
    MaxTime = 3
    MaxOps = 2
    MaxCrashes = 0
    NoTick = NoTick
    NoProc = NoProc
    NoJob = NoJob
SYMMETRY Symmetric
INVARIANT RunningIsOwned
CHECK_DEADLOCK FALSE
