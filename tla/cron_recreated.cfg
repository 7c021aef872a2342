\* A job is removed during its run and created again under the same name.
SPECIFICATION Spec
CONSTANTS
    Minute = 1
    Jobs = {j1}
    Schedules <- OnlyEveryMinute
    Limits = {0, 1}
    ScriptJobs = {}
    NoAgentJobs = {}
    Procs = {p1}
    Daemons = {}
    Ticks = {t1}
    MaxParallel = 1
    AgentTimeout = 1
    ScriptTimeout = 1
    DeliveryTime = 0
    ScriptsEnabled = TRUE
    NoAgentEnabled = TRUE
    MaxTime = 3
    MaxOps = 3
    MaxCrashes = 0
    NoTick = NoTick
    NoProc = NoProc
    NoJob = NoJob
INVARIANT CompletedRunsHappened
CHECK_DEADLOCK FALSE
