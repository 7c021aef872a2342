\* The default settings keep ScriptTimeout (120s) above the stale buffer (60s).
SPECIFICATION Spec
CONSTANTS
    Minute = 1
    Jobs = {j1}
    Schedules <- OnlyEveryMinute
    Limits = {0}
    ScriptJobs = {j1}
    NoAgentJobs = {}
    Procs = {p1}
    Daemons = {}
    Ticks = {t1}
    MaxParallel = 1
    AgentTimeout = 2
    ScriptTimeout = 2
    DeliveryTime = 0
    ScriptsEnabled = TRUE
    NoAgentEnabled = TRUE
    MaxTime = 6
    MaxOps = 1
    MaxCrashes = 0
    NoTick = NoTick
    NoProc = NoProc
    NoJob = NoJob
INVARIANT StaleMeansDead
CHECK_DEADLOCK FALSE
