\* Timeouts that the stale threshold covers: a daemon that gives up when a tick
\* fails, users, and a crash that leaves a job running for a later tick.
SPECIFICATION FairSpec
CONSTANTS
    Minute = 2
    Jobs = {j1}
    Schedules <- CronSchedules
    Limits = {0}
    ScriptJobs = {}
    NoAgentJobs = {}
    Procs = {p1}
    Daemons = {p1}
    Ticks = {t1, t2}
    MaxParallel = 1
    AgentTimeout = 1
    ScriptTimeout = 1
    DeliveryTime = 1
    ScriptsEnabled = TRUE
    NoAgentEnabled = TRUE
    MaxTime = 5
    MaxOps = 2
    MaxCrashes = 1
    NoTick = NoTick
    NoProc = NoProc
    NoJob = NoJob
INVARIANT StaleMeansDead
PROPERTY StaleRecovered
CHECK_DEADLOCK FALSE
