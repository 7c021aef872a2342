\* Two processes race for one job; users interfere; store calls fail.
SPECIFICATION Spec
CONSTANTS
    Minute = 1
    Jobs = {j1}
    Schedules <- MinuteOrOnce
    Limits = {0}
    ScriptJobs = {}
    NoAgentJobs = {}
    Procs = {p1, p2}
    Daemons = {}
    Ticks = {t1, t2}
    MaxParallel = 1
    AgentTimeout = 1
    ScriptTimeout = 1
    DeliveryTime = 1
    ScriptsEnabled = TRUE
    NoAgentEnabled = TRUE
    MaxTime = 3
    MaxOps = 3
    MaxCrashes = 0
    NoTick = NoTick
    NoProc = NoProc
    NoJob = NoJob
SYMMETRY Symmetric
INVARIANTS TypeOK NoOverlap HeldWhileRunning OneShotOnce RunsAccounted
PROPERTY PauseSticks
CHECK_DEADLOCK FALSE
