--------------------------- MODULE CronScheduler ---------------------------
(***************************************************************************)
(* `pie cron`: the job store (job-store.ts), the tick and its workers      *)
(* (runner.ts), the processes that tick (gateway/runner.ts and             *)
(* scheduler-cli.ts) and the user's operations on jobs.                    *)
(*                                                                         *)
(* Every CronJobStore method runs under the jobs-file lock, so each is one *)
(* atomic step here (CronJobsFile shows why that is sound).  Everything    *)
(* between two store calls, of this or of another process, interleaves.    *)
(***************************************************************************)
EXTENDS CronSchedule, FiniteSets

CONSTANTS
    Jobs,           \* job ids; a re-created name gets its old id back
    Schedules,      \* schedules users may ask for
    Limits,         \* values of repeatTimes, 0 for undefined
    ScriptJobs,     \* jobs with a script
    NoAgentJobs,    \* jobs that run the script only
    Procs,          \* processes that tick: gateway, daemon, `pie cron tick`
    Daemons,        \* those that leave their loop when a tick throws
    Ticks,          \* tick invocations that can exist at the same time
    MaxParallel,    \* settings.maxParallelJobs
    AgentTimeout, ScriptTimeout,         \* settings, in clock ticks
    DeliveryTime,   \* longest time from the end of a run to its markRun
    ScriptsEnabled, NoAgentEnabled,      \* settings
    MaxTime, MaxOps, MaxCrashes,         \* bounds of the model
    NoTick, NoProc, NoJob                \* model values

ASSUME SchedulerAssumption ==
    /\ Schedules \subseteq Schedule
    /\ Limits \subseteq Nat
    /\ NoAgentJobs \subseteq ScriptJobs /\ ScriptJobs \subseteq Jobs
    /\ Daemons \subseteq Procs
    /\ IsFiniteSet(Ticks)
    /\ MaxParallel \in Nat \ {0}
    /\ AgentTimeout \in Nat \ {0} /\ ScriptTimeout \in Nat \ {0}
    /\ DeliveryTime \in Nat
    /\ ScriptsEnabled \in BOOLEAN /\ NoAgentEnabled \in BOOLEAN
    /\ MaxTime \in Nat /\ MaxOps \in Nat /\ MaxCrashes \in Nat
    /\ NoTick \notin Ticks /\ NoProc \notin Procs /\ NoJob \notin Jobs

VARIABLES
    now,        \* the clock all processes share
    jobs,       \* jobs.json: [Jobs -> record], present = FALSE when absent
    tick,       \* the tick invocations and the due list each one read
    worker,     \* the worker() coroutines of each tick
    inFlight,   \* the tick a process waits for, if any
    up,         \* processes that are running their tick loop
    hist,       \* history of each job, read by no guard of the program
    budget      \* user operations and crashes left

vars == <<now, jobs, tick, worker, inFlight, up, hist, budget>>

Slots == 1 .. MaxParallel
JobState == {"pending", "running", "success", "failed", "paused", "completed"}

\* A job of jobs.json; the fields no control depends on are left out.
JobRecord ==
    [present : BOOLEAN, schedule : Schedule, repeatTimes : Nat,
     completedRuns : Nat, enabled : BOOLEAN, state : JobState,
     nextRunAt : Time, updatedAt : Nat]

\* Where a worker stands: between jobs, about to claim, in the phases of
\* runCronJob, or about to record the result.
RunPhases == {"script", "agent", "deliver", "mark"}
WorkerPc == {"idle", "next", "claim", "markDelivery"} \cup RunPhases
WorkerFields ==
    [pc : WorkerPc, job : Jobs \cup {NoJob}, since : Nat, start : Nat,
     claimed : BOOLEAN, gen : Nat, status : {"success", "failed"}]
WorkerRecord == {r \in WorkerFields : r.pc \notin {"idle", "next"} => r.job \in Jobs}

AbsentJob ==
    [present |-> FALSE, repeatTimes |-> 0, completedRuns |-> 0,
     schedule |-> [kind |-> "once", every |-> 1, absolute |-> FALSE],
     enabled |-> FALSE, state |-> "pending", nextRunAt |-> NoTime,
     updatedAt |-> 0]

IdleWorker == [pc |-> "idle", job |-> NoJob, since |-> 0, start |-> 0,
               claimed |-> FALSE, gen |-> 0, status |-> "failed"]
FreeTick == [phase |-> "free", proc |-> NoProc, due |-> {}]

TickRecord == [phase : {"free", "reset", "getDue", "work"},
               proc : Procs \cup {NoProc}, due : SUBSET Jobs]

(***************************************************************************)
(* History of a job: its incarnation; claims since it was last armed by a  *)
(* user; runs begun, runs that ended uncounted and counts by runs of an    *)
(* earlier incarnation; and whether somebody re-armed the job while one of *)
(* its runs was still going (until no run is going any more).              *)
(***************************************************************************)
HistRecord == [gen : Nat, fired : Nat, begun : Nat, lost : Nat,
               strays : Nat, disturbed : BOOLEAN]

TypeOK ==
    /\ now \in Nat
    /\ jobs \in [Jobs -> JobRecord]
    /\ tick \in [Ticks -> TickRecord]
    /\ worker \in [Ticks -> [Slots -> WorkerRecord]]
    /\ inFlight \in [Procs -> Ticks \cup {NoTick}]
    /\ up \in [Procs -> BOOLEAN]
    /\ hist \in [Jobs -> HistRecord]
    /\ budget \in [ops : Nat, crashes : Nat]

-----------------------------------------------------------------------------
(* Helpers *)

InRun(r, j) == r.job = j /\ r.pc \in RunPhases
\* Some run of j is going on, in any process.
Going(j) == \E t \in Ticks, w \in Slots : InRun(worker[t][w], j)

\* Mutant: the threshold without its buffer.
BareThreshold == AgentTimeout
StaleThreshold == AgentTimeout + Minute

\* Mutant: does not look at the state.
ClaimableWhileRunning(job) ==
    /\ job.present /\ job.enabled
    /\ job.nextRunAt # NoTime /\ job.nextRunAt <= now
\* Neither disabled, running nor without a next run, and due.
Claimable(job) ==
    /\ job.present /\ job.enabled /\ job.state # "running"
    /\ job.nextRunAt # NoTime /\ job.nextRunAt <= now
TooLate(job) == now - job.nextRunAt > GraceWindow(job.schedule)

FastForward(job) ==
    IF Repeats(job.schedule)
    THEN [job EXCEPT !.nextRunAt = ComputeNextRun(job.schedule, now),
                     !.updatedAt = now]
    ELSE job

\* Mutants: keeps the occurrence that is being run; does not mark the job.
ClaimedKeepsNextRun(job) ==
    [job EXCEPT !.state = "running", !.updatedAt = now]
ClaimedUnmarked(job) ==
    [job EXCEPT !.enabled = Repeats(job.schedule), !.updatedAt = now,
                !.nextRunAt = ComputeNextRun(job.schedule, now)]

Claimed(job) ==
    [job EXCEPT !.state = "running", !.enabled = Repeats(job.schedule),
                !.nextRunAt = ComputeNextRun(job.schedule, now),
                !.updatedAt = now]

\* Mutant: skips one-shots, which a claim disables.
StaleIfEnabled(job) == /\ job.present /\ job.state = "running" /\ job.enabled
                       /\ now - job.updatedAt >= StaleThreshold
Stale(job) == /\ job.present /\ job.state = "running"
              /\ now - job.updatedAt >= StaleThreshold

AfterReset(job) ==
    [job EXCEPT !.state = IF Repeats(job.schedule) /\ job.enabled
                          THEN "pending" ELSE "failed",
                !.nextRunAt = ComputeNextRun(job.schedule, now),
                !.updatedAt = now]

\* Mutants: counts successes only; enables the job again; leaves a repeating
\* job in the state it is in.
AfterRunCountsSuccess(job, status) ==
    [job EXCEPT !.state = IF Repeats(job.schedule) /\ job.enabled
                          THEN "pending" ELSE status,
                !.completedRuns = IF status = "success" THEN @ + 1 ELSE @,
                !.updatedAt = now]
AfterRunReenables(job, status) ==
    [job EXCEPT !.state = "pending", !.enabled = Repeats(job.schedule),
                !.completedRuns = @ + 1, !.updatedAt = now]
AfterRunKeepsState(job, status) ==
    [job EXCEPT !.state = IF Repeats(job.schedule) THEN @ ELSE status,
                !.completedRuns = @ + 1, !.updatedAt = now]

AfterRun(job, status) ==
    LET runs    == job.completedRuns + 1
        reached == job.repeatTimes # 0 /\ runs >= job.repeatTimes
    IN  [job EXCEPT !.state = IF reached THEN "completed"
                              ELSE IF Repeats(job.schedule) /\ job.enabled
                              THEN "pending" ELSE status,
                    !.enabled = job.enabled /\ ~reached,
                    !.nextRunAt = IF reached THEN NoTime ELSE @,
                    !.completedRuns = runs,
                    !.updatedAt = now]

\* The longest a run may stay in phase pc; the script is killed and the agent
\* aborted at their timeouts, and markRun shares the budget of the delivery.
TimeLimit(pc) == CASE pc = "script" -> ScriptTimeout
                   [] pc = "agent"  -> AgentTimeout
                   [] OTHER         -> DeliveryTime

\* Where runCronJob starts: rejected by settings, with a script, or directly
\* with the agent.
FirstPhase(j) ==
    IF \/ j \in NoAgentJobs /\ ~NoAgentEnabled
       \/ j \in ScriptJobs /\ ~ScriptsEnabled
    THEN "deliver"
    ELSE IF j \in ScriptJobs THEN "script" ELSE "agent"

NewRun(j, isClaim) ==
    [pc |-> FirstPhase(j), job |-> j, since |-> now, start |-> now,
     claimed |-> isClaim, gen |-> hist[j].gen, status |-> "failed"]

-----------------------------------------------------------------------------
(* History updates.  A worker w of tick t is the one whose run begins or   *)
(* ends.                                                                   *)

OthersGoing(t, w, j) ==
    \E u \in Ticks, v \in Slots :
        <<u, v>> # <<t, w>> /\ InRun(worker[u][v], j)

Arm(h, j) == [h EXCEPT !.fired = 0, !.disturbed = @ \/ Going(j)]

Begin(h, isClaim) ==
    [h EXCEPT !.fired = IF isClaim THEN @ + 1 ELSE @,
              !.begun = @ + 1, !.disturbed = @ \/ ~isClaim]

\* A run leaves its phases, counted by markRun or not.
End(h, t, w, counted) ==
    LET r == worker[t][w] IN
    [h EXCEPT !.lost = IF ~counted /\ r.gen = h.gen THEN @ + 1 ELSE @,
              !.strays = IF counted /\ r.gen # h.gen THEN @ + 1 ELSE @,
              !.disturbed = @ /\ OthersGoing(t, w, r.job)]

-----------------------------------------------------------------------------
(* The user's operations: `pie cron ...` and the cronjob tool. *)

UserOp(j, job, h) ==
    /\ budget.ops > 0
    /\ budget' = [budget EXCEPT !.ops = @ - 1]
    /\ jobs' = [jobs EXCEPT ![j] = job]
    /\ hist' = [hist EXCEPT ![j] = h]
    /\ UNCHANGED <<now, tick, worker, inFlight, up>>

\* The id is the slug of the name: a removed job's id is handed out again.
Create(j) == \E s \in Schedules, n \in Limits :
    /\ ~jobs[j].present
    /\ n # 0 => Repeats(s)
    /\ UserOp(j, [present |-> TRUE, schedule |-> s, repeatTimes |-> n,
                  completedRuns |-> 0, enabled |-> TRUE, state |-> "pending",
                  nextRunAt |-> ParsedNextRun(s, now), updatedAt |-> now],
              [gen |-> hist[j].gen + 1, fired |-> 0, begun |-> 0, lost |-> 0,
               strays |-> 0, disturbed |-> Going(j)])

\* update() with a schedule: back to pending, enabled or not, running or not.
UpdateSchedule(j) == \E s \in Schedules, n \in Limits :
    /\ jobs[j].present
    /\ n # 0 => Repeats(s)
    /\ UserOp(j, [jobs[j] EXCEPT !.schedule = s, !.repeatTimes = n,
                                 !.nextRunAt = ParsedNextRun(s, now),
                                 !.state = "pending", !.updatedAt = now],
              Arm(hist[j], j))

\* update() of anything else: prompt, name, skills, repeatTimes ...
UpdateFields(j) == \E n \in Limits :
    /\ jobs[j].present
    /\ n # 0 => Repeats(jobs[j].schedule)
    /\ UserOp(j, [jobs[j] EXCEPT !.repeatTimes = n, !.updatedAt = now], hist[j])

Pause(j) ==
    /\ jobs[j].present
    /\ UserOp(j, [jobs[j] EXCEPT !.enabled = FALSE, !.state = "paused",
                                 !.updatedAt = now], hist[j])

Resume(j) ==
    LET next == ComputeNextRun(jobs[j].schedule, now) IN
    /\ jobs[j].present
    /\ UserOp(j, [jobs[j] EXCEPT !.enabled = TRUE, !.state = "pending",
                                 !.nextRunAt = IF @ # NoTime THEN @
                                               ELSE IF next # NoTime THEN next
                                               ELSE now,
                                 !.updatedAt = now],
              Arm(hist[j], j))

Remove(j) ==
    /\ jobs[j].present
    /\ UserOp(j, AbsentJob, hist[j])

Trigger(j) ==
    /\ jobs[j].present
    /\ UserOp(j, [jobs[j] EXCEPT !.enabled = TRUE, !.state = "pending",
                                 !.nextRunAt = now, !.updatedAt = now],
              Arm(hist[j], j))

-----------------------------------------------------------------------------
(* tickCronScheduler *)

SetWorker(t, w, r) == worker' = [worker EXCEPT ![t][w] = r]

\* The interval timer (or daemon loop, or `pie cron tick`) fires in p.
StartTick(p, t) ==
    /\ up[p] /\ inFlight[p] = NoTick
    /\ tick[t].phase = "free"
    /\ inFlight' = [inFlight EXCEPT ![p] = t]
    /\ tick' = [tick EXCEPT ![t] = [phase |-> "reset", proc |-> p, due |-> {}]]
    /\ UNCHANGED <<now, jobs, worker, up, hist, budget>>

ResetStaleRunning(t) ==
    /\ tick[t].phase = "reset"
    /\ jobs' = [j \in Jobs |-> IF Stale(jobs[j]) THEN AfterReset(jobs[j])
                               ELSE jobs[j]]
    /\ hist' = [j \in Jobs |-> IF Stale(jobs[j])
                               THEN [hist[j] EXCEPT !.disturbed = @ \/ Going(j)]
                               ELSE hist[j]]
    /\ tick' = [tick EXCEPT ![t].phase = "getDue"]
    /\ UNCHANGED <<now, worker, inFlight, up, budget>>

\* `.catch(() => undefined)`: the lock was not to be had.
ResetFails(t) ==
    /\ tick[t].phase = "reset"
    /\ tick' = [tick EXCEPT ![t].phase = "getDue"]
    /\ UNCHANGED <<now, jobs, worker, inFlight, up, hist, budget>>

\* Missed occurrences are fast-forwarded, the others are due; one worker for
\* each due job, at most MaxParallel.
GetDueJobs(t) ==
    LET due == {j \in Jobs : Claimable(jobs[j]) /\ ~TooLate(jobs[j])} IN
    /\ tick[t].phase = "getDue"
    /\ jobs' = [j \in Jobs |-> IF Claimable(jobs[j]) /\ TooLate(jobs[j])
                               THEN FastForward(jobs[j]) ELSE jobs[j]]
    /\ tick' = [tick EXCEPT ![t] = [@ EXCEPT !.phase = "work", !.due = due]]
    /\ worker' = [worker EXCEPT ![t] =
                     [w \in Slots |-> IF w <= Cardinality(due)
                                      THEN [IdleWorker EXCEPT !.pc = "next"]
                                      ELSE IdleWorker]]
    /\ UNCHANGED <<now, inFlight, up, hist, budget>>

\* What a rejected tick does to its process: the gateway logs and ticks
\* again, the daemon's loop ends.  Nothing stops the other workers.
Rejected(t) ==
    LET p == tick[t].proc IN
    IF p \in Procs /\ inFlight[p] = t
    THEN /\ inFlight' = [inFlight EXCEPT ![p] = NoTick]
         /\ up' = [up EXCEPT ![p] = @ /\ p \notin Daemons]
    ELSE UNCHANGED <<inFlight, up>>

GetDueFails(t) ==
    /\ tick[t].phase = "getDue"
    /\ Rejected(t)
    /\ tick' = [tick EXCEPT ![t] = FreeTick]
    /\ UNCHANGED <<now, jobs, worker, hist, budget>>

\* Mutant: reads past the end of the due list.
NextJobPastEnd(t, w) ==
    /\ worker[t][w].pc = "next"
    /\ \E j \in IF tick[t].due = {} THEN {NoJob} ELSE tick[t].due :
         /\ tick' = [tick EXCEPT ![t].due = @ \ {j}]
         /\ SetWorker(t, w, [IdleWorker EXCEPT !.pc = "claim", !.job = j])
    /\ UNCHANGED <<now, jobs, inFlight, up, hist, budget>>

\* `due[index++]`, or the end of the loop.
NextJob(t, w) ==
    /\ worker[t][w].pc = "next"
    /\ \/ \E j \in tick[t].due :
            /\ tick' = [tick EXCEPT ![t].due = @ \ {j}]
            /\ SetWorker(t, w, [IdleWorker EXCEPT !.pc = "claim", !.job = j])
       \/ /\ tick[t].due = {}
          /\ SetWorker(t, w, IdleWorker)
          /\ UNCHANGED tick
    /\ UNCHANGED <<now, jobs, inFlight, up, hist, budget>>

\* The claim re-checks everything: the due list may be old by now.
ClaimDueJob(t, w) ==
    LET j == worker[t][w].job IN
    /\ worker[t][w].pc = "claim"
    /\ \/ /\ Claimable(jobs[j]) /\ ~TooLate(jobs[j])
          /\ jobs' = [jobs EXCEPT ![j] = Claimed(@)]
          /\ hist' = [hist EXCEPT ![j] = Begin(@, TRUE)]
          /\ SetWorker(t, w, NewRun(j, TRUE))
       \/ /\ Claimable(jobs[j]) /\ TooLate(jobs[j])
          /\ jobs' = [jobs EXCEPT ![j] = FastForward(@)]
          /\ SetWorker(t, w, [IdleWorker EXCEPT !.pc = "next"])
          /\ UNCHANGED hist
       \/ /\ ~Claimable(jobs[j])
          /\ SetWorker(t, w, [IdleWorker EXCEPT !.pc = "next"])
          /\ UNCHANGED <<jobs, hist>>
    /\ UNCHANGED <<now, tick, inFlight, up, budget>>

\* Promise.all resolves when the last worker returns.
EndTick(t) ==
    LET p == tick[t].proc IN
    /\ tick[t].phase = "work"
    /\ \A w \in Slots : worker[t][w].pc = "idle"
    /\ tick' = [tick EXCEPT ![t] = FreeTick]
    /\ inFlight' = IF p \in Procs /\ inFlight[p] = t
                   THEN [inFlight EXCEPT ![p] = NoTick] ELSE inFlight
    /\ UNCHANGED <<now, jobs, worker, up, hist, budget>>
-----------------------------------------------------------------------------
(* runCronJob and what the worker does with its result *)

Advance(t, w, pc, status) ==
    /\ SetWorker(t, w, [worker[t][w] EXCEPT !.pc = pc, !.since = now,
                                            !.status = status])
    /\ UNCHANGED <<now, jobs, tick, inFlight, up, hist, budget>>

\* The script failed or timed out, produced (or failed to produce) the answer
\* itself, or wakes the agent.
ScriptDone(t, w) ==
    LET r == worker[t][w] IN
    /\ r.pc = "script"
    /\ \/ \E status \in {"success", "failed"} : Advance(t, w, "deliver", status)
       \/ r.job \notin NoAgentJobs /\ Advance(t, w, "agent", r.status)

\* The agent answered, failed, was aborted at its timeout or said nothing.
AgentDone(t, w) ==
    /\ worker[t][w].pc = "agent"
    /\ \E status \in {"success", "failed"} : Advance(t, w, "deliver", status)

\* finalizeRun: the output is saved and, unless silent, delivered; delivery
\* errors are collected, not thrown.  The clock of the phase keeps running.
Deliver(t, w) ==
    /\ worker[t][w].pc = "deliver"
    /\ SetWorker(t, w, [worker[t][w] EXCEPT !.pc = "mark"])
    /\ UNCHANGED <<now, jobs, tick, inFlight, up, hist, budget>>

MarkRun(t, w) ==
    LET r == worker[t][w] IN
    /\ r.pc = "mark" /\ jobs[r.job].present
    /\ jobs' = [jobs EXCEPT ![r.job] = AfterRun(@, r.status)]
    /\ hist' = [hist EXCEPT ![r.job] = End(@, t, w, TRUE)]
    /\ SetWorker(t, w, [IdleWorker EXCEPT !.pc = "markDelivery", !.job = r.job,
                                          !.claimed = r.claimed])
    /\ UNCHANGED <<now, tick, inFlight, up, budget>>

\* Then a tick's worker takes the next due job and `pie cron run` returns.
MarkDelivery(t, w) ==
    LET r == worker[t][w] IN
    /\ r.pc = "markDelivery" /\ jobs[r.job].present
    /\ jobs' = [jobs EXCEPT ![r.job].updatedAt = now]
    /\ SetWorker(t, w, [IdleWorker EXCEPT !.pc = IF r.claimed THEN "next"
                                                 ELSE "idle"])
    /\ UNCHANGED <<now, tick, inFlight, up, hist, budget>>

\* A store call fails to lock or does not find its job any more, the script
\* is not there, the agent's services do not start or the output cannot be
\* saved: the worker rejects, and its tick with it.
WorkerThrows(t, w) ==
    LET r == worker[t][w] IN
    /\ r.pc \notin {"idle", "next"}
    /\ SetWorker(t, w, IdleWorker)
    /\ hist' = IF r.pc \in RunPhases
               THEN [hist EXCEPT ![r.job] = End(@, t, w, FALSE)] ELSE hist
    /\ Rejected(t)
    /\ UNCHANGED <<now, jobs, tick, budget>>

\* `pie cron run`: a process of its own runs the job without claiming it.
ManualRun(t, j) ==
    /\ tick[t].phase = "free" /\ jobs[j].present
    /\ budget.ops > 0
    /\ budget' = [budget EXCEPT !.ops = @ - 1]
    /\ tick' = [tick EXCEPT ![t].phase = "work"]
    /\ SetWorker(t, 1, NewRun(j, FALSE))
    /\ hist' = [hist EXCEPT ![j] = Begin(@, FALSE)]
    /\ UNCHANGED <<now, jobs, inFlight, up>>

-----------------------------------------------------------------------------
(* Processes and time *)

TicksOf(p) == {t \in Ticks : tick[t].proc = p}
RunsOf(p, j) == {tw \in TicksOf(p) \X Slots : InRun(worker[tw[1]][tw[2]], j)}

Crash(p) ==
    /\ up[p] \/ TicksOf(p) # {}
    /\ budget.crashes > 0
    /\ budget' = [budget EXCEPT !.crashes = @ - 1]
    /\ tick' = [t \in Ticks |-> IF t \in TicksOf(p) THEN FreeTick ELSE tick[t]]
    /\ worker' = [t \in Ticks |-> IF t \in TicksOf(p)
                                 THEN [w \in Slots |-> IdleWorker]
                                 ELSE worker[t]]
    /\ inFlight' = [inFlight EXCEPT ![p] = NoTick]
    /\ up' = [up EXCEPT ![p] = FALSE]
    /\ hist' = [j \in Jobs |->
                  [hist[j] EXCEPT
                     !.lost = @ + Cardinality({tw \in RunsOf(p, j) :
                                worker[tw[1]][tw[2]].gen = hist[j].gen}),
                     !.disturbed = @ /\ \E t \in Ticks \ TicksOf(p), w \in Slots :
                                           InRun(worker[t][w], j)]]
    /\ UNCHANGED <<now, jobs>>

\* The service manager or the user starts the process again.
Restart(p) ==
    /\ ~up[p]
    /\ up' = [up EXCEPT ![p] = TRUE]
    /\ UNCHANGED <<now, jobs, tick, worker, inFlight, hist, budget>>

\* Time does not pass a timeout: what it ends has ended by then.
Tock ==
    /\ now < MaxTime
    /\ \A t \in Ticks, w \in Slots :
          worker[t][w].pc \in RunPhases =>
              now < worker[t][w].since + TimeLimit(worker[t][w].pc)
    /\ now' = now + 1
    /\ UNCHANGED <<jobs, tick, worker, inFlight, up, hist, budget>>

-----------------------------------------------------------------------------
Init ==
    /\ now = 0
    /\ jobs = [j \in Jobs |-> AbsentJob]
    /\ tick = [t \in Ticks |-> FreeTick]
    /\ worker = [t \in Ticks |-> [w \in Slots |-> IdleWorker]]
    /\ inFlight = [p \in Procs |-> NoTick]
    /\ up = [p \in Procs |-> TRUE]
    /\ hist = [j \in Jobs |-> [gen |-> 0, fired |-> 0, begun |-> 0, lost |-> 0,
                               strays |-> 0, disturbed |-> FALSE]]
    /\ budget = [ops |-> MaxOps, crashes |-> MaxCrashes]

UserStep(j) ==
    \/ Create(j) \/ UpdateSchedule(j) \/ UpdateFields(j)
    \/ Pause(j) \/ Resume(j) \/ Remove(j) \/ Trigger(j)
    \/ \E t \in Ticks : ManualRun(t, j)

TickStep(t) ==
    \/ ResetStaleRunning(t) \/ ResetFails(t)
    \/ GetDueJobs(t) \/ GetDueFails(t) \/ EndTick(t)

RunStep(t, w) ==
    \/ NextJob(t, w) \/ ClaimDueJob(t, w)
    \/ ScriptDone(t, w) \/ AgentDone(t, w) \/ Deliver(t, w)
    \/ MarkRun(t, w) \/ MarkDelivery(t, w)

Next ==
    \/ Tock
    \/ \E j \in Jobs : UserStep(j)
    \/ \E p \in Procs : Crash(p) \/ Restart(p)
    \/ \E p \in Procs, t \in Ticks : StartTick(p, t)
    \/ \E t \in Ticks : TickStep(t)
    \/ \E t \in Ticks, w \in Slots : RunStep(t, w) \/ WorkerThrows(t, w)

Spec == Init /\ [][Next]_vars
-----------------------------------------------------------------------------
(* Safety *)

\* The runs of j that a claim started and that are still going.
ClaimedRuns(j) ==
    {tw \in Ticks \X Slots : /\ InRun(worker[tw[1]][tw[2]], j)
                             /\ worker[tw[1]][tw[2]].claimed}

\* No two runs of a job go on at once, over all processes and the stragglers
\* of rejected ticks, unless a user re-armed the job (trigger, resume, a new
\* schedule, `pie cron run`) or the stale reset hit it during the run
\* (claimDueJob's re-check under the lock).
NoOverlap ==
    \A j \in Jobs : ~hist[j].disturbed =>
        \A t, u \in Ticks : \A v, w \in Slots :
            InRun(worker[t][w], j) /\ InRun(worker[u][v], j)
                => t = u /\ v = w

\* Why: while a run of it goes on a job is marked running, disabled or gone, so
\* that no claim gets past its re-check, through pauses, edits, removals, fast
\* forwards and the ends of other runs (claimDueJob, update, markRun).
Held(job) == ~job.present \/ ~job.enabled \/ job.state = "running"
HeldWhileRunning ==
    \A j \in Jobs : ~hist[j].disturbed /\ Going(j) => Held(jobs[j])

\* A one-shot job is claimed at most once for each time a user arms it,
\* whatever crashes, stale resets and competing tickers do (claimDueJob,
\* resetStaleRunning).
OneShotOnce ==
    \A j \in Jobs : jobs[j].present /\ ~Repeats(jobs[j].schedule)
        => hist[j].fired <= 1

\* Every run begun is going on, counted in completedRuns exactly once, or was
\* cut off by a crash or an error; counts by runs of a removed job of the
\* same name come on top (markRun).
RunsAccounted ==
    \A j \in Jobs : jobs[j].present =>
        jobs[j].completedRuns + hist[j].lost
          + Cardinality({tw \in Ticks \X Slots :
                /\ InRun(worker[tw[1]][tw[2]], j)
                /\ worker[tw[1]][tw[2]].gen = hist[j].gen})
        = hist[j].begun + hist[j].strays

\* A job shown as running has a claimed run going on, or lost one: nothing
\* leaves a finished job behind as running (claimDueJob, markRun).
RunningIsOwned ==
    \A j \in Jobs : jobs[j].present /\ jobs[j].state = "running" =>
        ClaimedRuns(j) # {} \/ hist[j].lost > 0

\* The jobs the stale reset picks have no claimed run going on (the threshold
\* of tickCronScheduler is meant to find crashed runs).
StaleMeansDead ==
    \A j \in Jobs : Stale(jobs[j]) => ClaimedRuns(j) = {}

\* completedRuns never exceeds the runs of this job that were begun.
CompletedRunsHappened ==
    \A j \in Jobs : jobs[j].completedRuns <= hist[j].begun

\* A disabled job is enabled again by the user only: not by a run that ends,
\* a stale reset or a claim made from an old due list.
PauseSticks ==
    [][\A j \in Jobs :
         jobs[j].present /\ ~jobs[j].enabled /\ jobs'[j].enabled
           => Create(j) \/ Resume(j) \/ Trigger(j)]_vars

-----------------------------------------------------------------------------
(* Liveness: the clock runs, timers fire, runs end by their timeouts, crashed *)
(* processes are restarted, and a lock that is asked for again and again is   *)
(* had in the end.                                                            *)
Fairness ==
    /\ WF_vars(Tock)
    /\ \A p \in Procs : WF_vars(Restart(p))
    /\ \A p \in Procs : WF_vars(\E t \in Ticks : StartTick(p, t))
    /\ \A t \in Ticks : WF_vars(TickStep(t)) /\ SF_vars(ResetStaleRunning(t))
    /\ \A t \in Ticks, w \in Slots : WF_vars(RunStep(t, w) \/ WorkerThrows(t, w))

FairSpec == Spec /\ Fairness

\* A job left running by a crash does not stay so: some later tick resets it
\* (resetStaleRunning), if the clock's horizon leaves it the time.
StaleRecovered ==
    \A j \in Jobs :
        (/\ jobs[j].present /\ jobs[j].state = "running" /\ ClaimedRuns(j) = {}
         /\ jobs[j].updatedAt + StaleThreshold <= MaxTime)
        ~> (~jobs[j].present \/ jobs[j].state # "running" \/ ClaimedRuns(j) # {}
            \/ jobs[j].updatedAt + StaleThreshold > MaxTime)
=============================================================================
