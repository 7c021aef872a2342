------------------------ MODULE CronSchedulerProofs ------------------------
(* Theorems about CronScheduler, for every value of its constants. *)
EXTENDS CronScheduler, FiniteSetTheorems, TLAPS

\* A schedule's next run is a time, and strictly later than now if it repeats
\* (computeNextRun, nextCronRun).
LEMMA NextRunLater ==
    ASSUME NEW s \in Schedule, NEW t \in Nat
    PROVE  /\ ComputeNextRun(s, t) \in Time
           /\ Repeats(s) => ComputeNextRun(s, t) \in Nat /\ ComputeNextRun(s, t) > t
           /\ ~Repeats(s) => ComputeNextRun(s, t) = NoTime
           /\ ParsedNextRun(s, t) \in Nat
<1>1. s.every \in Nat \ {0} /\ s.kind \in ScheduleKind /\ s.absolute \in BOOLEAN
  BY DEF Schedule
<1>2. t % s.every \in 0 .. s.every - 1
  BY <1>1
<1> DEFINE n == NextCronRun(s, t)
<1>3. n \in Nat /\ n > t
  BY <1>1, <1>2 DEF NextCronRun
<1> HIDE DEF n
<1>4. ComputeNextRun(s, t) = CASE s.kind = "interval" -> t + s.every
                               [] s.kind = "cron" -> n
                               [] OTHER -> NoTime
  BY DEF ComputeNextRun, n
<1> QED
  BY <1>1, <1>3, <1>4 DEF ParsedNextRun, Repeats, ScheduleKind, Time, NoTime

\* The job records the store's operations write are job records.
LEMMA JobOps ==
    ASSUME TypeOK, NEW job \in JobRecord, NEW status \in {"success", "failed"}
    PROVE  /\ FastForward(job) \in JobRecord
           /\ Claimed(job) \in JobRecord
           /\ AfterReset(job) \in JobRecord
           /\ AfterRun(job, status) \in JobRecord
<1>1. now \in Nat /\ job.schedule \in Schedule
  BY DEF TypeOK, JobRecord
<1>2. ComputeNextRun(job.schedule, now) \in Time
  BY <1>1, NextRunLater
<1>3. Repeats(job.schedule) \in BOOLEAN
  BY DEF Repeats
<1>4. FastForward(job) \in JobRecord
  BY <1>1, <1>2, <1>3 DEF FastForward, JobRecord
<1>5. Claimed(job) \in JobRecord
  BY <1>1, <1>2, <1>3 DEF Claimed, JobRecord, JobState
<1>6. AfterReset(job) \in JobRecord
  BY <1>1, <1>2, <1>3 DEF AfterReset, JobRecord, JobState
<1>7. AfterRun(job, status) \in JobRecord
  <2> DEFINE runs == job.completedRuns + 1
             reached == job.repeatTimes # 0 /\ runs >= job.repeatTimes
             st == IF reached THEN "completed"
                   ELSE IF Repeats(job.schedule) /\ job.enabled
                   THEN "pending" ELSE status
             en == job.enabled /\ ~reached
             nx == IF reached THEN NoTime ELSE job.nextRunAt
  <2>1. st \in JobState
    BY DEF JobState
  <2>2. en \in BOOLEAN
    BY Zenon
  <2>3. nx \in Time /\ runs \in Nat
    BY DEF JobRecord, Time, NoTime
  <2>4. AfterRun(job, status) = [job EXCEPT !.state = st, !.enabled = en,
            !.nextRunAt = nx, !.completedRuns = runs, !.updatedAt = now]
    BY DEF AfterRun
  <2> HIDE DEF st, en, nx, runs
  <2> QED
    BY <1>1, <2>1, <2>2, <2>3, <2>4 DEF JobRecord
<1> QED
  BY <1>4, <1>5, <1>6, <1>7
\* Replacing one worker of one tick keeps the workers well typed.
LEMMA SetWorkerType ==
    ASSUME TypeOK, NEW t \in Ticks, NEW w \in Slots, NEW r \in WorkerRecord,
           SetWorker(t, w, r)
    PROVE  worker' \in [Ticks -> [Slots -> WorkerRecord]]
  BY DEF TypeOK, SetWorker

\* The records workers and ticks are set to.
LEMMA IdleType ==
    /\ IdleWorker \in WorkerRecord /\ FreeTick \in TickRecord
    /\ \A pc \in {"idle", "next"} : [IdleWorker EXCEPT !.pc = pc] \in WorkerRecord
    /\ \A pc \in WorkerPc, j \in Jobs, b \in BOOLEAN :
         /\ [IdleWorker EXCEPT !.pc = pc, !.job = j] \in WorkerRecord
         /\ [IdleWorker EXCEPT !.pc = pc, !.job = j, !.claimed = b] \in WorkerRecord
  BY DEF IdleWorker, WorkerRecord, WorkerFields, WorkerPc, FreeTick, TickRecord

\* A run that runCronJob starts is a well-typed worker with a real job id.
LEMMA NewRunType ==
    ASSUME TypeOK, NEW j \in Jobs, NEW b \in BOOLEAN
    PROVE  NewRun(j, b) \in WorkerRecord
<1>1. now \in Nat /\ hist[j].gen \in Nat
  BY DEF TypeOK, HistRecord
<1>2. FirstPhase(j) \in WorkerPc
  BY DEF FirstPhase, WorkerPc, RunPhases
<1> QED
  BY <1>1, <1>2 DEF NewRun, WorkerRecord, WorkerFields

\* The history records the operations write.
LEMMA ArmBeginType ==
    ASSUME NEW j \in Jobs, NEW h \in HistRecord, NEW b \in BOOLEAN
    PROVE  Arm(h, j) \in HistRecord /\ Begin(h, b) \in HistRecord
<1>1. Arm(h, j) \in HistRecord
  <2> DEFINE d == h.disturbed \/ Going(j)
             z == 0
  <2>1. Arm(h, j) = [h EXCEPT !.fired = z, !.disturbed = d]
    BY DEF Arm
  <2>2. d \in BOOLEAN
    BY Zenon
  <2>3. z \in Nat
    OBVIOUS
  <2> HIDE DEF d, z
  <2> QED
    BY <2>1, <2>2, <2>3 DEF HistRecord
<1>2. Begin(h, b) \in HistRecord
  <2> DEFINE d == h.disturbed \/ ~b
             f == IF b THEN h.fired + 1 ELSE h.fired
  <2>1. Begin(h, b) = [h EXCEPT !.fired = f, !.begun = h.begun + 1,
                                !.disturbed = d]
    BY DEF Begin
  <2>2. d \in BOOLEAN
    BY Zenon
  <2>3. f \in Nat /\ h.begun + 1 \in Nat
    BY DEF HistRecord
  <2> HIDE DEF d, f
  <2> QED
    BY <2>1, <2>2, <2>3 DEF HistRecord
<1> QED
  BY <1>1, <1>2

\* The history of a job stays well typed when one of its runs ends.
LEMMA EndType ==
    ASSUME NEW h \in HistRecord, NEW b \in BOOLEAN,
           NEW t \in Ticks, NEW w \in Slots
    PROVE  End(h, t, w, b) \in HistRecord
<1> DEFINE d == h.disturbed /\ OthersGoing(t, w, worker[t][w].job)
           l == IF ~b /\ worker[t][w].gen = h.gen THEN h.lost + 1 ELSE h.lost
           s == IF b /\ worker[t][w].gen # h.gen THEN h.strays + 1 ELSE h.strays
<1>1. End(h, t, w, b) = [h EXCEPT !.lost = l, !.strays = s, !.disturbed = d]
  BY DEF End
<1>2. d \in BOOLEAN
  BY Zenon
<1>3. l \in Nat /\ s \in Nat
  BY DEF HistRecord
<1> HIDE DEF d, l, s
<1> QED
  BY <1>1, <1>2, <1>3 DEF HistRecord

-----------------------------------------------------------------------------
\* The initial state is well typed.
LEMMA InitType == Init => TypeOK
<1> SUFFICES ASSUME Init PROVE TypeOK
  OBVIOUS
<1>1. AbsentJob \in JobRecord
  BY DEF AbsentJob, JobRecord, JobState, Schedule, ScheduleKind, Time, NoTime
<1>2. IdleWorker \in WorkerRecord /\ FreeTick \in TickRecord
  BY DEF IdleWorker, WorkerRecord, WorkerFields, WorkerPc, FreeTick, TickRecord
<1>3. [gen |-> 0, fired |-> 0, begun |-> 0, lost |-> 0, strays |-> 0,
       disturbed |-> FALSE] \in HistRecord
  BY DEF HistRecord
<1>4. [ops |-> MaxOps, crashes |-> MaxCrashes] \in [ops : Nat, crashes : Nat]
  BY SchedulerAssumption
<1> QED
  BY <1>1, <1>2, <1>3, <1>4 DEF Init, TypeOK

\* A user operation that writes a job and a history record keeps the types.
LEMMA UserOpType ==
    ASSUME TypeOK, NEW j \in Jobs, NEW job \in JobRecord, NEW h \in HistRecord,
           UserOp(j, job, h)
    PROVE  TypeOK'
<1>1. budget' \in [ops : Nat, crashes : Nat]
  BY DEF TypeOK, UserOp
<1> QED
  BY <1>1 DEF TypeOK, UserOp

\* The user's operations keep the types.
LEMMA UserStepType ==
    ASSUME TypeOK, NEW j \in Jobs, UserStep(j)
    PROVE  TypeOK'
<1>1. now \in Nat /\ jobs[j] \in JobRecord /\ hist[j] \in HistRecord
  BY DEF TypeOK
<1>2. Arm(hist[j], j) \in HistRecord
  BY <1>1, ArmBeginType
<1>3. CASE Create(j)
  <2>1. PICK s \in Schedules, n \in Limits :
          UserOp(j, [present |-> TRUE, schedule |-> s, repeatTimes |-> n,
                     completedRuns |-> 0, enabled |-> TRUE, state |-> "pending",
                     nextRunAt |-> ParsedNextRun(s, now), updatedAt |-> now],
                 [gen |-> hist[j].gen + 1, fired |-> 0, begun |-> 0, lost |-> 0,
                  strays |-> 0, disturbed |-> Going(j)])
    BY <1>3 DEF Create
  <2>2. s \in Schedule /\ n \in Nat
    BY SchedulerAssumption
  <2>3. ParsedNextRun(s, now) \in Time
    BY <1>1, <2>2, NextRunLater DEF Time
  <2>4. [present |-> TRUE, schedule |-> s, repeatTimes |-> n,
         completedRuns |-> 0, enabled |-> TRUE, state |-> "pending",
         nextRunAt |-> ParsedNextRun(s, now), updatedAt |-> now] \in JobRecord
    BY <1>1, <2>2, <2>3 DEF JobRecord, JobState
  <2>5. Going(j) \in BOOLEAN
    BY DEF Going
  <2>6. [gen |-> hist[j].gen + 1, fired |-> 0, begun |-> 0, lost |-> 0,
         strays |-> 0, disturbed |-> Going(j)] \in HistRecord
    BY <1>1, <2>5 DEF HistRecord
  <2> QED
    BY <2>1, <2>4, <2>6, UserOpType
<1>4. CASE UpdateSchedule(j)
  <2>1. PICK s \in Schedules, n \in Limits :
          UserOp(j, [jobs[j] EXCEPT !.schedule = s, !.repeatTimes = n,
                        !.nextRunAt = ParsedNextRun(s, now),
                        !.state = "pending", !.updatedAt = now],
                 Arm(hist[j], j))
    BY <1>4 DEF UpdateSchedule
  <2>2. s \in Schedule /\ n \in Nat
    BY SchedulerAssumption
  <2>3. ParsedNextRun(s, now) \in Time
    BY <1>1, <2>2, NextRunLater DEF Time
  <2>4. [jobs[j] EXCEPT !.schedule = s, !.repeatTimes = n,
            !.nextRunAt = ParsedNextRun(s, now),
            !.state = "pending", !.updatedAt = now] \in JobRecord
    BY <1>1, <2>2, <2>3 DEF JobRecord, JobState
  <2> QED
    BY <1>2, <2>1, <2>4, UserOpType
<1>5. CASE UpdateFields(j)
  <2>1. PICK n \in Limits :
          UserOp(j, [jobs[j] EXCEPT !.repeatTimes = n, !.updatedAt = now], hist[j])
    BY <1>5 DEF UpdateFields
  <2>2. [jobs[j] EXCEPT !.repeatTimes = n, !.updatedAt = now] \in JobRecord
    BY <1>1, SchedulerAssumption DEF JobRecord
  <2> QED
    BY <1>1, <2>1, <2>2, UserOpType
<1>6. CASE Pause(j)
  <2>1. [jobs[j] EXCEPT !.enabled = FALSE, !.state = "paused",
                        !.updatedAt = now] \in JobRecord
    BY <1>1 DEF JobRecord, JobState
  <2> QED
    BY <1>1, <1>6, <2>1, UserOpType DEF Pause
<1>7. CASE Resume(j)
  <2> DEFINE next == ComputeNextRun(jobs[j].schedule, now)
             at == IF jobs[j].nextRunAt # NoTime THEN jobs[j].nextRunAt
                   ELSE IF next # NoTime THEN next ELSE now
  <2>1. next \in Time
    BY <1>1, NextRunLater DEF JobRecord
  <2>2. at \in Time
    BY <1>1, <2>1 DEF JobRecord, Time
  <2>3. UserOp(j, [jobs[j] EXCEPT !.enabled = TRUE, !.state = "pending",
                                  !.nextRunAt = at, !.updatedAt = now],
               Arm(hist[j], j))
    BY <1>7 DEF Resume
  <2> HIDE DEF at
  <2>4. [jobs[j] EXCEPT !.enabled = TRUE, !.state = "pending",
                        !.nextRunAt = at, !.updatedAt = now] \in JobRecord
    BY <1>1, <2>2 DEF JobRecord, JobState
  <2> QED
    BY <1>2, <2>3, <2>4, UserOpType
<1>8. CASE Remove(j)
  <2>1. AbsentJob \in JobRecord
    BY DEF AbsentJob, JobRecord, JobState, Schedule, ScheduleKind, Time, NoTime
  <2> QED
    BY <1>1, <1>8, <2>1, UserOpType DEF Remove
<1>9. CASE Trigger(j)
  <2>1. [jobs[j] EXCEPT !.enabled = TRUE, !.state = "pending",
                        !.nextRunAt = now, !.updatedAt = now] \in JobRecord
    BY <1>1 DEF JobRecord, JobState, Time
  <2> QED
    BY <1>2, <1>9, <2>1, UserOpType DEF Trigger
<1>10. ASSUME NEW t \in Ticks, ManualRun(t, j)
       PROVE  TypeOK'
  <2>0. 1 \in Slots
    BY SchedulerAssumption DEF Slots
  <2>1. NewRun(j, FALSE) \in WorkerRecord
    BY NewRunType
  <2>2. worker' \in [Ticks -> [Slots -> WorkerRecord]]
    BY <1>10, <2>0, <2>1, SetWorkerType DEF ManualRun
  <2>3. Begin(hist[j], FALSE) \in HistRecord
    BY <1>1, ArmBeginType
  <2>4. hist' \in [Jobs -> HistRecord]
    BY <1>10, <2>3 DEF ManualRun, TypeOK
  <2>5. tick' \in [Ticks -> TickRecord]
    BY <1>10, ZenonT(60) DEF ManualRun, TypeOK, TickRecord
  <2>6. budget' \in [ops : Nat, crashes : Nat]
    BY <1>10 DEF ManualRun, TypeOK
  <2> QED
    BY <1>10, <2>2, <2>4, <2>5, <2>6 DEF ManualRun, TypeOK
<1> QED
  BY <1>3, <1>4, <1>5, <1>6, <1>7, <1>8, <1>9, <1>10 DEF UserStep
\* What a rejected tick does to its process keeps the types.
LEMMA RejectedType ==
    ASSUME TypeOK, NEW t \in Ticks, Rejected(t)
    PROVE  inFlight' \in [Procs -> Ticks \cup {NoTick}] /\ up' \in [Procs -> BOOLEAN]
<1> DEFINE p == tick[t].proc
           b == up[p] /\ p \notin Daemons
<1>1. CASE p \in Procs /\ inFlight[p] = t
  <2>1. inFlight' = [inFlight EXCEPT ![p] = NoTick] /\ up' = [up EXCEPT ![p] = b]
    BY <1>1 DEF Rejected
  <2>2. b \in BOOLEAN
    BY Zenon
  <2> HIDE DEF b, p
  <2> QED
    BY <2>1, <2>2 DEF TypeOK
<1>2. CASE ~(p \in Procs /\ inFlight[p] = t)
  BY <1>2 DEF Rejected, TypeOK
<1> QED
  BY <1>1, <1>2

\* The steps of a tick keep the types.
LEMMA TickStepType ==
    ASSUME TypeOK, NEW t \in Ticks, TickStep(t)
    PROVE  TypeOK'
<1>1. CASE ResetStaleRunning(t)
  <2>1. ASSUME NEW j \in Jobs
        PROVE  [hist[j] EXCEPT !.disturbed = hist[j].disturbed \/ Going(j)] \in HistRecord
    <3> DEFINE d == hist[j].disturbed \/ Going(j)
    <3>1. d \in BOOLEAN
      BY Zenon
    <3> HIDE DEF d
    <3>2. [hist[j] EXCEPT !.disturbed = d] \in HistRecord
      BY <3>1 DEF TypeOK, HistRecord
    <3> QED
      BY <3>2 DEF d
  <2>2. hist' \in [Jobs -> HistRecord]
    BY <1>1, <2>1 DEF ResetStaleRunning, TypeOK
  <2>3. \A j \in Jobs : AfterReset(jobs[j]) \in JobRecord
    BY JobOps DEF TypeOK
  <2>4. jobs' \in [Jobs -> JobRecord]
    BY <1>1, <2>3 DEF ResetStaleRunning, TypeOK
  <2>5. tick' \in [Ticks -> TickRecord]
    BY <1>1, ZenonT(60) DEF ResetStaleRunning, TypeOK, TickRecord
  <2> QED
    BY <1>1, <2>2, <2>4, <2>5 DEF ResetStaleRunning, TypeOK
<1>2. CASE ResetFails(t)
  <2>1. tick' \in [Ticks -> TickRecord]
    BY <1>2, ZenonT(60) DEF ResetFails, TypeOK, TickRecord
  <2> QED
    BY <1>2, <2>1 DEF ResetFails, TypeOK
<1>3. CASE GetDueJobs(t)
  <2> DEFINE due == {j \in Jobs : Claimable(jobs[j]) /\ ~TooLate(jobs[j])}
  <2>1. \A j \in Jobs : FastForward(jobs[j]) \in JobRecord
    BY JobOps DEF TypeOK
  <2>2. jobs' \in [Jobs -> JobRecord]
    BY <1>3, <2>1 DEF GetDueJobs, TypeOK
  <2>3. tick' = [tick EXCEPT ![t] = [tick[t] EXCEPT !.phase = "work", !.due = due]]
    BY <1>3 DEF GetDueJobs
  <2>4. due \in SUBSET Jobs
    OBVIOUS
  <2>5. worker' = [worker EXCEPT ![t] =
                     [w \in Slots |-> IF w <= Cardinality(due)
                                      THEN [IdleWorker EXCEPT !.pc = "next"]
                                      ELSE IdleWorker]]
    BY <1>3 DEF GetDueJobs
  <2> HIDE DEF due
  <2>9. [tick[t] EXCEPT !.phase = "work", !.due = due] \in TickRecord
    BY <2>4, ZenonT(60) DEF TypeOK, TickRecord
  <2>6. tick' \in [Ticks -> TickRecord]
    BY <2>3, <2>9 DEF TypeOK
  <2>7. [IdleWorker EXCEPT !.pc = "next"] \in WorkerRecord /\ IdleWorker \in WorkerRecord
    BY IdleType
  <2>8. worker' \in [Ticks -> [Slots -> WorkerRecord]]
    BY <2>5, <2>7 DEF TypeOK
  <2> QED
    BY <1>3, <2>2, <2>6, <2>8 DEF GetDueJobs, TypeOK
<1>4. CASE GetDueFails(t)
  <2>1. inFlight' \in [Procs -> Ticks \cup {NoTick}] /\ up' \in [Procs -> BOOLEAN]
    BY <1>4, RejectedType DEF GetDueFails
  <2>2. tick' \in [Ticks -> TickRecord]
    BY <1>4, IdleType DEF GetDueFails, TypeOK
  <2> QED
    BY <1>4, <2>1, <2>2 DEF GetDueFails, TypeOK
<1>5. CASE EndTick(t)
  <2>1. tick' \in [Ticks -> TickRecord]
    BY <1>5, IdleType DEF EndTick, TypeOK
  <2>2. inFlight' \in [Procs -> Ticks \cup {NoTick}]
    BY <1>5 DEF EndTick, TypeOK
  <2> QED
    BY <1>5, <2>1, <2>2 DEF EndTick, TypeOK
<1> QED
  BY <1>1, <1>2, <1>3, <1>4, <1>5 DEF TickStep
\* The steps of a worker keep the types.
LEMMA RunStepType ==
    ASSUME TypeOK, NEW t \in Ticks, NEW w \in Slots,
           RunStep(t, w) \/ WorkerThrows(t, w)
    PROVE  TypeOK'
<1> DEFINE r == worker[t][w]
<1>1. now \in Nat /\ r \in WorkerRecord
  BY SMTT(30) DEF TypeOK
<1>2. CASE NextJob(t, w)
  <2>1. CASE tick[t].due = {} /\ SetWorker(t, w, IdleWorker) /\ UNCHANGED tick
    <3>1. worker' \in [Ticks -> [Slots -> WorkerRecord]]
      BY <2>1, IdleType, SetWorkerType
    <3> QED
      BY <1>2, <2>1, <3>1 DEF NextJob, TypeOK
  <2>2. ASSUME NEW j \in tick[t].due,
               tick' = [tick EXCEPT ![t].due = @ \ {j}],
               SetWorker(t, w, [IdleWorker EXCEPT !.pc = "claim", !.job = j])
        PROVE  TypeOK'
    <3>1. j \in Jobs
      BY DEF TypeOK, TickRecord
    <3>2. [IdleWorker EXCEPT !.pc = "claim", !.job = j] \in WorkerRecord
      BY <3>1, IdleType DEF WorkerPc
    <3>3. worker' \in [Ticks -> [Slots -> WorkerRecord]]
      BY <2>2, <3>2, SetWorkerType
    <3>4. tick' \in [Ticks -> TickRecord]
      BY <2>2, ZenonT(60) DEF TypeOK, TickRecord
    <3> QED
      BY <1>2, <3>3, <3>4 DEF NextJob, TypeOK
  <2> QED
    BY <1>2, <2>1, <2>2 DEF NextJob
<1>3. CASE ClaimDueJob(t, w)
  <2>0. r.job \in Jobs
    BY <1>1, <1>3 DEF ClaimDueJob, WorkerRecord
  <2>1. CASE /\ jobs' = [jobs EXCEPT ![r.job] = Claimed(@)]
             /\ hist' = [hist EXCEPT ![r.job] = Begin(@, TRUE)]
             /\ SetWorker(t, w, NewRun(r.job, TRUE))
    <3>1. Claimed(jobs[r.job]) \in JobRecord /\ Begin(hist[r.job], TRUE) \in HistRecord
      BY <2>0, JobOps, ArmBeginType DEF TypeOK
    <3>2. jobs' \in [Jobs -> JobRecord] /\ hist' \in [Jobs -> HistRecord]
      BY <2>1, <3>1 DEF TypeOK
    <3>3. NewRun(r.job, TRUE) \in WorkerRecord
      BY <2>0, NewRunType
    <3>4. worker' \in [Ticks -> [Slots -> WorkerRecord]]
      BY <2>1, <3>3, SetWorkerType
    <3> QED
      BY <1>3, <3>2, <3>4 DEF ClaimDueJob, TypeOK
  <2>2. CASE /\ jobs' = [jobs EXCEPT ![r.job] = FastForward(@)]
             /\ SetWorker(t, w, [IdleWorker EXCEPT !.pc = "next"])
             /\ UNCHANGED hist
    <3>1. FastForward(jobs[r.job]) \in JobRecord
      BY <2>0, JobOps DEF TypeOK
    <3>2. jobs' \in [Jobs -> JobRecord]
      BY <2>2, <3>1 DEF TypeOK
    <3>3. worker' \in [Ticks -> [Slots -> WorkerRecord]]
      BY <2>2, IdleType, SetWorkerType
    <3> QED
      BY <1>3, <2>2, <3>2, <3>3 DEF ClaimDueJob, TypeOK
  <2>3. CASE /\ SetWorker(t, w, [IdleWorker EXCEPT !.pc = "next"])
             /\ UNCHANGED <<jobs, hist>>
    <3>1. worker' \in [Ticks -> [Slots -> WorkerRecord]]
      BY <2>3, IdleType, SetWorkerType
    <3> QED
      BY <1>3, <2>3, <3>1 DEF ClaimDueJob, TypeOK
  <2> QED
    BY <1>3, <2>1, <2>2, <2>3 DEF ClaimDueJob
<1>4. ASSUME NEW pc \in RunPhases, NEW status \in {"success", "failed"},
             r.job \in Jobs, Advance(t, w, pc, status)
      PROVE  TypeOK'
  <2>1. [r EXCEPT !.pc = pc, !.since = now, !.status = status] \in WorkerRecord
    BY <1>1, <1>4 DEF WorkerRecord, WorkerFields, WorkerPc
  <2>2. worker' \in [Ticks -> [Slots -> WorkerRecord]]
    BY <1>4, <2>1, SetWorkerType DEF Advance
  <2> QED
    BY <1>4, <2>2 DEF Advance, TypeOK
<1>5. CASE ScriptDone(t, w) \/ AgentDone(t, w)
  <2>1. r.job \in Jobs /\ r.status \in {"success", "failed"}
    BY <1>1, <1>5 DEF ScriptDone, AgentDone, WorkerRecord, WorkerFields
  <2> QED
    BY <1>4, <1>5, <2>1 DEF ScriptDone, AgentDone, RunPhases
<1>6. CASE Deliver(t, w)
  <2>1. [r EXCEPT !.pc = "mark"] \in WorkerRecord
    BY <1>1, <1>6 DEF Deliver, WorkerRecord, WorkerFields, WorkerPc, RunPhases
  <2>2. worker' \in [Ticks -> [Slots -> WorkerRecord]]
    BY <1>6, <2>1, SetWorkerType DEF Deliver
  <2> QED
    BY <1>6, <2>2 DEF Deliver, TypeOK
<1>7. CASE MarkRun(t, w)
  <2>1. r.job \in Jobs /\ r.status \in {"success", "failed"} /\ r.claimed \in BOOLEAN
    BY <1>1, <1>7 DEF MarkRun, WorkerRecord, WorkerFields
  <2>2. AfterRun(jobs[r.job], r.status) \in JobRecord
    BY <2>1, JobOps DEF TypeOK
  <2>3. End(hist[r.job], t, w, TRUE) \in HistRecord
    BY <2>1, EndType DEF TypeOK
  <2>4. jobs' \in [Jobs -> JobRecord] /\ hist' \in [Jobs -> HistRecord]
    BY <1>7, <2>2, <2>3 DEF MarkRun, TypeOK
  <2>5. [IdleWorker EXCEPT !.pc = "markDelivery", !.job = r.job,
                           !.claimed = r.claimed] \in WorkerRecord
    BY <2>1, IdleType DEF WorkerPc
  <2>6. worker' \in [Ticks -> [Slots -> WorkerRecord]]
    BY <1>7, <2>5, SetWorkerType DEF MarkRun
  <2> QED
    BY <1>7, <2>4, <2>6 DEF MarkRun, TypeOK
<1>8. CASE MarkDelivery(t, w)
  <2>1. jobs' \in [Jobs -> JobRecord]
    <3>1. r.job \in Jobs
      BY <1>1, <1>8 DEF MarkDelivery, WorkerRecord
    <3>2. [jobs[r.job] EXCEPT !.updatedAt = now] \in JobRecord
      BY <1>1, <3>1, ZenonT(60) DEF TypeOK, JobRecord
    <3>3. jobs' = [jobs EXCEPT ![r.job] = [jobs[r.job] EXCEPT !.updatedAt = now]]
      BY <1>8 DEF MarkDelivery
    <3> QED
      BY <3>2, <3>3 DEF TypeOK
  <2>2. [IdleWorker EXCEPT !.pc = IF r.claimed THEN "next" ELSE "idle"] \in WorkerRecord
    BY IdleType
  <2>3. worker' \in [Ticks -> [Slots -> WorkerRecord]]
    BY <1>8, <2>2, SetWorkerType DEF MarkDelivery
  <2> QED
    BY <1>8, <2>1, <2>3 DEF MarkDelivery, TypeOK
<1>9. CASE WorkerThrows(t, w)
  <2>1. r.job \in Jobs
    BY <1>1, <1>9 DEF WorkerThrows, WorkerRecord
  <2>2. End(hist[r.job], t, w, FALSE) \in HistRecord
    BY <2>1, EndType DEF TypeOK
  <2>3. hist' \in [Jobs -> HistRecord]
    BY <1>9, <2>2 DEF WorkerThrows, TypeOK
  <2>4. worker' \in [Ticks -> [Slots -> WorkerRecord]]
    BY <1>9, IdleType, SetWorkerType DEF WorkerThrows
  <2>5. inFlight' \in [Procs -> Ticks \cup {NoTick}] /\ up' \in [Procs -> BOOLEAN]
    BY <1>9, RejectedType DEF WorkerThrows
  <2> QED
    BY <1>9, <2>3, <2>4, <2>5 DEF WorkerThrows, TypeOK
<1> QED
  BY <1>2, <1>3, <1>5, <1>6, <1>7, <1>8, <1>9 DEF RunStep

\* Crashes, restarts, new ticks and the clock keep the types.
LEMMA ProcessStepType ==
    ASSUME TypeOK, NEW p \in Procs,
           \/ Crash(p) \/ Restart(p) \/ Tock
           \/ \E t \in Ticks : StartTick(p, t)
    PROVE  TypeOK'
<1>1. CASE Crash(p)
  <2>0. tick' \in [Ticks -> TickRecord]
    BY <1>1, IdleType, ZenonT(60) DEF Crash, TypeOK
  <2>1. worker' \in [Ticks -> [Slots -> WorkerRecord]]
    BY <1>1, IdleType, ZenonT(60) DEF Crash, TypeOK
  <2>2. inFlight' \in [Procs -> Ticks \cup {NoTick}] /\ up' \in [Procs -> BOOLEAN]
    BY <1>1 DEF Crash, TypeOK
  <2>3. budget' \in [ops : Nat, crashes : Nat]
    <3>1. budget.crashes > 0 /\ budget' = [budget EXCEPT !.crashes = @ - 1]
      BY <1>1 DEF Crash
    <3> QED
      BY <3>1, SMTT(30) DEF TypeOK
  <2>4. hist' \in [Jobs -> HistRecord]
    <3>1. ASSUME NEW j \in Jobs PROVE hist'[j] \in HistRecord
      <4> DEFINE cut == {tw \in RunsOf(p, j) : worker[tw[1]][tw[2]].gen = hist[j].gen}
                 l == hist[j].lost + Cardinality(cut)
                 d == hist[j].disturbed /\ \E t \in Ticks \ TicksOf(p), w \in Slots :
                                              InRun(worker[t][w], j)
      <4>1. IsFiniteSet(Ticks) /\ IsFiniteSet(Slots)
        BY SchedulerAssumption, FS_Interval DEF Slots
      <4>2. IsFiniteSet(Ticks \X Slots)
        BY <4>1, FS_Product
      <4>3. cut \subseteq Ticks \X Slots
        BY DEF RunsOf, TicksOf
      <4>4. Cardinality(cut) \in Nat
        BY <4>2, <4>3, FS_Subset, FS_CardinalityType
      <4>5. l \in Nat
        BY <4>4 DEF TypeOK, HistRecord
      <4>6. d \in BOOLEAN
        BY ZenonT(60)
      <4>7. hist'[j] = [hist[j] EXCEPT !.lost = l, !.disturbed = d]
        BY <1>1, ZenonT(60) DEF Crash
      <4> HIDE DEF l, d
      <4> QED
        BY <4>5, <4>6, <4>7, ZenonT(60) DEF TypeOK, HistRecord
    <3>2. hist' = [j \in Jobs |-> hist'[j]]
      BY <1>1 DEF Crash
    <3> QED
      BY <3>1, <3>2
  <2> QED
    BY <1>1, <2>0, <2>1, <2>2, <2>3, <2>4, ZenonT(60) DEF Crash, TypeOK
<1>2. CASE Restart(p)
  BY <1>2 DEF Restart, TypeOK
<1>3. CASE Tock
  BY <1>3 DEF Tock, TypeOK
<1>4. ASSUME NEW t \in Ticks, StartTick(p, t) PROVE TypeOK'
  <2>1. tick' \in [Ticks -> TickRecord]
    BY <1>4 DEF StartTick, TypeOK, TickRecord
  <2>2. inFlight' \in [Procs -> Ticks \cup {NoTick}]
    BY <1>4 DEF StartTick, TypeOK
  <2> QED
    BY <1>4, <2>1, <2>2 DEF StartTick, TypeOK
<1> QED
  BY <1>1, <1>2, <1>3, <1>4, SMTT(30)

\* Every step of the scheduler, of its users and of its processes keeps types.
LEMMA NextType == TypeOK /\ [Next]_vars => TypeOK'
<1> SUFFICES ASSUME TypeOK, [Next]_vars PROVE TypeOK'
  OBVIOUS
<1>1. CASE Tock
  BY <1>1 DEF Tock, TypeOK
<1>2. CASE UNCHANGED vars
  BY <1>2 DEF vars, TypeOK
<1> QED
  BY <1>1, <1>2, UserStepType, TickStepType, RunStepType, ProcessStepType DEF Next

\* Type correctness of the scheduler, for all constants: in particular the
\* job every busy worker works on is one of the store's ids.
THEOREM TypeCorrect == Spec => []TypeOK
  BY InitType, NextType, PTL DEF Spec
=============================================================================
