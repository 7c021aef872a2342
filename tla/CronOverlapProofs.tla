------------------------- MODULE CronOverlapProofs -------------------------
(***************************************************************************)
(* Proofs about CronScheduler, for all constants: no two runs of a job     *)
(* overlap, a one-shot is claimed once, no step but a user's enables a     *)
(* disabled job, every run is accounted for, and the stale reset finds     *)
(* dead runs only, if the timeouts leave room.                             *)
(*                                                                         *)
(* NoOverlap is not inductive.  Its strengthening adds HeldWhileRunning:   *)
(* while a run goes on its job cannot be claimed.  RunsAccounted needs that *)
(* no run is of a later incarnation than its job, and that a tick has      *)
(* workers only while it works; StaleMeansDead needs how much of its time  *)
(* a run can still use.                                                    *)
(***************************************************************************)
EXTENDS CronSchedulerProofs

\* Both for one job: its runs do not overlap and keep it from being claimed.
Alone(j) == \A t, u \in Ticks : \A v, w \in Slots :
                InRun(worker[t][w], j) /\ InRun(worker[u][v], j) => t = u /\ v = w
Safe(j) == ~hist[j].disturbed => Alone(j) /\ (Going(j) => Held(jobs[j]))

\* A step that begins no run of j, and either leaves the job held and the
\* history as it was or leaves no run of j, keeps j safe.
LEMMA NoNewRun ==
    ASSUME NEW j \in Jobs, Safe(j),
           \A t \in Ticks, w \in Slots : InRun(worker'[t][w], j) => InRun(worker[t][w], j),
           hist'[j].disturbed \/ ~Going(j)'
             \/ (~hist[j].disturbed /\ (Held(jobs[j]) => Held(jobs'[j])))
    PROVE  Safe(j)'
<1>1. CASE hist'[j].disturbed
  BY <1>1, Zenon DEF Safe
<1>2. CASE ~Going(j)'
  BY <1>2, Zenon DEF Safe, Alone, Going
<1>3. CASE ~hist[j].disturbed /\ (Held(jobs[j]) => Held(jobs'[j]))
  <2>1. Alone(j) /\ (Going(j) => Held(jobs[j]))
    BY <1>3, Zenon DEF Safe
  <2>2. Alone(j)'
    BY <2>1, Zenon DEF Alone
  <2>3. Going(j)' => Going(j)
    BY Zenon DEF Going
  <2>4. Going(j)' => Held(jobs'[j])
    BY <1>3, <2>1, <2>3, Zenon
  <2>5. Going(j)' => Held(jobs[j])'
    BY <2>4, Zenon DEF Held
  <2> QED
    BY <2>2, <2>5, Zenon DEF Safe
<1> QED
  BY <1>1, <1>2, <1>3, Zenon

\* Nobody's run of j, job j or history of j changes.
LEMMA Untouched ==
    ASSUME NEW j \in Jobs, Safe(j), worker' = worker,
           jobs'[j] = jobs[j], hist'[j] = hist[j]
    PROVE  Safe(j)'
  BY ZenonT(60) DEF Safe, Alone, Going, Held

\* Setting one worker to a record that is in no run begins no run.
LEMMA WorkerLeaves ==
    ASSUME TypeOK, NEW t \in Ticks, NEW w \in Slots, NEW r, SetWorker(t, w, r),
           NEW j \in Jobs, InRun(r, j) => InRun(worker[t][w], j)
    PROVE  \A u \in Ticks, v \in Slots : InRun(worker'[u][v], j) => InRun(worker[u][v], j)
<1> SUFFICES ASSUME NEW u \in Ticks, NEW v \in Slots, InRun(worker'[u][v], j)
             PROVE  InRun(worker[u][v], j)
  OBVIOUS
<1>1. worker'[u][v] = IF u = t /\ v = w THEN r ELSE worker[u][v]
  BY DEF TypeOK, SetWorker
<1> QED
  BY <1>1

\* The user's operations keep every job safe: the ones that may free a job
\* with a run note it in the history.
LEMMA UserOpSafe ==
    ASSUME TypeOK, NEW i \in Jobs, NEW job, NEW h, UserOp(i, job, h),
           NEW j \in Jobs, Safe(j),
           \/ Going(i) => h.disturbed
           \/ h = hist[i] /\ (Held(jobs[i]) => Held(job))
    PROVE  Safe(j)'
<1>1. worker' = worker /\ jobs'[j] = (IF j = i THEN job ELSE jobs[j])
      /\ hist'[j] = (IF j = i THEN h ELSE hist[j])
  BY DEF UserOp, TypeOK
<1>2. Going(j)' = Going(j)
  BY <1>1 DEF Going
<1>3. CASE j # i
  BY <1>1, <1>3, Untouched
<1>4. CASE j = i /\ (Going(i) => h.disturbed)
  <2>1. hist'[j].disturbed \/ ~Going(j)'
    BY <1>1, <1>2, <1>4
  <2> QED
    BY <1>1, <2>1, NoNewRun
<1>5. CASE j = i /\ h = hist[i] /\ (Held(jobs[i]) => Held(job))
  <2>1. hist'[j].disturbed \/ (~hist[j].disturbed /\ (Held(jobs[j]) => Held(jobs'[j])))
    BY <1>1, <1>5
  <2> QED
    BY <1>1, <2>1, NoNewRun
<1> QED
  BY <1>3, <1>4, <1>5

\* ... in all their forms.
LEMMA UserStepSafe ==
    ASSUME TypeOK, NEW i \in Jobs, UserStep(i), NEW j \in Jobs, Safe(j)
    PROVE  Safe(j)'
<1>0. hist[i] \in HistRecord /\ jobs[i] \in JobRecord
  BY DEF TypeOK
<1>1. Going(i) => Arm(hist[i], i).disturbed
  BY <1>0 DEF Arm, HistRecord
<1>2. CASE Create(i)
  BY <1>2, UserOpSafe DEF Create
<1>3. CASE UpdateSchedule(i) \/ Resume(i) \/ Trigger(i)
  BY <1>1, <1>3, UserOpSafe DEF UpdateSchedule, Resume, Trigger
<1>4. CASE UpdateFields(i)
  <2>1. PICK n \in Limits : UserOp(i, [jobs[i] EXCEPT !.repeatTimes = n, !.updatedAt = now], hist[i])
    BY <1>4 DEF UpdateFields
  <2>2. Held(jobs[i]) => Held([jobs[i] EXCEPT !.repeatTimes = n, !.updatedAt = now])
    BY <1>0 DEF Held, JobRecord
  <2> QED
    BY <2>1, <2>2, UserOpSafe
<1>5. CASE Pause(i)
  <2>1. Held([jobs[i] EXCEPT !.enabled = FALSE, !.state = "paused", !.updatedAt = now])
    BY <1>0 DEF Held, JobRecord
  <2> QED
    BY <1>5, <2>1, UserOpSafe DEF Pause
<1>6. CASE Remove(i)
  <2>1. Held(AbsentJob)
    BY DEF Held, AbsentJob
  <2> QED
    BY <1>6, <2>1, UserOpSafe DEF Remove
<1>7. CASE \E t \in Ticks : ManualRun(t, i)
  <2>1. PICK t \in Ticks : ManualRun(t, i)
    BY <1>7
  <2>2. SetWorker(t, 1, NewRun(i, FALSE)) /\ jobs' = jobs
        /\ hist' = [hist EXCEPT ![i] = Begin(@, FALSE)]
    BY <2>1 DEF ManualRun
  <2>3. 1 \in Slots
    BY SchedulerAssumption DEF Slots
  <2>4. CASE j = i
    <3>1. hist'[i].disturbed
      BY <1>0, <2>2 DEF Begin, TypeOK, HistRecord
    <3> QED
      BY <2>4, <3>1, Zenon DEF Safe
  <2>5. CASE j # i
    <3>1. ~InRun(NewRun(i, FALSE), j)
      BY <2>5 DEF InRun, NewRun
    <3>2. hist'[j] = hist[j]
      BY <2>2, <2>5 DEF TypeOK
    <3> QED
      BY <2>2, <2>3, <3>1, <3>2, WorkerLeaves, NoNewRun
  <2> QED
    BY <2>4, <2>5
<1> QED
  BY <1>2, <1>3, <1>4, <1>5, <1>6, <1>7 DEF UserStep

\* The steps of a tick keep every job safe.
LEMMA TickStepSafe ==
    ASSUME TypeOK, NEW t \in Ticks, TickStep(t), NEW j \in Jobs, Safe(j)
    PROVE  Safe(j)'
<1>0. hist[j] \in HistRecord /\ jobs[j] \in JobRecord
  BY DEF TypeOK
<1>1. CASE ResetStaleRunning(t)
  <2>1. worker' = worker
    BY <1>1 DEF ResetStaleRunning
  <2>2. CASE ~Stale(jobs[j])
    <3>1. jobs'[j] = jobs[j] /\ hist'[j] = hist[j]
      BY <1>1, <2>2 DEF ResetStaleRunning
    <3> QED
      BY <2>1, <3>1, Untouched
  <2>3. CASE Stale(jobs[j])
    <3>1. hist'[j] = [hist[j] EXCEPT !.disturbed = @ \/ Going(j)]
      BY <1>1, <2>3 DEF ResetStaleRunning
    <3>2. hist'[j].disturbed \/ ~Going(j)
      BY <1>0, <3>1 DEF HistRecord
    <3>3. Going(j)' = Going(j)
      BY <2>1 DEF Going
    <3> QED
      BY <2>1, <3>2, <3>3, NoNewRun
  <2> QED
    BY <2>2, <2>3
<1>2. CASE GetDueJobs(t)
  <2>1. \A v \in Slots : ~InRun(worker'[t][v], j)
    BY <1>2 DEF GetDueJobs, TypeOK, InRun, IdleWorker, RunPhases
  <2>2. \A u \in Ticks, v \in Slots : InRun(worker'[u][v], j) => InRun(worker[u][v], j)
    <3> SUFFICES ASSUME NEW u \in Ticks, u # t PROVE worker'[u] = worker[u]
      BY <2>1
    <3> QED
      BY <1>2 DEF GetDueJobs, TypeOK
  <2>3. Held(jobs[j]) => Held(jobs'[j])
    BY <1>0, <1>2 DEF GetDueJobs, FastForward, Held, JobRecord, Claimable
  <2>4. hist' = hist
    BY <1>2 DEF GetDueJobs
  <2> QED
    BY <2>2, <2>3, <2>4, NoNewRun
<1>3. CASE ResetFails(t) \/ GetDueFails(t) \/ EndTick(t)
  BY <1>3, Untouched DEF ResetFails, GetDueFails, EndTick
<1> QED
  BY <1>1, <1>2, <1>3 DEF TickStep

\* A run that ends leaves no run of its job behind unless the history says so.
LEMMA RunEnds ==
    ASSUME TypeOK, NEW t \in Ticks, NEW w \in Slots, NEW counted \in BOOLEAN, NEW r,
           NEW i \in Jobs, InRun(worker[t][w], i), SetWorker(t, w, r),
           \A k \in Jobs : ~InRun(r, k),
           hist' = [hist EXCEPT ![i] = End(@, t, w, counted)],
           \A k \in Jobs : k # i => jobs'[k] = jobs[k],
           NEW j \in Jobs, Safe(j)
    PROVE  Safe(j)'
<1>0. hist[i] \in HistRecord
  BY DEF TypeOK
<1>1. \A u \in Ticks, v \in Slots : InRun(worker'[u][v], j) => InRun(worker[u][v], j)
  BY WorkerLeaves
<1>2. CASE j # i
  <2>1. jobs'[j] = jobs[j] /\ hist'[j] = hist[j]
    BY <1>2 DEF TypeOK
  <2> QED
    BY <1>1, <2>1, NoNewRun
<1>3. CASE j = i
  <2>1. Going(i)' => OthersGoing(t, w, i)
    <3> SUFFICES ASSUME NEW u \in Ticks, NEW v \in Slots, InRun(worker'[u][v], i)
                 PROVE  OthersGoing(t, w, i)
      BY DEF Going
    <3>1. worker'[t][w] = r
      BY DEF SetWorker, TypeOK
    <3>2. <<u, v>> # <<t, w>>
      BY <3>1
    <3> QED
      BY <1>1, <1>3, <3>2 DEF OthersGoing
  <2>2. worker[t][w].job = i
    BY DEF InRun
  <2>3. hist'[i].disturbed = (hist[i].disturbed /\ OthersGoing(t, w, i))
    BY <1>0, <2>2 DEF End, HistRecord, TypeOK
  <2>4. ~hist[i].disturbed => ~OthersGoing(t, w, i)
    BY <1>3 DEF Safe, Alone, OthersGoing
  <2>5. hist'[i].disturbed \/ ~Going(i)'
    BY <2>1, <2>3, <2>4, Zenon
  <2> QED
    BY <1>1, <1>3, <2>5, NoNewRun
<1> QED
  BY <1>2, <1>3

\* A claim gets through only if no run of the job is going on: the job was not
\* held.  It is held from then on.
LEMMA ClaimSafe ==
    ASSUME TypeOK, NEW t \in Ticks, NEW w \in Slots, ClaimDueJob(t, w),
           NEW j \in Jobs, Safe(j)
    PROVE  Safe(j)'
<1> DEFINE i == worker[t][w].job
<1>0. i \in Jobs /\ jobs[i] \in JobRecord /\ hist[i] \in HistRecord
  BY DEF ClaimDueJob, TypeOK, WorkerRecord, WorkerFields
<1>1. CASE Claimable(jobs[i]) /\ ~TooLate(jobs[i])
  <2>1. /\ jobs' = [jobs EXCEPT ![i] = Claimed(@)]
        /\ hist' = [hist EXCEPT ![i] = Begin(@, TRUE)]
        /\ SetWorker(t, w, NewRun(i, TRUE))
    BY <1>1 DEF ClaimDueJob
  <2>2. CASE j # i
    <3>1. ~InRun(NewRun(i, TRUE), j)
      BY <2>2 DEF InRun, NewRun
    <3>2. jobs'[j] = jobs[j] /\ hist'[j] = hist[j]
      BY <1>0, <2>1, <2>2 DEF TypeOK
    <3> QED
      BY <2>1, <3>1, <3>2, WorkerLeaves, NoNewRun
  <2>3. CASE j = i
    <3> SUFFICES ASSUME ~hist'[j].disturbed PROVE Alone(j)' /\ Held(jobs[j])'
      BY Zenon DEF Safe
    <3>1. ~hist[j].disturbed
      BY <1>0, <2>1, <2>3 DEF Begin, HistRecord, TypeOK
    <3>2. ~Held(jobs[j])
      BY <1>0, <1>1, <2>3 DEF Claimable, Held, JobRecord
    <3>3. ~Going(j)
      BY <3>1, <3>2, Zenon DEF Safe
    <3>4. \A u \in Ticks, v \in Slots : InRun(worker'[u][v], j) => u = t /\ v = w
      <4> SUFFICES ASSUME NEW u \in Ticks, NEW v \in Slots, ~(u = t /\ v = w)
                   PROVE  worker'[u][v] = worker[u][v]
        BY <3>3, Zenon DEF Going
      <4> QED
        BY <2>1 DEF SetWorker, TypeOK
    <3>5. Alone(j)'
      BY <3>4, Zenon DEF Alone
    <3>6. jobs'[j].state = "running"
      BY <1>0, <2>1, <2>3 DEF Claimed, JobRecord, TypeOK
    <3> QED
      BY <3>5, <3>6 DEF Held
  <2> QED
    BY <2>2, <2>3
<1>2. CASE ~(Claimable(jobs[i]) /\ ~TooLate(jobs[i]))
  <2>1. SetWorker(t, w, [IdleWorker EXCEPT !.pc = "next"]) /\ hist' = hist
    BY <1>2 DEF ClaimDueJob
  <2>2. ~InRun([IdleWorker EXCEPT !.pc = "next"], j)
    BY DEF InRun, IdleWorker, RunPhases
  <2>3. jobs' = jobs \/ jobs' = [jobs EXCEPT ![i] = FastForward(@)]
    BY <1>2 DEF ClaimDueJob
  <2>4. jobs'[j] = jobs[j] \/ jobs'[j] = FastForward(jobs[j])
    BY <1>0, <2>3 DEF TypeOK
  <2>5. jobs[j] \in JobRecord
    BY DEF TypeOK
  <2>6. Held(jobs[j]) => Held(jobs'[j])
    BY <2>4, <2>5 DEF FastForward, Held, JobRecord
  <2> QED
    BY <2>1, <2>2, <2>6, WorkerLeaves, NoNewRun
<1> QED
  BY <1>1, <1>2

\* The steps of a worker keep every job safe.
LEMMA RunStepSafe ==
    ASSUME TypeOK, NEW t \in Ticks, NEW w \in Slots, RunStep(t, w) \/ WorkerThrows(t, w),
           NEW j \in Jobs, Safe(j)
    PROVE  Safe(j)'
<1> DEFINE r == worker[t][w]
<1>0. r \in WorkerFields /\ (r.pc \notin {"idle", "next"} => r.job \in Jobs)
  BY DEF TypeOK, WorkerRecord
<1>1. CASE NextJob(t, w)
  <2>0. \A k : [IdleWorker EXCEPT !.pc = "claim", !.job = k].pc = "claim"
    BY DEF IdleWorker
  <2>1. PICK q : SetWorker(t, w, q) /\ q.pc \in {"claim", "idle"}
    <3>1. CASE SetWorker(t, w, IdleWorker)
      BY <3>1 DEF IdleWorker
    <3>2. CASE \E k \in Jobs : SetWorker(t, w, [IdleWorker EXCEPT !.pc = "claim", !.job = k])
      BY <2>0, <3>2, Zenon
    <3>3. tick[t].due \subseteq Jobs
      BY DEF TypeOK, TickRecord
    <3> QED
      BY <1>1, <3>1, <3>2, <3>3, Zenon DEF NextJob
  <2>2. ~InRun(q, j)
    BY <2>1 DEF InRun, RunPhases
  <2> QED
    BY <1>1, <2>1, <2>2, WorkerLeaves, NoNewRun DEF NextJob
<1>2. CASE ClaimDueJob(t, w)
  BY <1>2, ClaimSafe
<1>3. CASE ScriptDone(t, w) \/ AgentDone(t, w) \/ Deliver(t, w)
  <2>1. PICK q : SetWorker(t, w, q) /\ q.job = r.job /\ r.pc \in RunPhases
    BY <1>0, <1>3 DEF ScriptDone, AgentDone, Deliver, Advance, RunPhases, WorkerFields
  <2>2. InRun(q, j) => InRun(r, j)
    BY <2>1 DEF InRun
  <2>3. jobs' = jobs /\ hist' = hist
    BY <1>3 DEF ScriptDone, AgentDone, Deliver, Advance
  <2> QED
    BY <2>1, <2>2, <2>3, WorkerLeaves, NoNewRun
<1>4. CASE MarkRun(t, w)
  <2>1. InRun(r, r.job) /\ r.job \in Jobs
    BY <1>0, <1>4 DEF MarkRun, InRun, RunPhases
  <2> DEFINE q == [IdleWorker EXCEPT !.pc = "markDelivery", !.job = r.job,
                                     !.claimed = r.claimed]
  <2>2. SetWorker(t, w, q) /\ q.pc = "markDelivery"
    BY <1>4 DEF MarkRun, IdleWorker
  <2>3. \A k \in Jobs : ~InRun(q, k)
    BY <2>2 DEF InRun, RunPhases
  <2>4. hist' = [hist EXCEPT ![r.job] = End(@, t, w, TRUE)]
        /\ \A k \in Jobs : k # r.job => jobs'[k] = jobs[k]
    BY <1>4, <2>1 DEF MarkRun, TypeOK
  <2> QED
    BY <2>1, <2>2, <2>3, <2>4, RunEnds
<1>5. CASE MarkDelivery(t, w)
  <2>1. PICK q : SetWorker(t, w, q) /\ q.pc \in {"next", "idle"}
    BY <1>5 DEF MarkDelivery, IdleWorker
  <2>2. ~InRun(q, j)
    BY <2>1 DEF InRun, RunPhases
  <2>3. hist' = hist /\ jobs' = [jobs EXCEPT ![r.job].updatedAt = now] /\ jobs[j] \in JobRecord
    BY <1>5 DEF MarkDelivery, TypeOK
  <2>4. Held(jobs[j]) => Held(jobs'[j])
    BY <2>3 DEF Held, JobRecord, TypeOK
  <2> QED
    BY <2>1, <2>2, <2>3, <2>4, WorkerLeaves, NoNewRun
<1>6. CASE WorkerThrows(t, w)
  <2>1. SetWorker(t, w, IdleWorker) /\ jobs' = jobs
    BY <1>6 DEF WorkerThrows
  <2>2. \A k \in Jobs : ~InRun(IdleWorker, k)
    BY DEF InRun, IdleWorker, RunPhases
  <2>3. CASE r.pc \in RunPhases
    <3>1. InRun(r, r.job) /\ r.job \in Jobs
      BY <1>0, <2>3 DEF InRun, RunPhases
    <3>2. hist' = [hist EXCEPT ![r.job] = End(@, t, w, FALSE)]
      BY <1>6, <2>3 DEF WorkerThrows
    <3> QED
      BY <2>1, <2>2, <3>1, <3>2, RunEnds
  <2>4. CASE r.pc \notin RunPhases
    <3>1. hist' = hist
      BY <1>6, <2>4 DEF WorkerThrows
    <3> QED
      BY <2>1, <2>2, <3>1, WorkerLeaves, NoNewRun
  <2> QED
    BY <2>3, <2>4
<1> QED
  BY <1>1, <1>2, <1>3, <1>4, <1>5, <1>6 DEF RunStep

\* A crash ends runs and frees no job.
LEMMA CrashSafe ==
    ASSUME TypeOK, NEW p \in Procs, Crash(p), NEW j \in Jobs, Safe(j)
    PROVE  Safe(j)'
<1>0. hist[j] \in HistRecord
  BY DEF TypeOK
<1> DEFINE Rest == \E t \in Ticks \ TicksOf(p), w \in Slots : InRun(worker[t][w], j)
<1>1. \A u \in Ticks, v \in Slots :
        InRun(worker'[u][v], j) => u \notin TicksOf(p) /\ InRun(worker[u][v], j)
  BY ZenonT(60) DEF Crash, TypeOK, InRun, IdleWorker, RunPhases
<1>2. Going(j)' => Rest
  BY <1>1 DEF Going
<1>3. hist'[j].disturbed = (hist[j].disturbed /\ Rest)
  BY <1>0, ZenonT(60) DEF Crash, HistRecord
<1>4. jobs' = jobs
  BY DEF Crash
<1> HIDE DEF Rest
<1>5. hist'[j].disturbed \/ ~Going(j)' \/ ~hist[j].disturbed
  BY <1>2, <1>3, Zenon
<1> QED
  BY <1>1, <1>4, <1>5, NoNewRun

AllSafe == \A j \in Jobs : Safe(j)

\* Every step of the system keeps every job safe.
LEMMA NextSafe == TypeOK /\ AllSafe /\ [Next]_vars => AllSafe'
<1> SUFFICES ASSUME TypeOK, AllSafe, [Next]_vars, NEW j \in Jobs PROVE Safe(j)'
  BY DEF AllSafe
<1>0. Safe(j)
  BY DEF AllSafe
<1>1. CASE \E i \in Jobs : UserStep(i)
  BY <1>0, <1>1, UserStepSafe
<1>2. CASE \E t \in Ticks : TickStep(t)
  BY <1>0, <1>2, TickStepSafe
<1>3. CASE \E t \in Ticks, w \in Slots : RunStep(t, w) \/ WorkerThrows(t, w)
  BY <1>0, <1>3, RunStepSafe
<1>4. CASE \E p \in Procs : Crash(p)
  BY <1>0, <1>4, CrashSafe
<1>5. CASE \/ Tock \/ UNCHANGED vars
           \/ \E p \in Procs : Restart(p) \/ \E t \in Ticks : StartTick(p, t)
  <2>1. worker' = worker /\ jobs' = jobs /\ hist' = hist
    BY <1>5 DEF Tock, Restart, StartTick, vars
  <2> QED
    BY <1>0, <2>1, Untouched
<1> QED
  BY <1>1, <1>2, <1>3, <1>4, <1>5 DEF Next

\* Initially no run goes on.
LEMMA InitSafe == Init => AllSafe
  BY DEF Init, AllSafe, Safe, Alone, Going, InRun, IdleWorker, RunPhases

\* No two runs of a job overlap, and a job with a run cannot be claimed, for any
\* number of jobs, processes, ticks and workers, through crashes, rejected ticks
\* and user operations, unless somebody re-armed the job during the run.
THEOREM RunsDoNotOverlap == Spec => [](NoOverlap /\ HeldWhileRunning)
<1>1. AllSafe => NoOverlap /\ HeldWhileRunning
  BY DEF AllSafe, Safe, Alone, NoOverlap, HeldWhileRunning
<1> QED
  BY <1>1, InitSafe, NextSafe, TypeCorrect, PTL DEF Spec

-----------------------------------------------------------------------------
\* The records that runs, resets and claims write enable no disabled job.
LEMMA NothingEnables ==
    ASSUME TypeOK, NEW job \in JobRecord, ~job.enabled
    PROVE  /\ ~FastForward(job).enabled /\ ~AfterReset(job).enabled
           /\ \A status : ~AfterRun(job, status).enabled
           /\ ~Claimable(job)
           /\ \A n, k : ~[job EXCEPT !.repeatTimes = n, !.updatedAt = k].enabled
           /\ \A k : ~[job EXCEPT !.updatedAt = k].enabled
  BY DEF JobRecord, FastForward, AfterReset, AfterRun, Claimable

\* A user operation that leaves a disabled job disabled.
LEMMA UserOpDisabled ==
    ASSUME TypeOK, NEW i \in Jobs, NEW job, NEW h, UserOp(i, job, h),
           NEW j \in Jobs, ~jobs[j].enabled, i = j => ~job.enabled
    PROVE  ~jobs'[j].enabled
<1>1. jobs'[j] = IF i = j THEN job ELSE jobs[j]
  BY DEF UserOp, TypeOK
<1> QED
  BY <1>1

\* A job the user paused, or that reached its last run, is enabled by the
\* user only: no run that ends, stale reset, fast forward or claim from an old
\* due list does it, in any process.
LEMMA StepPauseSticks ==
    ASSUME TypeOK, [Next]_vars, NEW j \in Jobs,
           jobs[j].present, ~jobs[j].enabled, jobs'[j].enabled
    PROVE  Create(j) \/ Resume(j) \/ Trigger(j)
<1>0. jobs[j] \in JobRecord /\ jobs \in [Jobs -> JobRecord]
  BY DEF TypeOK
<1>1. CASE \E i \in Jobs : UserStep(i)
  <2>1. PICK i \in Jobs : UserStep(i)
    BY <1>1
  <2>2. CASE Create(i) \/ Resume(i) \/ Trigger(i)
    <3>1. i # j => jobs'[j] = jobs[j]
      BY <1>0, <2>2 DEF Create, Resume, Trigger, UserOp
    <3> QED
      BY <2>2, <3>1
  <2>3. CASE UpdateSchedule(i)
    <3> DEFINE q(s, n) == [jobs[i] EXCEPT !.schedule = s, !.repeatTimes = n,
                             !.nextRunAt = ParsedNextRun(s, now),
                             !.state = "pending", !.updatedAt = now]
    <3>1. PICK s, n : UserOp(i, q(s, n), Arm(hist[i], i))
      BY <2>3, Zenon DEF UpdateSchedule
    <3>2. q(s, n).enabled = jobs[i].enabled
      BY <1>0 DEF JobRecord
    <3> QED
      BY <3>1, <3>2, UserOpDisabled
  <2>4. CASE UpdateFields(i)
    BY <1>0, <2>4, NothingEnables, UserOpDisabled DEF UpdateFields
  <2>5. CASE Pause(i) \/ Remove(i)
    <3>1. ~AbsentJob.enabled /\ ~[jobs[i] EXCEPT !.enabled = FALSE, !.state = "paused",
                                                 !.updatedAt = now].enabled
      BY <1>0 DEF AbsentJob, JobRecord
    <3> QED
      BY <2>5, <3>1, UserOpDisabled DEF Pause, Remove
  <2>6. CASE \E t \in Ticks : ManualRun(t, i)
    BY <2>6 DEF ManualRun
  <2> QED
    BY <2>1, <2>2, <2>3, <2>4, <2>5, <2>6 DEF UserStep
<1>2. CASE \E t \in Ticks : TickStep(t)
  <2>1. jobs'[j] \in {jobs[j], AfterReset(jobs[j]), FastForward(jobs[j])}
    BY <1>2 DEF TickStep, ResetStaleRunning, ResetFails, GetDueJobs, GetDueFails, EndTick
  <2> QED
    BY <1>0, <2>1, NothingEnables
<1>3. CASE \E t \in Ticks, w \in Slots : RunStep(t, w) \/ WorkerThrows(t, w)
  <2>1. PICK t \in Ticks, w \in Slots : RunStep(t, w) \/ WorkerThrows(t, w)
    BY <1>3
  <2>2. CASE ClaimDueJob(t, w)
    <3>1. jobs'[j] = jobs[j] \/ jobs'[j] = FastForward(jobs[j]) \/ Claimable(jobs[j])
      BY <1>0, <2>2 DEF ClaimDueJob
    <3> QED
      BY <1>0, <3>1, NothingEnables
  <2>3. CASE MarkRun(t, w)
    <3>1. jobs'[j] = jobs[j] \/ \E status : jobs'[j] = AfterRun(jobs[j], status)
      BY <1>0, <2>3 DEF MarkRun
    <3> QED
      BY <1>0, <3>1, NothingEnables
  <2>4. CASE MarkDelivery(t, w)
    <3>1. jobs'[j].enabled = jobs[j].enabled
      BY <1>0, <2>4, SMTT(30) DEF MarkDelivery, JobRecord
    <3> QED
      BY <3>1
  <2>5. CASE ~ClaimDueJob(t, w) /\ ~MarkRun(t, w) /\ ~MarkDelivery(t, w)
    BY <2>1, <2>5, ZenonT(60) DEF RunStep, WorkerThrows, NextJob, ScriptDone, AgentDone, Deliver, Advance
  <2> QED
    BY <2>2, <2>3, <2>4, <2>5
<1>4. CASE \/ Tock \/ UNCHANGED vars
           \/ \E p \in Procs : Crash(p) \/ Restart(p) \/ \E t \in Ticks : StartTick(p, t)
  BY <1>4 DEF Tock, Crash, Restart, StartTick, vars
<1> QED
  BY <1>1, <1>2, <1>3, <1>4 DEF Next

\* Pausing a job holds until the user takes it back.
THEOREM PausesStick == Spec => PauseSticks
<1>1. TypeOK /\ [Next]_vars =>
        [\A j \in Jobs : jobs[j].present /\ ~jobs[j].enabled /\ jobs'[j].enabled
            => Create(j) \/ Resume(j) \/ Trigger(j)]_vars
  BY StepPauseSticks
<1> QED
  BY <1>1, TypeCorrect, PTL DEF Spec, PauseSticks

-----------------------------------------------------------------------------
\* OneShotOnce for one job, strengthened: one that fired is not enabled.
Once(j) == jobs[j].present /\ ~Repeats(jobs[j].schedule)
              => hist[j].fired <= 1 /\ (jobs[j].enabled => hist[j].fired = 0)

\* How the fields that Once speaks of may change in a step that is no claim.
Calmer(job, next) == /\ next.present => job.present
                     /\ next.schedule = job.schedule
                     /\ next.enabled => job.enabled

\* Claims counted anew, or none and no change but to a calmer job.
LEMMA OnceKept ==
    ASSUME TypeOK, NEW j \in Jobs, Once(j),
           \/ hist'[j].fired = 0
           \/ hist'[j].fired = hist[j].fired /\ Calmer(jobs[j], jobs'[j])
           \/ ~jobs'[j].present
    PROVE  Once(j)'
<1>1. CASE hist'[j].fired = 0
  BY <1>1 DEF Once
<1>2. CASE hist'[j].fired = hist[j].fired /\ Calmer(jobs[j], jobs'[j])
  BY <1>2 DEF Once, Calmer
<1>3. CASE ~jobs'[j].present
  BY <1>3, Zenon DEF Once
<1> QED
  BY <1>1, <1>2, <1>3

\* The records that ticks and runs write are calmer than what was there, and
\* the ends of runs and unclaimed runs count no claim.
LEMMA CalmerRecords ==
    ASSUME TypeOK, NEW job \in JobRecord, NEW h \in HistRecord
    PROVE  /\ Calmer(job, job) /\ Calmer(job, FastForward(job)) /\ Calmer(job, AfterReset(job))
           /\ \A status : Calmer(job, AfterRun(job, status))
           /\ \A k : Calmer(job, [job EXCEPT !.updatedAt = k])
           /\ \A n, k : Calmer(job, [job EXCEPT !.repeatTimes = n, !.updatedAt = k])
           /\ Calmer(job, [job EXCEPT !.enabled = FALSE, !.state = "paused", !.updatedAt = now])
           /\ Begin(h, FALSE).fired = h.fired
           /\ \A i : Arm(h, i).fired = 0
           /\ \A t \in Ticks, w \in Slots, c \in BOOLEAN : End(h, t, w, c).fired = h.fired
<1>1. Calmer(job, job) /\ Calmer(job, FastForward(job)) /\ Calmer(job, AfterReset(job))
  BY DEF Calmer, JobRecord, FastForward, AfterReset
<1>2. \A status : Calmer(job, AfterRun(job, status))
  BY DEF Calmer, JobRecord, AfterRun
<1>3. /\ \A k : Calmer(job, [job EXCEPT !.updatedAt = k])
      /\ \A n, k : Calmer(job, [job EXCEPT !.repeatTimes = n, !.updatedAt = k])
      /\ Calmer(job, [job EXCEPT !.enabled = FALSE, !.state = "paused", !.updatedAt = now])
  BY DEF Calmer, JobRecord
<1>4. Begin(h, FALSE).fired = h.fired /\ \A i : Arm(h, i).fired = 0
  BY DEF Begin, Arm, HistRecord
<1>5. \A t \in Ticks, w \in Slots, c \in BOOLEAN : End(h, t, w, c).fired = h.fired
  BY DEF End, HistRecord
<1> QED
  BY <1>1, <1>2, <1>3, <1>4, <1>5

\* A user's operation keeps Once: it arms the job anew or only calms it.
LEMMA UserOnce ==
    ASSUME TypeOK, NEW i \in Jobs, UserStep(i), NEW j \in Jobs, Once(j)
    PROVE  Once(j)'
<1>0. /\ jobs[j] \in JobRecord /\ hist[j] \in HistRecord
      /\ jobs \in [Jobs -> JobRecord] /\ hist \in [Jobs -> HistRecord]
  BY SMTT(30) DEF TypeOK
<1>a. Calmer(jobs[j], jobs[j]) /\ Arm(hist[j], j).fired = 0 /\ Begin(hist[j], FALSE).fired = hist[j].fired
  BY <1>0, CalmerRecords
<1>1. CASE Create(i)
  <2>1. (hist'[j] = hist[j] /\ jobs'[j] = jobs[j]) \/ hist'[j].fired = 0
    BY <1>0, <1>1 DEF Create, UserOp
  <2> QED
    BY <1>a, <2>1, OnceKept
<1>2. CASE UpdateSchedule(i) \/ Resume(i) \/ Trigger(i)
  <2>1. (hist'[j] = hist[j] /\ jobs'[j] = jobs[j]) \/ hist'[j] = Arm(hist[j], j)
    BY <1>0, <1>2 DEF UpdateSchedule, Resume, Trigger, UserOp
  <2> QED
    BY <1>a, <2>1, OnceKept
<1>3. CASE UpdateFields(i)
  <2>1. PICK n \in Limits :
          UserOp(i, [jobs[i] EXCEPT !.repeatTimes = n, !.updatedAt = now], hist[i])
    BY <1>3, Zenon DEF UpdateFields
  <2>2. hist'[j] = hist[j] /\ (jobs'[j] = jobs[j] \/
          jobs'[j] = [jobs[j] EXCEPT !.repeatTimes = n, !.updatedAt = now])
    BY <1>0, <2>1 DEF UserOp
  <2>3. Calmer(jobs[j], [jobs[j] EXCEPT !.repeatTimes = n, !.updatedAt = now])
    BY <1>0, CalmerRecords
  <2>4. Calmer(jobs[j], jobs'[j])
    BY <1>a, <2>2, <2>3
  <2> QED
    BY <2>2, <2>4, OnceKept
<1>p. CASE Pause(i)
  <2>1. hist'[j] = hist[j] /\ (jobs'[j] = jobs[j] \/
          jobs'[j] = [jobs[j] EXCEPT !.enabled = FALSE, !.state = "paused", !.updatedAt = now])
    BY <1>0, <1>p DEF Pause, UserOp
  <2>2. Calmer(jobs[j], [jobs[j] EXCEPT !.enabled = FALSE, !.state = "paused", !.updatedAt = now])
    BY <1>0, CalmerRecords
  <2>3. Calmer(jobs[j], jobs'[j])
    BY <1>a, <2>1, <2>2
  <2> QED
    BY <2>1, <2>3, OnceKept
<1>4. CASE Remove(i)
  <2>1. (hist'[j] = hist[j] /\ jobs'[j] = jobs[j]) \/ ~jobs'[j].present
    BY <1>0, <1>4 DEF Remove, UserOp, AbsentJob
  <2> QED
    BY <1>a, <2>1, OnceKept
<1>5. CASE \E t \in Ticks : ManualRun(t, i)
  <2>1. jobs' = jobs /\ (hist'[j] = hist[j] \/ hist'[j] = Begin(hist[j], FALSE))
    BY <1>0, <1>5 DEF ManualRun
  <2> QED
    BY <1>a, <2>1, OnceKept
<1> QED
  BY <1>1, <1>2, <1>3, <1>p, <1>4, <1>5 DEF UserStep

\* A worker's step keeps Once; the claim is the step it is about.
LEMMA RunOnce ==
    ASSUME TypeOK, NEW t \in Ticks, NEW w \in Slots, RunStep(t, w) \/ WorkerThrows(t, w),
           NEW j \in Jobs, Once(j)
    PROVE  Once(j)'
<1>0. /\ jobs[j] \in JobRecord /\ hist[j] \in HistRecord
      /\ jobs \in [Jobs -> JobRecord] /\ hist \in [Jobs -> HistRecord]
  BY DEF TypeOK
<1>a. Calmer(jobs[j], jobs[j]) /\ \A c \in BOOLEAN : End(hist[j], t, w, c).fired = hist[j].fired
  BY <1>0, CalmerRecords
<1>1. CASE ClaimDueJob(t, w) /\ jobs'[j] = Claimed(jobs[j]) /\ Claimable(jobs[j])
           /\ hist'[j] = Begin(hist[j], TRUE)
  <2>1. jobs[j].present /\ jobs[j].enabled
    BY <1>1 DEF Claimable
  <2>2. jobs'[j].schedule = jobs[j].schedule /\ jobs'[j].enabled = Repeats(jobs[j].schedule)
        /\ hist'[j].fired = hist[j].fired + 1
    BY <1>0, <1>1 DEF Claimed, Begin, JobRecord, HistRecord
  <2> QED
    BY <1>0, <2>1, <2>2 DEF Once, HistRecord
<1>2. CASE ClaimDueJob(t, w) /\ hist'[j] = hist[j]
           /\ (jobs'[j] = jobs[j] \/ jobs'[j] = FastForward(jobs[j]))
  BY <1>0, <1>2, OnceKept, CalmerRecords, ZenonT(60)
<1>3. CASE MarkRun(t, w)
  <2>1. jobs'[j] = jobs[j] \/ \E status : jobs'[j] = AfterRun(jobs[j], status)
    BY <1>0, <1>3 DEF MarkRun
  <2>2. hist'[j] = hist[j] \/ hist'[j] = End(hist[j], t, w, TRUE)
    BY <1>0, <1>3 DEF MarkRun
  <2>3. \A status : Calmer(jobs[j], AfterRun(jobs[j], status))
    BY <1>0, CalmerRecords
  <2>4. Calmer(jobs[j], jobs'[j])
    BY <1>a, <2>1, <2>3, Zenon
  <2> QED
    BY <1>a, <2>2, <2>4, OnceKept
<1>4. CASE MarkDelivery(t, w)
  <2>1. jobs'[j] = jobs[j] \/ jobs'[j] = [jobs[j] EXCEPT !.updatedAt = now]
    BY <1>0, <1>4 DEF MarkDelivery
  <2>2. hist' = hist
    BY <1>4 DEF MarkDelivery
  <2>3. \A k : Calmer(jobs[j], [jobs[j] EXCEPT !.updatedAt = k])
    BY <1>0, CalmerRecords
  <2>4. Calmer(jobs[j], jobs'[j])
    BY <1>a, <2>1, <2>3, Zenon
  <2> QED
    BY <2>2, <2>4, OnceKept
<1>5. CASE WorkerThrows(t, w)
  <2>1. jobs' = jobs /\ (hist'[j] = hist[j] \/ hist'[j] = End(hist[j], t, w, FALSE))
    BY <1>0, <1>5 DEF WorkerThrows
  <2> QED
    BY <1>a, <2>1, OnceKept
<1>6. CASE NextJob(t, w) \/ ScriptDone(t, w) \/ AgentDone(t, w) \/ Deliver(t, w)
  <2>1. jobs' = jobs /\ hist' = hist
    BY <1>6 DEF NextJob, ScriptDone, AgentDone, Deliver, Advance
  <2> QED
    BY <1>0, <2>1, OnceKept, CalmerRecords
<1>7. ClaimDueJob(t, w) =>
        \/ jobs'[j] = Claimed(jobs[j]) /\ Claimable(jobs[j]) /\ hist'[j] = Begin(hist[j], TRUE)
        \/ hist'[j] = hist[j] /\ (jobs'[j] = jobs[j] \/ jobs'[j] = FastForward(jobs[j]))
  BY <1>0 DEF ClaimDueJob
<1> QED
  BY <1>1, <1>2, <1>3, <1>4, <1>5, <1>6, <1>7 DEF RunStep

AllOnce == \A j \in Jobs : Once(j)

\* Every step of the system keeps Once.
LEMMA NextOnce == TypeOK /\ AllOnce /\ [Next]_vars => AllOnce'
<1> SUFFICES ASSUME TypeOK, AllOnce, [Next]_vars, NEW j \in Jobs PROVE Once(j)'
  BY DEF AllOnce
<1>0. Once(j) /\ jobs[j] \in JobRecord /\ hist[j] \in HistRecord
  BY DEF AllOnce, TypeOK
<1>1. CASE \E i \in Jobs : UserStep(i)
  BY <1>0, <1>1, UserOnce
<1>2. CASE \E t \in Ticks : TickStep(t)
  <2>1. jobs'[j] \in {jobs[j], AfterReset(jobs[j]), FastForward(jobs[j])}
    BY <1>2 DEF TickStep, ResetStaleRunning, ResetFails, GetDueJobs, GetDueFails, EndTick
  <2>2. hist'[j].fired = hist[j].fired
    BY <1>0, <1>2 DEF TickStep, ResetStaleRunning, ResetFails, GetDueJobs, GetDueFails, EndTick,
                      HistRecord
  <2> QED
    BY <1>0, <2>1, <2>2, OnceKept, CalmerRecords, ZenonT(60)
<1>3. CASE \E t \in Ticks, w \in Slots : RunStep(t, w) \/ WorkerThrows(t, w)
  BY <1>0, <1>3, RunOnce
<1>4. CASE \E p \in Procs : Crash(p)
  <2>1. jobs' = jobs /\ hist'[j].fired = hist[j].fired
    BY <1>0, <1>4, ZenonT(60) DEF Crash, HistRecord
  <2> QED
    BY <1>0, <2>1, OnceKept, CalmerRecords, ZenonT(60)
<1>5. CASE \/ Tock \/ UNCHANGED vars
           \/ \E p \in Procs : Restart(p) \/ \E t \in Ticks : StartTick(p, t)
  <2>1. jobs' = jobs /\ hist' = hist
    BY <1>5 DEF Tock, Restart, StartTick, vars
  <2> QED
    BY <1>0, <2>1, OnceKept, CalmerRecords
<1> QED
  BY <1>1, <1>2, <1>3, <1>4, <1>5 DEF Next

\* A one-shot job fires at most once each time a user arms it, for all constants.
THEOREM OneShotsFireOnce == Spec => []OneShotOnce
<1>1. Init => AllOnce
  BY DEF Init, AllOnce, Once, AbsentJob
<1>2. AllOnce => OneShotOnce
  BY DEF AllOnce, Once, OneShotOnce
<1> QED
  BY <1>1, <1>2, NextOnce, TypeCorrect, PTL DEF Spec

-----------------------------------------------------------------------------
(* Every run is accounted for *)

\* The runs of j as it is now, not of a removed job of the same name.
Live(j) == {tw \in Ticks \X Slots : /\ InRun(worker[tw[1]][tw[2]], j)
                                    /\ worker[tw[1]][tw[2]].gen = hist[j].gen}

\* A tick has workers only while it works.
Parked == \A t \in Ticks : tick[t].phase # "work" => \A w \in Slots : worker[t][w].pc = "idle"

\* The inductive form of RunsAccounted and RunningIsOwned: no run is of a later
\* incarnation than its job, and a running job has, or lost, a run of its own.
Accounted(j) ==
    /\ \A t \in Ticks, w \in Slots : InRun(worker[t][w], j) => worker[t][w].gen <= hist[j].gen
    /\ jobs[j].present =>
          jobs[j].completedRuns + hist[j].lost + Cardinality(Live(j)) = hist[j].begun + hist[j].strays
    /\ jobs[j].present /\ jobs[j].state = "running" =>
          hist[j].lost > 0 \/ \E tw \in Live(j) : worker[tw[1]][tw[2]].claimed
AllAccounted == Parked /\ \A j \in Jobs : Accounted(j)

\* The runs of j go on as they are, perhaps in their next phase.
SameRuns(j) ==
    \A t \in Ticks, w \in Slots :
        /\ InRun(worker'[t][w], j) <=> InRun(worker[t][w], j)
        /\ InRun(worker[t][w], j) => /\ worker'[t][w].gen = worker[t][w].gen
                                     /\ worker'[t][w].claimed = worker[t][w].claimed

\* The counters of j stay, and the job is not marked as running.
SameCounts(j) ==
    /\ hist'[j].gen = hist[j].gen /\ hist'[j].lost = hist[j].lost
    /\ hist'[j].begun = hist[j].begun /\ hist'[j].strays = hist[j].strays
    /\ jobs'[j].present =>
         /\ jobs[j].present /\ jobs'[j].completedRuns = jobs[j].completedRuns
         /\ jobs'[j].state = "running" => jobs[j].state = "running"

LEMMA LiveFinite ==
    ASSUME NEW j
    PROVE  IsFiniteSet(Live(j)) /\ Cardinality(Live(j)) \in Nat
<1>1. IsFiniteSet(Ticks) /\ IsFiniteSet(Slots)
  BY SchedulerAssumption, FS_Interval DEF Slots
<1>2. IsFiniteSet(Ticks \X Slots)
  BY <1>1, FS_Product
<1>3. IsFiniteSet(Live(j))
  BY <1>2, FS_Subset DEF Live
<1> QED
  BY <1>3, FS_CardinalityType

\* A step that neither begins nor ends a run of j keeps its accounts.
LEMMA EvenStep ==
    ASSUME NEW j \in Jobs, Accounted(j), SameRuns(j), SameCounts(j)
    PROVE  Accounted(j)'
<1>1. Live(j)' = Live(j)
  BY DEF Live, SameRuns, SameCounts
<1>2. \A t \in Ticks, w \in Slots : InRun(worker'[t][w], j) => worker'[t][w].gen <= hist'[j].gen
  BY DEF Accounted, SameRuns, SameCounts
<1>3. \A tw \in Live(j) : worker'[tw[1]][tw[2]].claimed = worker[tw[1]][tw[2]].claimed
  BY DEF Live, SameRuns
<1>4. jobs'[j].present =>
          jobs'[j].completedRuns + hist'[j].lost + Cardinality(Live(j)') = hist'[j].begun + hist'[j].strays
  BY <1>1 DEF Accounted, SameCounts
<1>5. jobs'[j].present /\ jobs'[j].state = "running" =>
          hist'[j].lost > 0 \/ \E tw \in Live(j)' : worker'[tw[1]][tw[2]].claimed
  BY <1>1, <1>3 DEF Accounted, SameCounts
<1> QED
  BY <1>2, <1>4, <1>5 DEF Accounted

\* One worker's record is replaced.
LEMMA OneWorker ==
    ASSUME TypeOK, NEW t \in Ticks, NEW w \in Slots, NEW r, SetWorker(t, w, r)
    PROVE  \A u \in Ticks, v \in Slots :
               worker'[u][v] = IF u = t /\ v = w THEN r ELSE worker[u][v]
  BY DEF TypeOK, SetWorker

LEMMA OneWorkerSame ==
    ASSUME TypeOK, NEW t \in Ticks, NEW w \in Slots, NEW r, SetWorker(t, w, r), NEW j \in Jobs,
           \/ ~InRun(r, j) /\ ~InRun(worker[t][w], j)
           \/ /\ InRun(r, j) /\ InRun(worker[t][w], j)
              /\ r.gen = worker[t][w].gen /\ r.claimed = worker[t][w].claimed
    PROVE  SameRuns(j)
  BY OneWorker DEF SameRuns

\* A run of j begins: there is one more of the current incarnation.
LEMMA BeginAccounted ==
    ASSUME TypeOK, NEW t \in Ticks, NEW w \in Slots, NEW j \in Jobs, NEW b \in BOOLEAN,
           Accounted(j), ~InRun(worker[t][w], j), jobs[j].present,
           SetWorker(t, w, NewRun(j, b)),
           hist'[j].gen = hist[j].gen, hist'[j].lost = hist[j].lost,
           hist'[j].strays = hist[j].strays, hist'[j].begun = hist[j].begun + 1,
           jobs'[j].completedRuns = jobs[j].completedRuns,
           b \/ (jobs'[j].state = "running" => jobs[j].state = "running")
    PROVE  Accounted(j)'
<1>0. hist[j] \in HistRecord /\ jobs[j] \in JobRecord
  BY DEF TypeOK
<1>1. /\ InRun(NewRun(j, b), j) /\ NewRun(j, b).gen = hist[j].gen /\ NewRun(j, b).claimed = b
  BY DEF NewRun, InRun, FirstPhase, RunPhases
<1>2. Live(j)' = Live(j) \cup {<<t, w>>} /\ <<t, w>> \notin Live(j)
  BY <1>1, OneWorker DEF Live
<1>3. Cardinality(Live(j)') = Cardinality(Live(j)) + 1
  <2>1. IsFiniteSet(Live(j))
    BY LiveFinite
  <2>2. Cardinality(Live(j) \cup {<<t, w>>})
          = IF <<t, w>> \in Live(j) THEN Cardinality(Live(j)) ELSE Cardinality(Live(j)) + 1
    BY <2>1, FS_AddElement, Zenon
  <2> QED
    BY <1>2, <2>2
<1>4. \A u \in Ticks, v \in Slots : InRun(worker'[u][v], j) => worker'[u][v].gen <= hist'[j].gen
  <2>1. hist[j].gen <= hist[j].gen
    BY <1>0 DEF HistRecord
  <2> QED
    BY <1>1, <2>1, OneWorker DEF Accounted
<1>5. jobs'[j].completedRuns + hist'[j].lost + Cardinality(Live(j)') = hist'[j].begun + hist'[j].strays
  <2>1. jobs[j].completedRuns + hist[j].lost + Cardinality(Live(j)) = hist[j].begun + hist[j].strays
    BY DEF Accounted
  <2>2. /\ jobs[j].completedRuns \in Nat /\ hist[j].lost \in Nat /\ hist[j].begun \in Nat
        /\ hist[j].strays \in Nat /\ Cardinality(Live(j)) \in Nat
    BY <1>0, LiveFinite DEF HistRecord, JobRecord
  <2> QED
    BY <1>3, <2>1, <2>2
<1>6. jobs'[j].state = "running" =>
          hist'[j].lost > 0 \/ \E tw \in Live(j)' : worker'[tw[1]][tw[2]].claimed
  <2>1. CASE b
    <3>1. <<t, w>> \in Live(j)' /\ worker'[t][w].claimed
      BY <1>1, <1>2, <2>1, OneWorker, ZenonT(60)
    <3> QED
      BY <3>1
  <2>2. CASE ~b
    <3>1. \A tw \in Live(j) : tw \in Live(j)' /\ worker'[tw[1]][tw[2]] = worker[tw[1]][tw[2]]
      BY <1>2, OneWorker DEF Live
    <3> QED
      BY <2>2, <3>1 DEF Accounted
  <2> QED
    BY <2>1, <2>2
<1> QED
  BY <1>4, <1>5, <1>6 DEF Accounted

\* A run of job i ends and is counted, or not: the accounts of i take note.
LEMMA EndAccounted ==
    ASSUME TypeOK, NEW t \in Ticks, NEW w \in Slots, NEW i \in Jobs, NEW counted \in BOOLEAN,
           Accounted(i), InRun(worker[t][w], i), NEW r, SetWorker(t, w, r), ~InRun(r, i),
           hist'[i] = End(hist[i], t, w, counted),
           jobs'[i].present => jobs[i].present,
           IF counted THEN /\ jobs'[i].completedRuns = jobs[i].completedRuns + 1
                           /\ jobs'[i].state # "running"
                      ELSE jobs'[i] = jobs[i]
    PROVE  Accounted(i)'
<1>0. hist[i] \in HistRecord /\ jobs[i] \in JobRecord
  BY DEF TypeOK
<1>1. /\ hist'[i].gen = hist[i].gen /\ hist'[i].begun = hist[i].begun
      /\ hist'[i].lost = IF ~counted /\ worker[t][w].gen = hist[i].gen THEN hist[i].lost + 1
                         ELSE hist[i].lost
      /\ hist'[i].strays = IF counted /\ worker[t][w].gen # hist[i].gen THEN hist[i].strays + 1
                           ELSE hist[i].strays
  BY <1>0 DEF End, HistRecord
<1>2. Live(i)' = Live(i) \ {<<t, w>>}
  BY <1>1, OneWorker DEF Live
<1>3. <<t, w>> \in Live(i) <=> worker[t][w].gen = hist[i].gen
  BY DEF Live
<1>4. Cardinality(Live(i)') = IF worker[t][w].gen = hist[i].gen THEN Cardinality(Live(i)) - 1
                              ELSE Cardinality(Live(i))
  <2>1. IsFiniteSet(Live(i))
    BY LiveFinite
  <2>2. Cardinality(Live(i) \ {<<t, w>>}) = IF <<t, w>> \in Live(i) THEN Cardinality(Live(i)) - 1
                                            ELSE Cardinality(Live(i))
    BY <2>1, FS_RemoveElement, Zenon
  <2> QED
    BY <1>2, <1>3, <2>2, Zenon
<1>5. \A u \in Ticks, v \in Slots : InRun(worker'[u][v], i) => worker'[u][v].gen <= hist'[i].gen
  BY <1>1, OneWorker DEF Accounted
<1>6. jobs'[i].present =>
        jobs'[i].completedRuns + hist'[i].lost + Cardinality(Live(i)') = hist'[i].begun + hist'[i].strays
  <2>1. jobs[i].present =>
          jobs[i].completedRuns + hist[i].lost + Cardinality(Live(i)) = hist[i].begun + hist[i].strays
    BY DEF Accounted
  <2>2. /\ jobs[i].completedRuns \in Nat /\ hist[i].lost \in Nat /\ hist[i].begun \in Nat
        /\ hist[i].strays \in Nat /\ Cardinality(Live(i)) \in Nat
    BY <1>0, LiveFinite DEF HistRecord, JobRecord
  <2>3. CASE counted
    BY <1>1, <1>4, <2>1, <2>2, <2>3
  <2>4. CASE ~counted
    BY <1>1, <1>4, <2>1, <2>2, <2>4
  <2> QED
    BY <2>3, <2>4
<1>7. jobs'[i].present /\ jobs'[i].state = "running" =>
          hist'[i].lost > 0 \/ \E tw \in Live(i)' : worker'[tw[1]][tw[2]].claimed
  <2> SUFFICES ASSUME jobs'[i].present, jobs'[i].state = "running"
               PROVE  hist'[i].lost > 0 \/ \E tw \in Live(i)' : worker'[tw[1]][tw[2]].claimed
    OBVIOUS
  <2>1. ~counted /\ jobs'[i] = jobs[i]
    OBVIOUS
  <2>2. hist[i].lost > 0 \/ \E tw \in Live(i) : worker[tw[1]][tw[2]].claimed
    BY <2>1 DEF Accounted
  <2>3. CASE worker[t][w].gen = hist[i].gen
    BY <1>0, <1>1, <2>1, <2>3 DEF HistRecord
  <2>4. CASE worker[t][w].gen # hist[i].gen
    <3>1. \A tw \in Live(i) : tw \in Live(i)' /\ worker'[tw[1]][tw[2]] = worker[tw[1]][tw[2]]
      BY <1>2, <1>3, <2>4, OneWorker DEF Live
    <3>2. hist'[i].lost = hist[i].lost
      BY <1>1, <2>4
    <3>3. CASE \E tw \in Live(i) : worker[tw[1]][tw[2]].claimed
      BY <3>1, <3>3
    <3> QED
      BY <2>2, <3>2, <3>3
  <2> QED
    BY <2>3, <2>4
<1> QED
  BY <1>5, <1>6, <1>7 DEF Accounted

\* The user's operations: a new job begins with empty accounts, the others leave them.
LEMMA UserAccounted ==
    ASSUME TypeOK, AllAccounted, NEW i \in Jobs, UserStep(i), NEW j \in Jobs
    PROVE  Accounted(j)'
<1>0. hist[i] \in HistRecord /\ jobs[i] \in JobRecord /\ Accounted(j)
  BY DEF TypeOK, AllAccounted
<1>1. CASE \E t \in Ticks : ManualRun(t, i)
  <2>1. PICK t \in Ticks : ManualRun(t, i)
    BY <1>1
  <2>2. /\ SetWorker(t, 1, NewRun(i, FALSE)) /\ jobs' = jobs /\ jobs[i].present
        /\ hist' = [hist EXCEPT ![i] = Begin(@, FALSE)] /\ tick[t].phase = "free"
    BY <2>1 DEF ManualRun
  <2>3. 1 \in Slots
    BY SchedulerAssumption DEF Slots
  <2>4. \A k \in Jobs : ~InRun(worker[t][1], k)
    BY <2>2, <2>3 DEF AllAccounted, Parked, InRun, RunPhases
  <2>5. CASE j = i
    <3>1. /\ hist'[i].gen = hist[i].gen /\ hist'[i].lost = hist[i].lost
          /\ hist'[i].strays = hist[i].strays /\ hist'[i].begun = hist[i].begun + 1
      BY <1>0, <2>2 DEF TypeOK, Begin, HistRecord
    <3> QED
      BY <1>0, <2>2, <2>3, <2>4, <2>5, <3>1, BeginAccounted
  <2>6. CASE j # i
    <3>1. ~InRun(NewRun(i, FALSE), j)
      BY <2>6 DEF InRun, NewRun
    <3>2. SameRuns(j)
      BY <2>2, <2>3, <2>4, <3>1, OneWorkerSame
    <3>3. SameCounts(j)
      BY <2>2, <2>6 DEF SameCounts, TypeOK
    <3> QED
      BY <1>0, <3>2, <3>3, EvenStep
  <2> QED
    BY <2>5, <2>6
<1>2. CASE Create(i)
  <2>1. PICK s \in Schedules, n \in Limits :
          /\ ~jobs[i].present
          /\ UserOp(i, [present |-> TRUE, schedule |-> s, repeatTimes |-> n,
                  completedRuns |-> 0, enabled |-> TRUE, state |-> "pending",
                  nextRunAt |-> ParsedNextRun(s, now), updatedAt |-> now],
              [gen |-> hist[i].gen + 1, fired |-> 0, begun |-> 0, lost |-> 0,
               strays |-> 0, disturbed |-> Going(i)])
    BY <1>2 DEF Create
  <2>2. worker' = worker
    BY <2>1 DEF UserOp
  <2>3. CASE j # i
    <3>1. SameRuns(j) /\ SameCounts(j)
      BY <2>1, <2>2, <2>3 DEF SameRuns, SameCounts, UserOp, TypeOK
    <3> QED
      BY <1>0, <3>1, EvenStep
  <2>4. CASE j = i
    <3>1. /\ jobs'[i].completedRuns = 0 /\ jobs'[i].state = "pending"
          /\ hist'[i].gen = hist[i].gen + 1 /\ hist'[i].lost = 0 /\ hist'[i].begun = 0
          /\ hist'[i].strays = 0
      BY <2>1 DEF UserOp, TypeOK
    <3>2. \A t \in Ticks, w \in Slots : worker[t][w].gen \in Nat
      BY DEF TypeOK, WorkerRecord, WorkerFields
    <3>3. \A t \in Ticks, w \in Slots :
            InRun(worker[t][w], i) => worker[t][w].gen <= hist[i].gen
      BY <1>0, <2>4 DEF Accounted
    <3>4. \A t \in Ticks, w \in Slots :
            InRun(worker'[t][w], i) => worker'[t][w].gen < hist'[i].gen
      BY <1>0, <2>2, <3>1, <3>2, <3>3 DEF HistRecord
    <3>5. Live(i)' = {}
      <4>1. \A t \in Ticks, w \in Slots :
              ~(InRun(worker'[t][w], i) /\ worker'[t][w].gen = hist'[i].gen)
        BY <1>0, <2>2, <3>1, <3>2, <3>4 DEF HistRecord
      <4> QED
        BY <4>1 DEF Live
    <3>6. \A t \in Ticks, w \in Slots :
            InRun(worker'[t][w], i) => worker'[t][w].gen <= hist'[i].gen
      BY <1>0, <2>2, <3>1, <3>2, <3>4 DEF HistRecord
    <3>7. Cardinality(Live(i)') = 0
      BY <3>5, FS_EmptySet
    <3> QED
      BY <2>4, <3>1, <3>6, <3>7 DEF Accounted
  <2> QED
    BY <2>3, <2>4
<1>3. CASE UpdateSchedule(i) \/ UpdateFields(i) \/ Pause(i) \/ Resume(i) \/ Remove(i) \/ Trigger(i)
  <2>1. worker' = worker
    BY <1>3 DEF UpdateSchedule, UpdateFields, Pause, Resume, Remove, Trigger, UserOp
  <2>2. SameRuns(j)
    BY <2>1 DEF SameRuns
  <2>3. \A k \in Jobs : k # i => jobs'[k] = jobs[k] /\ hist'[k] = hist[k]
    BY <1>3 DEF UpdateSchedule, UpdateFields, Pause, Resume, Remove, Trigger, UserOp, TypeOK
  <2>4. /\ hist'[i].gen = hist[i].gen /\ hist'[i].lost = hist[i].lost
        /\ hist'[i].begun = hist[i].begun /\ hist'[i].strays = hist[i].strays
    <3>1. hist'[i] = hist[i] \/ hist'[i] = Arm(hist[i], i)
      BY <1>3 DEF UpdateSchedule, UpdateFields, Pause, Resume, Remove, Trigger, UserOp, TypeOK
    <3> QED
      BY <1>0, <3>1 DEF Arm, HistRecord
  <2>5. jobs'[i].present => /\ jobs[i].present /\ jobs'[i].completedRuns = jobs[i].completedRuns
                            /\ jobs'[i].state = "running" => jobs[i].state = "running"
    <3>1. CASE UpdateSchedule(i)
      BY <1>0, <3>1 DEF UpdateSchedule, UserOp, TypeOK, JobRecord
    <3>2. CASE UpdateFields(i)
      BY <1>0, <3>2 DEF UpdateFields, UserOp, TypeOK, JobRecord
    <3>3. CASE Pause(i)
      BY <1>0, <3>3 DEF Pause, UserOp, TypeOK, JobRecord
    <3>4. CASE Resume(i)
      BY <1>0, <3>4 DEF Resume, UserOp, TypeOK, JobRecord
    <3>5. CASE Trigger(i)
      BY <1>0, <3>5 DEF Trigger, UserOp, TypeOK, JobRecord
    <3>6. CASE Remove(i)
      BY <3>6 DEF Remove, UserOp, TypeOK, AbsentJob
    <3> QED
      BY <1>3, <3>1, <3>2, <3>3, <3>4, <3>5, <3>6
  <2>6. SameCounts(j)
    BY <2>3, <2>4, <2>5 DEF SameCounts
  <2> QED
    BY <1>0, <2>2, <2>6, EvenStep, SMTT(30)
<1> QED
  BY <1>1, <1>2, <1>3 DEF UserStep

LEMMA TickAccounted ==
    ASSUME TypeOK, AllAccounted, NEW t \in Ticks, TickStep(t), NEW j \in Jobs
    PROVE  Accounted(j)'
<1>0. hist[j] \in HistRecord /\ jobs[j] \in JobRecord /\ Accounted(j)
  BY DEF TypeOK, AllAccounted
<1>1. SameCounts(j)
  <2>1. CASE ResetStaleRunning(t)
    <3>1. hist'[j] = hist[j] \/ hist'[j] = [hist[j] EXCEPT !.disturbed = @ \/ Going(j)]
      BY <2>1 DEF ResetStaleRunning
    <3>2. jobs'[j] = jobs[j] \/ jobs'[j] = AfterReset(jobs[j])
      BY <2>1 DEF ResetStaleRunning
    <3>3. /\ hist'[j].gen = hist[j].gen /\ hist'[j].lost = hist[j].lost
          /\ hist'[j].begun = hist[j].begun /\ hist'[j].strays = hist[j].strays
      BY <1>0, <3>1 DEF HistRecord
    <3>4. jobs'[j].present = jobs[j].present /\ jobs'[j].completedRuns = jobs[j].completedRuns
          /\ (jobs'[j].state = "running" => jobs[j].state = "running")
      BY <1>0, <3>2 DEF AfterReset, JobRecord
    <3> QED
      BY <3>3, <3>4 DEF SameCounts
  <2>2. CASE GetDueJobs(t)
    <3>1. hist' = hist /\ (jobs'[j] = jobs[j] \/ jobs'[j] = FastForward(jobs[j]))
      BY <2>2 DEF GetDueJobs
    <3> QED
      BY <1>0, <3>1 DEF SameCounts, FastForward, JobRecord
  <2>3. CASE ResetFails(t) \/ GetDueFails(t) \/ EndTick(t)
    BY <2>3 DEF ResetFails, GetDueFails, EndTick, SameCounts
  <2> QED
    BY <2>1, <2>2, <2>3 DEF TickStep
<1>2. SameRuns(j)
  <2>1. CASE GetDueJobs(t)
    <3>1. \A v \in Slots : ~InRun(worker'[t][v], j)
      BY <2>1 DEF GetDueJobs, TypeOK, InRun, IdleWorker, RunPhases
    <3>2. \A v \in Slots : ~InRun(worker[t][v], j)
      BY <2>1 DEF GetDueJobs, AllAccounted, Parked, InRun, RunPhases
    <3>3. \A u \in Ticks : u # t => worker'[u] = worker[u]
      BY <2>1 DEF GetDueJobs, TypeOK
    <3> QED
      BY <3>1, <3>2, <3>3 DEF SameRuns
  <2>2. CASE ResetStaleRunning(t) \/ ResetFails(t) \/ GetDueFails(t) \/ EndTick(t)
    BY <2>2 DEF ResetStaleRunning, ResetFails, GetDueFails, EndTick, SameRuns
  <2> QED
    BY <2>1, <2>2 DEF TickStep
<1> QED
  BY <1>0, <1>1, <1>2, EvenStep

\* A worker begins, moves on or ends a run of one job and leaves the others alone.
LEMMA RunAccounted ==
    ASSUME TypeOK, AllAccounted, NEW t \in Ticks, NEW w \in Slots,
           RunStep(t, w) \/ WorkerThrows(t, w), NEW j \in Jobs
    PROVE  Accounted(j)'
<1> DEFINE r == worker[t][w]
<1>0. /\ r \in WorkerFields /\ (r.pc \notin {"idle", "next"} => r.job \in Jobs)
      /\ hist[j] \in HistRecord /\ jobs[j] \in JobRecord /\ Accounted(j)
  BY DEF TypeOK, WorkerRecord, AllAccounted
<1>i. \A pc, k, b : /\ pc \notin RunPhases =>
                          /\ ~InRun([IdleWorker EXCEPT !.pc = pc], j)
                          /\ ~InRun([IdleWorker EXCEPT !.pc = pc, !.job = k], j)
                          /\ ~InRun([IdleWorker EXCEPT !.pc = pc, !.job = k, !.claimed = b], j)
                    /\ ~InRun(IdleWorker, j)
  BY DEF InRun, IdleWorker, RunPhases
<1>p. {"idle", "next", "claim", "markDelivery"} \cap RunPhases = {}
  BY DEF RunPhases
<1>1. CASE NextJob(t, w)
  <2>1. jobs' = jobs /\ hist' = hist /\ ~InRun(r, j)
    BY <1>1, <1>p, ZenonT(60) DEF NextJob, InRun
  <2>2. SameRuns(j)
    BY <1>1, <1>i, <1>p, <2>1, OneWorkerSame DEF NextJob
  <2> QED
    BY <1>0, <2>1, <2>2, EvenStep DEF SameCounts
<1>2. CASE ClaimDueJob(t, w)
  <2>1. ~InRun(r, j) /\ r.job \in Jobs
    BY <1>0, <1>2, <1>p DEF ClaimDueJob, InRun
  <2>2. CASE Claimable(jobs[r.job]) /\ ~TooLate(jobs[r.job])
    <3>1. /\ jobs' = [jobs EXCEPT ![r.job] = Claimed(@)]
          /\ hist' = [hist EXCEPT ![r.job] = Begin(@, TRUE)]
          /\ SetWorker(t, w, NewRun(r.job, TRUE))
      BY <1>2, <2>2 DEF ClaimDueJob
    <3>2. CASE j = r.job
      <4>1. /\ hist'[j].gen = hist[j].gen /\ hist'[j].lost = hist[j].lost
            /\ hist'[j].strays = hist[j].strays /\ hist'[j].begun = hist[j].begun + 1
        BY <1>0, <3>1, <3>2 DEF TypeOK, Begin, HistRecord
      <4>2. jobs'[j].completedRuns = jobs[j].completedRuns /\ jobs[j].present
        BY <1>0, <2>2, <3>1, <3>2 DEF TypeOK, Claimed, JobRecord, Claimable
      <4> QED
        BY <1>0, <2>1, <3>1, <3>2, <4>1, <4>2, BeginAccounted
    <3>3. CASE j # r.job
      <4>1. ~InRun(NewRun(r.job, TRUE), j)
        BY <3>3 DEF InRun, NewRun
      <4>2. SameRuns(j)
        BY <2>1, <3>1, <4>1, OneWorkerSame
      <4>3. SameCounts(j)
        BY <2>1, <3>1, <3>3 DEF SameCounts, TypeOK
      <4> QED
        BY <1>0, <4>2, <4>3, EvenStep
    <3> QED
      BY <3>2, <3>3
  <2>3. CASE ~(Claimable(jobs[r.job]) /\ ~TooLate(jobs[r.job]))
    <3>1. SetWorker(t, w, [IdleWorker EXCEPT !.pc = "next"]) /\ hist' = hist
      BY <1>2, <2>3 DEF ClaimDueJob
    <3>2. jobs'[j] = jobs[j] \/ jobs'[j] = FastForward(jobs[j])
      BY <1>2, <2>1, <2>3 DEF ClaimDueJob, TypeOK
    <3>3. SameRuns(j)
      BY <1>i, <1>p, <2>1, <3>1, OneWorkerSame
    <3>4. SameCounts(j)
      BY <1>0, <3>1, <3>2 DEF SameCounts, FastForward, JobRecord
    <3> QED
      BY <1>0, <3>3, <3>4, EvenStep
  <2> QED
    BY <2>2, <2>3
<1>3. CASE ScriptDone(t, w) \/ AgentDone(t, w)
  <2>1. PICK pc, s : pc \in RunPhases /\ Advance(t, w, pc, s)
    BY <1>3 DEF ScriptDone, AgentDone, RunPhases
  <2>2. r.pc \in RunPhases
    BY <1>3 DEF ScriptDone, AgentDone, RunPhases
  <2> DEFINE n == [r EXCEPT !.pc = pc, !.since = now, !.status = s]
  <2>3. n.pc = pc /\ n.job = r.job /\ n.gen = r.gen /\ n.claimed = r.claimed
    BY <1>0 DEF WorkerFields
  <2>4. SetWorker(t, w, n) /\ jobs' = jobs /\ hist' = hist
    BY <2>1 DEF Advance
  <2> HIDE DEF n
  <2>5. SameRuns(j)
    BY <2>1, <2>2, <2>3, <2>4, OneWorkerSame DEF InRun
  <2> QED
    BY <1>0, <2>4, <2>5, EvenStep DEF SameCounts
<1>4. CASE Deliver(t, w)
  <2> DEFINE n == [r EXCEPT !.pc = "mark"]
  <2>1. n.pc = "mark" /\ n.job = r.job /\ n.gen = r.gen /\ n.claimed = r.claimed
    BY <1>0 DEF WorkerFields
  <2>2. SetWorker(t, w, n) /\ jobs' = jobs /\ hist' = hist /\ r.pc \in RunPhases
    BY <1>4 DEF Deliver, RunPhases
  <2> HIDE DEF n
  <2>3. SameRuns(j)
    BY <2>1, <2>2, OneWorkerSame DEF InRun, RunPhases
  <2> QED
    BY <1>0, <2>2, <2>3, EvenStep DEF SameCounts
<1>5. CASE MarkRun(t, w)
  <2>1. r.job \in Jobs /\ InRun(r, r.job) /\ r.status \in {"success", "failed"}
    BY <1>0, <1>5 DEF MarkRun, InRun, RunPhases, WorkerFields
  <2>2. /\ jobs' = [jobs EXCEPT ![r.job] = AfterRun(@, r.status)] /\ jobs[r.job].present
        /\ hist' = [hist EXCEPT ![r.job] = End(@, t, w, TRUE)]
        /\ SetWorker(t, w, [IdleWorker EXCEPT !.pc = "markDelivery", !.job = r.job,
                                              !.claimed = r.claimed])
    BY <1>5, SMTT(30) DEF MarkRun
  <2>3. CASE j = r.job
    <3>1. jobs'[j] = AfterRun(jobs[j], r.status)
      BY <2>1, <2>2, <2>3 DEF TypeOK
    <3>2. jobs'[j].completedRuns = jobs[j].completedRuns + 1 /\ jobs'[j].state # "running"
      BY <1>0, <2>1, <3>1 DEF AfterRun, JobRecord
    <3>3. hist'[j] = End(hist[j], t, w, TRUE)
      BY <2>1, <2>2, <2>3 DEF TypeOK
    <3> QED
      BY <1>0, <1>i, <1>p, <2>1, <2>2, <2>3, <3>2, <3>3, EndAccounted
  <2>4. CASE j # r.job
    <3>1. ~InRun(r, j)
      BY <2>4 DEF InRun
    <3>2. SameRuns(j)
      BY <1>i, <1>p, <2>2, <3>1, OneWorkerSame
    <3>3. SameCounts(j)
      BY <2>1, <2>2, <2>4 DEF SameCounts, TypeOK
    <3> QED
      BY <1>0, <3>2, <3>3, EvenStep
  <2> QED
    BY <2>3, <2>4
<1>6. CASE MarkDelivery(t, w)
  <2>1. hist' = hist /\ ~InRun(r, j) /\ r.job \in Jobs
    BY <1>0, <1>6, <1>p, SMTT(30) DEF MarkDelivery, InRun
  <2>2. SameRuns(j)
    BY <1>6, <1>i, <1>p, <2>1, OneWorkerSame DEF MarkDelivery
  <2>3. SameCounts(j)
    BY <1>0, <1>6, <2>1 DEF MarkDelivery, SameCounts, TypeOK, JobRecord
  <2> QED
    BY <1>0, <2>2, <2>3, EvenStep
<1>7. CASE WorkerThrows(t, w)
  <2>1. SetWorker(t, w, IdleWorker) /\ jobs' = jobs /\ r.job \in Jobs
    BY <1>0, <1>7 DEF WorkerThrows
  <2>2. CASE InRun(r, j)
    <3>1. hist'[j] = End(hist[j], t, w, FALSE)
      BY <1>7, <2>1, <2>2 DEF WorkerThrows, InRun, TypeOK
    <3> QED
      BY <1>0, <1>i, <2>1, <2>2, <3>1, EndAccounted
  <2>3. CASE ~InRun(r, j)
    <3>1. hist'[j] = hist[j]
      BY <1>7, <2>1, <2>3 DEF WorkerThrows, InRun, TypeOK
    <3>2. SameRuns(j)
      BY <1>i, <2>1, <2>3, OneWorkerSame
    <3> QED
      BY <1>0, <2>1, <3>1, <3>2, EvenStep DEF SameCounts
  <2> QED
    BY <2>2, <2>3
<1> QED
  BY <1>1, <1>2, <1>3, <1>4, <1>5, <1>6, <1>7 DEF RunStep

\* The runs of a process that dies are lost, those of the others go on.
LEMMA CrashAccounted ==
    ASSUME TypeOK, NEW p \in Procs, Crash(p), NEW j \in Jobs, Accounted(j)
    PROVE  Accounted(j)'
<1>0. hist[j] \in HistRecord /\ jobs[j] \in JobRecord /\ jobs' = jobs
  BY ZenonT(60) DEF TypeOK, Crash
<1> DEFINE gone == {tw \in RunsOf(p, j) : worker[tw[1]][tw[2]].gen = hist[j].gen}
<1>1. \A u \in Ticks, v \in Slots :
        /\ u \in TicksOf(p) => ~InRun(worker'[u][v], j)
        /\ u \notin TicksOf(p) => worker'[u][v] = worker[u][v]
  BY ZenonT(60) DEF Crash, TypeOK, InRun, IdleWorker, RunPhases
<1>2. /\ hist'[j].gen = hist[j].gen /\ hist'[j].begun = hist[j].begun
      /\ hist'[j].strays = hist[j].strays /\ hist'[j].lost = hist[j].lost + Cardinality(gone)
  <2> DEFINE rest == \E t \in Ticks \ TicksOf(p), w \in Slots : InRun(worker[t][w], j)
  <2>1. hist'[j] = [hist[j] EXCEPT !.lost = @ + Cardinality(gone), !.disturbed = @ /\ rest]
    BY DEF Crash
  <2> HIDE DEF gone, rest
  <2> QED
    BY <1>0, <2>1 DEF HistRecord
<1>3. gone \subseteq Live(j) /\ Live(j)' = Live(j) \ gone
  BY <1>1, <1>2 DEF Live, RunsOf, TicksOf
<1> HIDE DEF gone
<1>4. IsFiniteSet(Live(j)) /\ Cardinality(Live(j)) \in Nat
  BY LiveFinite
<1>5. IsFiniteSet(gone) /\ Cardinality(gone) \in Nat
  BY <1>3, <1>4, FS_Subset, FS_CardinalityType
<1>6. Cardinality(Live(j)') = Cardinality(Live(j)) - Cardinality(gone)
  <2>1. Cardinality(Live(j) \ gone) = Cardinality(Live(j)) - Cardinality(Live(j) \cap gone)
    BY <1>4, FS_Difference
  <2>2. Live(j) \cap gone = gone
    BY <1>3
  <2> QED
    BY <1>3, <2>1, <2>2
<1>7. \A u \in Ticks, v \in Slots : InRun(worker'[u][v], j) => worker'[u][v].gen <= hist'[j].gen
  BY <1>1, <1>2 DEF Accounted
<1>8. jobs'[j].present =>
        jobs'[j].completedRuns + hist'[j].lost + Cardinality(Live(j)') = hist'[j].begun + hist'[j].strays
  <2>1. jobs[j].present =>
          jobs[j].completedRuns + hist[j].lost + Cardinality(Live(j)) = hist[j].begun + hist[j].strays
    BY DEF Accounted
  <2>2. /\ jobs[j].completedRuns \in Nat /\ hist[j].lost \in Nat /\ hist[j].begun \in Nat
        /\ hist[j].strays \in Nat
    BY <1>0 DEF HistRecord, JobRecord
  <2> QED
    BY <1>0, <1>2, <1>4, <1>5, <1>6, <2>1, <2>2
<1>9. jobs'[j].present /\ jobs'[j].state = "running" =>
          hist'[j].lost > 0 \/ \E tw \in Live(j)' : worker'[tw[1]][tw[2]].claimed
  <2> SUFFICES ASSUME jobs[j].present, jobs[j].state = "running"
               PROVE  hist'[j].lost > 0 \/ \E tw \in Live(j)' : worker'[tw[1]][tw[2]].claimed
    BY <1>0
  <2>1. hist[j].lost > 0 \/ \E tw \in Live(j) : worker[tw[1]][tw[2]].claimed
    BY DEF Accounted
  <2>2. CASE hist[j].lost > 0
    BY <1>0, <1>2, <1>5, <2>2 DEF HistRecord
  <2>3. CASE gone # {}
    <3>1. Cardinality(gone) # 0
      BY <1>5, <2>3, FS_EmptySet
    <3> QED
      BY <1>0, <1>2, <1>5, <3>1 DEF HistRecord
  <2>4. CASE gone = {} /\ \E tw \in Live(j) : worker[tw[1]][tw[2]].claimed
    <3>1. PICK tw \in Live(j) : worker[tw[1]][tw[2]].claimed
      BY <2>4
    <3>2. tw \in Live(j)'
      BY <1>3, <2>4
    <3>3. tw[1] \in Ticks /\ tw[2] \in Slots /\ InRun(worker'[tw[1]][tw[2]], j)
      BY <3>2 DEF Live
    <3>4. worker'[tw[1]][tw[2]] = worker[tw[1]][tw[2]]
      BY <1>1, <3>3
    <3> QED
      BY <3>1, <3>2, <3>4
  <2> QED
    BY <2>1, <2>2, <2>3, <2>4
<1> QED
  BY <1>7, <1>8, <1>9, SMTT(30) DEF Accounted

\* Workers are put to work together with their tick, and it ends after them.
LEMMA NextParked == TypeOK /\ Parked /\ [Next]_vars => Parked'
<1> SUFFICES ASSUME TypeOK, Parked, [Next]_vars, NEW u \in Ticks, tick'[u].phase # "work",
                    NEW v \in Slots
             PROVE  worker'[u][v].pc = "idle"
  BY DEF Parked
<1>0. IdleWorker.pc = "idle"
  BY DEF IdleWorker
<1>1. CASE tick'[u].phase = tick[u].phase /\ worker'[u][v] = worker[u][v]
  BY <1>1 DEF Parked
<1>2. CASE UNCHANGED vars \/ Tock \/ \E p \in Procs : Restart(p)
  BY <1>1, <1>2 DEF vars, Tock, Restart
<1>3. ASSUME NEW j \in Jobs, UserStep(j) PROVE worker'[u][v].pc = "idle"
  <2>1. CASE \E t \in Ticks : ManualRun(t, j)
    <3>1. PICK t \in Ticks : ManualRun(t, j)
      BY <2>1
    <3>2. u # t
      BY <3>1 DEF ManualRun, TypeOK, TickRecord
    <3> QED
      BY <1>1, <3>1, <3>2 DEF ManualRun, SetWorker, TypeOK
  <2>2. CASE ~\E t \in Ticks : ManualRun(t, j)
    BY <1>1, <1>3, <2>2, ZenonT(60) DEF UserStep, Create, UpdateSchedule, UpdateFields, Pause, Resume,
                            Remove, Trigger, UserOp
  <2> QED
    BY <2>1, <2>2
<1>4. ASSUME NEW p \in Procs, Crash(p) PROVE worker'[u][v].pc = "idle"
  <2>1. CASE u \in TicksOf(p)
    BY <1>0, <1>4, <2>1, ZenonT(60) DEF Crash
  <2>2. CASE u \notin TicksOf(p)
    BY <1>1, <1>4, <2>2 DEF Crash
  <2> QED
    BY <2>1, <2>2
<1>5. ASSUME NEW p \in Procs, NEW t \in Ticks, StartTick(p, t) PROVE worker'[u][v].pc = "idle"
  <2>1. tick[u].phase # "work" /\ worker' = worker
    BY <1>5 DEF StartTick, TypeOK
  <2> QED
    BY <2>1 DEF Parked
<1>6. ASSUME NEW t \in Ticks, TickStep(t) PROVE worker'[u][v].pc = "idle"
  <2>1. CASE GetDueJobs(t)
    <3>1. u # t
      BY <1>6, <2>1 DEF GetDueJobs, TypeOK, TickRecord
    <3> QED
      BY <1>1, <2>1, <3>1 DEF GetDueJobs, TypeOK
  <2>2. CASE ResetStaleRunning(t) \/ ResetFails(t) \/ GetDueFails(t)
    <3>1. tick[u].phase # "work" /\ worker' = worker
      BY <2>2, SMTT(30) DEF ResetStaleRunning, ResetFails, GetDueFails, TypeOK, TickRecord
    <3> QED
      BY <3>1 DEF Parked
  <2>3. CASE EndTick(t)
    BY <1>1, <2>3 DEF EndTick, TypeOK
  <2> QED
    BY <1>6, <2>1, <2>2, <2>3 DEF TickStep
<1>7. ASSUME NEW t \in Ticks, NEW w \in Slots, RunStep(t, w) \/ WorkerThrows(t, w)
      PROVE  worker'[u][v].pc = "idle"
  <2>1. worker[t][w].pc # "idle"
    BY <1>7 DEF RunStep, NextJob, ClaimDueJob, ScriptDone, AgentDone, Deliver, MarkRun,
                MarkDelivery, WorkerThrows
  <2>2. tick[t].phase = "work"
    BY <2>1 DEF Parked
  <2>3. tick'[u].phase = tick[u].phase
    <3>1. CASE NextJob(t, w)
      <4>1. tick' = tick \/ \E d : tick' = [tick EXCEPT ![t].due = d]
        BY <3>1 DEF NextJob
      <4> QED
        BY <4>1 DEF TypeOK, TickRecord
    <3>2. CASE ~NextJob(t, w)
      BY <1>7, <3>2 DEF RunStep, ClaimDueJob, ScriptDone, AgentDone, Advance, Deliver, MarkRun,
                        MarkDelivery, WorkerThrows
    <3> QED
      BY <3>1, <3>2
  <2>4. PICK r : SetWorker(t, w, r)
    BY <1>7 DEF RunStep, NextJob, ClaimDueJob, ScriptDone, AgentDone, Advance, Deliver, MarkRun,
                MarkDelivery, WorkerThrows
  <2>5. u # t
    BY <2>2, <2>3
  <2>6. worker'[u][v] = worker[u][v]
    BY <2>4, <2>5, OneWorker
  <2> QED
    BY <1>1, <2>3, <2>6
<1> QED
  BY <1>2, <1>3, <1>4, <1>5, <1>6, <1>7 DEF Next

LEMMA NextAccounted == TypeOK /\ AllAccounted /\ [Next]_vars => AllAccounted'
<1> SUFFICES ASSUME TypeOK, AllAccounted, [Next]_vars, NEW j \in Jobs PROVE Accounted(j)'
  BY NextParked DEF AllAccounted
<1>0. Accounted(j)
  BY DEF AllAccounted
<1>1. CASE \E i \in Jobs : UserStep(i)
  BY <1>1, UserAccounted
<1>2. CASE \E t \in Ticks : TickStep(t)
  BY <1>2, TickAccounted
<1>3. CASE \E t \in Ticks, w \in Slots : RunStep(t, w) \/ WorkerThrows(t, w)
  BY <1>3, RunAccounted
<1>4. CASE \E p \in Procs : Crash(p)
  BY <1>0, <1>4, CrashAccounted
<1>5. CASE \/ Tock \/ UNCHANGED vars
           \/ \E p \in Procs : Restart(p) \/ \E t \in Ticks : StartTick(p, t)
  <2>1. worker' = worker /\ jobs' = jobs /\ hist' = hist
    BY <1>5 DEF Tock, Restart, StartTick, vars
  <2>2. SameRuns(j) /\ SameCounts(j)
    BY <2>1 DEF SameRuns, SameCounts
  <2> QED
    BY <1>0, <2>2, EvenStep
<1> QED
  BY <1>1, <1>2, <1>3, <1>4, <1>5 DEF Next

LEMMA InitAccounted == Init => AllAccounted
<1> SUFFICES ASSUME Init PROVE AllAccounted
  OBVIOUS
<1>1. \A t \in Ticks, w \in Slots : worker[t][w].pc = "idle"
  BY DEF Init, IdleWorker
<1>2. \A j \in Jobs : ~jobs[j].present
  BY DEF Init, AbsentJob
<1> QED
  BY <1>1, <1>2 DEF AllAccounted, Parked, Accounted, InRun, RunPhases

\* Every run that was begun is going on, is counted in completedRuns exactly once, or
\* was cut off, for any number of jobs, processes, ticks and workers: no crash, failing
\* store call, removal or re-creation makes markRun count a run twice or forget one.
THEOREM RunsAreAccountedFor == Spec => []RunsAccounted
<1>1. AllAccounted => RunsAccounted
  BY DEF AllAccounted, Accounted, Live, RunsAccounted
<1> QED
  BY <1>1, InitAccounted, NextAccounted, TypeCorrect, PTL DEF Spec

\* A job shown as running has a claimed run going on, or has lost one: no order of
\* claims, ends, edits, resets and crashes leaves a finished job marked as running
\* (claimDueJob, markRun).
THEOREM RunningJobsAreOwned == Spec => []RunningIsOwned
<1>1. AllAccounted => RunningIsOwned
  BY DEF AllAccounted, Accounted, Live, ClaimedRuns, RunningIsOwned
<1> QED
  BY <1>1, InitAccounted, NextAccounted, TypeCorrect, PTL DEF Spec

-----------------------------------------------------------------------------
(* The stale reset finds crashed runs only *)

\* The longest a run of j can still take in phase pc, and in all.
Remaining(j, pc) ==
    CASE pc = "script" -> IF j \in NoAgentJobs THEN ScriptTimeout + DeliveryTime
                          ELSE ScriptTimeout + AgentTimeout + DeliveryTime
      [] pc = "agent"  -> AgentTimeout + DeliveryTime
      [] OTHER         -> DeliveryTime
Whole(j) == Remaining(j, FirstPhase(j))

\* The timeouts leave room: no run takes as long as the stale threshold.
Covered == \A j \in Jobs : Whole(j) < StaleThreshold

\* A run keeps to the time limits of its phases, and the job of a claimed run, if it is
\* still there, was written at the claim or later.
RunTimed(r, store, time) ==
    /\ r.start <= r.since /\ r.since <= time /\ time <= r.since + TimeLimit(r.pc)
    /\ r.since + Remaining(r.job, r.pc) <= r.start + Whole(r.job)
    /\ r.claimed /\ store[r.job].present => r.start <= store[r.job].updatedAt
Timed == \A t \in Ticks, w \in Slots :
             worker[t][w].pc \in RunPhases => RunTimed(worker[t][w], jobs, now)

LEMMA TimeTypes ==
    ASSUME NEW j, NEW pc
    PROVE  /\ TimeLimit(pc) \in Nat /\ Remaining(j, pc) \in Nat
           /\ TimeLimit(pc) <= Remaining(j, pc) /\ Whole(j) \in Nat
  BY SchedulerAssumption DEF TimeLimit, Remaining, Whole, FirstPhase

\* Whatever writes a job writes the current time, or removes it.
LEMMA JobsDated ==
    ASSUME TypeOK, [Next]_vars, NEW j \in Jobs
    PROVE  \/ jobs'[j] = jobs[j]
           \/ jobs'[j].updatedAt = now
           \/ jobs'[j] = AbsentJob
<1>0. jobs[j] \in JobRecord
  BY DEF TypeOK
<1>1. ASSUME NEW i \in Jobs, UserStep(i)
      PROVE  jobs'[j] = jobs[j] \/ jobs'[j].updatedAt = now \/ jobs'[j] = AbsentJob
  <2>1. CASE j # i
    BY <1>1, <2>1 DEF UserStep, Create, UpdateSchedule, UpdateFields, Pause, Resume, Remove,
                      Trigger, ManualRun, UserOp, TypeOK
  <2>3. CASE j = i /\ Create(i)
    BY <2>3 DEF Create, UserOp, TypeOK
  <2>4. CASE j = i /\ (UpdateSchedule(i) \/ UpdateFields(i) \/ Pause(i) \/ Resume(i) \/ Trigger(i))
    <3>5. CASE UpdateSchedule(i)
      <4>1. PICK s \in Schedules, n \in Limits :
              UserOp(i, [jobs[i] EXCEPT !.schedule = s, !.repeatTimes = n,
                                        !.nextRunAt = ParsedNextRun(s, now),
                                        !.state = "pending", !.updatedAt = now],
                     Arm(hist[i], i))
        BY <3>5 DEF UpdateSchedule
      <4>2. [jobs[i] EXCEPT !.schedule = s, !.repeatTimes = n, !.nextRunAt = ParsedNextRun(s, now),
                            !.state = "pending", !.updatedAt = now].updatedAt = now
        BY <1>0, <2>4 DEF JobRecord
      <4> QED
        BY <2>4, <4>1, <4>2 DEF UserOp, TypeOK
    <3>6. CASE UpdateFields(i)
      <4>1. PICK n \in Limits : UserOp(i, [jobs[i] EXCEPT !.repeatTimes = n, !.updatedAt = now], hist[i])
        BY <3>6 DEF UpdateFields
      <4>2. [jobs[i] EXCEPT !.repeatTimes = n, !.updatedAt = now].updatedAt = now
        BY <1>0, <2>4 DEF JobRecord
      <4> QED
        BY <2>4, <4>1, <4>2 DEF UserOp, TypeOK
    <3>7. CASE Pause(i)
      <4>1. UserOp(i, [jobs[i] EXCEPT !.enabled = FALSE, !.state = "paused", !.updatedAt = now], hist[i])
        BY <3>7 DEF Pause
      <4>2. [jobs[i] EXCEPT !.enabled = FALSE, !.state = "paused", !.updatedAt = now].updatedAt = now
        BY <1>0, <2>4 DEF JobRecord
      <4> QED
        BY <2>4, <4>1, <4>2 DEF UserOp, TypeOK
    <3>8. CASE Resume(i) \/ Trigger(i)
      <4>1. \E x : UserOp(i, [jobs[i] EXCEPT !.enabled = TRUE, !.state = "pending", !.nextRunAt = x,
                                             !.updatedAt = now], Arm(hist[i], i))
        BY <3>8 DEF Resume, Trigger
      <4>2. PICK x : UserOp(i, [jobs[i] EXCEPT !.enabled = TRUE, !.state = "pending", !.nextRunAt = x,
                                              !.updatedAt = now], Arm(hist[i], i))
        BY <4>1
      <4>3. [jobs[i] EXCEPT !.enabled = TRUE, !.state = "pending", !.nextRunAt = x,
                            !.updatedAt = now].updatedAt = now
        BY <1>0, <2>4 DEF JobRecord
      <4> QED
        BY <2>4, <4>2, <4>3 DEF UserOp, TypeOK
    <3> QED
      BY <2>4, <3>5, <3>6, <3>7, <3>8
  <2>5. CASE j = i /\ (Remove(i) \/ \E t \in Ticks : ManualRun(t, i))
    BY <2>5 DEF Remove, ManualRun, UserOp, TypeOK
  <2> QED
    BY <1>1, <2>1, <2>3, <2>4, <2>5 DEF UserStep
<1>2. ASSUME NEW t \in Ticks, TickStep(t) PROVE jobs'[j] = jobs[j] \/ jobs'[j].updatedAt = now
  <2>1. \/ jobs'[j] = jobs[j] \/ jobs'[j] = AfterReset(jobs[j]) \/ jobs'[j] = FastForward(jobs[j])
    BY <1>2 DEF TickStep, ResetStaleRunning, ResetFails, GetDueJobs, GetDueFails, EndTick
  <2> QED
    BY <1>0, <2>1 DEF AfterReset, FastForward, JobRecord
<1>3. ASSUME NEW t \in Ticks, NEW w \in Slots, RunStep(t, w) \/ WorkerThrows(t, w)
      PROVE  jobs'[j] = jobs[j] \/ jobs'[j].updatedAt = now
  <2>0. worker[t][w].pc \notin {"idle", "next"} => worker[t][w].job \in Jobs
    BY DEF TypeOK, WorkerRecord
  <2>1. CASE ClaimDueJob(t, w)
    <3>1. jobs'[j] = jobs[j] \/ jobs'[j] = Claimed(jobs[j]) \/ jobs'[j] = FastForward(jobs[j])
      BY <2>0, <2>1 DEF ClaimDueJob, TypeOK
    <3> QED
      BY <1>0, <3>1 DEF Claimed, FastForward, JobRecord
  <2>2. CASE MarkRun(t, w)
    <3>1. jobs'[j] = jobs[j] \/ \E s : jobs'[j] = AfterRun(jobs[j], s)
      BY <2>0, <2>2 DEF MarkRun, TypeOK
    <3> QED
      BY <1>0, <3>1 DEF AfterRun, JobRecord
  <2>3. CASE MarkDelivery(t, w)
    BY <1>0, <2>0, <2>3, SMTT(30) DEF MarkDelivery, TypeOK, JobRecord
  <2>4. CASE NextJob(t, w) \/ ScriptDone(t, w) \/ AgentDone(t, w) \/ Deliver(t, w) \/ WorkerThrows(t, w)
    BY <2>4, ZenonT(60) DEF NextJob, ScriptDone, AgentDone, Advance, Deliver, WorkerThrows
  <2> QED
    BY <1>3, <2>1, <2>2, <2>3, <2>4 DEF RunStep
<1>4. ASSUME \/ Tock \/ UNCHANGED vars \/ \E p \in Procs : Crash(p) \/ Restart(p)
             \/ \E p \in Procs, t \in Ticks : StartTick(p, t)
      PROVE  jobs' = jobs
  BY <1>4 DEF Tock, Crash, Restart, StartTick, vars
<1> QED
  BY <1>1, <1>2, <1>3, <1>4 DEF Next

LEMMA JobType == ASSUME TypeOK, NEW j \in Jobs PROVE jobs[j] \in JobRecord /\ jobs[j].updatedAt \in Nat
  BY DEF TypeOK, JobRecord

LEMMA WorkerType ==
    ASSUME TypeOK, NEW t \in Ticks, NEW w \in Slots
    PROVE  /\ worker[t][w] \in WorkerFields
           /\ worker[t][w].since \in Nat /\ worker[t][w].start \in Nat
           /\ worker[t][w].pc \in RunPhases => worker[t][w].job \in Jobs
<1>1. worker[t][w] \in WorkerRecord
  BY DEF TypeOK
<1>2. worker[t][w] \in WorkerFields
      /\ (worker[t][w].pc \notin {"idle", "next"} => worker[t][w].job \in Jobs)
  BY <1>1, Zenon DEF WorkerRecord
<1>3. worker[t][w].pc \in RunPhases => worker[t][w].pc \notin {"idle", "next"}
  BY DEF RunPhases
<1>4. worker[t][w].since \in Nat /\ worker[t][w].start \in Nat
  BY <1>2 DEF WorkerFields
<1> QED
  BY <1>2, <1>3, <1>4

\* A run that only waits keeps to its limits, whoever writes its job.
LEMMA RunGoesOn ==
    ASSUME TypeOK, TypeOK', [Next]_vars, NEW t \in Ticks, NEW w \in Slots,
           worker[t][w].pc \in RunPhases, RunTimed(worker[t][w], jobs, now)
    PROVE  RunTimed(worker[t][w], jobs', now)
<1> DEFINE r == worker[t][w]
<1>1. r.since \in Nat /\ r.start \in Nat /\ r.job \in Jobs /\ now \in Nat
  BY WorkerType DEF TypeOK
<1>2. jobs[r.job].updatedAt \in Nat /\ jobs'[r.job].updatedAt \in Nat
  BY <1>1, JobType DEF TypeOK, JobRecord
<1>3. jobs'[r.job] = jobs[r.job] \/ jobs'[r.job].updatedAt = now \/ jobs'[r.job] = AbsentJob
  BY <1>1, JobsDated
<1>4. ~AbsentJob.present
  BY DEF AbsentJob
<1>5. r.claimed /\ jobs'[r.job].present => r.start <= jobs'[r.job].updatedAt
  BY <1>1, <1>2, <1>3, <1>4 DEF RunTimed
<1> QED
  BY <1>5 DEF RunTimed

\* A run begins within its limits; a claim has just written the job.
LEMMA RunBegins ==
    ASSUME TypeOK, NEW j \in Jobs, NEW c, c => jobs'[j].updatedAt = now
    PROVE  RunTimed(NewRun(j, c), jobs', now)
<1>1. now \in Nat /\ TimeLimit(FirstPhase(j)) \in Nat /\ Whole(j) \in Nat
  BY TimeTypes DEF TypeOK
<1>2. NewRun(j, c).since = now /\ NewRun(j, c).start = now /\ NewRun(j, c).pc = FirstPhase(j)
      /\ NewRun(j, c).job = j /\ NewRun(j, c).claimed = c
  BY DEF NewRun
<1>3. Remaining(j, FirstPhase(j)) = Whole(j)
  BY DEF Whole
<1> HIDE DEF Whole
<1> QED
  BY <1>1, <1>2, <1>3 DEF RunTimed

\* A run that takes the next phase has what its phase left of the whole.
LEMMA RunAdvances ==
    ASSUME TypeOK, NEW t \in Ticks, NEW w \in Slots,
           worker[t][w].pc \in RunPhases, RunTimed(worker[t][w], jobs, now),
           NEW pc, NEW status,
           TimeLimit(worker[t][w].pc) + Remaining(worker[t][w].job, pc)
             <= Remaining(worker[t][w].job, worker[t][w].pc)
    PROVE  RunTimed([worker[t][w] EXCEPT !.pc = pc, !.since = now, !.status = status], jobs, now)
<1> DEFINE r == worker[t][w]
           q == [r EXCEPT !.pc = pc, !.since = now, !.status = status]
<1>1. r.since \in Nat /\ r.start \in Nat /\ r.job \in Jobs /\ now \in Nat /\ r \in WorkerFields
  BY WorkerType DEF TypeOK
<1>2. q.since = now /\ q.start = r.start /\ q.pc = pc /\ q.job = r.job /\ q.claimed = r.claimed
  BY <1>1 DEF WorkerFields
<1>3. /\ TimeLimit(r.pc) \in Nat /\ TimeLimit(pc) \in Nat /\ Remaining(r.job, pc) \in Nat
      /\ Remaining(r.job, r.pc) \in Nat /\ Whole(r.job) \in Nat
  BY TimeTypes
<1>4. r.start <= r.since /\ r.since <= now /\ now <= r.since + TimeLimit(r.pc)
      /\ r.since + Remaining(r.job, r.pc) <= r.start + Whole(r.job)
      /\ (r.claimed /\ jobs[r.job].present => r.start <= jobs[r.job].updatedAt)
  BY DEF RunTimed
<1>5. TimeLimit(r.pc) + Remaining(r.job, pc) <= Remaining(r.job, r.pc)
  OBVIOUS
<1> HIDE DEF r, q
<1>6. r.start <= now /\ now <= now + TimeLimit(pc)
      /\ now + Remaining(r.job, pc) <= r.start + Whole(r.job)
  BY <1>1, <1>3, <1>4, <1>5
<1>7. RunTimed(q, jobs, now)
  BY <1>1, <1>2, <1>4, <1>6 DEF RunTimed
<1> QED
  BY <1>7 DEF q, r

\* The phases of runCronJob in the order in which they come.
LEMMA PhaseTimes ==
    ASSUME NEW j
    PROVE  /\ TimeLimit("script") + Remaining(j, "deliver") <= Remaining(j, "script")
           /\ j \notin NoAgentJobs =>
                TimeLimit("script") + Remaining(j, "agent") <= Remaining(j, "script")
           /\ TimeLimit("agent") + Remaining(j, "deliver") <= Remaining(j, "agent")
  BY SchedulerAssumption DEF TimeLimit, Remaining

\* A step that sets one worker to a record within its limits, or out of a run.
LEMMA OneTimed ==
    ASSUME TypeOK, TypeOK', [Next]_vars, Timed, now' = now,
           NEW t \in Ticks, NEW w \in Slots, NEW r, SetWorker(t, w, r),
           r.pc \in RunPhases => RunTimed(r, jobs', now)
    PROVE  Timed'
<1> SUFFICES ASSUME NEW u \in Ticks, NEW v \in Slots, worker'[u][v].pc \in RunPhases
             PROVE  RunTimed(worker'[u][v], jobs', now)
  BY Zenon DEF Timed
<1>1. worker'[u][v] = IF u = t /\ v = w THEN r ELSE worker[u][v]
  BY DEF TypeOK, SetWorker
<1>2. CASE u = t /\ v = w
  BY <1>1, <1>2
<1>3. CASE ~(u = t /\ v = w)
  <2>1. worker'[u][v] = worker[u][v]
    BY <1>1, <1>3
  <2>2. RunTimed(worker[u][v], jobs, now)
    BY <2>1, Zenon DEF Timed
  <2> QED
    BY <2>1, <2>2, RunGoesOn
<1> QED
  BY <1>2, <1>3

\* A step that begins no run and moves none.
LEMMA NoneTimed ==
    ASSUME TypeOK, TypeOK', [Next]_vars, Timed, now' = now,
           \A t \in Ticks, w \in Slots :
               worker'[t][w].pc \in RunPhases => worker'[t][w] = worker[t][w]
    PROVE  Timed'
<1> SUFFICES ASSUME NEW u \in Ticks, NEW v \in Slots, worker'[u][v].pc \in RunPhases
             PROVE  RunTimed(worker'[u][v], jobs', now)
  BY Zenon DEF Timed
<1>1. worker'[u][v] = worker[u][v]
  OBVIOUS
<1>2. RunTimed(worker[u][v], jobs, now)
  BY <1>1, Zenon DEF Timed
<1> QED
  BY <1>1, <1>2, RunGoesOn

\* The steps of a worker.
LEMMA RunKeepsTime ==
    ASSUME TypeOK, TypeOK', [Next]_vars, Timed,
           NEW t \in Ticks, NEW w \in Slots, RunStep(t, w) \/ WorkerThrows(t, w)
    PROVE  Timed'
<1>0. IdleWorker.pc \notin RunPhases /\ [IdleWorker EXCEPT !.pc = "next"].pc \notin RunPhases
      /\ [IdleWorker EXCEPT !.pc = "idle"].pc \notin RunPhases
  BY DEF IdleWorker, RunPhases
<1>1. CASE NextJob(t, w)
  <2>1. now' = now
    BY <1>1 DEF NextJob
  <2>2. CASE SetWorker(t, w, IdleWorker)
    BY <1>0, <2>1, <2>2, OneTimed
  <2>3. CASE \E j \in tick[t].due : SetWorker(t, w, [IdleWorker EXCEPT !.pc = "claim", !.job = j])
    <3>1. PICK j : SetWorker(t, w, [IdleWorker EXCEPT !.pc = "claim", !.job = j])
      BY <2>3
    <3>2. [IdleWorker EXCEPT !.pc = "claim", !.job = j].pc \notin RunPhases
      BY DEF IdleWorker, RunPhases
    <3> QED
      BY <2>1, <3>1, <3>2, OneTimed
  <2> QED
    BY <1>1, <2>2, <2>3 DEF NextJob
<1>2. CASE ClaimDueJob(t, w)
  <2> DEFINE j == worker[t][w].job
  <2>0. worker[t][w] \in WorkerRecord /\ worker[t][w].pc = "claim"
    BY <1>2 DEF ClaimDueJob, TypeOK
  <2>1. now' = now /\ j \in Jobs
    BY <1>2, <2>0 DEF ClaimDueJob, WorkerRecord
  <2>2. CASE SetWorker(t, w, [IdleWorker EXCEPT !.pc = "next"])
    BY <1>0, <2>1, <2>2, OneTimed
  <2>3. CASE jobs' = [jobs EXCEPT ![j] = Claimed(@)] /\ SetWorker(t, w, NewRun(j, TRUE))
    <3>1. jobs'[j] = Claimed(jobs[j]) /\ jobs[j] \in JobRecord
      BY <2>1, <2>3 DEF TypeOK
    <3>2. jobs'[j].updatedAt = now
      BY <3>1 DEF Claimed, JobRecord
    <3>3. RunTimed(NewRun(j, TRUE), jobs', now)
      BY <2>1, <3>2, RunBegins
    <3> QED
      BY <2>1, <2>3, <3>3, OneTimed
  <2> QED
    BY <1>2, <2>2, <2>3 DEF ClaimDueJob
<1>3. ASSUME NEW pc, NEW status, Advance(t, w, pc, status), worker[t][w].pc \in RunPhases,
             TimeLimit(worker[t][w].pc) + Remaining(worker[t][w].job, pc)
               <= Remaining(worker[t][w].job, worker[t][w].pc)
      PROVE  Timed'
  <2> DEFINE q == [worker[t][w] EXCEPT !.pc = pc, !.since = now, !.status = status]
  <2>1. now' = now /\ jobs' = jobs /\ SetWorker(t, w, q)
    BY <1>3 DEF Advance
  <2>2. RunTimed(worker[t][w], jobs, now)
    BY <1>3, Zenon DEF Timed
  <2>3. RunTimed(q, jobs, now)
    BY <1>3, <2>2, RunAdvances
  <2> HIDE DEF q
  <2> QED
    BY <2>1, <2>3, OneTimed
<1>4. CASE ScriptDone(t, w)
  <2>1. worker[t][w].pc = "script" /\ "script" \in RunPhases
    BY <1>4 DEF ScriptDone, RunPhases
  <2>2. CASE \E status \in {"success", "failed"} : Advance(t, w, "deliver", status)
    BY <1>3, <2>1, <2>2, PhaseTimes
  <2>3. CASE worker[t][w].job \notin NoAgentJobs /\ Advance(t, w, "agent", worker[t][w].status)
    <3>1. TimeLimit(worker[t][w].pc) + Remaining(worker[t][w].job, "agent")
            <= Remaining(worker[t][w].job, worker[t][w].pc)
      BY <2>1, <2>3, PhaseTimes
    <3>2. \E status : Advance(t, w, "agent", status)
      BY <2>3
    <3>3. PICK status : Advance(t, w, "agent", status)
      BY <3>2
    <3> QED
      BY <1>3, <2>1, <3>1, <3>3
  <2> QED
    BY <1>4, <2>2, <2>3 DEF ScriptDone
<1>5. CASE AgentDone(t, w)
  <2>1. worker[t][w].pc = "agent" /\ "agent" \in RunPhases
    BY <1>5 DEF AgentDone, RunPhases
  <2>2. PICK status \in {"success", "failed"} : Advance(t, w, "deliver", status)
    BY <1>5 DEF AgentDone
  <2> QED
    BY <1>3, <2>1, <2>2, PhaseTimes
<1>6. CASE Deliver(t, w)
  <2> DEFINE r == worker[t][w]
             q == [r EXCEPT !.pc = "mark"]
  <2>1. now' = now /\ jobs' = jobs /\ SetWorker(t, w, q) /\ r.pc = "deliver" /\ r.pc \in RunPhases
    BY <1>6 DEF Deliver, RunPhases
  <2>2. RunTimed(r, jobs, now)
    BY <2>1, Zenon DEF Timed
  <2>3. r \in WorkerFields
    BY WorkerType
  <2>4. q.since = r.since /\ q.start = r.start /\ q.pc = "mark" /\ q.job = r.job
        /\ q.claimed = r.claimed
    BY <2>3 DEF WorkerFields
  <2>5. TimeLimit("mark") = TimeLimit("deliver") /\ \A j : Remaining(j, "mark") = Remaining(j, "deliver")
    BY DEF TimeLimit, Remaining
  <2> HIDE DEF r, q
  <2>6. RunTimed(q, jobs, now)
    BY <2>1, <2>2, <2>4, <2>5 DEF RunTimed
  <2> QED
    BY <2>1, <2>6, OneTimed
<1>7. CASE MarkRun(t, w)
  <2> DEFINE q == [IdleWorker EXCEPT !.pc = "markDelivery", !.job = worker[t][w].job,
                                     !.claimed = worker[t][w].claimed]
  <2>1. now' = now /\ SetWorker(t, w, q)
    BY <1>7 DEF MarkRun
  <2>2. q.pc \notin RunPhases
    BY DEF IdleWorker, RunPhases
  <2> HIDE DEF q
  <2> QED
    BY <2>1, <2>2, OneTimed
<1>8. CASE MarkDelivery(t, w)
  <2>1. now' = now /\ (\/ SetWorker(t, w, [IdleWorker EXCEPT !.pc = "next"])
                      \/ SetWorker(t, w, [IdleWorker EXCEPT !.pc = "idle"]))
    BY <1>8 DEF MarkDelivery
  <2> QED
    BY <1>0, <2>1, OneTimed
<1>9. CASE WorkerThrows(t, w)
  <2>1. now' = now /\ SetWorker(t, w, IdleWorker)
    BY <1>9 DEF WorkerThrows
  <2> QED
    BY <1>0, <2>1, OneTimed
<1> QED
  BY <1>1, <1>2, <1>4, <1>5, <1>6, <1>7, <1>8, <1>9 DEF RunStep

\* Every other step; the clock does not pass the limit of a phase.
LEMMA NextTimed == TypeOK /\ TypeOK' /\ Timed /\ [Next]_vars => Timed'
<1> SUFFICES ASSUME TypeOK, TypeOK', Timed, [Next]_vars PROVE Timed'
  OBVIOUS
<1>1. CASE Tock
  <2> SUFFICES ASSUME NEW t \in Ticks, NEW w \in Slots, worker'[t][w].pc \in RunPhases
               PROVE  RunTimed(worker'[t][w], jobs', now')
    BY Zenon DEF Timed
  <2>1. worker' = worker /\ jobs' = jobs /\ now' = now + 1 /\ now \in Nat
    BY <1>1 DEF Tock, TypeOK
  <2>2. RunTimed(worker[t][w], jobs, now)
    BY <2>1, Zenon DEF Timed
  <2>3. now < worker[t][w].since + TimeLimit(worker[t][w].pc)
    BY <1>1, <2>1 DEF Tock
  <2>4. worker[t][w].since \in Nat /\ worker[t][w].start \in Nat
        /\ TimeLimit(worker[t][w].pc) \in Nat
    BY WorkerType, TimeTypes
  <2>5. worker[t][w].since <= now + 1 /\ now + 1 <= worker[t][w].since + TimeLimit(worker[t][w].pc)
    BY <2>1, <2>2, <2>3, <2>4 DEF RunTimed
  <2> QED
    BY <2>1, <2>2, <2>5 DEF RunTimed
<1>2. ASSUME NEW j \in Jobs, UserStep(j) PROVE Timed'
  <2>1. CASE \E t \in Ticks : ManualRun(t, j)
    <3>1. PICK t \in Ticks : ManualRun(t, j)
      BY <2>1
    <3>2. 1 \in Slots
      BY SchedulerAssumption DEF Slots
    <3>3. now' = now /\ SetWorker(t, 1, NewRun(j, FALSE))
      BY <3>1 DEF ManualRun
    <3>4. RunTimed(NewRun(j, FALSE), jobs', now)
      BY RunBegins
    <3> QED
      BY <3>2, <3>3, <3>4, OneTimed
  <2>2. CASE ~\E t \in Ticks : ManualRun(t, j)
    <3>1. now' = now /\ worker' = worker
      BY <1>2, <2>2 DEF UserStep, Create, UpdateSchedule, UpdateFields, Pause, Resume, Remove,
                        Trigger, UserOp
    <3> QED
      BY <3>1, NoneTimed
  <2> QED
    BY <2>1, <2>2
<1>3. ASSUME NEW t \in Ticks, TickStep(t) PROVE Timed'
  <2>1. now' = now
    BY <1>3 DEF TickStep, ResetStaleRunning, ResetFails, GetDueJobs, GetDueFails, EndTick
  <2>2. CASE GetDueJobs(t)
    <3>1. ASSUME NEW u \in Ticks, NEW v \in Slots
          PROVE  worker'[u][v].pc \in RunPhases => worker'[u][v] = worker[u][v]
      BY <2>2 DEF GetDueJobs, TypeOK, IdleWorker, RunPhases
    <3> QED
      BY <2>1, <3>1, NoneTimed
  <2>3. CASE ~GetDueJobs(t)
    <3>1. worker' = worker
      BY <1>3, <2>3 DEF TickStep, ResetStaleRunning, ResetFails, GetDueFails, EndTick
    <3> QED
      BY <2>1, <3>1, NoneTimed
  <2> QED
    BY <2>2, <2>3
<1>4. ASSUME NEW p \in Procs, Crash(p) PROVE Timed'
  <2>1. now' = now
    BY <1>4, ZenonT(60) DEF Crash
  <2>2. ASSUME NEW u \in Ticks, NEW v \in Slots
        PROVE  worker'[u][v].pc \in RunPhases => worker'[u][v] = worker[u][v]
    BY <1>4 DEF Crash, IdleWorker, RunPhases
  <2> QED
    BY <2>1, <2>2, NoneTimed, SMTT(30)
<1>5. ASSUME \/ UNCHANGED vars \/ \E p \in Procs : Restart(p)
             \/ \E p \in Procs, t \in Ticks : StartTick(p, t)
      PROVE  Timed'
  <2>1. now' = now /\ worker' = worker
    BY <1>5 DEF Restart, StartTick, vars
  <2> QED
    BY <2>1, NoneTimed
<1> QED
  BY <1>1, <1>2, <1>3, <1>4, <1>5, RunKeepsTime DEF Next

\* With timeouts that leave room, the jobs the stale reset picks have no claimed run
\* going on, for any number of jobs, processes, ticks and workers (the threshold of
\* tickCronScheduler against the timeouts of runCronJob).
THEOREM StaleResetFindsDeadRuns ==
    ASSUME Covered
    PROVE  Spec => []StaleMeansDead
<1>1. TypeOK /\ Timed => StaleMeansDead
  <2> SUFFICES ASSUME TypeOK, Timed, NEW j \in Jobs, Stale(jobs[j]),
                      NEW t \in Ticks, NEW w \in Slots,
                      InRun(worker[t][w], j), worker[t][w].claimed
               PROVE  FALSE
    BY DEF StaleMeansDead, ClaimedRuns
  <2> DEFINE r == worker[t][w]
  <2>1. r.job = j /\ r.pc \in RunPhases
    BY DEF InRun
  <2>2. RunTimed(r, jobs, now)
    BY <2>1, Zenon DEF Timed
  <2>3. r.since \in Nat /\ r.start \in Nat /\ now \in Nat /\ jobs[j].updatedAt \in Nat
    BY WorkerType, JobType DEF TypeOK
  <2>4. /\ TimeLimit(r.pc) \in Nat /\ Remaining(j, r.pc) \in Nat
        /\ TimeLimit(r.pc) <= Remaining(j, r.pc) /\ Whole(j) \in Nat
    BY TimeTypes
  <2>5. Whole(j) < StaleThreshold /\ StaleThreshold \in Nat
    BY SchedulerAssumption, MinuteAssumption DEF Covered, StaleThreshold
  <2>6. jobs[j].present /\ now - jobs[j].updatedAt >= StaleThreshold
    BY DEF Stale
  <2>7. now <= r.since + TimeLimit(r.pc) /\ r.since + Remaining(j, r.pc) <= r.start + Whole(j)
        /\ r.start <= jobs[j].updatedAt
    BY <2>1, <2>2, <2>6 DEF RunTimed
  <2> HIDE DEF r
  <2> QED
    BY <2>3, <2>4, <2>5, <2>6, <2>7
<1>2. Init => Timed
  BY DEF Init, Timed, IdleWorker, RunPhases
<1> QED
  BY <1>1, <1>2, NextTimed, TypeCorrect, PTL DEF Spec

\* While a run of it goes on a job nobody re-armed is marked running, disabled or gone,
\* for any number of jobs, processes, ticks and workers: claimDueJob's re-check under the
\* lock therefore refuses it.
THEOREM RunningJobsAreHeld == Spec => []HeldWhileRunning
  BY RunsDoNotOverlap, PTL
=============================================================================
