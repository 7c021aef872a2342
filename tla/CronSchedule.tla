---------------------------- MODULE CronSchedule ----------------------------
(***************************************************************************)
(* The pure part of the scheduler: when a schedule runs next and how late  *)
(* an occurrence may still be run (core/scheduler/schedule.ts).            *)
(*                                                                         *)
(* Times are natural numbers of clock ticks, Minute of them to a minute.   *)
(* A schedule is its kind and one number: the delay of a one-shot (or its  *)
(* absolute time, when absolute), the interval, or the period of a cron    *)
(* expression of the form "every k-th minute", all of them in ticks.       *)
(***************************************************************************)
EXTENDS Integers

CONSTANT Minute   \* clock ticks per minute

ASSUME MinuteAssumption == Minute \in Nat \ {0}

\* `nextRunAt: undefined`
NoTime == -1
Time == Nat \cup {NoTime}

ScheduleKind == {"once", "interval", "cron"}
Schedule == [kind : ScheduleKind, every : Nat \ {0}, absolute : BOOLEAN]

\* Every form parseSchedule accepts repeats unless it is a one-shot.
Repeats(s) == s.kind # "once"

\* The first matching instant strictly after t.
NextCronRun(s, t) == t + s.every - (t % s.every)

ComputeNextRun(s, t) ==
    CASE s.kind = "interval" -> t + s.every
      [] s.kind = "cron"     -> NextCronRun(s, t)
      [] OTHER               -> NoTime

\* nextRunAt of a schedule parsed at time t; a timestamp may lie in the past.
ParsedNextRun(s, t) ==
    IF Repeats(s) THEN ComputeNextRun(s, t)
    ELSE IF s.absolute THEN s.every ELSE t + s.every

OneShotGrace == 2 * Minute
MinGrace == 2 * Minute
MaxGrace == 120 * Minute

\* Half the period, clamped; consecutive cron runs are s.every apart.
GraceWindow(s) ==
    LET half == s.every \div 2 IN
    IF ~Repeats(s) THEN OneShotGrace
    ELSE IF half < MinGrace THEN MinGrace
    ELSE IF half > MaxGrace THEN MaxGrace ELSE half
=============================================================================
