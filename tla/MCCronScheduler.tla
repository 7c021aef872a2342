-------------------------- MODULE MCCronScheduler --------------------------
(* Instances of CronScheduler for TLC. *)
EXTENDS CronScheduler, TLC

EveryMinute == [kind |-> "interval", every |-> Minute, absolute |-> FALSE]
EveryThree == [kind |-> "interval", every |-> 3 * Minute, absolute |-> FALSE]
EverySecond == [kind |-> "cron", every |-> 2 * Minute, absolute |-> FALSE]
SoonOnce == [kind |-> "once", every |-> 1, absolute |-> FALSE]
AtTwo == [kind |-> "once", every |-> 2, absolute |-> TRUE]

MinuteOrOnce == {EveryMinute, SoonOnce}
CronSchedules == {EverySecond, AtTwo}
OnlyEveryMinute == {EveryMinute}

Symmetric == Permutations(Ticks) \cup Permutations(Procs)
=============================================================================
