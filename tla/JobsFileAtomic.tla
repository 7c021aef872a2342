--------------------------- MODULE JobsFileAtomic ---------------------------
(***************************************************************************)
(* What CronJobStore promises its users and CronScheduler builds on: every *)
(* operation changes jobs.json in one indivisible step.  stored[j] counts  *)
(* the changes made to job j, so an update that was overwritten shows.     *)
(***************************************************************************)
EXTENDS Naturals

CONSTANT Jobs
VARIABLE stored

Init == stored = [j \in Jobs |-> 0]
Change(j) == stored' = [stored EXCEPT ![j] = @ + 1]
Next == \E j \in Jobs : Change(j)
Spec == Init /\ [][Next]_stored
=============================================================================
