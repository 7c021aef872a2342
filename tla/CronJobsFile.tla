---------------------------- MODULE CronJobsFile ----------------------------
(***************************************************************************)
(* How CronJobStore (scheduler/job-store.ts) keeps jobs.json: every        *)
(* operation makes sure that the file exists, takes the directory lock,    *)
(* reads the file, computes, writes a temporary file and renames it over   *)
(* jobs.json, and releases the lock.  Callers are the operations that run  *)
(* at the same time, in one process or in several; a process may crash at  *)
(* any await and leave its lock behind.                                    *)
(*                                                                         *)
(* A change of job j is a count: file[j] is how many changes of j the file *)
(* shows.  Whatever an operation computes, it computes from what it read.  *)
(***************************************************************************)
EXTENDS Naturals

CONSTANTS
    Callers,      \* operations that may run at the same time
    Jobs,         \* job ids
    NoCaller,     \* nobody holds the lock
    Orphan,       \* the lock of a process that crashed
    FirstAlone,   \* whether the operation that creates jobs.json runs alone
    MaxOps,       \* operations begun
    MaxCrashes    \* crashes

ASSUME CronJobsFileAssumption ==
    /\ FirstAlone \in BOOLEAN /\ MaxOps \in Nat /\ MaxCrashes \in Nat
    /\ NoCaller # Orphan /\ NoCaller \notin Callers /\ Orphan \notin Callers

VARIABLES
    exists,  \* whether jobs.json is there
    file,    \* its content; nothing but zeros for an empty job list
    lock,    \* who holds the lock of the cron directory
    call,    \* the operation of each caller
    acked,   \* changes whose operation returned to its caller
    budget

vars == <<exists, file, lock, call, acked, budget>>

Content == [Jobs -> Nat]
Empty == [j \in Jobs |-> 0]

InLock == {"read", "write", "unchanged", "changed"}
CallPc == {"idle", "check", "create", "lock", "dead"} \cup InLock
CallRecord == [pc : CallPc, job : Jobs, copy : Content]

TypeOK ==
    /\ exists \in BOOLEAN
    /\ file \in Content
    /\ lock \in Callers \cup {NoCaller, Orphan}
    /\ call \in [Callers -> CallRecord]
    /\ acked \in Content
    /\ budget \in [ops : Nat, crashes : Nat]

-----------------------------------------------------------------------------
SetPc(c, pc) == call' = [call EXCEPT ![c] = [@ EXCEPT !.pc = pc]]

\* A caller that is not inside an operation.
Quiet == {"idle", "dead"}

\* Some operation on job j is called.  Nothing in the code orders the first two
\* operations of a fresh directory; FirstAlone assumes that their users do.
Begin(c, j) ==
    /\ call[c].pc = "idle" /\ budget.ops > 0
    /\ FirstAlone => exists \/ \A d \in Callers : call[d].pc \in Quiet
    /\ budget' = [budget EXCEPT !.ops = @ - 1]
    /\ call' = [call EXCEPT ![c] = [@ EXCEPT !.pc = "check", !.job = j]]
    /\ UNCHANGED <<exists, file, lock, acked>>

\* Mutant: does not look for the file.
EnsureWithoutCheck(c) ==
    /\ call[c].pc = "check"
    /\ SetPc(c, "create")
    /\ UNCHANGED <<exists, file, lock, acked, budget>>

\* ensureUnlocked looks for the file, before the lock is taken ...
EnsureUnlocked(c) ==
    /\ call[c].pc = "check"
    /\ SetPc(c, IF exists THEN "lock" ELSE "create")
    /\ UNCHANGED <<exists, file, lock, acked, budget>>

\* ... and writes an empty one if it did not see it.
WriteEmpty(c) ==
    /\ call[c].pc = "create"
    /\ exists' = TRUE /\ file' = Empty
    /\ SetPc(c, "lock")
    /\ UNCHANGED <<lock, acked, budget>>

\* Mutant: takes the lock whoever holds it.
LockBlindly(c) ==
    /\ call[c].pc = "lock"
    /\ lock' = c
    /\ SetPc(c, "read")
    /\ UNCHANGED <<exists, file, acked, budget>>

Lock(c) ==
    /\ call[c].pc = "lock" /\ lock = NoCaller
    /\ lock' = c
    /\ SetPc(c, "read")
    /\ UNCHANGED <<exists, file, acked, budget>>

\* All retries found the lock taken: the operation rejects.
LockFails(c) ==
    /\ call[c].pc = "lock" /\ lock # NoCaller
    /\ SetPc(c, "idle")
    /\ UNCHANGED <<exists, file, lock, acked, budget>>

\* readJobsFile, which creates a missing file too.
ReadJobsFile(c) ==
    /\ call[c].pc = "read"
    /\ exists' = TRUE
    /\ call' = [call EXCEPT ![c] = [@ EXCEPT !.pc = "write", !.copy = file]]
    /\ UNCHANGED <<file, lock, acked, budget>>

\* The operation only reads, finds nothing to do, or throws.
NoChange(c) ==
    /\ call[c].pc = "write"
    /\ SetPc(c, "unchanged")
    /\ UNCHANGED <<exists, file, lock, acked, budget>>

\* writeJobsFile: the rename puts what was computed from the copy in place.
WriteJobsFile(c) ==
    /\ call[c].pc = "write"
    /\ file' = [call[c].copy EXCEPT ![call[c].job] = @ + 1]
    /\ exists' = TRUE
    /\ SetPc(c, "changed")
    /\ UNCHANGED <<lock, acked, budget>>

\* The finally block releases the lock and the operation returns.
Release(c) ==
    /\ call[c].pc \in {"unchanged", "changed"}
    /\ lock' = IF lock = c THEN NoCaller ELSE lock
    /\ acked' = IF call[c].pc = "changed"
                THEN [acked EXCEPT ![call[c].job] = @ + 1] ELSE acked
    /\ SetPc(c, "idle")
    /\ UNCHANGED <<exists, file, budget>>

\* The process ends at any await; a temporary file it wrote is never read.
Crash(c) ==
    /\ call[c].pc \notin {"idle", "dead"} /\ budget.crashes > 0
    /\ budget' = [budget EXCEPT !.crashes = @ - 1]
    /\ SetPc(c, "dead")
    /\ lock' = IF lock = c THEN Orphan ELSE lock
    /\ UNCHANGED <<exists, file, acked>>

Restart(c) ==
    /\ call[c].pc = "dead"
    /\ SetPc(c, "idle")
    /\ UNCHANGED <<exists, file, lock, acked, budget>>

\* proper-lockfile takes a lock that nobody refreshes any more.
BreakStaleLock ==
    /\ lock = Orphan
    /\ lock' = NoCaller
    /\ UNCHANGED <<exists, file, call, acked, budget>>

-----------------------------------------------------------------------------
Init ==
    /\ exists \in BOOLEAN
    /\ file = Empty
    /\ lock = NoCaller
    /\ call \in [Callers -> [pc : {"idle"}, job : Jobs, copy : {Empty}]]
    /\ acked = Empty
    /\ budget = [ops |-> MaxOps, crashes |-> MaxCrashes]

CallStep(c) ==
    \/ \E j \in Jobs : Begin(c, j)
    \/ EnsureUnlocked(c) \/ WriteEmpty(c) \/ Lock(c) \/ LockFails(c)
    \/ ReadJobsFile(c) \/ NoChange(c) \/ WriteJobsFile(c) \/ Release(c)
    \/ Crash(c) \/ Restart(c)

Next == (\E c \in Callers : CallStep(c)) \/ BreakStaleLock
Spec == Init /\ [][Next]_vars

-----------------------------------------------------------------------------
(* Properties *)

Atomic == INSTANCE JobsFileAtomic WITH stored <- file

\* Lock, copy and rename together act as one step: every step of every caller,
\* through failed locks, crashes with the lock held and stale locks, leaves the
\* file alone or makes exactly one caller's change to what was there.
ActsAtomically == Atomic!Spec

\* A change whose operation has returned stays in the file: no later rename
\* puts a copy back that was read before it, and no crash undoes it.
NoLostUpdate == \A j \in Jobs : acked[j] <= file[j]

\* Why both hold when the first operation runs alone, as an invariant that every
\* step preserves: while jobs.json is missing there is at most one operation, and
\* nobody creates a file that is there; exactly the caller between lock and
\* release holds the lock, so what it is about to change is still what it read
\* and nobody leaves without the lock given back; and a change not yet returned
\* is in the file on top of those that were (withLock, ensureUnlocked,
\* writeJobsFile).
LockProtectsFile ==
    /\ TypeOK
    /\ ~exists =>
         /\ file = Empty
         /\ \A c \in Callers : call[c].pc \in Quiet \cup {"check", "create"}
         /\ \A c, d \in Callers : c # d => call[c].pc \in Quiet \/ call[d].pc \in Quiet
    /\ \A c \in Callers :
         /\ call[c].pc = "create" => ~exists
         /\ call[c].pc \in InLock <=> lock = c
         /\ call[c].pc = "write" => call[c].copy = file
         /\ call[c].pc = "changed" => acked[call[c].job] < file[call[c].job]
    /\ NoLostUpdate
=============================================================================
