------------------------- MODULE CronJobsFileProofs -------------------------
(***************************************************************************)
(* Proofs about CronJobsFile, for any callers, jobs, operations and        *)
(* crashes: when jobs.json is not created by two operations at once, the   *)
(* lock protocol makes operations atomic and keeps what they acknowledged. *)
(***************************************************************************)
EXTENDS CronJobsFile, TLAPS

\* The invariant holds at first, whether jobs.json is there or not.
LEMMA InitProtected ==
    ASSUME Init PROVE LockProtectsFile
<1>3. file \in Content /\ acked \in Content /\ lock = NoCaller /\ budget \in [ops : Nat, crashes : Nat]
  BY CronJobsFileAssumption DEF Init, Content, Empty
<1>4. call \in [Callers -> CallRecord] /\ \A c \in Callers : call[c].pc = "idle"
  BY DEF Init, CallRecord, CallPc, Content, Empty
<1>5. NoLostUpdate /\ file = Empty /\ exists \in BOOLEAN
  BY DEF Init, NoLostUpdate, Empty
<1> QED
  BY <1>3, <1>4, <1>5, CronJobsFileAssumption DEF LockProtectsFile, TypeOK, InLock, Quiet

\* Every step of a caller preserves the invariant.
LEMMA CallProtected ==
    ASSUME FirstAlone, LockProtectsFile, NEW c \in Callers, CallStep(c)
    PROVE  LockProtectsFile'
<1>0. call \in [Callers -> CallRecord]
  BY DEF LockProtectsFile, TypeOK
<1> USE DEF LockProtectsFile, TypeOK, NoLostUpdate, SetPc, Content, CallRecord, CallPc, InLock, Quiet
<1>1. CASE \E j \in Jobs : Begin(c, j)
  <2>1. PICK j \in Jobs : Begin(c, j)
    BY <1>1
  <2>2. call' = [call EXCEPT ![c] = [@ EXCEPT !.pc = "check", !.job = j]]
    BY <2>1 DEF Begin
  <2>3. call' \in [Callers -> CallRecord] /\ call'[c].pc = "check"
    <3> HIDE DEF LockProtectsFile
    <3> QED
      BY <1>0, <2>2
  <2>4. budget' \in [ops : Nat, crashes : Nat]
    BY <2>1 DEF Begin
  <2> QED
    BY <2>1, <2>2, <2>3, <2>4 DEF Begin
<1>2. CASE EnsureUnlocked(c)
  BY <1>2 DEF EnsureUnlocked
<1>3. CASE WriteEmpty(c)
  <2>1. file' = file /\ exists' /\ ~exists /\ call'[c].pc = "lock"
    BY <1>3 DEF WriteEmpty
  <2>2. \A d \in Callers : d # c => call'[d].pc \in Quiet
    BY <1>3, <2>1 DEF WriteEmpty
  <2>3. call' \in [Callers -> CallRecord] /\ lock' = lock /\ acked' = acked /\ budget' = budget
    <3> HIDE DEF LockProtectsFile
    <3> QED
      BY <1>0, <1>3 DEF WriteEmpty
  <2>4. exists' \in BOOLEAN
    BY <1>3 DEF WriteEmpty
  <2>5. lock # c
    BY <1>3 DEF WriteEmpty
  <2> QED
    BY <2>1, <2>2, <2>3, <2>4, <2>5
<1>4. CASE Lock(c)
  BY <1>4, CronJobsFileAssumption DEF Lock
<1>5. CASE LockFails(c)
  BY <1>5 DEF LockFails
<1>6. CASE ReadJobsFile(c)
  BY <1>6, ZenonT(60) DEF ReadJobsFile
<1>7. CASE NoChange(c)
  BY <1>7 DEF NoChange
<1>8. CASE WriteJobsFile(c)
  BY <1>8, SMTT(30) DEF WriteJobsFile
<1>9. CASE Release(c)
  BY <1>9, CronJobsFileAssumption DEF Release
<1>10. CASE Crash(c)
  BY <1>10, CronJobsFileAssumption DEF Crash
<1>11. CASE Restart(c)
  BY <1>11 DEF Restart
<1> QED
  BY <1>1, <1>2, <1>3, <1>4, <1>5, <1>6, <1>7, <1>8, <1>9, <1>10, <1>11 DEF CallStep

\* ... and so does every step of the system.
LEMMA NextProtected ==
    ASSUME FirstAlone, LockProtectsFile, [Next]_vars PROVE LockProtectsFile'
<1>1. CASE \E c \in Callers : CallStep(c)
  BY <1>1, CallProtected
<1>2. CASE BreakStaleLock
  BY <1>2, CronJobsFileAssumption
  DEF BreakStaleLock, LockProtectsFile, TypeOK, NoLostUpdate, Content, CallRecord, CallPc, InLock, Quiet
<1>3. CASE UNCHANGED vars
  BY <1>3 DEF vars, LockProtectsFile, TypeOK, NoLostUpdate
<1> QED
  BY <1>1, <1>2, <1>3 DEF Next

\* Whoever is in a read-modify-write of jobs.json holds the lock and a copy of
\* what is there, for any number of callers, crashes and stale locks.
THEOREM Protected == FirstAlone /\ Spec => []LockProtectsFile
<1> SUFFICES ASSUME FirstAlone PROVE Spec => []LockProtectsFile
  OBVIOUS
<1>1. Init => LockProtectsFile
  BY InitProtected
<1>2. LockProtectsFile /\ [Next]_vars => LockProtectsFile'
  BY NextProtected
<1> QED
  BY <1>1, <1>2, PTL DEF Spec

\* No operation of CronJobStore that returned is undone by another one or by a
\* crash.
THEOREM UpdatesKept == FirstAlone /\ Spec => []NoLostUpdate
<1>1. LockProtectsFile => NoLostUpdate
  BY DEF LockProtectsFile
<1> QED
  BY <1>1, Protected, PTL

\* A caller's step is one atomic change of the file, or none: only the rename
\* changes it, and what is renamed was computed from what is there.
LEMMA CallRefines ==
    ASSUME LockProtectsFile, NEW c \in Callers, CallStep(c)
    PROVE  [Atomic!Next]_file
<1>1. CASE WriteJobsFile(c)
  <2>1. call[c].copy = file /\ call[c].job \in Jobs
    BY <1>1 DEF WriteJobsFile, LockProtectsFile, TypeOK, CallRecord
  <2>2. Atomic!Change(call[c].job)
    BY <1>1, <2>1 DEF WriteJobsFile, Atomic!Change
  <2> QED
    BY <2>1, <2>2 DEF Atomic!Next
<1>2. CASE WriteEmpty(c)
  BY <1>2 DEF WriteEmpty, LockProtectsFile
<1>3. CASE ~WriteJobsFile(c) /\ ~WriteEmpty(c)
  BY <1>3 DEF CallStep, Begin, EnsureUnlocked, Lock, LockFails, ReadJobsFile, NoChange,
              Release, Crash, Restart
<1> QED
  BY <1>1, <1>2, <1>3

\* CronJobStore's lock protocol implements a store whose operations are atomic,
\* which is what CronScheduler takes each of its operations to be.
THEOREM StoreIsAtomic == FirstAlone /\ Spec => ActsAtomically
<1>1. Init => Atomic!Init
  BY DEF Init, Atomic!Init, Empty
<1>2. LockProtectsFile /\ [Next]_vars => [Atomic!Next]_file
  <2> SUFFICES ASSUME LockProtectsFile, [Next]_vars PROVE [Atomic!Next]_file
    OBVIOUS
  <2>1. CASE \E c \in Callers : CallStep(c)
    BY <2>1, CallRefines
  <2>2. CASE BreakStaleLock \/ UNCHANGED vars
    BY <2>2 DEF BreakStaleLock, vars
  <2> QED
    BY <2>1, <2>2 DEF Next
<1> QED
  BY <1>1, <1>2, Protected, PTL DEF Spec, ActsAtomically, Atomic!Spec
=============================================================================
