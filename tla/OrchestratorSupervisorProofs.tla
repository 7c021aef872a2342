-------------------- MODULE OrchestratorSupervisorProofs --------------------
(***************************************************************************)
(* Proofs about OrchestratorSupervisor, for any instances, clients and     *)
(* budgets: no request waits for a process that has exited, no process is  *)
(* left without an owner, and statuses, instances.json and heartbeats tell *)
(* the truth.                                                              *)
(*                                                                         *)
(* The inductive invariant comes in layers, each of which is proved with   *)
(* the ones before it: the types, what exists, the tasks, the processes    *)
(* and their owners, the statuses, and the file.                           *)
(***************************************************************************)
EXTENDS OrchestratorSupervisor, TLAPS

Cleaning == {"disconnect", "dispose", "exit", "finish"}

Types ==
    /\ radius \in BOOLEAN /\ server \in Serving \cup {"down"}
    /\ live \subseteq Ids /\ exiting \subseteq Ids /\ hb \subseteq Ids
    /\ obj \in [Ids -> Object] /\ file \in [Ids -> Rec]
    /\ child \in [Ids -> {"none", "running", "killed", "gone"}]
    /\ task \in [Tasks -> Task]
    /\ beat \in [Ids -> [pc : {"idle", "posting", "registering"}, snap : Rec]]
    /\ machine \in [known : BOOLEAN, pc : {"idle", "machine", "visit", "pi"},
                    todo : SUBSET Ids, id : Ids, snap : Rec]
    /\ loop \in [todo : SUBSET Ids, snap : [Ids -> Rec]]
    /\ log \in [raced : SUBSET Ids, dropped : SUBSET Ids, undisposed : SUBSET Ids,
                failed : BOOLEAN]
    /\ budget \in Bound

\* What an instance that was never spawned cannot have, and what a record taken
\* from a live instance has.
Known(i) ==
    /\ i \in live => obj[i].status # "absent" /\ child[i] # "none"
    /\ child[i] = "none" => file[i] = Absent /\ loop.snap[i] = Absent
    /\ beat[i].pc = "registering" => child[i] # "none" /\ beat[i].snap.status # "absent"
    /\ i \in exiting => child[i] = "gone"
Taken == machine.pc = "pi" => child[machine.id] # "none" /\ machine.snap.status # "absent"

\* The operation a task is on tells where it can be, and where it waits its process
\* has not exited.
Placed(t) ==
    /\ task[t].pc # "idle" => child[task[t].id] # "none"
    /\ task[t].pc \in {"state", "register"} => task[t].op = "spawn"
    /\ task[t].pc \in {"rpc", "sync", "open"} => task[t].op \in {"rpc", "stream"}
    /\ task[t].pc = "rejected" => task[t].op \in {"spawn", "rpc", "stream"}
    /\ task[t].pc \in Cleaning => task[t].op \in {"spawn", "stop"}
    /\ task[t].pc \in Waiting => child[task[t].id] # "gone"
Basics == (\A i \in Ids : Known(i)) /\ Taken /\ \A t \in Tasks : Placed(t)

\* A call that cleans up has unbound the exit listener and knows the process, if
\* there still was one; where it is done with the process, that does not run.
CleansUp(t) ==
    LET i == task[t].id IN
    /\ ~obj[i].bound
    /\ obj[i].rpc => task[t].rpc
    /\ task[t].pc \in {"exit", "finish"} /\ task[t].rpc
         => child[i] # "running" \/ i \in log.undisposed
Cleans ==
    /\ \A t \in Tasks : task[t].pc \in Cleaning => CleansUp(t)
    /\ \A i \in exiting : ~obj[i].bound

\* An instance is spawned once.
SameSpawn(t, u) ==
    /\ task[t].pc # "idle" /\ task[t].op = "spawn" /\ task[u].pc # "idle" /\ task[u].op = "spawn"
    /\ task[t].id = task[u].id
OneSpawn == \A t, u \in Tasks : SameSpawn(t, u) => t = u

\* Without Radius nothing is registered, and a spawn that awaits its get_state is
\* starting, or another call is about to reject it.
Disposed(i) == \E t \in Tasks : task[t].id = i /\ task[t].pc = "dispose" /\ task[t].rpc
Unregistered(i) == ~obj[i].held /\ beat[i].pc = "idle" /\ i \notin hb /\ i \notin log.raced
Starts(t) ==
    /\ task[t].pc # "register"
    /\ task[t].pc = "state" => obj[task[t].id].status = "starting" \/ Disposed(task[t].id)
Local == machine.pc = "idle" /\ (\A i \in Ids : Unregistered(i)) /\ \A t \in Tasks : Starts(t)
WithoutRadius == ~radius => Local

\* An instance that is starting or online is live, and its process runs and is
\* listened to; one that gets heartbeats is live, listened to and registered.
Active(i) ==
    /\ obj[i].status \in {"starting", "online"} =>
          i \in live /\ obj[i].bound /\ obj[i].rpc /\ child[i] = "running"
    /\ i \in hb => i \in live /\ obj[i].bound /\ obj[i].held
AllActive == \A i \in Ids \ log.raced : Active(i)

\* A live instance that is not online has a call, or its exit, in flight.
Busy(i, op) == \E t \in Tasks : task[t].id = i /\ task[t].op = op /\ task[t].pc # "idle"
Attended(i) ==
    /\ obj[i].status # "stopped"
    /\ obj[i].status = "starting" => Busy(i, "spawn")
    /\ obj[i].status = "stopping" => Busy(i, "stop")
    /\ obj[i].status = "error" => Busy(i, "spawn") \/ i \in exiting
AllAttended == \A i \in live \ log.raced : Attended(i)

\* instances.json, also while the records of the last run are recovered: it has the
\* status of a live instance (Kept), nothing else is called starting or online
\* (Vouched), and the list that will replace it has neither (Listed).
Kept(i) == i \in live \ (log.raced \cup log.dropped) => file[i].status = obj[i].status
Vouched(i) ==
    server \notin {"down", "recovering"} /\ i \notin log.raced
    /\ file[i].status \in {"starting", "online"} => i \in live /\ obj[i].bound
Listed(i) ==
    /\ server = "recovering" /\ i \in live => loop.snap[i] = Absent
    /\ loop.snap[i].status \notin {"starting", "online"}
    /\ server = "down" => i \notin live
Signalled == task[Sig].pc # "idle" => server \notin {"down", "recovering"}
Filed == (\A i \in Ids : Kept(i) /\ Vouched(i) /\ Listed(i)) /\ Signalled

-----------------------------------------------------------------------------
(* Types *)

LEMMA NoTaskType == NoTask \in Task /\ NoTask.pc = "idle" /\ NoTask.op = "none" /\ ~NoTask.rpc
<1>1. NoTask.id \in Ids
  BY SupervisorAssumption DEF NoTask
<1>2. NoTask.pc = "idle" /\ NoTask.op = "none" /\ NoTask.rpc = FALSE /\ NoTask.ok = TRUE
  BY DEF NoTask
<1>3. NoTask = [pc |-> NoTask.pc, op |-> NoTask.op, id |-> NoTask.id, rpc |-> NoTask.rpc,
                ok |-> NoTask.ok]
  BY DEF NoTask
<1> QED
  BY <1>1, <1>2, <1>3 DEF Task, TaskPc

LEMMA NoObjectType == NoObject \in Object /\ Absent \in Rec /\ Absent.status = "absent"
  BY DEF NoObject, Object, Absent, Rec

LEMMA RecordOfType == ASSUME NEW o \in Object
                      PROVE  RecordOf(o) \in Rec /\ RecordOf(o).status = o.status
                             /\ RecordOf(o).pi = o.pi
  BY DEF RecordOf, Rec, Object

LEMMA SpendType ==
    ASSUME budget \in Bound,
           NEW what \in {"requests", "exits", "failures", "beats", "machines", "crashes",
                         "signals", "starts"},
           Spend(what)
    PROVE  budget' \in Bound
  BY DEF Spend, Bound

LEMMA EndedType == ASSUME NEW r \in Task PROVE Ended(r) \in Task
  BY NoTaskType DEF Ended, Task, TaskPc

LEMMA RejectType ==
    ASSUME NEW i, NEW tasks \in [Tasks -> Task]
    PROVE  Reject(i, tasks) \in [Tasks -> Task]
<1>1. ASSUME NEW t \in Tasks PROVE [tasks[t] EXCEPT !.pc = "rejected"] \in Task
  BY DEF Task, TaskPc, Micro
<1> QED
  BY <1>1 DEF Reject

LEMMA SaveType ==
    ASSUME obj \in [Ids -> Object], file \in [Ids -> Rec], NEW i \in Ids, NEW o \in Object, Save(i, o)
    PROVE  obj' \in [Ids -> Object] /\ file' \in [Ids -> Rec]
  BY RecordOfType DEF Save

LEMMA AnsweredType ==
    ASSUME Types, Answered \/ Fails
    PROVE  /\ budget' \in Bound
           /\ log' \in [raced : SUBSET Ids, dropped : SUBSET Ids, undisposed : SUBSET Ids,
                        failed : BOOLEAN]
<1>1. CASE Answered
  BY <1>1 DEF Answered, Types
<1>2. CASE Fails
  <2>1. budget' \in Bound
    BY <1>2, SpendType DEF Fails, Types
  <2> QED
    BY <1>2, <2>1 DEF Fails, Types
<1> QED
  BY <1>1, <1>2

LEMMA CleanupType ==
    ASSUME Types, NEW t \in Tasks, NEW i \in Ids, NEW op \in {"spawn", "stop"},
           NEW status \in Status, Cleanup(t, i, op, status)
    PROVE  /\ obj' \in [Ids -> Object] /\ file' \in [Ids -> Rec] /\ hb' \subseteq Ids
           /\ task' \in [Tasks -> Task]
<1> DEFINE o == [obj[i] EXCEPT !.status = status, !.bound = FALSE]
           r == [pc |-> IF o.held /\ o.pi THEN "disconnect" ELSE "dispose",
                 op |-> op, id |-> i, rpc |-> o.rpc, ok |-> TRUE]
<1>0. obj[i] \in Object
  BY DEF Types
<1>1. o \in Object
  BY <1>0 DEF Object
<1>2. o.rpc \in BOOLEAN
  BY <1>1 DEF Object
<1>3. r \in Task
  BY <1>2 DEF Task, TaskPc, Micro
<1>4. Save(i, o) /\ hb' \subseteq hb /\ task' = [task EXCEPT ![t] = r]
  BY DEF Cleanup
<1> HIDE DEF o, r
<1>5. obj' \in [Ids -> Object] /\ file' \in [Ids -> Rec]
  BY <1>1, <1>4, SaveType DEF Types
<1>6. task' \in [Tasks -> Task]
  BY <1>3, <1>4 DEF Types
<1> QED
  BY <1>4, <1>5, <1>6 DEF Types

LEMMA DownType ==
    ASSUME Types, Down
    PROVE  /\ server' = "down" /\ live' = {} /\ exiting' = {} /\ hb' = {}
           /\ obj' \in [Ids -> Object]
           /\ child' \in [Ids -> {"none", "running", "killed", "gone"}]
           /\ task' \in [Tasks -> Task]
           /\ beat' \in [Ids -> [pc : {"idle", "posting", "registering"}, snap : Rec]]
           /\ machine' \in [known : BOOLEAN, pc : {"idle", "machine", "visit", "pi"},
                            todo : SUBSET Ids, id : Ids, snap : Rec]
           /\ loop' \in [todo : SUBSET Ids, snap : [Ids -> Rec]]
<1>1. server' = "down" /\ live' = {} /\ exiting' = {} /\ hb' = {}
      /\ obj' \in [Ids -> Object]
      /\ child' \in [Ids -> {"none", "running", "killed", "gone"}]
  BY NoObjectType DEF Down, Types
<1>2. task' \in [Tasks -> Task]
  BY NoTaskType DEF Down
<1>3. beat' \in [Ids -> [pc : {"idle", "posting", "registering"}, snap : Rec]]
  BY NoObjectType DEF Down, Idle
<1>4. NoTask.id \in Ids
  BY NoTaskType DEF Task
<1>5. machine' = [known |-> machine.known, pc |-> "idle", todo |-> {}, id |-> NoTask.id,
                  snap |-> Absent]
  BY DEF Down, IdleMachine
<1>6. machine.known \in BOOLEAN
  BY DEF Types
<1>7. machine' \in [known : BOOLEAN, pc : {"idle", "machine", "visit", "pi"},
                    todo : SUBSET Ids, id : Ids, snap : Rec]
  BY <1>4, <1>5, <1>6, NoObjectType
<1>8. loop' \in [todo : SUBSET Ids, snap : [Ids -> Rec]]
  BY NoObjectType DEF Down, NoLoop
<1> QED
  BY <1>1, <1>2, <1>3, <1>7, <1>8

LEMMA RegisteredType ==
    ASSUME Types, NEW i \in Ids, NEW snap \in Rec, NEW status \in Status \cup {"absent"},
           Registered(i, snap, status)
    PROVE  /\ hb' \subseteq Ids /\ file' \in [Ids -> Rec]
           /\ log' \in [raced : SUBSET Ids, dropped : SUBSET Ids, undisposed : SUBSET Ids,
                        failed : BOOLEAN]
<1>1. [snap EXCEPT !.status = status, !.pi = TRUE] \in Rec
  BY DEF Rec
<1>2. hb' \subseteq Ids /\ file' \in [Ids -> Rec]
  BY <1>1 DEF Registered, Types
<1>3. log' = [log EXCEPT !.raced = log'.raced] /\ log'.raced \subseteq Ids
  BY DEF Registered, Types
<1> QED
  BY <1>2, <1>3 DEF Types

LEMMA InitTypes == Init => Types
<1> SUFFICES ASSUME Init PROVE Types
  OBVIOUS
<1>1. radius \in BOOLEAN /\ budget \in Bound
  BY SupervisorAssumption DEF Init, Scenario
<1>2. task \in [Tasks -> Task]
  BY NoTaskType DEF Init
<1>3. NoTask.id \in Ids
  BY NoTaskType DEF Task
<1>4. machine \in [known : BOOLEAN, pc : {"idle", "machine", "visit", "pi"},
                   todo : SUBSET Ids, id : Ids, snap : Rec]
  BY <1>3, NoObjectType DEF Init, IdleMachine
<1>5. loop \in [todo : SUBSET Ids, snap : [Ids -> Rec]]
      /\ beat \in [Ids -> [pc : {"idle", "posting", "registering"}, snap : Rec]]
  BY NoObjectType DEF Init, NoLoop, Idle
<1> QED
  BY <1>1, <1>2, <1>4, <1>5, NoObjectType DEF Init, Types

\* Requests of clients and their answers.
LEMMA RequestTypes ==
    ASSUME Types, NEW t \in Tasks, Request(t) \/ RpcAnswered(t)
    PROVE  Types'
<1>0. /\ task[t] \in Task /\ task[t].id \in Ids
      /\ \A r \in Task : [task EXCEPT ![t] = r] \in [Tasks -> Task]
  BY DEF Types, Task
<1>1. CASE StreamRpc(t)
  <2>1. [task[t] EXCEPT !.pc = "rpc"] \in Task
    BY <1>0 DEF Task, TaskPc, Waiting
  <2>2. task' \in [Tasks -> Task]
    BY <1>0, <1>1, <2>1, NoTaskType DEF StreamRpc
  <2>3. budget' \in Bound
    BY <1>1, SpendType DEF StreamRpc, Types
  <2> QED
    BY <1>1, <2>2, <2>3 DEF StreamRpc, Types
<1>2. ASSUME NEW i \in Ids, Free(t) PROVE budget' \in Bound
  BY <1>2, SpendType DEF Free, Types
<1>3. ASSUME NEW i \in Ids, Spawn(t, i) PROVE Types'
  <2> DEFINE o == [NoObject EXCEPT !.status = "starting", !.rpc = TRUE, !.bound = TRUE]
             r == [NoTask EXCEPT !.pc = "state", !.op = "spawn", !.id = i]
  <2>1. o \in Object
    BY DEF NoObject, Object, Status
  <2>2. r \in Task
    BY NoTaskType DEF Task, TaskPc, Waiting
  <2>3. Save(i, o) /\ task' = [task EXCEPT ![t] = r] /\ Free(t)
    BY <1>3 DEF Spawn
  <2> HIDE DEF o, r
  <2>4. obj' \in [Ids -> Object] /\ file' \in [Ids -> Rec]
    BY <2>1, <2>3, SaveType DEF Types
  <2>5. task' \in [Tasks -> Task]
    BY <1>0, <2>2, <2>3
  <2> QED
    BY <1>2, <1>3, <2>3, <2>4, <2>5 DEF Spawn, Types
<1>4. ASSUME NEW i \in Ids, Stop(t, i) PROVE Types'
  <2>1. Cleanup(t, i, "stop", "stopping") /\ Free(t) /\ "stopping" \in Status
    BY <1>4 DEF Stop, Status
  <2>2. /\ obj' \in [Ids -> Object] /\ file' \in [Ids -> Rec] /\ hb' \subseteq Ids
        /\ task' \in [Tasks -> Task]
    BY <2>1, CleanupType
  <2> QED
    BY <1>2, <1>4, <2>1, <2>2 DEF Stop, Types
<1>5. ASSUME NEW i \in Ids, Rpc(t, i) PROVE Types'
  <2>1. /\ [NoTask EXCEPT !.pc = "rpc", !.op = "rpc", !.id = i] \in Task
        /\ [NoTask EXCEPT !.pc = "open", !.op = "stream", !.id = i] \in Task
    BY NoTaskType DEF Task, TaskPc, Waiting
  <2>2. task' \in [Tasks -> Task]
    BY <1>0, <1>5, <2>1 DEF Rpc
  <2> QED
    BY <1>2, <1>5, <2>2 DEF Rpc, Types
<1>6. CASE RpcAnswered(t)
  <2>1. [task[t] EXCEPT !.pc = "sync"] \in Task /\ Ended(task[t]) \in Task
    BY <1>0, EndedType DEF Task, TaskPc, Waiting
  <2>2. task' \in [Tasks -> Task]
    BY <1>0, <1>6, <2>1 DEF RpcAnswered
  <2>3. obj' \in [Ids -> Object] /\ file' \in [Ids -> Rec]
    BY <1>0, <1>6, SaveType DEF RpcAnswered, Types
  <2> QED
    BY <1>6, <2>2, <2>3 DEF RpcAnswered, Types
<1> QED
  BY <1>1, <1>3, <1>4, <1>5, <1>6 DEF Request

\* What the calls of the supervisor do after their awaits.
LEMMA TaskTypes ==
    ASSUME Types, NEW t \in Tasks, TaskStep(t)
    PROVE  Types'
<1> DEFINE i == task[t].id
<1>0. /\ task[t] \in Task /\ i \in Ids /\ obj[i] \in Object
      /\ \A r \in Task : [task EXCEPT ![t] = r] \in [Tasks -> Task]
  BY DEF Types, Task
<1>1. \A pc \in TaskPc : /\ [task[t] EXCEPT !.pc = pc] \in Task
                         /\ [task EXCEPT ![t].pc = pc] \in [Tasks -> Task]
  BY <1>0 DEF Types, Task
<1>2. CASE Disconnected(t)
  <2>1. CASE Answered /\ task' = [task EXCEPT ![t].pc = "dispose"]
    <3>1. task' \in [Tasks -> Task]
      BY <1>1, <2>1 DEF TaskPc, Micro
    <3> QED
      BY <1>2, <2>1, <3>1, AnsweredType DEF Disconnected, Types
  <2>2. CASE /\ Spend("failures")
             /\ task' = [task EXCEPT ![t].pc = "finish", ![t].ok = FALSE]
             /\ log' = [log EXCEPT !.failed = TRUE,
                          !.undisposed = IF task[t].rpc THEN @ \cup {task[t].id} ELSE @]
    <3>1. [task[t] EXCEPT !.pc = "finish", !.ok = FALSE] \in Task
      BY <1>0 DEF Task, TaskPc, Micro
    <3>2. task' = [task EXCEPT ![t] = [task[t] EXCEPT !.pc = "finish", !.ok = FALSE]]
      BY <2>2 DEF Types
    <3>3. task' \in [Tasks -> Task]
      BY <1>0, <3>1, <3>2
    <3>4. log'.undisposed \subseteq Ids /\ log' = [log EXCEPT !.failed = TRUE, !.undisposed = log'.undisposed]
      BY <1>0, <2>2 DEF Types
    <3>5. log' \in [raced : SUBSET Ids, dropped : SUBSET Ids, undisposed : SUBSET Ids,
                    failed : BOOLEAN]
      BY <3>4 DEF Types
    <3>6. budget' \in Bound
      BY <2>2, SpendType DEF Types
    <3> QED
      BY <1>2, <3>3, <3>5, <3>6 DEF Disconnected, Types
  <2> QED
    BY <1>2, <2>1, <2>2 DEF Disconnected
<1>3. CASE Dispose(t)
  <2> DEFINE rest == IF task[t].rpc THEN Reject(i, task) ELSE task
  <2>1. rest \in [Tasks -> Task]
    BY RejectType DEF Types
  <2>2. \A pc \in TaskPc : [rest EXCEPT ![t].pc = pc] \in [Tasks -> Task]
    <3>1. rest[t] \in Task
      BY <2>1
    <3>2. \A pc \in TaskPc : [rest[t] EXCEPT !.pc = pc] \in Task
      BY <3>1, SMTT(30) DEF Task
    <3> HIDE DEF rest
    <3> QED
      BY <2>1, <3>2
  <2>3. task' = [rest EXCEPT ![t].pc = "exit"] \/ task' = [rest EXCEPT ![t].pc = "finish"]
    BY <1>3 DEF Dispose
  <2> HIDE DEF rest
  <2>4. task' \in [Tasks -> Task]
    BY <2>2, <2>3 DEF TaskPc, Micro
  <2>5. [obj[i] EXCEPT !.pi = FALSE, !.held = FALSE, !.rpc = @ /\ ~task[t].rpc] \in Object
    BY <1>0 DEF Object
  <2>6. obj' = [obj EXCEPT ![i] = [obj[i] EXCEPT !.pi = FALSE, !.held = FALSE,
                                                 !.rpc = @ /\ ~task[t].rpc]]
    BY <1>0, <1>3 DEF Dispose, Types
  <2>7. obj' \in [Ids -> Object]
    BY <2>5, <2>6 DEF Types
  <2>8. child' \in [Ids -> {"none", "running", "killed", "gone"}]
    BY <1>3 DEF Dispose, Types
  <2> QED
    BY <1>3, <2>4, <2>7, <2>8 DEF Dispose, Types
<1>4. CASE Finish(t)
  <2> DEFINE o == [obj[i] EXCEPT !.status = "stopped"]
  <2>1. o \in Object
    BY <1>0 DEF Object, Status
  <2>2. obj' = [obj EXCEPT ![i] = o]
        /\ (file' = [file EXCEPT ![i] = Absent] \/ file' = [file EXCEPT ![i] = RecordOf(o)])
    BY <1>4 DEF Finish
  <2> HIDE DEF o
  <2>3. obj' \in [Ids -> Object] /\ file' \in [Ids -> Rec]
    <3>1. RecordOf(o) \in Rec /\ Absent \in Rec
      BY <2>1, RecordOfType, NoObjectType
    <3>2. obj \in [Ids -> Object] /\ file \in [Ids -> Rec]
      BY DEF Types
    <3> HIDE DEF i
    <3>3. obj' \in [Ids -> Object]
      BY <2>1, <2>2, <3>2
    <3>4. file' \in [Ids -> Rec]
      BY <2>2, <3>1, <3>2
    <3> QED
      BY <3>3, <3>4
  <2>4. task' \in [Tasks -> Task]
    BY <1>0, <1>4, NoTaskType DEF Finish
  <2> QED
    BY <1>4, <2>3, <2>4 DEF Finish, Types, Serving
<1>5. CASE Rejected(t)
  <2>1. CASE Cleanup(t, i, "spawn", "error")
    <3>1. "error" \in Status
      BY DEF Status
    <3>2. /\ obj' \in [Ids -> Object] /\ file' \in [Ids -> Rec] /\ hb' \subseteq Ids
          /\ task' \in [Tasks -> Task]
      BY <1>0, <2>1, <3>1, CleanupType
    <3> QED
      BY <1>5, <3>2 DEF Rejected, Types
  <2>2. CASE task' = [task EXCEPT ![t] = Ended(@)] /\ UNCHANGED <<obj, file, hb>>
    <3>1. task' \in [Tasks -> Task]
      BY <1>0, <2>2, EndedType
    <3> QED
      BY <1>5, <2>2, <3>1 DEF Rejected, Types
  <2> QED
    BY <1>5, <2>1, <2>2 DEF Rejected
<1>6. CASE StateAnswered(t)
  <2> DEFINE o == IF radius THEN obj[i] ELSE [obj[i] EXCEPT !.status = "online"]
  <2>1. o \in Object
    BY <1>0 DEF Object, Status
  <2>2. Save(i, o)
    BY <1>6 DEF StateAnswered
  <2> HIDE DEF o
  <2>3. obj' \in [Ids -> Object] /\ file' \in [Ids -> Rec]
    BY <1>0, <2>1, <2>2, SaveType DEF Types
  <2>4. task' \in [Tasks -> Task]
    BY <1>0, <1>1, <1>6, NoTaskType DEF StateAnswered, TaskPc, Micro
  <2> QED
    BY <1>6, <2>3, <2>4 DEF StateAnswered, Types
<1>7. CASE SpawnRegistered(t)
  <2>1. CASE /\ Registered(i, [status |-> "starting", pi |-> FALSE], "online")
             /\ obj' = [obj EXCEPT ![i].status = "online", ![i].pi = TRUE, ![i].held = TRUE]
             /\ task' = [task EXCEPT ![t] = NoTask]
             /\ UNCHANGED budget
    <3>1. [status |-> "starting", pi |-> FALSE] \in Rec /\ "online" \in Status
      BY DEF Rec, Status
    <3>2. /\ hb' \subseteq Ids /\ file' \in [Ids -> Rec]
          /\ log' \in [raced : SUBSET Ids, dropped : SUBSET Ids, undisposed : SUBSET Ids,
                        failed : BOOLEAN]
      BY <1>0, <2>1, <3>1, RegisteredType
    <3>3. [obj[i] EXCEPT !.status = "online", !.pi = TRUE, !.held = TRUE] \in Object
      BY <1>0 DEF Object, Status
    <3>4. obj' = [obj EXCEPT ![i] = [obj[i] EXCEPT !.status = "online", !.pi = TRUE, !.held = TRUE]]
      BY <1>0, <2>1 DEF Types
    <3>5. obj' \in [Ids -> Object] /\ task' \in [Tasks -> Task]
      BY <1>0, <2>1, <3>3, <3>4, NoTaskType DEF Types
    <3> QED
      BY <1>7, <2>1, <3>2, <3>5 DEF SpawnRegistered, Types
  <2>2. CASE Fails /\ task' = [task EXCEPT ![t].pc = "rejected"] /\ UNCHANGED <<obj, file, hb>>
    <3>1. task' \in [Tasks -> Task]
      BY <1>1, <2>2 DEF TaskPc, Micro
    <3> QED
      BY <1>7, <2>2, <3>1, AnsweredType DEF SpawnRegistered, Types
  <2> QED
    BY <1>7, <2>1, <2>2 DEF SpawnRegistered
<1> QED
  BY <1>2, <1>3, <1>4, <1>5, <1>6, <1>7 DEF TaskStep

\* Heartbeats and registrations of the machine.
LEMMA ReRegisteredType ==
    ASSUME Types, NEW i \in Ids, NEW snap \in Rec, ReRegistered(i, snap)
    PROVE  /\ hb' \subseteq Ids /\ file' \in [Ids -> Rec] /\ obj' \in [Ids -> Object]
           /\ log' \in [raced : SUBSET Ids, dropped : SUBSET Ids, undisposed : SUBSET Ids,
                        failed : BOOLEAN]
           /\ budget' \in Bound
<1>0. obj[i] \in Object /\ snap.status \in Status \cup {"absent"}
  BY DEF Types, Rec
<1>1. CASE /\ Registered(i, snap, snap.status)
           /\ obj' = IF i \in live
                     THEN [obj EXCEPT ![i].status = snap.status, ![i].pi = TRUE, ![i].held = TRUE]
                     ELSE obj
           /\ UNCHANGED budget
  <2>1. [obj[i] EXCEPT !.status = snap.status, !.pi = TRUE, !.held = TRUE] \in Object
    BY <1>0 DEF Object
  <2>2. \/ obj' = obj
        \/ obj' = [obj EXCEPT ![i] = [obj[i] EXCEPT !.status = snap.status, !.pi = TRUE, !.held = TRUE]]
    BY <1>1 DEF Types
  <2>3. obj' \in [Ids -> Object]
    BY <2>1, <2>2 DEF Types
  <2> QED
    BY <1>0, <1>1, <2>3, RegisteredType DEF Types
<1>2. CASE Fails /\ UNCHANGED <<obj, file, hb>>
  BY <1>2, AnsweredType DEF Types
<1> QED
  BY <1>1, <1>2 DEF ReRegistered

LEMMA RadiusTypes ==
    ASSUME Types,
           \/ MachineForgotten \/ MachineStep
           \/ \E i \in Ids : BeatRegistered(i) \/ Beat(i) \/ Beaten(i)
    PROVE  Types'
<1> DEFINE Beats == [pc : {"idle", "posting", "registering"}, snap : Rec]
           Machines == [known : BOOLEAN, pc : {"idle", "machine", "visit", "pi"},
                        todo : SUBSET Ids, id : Ids, snap : Rec]
<1>0. machine \in Machines /\ machine.snap \in Rec /\ machine.id \in Ids
  BY DEF Types
<1>1. ASSUME NEW i \in Ids, Beat(i) PROVE Types'
  <2>1. [beat[i] EXCEPT !.pc = "posting"] \in Beats
    BY DEF Types
  <2>2. beat' = [beat EXCEPT ![i] = [beat[i] EXCEPT !.pc = "posting"]]
    BY <1>1 DEF Beat, Types
  <2>3. beat' \in [Ids -> Beats] /\ budget' \in Bound
    BY <1>1, <2>1, <2>2, SpendType DEF Beat, Types
  <2> QED
    BY <1>1, <2>3 DEF Beat, Types
<1>2. ASSUME NEW i \in Ids, Beaten(i) PROVE Types'
  <2>1. /\ [beat[i] EXCEPT !.pc = "idle"] \in Beats
        /\ [pc |-> "registering", snap |-> RecordOf(obj[i])] \in Beats
    BY RecordOfType DEF Types
  <2>2. \/ beat' = [beat EXCEPT ![i] = [beat[i] EXCEPT !.pc = "idle"]]
        \/ beat' = [beat EXCEPT ![i] = [pc |-> "registering", snap |-> RecordOf(obj[i])]]
    BY <1>2 DEF Beaten, Types
  <2>3. beat' \in [Ids -> Beats] /\ hb' \subseteq Ids
    BY <1>2, <2>1, <2>2, SMTT(30) DEF Beaten, Types
  <2> QED
    BY <1>2, <2>3 DEF Beaten, Types
<1>3. ASSUME NEW i \in Ids, BeatRegistered(i) PROVE Types'
  <2>1. beat[i].snap \in Rec /\ ReRegistered(i, beat[i].snap)
    BY <1>3 DEF BeatRegistered, Types
  <2>2. /\ hb' \subseteq Ids /\ file' \in [Ids -> Rec] /\ obj' \in [Ids -> Object]
        /\ log' \in [raced : SUBSET Ids, dropped : SUBSET Ids, undisposed : SUBSET Ids,
                     failed : BOOLEAN]
        /\ budget' \in Bound
    BY <2>1, ReRegisteredType
  <2>3. beat' \in [Ids -> Beats]
    BY <1>3, NoObjectType DEF BeatRegistered, Types
  <2> QED
    BY <1>3, <2>2, <2>3 DEF BeatRegistered, Types
<1>4. CASE MachineForgotten
  <2>1. machine' \in Machines /\ budget' \in Bound
    BY <1>0, <1>4, SpendType DEF MachineForgotten, Types
  <2> QED
    BY <1>4, <2>1 DEF MachineForgotten, Types
<1>5. CASE MachineRegistered
  <2>1. machine' \in Machines
    BY <1>0, <1>5, ZenonT(60) DEF MachineRegistered, Types
  <2>2. /\ budget' \in Bound
        /\ log' \in [raced : SUBSET Ids, dropped : SUBSET Ids, undisposed : SUBSET Ids,
                     failed : BOOLEAN]
    BY <1>5, AnsweredType DEF MachineRegistered
  <2> QED
    BY <1>5, <2>1, <2>2 DEF MachineRegistered, Types
<1>6. CASE MachineVisits
  <2>1. \A i \in Ids : RecordOf(obj[i]) \in Rec
    BY RecordOfType DEF Types
  <2>2. hb' \subseteq Ids
    BY <1>6 DEF MachineVisits, Types
  <2>3. machine' \in Machines
    <3>1. CASE machine' = [machine EXCEPT !.pc = "idle"]
      BY <1>0, <3>1
    <3>2. ASSUME NEW i \in machine.todo,
                 machine' = [machine EXCEPT !.pc = "pi", !.todo = @ \ {i}, !.id = i,
                                            !.snap = RecordOf(obj[i])]
          PROVE  machine' \in Machines
      BY <1>0, <2>1, <3>2
    <3>3. ASSUME NEW i \in machine.todo, machine' = [machine EXCEPT !.todo = @ \ {i}]
          PROVE  machine' \in Machines
      BY <1>0, <3>3
    <3> QED
      BY <1>6, <3>1, <3>2, <3>3 DEF MachineVisits
  <2> QED
    BY <1>6, <2>2, <2>3 DEF MachineVisits, Types
<1>7. CASE MachinePiRegistered
  <2>1. ReRegistered(machine.id, machine.snap)
    BY <1>7 DEF MachinePiRegistered
  <2>2. /\ hb' \subseteq Ids /\ file' \in [Ids -> Rec] /\ obj' \in [Ids -> Object]
        /\ log' \in [raced : SUBSET Ids, dropped : SUBSET Ids, undisposed : SUBSET Ids,
                     failed : BOOLEAN]
        /\ budget' \in Bound
    BY <1>0, <2>1, ReRegisteredType
  <2>3. machine' \in Machines
    BY <1>0, <1>7, NoObjectType DEF MachinePiRegistered
  <2> QED
    BY <1>7, <2>2, <2>3 DEF MachinePiRegistered, Types
<1> QED
  BY <1>1, <1>2, <1>3, <1>4, <1>5, <1>6, <1>7 DEF MachineStep

\* The exit of an agent process.
LEMMA ExitTypes ==
    ASSUME Types, NEW i \in Ids, ChildExits(i) \/ ExitDisconnected(i)
    PROVE  Types'
<1>0. obj[i] \in Object
  BY DEF Types
<1>1. CASE ChildExits(i)
  <2> DEFINE o == [obj[i] EXCEPT !.status = "error", !.bound = FALSE, !.rpc = FALSE]
             rest == [t \in Tasks |-> IF task[t].id = i /\ task[t].pc = "exit"
                                      THEN [task[t] EXCEPT !.pc = "finish"] ELSE task[t]]
  <2>1. o \in Object
    BY <1>0 DEF Object, Status
  <2>2. rest \in [Tasks -> Task]
    <3>1. ASSUME NEW t \in Tasks PROVE task[t] \in Task /\ [task[t] EXCEPT !.pc = "finish"] \in Task
      BY SMTT(30) DEF Types, Task, TaskPc, Micro
    <3> QED
      BY <3>1
  <2>3. task' = Reject(i, rest) /\ (UNCHANGED <<obj, file>> \/ Save(i, o))
    BY <1>1 DEF ChildExits
  <2> HIDE DEF o, rest
  <2>4. task' \in [Tasks -> Task]
    BY <2>2, <2>3, RejectType
  <2>5. obj' \in [Ids -> Object] /\ file' \in [Ids -> Rec]
    BY <2>1, <2>3, SaveType DEF Types
  <2>6. budget' \in Bound
    BY <1>1, SpendType DEF ChildExits, Types
  <2>7. live' \subseteq Ids /\ exiting' \subseteq Ids /\ hb' \subseteq Ids
        /\ child' \in [Ids -> {"none", "running", "killed", "gone"}]
    BY <1>1 DEF ChildExits, Types
  <2> QED
    BY <1>1, <2>4, <2>5, <2>6, <2>7 DEF ChildExits, Types
<1>2. CASE ExitDisconnected(i)
  <2>1. [obj[i] EXCEPT !.pi = FALSE] \in Object
    BY <1>0 DEF Object
  <2>2. obj' \in [Ids -> Object] /\ file' \in [Ids -> Rec]
    BY <1>2, <2>1, SaveType DEF ExitDisconnected, Types
  <2>3. /\ budget' \in Bound
        /\ log' \in [raced : SUBSET Ids, dropped : SUBSET Ids, undisposed : SUBSET Ids,
                     failed : BOOLEAN]
    BY <1>2, AnsweredType DEF ExitDisconnected
  <2> QED
    BY <1>2, <2>2, <2>3 DEF ExitDisconnected, Types
<1> QED
  BY <1>1, <1>2

\* The start, the recovery, the shutdown and the crash of the server.
LEMMA ServerTypes ==
    ASSUME Types, Start \/ ServerStep \/ Signal \/ Crash
    PROVE  Types'
<1> DEFINE Loops == [todo : SUBSET Ids, snap : [Ids -> Rec]]
           Logs == [raced : SUBSET Ids, dropped : SUBSET Ids, undisposed : SUBSET Ids,
                    failed : BOOLEAN]
<1>0. loop \in Loops /\ log \in Logs
  BY DEF Types
<1>1. CASE Start
  <2>1. \A i \in Ids : Recovered(file[i]) \in Rec
    BY ZenonT(60) DEF Types, Recovered, Rec, Status
  <2>2. loop' \in Loops
    BY <1>1, <2>1 DEF Start
  <2>3. budget' \in Bound
    BY <1>1, SpendType DEF Start, Types
  <2> QED
    BY <1>1, <2>2, <2>3 DEF Start, Types, Serving
<1>2. CASE RecoverNext
  <2>1. budget' \in Bound /\ log' \in Logs
    BY <1>2, AnsweredType DEF RecoverNext
  <2>2. CASE Down
    BY <1>2, <2>1, <2>2, DownType DEF RecoverNext, Types
  <2>3. CASE ~Down
    <3>1. PICK i \in loop.todo : loop' = [loop EXCEPT !.todo = @ \ {i}]
      BY <1>2, <2>3 DEF RecoverNext
    <3>2. loop' \in Loops
      BY <1>0, <3>1
    <3> QED
      BY <1>2, <2>1, <2>3, <3>2 DEF RecoverNext, Types
  <2> QED
    BY <2>2, <2>3
<1>3. CASE RecoverSave
  <2>1. file' \in [Ids -> Rec]
    BY <1>0, <1>3 DEF RecoverSave
  <2>2. loop' \in Loops
    BY <1>3, NoObjectType DEF RecoverSave, NoLoop
  <2>3. log'.dropped \subseteq Ids /\ log' = [log EXCEPT !.dropped = log'.dropped]
    BY <1>0, <1>3 DEF RecoverSave
  <2>4. log' \in Logs
    BY <1>0, <2>3
  <2> QED
    BY <1>3, <2>1, <2>2, <2>4 DEF RecoverSave, Types, Serving
<1>4. CASE Started
  <2>1. budget' \in Bound /\ log' \in Logs
    BY <1>4, AnsweredType DEF Started
  <2>2. CASE Down
    BY <1>4, <2>1, <2>2, DownType DEF Started, Types
  <2>3. CASE ~Down
    <3>1. machine' \in [known : BOOLEAN, pc : {"idle", "machine", "visit", "pi"},
                        todo : SUBSET Ids, id : Ids, snap : Rec]
      BY <1>4, <2>3 DEF Started, Types
    <3> QED
      BY <1>4, <2>1, <2>3, <3>1 DEF Started, Types, Serving
  <2> QED
    BY <2>2, <2>3
<1>5. CASE ShutdownNext
  <2>1. ASSUME NEW i \in loop.todo, Cleanup(Sig, i, "stop", "stopping"),
               loop' = [loop EXCEPT !.todo = @ \ {i}],
               UNCHANGED <<radius, log, budget, server, live, child, exiting, beat, machine>>
        PROVE  Types'
    <3>1. i \in Ids /\ Sig \in Tasks /\ "stopping" \in Status /\ loop' \in Loops
      BY <1>0, <2>1 DEF Tasks, Status
    <3>2. /\ obj' \in [Ids -> Object] /\ file' \in [Ids -> Rec] /\ hb' \subseteq Ids
          /\ task' \in [Tasks -> Task]
      BY <2>1, <3>1, CleanupType
    <3> QED
      BY <2>1, <3>1, <3>2 DEF Types
  <2>2. ASSUME NEW i \in loop.todo, loop' = [loop EXCEPT !.todo = @ \ {i}],
               UNCHANGED <<obj, file, hb, task>>,
               UNCHANGED <<radius, log, budget, server, live, child, exiting, beat, machine>>
        PROVE  Types'
    <3>1. loop' \in Loops
      BY <1>0, <2>2
    <3> QED
      BY <2>2, <3>1 DEF Types
  <2>3. CASE server' = "leaving" /\ hb' = {}
             /\ UNCHANGED <<live, obj, file, child, task, exiting, beat, machine, loop>>
             /\ UNCHANGED <<radius, log, budget>>
    BY <2>3 DEF Types, Serving
  <2>4. CASE Down /\ UNCHANGED file /\ UNCHANGED <<radius, log, budget>>
    BY <2>4, DownType DEF Types
  <2> QED
    BY <1>5, <2>1, <2>2, <2>3, <2>4 DEF ShutdownNext
<1>6. CASE Leave
  <2>1. budget' \in Bound /\ log' \in Logs
    BY <1>6, AnsweredType DEF Leave
  <2>2. CASE Down
    BY <1>6, <2>1, <2>2, DownType DEF Leave, Types
  <2>3. CASE ~Down
    BY <1>6, <2>1, <2>3 DEF Leave, Types, Serving
  <2> QED
    BY <2>2, <2>3
<1>7. CASE Signal
  <2>1. loop' = [todo |-> live, snap |-> [i \in Ids |-> Absent]]
    BY <1>7 DEF Signal, NoLoop
  <2>2. loop' \in Loops
    BY <2>1, NoObjectType DEF Types
  <2>3. budget' \in Bound
    BY <1>7, SpendType DEF Signal, Types
  <2> QED
    BY <1>7, <2>2, <2>3 DEF Signal, Types, Serving
<1>8. CASE Crash
  <2>1. budget' \in Bound
    BY <1>8, SpendType DEF Crash, Types
  <2> QED
    BY <1>8, <2>1, DownType DEF Crash, Types
<1> QED
  BY <1>1, <1>2, <1>3, <1>4, <1>5, <1>6, <1>7, <1>8 DEF ServerStep

LEMMA NextTypes == Types /\ [Next]_vars => Types'
<1> SUFFICES ASSUME Types, [Next]_vars PROVE Types'
  OBVIOUS
<1>1. CASE UNCHANGED vars
  BY <1>1 DEF vars, Types
<1> QED
  BY <1>1, RequestTypes, TaskTypes, RadiusTypes, ExitTypes, ServerTypes DEF Next, InstanceStep

-----------------------------------------------------------------------------
(* What the actions do, instance by instance and task by task *)

\* Task t becomes r.
Becomes(t, r) == task'[t] = r /\ \A u \in Tasks \ {t} : task'[u] = task[u]

LEMMA TaskSet ==
    ASSUME Types, NEW t \in Tasks, NEW r, task' = [task EXCEPT ![t] = r]
    PROVE  Becomes(t, r)
  BY DEF Types, Becomes

LEMMA SaveEffect ==
    ASSUME Types, NEW i \in Ids, NEW o \in Object, Save(i, o)
    PROVE  /\ obj'[i] = o /\ file'[i].status = o.status /\ file'[i] = RecordOf(o)
           /\ \A k \in Ids \ {i} : obj'[k] = obj[k] /\ file'[k] = file[k]
<1>1. RecordOf(o).status = o.status
  BY RecordOfType
<1> QED
  BY <1>1 DEF Save, Types

CleanupDone(t, i, op, status) ==
    /\ obj'[i].status = status /\ obj'[i].bound = FALSE
    /\ obj'[i].rpc = obj[i].rpc /\ obj'[i].held = obj[i].held
    /\ file'[i].status = status
    /\ i \in hb' => i \in hb /\ ~obj[i].held
    /\ \A k \in Ids \ {i} : obj'[k] = obj[k] /\ file'[k] = file[k] /\ (k \in hb' <=> k \in hb)
    /\ task'[t].pc \in {"disconnect", "dispose"} /\ task'[t].op = op /\ task'[t].id = i
    /\ task'[t].rpc = obj[i].rpc
    /\ task'[t].pc = "disconnect" => obj[i].held
    /\ \A u \in Tasks \ {t} : task'[u] = task[u]

LEMMA CleanupEffect ==
    ASSUME Types, NEW t \in Tasks, NEW i \in Ids, NEW op, NEW status, status \in Status,
           Cleanup(t, i, op, status)
    PROVE  CleanupDone(t, i, op, status)
<1> USE DEF CleanupDone
<1> DEFINE o == [obj[i] EXCEPT !.status = status, !.bound = FALSE]
           r == [pc |-> IF o.held /\ o.pi THEN "disconnect" ELSE "dispose",
                 op |-> op, id |-> i, rpc |-> o.rpc, ok |-> TRUE]
<1>0. obj[i] \in Object
  BY DEF Types
<1>1. o \in Object /\ o.status = status /\ o.bound = FALSE /\ o.rpc = obj[i].rpc /\ o.held = obj[i].held
  BY <1>0 DEF Object
<1>2. r.pc \in {"disconnect", "dispose"} /\ r.op = op /\ r.id = i /\ r.rpc = obj[i].rpc
      /\ (r.pc = "disconnect" => obj[i].held)
  BY <1>1
<1>3. Save(i, o) /\ hb' = (IF o.held THEN hb \ {i} ELSE hb) /\ task' = [task EXCEPT ![t] = r]
  BY DEF Cleanup
<1> HIDE DEF o, r
<1>4. Becomes(t, r)
  BY <1>3, TaskSet
<1>5. obj'[i] = o /\ file'[i].status = o.status /\ \A k \in Ids \ {i} : obj'[k] = obj[k] /\ file'[k] = file[k]
  BY <1>1, <1>3, SaveEffect
<1> QED
  BY <1>1, <1>2, <1>3, <1>4, <1>5 DEF Becomes

\* A task that is set back to where it waits, or ends.
LEMMA EndedEffect ==
    ASSUME NEW r \in Task
    PROVE  Ended(r).pc \in {"idle", "open"} /\ (Ended(r).pc = "open" => Ended(r).op = "stream" /\ Ended(r).id = r.id)
           /\ (Ended(r).pc = "open" => r.op = "stream")
  BY NoTaskType DEF Ended, Task

LEMMA PcSet ==
    ASSUME NEW r \in Task, NEW pc
    PROVE  LET q == [r EXCEPT !.pc = pc]
           IN  q.pc = pc /\ q.op = r.op /\ q.id = r.id /\ q.rpc = r.rpc
  BY DEF Task

LEMMA RejectEffect ==
    ASSUME NEW i, NEW tasks \in [Tasks -> Task], NEW t \in Tasks
    PROVE  LET q == Reject(i, tasks)[t]
           IN  /\ q.op = tasks[t].op /\ q.id = tasks[t].id /\ q.rpc = tasks[t].rpc
               /\ tasks[t].id = i /\ tasks[t].pc \in Waiting => q.pc = "rejected"
               /\ ~(tasks[t].id = i /\ tasks[t].pc \in Waiting) => q = tasks[t]
<1>1. tasks[t] \in Task
  OBVIOUS
<1>2. Reject(i, tasks)[t] = IF tasks[t].id = i /\ tasks[t].pc \in Waiting
                            THEN [tasks[t] EXCEPT !.pc = "rejected"] ELSE tasks[t]
  BY DEF Reject
<1> QED
  BY <1>1, <1>2, PcSet

Spawned(t, i) ==
    /\ child[i] = "none" /\ child'[i] = "running" /\ live' = live \cup {i} /\ hb' = hb
    /\ obj'[i].status = "starting" /\ obj'[i].rpc = TRUE /\ obj'[i].bound = TRUE /\ obj'[i].held = FALSE
    /\ file'[i].status = "starting"
    /\ \A k \in Ids \ {i} : obj'[k] = obj[k] /\ file'[k] = file[k] /\ child'[k] = child[k]
    /\ task[t].pc = "idle" /\ NoMicro /\ server \in Serving /\ t # Sig
    /\ task'[t].pc = "state" /\ task'[t].op = "spawn" /\ task'[t].id = i
    /\ \A u \in Tasks \ {t} : task'[u] = task[u]
    /\ UNCHANGED <<radius, server, exiting, beat, machine, loop, log>>

LEMMA SpawnEffect ==
    ASSUME Types, NEW t \in Tasks, NEW i \in Ids, Spawn(t, i)
    PROVE  Spawned(t, i)
<1> USE DEF Spawned
<1> DEFINE o == [NoObject EXCEPT !.status = "starting", !.rpc = TRUE, !.bound = TRUE]
           r == [NoTask EXCEPT !.pc = "state", !.op = "spawn", !.id = i]
<1>1. o \in Object /\ o.status = "starting" /\ o.rpc = TRUE /\ o.bound = TRUE /\ o.held = FALSE
  BY DEF NoObject, Object, Status
<1>2. r.pc = "state" /\ r.op = "spawn" /\ r.id = i
  BY NoTaskType DEF Task
<1>3. Save(i, o) /\ task' = [task EXCEPT ![t] = r]
  BY DEF Spawn
<1> HIDE DEF o, r
<1>4. Becomes(t, r)
  BY <1>3, TaskSet
<1>5. obj'[i] = o /\ file'[i].status = o.status /\ \A k \in Ids \ {i} : obj'[k] = obj[k] /\ file'[k] = file[k]
  BY <1>1, <1>3, SaveEffect
<1>6. child'[i] = "running" /\ \A k \in Ids \ {i} : child'[k] = child[k]
  BY DEF Spawn, Types
<1>7. child[i] = "none" /\ live' = live \cup {i} /\ hb' = hb /\ task[t].pc = "idle" /\ NoMicro
      /\ server \in Serving /\ UNCHANGED <<radius, server, exiting, beat, machine, loop, log>>
      /\ t # Sig
  BY SupervisorAssumption DEF Spawn, Free
<1> QED
  BY <1>1, <1>2, <1>4, <1>5, <1>6, <1>7 DEF Becomes

DisconnectDone(t) ==
    /\ task[t].pc = "disconnect"
    /\ task'[t].op = task[t].op /\ task'[t].id = task[t].id /\ task'[t].rpc = task[t].rpc
    /\ \/ task'[t].pc = "dispose" /\ log' = log
       \/ /\ task'[t].pc = "finish" /\ log'.raced = log.raced /\ log'.dropped = log.dropped
          /\ log.undisposed \subseteq log'.undisposed
          /\ task[t].rpc => task[t].id \in log'.undisposed
    /\ \A u \in Tasks \ {t} : task'[u] = task[u]
    /\ UNCHANGED <<radius, server, live, obj, file, child, exiting, hb, beat, machine, loop>>

LEMMA DisconnectedEffect ==
    ASSUME Types, NEW t \in Tasks, Disconnected(t)
    PROVE  DisconnectDone(t)
<1> USE DEF DisconnectDone
<1>0. task[t] \in Task
  BY DEF Types
<1>1. CASE Answered /\ task' = [task EXCEPT ![t].pc = "dispose"]
  <2>1. task'[t] = [task[t] EXCEPT !.pc = "dispose"] /\ \A u \in Tasks \ {t} : task'[u] = task[u]
    BY <1>1 DEF Types
  <2>2. task'[t].pc = "dispose" /\ task'[t].op = task[t].op /\ task'[t].id = task[t].id
        /\ task'[t].rpc = task[t].rpc
    BY <1>0, <2>1 DEF Task
  <2>3. log' = log
    BY <1>1 DEF Answered
  <2> QED
    BY <2>1, <2>2, <2>3 DEF Disconnected
<1>2. CASE /\ task' = [task EXCEPT ![t].pc = "finish", ![t].ok = FALSE]
           /\ log' = [log EXCEPT !.failed = TRUE,
                        !.undisposed = IF task[t].rpc THEN @ \cup {task[t].id} ELSE @]
  <2>1. task'[t] = [task[t] EXCEPT !.pc = "finish", !.ok = FALSE] /\ \A u \in Tasks \ {t} : task'[u] = task[u]
    BY <1>2 DEF Types
  <2>2. task'[t].pc = "finish" /\ task'[t].op = task[t].op /\ task'[t].id = task[t].id
        /\ task'[t].rpc = task[t].rpc
    BY <1>0, <2>1 DEF Task
  <2>3. log'.raced = log.raced /\ log'.dropped = log.dropped
        /\ log'.undisposed = IF task[t].rpc THEN log.undisposed \cup {task[t].id} ELSE log.undisposed
    BY <1>2 DEF Types
  <2> QED
    BY <2>1, <2>2, <2>3 DEF Disconnected
<1> QED
  BY <1>1, <1>2 DEF Disconnected

DisposeDone(t) ==
    LET i == task[t].id IN
    /\ task[t].pc = "dispose" /\ i \in Ids
    /\ obj'[i].status = obj[i].status /\ obj'[i].bound = obj[i].bound /\ obj'[i].held = FALSE
    /\ obj'[i].rpc = (obj[i].rpc /\ ~task[t].rpc)
    /\ child'[i] = IF task[t].rpc /\ child[i] # "gone" THEN "killed" ELSE child[i]
    /\ \A k \in Ids \ {i} : obj'[k] = obj[k] /\ child'[k] = child[k]
    /\ task'[t].pc \in {"exit", "finish"} /\ task'[t].op = task[t].op /\ task'[t].id = i
    /\ task'[t].rpc = task[t].rpc
    /\ \A u \in Tasks \ {t} :
          /\ task'[u].op = task[u].op /\ task'[u].id = task[u].id /\ task'[u].rpc = task[u].rpc
          /\ task[t].rpc /\ task[u].id = i /\ task[u].pc \in Waiting => task'[u].pc = "rejected"
          /\ ~(task[t].rpc /\ task[u].id = i /\ task[u].pc \in Waiting) => task'[u] = task[u]
    /\ UNCHANGED <<radius, server, live, file, exiting, hb, beat, machine, loop, log>>

LEMMA DisposeEffect ==
    ASSUME Types, NEW t \in Tasks, Dispose(t)
    PROVE  DisposeDone(t)
<1> USE DEF DisposeDone
<1> DEFINE i == task[t].id
           rest == IF task[t].rpc THEN Reject(i, task) ELSE task
           o == [obj[i] EXCEPT !.pi = FALSE, !.held = FALSE, !.rpc = @ /\ ~task[t].rpc]
<1>0. task[t] \in Task /\ i \in Ids /\ obj[i] \in Object /\ task[t].pc = "dispose"
  BY DEF Types, Task, Dispose
<1>1. o.status = obj[i].status /\ o.bound = obj[i].bound /\ o.held = FALSE
      /\ o.rpc = (obj[i].rpc /\ ~task[t].rpc)
  BY <1>0 DEF Object
<1>2. obj'[i] = o /\ \A k \in Ids \ {i} : obj'[k] = obj[k]
  BY <1>0 DEF Dispose, Types
<1>3. /\ child'[i] = IF task[t].rpc /\ child[i] # "gone" THEN "killed" ELSE child[i]
      /\ \A k \in Ids \ {i} : child'[k] = child[k]
  BY <1>0 DEF Dispose, Types
<1>4. rest \in [Tasks -> Task]
  BY RejectType DEF Types
<1>5. ASSUME NEW u \in Tasks
      PROVE  /\ rest[u].op = task[u].op /\ rest[u].id = task[u].id /\ rest[u].rpc = task[u].rpc
             /\ task[t].rpc /\ task[u].id = i /\ task[u].pc \in Waiting => rest[u].pc = "rejected"
             /\ ~(task[t].rpc /\ task[u].id = i /\ task[u].pc \in Waiting) => rest[u] = task[u]
  BY RejectEffect, SMTT(30) DEF Types
<1>6. PICK pc \in {"exit", "finish"} : task' = [rest EXCEPT ![t].pc = pc]
  BY DEF Dispose
<1>7. UNCHANGED <<radius, server, live, file, exiting, hb, beat, machine, loop, log>>
  BY DEF Dispose
<1> HIDE DEF rest, o, i
<1>8. task'[t] = [rest[t] EXCEPT !.pc = pc] /\ \A u \in Tasks \ {t} : task'[u] = rest[u]
  BY <1>4, <1>6
<1>9. task'[t].pc = pc /\ task'[t].op = rest[t].op /\ task'[t].id = rest[t].id /\ task'[t].rpc = rest[t].rpc
  BY <1>4, <1>8, PcSet
<1>10. task'[t].pc \in {"exit", "finish"} /\ task'[t].op = task[t].op /\ task'[t].id = i
       /\ task'[t].rpc = task[t].rpc
  BY <1>5, <1>9 DEF i
<1> QED
  BY <1>0, <1>1, <1>2, <1>3, <1>5, <1>7, <1>8, <1>10 DEF i

FinishDone(t) ==
    LET i == task[t].id IN
    /\ task[t].pc = "finish" /\ i \in Ids
    /\ obj'[i].status = "stopped" /\ obj'[i].bound = obj[i].bound /\ obj'[i].held = obj[i].held
    /\ obj'[i].rpc = obj[i].rpc
    /\ file'[i].status \in {"absent", "stopped"}
    /\ \A k \in Ids \ {i} : obj'[k] = obj[k] /\ file'[k] = file[k]
    /\ live' = live \ {i}
    /\ task'[t].pc = "idle" /\ \A u \in Tasks \ {t} : task'[u] = task[u]
    /\ server' \in {server, "stuck"}
    /\ t # Sig => server' = server
    /\ UNCHANGED <<radius, child, exiting, hb, beat, machine, loop, log>>

LEMMA FinishEffect ==
    ASSUME Types, NEW t \in Tasks, Finish(t)
    PROVE  FinishDone(t)
<1> USE DEF FinishDone
<1> DEFINE i == task[t].id
           o == [obj[i] EXCEPT !.status = "stopped"]
<1>0. task[t] \in Task /\ i \in Ids /\ obj[i] \in Object /\ task[t].pc = "finish"
  BY DEF Types, Task, Finish
<1>1. o.status = "stopped" /\ o.bound = obj[i].bound /\ o.held = obj[i].held /\ o.rpc = obj[i].rpc
      /\ o \in Object
  BY <1>0 DEF Object, Status
<1>2. obj'[i] = o /\ \A k \in Ids \ {i} : obj'[k] = obj[k]
  BY <1>0 DEF Finish, Types
<1>3. file'[i] \in {Absent, RecordOf(o)} /\ \A k \in Ids \ {i} : file'[k] = file[k]
  BY <1>0 DEF Finish, Types
<1>4. task'[t].pc = "idle" /\ \A u \in Tasks \ {t} : task'[u] = task[u]
  BY <1>0, NoTaskType DEF Finish, Types
<1>5. live' = live \ {i} /\ server' \in {server, "stuck"} /\ (t # Sig => server' = server)
      /\ UNCHANGED <<radius, child, exiting, hb, beat, machine, loop, log>>
  BY DEF Finish
<1> HIDE DEF o, i
<1>6. file'[i].status \in {"absent", "stopped"}
  BY <1>1, <1>3, RecordOfType, NoObjectType
<1> QED
  BY <1>0, <1>1, <1>2, <1>3, <1>4, <1>5, <1>6 DEF i

StateDone(t) ==
    LET i == task[t].id IN
    /\ task[t].pc = "state" /\ i \in Ids /\ NoMicro
    /\ obj'[i].status = (IF radius THEN obj[i].status ELSE "online")
    /\ obj'[i].bound = obj[i].bound /\ obj'[i].held = obj[i].held /\ obj'[i].rpc = obj[i].rpc
    /\ file'[i].status = obj'[i].status
    /\ \A k \in Ids \ {i} : obj'[k] = obj[k] /\ file'[k] = file[k]
    /\ IF radius THEN /\ task'[t].pc \in {"register", "rejected"} /\ task'[t].op = task[t].op
                      /\ task'[t].id = task[t].id
       ELSE task'[t].pc = "idle"
    /\ \A u \in Tasks \ {t} : task'[u] = task[u]
    /\ UNCHANGED <<radius, server, live, child, exiting, hb, beat, machine, loop, log>>

LEMMA StateAnsweredEffect ==
    ASSUME Types, NEW t \in Tasks, StateAnswered(t)
    PROVE  StateDone(t)
<1> USE DEF StateDone
<1> DEFINE i == task[t].id
           o == IF radius THEN obj[i] ELSE [obj[i] EXCEPT !.status = "online"]
<1>0. task[t] \in Task /\ i \in Ids /\ obj[i] \in Object /\ task[t].pc = "state" /\ NoMicro
  BY DEF Types, Task, StateAnswered
<1>1. o.status = (IF radius THEN obj[i].status ELSE "online") /\ o.bound = obj[i].bound
      /\ o.held = obj[i].held /\ o.rpc = obj[i].rpc /\ o \in Object
  BY <1>0 DEF Object, Status
<1>2. Save(i, o)
  BY DEF StateAnswered
<1>3. IF radius THEN \E pc \in {"register", "rejected"} : task'[t] = [task[t] EXCEPT !.pc = pc]
      ELSE task'[t] = NoTask
  BY <1>0 DEF StateAnswered, Types
<1>4. \A u \in Tasks \ {t} : task'[u] = task[u]
  BY <1>0 DEF StateAnswered, Types
<1>5. UNCHANGED <<radius, server, live, child, exiting, hb, beat, machine, loop, log>>
  BY DEF StateAnswered
<1> HIDE DEF o, i
<1>6. obj'[i] = o /\ file'[i].status = o.status
      /\ \A k \in Ids \ {i} : obj'[k] = obj[k] /\ file'[k] = file[k]
  BY <1>0, <1>1, <1>2, SaveEffect
<1>7. IF radius THEN /\ task'[t].pc \in {"register", "rejected"} /\ task'[t].op = task[t].op
                     /\ task'[t].id = task[t].id
      ELSE task'[t].pc = "idle"
  <2>1. CASE radius
    <3>1. PICK pc \in {"register", "rejected"} : task'[t] = [task[t] EXCEPT !.pc = pc]
      BY <1>3, <2>1
    <3> QED
      BY <1>0, <2>1, <3>1, PcSet
  <2>2. CASE ~radius
    BY <1>3, <2>2, NoTaskType
  <2> QED
    BY <2>1, <2>2
<1> QED
  BY <1>0, <1>1, <1>4, <1>5, <1>6, <1>7 DEF i

\* A registration that is answered; it races with whatever has changed the instance.
LEMMA RegisteredEffect ==
    ASSUME Types, NEW i \in Ids, NEW snap \in Rec, NEW status \in Status \cup {"absent"},
           Registered(i, snap, status)
    PROVE  /\ hb' = hb \cup {i}
           /\ log'.dropped = log.dropped /\ log'.undisposed = log.undisposed
           /\ log.raced \subseteq log'.raced /\ log'.raced \subseteq log.raced \cup {i}
           /\ i \notin log'.raced => /\ i \in live /\ obj[i].status \in {"starting", "online"}
                                     /\ obj[i].status = snap.status
           /\ file'[i].status = status
           /\ \A k \in Ids \ {i} : file'[k] = file[k]
<1>1. [snap EXCEPT !.status = status, !.pi = TRUE].status = status
  BY DEF Rec
<1>2. file'[i] = [snap EXCEPT !.status = status, !.pi = TRUE] /\ \A k \in Ids \ {i} : file'[k] = file[k]
  BY DEF Registered, Types
<1>3. log' = [log EXCEPT !.raced = IF \/ i \notin live \/ obj[i].status \notin {"starting", "online"}
                                      \/ obj[i].status # snap.status
                                   THEN @ \cup {i} ELSE @]
  BY DEF Registered
<1>4. log'.dropped = log.dropped /\ log'.undisposed = log.undisposed
      /\ log'.raced = IF \/ i \notin live \/ obj[i].status \notin {"starting", "online"}
                         \/ obj[i].status # snap.status
                      THEN log.raced \cup {i} ELSE log.raced
  BY <1>3 DEF Types
<1>5. hb' = hb \cup {i}
  BY DEF Registered
<1> QED
  BY <1>1, <1>2, <1>4, <1>5

LEMMA FailsEffect ==
    ASSUME Types, Fails
    PROVE  log'.raced = log.raced /\ log'.dropped = log.dropped /\ log'.undisposed = log.undisposed
  BY SMTT(30) DEF Fails, Types

SpawnDone(t) ==
    LET i == task[t].id IN
    /\ task[t].pc = "register" /\ i \in Ids /\ NoMicro
    /\ UNCHANGED <<radius, server, live, child, exiting, beat, machine, loop>>
    /\ \A u \in Tasks \ {t} : task'[u] = task[u]
    /\ log'.dropped = log.dropped /\ log'.undisposed = log.undisposed
    /\ \/ /\ task'[t].pc = "rejected" /\ task'[t].op = task[t].op /\ task'[t].id = i
          /\ UNCHANGED <<obj, file, hb>> /\ log'.raced = log.raced
       \/ /\ task'[t].pc = "idle" /\ hb' = hb \cup {i}
          /\ obj'[i].status = "online" /\ obj'[i].bound = obj[i].bound /\ obj'[i].held = TRUE
          /\ obj'[i].rpc = obj[i].rpc /\ file'[i].status = "online"
          /\ \A k \in Ids \ {i} : obj'[k] = obj[k] /\ file'[k] = file[k]
          /\ log.raced \subseteq log'.raced /\ log'.raced \subseteq log.raced \cup {i}
          /\ i \notin log'.raced => i \in live /\ obj[i].status = "starting"

LEMMA SpawnRegisteredEffect ==
    ASSUME Types, NEW t \in Tasks, SpawnRegistered(t)
    PROVE  SpawnDone(t)
<1> USE DEF SpawnDone
<1> DEFINE i == task[t].id
<1>0. task[t] \in Task /\ i \in Ids /\ obj[i] \in Object /\ task[t].pc = "register" /\ NoMicro
  BY DEF Types, Task, SpawnRegistered
<1>1. UNCHANGED <<radius, server, live, child, exiting, beat, machine, loop>>
  BY DEF SpawnRegistered
<1>2. CASE Fails /\ task' = [task EXCEPT ![t].pc = "rejected"] /\ UNCHANGED <<obj, file, hb>>
  <2>1. task'[t] = [task[t] EXCEPT !.pc = "rejected"] /\ \A u \in Tasks \ {t} : task'[u] = task[u]
    BY <1>0, <1>2 DEF Types
  <2>2. task'[t].pc = "rejected" /\ task'[t].op = task[t].op /\ task'[t].id = i
    BY <1>0, <2>1, PcSet
  <2> QED
    BY <1>0, <1>1, <1>2, <2>1, <2>2, FailsEffect
<1>3. CASE /\ Registered(i, [status |-> "starting", pi |-> FALSE], "online")
           /\ obj' = [obj EXCEPT ![i].status = "online", ![i].pi = TRUE, ![i].held = TRUE]
           /\ task' = [task EXCEPT ![t] = NoTask]
  <2> DEFINE snap == [status |-> "starting", pi |-> FALSE]
  <2>1. snap \in Rec /\ "online" \in Status /\ snap.status = "starting"
    BY DEF Rec, Status
  <2>2. obj'[i] = [obj[i] EXCEPT !.status = "online", !.pi = TRUE, !.held = TRUE]
        /\ \A k \in Ids \ {i} : obj'[k] = obj[k]
    BY <1>0, <1>3 DEF Types
  <2>3. obj'[i].status = "online" /\ obj'[i].bound = obj[i].bound /\ obj'[i].held = TRUE
        /\ obj'[i].rpc = obj[i].rpc
    BY <1>0, <2>2 DEF Object
  <2>4. task'[t].pc = "idle" /\ \A u \in Tasks \ {t} : task'[u] = task[u]
    BY <1>3, NoTaskType DEF Types
  <2>5. Registered(i, snap, "online")
    BY <1>3
  <2> HIDE DEF snap, i
  <2>6. /\ hb' = hb \cup {i}
        /\ log'.dropped = log.dropped /\ log'.undisposed = log.undisposed
        /\ log.raced \subseteq log'.raced /\ log'.raced \subseteq log.raced \cup {i}
        /\ i \notin log'.raced => i \in live /\ obj[i].status = snap.status
        /\ file'[i].status = "online"
        /\ \A k \in Ids \ {i} : file'[k] = file[k]
    BY <1>0, <2>1, <2>5, RegisteredEffect
  <2> QED
    BY <1>0, <1>1, <2>1, <2>2, <2>3, <2>4, <2>6 DEF i
<1> QED
  BY <1>2, <1>3 DEF SpawnRegistered

RenewDone(i, snap) ==
    /\ log'.dropped = log.dropped /\ log'.undisposed = log.undisposed
    /\ \/ UNCHANGED <<obj, file, hb>> /\ log'.raced = log.raced
       \/ /\ hb' = hb \cup {i}
          /\ IF i \in live
             THEN /\ obj'[i].status = snap.status /\ obj'[i].bound = obj[i].bound
                  /\ obj'[i].held = TRUE /\ obj'[i].rpc = obj[i].rpc
             ELSE obj'[i] = obj[i]
          /\ file'[i].status = snap.status
          /\ \A k \in Ids \ {i} : obj'[k] = obj[k] /\ file'[k] = file[k]
          /\ log.raced \subseteq log'.raced /\ log'.raced \subseteq log.raced \cup {i}
          /\ i \notin log'.raced => /\ i \in live /\ obj[i].status \in {"starting", "online"}
                                    /\ obj[i].status = snap.status

LEMMA ReRegisteredEffect ==
    ASSUME Types, NEW i \in Ids, NEW snap \in Rec, ReRegistered(i, snap)
    PROVE  RenewDone(i, snap)
<1> USE DEF RenewDone
<1>0. obj[i] \in Object /\ snap.status \in Status \cup {"absent"}
  BY DEF Types, Rec
<1>1. CASE Fails /\ UNCHANGED <<obj, file, hb>>
  BY <1>1, FailsEffect
<1>2. CASE /\ Registered(i, snap, snap.status)
           /\ obj' = IF i \in live
                     THEN [obj EXCEPT ![i].status = snap.status, ![i].pi = TRUE, ![i].held = TRUE]
                     ELSE obj
  <2>1. i \in live => obj'[i] = [obj[i] EXCEPT !.status = snap.status, !.pi = TRUE, !.held = TRUE]
    BY <1>2 DEF Types
  <2>2. i \in live => /\ obj'[i].status = snap.status /\ obj'[i].bound = obj[i].bound
                      /\ obj'[i].held = TRUE /\ obj'[i].rpc = obj[i].rpc
    BY <1>0, <2>1 DEF Object
  <2>3. (i \notin live => obj'[i] = obj[i]) /\ \A k \in Ids \ {i} : obj'[k] = obj[k]
    BY <1>2 DEF Types
  <2>4. /\ hb' = hb \cup {i}
        /\ log'.dropped = log.dropped /\ log'.undisposed = log.undisposed
        /\ log.raced \subseteq log'.raced /\ log'.raced \subseteq log.raced \cup {i}
        /\ i \notin log'.raced => /\ i \in live /\ obj[i].status \in {"starting", "online"}
                                  /\ obj[i].status = snap.status
        /\ file'[i].status = snap.status
        /\ \A k \in Ids \ {i} : file'[k] = file[k]
    BY <1>0, <1>2, RegisteredEffect
  <2> QED
    BY <2>2, <2>3, <2>4
<1> QED
  BY <1>1, <1>2 DEF ReRegistered

ExitDone(i) ==
    /\ NoMicro /\ child[i] \in {"killed", "running"} /\ child'[i] = "gone"
    /\ \A k \in Ids \ {i} : child'[k] = child[k]
    /\ \A u \in Tasks :
          /\ task'[u].op = task[u].op /\ task'[u].id = task[u].id /\ task'[u].rpc = task[u].rpc
          /\ task[u].id = i /\ task[u].pc \in Waiting => task'[u].pc = "rejected"
          /\ task[u].id = i /\ task[u].pc = "exit" => task'[u].pc = "finish"
          /\ ~(task[u].id = i /\ task[u].pc \in Waiting \cup {"exit"}) => task'[u] = task[u]
    /\ UNCHANGED <<radius, server, beat, machine, loop, log>>
    /\ \/ /\ ~(obj[i].bound /\ i \in live /\ obj[i].status \notin {"stopping", "stopped"})
          /\ UNCHANGED <<live, obj, file, exiting, hb>>
       \/ /\ obj[i].bound /\ i \in live
          /\ obj'[i].status = "error" /\ obj'[i].bound = FALSE /\ obj'[i].rpc = FALSE
          /\ obj'[i].held = obj[i].held /\ file'[i].status = "error"
          /\ \A k \in Ids \ {i} : obj'[k] = obj[k] /\ file'[k] = file[k]
          /\ i \in hb' => i \in hb /\ ~obj[i].held
          /\ \A k \in Ids \ {i} : k \in hb' <=> k \in hb
          /\ \/ exiting' = exiting \cup {i} /\ live' = live
             \/ exiting' = exiting /\ live' = live \ {i}

LEMMA ChildExitsEffect ==
    ASSUME Types, NEW i \in Ids, ChildExits(i)
    PROVE  ExitDone(i)
<1> USE DEF ExitDone
<1> DEFINE o == [obj[i] EXCEPT !.status = "error", !.bound = FALSE, !.rpc = FALSE]
           unexpected == obj[i].bound /\ i \in live /\ obj[i].status \notin {"stopping", "stopped"}
           rest == [t \in Tasks |-> IF task[t].id = i /\ task[t].pc = "exit"
                                    THEN [task[t] EXCEPT !.pc = "finish"] ELSE task[t]]
<1>0. obj[i] \in Object
  BY DEF Types
<1>1. o \in Object /\ o.status = "error" /\ o.bound = FALSE /\ o.rpc = FALSE /\ o.held = obj[i].held
  BY <1>0 DEF Object, Status
<1>2. ASSUME NEW u \in Tasks
      PROVE  /\ rest[u] \in Task
             /\ rest[u].op = task[u].op /\ rest[u].id = task[u].id /\ rest[u].rpc = task[u].rpc
             /\ task[u].id = i /\ task[u].pc = "exit" => rest[u].pc = "finish"
             /\ ~(task[u].id = i /\ task[u].pc = "exit") => rest[u] = task[u]
  <2>1. task[u] \in Task
    BY DEF Types
  <2>2. [task[u] EXCEPT !.pc = "finish"] \in Task
    BY <2>1 DEF Task, TaskPc, Micro
  <2>3. rest[u] = IF task[u].id = i /\ task[u].pc = "exit" THEN [task[u] EXCEPT !.pc = "finish"] ELSE task[u]
    OBVIOUS
  <2> HIDE DEF rest
  <2> QED
    BY <2>1, <2>2, <2>3, PcSet
<1>3. rest \in [Tasks -> Task]
  BY <1>2
<1>4. task' = Reject(i, rest) /\ NoMicro /\ child[i] \in {"killed", "running"}
      /\ UNCHANGED <<radius, server, beat, machine, loop, log>>
  BY DEF ChildExits
<1>5. child'[i] = "gone" /\ \A k \in Ids \ {i} : child'[k] = child[k]
  BY DEF ChildExits, Types
<1>6. \/ ~unexpected /\ UNCHANGED <<live, obj, file, exiting, hb>>
      \/ /\ unexpected /\ Save(i, o) /\ hb' = (IF o.held THEN hb \ {i} ELSE hb)
         /\ \/ exiting' = exiting \cup {i} /\ live' = live
            \/ exiting' = exiting /\ live' = live \ {i}
  BY DEF ChildExits
<1> HIDE DEF o, rest
<1>7. ASSUME NEW u \in Tasks
      PROVE  /\ task'[u].op = task[u].op /\ task'[u].id = task[u].id /\ task'[u].rpc = task[u].rpc
             /\ task[u].id = i /\ task[u].pc \in Waiting => task'[u].pc = "rejected"
             /\ task[u].id = i /\ task[u].pc = "exit" => task'[u].pc = "finish"
             /\ ~(task[u].id = i /\ task[u].pc \in Waiting \cup {"exit"}) => task'[u] = task[u]
  <2>1. /\ task'[u].op = rest[u].op /\ task'[u].id = rest[u].id /\ task'[u].rpc = rest[u].rpc
        /\ rest[u].id = i /\ rest[u].pc \in Waiting => task'[u].pc = "rejected"
        /\ ~(rest[u].id = i /\ rest[u].pc \in Waiting) => task'[u] = rest[u]
    BY <1>3, <1>4, RejectEffect
  <2> QED
    BY <1>2, <2>1 DEF Waiting
<1>8. Save(i, o) => /\ obj'[i] = o /\ file'[i].status = "error"
                    /\ \A k \in Ids \ {i} : obj'[k] = obj[k] /\ file'[k] = file[k]
  BY <1>1, SaveEffect
<1> QED
  BY <1>1, <1>4, <1>5, <1>6, <1>7, <1>8

ExitForgotten(i) ==
    /\ i \in exiting /\ exiting' = exiting \ {i} /\ live' = live \ {i}
    /\ UNCHANGED <<radius, server, child, task, hb, beat, machine, loop>>
    /\ log'.raced = log.raced /\ log'.dropped = log.dropped /\ log'.undisposed = log.undisposed
    /\ obj'[i].status = obj[i].status /\ obj'[i].bound = obj[i].bound
    /\ obj'[i].rpc = obj[i].rpc /\ obj'[i].held = obj[i].held
    /\ file'[i].status \in {obj[i].status, file[i].status}
    /\ \A k \in Ids \ {i} : obj'[k] = obj[k] /\ file'[k] = file[k]

LEMMA ExitDisconnectedEffect ==
    ASSUME Types, NEW i \in Ids, ExitDisconnected(i)
    PROVE  ExitForgotten(i)
<1> USE DEF ExitForgotten
<1> DEFINE o == [obj[i] EXCEPT !.pi = FALSE]
<1>0. obj[i] \in Object
  BY DEF Types
<1>1. o \in Object /\ o.status = obj[i].status /\ o.bound = obj[i].bound /\ o.rpc = obj[i].rpc
      /\ o.held = obj[i].held
  BY <1>0 DEF Object
<1>2. /\ i \in exiting /\ exiting' = exiting \ {i} /\ live' = live \ {i}
      /\ UNCHANGED <<radius, server, child, task, hb, beat, machine, loop>>
  BY DEF ExitDisconnected
<1>3. CASE Answered /\ Save(i, o)
  <2> HIDE DEF o
  <2>1. obj'[i] = o /\ file'[i].status = o.status
        /\ \A k \in Ids \ {i} : obj'[k] = obj[k] /\ file'[k] = file[k]
    BY <1>1, <1>3, SaveEffect
  <2> QED
    BY <1>1, <1>2, <1>3, <2>1 DEF Answered
<1>4. CASE Fails /\ UNCHANGED <<obj, file>>
  BY <1>2, <1>4, FailsEffect
<1> QED
  BY <1>3, <1>4 DEF ExitDisconnected

DownDone ==
    /\ server' = "down" /\ live' = {} /\ exiting' = {} /\ hb' = {}
    /\ \A i \in Ids : /\ obj'[i] = NoObject /\ beat'[i].pc = "idle" /\ loop'.snap[i] = Absent
                      /\ child'[i] # "running" /\ (child'[i] = "none" <=> child[i] = "none")
    /\ \A t \in Tasks : task'[t].pc = "idle"
    /\ machine'.pc = "idle"

LEMMA DownEffect ==
    ASSUME Types, Down
    PROVE  DownDone
<1> USE DEF DownDone
<1>1. server' = "down" /\ live' = {} /\ exiting' = {} /\ hb' = {}
  BY DEF Down
<1>2. \A t \in Tasks : task'[t].pc = "idle"
  BY NoTaskType DEF Down
<1>3. machine'.pc = "idle"
  BY DEF Down, IdleMachine
<1>4. ASSUME NEW i \in Ids
      PROVE  obj'[i] = NoObject /\ beat'[i].pc = "idle" /\ loop'.snap[i] = Absent
             /\ child'[i] # "running" /\ (child'[i] = "none" <=> child[i] = "none")
  BY DEF Down, Idle, NoLoop
<1> QED
  BY <1>1, <1>2, <1>3, <1>4

SameLog == log'.raced = log.raced /\ log'.dropped = log.dropped /\ log'.undisposed = log.undisposed

\* Task t sends a command, has its answer or an error.
Calls(t) ==
    /\ UNCHANGED <<radius, server, live, obj, child, exiting, hb, beat, machine, loop, log>>
    /\ \A u \in Tasks \ {t} : task'[u] = task[u]
    /\ \A k \in Ids : \/ file'[k] = file[k]
                      \/ /\ k = task[t].id /\ task[t].pc \in {"rpc", "sync"}
                         /\ file'[k].status = obj[k].status
    /\ task[t].pc \in {"idle", "open", "rpc", "sync", "rejected"}
    /\ task[t].pc = "rejected" => task[t].op # "spawn"
    /\ task[t].pc = "idle" => t # Sig
    /\ \/ task'[t].pc = "idle"
       \/ /\ task'[t].pc \in {"open", "rpc", "sync"}
          /\ task'[t].op \in {"rpc", "stream"} \/ (task'[t].op = task[t].op /\ task[t].pc # "idle")
          /\ task[t].pc = "rejected" => task'[t].op = "stream"
          /\ task'[t].id \in live \/ (task'[t].id = task[t].id /\ task[t].pc # "idle")
          /\ task'[t].pc # "open" => \/ child[task'[t].id] # "gone"
                                     \/ task[t].pc \in Waiting /\ task'[t].id = task[t].id

\* Task t begins to clean up instance i: stopInstance, or failSpawn.
Begins(t, i, op, status) ==
    /\ Cleanup(t, i, op, status)
    /\ UNCHANGED <<radius, server, live, child, exiting, beat, machine, log>>
    /\ loop'.snap = loop.snap
    /\ task[t].pc = "idle" /\ t = Sig => server = "closing"
    /\ \/ op = "stop" /\ status = "stopping" /\ task[t].pc = "idle" /\ i \in live
       \/ /\ op = "spawn" /\ status = "error"
          /\ task[t].pc = "rejected" /\ task[t].op = "spawn" /\ task[t].id = i

\* Instance i is registered again, with the record that was taken for it.
Renews(i, snap) ==
    /\ ReRegistered(i, snap)
    /\ UNCHANGED <<radius, server, live, child, task, exiting, loop>>
    /\ \/ beat[i].pc = "registering" /\ snap = beat[i].snap
       \/ machine.pc = "pi" /\ machine.id = i /\ snap = machine.snap
    /\ \A k \in Ids : beat'[k].pc # "idle" => beat'[k] = beat[k]
    /\ machine'.pc # "idle" => machine.pc # "idle"
    /\ machine'.pc = "pi" => machine' = machine

Dies == Down /\ UNCHANGED <<radius, file>> /\ SameLog

\* Neither an instance nor a task changes.
Calm ==
    /\ UNCHANGED <<radius, live, obj, file, child, task, exiting>> /\ SameLog /\ hb' \subseteq hb
    /\ \A i \in Ids : beat'[i].pc # "idle" => beat[i].pc # "idle" \/ i \in hb
    /\ \A i \in Ids : beat'[i].pc = "registering" =>
          beat'[i] = beat[i] \/ (i \in live /\ beat'[i].snap = RecordOf(obj[i]))
    /\ machine'.pc # "idle" => machine.pc # "idle" \/ radius
    /\ machine'.pc = "pi" =>
          \/ machine.pc = "pi" /\ machine'.id = machine.id /\ machine'.snap = machine.snap
          \/ machine'.id \in live /\ machine'.snap = RecordOf(obj[machine'.id])
    /\ server' \in {"down", "recovering"} <=> server \in {"down", "recovering"}
    /\ server' = "down" => server = "down"
    /\ \/ loop'.snap = loop.snap /\ (server' = "recovering" => server = "recovering")
       \/ loop'.snap = [i \in Ids |-> Recovered(file[i])] /\ server = "down"
       \/ loop'.snap = [i \in Ids |-> Absent] /\ server' # "recovering"

LEMMA CallKinds ==
    ASSUME Types, NEW t \in Tasks,
           \/ \E i \in Ids : Rpc(t, i)
           \/ StreamRpc(t) \/ RpcAnswered(t)
           \/ Rejected(t) /\ task[t].op # "spawn"
    PROVE  Calls(t)
<1>0. task[t] \in Task /\ task[t].id \in Ids /\ obj[task[t].id] \in Object
  BY DEF Types, Task
<1>1. ASSUME NEW i \in Ids, Rpc(t, i) PROVE Calls(t)
  <2> DEFINE a == [NoTask EXCEPT !.pc = "rpc", !.op = "rpc", !.id = i]
             b == [NoTask EXCEPT !.pc = "open", !.op = "stream", !.id = i]
  <2>1. a.pc = "rpc" /\ a.op = "rpc" /\ a.id = i /\ b.pc = "open" /\ b.op = "stream" /\ b.id = i
    BY NoTaskType, SMTT(30) DEF Task
  <2>2. /\ (task'[t] = a /\ child[i] # "gone") \/ task'[t] = b
        /\ \A u \in Tasks \ {t} : task'[u] = task[u]
    BY <1>1, ZenonT(60) DEF Rpc, Types
  <2>3. i \in live /\ task[t].pc = "idle" /\ t # Sig
        /\ UNCHANGED <<radius, server, live, obj, file, child, exiting, hb, beat, machine, loop, log>>
    BY <1>1, SupervisorAssumption DEF Rpc, HasProcess, Free
  <2> HIDE DEF a, b
  <2> QED
    BY <2>1, <2>2, <2>3 DEF Calls
<1>2. CASE StreamRpc(t)
  <2>1. \A u \in Tasks \ {t} : task'[u] = task[u]
    BY <1>2 DEF StreamRpc, Types
  <2>2. \/ task'[t] = [task[t] EXCEPT !.pc = "rpc"] /\ child[task[t].id] # "gone"
        \/ task'[t] = NoTask
    BY <1>2 DEF StreamRpc, Types
  <2>3. task[t].pc = "open"
        /\ UNCHANGED <<radius, server, live, obj, file, child, exiting, hb, beat, machine, loop, log>>
    BY <1>2 DEF StreamRpc
  <2>4. \/ task'[t].pc = "idle"
        \/ /\ task'[t].pc = "rpc" /\ task'[t].op = task[t].op /\ task'[t].id = task[t].id
           /\ child[task'[t].id] # "gone"
    <3>1. CASE task'[t] = [task[t] EXCEPT !.pc = "rpc"] /\ child[task[t].id] # "gone"
      BY <1>0, <3>1 DEF Task
    <3>2. CASE task'[t] = NoTask
      BY <3>2, NoTaskType
    <3> QED
      BY <2>2, <3>1, <3>2
  <2> QED
    BY <2>1, <2>3, <2>4 DEF Calls
<1>3. CASE RpcAnswered(t)
  <2>1. \A u \in Tasks \ {t} : task'[u] = task[u]
    BY <1>3 DEF RpcAnswered, Types
  <2>2. \/ task'[t] = Ended(task[t]) \/ task'[t] = [task[t] EXCEPT !.pc = "sync"]
    BY <1>3 DEF RpcAnswered, Types
  <2>3. task[t].pc \in {"rpc", "sync"}
        /\ UNCHANGED <<radius, server, live, child, exiting, hb, beat, machine, loop, log>>
    BY <1>3 DEF RpcAnswered
  <2>4. \/ task'[t].pc = "idle"
        \/ task'[t].pc \in {"open", "sync"} /\ task'[t].op = task[t].op /\ task'[t].id = task[t].id
    <3>1. CASE task'[t] = [task[t] EXCEPT !.pc = "sync"]
      BY <1>0, <3>1 DEF Task
    <3>2. CASE task'[t] = Ended(task[t])
      BY <1>0, <3>2, EndedEffect
    <3> QED
      BY <2>2, <3>1, <3>2
  <2>5. UNCHANGED <<obj, file>> \/ Save(task[t].id, obj[task[t].id])
    BY <1>3 DEF RpcAnswered
  <2>6. obj' = obj
    BY <1>0, <2>5 DEF Save, Types
  <2>7. \A k \in Ids : \/ file'[k] = file[k]
                       \/ k = task[t].id /\ file'[k].status = obj[k].status
    BY <1>0, <2>5, SaveEffect
  <2> QED
    BY <2>1, <2>3, <2>4, <2>6, <2>7 DEF Calls, Waiting
<1>4. CASE Rejected(t) /\ task[t].op # "spawn"
  <2>1. \A u \in Tasks \ {t} : task'[u] = task[u]
    BY <1>4 DEF Rejected, Types
  <2>2. task'[t] = Ended(task[t])
    BY <1>4 DEF Rejected, Types
  <2>3. task[t].pc = "rejected"
        /\ UNCHANGED <<radius, server, live, obj, file, child, exiting, hb, beat, machine, loop, log>>
    BY <1>4 DEF Rejected
  <2>4. \/ task'[t].pc = "idle"
        \/ task'[t].pc = "open" /\ task'[t].op = "stream" /\ task'[t].id = task[t].id /\ task[t].op = "stream"
    BY <1>0, <2>2, EndedEffect
  <2> QED
    BY <1>4, <2>1, <2>3, <2>4 DEF Calls
<1> QED
  BY <1>1, <1>2, <1>3, <1>4

LEMMA RadiusKinds ==
    ASSUME Types,
           \/ MachineForgotten \/ MachineStep
           \/ \E i \in Ids : BeatRegistered(i) \/ Beat(i) \/ Beaten(i)
    PROVE  Calm \/ \E i \in Ids, snap \in Rec : Renews(i, snap)
<1>1. ASSUME NEW i \in Ids, BeatRegistered(i) PROVE \E k \in Ids, snap \in Rec : Renews(k, snap)
  <2>1. ASSUME NEW k \in Ids PROVE beat'[k].pc # "idle" => beat'[k] = beat[k]
    BY <1>1 DEF BeatRegistered, Types
  <2>2. beat[i].snap \in Rec /\ beat[i].pc = "registering" /\ ReRegistered(i, beat[i].snap)
        /\ UNCHANGED <<radius, server, live, child, task, exiting, machine, loop>>
    BY <1>1 DEF BeatRegistered, Types
  <2>3. Renews(i, beat[i].snap)
    BY <2>1, <2>2 DEF Renews
  <2> QED
    BY <2>2, <2>3
<1>2. CASE MachinePiRegistered
  <2>1. machine.id \in Ids /\ machine.snap \in Rec /\ machine.pc = "pi"
        /\ ReRegistered(machine.id, machine.snap) /\ machine'.pc = "visit"
        /\ UNCHANGED <<radius, server, live, child, task, exiting, beat, loop>>
    BY <1>2 DEF MachinePiRegistered, Types
  <2>2. Renews(machine.id, machine.snap)
    BY <2>1 DEF Renews
  <2> QED
    BY <2>1, <2>2
<1>3. ASSUME NEW i \in Ids, Beat(i) PROVE Calm
  <2>1. ASSUME NEW k \in Ids
        PROVE  /\ beat'[k].pc # "idle" => beat[k].pc # "idle" \/ k \in hb
               /\ beat'[k].pc = "registering" => beat'[k] = beat[k]
    BY <1>3 DEF Beat, Types
  <2> QED
    BY <1>3, <2>1 DEF Beat, Calm, SameLog
<1>4. ASSUME NEW i \in Ids, Beaten(i) PROVE Calm
  <2>1. ASSUME NEW k \in Ids
        PROVE  /\ beat'[k].pc # "idle" => beat[k].pc # "idle"
               /\ beat'[k].pc = "registering" =>
                    beat'[k] = beat[k] \/ (k \in live /\ beat'[k].snap = RecordOf(obj[k]))
    BY <1>4 DEF Beaten, Types
  <2> QED
    BY <1>4, <2>1 DEF Beaten, Calm, SameLog
<1>5. CASE MachineForgotten
  <2>1. machine'.pc = "machine" /\ radius
    BY <1>5 DEF MachineForgotten, Types
  <2> QED
    BY <1>5, <2>1 DEF MachineForgotten, Calm, SameLog
<1>6. CASE MachineRegistered
  <2>1. machine.pc = "machine" /\ machine'.pc \in {"visit", "idle"}
    BY <1>6 DEF MachineRegistered, Types
  <2>2. SameLog
    BY <1>6, FailsEffect DEF MachineRegistered, Answered, SameLog
  <2> QED
    BY <1>6, <2>1, <2>2 DEF MachineRegistered, Calm
<1>7. CASE MachineVisits
  <2>1. machine.pc = "visit" /\ hb' \subseteq hb
    BY <1>7 DEF MachineVisits
  <2>2. machine'.pc = "pi" => machine'.id \in live /\ machine'.snap = RecordOf(obj[machine'.id])
    <3>1. CASE machine' = [machine EXCEPT !.pc = "idle"]
      BY <3>1 DEF Types
    <3>2. ASSUME NEW i \in machine.todo, i \in live,
                 machine' = [machine EXCEPT !.pc = "pi", !.todo = @ \ {i}, !.id = i,
                                            !.snap = RecordOf(obj[i])]
          PROVE  machine'.id \in live /\ machine'.snap = RecordOf(obj[machine'.id])
      BY <3>2 DEF Types
    <3>3. ASSUME NEW i \in machine.todo, machine' = [machine EXCEPT !.todo = @ \ {i}]
          PROVE  machine'.pc = "visit"
      BY <2>1, <3>3 DEF Types
    <3> QED
      BY <1>7, <3>1, <3>2, <3>3 DEF MachineVisits
  <2> QED
    BY <1>7, <2>1, <2>2 DEF MachineVisits, Calm, SameLog
<1> QED
  BY <1>1, <1>2, <1>3, <1>4, <1>5, <1>6, <1>7 DEF MachineStep

LEMMA ServerKinds ==
    ASSUME Types, Start \/ ServerStep \/ Signal \/ Crash
    PROVE  Calm \/ Dies \/ RecoverSave \/ \E i \in live : Begins(Sig, i, "stop", "stopping")
<1>0. loop \in [todo : SUBSET Ids, snap : [Ids -> Rec]]
  BY DEF Types
<1>1. CASE Start
  <2>1. loop'.snap = [i \in Ids |-> Recovered(file[i])] /\ server = "down" /\ server' = "recovering"
    BY <1>1 DEF Start
  <2> QED
    BY <1>1, <2>1 DEF Start, Calm, SameLog
<1>2. CASE RecoverNext
  <2>1. SameLog
    BY <1>2, FailsEffect DEF RecoverNext, Answered, SameLog
  <2>2. CASE Down
    BY <1>2, <2>1, <2>2 DEF RecoverNext, Dies
  <2>3. CASE ~Down
    <3>1. PICK i \in loop.todo : loop' = [loop EXCEPT !.todo = @ \ {i}]
      BY <1>2, <2>3 DEF RecoverNext
    <3>2. loop'.snap = loop.snap
      BY <1>0, <3>1
    <3> QED
      BY <1>2, <2>1, <2>3, <3>2 DEF RecoverNext, Calm
  <2> QED
    BY <2>2, <2>3
<1>3. CASE Started
  <2>1. SameLog
    BY <1>3, FailsEffect DEF Started, Answered, SameLog
  <2>2. CASE Down
    BY <1>3, <2>1, <2>2 DEF Started, Dies
  <2>3. CASE ~Down
    <3>1. machine'.pc = machine.pc /\ machine'.id = machine.id /\ machine'.snap = machine.snap
      BY <1>3, <2>3 DEF Started, Types
    <3>2. server = "registering" /\ server' = "up"
      BY <1>3, <2>3 DEF Started
    <3> QED
      BY <1>3, <2>1, <2>3, <3>1, <3>2 DEF Started, Calm
  <2> QED
    BY <2>2, <2>3
<1>4. CASE ShutdownNext
  <2>1. ASSUME NEW i \in loop.todo, i \in live, Cleanup(Sig, i, "stop", "stopping"),
               loop' = [loop EXCEPT !.todo = @ \ {i}]
        PROVE  Begins(Sig, i, "stop", "stopping") \/ Dies
    <3>1. loop'.snap = loop.snap
      BY <1>0, <2>1
    <3>2. task[Sig].pc = "idle" /\ server = "closing" /\ UNCHANGED <<radius, log, budget>>
      BY <1>4 DEF ShutdownNext
    <3>3. CASE UNCHANGED <<server, live, child, exiting, beat, machine>>
      BY <2>1, <3>1, <3>2, <3>3 DEF Begins
    <3>4. CASE UNCHANGED <<live, obj, file, child, task, exiting, beat, machine, loop>>
      <4>1. loop.todo \ {i} # loop.todo
        OBVIOUS
      <4> QED
        BY <1>0, <2>1, <3>4, <4>1
    <3>5. CASE Down /\ UNCHANGED file
      BY <3>2, <3>5 DEF Dies, SameLog
    <3> QED
      BY <1>4, <3>3, <3>4, <3>5 DEF ShutdownNext
  <2>2. ASSUME NEW i \in loop.todo, loop' = [loop EXCEPT !.todo = @ \ {i}],
               UNCHANGED <<obj, file, hb, task>>,
               UNCHANGED <<radius, log, budget, server, live, child, exiting, beat, machine>>
        PROVE  Calm
    <3>1. loop'.snap = loop.snap
      BY <1>0, <2>2
    <3> QED
      BY <2>2, <3>1 DEF Calm, SameLog
  <2>3. CASE server' = "leaving" /\ hb' = {}
             /\ UNCHANGED <<live, obj, file, child, task, exiting, beat, machine, loop>>
    BY <1>4, <2>3 DEF ShutdownNext, Calm, SameLog
  <2>4. CASE Down /\ UNCHANGED file
    BY <1>4, <2>4 DEF ShutdownNext, Dies, SameLog
  <2> QED
    BY <1>4, <2>1, <2>2, <2>3, <2>4 DEF ShutdownNext
<1>5. CASE Leave
  <2>1. SameLog
    BY <1>5, FailsEffect DEF Leave, Answered, SameLog
  <2>2. CASE Down
    BY <1>5, <2>1, <2>2 DEF Leave, Dies
  <2>3. CASE ~Down
    BY <1>5, <2>1, <2>3 DEF Leave, Calm
  <2> QED
    BY <2>2, <2>3
<1>6. CASE Signal
  <2>1. loop'.snap = [i \in Ids |-> Absent] /\ server = "up" /\ server' = "closing"
    BY <1>6 DEF Signal, NoLoop
  <2> QED
    BY <1>6, <2>1 DEF Signal, Calm, SameLog
<1>7. CASE Crash
  BY <1>7 DEF Crash, Dies, SameLog
<1> QED
  BY <1>1, <1>2, <1>3, <1>4, <1>5, <1>6, <1>7 DEF ServerStep

\* Every step is of one of these kinds.
LEMMA StepKinds ==
    ASSUME Types, [Next]_vars
    PROVE  \/ \E t \in Tasks : Calls(t)
           \/ \E t \in Tasks, i \in Ids : Spawn(t, i)
           \/ \E t \in Tasks, i \in Ids : Begins(t, i, "stop", "stopping") \/ Begins(t, i, "spawn", "error")
           \/ \E t \in Tasks : \/ Disconnected(t) \/ Dispose(t) \/ Finish(t)
                               \/ StateAnswered(t) \/ SpawnRegistered(t)
           \/ \E i \in Ids : ChildExits(i) \/ ExitDisconnected(i)
           \/ \E i \in Ids, snap \in Rec : Renews(i, snap)
           \/ Dies \/ RecoverSave \/ Calm
<1>1. CASE UNCHANGED vars
  BY <1>1 DEF vars, Calm, SameLog
<1>2. ASSUME NEW t \in Tasks, Request(t) \/ RpcAnswered(t)
      PROVE  \/ Calls(t) \/ \E i \in Ids : Spawn(t, i) \/ Begins(t, i, "stop", "stopping")
  <2>1. ASSUME NEW i \in Ids, Stop(t, i) PROVE Begins(t, i, "stop", "stopping")
    BY <2>1, SupervisorAssumption DEF Stop, Free, Begins
  <2> QED
    BY <1>2, <2>1, CallKinds DEF Request
<1>3. ASSUME NEW t \in Tasks, TaskStep(t)
      PROVE  \/ Calls(t) \/ \E i \in Ids : Begins(t, i, "spawn", "error")
             \/ Disconnected(t) \/ Dispose(t) \/ Finish(t) \/ StateAnswered(t) \/ SpawnRegistered(t)
  <2>1. CASE Rejected(t) /\ task[t].op = "spawn"
    <3>1. task[t].id \in Ids
      BY DEF Types, Task
    <3>2. Begins(t, task[t].id, "spawn", "error")
      BY <2>1 DEF Rejected, Begins
    <3> QED
      BY <3>1, <3>2
  <2> QED
    BY <1>3, <2>1, CallKinds DEF TaskStep
<1>4. CASE Start \/ ServerStep \/ Signal \/ Crash
  <2>1. Sig \in Tasks /\ live \subseteq Ids
    BY DEF Tasks, Types
  <2> QED
    BY <1>4, <2>1, ServerKinds
<1>5. CASE \/ MachineForgotten \/ MachineStep
           \/ \E i \in Ids : BeatRegistered(i) \/ Beat(i) \/ Beaten(i)
  BY <1>5, RadiusKinds
<1>6. CASE \E i \in Ids : ChildExits(i) \/ ExitDisconnected(i)
  BY <1>6
<1>7. \/ \E t \in Tasks : Request(t) \/ RpcAnswered(t)
      \/ \E t \in Tasks : TaskStep(t)
      \/ Start \/ ServerStep \/ Signal \/ Crash
      \/ MachineForgotten \/ MachineStep
      \/ \E i \in Ids : BeatRegistered(i) \/ Beat(i) \/ Beaten(i)
      \/ \E i \in Ids : ChildExits(i) \/ ExitDisconnected(i)
      \/ UNCHANGED vars
  BY DEF Next, InstanceStep
<1> QED
  BY <1>1, <1>2, <1>3, <1>4, <1>5, <1>6, <1>7

RecoverDone ==
    /\ server = "recovering" /\ server' \in {"registering", "up"}
    /\ file' = loop.snap /\ \A k \in Ids : loop'.snap[k] = Absent
    /\ log'.raced = log.raced /\ log'.undisposed = log.undisposed
    /\ log.dropped \subseteq log'.dropped
    /\ \A k \in Ids : loop.snap[k] = Absent /\ file[k] # Absent => k \in log'.dropped
    /\ UNCHANGED <<radius, live, obj, child, task, exiting, hb, beat, machine>>

LEMMA RecoverSaveEffect == ASSUME Types, RecoverSave PROVE RecoverDone
<1>1. /\ server = "recovering" /\ server' \in {"registering", "up"}
      /\ file' = loop.snap /\ \A k \in Ids : loop'.snap[k] = Absent
      /\ UNCHANGED <<radius, live, obj, child, task, exiting, hb, beat, machine>>
  BY DEF RecoverSave, NoLoop
<1>2. /\ log'.raced = log.raced /\ log'.undisposed = log.undisposed
      /\ log'.dropped = log.dropped \cup {i \in Ids : loop.snap[i] = Absent /\ file[i] # Absent}
  BY DEF RecoverSave, Types
<1> QED
  BY <1>1, <1>2 DEF RecoverDone

\* What a step does, whichever it is.
LEMMA StepEffects ==
    ASSUME Types, [Next]_vars
    PROVE  \/ \E t \in Tasks : \/ Calls(t) \/ DisconnectDone(t) \/ DisposeDone(t) \/ FinishDone(t)
                               \/ StateDone(t) \/ SpawnDone(t)
           \/ \E t \in Tasks, i \in Ids : Spawned(t, i)
           \/ \E t \in Tasks, i \in Ids, op \in {"spawn", "stop"}, status \in {"stopping", "error"} :
                 Begins(t, i, op, status) /\ CleanupDone(t, i, op, status)
           \/ \E i \in Ids : ExitDone(i) \/ ExitForgotten(i)
           \/ \E i \in Ids, snap \in Rec : Renews(i, snap) /\ RenewDone(i, snap)
           \/ (Dies /\ DownDone) \/ RecoverDone \/ Calm
<1>1. ASSUME NEW t \in Tasks, NEW i \in Ids, NEW op, NEW status, status \in Status,
             Begins(t, i, op, status)
      PROVE  CleanupDone(t, i, op, status)
  <2>1. Cleanup(t, i, op, status)
    BY <1>1 DEF Begins
  <2> QED
    BY <1>1, <2>1, CleanupEffect
<1>2. ASSUME NEW t \in Tasks, NEW i \in Ids,
             Begins(t, i, "stop", "stopping") \/ Begins(t, i, "spawn", "error")
      PROVE  \E op \in {"spawn", "stop"}, status \in {"stopping", "error"} :
                Begins(t, i, op, status) /\ CleanupDone(t, i, op, status)
  BY <1>1, <1>2 DEF Status
<1>3. ASSUME NEW t \in Tasks,
             \/ Disconnected(t) \/ Dispose(t) \/ Finish(t) \/ StateAnswered(t) \/ SpawnRegistered(t)
      PROVE  DisconnectDone(t) \/ DisposeDone(t) \/ FinishDone(t) \/ StateDone(t) \/ SpawnDone(t)
  BY <1>3, DisconnectedEffect, DisposeEffect, FinishEffect, StateAnsweredEffect,
     SpawnRegisteredEffect
<1>4. ASSUME NEW i \in Ids, ChildExits(i) \/ ExitDisconnected(i) PROVE ExitDone(i) \/ ExitForgotten(i)
  BY <1>4, ChildExitsEffect, ExitDisconnectedEffect
<1>5. ASSUME NEW i \in Ids, NEW snap \in Rec, Renews(i, snap) PROVE RenewDone(i, snap)
  BY <1>5, ReRegisteredEffect DEF Renews
<1>6. Dies => DownDone
  BY DownEffect DEF Dies
<1>7. RecoverSave => RecoverDone
  BY RecoverSaveEffect
<1> QED
  BY <1>2, <1>3, <1>4, <1>5, <1>6, <1>7, SpawnEffect, StepKinds

-----------------------------------------------------------------------------
(* What exists, and where tasks can be *)

LEMMA NextKnown ==
    ASSUME Types, Types', Basics, [Next]_vars, NEW k \in Ids
    PROVE  Known(k)'
<1>a. /\ live \subseteq Ids /\ exiting \subseteq Ids
      /\ \A t \in Tasks : task[t].id \in Ids /\ task'[t].id \in Ids
  BY DEF Types, Task
<1>b. /\ Known(k) /\ \A u \in Tasks : Placed(u)
      /\ \A i \in live : child[i] # "none"
      /\ \A i \in Ids : obj[i] \in Object
  BY DEF Basics, Known, Types
<1>1. ASSUME NEW t \in Tasks, Calls(t) PROVE Known(k)'
  BY <1>a, <1>b, <1>1 DEF Calls, Known, Placed
<1>2. ASSUME NEW t \in Tasks, NEW i \in Ids, Spawned(t, i) PROVE Known(k)'
  BY <1>a, <1>b, <1>2 DEF Spawned, Known, Placed
<1>3. ASSUME NEW t \in Tasks, NEW i \in Ids, NEW op \in {"spawn", "stop"},
             NEW status \in {"stopping", "error"}, Begins(t, i, op, status),
             CleanupDone(t, i, op, status)
      PROVE  Known(k)'
  BY <1>a, <1>b, <1>3 DEF Begins, CleanupDone, Known, Placed
<1>4. ASSUME NEW t \in Tasks, DisconnectDone(t) PROVE Known(k)'
  BY <1>a, <1>b, <1>4 DEF DisconnectDone, Known, Placed
<1>5. ASSUME NEW t \in Tasks, DisposeDone(t) PROVE Known(k)'
  BY <1>a, <1>b, <1>5 DEF DisposeDone, Known, Placed
<1>6. ASSUME NEW t \in Tasks, FinishDone(t) PROVE Known(k)'
  BY <1>a, <1>b, <1>6 DEF FinishDone, Known, Placed
<1>7. ASSUME NEW t \in Tasks, StateDone(t) PROVE Known(k)'
  BY <1>a, <1>b, <1>7 DEF StateDone, Known, Placed
<1>8. ASSUME NEW t \in Tasks, SpawnDone(t) PROVE Known(k)'
  BY <1>a, <1>b, <1>8 DEF SpawnDone, Known, Placed
<1>9. ASSUME NEW i \in Ids, ExitDone(i) PROVE Known(k)'
  BY <1>a, <1>b, <1>9 DEF ExitDone, Known, Placed
<1>10. ASSUME NEW i \in Ids, ExitForgotten(i) PROVE Known(k)'
  BY <1>a, <1>b, <1>10 DEF ExitForgotten, Known, Placed
<1>11. ASSUME NEW i \in Ids, NEW snap \in Rec, Renews(i, snap), RenewDone(i, snap) PROVE Known(k)'
  <2>1. child[i] # "none" /\ snap.status # "absent"
    BY <1>11 DEF Renews, Basics, Known, Taken
  <2> QED
    BY <1>b, <1>11, <2>1 DEF Renews, RenewDone, Known
<1>12. CASE Dies /\ DownDone
  BY <1>a, <1>b, <1>12 DEF Dies, SameLog, DownDone, Known, Placed
<1>13. CASE RecoverDone
  BY <1>a, <1>b, <1>13 DEF RecoverDone, Known, Placed
<1>14. CASE Calm
  <2>1. child[k] = "none" => loop'.snap[k] = Absent
    <3>1. loop'.snap[k] \in {loop.snap[k], Recovered(file[k]), Absent}
      BY <1>14 DEF Calm
    <3>2. Recovered(Absent) = Absent
      BY DEF Recovered, Absent
    <3> QED
      BY <1>b, <3>1, <3>2 DEF Known
  <2>2. k \in live => RecordOf(obj[k]).status = obj[k].status
    BY <1>b, RecordOfType
  <2> QED
    BY <1>b, <1>14, <2>1, <2>2 DEF Calm, Known
<1> QED
  BY <1>1, <1>2, <1>3, <1>4, <1>5, <1>6, <1>7, <1>8, <1>9, <1>10, <1>11, <1>12, <1>13, <1>14,
     StepEffects

LEMMA NextTaken ==
    ASSUME Types, Types', Basics, [Next]_vars
    PROVE  Taken'
<1>a. /\ live \subseteq Ids /\ exiting \subseteq Ids
      /\ \A t \in Tasks : task[t].id \in Ids /\ task'[t].id \in Ids
  BY DEF Types, Task
<1>b. /\ Taken /\ machine.id \in Ids
      /\ \A i \in live : child[i] # "none" /\ RecordOf(obj[i]).status # "absent"
  <2>1. \A i \in live : obj[i] \in Object /\ Known(i)
    BY <1>a DEF Basics, Types
  <2>2. ASSUME NEW i \in live PROVE child[i] # "none" /\ RecordOf(obj[i]).status # "absent"
    BY <2>1, RecordOfType DEF Known
  <2>3. Taken /\ machine.id \in Ids
    BY DEF Basics, Types
  <2> QED
    BY <2>2, <2>3
<1>1. ASSUME NEW t \in Tasks, Calls(t) PROVE Taken'
  BY <1>a, <1>b, <1>1 DEF Calls, Taken
<1>2. ASSUME NEW t \in Tasks, NEW i \in Ids, Spawned(t, i) PROVE Taken'
  BY <1>a, <1>b, <1>2 DEF Spawned, Taken
<1>3. ASSUME NEW t \in Tasks, NEW i \in Ids, NEW op \in {"spawn", "stop"},
             NEW status \in {"stopping", "error"}, Begins(t, i, op, status),
             CleanupDone(t, i, op, status)
      PROVE  Taken'
  BY <1>a, <1>b, <1>3 DEF Begins, CleanupDone, Taken
<1>4. ASSUME NEW t \in Tasks, DisconnectDone(t) PROVE Taken'
  BY <1>a, <1>b, <1>4 DEF DisconnectDone, Taken
<1>5. ASSUME NEW t \in Tasks, DisposeDone(t) PROVE Taken'
  BY <1>a, <1>b, <1>5 DEF DisposeDone, Taken
<1>6. ASSUME NEW t \in Tasks, FinishDone(t) PROVE Taken'
  BY <1>a, <1>b, <1>6 DEF FinishDone, Taken
<1>7. ASSUME NEW t \in Tasks, StateDone(t) PROVE Taken'
  BY <1>a, <1>b, <1>7 DEF StateDone, Taken
<1>8. ASSUME NEW t \in Tasks, SpawnDone(t) PROVE Taken'
  BY <1>a, <1>b, <1>8 DEF SpawnDone, Taken
<1>9. ASSUME NEW i \in Ids, ExitDone(i) PROVE Taken'
  BY <1>a, <1>b, <1>9 DEF ExitDone, Taken
<1>10. ASSUME NEW i \in Ids, ExitForgotten(i) PROVE Taken'
  BY <1>a, <1>b, <1>10 DEF ExitForgotten, Taken
<1>11. ASSUME NEW i \in Ids, NEW snap \in Rec, Renews(i, snap), RenewDone(i, snap) PROVE Taken'
  BY <1>a, <1>b, <1>11 DEF Renews, RenewDone, Taken
<1>12. CASE Dies /\ DownDone
  BY <1>a, <1>b, <1>12 DEF Dies, SameLog, DownDone, Taken
<1>13. CASE RecoverDone
  BY <1>a, <1>b, <1>13 DEF RecoverDone, Taken
<1>14. CASE Calm
  BY <1>a, <1>b, <1>14 DEF Calm, SameLog, Taken
<1> QED
  BY <1>1, <1>2, <1>3, <1>4, <1>5, <1>6, <1>7, <1>8, <1>9, <1>10, <1>11, <1>12, <1>13, <1>14,
     StepEffects

LEMMA NextPlaced ==
    ASSUME Types, Types', Basics, [Next]_vars, NEW u \in Tasks
    PROVE  Placed(u)'
<1>a. /\ live \subseteq Ids /\ exiting \subseteq Ids
      /\ \A t \in Tasks : task[t].id \in Ids /\ task'[t].id \in Ids
  BY DEF Types, Task
<1>b. /\ Placed(u) /\ \A t \in Tasks : Placed(t)
      /\ \A i \in live : child[i] # "none"
  BY <1>a DEF Basics, Known
<1>1. ASSUME NEW t \in Tasks, Calls(t) PROVE Placed(u)'
  BY <1>a, <1>b, <1>1 DEF Calls, Placed, Waiting, Cleaning
<1>2. ASSUME NEW t \in Tasks, NEW i \in Ids, Spawned(t, i) PROVE Placed(u)'
  BY <1>a, <1>b, <1>2 DEF Spawned, Placed, Waiting, Cleaning
<1>3. ASSUME NEW t \in Tasks, NEW i \in Ids, NEW op \in {"spawn", "stop"},
             NEW status \in {"stopping", "error"}, Begins(t, i, op, status),
             CleanupDone(t, i, op, status)
      PROVE  Placed(u)'
  BY <1>a, <1>b, <1>3 DEF Begins, CleanupDone, Placed, Waiting, Cleaning
<1>4. ASSUME NEW t \in Tasks, DisconnectDone(t) PROVE Placed(u)'
  BY <1>a, <1>b, <1>4 DEF DisconnectDone, Placed, Waiting, Cleaning
<1>5. ASSUME NEW t \in Tasks, DisposeDone(t) PROVE Placed(u)'
  BY <1>a, <1>b, <1>5 DEF DisposeDone, Placed, Waiting, Cleaning
<1>6. ASSUME NEW t \in Tasks, FinishDone(t) PROVE Placed(u)'
  BY <1>a, <1>b, <1>6 DEF FinishDone, Placed, Waiting, Cleaning
<1>7. ASSUME NEW t \in Tasks, StateDone(t) PROVE Placed(u)'
  BY <1>a, <1>b, <1>7 DEF StateDone, Placed, Waiting, Cleaning
<1>8. ASSUME NEW t \in Tasks, SpawnDone(t) PROVE Placed(u)'
  BY <1>a, <1>b, <1>8 DEF SpawnDone, Placed, Waiting, Cleaning
<1>9. ASSUME NEW i \in Ids, ExitDone(i) PROVE Placed(u)'
  BY <1>a, <1>b, <1>9 DEF ExitDone, Placed, Waiting, Cleaning
<1>10. ASSUME NEW i \in Ids, ExitForgotten(i) PROVE Placed(u)'
  BY <1>a, <1>b, <1>10 DEF ExitForgotten, Placed, Waiting, Cleaning
<1>11. ASSUME NEW i \in Ids, NEW snap \in Rec, Renews(i, snap), RenewDone(i, snap) PROVE Placed(u)'
  BY <1>a, <1>b, <1>11 DEF Renews, RenewDone, Placed, Waiting, Cleaning
<1>12. CASE Dies /\ DownDone
  BY <1>a, <1>b, <1>12 DEF Dies, SameLog, DownDone, Placed, Waiting, Cleaning
<1>13. CASE RecoverDone
  BY <1>a, <1>b, <1>13 DEF RecoverDone, Placed, Waiting, Cleaning
<1>14. CASE Calm
  BY <1>a, <1>b, <1>14 DEF Calm, SameLog, Placed, Waiting, Cleaning
<1> QED
  BY <1>1, <1>2, <1>3, <1>4, <1>5, <1>6, <1>7, <1>8, <1>9, <1>10, <1>11, <1>12, <1>13, <1>14,
     StepEffects

LEMMA NextBasics == ASSUME Types, Types', Basics, [Next]_vars PROVE Basics'
  BY NextKnown, NextTaken, NextPlaced DEF Basics

LEMMA InitBasics == Init => Basics
<1> SUFFICES ASSUME Init PROVE Basics
  OBVIOUS
<1>1. ASSUME NEW k \in Ids PROVE Known(k)
  BY DEF Init, Known, Idle, NoLoop
<1>2. ASSUME NEW u \in Tasks PROVE Placed(u)
  BY NoTaskType DEF Init, Placed, Waiting, Cleaning
<1>3. Taken
  BY DEF Init, Taken, IdleMachine
<1> QED
  BY <1>1, <1>2, <1>3 DEF Basics

-----------------------------------------------------------------------------
(* The calls that clean up *)

LEMMA NextCleansUp ==
    ASSUME Types, Types', Basics, Cleans, [Next]_vars, NEW u \in Tasks,
           task'[u].pc \in Cleaning
    PROVE  CleansUp(u)'
<1>a. /\ live \subseteq Ids /\ exiting \subseteq Ids
      /\ \A t \in Tasks : task[t].id \in Ids /\ task'[t].id \in Ids
  BY DEF Types, Task
<1>b. /\ Placed(u) /\ (task[u].pc \in Cleaning => CleansUp(u))
  BY DEF Basics, Cleans
<1>1. ASSUME NEW t \in Tasks, Calls(t) PROVE CleansUp(u)'
  BY <1>a, <1>b, <1>1 DEF Calls, CleansUp, Placed, Cleaning, Waiting
<1>2. ASSUME NEW t \in Tasks, NEW i \in Ids, Spawned(t, i) PROVE CleansUp(u)'
  BY <1>a, <1>b, <1>2 DEF Spawned, CleansUp, Placed, Cleaning, Waiting
<1>3. ASSUME NEW t \in Tasks, NEW i \in Ids, NEW op \in {"spawn", "stop"},
             NEW status \in {"stopping", "error"}, Begins(t, i, op, status),
             CleanupDone(t, i, op, status)
      PROVE  CleansUp(u)'
  BY <1>a, <1>b, <1>3 DEF Begins, CleanupDone, CleansUp, Placed, Cleaning, Waiting
<1>4. ASSUME NEW t \in Tasks, DisconnectDone(t) PROVE CleansUp(u)'
  BY <1>a, <1>b, <1>4 DEF DisconnectDone, CleansUp, Placed, Cleaning, Waiting
<1>5. ASSUME NEW t \in Tasks, DisposeDone(t) PROVE CleansUp(u)'
  <2>1. task[u].pc \in Cleaning /\ task'[u].id = task[u].id /\ task'[u].rpc = task[u].rpc
    BY <1>5 DEF DisposeDone, Cleaning, Waiting
  <2>2. CleansUp(u)
    BY <1>b, <2>1
  <2>3. ~obj'[task[u].id].bound /\ (obj'[task[u].id].rpc => task[u].rpc)
    BY <1>a, <1>5, <2>2 DEF DisposeDone, CleansUp
  <2>4. CASE u = t
    BY <1>a, <1>5, <2>1, <2>3, <2>4 DEF DisposeDone, CleansUp
  <2>5. CASE u # t
    <3>1. task'[u].pc = task[u].pc /\ log' = log
      BY <1>5, <2>1, <2>5 DEF DisposeDone, Cleaning, Waiting
    <3>2. child'[task[u].id] = "running" => child[task[u].id] = "running"
      BY <1>a, <1>5 DEF DisposeDone
    <3> QED
      BY <2>1, <2>2, <2>3, <3>1, <3>2 DEF CleansUp
  <2> QED
    BY <2>4, <2>5
<1>6. ASSUME NEW t \in Tasks, FinishDone(t) PROVE CleansUp(u)'
  BY <1>a, <1>b, <1>6 DEF FinishDone, CleansUp, Placed, Cleaning, Waiting
<1>7. ASSUME NEW t \in Tasks, StateDone(t) PROVE CleansUp(u)'
  BY <1>a, <1>b, <1>7 DEF StateDone, CleansUp, Placed, Cleaning, Waiting
<1>8. ASSUME NEW t \in Tasks, SpawnDone(t) PROVE CleansUp(u)'
  BY <1>a, <1>b, <1>8 DEF SpawnDone, CleansUp, Placed, Cleaning, Waiting
<1>9. ASSUME NEW i \in Ids, ExitDone(i) PROVE CleansUp(u)'
  BY <1>a, <1>b, <1>9 DEF ExitDone, CleansUp, Placed, Cleaning, Waiting
<1>10. ASSUME NEW i \in Ids, ExitForgotten(i) PROVE CleansUp(u)'
  BY <1>a, <1>b, <1>10 DEF ExitForgotten, CleansUp, Placed, Cleaning, Waiting
<1>11. ASSUME NEW i \in Ids, NEW snap \in Rec, Renews(i, snap), RenewDone(i, snap) PROVE CleansUp(u)'
  BY <1>a, <1>b, <1>11 DEF Renews, RenewDone, CleansUp, Placed, Cleaning, Waiting
<1>12. CASE Dies /\ DownDone
  BY <1>a, <1>b, <1>12 DEF Dies, SameLog, DownDone, CleansUp, Placed, Cleaning, Waiting
<1>13. CASE RecoverDone
  BY <1>a, <1>b, <1>13 DEF RecoverDone, CleansUp, Placed, Cleaning, Waiting
<1>14. CASE Calm
  BY <1>a, <1>b, <1>14 DEF Calm, SameLog, CleansUp, Placed, Cleaning, Waiting
<1> QED
  BY <1>1, <1>2, <1>3, <1>4, <1>5, <1>6, <1>7, <1>8, <1>9, <1>10, <1>11, <1>12, <1>13, <1>14,
     StepEffects

LEMMA NextExiting ==
    ASSUME Types, Types', Basics, Cleans, [Next]_vars, NEW k \in exiting'
    PROVE  ~obj'[k].bound
<1>a. /\ live \subseteq Ids /\ exiting \subseteq Ids
      /\ \A t \in Tasks : task[t].id \in Ids /\ task'[t].id \in Ids
  BY DEF Types, Task
<1>b. /\ k \in exiting => k \in Ids /\ ~obj[k].bound /\ Known(k)
  BY <1>a DEF Cleans, Basics
<1>1. ASSUME NEW t \in Tasks, Calls(t) PROVE ~obj'[k].bound
  BY <1>a, <1>b, <1>1 DEF Calls, Known
<1>2. ASSUME NEW t \in Tasks, NEW i \in Ids, Spawned(t, i) PROVE ~obj'[k].bound
  BY <1>a, <1>b, <1>2 DEF Spawned, Known
<1>3. ASSUME NEW t \in Tasks, NEW i \in Ids, NEW op \in {"spawn", "stop"},
             NEW status \in {"stopping", "error"}, Begins(t, i, op, status),
             CleanupDone(t, i, op, status)
      PROVE  ~obj'[k].bound
  BY <1>a, <1>b, <1>3 DEF Begins, CleanupDone, Known
<1>4. ASSUME NEW t \in Tasks, DisconnectDone(t) PROVE ~obj'[k].bound
  BY <1>a, <1>b, <1>4 DEF DisconnectDone, Known
<1>5. ASSUME NEW t \in Tasks, DisposeDone(t) PROVE ~obj'[k].bound
  BY <1>a, <1>b, <1>5 DEF DisposeDone, Known
<1>6. ASSUME NEW t \in Tasks, FinishDone(t) PROVE ~obj'[k].bound
  BY <1>a, <1>b, <1>6 DEF FinishDone, Known
<1>7. ASSUME NEW t \in Tasks, StateDone(t) PROVE ~obj'[k].bound
  BY <1>a, <1>b, <1>7 DEF StateDone, Known
<1>8. ASSUME NEW t \in Tasks, SpawnDone(t) PROVE ~obj'[k].bound
  BY <1>a, <1>b, <1>8 DEF SpawnDone, Known
<1>9. ASSUME NEW i \in Ids, ExitDone(i) PROVE ~obj'[k].bound
  BY <1>a, <1>b, <1>9 DEF ExitDone, Known
<1>10. ASSUME NEW i \in Ids, ExitForgotten(i) PROVE ~obj'[k].bound
  BY <1>a, <1>b, <1>10 DEF ExitForgotten, Known
<1>11. ASSUME NEW i \in Ids, NEW snap \in Rec, Renews(i, snap), RenewDone(i, snap) PROVE ~obj'[k].bound
  BY <1>a, <1>b, <1>11 DEF Renews, RenewDone, Known
<1>12. CASE Dies /\ DownDone
  BY <1>a, <1>b, <1>12 DEF Dies, SameLog, DownDone, Known
<1>13. CASE RecoverDone
  BY <1>a, <1>b, <1>13 DEF RecoverDone, Known
<1>14. CASE Calm
  BY <1>a, <1>b, <1>14 DEF Calm, SameLog, Known
<1> QED
  BY <1>1, <1>2, <1>3, <1>4, <1>5, <1>6, <1>7, <1>8, <1>9, <1>10, <1>11, <1>12, <1>13, <1>14,
     StepEffects

LEMMA NextCleans == ASSUME Types, Types', Basics, Cleans, [Next]_vars PROVE Cleans'
  BY NextCleansUp, NextExiting DEF Cleans

LEMMA InitCleans == Init => Cleans
  BY NoTaskType DEF Init, Cleans, Cleaning

-----------------------------------------------------------------------------
(* The processes and their owners *)

\* NoOrphanProcess, instance by instance.
Disposes(t, i) == task[t].id = i /\ task[t].rpc /\ task[t].pc \in {"disconnect", "dispose"}
Owned(i) == child[i] = "running" =>
                HasProcess(i) \/ i \in log.undisposed \/ \E t \in Tasks : Disposes(t, i)
NoOrphan == \A i \in Ids : Owned(i)

LEMMA NextOwned ==
    ASSUME Types, Types', Basics, Cleans, NoOrphan, [Next]_vars, NEW k \in Ids
    PROVE  Owned(k)'
<1>a. /\ live \subseteq Ids /\ exiting \subseteq Ids
      /\ \A t \in Tasks : task[t].id \in Ids /\ task'[t].id \in Ids
  BY DEF Types, Task
<1>b. /\ Owned(k) /\ Known(k)
      /\ \A u \in Tasks : task[u].pc \in Cleaning => CleansUp(u)
  BY DEF NoOrphan, Basics, Cleans
<1>1. ASSUME NEW t \in Tasks, Calls(t) PROVE Owned(k)'
  BY <1>a, <1>b, <1>1 DEF Calls, Owned, Disposes, HasProcess, Known, Waiting
<1>2. ASSUME NEW t \in Tasks, NEW i \in Ids, Spawned(t, i) PROVE Owned(k)'
  BY <1>a, <1>b, <1>2 DEF Spawned, Owned, Disposes, HasProcess, Known, Waiting
<1>3. ASSUME NEW t \in Tasks, NEW i \in Ids, NEW op \in {"spawn", "stop"},
             NEW status \in {"stopping", "error"}, Begins(t, i, op, status),
             CleanupDone(t, i, op, status)
      PROVE  Owned(k)'
  BY <1>a, <1>b, <1>3 DEF Begins, CleanupDone, Owned, Disposes, HasProcess, Known, Waiting
<1>4. ASSUME NEW t \in Tasks, DisconnectDone(t) PROVE Owned(k)'
  BY <1>a, <1>b, <1>4 DEF DisconnectDone, Owned, Disposes, HasProcess, Known, Waiting
<1>5. ASSUME NEW t \in Tasks, DisposeDone(t) PROVE Owned(k)'
  <2> SUFFICES ASSUME child'[k] = "running" PROVE Owned(k)'
    BY DEF Owned
  <2>1. child[k] = "running" /\ ~(task[t].id = k /\ task[t].rpc) /\ log' = log /\ live' = live
    BY <1>5 DEF DisposeDone
  <2>2. obj[k].rpc => obj'[k].rpc
    BY <1>5, <2>1 DEF DisposeDone
  <2>3. ASSUME NEW u \in Tasks, Disposes(u, k) PROVE Disposes(u, k)'
    <3>1. u # t /\ task[u].pc \notin Waiting
      BY <2>1, <2>3 DEF Disposes, Waiting
    <3>2. task'[u] = task[u]
      BY <1>5, <3>1 DEF DisposeDone
    <3> QED
      BY <2>3, <3>2 DEF Disposes
  <2> QED
    BY <1>b, <2>1, <2>2, <2>3 DEF Owned, HasProcess
<1>6. ASSUME NEW t \in Tasks, FinishDone(t) PROVE Owned(k)'
  BY <1>a, <1>b, <1>6 DEF FinishDone, Owned, Disposes, HasProcess, Known, Waiting, Cleaning,
     CleansUp
<1>7. ASSUME NEW t \in Tasks, StateDone(t) PROVE Owned(k)'
  BY <1>a, <1>b, <1>7 DEF StateDone, Owned, Disposes, HasProcess, Known, Waiting
<1>8. ASSUME NEW t \in Tasks, SpawnDone(t) PROVE Owned(k)'
  BY <1>a, <1>b, <1>8 DEF SpawnDone, Owned, Disposes, HasProcess, Known, Waiting
<1>9. ASSUME NEW i \in Ids, ExitDone(i) PROVE Owned(k)'
  BY <1>a, <1>b, <1>9 DEF ExitDone, Owned, Disposes, HasProcess, Known, Waiting
<1>10. ASSUME NEW i \in Ids, ExitForgotten(i) PROVE Owned(k)'
  BY <1>a, <1>b, <1>10 DEF ExitForgotten, Owned, Disposes, HasProcess, Known, Waiting
<1>11. ASSUME NEW i \in Ids, NEW snap \in Rec, Renews(i, snap), RenewDone(i, snap) PROVE Owned(k)'
  BY <1>a, <1>b, <1>11 DEF Renews, RenewDone, Owned, Disposes, HasProcess, Known, Waiting
<1>12. CASE Dies /\ DownDone
  BY <1>a, <1>b, <1>12 DEF Dies, SameLog, DownDone, Owned, Disposes, HasProcess, Known,
     Waiting
<1>13. CASE RecoverDone
  BY <1>a, <1>b, <1>13 DEF RecoverDone, Owned, Disposes, HasProcess, Known, Waiting
<1>14. CASE Calm
  BY <1>a, <1>b, <1>14 DEF Calm, SameLog, Owned, Disposes, HasProcess, Known, Waiting
<1> QED
  BY <1>1, <1>2, <1>3, <1>4, <1>5, <1>6, <1>7, <1>8, <1>9, <1>10, <1>11, <1>12, <1>13, <1>14,
     StepEffects

-----------------------------------------------------------------------------
(* Spawns, and what is not online *)

LEMMA NextSpawns ==
    ASSUME Types, Types', Basics, OneSpawn, [Next]_vars, NEW u \in Tasks, NEW v \in Tasks,
           SameSpawn(u, v)'
    PROVE  u = v
<1>a. /\ live \subseteq Ids /\ exiting \subseteq Ids
      /\ \A t \in Tasks : task[t].id \in Ids /\ task'[t].id \in Ids
  BY DEF Types, Task
<1>b. /\ SameSpawn(u, v) => u = v
      /\ Placed(u) /\ Placed(v)
  BY DEF OneSpawn, Basics
<1>1. ASSUME NEW t \in Tasks, Calls(t) PROVE u = v
  BY <1>a, <1>b, <1>1 DEF Calls, SameSpawn, Placed, Waiting
<1>2. ASSUME NEW t \in Tasks, NEW i \in Ids, Spawned(t, i) PROVE u = v
  BY <1>a, <1>b, <1>2 DEF Spawned, SameSpawn, Placed, Waiting
<1>3. ASSUME NEW t \in Tasks, NEW i \in Ids, NEW op \in {"spawn", "stop"},
             NEW status \in {"stopping", "error"}, Begins(t, i, op, status),
             CleanupDone(t, i, op, status)
      PROVE  u = v
  BY <1>a, <1>b, <1>3 DEF Begins, CleanupDone, SameSpawn, Placed, Waiting
<1>4. ASSUME NEW t \in Tasks, DisconnectDone(t) PROVE u = v
  BY <1>a, <1>b, <1>4 DEF DisconnectDone, SameSpawn, Placed, Waiting
<1>5. ASSUME NEW t \in Tasks, DisposeDone(t) PROVE u = v
  BY <1>a, <1>b, <1>5 DEF DisposeDone, SameSpawn, Placed, Waiting
<1>6. ASSUME NEW t \in Tasks, FinishDone(t) PROVE u = v
  BY <1>a, <1>b, <1>6 DEF FinishDone, SameSpawn, Placed, Waiting
<1>7. ASSUME NEW t \in Tasks, StateDone(t) PROVE u = v
  BY <1>a, <1>b, <1>7 DEF StateDone, SameSpawn, Placed, Waiting
<1>8. ASSUME NEW t \in Tasks, SpawnDone(t) PROVE u = v
  BY <1>a, <1>b, <1>8 DEF SpawnDone, SameSpawn, Placed, Waiting
<1>9. ASSUME NEW i \in Ids, ExitDone(i) PROVE u = v
  BY <1>a, <1>b, <1>9 DEF ExitDone, SameSpawn, Placed, Waiting
<1>10. ASSUME NEW i \in Ids, ExitForgotten(i) PROVE u = v
  BY <1>a, <1>b, <1>10 DEF ExitForgotten, SameSpawn, Placed, Waiting
<1>11. ASSUME NEW i \in Ids, NEW snap \in Rec, Renews(i, snap), RenewDone(i, snap) PROVE u = v
  BY <1>a, <1>b, <1>11 DEF Renews, RenewDone, SameSpawn, Placed, Waiting
<1>12. CASE Dies /\ DownDone
  BY <1>a, <1>b, <1>12 DEF Dies, SameLog, DownDone, SameSpawn, Placed, Waiting
<1>13. CASE RecoverDone
  BY <1>a, <1>b, <1>13 DEF RecoverDone, SameSpawn, Placed, Waiting
<1>14. CASE Calm
  BY <1>a, <1>b, <1>14 DEF Calm, SameLog, SameSpawn, Placed, Waiting
<1> QED
  BY <1>1, <1>2, <1>3, <1>4, <1>5, <1>6, <1>7, <1>8, <1>9, <1>10, <1>11, <1>12, <1>13, <1>14,
     StepEffects

LEMMA NextAttended ==
    ASSUME Types, Types', Basics, AllAttended, [Next]_vars, NEW k \in live' \ log'.raced
    PROVE  Attended(k)'
<1>a. /\ live \subseteq Ids /\ exiting \subseteq Ids
      /\ \A t \in Tasks : task[t].id \in Ids /\ task'[t].id \in Ids
  BY DEF Types, Task
<1>b. /\ k \in live \ log.raced => Attended(k)
      /\ \A u \in Tasks : Placed(u)
  BY DEF AllAttended, Basics
<1>1. ASSUME NEW t \in Tasks, Calls(t) PROVE Attended(k)'
  BY <1>a, <1>b, <1>1 DEF Calls, Attended, Busy, Placed, Waiting, Cleaning
<1>2. ASSUME NEW t \in Tasks, NEW i \in Ids, Spawned(t, i) PROVE Attended(k)'
  BY <1>a, <1>b, <1>2 DEF Spawned, Attended, Busy, Placed, Waiting, Cleaning
<1>3. ASSUME NEW t \in Tasks, NEW i \in Ids, NEW op \in {"spawn", "stop"},
             NEW status \in {"stopping", "error"}, Begins(t, i, op, status),
             CleanupDone(t, i, op, status)
      PROVE  Attended(k)'
  BY <1>a, <1>b, <1>3 DEF Begins, CleanupDone, Attended, Busy, Placed, Waiting, Cleaning
<1>4. ASSUME NEW t \in Tasks, DisconnectDone(t) PROVE Attended(k)'
  BY <1>a, <1>b, <1>4 DEF DisconnectDone, Attended, Busy, Placed, Waiting, Cleaning
<1>5. ASSUME NEW t \in Tasks, DisposeDone(t) PROVE Attended(k)'
  BY <1>a, <1>b, <1>5 DEF DisposeDone, Attended, Busy, Placed, Waiting, Cleaning
<1>6. ASSUME NEW t \in Tasks, FinishDone(t) PROVE Attended(k)'
  BY <1>a, <1>b, <1>6 DEF FinishDone, Attended, Busy, Placed, Waiting, Cleaning
<1>7. ASSUME NEW t \in Tasks, StateDone(t) PROVE Attended(k)'
  BY <1>a, <1>b, <1>7 DEF StateDone, Attended, Busy, Placed, Waiting, Cleaning
<1>8. ASSUME NEW t \in Tasks, SpawnDone(t) PROVE Attended(k)'
  BY <1>a, <1>b, <1>8 DEF SpawnDone, Attended, Busy, Placed, Waiting, Cleaning
<1>9. ASSUME NEW i \in Ids, ExitDone(i) PROVE Attended(k)'
  BY <1>a, <1>b, <1>9 DEF ExitDone, Attended, Busy, Placed, Waiting, Cleaning
<1>10. ASSUME NEW i \in Ids, ExitForgotten(i) PROVE Attended(k)'
  BY <1>a, <1>b, <1>10 DEF ExitForgotten, Attended, Busy, Placed, Waiting, Cleaning
<1>11. ASSUME NEW i \in Ids, NEW snap \in Rec, Renews(i, snap), RenewDone(i, snap) PROVE Attended(k)'
  BY <1>a, <1>b, <1>11 DEF Renews, RenewDone, Attended, Busy, Placed, Waiting, Cleaning
<1>12. CASE Dies /\ DownDone
  BY <1>a, <1>b, <1>12 DEF Dies, SameLog, DownDone, Attended, Busy, Placed, Waiting, Cleaning
<1>13. CASE RecoverDone
  BY <1>a, <1>b, <1>13 DEF RecoverDone, Attended, Busy, Placed, Waiting, Cleaning
<1>14. CASE Calm
  BY <1>a, <1>b, <1>14 DEF Calm, SameLog, Attended, Busy, Placed, Waiting, Cleaning
<1> QED
  BY <1>1, <1>2, <1>3, <1>4, <1>5, <1>6, <1>7, <1>8, <1>9, <1>10, <1>11, <1>12, <1>13, <1>14,
     StepEffects

-----------------------------------------------------------------------------
(* Without Radius, and what is starting or online *)

LEMMA NextActive ==
    ASSUME Types, Types', Basics, Cleans, WithoutRadius, AllActive, [Next]_vars,
           NEW k \in Ids \ log'.raced
    PROVE  Active(k)'
<1>a. /\ live \subseteq Ids /\ exiting \subseteq Ids
      /\ \A t \in Tasks : task[t].id \in Ids /\ task'[t].id \in Ids
  BY DEF Types, Task
<1>b. /\ (k \notin log.raced => Active(k)) /\ Known(k)
      /\ \A u \in Tasks : task[u].pc \in Cleaning => CleansUp(u)
      /\ k \in exiting => ~obj[k].bound
  BY DEF AllActive, Basics, Cleans
<1>1. ASSUME NEW t \in Tasks, Calls(t) PROVE Active(k)'
  BY <1>a, <1>b, <1>1 DEF Calls, Active, Known
<1>2. ASSUME NEW t \in Tasks, NEW i \in Ids, Spawned(t, i) PROVE Active(k)'
  BY <1>a, <1>b, <1>2 DEF Spawned, Active, Known
<1>3. ASSUME NEW t \in Tasks, NEW i \in Ids, NEW op \in {"spawn", "stop"},
             NEW status \in {"stopping", "error"}, Begins(t, i, op, status),
             CleanupDone(t, i, op, status)
      PROVE  Active(k)'
  BY <1>a, <1>b, <1>3 DEF Begins, CleanupDone, Active, Known
<1>4. ASSUME NEW t \in Tasks, DisconnectDone(t) PROVE Active(k)'
  BY <1>a, <1>b, <1>4 DEF DisconnectDone, Active, Known
<1>5. ASSUME NEW t \in Tasks, DisposeDone(t) PROVE Active(k)'
  BY <1>a, <1>b, <1>5 DEF DisposeDone, Active, Known, CleansUp, Cleaning
<1>6. ASSUME NEW t \in Tasks, FinishDone(t) PROVE Active(k)'
  BY <1>a, <1>b, <1>6 DEF FinishDone, Active, Known, CleansUp, Cleaning
<1>7. ASSUME NEW t \in Tasks, StateDone(t) PROVE Active(k)'
  <2>1. k \notin log.raced
    BY <1>7 DEF StateDone
  <2>2. ~radius => obj[task[t].id].status = "starting"
    BY <1>7 DEF StateDone, WithoutRadius, Local, Starts, Disposed, NoMicro, Micro
  <2> QED
    BY <1>a, <1>b, <1>7, <2>1, <2>2 DEF StateDone, Active
<1>8. ASSUME NEW t \in Tasks, SpawnDone(t) PROVE Active(k)'
  BY <1>a, <1>b, <1>8 DEF SpawnDone, Active, Known
<1>9. ASSUME NEW i \in Ids, ExitDone(i) PROVE Active(k)'
  BY <1>a, <1>b, <1>9 DEF ExitDone, Active, Known
<1>10. ASSUME NEW i \in Ids, ExitForgotten(i) PROVE Active(k)'
  BY <1>a, <1>b, <1>10 DEF ExitForgotten, Active, Known
<1>11. ASSUME NEW i \in Ids, NEW snap \in Rec, Renews(i, snap), RenewDone(i, snap) PROVE Active(k)'
  BY <1>a, <1>b, <1>11 DEF Renews, RenewDone, Active, Known
<1>12. CASE Dies /\ DownDone
  <2>1. NoObject.status = "absent"
    BY DEF NoObject
  <2> QED
    BY <1>12, <2>1 DEF DownDone, Active
<1>13. CASE RecoverDone
  BY <1>a, <1>b, <1>13 DEF RecoverDone, Active, Known
<1>14. CASE Calm
  BY <1>a, <1>b, <1>14 DEF Calm, SameLog, Active, Known
<1> QED
  BY <1>1, <1>2, <1>3, <1>4, <1>5, <1>6, <1>7, <1>8, <1>9, <1>10, <1>11, <1>12, <1>13, <1>14,
     StepEffects

LEMMA NextUnregistered ==
    ASSUME ~radius, Types, Types', Local, [Next]_vars, NEW k \in Ids
    PROVE  machine'.pc = "idle" /\ Unregistered(k)'
<1>a. /\ live \subseteq Ids /\ exiting \subseteq Ids
      /\ \A t \in Tasks : task[t].id \in Ids /\ task'[t].id \in Ids
  BY DEF Types, Task
<1>b. /\ machine.pc = "idle" /\ Unregistered(k)
      /\ \A t \in Tasks : task[t].pc # "register"
      /\ \A i \in Ids : beat[i].pc = "idle"
  BY DEF Local, Unregistered, Starts
<1>1. ASSUME NEW t \in Tasks, Calls(t) PROVE machine'.pc = "idle" /\ Unregistered(k)'
  BY <1>a, <1>b, <1>1 DEF Calls, Unregistered
<1>2. ASSUME NEW t \in Tasks, NEW i \in Ids, Spawned(t, i) PROVE machine'.pc = "idle" /\ Unregistered(k)'
  BY <1>a, <1>b, <1>2 DEF Spawned, Unregistered
<1>3. ASSUME NEW t \in Tasks, NEW i \in Ids, NEW op \in {"spawn", "stop"},
             NEW status \in {"stopping", "error"}, Begins(t, i, op, status),
             CleanupDone(t, i, op, status)
      PROVE  machine'.pc = "idle" /\ Unregistered(k)'
  BY <1>a, <1>b, <1>3 DEF Begins, CleanupDone, Unregistered
<1>4. ASSUME NEW t \in Tasks, DisconnectDone(t) PROVE machine'.pc = "idle" /\ Unregistered(k)'
  BY <1>a, <1>b, <1>4 DEF DisconnectDone, Unregistered
<1>5. ASSUME NEW t \in Tasks, DisposeDone(t) PROVE machine'.pc = "idle" /\ Unregistered(k)'
  BY <1>a, <1>b, <1>5 DEF DisposeDone, Unregistered
<1>6. ASSUME NEW t \in Tasks, FinishDone(t) PROVE machine'.pc = "idle" /\ Unregistered(k)'
  BY <1>a, <1>b, <1>6 DEF FinishDone, Unregistered
<1>7. ASSUME NEW t \in Tasks, StateDone(t) PROVE machine'.pc = "idle" /\ Unregistered(k)'
  BY <1>a, <1>b, <1>7 DEF StateDone, Unregistered
<1>8. ASSUME NEW t \in Tasks, SpawnDone(t) PROVE machine'.pc = "idle" /\ Unregistered(k)'
  BY <1>a, <1>b, <1>8 DEF SpawnDone, Unregistered
<1>9. ASSUME NEW i \in Ids, ExitDone(i) PROVE machine'.pc = "idle" /\ Unregistered(k)'
  BY <1>a, <1>b, <1>9 DEF ExitDone, Unregistered
<1>10. ASSUME NEW i \in Ids, ExitForgotten(i) PROVE machine'.pc = "idle" /\ Unregistered(k)'
  BY <1>a, <1>b, <1>10 DEF ExitForgotten, Unregistered
<1>11. ASSUME NEW i \in Ids, NEW snap \in Rec, Renews(i, snap), RenewDone(i, snap) PROVE machine'.pc = "idle" /\ Unregistered(k)'
  BY <1>a, <1>b, <1>11 DEF Renews, RenewDone, Unregistered
<1>12. CASE Dies /\ DownDone
  <2>1. NoObject.held = FALSE
    BY DEF NoObject
  <2> QED
    BY <1>b, <1>12, <2>1 DEF Dies, SameLog, DownDone, Unregistered
<1>13. CASE RecoverDone
  BY <1>a, <1>b, <1>13 DEF RecoverDone, Unregistered
<1>14. CASE Calm
  BY <1>a, <1>b, <1>14 DEF Calm, SameLog, Unregistered
<1> QED
  BY <1>1, <1>2, <1>3, <1>4, <1>5, <1>6, <1>7, <1>8, <1>9, <1>10, <1>11, <1>12, <1>13, <1>14,
     StepEffects

LEMMA NextStarts ==
    ASSUME ~radius, Types, Types', Basics, Cleans, OneSpawn, AllActive, Local, [Next]_vars,
           NEW u \in Tasks
    PROVE  Starts(u)'
<1>a. /\ live \subseteq Ids /\ exiting \subseteq Ids
      /\ \A t \in Tasks : task[t].id \in Ids /\ task'[t].id \in Ids
  BY DEF Types, Task
<1>b. /\ Starts(u)
      /\ \A t \in Tasks : task[t].pc # "register"
      /\ machine.pc = "idle" /\ \A i \in Ids : beat[i].pc = "idle"
  BY DEF Local, Unregistered, Starts
<1>1. ASSUME NEW t \in Tasks, Calls(t) PROVE Starts(u)'
  BY <1>a, <1>b, <1>1 DEF Calls, Starts, Disposed, Waiting
<1>2. ASSUME NEW t \in Tasks, NEW i \in Ids, Spawned(t, i) PROVE Starts(u)'
  BY <1>a, <1>b, <1>2 DEF Spawned, Starts, Disposed, Waiting
<1>3. ASSUME NEW t \in Tasks, NEW i \in Ids, NEW op \in {"spawn", "stop"},
             NEW status \in {"stopping", "error"}, Begins(t, i, op, status),
             CleanupDone(t, i, op, status)
      PROVE  Starts(u)'
  <2>1. (u # t => task'[u] = task[u]) /\ task'[t].pc \in {"disconnect", "dispose"}
    BY <1>3 DEF CleanupDone
  <2>2. ASSUME Disposed(task[u].id), u # t PROVE Disposed(task[u].id)'
    BY <1>3, <2>1, <2>2 DEF Begins, CleanupDone, Disposed
  <2>3. ASSUME u # t, task[u].pc = "state", task[u].id = i, obj[i].status = "starting"
        PROVE  Disposed(task[u].id)'
    <3>1. obj[i].rpc /\ ~obj[i].held
      BY <2>3 DEF Local, Unregistered, AllActive, Active
    <3> QED
      BY <1>3, <2>1, <2>3, <3>1 DEF CleanupDone, Disposed
  <2>4. task[u].id # i => obj'[task[u].id].status = obj[task[u].id].status
    BY <1>a, <1>3 DEF CleanupDone
  <2> QED
    BY <1>b, <2>1, <2>2, <2>3, <2>4 DEF Starts
<1>4. ASSUME NEW t \in Tasks, DisconnectDone(t) PROVE Starts(u)'
  BY <1>a, <1>b, <1>4 DEF DisconnectDone, Starts, Disposed, Waiting
<1>5. ASSUME NEW t \in Tasks, DisposeDone(t) PROVE Starts(u)'
  <2>1. task'[t].pc \in {"exit", "finish"} /\ obj'[task[u].id].status = obj[task[u].id].status
    BY <1>a, <1>5 DEF DisposeDone
  <2>2. CASE u # t /\ task'[u] = task[u] /\ task[u].pc = "state" /\ Disposed(task[u].id)
    <3>1. PICK w \in Tasks : task[w].id = task[u].id /\ task[w].pc = "dispose" /\ task[w].rpc
      BY <2>2 DEF Disposed
    <3>2. w # t
      BY <1>a, <1>5, <2>2, <3>1 DEF DisposeDone, Waiting
    <3>3. task'[w] = task[w]
      BY <1>5, <3>1, <3>2 DEF DisposeDone, Waiting
    <3> QED
      BY <2>2, <3>1, <3>3 DEF Starts, Disposed
  <2>3. u = t \/ task'[u] = task[u] \/ task'[u].pc = "rejected"
    BY <1>5 DEF DisposeDone
  <2> QED
    BY <1>b, <2>1, <2>2, <2>3 DEF Starts
<1>6. ASSUME NEW t \in Tasks, FinishDone(t) PROVE Starts(u)'
  <2>1. task'[t].pc = "idle" /\ (u # t => task'[u] = task[u])
    BY <1>6 DEF FinishDone
  <2>2. ASSUME Disposed(task[u].id), u # t PROVE Disposed(task[u].id)'
    BY <1>6, <2>1, <2>2 DEF FinishDone, Disposed
  <2>3. obj[task[t].id].status # "starting"
    <3>1. ~obj[task[t].id].bound /\ task[t].id \notin log.raced
      BY <1>a, <1>6 DEF FinishDone, Cleans, Cleaning, CleansUp, Local, Unregistered
    <3> QED
      BY <1>a, <3>1 DEF AllActive, Active
  <2>4. task[u].id # task[t].id => obj'[task[u].id].status = obj[task[u].id].status
    BY <1>a, <1>6 DEF FinishDone
  <2> QED
    BY <1>b, <2>1, <2>2, <2>3, <2>4 DEF Starts
<1>7. ASSUME NEW t \in Tasks, StateDone(t) PROVE Starts(u)'
  <2>1. task'[t].pc = "idle" /\ (u # t => task'[u] = task[u])
    BY <1>7 DEF StateDone
  <2>2. ~Disposed(task[u].id)
    BY <1>7 DEF StateDone, NoMicro, Micro, Disposed
  <2>3. ASSUME u # t, task[u].pc = "state" PROVE task[u].id # task[t].id
    BY <1>7, <2>3 DEF StateDone, OneSpawn, SameSpawn, Basics, Placed
  <2>4. task[u].id # task[t].id => obj'[task[u].id].status = obj[task[u].id].status
    BY <1>a, <1>7 DEF StateDone
  <2> QED
    BY <1>b, <2>1, <2>2, <2>3, <2>4 DEF Starts
<1>8. ASSUME NEW t \in Tasks, SpawnDone(t) PROVE Starts(u)'
  BY <1>a, <1>b, <1>8 DEF SpawnDone, Starts, Disposed, Waiting
<1>9. ASSUME NEW i \in Ids, ExitDone(i) PROVE Starts(u)'
  <2>1. ~Disposed(task[u].id)
    BY <1>9 DEF ExitDone, NoMicro, Micro, Disposed
  <2>2. task[u].id # i => obj'[task[u].id].status = obj[task[u].id].status
    BY <1>a, <1>9 DEF ExitDone
  <2> QED
    BY <1>b, <1>9, <2>1, <2>2 DEF ExitDone, Starts, Waiting
<1>10. ASSUME NEW i \in Ids, ExitForgotten(i) PROVE Starts(u)'
  BY <1>a, <1>b, <1>10 DEF ExitForgotten, Starts, Disposed, Waiting
<1>11. ASSUME NEW i \in Ids, NEW snap \in Rec, Renews(i, snap), RenewDone(i, snap) PROVE Starts(u)'
  BY <1>a, <1>b, <1>11 DEF Renews, RenewDone, Starts, Disposed, Waiting
<1>12. CASE Dies /\ DownDone
  BY <1>a, <1>b, <1>12 DEF Dies, SameLog, DownDone, Starts, Disposed, Waiting
<1>13. CASE RecoverDone
  BY <1>a, <1>b, <1>13 DEF RecoverDone, Starts, Disposed, Waiting
<1>14. CASE Calm
  BY <1>a, <1>b, <1>14 DEF Calm, SameLog, Starts, Disposed, Waiting
<1> QED
  BY <1>1, <1>2, <1>3, <1>4, <1>5, <1>6, <1>7, <1>8, <1>9, <1>10, <1>11, <1>12, <1>13, <1>14,
     StepEffects

LEMMA InitLocal == Init => Local
<1> SUFFICES ASSUME Init PROVE Local
  OBVIOUS
<1>1. ASSUME NEW k \in Ids PROVE Unregistered(k)
  BY DEF Init, Unregistered, Idle, NoObject
<1>2. ASSUME NEW u \in Tasks PROVE Starts(u)
  BY NoTaskType DEF Init, Starts
<1> QED
  BY <1>1, <1>2 DEF Init, Local, IdleMachine

-----------------------------------------------------------------------------
(* instances.json *)

LEMMA NextKept ==
    ASSUME Types, Types', Basics, Filed, [Next]_vars, NEW k \in Ids
    PROVE  Kept(k)'
<1>a. /\ live \subseteq Ids /\ exiting \subseteq Ids
      /\ \A t \in Tasks : task[t].id \in Ids /\ task'[t].id \in Ids
  BY DEF Types, Task
<1>b. /\ Kept(k) /\ Listed(k) /\ Known(k) /\ Absent.status = "absent"
  BY NoObjectType DEF Filed, Basics
<1>1. ASSUME NEW t \in Tasks, Calls(t) PROVE Kept(k)'
  BY <1>a, <1>b, <1>1 DEF Calls, Kept, Known
<1>2. ASSUME NEW t \in Tasks, NEW i \in Ids, Spawned(t, i) PROVE Kept(k)'
  BY <1>a, <1>b, <1>2 DEF Spawned, Kept, Known
<1>3. ASSUME NEW t \in Tasks, NEW i \in Ids, NEW op \in {"spawn", "stop"},
             NEW status \in {"stopping", "error"}, Begins(t, i, op, status),
             CleanupDone(t, i, op, status)
      PROVE  Kept(k)'
  BY <1>a, <1>b, <1>3 DEF Begins, CleanupDone, Kept, Known
<1>4. ASSUME NEW t \in Tasks, DisconnectDone(t) PROVE Kept(k)'
  BY <1>a, <1>b, <1>4 DEF DisconnectDone, Kept, Known
<1>5. ASSUME NEW t \in Tasks, DisposeDone(t) PROVE Kept(k)'
  BY <1>a, <1>b, <1>5 DEF DisposeDone, Kept, Known
<1>6. ASSUME NEW t \in Tasks, FinishDone(t) PROVE Kept(k)'
  BY <1>a, <1>b, <1>6 DEF FinishDone, Kept, Known
<1>7. ASSUME NEW t \in Tasks, StateDone(t) PROVE Kept(k)'
  BY <1>a, <1>b, <1>7 DEF StateDone, Kept, Known
<1>8. ASSUME NEW t \in Tasks, SpawnDone(t) PROVE Kept(k)'
  BY <1>a, <1>b, <1>8 DEF SpawnDone, Kept, Known
<1>9. ASSUME NEW i \in Ids, ExitDone(i) PROVE Kept(k)'
  BY <1>a, <1>b, <1>9 DEF ExitDone, Kept, Known
<1>10. ASSUME NEW i \in Ids, ExitForgotten(i) PROVE Kept(k)'
  BY <1>a, <1>b, <1>10 DEF ExitForgotten, Kept, Known
<1>11. ASSUME NEW i \in Ids, NEW snap \in Rec, Renews(i, snap), RenewDone(i, snap) PROVE Kept(k)'
  BY <1>a, <1>b, <1>11 DEF Renews, RenewDone, Kept, Known
<1>12. CASE Dies /\ DownDone
  BY <1>a, <1>b, <1>12 DEF Dies, SameLog, DownDone, Kept, Known
<1>13. CASE RecoverDone
  BY <1>a, <1>b, <1>13 DEF RecoverDone, Kept, Known, Listed
<1>14. CASE Calm
  BY <1>a, <1>b, <1>14 DEF Calm, SameLog, Kept, Known
<1> QED
  BY <1>1, <1>2, <1>3, <1>4, <1>5, <1>6, <1>7, <1>8, <1>9, <1>10, <1>11, <1>12, <1>13, <1>14,
     StepEffects

LEMMA NextVouched ==
    ASSUME Types, Types', Cleans, AllActive, AllActive', Filed, [Next]_vars, NEW k \in Ids
    PROVE  Vouched(k)'
<1>a. /\ live \subseteq Ids /\ exiting \subseteq Ids
      /\ \A t \in Tasks : task[t].id \in Ids /\ task'[t].id \in Ids
  BY DEF Types, Task
<1>b. /\ Vouched(k) /\ Listed(k)
      /\ (k \notin log.raced => Active(k)) /\ (k \notin log'.raced => Active(k)')
      /\ k \in exiting => ~obj[k].bound
  BY DEF Filed, AllActive, Cleans
<1>1. ASSUME NEW t \in Tasks, Calls(t) PROVE Vouched(k)'
  BY <1>a, <1>b, <1>1 DEF Calls, Vouched, Active
<1>2. ASSUME NEW t \in Tasks, NEW i \in Ids, Spawned(t, i) PROVE Vouched(k)'
  BY <1>a, <1>b, <1>2 DEF Spawned, Vouched, Active
<1>3. ASSUME NEW t \in Tasks, NEW i \in Ids, NEW op \in {"spawn", "stop"},
             NEW status \in {"stopping", "error"}, Begins(t, i, op, status),
             CleanupDone(t, i, op, status)
      PROVE  Vouched(k)'
  BY <1>a, <1>b, <1>3 DEF Begins, CleanupDone, Vouched, Active
<1>4. ASSUME NEW t \in Tasks, DisconnectDone(t) PROVE Vouched(k)'
  BY <1>a, <1>b, <1>4 DEF DisconnectDone, Vouched, Active
<1>5. ASSUME NEW t \in Tasks, DisposeDone(t) PROVE Vouched(k)'
  BY <1>a, <1>b, <1>5 DEF DisposeDone, Vouched, Active
<1>6. ASSUME NEW t \in Tasks, FinishDone(t) PROVE Vouched(k)'
  <2>1. server' \notin {"down", "recovering"} => server \notin {"down", "recovering"}
    BY <1>6 DEF FinishDone, Filed, Signalled
  <2> QED
    BY <1>a, <1>b, <1>6, <2>1 DEF FinishDone, Vouched
<1>7. ASSUME NEW t \in Tasks, StateDone(t) PROVE Vouched(k)'
  BY <1>a, <1>b, <1>7 DEF StateDone, Vouched, Active
<1>8. ASSUME NEW t \in Tasks, SpawnDone(t) PROVE Vouched(k)'
  BY <1>a, <1>b, <1>8 DEF SpawnDone, Vouched, Active
<1>9. ASSUME NEW i \in Ids, ExitDone(i) PROVE Vouched(k)'
  BY <1>a, <1>b, <1>9 DEF ExitDone, Vouched, Active
<1>10. ASSUME NEW i \in Ids, ExitForgotten(i) PROVE Vouched(k)'
  BY <1>a, <1>b, <1>10 DEF ExitForgotten, Vouched, Active
<1>11. ASSUME NEW i \in Ids, NEW snap \in Rec, Renews(i, snap), RenewDone(i, snap) PROVE Vouched(k)'
  BY <1>a, <1>b, <1>11 DEF Renews, RenewDone, Vouched, Active
<1>12. CASE Dies /\ DownDone
  BY <1>a, <1>b, <1>12 DEF Dies, SameLog, DownDone, Vouched, Active
<1>13. CASE RecoverDone
  BY <1>a, <1>b, <1>13 DEF RecoverDone, Vouched, Active, Listed
<1>14. CASE Calm
  BY <1>a, <1>b, <1>14 DEF Calm, SameLog, Vouched, Active
<1> QED
  BY <1>1, <1>2, <1>3, <1>4, <1>5, <1>6, <1>7, <1>8, <1>9, <1>10, <1>11, <1>12, <1>13, <1>14,
     StepEffects

LEMMA NextListed ==
    ASSUME Types, Types', Basics, Filed, [Next]_vars, NEW k \in Ids
    PROVE  Listed(k)'
<1>a. /\ live \subseteq Ids /\ exiting \subseteq Ids
      /\ \A t \in Tasks : task[t].id \in Ids /\ task'[t].id \in Ids
  BY DEF Types, Task
<1>b. /\ Listed(k) /\ Known(k) /\ Absent.status = "absent"
  BY NoObjectType DEF Filed, Basics
<1>1. ASSUME NEW t \in Tasks, Calls(t) PROVE Listed(k)'
  BY <1>a, <1>b, <1>1 DEF Calls, Listed, Known, Serving
<1>2. ASSUME NEW t \in Tasks, NEW i \in Ids, Spawned(t, i) PROVE Listed(k)'
  BY <1>a, <1>b, <1>2 DEF Spawned, Listed, Known, Serving
<1>3. ASSUME NEW t \in Tasks, NEW i \in Ids, NEW op \in {"spawn", "stop"},
             NEW status \in {"stopping", "error"}, Begins(t, i, op, status),
             CleanupDone(t, i, op, status)
      PROVE  Listed(k)'
  BY <1>a, <1>b, <1>3 DEF Begins, CleanupDone, Listed, Known, Serving
<1>4. ASSUME NEW t \in Tasks, DisconnectDone(t) PROVE Listed(k)'
  BY <1>a, <1>b, <1>4 DEF DisconnectDone, Listed, Known, Serving
<1>5. ASSUME NEW t \in Tasks, DisposeDone(t) PROVE Listed(k)'
  BY <1>a, <1>b, <1>5 DEF DisposeDone, Listed, Known, Serving
<1>6. ASSUME NEW t \in Tasks, FinishDone(t) PROVE Listed(k)'
  BY <1>a, <1>b, <1>6 DEF FinishDone, Listed, Known, Serving
<1>7. ASSUME NEW t \in Tasks, StateDone(t) PROVE Listed(k)'
  BY <1>a, <1>b, <1>7 DEF StateDone, Listed, Known, Serving
<1>8. ASSUME NEW t \in Tasks, SpawnDone(t) PROVE Listed(k)'
  BY <1>a, <1>b, <1>8 DEF SpawnDone, Listed, Known, Serving
<1>9. ASSUME NEW i \in Ids, ExitDone(i) PROVE Listed(k)'
  BY <1>a, <1>b, <1>9 DEF ExitDone, Listed, Known, Serving
<1>10. ASSUME NEW i \in Ids, ExitForgotten(i) PROVE Listed(k)'
  BY <1>a, <1>b, <1>10 DEF ExitForgotten, Listed, Known, Serving
<1>11. ASSUME NEW i \in Ids, NEW snap \in Rec, Renews(i, snap), RenewDone(i, snap) PROVE Listed(k)'
  BY <1>a, <1>b, <1>11 DEF Renews, RenewDone, Listed, Known, Serving
<1>12. CASE Dies /\ DownDone
  BY <1>a, <1>b, <1>12 DEF Dies, SameLog, DownDone, Listed, Known, Serving
<1>13. CASE RecoverDone
  BY <1>a, <1>b, <1>13 DEF RecoverDone, Listed, Known, Serving
<1>14. CASE Calm
  <2>1. file[k] \in Rec
    BY DEF Types
  <2>2. Recovered(file[k]).status \notin {"starting", "online"}
    BY <2>1 DEF Recovered, Rec
  <2> QED
    BY <1>b, <1>14, <2>2 DEF Calm, Listed
<1> QED
  BY <1>1, <1>2, <1>3, <1>4, <1>5, <1>6, <1>7, <1>8, <1>9, <1>10, <1>11, <1>12, <1>13, <1>14,
     StepEffects

LEMMA NextSig ==
    ASSUME Types, Types', Filed, [Next]_vars
    PROVE  Signalled'
<1>a. /\ live \subseteq Ids /\ exiting \subseteq Ids
      /\ \A t \in Tasks : task[t].id \in Ids /\ task'[t].id \in Ids
  BY DEF Types, Task
<1>b. /\ Sig \in Tasks /\ Signalled
  BY DEF Tasks, Filed
<1>1. ASSUME NEW t \in Tasks, Calls(t) PROVE Signalled'
  BY <1>a, <1>b, <1>1 DEF Calls, Signalled, Waiting
<1>2. ASSUME NEW t \in Tasks, NEW i \in Ids, Spawned(t, i) PROVE Signalled'
  BY <1>a, <1>b, <1>2 DEF Spawned, Signalled, Waiting
<1>3. ASSUME NEW t \in Tasks, NEW i \in Ids, NEW op \in {"spawn", "stop"},
             NEW status \in {"stopping", "error"}, Begins(t, i, op, status),
             CleanupDone(t, i, op, status)
      PROVE  Signalled'
  BY <1>a, <1>b, <1>3 DEF Begins, CleanupDone, Signalled, Waiting
<1>4. ASSUME NEW t \in Tasks, DisconnectDone(t) PROVE Signalled'
  BY <1>a, <1>b, <1>4 DEF DisconnectDone, Signalled, Waiting
<1>5. ASSUME NEW t \in Tasks, DisposeDone(t) PROVE Signalled'
  BY <1>a, <1>b, <1>5 DEF DisposeDone, Signalled, Waiting
<1>6. ASSUME NEW t \in Tasks, FinishDone(t) PROVE Signalled'
  BY <1>a, <1>b, <1>6 DEF FinishDone, Signalled, Waiting
<1>7. ASSUME NEW t \in Tasks, StateDone(t) PROVE Signalled'
  BY <1>a, <1>b, <1>7 DEF StateDone, Signalled, Waiting
<1>8. ASSUME NEW t \in Tasks, SpawnDone(t) PROVE Signalled'
  BY <1>a, <1>b, <1>8 DEF SpawnDone, Signalled, Waiting
<1>9. ASSUME NEW i \in Ids, ExitDone(i) PROVE Signalled'
  BY <1>a, <1>b, <1>9 DEF ExitDone, Signalled, Waiting
<1>10. ASSUME NEW i \in Ids, ExitForgotten(i) PROVE Signalled'
  BY <1>a, <1>b, <1>10 DEF ExitForgotten, Signalled, Waiting
<1>11. ASSUME NEW i \in Ids, NEW snap \in Rec, Renews(i, snap), RenewDone(i, snap) PROVE Signalled'
  BY <1>a, <1>b, <1>11 DEF Renews, RenewDone, Signalled, Waiting
<1>12. CASE Dies /\ DownDone
  BY <1>a, <1>b, <1>12 DEF Dies, SameLog, DownDone, Signalled, Waiting
<1>13. CASE RecoverDone
  BY <1>a, <1>b, <1>13 DEF RecoverDone, Signalled, Waiting
<1>14. CASE Calm
  BY <1>a, <1>b, <1>14 DEF Calm, SameLog, Signalled, Waiting
<1> QED
  BY <1>1, <1>2, <1>3, <1>4, <1>5, <1>6, <1>7, <1>8, <1>9, <1>10, <1>11, <1>12, <1>13, <1>14,
     StepEffects

LEMMA NextFiled ==
    ASSUME Types, Types', Basics, Cleans, AllActive, AllActive', Filed, [Next]_vars
    PROVE  Filed'
  BY NextKept, NextVouched, NextListed, NextSig DEF Filed

LEMMA InitFiled == Init => Filed
<1> SUFFICES ASSUME Init PROVE Filed
  OBVIOUS
<1>1. Signalled
  BY NoTaskType DEF Init, Tasks, Signalled
<1>2. ASSUME NEW k \in Ids PROVE Kept(k) /\ Vouched(k) /\ Listed(k)
  BY NoObjectType DEF Init, Kept, Vouched, Listed, NoLoop
<1> QED
  BY <1>1, <1>2 DEF Filed

-----------------------------------------------------------------------------
(* The inductive invariant and the theorems *)

Inv == /\ Types /\ Basics /\ Cleans /\ NoOrphan /\ OneSpawn
       /\ WithoutRadius /\ AllActive /\ AllAttended /\ Filed

LEMMA InitInv == Init => Inv
<1> SUFFICES ASSUME Init PROVE Inv
  OBVIOUS
<1>1. NoOrphan /\ AllActive /\ AllAttended
  BY DEF Init, NoOrphan, Owned, AllActive, Active, AllAttended, NoObject
<1>2. OneSpawn
  BY NoTaskType, SMTT(30) DEF Init, OneSpawn, SameSpawn
<1> QED
  BY <1>1, <1>2, InitTypes, InitBasics, InitCleans, InitLocal, InitFiled DEF Inv, WithoutRadius

LEMMA SameRadius == ASSUME Types, [Next]_vars PROVE radius' = radius
  BY StepKinds DEF Calls, Spawn, Begins, Disconnected, Dispose, Finish, StateAnswered,
     SpawnRegistered, ChildExits, ExitDisconnected, Renews, Dies, RecoverSave, Calm

LEMMA NextInv == Inv /\ [Next]_vars => Inv'
<1> SUFFICES ASSUME Inv, [Next]_vars PROVE Inv'
  OBVIOUS
<1>1. Types /\ Basics /\ Cleans /\ NoOrphan /\ OneSpawn /\ WithoutRadius /\ AllActive
      /\ AllAttended /\ Filed
  BY DEF Inv
<1>2. Types'
  BY <1>1, NextTypes
<1>3. Basics' /\ Cleans'
  BY <1>1, <1>2, NextBasics, NextCleans
<1>4. NoOrphan'
  BY <1>1, <1>2, NextOwned DEF NoOrphan
<1>5. OneSpawn'
  BY <1>1, <1>2, NextSpawns DEF OneSpawn
<1>6. AllActive'
  BY <1>1, <1>2, NextActive DEF AllActive
<1>7. WithoutRadius'
  <2>1. ASSUME ~radius PROVE Local'
    <3>1. Local
      BY <1>1, <2>1 DEF WithoutRadius
    <3>2. \A k \in Ids : machine'.pc = "idle" /\ Unregistered(k)'
      BY <1>1, <1>2, <2>1, <3>1, NextUnregistered
    <3>3. \A u \in Tasks : Starts(u)'
      BY <1>1, <1>2, <2>1, <3>1, NextStarts
    <3> QED
      BY <3>2, <3>3, SupervisorAssumption DEF Local
  <2> QED
    BY <1>1, <2>1, SameRadius DEF WithoutRadius
<1>8. AllAttended' /\ Filed'
  BY <1>1, <1>2, <1>6, NextAttended, NextFiled DEF AllAttended
<1> QED
  BY <1>2, <1>3, <1>4, <1>5, <1>6, <1>7, <1>8 DEF Inv

\* Every reachable state has its type, and every live instance a record and a process
\* that was started (liveInstances and spawnInstance of supervisor.ts).
THEOREM TypeCorrect == Spec => []TypeOK
<1>1. Inv => TypeOK
  <2> SUFFICES ASSUME Inv PROVE TypeOK
    OBVIOUS
  <2>1. Types /\ \A i \in live : i \in Ids /\ Known(i)
    BY DEF Inv, Basics, Types
  <2>2. \A i \in live : obj[i].status # "absent" /\ child[i] # "none"
    BY <2>1 DEF Known
  <2> QED
    BY <2>1, <2>2 DEF Types, TypeOK
<1> QED
  BY <1>1, InitInv, NextInv, PTL DEF Spec

\* No request of a client waits for an agent process that has exited: what is pending is
\* rejected with the exit, and nothing is sent to a process that is gone
\* (rejectAllPending and send of rpc-process.ts).
THEOREM RequestsAreAnswerable == Spec => []NoRequestToTheDead
<1>1. Inv => NoRequestToTheDead
  BY DEF Inv, Basics, Placed, NoRequestToTheDead
<1> QED
  BY <1>1, InitInv, NextInv, PTL DEF Spec

\* No agent process is left running without an owner, whatever stops, failed spawns,
\* exits, registrations, restarts and shutdowns overlap: only a call in which Radius
\* failed before dispose may leave one (cleanupAcquiredResources of supervisor.ts).
THEOREM ProcessesAreOwned == Spec => []NoOrphanProcess
<1>1. Inv => NoOrphanProcess
  BY DEF Inv, NoOrphan, Owned, Disposes, NoOrphanProcess
<1> QED
  BY <1>1, InitInv, NextInv, PTL DEF Spec

\* The status of a live instance is true: see StatusIsTrue (setStatus, stopInstance,
\* failSpawn and handleUnexpectedRpcExit of supervisor.ts).
THEOREM StatusesAreTrue == Spec => []StatusIsTrue
<1>1. Inv => StatusIsTrue
  <2> SUFFICES ASSUME Inv, NEW i \in live \ log.raced
      PROVE  CASE obj[i].status = "starting" -> Busy(i, "spawn")
               [] obj[i].status = "online" -> obj[i].bound /\ obj[i].rpc /\ child[i] = "running"
               [] obj[i].status = "stopping" -> Busy(i, "stop")
               [] obj[i].status = "error" -> Busy(i, "spawn") \/ i \in exiting
               [] OTHER -> FALSE
    BY DEF StatusIsTrue, Busy
  <2>1. i \in Ids /\ Attended(i) /\ Active(i) /\ Known(i)
    BY DEF Inv, Types, AllAttended, AllActive, Basics
  <2>2. obj[i].status \in {"starting", "online", "stopping", "error"}
    <3>1. obj[i] \in Object
      BY <2>1 DEF Inv, Types
    <3>2. obj[i].status \in Status \cup {"absent"}
      BY <3>1 DEF Object
    <3> QED
      BY <2>1, <3>2 DEF Attended, Known, Status
  <2> QED
    BY <2>1, <2>2 DEF Attended, Active
<1> QED
  BY <1>1, InitInv, NextInv, PTL DEF Spec

\* instances.json tells which instances live, and heartbeats are sent for live ones
\* only: see FileMatchesLive (upsertInstance and removeInstance of storage.ts,
\* recoverAfterRestart of supervisor.ts, stopPiHeartbeat of radius.ts).
THEOREM FileIsTrue == Spec => []FileMatchesLive
<1>1. Inv => FileMatchesLive
  <2> SUFFICES ASSUME Inv PROVE FileMatchesLive
    OBVIOUS
  <2>1. ASSUME NEW i \in Ids \ log.raced, server \notin {"down", "recovering"}
        PROVE  /\ i \in live \ log.dropped => file[i].status = obj[i].status
               /\ file[i].status \in {"starting", "online"} => i \in live
    <3>1. Kept(i) /\ Vouched(i)
      BY DEF Inv, Filed
    <3> QED
      BY <2>1, <3>1 DEF Kept, Vouched
  <2>2. hb \subseteq live \cup log.raced
    BY DEF Inv, Types, AllActive, Active
  <2> QED
    BY <2>1, <2>2 DEF FileMatchesLive
<1> QED
  BY <1>1, InitInv, NextInv, PTL DEF Spec
=============================================================================
