----------------------- MODULE OrchestratorSupervisor -----------------------
(***************************************************************************)
(* The orchestrator: a server that runs one agent process per instance,    *)
(* keeps a record of every instance in instances.json and announces the    *)
(* instances to Radius, a presence service (supervisor.ts, rpc-process.ts, *)
(* storage.ts, radius.ts and serve.ts).                                    *)
(*                                                                         *)
(* Everything runs in one process.  Requests of clients, the exit of an    *)
(* agent process, heartbeats, the recovery at the start and the shutdown   *)
(* interleave at awaits of a request to Radius, of a response of an agent  *)
(* or of its exit.  What follows a promise that has settled (Micro) runs   *)
(* before anything else.  The file is read and written synchronously.      *)
(***************************************************************************)
EXTENDS Integers, FiniteSets

CONSTANTS
    Ids,         \* instances; an id is used once (randomUUID)
    Clients,     \* connections to the server, one request at a time
    Sig,         \* the task that runs shutdown
    Scenarios    \* whether Radius is enabled, and bounds on what may happen

\* How often a client asks for something, an agent process ends by itself, a call
\* of Radius fails, a heartbeat is posted, Radius forgets the machine, the server
\* crashes, is shut down and is started again.
Bound == [requests : Nat, exits : Nat, failures : Nat, beats : Nat, machines : Nat,
          crashes : Nat, signals : Nat, starts : Nat]
Scenario == [radius : BOOLEAN, bound : Bound]

ASSUME SupervisorAssumption ==
    Ids # {} /\ Sig \notin Clients /\ Scenarios \subseteq Scenario

Tasks == Clients \cup {Sig}

VARIABLES
    radius,    \* isRadiusEnabled
    server,    \* where serve is
    live,      \* the keys of liveInstances
    obj,       \* the LiveInstance of each id
    file,      \* instances.json
    child,     \* the agent process of each instance
    task,      \* the request each client awaits, and shutdown's stopInstance
    exiting,   \* instances whose handleUnexpectedRpcExit awaits Radius
    hb,        \* piHeartbeatStates
    beat,      \* heartbeatPi of each instance
    machine,   \* the machine: registered before, heartbeatMachine
    loop,      \* what recoverAfterRestart or shutdown still has to do
    log,       \* history: the races and failures the properties speak of
    budget

vars == <<radius, server, live, obj, file, child, task, exiting, hb, beat,
          machine, loop, log, budget>>

-----------------------------------------------------------------------------
(* A record is a status and whether it has a radiusPiId.  The object in      *)
(* memory adds resources.radiusPiId (held), resources.rpcProcess (rpc) and   *)
(* the exit listener (bound).                                                *)

Status == {"starting", "online", "stopping", "stopped", "error"}
Rec == [status : Status \cup {"absent"}, pi : BOOLEAN]
Absent == [status |-> "absent", pi |-> FALSE]
Object == [status : Status \cup {"absent"}, pi : BOOLEAN, held : BOOLEAN,
           rpc : BOOLEAN, bound : BOOLEAN]
NoObject == [status |-> "absent", pi |-> FALSE, held |-> FALSE, rpc |-> FALSE,
             bound |-> FALSE]
RecordOf(o) == [status |-> o.status, pi |-> o.pi]

Waiting == {"state", "rpc", "sync"}
Micro == {"rejected", "dispose", "finish"}
TaskPc == {"idle", "open", "register", "disconnect", "exit"} \cup Waiting \cup Micro
Task == [pc : TaskPc, op : {"none", "spawn", "stop", "rpc", "stream"}, id : Ids,
         rpc : BOOLEAN, ok : BOOLEAN]
NoTask == [pc |-> "idle", op |-> "none", id |-> CHOOSE i \in Ids : TRUE,
           rpc |-> FALSE, ok |-> TRUE]

Serving == {"recovering", "registering", "up", "closing", "leaving", "stuck"}

TypeOK ==
    /\ radius \in BOOLEAN /\ server \in Serving \cup {"down"}
    /\ live \subseteq Ids /\ exiting \subseteq Ids
    /\ obj \in [Ids -> Object] /\ file \in [Ids -> Rec]
    /\ child \in [Ids -> {"none", "running", "killed", "gone"}]
    /\ task \in [Tasks -> Task]
    /\ hb \subseteq Ids
    /\ beat \in [Ids -> [pc : {"idle", "posting", "registering"}, snap : Rec]]
    /\ machine \in [known : BOOLEAN, pc : {"idle", "machine", "visit", "pi"},
                    todo : SUBSET Ids, id : Ids, snap : Rec]
    /\ loop \in [todo : SUBSET Ids, snap : [Ids -> Rec]]
    /\ log \in [raced : SUBSET Ids, dropped : SUBSET Ids, undisposed : SUBSET Ids,
                failed : BOOLEAN]
    /\ budget \in Bound
    /\ \A i \in live : obj[i].status # "absent" /\ child[i] # "none"

Spend(what) == budget[what] > 0 /\ budget' = [budget EXCEPT ![what] = @ - 1]

\* A call of Radius is answered, or fails with something else than not-found.
Answered == UNCHANGED <<budget, log>>
Fails == Spend("failures") /\ log' = [log EXCEPT !.failed = TRUE]

NoMicro == /\ \A t \in Tasks : task[t].pc \notin Micro
           /\ machine.pc # "visit"
           /\ ~(server = "closing" /\ task[Sig].pc = "idle")
           /\ ~(server = "recovering" /\ loop.todo = {})

-----------------------------------------------------------------------------
(* Records and resources *)

\* setStatus and updateRecord: the object in memory, and upsertInstance.
Save(i, o) == /\ obj' = [obj EXCEPT ![i] = o]
              /\ file' = [file EXCEPT ![i] = RecordOf(o)]

\* A request has its response; a stream stays open for the next one.
Ended(r) == IF r.op = "stream" THEN [r EXCEPT !.pc = "open"] ELSE NoTask

\* rejectAllPending of the agent process of i, seen by its callers.
Reject(i, tasks) ==
    [t \in Tasks |-> IF tasks[t].id = i /\ tasks[t].pc \in Waiting
                     THEN [tasks[t] EXCEPT !.pc = "rejected"] ELSE tasks[t]]

\* setStatus and cleanupAcquiredResources up to its first await.
Cleanup(t, i, op, status) ==
    LET o == [obj[i] EXCEPT !.status = status, !.bound = FALSE]
    IN  /\ Save(i, o)
        /\ hb' = IF o.held THEN hb \ {i} ELSE hb
        /\ task' = [task EXCEPT ![t] =
                      [pc |-> IF o.held /\ o.pi THEN "disconnect" ELSE "dispose",
                       op |-> op, id |-> i, rpc |-> o.rpc, ok |-> TRUE]]

\* disconnectPi in cleanupAcquiredResources: a failure skips dispose.
Disconnected(t) ==
    /\ NoMicro /\ task[t].pc = "disconnect"
    /\ \/ /\ Answered
          /\ task' = [task EXCEPT ![t].pc = "dispose"]
       \/ /\ Spend("failures")
          /\ task' = [task EXCEPT ![t].pc = "finish", ![t].ok = FALSE]
          /\ log' = [log EXCEPT !.failed = TRUE,
                        !.undisposed = IF task[t].rpc THEN @ \cup {task[t].id} ELSE @]
    /\ UNCHANGED <<radius, server, live, obj, file, child, exiting, hb, beat,
                   machine, loop>>

\* Mutant: dispose does not kill the process.
DisposeNoKill(t) ==
    LET i == task[t].id IN
    /\ task[t].pc = "dispose"
    /\ obj' = [obj EXCEPT ![i].pi = FALSE, ![i].held = FALSE, ![i].rpc = FALSE]
    /\ task' = [Reject(i, task) EXCEPT ![t].pc = IF child[i] # "gone" THEN "exit" ELSE "finish"]
    /\ UNCHANGED <<radius, server, live, file, child, exiting, hb, beat, machine,
                   loop, log, budget>>

\* Mutant: dispose waits for the exit event of a process that has exited already.
DisposeAlwaysWaits(t) ==
    LET i == task[t].id IN
    /\ task[t].pc = "dispose"
    /\ obj' = [obj EXCEPT ![i].pi = FALSE, ![i].held = FALSE,
                          ![i].rpc = @ /\ ~task[t].rpc]
    /\ child' = IF task[t].rpc /\ child[i] = "running"
                THEN [child EXCEPT ![i] = "killed"] ELSE child
    /\ task' = [(IF task[t].rpc THEN Reject(i, task) ELSE task)
                   EXCEPT ![t].pc = IF task[t].rpc THEN "exit" ELSE "finish"]
    /\ UNCHANGED <<radius, server, live, file, exiting, hb, beat, machine, loop, log,
                   budget>>

\* The rest of it: dispose rejects what is pending and kills the process, if the
\* object had one when cleanupAcquiredResources was called.
Dispose(t) ==
    LET i == task[t].id
        kills == task[t].rpc /\ child[i] # "gone"
        rest == IF task[t].rpc THEN Reject(i, task) ELSE task
    IN  /\ task[t].pc = "dispose"
        /\ obj' = [obj EXCEPT ![i].pi = FALSE, ![i].held = FALSE,
                              ![i].rpc = @ /\ ~task[t].rpc]
        /\ child' = IF kills THEN [child EXCEPT ![i] = "killed"] ELSE child
        /\ task' = [rest EXCEPT ![t].pc = IF kills THEN "exit" ELSE "finish"]
        /\ UNCHANGED <<radius, server, live, file, exiting, hb, beat, machine,
                       loop, log, budget>>

\* The finally blocks of stopInstance and failSpawn.  shutdown ends where the
\* stop of one instance throws.
Finish(t) ==
    LET i == task[t].id
        o == [obj[i] EXCEPT !.status = "stopped"]
    IN  /\ task[t].pc = "finish"
        /\ obj' = [obj EXCEPT ![i] = o]
        /\ file' = [file EXCEPT ![i] = IF task[t].op = "stop" THEN Absent ELSE RecordOf(o)]
        /\ live' = live \ {i}
        /\ task' = [task EXCEPT ![t] = NoTask]
        /\ server' = IF t = Sig /\ ~task[t].ok THEN "stuck" ELSE server
        /\ UNCHANGED <<radius, child, exiting, hb, beat, machine, loop, log, budget>>

-----------------------------------------------------------------------------
(* Requests of clients *)

Free(t) == /\ t \in Clients /\ NoMicro /\ server \in Serving
           /\ task[t].pc = "idle" /\ Spend("requests")

\* spawnInstance up to its first await: get_state is sent to the new process.
Spawn(t, i) ==
    /\ Free(t) /\ child[i] = "none"
    /\ live' = live \cup {i}
    /\ Save(i, [NoObject EXCEPT !.status = "starting", !.rpc = TRUE, !.bound = TRUE])
    /\ child' = [child EXCEPT ![i] = "running"]
    /\ task' = [task EXCEPT ![t] = [NoTask EXCEPT !.pc = "state", !.op = "spawn", !.id = i]]
    /\ UNCHANGED <<radius, server, exiting, hb, beat, machine, loop, log>>

\* stopInstance up to its first await.
Stop(t, i) ==
    /\ Free(t) /\ i \in live
    /\ Cleanup(t, i, "stop", "stopping")
    /\ UNCHANGED <<radius, server, live, child, exiting, beat, machine, loop, log>>

\* handleRpc, or openRpcStream.
HasProcess(i) == i \in live /\ obj[i].rpc
Rpc(t, i) ==
    /\ Free(t) /\ HasProcess(i)
    /\ \/ /\ child[i] # "gone"
          /\ task' = [task EXCEPT ![t] = [NoTask EXCEPT !.pc = "rpc", !.op = "rpc", !.id = i]]
       \/ task' = [task EXCEPT ![t] = [NoTask EXCEPT !.pc = "open", !.op = "stream", !.id = i]]
    /\ UNCHANGED <<radius, server, live, obj, file, child, exiting, hb, beat,
                   machine, loop, log>>

\* A command on a stream goes to the process the stream was opened on, whatever
\* became of the instance; or the stream is closed.
StreamRpc(t) ==
    /\ NoMicro /\ task[t].pc = "open"
    /\ \/ /\ Spend("requests") /\ child[task[t].id] # "gone"
          /\ task' = [task EXCEPT ![t].pc = "rpc"]
       \/ task' = [task EXCEPT ![t] = NoTask] /\ UNCHANGED budget
    /\ UNCHANGED <<radius, server, live, obj, file, child, exiting, hb, beat,
                   machine, loop, log>>

\* The agent answers spawn's get_state: the record is saved and registered.
StateAnswered(t) ==
    LET i == task[t].id
        o == IF radius THEN obj[i] ELSE [obj[i] EXCEPT !.status = "online"]
    IN  /\ NoMicro /\ task[t].pc = "state"
        /\ Save(i, o)
        /\ task' = [task EXCEPT ![t] =
                      IF ~radius THEN NoTask
                      ELSE [@ EXCEPT !.pc = IF machine.known THEN "register" ELSE "rejected"]]
        /\ UNCHANGED <<radius, server, live, child, exiting, hb, beat, machine,
                       loop, log, budget>>

\* The agent answers a command.  One that may change the session is followed by
\* syncInstanceRecord, which saves the record, stopped or not.
RpcAnswered(t) ==
    LET i == task[t].id IN
    /\ NoMicro
    /\ \/ /\ task[t].pc = "rpc"
          /\ task' = [task EXCEPT ![t] = Ended(@)]
          /\ UNCHANGED <<obj, file>>
       \/ /\ task[t].pc = "rpc" /\ obj[i].rpc
          /\ task' = [task EXCEPT ![t].pc = "sync"]
          /\ UNCHANGED <<obj, file>>
       \/ /\ task[t].pc = "sync" \/ (task[t].pc = "rpc" /\ ~obj[i].rpc)
          /\ task' = [task EXCEPT ![t] = Ended(@)]
          /\ Save(i, obj[i])
    /\ UNCHANGED <<radius, server, live, child, exiting, hb, beat, machine, loop,
                   log, budget>>

\* Mutant: a spawn that fails is only reported.
RejectedOnly(t) ==
    /\ task[t].pc = "rejected"
    /\ task' = [task EXCEPT ![t] = Ended(@)]
    /\ UNCHANGED <<radius, server, live, obj, file, child, exiting, hb, beat, machine,
                   loop, log, budget>>

\* The request of spawn, or of handleRpc, was rejected: failSpawn, or an error.
Rejected(t) ==
    /\ task[t].pc = "rejected"
    /\ \/ /\ task[t].op = "spawn"
          /\ Cleanup(t, task[t].id, "spawn", "error")
       \/ /\ task[t].op # "spawn"
          /\ task' = [task EXCEPT ![t] = Ended(@)]
          /\ UNCHANGED <<obj, file, hb>>
    /\ UNCHANGED <<radius, server, live, child, exiting, beat, machine, loop, log,
                   budget>>

-----------------------------------------------------------------------------
(* Radius *)

\* registerPi after its await, and what its caller does with the answer: the
\* record as it was before the await becomes the instance's record again.
Registered(i, snap, status) ==
    LET now == [snap EXCEPT !.status = status, !.pi = TRUE]
        races == \/ i \notin live \/ obj[i].status \notin {"starting", "online"}
                 \/ obj[i].status # snap.status
    IN  /\ hb' = hb \cup {i}
        /\ log' = [log EXCEPT !.raced = IF races THEN @ \cup {i} ELSE @]
        /\ file' = [file EXCEPT ![i] = now]

\* The registration of a new instance: it is online, or failSpawn cleans up.
SpawnRegistered(t) ==
    LET i == task[t].id IN
    /\ NoMicro /\ task[t].pc = "register"
    /\ \/ /\ Registered(i, [status |-> "starting", pi |-> FALSE], "online")
          /\ obj' = [obj EXCEPT ![i].status = "online", ![i].pi = TRUE, ![i].held = TRUE]
          /\ task' = [task EXCEPT ![t] = NoTask]
          /\ UNCHANGED budget
       \/ /\ Fails
          /\ task' = [task EXCEPT ![t].pc = "rejected"]
          /\ UNCHANGED <<obj, file, hb>>
    /\ UNCHANGED <<radius, server, live, child, exiting, beat, machine, loop>>

\* reRegisterPi after its await (updateInstance): the object is updated only if
\* the instance is live, the file always.
ReRegistered(i, snap) ==
    \/ /\ Registered(i, snap, snap.status)
       /\ obj' = IF i \in live
                 THEN [obj EXCEPT ![i].status = snap.status, ![i].pi = TRUE, ![i].held = TRUE]
                 ELSE obj
       /\ UNCHANGED budget
    \/ Fails /\ UNCHANGED <<obj, file, hb>>

\* The timer of an instance's heartbeat goes off.  One heartbeat of an instance
\* is in flight at a time: timers are much longer than requests.
Beat(i) ==
    /\ NoMicro /\ server \in {"up", "closing", "leaving", "stuck"}
    /\ i \in hb /\ beat[i].pc = "idle" /\ Spend("beats")
    /\ beat' = [beat EXCEPT ![i].pc = "posting"]
    /\ UNCHANGED <<radius, server, live, obj, file, child, task, exiting, hb,
                   machine, loop, log>>

\* The answer schedules the next heartbeat, or it is the last not-found of
\* NOT_FOUND_RETRY_THRESHOLD in a row and the instance is registered again,
\* whether its heartbeat state is still there or not.
Beaten(i) ==
    /\ NoMicro /\ beat[i].pc = "posting"
    /\ \/ beat' = [beat EXCEPT ![i].pc = "idle"] /\ UNCHANGED hb
       \/ /\ i \in live
          /\ beat' = [beat EXCEPT ![i] = [pc |-> "registering", snap |-> RecordOf(obj[i])]]
          /\ UNCHANGED hb
       \/ /\ i \notin live
          /\ beat' = [beat EXCEPT ![i].pc = "idle"] /\ hb' = hb \ {i}
    /\ UNCHANGED <<radius, server, live, obj, file, child, task, exiting, machine,
                   loop, log, budget>>

BeatRegistered(i) ==
    /\ NoMicro /\ beat[i].pc = "registering"
    /\ ReRegistered(i, beat[i].snap)
    /\ beat' = [beat EXCEPT ![i] = [pc |-> "idle", snap |-> Absent]]
    /\ UNCHANGED <<radius, server, live, child, task, exiting, machine, loop>>

\* Radius has forgotten the machine (heartbeatMachine, reRegisterMachineAndPis):
\* the machine and then every live instance, one by one, is registered again.
MachineForgotten ==
    /\ NoMicro /\ radius /\ server \in {"up", "closing"}
    /\ machine.pc = "idle" /\ Spend("machines")
    /\ machine' = [machine EXCEPT !.pc = "machine"]
    /\ UNCHANGED <<radius, server, live, obj, file, child, task, exiting, hb, beat,
                   loop, log>>

MachineRegistered ==
    /\ NoMicro /\ machine.pc = "machine"
    /\ \/ Answered /\ machine' = [machine EXCEPT !.pc = "visit", !.todo = live]
       \/ Fails /\ machine' = [machine EXCEPT !.pc = "idle"]
    /\ UNCHANGED <<radius, server, live, obj, file, child, task, exiting, hb, beat,
                   loop>>

MachineVisits ==
    /\ machine.pc = "visit"
    /\ \/ /\ machine.todo = {} /\ UNCHANGED hb
          /\ machine' = [machine EXCEPT !.pc = "idle"]
       \/ \E i \in machine.todo :
             \/ /\ i \in live /\ UNCHANGED hb
                /\ machine' = [machine EXCEPT !.pc = "pi", !.todo = @ \ {i}, !.id = i,
                                              !.snap = RecordOf(obj[i])]
             \/ /\ i \notin live /\ hb' = hb \ {i}
                /\ machine' = [machine EXCEPT !.todo = @ \ {i}]
    /\ UNCHANGED <<radius, server, live, obj, file, child, task, exiting, beat,
                   loop, log, budget>>

MachinePiRegistered ==
    /\ NoMicro /\ machine.pc = "pi"
    /\ ReRegistered(machine.id, machine.snap)
    /\ machine' = [machine EXCEPT !.pc = "visit", !.snap = Absent]
    /\ UNCHANGED <<radius, server, live, child, task, exiting, beat, loop>>

-----------------------------------------------------------------------------
(* An agent process exits *)

\* Mutant: the requests it has not answered are left pending.
ChildExitsSilently(i) ==
    /\ NoMicro /\ child[i] \in {"running", "killed"}
    /\ child' = [child EXCEPT ![i] = "gone"]
    /\ \/ child[i] = "killed" /\ UNCHANGED budget
       \/ child[i] = "running" /\ Spend("exits")
    /\ task' = [t \in Tasks |-> IF task[t].id = i /\ task[t].pc = "exit"
                                THEN [task[t] EXCEPT !.pc = "finish"] ELSE task[t]]
    /\ UNCHANGED <<radius, server, live, obj, file, exiting, hb, beat, machine, loop, log>>

\* The exit event: what is pending is rejected, dispose returns, and
\* handleUnexpectedRpcExit runs up to its await.
ChildExits(i) ==
    LET o == [obj[i] EXCEPT !.status = "error", !.bound = FALSE, !.rpc = FALSE]
        unexpected == /\ obj[i].bound /\ i \in live
                      /\ obj[i].status \notin {"stopping", "stopped"}
        rest == [t \in Tasks |-> IF task[t].id = i /\ task[t].pc = "exit"
                                 THEN [task[t] EXCEPT !.pc = "finish"] ELSE task[t]]
    IN  /\ NoMicro
        /\ \/ child[i] = "killed" /\ UNCHANGED budget
           \/ child[i] = "running" /\ Spend("exits")
        /\ child' = [child EXCEPT ![i] = "gone"]
        /\ task' = Reject(i, rest)
        /\ \/ /\ ~unexpected
              /\ UNCHANGED <<live, obj, file, exiting, hb>>
           \/ /\ unexpected /\ Save(i, o)
              /\ hb' = IF o.held THEN hb \ {i} ELSE hb
              /\ IF o.held /\ o.pi
                 THEN exiting' = exiting \cup {i} /\ UNCHANGED live
                 ELSE live' = live \ {i} /\ UNCHANGED exiting
        /\ UNCHANGED <<radius, server, beat, machine, loop, log>>

\* ... and after it: a failure is logged, and the instance is forgotten.
ExitDisconnected(i) ==
    /\ NoMicro /\ i \in exiting
    /\ \/ Answered /\ Save(i, [obj[i] EXCEPT !.pi = FALSE])
       \/ Fails /\ UNCHANGED <<obj, file>>
    /\ exiting' = exiting \ {i} /\ live' = live \ {i}
    /\ UNCHANGED <<radius, server, child, task, hb, beat, machine, loop>>

-----------------------------------------------------------------------------
(* The server *)

NoLoop == [todo |-> {}, snap |-> [i \in Ids |-> Absent]]
IdleMachine(known) == [known |-> known, pc |-> "idle", todo |-> {},
                       id |-> NoTask.id, snap |-> Absent]
Idle == [i \in Ids |-> [pc |-> "idle", snap |-> Absent]]

\* The process ends: what is left is instances.json and machine.json.  The agents
\* end with their standard input.
Down ==
    /\ server' = "down" /\ live' = {} /\ obj' = [i \in Ids |-> NoObject]
    /\ child' = [i \in Ids |-> IF child[i] = "none" THEN "none" ELSE "gone"]
    /\ task' = [t \in Tasks |-> NoTask] /\ exiting' = {} /\ hb' = {} /\ beat' = Idle
    /\ machine' = IdleMachine(machine.known) /\ loop' = NoLoop

Crash == /\ server \in Serving /\ Spend("crashes") /\ Down
         /\ UNCHANGED <<radius, file, log>>

\* Mutant: recoverAfterRestart leaves the statuses as they are.
RecoveredAsIs(r) == r

\* What recoverAfterRestart makes of a record.
Recovered(r) == IF r.status \in {"online", "starting"}
                THEN [r EXCEPT !.status = "stopped"] ELSE r

\* serve: the server accepts requests, and recoverAfterRestart has the list.
Start ==
    /\ server = "down" /\ Spend("starts")
    /\ server' = "recovering"
    /\ loop' = [todo |-> {i \in Ids : radius /\ file[i].pi},
                snap |-> [i \in Ids |-> Recovered(file[i])]]
    /\ UNCHANGED <<radius, live, obj, file, child, task, exiting, hb, beat, machine, log>>

\* The next record is disconnected from Radius; a failure ends the process.
RecoverNext ==
    /\ NoMicro /\ server = "recovering"
    /\ \E i \in loop.todo :
          \/ /\ Answered /\ loop' = [loop EXCEPT !.todo = @ \ {i}]
             /\ UNCHANGED <<server, live, obj, child, task, exiting, hb, beat, machine>>
          \/ Fails /\ Down
    /\ UNCHANGED <<radius, file>>

\* The list is saved over whatever has been saved since it was read.
RecoverSave ==
    /\ server = "recovering" /\ loop.todo = {}
    /\ \A t \in Tasks : task[t].pc \notin Micro
    /\ file' = loop.snap
    /\ log' = [log EXCEPT !.dropped = @ \cup {i \in Ids : loop.snap[i] = Absent
                                                         /\ file[i] # Absent}]
    /\ server' = IF radius THEN "registering" ELSE "up"
    /\ loop' = NoLoop
    /\ UNCHANGED <<radius, live, obj, child, task, exiting, hb, beat, machine, budget>>

\* radiusPresence.start
Started ==
    /\ NoMicro /\ server = "registering"
    /\ \/ /\ Answered /\ server' = "up"
          /\ machine' = [machine EXCEPT !.known = TRUE]
          /\ UNCHANGED <<live, obj, child, task, exiting, hb, beat, loop>>
       \/ Fails /\ Down
    /\ UNCHANGED <<radius, file>>

\* A signal, or an error nobody catches.
Signal ==
    /\ NoMicro /\ server = "up" /\ Spend("signals")
    /\ server' = "closing" /\ loop' = [NoLoop EXCEPT !.todo = live]
    /\ UNCHANGED <<radius, live, obj, file, child, task, exiting, hb, beat, machine, log>>

\* shutdown stops the instances it has found, one by one, and the heartbeats.
ShutdownNext ==
    /\ server = "closing" /\ task[Sig].pc = "idle"
    /\ \A t \in Tasks : task[t].pc \notin Micro
    /\ \/ \E i \in loop.todo :
             /\ loop' = [loop EXCEPT !.todo = @ \ {i}]
             /\ IF i \in live THEN Cleanup(Sig, i, "stop", "stopping")
                              ELSE UNCHANGED <<obj, file, hb, task>>
             /\ UNCHANGED <<server, live, child, exiting, beat, machine>>
       \/ /\ loop.todo = {} /\ radius
          /\ server' = "leaving" /\ hb' = {}
          /\ UNCHANGED <<live, obj, file, child, task, exiting, beat, machine, loop>>
       \/ loop.todo = {} /\ ~radius /\ Down /\ UNCHANGED file
    /\ UNCHANGED <<radius, log, budget>>

\* The machine is disconnected and the process exits.  If that fails, shutdown's
\* promise is rejected for every later call too, and exit is never reached.
Leave ==
    /\ NoMicro /\ server = "leaving"
    /\ \/ Answered /\ Down
       \/ /\ Fails /\ server' = "stuck"
          /\ UNCHANGED <<live, obj, child, task, exiting, hb, beat, machine, loop>>
    /\ UNCHANGED <<radius, file>>

-----------------------------------------------------------------------------
Init ==
    /\ \E sc \in Scenarios : radius = sc.radius /\ budget = sc.bound
    /\ server = "down" /\ live = {} /\ obj = [i \in Ids |-> NoObject]
    /\ file = [i \in Ids |-> Absent] /\ child = [i \in Ids |-> "none"]
    /\ task = [t \in Tasks |-> NoTask] /\ exiting = {} /\ hb = {} /\ beat = Idle
    /\ machine = IdleMachine(FALSE) /\ loop = NoLoop
    /\ log = [raced |-> {}, dropped |-> {}, undisposed |-> {}, failed |-> FALSE]

Request(t) == \/ \E i \in Ids : Spawn(t, i) \/ Stop(t, i) \/ Rpc(t, i)
              \/ StreamRpc(t)
TaskStep(t) == \/ Disconnected(t) \/ Dispose(t) \/ Finish(t) \/ Rejected(t)
               \/ StateAnswered(t) \/ SpawnRegistered(t)
InstanceStep(i) == ChildExits(i) \/ ExitDisconnected(i) \/ BeatRegistered(i)
MachineStep == MachineRegistered \/ MachineVisits \/ MachinePiRegistered
ServerStep == RecoverNext \/ RecoverSave \/ Started \/ ShutdownNext \/ Leave

Next == \/ \E t \in Tasks : Request(t) \/ TaskStep(t) \/ RpcAnswered(t)
        \/ \E i \in Ids : InstanceStep(i) \/ Beat(i) \/ Beaten(i)
        \/ MachineForgotten \/ MachineStep
        \/ Start \/ ServerStep \/ Signal \/ Crash

Spec == Init /\ [][Next]_vars

\* Calls of Radius are answered or fail, an agent that is sent SIGTERM exits and
\* one that starts answers get_state.  Nothing else has to happen.
FairSpec ==
    /\ Spec
    /\ \A t \in Tasks : WF_vars(TaskStep(t))
    /\ \A i \in Ids : WF_vars(child[i] = "killed" /\ ChildExits(i))
    /\ WF_vars(MachineStep) /\ WF_vars(ServerStep)

-----------------------------------------------------------------------------
(* Properties *)

\* No agent process is left running without an owner: it belongs to a live
\* instance, or to a call that is about to dispose of it, unless Radius failed
\* in that call before dispose was reached (cleanupAcquiredResources).
NoOrphanProcess ==
    \A i \in Ids : child[i] = "running" =>
        \/ HasProcess(i) \/ i \in log.undisposed
        \/ \E t \in Tasks : task[t].id = i /\ task[t].rpc /\ task[t].pc \in {"disconnect", "dispose"}

\* No request waits for a process that has exited (rejectAllPending, send).
NoRequestToTheDead ==
    \A t \in Tasks : task[t].pc \in Waiting => child[task[t].id] # "gone"

\* The status of a live instance tells what happens to it: starting while its
\* spawn is in flight, online with a process that has not exited and whose exit
\* is listened for, stopping while a stop is, and error only while it is cleaned
\* up - unless a registration brought an older record back (updateInstance).
StatusIsTrue ==
    \A i \in live \ log.raced :
        LET Busy(op) == \E t \in Tasks : task[t].id = i /\ task[t].op = op /\ task[t].pc # "idle"
        IN  CASE obj[i].status = "starting" -> Busy("spawn")
              [] obj[i].status = "online" -> obj[i].bound /\ obj[i].rpc /\ child[i] = "running"
              [] obj[i].status = "stopping" -> Busy("stop")
              [] obj[i].status = "error" -> Busy("spawn") \/ i \in exiting
              [] OTHER -> FALSE

\* instances.json has the status of every live instance, and calls nothing
\* starting or online that is not live, and Radius gets heartbeats of live instances
\* only: also after a failed spawn, an exit, a stop or a restart.  Exceptions are a
\* registration that was answered after the instance was gone, and a record that
\* recoverAfterRestart wrote over.
FileMatchesLive ==
    /\ server \notin {"down", "recovering"} =>
          \A i \in Ids \ log.raced :
              /\ i \in live \ log.dropped => file[i].status = obj[i].status
              /\ file[i].status \in {"starting", "online"} => i \in live
    /\ hb \subseteq live \cup log.raced

\* Stopping and spawning come to an end, and a shutdown ends the process unless a
\* call of Radius failed (stopInstance, failSpawn, serve).
StopsEnd ==
    /\ \A t \in Clients :
          task[t].op \in {"spawn", "stop"} ~> task[t].op \notin {"spawn", "stop"}
    /\ server = "closing" ~> server = "down" \/ log.failed
=============================================================================
