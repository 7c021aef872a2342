------------------------ MODULE GatewayConversation ------------------------
(***************************************************************************)
(* One chat conversation of the gateway: the platform adapter that hands   *)
(* over messages, the conversation's log and job queue (ConversationRuntime*)
(* in chat/runtime.ts) and the worker that runs one agent turn at a time   *)
(* (GatewayConversationWorker in runner.ts).                               *)
(*                                                                         *)
(* Everything runs in one process and interleaves at awaits.  A record is  *)
(* pushed into memory at once and reaches the log file an await later, or  *)
(* not at all; after a crash the log file is all there is, and the adapter *)
(* fetches what came after its resume point again.                         *)
(***************************************************************************)
EXTENDS Integers, Sequences, FiniteSets, FiniteSetsExt

CONSTANTS
    MaxMsg,      \* messages 1 .. MaxMsg, in the platform's order
    Controls,    \* the /stop and /new commands among them
    Mentions,    \* the messages that ask for a turn
    Scenarios    \* the adapter, and bounds on what may happen (Scenario below)

Msgs == 1 .. MaxMsg

\* How the adapter calls onMessage, and how many messages are sent, nudge timers
\* go off, turns end without an answer, appends fail and gateways crash.
Bound == [msgs : 0 .. MaxMsg, nudges : Nat, errors : Nat, faults : Nat, crashes : Nat]
Scenario == [adapter : {"serial", "concurrent", "web"}, bound : Bound]

ASSUME GatewayAssumption ==
    /\ MaxMsg \in Nat /\ Controls \subseteq Msgs /\ Mentions \subseteq Msgs \ Controls
    /\ Scenarios \subseteq Scenario

VARIABLES
    adapter,   \* how this conversation's adapter calls onMessage
    records,   \* ConversationRuntime.records, in the order of their ids
    disk,      \* ids of the records that are in the log file
    next,      \* nextRecordId
    armed,     \* armedAfterRecordId, or Unarmed
    pending,   \* pendingJobs
    active,    \* activeJob, or NoJob
    inbox,     \* the onMessage call of each message
    turn,      \* the call of tryDispatch that is in flight
    cursor,    \* the adapter's cursor file
    log,       \* history: messages answered, records a nudge passed over, messages
               \* queued, failed appends
    budget

runtime == <<records, disk, next, armed, pending, active>>
vars == <<adapter, records, disk, next, armed, pending, active, inbox, turn,
          cursor, log, budget>>

-----------------------------------------------------------------------------
(* Records and jobs.  msg is the message a record or a job is about; 0      *)
(* stands for a nudge.  trig is a job's triggerRecordId.  appendRecord      *)
(* pushes a record under a new, larger id and initialize sorts the log by   *)
(* id, so that the set of records tells what the array does.                *)

Unarmed == -1
Job == [trig : Nat, msg : 0 .. MaxMsg]
NoJob == [trig |-> 0, msg |-> -1]
Record == [id : Nat, type : {"inbound", "checkpoint", "queued", "outbound",
                             "completed", "failed", "error"},
           msg : 0 .. MaxMsg, trig : Nat]

InboxPc == {"new", "attach", "inbound", "checkpoint", "queued", "again", "done"}
TurnPc == {"idle", "setup", "prompt", "deliver", "outbound", "completed",
           "aborted", "failed", "error"}
IdleTurn == [pc |-> "idle", caller |-> 0, prompt |-> {}, aborted |-> FALSE, rec |-> 0]

TypeOK ==
    /\ adapter \in {"serial", "concurrent", "web"}
    /\ records \in SUBSET Record /\ disk \in SUBSET Nat /\ next \in Nat
    /\ armed \in Nat \cup {Unarmed}
    /\ pending \in Seq(Job) /\ active \in Job \cup {NoJob}
    /\ inbox \in [Msgs -> [pc : InboxPc, rec : Nat, control : BOOLEAN]]
    /\ turn \in [pc : TurnPc, caller : 0 .. MaxMsg, prompt : SUBSET Msgs,
                 aborted : BOOLEAN, rec : Nat]
    /\ cursor \in 0 .. MaxMsg
    /\ log \in [answered : SUBSET Msgs, passed : SUBSET Nat, queued : SUBSET Msgs,
                twice : BOOLEAN, faulty : BOOLEAN]
    /\ budget \in Bound

OfType(t) == {r \in records : r.type = t}
MaxOf(S) == Max(S \cup {0})
LastId == MaxOf({r.id : r \in records})

\* getLastQueuedTriggerRecordId and getLastCompletedTriggerRecordId.
LastQueued == MaxOf({r.trig : r \in OfType("queued")})
Boundary == MaxOf({r.trig : r \in OfType("completed")})

\* getLastCheckpoint of a log: the message of its last checkpoint, or 0.
LastCheckpoint(rs) ==
    LET noted == {r \in rs : r.type = "checkpoint"}
    IN  IF noted = {} THEN 0 ELSE (CHOOSE r \in noted : \A q \in noted : q.id <= r.id).msg

\* appendRecord up to its await: the record is in memory under the next id ...
Push(type, msg, trig) ==
    /\ records' = records \cup {[id |-> next, type |-> type, msg |-> msg, trig |-> trig]}
    /\ next' = next + 1

\* ... and after it: the line is in the file, or the append rejects.
Landed(id) == disk' = disk \cup {id} /\ UNCHANGED <<log, budget>>
AppendFails ==
    /\ budget.faults > 0
    /\ budget' = [budget EXCEPT !.faults = @ - 1]
    /\ log' = [log EXCEPT !.faulty = TRUE]
    /\ UNCHANGED disk

-----------------------------------------------------------------------------
(* The job queue *)

\* Mutant: arming is not asked for.
ShouldQueueUnarmed(m, id) == m \in Mentions /\ id > LastQueued

\* shouldTriggerJob and shouldQueueTrigger for the inbound record id of m.
ShouldQueue(m, id) == /\ m \in Mentions /\ armed # Unarmed
                      /\ id > Max({armed, LastQueued})

\* Mutant of buildPrompt: only the message that triggered the job.
BuildPromptTrigger(job) ==
    IF job.msg = 0 THEN {} ELSE {r.msg : r \in {r \in OfType("inbound") : r.id = job.trig}}

\* buildPrompt: the messages after the last completed job, up to the trigger.
BuildPrompt(job) ==
    IF job.msg = 0 THEN {}
    ELSE {r.msg : r \in {r \in OfType("inbound") : r.id > Boundary /\ r.id <= job.trig}}

\* onMessage of m returns to the adapter: Telegram's writes its cursor (unless
\* onMessage rejected).
Returned(m) ==
    \/ cursor' = IF adapter = "serial" THEN Max({cursor, m}) ELSE cursor
    \/ log.faulty /\ UNCHANGED cursor

\* tryDispatch of an idle worker, with jobs q queued and job a active, up to its
\* first await, on behalf of the onMessage of a message, or of nobody (0).
CanDispatch(a, q) == a = NoJob /\ q # <<>>
Dispatch(m, a, q) ==
    \/ /\ CanDispatch(a, q)
       /\ pending' = Tail(q) /\ active' = Head(q)
       /\ turn' = [IdleTurn EXCEPT !.pc = "setup", !.caller = m,
                                   !.prompt = BuildPrompt(Head(q))]
       /\ UNCHANGED cursor
    \/ /\ ~CanDispatch(a, q)
       /\ pending' = q /\ active' = a /\ turn' = IdleTurn
       /\ Returned(m)

\* tryDispatch: nothing happens while a turn is in flight.
TryDispatch(m, q) ==
    \/ turn.pc = "idle" /\ Dispatch(m, active, q)
    \/ /\ turn.pc # "idle"
       /\ pending' = q /\ Returned(m)
       /\ UNCHANGED <<active, turn>>

-----------------------------------------------------------------------------
(* The adapter and onMessage *)

SetInbox(m, pc, rec) == inbox' = [inbox EXCEPT ![m].pc = pc, ![m].rec = rec]
Handling == {m \in Msgs : inbox[m].pc \notin {"new", "again", "done"}}

\* Telegram's poll loop awaits every onMessage with the turns it runs, and so
\* does every adapter while it catches up.
AdapterFree ==
    adapter = "serial" \/ armed = Unarmed => Handling = {} /\ turn.caller = 0

\* Mutant: the cursor is written before the message is handled.
DeliverCursorFirst(m) ==
    /\ inbox[m].pc \in {"new", "again"} /\ AdapterFree /\ m <= budget.msgs
    /\ adapter = "serial" => \A k \in 1 .. m - 1 : inbox[k].pc \notin {"new", "again"}
    /\ inbox' = [inbox EXCEPT ![m] = [pc |-> "attach", rec |-> 0, control |-> FALSE]]
    /\ cursor' = m
    /\ UNCHANGED <<adapter, runtime, turn, log, budget>>

\* A message comes in.  The web server aborts the turn in flight first.  A
\* control command aborts the turn that is in flight, if any; anything else is
\* ingested, its attachments first.
Deliver(m) ==
    /\ inbox[m].pc \in {"new", "again"} /\ AdapterFree /\ m <= budget.msgs
    /\ armed = Unarmed => adapter # "web"
    /\ adapter = "serial" \/ armed = Unarmed =>
          \A k \in 1 .. m - 1 : inbox[k].pc \notin {"new", "again"}
    /\ LET control == m \in Controls /\ armed # Unarmed IN
       /\ inbox' = [inbox EXCEPT ![m] = [pc |-> "attach", rec |-> 0, control |-> control]]
       /\ turn' = IF turn.pc # "idle" /\ (control \/ adapter = "web")
                  THEN [turn EXCEPT !.aborted = TRUE] ELSE turn
    /\ UNCHANGED <<adapter, runtime, cursor, log, budget>>

\* noteCheckpoint writes a record: the web server has no checkpoints, and one that
\* is noted already is not noted again.
NotesCheckpoint(m) == adapter # "web" /\ LastCheckpoint(records) # m

\* The attachments are there: the record takes its id.  A control command has
\* been answered: only its checkpoint is noted.
Ingest(m) ==
    /\ inbox[m].pc = "attach"
    /\ \/ /\ ~inbox[m].control
          /\ SetInbox(m, "inbound", next) /\ Push("inbound", m, 0)
          /\ UNCHANGED cursor
       \/ /\ inbox[m].control /\ NotesCheckpoint(m)
          /\ SetInbox(m, "checkpoint", next) /\ Push("checkpoint", m, 0)
          /\ UNCHANGED cursor
       \/ /\ inbox[m].control /\ ~NotesCheckpoint(m)
          /\ SetInbox(m, "done", 0) /\ Returned(m)
          /\ UNCHANGED <<records, next>>
    /\ UNCHANGED <<adapter, disk, armed, pending, active, turn, log, budget>>

\* What follows the checkpoint in ingestInbound: the trigger is looked at with
\* the id of the inbound record.
InboundId(m) == Max({r.id : r \in {r \in OfType("inbound") : r.msg = m}})
QueueOrFinish(m) ==
    \/ /\ ~inbox[m].control /\ ShouldQueue(m, InboundId(m))
       /\ SetInbox(m, "queued", next)
       /\ Push("queued", m, InboundId(m))
       /\ log' = [log EXCEPT !.queued = @ \cup {m}, !.twice = @ \/ m \in log.queued]
       /\ UNCHANGED <<pending, active, turn, cursor>>
    \/ /\ ~inbox[m].control /\ ~ShouldQueue(m, InboundId(m))
       /\ SetInbox(m, "done", 0)
       /\ TryDispatch(m, pending)
       /\ UNCHANGED <<records, next, log>>
    \/ /\ inbox[m].control
       /\ SetInbox(m, "done", 0)
       /\ Returned(m)
       /\ UNCHANGED <<records, next, pending, active, turn, log>>

\* The inbound record is in the file: the checkpoint comes next.
InboundLanded(m) ==
    /\ inbox[m].pc = "inbound"
    /\ disk' = disk \cup {inbox[m].rec}
    /\ \/ ~NotesCheckpoint(m) /\ QueueOrFinish(m)
       \/ /\ NotesCheckpoint(m)
          /\ SetInbox(m, "checkpoint", next) /\ Push("checkpoint", m, 0)
          /\ UNCHANGED <<pending, active, turn, cursor, log>>
    /\ UNCHANGED <<adapter, armed, budget>>

CheckpointLanded(m) ==
    /\ inbox[m].pc = "checkpoint"
    /\ disk' = disk \cup {inbox[m].rec}
    /\ QueueOrFinish(m)
    /\ UNCHANGED <<adapter, armed, budget>>

\* The job_queued record is in the file: the job is queued and dispatched.
QueuedLanded(m) ==
    /\ inbox[m].pc = "queued"
    /\ disk' = disk \cup {inbox[m].rec}
    /\ TryDispatch(m, Append(pending, [trig |-> InboundId(m), msg |-> m]))
    /\ SetInbox(m, "done", 0)
    /\ UNCHANGED <<adapter, records, next, armed, log, budget>>

\* An append in onMessage rejects; the adapter logs it.  Telegram's offset is
\* past the update already, but its cursor file is not.
IngestFails(m) ==
    /\ inbox[m].pc \in {"inbound", "checkpoint", "queued"}
    /\ AppendFails
    /\ SetInbox(m, "done", 0)
    /\ UNCHANGED <<adapter, records, next, armed, pending, active, turn, cursor>>

\* onCaughtUp, once all that was to be fetched again has been.
OnCaughtUp ==
    /\ armed = Unarmed /\ AdapterFree
    /\ \A m \in Msgs : inbox[m].pc # "again"
    /\ armed' = LastId
    /\ TryDispatch(0, pending)
    /\ UNCHANGED <<adapter, records, disk, next, inbox, log, budget>>

\* The nudge timer goes off: queueProactiveJob and tryDispatch.  The job's
\* trigger is whatever the last record is.
Nudge ==
    /\ armed # Unarmed /\ budget.nudges > 0
    /\ active = NoJob /\ pending = <<>>
    /\ budget' = [budget EXCEPT !.nudges = @ - 1]
    /\ next' = next + 1
    /\ TryDispatch(0, <<[trig |-> LastId, msg |-> 0]>>)
    /\ UNCHANGED <<adapter, records, disk, armed, inbox, log>>

-----------------------------------------------------------------------------
(* The turn: tryDispatch after its first await *)

Going(pc) == turn' = [turn EXCEPT !.pc = pc]
Writing(type, pc) ==
    /\ IF type = "completed" THEN Push(type, active.msg, active.trig) ELSE Push(type, 0, 0)
    /\ turn' = [turn EXCEPT !.pc = pc, !.rec = next]

\* completeActiveJob up to its last append.  History: the messages of the prompt are
\* answered; a nudge, which has none, passes over what came before it.
Completing ==
    /\ Writing("completed", "completed")
    /\ log' = [log EXCEPT !.answered = @ \cup turn.prompt,
                          !.passed = IF active.msg # 0 THEN @
                                     ELSE @ \cup {id \in {r.id : r \in records} : id <= active.trig}]

\* The catch block: failActiveJob up to its append.
Failing == Writing("failed", "failed")

\* The session, the agent or the platform has no answer, by itself or because
\* the turn was aborted.
NoAnswer ==
    \/ turn.aborted /\ UNCHANGED budget
    \/ /\ ~turn.aborted /\ budget.errors > 0
       /\ budget' = [budget EXCEPT !.errors = @ - 1]

\* ensureSession and reload succeed, or throw; an abort has no effect on them.
TurnReady ==
    /\ turn.pc = "setup"
    /\ \/ Going("prompt") /\ UNCHANGED <<records, next, budget>>
       \/ ~turn.aborted /\ NoAnswer /\ Failing
    /\ UNCHANGED <<adapter, disk, armed, pending, active, inbox, cursor, log>>

\* session.prompt ends: with an answer, with a stop reason that fails the job
\* (aborted, error, length), or by throwing.
TurnAnswers ==
    /\ turn.pc = "prompt"
    /\ \/ Going("deliver") /\ UNCHANGED <<records, next, budget>>
       \/ NoAnswer /\ Writing("failed", "aborted")
       \/ ~turn.aborted /\ NoAnswer /\ Failing
    /\ UNCHANGED <<adapter, disk, armed, pending, active, inbox, cursor, log>>

\* The answer is sent, and completeActiveJob runs up to its first append; or an
\* abort, the timeout or the platform ends the sending.  A text that was streamed
\* already is not sent, and an empty one is not recorded either.
Delivered ==
    /\ turn.pc = "deliver"
    /\ \/ Writing("outbound", "outbound") /\ UNCHANGED <<log, budget>>
       \/ NoAnswer /\ Completing
       \/ NoAnswer /\ Failing /\ UNCHANGED log
    /\ UNCHANGED <<adapter, disk, armed, pending, active, inbox, cursor>>

\* The outbound record is in the file: job_completed is next.
OutboundLanded ==
    /\ turn.pc = "outbound"
    /\ disk' = disk \cup {turn.rec}
    /\ Completing
    /\ UNCHANGED <<adapter, armed, pending, active, inbox, cursor, budget>>

\* Mutants of the finally block: it does not dispatch again; the job stays active.
FinallyIdle(a) == /\ active' = a /\ turn' = IdleTurn /\ Returned(turn.caller)
                  /\ UNCHANGED pending
FinallyKeepsJob(a) == Dispatch(turn.caller, active, pending)

\* The finally block, with job a active: the worker is free and dispatches again.
Finally(a) == Dispatch(turn.caller, a, pending)

\* job_completed, or the job_failed of an abort or an error of the agent, is in
\* the file: the turn is over.
TurnDone ==
    /\ turn.pc \in {"completed", "aborted"}
    /\ Landed(turn.rec)
    /\ Finally(NoJob)
    /\ UNCHANGED <<adapter, records, next, armed, inbox>>

\* The job_failed of the catch block is in the file: appendError follows.  It
\* does too when the platform does not take the report of an agent's error.
FailedLanded ==
    /\ turn.pc \in {"failed", "aborted"}
    /\ Landed(turn.rec)
    /\ active' = NoJob
    /\ Push("error", 0, 0)
    /\ turn' = [turn EXCEPT !.pc = "error", !.rec = next]
    /\ UNCHANGED <<adapter, armed, pending, inbox, cursor>>

ErrorLanded ==
    /\ turn.pc = "error"
    /\ Landed(turn.rec)
    /\ Finally(active)
    /\ UNCHANGED <<adapter, records, next, armed, inbox>>

\* An append in the try block rejects: the catch block writes job_failed.
TurnAppendFails ==
    /\ turn.pc \in {"outbound", "completed", "aborted"}
    /\ AppendFails
    /\ Failing
    /\ UNCHANGED <<adapter, armed, pending, active, inbox, cursor>>

\* One in the catch block does: only the finally block is left, and a job whose
\* job_failed was not written stays active.
CatchAppendFails ==
    /\ turn.pc \in {"failed", "error"}
    /\ AppendFails
    /\ Finally(active)
    /\ UNCHANGED <<adapter, records, next, armed, inbox>>

-----------------------------------------------------------------------------
(* The gateway process ends and starts again *)

\* initialize: the log file, sorted by record id, and nothing else.
ReadLog == {r \in records : r.id \in disk}

\* Where an adapter goes on: Telegram after its cursor file, Discord after the
\* last checkpoint in the log; a web message is sent once.
ResumeAfter ==
    CASE adapter = "serial" -> cursor
      [] adapter = "concurrent" -> LastCheckpoint(ReadLog)
      [] adapter = "web" -> MaxMsg

\* Messages up to the last one that came in are fetched again from the resume
\* point on; before it they are not, whatever became of them.
Crash ==
    /\ budget.crashes > 0
    /\ budget' = [budget EXCEPT !.crashes = @ - 1]
    /\ records' = ReadLog
    /\ next' = MaxOf({r.id : r \in ReadLog}) + 1
    /\ armed' = Unarmed /\ pending' = <<>> /\ active' = NoJob
    /\ turn' = IdleTurn
    /\ LET sent == MaxOf({m \in Msgs : inbox[m].pc # "new"})
       IN  inbox' = [m \in Msgs |->
                       [pc |-> IF m > sent THEN "new"
                               ELSE IF m > ResumeAfter THEN "again" ELSE "done",
                        rec |-> 0, control |-> FALSE]]
    /\ log' = [log EXCEPT !.passed = @ \cap disk]
    /\ UNCHANGED <<adapter, disk, cursor>>

-----------------------------------------------------------------------------
Init ==
    /\ \E sc \in Scenarios : adapter = sc.adapter /\ budget = sc.bound
    /\ records = {} /\ disk = {} /\ next = 1 /\ armed = Unarmed
    /\ pending = <<>> /\ active = NoJob /\ turn = IdleTurn
    /\ inbox = [m \in Msgs |-> [pc |-> "new", rec |-> 0, control |-> FALSE]]
    /\ cursor = 0
    /\ log = [answered |-> {}, passed |-> {}, queued |-> {}, twice |-> FALSE, faulty |-> FALSE]

IngestStep(m) == \/ Ingest(m) \/ InboundLanded(m) \/ CheckpointLanded(m)
                 \/ QueuedLanded(m) \/ IngestFails(m)
TurnStep == \/ TurnReady \/ TurnAnswers \/ Delivered \/ OutboundLanded \/ TurnDone
            \/ FailedLanded \/ ErrorLanded \/ TurnAppendFails \/ CatchAppendFails

Next == \/ \E m \in Msgs : Deliver(m) \/ IngestStep(m)
        \/ OnCaughtUp \/ Nudge \/ TurnStep \/ Crash

Spec == Init /\ [][Next]_vars

\* File operations and the agent's answers settle; nobody has to write, and no
\* timer has to go off.
FairSpec == Spec /\ WF_vars(TurnStep) /\ \A m \in Msgs : WF_vars(IngestStep(m))

-----------------------------------------------------------------------------
(* Properties *)

\* What the last completed job puts behind the boundary of buildPrompt has been
\* in the prompt of a job that completed, or was passed over by a nudge: failed
\* and aborted turns, crashes, and jobs queued out of order leave their messages
\* to the next prompt.
NothingSkipped ==
    \A r \in OfType("inbound") :
        r.id <= Boundary => r.msg \in log.answered \/ r.id \in log.passed

\* A message asks for at most one turn, also when it is fetched again after a
\* crash (shouldQueueTrigger, armAfterCurrentTail).
OneJobPerMessage == ~log.twice

\* The runtime has an active job while a turn is in flight or after an append
\* that failed, at no other time: a job left active blocks all that follow
\* (beginNextJob, the catch and finally blocks of tryDispatch).
ActiveOnlyInTurn ==
    /\ turn.pc = "idle" /\ active # NoJob => log.faulty
    /\ turn.pc \notin {"idle", "error"} => active # NoJob

\* The cursor file is never ahead of the log file: Telegram does not send again
\* what is before it (processUpdate, ingestInbound).
CursorBehindLog ==
    adapter = "serial" /\ ~log.faulty =>
        \A m \in (1 .. cursor) \ Controls :
            \E r \in OfType("inbound") : r.msg = m /\ r.id \in disk

\* As long as appends succeed a queued job does not stay queued.
JobsServed == pending # <<>> ~> pending = <<>> \/ log.faulty
=============================================================================
