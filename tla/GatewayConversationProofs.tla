--------------------- MODULE GatewayConversationProofs ---------------------
(***************************************************************************)
(* Proofs about GatewayConversation, for any number of messages, any       *)
(* commands and mentions among them, and any budgets.                      *)
(***************************************************************************)
EXTENDS GatewayConversation, FiniteSetTheorems, TLAPS

-----------------------------------------------------------------------------
(* Maxima *)

\* A finite set of integers that is not empty has a maximum.
LEMMA MaxExists ==
    ASSUME NEW S \in SUBSET Int, IsFiniteSet(S), S # {}
    PROVE  Max(S) \in S /\ \A y \in S : y <= Max(S)
<1> DEFINE Above(x) == {y \in S : y > x}
           B == {Above(x) : x \in S}
<1>1. IsWellFoundedOn(StrictSubsetOrdering(S), SUBSET S)
  BY FS_StrictSubsetOrderingWellFounded, FS_FiniteSubsetsOfFinite, Zenon
<1>2. B \subseteq SUBSET S /\ B # {}
  OBVIOUS
<1>3. PICK T \in B : \A U \in B : <<U, T>> \notin StrictSubsetOrdering(S)
  <2> HIDE DEF B
  <2> QED
    BY <1>1, <1>2, WFMin, Zenon
<1>4. PICK x \in S : T = Above(x)
  BY <1>3
<1>5. ASSUME NEW y \in S, y > x PROVE FALSE
  <2>1. Above(y) \in B
    OBVIOUS
  <2>2. Above(y) \subseteq Above(x) /\ y \in Above(x) /\ y \notin Above(y)
    <3>1. x \in Int /\ y \in Int
      OBVIOUS
    <3>2. ASSUME NEW z \in S, z > y PROVE z > x
      <4>1. z \in Int
        OBVIOUS
      <4> QED
        BY <1>5, <3>1, <3>2, <4>1
    <3>3. ~(y > y)
      BY <3>1
    <3> QED
      BY <1>5, <3>2, <3>3
  <2>3. <<Above(y), T>> \in StrictSubsetOrdering(S)
    BY <1>4, <2>2 DEF StrictSubsetOrdering
  <2> QED
    BY <1>3, <2>1, <2>3
<1>6. \A y \in S : x >= y
  BY <1>5
<1> QED
  BY <1>6 DEF Max

LEMMA MaxOfBounds ==
    ASSUME NEW S \in SUBSET Nat, IsFiniteSet(S)
    PROVE  MaxOf(S) \in S \cup {0} /\ MaxOf(S) \in Nat /\ \A y \in S : y <= MaxOf(S)
<1>1. IsFiniteSet(S \cup {0})
  BY FS_AddElement, Zenon
<1>2. S \cup {0} \in SUBSET Int /\ S \cup {0} # {}
  OBVIOUS
<1>3. Max(S \cup {0}) \in S \cup {0} /\ \A y \in S \cup {0} : y <= Max(S \cup {0})
  BY <1>1, <1>2, MaxExists
<1>4. \A y \in S \cup {0} : y \in Nat
  OBVIOUS
<1>5. MaxOf(S) = Max(S \cup {0})
  BY DEF MaxOf
<1> QED
  BY <1>3, <1>4, <1>5, Zenon

LEMMA MaxOfTwo ==
    ASSUME NEW a \in Int, NEW b \in Int
    PROVE  Max({a, b}) \in {a, b} /\ Max({a, b}) >= a /\ Max({a, b}) >= b
<1>1. \E x \in {a, b} : \A y \in {a, b} : x >= y
  OBVIOUS
<1> QED
  BY <1>1 DEF Max

-----------------------------------------------------------------------------
(* The invariant: types and what records and jobs refer to *)

TurnType == [pc : TurnPc, caller : 0 .. MaxMsg, prompt : SUBSET Msgs, aborted : BOOLEAN, rec : Nat]
InboxType == [pc : InboxPc, rec : Nat, control : BOOLEAN]
LogType == [answered : SUBSET Msgs, passed : SUBSET Nat, queued : SUBSET Msgs, twice : BOOLEAN,
            faulty : BOOLEAN]

\* Records and jobs refer to records that were there before them.
Entry(r) ==
    /\ r \in Record /\ 1 <= r.id /\ r.id < next
    /\ r.type = "inbound" => r.msg \in Msgs
    /\ r.type = "completed" => r.trig < r.id
Early == {j \in Job : j.trig < next}

\* A message that has passed the first append of ingestInbound is in the records.
Noted(m) == \E r \in records : r.type = "inbound" /\ r.msg = m
Ingested(m) ==
    /\ inbox[m].pc \in {"inbound", "queued"} => ~inbox[m].control
    /\ inbox[m].pc \in {"inbound", "checkpoint", "queued"} /\ ~inbox[m].control => Noted(m)

LogTypes ==
    /\ records \in SUBSET Record /\ IsFiniteSet(records) /\ \A r \in records : Entry(r)
    /\ disk \in SUBSET Nat /\ next \in Nat \ {0}
WorkTypes == pending \in Seq(Early) /\ active \in Early \cup {NoJob} /\ turn \in TurnType
InboxTypes == inbox \in [Msgs -> InboxType] /\ \A m \in Msgs : Ingested(m)
RestTypes == /\ adapter \in {"serial", "concurrent", "web"}
             /\ armed \in Nat \cup {Unarmed}
             /\ cursor \in 0 .. MaxMsg /\ log \in LogType /\ budget \in Bound
Types == LogTypes /\ WorkTypes /\ InboxTypes /\ RestTypes

\* A turn has a job until its job_failed is written, and without a turn there is none
\* unless an append has failed.
TurnHasJob ==
    /\ turn.pc = "idle" /\ active # NoJob => log.faulty
    /\ turn.pc \notin {"idle", "error"} => active # NoJob
    /\ turn.pc = "error" => active = NoJob

-----------------------------------------------------------------------------
(* Operators *)

LEMMA JobFacts == ASSUME NEW j \in Early PROVE j # NoJob /\ j.msg \in 0 .. MaxMsg /\ j.trig \in Nat
                                              /\ j.trig < next
<1>1. j \in Job /\ j.trig < next
  BY DEF Early
<1>2. NoJob.msg = -1 /\ j.msg \in 0 .. MaxMsg
  BY <1>1 DEF NoJob, Job
<1>3. -1 \notin 0 .. MaxMsg
  BY GatewayAssumption
<1> QED
  BY <1>1, <1>2, <1>3 DEF Job

\* The largest id, and the boundary of buildPrompt.
LEMMA LargestId ==
    ASSUME Types, NEW S \in SUBSET records
    PROVE  LET n == MaxOf({r.id : r \in S})
           IN  n \in Nat /\ n < next /\ \A r \in S : r.id <= n
<1> DEFINE ids == {r.id : r \in S}
<1>1. next \in Nat /\ \A r \in S : r.id \in Nat /\ r.id < next /\ 1 <= r.id
  BY DEF Types, LogTypes, WorkTypes, InboxTypes, RestTypes, Entry, Record
<1>2. ids \in SUBSET Nat /\ ids \subseteq 0 .. next /\ \A n \in ids : n < next
  BY <1>1
<1>3. IsFiniteSet(ids)
  <2> HIDE DEF ids
  <2>1. 0 \in Int /\ next \in Int
    BY <1>1
  <2>2. IsFiniteSet(0 .. next)
    BY <2>1, FS_Interval
  <2> QED
    BY <1>2, <2>2, FS_Subset, Zenon
<1>4. MaxOf(ids) \in ids \cup {0} /\ MaxOf(ids) \in Nat /\ \A n \in ids : n <= MaxOf(ids)
  BY <1>2, <1>3, MaxOfBounds
<1>5. 0 < next
  BY DEF Types, LogTypes, WorkTypes, InboxTypes, RestTypes
<1> HIDE DEF ids
<1>6. MaxOf(ids) < next
  BY <1>2, <1>4, <1>5
<1>7. \A r \in S : r.id \in ids
  BY DEF ids
<1> QED
  BY <1>4, <1>6, <1>7 DEF ids

LEMMA BoundaryFacts ==
    ASSUME Types
    PROVE  /\ Boundary \in Nat
           /\ Boundary # 0 => \E r \in records : r.type = "completed" /\ r.trig = Boundary
<1> DEFINE trigs == {r.trig : r \in OfType("completed")}
<1>1. next \in Nat /\ \A r \in OfType("completed") : r.trig \in Nat /\ r.id \in Nat /\ r.trig < r.id /\ r.id < next
  BY DEF Types, LogTypes, WorkTypes, InboxTypes, RestTypes, Entry, Record, OfType
<1>2. trigs \in SUBSET Nat /\ trigs \subseteq 0 .. next
  BY <1>1
<1>3. IsFiniteSet(trigs)
  <2> HIDE DEF trigs
  <2>1. 0 \in Int /\ next \in Int
    BY <1>1
  <2>2. IsFiniteSet(0 .. next)
    BY <2>1, FS_Interval
  <2> QED
    BY <1>2, <2>2, FS_Subset, Zenon
<1>4. MaxOf(trigs) \in trigs \cup {0} /\ MaxOf(trigs) \in Nat
  BY <1>2, <1>3, MaxOfBounds
<1>5. Boundary = MaxOf(trigs)
  BY DEF Boundary
<1>6. \A n \in trigs : \E r \in records : r.type = "completed" /\ r.trig = n
  BY DEF OfType
<1> HIDE DEF trigs
<1> QED
  BY <1>4, <1>5, <1>6

LEMMA InboundIdFacts ==
    ASSUME Types, NEW m \in Msgs, Noted(m)
    PROVE  InboundId(m) \in Nat /\ InboundId(m) < next
<1> DEFINE own == {r \in OfType("inbound") : r.msg = m}
           ids == {r.id : r \in own}
<1>1. next \in Nat /\ \A r \in own : r.id \in Nat /\ r.id < next
  BY DEF Types, LogTypes, WorkTypes, InboxTypes, RestTypes, Entry, Record, OfType
<1>2. ids \in SUBSET Int /\ ids \subseteq 0 .. next /\ \A n \in ids : n \in Nat /\ n < next
  BY <1>1
<1>3. ids # {}
  BY DEF Noted, OfType
<1>4. IsFiniteSet(ids)
  <2> HIDE DEF ids
  <2>1. 0 \in Int /\ next \in Int
    BY <1>1
  <2>2. IsFiniteSet(0 .. next)
    BY <2>1, FS_Interval
  <2> QED
    BY <1>2, <2>2, FS_Subset, Zenon
<1>5. Max(ids) \in ids
  BY <1>2, <1>3, <1>4, MaxExists
<1> QED
  BY <1>2, <1>5 DEF InboundId

-----------------------------------------------------------------------------
(* What a step does: the kinds of steps *)

FaultNoted == log' = log \/ log' = [log EXCEPT !.faulty = TRUE]

\* The steps of onMessage(m).  The record it waited for has landed, if any.
LandsIn(m) == /\ disk \subseteq disk' /\ disk' \subseteq disk \cup {inbox[m].rec}
              /\ inbox[m].pc = "inbound" => inbox[m].rec \in disk'
Ingests(m) ==
    /\ inbox[m].pc = "attach" /\ ~inbox[m].control
    /\ SetInbox(m, "inbound", next) /\ Push("inbound", m, 0)
    /\ UNCHANGED <<adapter, disk, armed, pending, active, turn, cursor, log, budget>>
Notes(m) ==
    /\ (inbox[m].pc = "attach" /\ inbox[m].control) \/ inbox[m].pc = "inbound"
    /\ LandsIn(m)
    /\ SetInbox(m, "checkpoint", next) /\ Push("checkpoint", m, 0)
    /\ UNCHANGED <<adapter, armed, pending, active, turn, cursor, log, budget>>
EndsControl(m) ==
    /\ inbox[m].pc \in {"attach", "inbound", "checkpoint"} /\ inbox[m].control
    /\ LandsIn(m)
    /\ SetInbox(m, "done", 0) /\ Returned(m)
    /\ UNCHANGED <<adapter, records, next, armed, pending, active, turn, log, budget>>
Queues(m) ==
    /\ inbox[m].pc \in {"inbound", "checkpoint"} /\ ~inbox[m].control /\ armed # Unarmed
    /\ LandsIn(m)
    /\ SetInbox(m, "queued", next) /\ Push("queued", m, InboundId(m))
    /\ log' = [log EXCEPT !.queued = @ \cup {m}, !.twice = @ \/ m \in log.queued]
    /\ UNCHANGED <<adapter, armed, pending, active, turn, cursor, budget>>
Finishes(m, q) ==
    /\ inbox[m].pc \in {"inbound", "checkpoint", "queued"}
    /\ inbox[m].pc # "queued" => ~inbox[m].control
    /\ LandsIn(m)
    /\ SetInbox(m, "done", 0) /\ TryDispatch(m, q)
    /\ UNCHANGED <<adapter, records, next, armed, log, budget>>
InboxKind(m) ==
    \/ Deliver(m) \/ Ingests(m) \/ Notes(m) \/ EndsControl(m) \/ Queues(m)
    \/ Finishes(m, pending)
    \/ /\ inbox[m].pc = "queued"
       /\ Finishes(m, Append(pending, [trig |-> InboundId(m), msg |-> m]))
    \/ IngestFails(m)

\* The steps of a turn.
TurnGoes ==
    /\ \/ turn.pc = "setup" /\ Going("prompt")
       \/ turn.pc = "prompt" /\ Going("deliver")
    /\ UNCHANGED <<adapter, records, disk, next, armed, pending, active, inbox, cursor, log, budget>>
TurnWrites(type, pc) ==
    /\ turn.pc \notin {"idle", "failed", "error"}
    /\ pc = "outbound" => turn.pc = "deliver"
    /\ Push(type, 0, 0)
    /\ turn' = [turn EXCEPT !.pc = pc, !.rec = next]
    /\ FaultNoted /\ budget' \in Bound
    /\ UNCHANGED <<adapter, disk, armed, pending, active, inbox, cursor>>
TurnCompletes ==
    /\ turn.pc \in {"deliver", "outbound"}
    /\ disk \subseteq disk' /\ disk' \subseteq disk \cup {turn.rec}
    /\ Completing /\ budget' \in Bound
    /\ UNCHANGED <<adapter, armed, pending, active, inbox, cursor>>
TurnEnds(a) ==
    /\ turn.pc \in {"completed", "aborted", "failed", "error"}
    /\ disk \subseteq disk' /\ disk' \subseteq disk \cup {turn.rec}
    /\ Finally(a)
    /\ FaultNoted /\ budget' \in Bound
    /\ UNCHANGED <<adapter, records, next, armed, inbox>>
TurnKind ==
    \/ TurnGoes
    \/ TurnWrites("failed", "failed") \/ TurnWrites("failed", "aborted")
    \/ TurnWrites("outbound", "outbound")
    \/ TurnCompletes \/ FailedLanded
    \/ TurnEnds(NoJob)
    \/ TurnEnds(active) /\ (turn.pc # "error" => log'.faulty)

Kind == \/ \E m \in Msgs : InboxKind(m)
        \/ OnCaughtUp \/ Nudge \/ TurnKind \/ Crash
        \/ UNCHANGED vars

LEMMA Spent ==
    ASSUME budget \in Bound
    PROVE  /\ budget.faults > 0 => [budget EXCEPT !.faults = @ - 1] \in Bound
           /\ budget.errors > 0 => [budget EXCEPT !.errors = @ - 1] \in Bound
           /\ budget.nudges > 0 => [budget EXCEPT !.nudges = @ - 1] \in Bound
           /\ budget.crashes > 0 => [budget EXCEPT !.crashes = @ - 1] \in Bound
BY DEF Bound

LEMMA InboxKinds == ASSUME Types, NEW m \in Msgs, IngestStep(m) PROVE InboxKind(m)
<1>1. inbox[m] \in InboxType /\ inbox[m].control \in BOOLEAN
  BY DEF Types, LogTypes, WorkTypes, InboxTypes, RestTypes, InboxType
<1>2. inbox[m].pc = "inbound" \/ inbox[m].pc = "queued" => ~inbox[m].control
  BY DEF Types, LogTypes, WorkTypes, InboxTypes, RestTypes, Ingested
<1>3. CASE Ingest(m)
  <2>1. CASE ~inbox[m].control
    BY <1>3, <2>1 DEF Ingest, Ingests, InboxKind
  <2>2. CASE inbox[m].control /\ NotesCheckpoint(m)
    BY <1>3, <2>2 DEF Ingest, Notes, LandsIn, InboxKind
  <2>3. CASE inbox[m].control /\ ~NotesCheckpoint(m)
    BY <1>3, <2>3 DEF Ingest, EndsControl, LandsIn, InboxKind
  <2> QED
    BY <2>1, <2>2, <2>3
<1>4. ASSUME inbox[m].pc \in {"inbound", "checkpoint"}, disk' = disk \cup {inbox[m].rec},
             QueueOrFinish(m), UNCHANGED <<adapter, armed, budget>>
      PROVE  InboxKind(m)
  <2>1. LandsIn(m)
    BY <1>4 DEF LandsIn
  <2>2. CASE ~inbox[m].control /\ ShouldQueue(m, InboundId(m))
    <3>1. Queues(m)
      BY <1>4, <2>1, <2>2 DEF QueueOrFinish, Queues, ShouldQueue
    <3> QED
      BY <3>1 DEF InboxKind
  <2>3. CASE ~inbox[m].control /\ ~ShouldQueue(m, InboundId(m))
    <3>1. Finishes(m, pending)
      BY <1>4, <2>1, <2>3 DEF QueueOrFinish, Finishes
    <3> QED
      BY <3>1 DEF InboxKind
  <2>4. CASE inbox[m].control
    <3>1. EndsControl(m)
      BY <1>4, <2>1, <2>4 DEF QueueOrFinish, EndsControl
    <3> QED
      BY <3>1 DEF InboxKind
  <2> QED
    BY <2>2, <2>3, <2>4
<1>5. CASE InboundLanded(m)
  <2>1. CASE ~NotesCheckpoint(m)
    BY <1>4, <1>5, <2>1 DEF InboundLanded
  <2>2. CASE NotesCheckpoint(m)
    <3>1. Notes(m)
      BY <1>5, <2>2 DEF InboundLanded, Notes, LandsIn
    <3> QED
      BY <3>1 DEF InboxKind
  <2> QED
    BY <2>1, <2>2
<1>6. CASE CheckpointLanded(m)
  BY <1>4, <1>6 DEF CheckpointLanded
<1>7. CASE QueuedLanded(m)
  BY <1>7 DEF QueuedLanded, Finishes, LandsIn, InboxKind
<1>8. CASE IngestFails(m)
  BY <1>8 DEF InboxKind
<1> QED
  BY <1>3, <1>5, <1>6, <1>7, <1>8 DEF IngestStep

LEMMA TurnKinds == ASSUME Types, TurnStep PROVE TurnKind
<1>1. budget \in Bound /\ turn \in TurnType /\ log \in LogType
  BY DEF Types, LogTypes, WorkTypes, InboxTypes, RestTypes
<1>2. NoAnswer => budget' \in Bound
  BY <1>1, Spent DEF NoAnswer
<1>3. AppendFails => /\ budget' \in Bound /\ disk' = disk
                     /\ log' = [log EXCEPT !.faulty = TRUE] /\ log'.faulty
  BY <1>1, Spent DEF AppendFails, LogType
<1>4. CASE TurnReady
  <2>1. CASE Going("prompt") /\ UNCHANGED <<records, next, budget>>
    BY <1>4, <2>1 DEF TurnReady, TurnGoes, TurnKind
  <2>2. CASE NoAnswer /\ Failing
    BY <1>2, <1>4, <2>2 DEF TurnReady, Failing, Writing, TurnWrites, FaultNoted, TurnKind
  <2> QED
    BY <1>4, <2>1, <2>2 DEF TurnReady
<1>5. CASE TurnAnswers
  <2>1. CASE Going("deliver") /\ UNCHANGED <<records, next, budget>>
    BY <1>5, <2>1 DEF TurnAnswers, TurnGoes, TurnKind
  <2>2. CASE NoAnswer /\ Writing("failed", "aborted")
    BY <1>2, <1>5, <2>2 DEF TurnAnswers, Writing, TurnWrites, FaultNoted, TurnKind
  <2>3. CASE NoAnswer /\ Failing
    BY <1>2, <1>5, <2>3 DEF TurnAnswers, Failing, Writing, TurnWrites, FaultNoted, TurnKind
  <2> QED
    BY <1>5, <2>1, <2>2, <2>3 DEF TurnAnswers
<1>6. CASE Delivered
  <2>1. CASE Writing("outbound", "outbound") /\ UNCHANGED <<log, budget>>
    BY <1>1, <1>6, <2>1 DEF Delivered, Writing, TurnWrites, FaultNoted, TurnKind
  <2>2. CASE NoAnswer /\ Completing
    BY <1>2, <1>6, <2>2 DEF Delivered, TurnCompletes, TurnKind
  <2>3. CASE NoAnswer /\ Failing /\ UNCHANGED log
    BY <1>2, <1>6, <2>3 DEF Delivered, Failing, Writing, TurnWrites, FaultNoted, TurnKind
  <2> QED
    BY <1>6, <2>1, <2>2, <2>3 DEF Delivered
<1>7. CASE OutboundLanded
  BY <1>1, <1>7 DEF OutboundLanded, TurnCompletes, TurnKind
<1>8. CASE TurnDone
  BY <1>1, <1>8 DEF TurnDone, Landed, TurnEnds, FaultNoted, TurnKind
<1>9. CASE FailedLanded
  BY <1>9 DEF TurnKind
<1>10. CASE ErrorLanded
  BY <1>1, <1>10 DEF ErrorLanded, Landed, TurnEnds, FaultNoted, TurnKind
<1>11. CASE TurnAppendFails
  BY <1>3, <1>11 DEF TurnAppendFails, Failing, Writing, TurnWrites, FaultNoted, TurnKind
<1>12. CASE CatchAppendFails
  BY <1>3, <1>12 DEF CatchAppendFails, TurnEnds, FaultNoted, TurnKind
<1> QED
  BY <1>4, <1>5, <1>6, <1>7, <1>8, <1>9, <1>10, <1>11, <1>12 DEF TurnStep

LEMMA Kinds == ASSUME Types, [Next]_vars PROVE Kind
<1>1. ASSUME NEW m \in Msgs, Deliver(m) \/ IngestStep(m) PROVE InboxKind(m)
  BY <1>1, InboxKinds DEF InboxKind
<1>2. TurnStep => TurnKind
  BY TurnKinds
<1> QED
  BY <1>1, <1>2 DEF Next, Kind

-----------------------------------------------------------------------------
(* Types *)

LEMMA PushTypes ==
    ASSUME Types, NEW type, NEW msg, NEW trig, Push(type, msg, trig),
           type \in {"inbound", "checkpoint", "queued", "outbound", "completed", "failed", "error"},
           msg \in 0 .. MaxMsg, trig \in Nat,
           type = "inbound" => msg \in Msgs, type = "completed" => trig < next,
           disk' \in SUBSET Nat
    PROVE  LogTypes' /\ next' = next + 1
<1> DEFINE new == [id |-> next, type |-> type, msg |-> msg, trig |-> trig]
<1>1. LogTypes
  BY DEF Types
<1>2. records' = records \cup {new} /\ next' = next + 1
  BY DEF Push
<1>3. new \in Record
  BY <1>1 DEF LogTypes, Record
<1>4. new.id = next /\ new.type = type /\ new.msg = msg /\ new.trig = trig
  OBVIOUS
<1> HIDE DEF new
<1>5. IsFiniteSet(records')
  BY <1>1, <1>2, FS_AddElement, Zenon DEF LogTypes
<1>6. ASSUME NEW r \in records' PROVE Entry(r)'
  <2>1. CASE r \in records
    <3>1. r \in Record /\ r.id \in Nat
      BY <1>1, <2>1 DEF LogTypes, Record
    <3> QED
      BY <1>1, <1>2, <2>1, <3>1 DEF LogTypes, Entry
  <2>2. CASE r = new
    BY <1>1, <1>2, <1>3, <1>4, <2>2 DEF LogTypes, Entry
  <2> QED
    BY <1>2, <2>1, <2>2
<1> QED
  BY <1>1, <1>2, <1>3, <1>5, <1>6 DEF LogTypes

LEMMA SameLog ==
    ASSUME LogTypes, UNCHANGED <<records, next>>, disk' \in SUBSET Nat PROVE LogTypes'
BY DEF LogTypes, Entry

LEMMA Later ==
    ASSUME next \in Nat, next' \in Nat, next <= next'
    PROVE  /\ Early \subseteq Early'
           /\ \A q \in Seq(Early) : q \in Seq(Early)'
<1>1. ASSUME NEW j \in Early PROVE j \in Early'
  <2>1. j \in Job /\ j.trig < next /\ j.trig \in Nat
    BY DEF Early, Job
  <2> QED
    BY <2>1 DEF Early
<1>2. ASSUME NEW S, NEW T, S \subseteq T, NEW q \in Seq(S) PROVE q \in Seq(T)
  BY <1>2
<1> QED
  BY <1>1, <1>2

LEMMA PromptType ==
    ASSUME Types, NEW j PROVE BuildPrompt(j) \in SUBSET Msgs
BY DEF Types, LogTypes, Entry, BuildPrompt, OfType

LEMMA ReturnedType ==
    ASSUME Types, NEW m \in 0 .. MaxMsg, Returned(m)
    PROVE  cursor' \in 0 .. MaxMsg /\ cursor' \in {cursor, m}
<1>1. cursor \in 0 .. MaxMsg /\ cursor \in Int /\ m \in Int
  BY GatewayAssumption DEF Types, RestTypes
<1>2. Max({cursor, m}) \in {cursor, m}
  BY <1>1, MaxOfTwo
<1> QED
  BY <1>1, <1>2 DEF Returned

\* What tryDispatch leaves behind when it finds the worker idle, and otherwise.
Dispatched(m, a) ==
    /\ pending' \in Seq(Early) /\ active' \in Early \cup {NoJob} /\ turn' \in TurnType
    /\ cursor' \in 0 .. MaxMsg /\ cursor' \in {cursor, m}
    /\ \/ /\ turn'.pc = "setup" /\ turn'.caller = m /\ active' # NoJob
          /\ turn'.prompt = BuildPrompt(active')
       \/ turn' = IdleTurn /\ turn'.pc = "idle" /\ turn'.caller = 0 /\ active' = a
LEMMA DispatchTypes ==
    ASSUME Types, NEW m \in 0 .. MaxMsg, NEW a \in Early \cup {NoJob}, NEW q \in Seq(Early),
           Dispatch(m, a, q)
    PROVE  Dispatched(m, a)
<1>1. 0 \in 0 .. MaxMsg /\ cursor \in 0 .. MaxMsg
  BY GatewayAssumption DEF Types, RestTypes
<1>2. CASE CanDispatch(a, q)
  <2>1. Head(q) \in Early /\ Tail(q) \in Seq(Early)
    BY <1>2 DEF CanDispatch
  <2>2. Head(q) # NoJob
    BY <2>1, JobFacts
  <2>3. BuildPrompt(Head(q)) \in SUBSET Msgs
    BY PromptType
  <2>4. /\ pending' = Tail(q) /\ active' = Head(q) /\ cursor' = cursor
        /\ turn' = [IdleTurn EXCEPT !.pc = "setup", !.caller = m, !.prompt = BuildPrompt(Head(q))]
    BY <1>2 DEF Dispatch
  <2>5. /\ turn' = [pc |-> "setup", caller |-> m, prompt |-> BuildPrompt(Head(q)),
                    aborted |-> FALSE, rec |-> 0]
    BY <2>4 DEF IdleTurn
  <2>6. turn' \in TurnType
    BY <2>3, <2>5 DEF TurnType, TurnPc
  <2> QED
    BY <1>1, <2>1, <2>2, <2>4, <2>5, <2>6 DEF Dispatched
<1>3. CASE ~CanDispatch(a, q)
  <2>1. pending' = q /\ active' = a /\ turn' = IdleTurn /\ Returned(m)
    BY <1>3 DEF Dispatch
  <2>2. IdleTurn \in TurnType
    BY <1>1 DEF IdleTurn, TurnType, TurnPc
  <2> QED
    BY <2>1, <2>2, ReturnedType DEF Dispatched, IdleTurn
<1> QED
  BY <1>2, <1>3

TriedDispatch(m) ==
    \/ turn.pc = "idle" /\ Dispatched(m, active)
    \/ /\ turn.pc # "idle" /\ pending' \in Seq(Early) /\ UNCHANGED <<active, turn>>
       /\ cursor' \in 0 .. MaxMsg /\ cursor' \in {cursor, m}
LEMMA TryDispatchTypes ==
    ASSUME Types, NEW m \in 0 .. MaxMsg, NEW q \in Seq(Early), TryDispatch(m, q)
    PROVE  TriedDispatch(m)
<1>1. active \in Early \cup {NoJob}
  BY DEF Types, WorkTypes
<1>2. CASE turn.pc = "idle"
  BY <1>1, <1>2, DispatchTypes DEF TryDispatch, TriedDispatch
<1>3. CASE turn.pc # "idle"
  BY <1>3, ReturnedType DEF TryDispatch, TriedDispatch
<1> QED
  BY <1>2, <1>3

\* One onMessage moves on.
Moved(m, pc, rec) ==
    /\ inbox' \in [Msgs -> InboxType]
    /\ inbox'[m].pc = pc /\ inbox'[m].rec = rec /\ inbox'[m].control = inbox[m].control
    /\ \A k \in Msgs \ {m} : inbox'[k] = inbox[k]
LEMMA SetInboxMoves ==
    ASSUME InboxTypes, NEW m \in Msgs, NEW pc \in InboxPc, NEW rec \in Nat, SetInbox(m, pc, rec)
    PROVE  Moved(m, pc, rec)
<1>1. inbox[m] \in InboxType
  BY DEF InboxTypes
<1>2. inbox' = [inbox EXCEPT ![m] = [inbox[m] EXCEPT !.pc = pc, !.rec = rec]]
  BY DEF SetInbox, InboxTypes
<1>3. [inbox[m] EXCEPT !.pc = pc, !.rec = rec] \in InboxType
  BY <1>1 DEF InboxType
<1>4. /\ [inbox[m] EXCEPT !.pc = pc, !.rec = rec].pc = pc
      /\ [inbox[m] EXCEPT !.pc = pc, !.rec = rec].rec = rec
      /\ [inbox[m] EXCEPT !.pc = pc, !.rec = rec].control = inbox[m].control
  BY <1>1 DEF InboxType
<1> HIDE DEF InboxType
<1> QED
  BY <1>2, <1>3, <1>4 DEF Moved, InboxTypes

LEMMA MovedTypes ==
    ASSUME InboxTypes, NEW m \in Msgs, NEW pc \in InboxPc, NEW rec \in Nat, Moved(m, pc, rec),
           records \subseteq records',
           pc \in {"inbound", "queued"} => ~inbox[m].control,
           pc \in {"inbound", "checkpoint", "queued"} /\ ~inbox[m].control => Noted(m)'
    PROVE  InboxTypes'
<1>1. ASSUME NEW k \in Msgs PROVE Ingested(k)'
  <2>1. CASE k = m
    BY <2>1 DEF Moved, Ingested
  <2>2. CASE k # m
    BY <2>2 DEF InboxTypes, Moved, Ingested, Noted
  <2> QED
    BY <2>1, <2>2
<1> QED
  BY <1>1 DEF InboxTypes, Moved

LEMMA SameInbox ==
    ASSUME InboxTypes, UNCHANGED inbox, records \subseteq records' PROVE InboxTypes'
BY DEF InboxTypes, Ingested, Noted

LEMMA InboxTypesStep ==
    ASSUME Types, TurnHasJob, NEW m \in Msgs, InboxKind(m)
    PROVE  Types' /\ TurnHasJob'
<1>a. LogTypes /\ WorkTypes /\ InboxTypes /\ RestTypes
  BY DEF Types
<1>b. inbox[m] \in InboxType /\ inbox[m].rec \in Nat /\ next \in Nat /\ next <= next + 1
      /\ m \in 0 .. MaxMsg /\ 0 \in 0 .. MaxMsg
  BY <1>a, GatewayAssumption DEF InboxTypes, InboxType, LogTypes, Msgs
<1>c. LandsIn(m) => disk' \in SUBSET Nat
  BY <1>a, <1>b DEF LandsIn, LogTypes
<1>d. Noted(m) => InboundId(m) \in Nat /\ InboundId(m) < next
  BY InboundIdFacts
<1>e. inbox[m].pc \in {"inbound", "checkpoint", "queued"} /\ ~inbox[m].control => Noted(m)
  BY <1>a DEF InboxTypes, Ingested
<1>f. inbox[m].pc = "queued" => ~inbox[m].control
  BY <1>a DEF InboxTypes, Ingested
<1>1. CASE Deliver(m)
  <2> DEFINE control == m \in Controls /\ armed # Unarmed
             call == [pc |-> "attach", rec |-> 0, control |-> control]
  <2>1. inbox' = [inbox EXCEPT ![m] = call]
    BY <1>1 DEF Deliver
  <2>2. call \in InboxType /\ call.pc = "attach"
    BY DEF InboxType, InboxPc
  <2>3. InboxTypes'
    <3> HIDE DEF call
    <3>1. inbox' \in [Msgs -> InboxType] /\ inbox'[m] = call /\ \A k \in Msgs \ {m} : inbox'[k] = inbox[k]
      BY <1>a, <2>1, <2>2 DEF InboxTypes
    <3>2. ASSUME NEW k \in Msgs PROVE Ingested(k)'
      BY <1>1, <1>a, <2>2, <3>1 DEF Deliver, runtime, InboxTypes, Ingested, Noted
    <3> QED
      BY <3>1, <3>2 DEF InboxTypes
  <2>4. turn' = turn \/ turn' = [turn EXCEPT !.aborted = TRUE]
    BY <1>1 DEF Deliver
  <2>5. turn' \in TurnType /\ turn'.pc = turn.pc
    BY <1>a, <2>4 DEF WorkTypes, TurnType
  <2>6. UNCHANGED <<adapter, records, disk, next, armed, pending, active, cursor, log, budget>>
    BY <1>1 DEF Deliver, runtime
  <2>7. LogTypes' /\ WorkTypes' /\ RestTypes'
    BY <1>a, <2>5, <2>6, SameLog DEF WorkTypes, RestTypes, Early, LogTypes
  <2> QED
    BY <2>3, <2>5, <2>6, <2>7 DEF Types, TurnHasJob
<1>2. CASE Ingests(m)
  <2>1. UNCHANGED <<adapter, disk, armed, pending, active, turn, cursor, log, budget>> /\ ~inbox[m].control
    BY <1>2 DEF Ingests
  <2>2. LogTypes' /\ next' = next + 1
    BY <1>2, <1>a, <1>b, <2>1, PushTypes DEF Ingests, LogTypes
  <2>3. Noted(m)' /\ records \subseteq records'
    <3> DEFINE new == [id |-> next, type |-> "inbound", msg |-> m, trig |-> 0]
    <3>1. records' = records \cup {new}
      BY <1>2 DEF Ingests, Push
    <3>2. new.type = "inbound" /\ new.msg = m
      OBVIOUS
    <3> HIDE DEF new
    <3> QED
      BY <3>1, <3>2 DEF Noted
  <2>4. Moved(m, "inbound", next)
    BY <1>2, <1>a, <1>b, SetInboxMoves DEF Ingests, InboxPc
  <2>5. InboxTypes'
    BY <1>a, <1>b, <2>1, <2>3, <2>4, MovedTypes DEF InboxPc
  <2>6. WorkTypes'
    BY <1>a, <1>b, <2>1, <2>2, Later DEF WorkTypes
  <2> QED
    BY <1>a, <2>1, <2>2, <2>5, <2>6 DEF Types, RestTypes, TurnHasJob
<1>3. CASE Notes(m)
  <2>1. UNCHANGED <<adapter, armed, pending, active, turn, cursor, log, budget>>
    BY <1>3 DEF Notes
  <2>2. LogTypes' /\ next' = next + 1
    BY <1>3, <1>a, <1>b, <1>c, PushTypes DEF Notes
  <2>3. records \subseteq records' /\ (~inbox[m].control => Noted(m)')
    BY <1>3, <1>e DEF Notes, Push, Noted
  <2>4. Moved(m, "checkpoint", next)
    BY <1>3, <1>a, <1>b, SetInboxMoves DEF Notes, InboxPc
  <2>5. InboxTypes'
    BY <1>a, <1>b, <2>3, <2>4, MovedTypes DEF InboxPc
  <2>6. WorkTypes'
    BY <1>a, <1>b, <2>1, <2>2, Later DEF WorkTypes
  <2> QED
    BY <1>a, <2>1, <2>2, <2>5, <2>6 DEF Types, RestTypes, TurnHasJob
<1>4. CASE EndsControl(m)
  <2>1. UNCHANGED <<adapter, records, next, armed, pending, active, turn, log, budget>>
    BY <1>4 DEF EndsControl
  <2>2. LogTypes'
    BY <1>4, <1>a, <1>c, SameLog DEF EndsControl
  <2>3. cursor' \in 0 .. MaxMsg
    BY <1>4, <1>b, ReturnedType DEF EndsControl
  <2>4. Moved(m, "done", 0)
    BY <1>4, <1>a, SetInboxMoves DEF EndsControl, InboxPc
  <2>5. InboxTypes'
    BY <1>a, <2>1, <2>4, MovedTypes DEF InboxPc
  <2> QED
    BY <1>a, <2>1, <2>2, <2>3, <2>5 DEF Types, WorkTypes, RestTypes, TurnHasJob, Early
<1>5. CASE Queues(m)
  <2>1. UNCHANGED <<adapter, armed, pending, active, turn, cursor, budget>> /\ ~inbox[m].control
    BY <1>5 DEF Queues
  <2>2. LogTypes' /\ next' = next + 1
    BY <1>5, <1>a, <1>b, <1>c, <1>d, <1>e, PushTypes DEF Queues
  <2>3. records \subseteq records' /\ Noted(m)'
    BY <1>5, <1>e DEF Queues, Push, Noted
  <2>4. Moved(m, "queued", next)
    BY <1>5, <1>a, <1>b, SetInboxMoves DEF Queues, InboxPc
  <2>5. InboxTypes'
    BY <1>a, <1>b, <2>1, <2>3, <2>4, MovedTypes DEF InboxPc
  <2>6. WorkTypes'
    BY <1>a, <1>b, <2>1, <2>2, Later DEF WorkTypes
  <2>7. log' \in LogType /\ log'.faulty = log.faulty
    BY <1>5, <1>a DEF Queues, RestTypes, LogType
  <2> QED
    BY <1>a, <2>1, <2>2, <2>5, <2>6, <2>7 DEF Types, RestTypes, TurnHasJob
<1>6. ASSUME NEW q \in Seq(Early), Finishes(m, q) PROVE Types' /\ TurnHasJob'
  <2>1. UNCHANGED <<adapter, records, next, armed, log, budget>>
    BY <1>6 DEF Finishes
  <2>2. LogTypes'
    BY <1>6, <1>a, <1>c, SameLog DEF Finishes
  <2>3. Moved(m, "done", 0)
    BY <1>6, <1>a, SetInboxMoves DEF Finishes, InboxPc
  <2>4. InboxTypes'
    BY <1>a, <2>1, <2>3, MovedTypes DEF InboxPc
  <2>5. TriedDispatch(m)
    BY <1>6, <1>b, TryDispatchTypes DEF Finishes
  <2>6. WorkTypes' /\ cursor' \in 0 .. MaxMsg
    BY <1>a, <2>1, <2>5 DEF TriedDispatch, Dispatched, WorkTypes, Early
  <2>7. TurnHasJob'
    BY <2>1, <2>5 DEF TriedDispatch, Dispatched, TurnHasJob
  <2> QED
    BY <1>a, <2>1, <2>2, <2>4, <2>6, <2>7 DEF Types, RestTypes
<1>7. CASE inbox[m].pc = "queued" /\ Finishes(m, Append(pending, [trig |-> InboundId(m), msg |-> m]))
  <2> DEFINE j == [trig |-> InboundId(m), msg |-> m]
  <2>1. j \in Early
    BY <1>7, <1>b, <1>d, <1>e, <1>f DEF Early, Job
  <2>2. Append(pending, j) \in Seq(Early)
    BY <1>a, <2>1 DEF WorkTypes
  <2> QED
    BY <1>6, <1>7, <2>2
<1>8. CASE IngestFails(m)
  <2>1. UNCHANGED <<adapter, records, disk, next, armed, pending, active, turn, cursor>>
    BY <1>8 DEF IngestFails, AppendFails
  <2>2. budget' \in Bound /\ log' \in LogType /\ log'.faulty
    BY <1>8, <1>a, Spent DEF IngestFails, AppendFails, RestTypes, LogType
  <2>3. Moved(m, "done", 0)
    BY <1>8, <1>a, SetInboxMoves DEF IngestFails, InboxPc
  <2>4. InboxTypes'
    BY <1>a, <2>1, <2>3, MovedTypes DEF InboxPc
  <2>5. LogTypes' /\ WorkTypes'
    BY <1>a, <2>1, SameLog DEF WorkTypes, Early, LogTypes
  <2> QED
    BY <1>a, <2>1, <2>2, <2>4, <2>5 DEF Types, RestTypes, TurnHasJob
<1>9. pending \in Seq(Early)
  BY <1>a DEF WorkTypes
<1> QED
  BY <1>1, <1>2, <1>3, <1>4, <1>5, <1>6, <1>7, <1>8, <1>9 DEF InboxKind

LEMMA TurnTypesStep ==
    ASSUME Types, TurnHasJob, TurnKind
    PROVE  Types' /\ TurnHasJob'
<1>a. LogTypes /\ WorkTypes /\ InboxTypes /\ RestTypes
  BY DEF Types
<1>b. /\ turn \in TurnType /\ turn.rec \in Nat /\ turn.caller \in 0 .. MaxMsg /\ turn.prompt \in SUBSET Msgs
      /\ next \in Nat /\ next <= next + 1 /\ 0 \in 0 .. MaxMsg /\ pending \in Seq(Early)
  BY <1>a, GatewayAssumption DEF WorkTypes, TurnType, LogTypes
<1>c. FaultNoted => log' \in LogType /\ (log.faulty => log'.faulty)
  BY <1>a DEF FaultNoted, RestTypes, LogType
<1>1. CASE TurnGoes
  <2>1. UNCHANGED <<adapter, records, disk, next, armed, pending, active, inbox, cursor, log, budget>>
    BY <1>1 DEF TurnGoes
  <2>2. turn' \in TurnType /\ turn'.pc \in {"prompt", "deliver"} /\ turn.pc \in {"setup", "prompt"}
    BY <1>1, <1>b DEF TurnGoes, Going, TurnType, TurnPc
  <2>3. LogTypes' /\ WorkTypes' /\ InboxTypes' /\ RestTypes'
    BY <1>a, <2>1, <2>2, SameLog, SameInbox DEF WorkTypes, Early, LogTypes, RestTypes
  <2> QED
    BY <2>1, <2>2, <2>3 DEF Types, TurnHasJob
<1>2. ASSUME NEW type \in {"failed", "outbound"}, NEW pc \in {"failed", "aborted", "outbound"},
             TurnWrites(type, pc)
      PROVE  Types' /\ TurnHasJob'
  <2>1. UNCHANGED <<adapter, disk, armed, pending, active, inbox, cursor>> /\ budget' \in Bound
    BY <1>2 DEF TurnWrites
  <2>2. LogTypes' /\ next' = next + 1
    BY <1>2, <1>a, <1>b, <2>1, PushTypes DEF TurnWrites, LogTypes
  <2>3. records \subseteq records'
    BY <1>2 DEF TurnWrites, Push
  <2>4. turn' = [turn EXCEPT !.pc = pc, !.rec = next] /\ turn.pc \notin {"idle", "failed", "error"}
    BY <1>2 DEF TurnWrites
  <2>5. turn' \in TurnType /\ turn'.pc = pc
    BY <1>2, <1>b, <2>4 DEF TurnType, TurnPc
  <2>6. WorkTypes'
    BY <1>a, <1>b, <2>1, <2>2, <2>5, Later DEF WorkTypes
  <2>7. InboxTypes'
    BY <1>a, <2>1, <2>3, SameInbox
  <2>8. RestTypes'
    BY <1>2, <1>a, <1>c, <2>1 DEF RestTypes, TurnWrites
  <2>9. TurnHasJob'
    BY <1>2, <2>1, <2>4, <2>5 DEF TurnHasJob
  <2> QED
    BY <2>2, <2>6, <2>7, <2>8, <2>9 DEF Types
<1>3. CASE TurnCompletes
  <2>1. /\ UNCHANGED <<adapter, armed, pending, active, inbox, cursor>> /\ budget' \in Bound
        /\ turn.pc \in {"deliver", "outbound"}
    BY <1>3 DEF TurnCompletes
  <2>2. active \in Early
    BY <1>a, <2>1 DEF TurnHasJob, WorkTypes
  <2>3. active.msg \in 0 .. MaxMsg /\ active.trig \in Nat /\ active.trig < next
    BY <2>2, JobFacts
  <2>4. disk' \in SUBSET Nat /\ Push("completed", active.msg, active.trig)
        /\ turn' = [turn EXCEPT !.pc = "completed", !.rec = next]
    BY <1>3, <1>a, <1>b DEF TurnCompletes, LogTypes, Completing, Writing
  <2>5. LogTypes' /\ next' = next + 1
    BY <2>3, <2>4, PushTypes
  <2>6. records \subseteq records'
    BY <2>4 DEF Push
  <2>7. turn' \in TurnType /\ turn'.pc = "completed"
    BY <1>b, <2>4 DEF TurnType, TurnPc
  <2>8. WorkTypes'
    BY <1>a, <1>b, <2>1, <2>5, <2>7, Later DEF WorkTypes
  <2>9. InboxTypes'
    BY <1>a, <2>1, <2>6, SameInbox
  <2>10. log' \in LogType
    <3> DEFINE ids == {id \in {r.id : r \in records} : id <= active.trig}
    <3>1. ids \in SUBSET Nat
      BY <1>a DEF LogTypes, Record
    <3>2. log' = [log EXCEPT !.answered = @ \cup turn.prompt,
                             !.passed = IF active.msg # 0 THEN @ ELSE @ \cup ids]
      BY <1>3 DEF TurnCompletes, Completing
    <3> HIDE DEF ids
    <3> QED
      BY <1>a, <1>b, <3>1, <3>2 DEF RestTypes, LogType
  <2>11. RestTypes'
    BY <1>a, <2>1, <2>10 DEF RestTypes
  <2>12. TurnHasJob'
    BY <2>1, <2>7 DEF TurnHasJob
  <2> QED
    BY <2>5, <2>8, <2>9, <2>11, <2>12 DEF Types
<1>4. CASE FailedLanded
  <2>1. UNCHANGED <<adapter, armed, pending, inbox, cursor, log, budget>> /\ active' = NoJob
    BY <1>4 DEF FailedLanded, Landed
  <2>2. disk' \in SUBSET Nat /\ Push("error", 0, 0)
        /\ turn' = [turn EXCEPT !.pc = "error", !.rec = next]
    BY <1>4, <1>a, <1>b DEF FailedLanded, Landed, LogTypes
  <2>3. LogTypes' /\ next' = next + 1
    BY <1>b, <2>2, PushTypes
  <2>4. records \subseteq records'
    BY <2>2 DEF Push
  <2>5. turn' \in TurnType /\ turn'.pc = "error"
    BY <1>b, <2>2 DEF TurnType, TurnPc
  <2>6. WorkTypes'
    BY <1>a, <1>b, <2>1, <2>3, <2>5, Later DEF WorkTypes
  <2>7. InboxTypes' /\ RestTypes'
    BY <1>a, <2>1, <2>4, SameInbox DEF RestTypes
  <2> QED
    BY <2>1, <2>3, <2>5, <2>6, <2>7 DEF Types, TurnHasJob
<1>5. ASSUME NEW a \in Early \cup {NoJob}, TurnEnds(a), a # NoJob => log'.faulty
      PROVE  Types' /\ TurnHasJob'
  <2>1. UNCHANGED <<adapter, records, next, armed, inbox>> /\ budget' \in Bound
    BY <1>5 DEF TurnEnds
  <2>2. disk' \in SUBSET Nat
    BY <1>5, <1>a, <1>b DEF TurnEnds, LogTypes
  <2>3. Dispatched(turn.caller, a)
    BY <1>5, <1>b, DispatchTypes DEF TurnEnds, Finally
  <2>4. LogTypes' /\ InboxTypes'
    BY <1>a, <2>1, <2>2, SameLog, SameInbox
  <2>5. WorkTypes'
    BY <2>1, <2>3 DEF Dispatched, WorkTypes, Early
  <2>6. RestTypes'
    BY <1>5, <1>a, <1>c, <2>1, <2>3 DEF RestTypes, Dispatched, TurnEnds
  <2>7. TurnHasJob'
    BY <1>5, <2>3 DEF Dispatched, TurnHasJob
  <2> QED
    BY <2>4, <2>5, <2>6, <2>7 DEF Types
<1>6. active \in Early \cup {NoJob} /\ NoJob \in Early \cup {NoJob}
  BY <1>a DEF WorkTypes
<1>7. CASE TurnEnds(active) /\ (turn.pc # "error" => log'.faulty)
  BY <1>5, <1>6, <1>7 DEF TurnHasJob
<1> QED
  BY <1>1, <1>2, <1>3, <1>4, <1>5, <1>6, <1>7 DEF TurnKind

LEMMA CrashTypes ==
    ASSUME Types, Crash PROVE Types' /\ TurnHasJob'
<1>a. LogTypes /\ WorkTypes /\ InboxTypes /\ RestTypes
  BY DEF Types
<1>1. /\ records' = ReadLog /\ next' = MaxOf({r.id : r \in ReadLog}) + 1
      /\ armed' = Unarmed /\ pending' = <<>> /\ active' = NoJob /\ turn' = IdleTurn
      /\ UNCHANGED <<adapter, disk, cursor>>
  BY DEF Crash
<1>2. ReadLog \in SUBSET records
  BY DEF ReadLog
<1>3. next' \in Nat \ {0} /\ \A r \in records' : r.id < next'
  <2> DEFINE n == MaxOf({r.id : r \in ReadLog})
  <2>1. n \in Nat /\ \A r \in ReadLog : r.id <= n
    BY <1>2, LargestId
  <2>2. \A r \in ReadLog : r.id \in Nat
    BY <1>a, <1>2 DEF LogTypes, Record
  <2> HIDE DEF n
  <2>3. next' = n + 1
    BY <1>1 DEF n
  <2>4. ASSUME NEW r \in ReadLog PROVE r.id < next'
    <3>1. r.id \in Nat /\ r.id <= n /\ n \in Nat
      BY <2>1, <2>2
    <3> QED
      BY <2>3, <3>1
  <2> QED
    BY <1>1, <2>1, <2>3, <2>4
<1>4. IsFiniteSet(records')
  BY <1>a, <1>1, <1>2, FS_Subset, Zenon DEF LogTypes
<1>5. \A r \in records' : Entry(r)'
  BY <1>a, <1>1, <1>2, <1>3 DEF LogTypes, Entry
<1>6. LogTypes'
  BY <1>a, <1>1, <1>2, <1>3, <1>4, <1>5 DEF LogTypes
<1>7. turn' \in TurnType /\ turn'.pc = "idle"
  BY <1>1, GatewayAssumption DEF IdleTurn, TurnType, TurnPc
<1>8. WorkTypes'
  BY <1>1, <1>7 DEF WorkTypes
<1>9. InboxTypes'
  <2> DEFINE Pc(m, sent) == IF m > sent THEN "new" ELSE IF m > ResumeAfter THEN "again" ELSE "done"
             call(m, sent) == [pc |-> Pc(m, sent), rec |-> 0, control |-> FALSE]
  <2>1. PICK sent : inbox' = [m \in Msgs |-> call(m, sent)]
    BY DEF Crash
  <2>2. ASSUME NEW m \in Msgs PROVE call(m, sent) \in InboxType /\ call(m, sent).pc \in {"new", "again", "done"}
    BY DEF InboxType, InboxPc
  <2> HIDE DEF call
  <2> QED
    BY <2>1, <2>2 DEF InboxTypes, Ingested
<1>10. log' \in LogType
  BY <1>a DEF Crash, RestTypes, LogType, LogTypes
<1>11. RestTypes'
  BY <1>a, <1>1, <1>10, Spent DEF RestTypes, Crash
<1> QED
  BY <1>1, <1>6, <1>7, <1>8, <1>9, <1>11 DEF Types, TurnHasJob

LEMMA TypesStep ==
    ASSUME Types, TurnHasJob, Kind PROVE Types' /\ TurnHasJob'
<1>a. LogTypes /\ WorkTypes /\ InboxTypes /\ RestTypes
  BY DEF Types
<1>b. records \in SUBSET records /\ 0 \in 0 .. MaxMsg
  BY GatewayAssumption
<1>c. LastId \in Nat /\ LastId < next
  BY <1>b, LargestId DEF LastId
<1>1. CASE OnCaughtUp
  <2>1. UNCHANGED <<adapter, records, disk, next, inbox, log, budget>> /\ armed' = LastId
    BY <1>1 DEF OnCaughtUp
  <2>2. TriedDispatch(0)
    BY <1>1, <1>a, <1>b, TryDispatchTypes DEF OnCaughtUp, WorkTypes
  <2>3. WorkTypes' /\ cursor' \in 0 .. MaxMsg
    BY <1>a, <2>1, <2>2 DEF TriedDispatch, Dispatched, WorkTypes, Early
  <2>4. TurnHasJob'
    BY <2>1, <2>2 DEF TriedDispatch, Dispatched, TurnHasJob
  <2>5. LogTypes' /\ InboxTypes'
    BY <1>a, <2>1, SameLog, SameInbox DEF LogTypes
  <2> QED
    BY <1>a, <1>c, <2>1, <2>3, <2>4, <2>5 DEF Types, RestTypes
<1>2. CASE Nudge
  <2> DEFINE j == [trig |-> LastId, msg |-> 0]
  <2>1. UNCHANGED <<adapter, records, disk, armed, inbox, log>> /\ next' = next + 1
    BY <1>2 DEF Nudge
  <2>2. j \in Early
    BY <1>b, <1>c DEF Early, Job
  <2>3. <<j>> \in Seq(Early)
    <3> HIDE DEF j
    <3> QED
      BY <2>2
  <2>4. TriedDispatch(0)
    BY <1>2, <1>b, <2>3, TryDispatchTypes DEF Nudge
  <2>5. next \in Nat /\ next' \in Nat /\ next <= next'
    BY <1>a, <2>1 DEF LogTypes
  <2>6. pending' \in Seq(Early) /\ active' \in Early \cup {NoJob} /\ turn' \in TurnType /\ cursor' \in 0 .. MaxMsg
    BY <1>a, <2>4 DEF TriedDispatch, Dispatched, WorkTypes
  <2>7. WorkTypes'
    BY <2>5, <2>6, Later DEF WorkTypes
  <2>8. TurnHasJob'
    BY <2>1, <2>4 DEF TriedDispatch, Dispatched, TurnHasJob
  <2>9. LogTypes'
    <3>1. ASSUME NEW r \in records PROVE Entry(r)'
      <4>1. r \in Record /\ r.id \in Nat
        BY <1>a DEF LogTypes, Record
      <4> QED
        BY <1>a, <2>1, <2>5, <4>1 DEF LogTypes, Entry
    <3> QED
      BY <1>a, <2>1, <2>5, <3>1 DEF LogTypes
  <2>10. InboxTypes'
    BY <1>a, <2>1, SameInbox
  <2>11. RestTypes'
    BY <1>2, <1>a, <2>1, <2>6, Spent DEF RestTypes, Nudge
  <2> QED
    BY <2>7, <2>8, <2>9, <2>10, <2>11 DEF Types
<1>3. CASE UNCHANGED vars
  <2>1. LogTypes' /\ InboxTypes'
    BY <1>3, <1>a, SameLog, SameInbox DEF vars, LogTypes
  <2> QED
    BY <1>3, <1>a, <2>1 DEF vars, Types, WorkTypes, RestTypes, Early, TurnHasJob
<1> QED
  BY <1>1, <1>2, <1>3, InboxTypesStep, TurnTypesStep, CrashTypes DEF Kind

LEMMA TypesInit == ASSUME Init PROVE Types /\ TurnHasJob
<1>1. /\ adapter \in {"serial", "concurrent", "web"} /\ budget \in Bound
  BY GatewayAssumption DEF Init, Scenario
<1>2. IsFiniteSet({})
  BY FS_EmptySet
<1>3. LogTypes
  BY <1>2 DEF Init, LogTypes
<1>4. turn \in TurnType /\ turn.pc = "idle"
  BY GatewayAssumption DEF Init, IdleTurn, TurnType, TurnPc
<1>5. WorkTypes
  BY <1>4 DEF Init, WorkTypes
<1>6. InboxTypes
  BY DEF Init, InboxTypes, InboxType, InboxPc, Ingested
<1>7. log \in LogType
  BY DEF Init, LogType
<1>8. RestTypes
  BY <1>1, <1>7, GatewayAssumption DEF Init, RestTypes
<1> QED
  BY <1>3, <1>4, <1>5, <1>6, <1>8 DEF Init, Types, TurnHasJob

\* TypeOK follows: the program's variables have the types the code gives them.
THEOREM TypeCorrect == Spec => []TypeOK
<1>1. Init => Types /\ TurnHasJob
  BY TypesInit
<1>2. Types /\ TurnHasJob /\ [Next]_vars => (Types /\ TurnHasJob)'
  BY Kinds, TypesStep
<1>3. Types => TypeOK
  <2> SUFFICES ASSUME Types PROVE TypeOK
    OBVIOUS
  <2>1. pending \in Seq(Job) /\ active \in Job \cup {NoJob}
    <3>1. Early \subseteq Job
      BY DEF Early
    <3>2. ASSUME NEW S, NEW T, S \subseteq T, NEW q \in Seq(S) PROVE q \in Seq(T)
      BY <3>2
    <3> QED
      BY <3>1, <3>2 DEF Types, WorkTypes
  <2> QED
    BY <2>1 DEF Types, LogTypes, WorkTypes, InboxTypes, RestTypes, TypeOK, InboxType, TurnType, LogType
<1> QED
  BY <1>1, <1>2, <1>3, PTL DEF Spec

\* A job is active exactly while its turn runs, unless an append has failed: the catch
\* and finally blocks of tryDispatch leave no job behind that would block the queue.
THEOREM JobsEndWithTheirTurn == Spec => []ActiveOnlyInTurn
<1>1. Init => Types /\ TurnHasJob
  BY TypesInit
<1>2. Types /\ TurnHasJob /\ [Next]_vars => (Types /\ TurnHasJob)'
  BY Kinds, TypesStep
<1>3. TurnHasJob => ActiveOnlyInTurn
  BY DEF TurnHasJob, ActiveOnlyInTurn
<1> QED
  BY <1>1, <1>2, <1>3, PTL DEF Spec

-----------------------------------------------------------------------------
(* One job per message *)

\* A message that has been queued is not delivered again to an armed conversation:
\* while the conversation catches up nothing is queued, and it is armed only when
\* everything that was fetched again is through.
QueuedIsPast(m) == m \in log.queued => /\ inbox[m].pc # "new"
                                       /\ armed # Unarmed => inbox[m].pc \in {"queued", "done"}
CaughtUp(m) == armed # Unarmed => inbox[m].pc # "again"
OnceQueued == ~log.twice /\ \A m \in Msgs : QueuedIsPast(m) /\ CaughtUp(m)

\* What the steps of messages and turns leave alone.
LEMMA QuietQueue ==
    ASSUME OnceQueued, UNCHANGED <<armed, inbox>>, log'.queued = log.queued, log'.twice = log.twice
    PROVE  OnceQueued'
BY DEF OnceQueued, QueuedIsPast, CaughtUp

LEMMA OnceQueuedStep ==
    ASSUME Types, OnceQueued, Kind PROVE OnceQueued'
<1>a. inbox \in [Msgs -> InboxType] /\ log \in LogType /\ log.twice \in BOOLEAN /\ armed \in Nat \cup {Unarmed}
      /\ InboxTypes
  BY DEF Types, InboxTypes, RestTypes, LogType
<1>b. next \in Nat
  BY DEF Types, LogTypes
<1>1. ASSUME NEW m \in Msgs, InboxKind(m) PROVE OnceQueued'
  <2>1. ASSUME NEW pc \in {"inbound", "checkpoint", "done"}, NEW rec, Moved(m, pc, rec), armed' = armed,
               log'.queued = log.queued, log'.twice = log.twice,
               inbox[m].pc \notin {"new", "again", "done"}, inbox[m].pc = "queued" => pc = "done"
        PROVE  OnceQueued'
    BY <1>a, <2>1 DEF OnceQueued, QueuedIsPast, CaughtUp, Moved
  <2>2. CASE Deliver(m)
    <3>1. /\ inbox[m].pc \in {"new", "again"} /\ armed' = armed /\ log' = log
          /\ inbox' = [inbox EXCEPT ![m] = [pc |-> "attach", rec |-> 0,
                                            control |-> m \in Controls /\ armed # Unarmed]]
      BY <2>2 DEF Deliver, runtime
    <3>2. inbox'[m].pc = "attach" /\ \A k \in Msgs \ {m} : inbox'[k] = inbox[k]
      BY <1>a, <3>1
    <3> QED
      BY <3>1, <3>2 DEF OnceQueued, QueuedIsPast, CaughtUp
  <2>3. CASE Ingests(m)
    <3>1. Moved(m, "inbound", next)
      BY <1>a, <1>b, <2>3, SetInboxMoves DEF Ingests, InboxPc
    <3> QED
      BY <2>1, <2>3, <3>1 DEF Ingests
  <2>4. CASE Notes(m)
    <3>1. Moved(m, "checkpoint", next)
      BY <1>a, <1>b, <2>4, SetInboxMoves DEF Notes, InboxPc
    <3> QED
      BY <2>1, <2>4, <3>1 DEF Notes
  <2>5. CASE EndsControl(m)
    <3>1. Moved(m, "done", 0)
      BY <1>a, <2>5, SetInboxMoves DEF EndsControl, InboxPc
    <3> QED
      BY <2>1, <2>5, <3>1 DEF EndsControl
  <2>6. CASE Queues(m)
    <3>1. Moved(m, "queued", next)
      BY <1>a, <1>b, <2>6, SetInboxMoves DEF Queues, InboxPc
    <3>2. armed' = armed /\ armed # Unarmed /\ inbox[m].pc \in {"inbound", "checkpoint"}
      BY <2>6 DEF Queues
    <3>3. m \notin log.queued
      BY <3>2 DEF OnceQueued, QueuedIsPast
    <3>4. log'.queued = log.queued \cup {m} /\ ~log'.twice
      BY <1>a, <2>6, <3>3 DEF Queues, LogType, OnceQueued
    <3> QED
      BY <3>1, <3>2, <3>4 DEF OnceQueued, QueuedIsPast, CaughtUp, Moved
  <2>7. ASSUME NEW q, Finishes(m, q) PROVE OnceQueued'
    <3>1. Moved(m, "done", 0)
      BY <1>a, <2>7, SetInboxMoves DEF Finishes, InboxPc
    <3> QED
      BY <2>1, <2>7, <3>1 DEF Finishes
  <2>8. CASE IngestFails(m)
    <3>1. Moved(m, "done", 0)
      BY <1>a, <2>8, SetInboxMoves DEF IngestFails, InboxPc
    <3>2. log'.queued = log.queued /\ log'.twice = log.twice
      BY <1>a, <2>8 DEF IngestFails, AppendFails, LogType
    <3> QED
      BY <2>1, <2>8, <3>1, <3>2 DEF IngestFails
  <2> QED
    BY <1>1, <2>2, <2>3, <2>4, <2>5, <2>6, <2>7, <2>8 DEF InboxKind
<1>2. CASE OnCaughtUp
  <2>1. Handling = {} /\ inbox' = inbox /\ log' = log /\ \A m \in Msgs : inbox[m].pc # "again"
    BY <1>2 DEF OnCaughtUp, AdapterFree
  <2>2. \A m \in Msgs : inbox[m].pc \in {"new", "done"}
    BY <2>1 DEF Handling
  <2> QED
    BY <2>1, <2>2 DEF OnceQueued, QueuedIsPast, CaughtUp
<1>3. CASE Nudge
  BY <1>3, QuietQueue DEF Nudge
<1>4. CASE TurnKind
  <2>1. FaultNoted => log'.queued = log.queued /\ log'.twice = log.twice
    BY <1>a DEF FaultNoted, LogType
  <2>2. Completing => log'.queued = log.queued /\ log'.twice = log.twice
    BY <1>a DEF Completing, LogType
  <2> QED
    BY <1>4, <2>1, <2>2, QuietQueue
       DEF TurnKind, TurnGoes, TurnWrites, TurnCompletes, FailedLanded, Landed, TurnEnds
<1>5. CASE Crash
  <2> DEFINE seen == {m \in Msgs : inbox[m].pc # "new"}
             sent == MaxOf(seen)
             Pc(m) == IF m > sent THEN "new" ELSE IF m > ResumeAfter THEN "again" ELSE "done"
  <2>1. /\ inbox' = [m \in Msgs |-> [pc |-> Pc(m), rec |-> 0, control |-> FALSE]]
        /\ armed' = Unarmed /\ log' = [log EXCEPT !.passed = @ \cap disk]
    BY <1>5 DEF Crash
  <2>2. log'.queued = log.queued /\ log'.twice = log.twice
    BY <1>a, <2>1 DEF LogType
  <2>3. sent \in Nat /\ \A m \in seen : m <= sent
    <3>1. 1 \in Int /\ MaxMsg \in Int /\ seen \subseteq 1 .. MaxMsg /\ seen \in SUBSET Nat
      BY GatewayAssumption DEF Msgs
    <3>2. IsFiniteSet(1 .. MaxMsg)
      BY <3>1, FS_Interval
    <3> HIDE DEF seen
    <3>3. IsFiniteSet(seen)
      BY <3>1, <3>2, FS_Subset, Zenon
    <3> QED
      BY <3>1, <3>3, MaxOfBounds
  <2>4. ASSUME NEW m \in Msgs, m \in log.queued PROVE inbox'[m].pc # "new"
    <3>1. m \in seen /\ m \in Nat
      BY <2>4 DEF OnceQueued, QueuedIsPast, Msgs
    <3> HIDE DEF sent
    <3>2. ~(m > sent)
      BY <2>3, <3>1
    <3> QED
      BY <2>1, <3>2
  <2> HIDE DEF sent
  <2> QED
    BY <2>1, <2>2, <2>4 DEF OnceQueued, QueuedIsPast, CaughtUp
<1>6. CASE UNCHANGED vars
  BY <1>6, QuietQueue DEF vars
<1> QED
  BY <1>1, <1>2, <1>3, <1>4, <1>5, <1>6 DEF Kind

\* A message asks for at most one turn, whatever fails and however often the gateway
\* crashes and fetches it again (shouldQueueTrigger, armAfterCurrentTail).
THEOREM MessagesQueuedOnce == Spec => []OneJobPerMessage
<1>1. Init => Types /\ TurnHasJob /\ OnceQueued
  <2>1. Init => OnceQueued
    BY DEF Init, OnceQueued, QueuedIsPast, CaughtUp
  <2> QED
    BY <2>1, TypesInit
<1>2. Types /\ TurnHasJob /\ OnceQueued /\ [Next]_vars => (Types /\ TurnHasJob /\ OnceQueued)'
  BY Kinds, TypesStep, OnceQueuedStep
<1>3. OnceQueued => OneJobPerMessage
  BY DEF OnceQueued, OneJobPerMessage
<1> QED
  BY <1>1, <1>2, <1>3, PTL DEF Spec

-----------------------------------------------------------------------------
(* What only a crash takes back *)

\* The log grows, its new record has the next id, and what has been answered, passed
\* over or has failed stays so.
Grown ==
    /\ adapter' = adapter /\ records \subseteq records' /\ disk \subseteq disk'
    /\ log.faulty => log'.faulty
    /\ log.answered \subseteq log'.answered /\ log.passed \subseteq log'.passed
    /\ \A r \in records' \ records :
           r.id = next /\ (r.type = "completed" => TurnCompletes /\ r.trig = active.trig)

LEMMA PushGrows ==
    ASSUME NEW type, NEW msg, NEW trig, Push(type, msg, trig)
    PROVE  /\ records \subseteq records'
           /\ \A r \in records' \ records : r.id = next /\ r.type = type /\ r.trig = trig
BY DEF Push

LEMMA StepGrows == ASSUME Types, Kind, ~Crash PROVE Grown
<1>a. log \in LogType /\ disk \in SUBSET Nat
  BY DEF Types, RestTypes, LogTypes
<1>b. FaultNoted => /\ log.faulty => log'.faulty
                    /\ log.answered \subseteq log'.answered /\ log.passed \subseteq log'.passed
  BY <1>a DEF FaultNoted, LogType
<1>1. ASSUME NEW m \in Msgs, InboxKind(m) PROVE Grown
  <2>1. CASE Deliver(m)
    BY <2>1 DEF Deliver, runtime, Grown
  <2>2. CASE Ingests(m)
    BY <2>2, PushGrows DEF Ingests, Grown
  <2>3. CASE Notes(m)
    BY <2>3, PushGrows DEF Notes, LandsIn, Grown
  <2>4. CASE EndsControl(m)
    BY <2>4 DEF EndsControl, LandsIn, Grown
  <2>5. CASE Queues(m)
    <3>1. log'.faulty = log.faulty /\ log'.answered = log.answered /\ log'.passed = log.passed
      BY <1>a, <2>5 DEF Queues, LogType
    <3> QED
      BY <2>5, <3>1, PushGrows DEF Queues, LandsIn, Grown
  <2>6. ASSUME NEW q, Finishes(m, q) PROVE Grown
    BY <2>6 DEF Finishes, LandsIn, Grown
  <2>7. CASE IngestFails(m)
    <3>1. FaultNoted /\ UNCHANGED <<adapter, records, disk>>
      BY <2>7 DEF IngestFails, AppendFails, FaultNoted
    <3> QED
      BY <1>b, <3>1 DEF Grown
  <2> QED
    BY <1>1, <2>1, <2>2, <2>3, <2>4, <2>5, <2>6, <2>7 DEF InboxKind
<1>2. CASE OnCaughtUp
  BY <1>2 DEF OnCaughtUp, Grown
<1>3. CASE Nudge
  BY <1>3 DEF Nudge, Grown
<1>4. CASE TurnGoes
  BY <1>4 DEF TurnGoes, Grown
<1>5. ASSUME NEW type \in {"failed", "outbound"}, NEW pc, TurnWrites(type, pc) PROVE Grown
  BY <1>5, <1>b, PushGrows DEF TurnWrites, Grown
<1>6. CASE TurnCompletes
  <2>1. log'.faulty = log.faulty /\ log.answered \subseteq log'.answered /\ log.passed \subseteq log'.passed
    <3> DEFINE ids == {id \in {r.id : r \in records} : id <= active.trig}
    <3>1. log' = [log EXCEPT !.answered = @ \cup turn.prompt,
                             !.passed = IF active.msg # 0 THEN @ ELSE @ \cup ids]
      BY <1>6 DEF TurnCompletes, Completing
    <3> HIDE DEF ids
    <3> QED
      BY <1>a, <3>1 DEF LogType
  <2>2. Push("completed", active.msg, active.trig)
    BY <1>6 DEF TurnCompletes, Completing, Writing
  <2> QED
    BY <1>6, <2>1, <2>2, PushGrows DEF TurnCompletes, Grown
<1>7. CASE FailedLanded
  BY <1>7, PushGrows DEF FailedLanded, Landed, Grown
<1>8. ASSUME NEW a, TurnEnds(a) PROVE Grown
  BY <1>8, <1>b DEF TurnEnds, Grown
<1>9. CASE UNCHANGED vars
  BY <1>9 DEF vars, Grown
<1> QED
  BY <1>1, <1>2, <1>3, <1>4, <1>5, <1>6, <1>7, <1>8, <1>9 DEF Kind, TurnKind

-----------------------------------------------------------------------------
(* The cursor file and the log file *)

Durable(m) == \E r \in records : r.type = "inbound" /\ r.msg = m /\ r.id \in disk

\* An onMessage that waits for its inbound record knows its id; only a command is
\* handled as one.
Awaits(m) == /\ inbox[m].pc = "inbound" =>
                    \E r \in records : r.type = "inbound" /\ r.msg = m /\ r.id = inbox[m].rec
             /\ inbox[m].control => m \in Controls
\* Telegram's adapter takes one message after the other ...
InOrder(m) == adapter = "serial" /\ inbox[m].pc \notin {"new", "again"} =>
                  \A k \in Msgs : k < m => inbox[k].pc = "done"
\* ... and the turn it waits for is that of a message whose ingestInbound is through.
CallerDone == turn.caller # 0 => inbox[turn.caller].pc = "done"
\* Past its first append a message is in the file.
Filed(m) == adapter = "serial" /\ ~log.faulty /\ m \notin Controls
                /\ inbox[m].pc \in {"checkpoint", "queued", "done"} => Durable(m)
Behind(m) == adapter = "serial" /\ ~log.faulty /\ m \notin Controls /\ m <= cursor => Durable(m)

CursorKept == /\ CallerDone
              /\ \A m \in Msgs : Awaits(m) /\ InOrder(m) /\ Filed(m) /\ Behind(m)

LEMMA DurableStays == ASSUME Grown, NEW m, Durable(m) PROVE Durable(m)'
BY DEF Grown, Durable

\* The cursor moves to messages whose onMessage is through, and to no others.
LEMMA BehindStep ==
    ASSUME Types, Types', CursorKept, Grown, NEW c \in 0 .. MaxMsg, cursor' \in {cursor, c},
           c # 0 => inbox'[c].pc = "done",
           \A k \in Msgs : InOrder(k)' /\ Filed(k)'
    PROVE  \A k \in Msgs : Behind(k)'
<1> SUFFICES ASSUME NEW k \in Msgs, adapter' = "serial", ~log'.faulty, k \notin Controls, k <= cursor'
             PROVE  Durable(k)'
  BY DEF Behind
<1>1. k \in Int /\ cursor \in Int /\ c \in Int /\ 1 <= k /\ (c # 0 => c \in Msgs)
  BY GatewayAssumption DEF Types, RestTypes, Msgs
<1>2. adapter = "serial" /\ ~log.faulty
  BY DEF Grown
<1>3. CASE k <= cursor
  BY <1>2, <1>3, DurableStays DEF CursorKept, Behind
<1>4. CASE k <= c /\ c # 0
  <2>1. c \in Msgs /\ inbox'[c].pc = "done"
    BY <1>1, <1>4
  <2>2. inbox'[k].pc = "done"
    BY <1>1, <1>4, <2>1 DEF InOrder
  <2> QED
    BY <2>2 DEF Filed
<1> QED
  BY <1>1, <1>3, <1>4

\* One onMessage moves on, and is through only when its message is in the file.
LEMMA MovedKept ==
    ASSUME Types, Types', CursorKept, Grown, NEW m \in Msgs, NEW pc, NEW rec, Moved(m, pc, rec),
           inbox[m].pc \notin {"new", "again", "done"}, pc \in InboxPc \ {"new", "again"},
           pc = "inbound" => \E r \in records' : r.type = "inbound" /\ r.msg = m /\ r.id = rec,
           ~log'.faulty /\ m \notin Controls /\ pc \in {"checkpoint", "queued", "done"} =>
               inbox[m].pc \in {"checkpoint", "queued"} \/ (LandsIn(m) /\ inbox[m].pc = "inbound"),
           cursor' \in {cursor, m}, cursor' = m => pc = "done" \/ m = cursor,
           turn'.caller \in {0, turn.caller} \/ (turn'.caller = m /\ pc = "done")
    PROVE  CursorKept'
<1>1. ASSUME NEW k \in Msgs PROVE Awaits(k)'
  <2>1. Awaits(k)
    BY DEF CursorKept
  <2>2. CASE k = m
    BY <2>1, <2>2 DEF Moved, Awaits
  <2>3. CASE k # m
    BY <2>1, <2>3 DEF Moved, Awaits, Grown
  <2> QED
    BY <2>2, <2>3
<1>2. ASSUME NEW k \in Msgs PROVE InOrder(k)'
  <2>1. InOrder(k) /\ InOrder(m)
    BY DEF CursorKept
  <2>2. CASE k = m
    <3>1. \A j \in Msgs : j < m => j # m
      BY DEF Msgs
    <3> QED
      BY <2>1, <2>2, <3>1 DEF Moved, InOrder, Grown
  <2>3. CASE k # m
    BY <2>1, <2>3 DEF Moved, InOrder, Grown
  <2> QED
    BY <2>2, <2>3
<1>3. ASSUME NEW k \in Msgs PROVE Filed(k)'
  <2> SUFFICES ASSUME adapter' = "serial", ~log'.faulty, k \notin Controls,
                      inbox'[k].pc \in {"checkpoint", "queued", "done"}
               PROVE  Durable(k)'
    BY DEF Filed
  <2>1. adapter = "serial" /\ ~log.faulty /\ Filed(k) /\ Awaits(k)
    BY DEF Grown, CursorKept
  <2>2. CASE k # m \/ inbox[m].pc \in {"checkpoint", "queued"}
    <3>1. Durable(k)
      BY <2>1, <2>2 DEF Moved, Filed
    <3> QED
      BY <3>1, DurableStays
  <2>3. CASE k = m /\ inbox[m].pc \notin {"checkpoint", "queued"}
    <3>1. LandsIn(m) /\ inbox[m].pc = "inbound"
      BY <2>3 DEF Moved
    <3>2. PICK r \in records : r.type = "inbound" /\ r.msg = m /\ r.id = inbox[m].rec
      BY <2>1, <2>3, <3>1 DEF Awaits
    <3> QED
      BY <2>3, <3>1, <3>2 DEF LandsIn, Grown, Durable
  <2> QED
    BY <2>2, <2>3
<1>4. CallerDone'
  <2>1. CASE turn'.caller = m /\ pc = "done"
    BY <2>1 DEF Moved, CallerDone
  <2>2. CASE turn'.caller = turn.caller /\ turn.caller # 0
    <3>1. turn.caller \in Msgs /\ turn.caller # m
      BY <2>2 DEF CursorKept, CallerDone, Types, WorkTypes, TurnType, Msgs
    <3> QED
      BY <2>2, <3>1 DEF Moved, CursorKept, CallerDone
  <2> QED
    BY <2>1, <2>2 DEF CallerDone
<1>5. \A k \in Msgs : Behind(k)'
  <2>1. m \in 0 .. MaxMsg /\ 0 \in 0 .. MaxMsg
    BY GatewayAssumption DEF Msgs
  <2>2. CASE pc = "done"
    <3>1. inbox'[m].pc = "done"
      BY <2>2 DEF Moved
    <3> QED
      BY <1>2, <1>3, <2>1, <3>1, BehindStep
  <2>3. CASE pc # "done"
    <3>1. cursor' \in {cursor, 0}
      BY <2>3
    <3> QED
      BY <1>2, <1>3, <2>1, <3>1, BehindStep
  <2> QED
    BY <2>2, <2>3
<1> QED
  BY <1>1, <1>2, <1>3, <1>4, <1>5 DEF CursorKept

\* No onMessage moves, and the cursor goes at most to the message of the turn.
LEMMA StillKept ==
    ASSUME Types, Types', CursorKept, Grown, UNCHANGED inbox,
           cursor' \in {cursor, 0, turn.caller}, turn'.caller \in {0, turn.caller}
    PROVE  CursorKept'
<1>1. ASSUME NEW k \in Msgs PROVE Awaits(k)' /\ InOrder(k)' /\ Filed(k)'
  <2>1. Awaits(k) /\ InOrder(k) /\ Filed(k)
    BY DEF CursorKept
  <2>2. Awaits(k)' /\ InOrder(k)'
    BY <2>1 DEF Awaits, InOrder, Grown
  <2>3. Filed(k)'
    BY <2>1, DurableStays DEF Filed, Grown
  <2> QED
    BY <2>2, <2>3
<1>2. CallerDone'
  BY DEF CursorKept, CallerDone
<1>3. turn.caller \in 0 .. MaxMsg /\ 0 \in 0 .. MaxMsg
  BY GatewayAssumption DEF Types, WorkTypes, TurnType
<1>4. turn.caller # 0 => inbox'[turn.caller].pc = "done"
  BY DEF CursorKept, CallerDone
<1>5. \A k \in Msgs : Behind(k)'
  <2>1. CASE cursor' \in {cursor, 0}
    BY <1>1, <1>3, <2>1, BehindStep
  <2>2. CASE cursor' \in {cursor, turn.caller}
    BY <1>1, <1>3, <1>4, <2>2, BehindStep
  <2> QED
    BY <2>1, <2>2
<1> QED
  BY <1>1, <1>2, <1>5 DEF CursorKept

LEMMA InboxCursor ==
    ASSUME Types, Types', TurnHasJob, CursorKept, Grown, NEW m \in Msgs, InboxKind(m)
    PROVE  CursorKept'
<1>a. InboxTypes /\ WorkTypes /\ next \in Nat /\ inbox \in [Msgs -> InboxType] /\ m \in 0 .. MaxMsg
  BY GatewayAssumption DEF Types, InboxTypes, LogTypes, Msgs
<1>b. Awaits(m) /\ Ingested(m)
  BY DEF CursorKept, Types, InboxTypes
<1>1. CASE Deliver(m)
  <2> DEFINE control == m \in Controls /\ armed # Unarmed
  <2>1. /\ inbox[m].pc \in {"new", "again"} /\ AdapterFree
        /\ adapter = "serial" => \A k \in 1 .. m - 1 : inbox[k].pc \notin {"new", "again"}
        /\ inbox' = [inbox EXCEPT ![m] = [pc |-> "attach", rec |-> 0, control |-> control]]
        /\ cursor' = cursor
    BY <1>1 DEF Deliver
  <2>2. /\ inbox'[m].pc = "attach" /\ (inbox'[m].control => m \in Controls)
        /\ \A k \in Msgs \ {m} : inbox'[k] = inbox[k]
    BY <1>a, <2>1
  <2>3. ASSUME NEW k \in Msgs PROVE Awaits(k)'
    <3>1. Awaits(k)
      BY DEF CursorKept
    <3> QED
      BY <2>2, <3>1 DEF Awaits, Grown
  <2>4. ASSUME NEW k \in Msgs PROVE InOrder(k)'
    <3>1. InOrder(k)
      BY DEF CursorKept
    <3>2. CASE k = m
      <4>1. ASSUME adapter = "serial", NEW j \in Msgs, j < m PROVE inbox'[j].pc = "done"
        <5>1. j \in 1 .. m - 1 /\ j # m
          BY <4>1 DEF Msgs
        <5>2. inbox[j].pc \notin {"new", "again"}
          BY <2>1, <4>1, <5>1
        <5>3. j \notin Handling
          BY <2>1, <4>1 DEF AdapterFree
        <5> QED
          BY <2>2, <5>1, <5>2, <5>3 DEF Handling
      <4> QED
        BY <3>2, <4>1 DEF InOrder, Grown
    <3>3. CASE k # m
      BY <2>1, <2>2, <3>1, <3>3 DEF InOrder, Grown
    <3> QED
      BY <3>2, <3>3
  <2>5. ASSUME NEW k \in Msgs PROVE Filed(k)'
    <3>1. Filed(k)
      BY DEF CursorKept
    <3> QED
      BY <2>2, <3>1, DurableStays DEF Filed, Grown
  <2>6. CallerDone'
    <3>1. turn'.caller = turn.caller
      BY <1>1, <1>a DEF Deliver, WorkTypes, TurnType
    <3>2. turn.caller # 0 => turn.caller \in Msgs /\ turn.caller # m
      BY <1>a, <2>1 DEF CursorKept, CallerDone, WorkTypes, TurnType, Msgs
    <3> QED
      BY <2>2, <3>1, <3>2 DEF CursorKept, CallerDone
  <2>7. 0 \in 0 .. MaxMsg
    BY GatewayAssumption
  <2>8. \A k \in Msgs : Behind(k)'
    BY <2>1, <2>4, <2>5, <2>7, BehindStep
  <2> QED
    BY <2>3, <2>4, <2>5, <2>6, <2>8 DEF CursorKept
<1>2. CASE Ingests(m)
  <2>1. Moved(m, "inbound", next) /\ cursor' = cursor /\ turn' = turn /\ inbox[m].pc = "attach"
    BY <1>2, <1>a, SetInboxMoves DEF Ingests, InboxPc
  <2>2. \E r \in records' : r.type = "inbound" /\ r.msg = m /\ r.id = next
    <3> DEFINE new == [id |-> next, type |-> "inbound", msg |-> m, trig |-> 0]
    <3>1. new \in records' /\ new.type = "inbound" /\ new.msg = m /\ new.id = next
      BY <1>2 DEF Ingests, Push
    <3> HIDE DEF new
    <3> QED
      BY <3>1
  <2> QED
    BY <2>1, <2>2, MovedKept DEF InboxPc
<1>3. CASE Notes(m)
  <2>1. /\ Moved(m, "checkpoint", next) /\ cursor' = cursor /\ turn' = turn /\ LandsIn(m)
        /\ (inbox[m].pc = "attach" /\ inbox[m].control) \/ inbox[m].pc = "inbound"
    BY <1>3, <1>a, SetInboxMoves DEF Notes, InboxPc
  <2> QED
    BY <1>b, <2>1, MovedKept DEF InboxPc, Awaits
<1>4. CASE EndsControl(m)
  <2>1. /\ Moved(m, "done", 0) /\ turn' = turn /\ inbox[m].control
        /\ inbox[m].pc \in {"attach", "inbound", "checkpoint"}
    BY <1>4, <1>a, SetInboxMoves DEF EndsControl, InboxPc
  <2>2. cursor' \in {cursor, m}
    BY <1>4, <1>a, ReturnedType DEF EndsControl
  <2> QED
    BY <1>b, <2>1, <2>2, MovedKept DEF InboxPc, Awaits
<1>5. CASE Queues(m)
  <2>1. /\ Moved(m, "queued", next) /\ cursor' = cursor /\ turn' = turn /\ LandsIn(m)
        /\ inbox[m].pc \in {"inbound", "checkpoint"}
    BY <1>5, <1>a, SetInboxMoves DEF Queues, InboxPc
  <2> QED
    BY <2>1, MovedKept DEF InboxPc
<1>6. ASSUME NEW q \in Seq(Early), Finishes(m, q) PROVE CursorKept'
  <2>1. /\ Moved(m, "done", 0) /\ LandsIn(m)
        /\ inbox[m].pc \in {"inbound", "checkpoint", "queued"}
    BY <1>6, <1>a, SetInboxMoves DEF Finishes, InboxPc
  <2>2. TriedDispatch(m)
    BY <1>6, <1>a, TryDispatchTypes DEF Finishes
  <2>3. cursor' \in {cursor, m} /\ turn'.caller \in {0, m, turn.caller}
    BY <2>2 DEF TriedDispatch, Dispatched
  <2> QED
    BY <2>1, <2>3, MovedKept DEF InboxPc
<1>7. CASE inbox[m].pc = "queued" /\ Finishes(m, Append(pending, [trig |-> InboundId(m), msg |-> m]))
  <2> DEFINE j == [trig |-> InboundId(m), msg |-> m]
  <2>1. InboundId(m) \in Nat /\ InboundId(m) < next
    BY <1>7, <1>b, InboundIdFacts DEF Ingested
  <2>2. j \in Early
    BY <1>a, <2>1 DEF Early, Job
  <2>3. Append(pending, j) \in Seq(Early)
    BY <1>a, <2>2 DEF WorkTypes
  <2> QED
    BY <1>6, <1>7, <2>3
<1>8. CASE IngestFails(m)
  <2>1. /\ Moved(m, "done", 0) /\ cursor' = cursor /\ turn' = turn
        /\ inbox[m].pc \in {"inbound", "checkpoint", "queued"}
    BY <1>8, <1>a, SetInboxMoves DEF IngestFails, InboxPc
  <2>2. log'.faulty
    BY <1>8 DEF IngestFails, AppendFails, Types, RestTypes, LogType
  <2> QED
    BY <2>1, <2>2, MovedKept DEF InboxPc
<1>9. pending \in Seq(Early)
  BY <1>a DEF WorkTypes
<1> QED
  BY <1>1, <1>2, <1>3, <1>4, <1>5, <1>6, <1>7, <1>8, <1>9 DEF InboxKind

LEMMA TurnCursor ==
    ASSUME Types, Types', TurnHasJob, CursorKept, Grown, TurnKind
    PROVE  CursorKept'
<1>a. turn \in TurnType /\ turn.caller \in 0 .. MaxMsg /\ active \in Early \cup {NoJob} /\ pending \in Seq(Early)
  BY DEF Types, WorkTypes, TurnType
<1>1. CASE TurnGoes
  <2>1. turn'.caller = turn.caller
    BY <1>1, <1>a DEF TurnGoes, Going, TurnType
  <2> QED
    BY <1>1, <2>1, StillKept DEF TurnGoes
<1>2. ASSUME NEW type, NEW pc, TurnWrites(type, pc) PROVE CursorKept'
  <2>1. turn'.caller = turn.caller
    BY <1>2, <1>a DEF TurnWrites, TurnType
  <2> QED
    BY <1>2, <2>1, StillKept DEF TurnWrites
<1>3. CASE TurnCompletes
  <2>1. turn'.caller = turn.caller
    BY <1>3, <1>a DEF TurnCompletes, Completing, Writing, TurnType
  <2> QED
    BY <1>3, <2>1, StillKept DEF TurnCompletes
<1>4. CASE FailedLanded
  <2>1. turn'.caller = turn.caller
    BY <1>4, <1>a DEF FailedLanded, TurnType
  <2> QED
    BY <1>4, <2>1, StillKept DEF FailedLanded
<1>5. ASSUME NEW a \in Early \cup {NoJob}, TurnEnds(a) PROVE CursorKept'
  <2>1. Dispatched(turn.caller, a)
    BY <1>5, <1>a, DispatchTypes DEF TurnEnds, Finally
  <2>2. turn'.caller \in {0, turn.caller} /\ cursor' \in {cursor, 0, turn.caller}
    BY <2>1 DEF Dispatched
  <2> QED
    BY <1>5, <2>2, StillKept DEF TurnEnds
<1> QED
  BY <1>1, <1>2, <1>3, <1>4, <1>5, <1>a DEF TurnKind

\* After a crash Telegram sends again what is after the cursor file; what is before it
\* is in the log that initialize reads.
LEMMA CrashCursor ==
    ASSUME Types, CursorKept, Crash PROVE CursorKept'
<1> DEFINE sent == MaxOf({m \in Msgs : inbox[m].pc # "new"})
           Pc(m) == IF m > sent THEN "new" ELSE IF m > ResumeAfter THEN "again" ELSE "done"
<1>1. /\ records' = ReadLog /\ turn' = IdleTurn /\ UNCHANGED <<adapter, disk, cursor>>
      /\ inbox' = [m \in Msgs |-> [pc |-> Pc(m), rec |-> 0, control |-> FALSE]]
      /\ log' = [log EXCEPT !.passed = @ \cap disk]
  BY DEF Crash
<1>2. log'.faulty = log.faulty /\ turn'.caller = 0
  BY <1>1 DEF Types, RestTypes, LogType, IdleTurn
<1>3. sent \in Nat /\ cursor \in Nat
  <2> DEFINE seen == {m \in Msgs : inbox[m].pc # "new"}
  <2>1. 1 \in Int /\ MaxMsg \in Int /\ seen \subseteq 1 .. MaxMsg /\ seen \in SUBSET Nat
    BY GatewayAssumption DEF Msgs
  <2>2. IsFiniteSet(1 .. MaxMsg)
    BY <2>1, FS_Interval
  <2>3. cursor \in Nat
    BY GatewayAssumption DEF Types, RestTypes
  <2> HIDE DEF seen
  <2>4. IsFiniteSet(seen)
    BY <2>1, <2>2, FS_Subset, Zenon
  <2>5. MaxOf(seen) \in Nat
    BY <2>1, <2>4, MaxOfBounds
  <2> QED
    BY <2>3, <2>5 DEF seen
<1>4. ASSUME NEW m \in Msgs, Durable(m) PROVE Durable(m)'
  <2>1. PICK r \in records : r.type = "inbound" /\ r.msg = m /\ r.id \in disk
    BY <1>4 DEF Durable
  <2>2. r \in records' /\ r.id \in disk'
    BY <1>1, <2>1 DEF ReadLog
  <2> QED
    BY <2>1, <2>2 DEF Durable
<1> HIDE DEF sent
<1>5. ASSUME NEW m \in Msgs PROVE /\ inbox'[m].pc = Pc(m) /\ inbox'[m].control = FALSE
  BY <1>1
<1>6. adapter = "serial" => ResumeAfter = cursor
  BY DEF ResumeAfter
<1>7. ASSUME NEW m \in Msgs PROVE Awaits(m)' /\ InOrder(m)' /\ Filed(m)' /\ Behind(m)'
  <2>0. m \in Nat
    BY DEF Msgs
  <2>1. Awaits(m)'
    BY <1>5 DEF Awaits
  <2>2. InOrder(m)'
    <3>1. ASSUME adapter = "serial", ~(m > sent), ~(m > cursor), NEW k \in Msgs, k < m
          PROVE  ~(k > sent) /\ ~(k > cursor)
      BY <1>3, <2>0, <3>1 DEF Msgs
    <3> QED
      BY <1>1, <1>5, <1>6, <3>1 DEF InOrder
  <2>3. Behind(m)'
    BY <1>1, <1>2, <1>4 DEF CursorKept, Behind
  <2>4. Filed(m)'
    <3>1. ~(m > cursor) => m <= cursor
      BY <1>3, <2>0
    <3> QED
      BY <1>1, <1>2, <1>5, <1>6, <2>3, <3>1 DEF Filed, Behind
  <2> QED
    BY <2>1, <2>2, <2>3, <2>4
<1>8. CallerDone'
  BY <1>2 DEF CallerDone
<1> QED
  BY <1>7, <1>8 DEF CursorKept

LEMMA CursorStep ==
    ASSUME Types, Types', TurnHasJob, CursorKept, Kind PROVE CursorKept'
<1>a. ~Crash => Grown
  BY StepGrows
<1>b. 0 \in 0 .. MaxMsg /\ pending \in Seq(Early)
  BY GatewayAssumption DEF Types, WorkTypes
<1>1. CASE OnCaughtUp /\ ~Crash
  <2>1. TriedDispatch(0)
    BY <1>1, <1>b, TryDispatchTypes DEF OnCaughtUp
  <2>2. turn'.caller \in {0, turn.caller} /\ cursor' \in {cursor, 0, turn.caller}
    BY <2>1 DEF TriedDispatch, Dispatched
  <2> QED
    BY <1>1, <1>a, <2>2, StillKept DEF OnCaughtUp
<1>2. CASE Nudge /\ ~Crash
  <2> DEFINE j == [trig |-> LastId, msg |-> 0]
  <2>1. LastId \in Nat /\ LastId < next
    <3>1. records \in SUBSET records
      OBVIOUS
    <3> QED
      BY <3>1, LargestId DEF LastId
  <2>2. j \in Early
    BY <1>b, <2>1 DEF Early, Job
  <2>3. <<j>> \in Seq(Early)
    <3> HIDE DEF j
    <3> QED
      BY <2>2
  <2>4. TriedDispatch(0)
    BY <1>2, <1>b, <2>3, TryDispatchTypes DEF Nudge
  <2>5. turn'.caller \in {0, turn.caller} /\ cursor' \in {cursor, 0, turn.caller}
    BY <2>4 DEF TriedDispatch, Dispatched
  <2> QED
    BY <1>2, <1>a, <2>5, StillKept DEF Nudge
<1>3. CASE UNCHANGED vars /\ ~Crash
  BY <1>3, <1>a, StillKept DEF vars
<1> QED
  BY <1>1, <1>2, <1>3, <1>a, InboxCursor, TurnCursor, CrashCursor DEF Kind

\* Telegram's cursor file is never ahead of the log file: as long as appends succeed,
\* every message before the cursor has its record there, however the steps of the
\* adapter, the turns and crashes interleave (processUpdate, ingestInbound).
THEOREM CursorIsBehind == Spec => []CursorBehindLog
<1>1. Init => Types /\ TurnHasJob /\ CursorKept
  <2>1. Init => CursorKept
    BY DEF Init, CursorKept, CallerDone, IdleTurn, Awaits, InOrder, Filed, Behind, Msgs
  <2> QED
    BY <2>1, TypesInit
<1>2. Types /\ TurnHasJob /\ CursorKept /\ [Next]_vars => (Types /\ TurnHasJob /\ CursorKept)'
  BY Kinds, TypesStep, CursorStep
<1>3. Types /\ CursorKept => CursorBehindLog
  <2> SUFFICES ASSUME Types, CursorKept, adapter = "serial", ~log.faulty,
                      NEW m \in (1 .. cursor) \ Controls
               PROVE  \E r \in OfType("inbound") : r.msg = m /\ r.id \in disk
    BY DEF CursorBehindLog
  <2>1. m \in Msgs /\ m <= cursor
    BY GatewayAssumption DEF Types, RestTypes, Msgs
  <2> QED
    BY <2>1 DEF CursorKept, Behind, Durable, OfType
<1> QED
  BY <1>1, <1>2, <1>3, PTL DEF Spec

-----------------------------------------------------------------------------
(* Nothing is skipped *)

Covered(r) == r.msg \in log.answered \/ r.id \in log.passed

\* What is behind the trigger of a completed job was answered or passed over ...
Settled == \A c, r \in records :
    c.type = "completed" /\ r.type = "inbound" /\ r.id <= c.trig => Covered(r)
\* ... since what is behind the trigger of the running turn, and was not before, is in
\* its prompt.
Prompted == turn.pc \in {"setup", "prompt", "deliver", "outbound"} /\ active.msg # 0 =>
    \A r \in records : r.type = "inbound" /\ r.id <= active.trig => r.msg \in turn.prompt \/ Covered(r)

LEMMA CoveredStays == ASSUME Grown, NEW r, Covered(r) PROVE Covered(r)'
BY DEF Grown, Covered

\* A turn that goes on: later records come after its trigger.
LEMMA PromptStays ==
    ASSUME Types, TurnHasJob, Prompted, Grown, active' = active, turn'.prompt = turn.prompt,
           turn'.pc = turn.pc \/ turn.pc \in {"setup", "prompt", "deliver"}
    PROVE  Prompted'
<1> SUFFICES ASSUME turn'.pc \in {"setup", "prompt", "deliver", "outbound"}, active.msg # 0,
                    NEW r \in records', r.type = "inbound", r.id <= active.trig
             PROVE  r.msg \in turn.prompt \/ Covered(r)'
  BY DEF Prompted
<1>1. turn.pc \in {"setup", "prompt", "deliver", "outbound"}
  OBVIOUS
<1>2. active \in Early
  BY <1>1 DEF TurnHasJob, Types, WorkTypes
<1>3. active.trig \in Nat /\ active.trig < next /\ next \in Nat
  BY <1>2, JobFacts DEF Types, LogTypes
<1>4. r \in records
  BY <1>3 DEF Grown
<1> QED
  BY <1>1, <1>4, CoveredStays DEF Prompted

\* A new turn: buildPrompt takes all that is after the last completed job.
LEMMA PromptBuilt ==
    ASSUME Types, Settled, Grown, UNCHANGED records, NEW m, NEW a, Dispatched(m, a)
    PROVE  Prompted'
<1> SUFFICES ASSUME turn'.pc \in {"setup", "prompt", "deliver", "outbound"}, active'.msg # 0,
                    NEW r \in records, r.type = "inbound", r.id <= active'.trig
             PROVE  r.msg \in turn'.prompt \/ Covered(r)'
  BY DEF Prompted
<1>1. turn'.prompt = BuildPrompt(active')
  BY DEF Dispatched
<1>2. r.id \in Nat /\ 1 <= r.id
  BY DEF Types, LogTypes, Entry, Record
<1>3. Boundary \in Nat /\ (Boundary # 0 => \E c \in records : c.type = "completed" /\ c.trig = Boundary)
  BY BoundaryFacts
<1>4. CASE r.id > Boundary
  BY <1>1, <1>4 DEF BuildPrompt, OfType
<1>5. CASE r.id <= Boundary
  <2>1. Boundary # 0
    BY <1>2, <1>3, <1>5
  <2>2. Covered(r)
    BY <1>3, <1>5, <2>1 DEF Settled
  <2> QED
    BY <2>2, CoveredStays
<1> QED
  BY <1>2, <1>3, <1>4, <1>5

LEMMA SettledStays ==
    ASSUME Types, Settled, Grown, ~TurnCompletes PROVE Settled'
<1> SUFFICES ASSUME NEW c \in records', NEW r \in records',
                    c.type = "completed", r.type = "inbound", r.id <= c.trig
             PROVE  Covered(r)'
  BY DEF Settled
<1>1. c \in records
  BY DEF Grown
<1>2. c.trig \in Nat /\ c.id \in Nat /\ next \in Nat /\ c.trig < c.id /\ c.id < next
  BY <1>1 DEF Types, LogTypes, Entry, Record
<1>3. r \in records
  BY <1>2 DEF Grown
<1> QED
  BY <1>1, <1>3, CoveredStays DEF Settled

\* A job completes: its prompt is answered, or, if it was a nudge, what is behind its
\* trigger is passed over.
LEMMA CompletesSettled ==
    ASSUME Types, TurnHasJob, Settled, Prompted, Grown, TurnCompletes PROVE Settled' /\ Prompted'
<1> DEFINE ids == {id \in {q.id : q \in records} : id <= active.trig}
<1>1. /\ turn' = [turn EXCEPT !.pc = "completed", !.rec = next]
      /\ turn.pc \in {"deliver", "outbound"}
      /\ log' = [log EXCEPT !.answered = @ \cup turn.prompt,
                            !.passed = IF active.msg # 0 THEN @ ELSE @ \cup ids]
  BY DEF TurnCompletes, Completing, Writing
<1>2. turn'.pc = "completed"
  BY <1>1 DEF Types, WorkTypes, TurnType
<1>3. /\ log'.answered = log.answered \cup turn.prompt
      /\ active.msg = 0 => log'.passed = log.passed \cup ids
  <2> HIDE DEF ids
  <2> QED
    BY <1>1 DEF Types, RestTypes, LogType
<1>4. active \in Early
  BY <1>1 DEF TurnHasJob, Types, WorkTypes
<1>5. active.trig \in Nat /\ active.trig < next /\ next \in Nat
  BY <1>4, JobFacts DEF Types, LogTypes
<1>6. ASSUME NEW c \in records', NEW r \in records',
             c.type = "completed", r.type = "inbound", r.id <= c.trig
      PROVE  Covered(r)'
  <2>1. c.trig \in Nat /\ c.trig < next
    <3>1. CASE c \in records
      <4>1. c.trig \in Nat /\ c.id \in Nat /\ next \in Nat /\ c.trig < c.id /\ c.id < next
        BY <1>6, <3>1 DEF Types, LogTypes, Entry, Record
      <4> QED
        BY <4>1
    <3>2. CASE c \notin records
      BY <1>5, <1>6, <3>2 DEF Grown
    <3> QED
      BY <3>1, <3>2
  <2>2. r \in records
    BY <1>5, <1>6, <2>1 DEF Grown
  <2>3. CASE c \in records
    BY <1>6, <2>2, <2>3, CoveredStays DEF Settled
  <2>4. CASE c \notin records
    <3>1. r.id <= active.trig
      BY <1>6, <2>4 DEF Grown
    <3>2. CASE active.msg # 0
      <4>1. r.msg \in turn.prompt \/ Covered(r)
        BY <1>1, <1>6, <2>2, <3>1, <3>2 DEF Prompted
      <4> QED
        BY <1>3, <4>1, CoveredStays DEF Covered
    <3>3. CASE active.msg = 0
      <4>1. r.id \in ids
        BY <2>2, <3>1
      <4> HIDE DEF ids
      <4> QED
        BY <1>3, <3>3, <4>1 DEF Covered
    <3> QED
      BY <3>2, <3>3
  <2> QED
    BY <2>3, <2>4
<1> QED
  BY <1>2, <1>6 DEF Settled, Prompted

LEMMA NothingSkippedStep ==
    ASSUME Types, TurnHasJob, Settled, Prompted, Kind PROVE Settled' /\ Prompted'
<1>a. ~Crash => Grown
  BY StepGrows
<1>b. /\ turn \in TurnType /\ turn.caller \in 0 .. MaxMsg /\ active \in Early \cup {NoJob}
      /\ pending \in Seq(Early) /\ 0 \in 0 .. MaxMsg
  BY GatewayAssumption DEF Types, WorkTypes, TurnType
<1>c. ~Crash /\ ~TurnCompletes => Settled'
  BY <1>a, SettledStays
<1>d. ASSUME ~Crash, UNCHANGED records, NEW m \in 0 .. MaxMsg, NEW q \in Seq(Early), TryDispatch(m, q)
      PROVE  Prompted'
  <2>1. TriedDispatch(m)
    BY <1>d, TryDispatchTypes
  <2>2. CASE turn.pc = "idle"
    BY <1>a, <1>d, <2>1, <2>2, PromptBuilt DEF TriedDispatch
  <2>3. CASE turn.pc # "idle"
    BY <1>a, <1>d, <2>1, <2>3, PromptStays DEF TriedDispatch
  <2> QED
    BY <2>2, <2>3
<1>1. ASSUME ~Crash, ~TurnCompletes, NEW m \in Msgs, InboxKind(m) PROVE Prompted'
  <2>a. m \in 0 .. MaxMsg
    BY GatewayAssumption DEF Msgs
  <2>1. CASE Deliver(m)
    <3>1. turn'.prompt = turn.prompt /\ turn'.pc = turn.pc /\ active' = active
      BY <1>b, <2>1 DEF Deliver, runtime, TurnType
    <3> QED
      BY <1>1, <1>a, <3>1, PromptStays
  <2>2. CASE Ingests(m) \/ Notes(m) \/ EndsControl(m) \/ Queues(m) \/ IngestFails(m)
    <3>1. turn' = turn /\ active' = active
      BY <2>2 DEF Ingests, Notes, EndsControl, Queues, IngestFails
    <3> QED
      BY <1>1, <1>a, <3>1, PromptStays
  <2>3. CASE Finishes(m, pending)
    BY <1>1, <1>b, <1>d, <2>3, <2>a DEF Finishes
  <2>4. CASE inbox[m].pc = "queued" /\ Finishes(m, Append(pending, [trig |-> InboundId(m), msg |-> m]))
    <3> DEFINE j == [trig |-> InboundId(m), msg |-> m]
    <3>1. Noted(m)
      BY <2>4 DEF Types, InboxTypes, Ingested
    <3>2. InboundId(m) \in Nat /\ InboundId(m) < next
      BY <3>1, InboundIdFacts
    <3>3. j \in Early
      BY <2>a, <3>2 DEF Early, Job
    <3>4. Append(pending, j) \in Seq(Early)
      BY <1>b, <3>3
    <3> QED
      BY <1>1, <1>d, <2>4, <2>a, <3>4 DEF Finishes
  <2> QED
    BY <1>1, <2>1, <2>2, <2>3, <2>4 DEF InboxKind
<1>2. ASSUME OnCaughtUp, ~Crash PROVE Prompted'
  BY <1>2, <1>b, <1>d DEF OnCaughtUp
<1>3. ASSUME Nudge, ~Crash PROVE Prompted'
  <2> DEFINE j == [trig |-> LastId, msg |-> 0]
  <2>1. LastId \in Nat /\ LastId < next
    <3>1. records \in SUBSET records
      OBVIOUS
    <3> QED
      BY <3>1, LargestId DEF LastId
  <2>2. j \in Early
    BY <1>b, <2>1 DEF Early, Job
  <2>3. <<j>> \in Seq(Early)
    <3> HIDE DEF j
    <3> QED
      BY <2>2
  <2> QED
    BY <1>3, <1>b, <1>d, <2>3 DEF Nudge
<1>4. ASSUME TurnKind, ~Crash, ~TurnCompletes PROVE Prompted'
  <2>1. CASE TurnGoes
    <3>1. turn'.prompt = turn.prompt /\ turn.pc \in {"setup", "prompt"} /\ active' = active
      BY <1>b, <2>1 DEF TurnGoes, Going, TurnType
    <3> QED
      BY <1>4, <1>a, <3>1, PromptStays
  <2>2. ASSUME NEW type, NEW pc \in {"failed", "aborted"}, TurnWrites(type, pc) PROVE Prompted'
    <3>1. turn'.pc = pc
      BY <1>b, <2>2 DEF TurnWrites, TurnType
    <3> QED
      BY <2>2, <3>1 DEF Prompted
  <2>3. CASE TurnWrites("outbound", "outbound")
    <3>1. turn'.prompt = turn.prompt /\ turn.pc = "deliver" /\ active' = active
      BY <1>b, <2>3 DEF TurnWrites, TurnType
    <3> QED
      BY <1>4, <1>a, <3>1, PromptStays
  <2>4. CASE FailedLanded
    <3>1. turn'.pc = "error"
      BY <1>b, <2>4 DEF FailedLanded, TurnType
    <3> QED
      BY <3>1 DEF Prompted
  <2>5. ASSUME NEW a \in Early \cup {NoJob}, TurnEnds(a) PROVE Prompted'
    <3>1. Dispatched(turn.caller, a) /\ UNCHANGED records
      BY <1>b, <2>5, DispatchTypes DEF TurnEnds, Finally
    <3> QED
      BY <1>4, <1>a, <3>1, PromptBuilt
  <2> QED
    BY <1>4, <1>b, <2>1, <2>2, <2>3, <2>4, <2>5 DEF TurnKind
<1>5. ASSUME UNCHANGED vars, ~Crash PROVE Prompted'
  BY <1>5, <1>a, PromptStays DEF vars
<1>6. CASE Crash
  <2>1. /\ records' = {r \in records : r.id \in disk} /\ turn' = IdleTurn
        /\ log' = [log EXCEPT !.passed = @ \cap disk]
    BY <1>6 DEF Crash, ReadLog
  <2>2. log'.answered = log.answered /\ log'.passed = log.passed \cap disk
    BY <2>1 DEF Types, RestTypes, LogType
  <2>3. Settled'
    BY <2>1, <2>2 DEF Settled, Covered
  <2> QED
    BY <2>1, <2>3 DEF Prompted, IdleTurn
<1>7. CASE TurnCompletes /\ ~Crash
  BY <1>7, <1>a, CompletesSettled
<1> QED
  BY <1>1, <1>2, <1>3, <1>4, <1>5, <1>6, <1>7, <1>c DEF Kind

\* What the last completed job puts behind the boundary of buildPrompt has been in the
\* prompt of a completed job, or a nudge passed over it: no failed or aborted turn, no
\* crash and no order of the queue makes a message disappear unanswered.
THEOREM MessagesAreNotSkipped == Spec => []NothingSkipped
<1>1. Init => Types /\ TurnHasJob /\ Settled /\ Prompted
  <2>1. Init => Settled /\ Prompted
    BY DEF Init, Settled, Prompted, IdleTurn
  <2> QED
    BY <2>1, TypesInit
<1>2. /\ Types /\ TurnHasJob /\ Settled /\ Prompted /\ [Next]_vars
      => (Types /\ TurnHasJob /\ Settled /\ Prompted)'
  BY Kinds, TypesStep, NothingSkippedStep
<1>3. Types /\ Settled => NothingSkipped
  <2> SUFFICES ASSUME Types, Settled, NEW r \in OfType("inbound"), r.id <= Boundary PROVE Covered(r)
    BY DEF NothingSkipped, Covered
  <2>1. r \in records /\ r.type = "inbound"
    BY DEF OfType
  <2>2. r.id \in Nat /\ 1 <= r.id
    BY <2>1 DEF Types, LogTypes, Entry, Record
  <2>3. Boundary \in Nat /\ (Boundary # 0 => \E c \in records : c.type = "completed" /\ c.trig = Boundary)
    BY BoundaryFacts
  <2>4. Boundary # 0
    BY <2>2, <2>3
  <2> QED
    BY <2>1, <2>3, <2>4 DEF Settled
<1> QED
  BY <1>1, <1>2, <1>3, PTL DEF Spec
=============================================================================
