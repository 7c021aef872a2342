-------------------------- MODULE AgentLoopProofs --------------------------
(***************************************************************************)
(* Proofs about AgentLoop, for any budgets, any number of tool calls per   *)
(* response and any queue modes.                                           *)
(*                                                                         *)
(* The actions are first reduced to the kinds of steps that the invariants *)
(* tell apart: what a step says into the transcript, what it does to the   *)
(* loop's own context and pending messages, to the batch of tool calls and *)
(* to the queues.  Every invariant is then shown for the kinds.            *)
(***************************************************************************)
EXTENDS AgentLoop, TLAPS

-----------------------------------------------------------------------------
(* Types *)

AgentType == [messages : Seq(Message), isStreaming : BOOLEAN, streamingMessage : BOOLEAN,
              pendingToolCalls : SUBSET (Nat \X Nat)]
QueueType == [steering : Seq(Message), followUp : Seq(Message)]
RunType == [id : Nat, active : BOOLEAN, aborted : BOOLEAN]
LoopType == [pc : LoopPc, context : Seq(Message), pending : Seq(Message),
             skipPoll : BOOLEAN, firstTurn : BOOLEAN, hasMore : BOOLEAN, stopped : BOOLEAN,
             turn : Nat, calls : Nat, sequential : BOOLEAN, started : Nat,
             prepared : SUBSET Nat, done : SUBSET Nat, results : Nat, terminate : BOOLEAN]
LogType == [cleared : SUBSET Nat, lost : SUBSET Nat, faults : SUBSET Nat, forgot : BOOLEAN]
Execution == [run : Nat, turn : Nat, i : Nat]

Types ==
    /\ agent \in AgentType /\ queue \in QueueType /\ run \in RunType /\ loop \in LoopType
    /\ tools \in SUBSET Execution /\ made \in Nat /\ log \in LogType

-----------------------------------------------------------------------------
(* The kinds of steps *)

\* What a step does to the transcript and to the tool calls shown as pending.
Silent == agent'.messages = agent.messages /\ agent'.pendingToolCalls = agent.pendingToolCalls
Says(m) == /\ agent'.messages = Append(agent.messages, m)
           /\ agent'.pendingToolCalls = agent.pendingToolCalls

\* What it leaves alone of the loop.
SameTalk == loop'.context = loop.context /\ loop'.pending = loop.pending
SameTools == /\ loop'.started = loop.started /\ loop'.prepared = loop.prepared
             /\ loop'.done = loop.done /\ loop'.results = loop.results
SameBatch == /\ loop'.turn = loop.turn /\ loop'.calls = loop.calls
             /\ loop'.sequential = loop.sequential /\ loop'.stopped = loop.stopped
SameLoop == SameTalk /\ SameTools /\ SameBatch
FreshLoop == /\ loop'.turn = loop.turn /\ loop'.calls = 0 /\ loop'.sequential = FALSE
             /\ loop'.stopped = FALSE /\ loop'.started = 0 /\ loop'.prepared = {}
             /\ loop'.done = {} /\ loop'.results = 0
Elsewhere == UNCHANGED <<queue, run, made>>

\* A callback throws.
Threw ==
    /\ loop'.pc \in {"failed", "finish"} /\ loop'.pending = <<>> /\ loop'.context = loop.context
    /\ SameTools /\ SameBatch
    /\ log'.cleared = log.cleared /\ log'.forgot = log.forgot
    /\ log'.lost = log.lost \cup (Numbers(loop.pending) \ Numbers(agent'.messages))
    /\ log'.faults = log.faults \cup {run.id}
ThrewQuietly ==
    /\ loop.pc \notin {"idle", "finish"}
    /\ agent'.messages = agent.messages /\ tools' \subseteq tools
    /\ Threw /\ Elsewhere
Sayable(m) ==
    \/ loop.pc \in {"prompts", "inject"} /\ loop.pending # <<>> /\ m = Head(loop.pending)
    \/ loop.pc = "stream" /\ \E n \in 0 .. MaxCalls : m = Assistant(loop.turn, n)
    \/ loop.pc = "results" /\ m = Result(loop.turn, loop.results + 1)
    \/ loop.pc = "failed" /\ m = FailureMessage
ThrewSaying ==
    /\ \E m \in Message : Sayable(m) /\ Says(m)
    /\ tools' = tools /\ Threw /\ Elsewhere

\* The loop goes on and only its place changes.
Place(from, to) == loop.pc = from /\ loop'.pc = to
Moves ==
    /\ Silent /\ SameLoop /\ Elsewhere /\ UNCHANGED <<tools, log>>
    /\ \/ Place("start", "prompts")
       \/ Place("prompts", "pollSteering") /\ loop.pending = <<>>
       \/ Place("top", "pollFollowUp") /\ loop.pending = <<>>
       \/ Place("top", "inject")
       \/ Place("inject", "request") /\ loop.pending = <<>>
       \/ Place("next", "call")
       \/ Place("await", "results") /\ loop.done = 1 .. loop.started
       \/ Place("results", "call")
       \/ Place("turnEnd", "agentEnd")
       \/ Place("turnEnd", "pollSteering") /\ ~loop.stopped
       \/ Place("pollFollowUp", "agentEnd")
       \/ Place("agentEnd", "finish")
       \/ Place("failedEnd", "finish")

\* Prompts, injected messages, polls.
Takes ==
    /\ loop.pending # <<>> /\ Says(Head(loop.pending)) /\ loop'.pending = Tail(loop.pending)
    /\ SameTools /\ SameBatch /\ Elsewhere /\ UNCHANGED <<tools, log>>
    /\ \/ Place("prompts", "prompts") /\ loop'.context = loop.context
       \/ Place("inject", "inject") /\ loop'.context = Append(loop.context, Head(loop.pending))
Polls(mode) ==
    /\ Silent /\ loop'.context = loop.context /\ SameTools /\ SameBatch
    /\ UNCHANGED <<run, made, tools, log>>
    /\ \/ Place("pollSteering", "top") /\ loop'.pending = <<>> /\ queue' = queue
       \/ /\ Place("pollSteering", "top")
          /\ loop'.pending = Drained(queue.steering, mode)
          /\ queue'.steering = Kept(queue.steering, mode) /\ queue'.followUp = queue.followUp
       \/ /\ Place("pollFollowUp", "top")
          /\ loop'.pending = Drained(queue.followUp, mode)
          /\ queue'.followUp = Kept(queue.followUp, mode) /\ queue'.steering = queue.steering

\* Responses.
Requests ==
    /\ Place("request", "stream") /\ Silent /\ SameTools
    /\ loop'.turn = loop.turn + 1 /\ loop'.pending = loop.pending
    /\ loop'.context = Append(loop.context, Assistant(loop.turn + 1, 0))
    /\ Elsewhere /\ UNCHANGED <<tools, log>>
Answers(n) ==
    /\ loop.pc = "stream" /\ Says(Assistant(loop.turn, n))
    /\ loop'.context = Append(Front(loop.context), Assistant(loop.turn, n))
    /\ loop'.pending = loop.pending /\ loop'.turn = loop.turn /\ loop'.calls = n
    /\ loop'.started = 0 /\ loop'.prepared = {} /\ loop'.done = {} /\ loop'.results = 0
    /\ \/ loop'.pc = "call" /\ n >= 1
       \/ loop'.pc = "turnEnd" /\ (~loop'.stopped => n = 0)
    /\ Elsewhere /\ UNCHANGED <<tools, log>>

\* Tool calls.
StartsCall ==
    /\ Place("call", "prepare") /\ agent'.messages = agent.messages
    /\ agent'.pendingToolCalls = agent.pendingToolCalls \cup {<<loop.turn, loop.started + 1>>}
    /\ SameTalk /\ SameBatch /\ loop'.started = loop.started + 1
    /\ loop'.prepared = loop.prepared /\ loop'.done = loop.done /\ loop'.results = loop.results
    /\ Elsewhere /\ UNCHANGED <<tools, log>>
EndsAtOnce ==
    /\ Place("prepare", "next") /\ agent'.messages = agent.messages
    /\ agent'.pendingToolCalls = agent.pendingToolCalls \ {<<loop.turn, loop.started>>}
    /\ SameTalk /\ SameBatch /\ loop'.done = loop.done \cup {loop.started}
    /\ loop'.prepared = loop.prepared /\ loop'.started = loop.started /\ loop'.results = loop.results
    /\ Elsewhere /\ UNCHANGED <<tools, log>>
Prepares ==
    /\ Place("prepare", "next") /\ Silent
    /\ SameTalk /\ SameBatch /\ loop'.prepared = loop.prepared \cup {loop.started}
    /\ loop'.done = loop.done /\ loop'.started = loop.started /\ loop'.results = loop.results
    /\ Elsewhere /\ UNCHANGED <<tools, log>>
Executes ==
    /\ Place("next", "await") /\ Silent /\ SameLoop
    /\ loop.sequential \/ loop.started = loop.calls \/ run.aborted
    /\ tools' = tools \cup {InFlight(i) : i \in loop.prepared \ loop.done}
    /\ Elsewhere /\ UNCHANGED log
ToolEnds(c) ==
    /\ Awaited(c) /\ loop'.pc = "await" /\ agent'.messages = agent.messages
    /\ agent'.pendingToolCalls = agent.pendingToolCalls \ {<<c.turn, c.i>>}
    /\ SameTalk /\ SameBatch /\ loop'.done = loop.done \cup {c.i}
    /\ loop'.prepared = loop.prepared /\ loop'.started = loop.started /\ loop'.results = loop.results
    /\ tools' = tools \ {c}
    /\ Elsewhere /\ UNCHANGED log
ToolStrays(c) ==
    /\ ~Awaited(c) /\ agent'.messages = agent.messages
    /\ agent'.pendingToolCalls \in {agent.pendingToolCalls, agent.pendingToolCalls \ {<<c.turn, c.i>>}}
    /\ tools' = tools \ {c}
    /\ Elsewhere /\ UNCHANGED <<loop, log>>
SaysResult ==
    /\ Place("results", "results") /\ Says(Result(loop.turn, loop.results + 1))
    /\ SameTalk /\ SameBatch /\ loop'.results = loop.results + 1
    /\ loop'.prepared = loop.prepared /\ loop'.started = loop.started /\ loop'.done = loop.done
    /\ Elsewhere /\ UNCHANGED <<tools, log>>
BatchEnds ==
    /\ Place("results", "turnEnd") /\ Silent
    /\ loop.results = loop.started
    /\ loop.sequential => loop.started = loop.calls \/ run.aborted
    /\ loop'.pending = loop.pending /\ SameTools /\ SameBatch
    /\ loop'.context = loop.context \o [k \in 1 .. loop.started |-> Result(loop.turn, k)]
    /\ Elsewhere /\ UNCHANGED <<tools, log>>

\* The end of a run, and the beginning.
Fails ==
    /\ Place("failed", "failedEnd") /\ Says(FailureMessage) /\ SameLoop
    /\ Elsewhere /\ UNCHANGED <<tools, log>>
Finishes ==
    /\ Place("finish", "idle") /\ agent'.messages = agent.messages
    /\ agent'.pendingToolCalls = {}
    /\ loop'.context = <<>> /\ loop'.pending = <<>> /\ FreshLoop
    /\ run'.id = run.id /\ run'.active = FALSE
    /\ UNCHANGED <<queue, made, tools, log>>
Begins(prompts, mode) ==
    /\ ~run.active /\ Silent
    /\ run'.id = run.id + 1 /\ run'.active = TRUE /\ run'.aborted = FALSE
    /\ loop'.pc = "start" /\ loop'.context = agent.messages \o prompts /\ loop'.pending = prompts
    /\ FreshLoop
    /\ log'.cleared = log.cleared /\ log'.lost = log.lost /\ log'.faults = log.faults
    /\ log'.forgot = FALSE
    /\ UNCHANGED tools
    /\ \/ made' = made + 1 /\ prompts = <<User(made + 1, Prompted)>> /\ queue' = queue
       \/ made' = made /\ prompts = <<>> /\ queue' = queue
       \/ /\ made' = made /\ prompts = Drained(queue.steering, mode)
          /\ queue'.steering = Kept(queue.steering, mode) /\ queue'.followUp = queue.followUp
       \/ /\ made' = made /\ prompts = Drained(queue.followUp, mode)
          /\ queue'.followUp = Kept(queue.followUp, mode) /\ queue'.steering = queue.steering

\* The user's other calls.
Queues ==
    /\ UNCHANGED <<agent, run, loop, tools, log>> /\ made' = made + 1
    /\ \/ /\ queue'.steering = Append(queue.steering, User(made + 1, Steered))
          /\ queue'.followUp = queue.followUp
       \/ /\ queue'.followUp = Append(queue.followUp, User(made + 1, FollowedUp))
          /\ queue'.steering = queue.steering
Clears ==
    /\ UNCHANGED <<agent, run, loop, tools, made>>
    /\ log'.lost = log.lost /\ log'.faults = log.faults /\ log'.forgot = log.forgot
    /\ log.cleared \subseteq log'.cleared
    /\ log'.cleared \subseteq log.cleared \cup Numbers(queue.steering) \cup Numbers(queue.followUp)
    /\ \/ queue'.steering = queue.steering
       \/ queue'.steering = <<>> /\ Numbers(queue.steering) \subseteq log'.cleared
    /\ \/ queue'.followUp = queue.followUp
       \/ queue'.followUp = <<>> /\ Numbers(queue.followUp) \subseteq log'.cleared
Aborts ==
    /\ UNCHANGED <<agent, queue, loop, tools, made, log>>
    /\ run'.id = run.id /\ run'.active = run.active /\ run'.aborted = TRUE
Resets ==
    /\ UNCHANGED <<run, loop, tools, made>>
    /\ agent'.messages = <<>> /\ agent'.pendingToolCalls = {}
    /\ queue'.steering = <<>> /\ queue'.followUp = <<>>
    /\ log'.lost = log.lost /\ log'.faults = log.faults
    /\ log'.cleared = log.cleared \cup Numbers(agent.messages \o queue.steering \o queue.followUp)
    /\ (log.forgot \/ run.active) => log'.forgot

LoopKind ==
    \/ ThrewQuietly \/ ThrewSaying \/ Moves \/ Takes
    \/ \E mode \in QueueModes : Polls(mode)
    \/ Requests \/ \E n \in 0 .. MaxCalls : Answers(n)
    \/ StartsCall \/ EndsAtOnce \/ Prepares \/ Executes
    \/ \E c \in tools : ToolEnds(c) \/ ToolStrays(c)
    \/ SaysResult \/ BatchEnds \/ Fails \/ Finishes
UserKind ==
    \/ \E mode \in QueueModes, prompts \in Seq(Message) : Begins(prompts, mode)
    \/ Queues \/ Clears \/ Aborts \/ Resets
Kind == LoopKind \/ UserKind \/ UNCHANGED vars

-----------------------------------------------------------------------------
(* Every step is of one of the kinds *)

LEMMA MessageTypes ==
    /\ \A n, i \in Nat : /\ User(n, i) \in Message /\ Assistant(n, i) \in Message
                         /\ Result(n, i) \in Message
    /\ FailureMessage \in Message
BY DEF Message, User, Assistant, Result, FailureMessage

LEMMA QueueParts ==
    ASSUME NEW q \in Seq(Message), NEW mode
    PROVE  Drained(q, mode) \in Seq(Message) /\ Kept(q, mode) \in Seq(Message)
BY DEF Drained, Kept

LEMMA NumbersType == ASSUME NEW s \in Seq(Message) PROVE Numbers(s) \subseteq Nat
<1>1. ASSUME NEW k \in DOMAIN s PROVE s[k].n \in Nat
  <2>1. s[k] \in Message
    OBVIOUS
  <2> QED
    BY <2>1 DEF Message
<1> QED
  BY <1>1 DEF Numbers

\* What a callback that throws leaves behind, whatever the step did before.
LEMMA ThrowsEffect ==
    ASSUME Types, NEW b, NEW a, ThrowsWith(b, a), a.messages = agent'.messages, agent' \in AgentType
    PROVE  Threw /\ loop' \in LoopType /\ log' \in LogType
<1>1. loop \in LoopType /\ log \in LogType /\ run.id \in Nat /\ loop.pending \in Seq(Message)
  BY DEF Types, RunType, LoopType
<1>2. PICK pc \in {"failed", "finish"} : loop' = [loop EXCEPT !.pc = pc, !.pending = <<>>]
  BY DEF ThrowsWith
<1>3. /\ loop' \in LoopType /\ loop'.pc \in {"failed", "finish"} /\ loop'.pending = <<>>
      /\ loop'.context = loop.context /\ SameTools /\ SameBatch
  <2> DEFINE none == <<>>
  <2>1. none \in Seq(Message) /\ pc \in LoopPc
    BY DEF LoopPc
  <2>2. loop' = [loop EXCEPT !.pc = pc, !.pending = none]
    BY <1>2
  <2> HIDE DEF none
  <2>3. /\ loop' \in LoopType /\ loop'.pc = pc /\ loop'.pending = none
        /\ loop'.context = loop.context /\ SameTools /\ SameBatch
    BY <1>1, <2>1, <2>2 DEF LoopType, SameTools, SameBatch
  <2> QED
    BY <2>3 DEF none
<1>4. Numbers(loop.pending) \subseteq Nat
  BY <1>1, NumbersType
<1> DEFINE gone == Numbers(loop.pending) \ Numbers(agent'.messages)
<1>5. log' = [log EXCEPT !.lost = @ \cup gone, !.faults = @ \cup {run.id}] /\ gone \subseteq Nat
  BY <1>4 DEF ThrowsWith
<1> HIDE DEF gone
<1>6. /\ log' \in LogType /\ log'.cleared = log.cleared /\ log'.forgot = log.forgot
      /\ log'.lost = log.lost \cup gone /\ log'.faults = log.faults \cup {run.id}
  BY <1>1, <1>5 DEF LogType
<1> QED
  BY <1>3, <1>6 DEF Threw, gone

LEMMA ThrowsQuietly ==
    ASSUME Types, NEW b, NEW a, ThrowsWith(b, a), a.messages = agent.messages,
           agent' \in AgentType, agent'.messages = agent.messages,
           loop.pc \notin {"idle", "finish"}, tools' \subseteq tools, UNCHANGED <<queue, run, made>>
    PROVE  Types' /\ LoopKind
<1>1. Threw /\ loop' \in LoopType /\ log' \in LogType
  BY ThrowsEffect
<1> QED
  BY <1>1 DEF Types, ThrewQuietly, LoopKind, Elsewhere

\* The agent's state after an event.
LEMMA Events ==
    ASSUME agent \in AgentType
    PROVE  /\ MessageStart(agent) \in AgentType /\ MessageStart(agent).messages = agent.messages
           /\ MessageStart(agent).pendingToolCalls = agent.pendingToolCalls
           /\ \A m \in Message :
                 /\ MessageEnd(agent, m) \in AgentType
                 /\ MessageEnd(agent, m).messages = Append(agent.messages, m)
                 /\ MessageEnd(agent, m).pendingToolCalls = agent.pendingToolCalls
           /\ \A c \in Nat \X Nat :
                 /\ ToolStart(agent, c) \in AgentType /\ ToolStart(agent, c).messages = agent.messages
                 /\ ToolStart(agent, c).pendingToolCalls = agent.pendingToolCalls \cup {c}
                 /\ ToolEnd(agent, c) \in AgentType /\ ToolEnd(agent, c).messages = agent.messages
                 /\ ToolEnd(agent, c).pendingToolCalls = agent.pendingToolCalls \ {c}
           /\ LET a == [agent EXCEPT !.streamingMessage = FALSE]
              IN  a \in AgentType /\ a.messages = agent.messages
                  /\ a.pendingToolCalls = agent.pendingToolCalls
<1>1. ASSUME NEW m \in Message
      PROVE  /\ MessageEnd(agent, m) \in AgentType
             /\ MessageEnd(agent, m).messages = Append(agent.messages, m)
             /\ MessageEnd(agent, m).pendingToolCalls = agent.pendingToolCalls
  <2> DEFINE s == Append(agent.messages, m)
  <2>1. s \in Seq(Message)
    BY DEF AgentType
  <2>2. MessageEnd(agent, m) = [agent EXCEPT !.streamingMessage = FALSE, !.messages = s]
    BY DEF MessageEnd
  <2> HIDE DEF s
  <2>3. /\ MessageEnd(agent, m) \in AgentType /\ MessageEnd(agent, m).messages = s
        /\ MessageEnd(agent, m).pendingToolCalls = agent.pendingToolCalls
    BY <2>1, <2>2 DEF AgentType
  <2> QED
    BY <2>3 DEF s
<1>2. ASSUME NEW c \in Nat \X Nat
      PROVE  /\ ToolStart(agent, c) \in AgentType /\ ToolStart(agent, c).messages = agent.messages
             /\ ToolStart(agent, c).pendingToolCalls = agent.pendingToolCalls \cup {c}
             /\ ToolEnd(agent, c) \in AgentType /\ ToolEnd(agent, c).messages = agent.messages
             /\ ToolEnd(agent, c).pendingToolCalls = agent.pendingToolCalls \ {c}
  BY DEF ToolStart, ToolEnd, AgentType
<1>3. /\ MessageStart(agent) \in AgentType /\ MessageStart(agent).messages = agent.messages
      /\ MessageStart(agent).pendingToolCalls = agent.pendingToolCalls
  BY DEF MessageStart, AgentType
<1>4. LET a == [agent EXCEPT !.streamingMessage = FALSE]
      IN  a \in AgentType /\ a.messages = agent.messages /\ a.pendingToolCalls = agent.pendingToolCalls
  BY DEF AgentType
<1> QED
  BY <1>1, <1>2, <1>3, <1>4

\* An event without a message, and one with; the loop goes on or a listener throws.
LEMMA EmitQuietly ==
    ASSUME Types, NEW a, NEW l, Emit(a, l), a \in AgentType, a.messages = agent.messages,
           loop.pc \notin {"idle", "finish"}, UNCHANGED <<queue, run, tools, made>>
    PROVE  \/ agent' = a /\ loop' = l /\ log' = log
           \/ Types' /\ LoopKind
<1>1. agent' = a /\ ((loop' = l /\ log' = log) \/ Throws(a))
  BY DEF Emit
<1>2. CASE Throws(a)
  BY <1>1, <1>2, ThrowsQuietly DEF Throws
<1> QED
  BY <1>1, <1>2

LEMMA EmitSaying ==
    ASSUME Types, NEW m \in Message, NEW l, EmitMessage(m, l), Sayable(m),
           loop.pc \notin {"idle", "finish"}, UNCHANGED <<queue, run, tools, made>>
    PROVE  \/ agent' \in AgentType /\ Says(m) /\ loop' = l /\ log' = log
           \/ Types' /\ LoopKind
<1>0. agent \in AgentType
  BY DEF Types
<1>1. CASE agent' = MessageStart(agent) /\ Throws(agent)
  BY <1>0, <1>1, Events, ThrowsQuietly DEF Throws
<1>2. CASE Emit(MessageEnd(agent, m), l)
  <2>1. /\ agent' = MessageEnd(agent, m) /\ agent' \in AgentType
        /\ (loop' = l /\ log' = log) \/ Throws(agent')
    BY <1>0, <1>2, Events DEF Emit
  <2>2. Says(m)
    BY <1>0, <2>1, Events DEF Says
  <2>3. CASE Throws(agent')
    <3>1. Threw /\ loop' \in LoopType /\ log' \in LogType
      BY <2>1, <2>3, ThrowsEffect DEF Throws
    <3>2. ThrewSaying
      BY <2>2, <3>1 DEF ThrewSaying, Elsewhere
    <3> QED
      BY <2>1, <3>1, <3>2 DEF Types, LoopKind
  <2> QED
    BY <2>1, <2>2, <2>3
<1> QED
  BY <1>1, <1>2 DEF EmitMessage

LEMMA MovesOn ==
    ASSUME Types, agent' \in AgentType, Silent, NEW pc \in LoopPc, NEW more \in BOOLEAN,
           NEW first \in BOOLEAN,
           loop' = [loop EXCEPT !.pc = pc, !.hasMore = more, !.firstTurn = first],
           UNCHANGED <<queue, run, tools, made, log>>
    PROVE  Types' /\ SameLoop /\ loop'.pc = pc /\ Elsewhere
<1>1. loop \in LoopType
  BY DEF Types
<1>2. loop' \in LoopType /\ SameLoop /\ loop'.pc = pc
  BY <1>1 DEF LoopType, SameLoop, SameTalk, SameTools, SameBatch
<1> QED
  BY <1>2 DEF Types, Elsewhere

\* The loop with another place, context and pending messages.
LEMMA TalkUpdate ==
    ASSUME loop \in LoopType, NEW pc \in LoopPc, NEW ctx \in Seq(Message), NEW ps \in Seq(Message),
           NEW skip \in BOOLEAN, NEW more \in BOOLEAN,
           loop' = [loop EXCEPT !.pc = pc, !.context = ctx, !.pending = ps, !.skipPoll = skip,
                                !.hasMore = more]
    PROVE  /\ loop' \in LoopType /\ loop'.pc = pc /\ loop'.context = ctx /\ loop'.pending = ps
           /\ SameTools /\ SameBatch
BY DEF LoopType, SameTools, SameBatch

\* ... and with another batch of tool calls.
LEMMA ToolUpdate ==
    ASSUME loop \in LoopType, NEW pc \in LoopPc, NEW started \in Nat, NEW prepared \in SUBSET Nat,
           NEW done \in SUBSET Nat, NEW results \in Nat, NEW term \in BOOLEAN,
           loop' = [loop EXCEPT !.pc = pc, !.started = started, !.prepared = prepared, !.done = done,
                                !.results = results, !.terminate = term]
    PROVE  /\ loop' \in LoopType /\ loop'.pc = pc /\ loop'.started = started
           /\ loop'.prepared = prepared /\ loop'.done = done /\ loop'.results = results
           /\ SameTalk /\ SameBatch
BY DEF LoopType, SameTalk, SameBatch

LEMMA LoopParts ==
    ASSUME Types
    PROVE  /\ agent \in AgentType /\ agent.messages \in Seq(Message)
           /\ agent.pendingToolCalls \in SUBSET (Nat \X Nat)
           /\ queue \in QueueType /\ queue.steering \in Seq(Message) /\ queue.followUp \in Seq(Message)
           /\ run \in RunType /\ run.id \in Nat
           /\ loop \in LoopType /\ loop.pc \in LoopPc /\ loop.context \in Seq(Message)
           /\ loop.pending \in Seq(Message) /\ loop.turn \in Nat /\ loop.calls \in Nat
           /\ loop.started \in Nat /\ loop.prepared \in SUBSET Nat /\ loop.done \in SUBSET Nat
           /\ loop.results \in Nat
           /\ loop.skipPoll \in BOOLEAN /\ loop.hasMore \in BOOLEAN /\ loop.firstTurn \in BOOLEAN
           /\ loop.terminate \in BOOLEAN
           /\ tools \in SUBSET Execution /\ made \in Nat /\ log \in LogType
BY DEF Types, AgentType, QueueType, RunType, LoopType

LEMMA TalkKinds ==
    ASSUME Types, UNCHANGED made,
           Start \/ EmitPrompt \/ PollSteering \/ TopOfLoop \/ Inject \/ TurnEnd \/ PollFollowUp
             \/ AgentEnd \/ RunFailure \/ RunFailureEnd
    PROVE  Types' /\ LoopKind
<1>a. /\ agent \in AgentType /\ agent.messages \in Seq(Message)
      /\ queue \in QueueType /\ queue.steering \in Seq(Message) /\ queue.followUp \in Seq(Message)
      /\ loop \in LoopType /\ loop.context \in Seq(Message) /\ loop.pending \in Seq(Message)
      /\ loop.skipPoll \in BOOLEAN /\ loop.hasMore \in BOOLEAN /\ loop.firstTurn \in BOOLEAN
  BY LoopParts
<1>b. ASSUME agent' \in AgentType, Silent, NEW pc \in LoopPc, NEW first \in BOOLEAN,
             loop' = [loop EXCEPT !.pc = pc, !.firstTurn = first],
             UNCHANGED <<queue, run, tools, log>>
      PROVE  Types' /\ SameLoop /\ loop'.pc = pc /\ Elsewhere
  <2>1. loop' = [loop EXCEPT !.pc = pc, !.hasMore = loop.hasMore, !.firstTurn = first]
    BY <1>a, <1>b DEF LoopType
  <2> QED
    BY <1>a, <1>b, <2>1, MovesOn
<1>c. ASSUME agent' \in AgentType, Silent, NEW pc \in LoopPc, loop' = [loop EXCEPT !.pc = pc],
             UNCHANGED <<queue, run, tools, log>>
      PROVE  Types' /\ SameLoop /\ loop'.pc = pc /\ Elsewhere
  <2>1. loop' = [loop EXCEPT !.pc = pc, !.firstTurn = loop.firstTurn]
    BY <1>a, <1>c DEF LoopType
  <2> QED
    BY <1>a, <1>b, <1>c, <2>1
<1>d. agent' = agent => agent' \in AgentType /\ Silent
  BY <1>a DEF Silent
<1>1. CASE Start
  <2>1. Emit(agent, [loop EXCEPT !.pc = "prompts"]) /\ loop.pc = "start"
        /\ UNCHANGED <<queue, run, tools, made>>
    BY <1>1 DEF Start, At
  <2>2. CASE agent' = agent /\ loop' = [loop EXCEPT !.pc = "prompts"] /\ log' = log
    <3>1. Types' /\ SameLoop /\ loop'.pc = "prompts" /\ Elsewhere
      BY <1>c, <1>d, <2>1, <2>2 DEF LoopPc
    <3> QED
      BY <1>d, <2>1, <2>2, <3>1 DEF Moves, Place, LoopKind
  <2> QED
    BY <1>a, <2>1, <2>2, EmitQuietly
<1>2. ASSUME NEW next \in Seq(Message), NEW pc \in {"prompts", "inject"}, loop.pc = pc, loop.pending # <<>>,
             EmitMessage(Head(loop.pending), [loop EXCEPT !.pending = Tail(@), !.context = next]),
             next = IF pc = "prompts" THEN loop.context ELSE Append(loop.context, Head(loop.pending)),
             UNCHANGED <<queue, run, tools>>
      PROVE  Types' /\ LoopKind
  <2> DEFINE m == Head(loop.pending)
             rest == Tail(loop.pending)
             l == [loop EXCEPT !.pending = rest, !.context = next]
  <2>1. m \in Message /\ rest \in Seq(Message) /\ Sayable(m) /\ EmitMessage(m, l)
    BY <1>2, <1>a DEF Sayable
  <2>2. CASE agent' \in AgentType /\ Says(m) /\ loop' = l /\ log' = log
    <3> HIDE DEF m, rest
    <3>0. pc \in LoopPc
      BY DEF LoopPc
    <3>1. loop' = [loop EXCEPT !.pc = pc, !.context = next, !.pending = rest,
                               !.skipPoll = loop.skipPoll, !.hasMore = loop.hasMore]
      BY <1>2, <1>a, <2>2 DEF LoopType
    <3>2. /\ loop' \in LoopType /\ loop'.pc = pc /\ loop'.context = next /\ loop'.pending = rest
          /\ SameTools /\ SameBatch
      BY <1>a, <2>1, <3>0, <3>1, TalkUpdate
    <3>3. Takes
      BY <1>2, <2>2, <3>2 DEF Takes, Place, Elsewhere, m, rest
    <3> QED
      BY <1>2, <2>2, <3>2, <3>3 DEF Types, LoopKind
  <2> HIDE DEF m, l
  <2> QED
    BY <1>2, <2>1, <2>2, EmitSaying
<1>3. CASE EmitPrompt
  <2>1. CASE loop.pending # <<>>
    <3>1. [loop EXCEPT !.pending = Tail(@)] = [loop EXCEPT !.pending = Tail(@), !.context = loop.context]
      BY <1>a DEF LoopType
    <3> QED
      BY <1>3, <1>2, <1>a, <2>1, <3>1 DEF EmitPrompt, At
  <2>2. CASE loop.pending = <<>>
    <3>1. /\ loop' = [loop EXCEPT !.pc = "pollSteering"] /\ loop.pc = "prompts"
          /\ UNCHANGED <<agent, log, queue, run, tools>>
      BY <1>3, <2>2 DEF EmitPrompt, At
    <3>2. Types' /\ SameLoop /\ loop'.pc = "pollSteering" /\ Elsewhere
      BY <1>c, <1>d, <3>1 DEF LoopPc
    <3> QED
      BY <1>d, <2>2, <3>1, <3>2 DEF Moves, Place, LoopKind
  <2> QED
    BY <2>1, <2>2
<1>4. CASE Inject
  <2>1. CASE loop.pending # <<>>
    <3>1. Append(loop.context, Head(loop.pending)) \in Seq(Message)
      BY <1>a, <2>1
    <3>2. [loop EXCEPT !.pending = Tail(@), !.context = Append(@, Head(loop.pending))]
          = [loop EXCEPT !.pending = Tail(@), !.context = Append(loop.context, Head(loop.pending))]
      BY <1>a DEF LoopType
    <3> QED
      BY <1>4, <1>2, <1>a, <2>1, <3>1, <3>2 DEF Inject, At
  <2>2. CASE loop.pending = <<>>
    <3>1. /\ loop' = [loop EXCEPT !.pc = "request"] /\ loop.pc = "inject"
          /\ UNCHANGED <<agent, log, queue, run, tools>>
      BY <1>4, <2>2 DEF Inject, At
    <3>2. Types' /\ SameLoop /\ loop'.pc = "request" /\ Elsewhere
      BY <1>c, <1>d, <3>1 DEF LoopPc
    <3> QED
      BY <1>d, <2>2, <3>1, <3>2 DEF Moves, Place, LoopKind
  <2> QED
    BY <2>1, <2>2
<1>5. CASE PollSteering
  <2>1. PICK mode \in QueueModes :
          /\ loop' = [loop EXCEPT !.pc = "top", !.skipPoll = FALSE,
                        !.pending = IF loop.skipPoll THEN <<>> ELSE Drained(queue.steering, mode)]
          /\ queue' = IF loop.skipPoll THEN queue ELSE [queue EXCEPT !.steering = Kept(@, mode)]
          /\ loop.pc = "pollSteering" /\ UNCHANGED <<agent, run, tools, log>>
    BY <1>5 DEF PollSteering, At
  <2> DEFINE ps == IF loop.skipPoll THEN <<>> ELSE Drained(queue.steering, mode)
             kept == Kept(queue.steering, mode)
  <2>2. ps \in Seq(Message) /\ kept \in Seq(Message)
    BY <1>a, QueueParts
  <2>3. /\ loop' = [loop EXCEPT !.pc = "top", !.skipPoll = FALSE, !.pending = ps]
        /\ loop.skipPoll => queue' = queue
        /\ ~loop.skipPoll => queue' = [queue EXCEPT !.steering = kept]
    BY <2>1
  <2>4. /\ queue' \in QueueType
        /\ queue' = queue \/ (queue'.steering = kept /\ queue'.followUp = queue.followUp)
    <3> HIDE DEF kept, ps
    <3> QED
      BY <1>a, <2>2, <2>3 DEF QueueType
  <2>5. /\ loop' \in LoopType /\ loop'.pc = "top" /\ loop'.context = loop.context /\ loop'.pending = ps
        /\ SameTools /\ SameBatch
    <3> HIDE DEF ps
    <3>1. loop' = [loop EXCEPT !.pc = "top", !.context = loop.context, !.pending = ps,
                               !.skipPoll = FALSE, !.hasMore = loop.hasMore]
      BY <1>a, <2>3 DEF LoopType
    <3>2. "top" \in LoopPc
      BY DEF LoopPc
    <3> QED
      BY <1>a, <2>2, <3>1, <3>2, TalkUpdate
  <2>6. Polls(mode)
    <3>1. CASE loop.skipPoll
      BY <1>d, <2>1, <2>3, <2>5, <3>1 DEF Polls, Place
    <3>2. CASE ~loop.skipPoll
      <4>1. queue'.steering = kept /\ queue'.followUp = queue.followUp
        <5> HIDE DEF kept
        <5> QED
          BY <1>a, <2>2, <2>3, <3>2 DEF QueueType
      <4> QED
        BY <1>d, <2>1, <2>5, <3>2, <4>1 DEF Polls, Place
    <3> QED
      BY <3>1, <3>2
  <2> QED
    BY <1>a, <2>1, <2>4, <2>5, <2>6 DEF Types, LoopKind
<1>6. CASE PollFollowUp
  <2>1. PICK mode \in QueueModes :
          /\ \/ /\ queue.followUp # <<>>
                /\ loop' = [loop EXCEPT !.pc = "top", !.hasMore = TRUE,
                                        !.pending = Drained(queue.followUp, mode)]
                /\ queue' = [queue EXCEPT !.followUp = Kept(@, mode)]
             \/ loop' = [loop EXCEPT !.pc = "agentEnd"] /\ queue' = queue
          /\ loop.pc = "pollFollowUp" /\ UNCHANGED <<agent, run, tools, log>>
    BY <1>6 DEF PollFollowUp, At
  <2>2. CASE loop' = [loop EXCEPT !.pc = "agentEnd"] /\ queue' = queue
    <3>1. Types' /\ SameLoop /\ loop'.pc = "agentEnd" /\ Elsewhere
      BY <1>c, <1>d, <2>1, <2>2 DEF LoopPc
    <3> QED
      BY <1>d, <2>1, <2>2, <3>1 DEF Moves, Place, LoopKind
  <2>3. CASE /\ loop' = [loop EXCEPT !.pc = "top", !.hasMore = TRUE,
                                     !.pending = Drained(queue.followUp, mode)]
             /\ queue' = [queue EXCEPT !.followUp = Kept(@, mode)]
    <3> DEFINE ps == Drained(queue.followUp, mode)
               kept == Kept(queue.followUp, mode)
    <3>1. ps \in Seq(Message) /\ kept \in Seq(Message)
      BY <1>a, QueueParts
    <3>2. /\ loop' = [loop EXCEPT !.pc = "top", !.hasMore = TRUE, !.pending = ps]
          /\ queue' = [queue EXCEPT !.followUp = kept]
      BY <2>3
    <3> HIDE DEF kept, ps
    <3>3. /\ queue' \in QueueType /\ queue'.followUp = kept /\ queue'.steering = queue.steering
      BY <1>a, <3>1, <3>2 DEF QueueType
    <3>4. loop' = [loop EXCEPT !.pc = "top", !.context = loop.context, !.pending = ps,
                               !.skipPoll = loop.skipPoll, !.hasMore = TRUE]
      BY <1>a, <3>2 DEF LoopType
    <3>5. "top" \in LoopPc
      BY DEF LoopPc
    <3>6. /\ loop' \in LoopType /\ loop'.pc = "top" /\ loop'.context = loop.context /\ loop'.pending = ps
          /\ SameTools /\ SameBatch
      BY <1>a, <3>1, <3>4, <3>5, TalkUpdate
    <3>7. Polls(mode)
      BY <1>d, <2>1, <3>3, <3>6 DEF Polls, Place, ps, kept
    <3> QED
      BY <1>a, <2>1, <3>3, <3>6, <3>7 DEF Types, LoopKind
  <2> QED
    BY <2>1, <2>2, <2>3
<1>7. CASE TopOfLoop
  <2>1. loop.pc = "top" /\ UNCHANGED <<queue, run, tools, made>>
    BY <1>7 DEF TopOfLoop, At
  <2>2. CASE ~loop.hasMore /\ loop.pending = <<>>
    <3>1. loop' = [loop EXCEPT !.pc = "pollFollowUp"] /\ UNCHANGED <<agent, log>>
      BY <1>7, <2>2 DEF TopOfLoop
    <3>2. Types' /\ SameLoop /\ loop'.pc = "pollFollowUp" /\ Elsewhere
      BY <1>c, <1>d, <2>1, <3>1 DEF LoopPc
    <3> QED
      BY <1>d, <2>1, <2>2, <3>1, <3>2 DEF Moves, Place, LoopKind
  <2>3. CASE (loop.hasMore \/ loop.pending # <<>>) /\ loop.firstTurn
    <3>1. loop' = [loop EXCEPT !.pc = "inject", !.firstTurn = FALSE] /\ UNCHANGED <<agent, log>>
      BY <1>7, <2>3 DEF TopOfLoop
    <3>2. Types' /\ SameLoop /\ loop'.pc = "inject" /\ Elsewhere
      BY <1>b, <1>d, <2>1, <3>1 DEF LoopPc
    <3> QED
      BY <1>d, <2>1, <3>1, <3>2 DEF Moves, Place, LoopKind
  <2>4. CASE (loop.hasMore \/ loop.pending # <<>>) /\ ~loop.firstTurn
    <3>1. Emit(agent, [loop EXCEPT !.pc = "inject"])
      BY <1>7, <2>4 DEF TopOfLoop
    <3>2. CASE agent' = agent /\ loop' = [loop EXCEPT !.pc = "inject"] /\ log' = log
      <4>1. Types' /\ SameLoop /\ loop'.pc = "inject" /\ Elsewhere
        BY <1>c, <1>d, <2>1, <3>2 DEF LoopPc
      <4> QED
        BY <1>d, <2>1, <3>2, <4>1 DEF Moves, Place, LoopKind
    <3> QED
      BY <1>a, <2>1, <3>1, <3>2, EmitQuietly
  <2> QED
    BY <2>2, <2>3, <2>4
<1>8. CASE TurnEnd
  <2> DEFINE pc == IF loop.stopped THEN "agentEnd" ELSE "pollSteering"
  <2>1. /\ Emit(agent, [loop EXCEPT !.pc = pc]) /\ loop.pc = "turnEnd" /\ pc \in LoopPc
        /\ UNCHANGED <<queue, run, tools, made>>
    BY <1>8 DEF TurnEnd, At, LoopPc
  <2>2. pc = "agentEnd" \/ (pc = "pollSteering" /\ ~loop.stopped)
    OBVIOUS
  <2> HIDE DEF pc
  <2>3. CASE agent' = agent /\ loop' = [loop EXCEPT !.pc = pc] /\ log' = log
    <3>1. Types' /\ SameLoop /\ loop'.pc = pc /\ Elsewhere
      BY <1>c, <1>d, <2>1, <2>3
    <3> QED
      BY <1>d, <2>1, <2>2, <2>3, <3>1 DEF Moves, Place, LoopKind
  <2> QED
    BY <1>a, <2>1, <2>3, EmitQuietly
<1>9. ASSUME loop.pc \in {"agentEnd", "failedEnd"}, agent' = [agent EXCEPT !.streamingMessage = FALSE],
             (loop' = [loop EXCEPT !.pc = "finish"] /\ UNCHANGED log) \/ Throws(agent),
             UNCHANGED <<queue, run, tools>>
      PROVE  Types' /\ LoopKind
  <2>1. agent' \in AgentType /\ Silent
    BY <1>9, <1>a, Events DEF Silent
  <2>2. CASE loop' = [loop EXCEPT !.pc = "finish"] /\ UNCHANGED log
    <3>1. Types' /\ SameLoop /\ loop'.pc = "finish" /\ Elsewhere
      BY <1>9, <1>c, <2>1, <2>2 DEF LoopPc
    <3> QED
      BY <1>9, <2>1, <2>2, <3>1 DEF Moves, Place, LoopKind
  <2>3. CASE Throws(agent)
    BY <1>9, <2>1, <2>3, ThrowsQuietly DEF Throws, Silent
  <2> QED
    BY <1>9, <2>2, <2>3
<1>10. CASE AgentEnd
  BY <1>9, <1>10 DEF AgentEnd, At
<1>11. CASE RunFailureEnd
  BY <1>9, <1>11 DEF RunFailureEnd, At
<1>12. CASE RunFailure
  <2>1. /\ EmitMessage(FailureMessage, [loop EXCEPT !.pc = "failedEnd"]) /\ loop.pc = "failed"
        /\ UNCHANGED <<queue, run, tools, made>> /\ FailureMessage \in Message
    BY <1>12, MessageTypes DEF RunFailure, At
  <2>2. Sayable(FailureMessage)
    BY <2>1 DEF Sayable
  <2>3. CASE agent' \in AgentType /\ Says(FailureMessage) /\ loop' = [loop EXCEPT !.pc = "failedEnd"] /\ log' = log
    <3>1. loop' \in LoopType /\ SameLoop /\ loop'.pc = "failedEnd"
      BY <1>a, <2>3 DEF LoopType, LoopPc, SameLoop, SameTalk, SameTools, SameBatch
    <3> QED
      BY <2>1, <2>3, <3>1 DEF Types, Fails, Place, Elsewhere, LoopKind
  <2> QED
    BY <2>1, <2>2, <2>3, EmitSaying
<1> QED
  BY <1>1, <1>3, <1>4, <1>5, <1>6, <1>7, <1>8, <1>10, <1>11, <1>12

LEMMA ResponseKinds ==
    ASSUME Types, UNCHANGED made, Request \/ StreamEnd \/ StreamThrows
    PROVE  Types' /\ LoopKind
<1>a. /\ agent \in AgentType /\ loop \in LoopType /\ loop.context \in Seq(Message)
      /\ loop.pending \in Seq(Message) /\ loop.turn \in Nat /\ log \in LogType
  BY LoopParts
<1>b. agent' = agent => agent' \in AgentType /\ agent'.messages = agent.messages
  BY <1>a
<1>1. CASE Request
  <2> DEFINE ctx == Append(loop.context, Assistant(loop.turn + 1, 0))
             l == [loop EXCEPT !.pc = "stream", !.turn = @ + 1,
                               !.context = Append(@, Assistant(loop.turn + 1, 0))]
  <2>0. loop.pc = "request" /\ UNCHANGED <<queue, run, tools, made>>
    BY <1>1 DEF Request, At
  <2>1. CASE agent' = agent /\ Throws(agent)
    BY <1>b, <2>0, <2>1, ThrowsQuietly DEF Throws
  <2>2. CASE Emit(MessageStart(agent), l)
    <3>1. MessageStart(agent) \in AgentType /\ MessageStart(agent).messages = agent.messages
          /\ MessageStart(agent).pendingToolCalls = agent.pendingToolCalls
      BY <1>a, Events
    <3>2. CASE agent' = MessageStart(agent) /\ loop' = l /\ log' = log
      <4>1. ctx \in Seq(Message)
        BY <1>a, MessageTypes
      <4>3. /\ loop' \in LoopType /\ loop'.pc = "stream" /\ loop'.turn = loop.turn + 1
            /\ loop'.context = ctx /\ loop'.pending = loop.pending /\ SameTools
        <5> DEFINE t == loop.turn + 1
        <5>1. loop' = [loop EXCEPT !.pc = "stream", !.turn = t, !.context = ctx]
          BY <3>2
        <5>2. t \in Nat /\ "stream" \in LoopPc
          BY <1>a DEF LoopPc
        <5> HIDE DEF ctx, t
        <5>3. /\ loop' \in LoopType /\ loop'.pc = "stream" /\ loop'.turn = t
              /\ loop'.context = ctx /\ loop'.pending = loop.pending /\ SameTools
          BY <1>a, <4>1, <5>1, <5>2 DEF LoopType, SameTools
        <5> QED
          BY <5>3 DEF t
      <4>4. Requests
        BY <2>0, <3>1, <3>2, <4>3 DEF Requests, Place, Silent, Elsewhere
      <4> QED
        BY <2>0, <3>1, <3>2, <4>3, <4>4 DEF Types, LoopKind
    <3> HIDE DEF l
    <3> QED
      BY <2>0, <2>2, <3>1, <3>2, EmitQuietly
  <2> QED
    BY <1>1, <2>1, <2>2 DEF Request
<1>2. CASE StreamThrows
  BY <1>2, <1>b, ThrowsQuietly DEF StreamThrows, At, Throws
<1>3. CASE StreamEnd
  <2>0. loop.pc = "stream" /\ UNCHANGED <<queue, run, tools, made>>
    BY <1>3 DEF StreamEnd, At
  <2>a. PICK n \in 0 .. MaxCalls, stopped \in BOOLEAN, seq \in BOOLEAN :
         LET mm == Assistant(loop.turn, n)
             bb == IF n = 0 THEN budget ELSE [budget EXCEPT !.toolTurns = @ - 1]
             next == [loop EXCEPT
                        !.context = Append(Front(@), mm), !.stopped = stopped,
                        !.calls = n, !.sequential = seq, !.started = 0,
                        !.prepared = {}, !.done = {}, !.results = 0,
                        !.terminate = TRUE, !.hasMore = FALSE,
                        !.pc = IF stopped \/ n = 0 THEN "turnEnd" ELSE "call"]
         IN  /\ n > 0 => budget.toolTurns > 0
             /\ seq => n > 0
             /\ agent' = MessageEnd(agent, mm)
             /\ \/ loop' = next /\ budget' = bb /\ UNCHANGED log
                \/ ThrowsWith(bb, agent')
    BY <1>3, Zenon DEF StreamEnd
  <2>1. /\ agent' = MessageEnd(agent, Assistant(loop.turn, n))
        /\ \/ /\ loop' = [loop EXCEPT
                            !.context = Append(Front(@), Assistant(loop.turn, n)), !.stopped = stopped,
                            !.calls = n, !.sequential = seq, !.started = 0,
                            !.prepared = {}, !.done = {}, !.results = 0,
                            !.terminate = TRUE, !.hasMore = FALSE,
                            !.pc = IF stopped \/ n = 0 THEN "turnEnd" ELSE "call"]
              /\ log' = log
           \/ ThrowsWith(IF n = 0 THEN budget ELSE [budget EXCEPT !.toolTurns = @ - 1], agent')
    BY <2>a, Zenon
  <2> DEFINE b == IF n = 0 THEN budget ELSE [budget EXCEPT !.toolTurns = @ - 1]
             m == Assistant(loop.turn, n)
             pc == IF stopped \/ n = 0 THEN "turnEnd" ELSE "call"
             ctx == Append(Front(loop.context), m)
  <2>2. n \in Nat /\ m \in Message
    BY <1>a, AgentLoopAssumption, MessageTypes
  <2>3. agent' \in AgentType /\ Says(m) /\ Sayable(m)
    BY <1>a, <2>0, <2>1, <2>2, Events DEF Says, Sayable
  <2>4. CASE ThrowsWith(b, agent')
    <3>1. Threw /\ loop' \in LoopType /\ log' \in LogType
      BY <2>3, <2>4, ThrowsEffect
    <3>2. ThrewSaying
      BY <2>0, <2>2, <2>3, <3>1 DEF ThrewSaying, Elsewhere
    <3> QED
      BY <2>0, <2>3, <3>1, <3>2 DEF Types, LoopKind
  <2>5. CASE ~ThrowsWith(b, agent')
    <3>1. ctx \in Seq(Message)
      <4>1. Front(loop.context) \in Seq(Message)
        BY <1>a DEF Front
      <4> HIDE DEF m
      <4> QED
        BY <2>2, <4>1
    <3>2. /\ loop' = [loop EXCEPT
                        !.context = ctx, !.stopped = stopped,
                        !.calls = n, !.sequential = seq, !.started = 0,
                        !.prepared = {}, !.done = {}, !.results = 0,
                        !.terminate = TRUE, !.hasMore = FALSE, !.pc = pc]
          /\ log' = log
      BY <2>1, <2>5
    <3>3. pc \in LoopPc /\ ((pc = "call" /\ n >= 1) \/ (pc = "turnEnd" /\ (~stopped => n = 0)))
      BY <2>2 DEF LoopPc
    <3>4. /\ loop' \in LoopType /\ loop'.pc = pc /\ loop'.context = ctx /\ loop'.pending = loop.pending
          /\ loop'.turn = loop.turn /\ loop'.calls = n /\ (stopped => loop'.stopped)
          /\ loop'.started = 0 /\ loop'.prepared = {} /\ loop'.done = {} /\ loop'.results = 0
      <4> HIDE DEF ctx, pc, m
      <4> QED
        BY <1>a, <2>2, <3>1, <3>2, <3>3, ZenonT(60) DEF LoopType
    <3>5. Answers(n)
      BY <2>0, <2>3, <3>2, <3>3, <3>4 DEF Answers, Elsewhere
    <3> QED
      BY <1>a, <2>0, <2>3, <3>2, <3>4, <3>5 DEF Types, LoopKind
  <2> QED
    BY <2>4, <2>5
<1> QED
  BY <1>1, <1>2, <1>3

LEMMA BatchKinds ==
    ASSUME Types, UNCHANGED made,
           StartCall \/ PrepareImmediate \/ Prepare \/ NextCall \/ BatchDone \/ EmitResult
    PROVE  Types' /\ LoopKind
<1>a. /\ agent \in AgentType /\ run \in RunType /\ run.id \in Nat /\ loop \in LoopType
      /\ loop.context \in Seq(Message) /\ loop.pending \in Seq(Message)
      /\ loop.turn \in Nat /\ loop.calls \in Nat /\ loop.started \in Nat
      /\ loop.prepared \in SUBSET Nat /\ loop.done \in SUBSET Nat /\ loop.results \in Nat
      /\ loop.terminate \in BOOLEAN /\ tools \in SUBSET Execution /\ log \in LogType
  BY LoopParts
<1>b. agent' = agent => agent' \in AgentType /\ agent'.messages = agent.messages /\ Silent
  BY <1>a DEF Silent
<1>c. ASSUME agent' = agent, NEW pc \in LoopPc, loop' = [loop EXCEPT !.pc = pc], UNCHANGED log
      PROVE  loop' \in LoopType /\ SameLoop /\ loop'.pc = pc
  BY <1>a, <1>c DEF LoopType, SameLoop, SameTalk, SameTools, SameBatch
<1>1. CASE StartCall
  <2> DEFINE c == <<loop.turn, loop.started + 1>>
             l == [loop EXCEPT !.pc = "prepare", !.started = @ + 1]
  <2>1. Emit(ToolStart(agent, c), l) /\ loop.pc = "call" /\ UNCHANGED <<queue, run, tools, made>>
    BY <1>1 DEF StartCall, At
  <2>2. c \in Nat \X Nat
    BY <1>a
  <2>3. /\ ToolStart(agent, c) \in AgentType /\ ToolStart(agent, c).messages = agent.messages
        /\ ToolStart(agent, c).pendingToolCalls = agent.pendingToolCalls \cup {c}
    <3> HIDE DEF c
    <3> QED
      BY <1>a, <2>2, Events
  <2>4. CASE agent' = ToolStart(agent, c) /\ loop' = l /\ log' = log
    <3>1. /\ loop' \in LoopType /\ loop'.pc = "prepare" /\ SameTalk /\ SameBatch
          /\ loop'.started = loop.started + 1 /\ loop'.prepared = loop.prepared
          /\ loop'.done = loop.done /\ loop'.results = loop.results
      <4> DEFINE k == loop.started + 1
      <4>1. loop' = [loop EXCEPT !.pc = "prepare", !.started = k, !.prepared = loop.prepared,
                       !.done = loop.done, !.results = loop.results, !.terminate = loop.terminate]
        BY <1>a, <2>4 DEF LoopType
      <4>2. k \in Nat /\ "prepare" \in LoopPc
        BY <1>a DEF LoopPc
      <4> HIDE DEF k
      <4>3. /\ loop' \in LoopType /\ loop'.pc = "prepare" /\ SameTalk /\ SameBatch
            /\ loop'.started = k /\ loop'.prepared = loop.prepared
            /\ loop'.done = loop.done /\ loop'.results = loop.results
        BY <1>a, <4>1, <4>2 DEF LoopType, SameTalk, SameBatch
      <4> QED
        BY <4>3 DEF k
    <3>2. StartsCall
      BY <2>1, <2>3, <2>4, <3>1 DEF StartsCall, Place, Elsewhere
    <3> QED
      BY <1>a, <2>1, <2>3, <2>4, <3>1, <3>2 DEF Types, LoopKind
  <2> HIDE DEF c, l
  <2> QED
    BY <2>1, <2>3, <2>4, EmitQuietly
<1>2. CASE PrepareImmediate
  <2> DEFINE c == <<loop.turn, loop.started>>
             l == [loop EXCEPT !.pc = "next", !.done = @ \cup {loop.started}, !.terminate = FALSE]
  <2>1. Emit(ToolEnd(agent, c), l) /\ loop.pc = "prepare" /\ UNCHANGED <<queue, run, tools, made>>
    BY <1>2 DEF PrepareImmediate, At, Call
  <2>2. c \in Nat \X Nat
    BY <1>a
  <2>3. /\ ToolEnd(agent, c) \in AgentType /\ ToolEnd(agent, c).messages = agent.messages
        /\ ToolEnd(agent, c).pendingToolCalls = agent.pendingToolCalls \ {c}
    <3> HIDE DEF c
    <3> QED
      BY <1>a, <2>2, Events
  <2>4. CASE agent' = ToolEnd(agent, c) /\ loop' = l /\ log' = log
    <3>1. /\ loop' \in LoopType /\ loop'.pc = "next" /\ SameTalk /\ SameBatch
          /\ loop'.started = loop.started /\ loop'.prepared = loop.prepared
          /\ loop'.done = loop.done \cup {loop.started} /\ loop'.results = loop.results
      BY <1>a, <2>4 DEF LoopType, LoopPc, SameTalk, SameBatch
    <3>2. EndsAtOnce
      BY <2>1, <2>3, <2>4, <3>1 DEF EndsAtOnce, Place, Elsewhere
    <3> QED
      BY <1>a, <2>1, <2>3, <2>4, <3>1, <3>2 DEF Types, LoopKind
  <2> HIDE DEF c, l
  <2> QED
    BY <2>1, <2>3, <2>4, EmitQuietly
<1>3. CASE Prepare
  <2>1. /\ loop.pc = "prepare" /\ UNCHANGED <<agent, queue, run, tools, made, log>>
        /\ loop' = [loop EXCEPT !.pc = "next", !.prepared = @ \cup {loop.started}]
    BY <1>3 DEF Prepare, At
  <2>2. /\ loop' \in LoopType /\ loop'.pc = "next" /\ SameTalk /\ SameBatch
        /\ loop'.started = loop.started /\ loop'.prepared = loop.prepared \cup {loop.started}
        /\ loop'.done = loop.done /\ loop'.results = loop.results
    BY <1>a, <2>1 DEF LoopType, LoopPc, SameTalk, SameBatch
  <2>3. Prepares
    BY <1>b, <2>1, <2>2 DEF Prepares, Place, Elsewhere
  <2> QED
    BY <1>a, <2>1, <2>2, <2>3 DEF Types, LoopKind
<1>4. CASE NextCall
  <2>1. loop.pc = "next" /\ UNCHANGED <<agent, queue, run, made, log>>
    BY <1>4 DEF NextCall, At
  <2>2. CASE loop' = [loop EXCEPT !.pc = "call"] /\ UNCHANGED tools
    <3>1. loop' \in LoopType /\ SameLoop /\ loop'.pc = "call"
      BY <1>c, <2>1, <2>2 DEF LoopPc
    <3> QED
      BY <1>a, <1>b, <2>1, <2>2, <3>1 DEF Types, Moves, Place, Elsewhere, LoopKind
  <2>3. CASE /\ loop.sequential \/ loop.started = loop.calls \/ run.aborted
             /\ loop' = [loop EXCEPT !.pc = "await"]
             /\ tools' = tools \cup {InFlight(i) : i \in loop.prepared \ loop.done}
    <3>1. loop' \in LoopType /\ SameLoop /\ loop'.pc = "await"
      BY <1>c, <2>1, <2>3 DEF LoopPc
    <3>2. \A i \in loop.prepared \ loop.done : InFlight(i) \in Execution
      BY <1>a DEF InFlight, Execution
    <3>3. tools' \in SUBSET Execution
      BY <1>a, <2>3, <3>2
    <3>4. Executes
      BY <1>b, <2>1, <2>3, <3>1 DEF Executes, Place, Elsewhere
    <3> QED
      BY <1>a, <2>1, <3>1, <3>3, <3>4 DEF Types, LoopKind
  <2> QED
    BY <1>4, <2>2, <2>3 DEF NextCall
<1>5. CASE BatchDone
  <2>1. /\ loop.pc = "await" /\ loop.done = 1 .. loop.started /\ loop' = [loop EXCEPT !.pc = "results"]
        /\ UNCHANGED <<agent, queue, run, tools, made, log>>
    BY <1>5 DEF BatchDone, At
  <2>2. loop' \in LoopType /\ SameLoop /\ loop'.pc = "results"
    BY <1>c, <2>1 DEF LoopPc
  <2> QED
    BY <1>a, <1>b, <2>1, <2>2 DEF Types, Moves, Place, Elsewhere, LoopKind
<1>6. CASE EmitResult
  <2>1. loop.pc = "results" /\ UNCHANGED <<queue, run, tools, made>>
    BY <1>6 DEF EmitResult, At
  <2>2. CASE loop.results < loop.started
    <3> DEFINE m == Result(loop.turn, loop.results + 1)
               l == [loop EXCEPT !.results = @ + 1]
    <3>1. EmitMessage(m, l) /\ m \in Message /\ Sayable(m)
      BY <1>6, <1>a, <2>1, <2>2, MessageTypes DEF EmitResult, Sayable
    <3>2. CASE agent' \in AgentType /\ Says(m) /\ loop' = l /\ log' = log
      <4>1. /\ loop' \in LoopType /\ loop'.pc = "results" /\ SameTalk /\ SameBatch
            /\ loop'.started = loop.started /\ loop'.prepared = loop.prepared
            /\ loop'.done = loop.done /\ loop'.results = loop.results + 1
        <5> DEFINE k == loop.results + 1
        <5>1. loop' = [loop EXCEPT !.pc = "results", !.started = loop.started, !.prepared = loop.prepared,
                         !.done = loop.done, !.results = k, !.terminate = loop.terminate]
          BY <1>a, <2>1, <3>2 DEF LoopType
        <5>2. k \in Nat /\ "results" \in LoopPc
          BY <1>a DEF LoopPc
        <5> HIDE DEF k
        <5>3. /\ loop' \in LoopType /\ loop'.pc = "results" /\ SameTalk /\ SameBatch
              /\ loop'.started = loop.started /\ loop'.prepared = loop.prepared
              /\ loop'.done = loop.done /\ loop'.results = k
          BY <1>a, <5>1, <5>2 DEF LoopType, SameTalk, SameBatch
        <5> QED
          BY <5>3 DEF k
      <4>2. SaysResult
        BY <2>1, <3>2, <4>1 DEF SaysResult, Place, Elsewhere
      <4> QED
        BY <1>a, <2>1, <3>2, <4>1, <4>2 DEF Types, LoopKind
    <3> HIDE DEF m, l
    <3> QED
      BY <2>1, <3>1, <3>2, EmitSaying
  <2>3. CASE loop' = [loop EXCEPT !.pc = "call"] /\ UNCHANGED <<agent, log>>
    <3>1. loop' \in LoopType /\ SameLoop /\ loop'.pc = "call"
      BY <1>c, <2>3 DEF LoopPc
    <3> QED
      BY <1>a, <1>b, <2>1, <2>3, <3>1 DEF Types, Moves, Place, Elsewhere, LoopKind
  <2>4. CASE /\ loop.results = loop.started
             /\ ~loop.sequential \/ loop.started = loop.calls \/ run.aborted
             /\ loop' = [loop EXCEPT !.pc = "turnEnd", !.hasMore = ~loop.terminate,
                           !.context = @ \o [k \in 1 .. loop.started |-> Result(loop.turn, k)]]
             /\ UNCHANGED <<agent, log>>
    <3> DEFINE rs == [k \in 1 .. loop.started |-> Result(loop.turn, k)]
               ctx == loop.context \o rs
               more == ~loop.terminate
    <3>1. rs \in Seq(Message)
      BY <1>a, MessageTypes
    <3>2. ctx \in Seq(Message) /\ more \in BOOLEAN
      <4> HIDE DEF rs
      <4> QED
        BY <1>a, <3>1
    <3>3. loop' = [loop EXCEPT !.pc = "turnEnd", !.hasMore = more, !.context = ctx]
      BY <1>a, <2>4 DEF LoopType
    <3>4. /\ loop' \in LoopType /\ loop'.pc = "turnEnd" /\ loop'.context = ctx
          /\ loop'.pending = loop.pending /\ SameTools /\ SameBatch
      <4> HIDE DEF ctx, more
      <4> QED
        BY <1>a, <3>2, <3>3 DEF LoopType, LoopPc, SameTools, SameBatch
    <3>5. BatchEnds
      BY <1>b, <2>1, <2>4, <3>4 DEF BatchEnds, Place, Elsewhere
    <3> QED
      BY <1>a, <2>1, <2>4, <3>4, <3>5 DEF Types, LoopKind
  <2> QED
    BY <1>6, <2>2, <2>3, <2>4 DEF EmitResult
<1> QED
  BY <1>1, <1>2, <1>3, <1>4, <1>5, <1>6

LEMMA ToolKinds ==
    ASSUME Types, UNCHANGED made, NEW c \in tools, ToolDone(c)
    PROVE  Types' /\ LoopKind
<1>a. /\ agent \in AgentType /\ loop \in LoopType /\ log \in LogType /\ loop.done \in SUBSET Nat
      /\ c \in Execution /\ c.turn \in Nat /\ c.i \in Nat /\ <<c.turn, c.i>> \in Nat \X Nat
      /\ tools \in SUBSET Execution /\ loop.terminate \in BOOLEAN
  BY LoopParts DEF Execution
<1>1. PICK ended \in BOOLEAN, term \in BOOLEAN :
         /\ agent' = IF ended THEN ToolEnd(agent, <<c.turn, c.i>>) ELSE agent
         /\ \/ /\ Awaited(c) /\ ended
               /\ loop' = [loop EXCEPT !.done = @ \cup {c.i}, !.terminate = @ /\ term]
               /\ UNCHANGED <<budget, log>>
            \/ Awaited(c) /\ Throws(agent)
            \/ ~Awaited(c) /\ UNCHANGED <<loop, budget, log>>
  BY DEF ToolDone
<1>2. /\ agent' \in AgentType /\ agent'.messages = agent.messages
      /\ agent'.pendingToolCalls \in {agent.pendingToolCalls, agent.pendingToolCalls \ {<<c.turn, c.i>>}}
      /\ ended => agent'.pendingToolCalls = agent.pendingToolCalls \ {<<c.turn, c.i>>}
  BY <1>a, <1>1, Events
<1>3. tools' = tools \ {c} /\ UNCHANGED <<queue, run, made>> /\ tools' \in SUBSET Execution
  BY <1>a DEF ToolDone
<1>4. CASE Awaited(c) /\ Throws(agent)
  BY <1>2, <1>3, <1>4, ThrowsQuietly DEF Throws, Awaited, At
<1>5. CASE ~Awaited(c) /\ UNCHANGED <<loop, budget, log>>
  <2>1. ToolStrays(c)
    BY <1>2, <1>3, <1>5 DEF ToolStrays, Elsewhere
  <2> QED
    BY <1>a, <1>2, <1>3, <1>5, <2>1 DEF Types, LoopKind
<1>6. CASE Awaited(c) /\ ended /\ loop' = [loop EXCEPT !.done = @ \cup {c.i}, !.terminate = @ /\ term]
             /\ log' = log
  <2> DEFINE t == loop.terminate /\ term
  <2>1. t \in BOOLEAN /\ loop' = [loop EXCEPT !.done = @ \cup {c.i}, !.terminate = t]
    BY <1>6
  <2>2. /\ loop' \in LoopType /\ loop'.pc = loop.pc /\ SameTalk /\ SameBatch
        /\ loop'.started = loop.started /\ loop'.prepared = loop.prepared
        /\ loop'.done = loop.done \cup {c.i} /\ loop'.results = loop.results
    <3> HIDE DEF t
    <3> QED
      BY <1>a, <2>1 DEF LoopType, SameTalk, SameBatch
  <2>3. ToolEnds(c)
    BY <1>2, <1>3, <1>6, <2>2 DEF ToolEnds, Elsewhere, Awaited, At
  <2> QED
    BY <1>a, <1>2, <1>3, <1>6, <2>2, <2>3 DEF Types, LoopKind
<1> QED
  BY <1>1, <1>4, <1>5, <1>6

LEMMA FinishKinds ==
    ASSUME Types, UNCHANGED made, FinishRun
    PROVE  Types' /\ LoopKind
<1>a. agent \in AgentType /\ run \in RunType /\ loop \in LoopType /\ loop.turn \in Nat
  BY LoopParts
<1>1. /\ loop.pc = "finish" /\ UNCHANGED <<queue, tools, log, made>>
      /\ agent' = [agent EXCEPT !.isStreaming = FALSE, !.streamingMessage = FALSE,
                                !.pendingToolCalls = {}]
      /\ run' = [run EXCEPT !.active = FALSE, !.aborted = FALSE]
      /\ loop' = [IdleLoop EXCEPT !.turn = loop.turn]
  BY DEF FinishRun, At
<1>2. agent' \in AgentType /\ agent'.messages = agent.messages /\ agent'.pendingToolCalls = {}
  BY <1>a, <1>1 DEF AgentType
<1>3. run' \in RunType /\ run'.id = run.id /\ run'.active = FALSE
  BY <1>a, <1>1 DEF RunType
<1>4. /\ loop' \in LoopType /\ loop'.pc = "idle" /\ loop'.context = <<>> /\ loop'.pending = <<>>
      /\ FreshLoop
  <2> DEFINE none == <<>>
  <2>1. none \in Seq(Message)
    OBVIOUS
  <2>2. loop' = [pc |-> "idle", context |-> none, pending |-> none, skipPoll |-> FALSE,
                 firstTurn |-> TRUE, hasMore |-> FALSE, stopped |-> FALSE, turn |-> loop.turn,
                 calls |-> 0, sequential |-> FALSE, started |-> 0, prepared |-> {},
                 done |-> {}, results |-> 0, terminate |-> TRUE]
    BY <1>1 DEF IdleLoop
  <2> HIDE DEF none
  <2>3. /\ loop' \in LoopType /\ loop'.pc = "idle" /\ loop'.context = none /\ loop'.pending = none
        /\ FreshLoop
    BY <1>a, <2>1, <2>2 DEF LoopType, LoopPc, FreshLoop
  <2> QED
    BY <2>3 DEF none
<1>5. Finishes
  BY <1>1, <1>2, <1>3, <1>4 DEF Finishes, Place
<1> QED
  BY <1>1, <1>2, <1>3, <1>4, <1>5 DEF Types, LoopKind

\* runWithLifecycle up to its first await.
LEMMA BeginEffect ==
    ASSUME Types, NEW ps \in Seq(Message), NEW skip \in BOOLEAN, Begin(ps, skip)
    PROVE  /\ agent' \in AgentType /\ Silent
           /\ run' \in RunType /\ run'.id = run.id + 1 /\ run'.active = TRUE /\ run'.aborted = FALSE
           /\ loop' \in LoopType /\ loop'.pc = "start" /\ loop'.context = agent.messages \o ps
           /\ loop'.pending = ps /\ FreshLoop
           /\ log' \in LogType /\ log'.cleared = log.cleared /\ log'.lost = log.lost
           /\ log'.faults = log.faults /\ log'.forgot = FALSE
           /\ UNCHANGED tools
<1>a. /\ agent \in AgentType /\ agent.messages \in Seq(Message) /\ run.id \in Nat
      /\ loop.turn \in Nat /\ log \in LogType
  BY LoopParts DEF Types
<1>1. agent' \in AgentType /\ Silent
  BY <1>a DEF Begin, AgentType, Silent
<1>2. run' \in RunType /\ run'.id = run.id + 1 /\ run'.active = TRUE /\ run'.aborted = FALSE
  BY <1>a DEF Begin, RunType
<1>3. /\ log' \in LogType /\ log'.cleared = log.cleared /\ log'.lost = log.lost
      /\ log'.faults = log.faults /\ log'.forgot = FALSE
  BY <1>a DEF Begin, LogType
<1>4. /\ loop' \in LoopType /\ loop'.pc = "start" /\ loop'.context = agent.messages \o ps
      /\ loop'.pending = ps /\ FreshLoop
  <2> DEFINE ctx == agent.messages \o ps
  <2>1. ctx \in Seq(Message)
    BY <1>a
  <2>2. loop' = [pc |-> "start", context |-> ctx, pending |-> ps, skipPoll |-> skip,
                 firstTurn |-> TRUE, hasMore |-> TRUE, stopped |-> FALSE, turn |-> loop.turn,
                 calls |-> 0, sequential |-> FALSE, started |-> 0, prepared |-> {},
                 done |-> {}, results |-> 0, terminate |-> TRUE]
    BY DEF Begin, IdleLoop
  <2> HIDE DEF ctx
  <2>3. /\ loop' \in LoopType /\ loop'.pc = "start" /\ loop'.context = ctx /\ loop'.pending = ps
        /\ FreshLoop
    BY <1>a, <2>1, <2>2 DEF LoopType, LoopPc, FreshLoop
  <2> QED
    BY <2>3 DEF ctx
<1> QED
  BY <1>1, <1>2, <1>3, <1>4 DEF Begin

LEMMA StartKinds ==
    ASSUME Types, Prompt \/ Continue
    PROVE  Types' /\ UserKind
<1>a. /\ queue \in QueueType /\ queue.steering \in Seq(Message) /\ queue.followUp \in Seq(Message)
      /\ made \in Nat /\ tools \in SUBSET Execution
  BY LoopParts
<1>b. PICK mode : mode \in QueueModes
  BY AgentLoopAssumption
<1>c. ASSUME NEW q \in Seq(Message)
      PROVE  /\ [queue EXCEPT !.steering = q] \in QueueType
             /\ [queue EXCEPT !.steering = q].steering = q
             /\ [queue EXCEPT !.steering = q].followUp = queue.followUp
             /\ [queue EXCEPT !.followUp = q] \in QueueType
             /\ [queue EXCEPT !.followUp = q].followUp = q
             /\ [queue EXCEPT !.followUp = q].steering = queue.steering
  BY <1>a DEF QueueType
<1>1. CASE Prompt
  <2> DEFINE ps == <<User(made + 1, Prompted)>>
  <2>1. User(made + 1, Prompted) \in Message
    BY <1>a, MessageTypes DEF Prompted
  <2>2. ps \in Seq(Message)
    BY <2>1
  <2>3. ~run.active /\ Begin(ps, FALSE) /\ queue' = queue /\ made' = made + 1
    BY <1>1 DEF Prompt, NextUser, UseUser
  <2>4. ps = <<User(made + 1, Prompted)>>
    OBVIOUS
  <2> HIDE DEF ps
  <2>5. /\ agent' \in AgentType /\ run' \in RunType /\ loop' \in LoopType /\ log' \in LogType
        /\ Begins(ps, mode)
    BY <2>2, <2>3, <2>4, BeginEffect DEF Begins
  <2>6. tools' = tools /\ made' \in Nat
    BY <1>a, <2>3 DEF Begin
  <2> QED
    BY <1>a, <1>b, <2>2, <2>3, <2>5, <2>6 DEF Types, UserKind
<1>2. CASE Continue
  <2>1. PICK m \in QueueModes :
          /\ ~run.active /\ agent.messages # <<>>
          /\ \/ Begin(<<>>, FALSE) /\ UNCHANGED queue
             \/ /\ Begin(Drained(queue.steering, m), TRUE)
                /\ queue' = [queue EXCEPT !.steering = Kept(@, m)]
             \/ /\ Begin(Drained(queue.followUp, m), FALSE)
                /\ queue' = [queue EXCEPT !.followUp = Kept(@, m)]
          /\ UNCHANGED <<budget, made>>
    BY <1>2 DEF Continue
  <2>2. CASE Begin(<<>>, FALSE) /\ UNCHANGED queue
    <3> DEFINE ps == <<>>
    <3>a. ps \in Seq(Message) /\ ps = <<>>
      OBVIOUS
    <3>b. Begin(ps, FALSE)
      BY <2>2, Zenon
    <3>1. ps \in Seq(Message) /\ ps = <<>> /\ Begin(ps, FALSE)
      BY <3>a, <3>b
    <3> HIDE DEF ps
    <3>2. /\ agent' \in AgentType /\ run' \in RunType /\ loop' \in LoopType /\ log' \in LogType
          /\ Begins(ps, m) /\ tools' = tools
      BY <2>1, <2>2, <3>1, BeginEffect DEF Begins
    <3> QED
      BY <1>a, <2>1, <2>2, <3>1, <3>2 DEF Types, UserKind
  <2>3. CASE /\ Begin(Drained(queue.steering, m), TRUE)
             /\ queue' = [queue EXCEPT !.steering = Kept(@, m)]
    <3> DEFINE ps == Drained(queue.steering, m)
               ks == Kept(queue.steering, m)
    <3>1. ps \in Seq(Message) /\ ks \in Seq(Message)
      BY <1>a, QueueParts
    <3>2. ps = Drained(queue.steering, m) /\ ks = Kept(queue.steering, m) /\ Begin(ps, TRUE)
          /\ queue' = [queue EXCEPT !.steering = ks]
      BY <1>a, <2>3 DEF QueueType
    <3> HIDE DEF ps, ks
    <3>3. queue' \in QueueType /\ queue'.steering = ks /\ queue'.followUp = queue.followUp
      BY <1>c, <3>1, <3>2
    <3>4. /\ agent' \in AgentType /\ run' \in RunType /\ loop' \in LoopType /\ log' \in LogType
          /\ Begins(ps, m) /\ tools' = tools
      BY <2>1, <3>1, <3>2, <3>3, BeginEffect DEF Begins
    <3> QED
      BY <1>a, <2>1, <3>1, <3>3, <3>4 DEF Types, UserKind
  <2>4. CASE /\ Begin(Drained(queue.followUp, m), FALSE)
             /\ queue' = [queue EXCEPT !.followUp = Kept(@, m)]
    <3> DEFINE ps == Drained(queue.followUp, m)
               ks == Kept(queue.followUp, m)
    <3>1. ps \in Seq(Message) /\ ks \in Seq(Message)
      BY <1>a, QueueParts
    <3>2. ps = Drained(queue.followUp, m) /\ ks = Kept(queue.followUp, m) /\ Begin(ps, FALSE)
          /\ queue' = [queue EXCEPT !.followUp = ks]
      BY <1>a, <2>4 DEF QueueType
    <3> HIDE DEF ps, ks
    <3>3. queue' \in QueueType /\ queue'.followUp = ks /\ queue'.steering = queue.steering
      BY <1>c, <3>1, <3>2
    <3>4. /\ agent' \in AgentType /\ run' \in RunType /\ loop' \in LoopType /\ log' \in LogType
          /\ Begins(ps, m) /\ tools' = tools
      BY <2>1, <3>1, <3>2, <3>3, BeginEffect DEF Begins
    <3> QED
      BY <1>a, <2>1, <3>1, <3>3, <3>4 DEF Types, UserKind
  <2> QED
    BY <2>1, <2>2, <2>3, <2>4
<1> QED
  BY <1>1, <1>2

LEMMA UserKinds ==
    ASSUME Types, Steer \/ FollowUp \/ ClearQueues \/ Abort \/ Reset
    PROVE  Types' /\ UserKind
<1>a. /\ agent \in AgentType /\ agent.messages \in Seq(Message) /\ run \in RunType
      /\ queue \in QueueType /\ queue.steering \in Seq(Message) /\ queue.followUp \in Seq(Message)
      /\ log \in LogType /\ made \in Nat
      /\ Numbers(queue.steering) \subseteq Nat /\ Numbers(queue.followUp) \subseteq Nat
  BY LoopParts, NumbersType
<1>b. run.active \in BOOLEAN /\ log.forgot \in BOOLEAN /\ log.cleared \subseteq Nat
  BY <1>a DEF RunType, LogType
<1>1. CASE Steer
  <2> DEFINE q == Append(queue.steering, User(made + 1, Steered))
  <2>1. User(made + 1, Steered) \in Message
    BY <1>a, MessageTypes DEF Steered
  <2>2. q \in Seq(Message)
    BY <1>a, <2>1
  <2>3. /\ queue' = [queue EXCEPT !.steering = q] /\ made' = made + 1
        /\ UNCHANGED <<agent, run, loop, tools, log>>
    BY <1>1 DEF Steer, NextUser, UseUser
  <2>4. q = Append(queue.steering, User(made + 1, Steered))
    OBVIOUS
  <2> HIDE DEF q
  <2>5. queue' \in QueueType /\ queue'.steering = q /\ queue'.followUp = queue.followUp
    BY <1>a, <2>2, <2>3 DEF QueueType
  <2>6. Queues /\ made' \in Nat
    BY <1>a, <2>3, <2>4, <2>5 DEF Queues
  <2> QED
    BY <2>3, <2>5, <2>6 DEF Types, UserKind
<1>2. CASE FollowUp
  <2> DEFINE q == Append(queue.followUp, User(made + 1, FollowedUp))
  <2>1. User(made + 1, FollowedUp) \in Message
    BY <1>a, MessageTypes DEF FollowedUp
  <2>2. q \in Seq(Message)
    BY <1>a, <2>1
  <2>3. /\ queue' = [queue EXCEPT !.followUp = q] /\ made' = made + 1
        /\ UNCHANGED <<agent, run, loop, tools, log>>
    BY <1>2 DEF FollowUp, NextUser, UseUser
  <2>4. q = Append(queue.followUp, User(made + 1, FollowedUp))
    OBVIOUS
  <2> HIDE DEF q
  <2>5. queue' \in QueueType /\ queue'.followUp = q /\ queue'.steering = queue.steering
    BY <1>a, <2>2, <2>3 DEF QueueType
  <2>6. Queues /\ made' \in Nat
    BY <1>a, <2>3, <2>4, <2>5 DEF Queues
  <2> QED
    BY <2>3, <2>5, <2>6 DEF Types, UserKind
<1>3. CASE ClearQueues
  <2>0. DOMAIN queue = {"steering", "followUp"}
    BY <1>a DEF QueueType
  <2>1. PICK which \in SUBSET DOMAIN queue :
          /\ queue' = [q \in DOMAIN queue |-> IF q \in which THEN <<>> ELSE queue[q]]
          /\ log' = [log EXCEPT !.cleared = @ \cup UNION {Numbers(queue[q]) : q \in which}]
          /\ UNCHANGED <<agent, run, loop, tools, made>>
    BY <1>3 DEF ClearQueues
  <2> DEFINE st == IF "steering" \in which THEN <<>> ELSE queue.steering
             fu == IF "followUp" \in which THEN <<>> ELSE queue.followUp
             gone == UNION {Numbers(queue[q]) : q \in which}
  <2>2. st \in Seq(Message) /\ fu \in Seq(Message)
    BY <1>a
  <2>3. queue' = [steering |-> st, followUp |-> fu]
    <3>1. queue' = [q \in {"steering", "followUp"} |-> IF q \in which THEN <<>> ELSE queue[q]]
      BY <2>0, <2>1
    <3> QED
      BY <3>1
  <2>4. /\ gone \subseteq Numbers(queue.steering) \cup Numbers(queue.followUp)
        /\ "steering" \in which => Numbers(queue.steering) \subseteq gone
        /\ "followUp" \in which => Numbers(queue.followUp) \subseteq gone
    BY <2>0
  <2>5. gone \subseteq Nat
    BY <1>a, <2>4
  <2>6. log' \in LogType /\ log'.cleared = log.cleared \cup gone /\ log'.lost = log.lost
        /\ log'.faults = log.faults /\ log'.forgot = log.forgot
    <3>1. log' = [log EXCEPT !.cleared = @ \cup gone]
      BY <2>1
    <3> HIDE DEF gone
    <3> QED
      BY <1>a, <2>5, <3>1 DEF LogType
  <2>7. queue' \in QueueType /\ queue'.steering = st /\ queue'.followUp = fu
    <3> HIDE DEF st, fu
    <3> QED
      BY <2>2, <2>3 DEF QueueType
  <2>8. /\ queue'.steering = queue.steering
           \/ (queue'.steering = <<>> /\ Numbers(queue.steering) \subseteq log'.cleared)
        /\ queue'.followUp = queue.followUp
           \/ (queue'.followUp = <<>> /\ Numbers(queue.followUp) \subseteq log'.cleared)
    <3> HIDE DEF gone
    <3> QED
      BY <2>4, <2>6, <2>7
  <2>9. log'.cleared \subseteq log.cleared \cup Numbers(queue.steering) \cup Numbers(queue.followUp)
    <3> HIDE DEF gone
    <3> QED
      BY <2>4, <2>6
  <2>10. Clears
    BY <2>1, <2>6, <2>8, <2>9 DEF Clears
  <2> QED
    BY <2>1, <2>6, <2>7, <2>10 DEF Types, UserKind
<1>4. CASE Abort
  <2>1. /\ run' = [run EXCEPT !.aborted = TRUE]
        /\ UNCHANGED <<agent, queue, loop, tools, made, log>>
    BY <1>4 DEF Abort
  <2>2. run' \in RunType /\ run'.id = run.id /\ run'.active = run.active /\ run'.aborted = TRUE
    BY <1>a, <2>1 DEF RunType
  <2>3. Aborts
    BY <2>1, <2>2 DEF Aborts
  <2> QED
    BY <2>1, <2>2, <2>3 DEF Types, UserKind
<1>5. CASE Reset
  <2> DEFINE all == agent.messages \o queue.steering \o queue.followUp
             none == <<>>
             forgot == log.forgot \/ run.active
  <2>1. /\ agent' = [messages |-> none, isStreaming |-> FALSE,
                     streamingMessage |-> FALSE, pendingToolCalls |-> {}]
        /\ queue' = [steering |-> none, followUp |-> none]
        /\ log' = [log EXCEPT !.cleared = @ \cup Numbers(all), !.forgot = forgot]
        /\ UNCHANGED <<run, loop, tools, made>>
    BY <1>5 DEF Reset
  <2>2. none \in Seq(Message) /\ all \in Seq(Message) /\ forgot \in BOOLEAN
    BY <1>a, <1>b
  <2>3. Numbers(all) \subseteq Nat
    <3> HIDE DEF all
    <3> QED
      BY <2>2, NumbersType
  <2>4. agent' \in AgentType /\ agent'.messages = none /\ agent'.pendingToolCalls = {}
    <3> HIDE DEF none
    <3> QED
      BY <2>1, <2>2 DEF AgentType
  <2>5. queue' \in QueueType /\ queue'.steering = none /\ queue'.followUp = none
    <3> HIDE DEF none
    <3> QED
      BY <2>1, <2>2 DEF QueueType
  <2>6. /\ log' \in LogType /\ log'.cleared = log.cleared \cup Numbers(all)
        /\ log'.lost = log.lost /\ log'.faults = log.faults /\ (forgot => log'.forgot)
    <3> HIDE DEF all, forgot
    <3> QED
      BY <1>a, <2>1, <2>2, <2>3 DEF LogType
  <2>7. Resets
    BY <2>1, <2>4, <2>5, <2>6 DEF Resets
  <2> QED
    BY <2>1, <2>4, <2>5, <2>6, <2>7 DEF Types, UserKind
<1> QED
  BY <1>1, <1>2, <1>3, <1>4, <1>5

\* Every step is of a kind, and keeps the types.
LEMMA Kinds == ASSUME Types, [Next]_vars PROVE Types' /\ Kind
<1>1. CASE UserStep
  <2>1. Types' /\ UserKind
    BY <1>1, StartKinds, UserKinds DEF UserStep
  <2> QED
    BY <2>1 DEF Kind
<1>2. CASE UNCHANGED made /\ LoopStep
  <2>1. Types' /\ LoopKind
    BY <1>2, TalkKinds, ResponseKinds, BatchKinds, FinishKinds DEF LoopStep
  <2> QED
    BY <2>1 DEF Kind
<1>3. CASE UNCHANGED made /\ \E c \in tools : ToolDone(c)
  <2>1. Types' /\ LoopKind
    BY <1>3, ToolKinds
  <2> QED
    BY <2>1 DEF Kind
<1>4. CASE UNCHANGED vars
  BY <1>4 DEF vars, Types, Kind
<1> QED
  BY <1>1, <1>2, <1>3, <1>4 DEF Next

LEMMA InitTypes == ASSUME Init PROVE Types
<1> DEFINE none == <<>>
<1>1. none \in Seq(Message)
  OBVIOUS
<1>2. agent = [messages |-> none, isStreaming |-> FALSE, streamingMessage |-> FALSE, pendingToolCalls |-> {}]
      /\ queue = [steering |-> none, followUp |-> none]
      /\ loop = [pc |-> "idle", context |-> none, pending |-> none, skipPoll |-> FALSE,
                 firstTurn |-> TRUE, hasMore |-> FALSE, stopped |-> FALSE, turn |-> 0,
                 calls |-> 0, sequential |-> FALSE, started |-> 0, prepared |-> {},
                 done |-> {}, results |-> 0, terminate |-> TRUE]
  BY DEF Init, IdleLoop
<1>3. run \in RunType /\ tools \in SUBSET Execution /\ made \in Nat /\ log \in LogType
  BY DEF Init, RunType, LogType
<1> HIDE DEF none
<1>4. agent \in AgentType /\ queue \in QueueType
  BY <1>1, <1>2 DEF AgentType, QueueType
<1>5. loop \in LoopType
  BY <1>1, <1>2 DEF LoopType, LoopPc
<1> QED
  BY <1>3, <1>4, <1>5 DEF Types

-----------------------------------------------------------------------------
(* The inductive invariant *)

InRun == {"start", "prompts", "pollSteering", "top", "inject", "request", "stream", "call",
          "prepare", "next", "await", "results", "turnEnd", "pollFollowUp", "agentEnd"}
OfBatch == {"call", "prepare", "next", "await", "results"}
Ended == {"failed", "failedEnd", "finish"}

\* Where the loop is, whether a run is active and has failed, and when messages
\* may be on their way into the transcript.
Shape ==
    /\ run.active <=> loop.pc # "idle"
    /\ loop.pc \notin {"start", "prompts", "top", "inject"} => loop.pending = <<>>
    /\ log.faults \subseteq 0 .. run.id
    /\ run.active /\ run.id \in log.faults => loop.pc \in Ended

\* The calls of a batch, in the order they are begun.
Batch ==
    /\ loop.done \subseteq 1 .. loop.started /\ loop.prepared \subseteq 1 .. loop.started
    /\ loop.pc \in {"prepare", "next", "await", "results"} => loop.started >= 1
    /\ loop.pc \notin {"call", "prepare", "next", "await"} \cup Ended => loop.done = 1 .. loop.started

\* Executions in flight: of the awaited batch only while it is awaited and the
\* run has not failed; of a batch that nobody awaits never with the turn of a
\* call that is shown as pending.
Flight == \A c \in tools :
    /\ c.run <= run.id /\ c.turn <= loop.turn
    /\ c.run = run.id /\ run.id \notin log.faults =>
          loop.pc = "await" /\ c.turn = loop.turn /\ c.i \in loop.prepared \ loop.done
    /\ c.run # run.id /\ (loop.pc \in {"stream", "call"} \/ loop.started > 0) => c.turn < loop.turn

ToolInv == Shape /\ Batch /\ Flight /\ PendingToolCallsExact

\* The loop's context against the transcript, at every place of an undisturbed run.
Answered == [k \in 1 .. loop.results |-> Result(loop.turn, k)]
Mirrors ==
    run.active /\ Undisturbed =>
        /\ loop.pc \in {"start", "prompts"} => loop.context = agent.messages \o loop.pending
        /\ loop.pc \in {"pollSteering", "top", "inject", "request", "turnEnd", "pollFollowUp"} =>
              loop.context = agent.messages
        /\ loop.pc = "stream" => loop.context = Append(agent.messages, Assistant(loop.turn, 0))
        /\ loop.pc \in OfBatch => agent.messages = loop.context \o Answered

\* What the next result message follows, and which calls have their results.
Adjacent(s) == \A k \in 2 .. Len(s) :
    s[k].role = "toolResult" =>
       /\ s[k - 1].n = s[k].n
       /\ \/ s[k - 1].role = "toolResult" /\ s[k - 1].i = s[k].i - 1
          \/ s[k - 1].role = "assistant" /\ s[k].i = 1 /\ s[k - 1].i >= 1
UserOnly(s) == \A k \in DOMAIN s : s[k].role = "user"
LastSaid == IF loop.results = 0 THEN Assistant(loop.turn, loop.calls)
            ELSE Result(loop.turn, loop.results)
Said ==
    /\ Adjacent(agent.messages)
    /\ loop.pc \in OfBatch =>
          /\ loop.calls >= 1
          /\ agent.messages # <<>> => agent.messages[Len(agent.messages)] = LastSaid
Users == UserOnly(loop.pending) /\ UserOnly(queue.steering) /\ UserOnly(queue.followUp)
Replied ==
    /\ loop.pc \in {"start", "prompts", "pollSteering", "top", "inject", "request", "pollFollowUp"} =>
          ~loop.stopped
    /\ loop.pc \in {"await", "results"} /\ ~run.aborted /\ ~loop.sequential =>
          loop.started = loop.calls
    /\ loop.pc \in InRun \ (OfBatch \cup {"stream", "agentEnd"}) /\ ~run.aborted /\ ~loop.stopped =>
          \A i \in 1 .. loop.calls : Result(loop.turn, i) \in Range(loop.context)
Replies == Said /\ Users /\ Replied

\* Messages that came in the same way, in the order they were queued.
Precedes(m, l) == m.role = "user" /\ l.role = "user" /\ m.i = l.i /\ m.i # Prompted => m.n < l.n
Ordered(s) == \A j, k \in DOMAIN s : j < k => Precedes(s[j], s[k])
Before(s, t) == \A j \in DOMAIN s, k \in DOMAIN t : Precedes(s[j], t[k])
Known(s) == \A k \in DOMAIN s : s[k].role = "user" => s[k].n <= made
OnlyVia(s, via) == \A k \in DOMAIN s : s[k].i = via
InTurn ==
    /\ Ordered(agent.messages) /\ Ordered(loop.pending)
    /\ Ordered(queue.steering) /\ Ordered(queue.followUp)
    /\ Before(agent.messages, loop.pending) /\ Before(agent.messages, queue.steering)
    /\ Before(agent.messages, queue.followUp)
    /\ Before(loop.pending, queue.steering) /\ Before(loop.pending, queue.followUp)
    /\ OnlyVia(queue.steering, Steered) /\ OnlyVia(queue.followUp, FollowedUp)
    /\ Known(agent.messages) /\ Known(loop.pending)
    /\ Known(queue.steering) /\ Known(queue.followUp)

\* Where every message that was made is.
Accounted ==
    /\ 1 .. made = log.cleared \cup log.lost \cup Numbers(agent.messages) \cup Numbers(loop.pending)
                     \cup Numbers(queue.steering) \cup Numbers(queue.followUp)
    /\ log.faults = {} => log.lost = {}

-----------------------------------------------------------------------------
(* Tool calls shown as pending *)

LEMMA ShapeKept == ASSUME Types, Types', Shape, Kind PROVE Shape'
<1>a. /\ run.id \in Nat /\ run'.id \in Nat /\ loop.pc \in LoopPc /\ run.active \in BOOLEAN
      /\ run'.active \in BOOLEAN
  BY DEF Types, RunType, LoopType
<1>b. ASSUME Threw, Elsewhere, loop.pc \notin {"idle", "finish"} PROVE Shape'
  BY <1>a, <1>b DEF Shape, Threw, Elsewhere, Ended
<1>1. CASE ThrewQuietly
  BY <1>1, <1>b DEF ThrewQuietly
<1>2. CASE ThrewSaying
  BY <1>2, <1>b DEF ThrewSaying, Sayable
<1>3. CASE Moves
  BY <1>3, <1>a DEF Shape, Moves, SameLoop, SameTalk, Place, Elsewhere, Ended
<1>4. CASE Takes
  BY <1>4, <1>a DEF Shape, Takes, Place, Elsewhere, Ended
<1>5. ASSUME NEW mode \in QueueModes, Polls(mode) PROVE Shape'
  BY <1>5, <1>a DEF Shape, Polls, Place, Ended
<1>6. CASE Requests
  BY <1>6, <1>a DEF Shape, Requests, Place, Elsewhere, Ended
<1>7. ASSUME NEW n \in 0 .. MaxCalls, Answers(n) PROVE Shape'
  BY <1>7, <1>a DEF Shape, Answers, Elsewhere, Ended
<1>8. CASE StartsCall
  BY <1>8, <1>a DEF Shape, StartsCall, SameTalk, Place, Elsewhere, Ended
<1>9. CASE EndsAtOnce
  BY <1>9, <1>a DEF Shape, EndsAtOnce, SameTalk, Place, Elsewhere, Ended
<1>10. CASE Prepares
  BY <1>10, <1>a DEF Shape, Prepares, SameTalk, Place, Elsewhere, Ended
<1>11. CASE Executes
  BY <1>11, <1>a DEF Shape, Executes, SameLoop, SameTalk, Place, Elsewhere, Ended
<1>12. ASSUME NEW c \in tools, ToolEnds(c) PROVE Shape'
  BY <1>12, <1>a DEF Shape, ToolEnds, Awaited, At, SameTalk, Elsewhere, Ended
<1>13. ASSUME NEW c \in tools, ToolStrays(c) PROVE Shape'
  BY <1>13, <1>a DEF Shape, ToolStrays, Elsewhere, Ended
<1>14. CASE SaysResult
  BY <1>14, <1>a DEF Shape, SaysResult, SameTalk, Place, Elsewhere, Ended
<1>15. CASE BatchEnds
  BY <1>15, <1>a DEF Shape, BatchEnds, Place, Elsewhere, Ended
<1>16. CASE Fails
  BY <1>16, <1>a DEF Shape, Fails, SameLoop, SameTalk, Place, Elsewhere, Ended
<1>17. CASE Finishes
  BY <1>17, <1>a DEF Shape, Finishes, Place, Ended
<1>18. ASSUME NEW mode \in QueueModes, NEW prompts \in Seq(Message), Begins(prompts, mode) PROVE Shape'
  BY <1>18, <1>a DEF Shape, Begins, Ended
<1>19. CASE Queues \/ UNCHANGED vars
  BY <1>19 DEF Shape, Queues, vars
<1>20. CASE Clears
  BY <1>20 DEF Shape, Clears
<1>21. CASE Aborts
  BY <1>21 DEF Shape, Aborts
<1>22. CASE Resets
  BY <1>22 DEF Shape, Resets
<1> QED
  BY <1>1, <1>2, <1>3, <1>4, <1>5, <1>6, <1>7, <1>8, <1>9, <1>10, <1>11, <1>12, <1>13, <1>14,
     <1>15, <1>16, <1>17, <1>18, <1>19, <1>20, <1>21, <1>22 DEF Kind, LoopKind, UserKind

LEMMA BatchKept == ASSUME Types, Types', Shape, Batch, Flight, Kind PROVE Batch'
<1>a. /\ loop.started \in Nat /\ loop'.started \in Nat /\ loop.pc \in LoopPc
      /\ loop.done \in SUBSET Nat /\ loop.prepared \in SUBSET Nat
  BY DEF Types, LoopType
<1>b. ASSUME Threw PROVE Batch'
  BY <1>b DEF Batch, Threw, SameTools, Ended
<1>1. CASE ThrewQuietly \/ ThrewSaying
  BY <1>1, <1>b DEF ThrewQuietly, ThrewSaying
<1>3. CASE Moves
  BY <1>3, <1>a DEF Batch, Moves, SameLoop, SameTools, Place, Ended
<1>4. CASE Takes
  BY <1>4, <1>a DEF Batch, Takes, SameTools, Place, Ended
<1>5. ASSUME NEW mode \in QueueModes, Polls(mode) PROVE Batch'
  BY <1>5, <1>a DEF Batch, Polls, SameTools, Place, Ended
<1>6. CASE Requests
  BY <1>6, <1>a DEF Batch, Requests, SameTools, Place, Ended
<1>7. ASSUME NEW n \in 0 .. MaxCalls, Answers(n) PROVE Batch'
  BY <1>7, <1>a DEF Batch, Answers, Ended
<1>8. CASE StartsCall
  BY <1>8, <1>a DEF Batch, StartsCall, Place, Ended
<1>9. CASE EndsAtOnce
  BY <1>9, <1>a DEF Batch, EndsAtOnce, Place, Ended
<1>10. CASE Prepares
  BY <1>10, <1>a DEF Batch, Prepares, Place, Ended
<1>11. CASE Executes
  BY <1>11, <1>a DEF Batch, Executes, SameLoop, SameTools, Place, Ended
<1>12. ASSUME NEW c \in tools, ToolEnds(c) PROVE Batch'
  <2>1. run.active /\ run.id \notin log.faults
    BY <1>12 DEF ToolEnds, Awaited, At, Shape, Ended
  <2>2. c.i \in 1 .. loop.started
    BY <1>12, <2>1 DEF Batch, Flight, ToolEnds, Awaited
  <2> QED
    BY <1>12, <1>a, <2>2 DEF Batch, ToolEnds, Awaited, At, Ended
<1>13. ASSUME NEW c \in tools, ToolStrays(c) PROVE Batch'
  BY <1>13 DEF Batch, ToolStrays
<1>14. CASE SaysResult
  BY <1>14, <1>a DEF Batch, SaysResult, Place, Ended
<1>15. CASE BatchEnds
  BY <1>15, <1>a DEF Batch, BatchEnds, SameTools, Place, Ended
<1>16. CASE Fails
  BY <1>16, <1>a DEF Batch, Fails, SameLoop, SameTools, Place, Ended
<1>17. CASE Finishes
  BY <1>17 DEF Batch, Finishes, FreshLoop, Place, Ended
<1>18. ASSUME NEW mode \in QueueModes, NEW prompts \in Seq(Message), Begins(prompts, mode) PROVE Batch'
  BY <1>18 DEF Batch, Begins, FreshLoop, Ended
<1>19. CASE Queues \/ UNCHANGED vars
  BY <1>19 DEF Batch, Queues, vars
<1>20. CASE Clears \/ Aborts \/ Resets
  BY <1>20 DEF Batch, Clears, Aborts, Resets
<1> QED
  BY <1>1, <1>3, <1>4, <1>5, <1>6, <1>7, <1>8, <1>9, <1>10, <1>11, <1>12, <1>13, <1>14,
     <1>15, <1>16, <1>17, <1>18, <1>19, <1>20 DEF Kind, LoopKind, UserKind

LEMMA FlightKept == ASSUME Types, Types', Shape, Batch, Flight, Kind PROVE Flight'
<1>a. /\ loop.started \in Nat /\ loop'.started \in Nat /\ loop.pc \in LoopPc
      /\ loop.done \in SUBSET Nat /\ loop.prepared \in SUBSET Nat
      /\ run.id \in Nat /\ loop.turn \in Nat /\ tools \subseteq Execution
      /\ \A c \in tools : c.run \in Nat /\ c.turn \in Nat /\ c.i \in Nat
  BY DEF Types, LoopType, RunType, Execution
\* The executions that were in flight before.
<1>b. ASSUME tools' \subseteq tools, run'.id = run.id, log.faults \subseteq log'.faults,
             loop'.turn = loop.turn,
             loop.pc = "await" /\ run.id \notin log'.faults
               => loop'.pc = "await" /\ loop'.prepared = loop.prepared /\ loop'.done = loop.done,
             loop'.pc \in {"stream", "call"} \/ loop'.started > 0
               => loop.pc \in {"stream", "call"} \/ loop.started > 0
      PROVE  Flight'
  BY <1>a, <1>b DEF Flight
<1>c. ASSUME Threw, Elsewhere, tools' \subseteq tools PROVE Flight'
  BY <1>b, <1>c DEF Threw, Elsewhere, SameTools, SameBatch
<1>1. CASE ThrewQuietly \/ ThrewSaying
  BY <1>1, <1>c DEF ThrewQuietly, ThrewSaying
<1>3. CASE Moves
  <2>1. CASE loop.pc = "await"
    <3>1. loop'.pc = "results" /\ loop.done = 1 .. loop.started /\ loop.prepared \subseteq 1 .. loop.started
      BY <1>3, <2>1 DEF Moves, Place, Batch
    <3> QED
      BY <1>3, <1>a, <2>1, <3>1 DEF Flight, Moves, SameLoop, SameTools, SameBatch, Elsewhere
  <2>2. CASE loop.pc # "await"
    BY <1>3, <1>a, <1>b, <2>2 DEF Moves, SameLoop, SameTools, SameBatch, Place, Elsewhere, Batch
  <2> QED
    BY <2>1, <2>2
<1>4. CASE Takes
  BY <1>4, <1>b DEF Takes, SameTools, SameBatch, Place, Elsewhere
<1>5. ASSUME NEW mode \in QueueModes, Polls(mode) PROVE Flight'
  BY <1>5, <1>b DEF Polls, SameTools, SameBatch, Place
<1>6. CASE Requests
  BY <1>6, <1>a DEF Flight, Requests, SameTools, Place, Elsewhere
<1>7. ASSUME NEW n \in 0 .. MaxCalls, Answers(n) PROVE Flight'
  BY <1>7, <1>b DEF Answers, Elsewhere
<1>8. CASE StartsCall
  BY <1>8, <1>b DEF StartsCall, SameBatch, Place, Elsewhere
<1>9. CASE EndsAtOnce
  BY <1>9, <1>b DEF EndsAtOnce, SameBatch, Place, Elsewhere
<1>10. CASE Prepares
  BY <1>10, <1>b DEF Prepares, SameBatch, Place, Elsewhere
<1>11. CASE Executes
  <2>1. \A i \in loop.prepared \ loop.done :
           InFlight(i).run = run.id /\ InFlight(i).turn = loop.turn /\ InFlight(i).i = i
    BY DEF InFlight
  <2>2. \A c \in tools' : c \in tools \/ \E i \in loop.prepared \ loop.done : c = InFlight(i)
    BY <1>11 DEF Executes
  <2> QED
    BY <1>11, <1>a, <2>1, <2>2 DEF Flight, Executes, SameLoop, SameTools, SameBatch, Place, Elsewhere
<1>12. ASSUME NEW c \in tools, ToolEnds(c) PROVE Flight'
  <2>1. run.active /\ run.id \notin log.faults /\ c.run = run.id /\ c.turn = loop.turn
        /\ loop.pc = "await" /\ loop'.pc = "await"
    BY <1>12 DEF ToolEnds, Awaited, At, Shape, Ended
  <2>2. ASSUME NEW d \in tools' PROVE d \in tools /\ (d.run = run.id => d.i # c.i)
    <3>1. d \in tools /\ d # c
      BY <1>12 DEF ToolEnds
    <3>2. d.run = run.id => d.turn = loop.turn
      BY <2>1, <3>1 DEF Flight
    <3>3. d \in Execution /\ c \in Execution
      BY <1>a, <3>1
    <3> QED
      BY <2>1, <3>1, <3>2, <3>3 DEF Execution
  <2> QED
    BY <1>12, <1>a, <2>1, <2>2 DEF Flight, ToolEnds, SameBatch, Elsewhere
<1>13. ASSUME NEW c \in tools, ToolStrays(c) PROVE Flight'
  BY <1>13, <1>b DEF ToolStrays, Elsewhere
<1>14. CASE SaysResult
  BY <1>14, <1>b DEF SaysResult, SameBatch, Place, Elsewhere
<1>15. CASE BatchEnds
  BY <1>15, <1>b DEF BatchEnds, SameTools, SameBatch, Place, Elsewhere
<1>16. CASE Fails
  BY <1>16, <1>b DEF Fails, SameLoop, SameTools, SameBatch, Place, Elsewhere
<1>17. CASE Finishes
  BY <1>17, <1>b DEF Finishes, FreshLoop, Place
<1>18. ASSUME NEW mode \in QueueModes, NEW prompts \in Seq(Message), Begins(prompts, mode) PROVE Flight'
  BY <1>18, <1>a DEF Flight, Begins, FreshLoop
<1>19. CASE Queues \/ UNCHANGED vars
  BY <1>19 DEF Flight, Queues, vars
<1>20. CASE Clears \/ Aborts \/ Resets
  BY <1>20 DEF Flight, Clears, Aborts, Resets
<1> QED
  BY <1>1, <1>3, <1>4, <1>5, <1>6, <1>7, <1>8, <1>9, <1>10, <1>11, <1>12, <1>13, <1>14,
     <1>15, <1>16, <1>17, <1>18, <1>19, <1>20 DEF Kind, LoopKind, UserKind

LEMMA PendingKept ==
    ASSUME Types, Types', ToolInv, Shape', Batch', Kind
    PROVE  PendingToolCallsExact'
<1> DEFINE Open(t, n, done) == {<<t, i>> : i \in (1 .. n) \ done}
<1>a. /\ loop.started \in Nat /\ loop'.started \in Nat /\ loop.turn \in Nat /\ loop.pc \in LoopPc
      /\ loop.done \in SUBSET Nat /\ run.id \in Nat /\ run.active \in BOOLEAN
      /\ \A c \in tools : c.run \in Nat /\ c.turn \in Nat /\ c.i \in Nat
  BY DEF Types, LoopType, RunType, Execution
<1>b. /\ Shape /\ Batch /\ Flight
      /\ ~run.active => agent.pendingToolCalls = {}
      /\ run.active /\ Undisturbed =>
            agent.pendingToolCalls = Open(loop.turn, loop.started, loop.done)
  BY DEF ToolInv, PendingToolCallsExact
<1>c. ASSUME ~run'.active => agent'.pendingToolCalls = {},
             run'.active /\ Undisturbed' =>
               agent'.pendingToolCalls = Open(loop'.turn, loop'.started, loop'.done)
      PROVE  PendingToolCallsExact'
  BY <1>c DEF PendingToolCallsExact
\* Nothing that matters changes, in a run that is active.
<1>d. ASSUME loop.pc # "idle", run'.active = run.active, run'.id = run.id, log' = log,
             agent'.pendingToolCalls = agent.pendingToolCalls,
             loop'.turn = loop.turn, loop'.started = loop.started, loop'.done = loop.done
      PROVE  PendingToolCallsExact'
  BY <1>b, <1>c, <1>d DEF Shape, Undisturbed
<1>e. ASSUME run.active, UNCHANGED run, run.id \in log'.faults PROVE PendingToolCallsExact'
  BY <1>c, <1>e DEF Undisturbed
<1>1. CASE ThrewQuietly
  BY <1>1, <1>b, <1>e DEF ThrewQuietly, Threw, Elsewhere, Shape
<1>2. CASE ThrewSaying
  BY <1>2, <1>b, <1>e DEF ThrewSaying, Sayable, Threw, Elsewhere, Shape
<1>3. CASE Moves
  BY <1>3, <1>d DEF Moves, Silent, SameLoop, SameTools, SameBatch, Place, Elsewhere
<1>4. CASE Takes
  BY <1>4, <1>d DEF Takes, Says, SameTools, SameBatch, Place, Elsewhere
<1>5. ASSUME NEW mode \in QueueModes, Polls(mode) PROVE PendingToolCallsExact'
  BY <1>5, <1>d DEF Polls, Silent, SameTools, SameBatch, Place
<1>6. CASE Requests
  <2>1. (1 .. loop.started) \ loop.done = {} /\ loop'.started = loop.started /\ loop'.done = loop.done
    BY <1>6, <1>b DEF Batch, Requests, SameTools, Place, Ended
  <2>2. Open(loop.turn, loop.started, loop.done) = Open(loop'.turn, loop'.started, loop'.done)
    BY <2>1
  <2> HIDE DEF Open
  <2> QED
    BY <1>6, <1>b, <1>c, <2>2 DEF Requests, Silent, Shape, Undisturbed, Place, Elsewhere
<1>7. ASSUME NEW n \in 0 .. MaxCalls, Answers(n) PROVE PendingToolCallsExact'
  <2>0. loop.pc = "stream" /\ loop'.started = 0
    BY <1>7 DEF Answers
  <2>1. (1 .. loop.started) \ loop.done = {}
    BY <2>0, <1>b DEF Batch, Ended
  <2>a. 1 .. 0 = {}
    OBVIOUS
  <2>b. 1 .. loop'.started = {}
    BY <2>0, <2>a
  <2>2. Open(loop.turn, loop.started, loop.done) = Open(loop'.turn, loop'.started, loop'.done)
    BY <2>1, <2>b
  <2> HIDE DEF Open
  <2> QED
    BY <1>7, <1>b, <1>c, <2>2 DEF Answers, Says, Shape, Undisturbed, Elsewhere
<1>8. CASE StartsCall
  <2> DEFINE k == loop.started + 1
  <2>1. (1 .. loop'.started) \ loop'.done = ((1 .. loop.started) \ loop.done) \cup {k}
    BY <1>8, <1>a, <1>b DEF Batch, StartsCall
  <2>2. Open(loop'.turn, loop'.started, loop'.done)
          = Open(loop.turn, loop.started, loop.done) \cup {<<loop.turn, k>>}
    <3> HIDE DEF k
    <3> QED
      BY <1>8, <2>1 DEF StartsCall, SameBatch
  <2> HIDE DEF Open
  <2> QED
    BY <1>8, <1>b, <1>c, <2>2 DEF StartsCall, Shape, Undisturbed, Place, Elsewhere
<1>9. CASE EndsAtOnce
  <2>1. (1 .. loop'.started) \ loop'.done = ((1 .. loop.started) \ loop.done) \ {loop.started}
    BY <1>9 DEF EndsAtOnce
  <2>2. Open(loop'.turn, loop'.started, loop'.done)
          = Open(loop.turn, loop.started, loop.done) \ {<<loop.turn, loop.started>>}
    BY <1>9, <2>1 DEF EndsAtOnce, SameBatch
  <2> HIDE DEF Open
  <2> QED
    BY <1>9, <1>b, <1>c, <2>2 DEF EndsAtOnce, Shape, Undisturbed, Place, Elsewhere
<1>10. CASE Prepares
  BY <1>10, <1>d DEF Prepares, Silent, SameBatch, Place, Elsewhere
<1>11. CASE Executes
  BY <1>11, <1>d DEF Executes, Silent, SameLoop, SameTools, SameBatch, Place, Elsewhere
<1>12. ASSUME NEW c \in tools, ToolEnds(c) PROVE PendingToolCallsExact'
  <2>1. (1 .. loop'.started) \ loop'.done = ((1 .. loop.started) \ loop.done) \ {c.i}
        /\ c.turn = loop.turn /\ loop.pc = "await"
    BY <1>12 DEF ToolEnds, Awaited, At
  <2>2. Open(loop'.turn, loop'.started, loop'.done)
          = Open(loop.turn, loop.started, loop.done) \ {<<c.turn, c.i>>}
    BY <1>12, <2>1 DEF ToolEnds, SameBatch
  <2> HIDE DEF Open
  <2> QED
    BY <1>12, <1>b, <1>c, <2>1, <2>2 DEF ToolEnds, Shape, Undisturbed, Elsewhere
\* An execution that nobody awaits ends: its call is not shown as pending.
<1>13. ASSUME NEW c \in tools, ToolStrays(c) PROVE PendingToolCallsExact'
  <2>1. ASSUME run.id \notin log.faults
        PROVE  <<c.turn, c.i>> \notin Open(loop.turn, loop.started, loop.done)
    <3>1. c.run # run.id
      BY <1>13, <1>b, <2>1 DEF ToolStrays, Flight, Awaited, At
    <3>2. loop.started > 0 => c.turn # loop.turn
      BY <1>a, <1>b, <3>1 DEF Flight
    <3> QED
      BY <1>a, <3>2
  <2> HIDE DEF Open
  <2>2. /\ run' = run /\ loop' = loop /\ log' = log
        /\ agent'.pendingToolCalls = agent.pendingToolCalls
             \/ agent'.pendingToolCalls = agent.pendingToolCalls \ {<<c.turn, c.i>>}
    BY <1>13 DEF ToolStrays, Elsewhere
  <2> QED
    BY <1>b, <1>c, <2>1, <2>2 DEF Undisturbed
<1>14. CASE SaysResult
  BY <1>14, <1>d DEF SaysResult, Says, SameBatch, Place, Elsewhere
<1>15. CASE BatchEnds
  BY <1>15, <1>d DEF BatchEnds, Silent, SameTools, SameBatch, Place, Elsewhere
<1>16. CASE Fails
  BY <1>16, <1>d DEF Fails, Says, SameLoop, SameTools, SameBatch, Place, Elsewhere
<1>17. CASE Finishes
  BY <1>17, <1>c DEF Finishes
<1>18. ASSUME NEW mode \in QueueModes, NEW prompts \in Seq(Message), Begins(prompts, mode)
       PROVE PendingToolCallsExact'
  <2>1. Open(loop'.turn, loop'.started, loop'.done) = {}
    BY <1>18 DEF Begins, FreshLoop
  <2> HIDE DEF Open
  <2> QED
    BY <1>18, <1>b, <1>c, <2>1 DEF Begins, Silent
<1>19. CASE Queues \/ UNCHANGED vars
  BY <1>19, <1>b, <1>c DEF Queues, vars, Undisturbed
<1>20. CASE Clears \/ Aborts
  BY <1>20, <1>b, <1>c DEF Clears, Aborts, Undisturbed
<1>21. CASE Resets
  BY <1>21, <1>c DEF Resets, Undisturbed
<1> QED
  BY <1>1, <1>2, <1>3, <1>4, <1>5, <1>6, <1>7, <1>8, <1>9, <1>10, <1>11, <1>12, <1>13, <1>14,
     <1>15, <1>16, <1>17, <1>18, <1>19, <1>20, <1>21 DEF Kind, LoopKind, UserKind

LEMMA ToolsAtStart == ASSUME Init PROVE ToolInv
<1>1. /\ run = [id |-> 0, active |-> FALSE, aborted |-> FALSE] /\ loop = IdleLoop /\ tools = {}
      /\ log = [cleared |-> {}, lost |-> {}, faults |-> {}, forgot |-> FALSE]
      /\ agent.pendingToolCalls = {}
  BY DEF Init
<1>2. Shape /\ Batch
  BY <1>1 DEF Shape, Batch, IdleLoop, Ended
<1>3. Flight /\ PendingToolCallsExact
  BY <1>1 DEF Flight, PendingToolCallsExact
<1> QED
  BY <1>2, <1>3 DEF ToolInv

LEMMA ToolKept == ASSUME Types, ToolInv, [Next]_vars PROVE Types' /\ ToolInv'
<1>1. Types' /\ Kind
  BY Kinds
<1>2. Shape /\ Batch /\ Flight
  BY DEF ToolInv
<1>3. Shape' /\ Batch' /\ Flight'
  BY <1>1, <1>2, ShapeKept, BatchKept, FlightKept
<1>4. PendingToolCallsExact'
  BY <1>1, <1>3, PendingKept
<1> QED
  BY <1>1, <1>3, <1>4 DEF ToolInv

\* The pending tool calls that the agent shows (pendingToolCalls, agent.ts) are
\* exactly the calls begun and not ended, whatever parallel calls, aborts, blocked
\* calls, throwing listeners and executions of failed batches interleave; an idle
\* agent shows none.
THEOREM PendingIsExact == Spec => []PendingToolCallsExact
<1>1. Init => Types /\ ToolInv
  BY InitTypes, ToolsAtStart
<1>2. Types /\ ToolInv /\ [Next]_vars => (Types /\ ToolInv)'
  BY ToolKept
<1>3. ToolInv => PendingToolCallsExact
  BY DEF ToolInv
<1> QED
  BY <1>1, <1>2, <1>3, PTL DEF Spec

-----------------------------------------------------------------------------
(* The loop's context and the transcript *)

LEMMA TakeHead ==
    ASSUME NEW s \in Seq(Message), NEW t \in Seq(Message), t # <<>>
    PROVE  /\ Head(t) \in Message /\ Tail(t) \in Seq(Message) /\ Append(s, Head(t)) \in Seq(Message)
           /\ Append(s, Head(t)) \o Tail(t) = s \o t
<1>1. Head(t) \in Message /\ Tail(t) \in Seq(Message) /\ Append(s, Head(t)) \in Seq(Message)
  OBVIOUS
<1> DEFINE a == Append(s, Head(t)) \o Tail(t)
<1>2. a \in Seq(Message) /\ Len(a) = Len(s) + Len(t) /\ s \o t \in Seq(Message) /\ Len(s \o t) = Len(s) + Len(t)
  BY <1>1
<1>3. ASSUME NEW k \in 1 .. Len(s) + Len(t) PROVE a[k] = (s \o t)[k]
  OBVIOUS
<1>4. a = s \o t
  <2> DEFINE b == s \o t
  <2>1. b \in Seq(Message) /\ Len(b) = Len(s) + Len(t) /\ \A k \in 1 .. Len(s) + Len(t) : a[k] = b[k]
    BY <1>2, <1>3
  <2> HIDE DEF a, b
  <2>2. a = b
    BY <1>2, <2>1
  <2> QED
    BY <2>2 DEF b
<1> QED
  BY <1>1, <1>4

LEMMA AppendInside ==
    ASSUME NEW s \in Seq(Message), NEW t \in Seq(Message), NEW m \in Message
    PROVE  Append(s \o t, m) = s \o Append(t, m)
<1> DEFINE a == Append(s \o t, m)
           b == s \o Append(t, m)
<1>1. a \in Seq(Message) /\ b \in Seq(Message) /\ Len(a) = Len(s) + Len(t) + 1 /\ Len(b) = Len(s) + Len(t) + 1
  OBVIOUS
<1>2. ASSUME NEW k \in 1 .. Len(s) + Len(t) + 1 PROVE a[k] = b[k]
  OBVIOUS
<1>3. a = b
  <2> HIDE DEF a, b
  <2> QED
    BY <1>1, <1>2
<1> QED
  BY <1>3

LEMMA FrontOfAppend ==
    ASSUME NEW s \in Seq(Message), NEW m \in Message
    PROVE  Front(Append(s, m)) = s
<1> DEFINE a == Append(s, m)
           f == Front(a)
<1>1. a \in Seq(Message) /\ Len(a) = Len(s) + 1 /\ \A k \in 1 .. Len(s) : a[k] = s[k]
  OBVIOUS
<1>2. f = SubSeq(a, 1, Len(a) - 1)
  BY DEF Front
<1> HIDE DEF a
<1>3. f \in Seq(Message) /\ Len(f) = Len(s) /\ \A k \in 1 .. Len(s) : f[k] = a[k]
  BY <1>1, <1>2
<1> HIDE DEF f
<1>4. f = s
  BY <1>1, <1>3
<1> QED
  BY <1>4 DEF f, a

LEMMA OneMoreAnswer ==
    ASSUME NEW t \in Nat, NEW n \in Nat
    PROVE  /\ [k \in 1 .. n |-> Result(t, k)] \in Seq(Message)
           /\ [k \in 1 .. n + 1 |-> Result(t, k)] = Append([k \in 1 .. n |-> Result(t, k)], Result(t, n + 1))
<1> DEFINE r == [k \in 1 .. n |-> Result(t, k)]
           q == [k \in 1 .. n + 1 |-> Result(t, k)]
<1>1. \A k \in Nat : Result(t, k) \in Message
  BY MessageTypes
<1>2. r \in Seq(Message) /\ Len(r) = n /\ q \in Seq(Message) /\ Len(q) = n + 1
  BY <1>1
<1>3. Append(r, Result(t, n + 1)) \in Seq(Message) /\ Len(Append(r, Result(t, n + 1))) = n + 1
  BY <1>1, <1>2
<1>4. ASSUME NEW k \in 1 .. n + 1 PROVE Append(r, Result(t, n + 1))[k] = q[k]
  BY <1>2
<1>5. Append(r, Result(t, n + 1)) = q
  <2> DEFINE a == Append(r, Result(t, n + 1))
  <2>1. a \in Seq(Message) /\ Len(a) = n + 1 /\ \A k \in 1 .. n + 1 : a[k] = q[k]
    BY <1>3, <1>4
  <2> HIDE DEF a, q
  <2>2. a = q
    BY <1>2, <2>1
  <2> QED
    BY <2>2 DEF a
<1> QED
  BY <1>2, <1>5

\* What Mirrors says at one place of the loop.
MirrorAt(pc, messages, pending, context, turn, answered) ==
    /\ pc \in {"start", "prompts"} => context = messages \o pending
    /\ pc \in {"pollSteering", "top", "inject", "request", "turnEnd", "pollFollowUp"} =>
          context = messages
    /\ pc = "stream" => context = Append(messages, Assistant(turn, 0))
    /\ pc \in OfBatch => messages = context \o answered

LEMMA MirrorsKept ==
    ASSUME Types, Types', Shape, Shape', Mirrors, Kind
    PROVE  Mirrors'
<1>a. /\ agent.messages \in Seq(Message) /\ loop.context \in Seq(Message)
      /\ loop.pending \in Seq(Message) /\ loop.turn \in Nat /\ loop.results \in Nat
      /\ loop.started \in Nat /\ run.active \in BOOLEAN /\ run.id \in Nat
  BY LoopParts DEF RunType
<1> DEFINE Mirror == MirrorAt(loop.pc, agent.messages, loop.pending, loop.context, loop.turn, Answered)
           Mirror2 == MirrorAt(loop'.pc, agent'.messages, loop'.pending, loop'.context, loop'.turn, Answered')
<1>b. run.active /\ Undisturbed => Mirror
  BY DEF Mirrors, MirrorAt
<1>c. ASSUME run'.active /\ Undisturbed' => Mirror2 PROVE Mirrors'
  BY <1>c DEF Mirrors, MirrorAt
<1>d. ASSUME loop.pc # "idle", run'.id = run.id, log' = log, Mirror => Mirror2 PROVE Mirrors'
  BY <1>b, <1>c, <1>d DEF Shape, Undisturbed
\* Neither the transcript nor the context changes.
<1>e. ASSUME agent'.messages = agent.messages, SameTalk,
             loop'.turn = loop.turn, loop'.results = loop.results,
             loop'.pc \in {"agentEnd", "finish"} \/ loop'.pc = loop.pc
               \/ {loop.pc, loop'.pc} \subseteq {"start", "prompts"}
               \/ {loop.pc, loop'.pc} \subseteq {"pollSteering", "top", "inject", "request", "turnEnd", "pollFollowUp"}
               \/ {loop.pc, loop'.pc} \subseteq OfBatch
      PROVE  Mirror => Mirror2
  BY <1>e DEF MirrorAt, SameTalk, Answered, OfBatch
<1> HIDE DEF Mirror, Mirror2
<1>f. ASSUME run.active, UNCHANGED run, run.id \in log'.faults PROVE Mirrors'
  BY <1>c, <1>f DEF Undisturbed
<1>1. CASE ThrewQuietly
  BY <1>1, <1>f DEF ThrewQuietly, Threw, Elsewhere, Shape
<1>2. CASE ThrewSaying
  BY <1>2, <1>f DEF ThrewSaying, Sayable, Threw, Elsewhere, Shape
<1>3. CASE Moves
  <2>0. agent'.messages = agent.messages /\ SameTalk /\ loop'.turn = loop.turn
        /\ loop'.results = loop.results /\ run' = run /\ log' = log /\ loop.pc # "idle"
    BY <1>3 DEF Moves, Silent, SameLoop, SameTools, SameBatch, Elsewhere, Place
  <2>1. CASE Place("prompts", "pollSteering") /\ loop.pending = <<>>
    <3>1. agent.messages \o loop.pending = agent.messages
      BY <1>a, <2>1
    <3>2. Mirror => Mirror2
      BY <2>0, <2>1, <3>1 DEF Mirror, Mirror2, MirrorAt, SameTalk, Place, OfBatch
    <3> QED
      BY <1>d, <2>0, <3>2
  <2>2. CASE ~(Place("prompts", "pollSteering") /\ loop.pending = <<>>)
    <3>1. loop'.pc \in {"agentEnd", "finish"}
            \/ {loop.pc, loop'.pc} \subseteq {"start", "prompts"}
            \/ {loop.pc, loop'.pc} \subseteq {"pollSteering", "top", "inject", "request", "turnEnd", "pollFollowUp"}
            \/ {loop.pc, loop'.pc} \subseteq OfBatch
      BY <1>3, <2>2 DEF Moves, Place, OfBatch
    <3>2. Mirror => Mirror2
      BY <1>e, <2>0, <3>1
    <3> QED
      BY <1>d, <2>0, <3>2
  <2> QED
    BY <2>1, <2>2
<1>4. CASE Takes
  <2>0. /\ loop.pending # <<>> /\ agent'.messages = Append(agent.messages, Head(loop.pending))
        /\ loop'.pending = Tail(loop.pending) /\ run' = run /\ log' = log
        /\ \/ loop.pc = "prompts" /\ loop'.pc = "prompts" /\ loop'.context = loop.context
           \/ /\ loop.pc = "inject" /\ loop'.pc = "inject"
              /\ loop'.context = Append(loop.context, Head(loop.pending))
    BY <1>4 DEF Takes, Says, Place, Elsewhere
  <2>1. agent'.messages \o loop'.pending = agent.messages \o loop.pending
    <3>1. loop.pending # <<>> => Append(agent.messages, Head(loop.pending)) \o Tail(loop.pending)
                                   = agent.messages \o loop.pending
      BY <1>a, TakeHead, Zenon
    <3> QED
      BY <2>0, <3>1
  <2>2. Mirror => Mirror2
    BY <2>0, <2>1 DEF Mirror, Mirror2, MirrorAt, OfBatch
  <2> QED
    BY <1>d, <2>0, <2>2
<1>5. ASSUME NEW mode \in QueueModes, Polls(mode) PROVE Mirrors'
  <2>0. agent'.messages = agent.messages /\ loop'.context = loop.context /\ run' = run /\ log' = log
        /\ loop.pc \in {"pollSteering", "pollFollowUp"} /\ loop'.pc = "top"
    BY <1>5 DEF Polls, Silent, Place
  <2>1. Mirror => Mirror2
    BY <2>0 DEF Mirror, Mirror2, MirrorAt, OfBatch
  <2> QED
    BY <1>d, <2>0, <2>1
<1>6. CASE Requests
  <2>0. /\ agent'.messages = agent.messages /\ run' = run /\ log' = log /\ loop'.turn = loop.turn + 1
        /\ loop'.context = Append(loop.context, Assistant(loop.turn + 1, 0))
        /\ loop.pc = "request" /\ loop'.pc = "stream"
    BY <1>6 DEF Requests, Silent, Place, Elsewhere
  <2>1. Mirror => Mirror2
    BY <2>0 DEF Mirror, Mirror2, MirrorAt, OfBatch
  <2> QED
    BY <1>d, <2>0, <2>1
<1>7. ASSUME NEW n \in 0 .. MaxCalls, Answers(n) PROVE Mirrors'
  <2> DEFINE m == Assistant(loop.turn, n)
             partial == Assistant(loop.turn, 0)
  <2>0. /\ agent'.messages = Append(agent.messages, m) /\ run' = run /\ log' = log
        /\ loop'.context = Append(Front(loop.context), m) /\ loop'.results = 0
        /\ loop.pc = "stream" /\ loop'.pc \in {"call", "turnEnd"}
    BY <1>7 DEF Answers, Says, Elsewhere
  <2>1. m \in Message /\ partial \in Message /\ n \in Nat
    BY <1>a, MessageTypes, AgentLoopAssumption
  <2>2. Front(Append(agent.messages, partial)) = agent.messages
    <3> HIDE DEF partial
    <3> QED
      BY <1>a, <2>1, FrontOfAppend
  <2>3. Answered' = <<>>
    <3>1. 1 .. 0 = {}
      OBVIOUS
    <3>2. Answered' = [k \in {} |-> Result(loop'.turn, k)]
      BY <2>0, <3>1 DEF Answered
    <3> QED
      BY <3>2
  <2>4. Append(agent.messages, m) \o <<>> = Append(agent.messages, m)
    <3> HIDE DEF m
    <3>1. Append(agent.messages, m) \in Seq(Message)
      BY <1>a, <2>1
    <3> QED
      BY <3>1
  <2>5. Mirror => loop'.context = Append(agent.messages, m)
    BY <2>0, <2>2 DEF Mirror, MirrorAt
  <2>6. Mirror => Mirror2
    <3> HIDE DEF m
    <3> QED
      BY <2>0, <2>3, <2>4, <2>5 DEF Mirror2, MirrorAt, OfBatch
  <2> QED
    BY <1>d, <2>0, <2>6
<1>8. CASE StartsCall \/ EndsAtOnce \/ Prepares \/ Executes
  <2>0. /\ agent'.messages = agent.messages /\ SameTalk /\ loop'.turn = loop.turn
        /\ loop'.results = loop.results /\ run' = run /\ log' = log /\ loop.pc # "idle"
        /\ loop.pc \in OfBatch /\ loop'.pc \in OfBatch
    BY <1>8 DEF StartsCall, EndsAtOnce, Prepares, Executes, Silent, SameLoop, SameTools, SameBatch,
                Elsewhere, Place, OfBatch
  <2>1. Mirror => Mirror2
    BY <1>e, <2>0
  <2> QED
    BY <1>d, <2>0, <2>1
<1>12. ASSUME NEW c \in tools, ToolEnds(c) PROVE Mirrors'
  <2>0. /\ agent'.messages = agent.messages /\ SameTalk /\ loop'.turn = loop.turn
        /\ loop'.results = loop.results /\ run' = run /\ log' = log /\ loop.pc # "idle"
        /\ loop'.pc = loop.pc
    BY <1>12 DEF ToolEnds, Awaited, At, SameBatch, Elsewhere
  <2>1. Mirror => Mirror2
    BY <1>e, <2>0
  <2> QED
    BY <1>d, <2>0, <2>1
<1>13. ASSUME NEW c \in tools, ToolStrays(c) PROVE Mirrors'
  BY <1>13, <1>b, <1>c DEF ToolStrays, Elsewhere, Undisturbed, Mirror, Mirror2, MirrorAt, Answered
<1>14. CASE SaysResult
  <2> DEFINE m == Result(loop.turn, loop.results + 1)
  <2>0. /\ agent'.messages = Append(agent.messages, m) /\ run' = run /\ log' = log
        /\ loop'.context = loop.context /\ loop'.turn = loop.turn /\ loop'.results = loop.results + 1
        /\ loop.pc = "results" /\ loop'.pc = "results"
    BY <1>14 DEF SaysResult, Says, SameTalk, SameBatch, Place, Elsewhere
  <2>a. m \in Message /\ Answered \in Seq(Message)
    <3>1. m \in Message
      BY <1>a, MessageTypes
    <3>2. Answered \in Seq(Message)
      BY <1>a, OneMoreAnswer DEF Answered
    <3> QED
      BY <3>1, <3>2
  <2>b. Answered' = [k \in 1 .. loop.results + 1 |-> Result(loop.turn, k)]
    BY <2>0 DEF Answered
  <2>c. Answered' = Append(Answered, m)
    BY <1>a, <2>b, OneMoreAnswer DEF Answered
  <2>1. m \in Message /\ Answered \in Seq(Message) /\ Answered' = Append(Answered, m)
    BY <2>a, <2>c
  <2>2. Append(loop.context \o Answered, m) = loop.context \o Append(Answered, m)
    <3> HIDE DEF m
    <3> QED
      BY <1>a, <2>1, AppendInside
  <2>3. Mirror => Mirror2
    <3> HIDE DEF m
    <3> QED
      BY <2>0, <2>1, <2>2 DEF Mirror, Mirror2, MirrorAt, OfBatch
  <2> QED
    BY <1>d, <2>0, <2>3
<1>15. CASE BatchEnds
  <2>0. /\ agent'.messages = agent.messages /\ run' = run /\ log' = log
        /\ loop'.context = loop.context \o Answered
        /\ loop.pc = "results" /\ loop'.pc = "turnEnd"
    BY <1>15 DEF BatchEnds, Silent, Place, Elsewhere, Answered
  <2>1. Mirror => Mirror2
    BY <2>0 DEF Mirror, Mirror2, MirrorAt, OfBatch
  <2> QED
    BY <1>d, <2>0, <2>1
<1>16. CASE Fails
  <2>0. run' = run /\ log' = log /\ loop.pc = "failed" /\ loop'.pc = "failedEnd"
    BY <1>16 DEF Fails, Place, Elsewhere
  <2>1. Mirror2
    BY <2>0 DEF Mirror2, MirrorAt, OfBatch
  <2> QED
    BY <1>d, <2>0, <2>1
<1>17. CASE Finishes
  BY <1>17, <1>c DEF Finishes
<1>18. ASSUME NEW mode \in QueueModes, NEW prompts \in Seq(Message), Begins(prompts, mode)
       PROVE Mirrors'
  <2>1. Mirror2
    BY <1>18 DEF Begins, Silent, Mirror2, MirrorAt, OfBatch
  <2> QED
    BY <1>c, <2>1
<1>19. CASE Queues \/ UNCHANGED vars
  BY <1>19, <1>b, <1>c DEF Queues, vars, Undisturbed, Mirror, Mirror2, MirrorAt, Answered
<1>20. CASE Clears \/ Aborts
  BY <1>20, <1>b, <1>c DEF Clears, Aborts, Undisturbed, Mirror, Mirror2, MirrorAt, Answered
<1>21. CASE Resets
  BY <1>21, <1>c DEF Resets, Undisturbed
<1> QED
  BY <1>1, <1>2, <1>3, <1>4, <1>5, <1>6, <1>7, <1>8, <1>12, <1>13, <1>14,
     <1>15, <1>16, <1>17, <1>18, <1>19, <1>20, <1>21 DEF Kind, LoopKind, UserKind

\* The loop sends the provider the transcript (streamAssistantResponse): its own
\* context and the agent's messages are equal whenever a request goes out in a run
\* that has not failed and was not reset, whatever was prompted, injected, answered
\* or run in batches before.
THEOREM ContextIsTranscript == Spec => []ContextMirrorsTranscript
<1>1. Init => Types /\ ToolInv /\ Mirrors
  <2> SUFFICES ASSUME Init PROVE Mirrors
    BY InitTypes, ToolsAtStart
  <2>1. ~run.active
    BY DEF Init
  <2> QED
    BY <2>1 DEF Mirrors
<1>2. Types /\ ToolInv /\ Mirrors /\ [Next]_vars => (Types /\ ToolInv /\ Mirrors)'
  <2> SUFFICES ASSUME Types, ToolInv, Mirrors, [Next]_vars PROVE (Types /\ ToolInv /\ Mirrors)'
    OBVIOUS
  <2>1. Types' /\ ToolInv' /\ Kind
    BY ToolKept, Kinds
  <2>2. Shape /\ Shape'
    BY <2>1 DEF ToolInv
  <2> QED
    BY <2>1, <2>2, MirrorsKept
<1>3. ToolInv /\ Mirrors => ContextMirrorsTranscript
  BY DEF ToolInv, Shape, Mirrors, ContextMirrorsTranscript, At
<1> QED
  BY <1>1, <1>2, <1>3, PTL DEF Spec

-----------------------------------------------------------------------------
(* Results follow their calls *)

LEMMA UsersOf ==
    ASSUME NEW q \in Seq(Message), UserOnly(q), NEW mode
    PROVE  /\ UserOnly(Drained(q, mode)) /\ UserOnly(Kept(q, mode)) /\ UserOnly(<<>>)
           /\ q # <<>> => UserOnly(Tail(q)) /\ Head(q).role = "user"
           /\ \A m \in Message : m.role = "user" => UserOnly(Append(q, m)) /\ UserOnly(<<m>>)
<1>1. UserOnly(<<>>)
  BY DEF UserOnly
<1>2. q # <<>> => UserOnly(Tail(q)) /\ Head(q).role = "user"
  BY DEF UserOnly
<1>3. ASSUME NEW m \in Message, m.role = "user" PROVE UserOnly(Append(q, m)) /\ UserOnly(<<m>>)
  BY <1>3 DEF UserOnly
<1>4. q # <<>> => UserOnly(<<Head(q)>>)
  BY <1>2 DEF UserOnly
<1> QED
  BY <1>1, <1>2, <1>3, <1>4 DEF Drained, Kept

LEMMA UsersKept == ASSUME Types, Types', Users, Kind PROVE Users'
<1>a. /\ loop.pending \in Seq(Message) /\ queue.steering \in Seq(Message)
      /\ queue.followUp \in Seq(Message) /\ made \in Nat
  BY LoopParts
<1>b. /\ UserOnly(loop.pending) /\ UserOnly(queue.steering) /\ UserOnly(queue.followUp)
      /\ UserOnly(<<>>)
  BY <1>a, UsersOf DEF Users
<1>c. ASSUME loop'.pending = loop.pending \/ loop'.pending = <<>>,
             queue'.steering = queue.steering \/ queue'.steering = <<>>,
             queue'.followUp = queue.followUp \/ queue'.followUp = <<>>
      PROVE  Users'
  BY <1>b, <1>c DEF Users
<1>d. ASSUME NEW via \in Nat
      PROVE  User(made + 1, via) \in Message /\ User(made + 1, via).role = "user"
  BY <1>a DEF User, Message
<1>1. CASE ThrewQuietly \/ ThrewSaying
  BY <1>1, <1>c DEF ThrewQuietly, ThrewSaying, Threw, Elsewhere
<1>2. CASE Moves
  BY <1>2, <1>c DEF Moves, SameLoop, SameTalk, Elsewhere
<1>3. CASE Takes
  <2>1. loop.pending # <<>> /\ loop'.pending = Tail(loop.pending) /\ queue' = queue
    BY <1>3 DEF Takes, Elsewhere
  <2>2. UserOnly(Tail(loop.pending))
    BY <1>a, <1>b, <2>1, UsersOf
  <2> QED
    BY <1>b, <2>1, <2>2 DEF Users
<1>4. ASSUME NEW mode \in QueueModes, Polls(mode) PROVE Users'
  <2>1. /\ UserOnly(Drained(queue.steering, mode)) /\ UserOnly(Kept(queue.steering, mode))
        /\ UserOnly(Drained(queue.followUp, mode)) /\ UserOnly(Kept(queue.followUp, mode))
    BY <1>a, <1>b, UsersOf
  <2> QED
    BY <1>4, <1>b, <2>1 DEF Polls, Users
<1>5. CASE Requests \/ (\E n \in 0 .. MaxCalls : Answers(n))
  BY <1>5, <1>c DEF Requests, Answers, Elsewhere
<1>6. CASE StartsCall \/ EndsAtOnce \/ Prepares \/ Executes
  BY <1>6, <1>c DEF StartsCall, EndsAtOnce, Prepares, Executes, SameLoop, SameTalk, Elsewhere
<1>7. ASSUME NEW c \in tools, ToolEnds(c) \/ ToolStrays(c) PROVE Users'
  BY <1>7, <1>c DEF ToolEnds, ToolStrays, SameTalk, Elsewhere
<1>8. CASE SaysResult \/ BatchEnds \/ Fails \/ Finishes
  BY <1>8, <1>c DEF SaysResult, BatchEnds, Fails, Finishes, SameLoop, SameTalk, Elsewhere
<1>9. ASSUME NEW mode \in QueueModes, NEW prompts \in Seq(Message), Begins(prompts, mode) PROVE Users'
  <2>1. /\ UserOnly(Drained(queue.steering, mode)) /\ UserOnly(Kept(queue.steering, mode))
        /\ UserOnly(Drained(queue.followUp, mode)) /\ UserOnly(Kept(queue.followUp, mode))
    BY <1>a, <1>b, UsersOf
  <2>2. UserOnly(<<User(made + 1, Prompted)>>)
    BY <1>a, <1>b, <1>d, UsersOf DEF Prompted
  <2>3. loop'.pending = prompts
    BY <1>9 DEF Begins
  <2> QED
    BY <1>9, <1>b, <2>1, <2>2, <2>3 DEF Begins, Users
<1>10. CASE Queues
  <2>1. UserOnly(Append(queue.steering, User(made + 1, Steered)))
        /\ UserOnly(Append(queue.followUp, User(made + 1, FollowedUp)))
    BY <1>a, <1>b, <1>d, UsersOf DEF Steered, FollowedUp
  <2> QED
    BY <1>10, <1>b, <2>1 DEF Queues, Users
<1>11. CASE Clears \/ Aborts \/ Resets \/ UNCHANGED vars
  BY <1>11, <1>c DEF Clears, Aborts, Resets, vars
<1> QED
  BY <1>1, <1>2, <1>3, <1>4, <1>5, <1>6, <1>7, <1>8, <1>9, <1>10, <1>11 DEF Kind, LoopKind, UserKind

LEMMA AdjacentAppend ==
    ASSUME NEW s \in Seq(Message), Adjacent(s), NEW m \in Message,
           m.role = "toolResult" /\ s # <<>> =>
              LET p == s[Len(s)]
              IN  /\ p.n = m.n
                  /\ \/ p.role = "toolResult" /\ p.i = m.i - 1
                     \/ p.role = "assistant" /\ m.i = 1 /\ p.i >= 1
    PROVE  Adjacent(Append(s, m))
<1> DEFINE a == Append(s, m)
<1>1. /\ a \in Seq(Message) /\ Len(a) = Len(s) + 1 /\ a[Len(s) + 1] = m /\ Len(s) \in Nat
      /\ \A k \in 1 .. Len(s) : a[k] = s[k]
  OBVIOUS
<1>2. Len(s) >= 1 => s # <<>>
  OBVIOUS
<1> HIDE DEF a
<1>3. ASSUME NEW k \in 2 .. Len(a), a[k].role = "toolResult"
      PROVE  /\ a[k - 1].n = a[k].n
             /\ \/ a[k - 1].role = "toolResult" /\ a[k - 1].i = a[k].i - 1
                \/ a[k - 1].role = "assistant" /\ a[k].i = 1 /\ a[k - 1].i >= 1
  <2>1. CASE k = Len(s) + 1
    BY <1>1, <1>2, <1>3, <2>1
  <2>2. CASE k # Len(s) + 1
    <3>1. k \in 2 .. Len(s) /\ k - 1 \in 1 .. Len(s) /\ k \in 1 .. Len(s)
      BY <1>1, <2>2
    <3> QED
      BY <1>1, <1>3, <3>1 DEF Adjacent
  <2> QED
    BY <2>1, <2>2
<1>4. Adjacent(a)
  BY <1>3 DEF Adjacent
<1> QED
  BY <1>4 DEF a

LEMMA SaidKept == ASSUME Types, Types', Users, Said, Kind PROVE Said'
<1>a. /\ agent.messages \in Seq(Message) /\ loop.pending \in Seq(Message) /\ loop.turn \in Nat
      /\ loop.calls \in Nat /\ loop.results \in Nat /\ agent'.messages \in Seq(Message)
  BY LoopParts DEF Types, AgentType
\* The transcript, the turn, its calls and the results so far stay as they are.
<1>b. ASSUME agent'.messages = agent.messages, loop'.turn = loop.turn, loop'.calls = loop.calls,
             loop'.results = loop.results, loop'.pc \in OfBatch => loop.pc \in OfBatch
      PROVE  Said'
  BY <1>b DEF Said, LastSaid
<1>c. ASSUME agent'.messages = agent.messages, loop'.pc \notin OfBatch
      PROVE  Said'
  BY <1>c DEF Said
\* Something other than a tool result is said, outside a batch.
<1>d. ASSUME NEW m \in Message, m.role # "toolResult", Says(m), loop'.pc \notin OfBatch
      PROVE  Said'
  BY <1>a, <1>d, AdjacentAppend DEF Said, Says
\* The next result.
<1>e. ASSUME loop.pc = "results", Says(Result(loop.turn, loop.results + 1))
      PROVE  Adjacent(agent'.messages)
  <2> DEFINE m == Result(loop.turn, loop.results + 1)
  <2>1. m \in Message /\ m.role = "toolResult" /\ m.n = loop.turn /\ m.i = loop.results + 1
    BY <1>a DEF Result, Message
  <2>2. ASSUME agent.messages # <<>>
        PROVE  LET p == agent.messages[Len(agent.messages)]
               IN  /\ p.n = m.n
                   /\ \/ p.role = "toolResult" /\ p.i = m.i - 1
                      \/ p.role = "assistant" /\ m.i = 1 /\ p.i >= 1
    <3>1. loop.calls >= 1 /\ agent.messages[Len(agent.messages)] = LastSaid
      BY <1>e, <2>2 DEF Said, OfBatch
    <3>2. CASE loop.results = 0
      BY <1>a, <2>1, <3>1, <3>2 DEF LastSaid, Assistant
    <3>3. CASE loop.results # 0
      BY <1>a, <2>1, <3>1, <3>3 DEF LastSaid, Result
    <3> QED
      BY <3>2, <3>3
  <2>3. Adjacent(agent.messages) /\ agent'.messages = Append(agent.messages, m)
    BY <1>e DEF Said, Says
  <2> HIDE DEF m
  <2> QED
    BY <1>a, <2>1, <2>2, <2>3, AdjacentAppend
<1>1. CASE ThrewQuietly
  BY <1>1, <1>c DEF ThrewQuietly, Threw, OfBatch
<1>2. CASE ThrewSaying
  <2>1. PICK m \in Message : Sayable(m) /\ Says(m)
    BY <1>2 DEF ThrewSaying
  <2>2. loop'.pc \notin OfBatch
    BY <1>2 DEF ThrewSaying, Threw, OfBatch
  <2>3. CASE loop.pc = "results" /\ m = Result(loop.turn, loop.results + 1)
    BY <1>e, <2>1, <2>2, <2>3 DEF Said
  <2>4. CASE m.role # "toolResult"
    BY <1>d, <2>1, <2>2, <2>4
  <2>5. CASE loop.pending # <<>> /\ m = Head(loop.pending)
    <3>1. m.role = "user"
      BY <1>a, <2>5, UsersOf DEF Users
    <3> QED
      BY <2>4, <3>1
  <2>6. CASE m = FailureMessage \/ \E n \in 0 .. MaxCalls : m = Assistant(loop.turn, n)
    <3>1. m.role = "assistant"
      BY <2>6 DEF FailureMessage, Assistant
    <3> QED
      BY <2>4, <3>1
  <2> QED
    BY <2>1, <2>3, <2>5, <2>6 DEF Sayable
<1>3. CASE Moves
  BY <1>3, <1>b DEF Moves, Silent, SameLoop, SameTools, SameBatch, Place, OfBatch
<1>4. CASE Takes
  <2>1. loop.pending # <<>> /\ Says(Head(loop.pending)) /\ loop'.pc \notin OfBatch
    BY <1>4 DEF Takes, Place, OfBatch
  <2>2. Head(loop.pending) \in Message /\ Head(loop.pending).role = "user"
    <3>1. Head(loop.pending) \in Message
      BY <1>a, <2>1
    <3>2. Head(loop.pending).role = "user"
      BY <1>a, <2>1, UsersOf DEF Users
    <3> QED
      BY <3>1, <3>2
  <2> QED
    BY <1>d, <2>1, <2>2
<1>5. ASSUME NEW mode \in QueueModes, Polls(mode) PROVE Said'
  BY <1>5, <1>c DEF Polls, Silent, Place, OfBatch
<1>6. CASE Requests
  BY <1>6, <1>c DEF Requests, Silent, Place, OfBatch
<1>7. ASSUME NEW n \in 0 .. MaxCalls, Answers(n) PROVE Said'
  <2> DEFINE m == Assistant(loop.turn, n)
  <2>1. /\ agent'.messages = Append(agent.messages, m) /\ loop'.turn = loop.turn /\ loop'.calls = n
        /\ loop'.results = 0 /\ (loop'.pc \in OfBatch => n >= 1)
    BY <1>7 DEF Answers, Says, OfBatch
  <2>2. m \in Message /\ m.role = "assistant" /\ n \in Nat
    BY <1>a, AgentLoopAssumption, MessageTypes DEF Assistant
  <2>3. LastSaid' = m
    BY <2>1 DEF LastSaid
  <2>4. Adjacent(agent.messages)
    BY DEF Said
  <2> HIDE DEF m
  <2>5. Adjacent(agent'.messages)
    BY <1>a, <2>1, <2>2, <2>4, AdjacentAppend
  <2>6. agent'.messages[Len(agent'.messages)] = m
    BY <1>a, <2>1, <2>2
  <2> QED
    BY <2>1, <2>3, <2>5, <2>6 DEF Said
<1>8. CASE StartsCall \/ EndsAtOnce \/ Prepares \/ Executes
  BY <1>8, <1>b DEF StartsCall, EndsAtOnce, Prepares, Executes, Silent, SameLoop, SameTools,
                    SameBatch, Place, OfBatch
<1>9. ASSUME NEW c \in tools, ToolEnds(c) \/ ToolStrays(c) PROVE Said'
  BY <1>9, <1>b DEF ToolEnds, ToolStrays, Awaited, At, SameBatch
<1>10. CASE SaysResult
  <2> DEFINE m == Result(loop.turn, loop.results + 1)
  <2>1. /\ agent'.messages = Append(agent.messages, m) /\ loop'.turn = loop.turn
        /\ loop'.calls = loop.calls /\ loop'.results = loop.results + 1 /\ loop.pc = "results"
    BY <1>10 DEF SaysResult, Says, SameBatch, Place
  <2>2. Adjacent(agent'.messages)
    BY <1>10, <1>e DEF SaysResult, Place
  <2>3. m \in Message
    BY <1>a, MessageTypes
  <2>4. LastSaid' = m
    BY <1>a, <2>1 DEF LastSaid
  <2> HIDE DEF m
  <2>5. agent'.messages[Len(agent'.messages)] = m
    BY <1>a, <2>1, <2>3
  <2> QED
    BY <2>1, <2>2, <2>4, <2>5 DEF Said, OfBatch
<1>11. CASE BatchEnds
  BY <1>11, <1>c DEF BatchEnds, Silent, Place, OfBatch
<1>12. CASE Fails
  <2>1. FailureMessage \in Message /\ FailureMessage.role = "assistant"
    BY MessageTypes DEF FailureMessage, Assistant
  <2> QED
    BY <1>12, <1>d, <2>1 DEF Fails, Place, OfBatch
<1>13. CASE Finishes
  BY <1>13, <1>c DEF Finishes, Place, OfBatch
<1>14. ASSUME NEW mode \in QueueModes, NEW prompts \in Seq(Message), Begins(prompts, mode) PROVE Said'
  BY <1>14, <1>c DEF Begins, Silent, OfBatch
<1>15. CASE Queues \/ Clears \/ Aborts \/ UNCHANGED vars
  BY <1>15, <1>b DEF Queues, Clears, Aborts, vars
<1>16. CASE Resets
  BY <1>16 DEF Resets, Said, Adjacent, LastSaid
<1> QED
  BY <1>1, <1>2, <1>3, <1>4, <1>5, <1>6, <1>7, <1>8, <1>9, <1>10, <1>11, <1>12, <1>13, <1>14,
     <1>15, <1>16 DEF Kind, LoopKind, UserKind

LEMMA RepliedKept == ASSUME Types, Types', Replied, Kind PROVE Replied'
<1>a. /\ loop.context \in Seq(Message) /\ loop.pending \in Seq(Message) /\ loop.turn \in Nat
      /\ loop.calls \in Nat /\ loop.started \in Nat
  BY LoopParts
<1>b. ASSUME loop'.pc \in Ended \cup {"idle", "agentEnd"} PROVE Replied'
  BY <1>b DEF Replied, Ended, InRun
<1>1. CASE ThrewQuietly \/ ThrewSaying
  BY <1>1, <1>b DEF ThrewQuietly, ThrewSaying, Threw, Ended
<1>2. CASE Moves
  <2>0. /\ loop'.context = loop.context /\ loop'.turn = loop.turn /\ loop'.calls = loop.calls
        /\ loop'.sequential = loop.sequential /\ loop'.stopped = loop.stopped
        /\ loop'.started = loop.started /\ run' = run
    BY <1>2 DEF Moves, SameLoop, SameTalk, SameTools, SameBatch, Elsewhere
  <2> QED
    BY <1>2, <2>0 DEF Moves, Place, Replied, InRun, OfBatch
<1>3. CASE Takes
  <2>0. /\ loop'.turn = loop.turn /\ loop'.calls = loop.calls
        /\ loop'.sequential = loop.sequential /\ loop'.stopped = loop.stopped
        /\ loop'.started = loop.started /\ run' = run /\ loop'.pc = loop.pc
    BY <1>3 DEF Takes, SameTools, SameBatch, Elsewhere, Place
  <2>1. Range(loop.context) \subseteq Range(loop'.context)
    <3>1. CASE loop'.context = loop.context
      BY <3>1
    <3>2. CASE loop'.context = Append(loop.context, Head(loop.pending))
      <4>1. Head(loop.pending) \in Message
        BY <1>3, <1>a DEF Takes
      <4> QED
        BY <1>a, <3>2, <4>1, SMTT(30) DEF Range
    <3> QED
      BY <1>3, <3>1, <3>2 DEF Takes
  <2> QED
    BY <2>0, <2>1 DEF Replied
<1>4. ASSUME NEW mode \in QueueModes, Polls(mode) PROVE Replied'
  BY <1>4 DEF Polls, SameTools, SameBatch, Place, Replied, InRun, OfBatch
<1>5. CASE Requests
  BY <1>5 DEF Requests, Place, Replied
<1>6. ASSUME NEW n \in 0 .. MaxCalls, Answers(n) PROVE Replied'
  <2>1. loop'.pc = "call" \/ (loop'.pc = "turnEnd" /\ (~loop'.stopped => loop'.calls = 0))
    BY <1>6 DEF Answers
  <2>2. \A i : i \notin 1 .. 0
    OBVIOUS
  <2> QED
    BY <2>1, <2>2 DEF Replied, OfBatch
<1>7. CASE StartsCall \/ EndsAtOnce \/ Prepares
  BY <1>7 DEF StartsCall, EndsAtOnce, Prepares, Place, Replied, OfBatch
<1>8. CASE Executes
  BY <1>8 DEF Executes, SameLoop, SameTools, SameBatch, Elsewhere, Place, Replied, OfBatch
<1>9. ASSUME NEW c \in tools, ToolEnds(c) PROVE Replied'
  BY <1>9 DEF ToolEnds, Awaited, At, SameBatch, Elsewhere, Replied, OfBatch
<1>10. CASE SaysResult
  BY <1>10 DEF SaysResult, SameBatch, Elsewhere, Place, Replied, OfBatch
<1>11. CASE BatchEnds
  <2>0. /\ loop.pc = "results" /\ loop'.pc = "turnEnd" /\ run' = run /\ loop'.turn = loop.turn
        /\ loop'.calls = loop.calls
        /\ loop.sequential => loop.started = loop.calls \/ run.aborted
        /\ loop'.context = loop.context \o [k \in 1 .. loop.started |-> Result(loop.turn, k)]
    BY <1>11 DEF BatchEnds, SameBatch, Place, Elsewhere
  <2>1. ~run.aborted => loop.started = loop.calls
    BY <2>0 DEF Replied
  <2>2. ASSUME NEW i \in 1 .. loop.started PROVE Result(loop.turn, i) \in Range(loop'.context)
    <3> DEFINE rs == [k \in 1 .. loop.started |-> Result(loop.turn, k)]
               ctx == loop.context \o rs
    <3>a. rs \in Seq(Message)
      BY <1>a, OneMoreAnswer
    <3>b. Len(rs) = loop.started /\ rs[i] = Result(loop.turn, i)
      BY <1>a
    <3>1. rs \in Seq(Message) /\ Len(rs) = loop.started /\ rs[i] = Result(loop.turn, i)
      BY <3>a, <3>b
    <3> HIDE DEF rs
    <3>2. Len(loop.context) + i \in DOMAIN ctx /\ ctx[Len(loop.context) + i] = rs[i]
      BY <1>a, <3>1
    <3>3. loop'.context = ctx
      BY <2>0 DEF rs
    <3> HIDE DEF ctx
    <3> QED
      BY <3>1, <3>2, <3>3 DEF Range
  <2> QED
    BY <2>0, <2>1, <2>2 DEF Replied
<1>12. CASE Fails \/ Finishes
  BY <1>12, <1>b DEF Fails, Finishes, Place, Ended
<1>13. ASSUME NEW mode \in QueueModes, NEW prompts \in Seq(Message), Begins(prompts, mode)
       PROVE Replied'
  <2>1. \A i : i \notin 1 .. 0
    OBVIOUS
  <2> QED
    BY <1>13, <2>1 DEF Begins, FreshLoop, Replied
<1>14. ASSUME loop' = loop, run' = run \/ run'.aborted = TRUE PROVE Replied'
  BY <1>14 DEF Replied
<1>15. ASSUME NEW c \in tools, ToolStrays(c) PROVE Replied'
  BY <1>14, <1>15 DEF ToolStrays, Elsewhere
<1>16. CASE Queues \/ Clears \/ Aborts \/ Resets \/ UNCHANGED vars
  BY <1>16, <1>14 DEF Queues, Clears, Aborts, Resets, vars
<1> QED
  BY <1>1, <1>2, <1>3, <1>4, <1>5, <1>6, <1>7, <1>8, <1>9, <1>10, <1>11, <1>12, <1>13, <1>15,
     <1>16 DEF Kind, LoopKind, UserKind

\* A tool result follows its response or the result of the call before it, whatever
\* order executeToolCallsParallel finishes in, whoever steers, aborts or fails; and
\* no request of a run that was not aborted leaves a call of the last response
\* unanswered (runLoop).
THEOREM ResultsFollowCalls == Spec => []ToolResultsInOrder
<1>1. Init => Types /\ Replies
  <2> SUFFICES ASSUME Init PROVE Replies
    BY InitTypes
  <2>1. /\ agent.messages = <<>> /\ queue.steering = <<>> /\ queue.followUp = <<>>
        /\ loop.pending = <<>> /\ loop.pc = "idle"
    BY DEF Init, IdleLoop
  <2> QED
    BY <2>1 DEF Replies, Said, Users, Replied, Adjacent, UserOnly, OfBatch, InRun
<1>2. Types /\ Replies /\ [Next]_vars => (Types /\ Replies)'
  <2> SUFFICES ASSUME Types, Replies, [Next]_vars PROVE (Types /\ Replies)'
    OBVIOUS
  <2>1. Types' /\ Kind /\ Said /\ Users /\ Replied
    BY Kinds DEF Replies
  <2>2. Said' /\ Users' /\ Replied'
    BY <2>1, SaidKept, UsersKept, RepliedKept
  <2> QED
    BY <2>1, <2>2 DEF Replies
<1>3. Types /\ Replies => ToolResultsInOrder
  <2> SUFFICES ASSUME Types, Replies PROVE ToolResultsInOrder
    OBVIOUS
  <2>1. Adjacent(agent.messages)
    BY DEF Replies, Said
  <2>2. At("request") /\ ~run.aborted =>
           \A i \in 1 .. loop.calls : Result(loop.turn, i) \in Range(loop.context)
    BY DEF Replies, Replied, At, InRun, OfBatch
  <2> QED
    BY <2>1, <2>2 DEF ToolResultsInOrder, Adjacent
<1> QED
  BY <1>1, <1>2, <1>3, PTL DEF Spec

-----------------------------------------------------------------------------
(* Queued messages arrive in order *)

\* A stretch of a sequence: what is drained, what is kept, what is left.
Stretch(t, s) == \E d \in Nat : \A k \in DOMAIN t : k + d \in DOMAIN s /\ t[k] = s[k + d]

LEMMA Stretches ==
    ASSUME NEW q \in Seq(Message), NEW mode
    PROVE  /\ Stretch(q, q) /\ Stretch(<<>>, q)
           /\ Stretch(Drained(q, mode), q) /\ Stretch(Kept(q, mode), q)
           /\ q # <<>> => Stretch(Tail(q), q)
<1>1. Stretch(q, q)
  <2>1. 0 \in Nat /\ \A k \in DOMAIN q : k + 0 \in DOMAIN q /\ q[k] = q[k + 0]
    OBVIOUS
  <2> QED
    BY <2>1 DEF Stretch
<1>2. Stretch(<<>>, q)
  <2>1. 0 \in Nat /\ \A k \in DOMAIN <<>> : FALSE
    OBVIOUS
  <2> QED
    BY <2>1 DEF Stretch
<1>3. ASSUME q # <<>> PROVE Stretch(Tail(q), q) /\ Stretch(<<Head(q)>>, q)
  <2>1. 1 \in Nat /\ \A k \in DOMAIN Tail(q) : k + 1 \in DOMAIN q /\ Tail(q)[k] = q[k + 1]
    BY <1>3
  <2>2. 0 \in Nat /\ \A k \in DOMAIN <<Head(q)>> : k + 0 \in DOMAIN q /\ <<Head(q)>>[k] = q[k + 0]
    BY <1>3
  <2>3. Stretch(Tail(q), q)
    BY <2>1 DEF Stretch
  <2>4. Stretch(<<Head(q)>>, q)
    BY <2>2 DEF Stretch
  <2> QED
    BY <2>3, <2>4
<1> QED
  BY <1>1, <1>2, <1>3 DEF Drained, Kept

LEMMA StretchOrder ==
    ASSUME NEW s \in Seq(Message), NEW t \in Seq(Message), Stretch(t, s)
    PROVE  /\ Ordered(s) => Ordered(t)
           /\ \A u \in Seq(Message) : /\ Before(s, u) => Before(t, u)
                                      /\ Before(u, s) => Before(u, t)
           /\ \A via : OnlyVia(s, via) => OnlyVia(t, via)
           /\ Known(s) => Known(t)
<1>1. PICK d \in Nat : \A k \in DOMAIN t : k + d \in DOMAIN s /\ t[k] = s[k + d]
  BY DEF Stretch
<1>2. ASSUME Ordered(s) PROVE Ordered(t)
  <2>1. ASSUME NEW j \in DOMAIN t, NEW k \in DOMAIN t, j < k PROVE Precedes(t[j], t[k])
    <3>1. j + d \in DOMAIN s /\ k + d \in DOMAIN s /\ j + d < k + d
      BY <1>1, <2>1
    <3> QED
      BY <1>1, <1>2, <3>1 DEF Ordered
  <2> QED
    BY <2>1 DEF Ordered
<1>3. ASSUME NEW u \in Seq(Message)
      PROVE  /\ Before(s, u) => Before(t, u)
             /\ Before(u, s) => Before(u, t)
  BY <1>1 DEF Before
<1>4. \A via : OnlyVia(s, via) => OnlyVia(t, via)
  BY <1>1 DEF OnlyVia
<1>5. Known(s) => Known(t)
  BY <1>1 DEF Known
<1> QED
  BY <1>2, <1>3, <1>4, <1>5

LEMMA DrainOrder ==
    ASSUME NEW q \in Seq(Message), NEW mode, Ordered(q)
    PROVE  Before(Drained(q, mode), Kept(q, mode))
<1>1. \A s : Before(s, <<>>)
  BY DEF Before
<1>2. CASE mode = "all" \/ q = <<>>
  BY <1>1, <1>2 DEF Kept
<1>3. CASE mode # "all" /\ q # <<>>
  <2>1. \A k \in DOMAIN Tail(q) : k + 1 \in DOMAIN q /\ Tail(q)[k] = q[k + 1] /\ 1 < k + 1
    BY <1>3
  <2>2. 1 \in DOMAIN q /\ Head(q) = q[1]
    BY <1>3
  <2>3. \A k \in DOMAIN Tail(q) : Precedes(Head(q), Tail(q)[k])
    BY <2>1, <2>2 DEF Ordered
  <2>4. Before(<<Head(q)>>, Tail(q))
    BY <2>3 DEF Before
  <2> QED
    BY <1>3, <2>4 DEF Drained, Kept
<1> QED
  BY <1>2, <1>3

LEMMA AppendOrder ==
    ASSUME NEW s \in Seq(Message), NEW m \in Message
    PROVE  /\ Ordered(s) /\ (\A j \in DOMAIN s : Precedes(s[j], m)) => Ordered(Append(s, m))
           /\ \A u \in Seq(Message) :
                 /\ Before(s, u) /\ (\A k \in DOMAIN u : Precedes(m, u[k])) => Before(Append(s, m), u)
                 /\ Before(u, s) /\ (\A j \in DOMAIN u : Precedes(u[j], m)) => Before(u, Append(s, m))
           /\ \A via : OnlyVia(s, via) /\ m.i = via => OnlyVia(Append(s, m), via)
           /\ Known(s) /\ (m.role = "user" => m.n <= made) => Known(Append(s, m))
<1> DEFINE a == Append(s, m)
<1>1. /\ DOMAIN a = DOMAIN s \cup {Len(s) + 1} /\ a[Len(s) + 1] = m
      /\ \A k \in DOMAIN s : a[k] = s[k] /\ k < Len(s) + 1 /\ k \in Nat
  OBVIOUS
<1> HIDE DEF a
<1>2. ASSUME Ordered(s), \A j \in DOMAIN s : Precedes(s[j], m) PROVE Ordered(a)
  <2>1. ASSUME NEW j \in DOMAIN a, NEW k \in DOMAIN a, j < k PROVE Precedes(a[j], a[k])
    <3>1. j # Len(s) + 1
      BY <1>1, <2>1
    <3>2. j \in DOMAIN s /\ a[j] = s[j]
      BY <1>1, <3>1
    <3> QED
      BY <1>1, <1>2, <2>1, <3>2 DEF Ordered
  <2> QED
    BY <2>1 DEF Ordered
<1>3. ASSUME NEW u \in Seq(Message)
      PROVE  /\ Before(s, u) /\ (\A k \in DOMAIN u : Precedes(m, u[k])) => Before(a, u)
             /\ Before(u, s) /\ (\A j \in DOMAIN u : Precedes(u[j], m)) => Before(u, a)
  BY <1>1 DEF Before
<1>4. \A via : OnlyVia(s, via) /\ m.i = via => OnlyVia(a, via)
  BY <1>1 DEF OnlyVia
<1>5. Known(s) /\ (m.role = "user" => m.n <= made) => Known(a)
  BY <1>1 DEF Known
<1> QED
  BY <1>2, <1>3, <1>4, <1>5 DEF a

\* The sequences that a message passes through.
LEMMA InTurnKept == ASSUME Types, Types', InTurn, Kind PROVE InTurn'
<1> DEFINE M == agent.messages
           P == loop.pending
           S == queue.steering
           F == queue.followUp
           M2 == agent'.messages
           P2 == loop'.pending
           S2 == queue'.steering
           F2 == queue'.followUp
<1>a. /\ M \in Seq(Message) /\ P \in Seq(Message) /\ S \in Seq(Message) /\ F \in Seq(Message)
      /\ M2 \in Seq(Message) /\ P2 \in Seq(Message) /\ S2 \in Seq(Message) /\ F2 \in Seq(Message)
      /\ made \in Nat /\ made' \in Nat
  BY DEF Types, AgentType, LoopType, QueueType
<1>b. /\ Ordered(M) /\ Ordered(P) /\ Ordered(S) /\ Ordered(F)
      /\ Before(M, P) /\ Before(M, S) /\ Before(M, F) /\ Before(P, S) /\ Before(P, F)
      /\ OnlyVia(S, Steered) /\ OnlyVia(F, FollowedUp)
      /\ Known(M) /\ Known(P) /\ Known(S) /\ Known(F)
  BY DEF InTurn
<1>c. ASSUME Ordered(M2), Ordered(P2), Ordered(S2), Ordered(F2),
             Before(M2, P2), Before(M2, S2), Before(M2, F2), Before(P2, S2), Before(P2, F2),
             OnlyVia(S2, Steered), OnlyVia(F2, FollowedUp),
             made' = made, Known(M2), Known(P2), Known(S2), Known(F2)
      PROVE  InTurn'
  BY <1>c DEF InTurn, Known
<1> HIDE DEF M, P, S, F, M2, P2, S2, F2
<1>d. /\ Stretch(M, M) /\ Stretch(P, P) /\ Stretch(S, S) /\ Stretch(F, F)
      /\ Stretch(<<>>, M) /\ Stretch(<<>>, P) /\ Stretch(<<>>, S) /\ Stretch(<<>>, F)
  BY <1>a, Stretches
\* Nothing new anywhere.
<1>e. ASSUME Stretch(M2, M), Stretch(P2, P), Stretch(S2, S), Stretch(F2, F), made' = made
      PROVE  InTurn'
  <2>1. Ordered(M2) /\ Ordered(P2) /\ Ordered(S2) /\ Ordered(F2)
    BY <1>a, <1>b, <1>e, StretchOrder
  <2>2. Before(M2, P2)
    <3>1. Before(M2, P)
      BY <1>a, <1>b, <1>e, StretchOrder
    <3> QED
      BY <1>a, <1>e, <3>1, StretchOrder
  <2>3. Before(M2, S2)
    <3>1. Before(M2, S)
      BY <1>a, <1>b, <1>e, StretchOrder
    <3> QED
      BY <1>a, <1>e, <3>1, StretchOrder
  <2>4. Before(M2, F2)
    <3>1. Before(M2, F)
      BY <1>a, <1>b, <1>e, StretchOrder
    <3> QED
      BY <1>a, <1>e, <3>1, StretchOrder
  <2>5. Before(P2, S2)
    <3>1. Before(P2, S)
      BY <1>a, <1>b, <1>e, StretchOrder
    <3> QED
      BY <1>a, <1>e, <3>1, StretchOrder
  <2>6. Before(P2, F2)
    <3>1. Before(P2, F)
      BY <1>a, <1>b, <1>e, StretchOrder
    <3> QED
      BY <1>a, <1>e, <3>1, StretchOrder
  <2>7. OnlyVia(S2, Steered) /\ OnlyVia(F2, FollowedUp)
    BY <1>a, <1>b, <1>e, StretchOrder
  <2>8. Known(M2) /\ Known(P2) /\ Known(S2) /\ Known(F2)
    BY <1>a, <1>b, <1>e, StretchOrder
  <2> QED
    BY <1>c, <1>e, <2>1, <2>2, <2>3, <2>4, <2>5, <2>6, <2>7, <2>8
<1>f. ASSUME M2 = M \/ M2 = <<>>, P2 = P \/ P2 = <<>>, S2 = S \/ S2 = <<>>, F2 = F \/ F2 = <<>>,
             made' = made
      PROVE  InTurn'
  BY <1>d, <1>e, <1>f
\* A response, a tool result or the failure message is said.
<1>g. ASSUME NEW m \in Message, m.role # "user", M2 = Append(M, m), P2 = P \/ P2 = <<>>,
             S2 = S, F2 = F, made' = made
      PROVE  InTurn'
  <2>1. \A l : Precedes(m, l) /\ Precedes(l, m)
    BY <1>g DEF Precedes
  <2>2. Ordered(M2) /\ Before(M2, P) /\ Before(M2, S) /\ Before(M2, F) /\ Known(M2)
    BY <1>a, <1>b, <1>g, <2>1, AppendOrder
  <2>3. Stretch(P2, P)
    BY <1>d, <1>g
  <2>4. Ordered(P2) /\ Before(M2, P2) /\ Before(P2, S) /\ Before(P2, F) /\ Known(P2)
    BY <1>a, <1>b, <2>2, <2>3, StretchOrder
  <2> QED
    BY <1>b, <1>c, <1>g, <2>2, <2>4
\* A pending message is said.
<1>h. ASSUME P # <<>>, M2 = Append(M, Head(P)), P2 = Tail(P) \/ P2 = <<>>,
             S2 = S, F2 = F, made' = made
      PROVE  InTurn'
  <2> DEFINE m == Head(P)
  <2>1. m \in Message /\ m = P[1] /\ 1 \in DOMAIN P
    BY <1>a, <1>h
  <2>2. \A k \in DOMAIN Tail(P) : k + 1 \in DOMAIN P /\ Tail(P)[k] = P[k + 1] /\ 1 < k + 1
    BY <1>a, <1>h
  <2>3. /\ \A j \in DOMAIN M : Precedes(M[j], m)
        /\ \A k \in DOMAIN S : Precedes(m, S[k])
        /\ \A k \in DOMAIN F : Precedes(m, F[k])
        /\ m.role = "user" => m.n <= made
    BY <1>b, <2>1 DEF Before, Known
  <2>4. \A k \in DOMAIN Tail(P) : Precedes(m, Tail(P)[k])
    BY <1>b, <2>1, <2>2 DEF Ordered
  <2>a. Tail(P) \in Seq(Message)
    BY <1>a, <1>h
  <2>b. Stretch(Tail(P), P)
    BY <1>a, <1>h, Stretches, Zenon
  <2>5. Tail(P) \in Seq(Message) /\ Stretch(Tail(P), P)
    BY <2>a, <2>b
  <2>6. /\ Ordered(Tail(P)) /\ Before(M, Tail(P)) /\ Before(Tail(P), S) /\ Before(Tail(P), F)
        /\ Known(Tail(P))
    <3> DEFINE rest == Tail(P)
    <3>1. rest \in Seq(Message) /\ Stretch(rest, P)
      BY <2>5
    <3> HIDE DEF rest
    <3>2. Ordered(rest) /\ Before(M, rest) /\ Before(rest, S) /\ Before(rest, F) /\ Known(rest)
      BY <1>a, <1>b, <3>1, StretchOrder
    <3> QED
      BY <3>2 DEF rest
  <2> HIDE DEF m
  <2>7. Ordered(M2) /\ Before(M2, Tail(P)) /\ Before(M2, S) /\ Before(M2, F) /\ Known(M2)
    BY <1>a, <1>b, <1>h, <2>1, <2>3, <2>4, <2>5, <2>6, AppendOrder DEF m
  <2>8. Stretch(P2, Tail(P))
    BY <1>h, <2>5, Stretches
  <2>9. Ordered(P2) /\ Before(M2, P2) /\ Before(P2, S) /\ Before(P2, F) /\ Known(P2)
    BY <1>a, <2>5, <2>6, <2>7, <2>8, StretchOrder, ZenonT(60)
  <2> QED
    BY <1>b, <1>c, <1>h, <2>7, <2>9
\* A queue is drained into the pending messages.
<1>i. ASSUME NEW mode, M2 = M, P2 = Drained(S, mode), S2 = Kept(S, mode), F2 = F, made' = made
      PROVE  InTurn'
  <2>1. Stretch(P2, S) /\ Stretch(S2, S)
    BY <1>a, <1>i, Stretches
  <2>2. Ordered(P2) /\ Ordered(S2) /\ Before(M, P2) /\ Before(M, S2) /\ Known(P2) /\ Known(S2)
        /\ OnlyVia(P2, Steered) /\ OnlyVia(S2, Steered)
    BY <1>a, <1>b, <2>1, StretchOrder
  <2>3. Before(P2, S2)
    BY <1>a, <1>b, <1>i, DrainOrder
  <2>4. Before(P2, F)
    BY <1>b, <2>2 DEF Before, OnlyVia, Precedes, Steered, FollowedUp
  <2> QED
    BY <1>b, <1>c, <1>i, <2>2, <2>3, <2>4
<1>j. ASSUME NEW mode, M2 = M, P2 = Drained(F, mode), F2 = Kept(F, mode), S2 = S, made' = made
      PROVE  InTurn'
  <2>1. Stretch(P2, F) /\ Stretch(F2, F)
    BY <1>a, <1>j, Stretches
  <2>2. Ordered(P2) /\ Ordered(F2) /\ Before(M, P2) /\ Before(M, F2) /\ Known(P2) /\ Known(F2)
        /\ OnlyVia(P2, FollowedUp) /\ OnlyVia(F2, FollowedUp)
    BY <1>a, <1>b, <2>1, StretchOrder
  <2>3. Before(P2, F2)
    BY <1>a, <1>b, <1>j, DrainOrder
  <2>4. Before(P2, S)
    BY <1>b, <2>2 DEF Before, OnlyVia, Precedes, Steered, FollowedUp
  <2> QED
    BY <1>b, <1>c, <1>j, <2>2, <2>3, <2>4
<1>1. CASE ThrewQuietly
  BY <1>1, <1>f DEF ThrewQuietly, Threw, Elsewhere, M, P, S, F, M2, P2, S2, F2
<1>2. CASE ThrewSaying
  <2>1. PICK m \in Message : Sayable(m) /\ Says(m)
    BY <1>2 DEF ThrewSaying
  <2>2. M2 = Append(M, m) /\ P2 = <<>> /\ S2 = S /\ F2 = F /\ made' = made
    BY <1>2, <2>1 DEF ThrewSaying, Threw, Says, Elsewhere, M, P, S, F, M2, P2, S2, F2
  <2>3. CASE P # <<>> /\ m = Head(P)
    BY <1>h, <2>2, <2>3
  <2>4. CASE m.role # "user"
    BY <1>g, <2>2, <2>4
  <2>5. (P # <<>> /\ m = Head(P)) \/ m.role # "user"
    BY <2>1 DEF Sayable, Assistant, Result, FailureMessage, P
  <2> QED
    BY <2>3, <2>4, <2>5
<1>3. CASE Moves
  BY <1>3, <1>f DEF Moves, Silent, SameLoop, SameTalk, Elsewhere, M, P, S, F, M2, P2, S2, F2
<1>4. CASE Takes
  <2>1. P # <<>> /\ M2 = Append(M, Head(P)) /\ P2 = Tail(P) /\ S2 = S /\ F2 = F /\ made' = made
    BY <1>4 DEF Takes, Says, Elsewhere, M, P, S, F, M2, P2, S2, F2
  <2> QED
    BY <1>h, <2>1
<1>5. ASSUME NEW mode \in QueueModes, Polls(mode) PROVE InTurn'
  <2>1. M2 = M /\ made' = made
    BY <1>5 DEF Polls, Silent, M, M2
  <2>2. \/ P2 = <<>> /\ S2 = S /\ F2 = F
        \/ P2 = Drained(S, mode) /\ S2 = Kept(S, mode) /\ F2 = F
        \/ P2 = Drained(F, mode) /\ F2 = Kept(F, mode) /\ S2 = S
    BY <1>5 DEF Polls, P, S, F, P2, S2, F2
  <2> QED
    BY <1>f, <1>i, <1>j, <2>1, <2>2
<1>6. CASE Requests
  BY <1>6, <1>f DEF Requests, Silent, Elsewhere, M, P, S, F, M2, P2, S2, F2
<1>7. ASSUME NEW n \in 0 .. MaxCalls, Answers(n) PROVE InTurn'
  <2>1. Assistant(loop.turn, n) \in Message /\ Assistant(loop.turn, n).role # "user"
    BY LoopParts, AgentLoopAssumption, MessageTypes DEF Assistant
  <2>2. M2 = Append(M, Assistant(loop.turn, n)) /\ P2 = P /\ S2 = S /\ F2 = F /\ made' = made
    BY <1>7 DEF Answers, Says, Elsewhere, M, P, S, F, M2, P2, S2, F2
  <2> QED
    BY <1>g, <2>1, <2>2
<1>8. CASE StartsCall \/ EndsAtOnce \/ Prepares \/ Executes
  BY <1>8, <1>f DEF StartsCall, EndsAtOnce, Prepares, Executes, Silent, SameLoop, SameTalk, Elsewhere,
                    M, P, S, F, M2, P2, S2, F2
<1>9. ASSUME NEW c \in tools, ToolEnds(c) \/ ToolStrays(c) PROVE InTurn'
  BY <1>9, <1>f DEF ToolEnds, ToolStrays, SameTalk, Elsewhere, M, P, S, F, M2, P2, S2, F2
<1>10. CASE SaysResult
  <2>1. Result(loop.turn, loop.results + 1) \in Message
        /\ Result(loop.turn, loop.results + 1).role # "user"
    BY LoopParts, MessageTypes DEF Result
  <2>2. M2 = Append(M, Result(loop.turn, loop.results + 1)) /\ P2 = P /\ S2 = S /\ F2 = F /\ made' = made
    BY <1>10 DEF SaysResult, Says, SameTalk, Elsewhere, M, P, S, F, M2, P2, S2, F2
  <2> QED
    BY <1>g, <2>1, <2>2
<1>11. CASE BatchEnds \/ Finishes
  BY <1>11, <1>f DEF BatchEnds, Finishes, Silent, Elsewhere, M, P, S, F, M2, P2, S2, F2
<1>12. CASE Fails
  <2>1. FailureMessage \in Message /\ FailureMessage.role # "user"
    BY MessageTypes DEF FailureMessage, Assistant
  <2>2. M2 = Append(M, FailureMessage) /\ P2 = P /\ S2 = S /\ F2 = F /\ made' = made
    BY <1>12 DEF Fails, Says, SameLoop, SameTalk, Elsewhere, M, P, S, F, M2, P2, S2, F2
  <2> QED
    BY <1>g, <2>1, <2>2
<1>13. ASSUME NEW mode \in QueueModes, NEW prompts \in Seq(Message), Begins(prompts, mode)
       PROVE InTurn'
  <2>1. M2 = M /\ P2 = prompts
    BY <1>13 DEF Begins, Silent, M, M2, P2
  <2>2. \/ made' = made + 1 /\ P2 = <<User(made + 1, Prompted)>> /\ S2 = S /\ F2 = F
        \/ made' = made /\ P2 = <<>> /\ S2 = S /\ F2 = F
        \/ made' = made /\ P2 = Drained(S, mode) /\ S2 = Kept(S, mode) /\ F2 = F
        \/ made' = made /\ P2 = Drained(F, mode) /\ F2 = Kept(F, mode) /\ S2 = S
    BY <1>13, <2>1 DEF Begins, P, S, F, P2, S2, F2
  <2>3. CASE made' = made + 1 /\ P2 = <<User(made + 1, Prompted)>> /\ S2 = S /\ F2 = F
    <3> DEFINE u == User(made + 1, Prompted)
    <3>1. u.i = Prompted /\ u.n = made + 1
      BY DEF User
    <3>2. \A l : Precedes(u, l) /\ Precedes(l, u)
      BY <3>1 DEF Precedes
    <3> HIDE DEF u
    <3>3. Ordered(P2) /\ Before(M, P2) /\ Before(P2, S) /\ Before(P2, F)
      BY <2>3, <3>2 DEF Ordered, Before, u
    <3>4. \A k \in DOMAIN P2 : P2[k].n <= made + 1
      BY <1>a, <2>3, <3>1 DEF u
    <3>5. ASSUME NEW q \in {M, S, F}, NEW k \in DOMAIN q, q[k].role = "user" PROVE q[k].n <= made + 1
      <4>1. q \in Seq(Message) /\ q[k].n <= made
        BY <1>a, <1>b, <3>5 DEF Known
      <4>2. q[k] \in Message
        BY <4>1
      <4>3. q[k].n \in Nat
        BY <4>2 DEF Message
      <4> QED
        BY <1>a, <4>1, <4>3, SMTT(30)
    <3> QED
      BY <1>b, <2>1, <2>3, <3>3, <3>4, <3>5 DEF InTurn, Known, M, P, S, F, M2, P2, S2, F2
  <2> QED
    BY <1>f, <1>i, <1>j, <2>1, <2>2, <2>3
<1>14. CASE Queues
  <2>0. M2 = M /\ P2 = P /\ made' = made + 1
    BY <1>14 DEF Queues, M, P, M2, P2
  <2>1. ASSUME NEW q \in {M, P, S, F}, NEW k \in DOMAIN q, q[k].role = "user" PROVE q[k].n <= made
    BY <1>b, <2>1 DEF Known
  <2>2. ASSUME NEW q \in {M, P, S, F}, NEW k \in DOMAIN q PROVE q[k].n \in Nat
    <3>1. q[k] \in Message
      BY <1>a
    <3> QED
      BY <3>1 DEF Message
  <2>3. ASSUME NEW via \in {Steered, FollowedUp}, NEW q \in {M, P, S, F}, NEW k \in DOMAIN q
        PROVE  Precedes(q[k], User(made + 1, via))
    <3>1. q[k].n \in Nat
      BY <2>2
    <3>2. q[k].role = "user" => q[k].n <= made
      BY <2>1
    <3>3. q[k].role = "user" => q[k].n < made + 1
      BY <1>a, <3>1, <3>2
    <3> QED
      BY <3>3 DEF Precedes, User
  <2>4. ASSUME NEW q \in {M, P, S, F}, NEW k \in DOMAIN q, q[k].role = "user" PROVE q[k].n <= made + 1
    <3>1. q[k].n \in Nat
      BY <2>2
    <3>2. q[k].n <= made
      BY <2>1, <2>4
    <3> QED
      BY <1>a, <3>1, <3>2
  <2>5. ASSUME NEW via \in {Steered, FollowedUp}
        PROVE  /\ User(made + 1, via) \in Message /\ User(made + 1, via).i = via
               /\ User(made + 1, via).n = made + 1
    BY <1>a, MessageTypes DEF User, Steered, FollowedUp
  <2>6. CASE S2 = Append(S, User(made + 1, Steered)) /\ F2 = F
    <3> DEFINE u == User(made + 1, Steered)
    <3>1. u \in Message /\ u.i = Steered /\ u.n = made + 1
          /\ \A q \in {M, P, S} : \A k \in DOMAIN q : Precedes(q[k], u)
      BY <2>3, <2>5
    <3>2. S2 = Append(S, u)
      BY <2>6
    <3> HIDE DEF u
    <3>3. Ordered(S2) /\ Before(M, S2) /\ Before(P, S2) /\ OnlyVia(S2, Steered)
      BY <1>a, <1>b, <3>1, <3>2, AppendOrder
    <3>4. \A k \in DOMAIN S2 : S2[k].role = "user" => S2[k].n <= made + 1
      <4>1. \A k \in DOMAIN S2 : (k \in DOMAIN S /\ S2[k] = S[k]) \/ S2[k] = u
        BY <1>a, <3>1, <3>2
      <4> QED
        BY <1>a, <2>4, <3>1, <4>1
    <3> QED
      BY <1>b, <2>0, <2>4, <2>6, <3>3, <3>4 DEF InTurn, Known, M, P, S, F, M2, P2, S2, F2
  <2>7. CASE F2 = Append(F, User(made + 1, FollowedUp)) /\ S2 = S
    <3> DEFINE u == User(made + 1, FollowedUp)
    <3>1. u \in Message /\ u.i = FollowedUp /\ u.n = made + 1
          /\ \A q \in {M, P, F} : \A k \in DOMAIN q : Precedes(q[k], u)
      BY <2>3, <2>5
    <3>2. F2 = Append(F, u)
      BY <2>7
    <3> HIDE DEF u
    <3>3. Ordered(F2) /\ Before(M, F2) /\ Before(P, F2) /\ OnlyVia(F2, FollowedUp)
      BY <1>a, <1>b, <3>1, <3>2, AppendOrder
    <3>4. \A k \in DOMAIN F2 : F2[k].role = "user" => F2[k].n <= made + 1
      <4>1. \A k \in DOMAIN F2 : (k \in DOMAIN F /\ F2[k] = F[k]) \/ F2[k] = u
        BY <1>a, <3>1, <3>2
      <4> QED
        BY <1>a, <2>4, <3>1, <4>1
    <3> QED
      BY <1>b, <2>0, <2>4, <2>7, <3>3, <3>4 DEF InTurn, Known, M, P, S, F, M2, P2, S2, F2
  <2> QED
    BY <1>14, <2>6, <2>7 DEF Queues, S, F, S2, F2
<1>15. CASE Clears \/ Aborts \/ Resets \/ UNCHANGED vars
  BY <1>15, <1>f DEF Clears, Aborts, Resets, vars, M, P, S, F, M2, P2, S2, F2
<1> QED
  BY <1>1, <1>2, <1>3, <1>4, <1>5, <1>6, <1>7, <1>8, <1>9, <1>10, <1>11, <1>12, <1>13, <1>14,
     <1>15 DEF Kind, LoopKind, UserKind

LEMMA JoinOrder ==
    ASSUME NEW s \in Seq(Message), NEW t \in Seq(Message)
    PROVE  /\ s \o t \in Seq(Message)
           /\ Ordered(s) /\ Ordered(t) /\ Before(s, t) => Ordered(s \o t)
           /\ \A u \in Seq(Message) : Before(s, u) /\ Before(t, u) => Before(s \o t, u)
<1> DEFINE a == s \o t
<1>1. /\ Len(s) \in Nat /\ a \in Seq(Message)
      /\ \A k \in DOMAIN s : k \in Nat /\ k <= Len(s) /\ a[k] = s[k]
      /\ \A k \in DOMAIN a : k \in Nat
  OBVIOUS
<1>2. ASSUME NEW k \in DOMAIN a PROVE k \in DOMAIN s \/ (k > Len(s) /\ k - Len(s) \in DOMAIN t
                                                          /\ a[k] = t[k - Len(s)])
  OBVIOUS
<1> HIDE DEF a
<1>3. ASSUME Ordered(s), Ordered(t), Before(s, t) PROVE Ordered(a)
  <2>1. ASSUME NEW j \in DOMAIN a, NEW k \in DOMAIN a, j < k PROVE Precedes(a[j], a[k])
    <3>0. j \in Nat /\ k \in Nat
      BY <1>1
    <3>1. CASE j \in DOMAIN s /\ k \in DOMAIN s
      BY <1>1, <1>3, <2>1, <3>1 DEF Ordered
    <3>2. CASE j \in DOMAIN s /\ k \notin DOMAIN s
      BY <1>1, <1>2, <1>3, <3>2 DEF Before
    <3>3. CASE j \notin DOMAIN s /\ k \notin DOMAIN s
      <4>1. /\ j - Len(s) \in DOMAIN t /\ a[j] = t[j - Len(s)]
            /\ k - Len(s) \in DOMAIN t /\ a[k] = t[k - Len(s)]
        BY <1>2, <3>3
      <4>2. j - Len(s) < k - Len(s)
        BY <1>1, <2>1, <3>0
      <4> QED
        BY <1>3, <4>1, <4>2 DEF Ordered
    <3>4. CASE j \notin DOMAIN s /\ k \in DOMAIN s
      BY <1>1, <1>2, <2>1, <3>0, <3>4
    <3> QED
      BY <3>1, <3>2, <3>3, <3>4
  <2> QED
    BY <2>1 DEF Ordered
<1>4. ASSUME NEW u \in Seq(Message), Before(s, u), Before(t, u) PROVE Before(a, u)
  BY <1>1, <1>2, <1>4 DEF Before
<1> QED
  BY <1>1, <1>3, <1>4 DEF a

\* Steered and follow-up messages reach the transcript once each and in the order
\* in which steer() and followUp() queued them, over drains in either mode, polls,
\* continue() and runs that fail (agent.ts, agent-loop.ts).
THEOREM QueuedInOrder == Spec => []QueuedOnceInOrder
<1>1. Init => Types /\ InTurn
  <2> SUFFICES ASSUME Init PROVE InTurn
    BY InitTypes
  <2>1. /\ agent.messages = <<>> /\ queue.steering = <<>> /\ queue.followUp = <<>>
        /\ loop.pending = <<>>
    BY DEF Init, IdleLoop
  <2> QED
    BY <2>1 DEF InTurn, Ordered, Before, OnlyVia, Known
<1>2. Types /\ InTurn /\ [Next]_vars => (Types /\ InTurn)'
  BY Kinds, InTurnKept
<1>3. Types /\ InTurn => QueuedOnceInOrder
  <2> SUFFICES ASSUME Types, InTurn PROVE QueuedOnceInOrder
    OBVIOUS
  <2> DEFINE M == agent.messages
             P == loop.pending
             S == queue.steering
             F == queue.followUp
  <2>1. M \in Seq(Message) /\ P \in Seq(Message) /\ S \in Seq(Message) /\ F \in Seq(Message)
    BY LoopParts
  <2>2. /\ Ordered(M) /\ Ordered(P) /\ Ordered(S) /\ Ordered(F)
        /\ Before(M, P) /\ Before(M, S) /\ Before(M, F) /\ Before(P, S) /\ Before(P, F)
    BY DEF InTurn
  <2>3. Before(S, F)
    BY DEF InTurn, OnlyVia, Before, Precedes, Steered, FollowedUp
  <2> HIDE DEF M, P, S, F
  <2> DEFINE MP == M \o P
  <2>4. MP \in Seq(Message) /\ Ordered(MP) /\ Before(MP, S) /\ Before(MP, F)
    BY <2>1, <2>2, JoinOrder
  <2> HIDE DEF MP
  <2> DEFINE MPS == MP \o S
  <2>5. MPS \in Seq(Message) /\ Ordered(MPS) /\ Before(MPS, F)
    BY <2>1, <2>2, <2>3, <2>4, JoinOrder
  <2> HIDE DEF MPS
  <2>6. Ordered(MPS \o F)
    BY <2>1, <2>2, <2>5, JoinOrder
  <2>7. Ordered(Journey)
    BY <2>6 DEF Journey, MPS, MP, M, P, S, F
  <2> QED
    BY <2>7 DEF QueuedOnceInOrder, Ordered, Precedes
<1> QED
  BY <1>1, <1>2, <1>3, PTL DEF Spec

-----------------------------------------------------------------------------
(* No message vanishes *)

LEMMA NumbersOf ==
    ASSUME NEW s
    PROVE  \A n : n \in Numbers(s) <=> \E k \in DOMAIN s : s[k].role = "user" /\ s[k].n = n
BY DEF Numbers

LEMMA NumbersJoin ==
    ASSUME NEW s \in Seq(Message), NEW t \in Seq(Message)
    PROVE  Numbers(s \o t) = Numbers(s) \cup Numbers(t)
<1> DEFINE a == s \o t
<1>1. /\ Len(s) \in Nat
      /\ \A k \in DOMAIN s : k \in DOMAIN a /\ a[k] = s[k]
      /\ \A k \in DOMAIN t : Len(s) + k \in DOMAIN a /\ a[Len(s) + k] = t[k]
  OBVIOUS
<1>2. ASSUME NEW k \in DOMAIN a PROVE k \in DOMAIN s \/ (k - Len(s) \in DOMAIN t /\ a[k] = t[k - Len(s)])
  OBVIOUS
<1> HIDE DEF a
<1>3. \A n \in Numbers(a) : n \in Numbers(s) \/ n \in Numbers(t)
  BY <1>1, <1>2, NumbersOf
<1>4. \A n : n \in Numbers(s) \/ n \in Numbers(t) => n \in Numbers(a)
  BY <1>1, NumbersOf
<1>5. Numbers(a) = Numbers(s) \cup Numbers(t)
  BY <1>3, <1>4
<1> QED
  BY <1>5 DEF a

LEMMA NumbersAppend ==
    ASSUME NEW s \in Seq(Message), NEW m \in Message
    PROVE  Numbers(Append(s, m)) = Numbers(s) \cup (IF m.role = "user" THEN {m.n} ELSE {})
<1> DEFINE a == Append(s, m)
<1>1. /\ DOMAIN a = DOMAIN s \cup {Len(s) + 1} /\ a[Len(s) + 1] = m
      /\ \A k \in DOMAIN s : a[k] = s[k]
  OBVIOUS
<1> HIDE DEF a
<1>2. \A n \in Numbers(a) : n \in Numbers(s) \/ (m.role = "user" /\ n = m.n)
  BY <1>1, NumbersOf
<1>3. \A n : n \in Numbers(s) \/ (m.role = "user" /\ n = m.n) => n \in Numbers(a)
  BY <1>1, NumbersOf
<1>4. Numbers(a) = Numbers(s) \cup (IF m.role = "user" THEN {m.n} ELSE {})
  BY <1>2, <1>3
<1> QED
  BY <1>4 DEF a

LEMMA NumbersParts ==
    ASSUME NEW q \in Seq(Message), NEW mode
    PROVE  /\ Numbers(<<>>) = {}
           /\ Numbers(Drained(q, mode)) \cup Numbers(Kept(q, mode)) = Numbers(q)
           /\ q # <<>> => Numbers(q) = Numbers(Tail(q)) \cup (IF Head(q).role = "user" THEN {Head(q).n} ELSE {})
<1>1. Numbers(<<>>) = {}
  BY DEF Numbers
<1>2. ASSUME q # <<>>
      PROVE  Numbers(q) = Numbers(<<Head(q)>>) \cup Numbers(Tail(q))
  <2> DEFINE h == <<Head(q)>>
             r == Tail(q)
  <2>1. h \in Seq(Message) /\ r \in Seq(Message)
    BY <1>2
  <2>2. q = h \o r
    BY <1>2
  <2> HIDE DEF h, r
  <2>3. Numbers(q) = Numbers(h) \cup Numbers(r)
    BY <2>1, <2>2, NumbersJoin
  <2> QED
    BY <2>3 DEF h, r
<1>3. ASSUME q # <<>>
      PROVE  Numbers(<<Head(q)>>) = IF Head(q).role = "user" THEN {Head(q).n} ELSE {}
  <2> DEFINE m == Head(q)
             none == <<>>
  <2>1. m \in Message /\ none \in Seq(Message)
    BY <1>3
  <2>2. <<m>> = Append(none, m) /\ Numbers(none) = {}
    BY <2>1, <1>1
  <2> HIDE DEF m, none
  <2>3. Numbers(Append(none, m)) = IF m.role = "user" THEN {m.n} ELSE {}
    BY <2>1, <2>2, NumbersAppend
  <2> QED
    BY <2>2, <2>3 DEF m
<1>4. Numbers(Drained(q, mode)) \cup Numbers(Kept(q, mode)) = Numbers(q)
  <2>1. CASE mode = "all" \/ q = <<>>
    BY <1>1, <2>1 DEF Drained, Kept
  <2>2. CASE ~(mode = "all" \/ q = <<>>)
    BY <1>2, <2>2 DEF Drained, Kept
  <2> QED
    BY <2>1, <2>2
<1> QED
  BY <1>1, <1>2, <1>3, <1>4

LEMMA AccountedKept == ASSUME Types, Types', Shape, Accounted, Kind PROVE Accounted'
<1> DEFINE M == Numbers(agent.messages)
           P == Numbers(loop.pending)
           S == Numbers(queue.steering)
           F == Numbers(queue.followUp)
           M2 == Numbers(agent'.messages)
           P2 == Numbers(loop'.pending)
           S2 == Numbers(queue'.steering)
           F2 == Numbers(queue'.followUp)
           Said2(m) == IF m.role = "user" THEN {m.n} ELSE {}
<1>a. /\ agent.messages \in Seq(Message) /\ loop.pending \in Seq(Message)
      /\ queue.steering \in Seq(Message) /\ queue.followUp \in Seq(Message)
      /\ made \in Nat /\ run.id \in Nat
  BY LoopParts
<1>b. /\ 1 .. made = log.cleared \cup log.lost \cup M \cup P \cup S \cup F
      /\ log.faults = {} => log.lost = {}
  BY DEF Accounted
<1>c. ASSUME 1 .. made' = log'.cleared \cup log'.lost \cup M2 \cup P2 \cup S2 \cup F2,
             log'.faults = {} => log'.lost = {}
      PROVE  Accounted'
  BY <1>c DEF Accounted
<1>n. Numbers(<<>>) = {}
  BY <1>a, NumbersParts
<1>u. 1 .. made + 1 = (1 .. made) \cup {made + 1}
  BY <1>a
\* What is said is no user message, or one that was pending.
<1>m. ASSUME NEW m \in Message, Says(m) PROVE M2 = M \cup Said2(m)
  BY <1>a, <1>m, NumbersAppend DEF Says
<1>p. ASSUME loop.pending # <<>>
      PROVE  Head(loop.pending) \in Message /\ P = Numbers(Tail(loop.pending)) \cup Said2(Head(loop.pending))
  <2>1. Head(loop.pending) \in Message
    BY <1>a, <1>p
  <2>2. P = Numbers(Tail(loop.pending)) \cup Said2(Head(loop.pending))
    BY <1>a, <1>p, NumbersParts, Zenon
  <2> QED
    BY <2>1, <2>2
<1>q. agent'.messages = agent.messages => M2 = M
  OBVIOUS
<1>r. loop'.pending = loop.pending => P2 = P
  OBVIOUS
<1>s. /\ queue'.steering = queue.steering => S2 = S
      /\ queue'.followUp = queue.followUp => F2 = F
      /\ queue' = queue => S2 = S /\ F2 = F
  OBVIOUS
<1>t. /\ \A mode : queue'.steering = Kept(queue.steering, mode) => Numbers(Drained(queue.steering, mode)) \cup S2 = S
      /\ \A mode : queue'.followUp = Kept(queue.followUp, mode) => Numbers(Drained(queue.followUp, mode)) \cup F2 = F
  BY <1>a, NumbersParts
\* Nothing is said and nothing is taken.
<1>d. ASSUME agent'.messages = agent.messages, loop'.pending = loop.pending, queue' = queue,
             made' = made, log' = log
      PROVE  Accounted'
  BY <1>d DEF Accounted
<1>1. CASE ThrewQuietly
  <2>1. /\ agent'.messages = agent.messages /\ loop'.pending = <<>> /\ queue' = queue /\ made' = made
        /\ log'.cleared = log.cleared /\ log'.lost = log.lost \cup (P \ M2)
        /\ log'.faults = log.faults \cup {run.id}
    BY <1>1 DEF ThrewQuietly, Threw, Elsewhere
  <2>2. M2 = M /\ P2 = {} /\ S2 = S /\ F2 = F
    BY <1>n, <1>q, <1>s, <2>1
  <2> HIDE DEF M, P, S, F, M2, P2, S2, F2
  <2> QED
    BY <1>b, <1>c, <2>1, <2>2
<1>2. CASE ThrewSaying
  <2>0. PICK m \in Message : Sayable(m) /\ Says(m)
    BY <1>2 DEF ThrewSaying
  <2>1. /\ loop'.pending = <<>> /\ queue' = queue /\ made' = made
        /\ log'.cleared = log.cleared /\ log'.lost = log.lost \cup (P \ M2)
        /\ log'.faults = log.faults \cup {run.id}
    BY <1>2 DEF ThrewSaying, Threw, Elsewhere
  <2>2. M2 = M \cup Said2(m) /\ P2 = {} /\ S2 = S /\ F2 = F
    BY <1>m, <1>n, <1>s, <2>0, <2>1
  <2>3. Said2(m) \subseteq P
    <3>1. CASE loop.pending # <<>> /\ m = Head(loop.pending)
      BY <1>p, <3>1
    <3>2. CASE m.role # "user"
      BY <3>2
    <3>3. (loop.pending # <<>> /\ m = Head(loop.pending)) \/ m.role # "user"
      BY <2>0 DEF Sayable, Assistant, Result, FailureMessage
    <3> QED
      BY <3>1, <3>2, <3>3
  <2> HIDE DEF M, P, S, F, M2, P2, S2, F2, Said2
  <2> QED
    BY <1>b, <1>c, <2>1, <2>2, <2>3
<1>3. CASE Moves
  BY <1>3, <1>d DEF Moves, Silent, SameLoop, SameTalk, Elsewhere
<1>4. CASE Takes
  <2>1. /\ loop.pending # <<>> /\ Says(Head(loop.pending)) /\ loop'.pending = Tail(loop.pending)
        /\ queue' = queue /\ made' = made /\ log' = log
    BY <1>4 DEF Takes, Elsewhere
  <2>2. M2 = M \cup Said2(Head(loop.pending)) /\ P = P2 \cup Said2(Head(loop.pending)) /\ S2 = S /\ F2 = F
    BY <1>m, <1>p, <1>s, <2>1
  <2> HIDE DEF M, P, S, F, M2, P2, S2, F2, Said2
  <2> QED
    BY <1>b, <1>c, <2>1, <2>2
<1>5. ASSUME NEW mode \in QueueModes, Polls(mode) PROVE Accounted'
  <2>1. agent'.messages = agent.messages /\ made' = made /\ log' = log
        /\ loop.pc \in {"pollSteering", "pollFollowUp"}
    BY <1>5 DEF Polls, Silent, Place
  <2>2. M2 = M /\ P = {}
    BY <1>n, <1>q, <2>1 DEF Shape
  <2>3. CASE loop'.pending = <<>> /\ queue' = queue
    <3>1. P2 = {} /\ S2 = S /\ F2 = F
      BY <1>n, <1>s, <2>3
    <3> HIDE DEF M, P, S, F, M2, P2, S2, F2
    <3> QED
      BY <1>b, <1>c, <2>1, <2>2, <3>1
  <2>4. CASE /\ loop'.pending = Drained(queue.steering, mode)
             /\ queue'.steering = Kept(queue.steering, mode) /\ queue'.followUp = queue.followUp
    <3>1. P2 \cup S2 = S /\ F2 = F
      BY <1>s, <1>t, <2>4
    <3> HIDE DEF M, P, S, F, M2, P2, S2, F2
    <3> QED
      BY <1>b, <1>c, <2>1, <2>2, <3>1
  <2>5. CASE /\ loop'.pending = Drained(queue.followUp, mode)
             /\ queue'.followUp = Kept(queue.followUp, mode) /\ queue'.steering = queue.steering
    <3>1. P2 \cup F2 = F /\ S2 = S
      BY <1>s, <1>t, <2>5
    <3> HIDE DEF M, P, S, F, M2, P2, S2, F2
    <3> QED
      BY <1>b, <1>c, <2>1, <2>2, <3>1
  <2> QED
    BY <1>5, <2>3, <2>4, <2>5 DEF Polls
<1>6. CASE Requests
  BY <1>6, <1>d DEF Requests, Silent, Elsewhere
\* A response, a tool result or the failure message.
<1>e. ASSUME NEW m \in Message, m.role # "user", Says(m), loop'.pending = loop.pending,
             queue' = queue, made' = made, log' = log
      PROVE  Accounted'
  <2>1. M2 = M /\ P2 = P /\ S2 = S /\ F2 = F
    BY <1>e, <1>m, <1>r, <1>s
  <2> HIDE DEF M, P, S, F, M2, P2, S2, F2
  <2> QED
    BY <1>b, <1>c, <1>e, <2>1
<1>7. ASSUME NEW n \in 0 .. MaxCalls, Answers(n) PROVE Accounted'
  <2>1. Assistant(loop.turn, n) \in Message /\ Assistant(loop.turn, n).role # "user"
    BY LoopParts, AgentLoopAssumption, MessageTypes DEF Assistant
  <2> QED
    BY <1>7, <1>e, <2>1 DEF Answers, Elsewhere
<1>8. CASE StartsCall \/ EndsAtOnce \/ Prepares \/ Executes
  BY <1>8, <1>d DEF StartsCall, EndsAtOnce, Prepares, Executes, Silent, SameLoop, SameTalk, Elsewhere
<1>9. ASSUME NEW c \in tools, ToolEnds(c) \/ ToolStrays(c) PROVE Accounted'
  BY <1>9, <1>d DEF ToolEnds, ToolStrays, SameTalk, Elsewhere
<1>10. CASE SaysResult
  <2>1. Result(loop.turn, loop.results + 1) \in Message
        /\ Result(loop.turn, loop.results + 1).role # "user"
    BY LoopParts, MessageTypes DEF Result
  <2> QED
    BY <1>10, <1>e, <2>1 DEF SaysResult, SameTalk, Elsewhere
<1>11. CASE BatchEnds
  BY <1>11, <1>d DEF BatchEnds, Silent, Elsewhere
<1>12. CASE Fails
  <2>1. FailureMessage \in Message /\ FailureMessage.role # "user"
    BY MessageTypes DEF FailureMessage, Assistant
  <2> QED
    BY <1>12, <1>e, <2>1 DEF Fails, SameLoop, SameTalk, Elsewhere
<1>13. CASE Finishes
  <2>1. loop.pending = <<>>
    BY <1>13 DEF Finishes, Place, Shape
  <2> QED
    BY <1>13, <1>d, <2>1 DEF Finishes
<1>14. ASSUME NEW mode \in QueueModes, NEW prompts \in Seq(Message), Begins(prompts, mode)
       PROVE  Accounted'
  <2>1. /\ agent'.messages = agent.messages /\ loop'.pending = prompts /\ loop.pc = "idle"
        /\ log'.cleared = log.cleared /\ log'.lost = log.lost /\ log'.faults = log.faults
    BY <1>14 DEF Begins, Silent, Shape
  <2>2. M2 = M /\ P = {}
    BY <1>n, <1>q, <2>1 DEF Shape
  <2>3. CASE made' = made + 1 /\ prompts = <<User(made + 1, Prompted)>> /\ queue' = queue
    <3>1. P2 = {made + 1}
      <4> DEFINE u == User(made + 1, Prompted)
      <4>1. P2 = Numbers(<<u>>)
        BY <2>1, <2>3
      <4>2. u.role = "user" /\ u.n = made + 1
        BY DEF User
      <4> HIDE DEF u
      <4>3. DOMAIN <<u>> = {1} /\ <<u>>[1] = u
        OBVIOUS
      <4>4. \A n : n \in Numbers(<<u>>) <=> n = made + 1
        BY <4>2, <4>3, NumbersOf
      <4> HIDE DEF P2
      <4> QED
        BY <4>1, <4>4
    <3>2. S2 = S /\ F2 = F
      BY <1>s, <2>3
    <3> HIDE DEF M, P, S, F, M2, P2, S2, F2
    <3> QED
      BY <1>b, <1>c, <1>u, <2>1, <2>2, <2>3, <3>1, <3>2
  <2>4. CASE made' = made /\ prompts = <<>> /\ queue' = queue
    <3>1. P2 = {} /\ S2 = S /\ F2 = F
      BY <1>n, <1>s, <2>1, <2>4
    <3> HIDE DEF M, P, S, F, M2, P2, S2, F2
    <3> QED
      BY <1>b, <1>c, <2>1, <2>2, <2>4, <3>1
  <2>5. CASE /\ made' = made /\ prompts = Drained(queue.steering, mode)
             /\ queue'.steering = Kept(queue.steering, mode) /\ queue'.followUp = queue.followUp
    <3>1. P2 \cup S2 = S /\ F2 = F
      BY <1>s, <1>t, <2>1, <2>5
    <3> HIDE DEF M, P, S, F, M2, P2, S2, F2
    <3> QED
      BY <1>b, <1>c, <2>1, <2>2, <2>5, <3>1
  <2>6. CASE /\ made' = made /\ prompts = Drained(queue.followUp, mode)
             /\ queue'.followUp = Kept(queue.followUp, mode) /\ queue'.steering = queue.steering
    <3>1. P2 \cup F2 = F /\ S2 = S
      BY <1>s, <1>t, <2>1, <2>6
    <3> HIDE DEF M, P, S, F, M2, P2, S2, F2
    <3> QED
      BY <1>b, <1>c, <2>1, <2>2, <2>6, <3>1
  <2> QED
    BY <1>14, <2>3, <2>4, <2>5, <2>6 DEF Begins
<1>15. CASE Queues
  <2>1. UNCHANGED <<agent, loop, log>> /\ made' = made + 1
    BY <1>15 DEF Queues
  <2>2. ASSUME NEW via \in {Steered, FollowedUp}
        PROVE  User(made + 1, via) \in Message /\ Said2(User(made + 1, via)) = {made + 1}
    <3>1. User(made + 1, via) \in Message
      BY <1>a, <2>2, MessageTypes DEF Steered, FollowedUp
    <3>2. User(made + 1, via).role = "user" /\ User(made + 1, via).n = made + 1
      BY DEF User
    <3> QED
      BY <3>1, <3>2
  <2>3. M2 = M /\ P2 = P
    BY <2>1
  <2>4. (S2 = S \cup {made + 1} /\ F2 = F) \/ (F2 = F \cup {made + 1} /\ S2 = S)
    <3>1. CASE queue'.steering = Append(queue.steering, User(made + 1, Steered))
               /\ queue'.followUp = queue.followUp
      <4>1. S2 = S \cup Said2(User(made + 1, Steered))
        BY <1>a, <2>2, <3>1, NumbersAppend
      <4> QED
        BY <1>s, <2>2, <3>1, <4>1
    <3>2. CASE queue'.followUp = Append(queue.followUp, User(made + 1, FollowedUp))
               /\ queue'.steering = queue.steering
      <4>1. F2 = F \cup Said2(User(made + 1, FollowedUp))
        BY <1>a, <2>2, <3>2, NumbersAppend
      <4> QED
        BY <1>s, <2>2, <3>2, <4>1
    <3> QED
      BY <1>15, <3>1, <3>2 DEF Queues
  <2> HIDE DEF M, P, S, F, M2, P2, S2, F2
  <2> QED
    BY <1>b, <1>c, <1>u, <2>1, <2>3, <2>4
<1>16. CASE Clears
  <2>1. M2 = M /\ P2 = P /\ made' = made /\ log'.lost = log.lost /\ log'.faults = log.faults
        /\ log.cleared \subseteq log'.cleared /\ log'.cleared \subseteq log.cleared \cup S \cup F
    BY <1>16 DEF Clears
  <2>2. (S2 = S \/ (S2 = {} /\ S \subseteq log'.cleared)) /\ (F2 = F \/ (F2 = {} /\ F \subseteq log'.cleared))
    BY <1>16, <1>n DEF Clears
  <2> HIDE DEF M, P, S, F, M2, P2, S2, F2
  <2> QED
    BY <1>b, <1>c, <2>1, <2>2
<1>17. CASE Resets
  <2>1. M2 = {} /\ P2 = P /\ S2 = {} /\ F2 = {} /\ made' = made /\ log'.lost = log.lost
        /\ log'.faults = log.faults
        /\ log'.cleared = log.cleared \cup Numbers(agent.messages \o queue.steering \o queue.followUp)
    BY <1>17, <1>n DEF Resets
  <2>2. Numbers(agent.messages \o queue.steering \o queue.followUp) = M \cup S \cup F
    <3> DEFINE ms == agent.messages \o queue.steering
    <3>1. ms \in Seq(Message) /\ Numbers(ms) = M \cup S
      BY <1>a, NumbersJoin
    <3> HIDE DEF ms
    <3>2. Numbers(ms \o queue.followUp) = Numbers(ms) \cup F
      BY <1>a, <3>1, NumbersJoin
    <3> QED
      BY <3>1, <3>2 DEF ms
  <2> HIDE DEF M, P, S, F, M2, P2, S2, F2
  <2> QED
    BY <1>b, <1>c, <2>1, <2>2
<1>18. CASE Aborts \/ UNCHANGED vars
  BY <1>18, <1>d DEF Aborts, vars
<1> QED
  BY <1>1, <1>2, <1>3, <1>4, <1>5, <1>6, <1>7, <1>8, <1>9, <1>10, <1>11, <1>12, <1>13, <1>14,
     <1>15, <1>16, <1>17, <1>18 DEF Kind, LoopKind, UserKind

\* Every message handed to prompt(), steer() and followUp() is in the transcript, on
\* its way there, in a queue or was cleared by the user, over every failure and
\* abort; only a callback that throws loses one (runWithLifecycle, drain).
THEOREM MessagesDoNotVanish == Spec => []NothingVanishes
<1>1. Init => Types /\ ToolInv /\ Accounted
  <2> SUFFICES ASSUME Init PROVE Accounted
    BY InitTypes, ToolsAtStart
  <2>1. /\ agent.messages = <<>> /\ queue.steering = <<>> /\ queue.followUp = <<>>
        /\ loop.pending = <<>> /\ log.cleared = {} /\ log.lost = {} /\ made = 0
    BY DEF Init, IdleLoop
  <2>2. Numbers(<<>>) = {}
    BY DEF Numbers
  <2>3. 1 .. 0 = {}
    OBVIOUS
  <2> QED
    BY <2>1, <2>2, <2>3 DEF Accounted
<1>2. Types /\ ToolInv /\ Accounted /\ [Next]_vars => (Types /\ ToolInv /\ Accounted)'
  <2> SUFFICES ASSUME Types, ToolInv, Accounted, [Next]_vars PROVE (Types /\ ToolInv /\ Accounted)'
    OBVIOUS
  <2>1. Types' /\ ToolInv' /\ Kind /\ Shape
    BY ToolKept, Kinds DEF ToolInv
  <2> QED
    BY <2>1, AccountedKept
<1>3. Types /\ Accounted => NothingVanishes
  <2> SUFFICES ASSUME Types, Accounted PROVE NothingVanishes
    OBVIOUS
  <2> DEFINE mp == agent.messages \o loop.pending
             mps == mp \o queue.steering
  <2>0. /\ agent.messages \in Seq(Message) /\ loop.pending \in Seq(Message)
        /\ queue.steering \in Seq(Message) /\ queue.followUp \in Seq(Message)
    BY LoopParts
  <2>1. mp \in Seq(Message) /\ Numbers(mp) = Numbers(agent.messages) \cup Numbers(loop.pending)
    BY <2>0, NumbersJoin
  <2>2. mps \in Seq(Message) /\ Numbers(mps) = Numbers(mp) \cup Numbers(queue.steering)
    <3> HIDE DEF mp
    <3> QED
      BY <2>0, <2>1, NumbersJoin
  <2>3. Numbers(Journey) = Numbers(mps) \cup Numbers(queue.followUp)
    <3>1. Journey = mps \o queue.followUp
      BY DEF Journey
    <3> HIDE DEF mps
    <3> QED
      BY <2>0, <2>2, <3>1, NumbersJoin
  <2> HIDE DEF mp, mps
  <2> QED
    BY <2>1, <2>2, <2>3 DEF Accounted, NothingVanishes
<1> QED
  BY <1>1, <1>2, <1>3, PTL DEF Spec
=============================================================================
