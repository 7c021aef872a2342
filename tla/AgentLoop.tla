----------------------------- MODULE AgentLoop -----------------------------
(***************************************************************************)
(* The agent runtime of packages/agent: the Agent object (agent.ts) with   *)
(* its transcript, message queues and active run, and the loop it runs     *)
(* (agent-loop.ts): prompts, streamed responses, tool batches in sequence  *)
(* or in parallel, steering and follow-up messages, abort and failure.     *)
(*                                                                         *)
(* The code is single-threaded and asynchronous: an action is what happens *)
(* between two awaits, and the user's calls interleave at every await.     *)
(* Emitting an event updates the agent's state at once and then awaits the *)
(* listeners, any of which may throw.                                      *)
(***************************************************************************)
EXTENDS Integers, Sequences, FiniteSets, SequencesExt

CONSTANTS
    Budgets,       \* bounds on what may happen in one behaviour (Budget below)
    MaxCalls,      \* tool calls of one response
    QueueModes     \* modes the queues are set to, at any time

\* A budget: user messages made, responses with tool calls, callbacks (listeners,
\* stream function, hooks) that throw, calls of abort, calls of clear and reset.
Budget == [user : Nat, toolTurns : Nat, throws : Nat, aborts : Nat, clears : Nat]

ASSUME AgentLoopAssumption ==
    /\ Budgets \subseteq Budget /\ IsFiniteSet(Budgets) /\ MaxCalls \in Nat
    /\ QueueModes \subseteq {"all", "one-at-a-time"} /\ QueueModes # {}

VARIABLES
    agent,     \* AgentState: what the Agent object shows to the outside
    queue,     \* the steering and the follow-up queue
    run,       \* the active run and its abort signal
    loop,      \* the loop coroutine: where it is and its locals
    tools,     \* tool executions in flight, also of batches nobody awaits
    budget,    \* what is left of the bounds
    made,      \* user messages made so far
    log        \* history: events after agent_end, messages that got lost

vars == <<agent, queue, run, loop, tools, budget, made, log>>

-----------------------------------------------------------------------------
(* Messages.  n is a user message's number, the turn of a response or the  *)
(* turn a tool result answers; i is the way a user message came in, the    *)
(* number of a response's tool calls or the call that a result answers.    *)

Message == [role : {"user", "assistant", "toolResult"}, n : Nat, i : Nat]
Prompted == 0
Steered == 1
FollowedUp == 2
User(n, via) == [role |-> "user", n |-> n, i |-> via]
Assistant(t, calls) == [role |-> "assistant", n |-> t, i |-> calls]
Result(t, i) == [role |-> "toolResult", n |-> t, i |-> i]
FailureMessage == Assistant(0, 0)

\* Every response answers a user message, a tool batch or a retry.
MaxTurns == Max({b.user + b.toolTurns + b.throws : b \in Budgets} \cup {0})
Turns == 1 .. MaxTurns
Calls == 1 .. MaxCalls

\* A tool execution knows the run, turn and call it belongs to.
ToolCall == [run : Nat, turn : Turns, i : Calls]

LoopPc == {"idle", "start", "prompts", "pollSteering", "top", "inject", "request",
           "stream", "call", "prepare", "next", "await", "results", "turnEnd",
           "pollFollowUp", "agentEnd", "failed", "failedEnd", "finish"}

TypeOK ==
    /\ agent \in [messages : Seq(Message), isStreaming : BOOLEAN,
                  streamingMessage : BOOLEAN, pendingToolCalls : SUBSET (Turns \X Calls)]
    /\ queue \in [steering : Seq(Message), followUp : Seq(Message)]
    /\ run \in [id : Nat, active : BOOLEAN, aborted : BOOLEAN]
    /\ loop \in [pc : LoopPc, context : Seq(Message), pending : Seq(Message),
                 skipPoll : BOOLEAN, firstTurn : BOOLEAN, hasMore : BOOLEAN,
                 stopped : BOOLEAN, turn : 0 .. MaxTurns, calls : 0 .. MaxCalls,
                 sequential : BOOLEAN, started : 0 .. MaxCalls,
                 prepared : SUBSET Calls, done : SUBSET Calls,
                 results : 0 .. MaxCalls, terminate : BOOLEAN]
    /\ tools \in SUBSET ToolCall
    /\ budget \in Budget /\ made \in Nat
    /\ log \in [cleared : SUBSET Nat, lost : SUBSET Nat, faults : SUBSET Nat, forgot : BOOLEAN]

-----------------------------------------------------------------------------
(* Helpers *)

IdleLoop ==
    [pc |-> "idle", context |-> <<>>, pending |-> <<>>, skipPoll |-> FALSE,
     firstTurn |-> TRUE, hasMore |-> FALSE, stopped |-> FALSE, turn |-> 0,
     calls |-> 0, sequential |-> FALSE, started |-> 0, prepared |-> {},
     done |-> {}, results |-> 0, terminate |-> TRUE]

Numbers(s) == {s[k].n : k \in {k \in DOMAIN s : s[k].role = "user"}}

\* Mutants of drain: the message stays in the queue; the ones after the first are
\* handed out.
KeptWhole(q, mode) == IF mode = "all" THEN <<>> ELSE q
DrainedRest(q, mode) == IF mode = "all" \/ q = <<>> THEN q ELSE Tail(q)

\* PendingMessageQueue.drain: what it hands out and what it keeps.
Drained(q, mode) == IF mode = "all" \/ q = <<>> THEN q ELSE <<Head(q)>>
Kept(q, mode) == IF mode = "all" \/ q = <<>> THEN <<>> ELSE Tail(q)

\* processEvents on the agent's state, for one event.
MessageStart(a) == [a EXCEPT !.streamingMessage = TRUE]
MessageEnd(a, m) == [a EXCEPT !.streamingMessage = FALSE,
                              !.messages = Append(@, m)]
ToolStart(a, c) == [a EXCEPT !.pendingToolCalls = @ \cup {c}]
ToolEnd(a, c) == [a EXCEPT !.pendingToolCalls = @ \ {c}]

\* Some callback throws: the loop rejects, and what it drained from a queue
\* and has not put into the transcript is gone with it.  What handleRunFailure
\* throws goes to the caller of prompt(), and the run is over.
ThrowsWith(b, a) ==
    /\ b.throws > 0
    /\ budget' = [b EXCEPT !.throws = @ - 1]
    /\ loop' = [loop EXCEPT !.pc = IF @ \in {"failed", "failedEnd"} THEN "finish"
                                  ELSE "failed",
                            !.pending = <<>>]
    /\ log' = [log EXCEPT
                 !.lost = @ \cup (Numbers(loop.pending) \ Numbers(a.messages)),
                 !.faults = @ \cup {run.id}]

Throws(a) == ThrowsWith(budget, a)

\* An event of the active run that leaves agent state a behind; the loop goes
\* on as l, or a listener throws.
Emit(a, l) ==
    /\ agent' = a
    /\ \/ loop' = l /\ UNCHANGED <<budget, log>>
       \/ Throws(a)

-----------------------------------------------------------------------------
(* Agent: the calls of its user *)

CanQueue == budget.user > 0
NextUser(via) == User(made + 1, via)
UseUser == budget' = [budget EXCEPT !.user = @ - 1] /\ made' = made + 1

Steer ==
    /\ CanQueue /\ UseUser
    /\ queue' = [queue EXCEPT !.steering = Append(@, NextUser(Steered))]
    /\ UNCHANGED <<agent, run, loop, tools, log>>

FollowUp ==
    /\ CanQueue /\ UseUser
    /\ queue' = [queue EXCEPT !.followUp = Append(@, NextUser(FollowedUp))]
    /\ UNCHANGED <<agent, run, loop, tools, log>>

\* clearSteeringQueue, clearFollowUpQueue or clearAllQueues.
ClearQueues == \E which \in SUBSET DOMAIN queue :
    /\ budget.clears > 0
    /\ budget' = [budget EXCEPT !.clears = @ - 1]
    /\ queue' = [q \in DOMAIN queue |-> IF q \in which THEN <<>> ELSE queue[q]]
    /\ log' = [log EXCEPT !.cleared = @ \cup UNION {Numbers(queue[q]) : q \in which}]
    /\ UNCHANGED <<agent, run, loop, tools, made>>

Abort ==
    /\ run.active /\ budget.aborts > 0
    /\ budget' = [budget EXCEPT !.aborts = @ - 1]
    /\ run' = [run EXCEPT !.aborted = TRUE]
    /\ UNCHANGED <<agent, queue, loop, tools, made, log>>

\* Nothing keeps reset() from being called during a run.
Reset ==
    /\ budget.clears > 0
    /\ budget' = [budget EXCEPT !.clears = @ - 1]
    /\ agent' = [messages |-> <<>>, isStreaming |-> FALSE,
                 streamingMessage |-> FALSE, pendingToolCalls |-> {}]
    /\ queue' = [steering |-> <<>>, followUp |-> <<>>]
    /\ log' = [log EXCEPT
                 !.cleared = @ \cup Numbers(agent.messages \o queue.steering
                                             \o queue.followUp),
                 !.forgot = @ \/ run.active]
    /\ UNCHANGED <<run, loop, tools, made>>

\* runWithLifecycle up to its first await, with the prompts to start from; the
\* context is a copy of the transcript.
Begin(prompts, skip) ==
    /\ run' = [id |-> run.id + 1, active |-> TRUE, aborted |-> FALSE]
    /\ agent' = [agent EXCEPT !.isStreaming = TRUE, !.streamingMessage = FALSE]
    /\ loop' = [IdleLoop EXCEPT !.pc = "start", !.skipPoll = skip, !.hasMore = TRUE,
                  !.turn = loop.turn,
                  !.context = agent.messages \o prompts, !.pending = prompts]
    /\ log' = [log EXCEPT !.forgot = FALSE]
    /\ UNCHANGED tools

Prompt ==
    /\ ~run.active /\ CanQueue /\ UseUser
    /\ Begin(<<NextUser(Prompted)>>, FALSE)
    /\ UNCHANGED queue

\* continue(): from a user message or tool result as it is; from an assistant
\* message with what the queues hold.
Continue == \E mode \in QueueModes :
    /\ ~run.active /\ agent.messages # <<>>
    /\ \/ /\ Last(agent.messages).role # "assistant"
          /\ Begin(<<>>, FALSE)
          /\ UNCHANGED queue
       \/ /\ Last(agent.messages).role = "assistant"
          /\ queue.steering # <<>>
          /\ Begin(Drained(queue.steering, mode), TRUE)
          /\ queue' = [queue EXCEPT !.steering = Kept(@, mode)]
       \/ /\ Last(agent.messages).role = "assistant"
          /\ queue.steering = <<>> /\ queue.followUp # <<>>
          /\ Begin(Drained(queue.followUp, mode), FALSE)
          /\ queue' = [queue EXCEPT !.followUp = Kept(@, mode)]
    /\ UNCHANGED <<budget, made>>
-----------------------------------------------------------------------------
(* runLoop *)

At(pc) == loop.pc = pc

\* message_start and message_end of m; a listener may throw at either.
EmitMessage(m, l) ==
    \/ agent' = MessageStart(agent) /\ Throws(agent)
    \/ Emit(MessageEnd(agent, m), l)

\* agent_start and the first turn_start.
Start ==
    /\ At("start")
    /\ Emit(agent, [loop EXCEPT !.pc = "prompts"])
    /\ UNCHANGED <<queue, run, tools>>

\* The prompts are in the context already; they enter the transcript here.
EmitPrompt ==
    /\ At("prompts")
    /\ \/ /\ loop.pending # <<>>
          /\ EmitMessage(Head(loop.pending), [loop EXCEPT !.pending = Tail(@)])
       \/ /\ loop.pending = <<>>
          /\ loop' = [loop EXCEPT !.pc = "pollSteering"]
          /\ UNCHANGED <<agent, budget, log>>
    /\ UNCHANGED <<queue, run, tools>>

\* getSteeringMessages; the first poll after continue() drained the queue is
\* skipped.
PollSteering == \E mode \in QueueModes :
    /\ At("pollSteering")
    /\ loop' = [loop EXCEPT !.pc = "top", !.skipPoll = FALSE,
                  !.pending = IF loop.skipPoll THEN <<>> ELSE Drained(queue.steering, mode)]
    /\ queue' = IF loop.skipPoll THEN queue
                ELSE [queue EXCEPT !.steering = Kept(@, mode)]
    /\ UNCHANGED <<agent, run, tools, budget, log>>

\* The inner loop's condition, and turn_start unless it was emitted already.
TopOfLoop ==
    /\ At("top")
    /\ \/ /\ ~loop.hasMore /\ loop.pending = <<>>
          /\ loop' = [loop EXCEPT !.pc = "pollFollowUp"]
          /\ UNCHANGED <<agent, budget, log>>
       \/ /\ loop.hasMore \/ loop.pending # <<>>
          /\ loop.firstTurn
          /\ loop' = [loop EXCEPT !.pc = "inject", !.firstTurn = FALSE]
          /\ UNCHANGED <<agent, budget, log>>
       \/ /\ loop.hasMore \/ loop.pending # <<>>
          /\ ~loop.firstTurn
          /\ Emit(agent, [loop EXCEPT !.pc = "inject"])
    /\ UNCHANGED <<queue, run, tools>>

\* Mutant: an injected message is not pushed into the loop's context.
InjectNoContext ==
    /\ At("inject")
    /\ \/ /\ loop.pending # <<>>
          /\ EmitMessage(Head(loop.pending), [loop EXCEPT !.pending = Tail(@)])
       \/ /\ loop.pending = <<>>
          /\ loop' = [loop EXCEPT !.pc = "request"]
          /\ UNCHANGED <<agent, budget, log>>
    /\ UNCHANGED <<queue, run, tools>>

Inject ==
    /\ At("inject")
    /\ \/ /\ loop.pending # <<>>
          /\ EmitMessage(Head(loop.pending),
                 [loop EXCEPT !.pending = Tail(@),
                              !.context = Append(@, Head(loop.pending))])
       \/ /\ loop.pending = <<>>
          /\ loop' = [loop EXCEPT !.pc = "request"]
          /\ UNCHANGED <<agent, budget, log>>
    /\ UNCHANGED <<queue, run, tools>>

\* streamAssistantResponse up to the first event: transformContext,
\* convertToLlm, the key or the stream function may throw; the partial message
\* goes into the context and message_start is emitted.
Request ==
    /\ At("request")
    /\ \/ agent' = agent /\ Throws(agent)
       \/ Emit(MessageStart(agent),
               [loop EXCEPT !.pc = "stream", !.turn = @ + 1,
                            !.context = Append(@, Assistant(loop.turn + 1, 0))])
    /\ UNCHANGED <<queue, run, tools>>

\* The stream ends: the final message replaces the partial one and enters the
\* transcript.  It may carry tool calls, or have stopped by error or abort.
StreamEnd ==
    /\ At("stream")
    /\ \E n \in 0 .. MaxCalls, stopped \in BOOLEAN, seq \in BOOLEAN :
         LET m == Assistant(loop.turn, n)
             b == IF n = 0 THEN budget ELSE [budget EXCEPT !.toolTurns = @ - 1]
             next == [loop EXCEPT
                        !.context = Append(Front(@), m), !.stopped = stopped,
                        !.calls = n, !.sequential = seq, !.started = 0,
                        !.prepared = {}, !.done = {}, !.results = 0,
                        !.terminate = TRUE, !.hasMore = FALSE,
                        !.pc = IF stopped \/ n = 0 THEN "turnEnd" ELSE "call"]
         IN  /\ n > 0 => budget.toolTurns > 0
             /\ seq => n > 0
             /\ agent' = MessageEnd(agent, m)
             /\ \/ loop' = next /\ budget' = b /\ UNCHANGED log
                \/ ThrowsWith(b, agent')
    /\ UNCHANGED <<queue, run, tools>>

\* A listener of message_update, or the stream itself, throws.
StreamThrows ==
    /\ At("stream")
    /\ agent' = agent /\ Throws(agent)
    /\ UNCHANGED <<queue, run, tools>>

-----------------------------------------------------------------------------
(* executeToolCalls *)

Call == <<loop.turn, loop.started>>
InFlight(i) == [run |-> run.id, turn |-> loop.turn, i |-> i]

\* tool_execution_start of the next call.
StartCall ==
    /\ At("call")
    /\ Emit(ToolStart(agent, <<loop.turn, loop.started + 1>>),
            [loop EXCEPT !.pc = "prepare", !.started = @ + 1])
    /\ UNCHANGED <<queue, run, tools>>

\* Mutant: an immediate answer without its tool_execution_end.
PrepareImmediateSilent ==
    /\ At("prepare")
    /\ Emit(agent, [loop EXCEPT !.pc = "next", !.done = @ \cup {loop.started},
                                !.terminate = FALSE])
    /\ UNCHANGED <<queue, run, tools>>

\* prepareToolCall answers at once: no such tool, bad arguments, blocked by
\* beforeToolCall, or aborted.  tool_execution_end follows.
PrepareImmediate ==
    /\ At("prepare")
    /\ Emit(ToolEnd(agent, Call),
            [loop EXCEPT !.pc = "next", !.done = @ \cup {loop.started},
                         !.terminate = FALSE])
    /\ UNCHANGED <<queue, run, tools>>

\* prepareToolCall lets the call through.
Prepare ==
    /\ At("prepare") /\ ~run.aborted
    /\ loop' = [loop EXCEPT !.pc = "next", !.prepared = @ \cup {loop.started}]
    /\ UNCHANGED <<agent, queue, run, tools, budget, log>>

\* In sequence the call is executed now.  In parallel the next one is prepared
\* first; after the last one, or an abort, all that were prepared are executed.
NextCall ==
    /\ At("next")
    /\ \/ /\ ~loop.sequential /\ loop.started < loop.calls /\ ~run.aborted
          /\ loop' = [loop EXCEPT !.pc = "call"]
          /\ UNCHANGED tools
       \/ /\ loop.sequential \/ loop.started = loop.calls \/ run.aborted
          /\ loop' = [loop EXCEPT !.pc = "await"]
          /\ tools' = tools \cup {InFlight(i) : i \in loop.prepared \ loop.done}
    /\ UNCHANGED <<agent, queue, run, budget, log>>

\* The loop awaits tool execution c, as opposed to having been rejected.
Awaited(c) == At("await") /\ c.run = run.id /\ c.turn = loop.turn

\* tool.execute ends, afterToolCall is applied and tool_execution_end emitted;
\* a listener of tool_execution_update that threw skips the latter.  One that
\* throws rejects the batch; the others keep running.  Outside an active run
\* the event still changes the state, and then throws to nobody.
ToolDone(c) ==
    /\ tools' = tools \ {c}
    /\ \E ended, term \in BOOLEAN :
         /\ agent' = IF ended THEN ToolEnd(agent, <<c.turn, c.i>>) ELSE agent
         /\ \/ /\ Awaited(c) /\ ended
               /\ loop' = [loop EXCEPT !.done = @ \cup {c.i}, !.terminate = @ /\ term]
               /\ UNCHANGED <<budget, log>>
            \/ Awaited(c) /\ Throws(agent)
            \/ ~Awaited(c) /\ UNCHANGED <<loop, budget, log>>
    /\ UNCHANGED <<queue, run>>

\* Mutant: waits for every call, also those an abort kept from being begun.
BatchDoneAll ==
    /\ At("await")
    /\ loop.done = 1 .. loop.calls
    /\ loop' = [loop EXCEPT !.pc = "results"]
    /\ UNCHANGED <<agent, queue, run, tools, budget, log>>

\* Everything that was begun is done: its result messages follow.
BatchDone ==
    /\ At("await")
    /\ loop.done = 1 .. loop.started
    /\ loop' = [loop EXCEPT !.pc = "results"]
    /\ UNCHANGED <<agent, queue, run, tools, budget, log>>

\* Mutant: the result messages from the last call to the first.
EmitResultReversed ==
    /\ At("results")
    /\ \/ /\ loop.results < loop.started
          /\ EmitMessage(Result(loop.turn, loop.started - loop.results),
                         [loop EXCEPT !.results = @ + 1])
       \/ /\ loop.results = loop.started
          /\ loop' = [loop EXCEPT !.pc = "turnEnd", !.hasMore = ~loop.terminate]
          /\ UNCHANGED <<agent, budget, log>>
    /\ UNCHANGED <<queue, run, tools>>

\* The result messages in the order of the calls; with the last one they go
\* into the context.  In sequence the next call follows, unless aborted.
EmitResult ==
    /\ At("results")
    /\ \/ /\ loop.results < loop.started
          /\ EmitMessage(Result(loop.turn, loop.results + 1),
                         [loop EXCEPT !.results = @ + 1])
       \/ /\ loop.results = loop.started
          /\ loop.sequential /\ loop.started < loop.calls /\ ~run.aborted
          /\ loop' = [loop EXCEPT !.pc = "call"]
          /\ UNCHANGED <<agent, budget, log>>
       \/ /\ loop.results = loop.started
          /\ ~loop.sequential \/ loop.started = loop.calls \/ run.aborted
          /\ loop' = [loop EXCEPT
                        !.pc = "turnEnd", !.hasMore = ~loop.terminate,
                        !.context = @ \o [k \in 1 .. loop.started |->
                                             Result(loop.turn, k)]]
          /\ UNCHANGED <<agent, budget, log>>
    /\ UNCHANGED <<queue, run, tools>>
-----------------------------------------------------------------------------
(* The end of a turn and of a run *)

\* turn_end, then prepareNextTurn, which may throw but keeps the messages.
TurnEnd ==
    /\ At("turnEnd")
    /\ Emit(agent, [loop EXCEPT !.pc = IF loop.stopped THEN "agentEnd"
                                       ELSE "pollSteering"])
    /\ UNCHANGED <<queue, run, tools>>

PollFollowUp == \E mode \in QueueModes :
    /\ At("pollFollowUp")
    /\ \/ /\ queue.followUp # <<>>
          /\ loop' = [loop EXCEPT !.pc = "top", !.hasMore = TRUE,
                                  !.pending = Drained(queue.followUp, mode)]
          /\ queue' = [queue EXCEPT !.followUp = Kept(@, mode)]
       \/ /\ queue.followUp = <<>>
          /\ loop' = [loop EXCEPT !.pc = "agentEnd"]
          /\ UNCHANGED queue
    /\ UNCHANGED <<agent, run, tools, budget, log>>

\* agent_end, whose listeners may throw as well.
AgentEnd ==
    /\ At("agentEnd")
    /\ agent' = [agent EXCEPT !.streamingMessage = FALSE]
    /\ \/ /\ loop' = [loop EXCEPT !.pc = "finish"]
          /\ UNCHANGED <<budget, log>>
       \/ Throws(agent)
    /\ UNCHANGED <<queue, run, tools>>

\* handleRunFailure: an empty assistant message with the error ...
RunFailure ==
    /\ At("failed")
    /\ EmitMessage(FailureMessage, [loop EXCEPT !.pc = "failedEnd"])
    /\ UNCHANGED <<queue, run, tools>>

\* ... and turn_end and agent_end.
RunFailureEnd ==
    /\ At("failedEnd")
    /\ agent' = [agent EXCEPT !.streamingMessage = FALSE]
    /\ \/ /\ loop' = [loop EXCEPT !.pc = "finish"]
          /\ UNCHANGED <<budget, log>>
       \/ Throws(agent)
    /\ UNCHANGED <<queue, run, tools>>

FinishRun ==
    /\ At("finish")
    /\ agent' = [agent EXCEPT !.isStreaming = FALSE, !.streamingMessage = FALSE,
                              !.pendingToolCalls = {}]
    /\ run' = [run EXCEPT !.active = FALSE, !.aborted = FALSE]
    /\ loop' = [IdleLoop EXCEPT !.turn = loop.turn]
    /\ UNCHANGED <<queue, tools, budget, log>>

-----------------------------------------------------------------------------
Init ==
    /\ agent = [messages |-> <<>>, isStreaming |-> FALSE,
                streamingMessage |-> FALSE, pendingToolCalls |-> {}]
    /\ queue = [steering |-> <<>>, followUp |-> <<>>]
    /\ run = [id |-> 0, active |-> FALSE, aborted |-> FALSE]
    /\ loop = IdleLoop
    /\ tools = {}
    /\ budget \in Budgets /\ made = 0
    /\ log = [cleared |-> {}, lost |-> {},
              faults |-> {}, forgot |-> FALSE]

UserStep == \/ Prompt \/ Continue \/ Steer \/ FollowUp
            \/ ClearQueues \/ Abort \/ Reset

LoopStep == \/ Start \/ EmitPrompt \/ PollSteering \/ TopOfLoop \/ Inject
            \/ Request \/ StreamEnd \/ StreamThrows
            \/ StartCall \/ PrepareImmediate \/ Prepare \/ NextCall
            \/ BatchDone \/ EmitResult
            \/ TurnEnd \/ PollFollowUp \/ AgentEnd
            \/ RunFailure \/ RunFailureEnd \/ FinishRun

Next == \/ UserStep
        \/ UNCHANGED made /\ (LoopStep \/ \E c \in tools : ToolDone(c))

Spec == Init /\ [][Next]_vars

\* Listeners, tools and the provider settle; the user need not do anything.
FairSpec == /\ Spec
            /\ WF_vars(LoopStep /\ UNCHANGED made)
            /\ \A t \in Turns, i \in Calls :
                  WF_vars(\E c \in tools : c.turn = t /\ c.i = i /\ ToolDone(c) /\ UNCHANGED made)
-----------------------------------------------------------------------------
(* Properties *)

\* The run has not failed, and nobody called reset() during it.
Undisturbed == run.id \notin log.faults /\ ~log.forgot

\* What the provider is sent is the transcript: the loop keeps a context of its
\* own next to the agent's messages (pushes in runLoop against processEvents),
\* through prompts, injected messages, partial and final responses and batches.
ContextMirrorsTranscript ==
    At("request") /\ Undisturbed => loop.context = agent.messages

\* A tool result comes right after its response or the result of the call before
\* it, whatever order parallel calls finish in and whoever steers, is aborted or
\* fails meanwhile; and unless the run was aborted no request goes out with a tool
\* call of the last response unanswered (executeToolCallsParallel, runLoop).
ToolResultsInOrder ==
    /\ \A k \in 2 .. Len(agent.messages) :
          LET m == agent.messages[k]
              p == agent.messages[k - 1]
          IN  m.role = "toolResult" =>
                 /\ p.n = m.n
                 /\ \/ p.role = "toolResult" /\ p.i = m.i - 1
                    \/ p.role = "assistant" /\ m.i = 1 /\ p.i >= 1
    /\ At("request") /\ Undisturbed /\ ~run.aborted =>
          \A i \in 1 .. loop.calls : Result(loop.turn, i) \in Range(loop.context)

\* All messages, from the oldest in the transcript to the newest still queued.
Journey == agent.messages \o loop.pending \o queue.steering \o queue.followUp

\* Queued messages are delivered once each and in the order they were queued,
\* over polls, continue(), its skipped first poll, and failed runs.
QueuedOnceInOrder ==
    \A j, k \in DOMAIN Journey :
        /\ j < k /\ Journey[j].role = "user" /\ Journey[k].role = "user"
        /\ Journey[j].i = Journey[k].i /\ Journey[j].i # Prompted
        => Journey[j].n < Journey[k].n

\* Every message a user handed over is in the transcript, on its way there, in
\* a queue or was cleared by the user; only a callback that threw loses one.
NothingVanishes ==
    /\ 1 .. made = log.cleared \cup log.lost \cup Numbers(Journey)
    /\ log.faults = {} => log.lost = {}

\* The agent shows as pending the tool calls begun and not ended: all of them,
\* none from a batch that was aborted or blocked, and none when it is idle,
\* even if tools of a failed batch are still running.
PendingToolCallsExact ==
    /\ ~run.active => agent.pendingToolCalls = {}
    /\ run.active /\ Undisturbed =>
         agent.pendingToolCalls = {<<loop.turn, i>> : i \in (1 .. loop.started) \ loop.done}

\* A run ends: prompt() and waitForIdle() resolve.
RunSettles == run.active ~> ~run.active
=============================================================================
