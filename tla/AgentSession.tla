---------------------------- MODULE AgentSession ----------------------------
(***************************************************************************)
(* AgentSession (coding-agent, core/agent-session.ts): what it adds to the *)
(* agent of AgentLoop - prompts that become runs or queued messages, the   *)
(* session file, automatic retries, compaction of the context (automatic   *)
(* and on demand), abort and the output of shell commands.                 *)
(*                                                                         *)
(* Every call is a coroutine of one process; an action is what happens     *)
(* between two awaits.  A run of the agent is a sequence of messages here; *)
(* AgentLoop has its inside.  The two queues of the agent are one.         *)
(***************************************************************************)
EXTENDS Integers, Sequences, FiniteSets, SequencesExt, FiniteSetsExt

CONSTANTS
    Callers,      \* calls of prompt() that can be in flight at the same time
    MaxRetries,   \* settings.retry.maxRetries; 0 when retries are disabled
    NoCaller,
    Budgets       \* bounds on what may happen in one behaviour

\* Calls of prompt and of steer, failed responses, responses with tool calls, shell
\* commands, custom messages, compactions past the threshold, manual compactions,
\* and calls of abort (of runs, of retries, of compactions).
Budget == [prompts : Nat, steers : Nat, errors : Nat, tools : Nat, bash : Nat, custom : Nat,
           thresholds : Nat, compacts : Nat, aborts : Nat]

ASSUME SessionAssumption ==
    /\ MaxRetries \in Nat /\ NoCaller \notin Callers /\ Budgets \subseteq Budget

VARIABLES
    caller,     \* the calls of prompt()
    run,        \* the agent's active run
    messages,   \* agent.state.messages
    entries,    \* the session file
    queue,      \* the agent's steering and follow-up queue
    shown,      \* _steeringMessages and _followUpMessages
    last,       \* _lastAssistantMessage
    retry,      \* _retryAttempt, _retryAbortController; auto_retry_start sent
    tried,      \* _overflowRecoveryAttempted
    auto,       \* the caller that holds _autoCompactionAbortController
    bash,       \* _pendingBashMessages
    nextTurn,   \* _pendingNextTurnMessages
    manual,     \* compact(), and whether events of the agent are listened to
    made,       \* messages made so far
    log,        \* history
    budget

transcript == <<messages, entries>>
vars == <<caller, run, messages, entries, queue, shown, last, retry, tried, auto,
          bash, nextTurn, manual, made, log, budget>>

-----------------------------------------------------------------------------
(* Messages and entries.  stop is a response's stopReason, "error" split    *)
(* into errors worth a retry, context overflows and the rest.  A compaction *)
(* entry keeps the entries from n on; it is also the summary in the context.*)

Errors == {"retryable", "overflow", "fatal"}
Stops == Errors \cup {"stop", "toolUse", "aborted"}
Roles == {"user", "assistant", "toolResult", "bash", "custom", "compaction"}
Message == [role : Roles, n : Nat, stop : Stops]
Msg(role, n) == [role |-> role, n |-> n, stop |-> "stop"]
Response(n, stop) == [role |-> "assistant", n |-> n, stop |-> stop]
NoMessage == Response(0, "stop")

CallerPc == {"idle", "input", "resolve", "summarize", "before", "running", "post", "sleep"}
\* pre: before the prompt is sent; willRetry and keep: the compaction's; aborted:
\* the sleep or the compaction was.
Call == [pc : CallerPc, msg : Nat, extra : Seq(Message), pre : BOOLEAN,
         willRetry : BOOLEAN, keep : Nat, aborted : BOOLEAN]
NoCall == [pc |-> "idle", msg |-> 0, extra |-> <<>>, pre |-> FALSE,
           willRetry |-> FALSE, keep |-> 0, aborted |-> FALSE]

TypeOK ==
    /\ caller \in [Callers -> Call]
    /\ run \in [owner : Callers \cup {NoCaller}, aborted : BOOLEAN,
               step : {"start", "model", "tools"}]
    /\ messages \in Seq(Message) /\ entries \in Seq(Message)
    /\ queue \in Seq(Nat) /\ shown \in Seq(Nat)
    /\ last \in Message
    /\ retry \in [attempt : 0 .. MaxRetries, ctl : Callers \cup {NoCaller}, open : BOOLEAN]
    /\ tried \in BOOLEAN /\ auto \in Callers \cup {NoCaller}
    /\ bash \in Seq(Message) /\ nextTurn \in Seq(Message)
    /\ manual \in [pc : {"idle", "wait", "resolve", "summarize"}, keep : Nat,
                   aborted : BOOLEAN, connected : BOOLEAN]
    /\ made \in Nat
    /\ log \in [detached : BOOLEAN, overlap : BOOLEAN, continued : Nat,
               refused : SUBSET Nat]
    /\ budget \in Budget

Streaming == run.owner # NoCaller
\* Nothing comes between the end of a run and _handlePostAgentRun.
Calm == \A c \in Callers : caller[c].pc # "post"
Spend(what) == budget[what] > 0 /\ budget' = [budget EXCEPT ![what] = @ - 1]
Set(c, pc) == caller' = [caller EXCEPT ![c].pc = pc]
End(c) == caller' = [caller EXCEPT ![c] = NoCall]

-----------------------------------------------------------------------------
(* The transcript *)

\* getLatestCompactionEntry, as a position; 0 if there is none.
Compacted(s) == Max({0} \cup {k \in DOMAIN s : s[k].role = "compaction"})

\* buildSessionContext
Build(s) ==
    LET p == Compacted(s)
    IN  IF p = 0 THEN s
        ELSE <<s[p]>> \o SubSeq(s, s[p].n, p - 1) \o SubSeq(s, p + 1, Len(s))

\* A context and the session it belongs to.
Transcript(m, e) == [messages |-> m, entries |-> e]
Now == Transcript(messages, entries)

\* The last message, if it is a response, is taken out of the context.
WithoutLast(s) == IF s # <<>> /\ Last(s).role = "assistant" THEN Front(s) ELSE s

\* _flushPendingBashMessages, onto transcript t.
Flush(t) == messages' = t.messages \o bash /\ entries' = t.entries \o bash /\ bash' = <<>>

\* The user message that starts, if there is one, is no longer shown as queued: its
\* first occurrence is taken out (_handleAgentEvent).
Unshow(us) ==
    LET places == {k \in DOMAIN shown : shown[k] \in Range(us)}
    IN  IF manual.connected /\ places # {} THEN RemoveAt(shown, Min(places)) ELSE shown

\* Messages ms are said on transcript t, us among them: each is in the context first
\* and then, if the session listens, in the session file.
Users(us) == [k \in DOMAIN us |-> Msg("user", us[k])]
Say(ms, us, t) ==
    /\ messages' = t.messages \o ms
    /\ entries' = IF manual.connected THEN t.entries \o ms ELSE t.entries
    /\ shown' = Unshow(us)

\* Mutant: the counter is reset but auto_retry_end is not sent.
HeardSilently(r) ==
    IF ~manual.connected THEN UNCHANGED <<last, retry>>
    ELSE last' = r /\ retry' = IF r.stop \in Errors THEN retry ELSE [retry EXCEPT !.attempt = 0]

\* What message_end of response r does to last and to the retry counter.
Heard(r) ==
    IF ~manual.connected THEN UNCHANGED <<last, retry>>
    ELSE /\ last' = r
         /\ retry' = IF r.stop \in Errors THEN retry
                     ELSE [retry EXCEPT !.attempt = 0, !.open = FALSE]

-----------------------------------------------------------------------------
(* Runs *)

\* c has sent its prompt; another caller has too.
Posting(c) == \/ caller[c].pc \in {"running", "post", "sleep"}
              \/ caller[c].pc \in {"resolve", "summarize"} /\ ~caller[c].pre
Others(c) == \E d \in Callers \ {c} : Posting(d)

\* The message of a call that has not been sent yet.
Pending(call) == IF call.msg = 0 THEN {} ELSE {call.msg}

\* Ids of the messages of a sequence.
Ids(s) == {s[k].n : k \in DOMAIN s}

\* The finally block of _runAgentPrompt; a prompt that was not sent is refused.
Finally(c, t) ==
    /\ End(c)
    /\ Flush(t)
    /\ log' = [log EXCEPT !.overlap = @ \/ Others(c),
                          !.refused = @ \cup Pending(caller[c]) \cup Ids(caller[c].extra)]

\* A run of c starts on transcript t, with user messages us and custom ones.
StartRun(c, t, us, extra) ==
    /\ run' = [owner |-> c, aborted |-> FALSE, step |-> "start"]
    /\ caller' = [caller EXCEPT ![c] = [NoCall EXCEPT !.pc = "running"]]
    /\ Say(Users(us) \o extra, us, t)
    /\ tried' = (tried /\ ~(manual.connected /\ us # <<>>))
    /\ log' = [log EXCEPT !.overlap = @ \/ Others(c),
                          !.detached = @ \/ (~manual.connected /\ us # <<>>),
                          !.continued = IF us = <<>> THEN @ + 1 ELSE 0]
    /\ UNCHANGED bash

\* The last message is a response: there is nothing to go on with.
Answered(t) == t.messages # <<>> /\ Last(t.messages).role = "assistant"

\* Mutant: it waits for the run to end, and for something to go on with.
ContinueWaits(c, t) ==
    \/ /\ ~Streaming /\ t.messages # <<>> /\ ~Answered(t)
       /\ StartRun(c, t, <<>>, <<>>) /\ UNCHANGED queue
    \/ /\ ~Streaming /\ Answered(t) /\ queue # <<>>
       /\ StartRun(c, t, <<Head(queue)>>, <<>>) /\ queue' = Tail(queue)

\* agent.continue(): it throws while a run is active, and when there is nothing to
\* go on with.
Continue(c, t) ==
    \/ /\ ~Streaming /\ t.messages # <<>> /\ ~Answered(t)
       /\ StartRun(c, t, <<>>, <<>>) /\ UNCHANGED queue
    \/ /\ ~Streaming /\ Answered(t) /\ queue # <<>>
       /\ StartRun(c, t, <<Head(queue)>>, <<>>) /\ queue' = Tail(queue)
    \/ /\ Streaming \/ t.messages = <<>> \/ (Answered(t) /\ queue = <<>>)
       /\ Finally(c, t) /\ UNCHANGED <<queue, run, shown, tried>>

\* The end of _handlePostAgentRun.
ContinueIfQueued(c, t) ==
    \/ queue # <<>> /\ Continue(c, t)
    \/ queue = <<>> /\ Finally(c, t) /\ UNCHANGED <<queue, run, shown, tried>>

\* Messages ms are followed by us, the first of the queue or none.
Turn(ms, us, step, good) ==
    /\ Say(ms \o Users(us), us, Now)
    /\ queue' = SubSeq(queue, Len(us) + 1, Len(queue))
    /\ tried' = (tried /\ ~(manual.connected /\ (good \/ us # <<>>)))
    /\ run' = [run EXCEPT !.step = step]
    /\ log' = [log EXCEPT !.detached = @ \/ ~manual.connected,
                          !.continued = IF good \/ us # <<>> THEN 0 ELSE @]

\* One step of a run: the queue is polled when it starts; a response calls tools;
\* their results, after which the queue is polled; an answer, and a message that
\* was queued meanwhile.  What the poll takes depends on the kind of the messages.
RunTurn(c) ==
    LET queued == IF queue = <<>> THEN {<<>>} ELSE {<<>>, <<Head(queue)>>}
        call == Response(made + 1, "toolUse")
        answer == Response(made + 1, "stop")
    IN
    /\ Calm /\ run.owner = c
    /\ \/ /\ run.step = "start" /\ queue # <<>>
          /\ Turn(<<>>, <<Head(queue)>>, "model", FALSE)
          /\ UNCHANGED <<last, retry, made, budget>>
       \/ /\ run.step # "tools" /\ ~run.aborted /\ Spend("tools")
          /\ Turn(<<call>>, <<>>, "tools", TRUE) /\ Heard(call)
          /\ made' = made + 1
       \/ /\ run.step = "tools"
          /\ \E us \in queued : Turn(<<Msg("toolResult", made + 1)>>, us, "model", FALSE)
          /\ made' = made + 1
          /\ UNCHANGED <<last, retry, budget>>
       \/ /\ run.step # "tools" /\ ~run.aborted /\ queue # <<>>
          /\ Turn(<<answer>>, <<Head(queue)>>, "model", TRUE) /\ Heard(answer)
          /\ made' = made + 1 /\ UNCHANGED budget
    /\ UNCHANGED <<caller, auto, bash, nextTurn, manual>>

\* The last response of the run.  Messages may have been queued after the last
\* poll; an error or an abort leaves the queue as it is.  A compact() that waits
\* for the run to end goes on.
RunEnd(c) ==
    /\ Calm /\ run.owner = c /\ run.step # "tools"
    /\ \E stop \in Stops \ {"toolUse"} :
          LET r == Response(made + 1, stop)
          IN  /\ stop = "aborted" <=> run.aborted
              /\ IF stop \in Errors THEN Spend("errors") ELSE UNCHANGED budget
              /\ Say(<<r>>, <<>>, Now) /\ Heard(r)
              /\ tried' = (tried /\ (manual.connected => stop \in Errors))
              /\ log' = [log EXCEPT !.detached = @ \/ ~manual.connected,
                                    !.continued = IF stop \in Errors THEN @ ELSE 0]
    /\ made' = made + 1
    /\ run' = [run EXCEPT !.owner = NoCaller, !.step = "start", !.aborted = FALSE]
    /\ Set(c, "post")
    /\ manual' = IF manual.pc = "wait" THEN [manual EXCEPT !.pc = "resolve"] ELSE manual
    /\ UNCHANGED <<queue, auto, bash, nextTurn>>

-----------------------------------------------------------------------------
(* After a run: retries and compaction *)

\* _prepareRetry with a attempts made.
MayRetry(a) == a < MaxRetries

\* _checkCompaction: is there a reason to compact because of response r?  A
\* response from before the last compaction is none.
Position(r) == {k \in DOMAIN entries : entries[k].role = "assistant" /\ entries[k].n = r.n}
Stale(r) == \E k \in Position(r) : k < Compacted(entries)
Overflown(r) == r.stop = "overflow" /\ ~Stale(r)

\* Mutant: an overflow is recovered from again and again.
CompactAgain(c, r, pre, m) ==
    /\ ~Stale(r)
    /\ \/ /\ Overflown(r) /\ UNCHANGED <<tried, budget>>
          /\ messages' = WithoutLast(m)
       \/ ~Overflown(r) /\ Spend("thresholds") /\ messages' = m /\ UNCHANGED tried
    /\ caller' = [caller EXCEPT ![c].pc = "resolve", ![c].pre = pre, ![c].aborted = FALSE,
                                ![c].willRetry = Overflown(r)]

\* _checkCompaction finds a reason, with context m: after an overflow the response
\* is taken out of it, and the run goes on when it is compacted; past the threshold
\* neither happens.
Compact(c, r, pre, m) ==
    /\ ~Stale(r)
    /\ \/ /\ Overflown(r) /\ ~tried /\ tried' = TRUE
          /\ messages' = WithoutLast(m)
          /\ UNCHANGED budget
       \/ /\ ~Overflown(r) /\ Spend("thresholds")
          /\ messages' = m /\ UNCHANGED tried
    /\ caller' = [caller EXCEPT ![c].pc = "resolve", ![c].pre = pre, ![c].aborted = FALSE,
                                ![c].willRetry = Overflown(r)]
NoCompaction(r) == ~Overflown(r) \/ tried

\* _handlePostAgentRun up to its first await, or to the end of the call.
PostRun(c) ==
    /\ caller[c].pc = "post"
    /\ last' = NoMessage
    /\ \/ /\ last = NoMessage
          /\ Finally(c, Now)
          /\ UNCHANGED <<queue, run, shown, retry, tried, budget>>
       \/ /\ last # NoMessage /\ last.stop = "retryable" /\ MayRetry(retry.attempt)
          /\ retry' = [attempt |-> retry.attempt + 1, ctl |-> c, open |-> TRUE]
          /\ messages' = WithoutLast(messages)
          /\ caller' = [caller EXCEPT ![c].pc = "sleep", ![c].aborted = FALSE]
          /\ UNCHANGED <<entries, bash, queue, run, shown, tried, log, budget>>
       \/ /\ last # NoMessage /\ ~(last.stop = "retryable" /\ MayRetry(retry.attempt))
          /\ retry' = IF last.stop \in Errors THEN [retry EXCEPT !.attempt = 0, !.open = FALSE]
                      ELSE retry
          /\ \/ /\ last.stop # "aborted" /\ Compact(c, last, FALSE, messages)
                /\ UNCHANGED <<entries, bash, queue, run, shown, log>>
             \/ /\ last.stop = "aborted" \/ NoCompaction(last)
                /\ ContinueIfQueued(c, Now) /\ UNCHANGED budget
    /\ UNCHANGED <<auto, nextTurn, manual, made>>

\* The backoff is over, or abortRetry has ended it.
SleepDone(c) ==
    /\ Calm /\ caller[c].pc = "sleep"
    /\ \/ /\ ~caller[c].aborted
          /\ Continue(c, Now)
          /\ retry' = [retry EXCEPT !.ctl = NoCaller]
       \/ /\ caller[c].aborted
          /\ ContinueIfQueued(c, Now)
          /\ retry' = [attempt |-> 0, ctl |-> NoCaller, open |-> FALSE]
    /\ UNCHANGED <<last, auto, nextTurn, manual, made, budget>>

\* Mutant: the cut may be between a response and the results of its tool calls.
CutsAnywhere == IF entries = <<>> \/ Last(entries).role = "compaction" THEN {}
                ELSE {k \in Compacted(entries) + 1 .. Len(entries) : entries[k].role # "compaction"}

\* prepareCompaction: where the kept entries may begin.
Cuts == LET p == Compacted(entries)
            from == IF p = 0 THEN 1 ELSE entries[p].n
        IN  IF entries = <<>> \/ Last(entries).role = "compaction" THEN {}
            ELSE {k \in from + 1 .. Len(entries) :
                     /\ entries[k].role \notin {"toolResult", "compaction"}
                     /\ entries[k - 1].role # "custom"}

\* Mutant: the messages left for the next prompt are sent with every prompt.
BeforeStartKeeps(c) ==
    /\ caller' = [caller EXCEPT ![c] = [NoCall EXCEPT !.pc = "before",
                                        !.msg = caller[c].msg, !.extra = nextTurn]]
    /\ UNCHANGED nextTurn

\* The prompt takes the messages that were left for it.
BeforeStart(c) ==
    /\ caller' = [caller EXCEPT ![c] = [NoCall EXCEPT !.pc = "before",
                                        !.msg = caller[c].msg, !.extra = nextTurn]]
    /\ nextTurn' = <<>>

\* What follows _runAutoCompaction: the prompt, whatever the result; or a run if
\* the compaction was for one, or if there are queued messages.
AfterCompaction(c, result, t) ==
    \/ /\ caller[c].pre /\ BeforeStart(c)
       /\ messages' = t.messages /\ entries' = t.entries
       /\ log' = [log EXCEPT !.overlap = @ \/ (t # Now /\ Others(c))]
       /\ UNCHANGED <<bash, queue, run, shown, tried>>
    \/ ~caller[c].pre /\ result /\ Continue(c, t) /\ UNCHANGED nextTurn
    \/ ~caller[c].pre /\ ~result /\ ContinueIfQueued(c, t) /\ UNCHANGED nextTurn

\* The model and its credentials are there and the summary is asked for; or there
\* are none, or nothing can be cut off.
Resolved(c) ==
    /\ Calm /\ caller[c].pc = "resolve"
    /\ \/ /\ \E k \in Cuts : caller' = [caller EXCEPT ![c].pc = "summarize", ![c].keep = k]
          /\ auto' = c
          /\ UNCHANGED <<transcript, bash, queue, run, shown, tried, log, nextTurn>>
       \/ AfterCompaction(c, FALSE, Now) /\ auto' = NoCaller
    /\ UNCHANGED <<last, retry, manual, made, budget>>

\* Mutant: the context is built before the compaction is appended.
CompactionFirst(keep) ==
    Transcript(Build(entries), Append(entries, Msg("compaction", keep)))

\* appendCompaction, and the context built anew.
Compaction(keep) ==
    LET e == Append(entries, Msg("compaction", keep)) IN Transcript(Build(e), e)

\* The summary is there, or it was cancelled or failed.
Summarized(c) ==
    LET done == Compaction(caller[c].keep)
        m == IF caller[c].willRetry /\ Last(done.messages).stop \in Errors
             THEN WithoutLast(done.messages) ELSE done.messages
    IN  /\ Calm /\ caller[c].pc = "summarize"
        /\ \/ /\ auto # NoCaller /\ ~caller[auto].aborted
              /\ AfterCompaction(c, caller[c].willRetry, Transcript(m, done.entries))
           \/ AfterCompaction(c, FALSE, Now)
        /\ auto' = NoCaller
        /\ UNCHANGED <<last, retry, manual, made, budget>>

-----------------------------------------------------------------------------
(* Prompts *)

\* prompt() up to the await of the extensions' input handlers.  Callers are slots:
\* the call takes one that is free.
Prompt(c) ==
    /\ Calm /\ Spend("prompts")
    /\ caller[c].pc = "idle" /\ c = CHOOSE d \in Callers : caller[d].pc = "idle"
    /\ caller' = [caller EXCEPT ![c] = [NoCall EXCEPT !.pc = "input", !.msg = made + 1]]
    /\ made' = made + 1
    /\ UNCHANGED <<run, transcript, queue, shown, last, retry, tried, auto, bash,
                   nextTurn, manual, log>>

\* The input handlers have returned.  While a run is active the message is queued.
Queued(c) ==
    /\ Calm /\ caller[c].pc = "input" /\ Streaming
    /\ queue' = Append(queue, caller[c].msg) /\ shown' = Append(shown, caller[c].msg)
    /\ End(c)
    /\ UNCHANGED <<run, transcript, last, retry, tried, auto, bash, nextTurn, manual,
                   made, log, budget>>

\* A handler has dealt with the text, or the call throws: nothing was said about
\* queueing during a run, or there is no model or no key for it.
Declined(c) ==
    /\ Calm /\ caller[c].pc = "input"
    /\ \/ /\ UNCHANGED <<transcript, bash>>
          /\ log' = [log EXCEPT !.refused = @ \cup Pending(caller[c])]
       \/ /\ ~Streaming /\ bash # <<>> /\ Flush(Now)
          /\ log' = [log EXCEPT !.refused = @ \cup Pending(caller[c]), !.continued = 0]
    /\ End(c)
    /\ UNCHANGED <<run, queue, shown, last, retry, tried, auto, nextTurn, manual, made, budget>>

\* Otherwise shell output is flushed, and the context may have to be compacted
\* first because of the last response.
Responses == {k \in DOMAIN messages : messages[k].role = "assistant"}
Preflight(c) ==
    LET r == messages[Max(Responses)] IN
    /\ Calm /\ caller[c].pc = "input" /\ ~Streaming
    /\ \/ /\ Responses # {} /\ Compact(c, r, TRUE, messages \o bash)
          /\ entries' = entries \o bash /\ bash' = <<>>
          /\ UNCHANGED nextTurn
       \/ /\ Responses # {} => NoCompaction(r)
          /\ Flush(Now) /\ BeforeStart(c)
          /\ UNCHANGED <<tried, budget>>
    /\ log' = [log EXCEPT !.continued = IF bash = <<>> THEN @ ELSE 0]
    /\ UNCHANGED <<run, queue, shown, last, retry, auto, manual, made>>

\* The extensions' before_agent_start handlers have returned: agent.prompt().
Send(c) ==
    /\ Calm /\ caller[c].pc = "before"
    /\ \/ ~Streaming /\ StartRun(c, Now, <<caller[c].msg>>, caller[c].extra)
       \/ /\ Streaming /\ Finally(c, Now)
          /\ UNCHANGED <<run, shown, tried>>
    /\ UNCHANGED <<queue, last, retry, auto, nextTurn, manual, made, budget>>

\* steer() and followUp(), at any time.
Steer ==
    /\ Calm /\ Spend("steers")
    /\ made' = made + 1
    /\ queue' = Append(queue, made + 1) /\ shown' = Append(shown, made + 1)
    /\ UNCHANGED <<caller, run, transcript, last, retry, tried, auto, bash, nextTurn,
                   manual, log>>

\* A message is added to the context and the session file without a run.
SayNow(m) == /\ messages' = Append(messages, m) /\ entries' = Append(entries, m)
             /\ log' = [log EXCEPT !.continued = 0]

\* sendCustomMessage: for the next turn, or at once when no run is active.
Custom ==
    /\ Calm /\ Spend("custom")
    /\ made' = made + 1
    /\ LET m == Msg("custom", made + 1) IN
       \/ nextTurn' = Append(nextTurn, m) /\ UNCHANGED <<transcript, log>>
       \/ ~Streaming /\ SayNow(m) /\ UNCHANGED nextTurn
    /\ UNCHANGED <<caller, run, queue, shown, last, retry, tried, auto, bash, manual>>

\* recordBashResult: deferred while a run is active.
Record(m) ==
    \/ Streaming /\ bash' = Append(bash, m) /\ UNCHANGED <<transcript, log>>
    \/ ~Streaming /\ SayNow(m) /\ UNCHANGED bash

Bash ==
    /\ Calm /\ Spend("bash")
    /\ made' = made + 1
    /\ Record(Msg("bash", made + 1))
    /\ UNCHANGED <<caller, run, queue, shown, last, retry, tried, auto, nextTurn, manual>>

-----------------------------------------------------------------------------
(* abort and compact *)

AbortRetry == IF retry.ctl = NoCaller THEN UNCHANGED caller
              ELSE caller' = [caller EXCEPT ![retry.ctl].aborted = TRUE]

\* abort(), abortRetry() or abortCompaction().
Abort ==
    /\ Calm /\ Spend("aborts")
    /\ \/ AbortRetry /\ run' = [run EXCEPT !.aborted = Streaming] /\ UNCHANGED manual
       \/ AbortRetry /\ UNCHANGED <<run, manual>>
       \/ /\ caller' = IF auto = NoCaller THEN caller
                        ELSE [caller EXCEPT ![auto].aborted = TRUE]
          /\ manual' = [manual EXCEPT !.aborted = manual.pc \in {"resolve", "summarize"}]
          /\ UNCHANGED run
    /\ log' = [log EXCEPT !.continued = 0]
    /\ UNCHANGED <<transcript, queue, shown, last, retry, tried, auto, bash, nextTurn, made>>

\* compact(): the session stops listening, aborts what is going on and waits.
CompactNow ==
    /\ Calm /\ manual.pc = "idle" /\ Spend("compacts")
    /\ AbortRetry /\ run' = [run EXCEPT !.aborted = Streaming]
    /\ manual' = [pc |-> IF Streaming THEN "wait" ELSE "resolve", keep |-> 0,
                  aborted |-> FALSE, connected |-> FALSE]
    /\ log' = [log EXCEPT !.continued = 0]
    /\ UNCHANGED <<transcript, queue, shown, last, retry, tried, auto, bash, nextTurn, made>>

\* It is over: the session listens again.
IdleManual == [pc |-> "idle", keep |-> 0, aborted |-> FALSE, connected |-> TRUE]

CompactResolved ==
    /\ Calm /\ manual.pc = "resolve"
    /\ \/ \E k \in Cuts : manual' = [manual EXCEPT !.pc = "summarize", !.keep = k]
       \/ manual' = IdleManual
    /\ UNCHANGED <<caller, run, transcript, queue, shown, last, retry, tried, auto, bash,
                   nextTurn, made, log, budget>>

CompactDone ==
    LET done == Compaction(manual.keep) IN
    /\ Calm /\ manual.pc = "summarize"
    /\ \/ ~manual.aborted /\ messages' = done.messages /\ entries' = done.entries
       \/ UNCHANGED transcript
    /\ manual' = IdleManual
    /\ UNCHANGED <<caller, run, queue, shown, last, retry, tried, auto, bash, nextTurn,
                   made, log, budget>>

-----------------------------------------------------------------------------
Init ==
    /\ budget \in Budgets
    /\ caller = [c \in Callers |-> NoCall]
    /\ run = [owner |-> NoCaller, aborted |-> FALSE, step |-> "start"]
    /\ messages = <<>> /\ entries = <<>> /\ queue = <<>> /\ shown = <<>>
    /\ last = NoMessage /\ retry = [attempt |-> 0, ctl |-> NoCaller, open |-> FALSE]
    /\ tried = FALSE /\ auto = NoCaller /\ bash = <<>> /\ nextTurn = <<>>
    /\ manual = IdleManual /\ made = 0
    /\ log = [detached |-> FALSE, overlap |-> FALSE, continued |-> 0, refused |-> {}]

CallStep(c) == \/ Queued(c) \/ Declined(c) \/ Preflight(c) \/ Send(c) \/ RunEnd(c) \/ PostRun(c)
               \/ SleepDone(c) \/ Resolved(c) \/ Summarized(c)

Next == \/ \E c \in Callers : Prompt(c) \/ CallStep(c) \/ RunTurn(c)
        \/ Steer \/ Custom \/ Bash \/ Abort
        \/ CompactNow \/ CompactResolved \/ CompactDone

Spec == Init /\ [][Next]_vars

\* Handlers, timers and requests settle; nobody has to call anything.
FairSpec == Spec /\ WF_vars(\E c \in Callers : CallStep(c) \/ RunTurn(c))

-----------------------------------------------------------------------------
(* Properties *)

\* A context without its failed responses.
Sound(s) ==
    LET upTo[k \in 0 .. Len(s)] ==
            IF k = 0 THEN <<>>
            ELSE IF s[k].stop \in Errors THEN upTo[k - 1] ELSE Append(upTo[k - 1], s[k])
    IN  upTo[Len(s)]

\* What a model is sent can be rebuilt from the session file: the context is the
\* one a reload would build, but for the failed responses that retries and overflow
\* recovery take out of it - unless a run wrote while compact() had the session
\* disconnected from the agent.
ContextRecoverable == log.detached \/ Sound(messages) = Sound(Build(entries))

\* Providers refuse a tool result that does not follow the response it belongs to.
\* Neither shell output nor a cut separates them, unless two prompts overlapped (the
\* finally block of one flushes shell output into the run of the other, or the summary
\* one of them asked for before it was sent comes between) or compact() replaced the
\* context of a run.
ResultsFollowCalls ==
    log.overlap \/ log.detached \/
    \A k \in DOMAIN messages : messages[k].role = "toolResult" =>
        k > 1 /\ messages[k - 1].stop = "toolUse"

\* Messages that wait to be said; how often one is in the file; all that callers made.
Waiting == Range(queue) \cup Ids(bash) \cup Ids(nextTurn)
           \cup UNION {Pending(caller[c]) \cup Ids(caller[c].extra) : c \in Callers}
Saved(n) == Cardinality({k \in DOMAIN entries :
                entries[k].n = n /\ entries[k].role \in {"user", "custom", "bash"}})
Handed == 1 .. made \ {n \in 1 .. made : \E m \in Range(messages) \cup Range(entries) :
                         m.n = n /\ m.role \in {"assistant", "toolResult"}}

\* Every prompt, queued message, custom message and shell output is waiting in
\* exactly one place or saved exactly once, or its prompt() has thrown; nothing is
\* lost or said twice by retries, compaction and aborts, and the queue that is shown
\* is the queue the agent has.
KeptOnce ==
    log.detached \/
    /\ \A n \in Handed : Saved(n) = IF n \in Waiting \cup log.refused THEN 0 ELSE 1
    /\ shown = queue

\* auto_retry_start is followed by auto_retry_end: no retry is announced as going on
\* when no prompt is - unless two prompts overlapped, or the answer came while the
\* session was disconnected.
RetryEventsPaired ==
    retry.open => log.overlap \/ log.detached \/ \E c \in Callers : Posting(c)

\* Unless two prompts overlap, a request that keeps failing is sent again at most
\* this often before something is said or aborted: once because a message is queued
\* behind a cancelled retry; the retries; one compaction for an overflow; and the
\* retries once more, for the counter has been reset.
RetriesBounded ==
    log.overlap \/ log.detached \/ log.continued <= 2 * MaxRetries + 2

\* Every call of prompt() returns.
PromptsSettle == \A c \in Callers : caller[c].pc # "idle" ~> caller[c].pc = "idle"
=============================================================================
