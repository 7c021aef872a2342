------------------------ MODULE ProviderConnections ------------------------
(***************************************************************************)
(* Provider connections: provider-connections.json                         *)
(* (JsonProviderConnectionStore, packages/storage), the choice of one for  *)
(* a request (selectProviderConnection, packages/router), the cooldowns of *)
(* failed ones (ModelRegistry), and the requests that use them: the        *)
(* agent's streamFn (sdk.ts), which tries the routes of a plan in turn,    *)
(* and those of the local API server.                                      *)
(*                                                                         *)
(* The store has no lock: an update reads the file, and later truncates    *)
(* and writes it, with awaits in between.  Every call is a coroutine of    *)
(* some process; an action is what happens between two awaits.             *)
(***************************************************************************)
EXTENDS Integers, Sequences, FiniteSets, FiniteSetsExt

CONSTANTS
    Conns,              \* connections of one provider, by priority: 1 .. n
    Models,
    Requests,           \* requests that can be going on at the same time
    Plans,              \* routes of a request: sequences of models
    StickyLimit,        \* stickyRoundRobinLimit
    TransientCooldown, ResetCooldown, BackoffBase, BackoffMax, MaxLevel,
    Scenes              \* settings, and bounds on what may happen

Scene == [strategy : {"fill-first", "round-robin"}, plans : SUBSET Plans,
          servers : SUBSET BOOLEAN, width : Nat, requests : Nat, failures : Nat,
          aborts : Nat, toggles : Nat, clears : Nat, crashes : Nat, ticks : Nat]

ASSUME ConnectionsAssumption ==
    /\ Conns \subseteq Nat \ {0} /\ Conns # {} /\ IsFiniteSet(Conns)
    /\ Requests \cap Conns = {}
    /\ Plans \subseteq Seq(Models) \ {<<>>}
    /\ StickyLimit \in Nat \ {0} /\ MaxLevel \in Nat \ {0}
    /\ {TransientCooldown, ResetCooldown, BackoffBase, BackoffMax} \subseteq Nat
    /\ Scenes \subseteq Scene

VARIABLES
    now,
    file,     \* the connections in the file, and whether it can be parsed
    req,      \* requests
    upd,      \* calls of updateProviderConnection: of requests, and of the dashboard
    clear,    \* the dashboard's clearModelCooldown
    log,      \* history
    budget

vars == <<now, file, req, upd, clear, log, budget>>

-----------------------------------------------------------------------------
(* A connection: isActive; modelLock_<model>; backoffLevel; lastUsedAt, as a *)
(* position in the order of uses; consecutiveUseCount.                       *)

Connection == [active : BOOLEAN, lock : [Models -> Nat], level : 0 .. MaxLevel,
               used : Nat, count : Nat]
FreshConnection == [active |-> TRUE, lock |-> [m \in Models |-> 0], level |-> 0,
                    used |-> 0, count |-> 0]

\* The fields an update gives; -1 and {} for one it leaves alone.
Patch == [active : {"same", "on", "off"}, models : SUBSET Models, until : Nat, level : -1 .. MaxLevel,
          used : Nat \cup {-1}, count : Nat]
NoPatch == [active |-> "same", models |-> {}, until |-> 0, level |-> -1, used |-> -1, count |-> 0]

\* Mutant: an update drops the locks it does not mention.
ApplyOver(c, p) ==
    [active |-> IF p.active = "same" THEN c.active ELSE p.active = "on",
     lock |-> [m \in Models |-> IF m \in p.models THEN p.until ELSE 0],
     level |-> IF p.level = -1 THEN c.level ELSE p.level,
     used |-> IF p.used = -1 THEN c.used ELSE p.used,
     count |-> IF p.used = -1 THEN c.count ELSE p.count]

Apply(c, p) ==
    [active |-> IF p.active = "same" THEN c.active ELSE p.active = "on",
     lock |-> [m \in Models |-> IF m \in p.models THEN p.until ELSE c.lock[m]],
     level |-> IF p.level = -1 THEN c.level ELSE p.level,
     used |-> IF p.used = -1 THEN c.used ELSE p.used,
     count |-> IF p.used = -1 THEN c.count ELSE p.count]

RequestPc == {"idle", "select", "chosen", "use", "sent", "mark", "marking", "clear", "clearing"}
Request == [pc : RequestPc, server : BOOLEAN, plan : Plans \cup {<<>>}, route : Nat,
            conn : Conns \cup {0}, count : Nat, error : {"transient", "backoff", "reset"},
            aborted : BOOLEAN, emitted : BOOLEAN, again : BOOLEAN, answered : BOOLEAN]
NoRequest == [pc |-> "idle", server |-> FALSE, plan |-> <<>>, route |-> 0, conn |-> 0,
              count |-> 0, error |-> "transient", aborted |-> FALSE, emitted |-> FALSE,
              again |-> FALSE, answered |-> FALSE]

Updaters == Requests \cup Conns
Update == [pc : {"none", "read", "write", "put", "done", "failed"}, conn : Conns \cup {0},
           patch : Patch, snapshot : [Conns -> Connection], overtaken : BOOLEAN]
NoUpdate == [pc |-> "none", conn |-> 0, patch |-> NoPatch,
             snapshot |-> [c \in Conns |-> FreshConnection], overtaken |-> FALSE]

TypeOK ==
    /\ now \in Nat
    /\ file \in [state : {"ok", "empty", "broken"}, conns : [Conns -> Connection]]
    /\ req \in [Requests -> Request]
    /\ upd \in [Updaters -> Update]
    /\ clear \in [pc : {"idle", "list", "update"}, model : Models, of : SUBSET Conns,
                  alone : BOOLEAN]
    /\ log \in [raced : BOOLEAN, crashed : BOOLEAN, unread : BOOLEAN, breach : BOOLEAN,
                stale : BOOLEAN, uses : Nat, last : Conns \cup {0}, streak : Nat,
                off : SUBSET Conns, until : [Conns -> [Models -> Nat]]]
    /\ budget \in Scene

Spend(what) == budget[what] > 0 /\ budget' = [budget EXCEPT ![what] = @ - 1]
Readable == file.state = "ok"

-----------------------------------------------------------------------------
(* The store *)

Started(c, p) == [NoUpdate EXCEPT !.pc = "read", !.conn = c, !.patch = p]

\* readState: it throws when the file is half written.
ReadState(u) ==
    /\ upd[u].pc = "read"
    /\ upd' = [upd EXCEPT ![u] =
                  IF Readable THEN [@ EXCEPT !.pc = "write", !.snapshot = file.conns]
                  ELSE [NoUpdate EXCEPT !.pc = "failed"]]
    /\ log' = [log EXCEPT !.unread = @ \/ ~Readable]
    /\ UNCHANGED <<now, file, req, clear, budget>>

\* writeState opens the file, which empties it.
OpenFile(u) ==
    /\ upd[u].pc = "write"
    /\ upd' = [upd EXCEPT ![u].pc = "put"]
    /\ file' = [file EXCEPT !.state = "empty"]
    /\ UNCHANGED <<now, req, clear, log, budget>>

\* The text goes to the beginning of the file.  If another writer's is there by
\* now and is longer, its end stays.  Somebody has written since this call read:
\* that update is gone.
PutFile(u) ==
    LET new == [upd[u].snapshot EXCEPT ![upd[u].conn] = Apply(@, upd[u].patch)] IN
    /\ upd[u].pc = "put"
    /\ \E state \in {"ok", "broken"} :
          /\ state = "broken" => file.state # "empty"
          /\ file' = [state |-> state, conns |-> new]
    /\ upd' = [v \in Updaters |->
                  IF v = u THEN [NoUpdate EXCEPT !.pc = "done"]
                  ELSE [upd[v] EXCEPT !.overtaken = @ \/ upd[v].pc \in {"write", "put"}]]
    /\ log' = [log EXCEPT !.raced = @ \/ upd[u].overtaken,
                          !.off = CASE upd[u].patch.active = "on" -> @ \ {upd[u].conn}
                                    [] upd[u].patch.active = "off" -> @ \cup {upd[u].conn}
                                    [] OTHER -> @,
                          !.until[upd[u].conn] = [m \in Models |->
                              IF m \in upd[u].patch.models THEN upd[u].patch.until ELSE @[m]]]
    /\ UNCHANGED <<now, req, clear, budget>>

StoreStep(u) == ReadState(u) \/ OpenFile(u) \/ PutFile(u)

-----------------------------------------------------------------------------
(* The router *)

\* Mutant: a lock ends one tick early.
IsModelLockActiveShort(c, m) == c.lock[m] > now + 1

IsModelLockActive(c, m) == c.lock[m] > now
Available(conns, m) == {c \in Conns : conns[c].active /\ ~IsModelLockActive(conns[c], m)}

\* sortByMostRecentUseThenPriority and sortByOldestUseThenPriority: their first.
MostRecent(conns, S) == CHOOSE c \in S : \A d \in S :
    conns[c].used > conns[d].used \/ (conns[c].used = conns[d].used /\ c <= d)
Oldest(conns, S) == CHOOSE c \in S : \A d \in S :
    conns[c].used < conns[d].used \/ (conns[c].used = conns[d].used /\ c <= d)

\* Mutant: the limit is one too high.
StickyOnce(conns, c) == conns[c].used > 0 /\ conns[c].count <= StickyLimit

\* The connection used last is used again until the limit.
Sticky(conns, c) == conns[c].used > 0 /\ conns[c].count < StickyLimit

\* selectProviderConnection among S, which is not empty: the connection and the
\* count of its uses in a row (0: nothing is saved).
Selected(conns, S) ==
    LET recent == MostRecent(conns, S) IN
    CASE budget.strategy = "fill-first" -> [conn |-> Min(S), count |-> 0]
      [] Sticky(conns, recent) -> [conn |-> recent, count |-> conns[recent].count + 1]
      [] OTHER -> [conn |-> Oldest(conns, S), count |-> 1]

\* getQuotaCooldown: the smaller of the two.
QuotaCooldown(level) ==
    LET cooldown == BackoffBase * 2 ^ Max({0, level - 1})
    IN  IF cooldown \in 0 .. BackoffMax THEN cooldown ELSE BackoffMax

\* The fields that lock model m for a time, at a backoff level.
Cooling(m, level, cooldown) ==
    [NoPatch EXCEPT !.models = {m}, !.level = level, !.until = now + cooldown]

\* Mutant: the level has no limit.
LockUncapped(c, m, error) ==
    IF error = "backoff" THEN Cooling(m, c.level + 1, QuotaCooldown(c.level + 1))
    ELSE Cooling(m, c.level, TransientCooldown)

\* markProviderConnectionUnavailable: an error that says when the limit is reset; one
\* that backs off exponentially (backoffDecision); any other.
Lock(c, m, error) ==
    LET level == Min({c.level + 1, MaxLevel}) IN
    CASE error = "reset" -> Cooling(m, 0, ResetCooldown)
      [] error = "backoff" -> Cooling(m, level, QuotaCooldown(level))
      [] OTHER -> Cooling(m, c.level, TransientCooldown)

\* clearProviderConnectionError: the lock of the model and the expired ones; the
\* level as well, if no active lock is left.
Unlock(c, m) ==
    LET gone == {k \in Models : c.lock[k] > 0 /\ (k = m \/ ~IsModelLockActive(c, k))}
        left == \E k \in Models \ gone : IsModelLockActive(c, k)
    IN  [NoPatch EXCEPT !.models = gone, !.level = IF left THEN -1 ELSE 0]

-----------------------------------------------------------------------------
(* Requests *)

Begin(r) ==
    /\ req[r].pc = "idle" /\ r = CHOOSE q \in Requests : req[q].pc = "idle"
    /\ Cardinality({q \in Requests : req[q].pc # "idle"}) < budget.width
    /\ Spend("requests")
    /\ \E plan \in budget.plans, server \in budget.servers :
          req' = [req EXCEPT ![r] = [NoRequest EXCEPT !.pc = "select", !.plan = plan,
                                                      !.server = server, !.route = 1]]
    /\ clear' = [clear EXCEPT !.alone = FALSE]
    /\ UNCHANGED <<now, file, upd, log>>

\* Mutant: the same route is tried again.
NextRouteStays(q) == [NoRequest EXCEPT !.pc = "select", !.plan = q.plan, !.route = q.route,
                                       !.server = q.server, !.aborted = q.aborted,
                                       !.answered = q.answered]

\* The next route, or the end of the request.
NextRoute(q) == IF q.route = Len(q.plan) THEN NoRequest
                ELSE [NoRequest EXCEPT !.pc = "select", !.plan = q.plan, !.server = q.server,
                                       !.route = q.route + 1, !.aborted = q.aborted,
                                       !.answered = q.answered]
Model(q) == q.plan[q.route]

\* getProviderConnectionAuth: the connections are read, and one of them is chosen.
\* The attempt fails if the file cannot be read or all are cooling down; if all are
\* disabled, another key may do.  No connection is marked in either case.
Select(r) ==
    LET S == Available(file.conns, Model(req[r]))
        chosen == Selected(file.conns, S)
        uncounted == Cardinality(S) = 1 \/ chosen.count = 0
    IN
    /\ req[r].pc = "select"
    /\ \/ /\ ~Readable \/ S = {}
          /\ req' = [req EXCEPT ![r] = NextRoute(@)]
          /\ log' = [log EXCEPT !.unread = @ \/ ~Readable]
       \/ /\ Readable /\ \A c \in Conns : ~file.conns[c].active
          /\ req' = [req EXCEPT ![r] = NoRequest]
          /\ UNCHANGED log
       \/ /\ Readable /\ S # {}
          /\ req' = [req EXCEPT ![r].conn = chosen.conn, ![r].count = chosen.count,
                                ![r].pc = "chosen"]
          /\ log' = [log EXCEPT
                 !.breach = @ \/ chosen.conn \in log.off
                              \/ log.until[chosen.conn][Model(req[r])] > now,
                 !.stale = @ \/ \E q \in Requests : req[q].pc \in {"chosen", "use"},
                 !.last = IF uncounted THEN 0 ELSE chosen.conn,
                 !.streak = CASE uncounted -> 0
                              [] ~uncounted /\ log.last = chosen.conn -> @ + 1
                              [] OTHER -> 1]
    /\ UNCHANGED <<now, file, upd, clear, budget>>

\* getSettings reads the file once more; then the use is saved, if it counts.
Use(r) ==
    /\ req[r].pc = "chosen"
    /\ \/ /\ ~Readable
          /\ req' = [req EXCEPT ![r] = NextRoute(@)]
          /\ log' = [log EXCEPT !.unread = TRUE]
          /\ UNCHANGED upd
       \/ /\ Readable /\ req[r].count = 0
          /\ req' = [req EXCEPT ![r].pc = "sent"]
          /\ UNCHANGED <<upd, log>>
       \/ /\ Readable /\ req[r].count > 0
          /\ req' = [req EXCEPT ![r].pc = "use"]
          /\ upd' = [upd EXCEPT ![r] = Started(req[r].conn,
                        [NoPatch EXCEPT !.used = log.uses + 1, !.count = req[r].count])]
          /\ log' = [log EXCEPT !.uses = @ + 1]
    /\ UNCHANGED <<now, file, clear, budget>>

\* The use is saved, or that has failed: then the attempt has, too.
Used(r) ==
    /\ req[r].pc = "use" /\ upd[r].pc \in {"done", "failed"}
    /\ req' = [req EXCEPT ![r] = IF upd[r].pc = "done" THEN [@ EXCEPT !.pc = "sent"]
                                 ELSE NextRoute(@)]
    /\ upd' = [upd EXCEPT ![r] = NoUpdate]
    /\ UNCHANGED <<now, file, clear, log, budget>>

\* The provider answers.  The agent is done; the server clears the connection's
\* error first, and may have sent the answer on.
Succeed(r) ==
    /\ req[r].pc = "sent" /\ ~req[r].aborted
    /\ \/ /\ ~req[r].server /\ req' = [req EXCEPT ![r] = NoRequest]
       \/ /\ req[r].server
          /\ \E emitted \in BOOLEAN :
                req' = [req EXCEPT ![r].pc = "clear", ![r].emitted = emitted,
                                   ![r].answered = TRUE]
    /\ UNCHANGED <<now, file, upd, clear, log, budget>>

\* The provider fails, after some content or before any.  A call of the server that
\* throws has lost its connection (executeChatCompletion) and marks none.
Fail(r) ==
    /\ req[r].pc = "sent" /\ ~req[r].aborted /\ Spend("failures")
    /\ \/ \E error \in {"transient", "backoff", "reset"}, emitted \in BOOLEAN :
             req' = [req EXCEPT ![r].pc = "mark", ![r].error = error, ![r].emitted = emitted]
       \/ req[r].server /\ req' = [req EXCEPT ![r] = NextRoute(@)]
    /\ UNCHANGED <<now, file, upd, clear, log>>

\* The user aborts the request.  The server leaves the connection alone; the agent
\* marks it, and tries the next route if nothing was said yet.
Abort(r) ==
    /\ req[r].pc = "sent"
    /\ IF req[r].aborted THEN UNCHANGED budget ELSE Spend("aborts")
    /\ \/ /\ req[r].server /\ req' = [req EXCEPT ![r] = NoRequest]
       \/ /\ ~req[r].server
          /\ \E emitted \in BOOLEAN :
                req' = [req EXCEPT ![r].pc = "mark", ![r].error = "transient",
                                   ![r].emitted = emitted, ![r].aborted = TRUE]
    /\ UNCHANGED <<now, file, upd, clear, log>>

\* Marking or clearing has thrown: the catch block of the attempt marks the
\* connection, with this error; if that throws too the request is over.
Thrown(q) == IF q.again THEN NoRequest
             ELSE [q EXCEPT !.pc = "mark", !.again = TRUE, !.error = "transient",
                            !.emitted = @ /\ q.server]

\* Mutant: a request that was answered goes on to the next route.
EndedNoReturn(q) == IF q.emitted THEN NoRequest ELSE NextRoute(q)

\* The end of an attempt: it was answered, has failed in the middle of an answer, or
\* another route is tried.
Ended(q) == IF q.pc \in {"clear", "clearing"} \/ q.emitted THEN NoRequest ELSE NextRoute(q)

\* getProviderConnectionById, and the update that follows, if there is one.
Settle(r) ==
    LET c == file.conns[req[r].conn]
        p == IF req[r].pc = "mark" THEN Lock(c, Model(req[r]), req[r].error)
             ELSE Unlock(c, Model(req[r]))
    IN
    /\ req[r].pc \in {"mark", "clear"}
    /\ \/ /\ Readable /\ p # NoPatch
          /\ req' = [req EXCEPT ![r].pc = IF @ = "mark" THEN "marking" ELSE "clearing"]
          /\ upd' = [upd EXCEPT ![r] = Started(req[r].conn, p)]
          /\ UNCHANGED log
       \/ /\ Readable /\ p = NoPatch
          /\ req' = [req EXCEPT ![r] = Ended(@)]
          /\ UNCHANGED <<upd, log>>
       \/ /\ ~Readable
          /\ req' = [req EXCEPT ![r] = Thrown(@)]
          /\ log' = [log EXCEPT !.unread = TRUE]
          /\ UNCHANGED upd
    /\ UNCHANGED <<now, file, clear, budget>>

\* The mark or the clearing is saved, or has failed.
Settled(r) ==
    /\ req[r].pc \in {"marking", "clearing"} /\ upd[r].pc \in {"done", "failed"}
    /\ req' = [req EXCEPT ![r] = IF upd[r].pc = "failed" THEN Thrown(@) ELSE Ended(@)]
    /\ upd' = [upd EXCEPT ![r] = NoUpdate]
    /\ UNCHANGED <<now, file, clear, log, budget>>

\* The process of a request dies.
Crash(r) ==
    /\ req[r].pc # "idle" /\ Spend("crashes")
    /\ req' = [req EXCEPT ![r] = NoRequest]
    /\ upd' = [upd EXCEPT ![r] = NoUpdate]
    /\ log' = [log EXCEPT !.crashed = TRUE]
    /\ UNCHANGED <<now, file, clear>>

-----------------------------------------------------------------------------
(* The dashboard *)

\* The user enables or disables a connection.
Toggle(c) ==
    /\ upd[c].pc = "none" /\ clear.pc = "idle" /\ Spend("toggles")
    /\ \E active \in {"on", "off"} :
          upd' = [upd EXCEPT ![c] = Started(c, [NoPatch EXCEPT !.active = active])]
    /\ UNCHANGED <<now, file, req, clear, log>>

Toggled(c) ==
    /\ upd[c].pc \in {"done", "failed"} /\ clear.pc # "update"
    /\ upd' = [upd EXCEPT ![c] = NoUpdate]
    /\ UNCHANGED <<now, file, req, clear, log, budget>>

ClearCooldown ==
    /\ clear.pc = "idle" /\ (\A c \in Conns : upd[c].pc = "none") /\ Spend("clears")
    /\ \E m \in Models : clear' = [clear EXCEPT !.pc = "list", !.model = m]
    /\ UNCHANGED <<now, file, req, upd, log>>

\* clearModelCooldown: the connections with a lock are updated all at once.
Unlocking == [NoPatch EXCEPT !.models = {clear.model}, !.level = 0]
ClearListed ==
    LET S == {c \in Conns : file.conns[c].lock[clear.model] > 0} IN
    /\ clear.pc = "list"
    /\ \/ /\ Readable
          /\ clear' = [clear EXCEPT !.pc = "update", !.of = S,
                                    !.alone = \A r \in Requests : req[r].pc = "idle"]
          /\ upd' = [u \in Updaters |-> IF u \in S THEN Started(u, Unlocking) ELSE upd[u]]
          /\ UNCHANGED log
       \/ /\ ~Readable
          /\ clear' = [clear EXCEPT !.pc = "idle"]
          /\ log' = [log EXCEPT !.unread = TRUE] /\ UNCHANGED upd
    /\ UNCHANGED <<now, file, req, budget>>

\* The answer to the dashboard: all are done, or one has failed; then the others are
\* left to themselves.
Cleared ==
    LET over == {c \in clear.of : upd[c].pc \in {"done", "failed"}} IN
    /\ clear.pc = "update" /\ (over = clear.of \/ \E c \in over : upd[c].pc = "failed")
    /\ clear' = [clear EXCEPT !.pc = "idle", !.of = {}]
    /\ upd' = [u \in Updaters |-> IF u \in over THEN NoUpdate ELSE upd[u]]
    /\ UNCHANGED <<now, file, req, log, budget>>

Tick == /\ Spend("ticks") /\ now' = now + 1
        /\ UNCHANGED <<file, req, upd, clear, log>>

-----------------------------------------------------------------------------
Init ==
    /\ now = 0 /\ budget \in Scenes
    /\ file = [state |-> "ok", conns |-> [c \in Conns |-> FreshConnection]]
    /\ req = [r \in Requests |-> NoRequest]
    /\ upd = [u \in Updaters |-> NoUpdate]
    /\ clear \in [pc : {"idle"}, model : Models, of : {{}}, alone : {FALSE}]
    /\ log = [raced |-> FALSE, crashed |-> FALSE, unread |-> FALSE, breach |-> FALSE,
              stale |-> FALSE, uses |-> 0, last |-> 0, streak |-> 0,
              off |-> {}, until |-> [c \in Conns |-> [m \in Models |-> 0]]]

RequestStep(r) == \/ Select(r) \/ Use(r) \/ Used(r) \/ Succeed(r) \/ Fail(r) \/ Abort(r)
                  \/ Settle(r) \/ Settled(r)
Dashboard == \/ \E c \in Conns : Toggle(c) \/ Toggled(c)
             \/ ClearCooldown \/ ClearListed \/ Cleared

Next == \/ \E r \in Requests : Begin(r) \/ RequestStep(r) \/ Crash(r)
        \/ \E u \in Updaters : StoreStep(u)
        \/ Dashboard \/ Tick

Spec == Init /\ [][Next]_vars

\* The event loops go on, and a provider answers or times out.
FairSpec == Spec /\ (\A r \in Requests : WF_vars(RequestStep(r)))
                 /\ (\A u \in Updaters : WF_vars(StoreStep(u)))

-----------------------------------------------------------------------------
(* Properties *)

\* Updates that do not overlap are all kept: unless two calls have written from the
\* same reading, or a process has died, the file can be parsed whenever nobody is
\* writing it, and has the locks and the switches that were asked for last
\* (updateProviderConnection merges into the record it reads).
UpdatesKept ==
    ~log.raced /\ ~log.crashed /\ (\A u \in Updaters : upd[u].pc # "put") =>
        /\ file.state = "ok"
        /\ \A c \in Conns : /\ file.conns[c].active = (c \notin log.off)
                            /\ file.conns[c].lock = log.until[c]

\* A request takes no connection that is disabled or is cooling down for its model,
\* whoever marked it and whatever other cooldowns were set or cleared since, unless
\* an overlapping update has lost the mark (selectProviderConnection).
CooldownRespected == log.breach => log.raced \/ log.crashed

\* Round robin: no connection serves more than StickyLimit requests in a row while
\* another one is available, as long as each request has saved its use before the
\* next one chooses.
StickyBound ==
    budget.strategy = "round-robin" /\ ~log.stale /\ ~log.raced /\ ~log.crashed /\ ~log.unread
        => log.streak <= StickyLimit

\* A request the provider has answered is neither sent again nor held against the
\* connection, unless the store could not be read when the error was to be cleared.
AnsweredOnce ==
    \A r \in Requests : req[r].answered /\ req[r].pc \notin {"clear", "clearing"} => log.unread

\* Every request ends, even if the store has become unreadable.
RequestsEnd == \A r \in Requests : req[r].pc # "idle" ~> req[r].pc = "idle"

\* When clearModelCooldown has answered that all is done, and no request was made
\* meanwhile, none of the connections it listed has a lock on the model.
ClearCooldownClears ==
    [][/\ clear.pc = "update" /\ clear'.pc = "idle" /\ clear.alone
       /\ (\A c \in clear.of : upd[c].pc = "done")
       => \A c \in clear.of : file.conns[c].lock[clear.model] = 0]_vars
=============================================================================
