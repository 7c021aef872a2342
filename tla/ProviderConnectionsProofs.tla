--------------------- MODULE ProviderConnectionsProofs ---------------------
(***************************************************************************)
(* Proofs about ProviderConnections, for any connections, models, requests *)
(* and plans of routes: what the store without a lock keeps, and what the  *)
(* choice of a connection may rely on.                                     *)
(***************************************************************************)
EXTENDS ProviderConnections, FiniteSetTheorems, TLAPS

USE DEF Updaters

-----------------------------------------------------------------------------
(* The inductive invariant *)

\* A request has a route of its plan, and a chosen connection once there is one.
RequestOK(q) ==
    /\ q \in Request
    /\ q.pc # "idle" => q.plan \in Plans /\ q.route \in 1 .. Len(q.plan)
    /\ q.pc \notin {"idle", "select"} => q.conn \in Conns

\* An update that has begun is about a connection.
UpdateOK(v) == v \in Update /\ (v.pc \in {"read", "write", "put"} => v.conn \in Conns)

Typed == /\ TypeOK
         /\ \A r \in Requests : RequestOK(req[r])
         /\ \A u \in Updaters : UpdateOK(upd[u])

\* Nobody begins an update on top of one that is going on.
Owned ==
    /\ \A r \in Requests : req[r].pc \notin {"use", "marking", "clearing"} => upd[r].pc = "none"
    /\ clear.pc = "list" => \A c \in Conns : upd[c].pc = "none"

\* What a call that was not overtaken has read is still what the file says, and
\* once it has emptied the file nobody has filled it.
Fresh ==
    \A u \in Updaters : upd[u].pc \in {"write", "put"} /\ ~upd[u].overtaken =>
        /\ upd[u].snapshot = file.conns
        /\ upd[u].pc = "put" => file.state = "empty"

\* The file has the locks and switches asked for last, also while it is written.
Matches ==
    ~log.raced /\ ~log.crashed =>
        /\ (\A u \in Updaters : upd[u].pc # "put") => file.state = "ok"
        /\ \A c \in Conns : /\ file.conns[c].active = (c \notin log.off)
                            /\ file.conns[c].lock = log.until[c]

\* A call that failed could not read the file.
FailedUnread == \A u \in Updaters : upd[u].pc = "failed" => log.unread

\* Only the update after a choice writes a use.
UseOnly ==
    \A u \in Updaters : upd[u].pc \in {"read", "write", "put"} /\ upd[u].patch.used # -1 =>
        u \in Requests /\ req[u].pc = "use"

\* A connection has been chosen; its use is not in the file yet.
Chosen(r) == req[r].pc \in {"chosen", "use"}
Saving(r) == req[r].pc = "chosen" \/ (req[r].pc = "use" /\ upd[r].pc # "done")

\* Nothing has come between a choice and the saving of its use.
Steady == /\ budget.strategy = "round-robin" /\ ~log.stale
          /\ ~log.raced /\ ~log.crashed /\ ~log.unread

\* While that is so, the file's count of the connection chosen last is at least the
\* length of its streak and its use is the latest one, or both are being saved.
Streaks ==
    Steady =>
        /\ log.streak <= StickyLimit
        /\ log.last = 0 => log.streak = 0
        /\ \A q, r \in Requests : Chosen(q) /\ Chosen(r) => q = r
        /\ \A c \in Conns : file.conns[c].used <= log.uses
        /\ \A r \in Requests : Chosen(r) =>
              /\ req[r].count > 0 /\ req[r].count >= log.streak
              /\ log.last \in {0, req[r].conn}
        /\ \A r \in Requests : req[r].pc = "use" /\ upd[r].pc \in {"read", "write", "put"} =>
              /\ upd[r].patch.used = log.uses /\ upd[r].patch.count = req[r].count
              /\ upd[r].conn = req[r].conn
              /\ \A c \in Conns : file.conns[c].used < log.uses
        /\ (\A r \in Requests : ~Saving(r)) /\ log.last # 0 =>
              /\ file.conns[log.last].count >= log.streak
              /\ \A d \in Conns \ {log.last} : file.conns[d].used < file.conns[log.last].used

-----------------------------------------------------------------------------
(* The first of a finite set *)

\* A finite set that is not empty has a first element in any total preorder.
LEMMA FirstExists ==
    ASSUME NEW S, IsFiniteSet(S), S # {}, NEW R,
           \A x, y \in S : <<x, y>> \in R \/ <<y, x>> \in R,
           \A x, y, z \in S : <<x, y>> \in R /\ <<y, z>> \in R => <<x, z>> \in R
    PROVE  \E x \in S : \A y \in S : <<x, y>> \in R
<1> DEFINE First(T) == \E x \in T : \A y \in T : <<x, y>> \in R
           Bad == {T \in SUBSET S : T # {} /\ ~First(T)}
<1>1. SUFFICES ASSUME Bad # {} PROVE FALSE
  <2>1. S \notin Bad
    BY <1>1
  <2> QED
    BY <2>1
<1>2. IsWellFoundedOn(StrictSubsetOrdering(S), SUBSET S)
  BY FS_StrictSubsetOrderingWellFounded, FS_FiniteSubsetsOfFinite, Zenon
<1>3. Bad \subseteq SUBSET S
  OBVIOUS
<1>4. PICK T \in Bad : \A U \in Bad : <<U, T>> \notin StrictSubsetOrdering(S)
  <2> HIDE DEF Bad
  <2> QED
    BY <1>1, <1>2, <1>3, WFMin, Zenon
<1>5. PICK t \in T : TRUE
  OBVIOUS
<1>6. T \ {t} \notin Bad
  <2>1. <<T \ {t}, T>> \in StrictSubsetOrdering(S)
    BY DEF StrictSubsetOrdering
  <2> QED
    BY <1>4, <2>1
<1>7. CASE T \ {t} = {}
  BY <1>7
<1>8. CASE T \ {t} # {}
  <2>1. PICK x \in T \ {t} : \A y \in T \ {t} : <<x, y>> \in R
    BY <1>6, <1>8
  <2>2. CASE <<x, t>> \in R
    BY <2>1, <2>2
  <2>3. CASE <<t, x>> \in R
    <3>1. \A y \in T : <<t, y>> \in R
      BY <2>1, <2>3
    <3> QED
      BY <3>1
  <2> QED
    BY <2>2, <2>3
<1> QED
  BY <1>7, <1>8

-----------------------------------------------------------------------------
(* Types *)

LEMMA ModelType ==
    ASSUME NEW q, RequestOK(q), q.pc # "idle"
    PROVE  Model(q) \in Models
  BY ConnectionsAssumption DEF RequestOK, Request, Model

LEMMA NoRequestOK == RequestOK(NoRequest)
  BY DEF RequestOK, NoRequest, Request, RequestPc

\* The next route is one of the plan, as long as there is one.
LEMMA NextRouteOK ==
    ASSUME NEW q, RequestOK(q), q.pc # "idle"
    PROVE  RequestOK(NextRoute(q))
<1>1. /\ q \in Request /\ q.plan \in Seq(Models) /\ Len(q.plan) \in Nat /\ q.plan \in Plans
      /\ q.route \in Nat /\ q.route <= Len(q.plan)
  BY ConnectionsAssumption DEF RequestOK
<1>2. CASE q.route = Len(q.plan)
  BY <1>2, NoRequestOK DEF NextRoute
<1>3. CASE q.route # Len(q.plan)
  <2> DEFINE n == [NoRequest EXCEPT !.pc = "select", !.plan = q.plan, !.server = q.server,
                                    !.route = q.route + 1, !.aborted = q.aborted,
                                    !.answered = q.answered]
  <2>1. NextRoute(q) = n
    BY <1>3 DEF NextRoute
  <2>2. n \in Request
    <3>1. q \in Request /\ q.plan \in Plans /\ q.route + 1 \in Nat
      BY <1>1
    <3> QED
      BY <3>1 DEF NoRequest, Request, RequestPc
  <2>3. n.pc = "select" /\ n.plan = q.plan /\ n.route = q.route + 1
    BY DEF NoRequest
  <2>4. q.route + 1 \in 1 .. Len(q.plan)
    BY <1>1, <1>3
  <2> QED
    BY <1>1, <2>1, <2>2, <2>3, <2>4 DEF RequestOK
<1> QED
  BY <1>2, <1>3

LEMMA ThrownOK ==
    ASSUME NEW q, RequestOK(q), q.pc \notin {"idle", "select"}
    PROVE  RequestOK(Thrown(q))
<1> DEFINE n == [q EXCEPT !.pc = "mark", !.again = TRUE, !.error = "transient",
                          !.emitted = @ /\ q.server]
<1>1. q \in Request /\ (q.emitted /\ q.server) \in BOOLEAN
  BY DEF RequestOK, Request
<1>2. n \in Request
  BY <1>1 DEF Request, RequestPc
<1>3. n.pc = "mark" /\ n.plan = q.plan /\ n.route = q.route /\ n.conn = q.conn
  BY <1>1 DEF Request
<1>4. RequestOK(n)
  BY <1>2, <1>3 DEF RequestOK
<1> QED
  BY <1>4, NoRequestOK DEF Thrown

LEMMA EndedOK ==
    ASSUME NEW q, RequestOK(q), q.pc # "idle"
    PROVE  RequestOK(Ended(q))
  BY NoRequestOK, NextRouteOK DEF Ended

LEMMA FreshTypes == FreshConnection \in Connection /\ NoPatch \in Patch
  BY ConnectionsAssumption DEF Connection, FreshConnection, Patch, NoPatch

LEMMA NoUpdateOK == /\ UpdateOK(NoUpdate)
                    /\ UpdateOK([NoUpdate EXCEPT !.pc = "failed"])
                    /\ UpdateOK([NoUpdate EXCEPT !.pc = "done"])
<1>1. NoUpdate \in Update
  BY FreshTypes DEF Update, NoUpdate
<1> QED
  BY <1>1 DEF UpdateOK, Update, NoUpdate

LEMMA StartedOK ==
    ASSUME NEW c \in Conns, NEW p \in Patch
    PROVE  /\ UpdateOK(Started(c, p))
           /\ Started(c, p).pc = "read" /\ Started(c, p).patch = p /\ Started(c, p).conn = c
           /\ ~Started(c, p).overtaken
<1>1. NoUpdate \in Update
  BY NoUpdateOK DEF UpdateOK
<1>2. Started(c, p) \in Update
  BY <1>1 DEF Started, Update
<1> QED
  BY <1>2 DEF UpdateOK, Started, NoUpdate

LEMMA ApplyType ==
    ASSUME NEW c \in Connection, NEW p \in Patch
    PROVE  Apply(c, p) \in Connection
<1>1. (IF p.active = "same" THEN c.active ELSE p.active = "on") \in BOOLEAN
  BY DEF Connection, Patch
<1>2. [m \in Models |-> IF m \in p.models THEN p.until ELSE c.lock[m]] \in [Models -> Nat]
  BY DEF Connection, Patch
<1>3. /\ (IF p.level = -1 THEN c.level ELSE p.level) \in 0 .. MaxLevel
      /\ (IF p.used = -1 THEN c.used ELSE p.used) \in Nat
      /\ (IF p.used = -1 THEN c.count ELSE p.count) \in Nat
  BY ConnectionsAssumption DEF Connection, Patch
<1> QED
  BY <1>1, <1>2, <1>3 DEF Apply, Connection

LEMMA MinOfTwo ==
    ASSUME NEW a \in Int, NEW b \in Int
    PROVE  Min({a, b}) \in {a, b} /\ Min({a, b}) <= a /\ Min({a, b}) <= b
<1>1. \E x \in {a, b} : \A y \in {a, b} : x =< y
  OBVIOUS
<1> QED
  BY <1>1 DEF Min

\* A patch of locks and the backoff level writes no use.
LEMMA CoolingType ==
    ASSUME NEW m \in Models, NEW l \in 0 .. MaxLevel, NEW cooldown \in Nat, now \in Nat
    PROVE  Cooling(m, l, cooldown) \in Patch /\ Cooling(m, l, cooldown).used = -1
<1>1. {m} \subseteq Models /\ l \in -1 .. MaxLevel /\ now + cooldown \in Nat
  BY ConnectionsAssumption
<1>2. Cooling(m, l, cooldown) \in Patch
  BY <1>1, FreshTypes DEF Cooling, Patch
<1> QED
  BY <1>2 DEF Cooling, NoPatch

LEMMA LockType ==
    ASSUME NEW c \in Connection, NEW m \in Models, NEW e, now \in Nat
    PROVE  Lock(c, m, e) \in Patch /\ Lock(c, m, e).used = -1
<1>1. c.level \in 0 .. MaxLevel /\ 0 \in 0 .. MaxLevel /\ c.level + 1 \in 0 .. MaxLevel + 1
  BY ConnectionsAssumption DEF Connection
<1>2. Min({c.level + 1, MaxLevel}) \in 0 .. MaxLevel
  <2>1. c.level + 1 \in Int /\ MaxLevel \in Int
    BY <1>1, ConnectionsAssumption
  <2>2. Min({c.level + 1, MaxLevel}) \in {c.level + 1, MaxLevel}
        /\ Min({c.level + 1, MaxLevel}) <= MaxLevel
    BY <2>1, MinOfTwo, Zenon
  <2> QED
    BY <1>1, <2>2, ConnectionsAssumption
<1>3. QuotaCooldown(Min({c.level + 1, MaxLevel})) \in Nat
  BY ConnectionsAssumption DEF QuotaCooldown
<1>4. ResetCooldown \in Nat /\ TransientCooldown \in Nat
  BY ConnectionsAssumption
<1> QED
  BY <1>1, <1>2, <1>3, <1>4, CoolingType DEF Lock

LEMMA UnlockType ==
    ASSUME NEW c \in Connection, NEW m \in Models
    PROVE  Unlock(c, m) \in Patch /\ Unlock(c, m).used = -1
<1> DEFINE gone == {k \in Models : c.lock[k] > 0 /\ (k = m \/ ~IsModelLockActive(c, k))}
           left == \E k \in Models \ gone : IsModelLockActive(c, k)
           l == IF left THEN -1 ELSE 0
<1>1. gone \subseteq Models /\ l \in -1 .. MaxLevel
  BY ConnectionsAssumption
<1>2. Unlock(c, m) = [NoPatch EXCEPT !.models = gone, !.level = l]
  BY DEF Unlock
<1> HIDE DEF gone, l
<1>3. [NoPatch EXCEPT !.models = gone, !.level = l] \in Patch
  BY <1>1, FreshTypes DEF Patch
<1> QED
  BY <1>2, <1>3 DEF NoPatch

-----------------------------------------------------------------------------
(* The choice of a connection *)

LEMMA SubsetFinite ==
    ASSUME NEW S, S \subseteq Conns
    PROVE  IsFiniteSet(S)
  BY ConnectionsAssumption, FS_Subset

LEMMA MinChosen ==
    ASSUME NEW S, S \subseteq Conns, S # {}
    PROVE  Min(S) \in S
<1> DEFINE R == {p \in S \X S : p[1] <= p[2]}
<1>0. \A x \in S : x \in Nat
  BY ConnectionsAssumption
<1>1. \A x, y \in S : <<x, y>> \in R <=> x <= y
  OBVIOUS
<1> HIDE DEF R
<1>2. ASSUME NEW x \in S, NEW y \in S PROVE <<x, y>> \in R \/ <<y, x>> \in R
  <2>1. x <= y \/ y <= x
    BY <1>0
  <2> QED
    BY <1>1, <2>1
<1>3. ASSUME NEW x \in S, NEW y \in S, NEW z \in S, <<x, y>> \in R, <<y, z>> \in R
      PROVE  <<x, z>> \in R
  <2>1. x <= y /\ y <= z => x <= z
    BY <1>0
  <2> QED
    BY <1>1, <1>3, <2>1
<1>4. \E x \in S : \A y \in S : <<x, y>> \in R
  BY <1>2, <1>3, SubsetFinite, FirstExists
<1>5. \E x \in S : \A y \in S : x =< y
  BY <1>1, <1>4
<1> QED
  BY <1>5 DEF Min

LEMMA RecentChosen ==
    ASSUME NEW conns \in [Conns -> Connection], NEW S, S \subseteq Conns, S # {}
    PROVE  MostRecent(conns, S) \in S
<1> DEFINE Before(c, d) == conns[c].used > conns[d].used
                             \/ (conns[c].used = conns[d].used /\ c <= d)
           R == {p \in S \X S : Before(p[1], p[2])}
<1>1. \A x, y \in S : <<x, y>> \in R <=> Before(x, y)
  OBVIOUS
<1> HIDE DEF R
<1>2. \A x \in S : x \in Nat /\ conns[x].used \in Nat
  BY ConnectionsAssumption DEF Connection
<1>3. ASSUME NEW x \in S, NEW y \in S PROVE <<x, y>> \in R \/ <<y, x>> \in R
  <2>1. Before(x, y) \/ Before(y, x)
    BY <1>2
  <2> QED
    BY <1>1, <2>1
<1>4. \A x, y, z \in S : <<x, y>> \in R /\ <<y, z>> \in R => <<x, z>> \in R
  BY <1>1, <1>2
<1>5. \E x \in S : \A y \in S : <<x, y>> \in R
  BY <1>3, <1>4, SubsetFinite, FirstExists
<1>6. \E x \in S : \A y \in S : Before(x, y)
  BY <1>1, <1>5
<1> QED
  BY <1>6 DEF MostRecent

LEMMA OldestChosen ==
    ASSUME NEW conns \in [Conns -> Connection], NEW S, S \subseteq Conns, S # {}
    PROVE  /\ Oldest(conns, S) \in S
           /\ \A d \in S : conns[Oldest(conns, S)].used <= conns[d].used
<1> DEFINE Before(c, d) == conns[c].used < conns[d].used
                             \/ (conns[c].used = conns[d].used /\ c <= d)
           R == {p \in S \X S : Before(p[1], p[2])}
<1>1. \A x, y \in S : <<x, y>> \in R <=> Before(x, y)
  OBVIOUS
<1> HIDE DEF R
<1>2. \A x \in S : x \in Nat /\ conns[x].used \in Nat
  BY ConnectionsAssumption DEF Connection
<1>3. ASSUME NEW x \in S, NEW y \in S PROVE <<x, y>> \in R \/ <<y, x>> \in R
  <2>1. Before(x, y) \/ Before(y, x)
    BY <1>2
  <2> QED
    BY <1>1, <2>1
<1>4. \A x, y, z \in S : <<x, y>> \in R /\ <<y, z>> \in R => <<x, z>> \in R
  BY <1>1, <1>2
<1>5. \E x \in S : \A y \in S : <<x, y>> \in R
  BY <1>3, <1>4, SubsetFinite, FirstExists
<1>6. \E x \in S : \A y \in S : Before(x, y)
  BY <1>1, <1>5
<1>7. Oldest(conns, S) \in S /\ \A d \in S : Before(Oldest(conns, S), d)
  BY <1>6 DEF Oldest
<1> QED
  BY <1>2, <1>7

\* The router chooses one of the connections it is given.
LEMMA SelectedType ==
    ASSUME NEW conns \in [Conns -> Connection], NEW S, S \subseteq Conns, S # {}
    PROVE  Selected(conns, S).conn \in S /\ Selected(conns, S).count \in Nat
<1>1. MostRecent(conns, S) \in S /\ conns[MostRecent(conns, S)].count + 1 \in Nat
  BY RecentChosen DEF Connection
<1> QED
  BY <1>1, MinChosen, OldestChosen DEF Selected

-----------------------------------------------------------------------------
(* Type correctness *)

Log == [raced : BOOLEAN, crashed : BOOLEAN, unread : BOOLEAN, breach : BOOLEAN,
        stale : BOOLEAN, uses : Nat, last : Conns \cup {0}, streak : Nat,
        off : SUBSET Conns, until : [Conns -> [Models -> Nat]]]
Clear == [pc : {"idle", "list", "update"}, model : Models, of : SUBSET Conns,
          alone : BOOLEAN]
File == [state : {"ok", "empty", "broken"}, conns : [Conns -> Connection]]

\* The parts of Typed, one per variable.
ReqTyped == req \in [Requests -> Request] /\ \A r \in Requests : RequestOK(req[r])
UpdTyped == upd \in [Updaters -> Update] /\ \A u \in Updaters : UpdateOK(upd[u])

LEMMA TypedParts ==
    Typed <=> /\ now \in Nat /\ file \in File /\ ReqTyped /\ UpdTyped
              /\ clear \in Clear /\ log \in Log /\ budget \in Scene
  BY DEF Typed, TypeOK, ReqTyped, UpdTyped, Log, Clear, File

LEMMA TypedParts1 ==
    Typed' <=> /\ now' \in Nat /\ file' \in File /\ ReqTyped' /\ UpdTyped'
               /\ clear' \in Clear /\ log' \in Log /\ budget' \in Scene
  BY DEF Typed, TypeOK, ReqTyped, UpdTyped, Log, Clear, File

LEMMA SetReq ==
    ASSUME ReqTyped, NEW r \in Requests, NEW q, RequestOK(q), req' = [req EXCEPT ![r] = q]
    PROVE  ReqTyped'
<1>1. q \in Request
  BY DEF RequestOK
<1>2. req' \in [Requests -> Request]
  BY <1>1 DEF ReqTyped
<1>3. \A s \in Requests : req'[s] = IF s = r THEN q ELSE req[s]
  BY DEF ReqTyped
<1>4. \A s \in Requests : RequestOK(req'[s])
  BY <1>3 DEF ReqTyped
<1> QED
  BY <1>2, <1>4 DEF ReqTyped

LEMMA SetUpd ==
    ASSUME UpdTyped, NEW u \in Updaters, NEW v, UpdateOK(v), upd' = [upd EXCEPT ![u] = v]
    PROVE  UpdTyped'
<1>1. v \in Update
  BY DEF UpdateOK
<1>2. upd' \in [Updaters -> Update]
  BY <1>1 DEF UpdTyped
<1>3. \A w \in Updaters : upd'[w] = IF w = u THEN v ELSE upd[w]
  BY DEF UpdTyped
<1>4. \A w \in Updaters : UpdateOK(upd'[w])
  BY <1>3 DEF UpdTyped
<1> QED
  BY <1>2, <1>4 DEF UpdTyped

LEMMA SpendType ==
    ASSUME budget \in Scene,
           NEW what \in {"requests", "failures", "aborts", "toggles", "clears", "crashes", "ticks"},
           Spend(what)
    PROVE  budget' \in Scene /\ budget'.strategy = budget.strategy
  BY DEF Spend, Scene

LEMMA InitTyped == Init => Typed
<1> SUFFICES ASSUME Init PROVE Typed
  OBVIOUS
<1>1. file \in File
  BY FreshTypes DEF Init, File
<1>2. ReqTyped
  BY NoRequestOK DEF Init, ReqTyped, RequestOK
<1>3. UpdTyped
  BY NoUpdateOK DEF Init, UpdTyped, UpdateOK
<1>4. clear \in Clear /\ now \in Nat /\ budget \in Scene
  BY ConnectionsAssumption DEF Init, Clear
<1>5. log \in Log
  BY DEF Init, Log
<1> QED
  BY <1>1, <1>2, <1>3, <1>4, <1>5, TypedParts

LEMMA BeginTyped ==
    ASSUME Typed, NEW r \in Requests, Begin(r)
    PROVE  Typed'
<1>0. /\ now \in Nat /\ file \in File /\ ReqTyped /\ UpdTyped
      /\ clear \in Clear /\ log \in Log /\ budget \in Scene
  BY TypedParts
<1>1. PICK plan \in budget.plans, server \in budget.servers :
          req' = [req EXCEPT ![r] = [NoRequest EXCEPT !.pc = "select", !.plan = plan,
                                                      !.server = server, !.route = 1]]
  BY DEF Begin
<1> DEFINE q == [NoRequest EXCEPT !.pc = "select", !.plan = plan, !.server = server, !.route = 1]
<1>2. plan \in Plans /\ server \in BOOLEAN
  BY <1>0 DEF Scene
<1>3. q \in Request
  BY <1>2 DEF NoRequest, Request, RequestPc
<1>4. q.pc = "select" /\ q.plan = plan /\ q.route = 1
  BY DEF NoRequest
<1>5. 1 \in 1 .. Len(plan)
  BY <1>2, ConnectionsAssumption
<1>6. RequestOK(q)
  BY <1>2, <1>3, <1>4, <1>5 DEF RequestOK
<1>7. ReqTyped'
  BY <1>0, <1>1, <1>6, SetReq
<1>8. clear' \in Clear
  BY <1>0 DEF Begin, Clear
<1>9. budget' \in Scene
  BY <1>0, SpendType DEF Begin
<1>10. UNCHANGED <<now, file, upd, log>>
  BY DEF Begin
<1> QED
  BY <1>0, <1>7, <1>8, <1>9, <1>10, TypedParts1 DEF UpdTyped

\* What Select may choose from, and what it chooses.
LEMMA SelectChoice ==
    ASSUME Typed, NEW m, Available(file.conns, m) # {}
    PROVE  /\ Available(file.conns, m) \subseteq Conns
           /\ Selected(file.conns, Available(file.conns, m)).conn \in Available(file.conns, m)
           /\ Selected(file.conns, Available(file.conns, m)).count \in Nat
<1>1. file.conns \in [Conns -> Connection]
  BY DEF Typed, TypeOK
<1>2. Available(file.conns, m) \subseteq Conns
  BY SMTT(30) DEF Available
<1> QED
  BY <1>1, <1>2, SelectedType

LEMMA SelectTyped ==
    ASSUME Typed, NEW r \in Requests, Select(r)
    PROVE  Typed'
<1>0. /\ now \in Nat /\ file \in File /\ ReqTyped /\ UpdTyped
      /\ clear \in Clear /\ log \in Log /\ budget \in Scene
  BY TypedParts
<1>q. RequestOK(req[r]) /\ req[r] \in Request
  BY <1>0 DEF ReqTyped
<1>1. UNCHANGED <<now, file, upd, clear, budget>> /\ req[r].pc = "select"
  BY DEF Select
<1> DEFINE S == Available(file.conns, Model(req[r]))
           chosen == Selected(file.conns, S)
<1>2. CASE \/ req' = [req EXCEPT ![r] = NextRoute(@)] /\ log' = [log EXCEPT !.unread = @ \/ ~Readable]
           \/ req' = [req EXCEPT ![r] = NoRequest] /\ UNCHANGED log
  <2>1. RequestOK(NextRoute(req[r])) /\ RequestOK(NoRequest)
    BY <1>1, <1>q, NextRouteOK, NoRequestOK
  <2>2. ReqTyped'
    BY <1>0, <1>2, <2>1, SetReq
  <2>3. (log.unread \/ ~Readable) \in BOOLEAN
    OBVIOUS
  <2>4. log' \in Log
    BY <1>0, <1>2, <2>3 DEF Log
  <2> QED
    BY <1>0, <1>1, <2>2, <2>4, TypedParts1 DEF UpdTyped
<1>3. CASE S # {} /\ req' = [req EXCEPT ![r].conn = chosen.conn, ![r].count = chosen.count,
                                      ![r].pc = "chosen"]
           /\ \E breach, stale \in BOOLEAN, last \in {0, chosen.conn}, streak \in {0, 1, log.streak + 1} :
                 log' = [log EXCEPT !.breach = breach, !.stale = stale, !.last = last,
                                    !.streak = streak]
  <2>1. chosen.conn \in Conns /\ chosen.count \in Nat
    BY <1>3, SelectChoice
  <2> DEFINE q == [req[r] EXCEPT !.conn = chosen.conn, !.count = chosen.count, !.pc = "chosen"]
  <2>2. req' = [req EXCEPT ![r] = q]
    BY <1>0, <1>3 DEF ReqTyped
  <2> HIDE DEF chosen
  <2>3. q \in Request
    BY <1>q, <2>1 DEF Request, RequestPc
  <2>4. q.plan = req[r].plan /\ q.route = req[r].route /\ q.conn = chosen.conn
    BY <1>q DEF Request
  <2>5. RequestOK(q)
    BY <1>1, <1>q, <2>1, <2>3, <2>4 DEF RequestOK
  <2>6. ReqTyped'
    BY <1>0, <2>2, <2>5, SetReq
  <2>7. log' \in Log
    <3>1. PICK breach, stale \in BOOLEAN, last \in {0, chosen.conn}, streak \in {0, 1, log.streak + 1} :
              log' = [log EXCEPT !.breach = breach, !.stale = stale, !.last = last,
                                 !.streak = streak]
      BY <1>3
    <3>2. last \in Conns \cup {0} /\ streak \in Nat
      BY <1>0, <2>1, SMTT(30) DEF Log
    <3> QED
      BY <1>0, <3>1, <3>2 DEF Log
  <2> QED
    BY <1>0, <1>1, <2>6, <2>7, TypedParts1 DEF UpdTyped
<1>4. <1>2!1 \/ <1>3!1
  BY DEF Select
<1> QED
  BY <1>2, <1>3, <1>4

LEMMA UseTyped ==
    ASSUME Typed, NEW r \in Requests, Use(r)
    PROVE  Typed'
<1>0. /\ now \in Nat /\ file \in File /\ ReqTyped /\ UpdTyped
      /\ clear \in Clear /\ log \in Log /\ budget \in Scene
  BY TypedParts
<1>q. RequestOK(req[r]) /\ req[r] \in Request
  BY <1>0 DEF ReqTyped
<1>1. UNCHANGED <<now, file, clear, budget>> /\ req[r].pc = "chosen"
  BY DEF Use
<1>2. CASE req' = [req EXCEPT ![r] = NextRoute(@)] /\ log' = [log EXCEPT !.unread = TRUE] /\ upd' = upd
  <2>1. ReqTyped'
    BY <1>0, <1>1, <1>2, <1>q, NextRouteOK, SetReq
  <2>2. log' \in Log
    BY <1>0, <1>2 DEF Log
  <2> QED
    BY <1>0, <1>1, <1>2, <2>1, <2>2, TypedParts1 DEF UpdTyped
<1>3. ASSUME NEW pc \in {"sent", "use"}
      PROVE  RequestOK([req[r] EXCEPT !.pc = pc])
  BY <1>1, <1>q, <1>3 DEF RequestOK, Request, RequestPc
<1>4. CASE req' = [req EXCEPT ![r].pc = "sent"] /\ UNCHANGED <<upd, log>>
  <2>1. ReqTyped'
    BY <1>0, <1>3, <1>4, SetReq
  <2> QED
    BY <1>0, <1>1, <1>4, <2>1, TypedParts1 DEF UpdTyped
<1>5. CASE /\ req' = [req EXCEPT ![r].pc = "use"] /\ log' = [log EXCEPT !.uses = @ + 1]
           /\ upd' = [upd EXCEPT ![r] = Started(req[r].conn,
                        [NoPatch EXCEPT !.used = log.uses + 1, !.count = req[r].count])]
  <2>1. ReqTyped'
    BY <1>0, <1>3, <1>5, SetReq
  <2>2. log' \in Log
    BY <1>0, <1>5 DEF Log
  <2>3. log.uses + 1 \in Nat \cup {-1} /\ req[r].count \in Nat /\ req[r].conn \in Conns
    BY <1>0, <1>1, <1>q DEF Log, Request, RequestOK
  <2>4. [NoPatch EXCEPT !.used = log.uses + 1, !.count = req[r].count] \in Patch
    BY <2>3, FreshTypes DEF Patch
  <2>5. UpdTyped'
    BY <1>0, <1>5, <2>3, <2>4, StartedOK, SetUpd
  <2> QED
    BY <1>0, <1>1, <2>1, <2>2, <2>5, TypedParts1
<1>6. <1>2!1 \/ <1>4!1 \/ <1>5!1
  BY DEF Use
<1> QED
  BY <1>2, <1>4, <1>5, <1>6

LEMMA UsedTyped ==
    ASSUME Typed, NEW r \in Requests, Used(r)
    PROVE  Typed'
<1>0. /\ now \in Nat /\ file \in File /\ ReqTyped /\ UpdTyped
      /\ clear \in Clear /\ log \in Log /\ budget \in Scene
  BY TypedParts
<1>q. RequestOK(req[r]) /\ req[r] \in Request
  BY <1>0 DEF ReqTyped
<1>1. UNCHANGED <<now, file, clear, log, budget>> /\ req[r].pc = "use"
  BY DEF Used
<1>2. RequestOK([req[r] EXCEPT !.pc = "sent"])
  BY <1>1, <1>q DEF RequestOK, Request, RequestPc
<1>3. RequestOK(NextRoute(req[r]))
  BY <1>1, <1>q, NextRouteOK
<1>4. ReqTyped'
  BY <1>0, <1>2, <1>3, SetReq DEF Used
<1>5. UpdTyped'
  BY <1>0, NoUpdateOK, SetUpd DEF Used
<1> QED
  BY <1>0, <1>1, <1>4, <1>5, TypedParts1

LEMMA AnswerTyped ==
    ASSUME Typed, NEW r \in Requests, Succeed(r) \/ Fail(r) \/ Abort(r)
    PROVE  Typed'
<1>0. /\ now \in Nat /\ file \in File /\ ReqTyped /\ UpdTyped
      /\ clear \in Clear /\ log \in Log /\ budget \in Scene
  BY TypedParts
<1>q. RequestOK(req[r]) /\ req[r] \in Request
  BY <1>0 DEF ReqTyped
<1>1. UNCHANGED <<now, file, upd, clear, log>> /\ req[r].pc = "sent"
  BY DEF Succeed, Fail, Abort
<1>2. budget' \in Scene
  BY <1>0, SpendType DEF Succeed, Fail, Abort
<1>3. RequestOK(NextRoute(req[r]))
  BY <1>1, <1>q, NextRouteOK
<1>4. ASSUME NEW emitted \in BOOLEAN
      PROVE  RequestOK([req[r] EXCEPT !.pc = "clear", !.emitted = emitted, !.answered = TRUE])
  BY <1>1, <1>q, <1>4 DEF RequestOK, Request, RequestPc
<1>5. ASSUME NEW error \in {"transient", "backoff", "reset"}, NEW emitted \in BOOLEAN
      PROVE  RequestOK([req[r] EXCEPT !.pc = "mark", !.error = error, !.emitted = emitted])
  BY <1>1, <1>q, <1>5 DEF RequestOK, Request, RequestPc
<1>6. ASSUME NEW emitted \in BOOLEAN
      PROVE  RequestOK([req[r] EXCEPT !.pc = "mark", !.error = "transient", !.emitted = emitted,
                                      !.aborted = TRUE])
  BY <1>1, <1>q, <1>6 DEF RequestOK, Request, RequestPc
<1>7. \E q : RequestOK(q) /\ req' = [req EXCEPT ![r] = q]
  <2>1. CASE Succeed(r)
    BY <1>4, <2>1, NoRequestOK, ZenonT(60) DEF Succeed
  <2>2. CASE Fail(r)
    <3>1. CASE \E error \in {"transient", "backoff", "reset"}, emitted \in BOOLEAN :
                  req' = [req EXCEPT ![r].pc = "mark", ![r].error = error, ![r].emitted = emitted]
      <4>1. PICK error \in {"transient", "backoff", "reset"}, emitted \in BOOLEAN :
                  req' = [req EXCEPT ![r].pc = "mark", ![r].error = error, ![r].emitted = emitted]
        BY <3>1
      <4>2. req' = [req EXCEPT ![r] = [req[r] EXCEPT !.pc = "mark", !.error = error,
                                                     !.emitted = emitted]]
        BY <1>0, <4>1 DEF ReqTyped
      <4> QED
        BY <1>5, <4>2
    <3>2. CASE req' = [req EXCEPT ![r] = NextRoute(@)]
      BY <1>3, <3>2
    <3> QED
      BY <2>2, <3>1, <3>2 DEF Fail
  <2>3. CASE Abort(r)
    <3>1. CASE \E emitted \in BOOLEAN :
                  req' = [req EXCEPT ![r].pc = "mark", ![r].error = "transient",
                                     ![r].emitted = emitted, ![r].aborted = TRUE]
      <4>1. PICK emitted \in BOOLEAN :
                  req' = [req EXCEPT ![r].pc = "mark", ![r].error = "transient",
                                     ![r].emitted = emitted, ![r].aborted = TRUE]
        BY <3>1
      <4>2. req' = [req EXCEPT ![r] = [req[r] EXCEPT !.pc = "mark", !.error = "transient",
                                                     !.emitted = emitted, !.aborted = TRUE]]
        BY <1>0, <4>1 DEF ReqTyped
      <4> QED
        BY <1>6, <4>2
    <3>2. CASE req' = [req EXCEPT ![r] = NoRequest]
      BY <3>2, NoRequestOK
    <3> QED
      BY <2>3, <3>1, <3>2 DEF Abort
  <2> QED
    BY <2>1, <2>2, <2>3
<1>8. ReqTyped'
  BY <1>0, <1>7, SetReq
<1> QED
  BY <1>0, <1>1, <1>2, <1>8, TypedParts1 DEF UpdTyped

\* The update a request begins when it settles is one of locks and levels.
LEMMA SettlePatch ==
    ASSUME Typed, NEW r \in Requests, req[r].pc \in {"mark", "clear"}
    PROVE  LET c == file.conns[req[r].conn]
               p == IF req[r].pc = "mark" THEN Lock(c, Model(req[r]), req[r].error)
                    ELSE Unlock(c, Model(req[r]))
           IN  p \in Patch /\ p.used = -1
<1>1. req[r].conn \in Conns /\ Model(req[r]) \in Models
  BY ModelType DEF Typed, RequestOK
<1>2. file.conns[req[r].conn] \in Connection /\ now \in Nat
  BY <1>1 DEF Typed, TypeOK
<1> QED
  BY <1>1, <1>2, LockType, UnlockType

LEMMA SettleTyped ==
    ASSUME Typed, NEW r \in Requests, Settle(r)
    PROVE  Typed'
<1>0. /\ now \in Nat /\ file \in File /\ ReqTyped /\ UpdTyped
      /\ clear \in Clear /\ log \in Log /\ budget \in Scene
  BY TypedParts
<1>q. RequestOK(req[r]) /\ req[r] \in Request
  BY <1>0 DEF ReqTyped
<1>1. UNCHANGED <<now, file, clear, budget>> /\ req[r].pc \in {"mark", "clear"}
  BY DEF Settle
<1> DEFINE c == file.conns[req[r].conn]
           p == IF req[r].pc = "mark" THEN Lock(c, Model(req[r]), req[r].error)
                ELSE Unlock(c, Model(req[r]))
<1>2. p \in Patch /\ req[r].conn \in Conns
  BY <1>1, <1>q, SettlePatch DEF RequestOK
<1> HIDE DEF p
<1>3. RequestOK(Ended(req[r])) /\ RequestOK(Thrown(req[r]))
  BY <1>1, <1>q, EndedOK, ThrownOK
<1>4. ASSUME NEW pc \in {"marking", "clearing"}
      PROVE  RequestOK([req[r] EXCEPT !.pc = pc])
  BY <1>1, <1>q, <1>4 DEF RequestOK, Request, RequestPc
<1>5. CASE /\ req' = [req EXCEPT ![r].pc = IF @ = "mark" THEN "marking" ELSE "clearing"]
           /\ upd' = [upd EXCEPT ![r] = Started(req[r].conn, p)]
           /\ UNCHANGED log
  <2>1. ReqTyped'
    BY <1>0, <1>4, <1>5, SetReq
  <2>2. UpdTyped'
    BY <1>0, <1>2, <1>5, StartedOK, SetUpd
  <2> QED
    BY <1>0, <1>1, <1>5, <2>1, <2>2, TypedParts1
<1>6. CASE req' = [req EXCEPT ![r] = Ended(@)] /\ UNCHANGED <<upd, log>>
  <2>1. ReqTyped'
    BY <1>0, <1>3, <1>6, SetReq
  <2> QED
    BY <1>0, <1>1, <1>6, <2>1, TypedParts1 DEF UpdTyped
<1>7. CASE /\ req' = [req EXCEPT ![r] = Thrown(@)]
           /\ log' = [log EXCEPT !.unread = TRUE] /\ upd' = upd
  <2>1. ReqTyped'
    BY <1>0, <1>3, <1>7, SetReq
  <2>2. log' \in Log
    BY <1>0, <1>7 DEF Log
  <2> QED
    BY <1>0, <1>1, <1>7, <2>1, <2>2, TypedParts1 DEF UpdTyped
<1>8. <1>5!1 \/ <1>6!1 \/ <1>7!1
  BY DEF Settle, p
<1> QED
  BY <1>5, <1>6, <1>7, <1>8

LEMMA SettledTyped ==
    ASSUME Typed, NEW r \in Requests, Settled(r)
    PROVE  Typed'
<1>0. /\ now \in Nat /\ file \in File /\ ReqTyped /\ UpdTyped
      /\ clear \in Clear /\ log \in Log /\ budget \in Scene
  BY TypedParts
<1>q. RequestOK(req[r]) /\ req[r] \in Request
  BY <1>0 DEF ReqTyped
<1>1. UNCHANGED <<now, file, clear, log, budget>> /\ req[r].pc \in {"marking", "clearing"}
  BY DEF Settled
<1>2. RequestOK(Ended(req[r])) /\ RequestOK(Thrown(req[r]))
  BY <1>1, <1>q, EndedOK, ThrownOK
<1>3. ReqTyped'
  BY <1>0, <1>2, SetReq DEF Settled
<1>4. UpdTyped'
  BY <1>0, NoUpdateOK, SetUpd DEF Settled
<1> QED
  BY <1>0, <1>1, <1>3, <1>4, TypedParts1

LEMMA CrashTyped ==
    ASSUME Typed, NEW r \in Requests, Crash(r)
    PROVE  Typed'
<1>0. /\ now \in Nat /\ file \in File /\ ReqTyped /\ UpdTyped
      /\ clear \in Clear /\ log \in Log /\ budget \in Scene
  BY TypedParts
<1>1. UNCHANGED <<now, file, clear>>
  BY DEF Crash
<1>2. ReqTyped' /\ UpdTyped'
  BY <1>0, NoRequestOK, NoUpdateOK, SetReq, SetUpd DEF Crash
<1>3. log' \in Log
  BY <1>0 DEF Crash, Log
<1>4. budget' \in Scene
  BY <1>0, SpendType DEF Crash
<1> QED
  BY <1>0, <1>1, <1>2, <1>3, <1>4, TypedParts1

LEMMA StoreTyped ==
    ASSUME Typed, NEW u \in Updaters, StoreStep(u)
    PROVE  Typed'
<1>0. /\ now \in Nat /\ file \in File /\ ReqTyped /\ UpdTyped
      /\ clear \in Clear /\ log \in Log /\ budget \in Scene
  BY TypedParts
<1>u. UpdateOK(upd[u]) /\ upd[u] \in Update
  BY <1>0 DEF UpdTyped
<1>1. CASE ReadState(u)
  <2>1. UNCHANGED <<now, file, req, clear, budget>> /\ upd[u].pc = "read"
    BY <1>1 DEF ReadState
  <2>2. file.conns \in [Conns -> Connection]
    BY <1>0 DEF File
  <2>3. UpdateOK([upd[u] EXCEPT !.pc = "write", !.snapshot = file.conns])
    BY <1>u, <2>1, <2>2 DEF UpdateOK, Update
  <2>4. UpdTyped'
    BY <1>0, <1>1, <2>3, NoUpdateOK, SetUpd DEF ReadState
  <2>5. (log.unread \/ ~Readable) \in BOOLEAN
    OBVIOUS
  <2>6. log' \in Log
    BY <1>0, <1>1, <2>5 DEF ReadState, Log
  <2> QED
    BY <1>0, <2>1, <2>4, <2>6, TypedParts1 DEF ReqTyped
<1>2. CASE OpenFile(u)
  <2>1. UNCHANGED <<now, req, clear, log, budget>> /\ upd[u].pc = "write"
    BY <1>2 DEF OpenFile
  <2>2. UpdateOK([upd[u] EXCEPT !.pc = "put"])
    BY <1>u, <2>1 DEF UpdateOK, Update
  <2>3. UpdTyped'
    BY <1>0, <1>2, <2>2, SetUpd DEF OpenFile
  <2>4. file' \in File
    BY <1>0, <1>2 DEF OpenFile, File
  <2> QED
    BY <1>0, <2>1, <2>3, <2>4, TypedParts1 DEF ReqTyped
<1>3. CASE PutFile(u)
  <2>1. UNCHANGED <<now, req, clear, budget>> /\ upd[u].pc = "put"
    BY <1>3 DEF PutFile
  <2>2. upd[u].conn \in Conns /\ upd[u].patch \in Patch /\ upd[u].snapshot \in [Conns -> Connection]
    BY <1>u, <2>1 DEF UpdateOK, Update
  <2>3. Apply(upd[u].snapshot[upd[u].conn], upd[u].patch) \in Connection
    BY <2>2, ApplyType
  <2>4. [upd[u].snapshot EXCEPT ![upd[u].conn] = Apply(@, upd[u].patch)] \in [Conns -> Connection]
    BY <2>2, <2>3
  <2>5. file' \in File
    BY <1>3, <2>4 DEF PutFile, File
  <2>6. \A v \in Updaters : /\ v # u => UpdateOK([upd[v] EXCEPT !.overtaken = @ \/ upd[v].pc \in {"write", "put"}])
    <3> SUFFICES ASSUME NEW v \in Updaters
                 PROVE  UpdateOK([upd[v] EXCEPT !.overtaken = @ \/ upd[v].pc \in {"write", "put"}])
      OBVIOUS
    <3>1. UpdateOK(upd[v]) /\ upd[v] \in Update
      BY <1>0 DEF UpdTyped
    <3>2. (upd[v].overtaken \/ upd[v].pc \in {"write", "put"}) \in BOOLEAN
      OBVIOUS
    <3> QED
      BY <3>1, <3>2 DEF UpdateOK, Update
  <2>7. \A v \in Updaters : UpdateOK(upd'[v])
    BY <1>3, <2>6, NoUpdateOK DEF PutFile
  <2>8. UpdTyped'
    <3>1. \A v \in Updaters : upd'[v] \in Update
      BY <2>7 DEF UpdateOK
    <3>2. upd' = [v \in Updaters |-> upd'[v]]
      BY <1>3 DEF PutFile
    <3>3. upd' \in [Updaters -> Update]
      BY <3>1, <3>2
    <3> QED
      BY <2>7, <3>3 DEF UpdTyped
  <2>9. log' \in Log
    <3> DEFINE off == CASE upd[u].patch.active = "on" -> log.off \ {upd[u].conn}
                       [] upd[u].patch.active = "off" -> log.off \cup {upd[u].conn}
                       [] OTHER -> log.off
               until == [m \in Models |-> IF m \in upd[u].patch.models THEN upd[u].patch.until
                                          ELSE log.until[upd[u].conn][m]]
    <3>1. log' = [log EXCEPT !.raced = @ \/ upd[u].overtaken, !.off = off,
                             !.until[upd[u].conn] = until]
      BY <1>3 DEF PutFile
    <3>2. off \in SUBSET Conns
      BY <1>0, <2>2 DEF Log
    <3>3. until \in [Models -> Nat]
      BY <1>0, <2>2 DEF Log, Patch
    <3>4. (log.raced \/ upd[u].overtaken) \in BOOLEAN
      OBVIOUS
    <3> HIDE DEF off, until
    <3> QED
      BY <1>0, <2>2, <3>1, <3>2, <3>3, <3>4 DEF Log
  <2> QED
    BY <1>0, <2>1, <2>5, <2>8, <2>9, TypedParts1 DEF ReqTyped
<1> QED
  BY <1>1, <1>2, <1>3 DEF StoreStep

LEMMA ToggleTyped ==
    ASSUME Typed, NEW c \in Conns, Toggle(c) \/ Toggled(c)
    PROVE  Typed'
<1>0. /\ now \in Nat /\ file \in File /\ ReqTyped /\ UpdTyped
      /\ clear \in Clear /\ log \in Log /\ budget \in Scene
  BY TypedParts
<1>1. UNCHANGED <<now, file, req, clear, log>>
  BY DEF Toggle, Toggled
<1>2. budget' \in Scene
  BY <1>0, SpendType DEF Toggle, Toggled
<1>3. ASSUME NEW active \in {"on", "off"}
      PROVE  UpdateOK(Started(c, [NoPatch EXCEPT !.active = active]))
  <2>1. [NoPatch EXCEPT !.active = active] \in Patch
    BY <1>3, FreshTypes DEF Patch
  <2> QED
    BY <2>1, StartedOK
<1>4. \E v : UpdateOK(v) /\ upd' = [upd EXCEPT ![c] = v]
  BY <1>3, NoUpdateOK DEF Toggle, Toggled
<1>5. UpdTyped'
  BY <1>0, <1>4, SetUpd
<1> QED
  BY <1>0, <1>1, <1>2, <1>5, TypedParts1 DEF ReqTyped

\* The update of clearModelCooldown is one of a lock and the level.
LEMMA UnlockingType == clear \in Clear => Unlocking \in Patch /\ Unlocking.used = -1
<1> SUFFICES ASSUME clear \in Clear PROVE Unlocking \in Patch /\ Unlocking.used = -1
  OBVIOUS
<1>1. {clear.model} \subseteq Models /\ 0 \in -1 .. MaxLevel
  BY ConnectionsAssumption DEF Clear
<1>2. Unlocking \in Patch
  BY <1>1, FreshTypes DEF Unlocking, Patch
<1> QED
  BY <1>2 DEF Unlocking, NoPatch

\* Several updates set at once.
LEMMA SetUpds ==
    ASSUME UpdTyped, NEW S, NEW v, upd' = [u \in Updaters |-> IF u \in S THEN v ELSE upd[u]],
           UpdateOK(v)
    PROVE  UpdTyped'
<1>1. \A u \in Updaters : UpdateOK(upd'[u]) /\ upd'[u] \in Update
  BY DEF UpdTyped, UpdateOK
<1>2. upd' \in [Updaters -> Update]
  BY <1>1
<1> QED
  BY <1>1, <1>2 DEF UpdTyped

LEMMA ClearTyped ==
    ASSUME Typed, ClearCooldown \/ ClearListed \/ Cleared
    PROVE  Typed'
<1>0. /\ now \in Nat /\ file \in File /\ ReqTyped /\ UpdTyped
      /\ clear \in Clear /\ log \in Log /\ budget \in Scene
  BY TypedParts
<1>1. CASE ClearCooldown
  <2>1. UNCHANGED <<now, file, req, upd, log>>
    BY <1>1 DEF ClearCooldown
  <2>2. budget' \in Scene
    BY <1>0, <1>1, SpendType DEF ClearCooldown
  <2>3. clear' \in Clear
    BY <1>0, <1>1 DEF ClearCooldown, Clear
  <2> QED
    BY <1>0, <2>1, <2>2, <2>3, TypedParts1 DEF ReqTyped, UpdTyped
<1>2. CASE ClearListed
  <2> DEFINE S == {c \in Conns : file.conns[c].lock[clear.model] > 0}
             alone == \A r \in Requests : req[r].pc = "idle"
  <2>1. UNCHANGED <<now, file, req, budget>>
    BY <1>2 DEF ClearListed
  <2>2. CASE /\ clear' = [clear EXCEPT !.pc = "update", !.of = S, !.alone = alone]
             /\ upd' = [u \in Updaters |-> IF u \in S THEN Started(u, Unlocking) ELSE upd[u]]
             /\ UNCHANGED log
    <3>1. S \in SUBSET Conns /\ alone \in BOOLEAN
      OBVIOUS
    <3>2. \A u \in Updaters : UpdateOK(upd'[u]) /\ upd'[u] \in Update
      BY <1>0, <2>2, UnlockingType, StartedOK DEF UpdTyped, UpdateOK
    <3>3. upd' \in [Updaters -> Update]
      BY <2>2, <3>2
    <3>4. UpdTyped'
      BY <3>2, <3>3 DEF UpdTyped
    <3> HIDE DEF S, alone
    <3>5. clear' \in Clear
      BY <1>0, <2>2, <3>1 DEF Clear
    <3> QED
      BY <1>0, <2>1, <2>2, <3>4, <3>5, TypedParts1 DEF ReqTyped
  <2>3. CASE /\ clear' = [clear EXCEPT !.pc = "idle"]
             /\ log' = [log EXCEPT !.unread = TRUE] /\ UNCHANGED upd
    <3>1. clear' \in Clear /\ log' \in Log
      BY <1>0, <2>3 DEF Clear, Log
    <3> QED
      BY <1>0, <2>1, <2>3, <3>1, TypedParts1 DEF ReqTyped, UpdTyped
  <2> QED
    BY <1>2, <2>2, <2>3 DEF ClearListed
<1>3. CASE Cleared
  <2>1. UNCHANGED <<now, file, req, log, budget>>
    BY <1>3 DEF Cleared
  <2>2. clear' \in Clear
    BY <1>0, <1>3 DEF Cleared, Clear
  <2>3. UpdTyped'
    BY <1>0, <1>3, NoUpdateOK, SetUpds DEF Cleared
  <2> QED
    BY <1>0, <2>1, <2>2, <2>3, TypedParts1 DEF ReqTyped
<1> QED
  BY <1>1, <1>2, <1>3

LEMMA TickTyped ==
    ASSUME Typed, Tick
    PROVE  Typed'
<1>0. /\ now \in Nat /\ file \in File /\ ReqTyped /\ UpdTyped
      /\ clear \in Clear /\ log \in Log /\ budget \in Scene
  BY TypedParts
<1>1. UNCHANGED <<file, req, upd, clear, log>> /\ now' \in Nat
  BY <1>0 DEF Tick
<1>2. budget' \in Scene
  BY <1>0, SpendType DEF Tick
<1> QED
  BY <1>0, <1>1, <1>2, TypedParts1 DEF ReqTyped, UpdTyped

LEMMA NextTyped == Typed /\ [Next]_vars => Typed'
<1> SUFFICES ASSUME Typed, [Next]_vars PROVE Typed'
  OBVIOUS
<1>1. CASE UNCHANGED vars
  BY <1>1 DEF vars, Typed, TypeOK
<1>2. ASSUME NEW r \in Requests, Begin(r) PROVE Typed'
  BY <1>2, BeginTyped
<1>3. ASSUME NEW r \in Requests, RequestStep(r) PROVE Typed'
  BY <1>3, SelectTyped, UseTyped, UsedTyped, AnswerTyped, SettleTyped, SettledTyped
     DEF RequestStep
<1>4. ASSUME NEW r \in Requests, Crash(r) PROVE Typed'
  BY <1>4, CrashTyped
<1>5. ASSUME NEW u \in Updaters, StoreStep(u) PROVE Typed'
  BY <1>5, StoreTyped
<1>6. CASE Dashboard
  BY <1>6, ToggleTyped, ClearTyped DEF Dashboard
<1>7. CASE Tick
  BY <1>7, TickTyped
<1> QED
  BY <1>1, <1>2, <1>3, <1>4, <1>5, <1>6, <1>7 DEF Next

\* Every variable keeps its type: the requests follow their plans, the updates are
\* well formed, and what the store merges into a record is a record again, whatever
\* order the coroutines take (updateProviderConnection, streamFn).
THEOREM TypeCorrect == Spec => []TypeOK
<1>1. Typed => TypeOK
  BY DEF Typed
<1> QED
  BY <1>1, InitTyped, NextTyped, PTL DEF Spec

-----------------------------------------------------------------------------
(* Updates that do not overlap are kept *)

\* What a step that neither reads, opens nor writes the file does to the calls.
Quiet == /\ file' = file
         /\ log'.raced = log.raced /\ log'.crashed = log.crashed
         /\ log'.off = log.off /\ log'.until = log.until
         /\ \A u \in Updaters : \/ upd'[u] = upd[u]
                                \/ /\ upd[u].pc \notin {"write", "put"}
                                   /\ upd'[u].pc \notin {"write", "put"}

LEMMA QuietKeeps ==
    ASSUME Quiet, Fresh, Matches
    PROVE  Fresh' /\ Matches'
<1>1. Fresh'
  BY DEF Quiet, Fresh
<1>2. Matches'
  BY DEF Quiet, Matches
<1> QED
  BY <1>1, <1>2

\* A request is not a connection: the two kinds of callers have calls of their own.
LEMMA CallersDiffer == \A r \in Requests, c \in Conns : r # c
  BY ConnectionsAssumption

\* The steps of a request start a call where none is going on and drop one that is over.
LEMMA RequestKept ==
    ASSUME Typed, Owned, NEW r \in Requests, Begin(r) \/ RequestStep(r)
    PROVE  Owned' /\ Quiet
<1>0. /\ ReqTyped /\ UpdTyped /\ clear \in Clear /\ log \in Log
  BY TypedParts
<1>1. Started(req[r].conn, NoPatch).pc = "read" /\ NoUpdate.pc = "none" /\ NoRequest.pc = "idle"
      /\ NextRoute(req[r]).pc \in {"idle", "select"}
  BY DEF Started, NoUpdate, NoRequest, NextRoute
<1>2. \A c, p : Started(c, p).pc = "read"
  BY DEF Started, NoUpdate
<1>3. /\ Ended(req[r]).pc \in {"idle", "select"}
      /\ Thrown(req[r]).pc \in {"idle", "mark"}
  BY <1>0, <1>1 DEF Ended, Thrown, ReqTyped, Request
<1>4. CASE Begin(r) \/ Succeed(r) \/ Fail(r) \/ Abort(r) \/ Select(r)
  <2>1. upd' = upd /\ file' = file
    BY <1>4, ZenonT(60) DEF Begin, Succeed, Fail, Abort, Select
  <2>2. clear'.pc = clear.pc
    BY <1>0, <1>4, ZenonT(60) DEF Begin, Succeed, Fail, Abort, Select, Clear
  <2>3. \A s \in Requests : s # r => req'[s] = req[s]
    BY <1>0, <1>4, ZenonT(60) DEF Begin, Succeed, Fail, Abort, Select, ReqTyped
  <2>4. upd[r].pc = "none"
    BY <1>4 DEF Owned, Begin, Succeed, Fail, Abort, Select
  <2>5. Owned'
    BY <2>1, <2>2, <2>3, <2>4, SMTT(30) DEF Owned
  <2>6. /\ log'.raced = log.raced /\ log'.crashed = log.crashed
        /\ log'.off = log.off /\ log'.until = log.until
    BY <1>0, <1>4 DEF Begin, Succeed, Fail, Abort, Select, Log
  <2> QED
    BY <2>1, <2>5, <2>6, SMTT(30) DEF Quiet
<1>5. CASE Use(r) \/ Used(r) \/ Settle(r) \/ Settled(r)
  <2>1. clear' = clear /\ file' = file
    BY <1>5 DEF Use, Used, Settle, Settled
  <2>2. /\ log'.raced = log.raced /\ log'.crashed = log.crashed
        /\ log'.off = log.off /\ log'.until = log.until
    BY <1>0, <1>5 DEF Use, Used, Settle, Settled, Log
  <2>3. \A s \in Requests : s # r => req'[s] = req[s]
    BY <1>0, <1>5 DEF Use, Used, Settle, Settled, ReqTyped
  <2>4. \A u \in Updaters : u # r => upd'[u] = upd[u]
    BY <1>0, <1>5 DEF Use, Used, Settle, Settled, UpdTyped
  <2>5. upd[r].pc \notin {"write", "put"}
    BY <1>5 DEF Use, Used, Settle, Settled, Owned
  <2>6. /\ upd'[r].pc \in {"none", "read"}
        /\ upd'[r].pc = "none" \/ req'[r].pc \in {"use", "marking", "clearing"}
    <3>1. CASE Use(r)
      <4>1. upd[r].pc = "none"
        BY <3>1 DEF Use, Owned
      <4> QED
        BY <1>0, <1>2, <3>1, <4>1 DEF Use, ReqTyped, UpdTyped, Request
    <3>2. CASE Settle(r)
      <4>1. upd[r].pc = "none"
        BY <3>2 DEF Settle, Owned
      <4> QED
        BY <1>0, <1>2, <3>2, <4>1 DEF Settle, ReqTyped, UpdTyped, Request
    <3>3. CASE Used(r) \/ Settled(r)
      BY <1>0, <1>1, <3>3 DEF Used, Settled, UpdTyped
    <3> QED
      BY <1>5, <3>1, <3>2, <3>3
  <2>7. Owned'
    BY <2>1, <2>3, <2>4, <2>6, CallersDiffer DEF Owned
  <2> QED
    BY <2>1, <2>2, <2>4, <2>5, <2>6, <2>7 DEF Quiet
<1> QED
  BY <1>4, <1>5 DEF RequestStep

\* The dashboard starts its calls where none is going on.
LEMMA DashboardKept ==
    ASSUME Typed, Owned, Dashboard
    PROVE  Owned' /\ Quiet
<1>0. /\ ReqTyped /\ UpdTyped /\ clear \in Clear /\ log \in Log
  BY TypedParts
<1>1. NoUpdate.pc = "none" /\ \A c, p : Started(c, p).pc = "read"
  BY SMTT(30) DEF Started, NoUpdate
<1>2. req' = req /\ file' = file
  BY ZenonT(60) DEF Dashboard, Toggle, Toggled, ClearCooldown, ClearListed, Cleared
<1>3. /\ log'.raced = log.raced /\ log'.crashed = log.crashed
      /\ log'.off = log.off /\ log'.until = log.until
  BY <1>0 DEF Dashboard, Toggle, Toggled, ClearCooldown, ClearListed, Cleared, Log
<1>4. ASSUME NEW c \in Conns, Toggle(c) PROVE Owned' /\ Quiet
  <2>1. /\ \A u \in Updaters : u # c => upd'[u] = upd[u]
        /\ clear' = clear /\ upd[c].pc = "none" /\ upd'[c].pc = "read" /\ clear.pc = "idle"
    BY <1>0, <1>1, <1>4 DEF Toggle, UpdTyped
  <2> QED
    BY <1>2, <1>3, <2>1, CallersDiffer DEF Owned, Quiet
<1>5. ASSUME NEW c \in Conns, Toggled(c) PROVE Owned' /\ Quiet
  <2>1. /\ \A u \in Updaters : u # c => upd'[u] = upd[u]
        /\ clear' = clear /\ upd[c].pc \in {"done", "failed"} /\ upd'[c].pc = "none"
    BY <1>0, <1>1, <1>5 DEF Toggled, UpdTyped
  <2> QED
    BY <1>2, <1>3, <2>1, CallersDiffer DEF Owned, Quiet
<1>6. CASE ClearCooldown
  <2>1. upd' = upd /\ \A c \in Conns : upd[c].pc = "none"
    BY <1>6 DEF ClearCooldown
  <2> QED
    BY <1>2, <1>3, <2>1 DEF Owned, Quiet
<1>7. CASE ClearListed
  <2>1. \A u \in Updaters : upd'[u] = upd[u] \/ (u \in Conns /\ upd'[u].pc = "read")
    <3>1. CASE upd' = upd
      BY <3>1
    <3>2. CASE \E S \in SUBSET Conns :
                  upd' = [u \in Updaters |-> IF u \in S THEN Started(u, Unlocking) ELSE upd[u]]
      BY <1>1, <3>2
    <3> QED
      BY <1>7, <3>1, <3>2 DEF ClearListed
  <2>2. clear.pc = "list" /\ clear'.pc # "list"
    BY <1>0, <1>7 DEF ClearListed, Clear
  <2> QED
    BY <1>2, <1>3, <2>1, <2>2, CallersDiffer DEF Owned, Quiet
<1>8. CASE Cleared
  <2>1. /\ \A u \in Updaters :
              upd'[u] = upd[u] \/ (upd[u].pc \in {"done", "failed"} /\ upd'[u].pc = "none")
        /\ clear'.pc = "idle"
    BY <1>0, <1>1, <1>8 DEF Cleared, Clear
  <2> QED
    BY <1>2, <1>3, <2>1 DEF Owned, Quiet
<1> QED
  BY <1>4, <1>5, <1>6, <1>7, <1>8 DEF Dashboard

\* A process that dies leaves the calls of the others as they are.
LEMMA CrashKept ==
    ASSUME Typed, Owned, Fresh, NEW r \in Requests, Crash(r)
    PROVE  Owned' /\ Fresh' /\ log'.crashed
<1>0. ReqTyped /\ UpdTyped /\ log \in Log
  BY TypedParts
<1>1. /\ \A u \in Updaters : u # r => upd'[u] = upd[u]
      /\ upd'[r].pc = "none" /\ clear' = clear /\ file' = file /\ log'.crashed
  BY <1>0 DEF Crash, UpdTyped, Log, NoUpdate
<1>2. \A s \in Requests : s # r => req'[s] = req[s]
  BY <1>0 DEF Crash, ReqTyped
<1>3. Owned'
  BY <1>1, <1>2, CallersDiffer DEF Owned
<1>4. Fresh'
  BY <1>1 DEF Fresh
<1> QED
  BY <1>1, <1>3, <1>4

\* The steps of a call: what was read is current until somebody else writes, and a
\* call that finds it so merges its fields into what the file says.
LEMMA StoreKept ==
    ASSUME Typed, Owned, Fresh, Matches, NEW u \in Updaters, StoreStep(u)
    PROVE  Owned' /\ Fresh' /\ Matches'
<1>0. file \in File /\ ReqTyped /\ UpdTyped /\ log \in Log
  BY TypedParts
<1>u. upd[u] \in Update
  BY <1>0 DEF UpdTyped
<1>1. CASE ReadState(u)
  <2>1. /\ upd[u].pc = "read" /\ file' = file /\ req' = req /\ clear' = clear
        /\ \A v \in Updaters : v # u => upd'[v] = upd[v]
        /\ \/ /\ upd'[u].pc = "write" /\ upd'[u].snapshot = file.conns
           \/ /\ upd'[u].pc = "failed"
    BY <1>0, <1>1, <1>u DEF ReadState, UpdTyped, Update, NoUpdate
  <2>2. /\ log'.raced = log.raced /\ log'.crashed = log.crashed
        /\ log'.off = log.off /\ log'.until = log.until
    BY <1>0, <1>1 DEF ReadState, Log
  <2>3. Owned'
    BY <2>1 DEF Owned
  <2>4. Fresh'
    BY <2>1 DEF Fresh
  <2>5. Matches'
    BY <2>1, <2>2 DEF Matches
  <2> QED
    BY <2>3, <2>4, <2>5
<1>2. CASE OpenFile(u)
  <2>1. /\ upd[u].pc = "write" /\ req' = req /\ clear' = clear /\ log' = log
        /\ \A v \in Updaters : v # u => upd'[v] = upd[v]
        /\ upd'[u].pc = "put" /\ upd'[u].snapshot = upd[u].snapshot
        /\ upd'[u].overtaken = upd[u].overtaken
    BY <1>0, <1>2, <1>u DEF OpenFile, UpdTyped, Update
  <2>2. file'.conns = file.conns /\ file'.state = "empty"
    BY <1>0, <1>2 DEF OpenFile, File
  <2>3. Owned'
    BY <2>1 DEF Owned
  <2>4. Fresh'
    BY <2>1, <2>2 DEF Fresh
  <2>5. Matches'
    BY <2>1, <2>2 DEF Matches
  <2> QED
    BY <2>3, <2>4, <2>5
<1>3. CASE PutFile(u)
  <2> DEFINE c == upd[u].conn
             p == upd[u].patch
  <2>1. /\ upd[u].pc = "put" /\ req' = req /\ clear' = clear
        /\ upd'[u].pc = "done"
        /\ \A v \in Updaters : v # u =>
              /\ upd'[v].pc = upd[v].pc
              /\ upd[v].pc \in {"write", "put"} => upd'[v].overtaken
    BY <1>0, <1>3 DEF PutFile, UpdTyped, Update, NoUpdate
  <2>2. Owned'
    BY <2>1 DEF Owned
  <2>3. Fresh'
    BY <2>1 DEF Fresh
  <2>4. Matches'
    <3> SUFFICES ASSUME ~log'.raced, ~log'.crashed
                 PROVE  /\ file'.state = "ok"
                        /\ \A d \in Conns : /\ file'.conns[d].active = (d \notin log'.off)
                                            /\ file'.conns[d].lock = log'.until[d]
      BY DEF Matches
    <3>1. ~log.raced /\ ~log.crashed /\ ~upd[u].overtaken
      BY <1>0, <1>3 DEF PutFile, Log
    <3>2. upd[u].snapshot = file.conns /\ file.state = "empty"
      BY <2>1, <3>1 DEF Fresh
    <3>3. c \in Conns /\ p \in Patch /\ file.conns \in [Conns -> Connection]
      BY <1>0, <1>u, <2>1 DEF UpdTyped, UpdateOK, Update, File
    <3>4. file'.state = "ok" /\ file'.conns = [file.conns EXCEPT ![c] = Apply(@, p)]
      BY <1>3, <3>2 DEF PutFile
    <3>5. \A d \in Conns : d # c => file'.conns[d] = file.conns[d]
      BY <3>3, <3>4
    <3>6. file'.conns[c] = Apply(file.conns[c], p)
      BY <3>3, <3>4
    <3>7. \A d \in Conns : d # c => /\ log'.until[d] = log.until[d]
                                    /\ (d \in log'.off) = (d \in log.off)
      BY <1>0, <1>3, <3>3 DEF PutFile, Log
    <3>8. /\ log'.until[c] = [m \in Models |-> IF m \in p.models THEN p.until ELSE log.until[c][m]]
          /\ p.active = "on" => c \notin log'.off
          /\ p.active = "off" => c \in log'.off
          /\ p.active = "same" => (c \in log'.off) = (c \in log.off)
      BY <1>0, <1>3, <3>3 DEF PutFile, Log
    <3>9. \A d \in Conns : /\ file.conns[d].active = (d \notin log.off)
                           /\ file.conns[d].lock = log.until[d]
      BY <3>1 DEF Matches
    <3>10. file'.conns[c].active = (c \notin log'.off)
      <4>1. file'.conns[c].active = IF p.active = "same" THEN file.conns[c].active ELSE p.active = "on"
        BY <3>6 DEF Apply
      <4>2. p.active = "same" \/ p.active = "on" \/ p.active = "off"
        BY <3>3, SMTT(30) DEF Patch
      <4>3. CASE p.active = "same"
        BY <3>3, <3>8, <3>9, <4>1, <4>3, Zenon
      <4>4. CASE p.active = "on"
        <5>1. c \notin log'.off /\ file'.conns[c].active = TRUE
          BY <3>8, <4>1, <4>4
        <5> QED
          BY <5>1, Zenon
      <4>5. CASE p.active = "off"
        <5>1. c \in log'.off /\ file'.conns[c].active = FALSE
          BY <3>8, <4>1, <4>5
        <5> QED
          BY <5>1, Zenon
      <4> QED
        BY <4>2, <4>3, <4>4, <4>5, Zenon
    <3>11. file'.conns[c].lock = log'.until[c]
      BY <3>3, <3>6, <3>8, <3>9 DEF Apply
    <3> QED
      BY <3>4, <3>5, <3>7, <3>9, <3>10, <3>11
  <2> QED
    BY <2>2, <2>3, <2>4
<1> QED
  BY <1>1, <1>2, <1>3 DEF StoreStep

LEMMA InitKept == Init => Owned /\ Fresh /\ Matches
<1> SUFFICES ASSUME Init PROVE Owned /\ Fresh /\ Matches
  OBVIOUS
<1>1. \A u \in Updaters : upd[u].pc = "none"
  BY DEF Init, NoUpdate
<1>2. clear.pc = "idle"
  BY DEF Init
<1>3. \A c \in Conns : file.conns[c].active /\ file.conns[c].lock = [m \in Models |-> 0]
  BY DEF Init, FreshConnection
<1>4. Matches
  BY <1>3 DEF Matches, Init
<1> QED
  BY <1>1, <1>2, <1>4 DEF Owned, Fresh

LEMMA NextKept == Typed /\ Owned /\ Fresh /\ Matches /\ [Next]_vars => (Owned /\ Fresh /\ Matches)'
<1> SUFFICES ASSUME Typed, Owned, Fresh, Matches, [Next]_vars
             PROVE  Owned' /\ Fresh' /\ Matches'
  OBVIOUS
<1>1. CASE UNCHANGED vars
  BY <1>1 DEF vars, Owned, Fresh, Matches
<1>2. ASSUME NEW r \in Requests, Begin(r) \/ RequestStep(r) PROVE Owned' /\ Fresh' /\ Matches'
  BY <1>2, RequestKept, QuietKeeps
<1>3. ASSUME NEW r \in Requests, Crash(r) PROVE Owned' /\ Fresh' /\ Matches'
  BY <1>3, CrashKept DEF Matches
<1>4. ASSUME NEW u \in Updaters, StoreStep(u) PROVE Owned' /\ Fresh' /\ Matches'
  BY <1>4, StoreKept
<1>5. CASE Dashboard
  BY <1>5, DashboardKept, QuietKeeps
<1>6. CASE Tick
  BY <1>6 DEF Tick, Owned, Fresh, Matches
<1> QED
  BY <1>1, <1>2, <1>3, <1>4, <1>5, <1>6 DEF Next

\* A store without a lock keeps every update that no other has overtaken: for any
\* number of requests, connections and dashboard calls, as long as no two calls have
\* written from the same reading and no process has died, the file can be parsed
\* whenever nobody is writing it, and has the locks and switches asked for last
\* (updateProviderConnection).
THEOREM SeparateUpdatesKept == Spec => []UpdatesKept
<1>1. Matches => UpdatesKept
  BY DEF Matches, UpdatesKept
<1> QED
  BY <1>1, InitTyped, InitKept, NextTyped, NextKept, PTL DEF Spec

-----------------------------------------------------------------------------
(* Cooldowns are respected *)

\* What has gone wrong stays on record.
Grows == /\ log.raced => log'.raced
         /\ log.crashed => log'.crashed
         /\ log.unread => log'.unread
         /\ log.stale => log'.stale

\* Only Select can add a breach.
LEMMA LogGrows ==
    ASSUME Typed, [Next]_vars
    PROVE  Grows /\ (log'.breach = log.breach \/ \E r \in Requests : Select(r))
<1>0. log \in Log
  BY TypedParts
<1>1. CASE UNCHANGED vars
  BY <1>1 DEF vars, Grows
<1>2. ASSUME NEW r \in Requests, Select(r) PROVE Grows
  BY <1>0, <1>2, ZenonT(60) DEF Select, Log, Grows
<1>3. ASSUME NEW r \in Requests,
             Begin(r) \/ Use(r) \/ Used(r) \/ Succeed(r) \/ Fail(r) \/ Abort(r)
             \/ Settle(r) \/ Settled(r) \/ Crash(r)
      PROVE Grows /\ log'.breach = log.breach
  BY <1>0, <1>3 DEF Begin, Use, Used, Succeed, Fail, Abort, Settle, Settled, Crash, Log, Grows
<1>4. ASSUME NEW u \in Updaters, StoreStep(u) PROVE Grows /\ log'.breach = log.breach
  BY <1>0, <1>4 DEF StoreStep, ReadState, OpenFile, PutFile, Log, Grows
<1>5. ASSUME Dashboard \/ Tick PROVE Grows /\ log'.breach = log.breach
  BY <1>0, <1>5 DEF Dashboard, Toggle, Toggled, ClearCooldown, ClearListed, Cleared, Tick,
                    Log, Grows
<1> QED
  BY <1>1, <1>2, <1>3, <1>4, <1>5 DEF Next, RequestStep, vars

\* The connection a request takes is switched on and not cooling down for its model.
LEMMA SelectRespects ==
    ASSUME Typed, Matches, CooldownRespected, NEW r \in Requests, Select(r)
    PROVE  CooldownRespected'
<1>0. /\ ReqTyped /\ log \in Log /\ file \in File /\ now \in Nat
  BY TypedParts
<1>1. log'.raced = log.raced /\ log'.crashed = log.crashed
  BY <1>0 DEF Select, Log
<1>2. CASE log'.breach = log.breach
  BY <1>1, <1>2 DEF CooldownRespected
<1>3. CASE log'.breach # log.breach
  <2> DEFINE S == Available(file.conns, Model(req[r]))
             chosen == Selected(file.conns, S)
  <2>1. /\ S # {}
        /\ log'.breach = (log.breach \/ chosen.conn \in log.off
                                     \/ log.until[chosen.conn][Model(req[r])] > now)
    BY <1>0, <1>3 DEF Select, Log
  <2>2. chosen.conn \in S
    BY <2>1, SelectChoice, SMTT(30)
  <2>3. chosen.conn \in Conns /\ file.conns[chosen.conn].active
        /\ ~(file.conns[chosen.conn].lock[Model(req[r])] > now)
    BY <2>2 DEF Available, IsModelLockActive
  <2> HIDE DEF chosen, S
  <2>4. CASE log.raced \/ log.crashed
    BY <1>1, <2>4 DEF CooldownRespected
  <2>5. CASE ~log.raced /\ ~log.crashed
    <3>1. chosen.conn \notin log.off /\ file.conns[chosen.conn].lock = log.until[chosen.conn]
      BY <2>3, <2>5 DEF Matches
    <3> QED
      BY <1>3, <2>1, <2>3, <3>1, <1>0 DEF Log
  <2> QED
    BY <2>4, <2>5
<1> QED
  BY <1>2, <1>3

\* No request takes a connection that is disabled or cooling down for its model,
\* whoever has marked it, unless an overlapping update or a dead process has cost the
\* store that mark (getProviderConnectionAuth, selectProviderConnection).
THEOREM CooldownsRespected == Spec => []CooldownRespected
<1>1. Init => CooldownRespected
  BY DEF Init, CooldownRespected
<1>2. Typed /\ Matches /\ CooldownRespected /\ [Next]_vars => CooldownRespected'
  BY SelectRespects, LogGrows DEF CooldownRespected, Grows
<1> QED
  BY <1>1, <1>2, InitTyped, InitKept, NextTyped, NextKept, PTL DEF Spec

-----------------------------------------------------------------------------
(* A request that was answered is not sent again *)

\* A call fails only in readState, which records that the file could not be read.
LEMMA NextFailed == Typed /\ FailedUnread /\ [Next]_vars => FailedUnread'
<1> SUFFICES ASSUME Typed, FailedUnread, [Next]_vars PROVE FailedUnread'
  OBVIOUS
<1>0. UpdTyped /\ log \in Log
  BY TypedParts
<1>1. log.unread => log'.unread
  BY LogGrows DEF Grows
<1>2. NoUpdate.pc = "none" /\ \A c, p : Started(c, p).pc = "read"
  BY DEF Started, NoUpdate
<1>3. SUFFICES ASSUME NEW w \in Updaters, upd'[w].pc = "failed"
               PROVE  upd[w].pc = "failed" \/ log'.unread
  BY <1>1 DEF FailedUnread
<1>4. CASE UNCHANGED vars
  BY <1>3, <1>4, SMTT(30) DEF vars
<1>5. ASSUME NEW r \in Requests, Begin(r) \/ Select(r) \/ Succeed(r) \/ Fail(r) \/ Abort(r)
      PROVE  upd' = upd
  BY <1>5 DEF Begin, Select, Succeed, Fail, Abort
<1>6. ASSUME NEW r \in Requests, Use(r) \/ Used(r) \/ Settle(r) \/ Settled(r) \/ Crash(r)
      PROVE  upd[w].pc = "failed"
  <2>1. upd' = upd \/ \E v : v.pc # "failed" /\ upd' = [upd EXCEPT ![r] = v]
    BY <1>2, <1>6 DEF Use, Used, Settle, Settled, Crash
  <2> QED
    BY <1>0, <1>3, <2>1 DEF UpdTyped
<1>7. ASSUME NEW u \in Updaters, ReadState(u) PROVE upd[w].pc = "failed" \/ log'.unread
  BY <1>0, <1>3, <1>7 DEF ReadState, UpdTyped, Update, Log
<1>8. ASSUME NEW u \in Updaters, OpenFile(u) PROVE upd[w].pc = "failed"
  BY <1>0, <1>3, <1>8 DEF OpenFile, UpdTyped, Update
<1>9. ASSUME NEW u \in Updaters, PutFile(u) PROVE upd[w].pc = "failed"
  BY <1>0, <1>3, <1>9 DEF PutFile, UpdTyped, Update, NoUpdate
<1>10. ASSUME NEW c \in Conns, Toggle(c) \/ Toggled(c) PROVE upd[w].pc = "failed"
  BY <1>0, <1>2, <1>3, <1>10 DEF Toggle, Toggled, UpdTyped
<1>11. CASE ClearCooldown
  BY <1>3, <1>11 DEF ClearCooldown
<1>12. CASE ClearListed
  <2>1. upd'[w] = upd[w] \/ upd'[w] = Started(w, Unlocking)
    BY <1>12 DEF ClearListed
  <2> QED
    BY <1>2, <1>3, <2>1
<1>13. CASE Cleared
  <2>1. upd'[w] = upd[w] \/ upd'[w] = NoUpdate
    BY <1>13 DEF Cleared
  <2> QED
    BY <1>2, <1>3, <2>1
<1>14. CASE Tick
  BY <1>3, <1>14, SMTT(30) DEF Tick
<1> QED
  BY <1>3, <1>4, <1>5, <1>6, <1>7, <1>8, <1>9, <1>10, <1>11, <1>12, <1>13, <1>14
     DEF Next, RequestStep, StoreStep, Dashboard

\* A step of a request by its effect on it.  The fields of the request that the step
\* does not mention stay.
LEMMA RequestEffects ==
    ASSUME Typed, NEW r \in Requests
    PROVE  /\ Select(r) => \/ req'[r] \in {NextRoute(req[r]), NoRequest}
                           \/ \E c, n : req'[r] = [req[r] EXCEPT !.conn = c, !.count = n, !.pc = "chosen"]
           /\ Use(r) => \/ req'[r] = NextRoute(req[r])
                        \/ \E pc : req'[r] = [req[r] EXCEPT !.pc = pc]
           /\ Used(r) => \/ req'[r] = NextRoute(req[r])
                         \/ req'[r] = [req[r] EXCEPT !.pc = "sent"]
           /\ Succeed(r) => \/ req'[r] = NoRequest
                            \/ \E e : req'[r] = [req[r] EXCEPT !.pc = "clear", !.emitted = e,
                                                              !.answered = TRUE]
           /\ Fail(r) => \/ req'[r] = NextRoute(req[r])
                         \/ \E e, m : req'[r] = [req[r] EXCEPT !.pc = "mark", !.error = e, !.emitted = m]
           /\ Abort(r) => \/ req'[r] = NoRequest
                          \/ \E m : req'[r] = [req[r] EXCEPT !.pc = "mark", !.error = "transient",
                                                            !.emitted = m, !.aborted = TRUE]
<1>0. req \in [Requests -> Request]
  BY TypedParts, SMTT(30) DEF ReqTyped
<1>1. ASSUME Select(r)
      PROVE  \/ req'[r] \in {NextRoute(req[r]), NoRequest}
             \/ \E c, n : req'[r] = [req[r] EXCEPT !.conn = c, !.count = n, !.pc = "chosen"]
  <2> DEFINE chosen == Selected(file.conns, Available(file.conns, Model(req[r])))
  <2>1. CASE req' = [req EXCEPT ![r].conn = chosen.conn, ![r].count = chosen.count, ![r].pc = "chosen"]
    <3> HIDE DEF chosen
    <3> QED
      BY <1>0, <2>1
  <2>2. CASE req' = [req EXCEPT ![r] = NextRoute(@)] \/ req' = [req EXCEPT ![r] = NoRequest]
    BY <1>0, <2>2
  <2> QED
    BY <1>1, <2>1, <2>2 DEF Select
<1>2. ASSUME Use(r)
      PROVE  req'[r] = NextRoute(req[r]) \/ \E pc : req'[r] = [req[r] EXCEPT !.pc = pc]
  BY <1>0, <1>2 DEF Use
<1>3. ASSUME Used(r)
      PROVE  req'[r] = NextRoute(req[r]) \/ req'[r] = [req[r] EXCEPT !.pc = "sent"]
  BY <1>0, <1>3 DEF Used
<1>4. ASSUME Succeed(r)
      PROVE  \/ req'[r] = NoRequest
             \/ \E e : req'[r] = [req[r] EXCEPT !.pc = "clear", !.emitted = e, !.answered = TRUE]
  BY <1>0, <1>4 DEF Succeed
<1>5. ASSUME Fail(r)
      PROVE  \/ req'[r] = NextRoute(req[r])
             \/ \E e, m : req'[r] = [req[r] EXCEPT !.pc = "mark", !.error = e, !.emitted = m]
  <2>1. CASE \E e \in {"transient", "backoff", "reset"}, m \in BOOLEAN :
                req' = [req EXCEPT ![r].pc = "mark", ![r].error = e, ![r].emitted = m]
    <3>1. PICK e \in {"transient", "backoff", "reset"}, m \in BOOLEAN :
                req' = [req EXCEPT ![r].pc = "mark", ![r].error = e, ![r].emitted = m]
      BY <2>1
    <3>2. req'[r] = [req[r] EXCEPT !.pc = "mark", !.error = e, !.emitted = m]
      BY <1>0, <3>1
    <3> QED
      BY <3>2
  <2>2. CASE req' = [req EXCEPT ![r] = NextRoute(@)]
    BY <1>0, <2>2
  <2> QED
    BY <1>5, <2>1, <2>2 DEF Fail
<1>6. ASSUME Abort(r)
      PROVE  \/ req'[r] = NoRequest
             \/ \E m : req'[r] = [req[r] EXCEPT !.pc = "mark", !.error = "transient",
                                               !.emitted = m, !.aborted = TRUE]
  BY <1>0, <1>6 DEF Abort
<1> QED
  BY <1>1, <1>2, <1>3, <1>4, <1>5, <1>6

LEMMA NextAnswered == Typed /\ FailedUnread /\ AnsweredOnce /\ [Next]_vars => AnsweredOnce'
<1> SUFFICES ASSUME Typed, FailedUnread, AnsweredOnce, [Next]_vars,
                    NEW s \in Requests, ~log'.unread, req'[s].answered
             PROVE  req'[s].pc \in {"clear", "clearing"}
  BY DEF AnsweredOnce
<1>0. ReqTyped /\ UpdTyped /\ log \in Log
  BY TypedParts
<1>s. req[s] \in Request
  BY <1>0 DEF ReqTyped
<1>1. ~log.unread
  BY LogGrows DEF Grows
<1>2. req[s].answered => req[s].pc \in {"clear", "clearing"}
  BY <1>1 DEF AnsweredOnce
<1>3. CASE req'[s] = req[s]
  BY <1>2, <1>3
<1>4. ~NoRequest.answered
  BY DEF NoRequest
<1>5. NextRoute(req[s]).answered => req[s].answered
  BY <1>s DEF NextRoute, NoRequest, Request
<1>6. req[s].pc \in {"clear", "clearing"} => Ended(req[s]) = NoRequest
  BY DEF Ended
<1>7. Ended(req[s]).answered => req[s].answered /\ req[s].pc \notin {"clear", "clearing"}
  BY <1>4, <1>5, <1>6 DEF Ended
<1>8. ASSUME NEW r \in Requests, Begin(r) \/ RequestStep(r) \/ Crash(r), s = r
      PROVE  req'[s].pc \in {"clear", "clearing"}
  <2>1. CASE Begin(s)
    BY <1>0, <2>1 DEF Begin, ReqTyped, NoRequest
  <2>2. CASE Select(s)
    <3>1. req'[s] = NextRoute(req[s]) \/ req'[s] = NoRequest \/ req'[s].answered = req[s].answered
      BY <1>s, <2>2, RequestEffects, ZenonT(60) DEF Request
    <3>2. ~req[s].answered
      BY <1>2, <2>2 DEF Select
    <3> QED
      BY <1>4, <1>5, <3>1, <3>2
  <2>3. CASE Use(s) \/ Used(s)
    <3>1. req'[s] = NextRoute(req[s]) \/ req'[s].answered = req[s].answered
      BY <1>s, <2>3, RequestEffects DEF Request
    <3>2. ~req[s].answered
      BY <1>2, <2>3 DEF Use, Used
    <3> QED
      BY <1>5, <3>1, <3>2
  <2>4. CASE Succeed(s)
    BY <1>s, <1>4, <2>4, RequestEffects, ZenonT(60) DEF Request
  <2>5. CASE Fail(s) \/ Abort(s)
    <3>1. req'[s] = NextRoute(req[s]) \/ req'[s] = NoRequest \/ req'[s].answered = req[s].answered
      <4>1. CASE Fail(s)
        <5>1. CASE req'[s] = NextRoute(req[s])
          BY <5>1
        <5>2. ASSUME NEW e, NEW m, req'[s] = [req[s] EXCEPT !.pc = "mark", !.error = e, !.emitted = m]
              PROVE  req'[s].answered = req[s].answered
          BY <1>s, <5>2 DEF Request
        <5>3. \/ req'[s] = NextRoute(req[s])
              \/ \E e, m : req'[s] = [req[s] EXCEPT !.pc = "mark", !.error = e, !.emitted = m]
          BY <4>1, RequestEffects, Zenon
        <5> QED
          BY <5>1, <5>2, <5>3
      <4>2. CASE Abort(s)
        <5>1. CASE req'[s] = NoRequest
          BY <5>1
        <5>2. ASSUME NEW m, req'[s] = [req[s] EXCEPT !.pc = "mark", !.error = "transient",
                                                     !.emitted = m, !.aborted = TRUE]
              PROVE  req'[s].answered = req[s].answered
          BY <1>s, <5>2 DEF Request
        <5>3. \/ req'[s] = NoRequest
              \/ \E m : req'[s] = [req[s] EXCEPT !.pc = "mark", !.error = "transient",
                                               !.emitted = m, !.aborted = TRUE]
          BY <4>2, RequestEffects, Zenon
        <5> QED
          BY <5>1, <5>2, <5>3, Zenon
      <4> QED
        BY <2>5, <4>1, <4>2
    <3>2. ~req[s].answered
      BY <1>2, <2>5 DEF Fail, Abort
    <3> QED
      BY <1>4, <1>5, <3>1, <3>2
  <2>6. CASE Settle(s)
    <3>1. \/ req'[s] = [req[s] EXCEPT !.pc = IF @ = "mark" THEN "marking" ELSE "clearing"]
          \/ req'[s] = Ended(req[s])
          \/ log'.unread
      BY <1>0, <2>6 DEF Settle, ReqTyped, Log
    <3>2. req[s].answered
      BY <1>7, <3>1, <1>s DEF Request
    <3>3. req[s].pc = "clear"
      BY <1>2, <2>6, <3>2 DEF Settle
    <3> QED
      BY <1>4, <1>6, <1>s, <3>1, <3>3 DEF Request
  <2>7. CASE Settled(s)
    <3>1. upd[s].pc # "failed"
      BY <1>1 DEF FailedUnread
    <3>2. req'[s] = Ended(req[s])
      BY <1>0, <2>7, <3>1 DEF Settled, ReqTyped
    <3> QED
      BY <1>2, <1>7, <3>2
  <2>8. CASE Crash(s)
    BY <1>0, <1>4, <2>8 DEF Crash, ReqTyped
  <2> QED
    BY <1>8, <2>1, <2>2, <2>3, <2>4, <2>5, <2>6, <2>7, <2>8 DEF RequestStep
<1>9. ASSUME NEW r \in Requests, Begin(r) \/ RequestStep(r) \/ Crash(r), s # r
      PROVE  req'[s] = req[s]
  BY <1>0, <1>9 DEF ReqTyped, RequestStep, Begin, Select, Use, Used, Succeed, Fail, Abort,
                    Settle, Settled, Crash
<1>10. ASSUME \/ \E u \in Updaters : StoreStep(u)
              \/ Dashboard \/ Tick \/ UNCHANGED vars
       PROVE  req'[s] = req[s]
  BY <1>10 DEF StoreStep, ReadState, OpenFile, PutFile, Dashboard, Toggle, Toggled,
               ClearCooldown, ClearListed, Cleared, Tick, vars
<1> QED
  BY <1>3, <1>8, <1>9, <1>10 DEF Next

\* A request the provider has answered is neither sent again nor held against its
\* connection, whichever of its updates fail and whatever the other requests do,
\* unless the store could not be read when the error was to be cleared
\* (clearProviderConnectionError inside the attempt's try block).
THEOREM AnsweredRequestsEnd == Spec => []AnsweredOnce
<1>1. Init => FailedUnread /\ AnsweredOnce
  BY DEF Init, FailedUnread, AnsweredOnce, NoUpdate, NoRequest
<1> QED
  BY <1>1, InitTyped, NextTyped, NextFailed, NextAnswered, PTL DEF Spec

-----------------------------------------------------------------------------
(* Round robin *)

\* A step that is not about the choice of a connection or the saving of its use.
Apart ==
    /\ \A c \in Conns : /\ file'.conns[c].used = file.conns[c].used
                        /\ file'.conns[c].count = file.conns[c].count
    /\ log'.uses = log.uses /\ log'.last = log.last /\ log'.streak = log.streak
    /\ \A q \in Requests : \/ req[q].pc \notin {"chosen", "use"} /\ req'[q].pc \notin {"chosen", "use"}
                           \/ /\ req'[q] = req[q] /\ upd'[q].patch = upd[q].patch
                              /\ upd'[q].conn = upd[q].conn
                              /\ \/ upd'[q].pc = upd[q].pc
                                 \/ /\ upd[q].pc \in {"read", "write", "put"}
                                    /\ upd'[q].pc \in {"read", "write", "put"}

\* Each part of Streaks stays as it is in such a step.
LEMMA ApartKeeps ==
    ASSUME Typed, Apart, Steady, Streaks
    PROVE  Streaks'
<1>0. log.last \in Conns \cup {0}
  BY TypedParts DEF Log
<1>1. /\ log.streak <= StickyLimit
      /\ log.last = 0 => log.streak = 0
      /\ \A q, r \in Requests : Chosen(q) /\ Chosen(r) => q = r
      /\ \A c \in Conns : file.conns[c].used <= log.uses
      /\ \A r \in Requests : Chosen(r) =>
            /\ req[r].count > 0 /\ req[r].count >= log.streak
            /\ log.last \in {0, req[r].conn}
      /\ \A r \in Requests : req[r].pc = "use" /\ upd[r].pc \in {"read", "write", "put"} =>
            /\ upd[r].patch.used = log.uses /\ upd[r].patch.count = req[r].count
            /\ upd[r].conn = req[r].conn
            /\ \A c \in Conns : file.conns[c].used < log.uses
      /\ (\A r \in Requests : ~Saving(r)) /\ log.last # 0 =>
            /\ file.conns[log.last].count >= log.streak
            /\ \A d \in Conns \ {log.last} : file.conns[d].used < file.conns[log.last].used
  BY DEF Streaks
<1>2. /\ log'.uses = log.uses /\ log'.last = log.last /\ log'.streak = log.streak
      /\ \A c \in Conns : /\ file'.conns[c].used = file.conns[c].used
                          /\ file'.conns[c].count = file.conns[c].count
  BY DEF Apart
<1>3. \A q \in Requests : /\ Chosen(q)' <=> Chosen(q)
                          /\ Saving(q)' <=> Saving(q)
                          /\ Chosen(q) => req'[q] = req[q]
  BY DEF Apart, Chosen, Saving
<1>4. \A q \in Requests : req'[q].pc = "use" /\ upd'[q].pc \in {"read", "write", "put"} =>
          /\ req[q].pc = "use" /\ upd[q].pc \in {"read", "write", "put"}
          /\ req'[q] = req[q] /\ upd'[q].patch = upd[q].patch /\ upd'[q].conn = upd[q].conn
  BY DEF Apart
<1>5. /\ log'.streak <= StickyLimit
      /\ log'.last = 0 => log'.streak = 0
      /\ \A q, r \in Requests : Chosen(q)' /\ Chosen(r)' => q = r
      /\ \A c \in Conns : file'.conns[c].used <= log'.uses
  BY <1>1, <1>2, <1>3
<1>6. \A r \in Requests : Chosen(r)' =>
          /\ req'[r].count > 0 /\ req'[r].count >= log'.streak
          /\ log'.last \in {0, req'[r].conn}
  BY <1>1, <1>2, <1>3
<1>7. \A r \in Requests : req'[r].pc = "use" /\ upd'[r].pc \in {"read", "write", "put"} =>
          /\ upd'[r].patch.used = log'.uses /\ upd'[r].patch.count = req'[r].count
          /\ upd'[r].conn = req'[r].conn
          /\ \A c \in Conns : file'.conns[c].used < log'.uses
  BY <1>1, <1>2, <1>4
<1>8. (\A r \in Requests : ~Saving(r)') /\ log'.last # 0 =>
          /\ file'.conns[log'.last].count >= log'.streak
          /\ \A d \in Conns \ {log'.last} : file'.conns[d].used < file'.conns[log'.last].used
  BY <1>0, <1>1, <1>2, <1>3
<1> QED
  BY <1>5, <1>6, <1>7, <1>8 DEF Streaks

\* The settings do not change.
LEMMA StrategyStays ==
    ASSUME Typed, [Next]_vars
    PROVE  budget'.strategy = budget.strategy
<1>0. budget \in Scene
  BY TypedParts
<1>1. ASSUME NEW what \in {"requests", "failures", "aborts", "toggles", "clears", "crashes", "ticks"},
             Spend(what)
      PROVE  budget'.strategy = budget.strategy
  BY <1>0, <1>1, SpendType, SMTT(30)
<1>2. ASSUME NEW r \in Requests, Begin(r) \/ RequestStep(r) \/ Crash(r)
      PROVE  budget'.strategy = budget.strategy
  BY <1>1, <1>2 DEF Begin, RequestStep, Select, Use, Used, Succeed, Fail, Abort, Settle,
                    Settled, Crash
<1>3. ASSUME NEW u \in Updaters, StoreStep(u) PROVE budget'.strategy = budget.strategy
  BY <1>3, SMTT(30) DEF StoreStep, ReadState, OpenFile, PutFile
<1>4. CASE Dashboard \/ Tick
  BY <1>1, <1>4 DEF Dashboard, Toggle, Toggled, ClearCooldown, ClearListed, Cleared, Tick
<1> QED
  BY <1>2, <1>3, <1>4 DEF Next, vars

\* The two orders disagree: the connection used last is not the one used longest ago.
LEMMA OldestIsAnother ==
    ASSUME NEW conns \in [Conns -> Connection], NEW S, S \subseteq Conns, S # {},
           Cardinality(S) # 1, NEW l \in Conns,
           \A d \in Conns \ {l} : conns[d].used < conns[l].used
    PROVE  Oldest(conns, S) # l
<1> SUFFICES ASSUME Oldest(conns, S) = l PROVE FALSE
  OBVIOUS
<1>1. l \in S /\ \A d \in S : conns[l].used <= conns[d].used
  BY OldestChosen
<1>2. S # {l}
  BY FS_Singleton
<1>3. PICK d \in S : d # l
  BY <1>1, <1>2
<1>4. conns[d].used \in Nat /\ conns[l].used \in Nat
  BY <1>3 DEF Connection
<1> QED
  BY <1>1, <1>3, <1>4

\* Only a request that saves its use writes one.
LEMMA NextUseOnly == Typed /\ Owned /\ UseOnly /\ [Next]_vars => UseOnly'
<1> SUFFICES ASSUME Typed, Owned, UseOnly, [Next]_vars, NEW u \in Updaters,
                    upd'[u].pc \in {"read", "write", "put"}, upd'[u].patch.used # -1
             PROVE  u \in Requests /\ req'[u].pc = "use"
  BY DEF UseOnly
<1>0. ReqTyped /\ UpdTyped /\ clear \in Clear
  BY TypedParts
<1>u. upd[u] \in Update
  BY <1>0 DEF UpdTyped
<1>1. NoUpdate.pc = "none" /\ \A c, p : Started(c, p).patch = p
  BY DEF Started, NoUpdate
<1>2. CASE upd[u].pc \in {"read", "write", "put"} /\ upd'[u].patch = upd[u].patch
  <2>1. u \in Requests /\ req[u].pc = "use"
    BY <1>2, SMTT(30) DEF UseOnly
  <2>2. ASSUME NEW r \in Requests, Begin(r) \/ RequestStep(r) \/ Crash(r), r # u
        PROVE  req'[u].pc = "use"
    BY <1>0, <2>1, <2>2, ZenonT(60) DEF ReqTyped, RequestStep, Begin, Select, Use, Used, Succeed, Fail,
                            Abort, Settle, Settled, Crash
  <2>3. ASSUME Begin(u) \/ RequestStep(u) \/ Crash(u)
        PROVE  FALSE
    <3>1. Used(u) \/ Crash(u)
      BY <2>1, <2>3 DEF Begin, RequestStep, Select, Use, Succeed, Fail, Abort, Settle, Settled
    <3>2. upd'[u] = NoUpdate
      BY <1>0, <3>1 DEF Used, Crash, UpdTyped
    <3> QED
      BY <1>1, <3>2
  <2>4. ASSUME \/ \E v \in Updaters : StoreStep(v)
               \/ Dashboard \/ Tick \/ UNCHANGED vars
        PROVE  req' = req
    BY <2>4 DEF StoreStep, ReadState, OpenFile, PutFile, Dashboard, Toggle, Toggled,
                ClearCooldown, ClearListed, Cleared, Tick, vars
  <2> QED
    BY <2>1, <2>2, <2>3, <2>4 DEF Next
<1>3. ASSUME NEW r \in Requests, Use(r), u = r PROVE req'[u].pc = "use"
  <2>1. CASE upd' = upd
    BY <2>1, <1>3 DEF Use, Owned
  <2>2. CASE req' = [req EXCEPT ![r].pc = "use"]
    BY <1>0, <1>3, <2>2 DEF ReqTyped, Request
  <2> QED
    BY <1>3, <2>1, <2>2 DEF Use
<1>4. ASSUME NEW r \in Requests, Settle(r), u = r PROVE FALSE
  <2>1. upd[r].pc = "none"
    BY <1>4 DEF Settle, Owned
  <2> DEFINE p == IF req[r].pc = "mark" THEN Lock(file.conns[req[r].conn], Model(req[r]), req[r].error)
                  ELSE Unlock(file.conns[req[r].conn], Model(req[r]))
  <2>2. upd'[r] = upd[r] \/ upd'[r] = Started(req[r].conn, p)
    BY <1>0, <1>4 DEF Settle, UpdTyped
  <2>3. p.used = -1
    BY <1>4, SettlePatch DEF Settle
  <2> QED
    BY <1>1, <1>4, <2>1, <2>2, <2>3
<1>5. ASSUME NEW r \in Requests, Used(r) \/ Settled(r) \/ Crash(r), u = r PROVE FALSE
  BY <1>0, <1>1, <1>5, SMTT(30) DEF Used, Settled, Crash, UpdTyped
<1>6. ASSUME NEW r \in Requests, Begin(r) \/ Select(r) \/ Succeed(r) \/ Fail(r) \/ Abort(r)
      PROVE  upd' = upd
  BY <1>6 DEF Begin, Select, Succeed, Fail, Abort
<1>7. ASSUME NEW r \in Requests, Use(r) \/ Used(r) \/ Settle(r) \/ Settled(r) \/ Crash(r), u # r
      PROVE  upd'[u] = upd[u]
  BY <1>0, <1>7 DEF Use, Used, Settle, Settled, Crash, UpdTyped
<1>8. ASSUME NEW v \in Updaters, StoreStep(v)
      PROVE  upd[u].pc \in {"read", "write", "put"} /\ upd'[u].patch = upd[u].patch
  <2>1. CASE ReadState(v)
    BY <1>0, <1>u, <2>1 DEF ReadState, UpdTyped, Update, NoUpdate
  <2>2. CASE OpenFile(v)
    BY <1>0, <1>u, <2>2 DEF OpenFile, UpdTyped, Update
  <2>3. CASE PutFile(v)
    BY <1>0, <1>u, <2>3 DEF PutFile, UpdTyped, Update, NoUpdate
  <2> QED
    BY <1>8, <2>1, <2>2, <2>3 DEF StoreStep
<1>9. ASSUME Dashboard
      PROVE  upd'[u] = upd[u]
  <2>1. ASSUME NEW c \in Conns, Toggle(c) \/ Toggled(c) PROVE upd'[u] = upd[u]
    <3>1. \A a : [NoPatch EXCEPT !.active = a].used = -1
      BY DEF NoPatch
    <3>2. \/ upd' = [upd EXCEPT ![c] = NoUpdate]
          \/ \E a : upd' = [upd EXCEPT ![c] = Started(c, [NoPatch EXCEPT !.active = a])]
      BY <2>1 DEF Toggle, Toggled
    <3>3. u = c => upd'[u] = NoUpdate \/ \E p : p.used = -1 /\ upd'[u] = Started(c, p)
      BY <1>0, <3>1, <3>2 DEF UpdTyped
    <3>4. u # c => upd'[u] = upd[u]
      BY <1>0, <3>2 DEF UpdTyped
    <3> QED
      BY <1>1, <3>3, <3>4
  <2>2. CASE ClearCooldown
    BY <2>2 DEF ClearCooldown
  <2>3. CASE ClearListed
    <3>1. upd'[u] = upd[u] \/ upd'[u] = Started(u, Unlocking)
      BY <2>3 DEF ClearListed
    <3> QED
      BY <1>0, <1>1, <3>1, UnlockingType
  <2>4. CASE Cleared
    <3>1. upd'[u] = upd[u] \/ upd'[u] = NoUpdate
      BY <2>4 DEF Cleared
    <3> QED
      BY <1>1, <3>1
  <2> QED
    BY <1>9, <2>1, <2>2, <2>3, <2>4 DEF Dashboard
<1>10. ASSUME Tick \/ UNCHANGED vars PROVE upd' = upd
  BY <1>10 DEF Tick, vars
<1> QED
  BY <1>2, <1>3, <1>4, <1>5, <1>6, <1>7, <1>8, <1>9, <1>10 DEF Next, RequestStep

\* The choice of a connection: the one used last goes on until its limit, or another
\* one takes its place.
LEMMA SelectStreaks ==
    ASSUME Typed, Steady, Steady', Streaks, NEW r \in Requests, Select(r),
           req'[r].pc = "chosen"
    PROVE  Streaks'
<1>0. ReqTyped /\ UpdTyped /\ file \in File /\ log \in Log
  BY TypedParts
<1> DEFINE S == Available(file.conns, Model(req[r]))
           chosen == Selected(file.conns, S)
           uncounted == Cardinality(S) = 1 \/ chosen.count = 0
<1>1. /\ S # {} /\ req[r].pc = "select" /\ file' = file /\ upd' = upd
      /\ req' = [req EXCEPT ![r].conn = chosen.conn, ![r].count = chosen.count, ![r].pc = "chosen"]
      /\ log' = [log EXCEPT
                 !.breach = @ \/ chosen.conn \in log.off
                              \/ log.until[chosen.conn][Model(req[r])] > now,
                 !.stale = @ \/ \E q \in Requests : req[q].pc \in {"chosen", "use"},
                 !.last = IF uncounted THEN 0 ELSE chosen.conn,
                 !.streak = CASE uncounted -> 0
                              [] ~uncounted /\ log.last = chosen.conn -> @ + 1
                              [] OTHER -> 1]
  <2>1. NextRoute(req[r]).pc # "chosen" /\ NoRequest.pc # "chosen"
    BY DEF NextRoute, NoRequest
  <2>2. req' # [req EXCEPT ![r] = NextRoute(@)] /\ req' # [req EXCEPT ![r] = NoRequest]
    BY <1>0, <2>1 DEF ReqTyped
  <2> QED
    BY <2>2 DEF Select
<1>2. /\ log'.stale = (log.stale \/ \E q \in Requests : req[q].pc \in {"chosen", "use"})
      /\ log'.last = IF uncounted THEN 0 ELSE chosen.conn
      /\ log'.streak = IF uncounted THEN 0
                       ELSE IF log.last = chosen.conn THEN log.streak + 1 ELSE 1
      /\ log'.uses = log.uses
  <2> HIDE DEF uncounted, chosen, S
  <2> QED
    BY <1>0, <1>1 DEF Log
<1>3. \A q \in Requests : req[q].pc \notin {"chosen", "use"}
  BY <1>2 DEF Steady
<1>4. S \subseteq Conns /\ chosen.conn \in S /\ chosen.count \in Nat
  BY <1>1, SelectChoice
<1>5. /\ req'[r].pc = "chosen" /\ req'[r].conn = chosen.conn /\ req'[r].count = chosen.count
      /\ \A q \in Requests : q # r => req'[q] = req[q]
  <2> HIDE DEF chosen
  <2> QED
    BY <1>0, <1>1 DEF ReqTyped, Request
<1> HIDE DEF S
<1>6. file.conns \in [Conns -> Connection] /\ log.last \in Conns \cup {0} /\ log.streak \in Nat
      /\ StickyLimit \in Nat \ {0}
  BY <1>0, ConnectionsAssumption DEF File, Log
<1>7. log.last # 0 =>
        /\ file.conns[log.last].count >= log.streak
        /\ \A d \in Conns \ {log.last} : file.conns[d].used < file.conns[log.last].used
  BY <1>3 DEF Streaks, Saving
<1>8. chosen.count > 0
      /\ (~uncounted /\ log.last = chosen.conn =>
              log.streak + 1 <= chosen.count /\ log.streak + 1 <= StickyLimit)
  <2> DEFINE recent == MostRecent(file.conns, S)
  <2>1. budget.strategy # "fill-first"
    BY DEF Steady
  <2>2. recent \in S /\ recent \in Conns /\ file.conns[recent].count \in Nat
    BY <1>1, <1>4, <1>6, RecentChosen DEF S, Connection
  <2>3. CASE Sticky(file.conns, recent)
    <3>1. chosen = [conn |-> recent, count |-> file.conns[recent].count + 1]
      BY <2>1, <2>3 DEF Selected
    <3>2. file.conns[recent].count < StickyLimit
      BY <2>3 DEF Sticky
    <3>3. recent # 0
      BY <2>2, ConnectionsAssumption
    <3> HIDE DEF recent, chosen
    <3> QED
      BY <1>6, <1>7, <2>2, <3>1, <3>2, <3>3
  <2>4. CASE ~Sticky(file.conns, recent)
    <3>1. chosen = [conn |-> Oldest(file.conns, S), count |-> 1]
      BY <2>1, <2>4 DEF Selected
    <3>2. ASSUME ~uncounted, log.last = chosen.conn PROVE FALSE
      <4>1. Cardinality(S) # 1 /\ log.last = Oldest(file.conns, S)
        BY <3>1, <3>2
      <4>2. log.last \in Conns /\ log.last # 0
        BY <1>4, <3>2, ConnectionsAssumption
      <4> QED
        BY <1>1, <1>4, <1>6, <1>7, <4>1, <4>2, OldestIsAnother DEF S
    <3> QED
      BY <3>1, <3>2
  <2> QED
    BY <2>3, <2>4
<1> HIDE DEF chosen, uncounted
<1>9. /\ log'.streak <= StickyLimit
      /\ log'.last = 0 => log'.streak = 0
      /\ chosen.count >= log'.streak /\ log'.last \in {0, chosen.conn}
  <2>1. chosen.conn # 0
    BY <1>4, ConnectionsAssumption
  <2> QED
    BY <1>2, <1>4, <1>6, <1>8, <2>1
<1>10. \A c \in Conns : file'.conns[c].used <= log'.uses
  BY <1>1, <1>2 DEF Streaks
<1>11. \A q \in Requests : (Chosen(q)' <=> q = r) /\ req'[q].pc # "use"
  BY <1>3, <1>5 DEF Chosen
<1>12. Saving(r)'
  BY <1>5 DEF Saving
<1> QED
  BY <1>5, <1>8, <1>9, <1>10, <1>11, <1>12 DEF Streaks

\* A use is numbered when the update that saves it begins.
LEMMA UseStreaks ==
    ASSUME Typed, Steady, Steady', Streaks, NEW r \in Requests, Use(r)
    PROVE  Streaks'
<1>0. ReqTyped /\ UpdTyped /\ file \in File /\ log \in Log
  BY TypedParts
<1>1. req[r].count > 0 /\ req[r].pc = "chosen"
  BY DEF Use, Streaks, Chosen
<1>2. ~log'.unread
  BY DEF Steady
<1>3. /\ file' = file /\ req' = [req EXCEPT ![r].pc = "use"]
      /\ upd' = [upd EXCEPT ![r] = Started(req[r].conn,
                        [NoPatch EXCEPT !.used = log.uses + 1, !.count = req[r].count])]
      /\ log' = [log EXCEPT !.uses = @ + 1]
  <2>1. log' # [log EXCEPT !.unread = TRUE]
    BY <1>0, <1>2 DEF Log
  <2>2. req[r].count # 0
    BY <1>1
  <2> QED
    BY <2>1, <2>2 DEF Use
<1>4. /\ log'.uses = log.uses + 1 /\ log'.last = log.last /\ log'.streak = log.streak
      /\ log.uses \in Nat
  BY <1>0, <1>3 DEF Log
<1>5. /\ req'[r].pc = "use" /\ req'[r].count = req[r].count /\ req'[r].conn = req[r].conn
      /\ \A q \in Requests : q # r => req'[q] = req[q]
  BY <1>0, <1>3 DEF ReqTyped, Request
<1>6. /\ upd'[r].pc = "read" /\ upd'[r].patch.used = log.uses + 1
      /\ upd'[r].patch.count = req[r].count /\ upd'[r].conn = req[r].conn
      /\ \A u \in Updaters : u # r => upd'[u] = upd[u]
  BY <1>0, <1>3 DEF UpdTyped, Started, NoUpdate, NoPatch
<1>7. \A c \in Conns : file.conns[c].used \in Nat /\ file.conns[c].used <= log.uses
  BY <1>0 DEF File, Connection, Streaks
<1>8. \A q \in Requests : Chosen(q) <=> q = r
  BY <1>1 DEF Streaks, Chosen
<1>9. \A q \in Requests : /\ Chosen(q)' <=> q = r
                          /\ req'[q].pc = "use" => q = r
  BY <1>5, <1>8 DEF Chosen
<1>10. Saving(r)'
  BY <1>5, <1>6 DEF Saving
<1>11. \A c \in Conns : file'.conns[c].used < log'.uses /\ file'.conns[c].used <= log'.uses
  BY <1>3, <1>4, <1>7
<1>12. /\ req'[r].count > 0 /\ req'[r].count >= log'.streak /\ log'.last \in {0, req'[r].conn}
       /\ log'.streak <= StickyLimit /\ (log'.last = 0 => log'.streak = 0)
  BY <1>4, <1>5, <1>8 DEF Streaks
<1> QED
  BY <1>4, <1>5, <1>6, <1>9, <1>10, <1>11, <1>12 DEF Streaks

\* The use is in the file when its request goes on.
LEMMA UsedStreaks ==
    ASSUME Typed, Steady, Steady', FailedUnread, Streaks, NEW r \in Requests, Used(r)
    PROVE  Streaks'
<1>0. ReqTyped /\ UpdTyped /\ log \in Log
  BY TypedParts
<1>1. upd[r].pc = "done" /\ req[r].pc = "use"
  BY DEF Used, FailedUnread, Steady
<1>2. /\ file' = file /\ log' = log /\ req'[r].pc = "sent"
      /\ \A q \in Requests : q # r => req'[q] = req[q] /\ upd'[q] = upd[q]
  BY <1>0, <1>1 DEF Used, ReqTyped, UpdTyped, Request
<1>3. \A q \in Requests : Chosen(q) <=> q = r
  BY <1>1 DEF Streaks, Chosen
<1>4. \A q \in Requests : ~Saving(q)
  BY <1>1, <1>3 DEF Saving, Chosen
<1>5. \A q \in Requests : ~Chosen(q)' /\ req'[q].pc # "use"
  BY <1>2, <1>3 DEF Chosen
<1> QED
  BY <1>2, <1>4, <1>5 DEF Streaks

\* Reading and opening the file do not change what it says; writing it saves a use, or
\* leaves the uses alone.
LEMMA StoreStreaks ==
    ASSUME Typed, Owned, Fresh, UseOnly, Steady, Steady', Streaks, NEW u \in Updaters, StoreStep(u)
    PROVE  Streaks'
<1>0. ReqTyped /\ UpdTyped /\ file \in File /\ log \in Log
  BY TypedParts
<1>u. upd[u] \in Update /\ UpdateOK(upd[u])
  BY <1>0 DEF UpdTyped
<1>1. CASE ReadState(u)
  <2>1. Readable
    <3>1. log'.unread = (log.unread \/ ~Readable)
      BY <1>0, <1>1 DEF ReadState, Log
    <3> QED
      BY <3>1 DEF Steady
  <2>2. /\ upd[u].pc = "read" /\ upd'[u].pc = "write" /\ upd'[u].patch = upd[u].patch
        /\ upd'[u].conn = upd[u].conn
        /\ \A v \in Updaters : v # u => upd'[v] = upd[v]
    BY <1>0, <1>1, <1>u, <2>1 DEF ReadState, UpdTyped, Update
  <2>3. /\ log'.uses = log.uses /\ log'.last = log.last /\ log'.streak = log.streak
        /\ file' = file /\ req' = req
    BY <1>0, <1>1 DEF ReadState, Log
  <2>4. Apart
    BY <2>2, <2>3 DEF Apart
  <2> QED
    BY <2>4, ApartKeeps
<1>2. CASE OpenFile(u)
  <2>1. /\ upd[u].pc = "write" /\ upd'[u].pc = "put" /\ upd'[u].patch = upd[u].patch
        /\ upd'[u].conn = upd[u].conn
        /\ \A v \in Updaters : v # u => upd'[v] = upd[v]
    BY <1>0, <1>2, <1>u DEF OpenFile, UpdTyped, Update
  <2>2. log' = log /\ file'.conns = file.conns /\ req' = req
    BY <1>0, <1>2 DEF OpenFile, File
  <2>3. Apart
    BY <2>1, <2>2 DEF Apart
  <2> QED
    BY <2>3, ApartKeeps
<1>3. CASE PutFile(u)
  <2> DEFINE c == upd[u].conn
             p == upd[u].patch
  <2>1. /\ upd[u].pc = "put" /\ req' = req /\ upd'[u].pc = "done"
        /\ \A v \in Updaters : v # u => /\ upd'[v].pc = upd[v].pc /\ upd'[v].patch = upd[v].patch
                                        /\ upd'[v].conn = upd[v].conn
    BY <1>0, <1>3 DEF PutFile, UpdTyped, Update, NoUpdate
  <2>2. /\ log'.uses = log.uses /\ log'.last = log.last /\ log'.streak = log.streak
        /\ log'.raced = (log.raced \/ upd[u].overtaken) /\ log.uses \in Nat
    BY <1>0, <1>3 DEF PutFile, Log
  <2>3. upd[u].snapshot = file.conns
    BY <2>1, <2>2 DEF Fresh, Steady
  <2>4. c \in Conns /\ p \in Patch /\ file.conns \in [Conns -> Connection]
    BY <1>0, <1>u, <2>1 DEF UpdateOK, Update, File
  <2>5. file'.conns = [file.conns EXCEPT ![c] = Apply(@, p)]
    BY <1>3, <2>3 DEF PutFile
  <2>6. /\ \A d \in Conns : d # c => file'.conns[d] = file.conns[d]
        /\ file'.conns[c] = Apply(file.conns[c], p)
    BY <2>4, <2>5, SMTT(30)
  <2>7. CASE p.used = -1
    <3>1. \A d \in Conns : /\ file'.conns[d].used = file.conns[d].used
                           /\ file'.conns[d].count = file.conns[d].count
      BY <2>4, <2>6, <2>7 DEF Apply
    <3>2. u \in Requests => req[u].pc \notin {"chosen", "use"}
      <4>1. u \in Requests => req[u].pc # "use"
        BY <2>1, <2>2, <2>7 DEF Streaks
      <4>2. u \in Requests => req[u].pc # "chosen"
        BY <2>1 DEF Owned
      <4> QED
        BY <4>1, <4>2
    <3>3. Apart
      BY <2>1, <2>2, <3>1, <3>2 DEF Apart
    <3> QED
      BY <3>3, ApartKeeps
  <2>8. CASE p.used # -1
    <3>1. u \in Requests /\ req[u].pc = "use"
      BY <2>1, <2>8 DEF UseOnly
    <3>2. /\ p.used = log.uses /\ p.count = req[u].count /\ c = req[u].conn
          /\ \A d \in Conns : file.conns[d].used < log.uses
      BY <2>1, <3>1 DEF Streaks
    <3>3. /\ file'.conns[c].used = log.uses /\ file'.conns[c].count = req[u].count
          /\ \A d \in Conns : d # c => file'.conns[d].used < log.uses
      BY <2>6, <2>8, <3>2 DEF Apply
    <3>4. \A q \in Requests : Chosen(q) <=> q = u
      BY <3>1 DEF Streaks, Chosen
    <3>5. \A q \in Requests : (Chosen(q)' <=> q = u) /\ (req'[q].pc = "use" => q = u)
      BY <2>1, <3>4 DEF Chosen
    <3>6. /\ req[u].count > 0 /\ req[u].count >= log.streak /\ log.last \in {0, c}
          /\ log.streak <= StickyLimit /\ (log.last = 0 => log.streak = 0)
      <4>1. Chosen(u)
        BY <3>1, <3>4
      <4> QED
        BY <3>1, <3>2, <4>1 DEF Streaks
    <3>7. \A d \in Conns : file'.conns[d].used <= log'.uses
      <4>1. \A d \in Conns : file.conns[d].used \in Nat
        BY <2>4 DEF Connection
      <4> QED
        BY <2>2, <2>6, <3>2, <3>3, <4>1
    <3> HIDE DEF c, p
    <3> QED
      BY <2>1, <2>2, <3>3, <3>2, <3>5, <3>6, <3>7 DEF Streaks
  <2> QED
    BY <2>7, <2>8
<1> QED
  BY <1>1, <1>2, <1>3 DEF StoreStep

\* The other steps of requests are not about uses.
LEMMA RequestApart ==
    ASSUME Typed, NEW r \in Requests,
           \/ Begin(r) \/ Succeed(r) \/ Fail(r) \/ Abort(r) \/ Settle(r) \/ Settled(r)
           \/ Select(r) /\ req'[r].pc # "chosen"
    PROVE  Apart
<1>0. ReqTyped /\ UpdTyped /\ log \in Log
  BY TypedParts
<1>q. req[r] \in Request
  BY <1>0, SMTT(30) DEF ReqTyped
<1>1. file' = file
  BY DEF Begin, Succeed, Fail, Abort, Settle, Settled, Select
<1>2. log'.uses = log.uses /\ log'.last = log.last /\ log'.streak = log.streak
  <2>1. CASE Select(r) /\ req'[r].pc # "chosen"
    <3> DEFINE chosen == Selected(file.conns, Available(file.conns, Model(req[r])))
    <3>1. req' # [req EXCEPT ![r].conn = chosen.conn, ![r].count = chosen.count, ![r].pc = "chosen"]
      <4> HIDE DEF chosen
      <4> QED
        BY <1>0, <2>1, SMTT(30) DEF ReqTyped, Request
    <3>2. log' = log \/ log' = [log EXCEPT !.unread = @ \/ ~Readable]
      BY <2>1, <3>1, SMTT(30) DEF Select
    <3> QED
      BY <1>0, <3>2 DEF Log
  <2>2. CASE ~(Select(r) /\ req'[r].pc # "chosen")
    BY <1>0, <2>2, ZenonT(60) DEF Begin, Succeed, Fail, Abort, Settle, Settled, Log
  <2> QED
    BY <2>1, <2>2
<1>3. \A q \in Requests : q # r => req'[q] = req[q] /\ upd'[q] = upd[q]
  BY <1>0, ZenonT(60) DEF Begin, Succeed, Fail, Abort, Settle, Settled, Select, ReqTyped, UpdTyped
<1>4. req[r].pc \notin {"chosen", "use"}
  BY DEF Begin, Succeed, Fail, Abort, Settle, Settled, Select
<1>5. /\ NoRequest.pc = "idle" /\ NextRoute(req[r]).pc \in {"idle", "select"}
      /\ Ended(req[r]).pc \in {"idle", "select"} /\ Thrown(req[r]).pc \in {"idle", "mark"}
  BY <1>q DEF NoRequest, NextRoute, Ended, Thrown, Request
<1>6. req'[r].pc \notin {"chosen", "use"}
  <2>1. CASE Begin(r)
    BY <1>0, <2>1, ZenonT(60) DEF Begin, ReqTyped, NoRequest
  <2>2. CASE Succeed(r)
    BY <1>5, <1>q, <2>2, RequestEffects, ZenonT(60) DEF Request
  <2>3. CASE Fail(r)
    <3>1. ASSUME NEW e, NEW m, req'[r] = [req[r] EXCEPT !.pc = "mark", !.error = e, !.emitted = m]
          PROVE  req'[r].pc = "mark"
      BY <1>q, <3>1 DEF Request
    <3>2. \/ req'[r] = NextRoute(req[r])
          \/ \E e, m : req'[r] = [req[r] EXCEPT !.pc = "mark", !.error = e, !.emitted = m]
      BY <2>3, RequestEffects, Zenon
    <3>3. req'[r] = NextRoute(req[r]) \/ req'[r].pc = "mark"
      BY <3>1, <3>2
    <3> QED
      BY <1>5, <3>3
  <2>4. CASE Abort(r)
    <3>1. ASSUME NEW m, req'[r] = [req[r] EXCEPT !.pc = "mark", !.error = "transient",
                                                 !.emitted = m, !.aborted = TRUE]
          PROVE  req'[r].pc = "mark"
      BY <1>q, <3>1 DEF Request
    <3>2. req'[r] = NoRequest \/ req'[r].pc = "mark"
      BY <2>4, <3>1, RequestEffects
    <3> QED
      BY <1>5, <3>2
  <2>5. CASE Settle(r) \/ Settled(r)
    BY <1>0, <1>5, <1>q, <2>5 DEF Settle, Settled, ReqTyped, Request
  <2>6. CASE Select(r) /\ req'[r].pc # "chosen"
    <3>1. ASSUME NEW c, NEW n, req'[r] = [req[r] EXCEPT !.conn = c, !.count = n, !.pc = "chosen"]
          PROVE  FALSE
      BY <1>q, <2>6, <3>1 DEF Request
    <3>2. \/ req'[r] \in {NextRoute(req[r]), NoRequest}
          \/ \E c, n : req'[r] = [req[r] EXCEPT !.conn = c, !.count = n, !.pc = "chosen"]
      BY <2>6, RequestEffects, Zenon
    <3>3. req'[r] = NextRoute(req[r]) \/ req'[r] = NoRequest
      BY <3>1, <3>2
    <3> QED
      BY <1>5, <3>3
  <2> QED
    BY <2>1, <2>2, <2>3, <2>4, <2>5, <2>6
<1> QED
  BY <1>1, <1>2, <1>3, <1>4, <1>6 DEF Apart

\* Nor are those of the dashboard.
LEMMA DashboardApart ==
    ASSUME Typed, Dashboard \/ Tick
    PROVE  Apart
<1>0. UpdTyped /\ log \in Log
  BY TypedParts, SMTT(30)
<1>1. file' = file /\ req' = req
  BY ZenonT(60) DEF Dashboard, Toggle, Toggled, ClearCooldown, ClearListed, Cleared, Tick
<1>2. log'.uses = log.uses /\ log'.last = log.last /\ log'.streak = log.streak
  BY <1>0 DEF Dashboard, Toggle, Toggled, ClearCooldown, ClearListed, Cleared, Tick, Log
<1>3. \A q \in Requests : upd'[q] = upd[q]
  <2>1. ASSUME NEW c \in Conns, Toggle(c) \/ Toggled(c), NEW q \in Requests PROVE upd'[q] = upd[q]
    BY <1>0, <2>1, CallersDiffer DEF Toggle, Toggled, UpdTyped
  <2>2. ASSUME ClearListed, NEW q \in Requests PROVE upd'[q] = upd[q]
    BY <2>2, CallersDiffer DEF ClearListed
  <2>3. ASSUME Cleared, NEW q \in Requests PROVE upd'[q] = upd[q]
    <3>1. clear.of \subseteq Conns
      BY TypedParts DEF Clear
    <3> QED
      BY <2>3, <3>1, CallersDiffer DEF Cleared
  <2>4. CASE ClearCooldown \/ Tick
    BY <2>4 DEF ClearCooldown, Tick
  <2> QED
    BY <2>1, <2>2, <2>3, <2>4 DEF Dashboard
<1> QED
  BY <1>1, <1>2, <1>3 DEF Apart

LEMMA NextStreaks ==
    Typed /\ Owned /\ Fresh /\ FailedUnread /\ UseOnly /\ Streaks /\ [Next]_vars => Streaks'
<1> SUFFICES ASSUME Typed, Owned, Fresh, FailedUnread, UseOnly, Streaks, [Next]_vars, Steady'
             PROVE  Streaks'
  BY DEF Streaks
<1>1. Steady
  BY LogGrows, StrategyStays DEF Steady, Grows
<1>2. CASE UNCHANGED vars
  BY <1>2, ApartKeeps, <1>1 DEF vars, Apart
<1>3. ASSUME NEW r \in Requests, Begin(r) \/ RequestStep(r) PROVE Streaks'
  BY <1>1, <1>3, RequestApart, ApartKeeps, SelectStreaks, UseStreaks, UsedStreaks DEF RequestStep
<1>4. ASSUME NEW r \in Requests, Crash(r) PROVE Streaks'
  BY <1>4, CrashKept DEF Steady
<1>5. ASSUME NEW u \in Updaters, StoreStep(u) PROVE Streaks'
  BY <1>1, <1>5, StoreStreaks
<1>6. CASE Dashboard \/ Tick
  BY <1>1, <1>6, DashboardApart, ApartKeeps
<1> QED
  BY <1>2, <1>3, <1>4, <1>5, <1>6 DEF Next

LEMMA InitStreaks == Init => FailedUnread /\ UseOnly /\ Streaks
<1> SUFFICES ASSUME Init PROVE FailedUnread /\ UseOnly /\ Streaks
  OBVIOUS
<1>1. \A u \in Updaters : upd[u].pc = "none"
  BY DEF Init, NoUpdate
<1>2. \A r \in Requests : req[r].pc = "idle"
  BY DEF Init, NoRequest
<1>3. log.streak = 0 /\ log.last = 0 /\ log.uses = 0
  BY DEF Init
<1>4. \A c \in Conns : file.conns[c].used = 0
  BY DEF Init, FreshConnection
<1>5. FailedUnread /\ UseOnly
  BY <1>1 DEF FailedUnread, UseOnly
<1>6. Streaks
  BY <1>2, <1>3, <1>4, ConnectionsAssumption DEF Streaks, Chosen
<1> QED
  BY <1>5, <1>6

\* Round robin never gives a connection more than StickyLimit requests in a row while
\* another one is available, for any number of connections and any limit, as long as
\* each use is saved before the next choice: the count in the file is never behind the
\* streak, and a connection at its limit is the one used last, which the choice of
\* the oldest use passes over (selectProviderConnection).
THEOREM StickyLimitHolds == Spec => []StickyBound
<1>1. Streaks => StickyBound
  BY DEF Streaks, Steady, StickyBound
<1> QED
  BY <1>1, InitTyped, InitKept, InitStreaks, NextTyped, NextKept, NextFailed, NextUseOnly,
     NextStreaks, PTL DEF Spec
=============================================================================
