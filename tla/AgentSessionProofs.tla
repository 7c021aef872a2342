------------------------- MODULE AgentSessionProofs -------------------------
(***************************************************************************)
(* Proofs about AgentSession, for any callers, any number of retries and   *)
(* any budgets.                                                            *)
(*                                                                         *)
(* A step is a step of one call of prompt() or stands apart from the calls.*)
(* One that goes on after a run is first named for what it does (Resume,   *)
(* Landed, PostRetry, PostCompact, Summarize), so that each lemma below has*)
(* one case for each.  The structure of the states comes first; what holds *)
(* of retries, requests, tool results, the file and the messages handed    *)
(* over is then shown on top of it.  Induction over a transcript is by the *)
(* least place at which it would fail.                                     *)
(***************************************************************************)
EXTENDS AgentSession, FiniteSetTheorems, SequenceTheorems, TLAPS

-----------------------------------------------------------------------------
(* Sequences, and what a compaction makes of one                           *)

\* A sequence is its front and its last message.
LEMMA LastFront ==
    ASSUME NEW s \in Seq(Message), s # <<>>
    PROVE  /\ Last(s) = s[Len(s)] /\ Last(s) \in Message
           /\ Front(s) \in Seq(Message) /\ Len(Front(s)) = Len(s) - 1
           /\ \A k \in 1 .. Len(s) - 1 : Front(s)[k] = s[k]
           /\ s = Append(Front(s), Last(s))
<1>1. PICK n \in Nat : n # 0 /\ Len(s) = n
  OBVIOUS
<1>2. Last(s) = s[n] /\ Last(s) \in Message
  BY <1>1 DEF Last
<1>3. Front(s) = SubSeq(s, 1, n - 1)
  BY <1>1 DEF Front
<1>4. Front(s) \in Seq(Message)
  BY <1>1, <1>3
<1>5. Len(Front(s)) = n - 1
  BY <1>1, <1>3
<1>6. \A k \in 1 .. n - 1 : Front(s)[k] = s[k]
  BY <1>1, <1>3
<1>7. s = Append(Front(s), Last(s))
  BY <1>1, <1>2, <1>4, <1>5, <1>6
<1> QED
  BY <1>1, <1>2, <1>4, <1>5, <1>6, <1>7

LEMMA AppendLast ==
    ASSUME NEW s \in Seq(Message), NEW m \in Message
    PROVE  /\ Append(s, m) \in Seq(Message) /\ Append(s, m) # <<>>
           /\ Last(Append(s, m)) = m /\ Front(Append(s, m)) = s
           /\ WithoutLast(Append(s, m)) = IF m.role = "assistant" THEN s ELSE Append(s, m)
<1>0. Append(s, m) \in Seq(Message)
  OBVIOUS
<1>1. Append(s, m) # <<>>
  <2>1. Len(Append(s, m)) = Len(s) + 1 /\ Len(s) \in Nat
    OBVIOUS
  <2> QED
    BY <2>1
<1>2. Last(Append(s, m)) = m /\ Front(Append(s, m)) = s
  BY DEF Front, Last
<1> QED
  BY <1>0, <1>1, <1>2 DEF WithoutLast

LEMMA ConcatLast ==
    ASSUME NEW s \in Seq(Message), NEW t \in Seq(Message)
    PROVE  /\ s \o t \in Seq(Message)
           /\ t # <<>> => s \o t # <<>> /\ Last(s \o t) = Last(t)
           /\ t = <<>> => s \o t = s
           /\ s # <<>> => s \o t # <<>> /\ (s \o t)[1] = s[1]
           /\ s = <<>> => s \o t = t
  BY DEF Last

\* What is left when the last response is taken out of the context.
LEMMA WithoutLastFacts ==
    ASSUME NEW s \in Seq(Message)
    PROVE  /\ WithoutLast(s) \in Seq(Message)
           /\ WithoutLast(s) = s \/ (s # <<>> /\ Last(s).role = "assistant" /\ s = Append(WithoutLast(s), Last(s)))
           /\ s # <<>> /\ s[1].role # "assistant" => WithoutLast(s) # <<>> /\ WithoutLast(s)[1] = s[1]
<1>1. CASE s # <<>> /\ Last(s).role = "assistant"
  <2>1. WithoutLast(s) = Front(s)
    BY <1>1 DEF WithoutLast
  <2>2. Front(s) \in Seq(Message) /\ s = Append(Front(s), Last(s))
    BY <1>1, LastFront
  <2>3. ASSUME s[1].role # "assistant" PROVE WithoutLast(s) # <<>> /\ WithoutLast(s)[1] = s[1]
    <3>0. PICK n \in Nat : n # 0 /\ Len(s) = n
      BY <1>1
    <3>1. n # 1
      BY <1>1, <2>3, <3>0 DEF Last
    <3>2. Front(s) = SubSeq(s, 1, n - 1)
      BY <3>0 DEF Front
    <3>3. n - 1 >= 1
      BY <3>0, <3>1
    <3>4. Len(SubSeq(s, 1, n - 1)) = n - 1 /\ SubSeq(s, 1, n - 1)[1] = s[1]
      BY <3>0, <3>3
    <3>5. SubSeq(s, 1, n - 1) # <<>>
      BY <3>0, <3>3, <3>4
    <3>6. WithoutLast(s) = SubSeq(s, 1, n - 1)
      BY <2>1, <3>2
    <3> QED
      BY <3>4, <3>5, <3>6
  <2> QED
    BY <1>1, <2>1, <2>2, <2>3
<1>2. CASE ~(s # <<>> /\ Last(s).role = "assistant")
  BY <1>2 DEF WithoutLast
<1> QED
  BY <1>1, <1>2

\* Where the messages of a concatenation are.
LEMMA ConcatIs ==
    ASSUME NEW s \in Seq(Message), NEW t \in Seq(Message), NEW n \in Nat, NEW l \in Nat,
           Len(s) = n, Len(t) = l
    PROVE  /\ s \o t \in Seq(Message) /\ Len(s \o t) = n + l
           /\ \A i \in 1 .. n : (s \o t)[i] = s[i]
           /\ \A i \in 1 .. l : (s \o t)[n + i] = t[i]
<1>1. s \o t \in Seq(Message) /\ Len(s \o t) = n + l
  OBVIOUS
<1>2. \A i \in 1 .. n : (s \o t)[i] = s[i]
  OBVIOUS
<1>3. \A i \in 1 .. l : (s \o t)[n + i] = t[i]
  OBVIOUS
<1> QED
  BY <1>1, <1>2, <1>3

\* A finite set of integers that is not empty has a maximum.
LEMMA MaxExists ==
    ASSUME NEW S \in SUBSET Int, IsFiniteSet(S), S # {}
    PROVE  Max(S) \in S /\ \A y \in S : y <= Max(S)
<1> DEFINE Above(x) == {y \in S : y > x}
           B == {Above(x) : x \in S}
<1>1. IsWellFoundedOn(StrictSubsetOrdering(S), SUBSET S)
  BY FS_StrictSubsetOrderingWellFounded, FS_FiniteSubsetsOfFinite, Zenon
<1>2. B \subseteq SUBSET S /\ B # {}
  OBVIOUS
<1>3. PICK T \in B : \A U \in B : <<U, T>> \notin StrictSubsetOrdering(S)
  <2> HIDE DEF B
  <2> QED
    BY <1>1, <1>2, WFMin, Zenon
<1>4. PICK x \in S : T = Above(x)
  BY <1>3
<1>5. ASSUME NEW y \in S, y > x PROVE FALSE
  <2>1. Above(y) \in B
    OBVIOUS
  <2>2. Above(y) \subseteq Above(x) /\ y \in Above(x) /\ y \notin Above(y)
    <3>1. x \in Int /\ y \in Int
      OBVIOUS
    <3>2. ASSUME NEW z \in S, z > y PROVE z > x
      <4>1. z \in Int
        OBVIOUS
      <4> QED
        BY <1>5, <3>1, <3>2, <4>1
    <3>3. ~(y > y)
      BY <3>1
    <3> QED
      BY <1>5, <3>2, <3>3
  <2>3. <<Above(y), T>> \in StrictSubsetOrdering(S)
    BY <1>4, <2>2 DEF StrictSubsetOrdering
  <2> QED
    BY <1>3, <2>1, <2>3
<1>6. \A y \in S : x >= y
  BY <1>5
<1> QED
  BY <1>6 DEF Max

\* The last compaction of a session.
LEMMA CompactedIs ==
    ASSUME NEW s \in Seq(Message)
    PROVE  /\ Compacted(s) \in 0 .. Len(s)
           /\ Compacted(s) # 0 => s[Compacted(s)].role = "compaction"
           /\ \A k \in DOMAIN s : s[k].role = "compaction" => k <= Compacted(s)
<1> DEFINE C == {0} \cup {k \in DOMAIN s : s[k].role = "compaction"}
<1>1. PICK n \in Nat : Len(s) = n /\ DOMAIN s = 1 .. n
  OBVIOUS
<1>2. IsFiniteSet(0 .. n)
  BY FS_Interval
<1>3. C \in SUBSET (0 .. n) /\ C # {}
  BY <1>1
<1>4. IsFiniteSet(C) /\ C \in SUBSET Int
  <2>1. IsFiniteSet(C)
    <3> HIDE DEF C
    <3> QED
      BY <1>2, <1>3, FS_Subset, Zenon
  <2> QED
    BY <1>3, <2>1
<1>5. Max(C) \in C /\ \A y \in C : y <= Max(C)
  <2> HIDE DEF C
  <2> QED
    BY <1>3, <1>4, MaxExists
<1>6. Compacted(s) = Max(C)
  BY DEF Compacted
<1> DEFINE m == Compacted(s)
<1>7. m \in C /\ \A y \in C : y <= m
  BY <1>5, <1>6
<1> QED
  BY <1>1, <1>7

\* It is the only number of that kind.
LEMMA CompactedUnique ==
    ASSUME NEW s \in Seq(Message), NEW m \in 0 .. Len(s),
           m # 0 => s[m].role = "compaction",
           \A k \in DOMAIN s : s[k].role = "compaction" => k <= m
    PROVE  Compacted(s) = m
<1>1. PICK n \in Nat : Len(s) = n /\ DOMAIN s = 1 .. n
  OBVIOUS
<1>2. PICK c \in 0 .. n : Compacted(s) = c
  BY <1>1, CompactedIs
<1>3. c # 0 => s[c].role = "compaction"
  BY <1>2, CompactedIs
<1>4. \A k \in DOMAIN s : s[k].role = "compaction" => k <= c
  BY <1>2, CompactedIs
<1>5. c # 0 => c <= m
  BY <1>1, <1>2, <1>3
<1>6. m # 0 => m <= c
  BY <1>1, <1>2, <1>4
<1> QED
  BY <1>1, <1>2, <1>5, <1>6

\* The context after a compaction that keeps the entries from k on.
LEMMA BuildLanded ==
    ASSUME NEW e \in Seq(Message), NEW n \in Nat, Len(e) = n, NEW k \in 1 .. n, NEW c \in Message,
           c.role = "compaction", c.n = k, NEW b, b = Build(Append(e, c))
    PROVE  /\ b \in Seq(Message) /\ Len(b) = n - k + 2 /\ b[1] = c
           /\ \A i \in 2 .. n - k + 2 : b[i] = e[k + i - 2]
<1> DEFINE a == Append(e, c)
<1>1. a \in Seq(Message) /\ Len(a) = n + 1 /\ a[n + 1] = c /\ \A i \in 1 .. n : a[i] = e[i]
  OBVIOUS
<1>2. DOMAIN a = 1 .. n + 1
  BY <1>1
<1>3. Compacted(a) = n + 1
  <2> HIDE DEF a
  <2> QED
    BY <1>1, <1>2, CompactedUnique
<1>a. b = Build(a)
  OBVIOUS
<1> HIDE DEF a
<1>4. b = <<a[n + 1]>> \o SubSeq(a, a[n + 1].n, (n + 1) - 1) \o SubSeq(a, (n + 1) + 1, Len(a))
  <2>1. PICK q \in Nat : q = n + 1 /\ q # 0
    OBVIOUS
  <2>2. b = <<a[q]>> \o SubSeq(a, a[q].n, q - 1) \o SubSeq(a, q + 1, Len(a))
    <3>1. Compacted(a) = q
      BY <1>3, <2>1
    <3> QED
      BY <1>a, <2>1, <3>1, Zenon DEF Build
  <2> QED
    BY <2>1, <2>2
<1>5. SubSeq(a, (n + 1) + 1, Len(a)) = <<>>
  BY <1>1
<1> DEFINE d == SubSeq(a, k, n)
<1>6. d \in Seq(Message)
  BY <1>1
<1>7. Len(d) = n - k + 1
  BY <1>1
<1>8. \A i \in 1 .. n - k + 1 : d[i] = e[k + i - 1]
  <2> SUFFICES ASSUME NEW i \in 1 .. n - k + 1 PROVE d[i] = e[k + i - 1]
    OBVIOUS
  <2>1. d[i] = a[k + i - 1]
    BY <1>1
  <2>2. k + i - 1 \in 1 .. n
    OBVIOUS
  <2> QED
    BY <1>1, <2>1, <2>2
<1>9. b = <<c>> \o d
  <2>1. (n + 1) - 1 = n
    OBVIOUS
  <2>2. b = <<c>> \o d \o <<>>
    BY <1>1, <1>4, <1>5, <2>1
  <2>3. <<c>> \o d \in Seq(Message)
    <3> HIDE DEF d
    <3> QED
      BY <1>6
  <2> HIDE DEF d
  <2> QED
    BY <2>2, <2>3
<1> HIDE DEF d
<1>10. b \in Seq(Message)
  BY <1>6, <1>9
<1>11. Len(b) = n - k + 2
  <2>1. PICK j \in Nat : j = n - k + 1
    OBVIOUS
  <2>2. Len(<<c>>) = 1 /\ <<c>> \in Seq(Message)
    OBVIOUS
  <2>3. Len(b) = 1 + j
    <3>1. Len(d) = j
      BY <1>7, <2>1
    <3> QED
      BY <1>6, <1>9, <2>2, <3>1, ConcatIs
  <2> QED
    BY <2>1, <2>3
<1>12. b[1] = c
  BY <1>6, <1>9
<1>13. ASSUME NEW i \in 2 .. n - k + 2 PROVE b[i] = e[k + i - 2]
  <2>1. PICK j \in 1 .. n - k + 1 : i = j + 1
    BY <1>13
  <2>2. b[j + 1] = d[j]
    BY <1>6, <1>7, <1>9, <2>1
  <2>3. d[j] = e[k + j - 1]
    BY <1>8, <2>1
  <2>4. k + j - 1 = k + i - 2
    BY <2>1
  <2> QED
    BY <2>1, <2>2, <2>3, <2>4
<1> QED
  BY <1>10, <1>11, <1>12, <1>13

LEMMA Assoc ==
    ASSUME NEW x \in Seq(Message), NEW y \in Seq(Message), NEW z \in Seq(Message)
    PROVE  (x \o y) \o z = x \o (y \o z)
  OBVIOUS

\* Messages said after the last compaction are at the end of the context.
LEMMA BuildConcat ==
    ASSUME NEW e \in Seq(Message), NEW ms \in Seq(Message),
           \A k \in DOMAIN ms : ms[k].role # "compaction",
           Compacted(e) # 0 => e[Compacted(e)].n \in 1 .. Compacted(e)
    PROVE  /\ Compacted(e \o ms) = Compacted(e)
           /\ Build(e) \in Seq(Message)
           /\ Build(e \o ms) = Build(e) \o ms
<1>1. PICK n \in Nat : Len(e) = n /\ DOMAIN e = 1 .. n
  OBVIOUS
<1>2. PICK l \in Nat : Len(ms) = l /\ DOMAIN ms = 1 .. l
  OBVIOUS
<1>3. PICK p \in 0 .. n : Compacted(e) = p
  BY <1>1, CompactedIs
<1> DEFINE a == e \o ms
<1>4. a \in Seq(Message)
  OBVIOUS
<1>5. Len(a) = n + l /\ (\A i \in 1 .. n : a[i] = e[i]) /\ (\A i \in 1 .. l : a[n + i] = ms[i])
  BY <1>1, <1>2
<1> HIDE DEF a
<1>6. DOMAIN a = 1 .. n + l
  BY <1>4, <1>5
<1>7. Compacted(a) = p
  <2>1. p \in 0 .. n + l
    BY <1>3
  <2>2. p # 0 => a[p].role = "compaction"
    BY <1>3, <1>5, CompactedIs
  <2>3. ASSUME NEW k \in DOMAIN a, a[k].role = "compaction" PROVE k <= p
    <3>1. CASE k \in 1 .. n
      BY <1>1, <1>3, <1>5, <2>3, <3>1, CompactedIs
    <3>2. CASE k \notin 1 .. n
      <4>1. PICK i \in 1 .. l : k = n + i
        BY <1>6, <2>3, <3>2
      <4> QED
        BY <1>2, <1>5, <2>3, <4>1
    <3> QED
      BY <3>1, <3>2
  <2> QED
    BY <1>4, <1>5, <2>1, <2>2, <2>3, CompactedUnique
<1>8. CASE p = 0
  BY <1>3, <1>7, <1>8 DEF Build, a
<1>9. CASE p # 0
  <2> DEFINE h == <<e[p]>>
             d == SubSeq(e, e[p].n, p - 1)
             r == SubSeq(e, p + 1, n)
  <2>1. e[p] \in Message /\ a[p] = e[p] /\ e[p].n \in 1 .. p
    BY <1>1, <1>3, <1>5, <1>9
  <2>2. PICK k \in 1 .. p : e[p].n = k
    BY <2>1
  <2>3. h \in Seq(Message)
    BY <2>1
  <2>4. d \in Seq(Message)
    BY <1>1, <2>2
  <2>5. r \in Seq(Message)
    BY <1>1
  <2>6. SubSeq(a, a[p].n, p - 1) = d
    <3>1. \A i \in k .. p - 1 : a[i] = e[i]
      BY <1>5
    <3> QED
      BY <1>1, <1>4, <1>5, <2>1, <2>2, <3>1
  <2>7. SubSeq(a, p + 1, n + l) = r \o ms
    <3> DEFINE x == SubSeq(a, p + 1, n + l)
               y == r \o ms
    <3>1. x \in Seq(Message)
      BY <1>4, <1>5
    <3>2. Len(x) = n + l - p
      BY <1>4, <1>5
    <3>3. \A i \in 1 .. n + l - p : x[i] = a[p + i]
      BY <1>4, <1>5
    <3>4. Len(r) = n - p /\ \A i \in 1 .. n - p : r[i] = e[p + i]
      BY <1>1
    <3> HIDE DEF r, x
    <3>4a. PICK j \in Nat : j = n - p
      OBVIOUS
    <3>5a. y \in Seq(Message)
      BY <2>5
    <3>4b. Len(r) = j
      BY <3>4, <3>4a
    <3>5b. Len(y) = j + l
      BY <1>2, <2>5, <3>4b, ConcatIs, SMTT(30)
    <3>5. y \in Seq(Message) /\ Len(y) = n + l - p
      BY <3>4a, <3>5a, <3>5b
    <3>6. ASSUME NEW i \in 1 .. n + l - p PROVE x[i] = y[i]
      <4>1. CASE i \in 1 .. n - p
        BY <1>2, <1>5, <2>5, <3>3, <3>4, <4>1
      <4>2. CASE i \notin 1 .. n - p
        <5>1. PICK q \in 1 .. l : i = j + q
          BY <3>4a, <3>6, <4>2
        <5>2. y[i] = ms[q]
          <6>1. j + q \in 1 .. Len(r) + Len(ms) /\ j + q > Len(r) /\ j + q - Len(r) = q
            BY <1>2, <3>4b
          <6>2. (r \o ms)[j + q] = ms[j + q - Len(r)]
            BY <2>5, <6>1, ConcatProperties
          <6>3. (r \o ms)[j + q] = ms[q]
            BY <6>1, <6>2
          <6> QED
            BY <5>1, <6>3
        <5>3. x[i] = a[n + q]
          <6>1. p + i = n + q
            BY <3>4a, <5>1
          <6> QED
            BY <3>3, <6>1
        <5> QED
          BY <1>5, <5>2, <5>3
      <4> QED
        BY <4>1, <4>2
    <3> HIDE DEF y
    <3>7. x = y
      BY <3>1, <3>2, <3>5, <3>6, SeqEqual
    <3> QED
      BY <3>7 DEF x, y
  <2>8. Build(e) = h \o d \o r
    BY <1>1, <1>3, <1>9 DEF Build
  <2>9. Build(a) = h \o d \o (r \o ms)
    BY <1>5, <1>7, <1>9, <2>1, <2>6, <2>7 DEF Build
  <2> HIDE DEF h, d, r
  <2>10. h \o d \in Seq(Message)
    BY <2>3, <2>4
  <2>11. (h \o d) \o r \in Seq(Message)
    BY <2>5, <2>10
  <2>12. ((h \o d) \o r) \o ms = (h \o d) \o (r \o ms)
    BY <2>5, <2>10, Assoc
  <2> QED
    BY <1>3, <1>7, <2>8, <2>9, <2>11, <2>12 DEF a
<1> QED
  BY <1>8, <1>9

-----------------------------------------------------------------------------
(* The steps of a call that goes on after its run, named one by one        *)

KeepableIn(e, k) == k \in 1 .. Len(e) /\ e[k].role # "toolResult"
Keepable(k) == KeepableIn(entries, k)
Anchored(e) == Compacted(e) # 0 => e[Compacted(e)].n \in 1 .. Compacted(e) - 1
Kept == /\ \A c \in Callers : caller[c].pc = "summarize" => Keepable(caller[c].keep)
        /\ manual.pc = "summarize" => Keepable(manual.keep)
        /\ Anchored(entries)

RetryStates == [attempt : 0 .. MaxRetries, ctl : Callers \cup {NoCaller}, open : BOOLEAN]
Transcripts == [messages : Seq(Message), entries : Seq(Message)]
Landing(k, again) ==
    LET e == Append(entries, Msg("compaction", k))
    IN  Transcript(IF again /\ Last(Build(e)).stop \in Errors THEN WithoutLast(Build(e)) ELSE Build(e), e)
Source(t) == t = Now \/ \E k \in Nat, again \in BOOLEAN : Keepable(k) /\ t = Landing(k, again)

\* What a prompt does that goes on after its run: it starts again, or it ends.
Again(c, t) == /\ ~Streaming /\ t.messages # <<>> /\ ~Answered(t)
               /\ StartRun(c, t, <<>>, <<>>) /\ UNCHANGED queue
Further(c, t) == /\ ~Streaming /\ Answered(t) /\ queue # <<>>
                 /\ StartRun(c, t, <<Head(queue)>>, <<>>) /\ queue' = Tail(queue)
Halt(c, t) == Finally(c, t) /\ UNCHANGED <<queue, run, shown, tried>>
GoesOn(c, t) == Again(c, t) \/ Further(c, t) \/ Halt(c, t)
\* Why: where it was, what that does to the retry, and on what it goes on.
FromPost(c, t) ==
    /\ caller[c].pc = "post" /\ t = Now /\ last' = NoMessage
    /\ \/ last = NoMessage /\ Halt(c, t) /\ UNCHANGED retry
       \/ /\ last # NoMessage /\ ~(last.stop = "retryable" /\ MayRetry(retry.attempt))
          /\ retry' = IF last.stop \in Errors THEN [retry EXCEPT !.attempt = 0, !.open = FALSE] ELSE retry
          /\ last.stop = "aborted" \/ NoCompaction(last)
          /\ ContinueIfQueued(c, t)
FromSleep(c, t) ==
    /\ Calm /\ caller[c].pc = "sleep" /\ t = Now /\ UNCHANGED last
    /\ \/ ~caller[c].aborted /\ Continue(c, t) /\ retry' = [retry EXCEPT !.ctl = NoCaller]
       \/ /\ caller[c].aborted /\ ContinueIfQueued(c, t)
          /\ retry' = [attempt |-> 0, ctl |-> NoCaller, open |-> FALSE]
FromCompaction(c, t) ==
    /\ Calm /\ caller[c].pc \in {"resolve", "summarize"} /\ UNCHANGED <<last, retry>>
    /\ \/ t = Now /\ ContinueIfQueued(c, t)
       \/ /\ ~caller[c].willRetry /\ Keepable(caller[c].keep) /\ t = Landing(caller[c].keep, FALSE)
          /\ ContinueIfQueued(c, t)
       \/ /\ caller[c].willRetry /\ Keepable(caller[c].keep)
          /\ t = Landing(caller[c].keep, TRUE)
          /\ Continue(c, t)
Origin(c, t) == FromPost(c, t) \/ FromSleep(c, t) \/ FromCompaction(c, t)
Resume(c, t) ==
    /\ Origin(c, t)
    /\ caller[c].pc \in {"post", "sleep", "resolve", "summarize"} /\ ~caller[c].pre
    /\ Source(t) /\ GoesOn(c, t)
    /\ last' \in {last, NoMessage} /\ auto' \in {auto, NoCaller}
    /\ retry' \in RetryStates
    /\ UNCHANGED <<nextTurn, manual, made, budget>>
\* The prompt goes on to be sent.
Landed(c, t) ==
    /\ Calm
    /\ caller[c].pc \in {"resolve", "summarize"} /\ caller[c].pre
    /\ Source(t) /\ BeforeStart(c)
    /\ messages' = t.messages /\ entries' = t.entries
    /\ log' = [log EXCEPT !.overlap = @ \/ (t # Now /\ Others(c))]
    /\ auto' = NoCaller
    /\ UNCHANGED <<bash, queue, run, shown, tried, last, retry, manual, made, budget>>
PostRetry(c) ==
    /\ caller[c].pc = "post" /\ last # NoMessage
    /\ last.stop = "retryable" /\ MayRetry(retry.attempt)
    /\ retry' = [attempt |-> retry.attempt + 1, ctl |-> c, open |-> TRUE]
    /\ messages' = WithoutLast(messages) /\ last' = NoMessage
    /\ caller' = [caller EXCEPT ![c].pc = "sleep", ![c].aborted = FALSE]
    /\ UNCHANGED <<entries, bash, queue, run, shown, tried, log, budget, auto, nextTurn, manual, made>>
PostCompact(c) ==
    /\ caller[c].pc = "post" /\ last # NoMessage
    /\ ~(last.stop = "retryable" /\ MayRetry(retry.attempt))
    /\ retry' = IF last.stop \in Errors THEN [retry EXCEPT !.attempt = 0, !.open = FALSE] ELSE retry
    /\ last.stop # "aborted" /\ Compact(c, last, FALSE, messages) /\ last' = NoMessage
    /\ UNCHANGED <<entries, bash, queue, run, shown, log, auto, nextTurn, manual, made>>
Summarize(c) ==
    /\ Calm /\ caller[c].pc = "resolve"
    /\ \E k \in Cuts : caller' = [caller EXCEPT ![c].pc = "summarize", ![c].keep = k]
    /\ auto' = c
    /\ UNCHANGED <<transcript, bash, queue, run, shown, tried, log, nextTurn, last, retry, manual, made, budget>>

\* What the code does to the retry counter keeps it within its bound.
LEMMA RetryTyped ==
    ASSUME NEW r \in RetryStates
    PROVE  /\ [r EXCEPT !.attempt = 0, !.open = FALSE] \in RetryStates
           /\ [r EXCEPT !.ctl = NoCaller] \in RetryStates
           /\ [attempt |-> 0, ctl |-> NoCaller, open |-> FALSE] \in RetryStates
           /\ \A c \in Callers : MayRetry(r.attempt) =>
                 [attempt |-> r.attempt + 1, ctl |-> c, open |-> TRUE] \in RetryStates
<1>1. 0 \in 0 .. MaxRetries
  BY SessionAssumption
<1>2. MayRetry(r.attempt) => r.attempt + 1 \in 0 .. MaxRetries
  <2>1. r.attempt \in 0 .. MaxRetries
    BY DEF RetryStates
  <2> QED
    BY <2>1, SessionAssumption DEF MayRetry
<1>3. [r EXCEPT !.attempt = 0, !.open = FALSE] \in RetryStates
  BY <1>1 DEF RetryStates
<1>4. [r EXCEPT !.ctl = NoCaller] \in RetryStates
  BY DEF RetryStates
<1>5. [attempt |-> 0, ctl |-> NoCaller, open |-> FALSE] \in RetryStates
  BY <1>1 DEF RetryStates
<1>6. ASSUME NEW c \in Callers, MayRetry(r.attempt)
      PROVE  [attempt |-> r.attempt + 1, ctl |-> c, open |-> TRUE] \in RetryStates
  BY <1>2, <1>6 DEF RetryStates
<1> QED
  BY <1>3, <1>4, <1>5, <1>6

\* agent.continue() and the end of _handlePostAgentRun: the run starts again, a queued
\* message starts one, or the call ends.
LEMMA GoingOn ==
    ASSUME NEW c \in Callers, NEW t, Continue(c, t) \/ ContinueIfQueued(c, t)
    PROVE  GoesOn(c, t)
  BY DEF Continue, ContinueIfQueued, GoesOn, Again, Further, Halt

\* _handlePostAgentRun retries, compacts, or goes on.
LEMMA PostSteps ==
    ASSUME TypeOK, NEW c \in Callers, ~caller[c].pre, PostRun(c)
    PROVE  PostRetry(c) \/ PostCompact(c) \/ Resume(c, Now)
<1>1. Source(Now)
  BY DEF Source
<1>2. caller[c].pc = "post" /\ last' = NoMessage /\ UNCHANGED <<auto, nextTurn, manual, made>>
  BY DEF PostRun
<1>3. CASE last = NoMessage
  <2>1. Finally(c, Now) /\ UNCHANGED <<queue, run, shown, retry, tried, budget>>
    BY <1>3 DEF PostRun
  <2> QED
    BY <1>1, <1>2, <1>3, <2>1 DEF Resume, Origin, FromPost, GoesOn, Halt, TypeOK, RetryStates
<1>4. CASE last # NoMessage /\ last.stop = "retryable" /\ MayRetry(retry.attempt)
  BY <1>4, <1>2 DEF PostRun, PostRetry
<1>5. CASE last # NoMessage /\ ~(last.stop = "retryable" /\ MayRetry(retry.attempt))
  <2>1. retry' = IF last.stop \in Errors THEN [retry EXCEPT !.attempt = 0, !.open = FALSE] ELSE retry
    BY <1>5 DEF PostRun
  <2>2. retry' \in RetryStates
    BY <2>1, RetryTyped DEF TypeOK, RetryStates
  <2>3. CASE /\ last.stop # "aborted" /\ Compact(c, last, FALSE, messages)
             /\ UNCHANGED <<entries, bash, queue, run, shown, log>>
    BY <1>2, <1>5, <2>1, <2>3 DEF PostCompact
  <2>4. CASE /\ last.stop = "aborted" \/ NoCompaction(last)
             /\ ContinueIfQueued(c, Now) /\ UNCHANGED budget
    <3>1. FromPost(c, Now)
      BY <1>2, <1>5, <2>1, <2>4 DEF FromPost
    <3> QED
      BY <1>1, <1>2, <2>2, <2>4, <3>1, GoingOn DEF Resume, Origin
  <2> QED
    BY <1>5, <2>3, <2>4 DEF PostRun
<1> QED
  BY <1>3, <1>4, <1>5

LEMMA SleepSteps ==
    ASSUME TypeOK, NEW c \in Callers, ~caller[c].pre, SleepDone(c)
    PROVE  Resume(c, Now)
<1>1. Source(Now)
  BY DEF Source
<1>2. caller[c].pc = "sleep" /\ UNCHANGED <<last, auto, nextTurn, manual, made, budget>>
  BY DEF SleepDone
<1>3. GoesOn(c, Now)
  BY GoingOn DEF SleepDone
<1>4. retry' \in RetryStates
  BY RetryTyped DEF SleepDone, TypeOK, RetryStates
<1>5. FromSleep(c, Now)
  BY <1>2 DEF SleepDone, FromSleep
<1> QED
  BY <1>1, <1>2, <1>3, <1>4, <1>5 DEF Resume, Origin

\* A compaction lands: before a prompt, or after a run.
LEMMA AfterSteps ==
    ASSUME TypeOK, Calm, NEW c \in Callers, NEW t, Source(t),
           caller[c].pc \in {"resolve", "summarize"}, auto' = NoCaller,
           \/ t = Now /\ AfterCompaction(c, FALSE, t)
           \/ /\ Keepable(caller[c].keep)
              /\ t = Landing(caller[c].keep, caller[c].willRetry)
              /\ AfterCompaction(c, caller[c].willRetry, t),
           UNCHANGED <<last, retry, manual, made, budget>>
    PROVE  Landed(c, t) \/ Resume(c, t)
<1>1. CASE caller[c].pre
  BY <1>1 DEF AfterCompaction, Landed
<1>2. CASE ~caller[c].pre
  <2>1. Continue(c, t) \/ ContinueIfQueued(c, t)
    BY <1>2 DEF AfterCompaction
  <2>2. GoesOn(c, t) /\ UNCHANGED nextTurn
    BY <1>2, <2>1, GoingOn DEF AfterCompaction
  <2>3. FromCompaction(c, t)
    <3>1. caller[c].willRetry = TRUE \/ caller[c].willRetry = FALSE
      BY DEF TypeOK, Call
    <3> QED
      BY <1>2, <3>1 DEF AfterCompaction, FromCompaction
  <2> QED
    BY <1>2, <2>2, <2>3 DEF Resume, Origin, TypeOK, RetryStates
<1> QED
  BY <1>1, <1>2

LEMMA ResolveSteps ==
    ASSUME TypeOK, NEW c \in Callers, Resolved(c)
    PROVE  Summarize(c) \/ Landed(c, Now) \/ Resume(c, Now)
<1>1. Source(Now)
  BY DEF Source
<1>2. CASE AfterCompaction(c, FALSE, Now) /\ auto' = NoCaller
  BY <1>1, <1>2, AfterSteps DEF Resolved
<1>3. CASE ~(AfterCompaction(c, FALSE, Now) /\ auto' = NoCaller)
  BY <1>3 DEF Resolved, Summarize
<1> QED
  BY <1>2, <1>3

LEMMA SummarySteps ==
    ASSUME TypeOK, Kept, NEW c \in Callers, Summarized(c)
    PROVE  \E t : Landed(c, t) \/ Resume(c, t)
<1> DEFINE done == Compaction(caller[c].keep)
           t == Transcript(IF caller[c].willRetry /\ Last(done.messages).stop \in Errors THEN WithoutLast(done.messages) ELSE done.messages, done.entries)
<1>1. Source(Now)
  BY DEF Source
<1>2. Calm /\ caller[c].pc = "summarize" /\ auto' = NoCaller /\ UNCHANGED <<last, retry, manual, made, budget>>
  BY DEF Summarized
<1>3. t = Landing(caller[c].keep, caller[c].willRetry)
  BY DEF Landing, Compaction, Transcript
<1>4. caller[c].keep \in Nat /\ Keepable(caller[c].keep) /\ caller[c].willRetry \in BOOLEAN
  BY <1>2 DEF TypeOK, Call, Kept
<1>6. AfterCompaction(c, caller[c].willRetry, t) \/ AfterCompaction(c, FALSE, Now)
  BY DEF Summarized
<1> HIDE DEF t
<1>7. Source(t)
  BY <1>3, <1>4 DEF Source
<1>8. CASE AfterCompaction(c, caller[c].willRetry, t)
  BY <1>2, <1>3, <1>4, <1>7, <1>8, AfterSteps
<1>9. CASE AfterCompaction(c, FALSE, Now)
  BY <1>1, <1>2, <1>9, AfterSteps
<1> QED
  BY <1>6, <1>8, <1>9

-----------------------------------------------------------------------------
(* How transcripts grow                                                    *)

Plain(s, role) == \A k \in DOMAIN s : s[k].role = role /\ s[k].stop = "stop"
Roled == /\ Plain(bash, "bash") /\ Plain(nextTurn, "custom")
         /\ \A c \in Callers : Plain(caller[c].extra, "custom")

\* f begins with e.
Begins(e, f) == Len(e) <= Len(f) /\ \A k \in 1 .. Len(e) : f[k] = e[k]
Spoken(ms) == \A k \in DOMAIN ms : ms[k].role # "compaction"

LEMMA BeginsRefl ==
    ASSUME NEW e \in Seq(Message) PROVE Begins(e, e)
  BY DEF Begins

\* The session file only grows: its older part stays where it is.
LEMMA BeginsTrans ==
    ASSUME NEW e \in Seq(Message), NEW f \in Seq(Message), NEW g \in Seq(Message),
           Begins(e, f), Begins(f, g)
    PROVE  Begins(e, g)
<1>1. PICK l \in Nat, m \in Nat, n \in Nat : Len(e) = l /\ Len(f) = m /\ Len(g) = n
  OBVIOUS
<1>2. l <= m /\ m <= n
  BY <1>1 DEF Begins
<1>3. l <= n
  BY <1>2
<1>4. ASSUME NEW k \in 1 .. l PROVE g[k] = e[k]
  <2>1. k \in 1 .. m
    BY <1>2
  <2> QED
    BY <1>1, <2>1 DEF Begins
<1> QED
  BY <1>1, <1>3, <1>4 DEF Begins

LEMMA BeginsConcat ==
    ASSUME NEW e \in Seq(Message), NEW ms \in Seq(Message)
    PROVE  Begins(e, e \o ms) /\ e \o ms \in Seq(Message)
<1>1. PICK n \in Nat : Len(e) = n
  OBVIOUS
<1>2. PICK l \in Nat : Len(ms) = l
  OBVIOUS
<1>3. Len(e \o ms) = n + l /\ \A i \in 1 .. n : (e \o ms)[i] = e[i]
  BY <1>1, <1>2, ConcatIs
<1>4. n <= n + l
  OBVIOUS
<1> QED
  BY <1>1, <1>3, <1>4, ConcatIs, <1>2 DEF Begins

LEMMA BeginsAppend ==
    ASSUME NEW e \in Seq(Message), NEW m \in Message
    PROVE  Begins(e, Append(e, m)) /\ Append(e, m) \in Seq(Message)
<1>1. PICK n \in Nat : Len(e) = n
  OBVIOUS
<1>2. Len(Append(e, m)) = n + 1 /\ \A i \in 1 .. n : Append(e, m)[i] = e[i]
  BY <1>1
<1> QED
  BY <1>1, <1>2 DEF Begins

\* What is said after a compaction comes after what the compaction kept.
LEMMA AnchoredConcat ==
    ASSUME NEW e \in Seq(Message), Anchored(e), NEW ms \in Seq(Message), Spoken(ms)
    PROVE  Anchored(e \o ms) /\ Compacted(e \o ms) = Compacted(e) /\ Build(e \o ms) = Build(e) \o ms
           /\ Build(e) \in Seq(Message)
<1>1. PICK n \in Nat : Len(e) = n
  OBVIOUS
<1>2. PICK p \in 0 .. n : Compacted(e) = p
  BY <1>1, CompactedIs
<1>3. p # 0 => e[p].n \in 1 .. p
  BY <1>2 DEF Anchored
<1>4. Compacted(e \o ms) = p /\ Build(e) \in Seq(Message) /\ Build(e \o ms) = Build(e) \o ms
  BY <1>2, <1>3, BuildConcat DEF Spoken
<1>5. p # 0 => (e \o ms)[p] = e[p]
  BY <1>1, <1>2, BeginsConcat DEF Begins
<1> QED
  BY <1>2, <1>4, <1>5 DEF Anchored

LEMMA AppendConcat ==
    ASSUME NEW s \in Seq(Message), NEW m \in Message
    PROVE  Append(s, m) = s \o <<m>> /\ <<m>> \in Seq(Message) /\ DOMAIN <<m>> = {1} /\ <<m>>[1] = m
  OBVIOUS

LEMMA AnchoredLanded ==
    ASSUME NEW e \in Seq(Message), NEW n \in Nat, Len(e) = n, NEW k \in 1 .. n, NEW c \in Message,
           c.role = "compaction", c.n = k
    PROVE  Anchored(Append(e, c))
<1> DEFINE a == Append(e, c)
<1>1. a \in Seq(Message) /\ Len(a) = n + 1 /\ a[n + 1] = c /\ \A i \in 1 .. n : a[i] = e[i]
  OBVIOUS
<1>2. DOMAIN a = 1 .. n + 1
  BY <1>1
<1> HIDE DEF a
<1>3. Compacted(a) = n + 1
  BY <1>1, <1>2, CompactedUnique
<1>4. Anchored(a)
  <2>1. a[Compacted(a)] = c
    BY <1>1, <1>3
  <2>2. c.n \in 1 .. (n + 1) - 1
    OBVIOUS
  <2> QED
    BY <1>3, <2>1, <2>2 DEF Anchored
<1> QED
  BY <1>4 DEF a

\* What a landed compaction leaves.
LEMMA LandingIs ==
    ASSUME TypeOK, Kept, NEW k \in Nat, Keepable(k), NEW again \in BOOLEAN
    PROVE  LET c == Msg("compaction", k)
               e == Append(entries, c)
               t == Landing(k, again)
           IN  /\ k \in 1 .. Len(entries) /\ c \in Message
               /\ t.entries = e /\ e \in Seq(Message) /\ Anchored(e) /\ Begins(entries, e)
               /\ Build(e) \in Seq(Message) /\ Build(e) # <<>> /\ Build(e)[1] = c
               /\ Len(Build(e)) = Len(entries) - k + 2
               /\ \A i \in 2 .. Len(entries) - k + 2 : Build(e)[i] = entries[k + i - 2]
               /\ t.messages \in {Build(e), WithoutLast(Build(e))}
               /\ t.messages \in Seq(Message) /\ t.messages # <<>> /\ t.messages[1] = c
               /\ t \in Transcripts
<1> DEFINE c == Msg("compaction", k)
           e == Append(entries, c)
           t == Landing(k, again)
<1>1. PICK n \in Nat : Len(entries) = n
  BY DEF TypeOK
<1>2. k \in 1 .. n
  BY <1>1 DEF Keepable, KeepableIn
<1>3. c \in Message /\ c.role = "compaction" /\ c.n = k
  BY DEF Msg, Message, Roles, Stops
<1>4. entries \in Seq(Message)
  BY DEF TypeOK
<1>5. e \in Seq(Message) /\ Begins(entries, e)
  <2> HIDE DEF c
  <2> QED
    BY <1>3, <1>4, BeginsAppend
<1>6. Anchored(e)
  <2> HIDE DEF c
  <2> QED
    BY <1>1, <1>2, <1>3, <1>4, AnchoredLanded
<1>7. /\ Build(e) \in Seq(Message) /\ Len(Build(e)) = n - k + 2 /\ Build(e)[1] = c
      /\ \A i \in 2 .. n - k + 2 : Build(e)[i] = entries[k + i - 2]
  <2> HIDE DEF c
  <2> QED
    BY <1>1, <1>2, <1>3, <1>4, BuildLanded
<1>8. Build(e) # <<>>
  <2>1. n - k + 2 # 0
    BY <1>2
  <2> HIDE DEF e
  <2> QED
    BY <1>7, <2>1
<1>9. t.entries = e /\ t.messages = IF again /\ Last(Build(e)).stop \in Errors THEN WithoutLast(Build(e)) ELSE Build(e)
  BY DEF Landing, Transcript
<1>10. /\ WithoutLast(Build(e)) \in Seq(Message) /\ WithoutLast(Build(e)) # <<>>
       /\ WithoutLast(Build(e))[1] = c
  <2>1. c.role # "assistant"
    BY <1>3
  <2> HIDE DEF c, e
  <2> QED
    BY <1>7, <1>8, <2>1, WithoutLastFacts
<1>11. t.messages \in {Build(e), WithoutLast(Build(e))}
  BY <1>9
<1>12. t.messages \in Seq(Message) /\ t.messages # <<>> /\ t.messages[1] = c
  <2> HIDE DEF c, e, t
  <2> QED
    BY <1>7, <1>8, <1>10, <1>11
<1>13. t \in Transcripts
  <2>1. t = [messages |-> t.messages, entries |-> t.entries]
    BY DEF Landing, Transcript
  <2> HIDE DEF e, t
  <2> QED
    BY <1>5, <1>9, <1>12, <2>1 DEF Transcripts
<1> QED
  <2> HIDE DEF c, e, t
  <2>1. /\ k \in 1 .. Len(entries) /\ c \in Message
        /\ t.entries = e /\ e \in Seq(Message) /\ Anchored(e) /\ Begins(entries, e)
        /\ Build(e) \in Seq(Message) /\ Build(e) # <<>> /\ Build(e)[1] = c
        /\ Len(Build(e)) = Len(entries) - k + 2
        /\ \A i \in 2 .. Len(entries) - k + 2 : Build(e)[i] = entries[k + i - 2]
        /\ t.messages \in {Build(e), WithoutLast(Build(e))}
        /\ t.messages \in Seq(Message) /\ t.messages # <<>> /\ t.messages[1] = c
        /\ t \in Transcripts
    BY <1>1, <1>2, <1>3, <1>5, <1>6, <1>7, <1>8, <1>9, <1>11, <1>12, <1>13
  <2> QED
    BY <2>1 DEF c, e, t

\* The transcripts a call can go on with.
LEMMA SourceIs ==
    ASSUME TypeOK, Kept, NEW t, Source(t)
    PROVE  /\ t \in Transcripts /\ t.messages \in Seq(Message) /\ t.entries \in Seq(Message)
           /\ Anchored(t.entries) /\ Begins(entries, t.entries)
<1>1. CASE t = Now
  <2>1. t.messages = messages /\ t.entries = entries /\ t \in Transcripts
    BY <1>1 DEF Now, Transcript, Transcripts, TypeOK
  <2> QED
    BY <2>1, BeginsRefl DEF Kept, TypeOK
<1>2. CASE t # Now
  <2>1. PICK k \in Nat, again \in BOOLEAN : Keepable(k) /\ t = Landing(k, again)
    BY <1>2 DEF Source
  <2> QED
    BY <2>1, LandingIs
<1> QED
  BY <1>1, <1>2

LEMMA NowIs ==
    Now.messages = messages /\ Now.entries = entries
  BY DEF Now, Transcript

\* Messages of users, as they are said.
LEMMA UsersAre ==
    ASSUME NEW us \in Seq(Nat)
    PROVE  Users(us) \in Seq(Message) /\ Plain(Users(us), "user") /\ Len(Users(us)) = Len(us)
           /\ \A k \in DOMAIN us : Users(us)[k].n = us[k]
<1>1. \A k \in DOMAIN us : Msg("user", us[k]) \in Message
  BY DEF Msg, Message, Roles, Stops
<1>2. Users(us) = [k \in 1 .. Len(us) |-> Msg("user", us[k])]
  BY DEF Users
<1>3. Users(us) \in Seq(Message) /\ Len(Users(us)) = Len(us)
  BY <1>1, <1>2
<1> QED
  BY <1>2, <1>3 DEF Plain, Msg

LEMMA PlainSpoken ==
    ASSUME NEW s, NEW role \in {"user", "custom", "bash"}, Plain(s, role)
    PROVE  Spoken(s)
  BY DEF Plain, Spoken

\* A place in a concatenation is a place in one of the two.
LEMMA ConcatPick ==
    ASSUME NEW s \in Seq(Message), NEW t \in Seq(Message), NEW n \in Nat, NEW l \in Nat,
           Len(s) = n, Len(t) = l, NEW k \in DOMAIN (s \o t)
    PROVE  \/ k \in 1 .. n /\ (s \o t)[k] = s[k]
           \/ \E i \in 1 .. l : k = n + i /\ (s \o t)[k] = t[i]
<1>1. k \in 1 .. n + l
  BY ConcatIs
<1>2. CASE k <= n
  <2>1. k \in 1 .. n
    BY <1>1, <1>2
  <2> QED
    BY <2>1, ConcatIs
<1>3. CASE ~(k <= n)
  <2>1. PICK i \in 1 .. l : k = n + i
    BY <1>1, <1>3
  <2>2. k \in 1 .. Len(s) + Len(t) /\ ~(k <= Len(s)) /\ k - Len(s) = i
    BY <1>1, <1>3, <2>1
  <2>3. (s \o t)[k] = t[k - Len(s)]
    BY <2>2, ConcatProperties
  <2>4. (s \o t)[k] = t[i]
    BY <2>2, <2>3
  <2> QED
    BY <2>1, <2>4
<1> QED
  BY <1>2, <1>3

LEMMA SpokenConcat ==
    ASSUME NEW s \in Seq(Message), NEW t \in Seq(Message), Spoken(s), Spoken(t)
    PROVE  Spoken(s \o t) /\ s \o t \in Seq(Message)
<1>1. PICK n \in Nat, l \in Nat : Len(s) = n /\ Len(t) = l /\ DOMAIN s = 1 .. n /\ DOMAIN t = 1 .. l
  OBVIOUS
<1>2. s \o t \in Seq(Message)
  OBVIOUS
<1>3. ASSUME NEW k \in DOMAIN (s \o t) PROVE (s \o t)[k].role # "compaction"
  <2>1. \/ k \in 1 .. n /\ (s \o t)[k] = s[k]
        \/ \E i \in 1 .. l : k = n + i /\ (s \o t)[k] = t[i]
    BY <1>1, <1>3, ConcatPick
  <2> QED
    BY <1>1, <2>1 DEF Spoken
<1> QED
  BY <1>2, <1>3 DEF Spoken

-----------------------------------------------------------------------------
(* Types                                                                   *)

\* A set of naturals that is not empty has a least element.
LEMMA LeastNat ==
    ASSUME NEW S \in SUBSET Nat, S # {}
    PROVE  Min(S) \in S /\ \A k \in S : Min(S) <= k
<1>0. PICK n \in S : TRUE
  OBVIOUS
<1> DEFINE B == {1 .. k : k \in {k \in S : k <= n}}
<1>0a. IsFiniteSet(1 .. n)
  BY FS_Interval
<1>1. IsWellFoundedOn(StrictSubsetOrdering(1 .. n), SUBSET (1 .. n))
  BY <1>0a, FS_StrictSubsetOrderingWellFounded, FS_FiniteSubsetsOfFinite, Zenon
<1>2. B \subseteq SUBSET (1 .. n) /\ B # {}
  BY <1>0
<1>3. PICK T \in B : \A U \in B : <<U, T>> \notin StrictSubsetOrdering(1 .. n)
  <2> HIDE DEF B
  <2> QED
    BY <1>1, <1>2, WFMin, Zenon
<1>4. PICK m \in S : m <= n /\ T = 1 .. m
  BY <1>3
<1>5. ASSUME NEW k \in S, k < m PROVE FALSE
  <2>1. 1 .. k \in B
    BY <1>4, <1>5
  <2>2. 1 .. k \subseteq 1 .. m /\ m \in 1 .. m /\ m \notin 1 .. k
    BY <1>5
  <2>3. <<1 .. k, T>> \in StrictSubsetOrdering(1 .. n)
    BY <1>4, <1>5, <2>2 DEF StrictSubsetOrdering
  <2> QED
    BY <1>3, <2>1, <2>3
<1>6. \A k \in S : m <= k
  BY <1>4, <1>5
<1> QED
  BY <1>6 DEF Min

\* The types of what the session does in several actions.
LEMMA UnshowTyped ==
    ASSUME shown \in Seq(Nat), NEW us
    PROVE  Unshow(us) \in Seq(Nat)
<1> DEFINE places == {k \in DOMAIN shown : shown[k] \in Range(us)}
<1>1. CASE manual.connected /\ places # {}
  <2>1. PICK n \in Nat : Len(shown) = n /\ DOMAIN shown = 1 .. n
    OBVIOUS
  <2>2. Min(places) \in places
    <3>1. places \in SUBSET Nat
      BY <2>1
    <3> HIDE DEF places
    <3> QED
      BY <1>1, <3>1, LeastNat
  <2>3. PICK i \in 1 .. n : Min(places) = i
    BY <2>1, <2>2
  <2>4. Unshow(us) = RemoveAt(shown, i)
    BY <1>1, <2>3 DEF Unshow
  <2>5. SubSeq(shown, 1, i - 1) \in Seq(Nat) /\ SubSeq(shown, i + 1, Len(shown)) \in Seq(Nat)
    BY <2>1
  <2>6. SubSeq(shown, 1, i - 1) \o SubSeq(shown, i + 1, Len(shown)) \in Seq(Nat)
    BY <2>5
  <2> QED
    BY <2>4, <2>6 DEF RemoveAt
<1>2. CASE ~(manual.connected /\ places # {})
  BY <1>2 DEF Unshow
<1> QED
  BY <1>1, <1>2

LEMMA SayTyped ==
    ASSUME TypeOK, NEW t \in Transcripts, NEW ms \in Seq(Message), NEW us, Say(ms, us, t)
    PROVE  messages' \in Seq(Message) /\ entries' \in Seq(Message) /\ shown' \in Seq(Nat)
<1>1. shown' \in Seq(Nat)
  BY UnshowTyped DEF Say, TypeOK
<1>2. t.messages \o ms \in Seq(Message) /\ t.entries \o ms \in Seq(Message) /\ t.entries \in Seq(Message)
  BY DEF Transcripts
<1> QED
  BY <1>1, <1>2 DEF Say

LEMMA HeardTyped ==
    ASSUME TypeOK, NEW r \in Message, Heard(r)
    PROVE  last' \in Message /\ retry' \in RetryStates
<1>1. [retry EXCEPT !.attempt = 0, !.open = FALSE] \in RetryStates
  BY RetryTyped DEF TypeOK, RetryStates
<1> QED
  BY <1>1, ZenonT(60) DEF Heard, TypeOK, RetryStates

LEMMA ResponseTyped ==
    /\ NoMessage \in Message
    /\ \A n \in Nat : \A stop \in Stops : Response(n, stop) \in Message
    /\ \A n \in Nat : \A role \in Roles : Msg(role, n) \in Message
  BY DEF NoMessage, Response, Msg, Message, Roles, Stops

LEMMA NoCallTyped == NoCall \in Call
  BY DEF NoCall, Call, CallerPc

LEMMA ElementsAre ==
    ASSUME NEW s \in Seq(Message), NEW k \in DOMAIN s
    PROVE  s[k] \in Message /\ s[k].n \in Nat /\ s[k].role \in Roles /\ s[k].stop \in Stops
<1>1. s[k] \in Message
  OBVIOUS
<1> QED
  BY <1>1 DEF Message

LEMMA RefusedTyped ==
    ASSUME TypeOK, NEW c \in Callers
    PROVE  Pending(caller[c]) \in SUBSET Nat /\ Ids(caller[c].extra) \in SUBSET Nat
<1>1. caller[c] \in Call
  BY DEF TypeOK
<1>2. caller[c].msg \in Nat /\ caller[c].extra \in Seq(Message)
  BY <1>1 DEF Call
<1>3. \A k \in DOMAIN caller[c].extra : caller[c].extra[k].n \in Nat
  BY <1>2, ElementsAre
<1> QED
  BY <1>2, <1>3 DEF Pending, Ids

Logs == [detached : BOOLEAN, overlap : BOOLEAN, continued : Nat, refused : SUBSET Nat]
RunStates == [owner : Callers \cup {NoCaller}, aborted : BOOLEAN, step : {"start", "model", "tools"}]

LEMMA FinallyTyped ==
    ASSUME TypeOK, NEW c \in Callers, NEW t \in Transcripts, Finally(c, t)
    PROVE  /\ caller' \in [Callers -> Call] /\ messages' \in Seq(Message) /\ entries' \in Seq(Message)
           /\ bash' \in Seq(Message) /\ log' \in Logs
<1>1. caller' \in [Callers -> Call]
  BY NoCallTyped DEF Finally, End, TypeOK
<1>2. t.messages \o bash \in Seq(Message) /\ t.entries \o bash \in Seq(Message)
  BY DEF Transcripts, TypeOK
<1>3. messages' \in Seq(Message) /\ entries' \in Seq(Message) /\ bash' \in Seq(Message)
  BY <1>2 DEF Finally, Flush
<1>4. log' \in Logs
  BY RefusedTyped DEF Finally, TypeOK, Logs
<1> QED
  BY <1>1, <1>3, <1>4

LEMMA StartTyped ==
    ASSUME TypeOK, NEW c \in Callers, NEW t \in Transcripts, NEW us \in Seq(Nat), NEW extra \in Seq(Message),
           StartRun(c, t, us, extra)
    PROVE  /\ caller' \in [Callers -> Call] /\ messages' \in Seq(Message) /\ entries' \in Seq(Message)
           /\ shown' \in Seq(Nat) /\ tried' \in BOOLEAN /\ bash' \in Seq(Message) /\ log' \in Logs
           /\ run' \in RunStates
<1>1. [NoCall EXCEPT !.pc = "running"] \in Call
  BY NoCallTyped DEF Call, CallerPc
<1>2. caller' \in [Callers -> Call]
  BY <1>1 DEF StartRun, TypeOK
<1>3. Users(us) \o extra \in Seq(Message)
  BY UsersAre
<1>4. messages' \in Seq(Message) /\ entries' \in Seq(Message) /\ shown' \in Seq(Nat)
  BY <1>3, SayTyped DEF StartRun
<1>5. run' \in RunStates
  BY DEF StartRun, RunStates
<1>6. tried' \in BOOLEAN /\ bash' \in Seq(Message)
  BY DEF StartRun, TypeOK
<1>7. log' \in Logs
  <2>1. log \in Logs /\ manual.connected \in BOOLEAN
    BY DEF Logs, TypeOK
  <2>2. (IF us = <<>> THEN log.continued + 1 ELSE 0) \in Nat
    BY <2>1 DEF Logs
  <2> DEFINE n == IF us = <<>> THEN log.continued + 1 ELSE 0
             o == log.overlap \/ Others(c)
             d == log.detached \/ (~manual.connected /\ us # <<>>)
  <2>3. o \in BOOLEAN /\ d \in BOOLEAN
    BY <2>1 DEF Logs
  <2>4. log' = [log EXCEPT !.overlap = o, !.detached = d, !.continued = n]
    BY DEF StartRun
  <2> HIDE DEF n, o, d
  <2> QED
    BY <2>1, <2>2, <2>3, <2>4 DEF Logs, n
<1> QED
  BY <1>2, <1>4, <1>5, <1>6, <1>7

LEMMA ResumeTyped ==
    ASSUME TypeOK, Kept, NEW c \in Callers, NEW t, Resume(c, t)
    PROVE  TypeOK'
<1>1. t \in Transcripts
  BY SourceIs DEF Resume
<1>2. last' \in Message /\ auto' \in Callers \cup {NoCaller} /\ retry' \in RetryStates
      /\ UNCHANGED <<nextTurn, manual, made, budget>>
  BY ResponseTyped DEF Resume, TypeOK
<1>3. CASE Again(c, t)
  <2>1. <<>> \in Seq(Nat) /\ <<>> \in Seq(Message) /\ StartRun(c, t, <<>>, <<>>) /\ queue' = queue
    BY <1>3 DEF Again
  <2> QED
    BY <1>1, <1>2, <2>1, StartTyped DEF TypeOK, RetryStates, Logs, RunStates
<1>4. CASE Further(c, t)
  <2>1. queue # <<>> /\ queue \in Seq(Nat) /\ queue' = Tail(queue) /\ StartRun(c, t, <<Head(queue)>>, <<>>)
    BY <1>4 DEF Further, TypeOK
  <2>2. <<Head(queue)>> \in Seq(Nat) /\ <<>> \in Seq(Message) /\ queue' \in Seq(Nat)
    BY <2>1
  <2> QED
    BY <1>1, <1>2, <2>1, <2>2, StartTyped DEF TypeOK, RetryStates, Logs, RunStates
<1>5. CASE Halt(c, t)
  <2>1. Finally(c, t) /\ UNCHANGED <<queue, run, shown, tried>>
    BY <1>5 DEF Halt
  <2> QED
    BY <1>1, <1>2, <2>1, FinallyTyped, SMTT(30) DEF TypeOK, RetryStates, Logs
<1> QED
  BY <1>3, <1>4, <1>5 DEF Resume, GoesOn

LEMMA LandedTyped ==
    ASSUME TypeOK, Kept, NEW c \in Callers, NEW t, Landed(c, t)
    PROVE  TypeOK'
<1>1. t \in Transcripts /\ t.messages \in Seq(Message) /\ t.entries \in Seq(Message)
  BY SourceIs DEF Landed
<1>2. caller[c] \in Call /\ caller[c].msg \in Nat /\ nextTurn \in Seq(Message)
  BY DEF TypeOK, Call
<1>3. [NoCall EXCEPT !.pc = "before", !.msg = caller[c].msg, !.extra = nextTurn] \in Call
  BY <1>2 DEF NoCall, Call, CallerPc
<1>4. caller' \in [Callers -> Call] /\ nextTurn' \in Seq(Message)
  BY <1>3 DEF Landed, BeforeStart, TypeOK
<1>5. log' \in Logs
  BY DEF Landed, TypeOK, Logs
<1> QED
  BY <1>1, <1>4, <1>5, ZenonT(60) DEF Landed, TypeOK, Logs

LEMMA CallTyped ==
    ASSUME TypeOK, NEW c \in Callers, NEW pc \in CallerPc, NEW k \in Nat, NEW w \in BOOLEAN, NEW pre \in BOOLEAN
    PROVE  /\ [caller EXCEPT ![c].pc = pc] \in [Callers -> Call]
           /\ [caller EXCEPT ![c].aborted = TRUE] \in [Callers -> Call]
           /\ [caller EXCEPT ![c].pc = pc, ![c].aborted = FALSE] \in [Callers -> Call]
           /\ [caller EXCEPT ![c].pc = pc, ![c].keep = k] \in [Callers -> Call]
           /\ [caller EXCEPT ![c].pc = pc, ![c].pre = pre, ![c].aborted = FALSE,
                                ![c].willRetry = w] \in [Callers -> Call]
<1> DEFINE call == caller[c]
<1>1. call \in Call /\ caller \in [Callers -> Call]
  BY DEF TypeOK
<1>2. \A x \in Call : [caller EXCEPT ![c] = x] \in [Callers -> Call]
  BY <1>1
<1>3. /\ [caller EXCEPT ![c].pc = pc] = [caller EXCEPT ![c] = [call EXCEPT !.pc = pc]]
      /\ [caller EXCEPT ![c].aborted = TRUE] = [caller EXCEPT ![c] = [call EXCEPT !.aborted = TRUE]]
      /\ [caller EXCEPT ![c].pc = pc, ![c].aborted = FALSE] = [caller EXCEPT ![c] = [call EXCEPT !.pc = pc, !.aborted = FALSE]]
      /\ [caller EXCEPT ![c].pc = pc, ![c].keep = k] = [caller EXCEPT ![c] = [call EXCEPT !.pc = pc, !.keep = k]]
      /\ [caller EXCEPT ![c].pc = pc, ![c].pre = pre, ![c].aborted = FALSE, ![c].willRetry = w]
            = [caller EXCEPT ![c] = [call EXCEPT !.pc = pc, !.pre = pre, !.aborted = FALSE, !.willRetry = w]]
  BY <1>1
<1> HIDE DEF call
<1>4. [call EXCEPT !.pc = pc] \in Call
  BY <1>1 DEF Call
<1>5. [call EXCEPT !.aborted = TRUE] \in Call
  BY <1>1 DEF Call
<1>6. [call EXCEPT !.pc = pc, !.aborted = FALSE] \in Call
  BY <1>1 DEF Call
<1>7. [call EXCEPT !.pc = pc, !.keep = k] \in Call
  BY <1>1 DEF Call
<1>8. [call EXCEPT !.pc = pc, !.pre = pre, !.aborted = FALSE, !.willRetry = w] \in Call
  BY <1>1 DEF Call
<1> QED
  BY <1>2, <1>3, <1>4, <1>5, <1>6, <1>7, <1>8

LEMMA AbortedTyped ==
    ASSUME TypeOK, NEW c \in Callers
    PROVE  [caller EXCEPT ![c].aborted = TRUE] \in [Callers -> Call]
<1>1. "idle" \in CallerPc /\ 0 \in Nat /\ TRUE \in BOOLEAN
  BY DEF CallerPc
<1> QED
  BY <1>1, CallTyped

LEMMA PcTyped == \A pc \in {"idle", "input", "resolve", "summarize", "before", "running", "post", "sleep"} : pc \in CallerPc
  BY DEF CallerPc

LEMMA LogTyped ==
    ASSUME NEW l \in Logs, NEW n \in Nat, NEW s \in SUBSET Nat, NEW b \in BOOLEAN
    PROVE  /\ [l EXCEPT !.continued = n] \in Logs /\ [l EXCEPT !.overlap = b] \in Logs
           /\ [l EXCEPT !.refused = @ \cup s] \in Logs
           /\ [l EXCEPT !.refused = @ \cup s, !.continued = n] \in Logs
<1>1. l.refused \cup s \in SUBSET Nat
  BY DEF Logs
<1>2. [l EXCEPT !.continued = n] \in Logs /\ [l EXCEPT !.overlap = b] \in Logs
  BY DEF Logs
<1>3. [l EXCEPT !.refused = l.refused \cup s] \in Logs
  BY <1>1 DEF Logs
<1>4. [l EXCEPT !.refused = l.refused \cup s, !.continued = n] \in Logs
  BY <1>1 DEF Logs
<1> QED
  BY <1>2, <1>3, <1>4

LEMMA AppendTyped == ASSUME NEW s \in Seq(Message), NEW m \in Message PROVE Append(s, m) \in Seq(Message)
  OBVIOUS

LEMMA SpendTyped ==
    ASSUME TypeOK, NEW what \in {"prompts", "steers", "errors", "tools", "bash", "custom", "thresholds", "compacts", "aborts"},
           Spend(what)
    PROVE  budget' \in Budget
<1>1. budget \in Budget /\ budget[what] \in Nat
  BY DEF TypeOK, Budget
<1>2. PICK n \in Nat : budget[what] = n /\ n > 0 /\ budget' = [budget EXCEPT ![what] = n - 1]
  BY <1>1 DEF Spend
<1>3. n - 1 \in Nat
  BY <1>2
<1> QED
  BY <1>1, <1>2, <1>3 DEF Budget

LEMMA EndTyped ==
    ASSUME TypeOK, NEW c, End(c) PROVE caller' \in [Callers -> Call]
  BY NoCallTyped DEF End, TypeOK

\* Each action keeps the types.
LEMMA PromptTyped == ASSUME TypeOK, NEW c \in Callers, Prompt(c) PROVE TypeOK'
<1>1. made + 1 \in Nat
  BY DEF TypeOK
<1>2. [NoCall EXCEPT !.pc = "input", !.msg = made + 1] \in Call
  BY <1>1, NoCallTyped DEF Call, CallerPc
<1>3. budget' \in Budget
  BY SpendTyped DEF Prompt
<1> QED
  BY <1>1, <1>2, <1>3 DEF Prompt, transcript, TypeOK

LEMMA QueuedTyped == ASSUME TypeOK, NEW c \in Callers, Queued(c) PROVE TypeOK'
<1>1. caller[c].msg \in Nat
  BY DEF TypeOK, Call
<1>2. caller' \in [Callers -> Call]
  BY EndTyped DEF Queued
<1>3. queue' \in Seq(Nat) /\ shown' \in Seq(Nat)
  BY <1>1 DEF Queued, TypeOK
<1> QED
  BY <1>2, <1>3 DEF Queued, transcript, TypeOK

LEMMA FlushTyped ==
    ASSUME TypeOK, NEW t \in Transcripts, Flush(t)
    PROVE  messages' \in Seq(Message) /\ entries' \in Seq(Message) /\ bash' \in Seq(Message)
<1>1. t.messages \o bash \in Seq(Message) /\ t.entries \o bash \in Seq(Message)
  BY DEF Transcripts, TypeOK
<1> QED
  BY <1>1 DEF Flush

LEMMA NowTyped == ASSUME TypeOK PROVE Now \in Transcripts
  BY DEF TypeOK, Now, Transcript, Transcripts

LEMMA DeclinedTyped == ASSUME TypeOK, NEW c \in Callers, Declined(c) PROVE TypeOK'
<1>1. caller' \in [Callers -> Call]
  BY EndTyped DEF Declined
<1>2. log' \in Logs
  <2>1. Pending(caller[c]) \in SUBSET Nat /\ log \in Logs /\ 0 \in Nat
    BY RefusedTyped DEF Logs, TypeOK
  <2>2. \/ log' = [log EXCEPT !.refused = @ \cup Pending(caller[c])]
        \/ log' = [log EXCEPT !.refused = @ \cup Pending(caller[c]), !.continued = 0]
    BY DEF Declined
  <2> QED
    BY <2>1, <2>2, LogTyped, ZenonT(60)
<1>3. messages' \in Seq(Message) /\ entries' \in Seq(Message) /\ bash' \in Seq(Message)
  BY NowTyped, FlushTyped DEF Declined, transcript, TypeOK
<1> QED
  BY <1>1, <1>2, <1>3 DEF Declined, TypeOK, Logs

LEMMA CompactTyped ==
    ASSUME TypeOK, NEW c \in Callers, NEW r, NEW pre \in BOOLEAN, NEW m \in Seq(Message), Compact(c, r, pre, m)
    PROVE  caller' \in [Callers -> Call] /\ messages' \in Seq(Message) /\ tried' \in BOOLEAN /\ budget' \in Budget
<1>1. WithoutLast(m) \in Seq(Message)
  BY WithoutLastFacts
<1>2. messages' \in Seq(Message) /\ tried' \in BOOLEAN
  BY <1>1 DEF Compact, TypeOK
<1>3. budget' \in Budget
  BY SpendTyped DEF Compact, TypeOK
<1>4. Overflown(r) \in BOOLEAN
  BY DEF Overflown
<1>5. caller' \in [Callers -> Call]
  <2>1. caller' = [caller EXCEPT ![c].pc = "resolve", ![c].pre = pre, ![c].aborted = FALSE,
                                ![c].willRetry = Overflown(r)]
    BY DEF Compact
  <2> QED
    BY <1>4, <2>1, CallTyped, PcTyped, ZenonT(60)
<1> QED
  BY <1>2, <1>3, <1>5

LEMMA BeforeTyped ==
    ASSUME TypeOK, NEW c \in Callers, BeforeStart(c)
    PROVE  caller' \in [Callers -> Call] /\ nextTurn' \in Seq(Message)
<1>1. caller[c].msg \in Nat /\ nextTurn \in Seq(Message)
  BY DEF TypeOK, Call
<1>2. [NoCall EXCEPT !.pc = "before", !.msg = caller[c].msg, !.extra = nextTurn] \in Call
  BY <1>1, NoCallTyped DEF Call, CallerPc
<1> QED
  BY <1>2 DEF BeforeStart, TypeOK

LEMMA PreflightTyped == ASSUME TypeOK, NEW c \in Callers, Preflight(c) PROVE TypeOK'
<1> DEFINE r == messages[Max(Responses)]
<1>1. messages \o bash \in Seq(Message) /\ entries \o bash \in Seq(Message)
  BY DEF TypeOK
<1>2. log' \in Logs /\ UNCHANGED <<run, queue, shown, last, retry, auto, manual, made>>
  <2>1. log \in Logs /\ 0 \in Nat /\ log.continued \in Nat
    BY DEF TypeOK, Logs
  <2>2. log' = [log EXCEPT !.continued = IF bash = <<>> THEN @ ELSE 0] /\ UNCHANGED <<run, queue, shown, last, retry, auto, manual, made>>
    BY DEF Preflight
  <2> QED
    BY <2>1, <2>2, LogTyped
<1>3. CASE Compact(c, r, TRUE, messages \o bash) /\ entries' = entries \o bash /\ bash' = <<>> /\ UNCHANGED nextTurn
  <2>1. caller' \in [Callers -> Call] /\ messages' \in Seq(Message) /\ tried' \in BOOLEAN /\ budget' \in Budget
    <3> HIDE DEF r
    <3> QED
      BY <1>1, <1>3, CompactTyped
  <2> QED
    BY <1>1, <1>2, <1>3, <2>1 DEF TypeOK, Logs
<1>4. CASE Flush(Now) /\ BeforeStart(c) /\ UNCHANGED <<tried, budget>>
  BY <1>2, <1>4, NowTyped, FlushTyped, BeforeTyped, SMTT(30) DEF TypeOK, Logs
<1> QED
  BY <1>3, <1>4 DEF Preflight

LEMMA SendTyped == ASSUME TypeOK, NEW c \in Callers, Send(c) PROVE TypeOK'
<1>1. caller[c].msg \in Nat /\ caller[c].extra \in Seq(Message)
  BY DEF TypeOK, Call
<1>2. <<caller[c].msg>> \in Seq(Nat)
  BY <1>1
<1>3. CASE StartRun(c, Now, <<caller[c].msg>>, caller[c].extra)
  BY <1>1, <1>2, <1>3, NowTyped, StartTyped, ZenonT(60) DEF Send, TypeOK, Logs, RunStates
<1>4. CASE Finally(c, Now) /\ UNCHANGED <<run, shown, tried>>
  BY <1>4, NowTyped, FinallyTyped DEF Send, TypeOK, Logs
<1> QED
  BY <1>3, <1>4 DEF Send

LEMMA TurnTyped ==
    ASSUME TypeOK, NEW ms \in Seq(Message), NEW us \in Seq(Nat), Len(us) <= Len(queue),
           NEW step \in {"start", "model", "tools"}, NEW good \in BOOLEAN, Turn(ms, us, step, good)
    PROVE  /\ messages' \in Seq(Message) /\ entries' \in Seq(Message) /\ shown' \in Seq(Nat)
           /\ queue' \in Seq(Nat) /\ tried' \in BOOLEAN /\ run' \in RunStates /\ log' \in Logs
<1>1. ms \o Users(us) \in Seq(Message)
  BY UsersAre
<1>2. messages' \in Seq(Message) /\ entries' \in Seq(Message) /\ shown' \in Seq(Nat)
  BY <1>1, NowTyped, SayTyped DEF Turn
<1>3. queue' \in Seq(Nat)
  <2>1. PICK q \in Nat, u \in Nat : Len(queue) = q /\ Len(us) = u
    BY DEF TypeOK
  <2>2. u <= q
    BY <2>1
  <2>3. queue' = SubSeq(queue, u + 1, q) /\ queue \in Seq(Nat)
    BY <2>1 DEF Turn, TypeOK
  <2>4. SubSeq(queue, u + 1, q) \in Seq(Nat)
    <3>1. \A i \in u + 1 .. q : queue[i] \in Nat
      BY <2>1, <2>3
    <3> QED
      BY <2>1, <2>3, <3>1
  <2> QED
    BY <2>3, <2>4
<1>4. run' \in RunStates /\ tried' \in BOOLEAN
  BY DEF Turn, TypeOK, RunStates
<1>5. log' \in Logs
  <2>1. log \in Logs
    BY DEF Logs, TypeOK
  <2> DEFINE n == IF good \/ us # <<>> THEN 0 ELSE log.continued
             d == log.detached \/ ~manual.connected
  <2>2. n \in Nat /\ d \in BOOLEAN
    BY <2>1 DEF Logs
  <2>3. log' = [log EXCEPT !.detached = d, !.continued = n]
    BY DEF Turn
  <2> HIDE DEF n, d
  <2> QED
    BY <2>1, <2>2, <2>3 DEF Logs
<1> QED
  BY <1>2, <1>3, <1>4, <1>5

LEMMA HeadTyped ==
    ASSUME queue \in Seq(Nat), queue # <<>>
    PROVE  <<Head(queue)>> \in Seq(Nat) /\ Len(<<Head(queue)>>) <= Len(queue)
<1>1. PICK q \in Nat : Len(queue) = q /\ q # 0
  OBVIOUS
<1>2. Head(queue) \in Nat
  BY <1>1
<1> QED
  BY <1>1, <1>2

LEMMA RunTurnTyped == ASSUME TypeOK, NEW c \in Callers, RunTurn(c) PROVE TypeOK'
<1> DEFINE call == Response(made + 1, "toolUse")
           answer == Response(made + 1, "stop")
           result == Msg("toolResult", made + 1)
<1>1. made + 1 \in Nat /\ queue \in Seq(Nat) /\ <<>> \in Seq(Message) /\ <<>> \in Seq(Nat) /\ Len(<<>>) <= Len(queue)
  BY DEF TypeOK
<1>2. call \in Message /\ answer \in Message /\ result \in Message
  BY <1>1, ResponseTyped DEF Stops, Roles
<1>3. <<call>> \in Seq(Message) /\ <<answer>> \in Seq(Message) /\ <<result>> \in Seq(Message)
  <2> HIDE DEF call, answer, result
  <2> QED
    BY <1>2
<1>4. queue # <<>> => <<Head(queue)>> \in Seq(Nat) /\ Len(<<Head(queue)>>) <= Len(queue)
  BY <1>1, HeadTyped
<1>5. UNCHANGED <<caller, auto, bash, nextTurn, manual>>
  BY DEF RunTurn
<1>6. CASE queue # <<>> /\ Turn(<<>>, <<Head(queue)>>, "model", FALSE) /\ UNCHANGED <<last, retry, made, budget>>
  <2>1. /\ messages' \in Seq(Message) /\ entries' \in Seq(Message) /\ shown' \in Seq(Nat)
        /\ queue' \in Seq(Nat) /\ tried' \in BOOLEAN /\ run' \in RunStates /\ log' \in Logs
    BY <1>1, <1>4, <1>6, TurnTyped
  <2> QED
    BY <1>5, <1>6, <2>1 DEF TypeOK, Logs, RunStates
<1>7. CASE Spend("tools") /\ Turn(<<call>>, <<>>, "tools", TRUE) /\ Heard(call) /\ made' = made + 1
  <2> HIDE DEF call
  <2>1. /\ messages' \in Seq(Message) /\ entries' \in Seq(Message) /\ shown' \in Seq(Nat)
        /\ queue' \in Seq(Nat) /\ tried' \in BOOLEAN /\ run' \in RunStates /\ log' \in Logs
    BY <1>1, <1>3, <1>7, TurnTyped
  <2>2. last' \in Message /\ retry' \in RetryStates /\ budget' \in Budget
    BY <1>2, <1>7, HeardTyped, SpendTyped
  <2> QED
    BY <1>1, <1>5, <1>7, <2>1, <2>2 DEF TypeOK, Logs, RunStates, RetryStates
<1>8. CASE /\ \E us \in IF queue = <<>> THEN {<<>>} ELSE {<<>>, <<Head(queue)>>} : Turn(<<result>>, us, "model", FALSE)
           /\ made' = made + 1 /\ UNCHANGED <<last, retry, budget>>
  <2> HIDE DEF result
  <2>1. PICK us \in IF queue = <<>> THEN {<<>>} ELSE {<<>>, <<Head(queue)>>} : Turn(<<result>>, us, "model", FALSE)
    BY <1>8
  <2>2. us \in Seq(Nat) /\ Len(us) <= Len(queue)
    BY <1>1, <1>4
  <2>3. /\ messages' \in Seq(Message) /\ entries' \in Seq(Message) /\ shown' \in Seq(Nat)
        /\ queue' \in Seq(Nat) /\ tried' \in BOOLEAN /\ run' \in RunStates /\ log' \in Logs
    BY <1>3, <2>1, <2>2, TurnTyped
  <2> QED
    BY <1>1, <1>5, <1>8, <2>3 DEF TypeOK, Logs, RunStates
<1>9. CASE /\ queue # <<>> /\ Turn(<<answer>>, <<Head(queue)>>, "model", TRUE) /\ Heard(answer)
           /\ made' = made + 1 /\ UNCHANGED budget
  <2> HIDE DEF answer
  <2>1. /\ messages' \in Seq(Message) /\ entries' \in Seq(Message) /\ shown' \in Seq(Nat)
        /\ queue' \in Seq(Nat) /\ tried' \in BOOLEAN /\ run' \in RunStates /\ log' \in Logs
    BY <1>3, <1>4, <1>9, TurnTyped
  <2>2. last' \in Message /\ retry' \in RetryStates
    BY <1>2, <1>9, HeardTyped
  <2> QED
    BY <1>1, <1>5, <1>9, <2>1, <2>2 DEF TypeOK, Logs, RunStates, RetryStates
<1> HIDE DEF call, answer, result
<1> QED
  BY <1>6, <1>7, <1>8, <1>9 DEF RunTurn, call, answer, result

LEMMA RunEndTyped == ASSUME TypeOK, NEW c \in Callers, RunEnd(c) PROVE TypeOK'
<1>1. made + 1 \in Nat
  BY DEF TypeOK
<1>2. PICK stop \in Stops \ {"toolUse"} :
        /\ IF stop \in Errors THEN Spend("errors") ELSE UNCHANGED budget
        /\ Say(<<Response(made + 1, stop)>>, <<>>, Now) /\ Heard(Response(made + 1, stop))
        /\ tried' = (tried /\ (manual.connected => stop \in Errors))
        /\ log' = [log EXCEPT !.detached = @ \/ ~manual.connected,
                              !.continued = IF stop \in Errors THEN @ ELSE 0]
  BY DEF RunEnd
<1> DEFINE r == Response(made + 1, stop)
<1>3. r \in Message
  BY <1>1, ResponseTyped
<1>4. messages' \in Seq(Message) /\ entries' \in Seq(Message) /\ shown' \in Seq(Nat)
      /\ last' \in Message /\ retry' \in RetryStates
  <2>1. Say(<<r>>, <<>>, Now) /\ Heard(r)
    BY <1>2
  <2> HIDE DEF r
  <2>2. <<r>> \in Seq(Message)
    BY <1>3
  <2> QED
    BY <1>3, <2>1, <2>2, NowTyped, SayTyped, HeardTyped
<1>5. budget' \in Budget
  BY <1>2, SpendTyped DEF TypeOK
<1>6. log' \in Logs /\ tried' \in BOOLEAN
  BY <1>2 DEF TypeOK, Logs
<1>7. caller' \in [Callers -> Call]
  BY CallTyped, PcTyped, ZenonT(60) DEF RunEnd, Set
<1>8. run' \in RunStates
  BY DEF RunEnd, TypeOK, RunStates
<1>9. manual' \in [pc : {"idle", "wait", "resolve", "summarize"}, keep : Nat,
                   aborted : BOOLEAN, connected : BOOLEAN]
  BY DEF RunEnd, TypeOK
<1> QED
  BY <1>1, <1>4, <1>5, <1>6, <1>7, <1>8, <1>9 DEF RunEnd, TypeOK, Logs, RunStates, RetryStates

LEMMA PostTyped ==
    ASSUME TypeOK, NEW c \in Callers, PostRetry(c) \/ PostCompact(c) PROVE TypeOK'
<1>1. messages \in Seq(Message) /\ WithoutLast(messages) \in Seq(Message)
  BY WithoutLastFacts DEF TypeOK
<1>2. CASE PostRetry(c)
  <2>1. retry' \in RetryStates
    BY <1>2, RetryTyped DEF PostRetry, TypeOK, RetryStates
  <2>2. caller' \in [Callers -> Call]
    BY <1>2, CallTyped, PcTyped DEF PostRetry
  <2> QED
    BY <1>1, <1>2, <2>1, <2>2, ResponseTyped DEF PostRetry, TypeOK, RetryStates
<1>3. CASE PostCompact(c)
  <2>1. retry' \in RetryStates
    BY <1>3, RetryTyped DEF PostCompact, TypeOK, RetryStates
  <2>2. caller' \in [Callers -> Call] /\ messages' \in Seq(Message) /\ tried' \in BOOLEAN /\ budget' \in Budget
    BY <1>1, <1>3, CompactTyped DEF PostCompact
  <2> QED
    BY <1>3, <2>1, <2>2, ResponseTyped DEF PostCompact, TypeOK, RetryStates
<1> QED
  BY <1>2, <1>3

\* A cut is at an entry that can be kept.
LEMMA CutsAre == ASSUME TypeOK, Kept, NEW k \in Cuts PROVE k \in Nat /\ Keepable(k)
<1> DEFINE p == Compacted(entries)
           from == IF p = 0 THEN 1 ELSE entries[p].n
<1>1. PICK n \in Nat : Len(entries) = n
  BY DEF TypeOK
<1>2. p \in 0 .. n
  BY <1>1, CompactedIs DEF TypeOK
<1>3. from \in 1 .. n + 1
  BY <1>2 DEF Kept, Anchored
<1>4. k \in from + 1 .. n /\ entries[k].role # "toolResult"
  BY <1>1 DEF Cuts
<1> HIDE DEF from
<1>5. k \in 1 .. n
  BY <1>3, <1>4
<1> QED
  BY <1>1, <1>4, <1>5 DEF Keepable, KeepableIn

LEMMA SummarizeTyped == ASSUME TypeOK, Kept, NEW c \in Callers, Summarize(c) PROVE TypeOK'
<1>1. PICK k \in Cuts : caller' = [caller EXCEPT ![c].pc = "summarize", ![c].keep = k]
  BY DEF Summarize
<1>2. k \in Nat
  BY CutsAre
<1>3. caller' \in [Callers -> Call]
  BY <1>1, <1>2, CallTyped, PcTyped
<1> QED
  BY <1>3 DEF Summarize, transcript, TypeOK

LEMMA SteerTyped == ASSUME TypeOK, Steer PROVE TypeOK'
<1>1. made + 1 \in Nat /\ budget' \in Budget
  BY SpendTyped DEF Steer, TypeOK
<1>2. queue' \in Seq(Nat) /\ shown' \in Seq(Nat)
  BY <1>1 DEF Steer, TypeOK
<1> QED
  BY <1>1, <1>2 DEF Steer, transcript, TypeOK

LEMMA SayNowTyped ==
    ASSUME TypeOK, NEW m \in Message, SayNow(m)
    PROVE  messages' \in Seq(Message) /\ entries' \in Seq(Message) /\ log' \in Logs
<1>1. messages \in Seq(Message) /\ entries \in Seq(Message) /\ log \in Logs /\ 0 \in Nat
  BY DEF TypeOK, Logs
<1> QED
  BY <1>1, AppendTyped, LogTyped DEF SayNow

LEMMA CustomTyped == ASSUME TypeOK, Custom PROVE TypeOK'
<1> DEFINE m == Msg("custom", made + 1)
<1>1. made + 1 \in Nat /\ budget' \in Budget
  BY SpendTyped DEF Custom, TypeOK
<1>2. m \in Message
  BY <1>1, ResponseTyped DEF Roles
<1>3. \/ nextTurn' = Append(nextTurn, m) /\ UNCHANGED <<transcript, log>>
      \/ SayNow(m) /\ UNCHANGED nextTurn
  BY DEF Custom
<1> HIDE DEF m
<1>4. nextTurn' \in Seq(Message) /\ messages' \in Seq(Message) /\ entries' \in Seq(Message) /\ log' \in Logs
  <2>0. nextTurn \in Seq(Message) /\ messages \in Seq(Message) /\ entries \in Seq(Message) /\ log \in Logs
    BY DEF TypeOK, Logs
  <2>1. CASE nextTurn' = Append(nextTurn, m) /\ UNCHANGED <<transcript, log>>
    BY <1>2, <2>0, <2>1, AppendTyped DEF transcript
  <2>2. CASE SayNow(m) /\ UNCHANGED nextTurn
    BY <1>2, <2>0, <2>2, SayNowTyped
  <2> QED
    BY <1>3, <2>1, <2>2
<1> QED
  BY <1>1, <1>4 DEF Custom, TypeOK, Logs

LEMMA BashTyped == ASSUME TypeOK, Bash PROVE TypeOK'
<1> DEFINE m == Msg("bash", made + 1)
<1>1. made + 1 \in Nat /\ budget' \in Budget
  BY SpendTyped DEF Bash, TypeOK
<1>2. m \in Message
  BY <1>1, ResponseTyped DEF Roles
<1>3. \/ bash' = Append(bash, m) /\ UNCHANGED <<transcript, log>>
      \/ SayNow(m) /\ UNCHANGED bash
  BY DEF Bash, Record
<1> HIDE DEF m
<1>4. bash' \in Seq(Message) /\ messages' \in Seq(Message) /\ entries' \in Seq(Message) /\ log' \in Logs
  <2>0. bash \in Seq(Message) /\ messages \in Seq(Message) /\ entries \in Seq(Message) /\ log \in Logs
    BY DEF TypeOK, Logs
  <2>1. CASE bash' = Append(bash, m) /\ UNCHANGED <<transcript, log>>
    BY <1>2, <2>0, <2>1, AppendTyped DEF transcript
  <2>2. CASE SayNow(m) /\ UNCHANGED bash
    BY <1>2, <2>0, <2>2, SayNowTyped
  <2> QED
    BY <1>3, <2>1, <2>2
<1> QED
  BY <1>1, <1>4 DEF Bash, TypeOK, Logs

ManualStates == [pc : {"idle", "wait", "resolve", "summarize"}, keep : Nat,
                 aborted : BOOLEAN, connected : BOOLEAN]

LEMMA AbortRetryTyped == ASSUME TypeOK, AbortRetry PROVE caller' \in [Callers -> Call]
<1>1. retry.ctl \in Callers \cup {NoCaller} /\ caller \in [Callers -> Call]
  BY DEF TypeOK
<1> QED
  BY <1>1, AbortedTyped DEF AbortRetry

LEMMA AbortTyped == ASSUME TypeOK, Abort PROVE TypeOK'
<1>1. budget' \in Budget
  BY SpendTyped DEF Abort
<1>2. caller' \in [Callers -> Call]
  <2>1. (IF auto = NoCaller THEN caller ELSE [caller EXCEPT ![auto].aborted = TRUE]) \in [Callers -> Call]
    BY AbortedTyped DEF TypeOK
  <2> QED
    BY <2>1, AbortRetryTyped DEF Abort
<1>3. run' \in RunStates
  BY DEF Abort, RunStates, TypeOK, Streaming
<1>4. manual' \in ManualStates
  <2>1. (manual.pc \in {"resolve", "summarize"}) \in BOOLEAN /\ manual \in ManualStates
    BY DEF ManualStates, TypeOK
  <2>2. [manual EXCEPT !.aborted = manual.pc \in {"resolve", "summarize"}] \in ManualStates
    BY <2>1 DEF ManualStates
  <2> QED
    BY <2>1, <2>2 DEF Abort
<1>5. log' \in Logs
  BY DEF Abort, Logs, TypeOK
<1> QED
  BY <1>1, <1>2, <1>3, <1>4, <1>5 DEF Abort, transcript, TypeOK, Logs, RunStates, ManualStates

LEMMA CompactNowTyped == ASSUME TypeOK, CompactNow PROVE TypeOK'
<1>1. budget' \in Budget
  BY SpendTyped DEF CompactNow
<1>2. caller' \in [Callers -> Call]
  BY AbortRetryTyped DEF CompactNow
<1>3. run' \in RunStates /\ manual' \in ManualStates /\ log' \in Logs
  BY DEF CompactNow, RunStates, TypeOK, Streaming, ManualStates, Logs
<1> QED
  BY <1>1, <1>2, <1>3 DEF CompactNow, transcript, TypeOK, Logs, RunStates, ManualStates

LEMMA CompactResolvedTyped == ASSUME TypeOK, Kept, CompactResolved PROVE TypeOK'
<1>1. manual' \in ManualStates
  <2>1. CASE manual' = IdleManual
    BY <2>1 DEF IdleManual, ManualStates
  <2>2. CASE \E k \in Cuts : manual' = [manual EXCEPT !.pc = "summarize", !.keep = k]
    BY <2>2, CutsAre DEF ManualStates, TypeOK
  <2> QED
    BY <2>1, <2>2 DEF CompactResolved
<1> QED
  BY <1>1, ZenonT(60) DEF CompactResolved, transcript, TypeOK, ManualStates

LEMMA CompactDoneTyped == ASSUME TypeOK, Kept, CompactDone PROVE TypeOK'
<1> DEFINE t == Landing(manual.keep, FALSE)
<1>1. manual.keep \in Nat /\ Keepable(manual.keep)
  BY DEF CompactDone, Kept, TypeOK
<1>2. t.messages \in Seq(Message) /\ t.entries \in Seq(Message)
  BY <1>1, LandingIs
<1>3. Compaction(manual.keep).messages = t.messages /\ Compaction(manual.keep).entries = t.entries
  BY DEF Compaction, Landing, Transcript
<1>4. messages' \in Seq(Message) /\ entries' \in Seq(Message)
  <2> HIDE DEF t
  <2> QED
    BY <1>2, <1>3 DEF CompactDone, transcript, TypeOK
<1>5. manual' \in ManualStates
  BY DEF CompactDone, IdleManual, ManualStates
<1> QED
  BY <1>4, <1>5 DEF CompactDone, TypeOK, ManualStates

-----------------------------------------------------------------------------
(* Where the calls are: the structure of every state                       *)

Mid(c) == caller[c].pc \in {"resolve", "summarize"} /\ ~caller[c].pre

Owners ==
    /\ \A c \in Callers : caller[c].pc = "running" <=> run.owner = c
    /\ run.owner = NoCaller => run.step = "start"
    /\ \A c, d \in Callers : caller[c].pc = "post" /\ caller[d].pc = "post" => c = d
    /\ manual.connected <=> manual.pc = "idle"
CallOK(call) ==
    /\ call.pre => call.pc \in {"resolve", "summarize"}
    /\ call.pc \in {"idle", "running", "post", "sleep"} => call.msg = 0
    /\ call.pc \in {"resolve", "summarize"} /\ ~call.pre => call.msg = 0
    /\ call.pc # "before" => call.extra = <<>>
    /\ call.pc \in {"input", "before"} => call.msg # 0
    /\ call.pre => call.msg # 0
Called == \A c \in Callers : CallOK(caller[c])

StepOf(c) ==
    \/ Prompt(c) \/ Queued(c) \/ Declined(c) \/ Preflight(c) \/ Send(c) \/ RunTurn(c) \/ RunEnd(c)
    \/ PostRetry(c) \/ PostCompact(c) \/ Summarize(c) \/ \E t : Landed(c, t) \/ Resume(c, t)
Apart == Steer \/ Custom \/ Bash \/ Abort \/ CompactNow \/ CompactResolved \/ CompactDone

\* Every step of the session is a step of one call or stands apart from the calls.
LEMMA Steps ==
    ASSUME TypeOK, Kept, Called, Next
    PROVE  (\E c \in Callers : StepOf(c)) \/ Apart
<1>1. ASSUME NEW c \in Callers, CallStep(c) PROVE StepOf(c)
  <2>1. CASE PostRun(c)
    <3>1. caller[c].pc = "post"
      BY <2>1 DEF PostRun
    <3>2. ~caller[c].pre
      BY <3>1 DEF Called, CallOK
    <3> QED
      BY <2>1, <3>2, PostSteps DEF StepOf
  <2>2. CASE SleepDone(c)
    <3>1. caller[c].pc = "sleep"
      BY <2>2 DEF SleepDone
    <3>2. ~caller[c].pre
      BY <3>1 DEF Called, CallOK
    <3> QED
      BY <2>2, <3>2, SleepSteps DEF StepOf
  <2>3. CASE Resolved(c)
    BY <2>3, ResolveSteps DEF StepOf
  <2>4. CASE Summarized(c)
    BY <2>4, SummarySteps DEF StepOf
  <2> QED
    BY <1>1, <2>1, <2>2, <2>3, <2>4 DEF CallStep, StepOf
<1> QED
  BY <1>1 DEF Next, StepOf, Apart

LEMMA StepTyped == ASSUME TypeOK, Kept, NEW c \in Callers, StepOf(c) PROVE TypeOK'
  BY PromptTyped, QueuedTyped, DeclinedTyped, PreflightTyped, SendTyped, RunTurnTyped, RunEndTyped,
     PostTyped, SummarizeTyped, LandedTyped, ResumeTyped, Zenon DEF StepOf

LEMMA ApartTyped == ASSUME TypeOK, Kept, Apart PROVE TypeOK'
  BY SteerTyped, CustomTyped, BashTyped, AbortTyped, CompactNowTyped, CompactResolvedTyped, CompactDoneTyped, Zenon
     DEF Apart

\* One call goes on to x; the others stay where they are.
LEMMA CalledOne ==
    ASSUME TypeOK, Called, NEW c \in Callers, NEW x, caller' = [caller EXCEPT ![c] = x], CallOK(x)
    PROVE  Called'
<1>1. \A d \in Callers : caller'[d] = IF d = c THEN x ELSE caller[d]
  BY DEF TypeOK
<1> QED
  BY <1>1 DEF Called, CallOK

\* Where a step of c takes its call.
LEMMA CallAfter ==
    ASSUME TypeOK, Owners, Called, Kept, NEW c \in Callers, StepOf(c)
    PROVE  \E x \in Call : caller' = [caller EXCEPT ![c] = x] /\ CallOK(x)
<1>1. caller \in [Callers -> Call] /\ caller[c] \in Call /\ CallOK(caller[c]) /\ made + 1 \in Nat /\ made + 1 # 0
      /\ caller[c].msg \in Nat /\ nextTurn \in Seq(Message) /\ made \in Nat
  <2>1. made \in Nat /\ caller \in [Callers -> Call] /\ nextTurn \in Seq(Message)
    BY DEF TypeOK
  <2>2. made + 1 \in Nat /\ made + 1 # 0
    BY <2>1
  <2>3. caller[c] \in Call /\ caller[c].msg \in Nat /\ CallOK(caller[c])
    BY <2>1 DEF Called, Call
  <2> QED
    BY <2>1, <2>2, <2>3
<1>2. CASE Prompt(c)
  <2> DEFINE x == [NoCall EXCEPT !.pc = "input", !.msg = made + 1]
  <2>1. x \in Call /\ CallOK(x)
    BY <1>1, NoCallTyped DEF NoCall, Call, CallerPc, CallOK
  <2> QED
    BY <1>2, <2>1 DEF Prompt
<1>3. NoCall \in Call /\ CallOK(NoCall)
  BY NoCallTyped DEF CallOK, NoCall
<1>4. CASE End(c)
  BY <1>3, <1>4 DEF End
<1>5. CASE Queued(c) \/ Declined(c)
  BY <1>4, <1>5 DEF Queued, Declined
<1>6. ASSUME BeforeStart(c), caller[c].msg # 0
      PROVE  \E x \in Call : caller' = [caller EXCEPT ![c] = x] /\ CallOK(x)
  <2> DEFINE x == [NoCall EXCEPT !.pc = "before", !.msg = caller[c].msg, !.extra = nextTurn]
  <2>1. x \in Call /\ CallOK(x)
    BY <1>1, <1>6, NoCallTyped DEF NoCall, Call, CallerPc, CallOK
  <2> QED
    BY <1>6, <2>1 DEF BeforeStart
<1>7. ASSUME NEW r, NEW m, NEW pre \in BOOLEAN, Compact(c, r, pre, m), caller[c].extra = <<>>,
             IF pre THEN caller[c].msg # 0 ELSE caller[c].msg = 0
      PROVE  \E x \in Call : caller' = [caller EXCEPT ![c] = x] /\ CallOK(x)
  <2> DEFINE w == Overflown(r)
             x == [caller[c] EXCEPT !.pc = "resolve", !.pre = pre, !.aborted = FALSE, !.willRetry = w]
  <2>1. w \in BOOLEAN
    BY DEF Overflown
  <2>2. caller' = [caller EXCEPT ![c].pc = "resolve", ![c].pre = pre, ![c].aborted = FALSE, ![c].willRetry = w]
    BY <1>7 DEF Compact
  <2> HIDE DEF w
  <2>3. x \in Call /\ CallOK(x)
    BY <1>1, <1>7, <2>1 DEF CallOK, Call, CallerPc
  <2>4. caller' = [caller EXCEPT ![c] = x]
    BY <1>1, <2>2
  <2> QED
    BY <2>3, <2>4
<1>8. CASE Preflight(c)
  <2>1. caller[c].msg # 0 /\ caller[c].extra = <<>>
    BY <1>1, <1>8 DEF Preflight, CallOK
  <2> DEFINE r == messages[Max(Responses)]
  <2>2. BeforeStart(c) \/ Compact(c, r, TRUE, messages \o bash)
    BY <1>8 DEF Preflight
  <2> HIDE DEF r
  <2> QED
    BY <1>6, <1>7, <2>1, <2>2
<1>9. ASSUME NEW t, NEW us, NEW extra, StartRun(c, t, us, extra)
      PROVE  \E x \in Call : caller' = [caller EXCEPT ![c] = x] /\ CallOK(x)
  <2> DEFINE x == [NoCall EXCEPT !.pc = "running"]
  <2>1. x \in Call /\ CallOK(x)
    BY NoCallTyped DEF NoCall, Call, CallerPc, CallOK
  <2> QED
    BY <1>9, <2>1 DEF StartRun
<1>10. CASE Send(c)
  BY <1>4, <1>9, <1>10 DEF Send, Finally
<1>11. CASE RunTurn(c)
  <2>1. caller' = [caller EXCEPT ![c] = caller[c]]
    BY <1>1, <1>11 DEF RunTurn
  <2> QED
    BY <1>1, <2>1
<1>12. CASE RunEnd(c) \/ PostRetry(c)
  <2> DEFINE x == [caller[c] EXCEPT !.pc = "post"]
             y == [caller[c] EXCEPT !.pc = "sleep", !.aborted = FALSE]
  <2>1. CASE RunEnd(c)
    <3>1. caller[c].pc = "running"
      BY <2>1 DEF RunEnd, Owners
    <3>2. x \in Call /\ CallOK(x)
      BY <1>1, <3>1 DEF Call, CallerPc, CallOK
    <3>3. caller' = [caller EXCEPT ![c] = x]
      BY <1>1, <2>1 DEF RunEnd, Set
    <3> QED
      BY <3>2, <3>3
  <2>2. CASE PostRetry(c)
    <3>1. caller[c].pc = "post"
      BY <2>2 DEF PostRetry
    <3>2. y \in Call /\ CallOK(y)
      BY <1>1, <3>1 DEF Call, CallerPc, CallOK
    <3>3. caller' = [caller EXCEPT ![c] = y]
      BY <1>1, <2>2 DEF PostRetry
    <3> QED
      BY <3>2, <3>3
  <2> QED
    BY <1>12, <2>1, <2>2
<1>13. CASE PostCompact(c)
  BY <1>1, <1>7, <1>13 DEF PostCompact, CallOK
<1>14. CASE Summarize(c)
  <2>1. PICK k \in Cuts : caller' = [caller EXCEPT ![c].pc = "summarize", ![c].keep = k]
    BY <1>14 DEF Summarize
  <2>2. k \in Nat /\ caller[c].pc = "resolve"
    BY <1>14, CutsAre DEF Summarize
  <2> DEFINE x == [caller[c] EXCEPT !.pc = "summarize", !.keep = k]
  <2>3. x \in Call /\ CallOK(x)
    BY <1>1, <2>2 DEF Call, CallerPc, CallOK
  <2>4. caller' = [caller EXCEPT ![c] = x]
    BY <1>1, <2>1
  <2> QED
    BY <2>3, <2>4
<1>15. ASSUME NEW t, Landed(c, t)
       PROVE  \E x \in Call : caller' = [caller EXCEPT ![c] = x] /\ CallOK(x)
  BY <1>1, <1>6, <1>15 DEF Landed, CallOK
<1>16. ASSUME NEW t, Resume(c, t)
       PROVE  \E x \in Call : caller' = [caller EXCEPT ![c] = x] /\ CallOK(x)
  BY <1>4, <1>9, <1>16 DEF Resume, GoesOn, Again, Further, Halt, Finally
<1> QED
  BY <1>2, <1>5, <1>8, <1>10, <1>11, <1>12, <1>13, <1>14, <1>15, <1>16 DEF StepOf

LEMMA OwnersSame ==
    ASSUME Owners, TypeOK, NEW c \in Callers, UNCHANGED <<run, manual>>,
           \A d \in Callers \ {c} : caller'[d].pc = caller[d].pc,
           caller[c].pc # "running", caller'[c].pc \notin {"running", "post"}
    PROVE  Owners'
  BY DEF Owners

\* A step of one call leaves the other calls alone.
LEMMA PcOthers ==
    ASSUME TypeOK, Owners, Called, Kept, NEW c \in Callers, StepOf(c)
    PROVE  \A d \in Callers \ {c} : caller'[d] = caller[d]
  BY CallAfter DEF TypeOK

\* A run has one owner, and one call at a time has just ended its run.
LEMMA OwnersStep ==
    ASSUME TypeOK, Owners, Called, Kept, NEW c \in Callers, StepOf(c)
    PROVE  Owners'
<1>1. caller \in [Callers -> Call] /\ NoCaller \notin Callers
  BY SessionAssumption DEF TypeOK
<1>2. \A d \in Callers \ {c} : caller'[d] = caller[d]
  BY PcOthers
<1>3. CASE End(c) /\ UNCHANGED <<run, manual>> /\ caller[c].pc # "running"
  <2>1. caller'[c].pc = "idle"
    BY <1>1, <1>3 DEF End, NoCall
  <2> QED
    BY <1>2, <1>3, <2>1, OwnersSame
<1>4. CASE BeforeStart(c) /\ UNCHANGED <<run, manual>> /\ caller[c].pc # "running"
  <2>1. caller'[c].pc = "before"
    BY <1>1, <1>4 DEF BeforeStart, NoCall
  <2> QED
    BY <1>2, <1>4, <2>1, OwnersSame
<1>5. ASSUME NEW r, NEW m, NEW pre, Compact(c, r, pre, m), UNCHANGED <<run, manual>>, caller[c].pc # "running"
      PROVE  Owners'
  <2>1. caller'[c].pc = "resolve"
    BY <1>1, <1>5 DEF Compact
  <2> QED
    BY <1>2, <1>5, <2>1, OwnersSame
<1>6. ASSUME NEW t, NEW us, NEW extra, StartRun(c, t, us, extra), ~Streaming, UNCHANGED manual
      PROVE  Owners'
  <2>1. caller'[c].pc = "running" /\ run'.owner = c
    BY <1>1, <1>6 DEF StartRun, NoCall
  <2>2. \A d \in Callers : caller[d].pc # "running"
    BY <1>1, <1>6 DEF Streaming, Owners
  <2>3. manual' = manual
    BY <1>6
  <2> QED
    BY <1>1, <1>2, <2>1, <2>2, <2>3 DEF Owners
<1>7. CASE Prompt(c)
  <2>1. caller[c].pc = "idle" /\ caller'[c].pc = "input" /\ UNCHANGED <<run, manual>>
    BY <1>1, <1>7 DEF Prompt, NoCall
  <2> QED
    BY <1>2, <2>1, OwnersSame
<1>8. CASE Queued(c) \/ Declined(c)
  BY <1>3, <1>8 DEF Queued, Declined
<1>9. CASE Preflight(c)
  <2> DEFINE r == messages[Max(Responses)]
  <2>1. BeforeStart(c) \/ Compact(c, r, TRUE, messages \o bash)
    BY <1>9 DEF Preflight
  <2>2. caller[c].pc = "input" /\ UNCHANGED <<run, manual>>
    BY <1>9 DEF Preflight
  <2> HIDE DEF r
  <2> QED
    BY <1>4, <1>5, <2>1, <2>2
<1>10. CASE Send(c)
  <2>1. caller[c].pc = "before" /\ UNCHANGED manual
    BY <1>10 DEF Send
  <2>2. CASE ~Streaming /\ StartRun(c, Now, <<caller[c].msg>>, caller[c].extra)
    BY <1>6, <2>1, <2>2
  <2>3. CASE Finally(c, Now) /\ UNCHANGED run
    BY <1>3, <2>1, <2>3 DEF Finally
  <2> QED
    BY <1>10, <2>2, <2>3 DEF Send
<1>11. CASE RunTurn(c)
  <2>1. run.owner = c /\ \E step : run' = [run EXCEPT !.step = step]
    BY <1>11 DEF RunTurn, Turn
  <2>2. UNCHANGED <<caller, manual>>
    BY <1>11 DEF RunTurn
  <2>3. run'.owner = c
    BY <2>1 DEF TypeOK
  <2> QED
    BY <1>1, <2>1, <2>2, <2>3 DEF Owners
<1>12. CASE RunEnd(c)
  <2>1. run.owner = c /\ Calm /\ run' = [run EXCEPT !.owner = NoCaller, !.step = "start", !.aborted = FALSE]
        /\ manual' = IF manual.pc = "wait" THEN [manual EXCEPT !.pc = "resolve"] ELSE manual
    BY <1>12 DEF RunEnd
  <2>2. caller'[c].pc = "post"
    BY <1>1, <1>12 DEF RunEnd, Set
  <2>3. run'.owner = NoCaller /\ run'.step = "start"
    BY <2>1 DEF TypeOK
  <2>4. manual'.connected <=> manual'.pc = "idle"
    BY <2>1 DEF TypeOK, Owners
  <2> QED
    BY <1>1, <1>2, <2>1, <2>2, <2>3, <2>4 DEF Owners, Calm
<1>13. CASE PostRetry(c)
  <2>1. caller'[c].pc = "sleep" /\ caller[c].pc = "post" /\ UNCHANGED <<run, manual>>
    BY <1>1, <1>13 DEF PostRetry
  <2> QED
    BY <1>2, <2>1, OwnersSame
<1>14. CASE PostCompact(c)
  <2>1. caller[c].pc = "post" /\ UNCHANGED <<run, manual>> /\ Compact(c, last, FALSE, messages)
    BY <1>14 DEF PostCompact
  <2> QED
    BY <1>5, <2>1
<1>15. CASE Summarize(c)
  <2>1. caller'[c].pc = "summarize" /\ caller[c].pc = "resolve" /\ UNCHANGED <<run, manual>>
    BY <1>1, <1>15 DEF Summarize
  <2> QED
    BY <1>2, <2>1, OwnersSame
<1>16. ASSUME NEW t, Landed(c, t) PROVE Owners'
  BY <1>4, <1>16 DEF Landed
<1>17. ASSUME NEW t, Resume(c, t) PROVE Owners'
  <2>1. caller[c].pc \in {"post", "sleep", "resolve", "summarize"} /\ UNCHANGED manual /\ GoesOn(c, t)
    BY <1>17 DEF Resume
  <2>2. CASE Halt(c, t)
    BY <1>3, <2>1, <2>2 DEF Halt, Finally
  <2>3. CASE Again(c, t) \/ Further(c, t)
    BY <1>6, <2>1, <2>3 DEF Again, Further
  <2> QED
    BY <2>1, <2>2, <2>3 DEF GoesOn
<1> QED
  BY <1>7, <1>8, <1>9, <1>10, <1>11, <1>12, <1>13, <1>14, <1>15, <1>16, <1>17 DEF StepOf

\* What is not a step of a call leaves each call where it is.
LEMMA ApartCalls ==
    ASSUME TypeOK, Apart
    PROVE  \A c \in Callers : caller'[c] \in {caller[c], [caller[c] EXCEPT !.aborted = TRUE]}
<1>1. caller \in [Callers -> Call] /\ retry.ctl \in Callers \cup {NoCaller} /\ auto \in Callers \cup {NoCaller}
  BY DEF TypeOK
<1>2. UNCHANGED caller \/ AbortRetry \/ (caller' = [caller EXCEPT ![auto].aborted = TRUE] /\ auto \in Callers)
  BY <1>1 DEF Apart, Steer, Custom, Bash, Abort, CompactNow, CompactResolved, CompactDone
<1>3. UNCHANGED caller \/ \E a \in Callers : caller' = [caller EXCEPT ![a].aborted = TRUE]
  BY <1>1, <1>2 DEF AbortRetry
<1> QED
  BY <1>1, <1>3

\* Abort touches nothing of a call but whether it was aborted.
LEMMA ApartSame ==
    ASSUME TypeOK, Apart
    PROVE  \A c \in Callers : /\ caller'[c].pc = caller[c].pc /\ caller'[c].msg = caller[c].msg
                              /\ caller'[c].extra = caller[c].extra /\ caller'[c].pre = caller[c].pre
                              /\ caller'[c].keep = caller[c].keep /\ caller'[c].willRetry = caller[c].willRetry
<1> SUFFICES ASSUME NEW c \in Callers
             PROVE  /\ caller'[c].pc = caller[c].pc /\ caller'[c].msg = caller[c].msg
                    /\ caller'[c].extra = caller[c].extra /\ caller'[c].pre = caller[c].pre
                    /\ caller'[c].keep = caller[c].keep /\ caller'[c].willRetry = caller[c].willRetry
  OBVIOUS
<1>1. caller[c] \in Call
  BY DEF TypeOK
<1>2. caller'[c] = caller[c] \/ caller'[c] = [caller[c] EXCEPT !.aborted = TRUE]
  BY ApartCalls
<1> QED
  BY <1>1, <1>2 DEF Call

LEMMA CalledKept ==
    ASSUME TypeOK, Owners, Called, Kept, (\E c \in Callers : StepOf(c)) \/ Apart
    PROVE  Called'
<1>1. CASE \E c \in Callers : StepOf(c)
  BY <1>1, CallAfter, CalledOne
<1>2. CASE Apart
  BY <1>2, ApartSame DEF Called, CallOK
<1> QED
  BY <1>1, <1>2

LEMMA OwnersApart ==
    ASSUME TypeOK, Owners, Apart
    PROVE  Owners'
<1>1. run'.owner = run.owner /\ run'.step = run.step
  BY DEF Apart, Steer, Custom, Bash, Abort, CompactNow, CompactResolved, CompactDone, TypeOK
<1>2. manual'.connected <=> manual'.pc = "idle"
  <2>1. CASE Steer \/ Custom \/ Bash
    BY <2>1 DEF Steer, Custom, Bash, Owners
  <2>2. CASE Abort
    <3>1. manual'.connected = manual.connected /\ manual'.pc = manual.pc
      BY <2>2 DEF Abort, TypeOK
    <3> QED
      BY <3>1 DEF Owners
  <2>3. CASE CompactNow
    BY <2>3 DEF CompactNow
  <2>4. CASE manual' = IdleManual
    BY <2>4 DEF IdleManual
  <2>5. CASE \E k \in Cuts : manual' = [manual EXCEPT !.pc = "summarize", !.keep = k] /\ manual.pc = "resolve"
    <3>1. manual'.connected = manual.connected /\ manual'.pc = "summarize" /\ manual.pc = "resolve"
      BY <2>5 DEF TypeOK
    <3> QED
      BY <3>1 DEF Owners
  <2> QED
    BY <2>1, <2>2, <2>3, <2>4, <2>5 DEF Apart, CompactResolved, CompactDone
<1> QED
  BY <1>1, <1>2, ApartSame DEF Owners

-----------------------------------------------------------------------------
(* What a step says                                                        *)

Rooted == /\ messages # <<>> => messages[1].role # "assistant"
          /\ \A c \in Callers : Posting(c) => messages # <<>>
Overlapping == \A c, d \in Callers : Posting(c) /\ Posting(d) /\ c # d => log.overlap
Structure == Owners /\ Called /\ Roled /\ Kept /\ Rooted /\ Overlapping
Step == (\E c \in Callers : StepOf(c)) \/ Apart

LEMMA PlainAppend ==
    ASSUME NEW s \in Seq(Message), NEW role, NEW n \in Nat, role \in Roles, Plain(s, role)
    PROVE  Plain(Append(s, Msg(role, n)), role)
<1> DEFINE m == Msg(role, n)
<1>1. m.role = role /\ m.stop = "stop" /\ m \in Message
  BY ResponseTyped DEF Msg
<1> HIDE DEF m
<1>2. PICK l \in Nat : Len(s) = l
  OBVIOUS
<1>3. DOMAIN Append(s, m) = 1 .. l + 1 /\ Append(s, m)[l + 1] = m /\ \A i \in 1 .. l : Append(s, m)[i] = s[i]
  BY <1>2
<1>4. ASSUME NEW k \in 1 .. l + 1 PROVE Append(s, m)[k].role = role /\ Append(s, m)[k].stop = "stop"
  BY <1>1, <1>2, <1>3 DEF Plain
<1>5. Plain(Append(s, m), role)
  BY <1>3, <1>4 DEF Plain
<1> QED
  BY <1>5 DEF m

LEMMA PlainEmpty == \A role : Plain(<<>>, role)
  BY DEF Plain

\* Waiting shell output is shell output, and messages for the next prompt are custom ones.
LEMMA RoledStep ==
    ASSUME TypeOK, Owners, Called, Kept, Roled, NEW c \in Callers, StepOf(c)
    PROVE  Roled'
<1>1. caller \in [Callers -> Call]
  BY DEF TypeOK
<1>2. \A d \in Callers \ {c} : caller'[d] = caller[d]
  BY PcOthers
<1>3. bash' \in {bash, <<>>}
  BY DEF StepOf, Prompt, Queued, Declined, Flush, Preflight, Send, StartRun, Finally, RunTurn, RunEnd, PostRetry,
         PostCompact, Summarize, Landed, Resume, GoesOn, Again, Further, Halt
<1>4. nextTurn' \in {nextTurn, <<>>}
  BY DEF StepOf, Prompt, Queued, Declined, Preflight, BeforeStart, Send, RunTurn, RunEnd, PostRetry,
         PostCompact, Summarize, Landed, Resume
<1>5. caller'[c].extra \in {<<>>, nextTurn, caller[c].extra}
  <2>1. CASE BeforeStart(c)
    BY <1>1, <2>1 DEF BeforeStart, NoCall
  <2>2. CASE End(c)
    BY <1>1, <2>2 DEF End, NoCall
  <2>3. ASSUME NEW r, NEW m, NEW pre, Compact(c, r, pre, m) PROVE caller'[c].extra = caller[c].extra
    BY <1>1, <2>3 DEF Compact, Call
  <2>4. ASSUME NEW t, NEW us, NEW extra, StartRun(c, t, us, extra) PROVE caller'[c].extra = <<>>
    BY <1>1, <2>4 DEF StartRun, NoCall
  <2>5. CASE Preflight(c)
    <3> DEFINE r == messages[Max(Responses)]
    <3>1. BeforeStart(c) \/ Compact(c, r, TRUE, messages \o bash)
      BY <2>5 DEF Preflight
    <3> HIDE DEF r
    <3> QED
      BY <2>1, <2>3, <3>1
  <2>6. CASE Prompt(c) \/ RunTurn(c) \/ RunEnd(c) \/ PostRetry(c) \/ Summarize(c)
    <3>1. CASE Prompt(c)
      BY <1>1, <3>1 DEF Prompt, NoCall
    <3>2. CASE RunTurn(c)
      BY <3>2 DEF RunTurn
    <3>3. CASE RunEnd(c) \/ PostRetry(c)
      <4>1. caller[c] \in Call
        BY <1>1
      <4>2. \/ caller' = [caller EXCEPT ![c].pc = "post"]
            \/ caller' = [caller EXCEPT ![c].pc = "sleep", ![c].aborted = FALSE]
        BY <3>3 DEF RunEnd, Set, PostRetry
      <4>3. caller'[c].extra = caller[c].extra
        BY <1>1, <4>1, <4>2 DEF Call
      <4> QED
        BY <4>3
    <3>4. CASE Summarize(c)
      BY <1>1, <3>4 DEF Summarize, Call
    <3> QED
      BY <2>6, <3>1, <3>2, <3>3, <3>4
  <2>7. CASE Queued(c) \/ Declined(c) \/ Send(c)
    BY <2>2, <2>4, <2>7 DEF Queued, Declined, Send, Finally
  <2>8. CASE PostCompact(c)
    BY <2>3, <2>8 DEF PostCompact
  <2>9. ASSUME NEW t, Landed(c, t) \/ Resume(c, t) PROVE caller'[c].extra \in {<<>>, nextTurn, caller[c].extra}
    BY <2>1, <2>2, <2>4, <2>9 DEF Landed, Resume, GoesOn, Again, Further, Halt, Finally
  <2> QED
    BY <2>5, <2>6, <2>7, <2>8, <2>9 DEF StepOf
<1>6. Plain(bash', "bash") /\ Plain(nextTurn', "custom")
  BY <1>3, <1>4, PlainEmpty DEF Roled
<1>7. \A d \in Callers : Plain(caller'[d].extra, "custom")
  BY <1>2, <1>5, PlainEmpty DEF Roled
<1> QED
  BY <1>6, <1>7 DEF Roled

LEMMA RoledApart ==
    ASSUME TypeOK, Roled, Apart
    PROVE  Roled'
<1>1. \A d \in Callers : Plain(caller'[d].extra, "custom")
  BY ApartSame DEF Roled
<1>2. bash \in Seq(Message) /\ nextTurn \in Seq(Message) /\ made + 1 \in Nat /\ "bash" \in Roles /\ "custom" \in Roles
  BY DEF TypeOK, Roles
<1>3. bash' \in {bash, Append(bash, Msg("bash", made + 1))} /\ nextTurn' \in {nextTurn, Append(nextTurn, Msg("custom", made + 1))}
  BY DEF Apart, Steer, Custom, Bash, Record, Abort, CompactNow, CompactResolved, CompactDone
<1>4. Plain(bash', "bash")
  BY <1>2, <1>3, PlainAppend DEF Roled
<1>5. Plain(nextTurn', "custom")
  BY <1>2, <1>3, PlainAppend DEF Roled
<1> QED
  BY <1>1, <1>4, <1>5 DEF Roled

\* What a step does to the context and the file: ms is said on a transcript, or a
\* response is taken out of the context.
SaidOn(t, ms) == /\ Source(t) /\ ms \in Seq(Message) /\ Spoken(ms)
                 /\ messages' = t.messages \o ms /\ entries' \in {t.entries \o ms, t.entries}
                 /\ ms # <<>> /\ ms[1].role = "assistant" => messages # <<>> /\ t = Now
Taken(ms) == /\ ms \in {<<>>, bash}
             /\ messages' = WithoutLast(messages \o ms) /\ entries' = entries \o ms

LEMMA EmptySaid == ASSUME TypeOK, Kept, NEW t, Source(t), messages' = t.messages, entries' = t.entries PROVE SaidOn(t, <<>>)
<1>1. t.messages \in Seq(Message) /\ t.entries \in Seq(Message)
  BY SourceIs
<1> QED
  BY <1>1 DEF SaidOn, Spoken

LEMMA SameSaid == ASSUME TypeOK, Kept, messages' = messages, entries' = entries PROVE SaidOn(Now, <<>>)
  BY EmptySaid, NowIs DEF Source

LEMMA BashSpoken == ASSUME TypeOK, Roled PROVE bash \in Seq(Message) /\ Spoken(bash) /\ (bash # <<>> => bash[1].role # "assistant")
<1>1. bash \in Seq(Message) /\ Plain(bash, "bash")
  BY DEF TypeOK, Roled
<1>2. bash # <<>> => 1 \in DOMAIN bash
  BY <1>1
<1> QED
  BY <1>1, <1>2, PlainSpoken DEF Plain

LEMMA FlushSaid == ASSUME TypeOK, Kept, Roled, NEW t, Source(t), Flush(t) PROVE SaidOn(t, bash)
  BY BashSpoken DEF SaidOn, Flush

LEMMA SaySaid ==
    ASSUME TypeOK, Kept, NEW t, Source(t), NEW ms \in Seq(Message), NEW us, Say(ms, us, t), Spoken(ms),
           ms # <<>> /\ ms[1].role = "assistant" => messages # <<>> /\ t = Now
    PROVE  SaidOn(t, ms)
  BY DEF SaidOn, Say

LEMMA OneSpoken ==
    ASSUME NEW m \in Message, m.role # "compaction"
    PROVE  <<m>> \in Seq(Message) /\ Spoken(<<m>>) /\ <<m>>[1] = m
  BY DEF Spoken

LEMMA StartSaid ==
    ASSUME TypeOK, Kept, Roled, NEW c, NEW t, Source(t), NEW us \in Seq(Nat), NEW extra \in Seq(Message),
           Plain(extra, "custom"), StartRun(c, t, us, extra)
    PROVE  /\ SaidOn(t, Users(us) \o extra)
           /\ us # <<>> => messages' # <<>>
<1> DEFINE ms == Users(us) \o extra
<1>1. Users(us) \in Seq(Message) /\ Plain(Users(us), "user") /\ Len(Users(us)) = Len(us)
  BY UsersAre
<1>2. Spoken(Users(us)) /\ Spoken(extra)
  BY <1>1, PlainSpoken
<1>3. Spoken(ms) /\ ms \in Seq(Message)
  <2> HIDE DEF ms
  <2> QED
    BY <1>1, <1>2, SpokenConcat DEF ms
<1>4. ms # <<>> => ms[1].role # "assistant"
  <2>1. PICK n \in Nat, l \in Nat : Len(Users(us)) = n /\ Len(extra) = l
    BY <1>1
  <2>2. SUFFICES ASSUME ms # <<>> PROVE ms[1].role # "assistant"
    OBVIOUS
  <2>3. 1 \in DOMAIN (Users(us) \o extra)
    BY <1>3, <2>2
  <2>4. \/ 1 \in 1 .. n /\ (Users(us) \o extra)[1] = Users(us)[1]
        \/ \E i \in 1 .. l : 1 = n + i /\ (Users(us) \o extra)[1] = extra[i]
    BY <1>1, <2>1, <2>3, ConcatPick
  <2> QED
    BY <1>1, <2>1, <2>4 DEF Plain
<1>5. SaidOn(t, ms)
  <2>1. Say(ms, us, t)
    BY DEF StartRun
  <2> HIDE DEF ms
  <2> QED
    BY <1>3, <1>4, <2>1, SaySaid
<1>6. ASSUME us # <<>> PROVE messages' # <<>>
  <2>1. PICK u \in Nat, n \in Nat, l \in Nat : Len(us) = u /\ u # 0 /\ Len(extra) = l /\ Len(t.messages) = n
    BY <1>6, SourceIs
  <2>2. Len(ms) = u + l
    BY <1>1, <2>1, ConcatIs
  <2>3. Len(t.messages \o ms) = n + (u + l)
    <3> HIDE DEF ms
    <3> QED
      BY <1>3, <2>1, <2>2, SourceIs, ConcatIs
  <2>4. messages' = t.messages \o ms
    BY DEF StartRun, Say
  <2>5. n + (u + l) # 0
    BY <2>1
  <2>6. Len(messages') # 0
    BY <2>3, <2>4, <2>5
  <2> QED
    BY <2>6
<1> QED
  BY <1>5, <1>6

LEMMA TurnSaid ==
    ASSUME TypeOK, Kept, messages # <<>>, NEW ms \in Seq(Message), Spoken(ms), NEW us \in Seq(Nat),
           NEW step, NEW good, Turn(ms, us, step, good)
    PROVE  SaidOn(Now, ms \o Users(us))
<1>1. Users(us) \in Seq(Message) /\ Plain(Users(us), "user")
  BY UsersAre
<1>2. Spoken(Users(us))
  BY <1>1, PlainSpoken
<1>3. ms \o Users(us) \in Seq(Message) /\ Spoken(ms \o Users(us))
  BY <1>1, <1>2, SpokenConcat
<1> DEFINE all == ms \o Users(us)
<1>4. Say(all, us, Now) /\ Source(Now)
  BY DEF Turn, Source
<1>5. all \in Seq(Message) /\ Spoken(all)
  BY <1>3
<1> HIDE DEF all
<1>6. SaidOn(Now, all)
  BY <1>4, <1>5, SaySaid
<1> QED
  BY <1>6 DEF all

LEMMA RunTurnSaid ==
    ASSUME TypeOK, Owners, Kept, Rooted, NEW c \in Callers, RunTurn(c)
    PROVE  \E ms : SaidOn(Now, ms)
<1> DEFINE call == Response(made + 1, "toolUse")
           answer == Response(made + 1, "stop")
           result == Msg("toolResult", made + 1)
<1>1. made + 1 \in Nat /\ queue \in Seq(Nat) /\ <<>> \in Seq(Message) /\ <<>> \in Seq(Nat)
  BY DEF TypeOK
<1>2. call \in Message /\ answer \in Message /\ result \in Message
      /\ call.role # "compaction" /\ answer.role # "compaction" /\ result.role # "compaction"
  BY <1>1, ResponseTyped DEF Stops, Roles, Response, Msg
<1>3. queue # <<>> => <<Head(queue)>> \in Seq(Nat)
  BY <1>1, HeadTyped
<1>4. messages # <<>>
  <2>1. caller[c].pc = "running"
    BY DEF RunTurn, Owners
  <2> QED
    BY <2>1 DEF Rooted, Posting
<1>5. \E ms \in {<<>>, <<call>>, <<answer>>, <<result>>} : \E us \in {<<>>, <<Head(queue)>>} :
         \E step, good : (us = <<>> \/ queue # <<>>) /\ Turn(ms, us, step, good)
  BY DEF RunTurn
<1>6. Spoken(<<>>)
  BY DEF Spoken
<1> HIDE DEF call, answer, result
<1>7. PICK ms \in {<<>>, <<call>>, <<answer>>, <<result>>}, us \in {<<>>, <<Head(queue)>>} :
         \E step, good : (us = <<>> \/ queue # <<>>) /\ Turn(ms, us, step, good)
  BY <1>5
<1>8. ms \in Seq(Message) /\ Spoken(ms)
  BY <1>1, <1>2, <1>6, OneSpoken
<1>9. us \in Seq(Nat)
  BY <1>1, <1>3, <1>7
<1>10. SaidOn(Now, ms \o Users(us))
  BY <1>4, <1>7, <1>8, <1>9, TurnSaid
<1> QED
  BY <1>10

LEMMA RunEndSaid ==
    ASSUME TypeOK, Owners, Kept, Rooted, NEW c \in Callers, RunEnd(c)
    PROVE  \E stop \in Stops \ {"toolUse"} : SaidOn(Now, <<Response(made + 1, stop)>>)
<1>1. PICK stop \in Stops \ {"toolUse"} : Say(<<Response(made + 1, stop)>>, <<>>, Now)
  BY DEF RunEnd
<1> DEFINE r == Response(made + 1, stop)
<1>2. made + 1 \in Nat
  BY DEF TypeOK
<1>3. r \in Message /\ r.role # "compaction"
  BY <1>2, ResponseTyped DEF Response
<1>4. messages # <<>>
  <2>1. caller[c].pc = "running"
    BY DEF RunEnd, Owners
  <2> QED
    BY <2>1 DEF Rooted, Posting
<1>5. Say(<<r>>, <<>>, Now) /\ Source(Now)
  BY <1>1 DEF Source
<1> HIDE DEF r
<1>6. SaidOn(Now, <<r>>)
  BY <1>3, <1>4, <1>5, OneSpoken, SaySaid
<1> QED
  BY <1>6 DEF r

LEMMA SayNowSaid ==
    ASSUME TypeOK, Kept, NEW m \in Message, m.role \notin {"compaction", "assistant"}, SayNow(m)
    PROVE  SaidOn(Now, <<m>>)
<1>1. messages' = messages \o <<m>> /\ entries' = entries \o <<m>>
  BY AppendConcat, ZenonT(60) DEF SayNow, TypeOK
<1>2. <<m>> \in Seq(Message) /\ Spoken(<<m>>) /\ <<m>>[1] = m
  BY OneSpoken
<1> QED
  BY <1>1, <1>2, NowIs DEF SaidOn, Source

LEMMA BashOrNone ==
    ASSUME TypeOK, Roled, NEW ms, ms \in {<<>>, bash}
    PROVE  ms \in Seq(Message) /\ Spoken(ms) /\ (ms # <<>> => ms[1].role # "assistant")
<1>1. CASE ms = <<>>
  <2>1. <<>> \in Seq(Message) /\ Spoken(<<>>)
    BY DEF Spoken
  <2> QED
    BY <1>1, <2>1
<1>2. CASE ms = bash
  BY <1>2, BashSpoken
<1> QED
  BY <1>1, <1>2

Seen == (\E t, ms : SaidOn(t, ms)) \/ (\E ms : Taken(ms))

LEMMA CompactSeen ==
    ASSUME TypeOK, Kept, Roled, NEW c, NEW r, NEW pre, NEW ms, ms \in {<<>>, bash},
           Compact(c, r, pre, messages \o ms), entries' = entries \o ms
    PROVE  Seen
<1>1. CASE messages' = WithoutLast(messages \o ms)
  BY <1>1 DEF Seen, Taken
<1>2. CASE messages' = messages \o ms
  <2>1. ms \in Seq(Message) /\ Spoken(ms) /\ (ms # <<>> => ms[1].role # "assistant")
    BY BashOrNone
  <2>2. SaidOn(Now, ms)
    BY <1>2, <2>1, NowIs DEF SaidOn, Source
  <2> QED
    BY <2>2 DEF Seen
<1> QED
  BY <1>1, <1>2 DEF Compact

LEMMA EmptyConcat == ASSUME NEW s \in Seq(Message) PROVE s \o <<>> = s
  OBVIOUS

\* Every step says something on a transcript or takes a response out of the context.
LEMMA StepSeen ==
    ASSUME TypeOK, Owners, Called, Kept, Roled, Rooted, NEW c \in Callers, StepOf(c)
    PROVE  Seen
<1>0. messages \o <<>> = messages /\ entries \o <<>> = entries
  BY EmptyConcat DEF TypeOK
<1>1. Source(Now) /\ Plain(caller[c].extra, "custom") /\ <<>> \in Seq(Nat) /\ <<>> \in Seq(Message)
  BY DEF Source, Roled
<1>2. CASE UNCHANGED transcript
  BY <1>2, SameSaid DEF Seen, transcript
<1>3. CASE Prompt(c) \/ Queued(c) \/ Summarize(c)
  BY <1>2, <1>3 DEF Prompt, Queued, Summarize, transcript
<1>4. ASSUME NEW t, Source(t), Flush(t) PROVE Seen
  BY <1>4, FlushSaid DEF Seen
<1>5. CASE Declined(c)
  BY <1>1, <1>2, <1>4, <1>5 DEF Declined
<1>6. CASE Preflight(c)
  <2> DEFINE r == messages[Max(Responses)]
  <2>1. Flush(Now) \/ (Compact(c, r, TRUE, messages \o bash) /\ entries' = entries \o bash)
    BY <1>6 DEF Preflight
  <2> HIDE DEF r
  <2> QED
    BY <1>1, <1>4, <2>1, CompactSeen
<1>7. CASE Send(c)
  <2>1. caller[c].msg \in Nat /\ caller[c].extra \in Seq(Message)
    BY DEF TypeOK, Call
  <2>2. <<caller[c].msg>> \in Seq(Nat)
    BY <2>1
  <2>3. CASE StartRun(c, Now, <<caller[c].msg>>, caller[c].extra)
    BY <1>1, <2>1, <2>2, <2>3, StartSaid DEF Seen
  <2>4. CASE Finally(c, Now)
    BY <1>1, <1>4, <2>4 DEF Finally
  <2> QED
    BY <1>7, <2>3, <2>4 DEF Send
<1>8. CASE RunTurn(c)
  BY <1>8, RunTurnSaid DEF Seen
<1>9. CASE RunEnd(c)
  BY <1>9, RunEndSaid DEF Seen
<1>10. CASE PostRetry(c)
  <2>1. Taken(<<>>)
    BY <1>0, <1>10 DEF PostRetry, Taken
  <2> QED
    BY <2>1 DEF Seen
<1>11. CASE PostCompact(c)
  BY <1>0, <1>11, CompactSeen DEF PostCompact
<1>12. ASSUME NEW t, Landed(c, t) PROVE Seen
  BY <1>12, EmptySaid DEF Landed, Seen
<1>13. ASSUME NEW t, Resume(c, t) PROVE Seen
  <2>1. Source(t) /\ GoesOn(c, t)
    BY <1>13 DEF Resume
  <2>2. CASE Halt(c, t)
    BY <1>4, <2>1, <2>2 DEF Halt, Finally
  <2>3. CASE Again(c, t)
    BY <1>1, <2>1, <2>3, PlainEmpty, StartSaid DEF Again, Seen
  <2>4. CASE Further(c, t)
    <3>1. <<Head(queue)>> \in Seq(Nat)
      BY <2>4, HeadTyped DEF Further, TypeOK
    <3> QED
      BY <1>1, <2>1, <2>4, <3>1, PlainEmpty, StartSaid DEF Further, Seen
  <2> QED
    BY <2>1, <2>2, <2>3, <2>4 DEF GoesOn
<1> QED
  BY <1>3, <1>5, <1>6, <1>7, <1>8, <1>9, <1>10, <1>11, <1>12, <1>13 DEF StepOf

LEMMA ApartSeen ==
    ASSUME TypeOK, Kept, Apart
    PROVE  Seen
<1>1. CASE UNCHANGED transcript
  BY <1>1, SameSaid DEF Seen, transcript
<1>2. made + 1 \in Nat
  BY DEF TypeOK
<1>3. ASSUME NEW role \in {"custom", "bash"}, SayNow(Msg(role, made + 1)) PROVE Seen
  <2> DEFINE m == Msg(role, made + 1)
  <2>1. m \in Message /\ m.role \notin {"compaction", "assistant"}
    BY <1>2, ResponseTyped DEF Roles, Msg
  <2>2. SayNow(m)
    BY <1>3
  <2> HIDE DEF m
  <2>3. SaidOn(Now, <<m>>)
    BY <2>1, <2>2, SayNowSaid
  <2> QED
    BY <2>3 DEF Seen
<1>4. CASE CompactDone
  <2> DEFINE t == Landing(manual.keep, FALSE)
  <2>1. Compaction(manual.keep).messages = t.messages /\ Compaction(manual.keep).entries = t.entries
    BY DEF Compaction, Landing, Transcript
  <2>2. Source(t)
    BY <1>4 DEF CompactDone, Kept, Source, TypeOK
  <2>3. (messages' = t.messages /\ entries' = t.entries) \/ UNCHANGED transcript
    BY <1>4, <2>1 DEF CompactDone
  <2> HIDE DEF t
  <2> QED
    BY <1>1, <2>2, <2>3, EmptySaid DEF Seen
<1>5. CASE Custom
  BY <1>1, <1>3, <1>5 DEF Custom, transcript
<1>6. CASE Bash
  BY <1>1, <1>3, <1>6 DEF Bash, Record, transcript
<1>7. CASE Steer \/ Abort \/ CompactNow \/ CompactResolved
  BY <1>1, <1>7 DEF Steer, Abort, CompactNow, CompactResolved, transcript
<1> QED
  BY <1>4, <1>5, <1>6, <1>7 DEF Apart

\* The file only grows, and its last compaction keeps what was there before it.
LEMMA FileGrows ==
    ASSUME TypeOK, Kept, Roled, Seen
    PROVE  Anchored(entries') /\ Begins(entries, entries') /\ entries' \in Seq(Message)
<1>1. ASSUME NEW t, NEW ms, SaidOn(t, ms)
      PROVE  Anchored(entries') /\ Begins(entries, entries') /\ entries' \in Seq(Message)
  <2>1. t.entries \in Seq(Message) /\ Anchored(t.entries) /\ Begins(entries, t.entries) /\ ms \in Seq(Message) /\ Spoken(ms)
    BY <1>1, SourceIs DEF SaidOn
  <2>2. Anchored(t.entries \o ms) /\ Begins(t.entries, t.entries \o ms) /\ t.entries \o ms \in Seq(Message)
    BY <2>1, AnchoredConcat, BeginsConcat
  <2>3. Begins(entries, t.entries \o ms)
    BY <2>1, <2>2, BeginsTrans, ZenonT(60) DEF TypeOK
  <2> QED
    BY <1>1, <2>1, <2>2, <2>3 DEF SaidOn
<1>2. ASSUME NEW ms, Taken(ms)
      PROVE  Anchored(entries') /\ Begins(entries, entries') /\ entries' \in Seq(Message)
  <2>1. ms \in Seq(Message) /\ Spoken(ms) /\ entries' = entries \o ms /\ entries \in Seq(Message) /\ Anchored(entries)
    BY <1>2, BashOrNone DEF Taken, TypeOK, Kept
  <2> QED
    BY <2>1, AnchoredConcat, BeginsConcat
<1> QED
  BY <1>1, <1>2 DEF Seen

\* A context does not begin with a response.
LEMMA RootKept ==
    ASSUME TypeOK, Kept, Roled, Rooted, Seen
    PROVE  /\ messages' \in Seq(Message)
           /\ messages' # <<>> => messages'[1].role # "assistant"
           /\ messages # <<>> => messages' # <<>>
<1>1. ASSUME NEW t, NEW ms, SaidOn(t, ms)
      PROVE  /\ messages' \in Seq(Message)
             /\ messages' # <<>> => messages'[1].role # "assistant"
             /\ messages # <<>> => messages' # <<>>
  <2>1. t.messages \in Seq(Message) /\ (t.messages # <<>> => t.messages[1].role # "assistant")
        /\ (messages # <<>> => t.messages # <<>>)
    <3>1. CASE t = Now
      BY <3>1, NowIs DEF Rooted, TypeOK
    <3>2. CASE t # Now
      <4>1. PICK k \in Nat, failed \in BOOLEAN : Keepable(k) /\ t = Landing(k, failed)
        BY <1>1, <3>2 DEF SaidOn, Source
      <4>2. t.messages \in Seq(Message) /\ t.messages # <<>> /\ t.messages[1] = Msg("compaction", k)
        BY <4>1, LandingIs
      <4> QED
        BY <4>2 DEF Msg
    <3> QED
      BY <3>1, <3>2
  <2>2. ms \in Seq(Message) /\ messages' = t.messages \o ms
    BY <1>1 DEF SaidOn
  <2>3. CASE t.messages = <<>>
    <3>1. messages' = ms /\ messages = <<>>
      BY <2>1, <2>2, <2>3, ConcatLast
    <3> QED
      BY <1>1, <2>2, <3>1 DEF SaidOn
  <2>4. CASE t.messages # <<>>
    <3>1. t.messages \o ms # <<>> /\ (t.messages \o ms)[1] = t.messages[1]
      BY <2>1, <2>2, <2>4, ConcatLast
    <3> QED
      BY <2>1, <2>2, <2>4, <3>1, ConcatLast
  <2> QED
    BY <2>3, <2>4
<1>2. ASSUME NEW ms, Taken(ms)
      PROVE  /\ messages' \in Seq(Message)
             /\ messages' # <<>> => messages'[1].role # "assistant"
             /\ messages # <<>> => messages' # <<>>
  <2>1. ms \in Seq(Message) /\ messages \in Seq(Message) /\ messages' = WithoutLast(messages \o ms)
        /\ (ms # <<>> => ms[1].role # "assistant")
    BY <1>2, BashOrNone DEF Taken, TypeOK
  <2> DEFINE x == messages \o ms
  <2>2. x \in Seq(Message) /\ (x # <<>> => x[1].role # "assistant") /\ (messages # <<>> => x # <<>>)
    <3>1. CASE messages = <<>>
      <4>1. x = ms
        BY <2>1, <3>1, ConcatLast
      <4> QED
        BY <2>1, <3>1, <4>1
    <3>2. CASE messages # <<>>
      <4>1. x \in Seq(Message) /\ x # <<>> /\ x[1] = messages[1]
        BY <2>1, <3>2, ConcatLast
      <4> HIDE DEF x
      <4> QED
        BY <3>2, <4>1 DEF Rooted
    <3> QED
      BY <3>1, <3>2
  <2>3. messages' = WithoutLast(x)
    BY <2>1
  <2> HIDE DEF x
  <2>4. CASE x = <<>>
    <3>1. WithoutLast(x) = x
      BY <2>4 DEF WithoutLast
    <3> QED
      BY <2>2, <2>3, <2>4, <3>1
  <2>5. CASE x # <<>>
    <3>1. WithoutLast(x) \in Seq(Message) /\ WithoutLast(x) # <<>> /\ WithoutLast(x)[1] = x[1]
      BY <2>2, <2>5, WithoutLastFacts
    <3> QED
      BY <2>2, <2>3, <2>5, <3>1
  <2> QED
    BY <2>4, <2>5
<1> QED
  BY <1>1, <1>2 DEF Seen

-----------------------------------------------------------------------------
(* The structure is kept                                                   *)

\* What the calls look like after a step.
LEMMA NoCallIs == /\ NoCall.pc = "idle" /\ NoCall.msg = 0 /\ NoCall.extra = <<>> /\ NoCall.pre = FALSE
                  /\ NoCall.willRetry = FALSE /\ NoCall.aborted = FALSE
  BY DEF NoCall

LEMMA EndIs == ASSUME TypeOK, NEW c \in Callers, End(c) PROVE caller'[c] = NoCall
  BY DEF End, TypeOK

LEMMA BeforeIs ==
    ASSUME TypeOK, NEW c \in Callers, BeforeStart(c)
    PROVE  /\ caller'[c].pc = "before" /\ caller'[c].msg = caller[c].msg /\ caller'[c].extra = nextTurn
           /\ caller'[c].pre = FALSE /\ caller'[c].willRetry = FALSE
<1>1. caller'[c] = [NoCall EXCEPT !.pc = "before", !.msg = caller[c].msg, !.extra = nextTurn]
  BY DEF BeforeStart, TypeOK
<1> QED
  BY <1>1 DEF NoCall

LEMMA CompactIs ==
    ASSUME TypeOK, NEW c \in Callers, NEW r, NEW pre, NEW m, Compact(c, r, pre, m)
    PROVE  /\ caller'[c].pc = "resolve" /\ caller'[c].pre = pre /\ caller'[c].msg = caller[c].msg
           /\ caller'[c].extra = caller[c].extra /\ caller'[c].willRetry = Overflown(r)
<1>1. caller'[c] = [caller[c] EXCEPT !.pc = "resolve", !.pre = pre, !.aborted = FALSE, !.willRetry = Overflown(r)]
  BY DEF Compact, TypeOK
<1>2. caller[c] \in Call
  BY DEF TypeOK
<1> QED
  BY <1>1, <1>2 DEF Call

LEMMA StartIs ==
    ASSUME TypeOK, NEW c \in Callers, NEW t, NEW us, NEW extra, StartRun(c, t, us, extra)
    PROVE  /\ caller'[c].pc = "running" /\ caller'[c].msg = 0 /\ caller'[c].extra = <<>> /\ caller'[c].pre = FALSE
           /\ run'.owner = c /\ run'.step = "start" /\ run'.aborted = FALSE
<1>1. caller'[c] = [NoCall EXCEPT !.pc = "running"]
  BY DEF StartRun, TypeOK
<1> QED
  BY <1>1 DEF NoCall, StartRun

\* Where each step takes its call.
LEMMA PcAfter ==
    ASSUME TypeOK, NEW c \in Callers
    PROVE  /\ Prompt(c) => caller'[c].pc = "input" /\ caller'[c].extra = <<>> /\ caller'[c].msg = made + 1
           /\ Queued(c) \/ Declined(c) => caller'[c] = NoCall
           /\ Preflight(c) => \/ BeforeStart(c) /\ caller'[c].pc = "before"
                              \/ caller'[c].pc = "resolve" /\ caller'[c].pre /\ caller'[c].msg = caller[c].msg /\ caller'[c].extra = caller[c].extra
           /\ Send(c) => (caller'[c].pc = "running" /\ ~Streaming /\ caller'[c].msg = 0 /\ caller'[c].extra = <<>>) \/ (caller'[c] = NoCall /\ Finally(c, Now))
           /\ RunTurn(c) => caller'[c] = caller[c]
           /\ RunEnd(c) => caller'[c].pc = "post" /\ caller'[c].msg = caller[c].msg /\ caller'[c].extra = caller[c].extra
           /\ PostRetry(c) => caller'[c].pc = "sleep" /\ caller'[c].aborted = FALSE /\ caller'[c].msg = caller[c].msg /\ caller'[c].extra = caller[c].extra
           /\ PostCompact(c) => caller'[c].pc = "resolve" /\ ~caller'[c].pre /\ caller'[c].willRetry = Overflown(last) /\ caller'[c].msg = caller[c].msg /\ caller'[c].extra = caller[c].extra
           /\ Summarize(c) => /\ caller'[c].pc = "summarize" /\ caller'[c].pre = caller[c].pre
                              /\ caller'[c].willRetry = caller[c].willRetry
                              /\ caller'[c].msg = caller[c].msg /\ caller'[c].extra = caller[c].extra
           /\ \A t : Landed(c, t) => caller'[c].pc = "before" /\ caller'[c].msg = caller[c].msg /\ caller'[c].extra = nextTurn
           /\ \A t : Resume(c, t) => (caller'[c].pc = "running" /\ ~Streaming /\ caller'[c].msg = 0 /\ caller'[c].extra = <<>>) \/ (caller'[c] = NoCall /\ Halt(c, t))
<1>1. caller \in [Callers -> Call] /\ caller[c] \in Call
  BY DEF TypeOK
<1>2. ASSUME Prompt(c) PROVE caller'[c].pc = "input" /\ caller'[c].extra = <<>> /\ caller'[c].msg = made + 1
  <2>1. caller'[c] = [NoCall EXCEPT !.pc = "input", !.msg = made + 1]
    BY <1>1, <1>2 DEF Prompt
  <2> QED
    BY <2>1 DEF NoCall
<1>3. ASSUME Queued(c) \/ Declined(c) PROVE caller'[c] = NoCall
  BY <1>3, EndIs DEF Queued, Declined
<1>4. ASSUME Preflight(c) PROVE \/ BeforeStart(c) /\ caller'[c].pc = "before"
                                \/ caller'[c].pc = "resolve" /\ caller'[c].pre /\ caller'[c].msg = caller[c].msg /\ caller'[c].extra = caller[c].extra
  <2> DEFINE r == messages[Max(Responses)]
  <2>1. BeforeStart(c) \/ Compact(c, r, TRUE, messages \o bash)
    BY <1>4 DEF Preflight
  <2> HIDE DEF r
  <2>2. CASE BeforeStart(c)
    BY <2>2, BeforeIs
  <2>3. CASE Compact(c, r, TRUE, messages \o bash)
    <3>1. TRUE \in BOOLEAN /\ (caller'[c].pre = TRUE)
      BY <2>3, CompactIs
    <3> QED
      BY <2>3, <3>1, CompactIs
  <2> QED
    BY <2>1, <2>2, <2>3
<1>5. ASSUME Send(c) PROVE (caller'[c].pc = "running" /\ ~Streaming /\ caller'[c].msg = 0 /\ caller'[c].extra = <<>>) \/ (caller'[c] = NoCall /\ Finally(c, Now))
  <2>1. CASE ~Streaming /\ StartRun(c, Now, <<caller[c].msg>>, caller[c].extra)
    BY <2>1, StartIs
  <2>2. CASE Finally(c, Now)
    BY <2>2, EndIs DEF Finally
  <2> QED
    BY <1>5, <2>1, <2>2 DEF Send
<1>6. ASSUME RunTurn(c) PROVE caller'[c] = caller[c]
  BY <1>6 DEF RunTurn
<1>7. ASSUME RunEnd(c) PROVE caller'[c].pc = "post" /\ caller'[c].msg = caller[c].msg /\ caller'[c].extra = caller[c].extra
  <2>1. caller'[c] = [caller[c] EXCEPT !.pc = "post"]
    BY <1>1, <1>7 DEF RunEnd, Set
  <2> QED
    BY <1>1, <2>1 DEF Call
<1>8. ASSUME PostRetry(c) PROVE caller'[c].pc = "sleep" /\ caller'[c].aborted = FALSE /\ caller'[c].msg = caller[c].msg /\ caller'[c].extra = caller[c].extra
  <2>1. caller'[c] = [caller[c] EXCEPT !.pc = "sleep", !.aborted = FALSE]
    BY <1>1, <1>8 DEF PostRetry
  <2> QED
    BY <1>1, <2>1 DEF Call
<1>9. ASSUME PostCompact(c) PROVE caller'[c].pc = "resolve" /\ ~caller'[c].pre /\ caller'[c].willRetry = Overflown(last) /\ caller'[c].msg = caller[c].msg /\ caller'[c].extra = caller[c].extra
  <2>1. Compact(c, last, FALSE, messages)
    BY <1>9 DEF PostCompact
  <2>2. caller'[c].pre = FALSE
    BY <2>1, CompactIs
  <2> QED
    BY <2>1, <2>2, CompactIs
<1>10. ASSUME Summarize(c) PROVE /\ caller'[c].pc = "summarize" /\ caller'[c].pre = caller[c].pre
                                 /\ caller'[c].willRetry = caller[c].willRetry
                                 /\ caller'[c].msg = caller[c].msg /\ caller'[c].extra = caller[c].extra
  <2>1. PICK k \in Cuts : caller' = [caller EXCEPT ![c].pc = "summarize", ![c].keep = k]
    BY <1>10 DEF Summarize
  <2>2. caller'[c] = [caller[c] EXCEPT !.pc = "summarize", !.keep = k]
    BY <1>1, <2>1
  <2> QED
    BY <1>1, <2>2 DEF Call
<1>11. ASSUME NEW t, Landed(c, t) PROVE caller'[c].pc = "before" /\ caller'[c].msg = caller[c].msg /\ caller'[c].extra = nextTurn
  BY <1>11, BeforeIs DEF Landed
<1>12. ASSUME NEW t, Resume(c, t) PROVE (caller'[c].pc = "running" /\ ~Streaming /\ caller'[c].msg = 0 /\ caller'[c].extra = <<>>) \/ (caller'[c] = NoCall /\ Halt(c, t))
  <2>1. CASE Halt(c, t)
    BY <2>1, EndIs DEF Halt, Finally
  <2>2. CASE Again(c, t) \/ Further(c, t)
    BY <2>2, StartIs DEF Again, Further
  <2> QED
    BY <1>12, <2>1, <2>2 DEF Resume, GoesOn
<1> QED
  BY <1>2, <1>3, <1>4, <1>5, <1>6, <1>7, <1>8, <1>9, <1>10, <1>11, <1>12

\* An entry that a summary keeps is still there when the summary arrives.
LEMMA KeepableKept ==
    ASSUME TypeOK, Kept, Roled, Seen, NEW k \in Nat, Keepable(k)
    PROVE  KeepableIn(entries', k)
<1>1. entries \in Seq(Message) /\ entries' \in Seq(Message) /\ Begins(entries, entries')
  BY FileGrows DEF TypeOK
<1>2. PICK n \in Nat, m \in Nat : Len(entries) = n /\ Len(entries') = m
  BY <1>1
<1>3. n <= m /\ k \in 1 .. n /\ entries'[k] = entries[k]
  BY <1>1, <1>2 DEF Begins, Keepable, KeepableIn
<1> QED
  BY <1>2, <1>3 DEF Keepable, KeepableIn

\* An asked-for summary keeps what is in the file, whatever is written meanwhile.
LEMMA KeptStep ==
    ASSUME TypeOK, Owners, Called, Kept, Roled, Rooted, NEW c \in Callers, StepOf(c)
    PROVE  Kept'
<1>1. caller \in [Callers -> Call] /\ \A d \in Callers : caller[d].keep \in Nat
  BY DEF TypeOK, Call
<1>2. \A d \in Callers \ {c} : caller'[d] = caller[d]
  BY PcOthers
<1>3. Seen
  BY StepSeen
<1>4. \A k \in Nat : Keepable(k) => KeepableIn(entries', k)
  BY <1>3, KeepableKept
<1>5. Summarize(c) \/ caller'[c].pc # "summarize" \/ caller'[c] = caller[c]
  BY PcAfter, NoCallIs DEF StepOf
<1>6. caller'[c].pc = "summarize" => KeepableIn(entries', caller'[c].keep)
  <2>1. CASE caller'[c] = caller[c]
    BY <1>1, <1>4, <2>1 DEF Kept
  <2>2. CASE Summarize(c)
    <3>1. PICK k \in Cuts : caller' = [caller EXCEPT ![c].pc = "summarize", ![c].keep = k]
      BY <2>2 DEF Summarize
    <3>2. k \in Nat /\ Keepable(k)
      BY CutsAre
    <3>3. caller'[c].keep = k
      BY <1>1, <3>1, <3>2 DEF Call
    <3>4. KeepableIn(entries', k)
      BY <1>4, <3>2
    <3> QED
      BY <3>3, <3>4
  <2> QED
    BY <1>5, <2>1, <2>2
<1>7. manual'.pc = "summarize" => manual.pc = "summarize" /\ manual'.keep = manual.keep
  BY DEF StepOf, Prompt, Queued, Declined, Preflight, Send, RunTurn, RunEnd, PostRetry, PostCompact, Summarize,
         Landed, Resume, TypeOK
<1>8. Anchored(entries')
  BY <1>3, FileGrows
<1>9. manual.keep \in Nat
  BY DEF TypeOK
<1>10. \A d \in Callers : caller'[d].pc = "summarize" => KeepableIn(entries', caller'[d].keep)
  BY <1>1, <1>2, <1>4, <1>6 DEF Kept
<1>11. manual'.pc = "summarize" => KeepableIn(entries', manual'.keep)
  BY <1>4, <1>7, <1>9 DEF Kept
<1> QED
  BY <1>8, <1>10, <1>11 DEF Kept, Keepable, Anchored

LEMMA KeptApart ==
    ASSUME TypeOK, Owners, Kept, Roled, Apart
    PROVE  Kept'
<1>1. \A d \in Callers : caller[d].keep \in Nat
  BY DEF TypeOK, Call
<1>2. Seen
  BY ApartSeen
<1>3. \A k \in Nat : Keepable(k) => KeepableIn(entries', k)
  BY <1>2, KeepableKept
<1>4. \A d \in Callers : caller'[d].pc = "summarize" => KeepableIn(entries', caller'[d].keep)
  BY <1>1, <1>3, ApartSame DEF Kept
<1>5. manual.keep \in Nat
  BY DEF TypeOK
<1>6. \/ manual'.pc # "summarize"
      \/ manual.pc = "summarize" /\ manual'.keep = manual.keep
      \/ \E k \in Cuts : manual'.keep = k
  <2>1. CASE Steer \/ Custom \/ Bash
    BY <2>1 DEF Steer, Custom, Bash
  <2>2. CASE Abort
    BY <2>2 DEF Abort, TypeOK
  <2>3. CASE CompactNow
    BY <2>3 DEF CompactNow
  <2>4. CASE manual' = IdleManual
    BY <2>4 DEF IdleManual
  <2>5. CASE \E k \in Cuts : manual' = [manual EXCEPT !.pc = "summarize", !.keep = k]
    BY <2>5 DEF TypeOK
  <2> QED
    BY <2>1, <2>2, <2>3, <2>4, <2>5 DEF Apart, CompactResolved, CompactDone
<1>7. manual'.pc = "summarize" => KeepableIn(entries', manual'.keep)
  BY <1>3, <1>5, <1>6, CutsAre DEF Kept
<1>8. Anchored(entries')
  BY <1>2, FileGrows
<1> QED
  BY <1>4, <1>7, <1>8 DEF Kept, Keepable, Anchored

\* Who is past its sending after a step was so before, or has just been sent.
Sends(c) == ~Streaming /\ StartRun(c, Now, <<caller[c].msg>>, caller[c].extra)
\* Who is past its sending after a step was so before, or has just been sent.
LEMMA PostingAfter ==
    ASSUME TypeOK, Owners, Called, Kept, NEW c \in Callers, StepOf(c)
    PROVE  /\ \A d \in Callers \ {c} : Posting(d)' <=> Posting(d)
           /\ Posting(c)' => Posting(c) \/ (Send(c) /\ Sends(c))
<1>1. \A d \in Callers \ {c} : caller'[d] = caller[d]
  BY PcOthers
<1>2. Send(c) => Sends(c) \/ caller'[c].pc = "idle"
  BY EndIs, NoCallIs DEF Send, Sends, Finally
<1>3. Posting(c)' => Posting(c) \/ (Send(c) /\ Sends(c))
  <2>1. CASE Prompt(c) \/ Queued(c) \/ Declined(c) \/ Preflight(c)
    BY <2>1, PcAfter, NoCallIs DEF Posting
  <2>2. CASE Send(c)
    BY <1>2, <2>2 DEF Posting
  <2>3. CASE RunTurn(c)
    BY <2>3, PcAfter DEF Posting
  <2>4. CASE RunEnd(c)
    <3>1. caller[c].pc = "running"
      BY <2>4 DEF RunEnd, Owners
    <3> QED
      BY <3>1 DEF Posting
  <2>5. CASE PostRetry(c) \/ PostCompact(c)
    BY <2>5 DEF PostRetry, PostCompact, Posting
  <2>6. CASE Summarize(c)
    <3>1. caller[c].pc = "resolve" /\ caller'[c].pc = "summarize" /\ caller'[c].pre = caller[c].pre
      BY <2>6, PcAfter DEF Summarize
    <3> QED
      BY <3>1 DEF Posting
  <2>7. ASSUME NEW t, Landed(c, t) PROVE ~Posting(c)'
    BY <2>7, PcAfter DEF Posting
  <2>8. ASSUME NEW t, Resume(c, t) PROVE Posting(c)
    BY <2>8 DEF Resume, Posting
  <2> QED
    BY <2>1, <2>2, <2>3, <2>4, <2>5, <2>6, <2>7, <2>8 DEF StepOf
<1>4. \A d \in Callers \ {c} : Posting(d)' <=> Posting(d)
  BY <1>1 DEF Posting
<1> QED
  BY <1>3, <1>4

LEMMA PostingApart ==
    ASSUME TypeOK, Apart
    PROVE  \A d \in Callers : Posting(d)' <=> Posting(d)
  BY ApartSame DEF Posting

\* A context that somebody waits on is not empty.
LEMMA RootedStep ==
    ASSUME TypeOK, Owners, Called, Kept, Roled, Rooted, NEW c \in Callers, StepOf(c)
    PROVE  Rooted'
<1>1. /\ messages' # <<>> => messages'[1].role # "assistant"
      /\ messages # <<>> => messages' # <<>>
  BY StepSeen, RootKept
<1>2. Send(c) /\ Sends(c) => messages' # <<>>
  <2>1. caller[c].extra \in Seq(Message) /\ caller[c].msg \in Nat /\ Plain(caller[c].extra, "custom") /\ Source(Now)
    BY DEF TypeOK, Call, Roled, Source
  <2>2. <<caller[c].msg>> \in Seq(Nat) /\ <<caller[c].msg>> # <<>>
    BY <2>1
  <2> QED
    BY <2>1, <2>2, StartSaid DEF Sends
<1>3. \A d \in Callers : Posting(d)' => messages' # <<>>
  BY <1>1, <1>2, PostingAfter DEF Rooted
<1> QED
  BY <1>1, <1>3 DEF Rooted

LEMMA RootedApart ==
    ASSUME TypeOK, Owners, Kept, Roled, Rooted, Apart
    PROVE  Rooted'
<1>1. /\ messages' # <<>> => messages'[1].role # "assistant"
      /\ messages # <<>> => messages' # <<>>
  BY ApartSeen, RootKept
<1> QED
  BY <1>1, PostingApart DEF Rooted

\* What excuses a property stays.
LEMMA LogGrows ==
    ASSUME TypeOK, Step
    PROVE  (log.overlap => log'.overlap) /\ (log.detached => log'.detached) /\ log.refused \subseteq log'.refused
<1>0. log \in Logs
  BY DEF TypeOK, Logs
<1>1. CASE UNCHANGED log
  BY <1>1
<1>2. CASE \E n : log' = [log EXCEPT !.continued = n]
  BY <1>0, <1>2 DEF Logs
<1>3. ASSUME NEW c, NEW t, Finally(c, t)
      PROVE  (log.overlap => log'.overlap) /\ (log.detached => log'.detached) /\ log.refused \subseteq log'.refused
  BY <1>0, <1>3 DEF Finally, Logs
<1>4. ASSUME NEW c, NEW t, NEW us, NEW extra, StartRun(c, t, us, extra)
      PROVE  (log.overlap => log'.overlap) /\ (log.detached => log'.detached) /\ log.refused \subseteq log'.refused
  BY <1>0, <1>4 DEF StartRun, Logs
<1>5. CASE Apart
  BY <1>1, <1>2, <1>5 DEF Apart, Steer, Custom, Bash, Record, SayNow, Abort, CompactNow, CompactResolved, CompactDone
<1>6. ASSUME NEW c \in Callers, StepOf(c)
      PROVE  (log.overlap => log'.overlap) /\ (log.detached => log'.detached) /\ log.refused \subseteq log'.refused
  <2>1. CASE Prompt(c) \/ Queued(c) \/ PostRetry(c) \/ PostCompact(c) \/ Summarize(c)
    BY <1>1, <2>1 DEF Prompt, Queued, PostRetry, PostCompact, Summarize
  <2>2. CASE Declined(c)
    BY <1>0, <2>2 DEF Declined, Logs
  <2>3. CASE Preflight(c)
    BY <1>2, <2>3 DEF Preflight
  <2>4. CASE Send(c)
    BY <1>3, <1>4, <2>4 DEF Send
  <2>5. CASE RunTurn(c) \/ RunEnd(c)
    <3>1. \E d, n : log' = [log EXCEPT !.detached = @ \/ d, !.continued = n]
      BY <2>5 DEF RunTurn, Turn, RunEnd
    <3> QED
      BY <1>0, <3>1 DEF Logs
  <2>6. ASSUME NEW t, Landed(c, t)
        PROVE (log.overlap => log'.overlap) /\ (log.detached => log'.detached) /\ log.refused \subseteq log'.refused
    BY <1>0, <2>6 DEF Landed, Logs
  <2>7. ASSUME NEW t, Resume(c, t)
        PROVE (log.overlap => log'.overlap) /\ (log.detached => log'.detached) /\ log.refused \subseteq log'.refused
    BY <1>3, <1>4, <2>7 DEF Resume, GoesOn, Again, Further, Halt
  <2> QED
    BY <1>6, <2>1, <2>2, <2>3, <2>4, <2>5, <2>6, <2>7 DEF StepOf
<1> QED
  BY <1>5, <1>6 DEF Step

\* Two calls past their sending are noted as overlapping.
LEMMA OverlapStep ==
    ASSUME TypeOK, Owners, Called, Kept, Overlapping, NEW c \in Callers, StepOf(c)
    PROVE  Overlapping'
<1>1. log.overlap => log'.overlap
  BY LogGrows DEF Step
<1>2. Send(c) /\ Sends(c) => (Others(c) => log'.overlap)
  BY DEF Sends, StartRun, TypeOK
<1>3. ASSUME NEW a \in Callers, NEW b \in Callers, Posting(a)', Posting(b)', a # b
      PROVE  log'.overlap
  <2>1. CASE Posting(a) /\ Posting(b)
    BY <1>1, <1>3, <2>1 DEF Overlapping
  <2>2. CASE ~Posting(a)
    <3>1. a = c /\ Send(c) /\ Sends(c) /\ Posting(b)
      BY <1>3, <2>2, PostingAfter
    <3> QED
      BY <1>2, <1>3, <3>1 DEF Others
  <2>3. CASE ~Posting(b)
    <3>1. b = c /\ Send(c) /\ Sends(c) /\ Posting(a)
      BY <1>3, <2>3, PostingAfter
    <3> QED
      BY <1>2, <1>3, <3>1 DEF Others
  <2> QED
    BY <2>1, <2>2, <2>3
<1> QED
  BY <1>3 DEF Overlapping

LEMMA OverlapApart ==
    ASSUME TypeOK, Overlapping, Apart
    PROVE  Overlapping'
<1>1. log.overlap => log'.overlap
  BY LogGrows DEF Step
<1> QED
  BY <1>1, PostingApart DEF Overlapping

\* The structure is inductive.
LEMMA StructureStep ==
    ASSUME TypeOK, Structure, NEW c \in Callers, StepOf(c)
    PROVE  TypeOK' /\ Structure'
<1>1. Owners' /\ Called' /\ Kept'
  BY OwnersStep, CalledKept, KeptStep DEF Structure
<1>2. Roled' /\ Rooted' /\ Overlapping'
  BY RoledStep, RootedStep, OverlapStep DEF Structure
<1> QED
  BY <1>1, <1>2, StepTyped DEF Structure

LEMMA StructureApart ==
    ASSUME TypeOK, Structure, Apart
    PROVE  TypeOK' /\ Structure'
<1>1. Owners' /\ Called' /\ Kept'
  BY OwnersApart, CalledKept, KeptApart DEF Structure
<1>2. Roled' /\ Rooted' /\ Overlapping'
  BY RoledApart, RootedApart, OverlapApart DEF Structure
<1> QED
  BY <1>1, <1>2, ApartTyped DEF Structure

LEMMA StructureInit == ASSUME Init PROVE TypeOK /\ Structure
<1>1. 0 \in 0 .. MaxRetries /\ budget \in Budget
  BY SessionAssumption DEF Init
<1>2. \A c \in Callers : caller[c] = NoCall
  BY DEF Init
<1>a. caller \in [Callers -> Call] /\ last \in Message
  BY NoCallTyped, ResponseTyped DEF Init
<1>b. messages \in Seq(Message) /\ entries \in Seq(Message) /\ queue \in Seq(Nat) /\ shown \in Seq(Nat)
      /\ bash \in Seq(Message) /\ nextTurn \in Seq(Message)
  BY DEF Init
<1>c. run \in RunStates /\ retry \in RetryStates /\ manual \in ManualStates /\ log \in Logs
  BY <1>1 DEF Init, RunStates, RetryStates, ManualStates, Logs, IdleManual
<1>3. TypeOK
  BY <1>1, <1>a, <1>b, <1>c DEF Init, TypeOK, RunStates, RetryStates, ManualStates, Logs
<1>4. Owners
  BY <1>2, NoCallIs, SessionAssumption DEF Init, Owners, IdleManual
<1>5. Called /\ Roled
  BY <1>2, NoCallIs, PlainEmpty DEF Init, Called, CallOK, Roled
<1>6. Compacted(entries) = 0
  <2>1. entries = <<>> /\ <<>> \in Seq(Message) /\ Len(<<>>) = 0
    BY DEF Init
  <2>2. Compacted(<<>>) \in 0 .. 0
    BY <2>1, CompactedIs
  <2> QED
    BY <2>1, <2>2
<1>7. Kept
  BY <1>2, <1>6, NoCallIs DEF Init, Kept, Anchored, IdleManual
<1>8. Rooted /\ Overlapping
  BY <1>2, NoCallIs DEF Init, Rooted, Overlapping, Posting
<1> QED
  BY <1>3, <1>4, <1>5, <1>7, <1>8 DEF Structure

LEMMA StructureSame == ASSUME TypeOK, Structure, UNCHANGED vars PROVE TypeOK' /\ Structure'
  BY DEF vars, TypeOK, Structure, Owners, Called, Roled, Kept, Keepable, Rooted, Overlapping, Posting, Anchored, Compacted

\* The variables of the session have the types the code gives them, and every state has
\* its structure: a run belongs to one call of prompt() and at most one call stands
\* between its run and _handlePostAgentRun; a call has a message exactly until it is sent;
\* a summary that was asked for keeps entries that are still in the file
\* (prepareCompaction, appendCompaction); and two prompts past their sending are
\* noted as overlapping.
THEOREM TypeCorrect == Spec => [](TypeOK /\ Structure)
<1>1. Init => TypeOK /\ Structure
  BY StructureInit
<1>2. TypeOK /\ Structure /\ [Next]_vars => (TypeOK /\ Structure)'
  <2>1. SUFFICES ASSUME TypeOK, Structure, [Next]_vars PROVE (TypeOK /\ Structure)'
    OBVIOUS
  <2>2. CASE Next
    <3>1. (\E c \in Callers : StepOf(c)) \/ Apart
      BY <2>1, <2>2, Steps DEF Structure
    <3> QED
      BY <2>1, <3>1, StructureStep, StructureApart
  <2>3. CASE UNCHANGED vars
    BY <2>1, <2>3, StructureSame
  <2> QED
    BY <2>1, <2>2, <2>3
<1> QED
  BY <1>1, <1>2, PTL DEF Spec

-----------------------------------------------------------------------------
(* The end of a run, and steps from outside of it                          *)

EndsIn(s) == s # <<>> /\ Last(s).role = "assistant"
Excused == log.overlap \/ log.detached
Ready == ~EndsIn(messages) \/ queue # <<>>
ReadyFile == ~EndsIn(entries) \/ queue # <<>>
Answering == \A c \in Callers : caller[c].pc = "post" =>
    /\ EndsIn(messages)
    /\ ~log.detached => /\ last # NoMessage /\ Last(messages) = last /\ Last(entries) = last
                        /\ entries # <<>> /\ manual.connected

\* Whether a context ends in a response.
LEMMA EndsInConcat ==
    ASSUME NEW s \in Seq(Message), NEW ms \in Seq(Message)
    PROVE  EndsIn(s \o ms) <=> IF ms = <<>> THEN EndsIn(s) ELSE EndsIn(ms)
  BY ConcatLast DEF EndsIn

LEMMA EndsInOne ==
    ASSUME NEW s \in Seq(Message), NEW m \in Message
    PROVE  /\ EndsIn(s \o <<m>>) <=> m.role = "assistant"
           /\ Last(s \o <<m>>) = m /\ s \o <<m>> # <<>>
<1>1. s \o <<m>> = Append(s, m)
  BY AppendConcat
<1>2. Append(s, m) # <<>> /\ Last(Append(s, m)) = m
  BY AppendLast
<1> QED
  BY <1>1, <1>2 DEF EndsIn

LEMMA LastIs == ASSUME NEW s \in Seq(Message), s # <<>> PROVE Len(s) \in DOMAIN s /\ Last(s) = s[Len(s)]
<1>1. PICK n \in Nat : Len(s) = n /\ n # 0
  OBVIOUS
<1>2. n \in 1 .. n
  BY <1>1
<1>3. Last(s) = s[Len(s)]
  BY LastFront
<1> QED
  BY <1>1, <1>2, <1>3

LEMMA PlainEnd ==
    ASSUME NEW s \in Seq(Message), NEW role, role # "assistant", Plain(s, role)
    PROVE  ~EndsIn(s)
<1>1. s # <<>> => Last(s).role = role
  BY LastIs DEF Plain
<1> QED
  BY <1>1 DEF EndsIn

LEMMA PlainEndConcat ==
    ASSUME NEW s \in Seq(Message), NEW ms \in Seq(Message), NEW role, role # "assistant", Plain(ms, role)
    PROVE  EndsIn(s \o ms) <=> ms = <<>> /\ EndsIn(s)
  BY EndsInConcat, PlainEnd

LEMMA WithoutLastEnd ==
    ASSUME NEW s \in Seq(Message), ~EndsIn(s)
    PROVE  WithoutLast(s) = s
  BY DEF EndsIn, WithoutLast

\* Two calls that are past their sending overlap.
LEMMA Solo == ASSUME Overlapping, ~log.overlap, NEW a \in Callers, NEW b \in Callers, Posting(a), Posting(b) PROVE a = b
  BY DEF Overlapping

LEMMA Runner ==
    ASSUME TypeOK, Owners, Streaming
    PROVE  run.owner \in Callers /\ caller[run.owner].pc = "running" /\ Posting(run.owner)
  BY DEF TypeOK, Owners, Streaming, Posting

\* Nothing comes between the end of a run and what is done after it.
LEMMA NoPost ==
    ASSUME TypeOK, Owners, Called, Kept, NEW c \in Callers, StepOf(c), ~RunEnd(c)
    PROVE  \A d \in Callers : caller'[d].pc # "post"
<1>1. \A d \in Callers \ {c} : caller'[d] = caller[d]
  BY PcOthers
<1>2. Calm \/ caller[c].pc = "post"
  BY DEF StepOf, Prompt, Queued, Declined, Preflight, Send, RunTurn, PostRetry, PostCompact, Summarize, Landed, Resume,
         Origin, FromPost, FromSleep, FromCompaction
<1>3. \A d \in Callers \ {c} : caller[d].pc # "post"
  BY <1>2 DEF Calm, Owners
<1>4. caller'[c].pc # "post"
  <2>1. RunTurn(c) => caller'[c].pc # "post"
    BY PcAfter DEF RunTurn, Calm
  <2> QED
    BY <2>1, PcAfter, NoCallIs DEF StepOf
<1> QED
  BY <1>1, <1>3, <1>4

LEMMA NoPostApart ==
    ASSUME TypeOK, Apart
    PROVE  \A d \in Callers : caller[d].pc # "post" /\ caller'[d].pc # "post"
<1>1. Calm
  BY DEF Apart, Steer, Custom, Bash, Abort, CompactNow, CompactResolved, CompactDone
<1> QED
  BY <1>1, ApartSame DEF Calm

\* The end of a run.
LEMMA RunEndIs ==
    ASSUME TypeOK, Owners, NEW c \in Callers, RunEnd(c)
    PROVE  \E stop \in Stops \ {"toolUse"} : \E r \in Message :
              /\ r.role = "assistant" /\ r.stop = stop /\ r # NoMessage /\ r.n = made + 1
              /\ messages' = messages \o <<r>>
              /\ EndsIn(messages') /\ Last(messages') = r
              /\ log' = [log EXCEPT !.detached = @ \/ ~manual.connected,
                                    !.continued = IF stop \in Errors THEN @ ELSE 0]
              /\ manual.connected =>
                    /\ entries' = entries \o <<r>> /\ Last(entries') = r /\ entries' # <<>> /\ EndsIn(entries')
                    /\ last' = r /\ manual' = manual
                    /\ retry' = IF stop \in Errors THEN retry ELSE [retry EXCEPT !.attempt = 0, !.open = FALSE]
                    /\ tried' = (tried /\ stop \in Errors)
              /\ ~log'.detached => manual.connected
<1>1. PICK stop \in Stops \ {"toolUse"} :
        /\ Say(<<Response(made + 1, stop)>>, <<>>, Now) /\ Heard(Response(made + 1, stop))
        /\ tried' = (tried /\ (manual.connected => stop \in Errors))
        /\ log' = [log EXCEPT !.detached = @ \/ ~manual.connected,
                              !.continued = IF stop \in Errors THEN @ ELSE 0]
  BY DEF RunEnd
<1>2. made + 1 \in Nat /\ made + 1 # 0
  <2>1. made \in Nat
    BY DEF TypeOK
  <2> QED
    BY <2>1
<1> DEFINE r == Response(made + 1, stop)
<1>3. r \in Message /\ r.role = "assistant" /\ r.stop = stop /\ r.n = made + 1 /\ r # NoMessage
  BY <1>2, ResponseTyped DEF Response, NoMessage
<1>4. Say(<<r>>, <<>>, Now) /\ Heard(r)
  BY <1>1
<1> HIDE DEF r
<1>5. messages \in Seq(Message) /\ entries \in Seq(Message) /\ log \in Logs
  BY DEF TypeOK, Logs
<1>6. messages' = messages \o <<r>> /\ EndsIn(messages') /\ Last(messages') = r
  BY <1>3, <1>4, <1>5, NowIs, EndsInOne DEF Say
<1>7. ASSUME manual.connected
      PROVE  /\ entries' = entries \o <<r>> /\ Last(entries') = r /\ entries' # <<>> /\ EndsIn(entries')
             /\ last' = r /\ manual' = manual
             /\ retry' = IF stop \in Errors THEN retry ELSE [retry EXCEPT !.attempt = 0, !.open = FALSE]
             /\ tried' = (tried /\ stop \in Errors)
  <2>1. entries' = entries \o <<r>>
    BY <1>4, <1>7, NowIs DEF Say
  <2>2. manual' = manual
    BY <1>7 DEF RunEnd, Owners
  <2> QED
    BY <1>1, <1>3, <1>4, <1>5, <1>7, <2>1, <2>2, EndsInOne DEF Heard
<1>8. ~log'.detached => manual.connected
  BY <1>1, <1>5 DEF Logs
<1> QED
  BY <1>1, <1>3, <1>6, <1>7, <1>8

LEMMA AnsweringStep ==
    ASSUME TypeOK, Structure, NEW c \in Callers, StepOf(c)
    PROVE  Answering'
<1>1. CASE RunEnd(c)
  <2>1. \A d \in Callers \ {c} : caller'[d].pc # "post"
    BY <1>1, PcOthers DEF Structure, RunEnd, Calm
  <2>2. /\ EndsIn(messages')
        /\ ~log'.detached => /\ last' # NoMessage /\ Last(messages') = last' /\ Last(entries') = last'
                             /\ entries' # <<>> /\ manual'.connected
    BY <1>1, RunEndIs DEF Structure
  <2> QED
    BY <2>1, <2>2 DEF Answering, EndsIn
<1>2. CASE ~RunEnd(c)
  BY <1>2, NoPost DEF Structure, Answering
<1> QED
  BY <1>1, <1>2

LEMMA AnsweringApart == ASSUME TypeOK, Apart PROVE Answering'
  BY NoPostApart DEF Answering

\* While another call is past its sending, a step that does not make two of them
\* overlap is one of these.
Outside(c) == /\ \/ Prompt(c) \/ Queued(c) \/ Declined(c) \/ Preflight(c) \/ Landed(c, Now)
                 \/ Summarize(c) /\ caller[c].pre
              /\ ~Posting(c)' /\ UNCHANGED <<run, retry, manual, last>>

\* While a call is past its sending, the steps of another are few.
LEMMA OutsideIs ==
    ASSUME TypeOK, Structure, NEW c \in Callers, StepOf(c), NEW d \in Callers \ {c}, Posting(d), ~log'.overlap
    PROVE  Outside(c) /\ ~Posting(c)
<1>1. ~log.overlap
  BY LogGrows DEF Step
<1>2. ~Posting(c)
  BY <1>1, Solo DEF Structure
<1>3. Others(c) /\ log \in Logs
  BY DEF Others, TypeOK, Logs
<1>4. ASSUME NEW t, NEW us, NEW extra, StartRun(c, t, us, extra) PROVE FALSE
  BY <1>3, <1>4 DEF StartRun, Logs
<1>5. ASSUME NEW t, Finally(c, t) PROVE FALSE
  BY <1>3, <1>5 DEF Finally, Logs
<1>6. ~Send(c)
  BY <1>4, <1>5 DEF Send
<1>7. ~RunTurn(c) /\ ~RunEnd(c)
  BY <1>2 DEF RunTurn, RunEnd, Structure, Owners, Posting
<1>8. ~PostRetry(c) /\ ~PostCompact(c)
  BY <1>2 DEF PostRetry, PostCompact, Posting
<1>9. \A t : ~Resume(c, t)
  BY <1>2 DEF Resume, Posting
<1>10. \A t : Landed(c, t) => t = Now
  BY <1>3 DEF Landed, Logs
<1>11. Summarize(c) => caller[c].pre
  BY <1>2 DEF Summarize, Posting
<1>12. ~Posting(c)'
  BY <1>2, <1>6, PostingAfter DEF Structure
<1>13. \/ Prompt(c) \/ Queued(c) \/ Declined(c) \/ Preflight(c) \/ Landed(c, Now)
       \/ Summarize(c) /\ caller[c].pre
  BY <1>6, <1>7, <1>8, <1>9, <1>10, <1>11 DEF StepOf
<1>14. UNCHANGED <<run, retry, manual, last>>
  BY <1>13 DEF Prompt, Queued, Declined, Preflight, Landed, Summarize
<1> QED
  BY <1>2, <1>12, <1>13, <1>14 DEF Outside

\* What such a step says.
OutsideSays == \/ messages' = messages /\ entries' = entries /\ log'.continued = log.continued
               \/ messages' = messages \o bash /\ entries' = entries \o bash /\ bash # <<>> /\ log'.continued = 0 /\ ~Streaming
               \/ /\ messages' = WithoutLast(messages \o bash) /\ entries' = entries \o bash /\ ~Streaming
                  /\ log'.continued = IF bash = <<>> THEN log.continued ELSE 0
                  /\ tried' = TRUE /\ Responses # {} /\ messages[Max(Responses)].stop = "overflow"

\* They say nothing or flush shell output, unless a prompt compacts.
LEMMA OutsideSaid ==
    ASSUME TypeOK, NEW c \in Callers, Outside(c)
    PROVE  /\ OutsideSays
           /\ tried' \in {tried, TRUE}
           /\ queue' = queue \/ queue' # <<>>
           /\ log'.detached = log.detached
<1>1. log \in Logs /\ messages \in Seq(Message) /\ entries \in Seq(Message) /\ queue \in Seq(Nat)
  BY DEF TypeOK, Logs
<1>2. messages \o <<>> = messages /\ entries \o <<>> = entries
  BY <1>1, EmptyConcat
<1>3. CASE UNCHANGED transcript /\ (UNCHANGED log \/ \E s : log' = [log EXCEPT !.refused = s])
           /\ UNCHANGED tried /\ (queue' = queue \/ queue' # <<>>)
  BY <1>1, <1>3 DEF OutsideSays, transcript, Logs
<1>4. CASE Prompt(c) \/ Summarize(c)
  BY <1>3, <1>4 DEF Prompt, Summarize, transcript
<1>5. CASE Queued(c)
  <2>1. queue' # <<>>
    <3>1. caller[c].msg \in Nat
      BY DEF TypeOK, Call
    <3>2. PICK q \in Nat : Len(queue) = q
      BY <1>1
    <3>3. Len(Append(queue, caller[c].msg)) = q + 1
      BY <1>1, <3>1, <3>2
    <3>4. queue' = Append(queue, caller[c].msg)
      BY <1>5 DEF Queued
    <3>5. Len(queue') # 0
      BY <3>2, <3>3, <3>4
    <3> QED
      BY <3>5
  <2> QED
    BY <1>3, <1>5, <2>1 DEF Queued, transcript
<1>6. CASE Landed(c, Now)
  <2>1. log' = [log EXCEPT !.overlap = log.overlap]
    BY <1>1, <1>6 DEF Landed, Logs
  <2>2. messages' = messages /\ entries' = entries /\ UNCHANGED <<tried, queue>>
    BY <1>6, NowIs DEF Landed
  <2> QED
    BY <1>1, <2>1, <2>2 DEF OutsideSays, Logs
<1>7. CASE Declined(c)
  <2>1. UNCHANGED <<queue, tried>>
    BY <1>7 DEF Declined
  <2>2. CASE UNCHANGED <<transcript, bash>> /\ log' = [log EXCEPT !.refused = @ \cup Pending(caller[c])]
    BY <1>3, <2>1, <2>2
  <2>3. CASE /\ ~Streaming /\ bash # <<>> /\ Flush(Now)
             /\ log' = [log EXCEPT !.refused = @ \cup Pending(caller[c]), !.continued = 0]
    <3>1. log'.continued = 0 /\ log'.detached = log.detached
      BY <1>1, <2>3 DEF Logs
    <3>2. messages' = messages \o bash /\ entries' = entries \o bash
      BY <2>3, NowIs DEF Flush
    <3> QED
      BY <2>1, <2>3, <3>1, <3>2 DEF OutsideSays
  <2> QED
    BY <1>7, <2>2, <2>3 DEF Declined
<1>8. CASE Preflight(c)
  <2> DEFINE r == messages[Max(Responses)]
  <2>1. ~Streaming /\ UNCHANGED queue /\ log' = [log EXCEPT !.continued = IF bash = <<>> THEN @ ELSE 0]
    BY <1>8 DEF Preflight
  <2>2. log'.detached = log.detached /\ log'.continued = IF bash = <<>> THEN log.continued ELSE 0
    BY <1>1, <2>1 DEF Logs
  <2>3. CASE messages' = messages \o bash /\ entries' = entries \o bash /\ tried' = tried
    BY <1>2, <2>1, <2>2, <2>3 DEF OutsideSays
  <2>4. CASE /\ messages' = WithoutLast(messages \o bash) /\ entries' = entries \o bash
             /\ tried' = TRUE /\ Responses # {} /\ r.stop = "overflow"
    BY <2>1, <2>2, <2>4 DEF OutsideSays
  <2>5. (Flush(Now) /\ tried' = tried) \/ (Responses # {} /\ Compact(c, r, TRUE, messages \o bash) /\ entries' = entries \o bash)
    BY <1>8 DEF Preflight
  <2> HIDE DEF r
  <2>6. CASE Flush(Now) /\ tried' = tried
    BY <2>3, <2>6, NowIs DEF Flush
  <2>7. CASE Responses # {} /\ Compact(c, r, TRUE, messages \o bash) /\ entries' = entries \o bash
    BY <2>3, <2>4, <2>7 DEF Compact, Overflown
  <2> QED
    BY <2>5, <2>6, <2>7
<1> QED
  BY <1>4, <1>5, <1>6, <1>7, <1>8 DEF Outside

LEMMA OutsideReady ==
    ASSUME TypeOK, Structure, NEW c \in Callers, Outside(c)
    PROVE  (Ready => Ready') /\ (ReadyFile => ReadyFile')
<1>1. messages \in Seq(Message) /\ entries \in Seq(Message) /\ bash \in Seq(Message) /\ Plain(bash, "bash")
  BY DEF TypeOK, Structure, Roled
<1>2. queue' = queue \/ queue' # <<>>
  BY OutsideSaid
<1>3. (EndsIn(messages \o bash) => EndsIn(messages)) /\ (EndsIn(entries \o bash) => EndsIn(entries))
  BY <1>1, PlainEndConcat
<1>4. ~EndsIn(messages) => ~EndsIn(messages \o bash) /\ WithoutLast(messages \o bash) = messages \o bash
  <2>1. messages \o bash \in Seq(Message)
    BY <1>1
  <2> QED
    BY <1>3, <2>1, WithoutLastEnd
<1>5. entries' \in {entries, entries \o bash} /\ messages' \in {messages, messages \o bash, WithoutLast(messages \o bash)}
  BY OutsideSaid DEF OutsideSays
<1>6. ~EndsIn(messages) => ~EndsIn(messages')
  BY <1>3, <1>4, <1>5
<1>7. ~EndsIn(entries) => ~EndsIn(entries')
  BY <1>3, <1>5
<1>8. Ready => ~EndsIn(messages') \/ queue' # <<>>
  BY <1>2, <1>6 DEF Ready
<1>9. ReadyFile => ~EndsIn(entries') \/ queue' # <<>>
  BY <1>2, <1>7 DEF ReadyFile
<1> QED
  BY <1>8, <1>9 DEF Ready, ReadyFile, EndsIn

-----------------------------------------------------------------------------
(* Runs that start                                                         *)

\* How a run that starts again leaves the context, and how one that starts with
\* a message of the queue or of its call does.
LEMMA AgainIs ==
    ASSUME TypeOK, Kept, NEW c \in Callers, NEW t, Source(t), Again(c, t)
    PROVE  /\ messages' = t.messages /\ entries' = t.entries /\ ~EndsIn(messages') /\ messages' # <<>>
           /\ queue' = queue /\ tried' = tried /\ run'.owner = c /\ run'.step = "start"
           /\ log'.detached = log.detached /\ log'.continued = log.continued + 1
<1>1. t.messages \in Seq(Message) /\ t.entries \in Seq(Message) /\ log \in Logs
  BY SourceIs DEF TypeOK, Logs
<1>2. <<>> \in Seq(Nat) /\ <<>> \in Seq(Message) /\ Len(<<>>) = 0
  OBVIOUS
<1>3. Users(<<>>) \in Seq(Message) /\ Len(Users(<<>>)) = 0
  BY <1>2, UsersAre
<1>4. Users(<<>>) \o <<>> = <<>>
  BY <1>3, EmptyConcat
<1>5. StartRun(c, t, <<>>, <<>>) /\ t.messages # <<>> /\ ~Answered(t) /\ UNCHANGED queue
  BY DEF Again
<1>6. Say(<<>>, <<>>, t)
  BY <1>4, <1>5 DEF StartRun
<1>7. messages' = t.messages /\ entries' = t.entries
  BY <1>1, <1>6, EmptyConcat DEF Say
<1>8. run'.owner = c /\ run'.step = "start"
  BY <1>5, StartIs
<1>9. log' = [log EXCEPT !.overlap = @ \/ Others(c), !.detached = @ \/ FALSE, !.continued = @ + 1]
  BY <1>5 DEF StartRun
<1>10. log'.detached = log.detached /\ log'.continued = log.continued + 1
  BY <1>1, <1>9 DEF Logs
<1>11. tried' = tried
  BY <1>5 DEF StartRun, TypeOK
<1> QED
  BY <1>5, <1>7, <1>8, <1>10, <1>11 DEF Answered, EndsIn

\* How a run that starts with messages leaves the context and the file.
LEMMA StartedIs ==
    ASSUME TypeOK, Kept, NEW c \in Callers, NEW t, Source(t), NEW us \in Seq(Nat), us # <<>>,
           NEW extra \in Seq(Message), Plain(extra, "custom"), StartRun(c, t, us, extra)
    PROVE  /\ \E ms \in Seq(Message) :
                  /\ ms = Users(us) \o extra /\ ~EndsIn(ms) /\ ms # <<>>
                  /\ messages' = t.messages \o ms /\ (manual.connected => entries' = t.entries \o ms)
           /\ ~EndsIn(messages') /\ messages' # <<>>
           /\ run'.owner = c /\ run'.step = "start" /\ log'.continued = 0
           /\ ~log'.detached => manual.connected
<1>1. t.messages \in Seq(Message) /\ t.entries \in Seq(Message) /\ log \in Logs
  BY SourceIs DEF TypeOK, Logs
<1>2. Users(us) \in Seq(Message) /\ Plain(Users(us), "user") /\ Len(Users(us)) = Len(us)
  BY UsersAre
<1> DEFINE ms == Users(us) \o extra
<1>3. ms \in Seq(Message) /\ ~EndsIn(ms)
  <2>1. ~EndsIn(Users(us))
    BY <1>2, PlainEnd
  <2> QED
    BY <1>2, <2>1, PlainEndConcat
<1>4. ms # <<>>
  <2>1. PICK n \in Nat : Len(us) = n /\ n # 0
    OBVIOUS
  <2>2. PICK l \in Nat : Len(extra) = l
    OBVIOUS
  <2>3. Len(ms) = n + l
    BY <1>2, <2>1, <2>2
  <2>4. Len(ms) # 0
    BY <2>1, <2>2, <2>3
  <2> QED
    BY <2>4
<1>5. Say(ms, us, t)
  BY DEF StartRun
<1> HIDE DEF ms
<1>6. messages' = t.messages \o ms /\ (manual.connected => entries' = t.entries \o ms)
  BY <1>5 DEF Say
<1>7. ~EndsIn(messages')
  BY <1>1, <1>3, <1>4, <1>6, EndsInConcat
<1>8. messages' # <<>>
  BY <1>1, <1>3, <1>4, <1>6
<1>9. log' = [log EXCEPT !.overlap = @ \/ Others(c), !.detached = @ \/ ~manual.connected, !.continued = 0]
  BY DEF StartRun
<1>10. log'.continued = 0 /\ (~log'.detached => manual.connected)
  BY <1>1, <1>9 DEF Logs
<1>11. run'.owner = c /\ run'.step = "start"
  BY StartIs
<1>12. \E m \in Seq(Message) :
         /\ m = Users(us) \o extra /\ ~EndsIn(m) /\ m # <<>>
         /\ messages' = t.messages \o m /\ (manual.connected => entries' = t.entries \o m)
  BY <1>3, <1>4, <1>6 DEF ms
<1> QED
  BY <1>7, <1>8, <1>10, <1>11, <1>12

LEMMA FurtherIs ==
    ASSUME TypeOK, Kept, NEW c \in Callers, NEW t, Source(t), Further(c, t)
    PROVE  /\ \E ms \in Seq(Message) :
                  /\ ms = Users(<<Head(queue)>>) \o <<>> /\ ~EndsIn(ms) /\ ms # <<>>
                  /\ messages' = t.messages \o ms /\ (manual.connected => entries' = t.entries \o ms)
           /\ ~EndsIn(messages') /\ messages' # <<>>
           /\ run'.owner = c /\ run'.step = "start" /\ log'.continued = 0
           /\ ~log'.detached => manual.connected
<1>1. queue \in Seq(Nat) /\ queue # <<>>
  BY DEF Further, TypeOK
<1>2. Head(queue) \in Nat
  BY <1>1
<1>3. <<Head(queue)>> \in Seq(Nat) /\ <<Head(queue)>> # <<>>
  BY <1>2
<1>4. <<>> \in Seq(Message) /\ Plain(<<>>, "custom")
  BY PlainEmpty
<1> QED
  BY <1>3, <1>4, StartedIs DEF Further

LEMMA SendsIs ==
    ASSUME TypeOK, Structure, NEW c \in Callers, Sends(c)
    PROVE  /\ \E ms \in Seq(Message) :
                  /\ ms = Users(<<caller[c].msg>>) \o caller[c].extra /\ ~EndsIn(ms) /\ ms # <<>>
                  /\ messages' = messages \o ms /\ (manual.connected => entries' = entries \o ms)
           /\ ~EndsIn(messages') /\ messages' # <<>>
           /\ run'.owner = c /\ run'.step = "start" /\ log'.continued = 0
           /\ ~log'.detached => manual.connected
<1>1. caller[c].msg \in Nat /\ caller[c].extra \in Seq(Message) /\ Plain(caller[c].extra, "custom")
  BY DEF TypeOK, Call, Structure, Roled
<1>2. <<caller[c].msg>> \in Seq(Nat) /\ <<caller[c].msg>> # <<>> /\ Source(Now) /\ Kept
  BY <1>1 DEF Source, Structure
<1>3. StartRun(c, Now, <<caller[c].msg>>, caller[c].extra)
  BY DEF Sends
<1>4. /\ \E ms \in Seq(Message) :
           /\ ms = Users(<<caller[c].msg>>) \o caller[c].extra /\ ~EndsIn(ms) /\ ms # <<>>
           /\ messages' = Now.messages \o ms /\ (manual.connected => entries' = Now.entries \o ms)
      /\ ~EndsIn(messages') /\ messages' # <<>>
      /\ run'.owner = c /\ run'.step = "start" /\ log'.continued = 0
      /\ ~log'.detached => manual.connected
  BY <1>1, <1>2, <1>3, StartedIs
<1> QED
  BY <1>4, NowIs

\* What a turn of a run leaves.
LEMMA TurnEnds ==
    ASSUME TypeOK, NEW ms \in Seq(Message), NEW us \in Seq(Nat), NEW step, NEW good, Turn(ms, us, step, good)
    PROVE  /\ us # <<>> => ~EndsIn(messages')
           /\ us = <<>> => messages' = messages \o ms
           /\ ~log'.detached => manual.connected
           /\ log'.continued = IF good \/ us # <<>> THEN 0 ELSE log.continued
           /\ run'.step = step
<1>1. log \in Logs /\ messages \in Seq(Message) /\ run \in RunStates
  BY DEF TypeOK, Logs, RunStates
<1>2. Users(us) \in Seq(Message) /\ Plain(Users(us), "user") /\ Len(Users(us)) = Len(us)
  BY UsersAre
<1>3. messages' = messages \o (ms \o Users(us))
  BY NowIs DEF Turn, Say
<1>4. us = <<>> => ms \o Users(us) = ms
  <2>1. us = <<>> => Users(us) = <<>>
    BY <1>2
  <2> QED
    BY <2>1, EmptyConcat
<1>5. ASSUME us # <<>> PROVE ~EndsIn(messages')
  <2>1. Len(us) # 0 /\ Users(us) # <<>>
    BY <1>2, <1>5
  <2>2. ~EndsIn(Users(us))
    BY <1>2, PlainEnd
  <2>3. ~EndsIn(ms \o Users(us)) /\ ms \o Users(us) \in Seq(Message)
    BY <1>2, <2>1, <2>2, EndsInConcat
  <2>4. ms \o Users(us) # <<>>
    BY <1>2, <2>1
  <2> QED
    BY <1>1, <1>3, <2>3, <2>4, EndsInConcat
<1>6. log' = [log EXCEPT !.detached = @ \/ ~manual.connected, !.continued = IF good \/ us # <<>> THEN 0 ELSE @]
  BY DEF Turn
<1>7. /\ ~log'.detached => manual.connected
      /\ log'.continued = IF good \/ us # <<>> THEN 0 ELSE log.continued
  BY <1>1, <1>6 DEF Logs
<1>8. run'.step = step
  BY <1>1 DEF Turn, RunStates
<1> QED
  BY <1>3, <1>4, <1>5, <1>7, <1>8

-----------------------------------------------------------------------------
(* Announced retries                                                       *)

Compacting == manual.pc \in {"resolve", "summarize"}
\* What a call and its run promise about the retry, the context and the file.
PairOne(c) ==
    /\ caller[c].pc = "post" => /\ last.stop \notin Errors => ~retry.open
                                /\ ~EndsIn(WithoutLast(messages)) \/ queue # <<>>
    /\ Mid(c) => ~retry.open
    /\ caller[c].pc = "sleep" => retry.ctl = c
    /\ caller[c].pc = "sleep" /\ ~caller[c].aborted => manual.connected /\ Ready
    /\ run.owner = c /\ run.step # "tools" => Ready
    /\ run.owner = c /\ Compacting => run.step = "start" /\ ReadyFile
OpenOwned == retry.open => \E c \in Callers : Posting(c)
Paired == ~Excused => (\A c \in Callers : PairOne(c)) /\ OpenOwned

\* Nothing is promised of a call that is not past its sending.
LEMMA PairIdle ==
    ASSUME TypeOK', Owners', NEW c \in Callers, ~Posting(c)'
    PROVE  PairOne(c)'
  BY DEF PairOne, Posting, Mid, Owners

\* A step from outside keeps what is known of a call.
LEMMA PairOutside ==
    ASSUME TypeOK, Structure, NEW c \in Callers, StepOf(c), NEW d \in Callers \ {c}, Posting(d), ~log'.overlap, PairOne(d)
    PROVE  PairOne(d)'
<1>1. Outside(c)
  BY OutsideIs
<1>2. (Ready => Ready') /\ (ReadyFile => ReadyFile')
  BY <1>1, OutsideReady
<1>3. caller'[d] = caller[d]
  BY PcOthers DEF Structure
<1>4. UNCHANGED <<run, retry, manual, last>>
  BY <1>1 DEF Outside
<1>5. caller[d].pc # "post"
  <2>1. Calm
    BY <1>1 DEF Outside, Prompt, Queued, Declined, Preflight, Landed, Summarize
  <2> QED
    BY <2>1 DEF Calm
<1> QED
  BY <1>2, <1>3, <1>4, <1>5 DEF PairOne, Mid, Compacting

\* A retry that is over sends its request again.
LEMMA SleepContinues ==
    ASSUME TypeOK, Structure, NEW c \in Callers, NEW t, FromSleep(c, t), ~Excused, PairOne(c), ~caller[c].aborted
    PROVE  Again(c, Now) \/ Further(c, Now)
<1>1. caller[c].pc = "sleep" /\ Continue(c, Now)
  BY DEF FromSleep
<1>2. Posting(c)
  BY <1>1 DEF Posting
<1>3. ~Streaming
  <2>1. Streaming => run.owner = c
    BY <1>2, Runner, Solo DEF Structure, Excused
  <2> QED
    BY <1>1, <2>1 DEF Structure, Owners, Streaming
<1>4. messages # <<>>
  BY <1>2 DEF Structure, Rooted
<1>5. ~(Answered(Now) /\ queue = <<>>)
  BY <1>1, NowIs DEF PairOne, Ready, EndsIn, Answered
<1> QED
  BY <1>1, <1>3, <1>4, <1>5, NowIs DEF Continue, Again, Further

\* A prompt that ends after its run leaves no retry announced.
LEMMA HaltCloses ==
    ASSUME TypeOK, Structure, Answering, NEW c \in Callers, NEW t, Resume(c, t), ~Excused, PairOne(c)
    PROVE  retry'.open = FALSE \/ Again(c, t) \/ Further(c, t)
<1>0. retry \in RetryStates
  BY DEF TypeOK, RetryStates
<1>1. CASE FromPost(c, t)
  <2>1. last # NoMessage
    BY <1>1 DEF FromPost, Answering, Excused
  <2>2. retry' = IF last.stop \in Errors THEN [retry EXCEPT !.attempt = 0, !.open = FALSE] ELSE retry
    BY <1>1, <2>1 DEF FromPost
  <2>3. last.stop \notin Errors => retry.open = FALSE
    BY <1>0, <1>1 DEF FromPost, PairOne, RetryStates
  <2> QED
    BY <1>0, <2>2, <2>3 DEF RetryStates
<1>2. CASE FromSleep(c, t)
  <2>1. t = Now
    BY <1>2 DEF FromSleep
  <2>2. CASE caller[c].aborted
    BY <1>2, <2>2 DEF FromSleep
  <2> QED
    BY <1>2, <2>1, <2>2, SleepContinues
<1>3. CASE FromCompaction(c, t)
  BY <1>0, <1>3 DEF FromCompaction, Resume, PairOne, Mid, RetryStates
<1> QED
  BY <1>1, <1>2, <1>3 DEF Resume, Origin

\* What is said without a run is no response.
LEMMA AppendEnds ==
    ASSUME TypeOK, Kept, NEW k \in Nat, Keepable(k), NEW again \in BOOLEAN
    PROVE  /\ ~EndsIn(Landing(k, again).entries)
           /\ EndsIn(Landing(k, FALSE).messages) => EndsIn(entries)
<1>1. entries \in Seq(Message) /\ k \in 1 .. Len(entries) /\ Msg("compaction", k) \in Message
  BY ResponseTyped DEF TypeOK, Keepable, KeepableIn, Roles
<1> DEFINE m == Msg("compaction", k)
           e == Append(entries, m)
           s == Build(e)
<1>2. Landing(k, again).entries = e /\ Landing(k, FALSE).messages = s
  BY DEF Landing, Transcript
<1>3. /\ s \in Seq(Message) /\ s # <<>> /\ s[1] = m /\ Len(s) = Len(entries) - k + 2
      /\ \A i \in 2 .. Len(entries) - k + 2 : s[i] = entries[k + i - 2]
  BY LandingIs
<1>4. Last(e) = m /\ m.role = "compaction"
  BY <1>1, AppendLast DEF Msg
<1> HIDE DEF e, m, s
<1>5. PICK n \in Nat : Len(entries) = n /\ k <= n /\ 1 <= k
  BY <1>1
<1>6. Last(s) = s[n - k + 2]
  BY <1>3, <1>5, LastIs
<1>7. Last(s) = entries[n]
  <2>1. n - k + 2 \in 2 .. n - k + 2 /\ k + (n - k + 2) - 2 = n
    BY <1>5
  <2>2. s[n - k + 2] = entries[k + (n - k + 2) - 2]
    BY <1>3, <1>5, <2>1
  <2> QED
    BY <1>6, <2>1, <2>2
<1>8. entries # <<>> /\ Last(entries) = entries[n]
  <2>1. entries # <<>>
    BY <1>1, <1>5
  <2> QED
    BY <1>1, <1>5, <2>1, LastIs
<1> QED
  BY <1>2, <1>4, <1>7, <1>8 DEF EndsIn

\* A run that starts again leaves something to answer, in the file too.
LEMMA PairResumed ==
    ASSUME TypeOK, Structure, Answering, NEW c \in Callers, NEW t, Resume(c, t),
           ~Excused, ~log'.detached, PairOne(c), Again(c, t) \/ Further(c, t)
    PROVE  run'.owner = c /\ run'.step = "start" /\ Ready' /\ (Compacting' => ReadyFile')
<1>1. Kept /\ Source(t) /\ manual' = manual
  BY DEF Structure, Resume
<1>2. run'.owner = c /\ run'.step = "start" /\ ~EndsIn(messages')
  BY <1>1, AgainIs, FurtherIs
<1>3. Ready'
  BY <1>2 DEF Ready, EndsIn
<1>4. ASSUME Compacting' PROVE ReadyFile'
  <2>1. ~manual.connected /\ Compacting
    BY <1>1, <1>4 DEF Compacting, Structure, Owners
  <2>2. Again(c, t)
    BY <1>1, <2>1, FurtherIs
  <2>3. entries' = t.entries /\ queue' = queue
    BY <1>1, <2>2, AgainIs
  <2>4. queue # <<>> \/ ~EndsIn(t.entries)
    <3>1. ~FromPost(c, t)
      BY <2>1 DEF FromPost, Answering, Excused
    <3>0. ContinueIfQueued(c, t) => queue # <<>>
      <4>1. caller'[c].pc = "running"
        BY <2>2, StartIs DEF Again
      <4>2. Finally(c, t) => caller'[c].pc = "idle"
        BY EndIs, NoCallIs DEF Finally
      <4> QED
        BY <4>1, <4>2 DEF ContinueIfQueued
    <3>2. FromSleep(c, t) => queue # <<>>
      BY <2>1, <3>0 DEF FromSleep, PairOne
    <3>3. CASE FromCompaction(c, t)
      <4>1. CASE ContinueIfQueued(c, t)
        BY <3>0, <4>1
      <4>2. CASE ~ContinueIfQueued(c, t)
        <5>1. Keepable(caller[c].keep) /\ \E again \in BOOLEAN : t = Landing(caller[c].keep, again)
          BY <3>3, <4>2 DEF FromCompaction
        <5>2. caller[c].keep \in Nat
          BY DEF TypeOK, Call
        <5> QED
          BY <1>1, <5>1, <5>2, AppendEnds
      <4> QED
        BY <4>1, <4>2
    <3> QED
      BY <3>1, <3>2, <3>3 DEF Resume, Origin
  <2> QED
    BY <2>3, <2>4 DEF ReadyFile, EndsIn
<1> QED
  BY <1>2, <1>3, <1>4

\* A turn of the run keeps it.
LEMMA PairTurn ==
    ASSUME TypeOK, Structure, NEW c \in Callers, RunTurn(c), ~log'.detached
    PROVE  manual.connected /\ (run'.step # "tools" => Ready')
<1>1. made + 1 \in Nat /\ queue \in Seq(Nat) /\ <<>> \in Seq(Nat) /\ <<>> \in Seq(Message)
  BY DEF TypeOK
<1>2. queue # <<>> => <<Head(queue)>> \in Seq(Nat) /\ <<Head(queue)>> # <<>>
  <2>1. queue # <<>> => Head(queue) \in Nat
    BY <1>1
  <2> QED
    BY <2>1
<1> DEFINE answer == Response(made + 1, "stop")
           call == Response(made + 1, "toolUse")
           result == Msg("toolResult", made + 1)
<1>3. answer \in Message /\ call \in Message /\ result \in Message /\ result.role = "toolResult"
  BY <1>1, ResponseTyped DEF Msg, Stops, Roles
<1>4. <<answer>> \in Seq(Message) /\ <<call>> \in Seq(Message) /\ <<result>> \in Seq(Message)
  BY <1>3
<1>5. \/ queue # <<>> /\ Turn(<<>>, <<Head(queue)>>, "model", FALSE)
      \/ Turn(<<call>>, <<>>, "tools", TRUE)
      \/ Turn(<<result>>, <<>>, "model", FALSE)
      \/ queue # <<>> /\ Turn(<<result>>, <<Head(queue)>>, "model", FALSE)
      \/ queue # <<>> /\ Turn(<<answer>>, <<Head(queue)>>, "model", TRUE)
  BY DEF RunTurn
<1> HIDE DEF answer, call, result
<1>6. CASE queue # <<>> /\ Turn(<<>>, <<Head(queue)>>, "model", FALSE)
  BY <1>1, <1>2, <1>6, TurnEnds DEF Ready, EndsIn
<1>7. CASE Turn(<<call>>, <<>>, "tools", TRUE)
  BY <1>1, <1>4, <1>7, TurnEnds
<1>8. CASE Turn(<<result>>, <<>>, "model", FALSE)
  <2>1. messages' = messages \o <<result>> /\ manual.connected
    BY <1>1, <1>4, <1>8, TurnEnds
  <2>2. ~EndsIn(messages')
    BY <1>3, <2>1, EndsInOne DEF TypeOK
  <2> QED
    BY <2>1, <2>2 DEF Ready, EndsIn
<1>9. CASE queue # <<>> /\ Turn(<<result>>, <<Head(queue)>>, "model", FALSE)
  BY <1>2, <1>4, <1>9, TurnEnds DEF Ready, EndsIn
<1>10. CASE queue # <<>> /\ Turn(<<answer>>, <<Head(queue)>>, "model", TRUE)
  BY <1>2, <1>4, <1>10, TurnEnds DEF Ready, EndsIn
<1> QED
  BY <1>5, <1>6, <1>7, <1>8, <1>9, <1>10

\* A call's own step keeps what it promises.
LEMMA PairOwn ==
    ASSUME TypeOK, Structure, Answering, NEW c \in Callers, StepOf(c), TypeOK', Structure',
           ~Excused, ~log'.detached, PairOne(c), Posting(c)'
    PROVE  PairOne(c)'
<1>a. Owners /\ Owners' /\ Kept /\ retry \in RetryStates /\ messages \in Seq(Message) /\ run \in RunStates
  BY DEF Structure, TypeOK, RetryStates, RunStates
<1>1. CASE Prompt(c) \/ Queued(c) \/ Declined(c) \/ Preflight(c)
  BY <1>1, PcAfter, NoCallIs DEF Posting
<1>2. CASE Send(c)
  <2>1. caller'[c].pc = "running" /\ Sends(c)
    BY <1>2, PcAfter, NoCallIs, EndIs DEF Posting, Send, Sends, Finally
  <2>2. ~EndsIn(messages') /\ manual.connected /\ manual' = manual
    BY <1>2, <2>1, SendsIs DEF Send
  <2> QED
    BY <1>a, <2>1, <2>2 DEF PairOne, Mid, Ready, EndsIn, Compacting, Owners
<1>3. CASE RunTurn(c)
  <2>1. caller'[c].pc = "running"
    BY <1>3, PcAfter DEF RunTurn, Structure, Owners
  <2>2. manual.connected /\ manual' = manual /\ (run'.step # "tools" => Ready')
    BY <1>3, PairTurn DEF RunTurn
  <2> QED
    BY <1>a, <2>1, <2>2 DEF PairOne, Mid, Compacting, Owners
<1>4. CASE RunEnd(c)
  <2>1. caller'[c].pc = "post" /\ run.owner = c /\ run.step # "tools" /\ queue' = queue
    BY <1>4, PcAfter DEF RunEnd
  <2>2. PICK stop \in Stops \ {"toolUse"}, r \in Message :
           /\ r.role = "assistant" /\ r.stop = stop /\ messages' = messages \o <<r>>
           /\ last' = r
           /\ retry' = IF stop \in Errors THEN retry ELSE [retry EXCEPT !.attempt = 0, !.open = FALSE]
    BY <1>a, <1>4, RunEndIs
  <2>3. last'.stop \notin Errors => ~retry'.open
    BY <1>a, <2>2 DEF RetryStates
  <2>4. WithoutLast(messages') = messages
    <3>1. messages' = Append(messages, r)
      BY <1>a, <2>2, AppendConcat
    <3> QED
      BY <1>a, <2>2, <3>1, AppendLast DEF WithoutLast
  <2>5. ~EndsIn(WithoutLast(messages')) \/ queue' # <<>>
    BY <2>1, <2>4 DEF PairOne, Ready
  <2> QED
    BY <1>a, <2>1, <2>3, <2>5 DEF PairOne, Mid, Owners, EndsIn
<1>5. CASE PostRetry(c)
  <2>1. caller'[c].pc = "sleep" /\ retry'.ctl = c /\ manual' = manual /\ queue' = queue /\ messages' = WithoutLast(messages)
    BY <1>5, PcAfter DEF PostRetry
  <2>2. manual.connected /\ (~EndsIn(WithoutLast(messages)) \/ queue # <<>>)
    BY <1>5 DEF PostRetry, Answering, PairOne, Excused
  <2> QED
    BY <1>a, <2>1, <2>2 DEF PairOne, Mid, Owners, Ready, EndsIn
<1>6. CASE PostCompact(c)
  <2>1. caller'[c].pc = "resolve"
    BY <1>6, PcAfter
  <2>2. retry' = IF last.stop \in Errors THEN [retry EXCEPT !.attempt = 0, !.open = FALSE] ELSE retry
    BY <1>6 DEF PostCompact
  <2>3. ~retry'.open
    BY <1>a, <1>6, <2>2 DEF PostCompact, PairOne, RetryStates
  <2> QED
    BY <1>a, <2>1, <2>3 DEF PairOne, Mid, Owners
<1>7. CASE Summarize(c)
  <2>1. caller'[c].pc = "summarize" /\ caller'[c].pre = caller[c].pre /\ retry' = retry /\ caller[c].pc = "resolve"
    BY <1>7, PcAfter DEF Summarize
  <2>2. Mid(c)
    BY <2>1 DEF Posting, Mid
  <2> QED
    BY <1>a, <2>1, <2>2 DEF PairOne, Mid, Owners
<1>8. ASSUME NEW t, Landed(c, t) PROVE FALSE
  BY <1>8, PcAfter DEF Posting
<1>9. ASSUME NEW t, Resume(c, t) PROVE PairOne(c)'
  <2>1. caller'[c].pc = "running"
    BY <1>9, PcAfter, NoCallIs DEF Posting
  <2>2. Again(c, t) \/ Further(c, t)
    BY <1>9, <2>1, EndIs, NoCallIs DEF Resume, GoesOn, Halt, Finally
  <2>3. run'.owner = c /\ run'.step = "start" /\ Ready' /\ (Compacting' => ReadyFile')
    BY <1>9, <2>2, PairResumed
  <2> QED
    BY <1>a, <2>1, <2>3 DEF PairOne, Mid, Owners
<1> QED
  BY <1>1, <1>2, <1>3, <1>4, <1>5, <1>6, <1>7, <1>8, <1>9 DEF StepOf

\* An announced retry is of a prompt that is going on.
LEMMA OpenStep ==
    ASSUME TypeOK, Structure, Answering, NEW c \in Callers, StepOf(c), ~Excused, ~log'.overlap, ~log'.detached,
           PairOne(c), OpenOwned
    PROVE  OpenOwned'
<1>1. SUFFICES ASSUME retry'.open, \A d \in Callers : ~Posting(d)' PROVE FALSE
  BY DEF OpenOwned
<1>2. \A d \in Callers \ {c} : ~Posting(d)
  BY <1>1, PostingAfter DEF Structure
<1>3. Posting(c) \/ ~retry.open
  BY <1>2 DEF OpenOwned
<1>4. CASE Prompt(c) \/ Queued(c) \/ Declined(c) \/ Preflight(c) \/ Send(c) \/ \E t : Landed(c, t)
  <2>1. retry' = retry
    BY <1>4 DEF Prompt, Queued, Declined, Preflight, Send, Landed
  <2>2. ~Posting(c)
    BY <1>4 DEF Prompt, Queued, Declined, Preflight, Send, Landed, Posting
  <2> QED
    BY <1>1, <1>3, <2>1, <2>2
<1>5. CASE RunTurn(c) \/ RunEnd(c) \/ PostRetry(c) \/ PostCompact(c)
  <2>1. RunTurn(c) => caller'[c].pc = "running"
    BY PcAfter DEF RunTurn, Structure, Owners
  <2> QED
    BY <1>1, <1>5, <2>1, PcAfter DEF Posting
<1>6. CASE Summarize(c)
  <2>1. caller'[c].pc = "summarize" /\ caller'[c].pre = caller[c].pre /\ retry' = retry /\ caller[c].pc = "resolve"
    BY <1>6, PcAfter DEF Summarize
  <2> QED
    BY <1>1, <1>3, <2>1 DEF Posting
<1>7. ASSUME NEW t, Resume(c, t) PROVE FALSE
  <2>1. Again(c, t) \/ Further(c, t)
    BY <1>1, <1>7, HaltCloses
  <2>2. caller'[c].pc = "running"
    BY <2>1, StartIs DEF Again, Further
  <2> QED
    BY <1>1, <2>2 DEF Posting
<1> QED
  BY <1>4, <1>5, <1>6, <1>7 DEF StepOf

LEMMA PairedStep ==
    ASSUME TypeOK, Structure, Answering, Paired, NEW c \in Callers, StepOf(c)
    PROVE  Paired'
<1>1. SUFFICES ASSUME ~Excused' PROVE (\A d \in Callers : PairOne(d)') /\ OpenOwned'
  BY DEF Paired
<1>2. ~Excused /\ ~log'.overlap /\ ~log'.detached
  BY <1>1, LogGrows DEF Excused, Step
<1>3. (\A d \in Callers : PairOne(d)) /\ OpenOwned
  BY <1>2 DEF Paired
<1>4. TypeOK' /\ Structure' /\ Owners'
  BY StructureStep DEF Structure
<1>5. ASSUME NEW d \in Callers PROVE PairOne(d)'
  <2>1. CASE ~Posting(d)'
    BY <1>4, <2>1, PairIdle
  <2>2. CASE Posting(d)' /\ d = c
    BY <1>2, <1>3, <1>4, <2>2, PairOwn
  <2>3. CASE Posting(d)' /\ d # c
    <3>1. Posting(d)
      BY <2>3, PostingAfter DEF Structure
    <3> QED
      BY <1>2, <1>3, <2>3, <3>1, PairOutside
  <2> QED
    BY <2>1, <2>2, <2>3
<1>6. OpenOwned'
  BY <1>2, <1>3, OpenStep
<1> QED
  BY <1>5, <1>6

\* A message that is queued is there.
LEMMA QueueGrows == ASSUME TypeOK, NEW n \in Nat, queue' = Append(queue, n) PROVE queue' # <<>>
<1>1. queue \in Seq(Nat)
  BY DEF TypeOK
<1>2. PICK q \in Nat : Len(queue) = q
  BY <1>1
<1>3. Len(queue') = q + 1
  BY <1>1, <1>2
<1>4. Len(queue') # 0
  BY <1>3
<1> QED
  BY <1>4

LEMMA SayNowIs ==
    ASSUME TypeOK, NEW m \in Message, m.role # "assistant", SayNow(m)
    PROVE  messages' = messages \o <<m>> /\ entries' = entries \o <<m>> /\ ~EndsIn(messages') /\ ~EndsIn(entries')
           /\ log'.continued = 0 /\ log'.detached = log.detached
<1>1. messages \in Seq(Message) /\ entries \in Seq(Message) /\ log \in Logs
  BY DEF TypeOK, Logs
<1>2. messages' = messages \o <<m>> /\ entries' = entries \o <<m>>
  BY <1>1, AppendConcat DEF SayNow
<1>3. log'.continued = 0 /\ log'.detached = log.detached
  BY <1>1 DEF SayNow, Logs
<1> QED
  BY <1>1, <1>2, <1>3, EndsInOne

\* What is not a step of a call does to the context and to what is counted.
LEMMA ApartSays ==
    ASSUME TypeOK, Kept, Apart
    PROVE  /\ retry' = retry /\ last' = last /\ tried' = tried /\ run'.owner = run.owner /\ run'.step = run.step
           /\ log'.detached = log.detached /\ log'.continued \in {0, log.continued}
           /\ \/ transcript' = transcript /\ (queue' = queue \/ queue' # <<>>)
              \/ /\ ~Streaming /\ ~EndsIn(messages') /\ queue' = queue /\ log'.continued = 0
                 /\ \E m \in Message : /\ m.role \in {"custom", "bash"} /\ m.stop = "stop"
                                       /\ messages' = messages \o <<m>> /\ entries' = entries \o <<m>>
              \/ /\ manual.pc = "summarize" /\ CompactDone /\ queue' = queue /\ log' = log
                 /\ \E k \in Nat : Keepable(k) /\ messages' = Landing(k, FALSE).messages /\ entries' = Landing(k, FALSE).entries
<1>0. log \in Logs /\ run \in RunStates /\ made + 1 \in Nat /\ manual.keep \in Nat
  BY DEF TypeOK, Logs, RunStates
<1>1. CASE Steer
  BY <1>0, <1>1, QueueGrows DEF Steer
<1>2. CASE Custom
  <2>1. CASE UNCHANGED <<transcript, log>>
    BY <1>0, <1>2, <2>1 DEF Custom
  <2>2. CASE ~Streaming /\ SayNow(Msg("custom", made + 1))
    <3>1. Msg("custom", made + 1) \in Message /\ Msg("custom", made + 1).role = "custom" /\ Msg("custom", made + 1).stop = "stop"
      BY <1>0, ResponseTyped DEF Msg, Roles
    <3> QED
      BY <1>0, <1>2, <2>2, <3>1, SayNowIs DEF Custom
  <2> QED
    BY <1>2, <2>1, <2>2 DEF Custom
<1>3. CASE Bash
  <2>1. CASE UNCHANGED <<transcript, log>>
    BY <1>0, <1>3, <2>1 DEF Bash
  <2>2. CASE ~Streaming /\ SayNow(Msg("bash", made + 1))
    <3>1. Msg("bash", made + 1) \in Message /\ Msg("bash", made + 1).role = "bash" /\ Msg("bash", made + 1).stop = "stop"
      BY <1>0, ResponseTyped DEF Msg, Roles
    <3> QED
      BY <1>0, <1>3, <2>2, <3>1, SayNowIs DEF Bash
  <2> QED
    BY <1>3, <2>1, <2>2 DEF Bash, Record
<1>4. CASE Abort \/ CompactNow
  <2>1. log'.detached = log.detached /\ log'.continued = 0
    BY <1>0, <1>4 DEF Abort, CompactNow, Logs
  <2>2. run'.owner = run.owner /\ run'.step = run.step
    BY <1>0, <1>4 DEF Abort, CompactNow, RunStates
  <2> QED
    BY <1>4, <2>1, <2>2 DEF Abort, CompactNow
<1>5. CASE CompactResolved
  BY <1>0, <1>5 DEF CompactResolved
<1>6. CASE CompactDone
  <2>1. manual.pc = "summarize" /\ Keepable(manual.keep)
    BY <1>6 DEF CompactDone, Kept
  <2>2. UNCHANGED <<run, queue, last, retry, tried, log>>
    BY <1>6 DEF CompactDone
  <2>3. CASE UNCHANGED transcript
    BY <1>0, <2>2, <2>3
  <2>4. CASE messages' = Compaction(manual.keep).messages /\ entries' = Compaction(manual.keep).entries
    <3>1. Compaction(manual.keep) = Landing(manual.keep, FALSE)
      BY DEF Compaction, Landing
    <3> QED
      BY <1>0, <1>6, <2>1, <2>2, <2>4, <3>1
  <2> QED
    BY <1>6, <2>3, <2>4 DEF CompactDone
<1> QED
  BY <1>1, <1>2, <1>3, <1>4, <1>5, <1>6 DEF Apart

\* Steps apart from the calls keep what is known of a call.
LEMMA PairApart ==
    ASSUME TypeOK, Structure, Apart, NEW c \in Callers, PairOne(c)
    PROVE  PairOne(c)'
<1>1. Kept /\ Owners
  BY DEF Structure
<1>2. /\ retry' = retry /\ last' = last /\ run'.owner = run.owner /\ run'.step = run.step
      /\ \/ transcript' = transcript /\ (queue' = queue \/ queue' # <<>>)
         \/ ~Streaming /\ ~EndsIn(messages')
         \/ /\ manual.pc = "summarize" /\ CompactDone /\ queue' = queue
            /\ \E k \in Nat : Keepable(k) /\ messages' = Landing(k, FALSE).messages
  BY <1>1, ApartSays
<1>3. caller[c].pc # "post" /\ caller'[c].pc = caller[c].pc /\ caller'[c].pre = caller[c].pre
  BY NoPostApart, ApartSame
<1>4. caller'[c] \in {caller[c], [caller[c] EXCEPT !.aborted = TRUE]} /\ caller[c] \in Call
  BY ApartCalls DEF TypeOK
<1>5. ~caller'[c].aborted => ~caller[c].aborted
  BY <1>4 DEF Call
<1>6. ASSUME caller[c].pc = "sleep", ~caller'[c].aborted PROVE manual'.connected /\ Ready'
  <2>1. manual.connected /\ Ready /\ retry.ctl = c
    BY <1>5, <1>6 DEF PairOne
  <2>2. ~CompactNow
    <3>1. SUFFICES ASSUME CompactNow PROVE FALSE
      OBVIOUS
    <3>2. caller' = [caller EXCEPT ![c].aborted = TRUE] /\ caller \in [Callers -> Call]
      BY <2>1, <3>1, SessionAssumption DEF CompactNow, AbortRetry, TypeOK
    <3>3. caller'[c] = [caller[c] EXCEPT !.aborted = TRUE]
      BY <3>2
    <3>4. caller'[c].aborted
      BY <1>4, <3>3 DEF Call
    <3> QED
      BY <1>6, <3>4
  <2>3. manual.pc = "idle"
    BY <1>1, <2>1 DEF Owners
  <2>4. manual'.connected
    <3>1. Abort => manual'.connected = manual.connected
      BY DEF Abort, TypeOK
    <3> QED
      BY <2>1, <2>2, <2>3, <3>1 DEF Apart, Steer, Custom, Bash, CompactResolved, CompactDone
  <2>5. Ready'
    BY <1>2, <2>1, <2>3 DEF Ready, EndsIn, transcript
  <2> QED
    BY <2>4, <2>5
<1>7. ASSUME run.owner = c PROVE Streaming
  BY <1>7, SessionAssumption DEF Streaming
<1>8. ASSUME run.owner = c, run.step # "tools" PROVE Ready'
  <2>1. Ready
    BY <1>8 DEF PairOne
  <2>2. CASE transcript' = transcript /\ (queue' = queue \/ queue' # <<>>)
    BY <2>1, <2>2 DEF Ready, EndsIn, transcript
  <2>3. CASE /\ manual.pc = "summarize" /\ queue' = queue
             /\ \E k \in Nat : Keepable(k) /\ messages' = Landing(k, FALSE).messages
    <3>1. ReadyFile
      BY <1>8, <2>3 DEF PairOne, Compacting
    <3>2. EndsIn(messages') => EndsIn(entries)
      BY <1>1, <2>3, AppendEnds
    <3> QED
      BY <2>3, <3>1, <3>2 DEF Ready, ReadyFile, EndsIn
  <2> QED
    BY <1>2, <1>7, <1>8, <2>2, <2>3
<1>9. ASSUME run.owner = c, Compacting' PROVE run.step = "start" /\ ReadyFile'
  <2>1. Compacting /\ ~CompactNow /\ ~CompactDone
    <3>1. CompactNow => manual'.pc = "wait"
      <4>1. Streaming
        BY <1>7, <1>9
      <4>2. CompactNow => manual' = [pc |-> "wait", keep |-> 0, aborted |-> FALSE, connected |-> FALSE]
        BY <4>1 DEF CompactNow
      <4> QED
        BY <4>2
    <3>2. ~CompactDone
      BY <1>9 DEF CompactDone, Compacting, IdleManual
    <3>3. Abort => Compacting
      BY <1>9 DEF Abort, Compacting, TypeOK
    <3> QED
      BY <1>9, <3>1, <3>2, <3>3 DEF Apart, Steer, Custom, Bash, CompactResolved, Compacting
  <2>2. transcript' = transcript /\ (queue' = queue \/ queue' # <<>>)
    BY <1>2, <1>7, <1>9, <2>1
  <2>3. run.step = "start" /\ ReadyFile
    BY <1>9, <2>1 DEF PairOne
  <2> QED
    BY <2>2, <2>3 DEF ReadyFile, EndsIn, transcript
<1>10. (Mid(c)' => ~retry'.open) /\ (caller'[c].pc = "sleep" => retry'.ctl = c)
  BY <1>2, <1>3 DEF PairOne, Mid
<1> QED
  BY <1>2, <1>3, <1>6, <1>8, <1>9, <1>10 DEF PairOne

LEMMA PairedApart ==
    ASSUME TypeOK, Structure, Paired, Apart
    PROVE  Paired'
<1>1. SUFFICES ASSUME ~Excused' PROVE (\A d \in Callers : PairOne(d)') /\ OpenOwned'
  BY DEF Paired
<1>2. ~Excused
  BY <1>1, LogGrows DEF Excused, Step
<1>3. (\A d \in Callers : PairOne(d)) /\ OpenOwned
  BY <1>2 DEF Paired
<1>4. retry' = retry
  BY ApartSays DEF Structure
<1>5. OpenOwned'
  BY <1>3, <1>4, PostingApart DEF OpenOwned
<1> QED
  BY <1>3, <1>5, PairApart

LEMMA PairedSame == ASSUME Paired, Answering, UNCHANGED vars PROVE Paired' /\ Answering'
  BY DEF vars, Paired, PairOne, OpenOwned, Answering, Excused, Ready, ReadyFile, EndsIn, Mid, Posting, Compacting, transcript

LEMMA PairedInit == ASSUME Init PROVE Paired /\ Answering
<1>1. \A c \in Callers : caller[c] = NoCall
  BY DEF Init
<1> QED
  BY <1>1, NoCallIs, SessionAssumption DEF Init, Paired, PairOne, OpenOwned, Answering, Mid

Held == TypeOK /\ Structure /\ Answering /\ Paired
\* Structure, answers and retries are inductive together.
LEMMA HeldNext == ASSUME Held, [Next]_vars PROVE Held' /\ (Next => Step)
<1>1. CASE Next
  <2>1. (\E c \in Callers : StepOf(c)) \/ Apart
    BY <1>1, Steps DEF Held, Structure
  <2>2. ASSUME NEW c \in Callers, StepOf(c) PROVE Held'
    BY <2>2, StructureStep, AnsweringStep, PairedStep DEF Held
  <2>3. ASSUME Apart PROVE Held'
    BY <2>3, StructureApart, AnsweringApart, PairedApart DEF Held
  <2> QED
    BY <2>1, <2>2, <2>3 DEF Step
<1>2. CASE UNCHANGED vars
  <2>1. Held'
    BY <1>2, StructureSame, PairedSame DEF Held
  <2>2. Next => Step
    BY Steps DEF Held, Structure, Step
  <2> QED
    BY <2>1, <2>2
<1> QED
  BY <1>1, <1>2

LEMMA HeldAlways == Spec => []Held
<1>1. Init => Held
  BY StructureInit, PairedInit DEF Held
<1>2. Held /\ [Next]_vars => Held'
  BY HeldNext
<1> QED
  BY <1>1, <1>2, PTL DEF Spec

\* auto_retry_start is followed by auto_retry_end (_prepareRetry, _handleAgentEvent,
\* abortRetry): no retry is announced as going on when no prompt is, whatever is
\* aborted, queued or compacted in between - unless two prompts overlapped, or an
\* answer came while compact() had the session disconnected.
THEOREM RetriesAnnounced == Spec => []RetryEventsPaired
<1>1. Held => RetryEventsPaired
  BY DEF Held, Paired, OpenOwned, Excused, RetryEventsPaired
<1> QED
  BY <1>1, HeldAlways, PTL

-----------------------------------------------------------------------------
(* How often a failing request is sent again                               *)

\* The retries that follow a compaction for an overflow come on top.
Extra == IF tried THEN MaxRetries + 1 ELSE 0
BoundOne(c) ==
    /\ caller[c].pc \in {"running", "post"} => log.continued <= 1 + retry.attempt + Extra
    /\ caller[c].pc = "sleep" => log.continued <= IF caller[c].aborted THEN 0 ELSE retry.attempt + Extra
    /\ Mid(c) /\ caller[c].willRetry => tried /\ log.continued <= MaxRetries + 1
    /\ Mid(c) /\ ~caller[c].willRetry =>
           /\ \/ log.continued = 0
              \/ EndsIn(messages) /\ EndsIn(entries) /\ Last(messages).stop # "overflow"
           /\ manual.connected \/ log.continued = 0
Bounded == ~Excused => RetriesBounded /\ \A c \in Callers : BoundOne(c)

\* An overflow is recovered from once: that counts the retries once more.
LEMMA ExtraIs ==
    /\ Extra \in Nat /\ Extra <= MaxRetries + 1 /\ (tried => Extra = MaxRetries + 1) /\ (~tried => Extra = 0)
    /\ Extra' \in Nat /\ Extra' <= MaxRetries + 1 /\ (tried' => Extra' = MaxRetries + 1) /\ (~tried' => Extra' = 0)
  BY SessionAssumption DEF Extra

LEMMA Counts ==
    ASSUME TypeOK
    PROVE  /\ MaxRetries \in Nat /\ retry.attempt \in Nat /\ retry.attempt <= MaxRetries /\ log.continued \in Nat
           /\ tried \in BOOLEAN /\ retry \in RetryStates /\ log \in Logs
<1>1. MaxRetries \in Nat
  BY SessionAssumption
<1>2. retry \in RetryStates /\ log \in Logs
  BY DEF TypeOK, RetryStates, Logs
<1>3. retry.attempt \in 0 .. MaxRetries /\ log.continued \in Nat
  BY <1>2 DEF RetryStates, Logs
<1>4. retry.attempt \in Nat /\ retry.attempt <= MaxRetries
  BY <1>1, <1>3
<1>5. tried \in BOOLEAN
  BY DEF TypeOK
<1> QED
  BY <1>1, <1>2, <1>3, <1>4, <1>5

\* A call that does not go on has nothing to bound.
LEMMA BoundIdle ==
    ASSUME NEW c \in Callers, ~Posting(c)'
    PROVE  BoundOne(c)'
  BY DEF BoundOne, Posting, Mid

\* The last response is the last message when the context ends in one.
LEMMA LastResponse ==
    ASSUME TypeOK, EndsIn(messages)
    PROVE  messages[Max(Responses)] = Last(messages)
<1>1. messages \in Seq(Message) /\ messages # <<>>
  BY DEF TypeOK, EndsIn
<1>2. Len(messages) \in DOMAIN messages /\ Last(messages) = messages[Len(messages)]
  BY <1>1, LastIs
<1>3. Len(messages) \in Responses
  BY <1>2 DEF Responses, EndsIn
<1>4. PICK n \in Nat : Len(messages) = n
  BY <1>1
<1>5. \A k \in Responses : k <= n
  BY <1>1, <1>4 DEF Responses
<1>6. Responses \subseteq Int /\ n \in Responses
  BY <1>1, <1>3, <1>4 DEF Responses
<1>7. Max(Responses) = n
  <2>1. \A x \in Responses : (\A y \in Responses : x >= y) => x = n
    BY <1>4, <1>5, <1>6
  <2>2. \A y \in Responses : n >= y
    BY <1>5, <1>6
  <2> QED
    BY <1>6, <2>1, <2>2 DEF Max
<1> QED
  BY <1>2, <1>4, <1>7

\* A step from outside keeps the bound.
LEMMA BoundOutside ==
    ASSUME TypeOK, Structure, TypeOK', NEW c \in Callers, StepOf(c), NEW d \in Callers \ {c}, Posting(d), ~log'.overlap,
           BoundOne(d)
    PROVE  BoundOne(d)' /\ log'.continued \in {0, log.continued}
<1>1. Outside(c)
  BY OutsideIs
<1>2. OutsideSays /\ tried' \in {tried, TRUE}
  BY <1>1, OutsideSaid
<1>3. UNCHANGED <<run, retry, manual, last>> /\ caller'[d] = caller[d]
  BY <1>1, PcOthers DEF Outside, Structure
<1>4. log'.continued \in {0, log.continued}
  BY <1>2 DEF OutsideSays
<1>t. tried => tried'
  <2>1. tried' = tried \/ tried' = TRUE
    BY <1>2, Zenon
  <2> QED
    BY <2>1, Zenon
<1>5. Extra <= Extra'
  BY <1>t, SessionAssumption, ExtraIs
<1>6. caller[d].pc \in {"running", "post"} => log'.continued <= 1 + retry.attempt + Extra'
  BY <1>4, <1>5, Counts, ExtraIs DEF BoundOne
<1>7. caller[d].pc = "sleep" => log'.continued <= IF caller[d].aborted THEN 0 ELSE retry.attempt + Extra'
  BY <1>4, <1>5, Counts, ExtraIs DEF BoundOne
<1>8. Mid(d) /\ caller[d].willRetry => tried' /\ log'.continued <= MaxRetries + 1
  BY <1>t, <1>4, Counts DEF BoundOne
<1>9. ASSUME Mid(d), ~caller[d].willRetry, log'.continued # 0
      PROVE  EndsIn(messages)' /\ EndsIn(entries)' /\ Last(messages)'.stop # "overflow"
  <2>1. EndsIn(messages) /\ EndsIn(entries) /\ Last(messages).stop # "overflow"
    BY <1>4, <1>9 DEF BoundOne
  <2>2. ~(Responses # {} /\ messages[Max(Responses)].stop = "overflow")
    BY <2>1, LastResponse
  <2>3. messages' = messages /\ entries' = entries
    BY <1>2, <1>9, <2>2 DEF OutsideSays
  <2> QED
    BY <2>1, <2>3 DEF EndsIn
<1>10. Mid(d) /\ ~caller[d].willRetry => manual.connected \/ log'.continued = 0
  BY <1>4 DEF BoundOne
<1>11. Mid(d)' <=> Mid(d)
  BY <1>3 DEF Mid
<1> QED
  BY <1>3, <1>4, <1>6, <1>7, <1>8, <1>9, <1>10, <1>11 DEF BoundOne, EndsIn

LEMMA LandedEnds ==
    ASSUME TypeOK, Kept, NEW k \in Nat, Keepable(k), EndsIn(entries)
    PROVE  EndsIn(Landing(k, FALSE).messages)
<1>1. entries \in Seq(Message) /\ k \in 1 .. Len(entries)
  BY DEF TypeOK, Keepable, KeepableIn
<1> DEFINE m == Msg("compaction", k)
           e == Append(entries, m)
           s == Build(e)
<1>2. Landing(k, FALSE).messages = s
  BY DEF Landing, Transcript
<1>3. /\ s \in Seq(Message) /\ s # <<>> /\ Len(s) = Len(entries) - k + 2
      /\ \A i \in 2 .. Len(entries) - k + 2 : s[i] = entries[k + i - 2]
  BY LandingIs
<1> HIDE DEF e, m, s
<1>5. PICK n \in Nat : Len(entries) = n /\ k <= n /\ 1 <= k
  BY <1>1
<1>6. Last(s) = s[n - k + 2]
  BY <1>3, <1>5, LastIs
<1>7. Last(s) = entries[n]
  <2>1. n - k + 2 \in 2 .. n - k + 2 /\ k + (n - k + 2) - 2 = n
    BY <1>5
  <2>2. s[n - k + 2] = entries[k + (n - k + 2) - 2]
    BY <1>3, <1>5, <2>1
  <2> QED
    BY <1>6, <2>1, <2>2
<1>8. entries # <<>> /\ Last(entries) = entries[n]
  <2>1. entries # <<>>
    BY <1>1, <1>5
  <2> QED
    BY <1>1, <1>5, <2>1, LastIs
<1> QED
  BY <1>2, <1>3, <1>7, <1>8 DEF EndsIn

\* A prompt that sends its request again has been counted.
LEMMA BoundAgain ==
    ASSUME TypeOK, Structure, Answering, TypeOK', NEW c \in Callers, NEW t, Resume(c, t), Again(c, t),
           ~Excused, BoundOne(c)
    PROVE  log'.continued <= 1 + retry'.attempt + Extra'
<1>0. Kept /\ Source(t) /\ retry'.attempt \in Nat
  BY Counts DEF Structure, Resume, TypeOK
<1>1. log'.continued = log.continued + 1 /\ tried' = tried /\ ~EndsIn(t.messages)
  BY <1>0, AgainIs DEF EndsIn
<1>2. ~FromPost(c, t)
  BY <1>1, NowIs DEF FromPost, Answering
<1>3. CASE FromSleep(c, t)
  <2>1. CASE ~caller[c].aborted
    <3>1. retry'.attempt = retry.attempt
      BY <1>3, <2>1, Counts DEF FromSleep, RetryStates
    <3>2. log.continued <= retry.attempt + Extra
      BY <1>3, <2>1 DEF FromSleep, BoundOne
    <3> QED
      BY <1>1, <3>1, <3>2, Counts, ExtraIs
  <2>2. CASE caller[c].aborted
    <3>1. log.continued <= 0
      BY <1>3, <2>2 DEF FromSleep, BoundOne
    <3> QED
      BY <1>0, <1>1, <3>1, Counts, ExtraIs
  <2> QED
    BY <2>1, <2>2
<1>4. CASE FromCompaction(c, t)
  <2>1. Mid(c)
    BY <1>4 DEF FromCompaction, Resume, Mid
  <2>2. CASE caller[c].willRetry
    <3>1. tried = TRUE /\ log.continued <= MaxRetries + 1
      BY <2>1, <2>2, Counts, ExtraIs DEF BoundOne
    <3> QED
      BY <1>0, <1>1, <3>1, Counts, ExtraIs
  <2>3. CASE ~caller[c].willRetry
    <3>1. t = Now \/ (Keepable(caller[c].keep) /\ t = Landing(caller[c].keep, FALSE))
      BY <1>4, <2>3 DEF FromCompaction
    <3>2. caller[c].keep \in Nat
      BY DEF TypeOK, Call
    <3>3. ~(EndsIn(messages) /\ EndsIn(entries))
      BY <1>0, <1>1, <3>1, <3>2, NowIs, LandedEnds
    <3>4. log.continued = 0
      BY <2>1, <2>3, <3>3 DEF BoundOne
    <3> QED
      BY <1>0, <1>1, <3>4, Counts, ExtraIs
  <2> QED
    BY <2>2, <2>3
<1> QED
  BY <1>2, <1>3, <1>4 DEF Resume, Origin

\* Only a request that is sent again is counted.
LEMMA Recount ==
    ASSUME TypeOK, Structure, NEW c \in Callers, StepOf(c)
    PROVE  log'.continued \in {0, log.continued} \/ \E t : Resume(c, t) /\ Again(c, t)
<1>0. log \in Logs /\ Kept /\ queue \in Seq(Nat)
  BY DEF TypeOK, Logs, Structure
<1>1. ASSUME NEW t, Finally(c, t) PROVE log'.continued = log.continued
  BY <1>0, <1>1 DEF Finally, Logs
<1>2. CASE UNCHANGED log
  BY <1>2
<1>3. CASE Prompt(c) \/ Queued(c) \/ PostRetry(c) \/ PostCompact(c) \/ Summarize(c)
  BY <1>2, <1>3 DEF Prompt, Queued, PostRetry, PostCompact, Summarize
<1>4. CASE Declined(c) \/ Preflight(c)
  BY <1>0, <1>4 DEF Declined, Preflight, Logs
<1>5. CASE Send(c)
  <2>1. Sends(c) \/ Finally(c, Now)
    BY <1>5 DEF Send, Sends
  <2> QED
    BY <1>1, <2>1, SendsIs
<1>6. CASE RunTurn(c) \/ RunEnd(c)
  <2>1. \E d, n : n \in {0, log.continued} /\ log' = [log EXCEPT !.detached = @ \/ d, !.continued = n]
    BY <1>6 DEF RunTurn, Turn, RunEnd
  <2> QED
    BY <1>0, <2>1 DEF Logs
<1>7. ASSUME NEW t, Landed(c, t) PROVE log'.continued = log.continued
  BY <1>0, <1>7 DEF Landed, Logs
<1>8. ASSUME NEW t, Resume(c, t), ~Again(c, t) PROVE log'.continued \in {0, log.continued}
  <2>1. Further(c, t) \/ Halt(c, t)
    BY <1>8 DEF Resume, GoesOn
  <2>2. Source(t)
    BY <1>8 DEF Resume
  <2> QED
    BY <1>0, <1>1, <2>1, <2>2, FurtherIs DEF Halt
<1> QED
  BY <1>3, <1>4, <1>5, <1>6, <1>7, <1>8 DEF StepOf

\* A turn keeps the bound; what is said begins the count again.
LEMMA BoundTurn ==
    ASSUME TypeOK, Structure, TypeOK', NEW c \in Callers, RunTurn(c), BoundOne(c)
    PROVE  log'.continued <= 1 + retry'.attempt + Extra'
<1>0. /\ retry'.attempt \in Nat /\ log \in Logs /\ retry \in RetryStates /\ caller[c].pc = "running" /\ manual.connected \in BOOLEAN
      /\ retry.attempt \in Nat /\ log.continued \in Nat
  BY Counts, SMTT(30) DEF RunTurn, Structure, Owners, TypeOK
<1>1. CASE log'.continued = 0
  BY <1>0, <1>1, ExtraIs
<1>2. CASE log'.continued # 0
  <2>1. /\ run.step = "tools"
        /\ Turn(<<Msg("toolResult", made + 1)>>, <<>>, "model", FALSE)
        /\ UNCHANGED <<last, retry, budget>>
    <3>1. queue # <<>> => <<Head(queue)>> # <<>>
      OBVIOUS
    <3>2. ASSUME Turn(<<>>, <<Head(queue)>>, "model", FALSE) PROVE FALSE
      <4>1. log' = [log EXCEPT !.detached = @ \/ ~manual.connected, !.continued = 0]
        BY <3>2 DEF Turn
      <4> QED
        BY <1>0, <1>2, <4>1 DEF Logs
    <3>3. ASSUME NEW ms, NEW us, NEW step, Turn(ms, us, step, TRUE) PROVE FALSE
      <4>1. log' = [log EXCEPT !.detached = @ \/ ~manual.connected, !.continued = 0]
        BY <3>3 DEF Turn
      <4> QED
        BY <1>0, <1>2, <4>1 DEF Logs
    <3>4. ASSUME NEW us, Turn(<<Msg("toolResult", made + 1)>>, us, "model", FALSE) PROVE us = <<>>
      <4>1. log' = [log EXCEPT !.detached = @ \/ ~manual.connected, !.continued = IF us # <<>> THEN 0 ELSE @]
        BY <3>4 DEF Turn
      <4> QED
        BY <1>0, <1>2, <4>1 DEF Logs
    <3> QED
      BY <3>2, <3>3, <3>4 DEF RunTurn
  <2>2. log' = [log EXCEPT !.detached = @ \/ ~manual.connected, !.continued = @]
    BY <2>1 DEF Turn
  <2>3. log'.continued = log.continued
    BY <1>0, <2>2 DEF Logs
  <2>4. tried' <=> tried
    BY <2>1 DEF Turn
  <2>5. Extra' = Extra
    BY <2>4, ExtraIs
  <2> QED
    BY <1>0, <2>1, <2>3, <2>5, ExtraIs DEF BoundOne
<1> QED
  BY <1>1, <1>2

\* The steps of the call itself keep the bound.
LEMMA BoundOwn ==
    ASSUME TypeOK, Structure, Answering, NEW c \in Callers, StepOf(c), TypeOK', Structure',
           ~Excused, ~log'.detached, BoundOne(c), Posting(c)'
    PROVE  BoundOne(c)'
<1>a. /\ Owners /\ Kept /\ messages \in Seq(Message) /\ retry'.attempt \in Nat /\ log'.continued \in Nat
      /\ retry.attempt \in Nat /\ log.continued \in Nat /\ retry.attempt <= MaxRetries /\ MaxRetries \in Nat
      /\ retry \in RetryStates /\ log \in Logs
  BY Counts, SMTT(30) DEF Structure, TypeOK
<1>b. ASSUME caller'[c].pc \in {"running", "post"}, log'.continued <= 1 + retry'.attempt + Extra'
      PROVE  BoundOne(c)'
  BY <1>b DEF BoundOne, Mid
<1>c. ASSUME caller'[c].pc \in {"running", "post"}, log'.continued = 0
      PROVE  BoundOne(c)'
  <2>1. log'.continued <= 1 + retry'.attempt + Extra'
    BY <1>a, <1>c, ExtraIs
  <2> QED
    BY <1>b, <1>c, <2>1
<1>1. CASE Prompt(c) \/ Queued(c) \/ Declined(c) \/ Preflight(c)
  BY <1>1, PcAfter, NoCallIs DEF Posting
<1>2. CASE Send(c)
  <2>1. caller'[c].pc = "running" /\ Sends(c)
    BY <1>2, PcAfter, NoCallIs, EndIs DEF Posting, Send, Sends, Finally
  <2> QED
    BY <1>c, <2>1, SendsIs
<1>3. CASE RunTurn(c)
  <2>1. caller'[c].pc = "running"
    BY <1>3, PcAfter DEF RunTurn, Structure, Owners
  <2> QED
    BY <1>3, <1>b, <2>1, BoundTurn
<1>4. CASE RunEnd(c)
  <2>1. caller'[c].pc = "post" /\ caller[c].pc = "running"
    BY <1>4, PcAfter DEF RunEnd, Structure, Owners
  <2>2. PICK stop \in Stops \ {"toolUse"} :
           /\ log' = [log EXCEPT !.detached = @ \/ ~manual.connected, !.continued = IF stop \in Errors THEN @ ELSE 0]
           /\ retry' = IF stop \in Errors THEN retry ELSE [retry EXCEPT !.attempt = 0, !.open = FALSE]
           /\ tried' = (tried /\ stop \in Errors)
    BY <1>a, <1>4, RunEndIs
  <2>3. CASE stop \notin Errors
    <3>1. log'.continued = 0
      BY <1>a, <2>2, <2>3 DEF Logs
    <3> QED
      BY <1>c, <2>1, <3>1
  <2>4. CASE stop \in Errors
    <3>1. log'.continued = log.continued
      BY <1>a, <2>2, <2>4 DEF Logs
    <3>2. retry' = retry /\ (tried' <=> tried)
      BY <2>2, <2>4
    <3>3. Extra' = Extra
      BY <3>2, ExtraIs
    <3>4. log.continued <= 1 + retry.attempt + Extra
      BY <2>1 DEF BoundOne
    <3> QED
      BY <1>b, <2>1, <3>1, <3>2, <3>3, <3>4
  <2> QED
    BY <2>3, <2>4
<1>5. CASE PostRetry(c)
  <2>1. caller'[c].pc = "sleep" /\ caller'[c].aborted = FALSE /\ UNCHANGED <<log, tried>> /\ retry'.attempt = retry.attempt + 1
        /\ caller[c].pc = "post"
    BY <1>5, PcAfter DEF PostRetry
  <2>2. log'.continued <= retry'.attempt + Extra'
    <3>1. Extra' = Extra
      BY <2>1 DEF Extra
    <3> QED
      BY <1>a, <2>1, <3>1, ExtraIs DEF BoundOne
  <2> QED
    BY <2>1, <2>2 DEF BoundOne, Mid
<1>6. CASE PostCompact(c)
  <2>1. /\ caller'[c].pc = "resolve" /\ ~caller'[c].pre /\ caller'[c].willRetry = Overflown(last) /\ caller[c].pc = "post"
        /\ log' = log /\ entries' = entries /\ manual' = manual /\ Compact(c, last, FALSE, messages)
    BY <1>6, PcAfter DEF PostCompact
  <2>2. EndsIn(messages) /\ EndsIn(entries) /\ Last(messages) = last /\ manual.connected
    BY <2>1 DEF Answering, Excused, EndsIn
  <2>3. log.continued <= 1 + retry.attempt + Extra
    BY <2>1 DEF BoundOne
  <2>4. CASE Overflown(last)
    <3>1. ~tried /\ tried' = TRUE
      BY <2>1, <2>4 DEF Compact
    <3>2. log'.continued <= MaxRetries + 1
      BY <1>a, <2>1, <2>3, <3>1, ExtraIs
    <3> QED
      BY <2>1, <2>4, <3>1, <3>2 DEF BoundOne, Mid
  <2>5. CASE ~Overflown(last)
    <3>1. messages' = messages /\ last.stop # "overflow"
      BY <2>1, <2>5 DEF Compact, Overflown
    <3> QED
      BY <2>1, <2>2, <2>5, <3>1 DEF BoundOne, Mid, EndsIn
  <2> QED
    BY <2>4, <2>5
<1>7. CASE Summarize(c)
  <2>1. /\ caller'[c].pc = "summarize" /\ caller'[c].pre = caller[c].pre /\ caller'[c].willRetry = caller[c].willRetry
        /\ UNCHANGED <<log, tried, messages, entries, manual>> /\ caller[c].pc = "resolve"
    BY <1>7, PcAfter DEF Summarize, transcript
  <2>2. Mid(c)
    BY <2>1 DEF Posting, Mid
  <2> QED
    BY <2>1, <2>2 DEF BoundOne, Mid, EndsIn
<1>8. ASSUME NEW t, Landed(c, t) PROVE FALSE
  BY <1>8, PcAfter DEF Posting
<1>9. ASSUME NEW t, Resume(c, t) PROVE BoundOne(c)'
  <2>1. caller'[c].pc = "running"
    BY <1>9, PcAfter, NoCallIs DEF Posting
  <2>2. Again(c, t) \/ Further(c, t)
    BY <1>9, <2>1, EndIs, NoCallIs DEF Resume, GoesOn, Halt, Finally
  <2>3. CASE Again(c, t)
    BY <1>9, <1>b, <2>1, <2>3, BoundAgain
  <2>4. CASE Further(c, t)
    <3>1. Source(t)
      BY <1>9 DEF Resume
    <3> QED
      BY <1>a, <1>c, <2>1, <2>4, <3>1, FurtherIs
  <2> QED
    BY <2>2, <2>3, <2>4
<1> QED
  BY <1>1, <1>2, <1>3, <1>4, <1>5, <1>6, <1>7, <1>8, <1>9 DEF StepOf

\* The bound is inductive.
LEMMA BoundedStep ==
    ASSUME TypeOK, Structure, Answering, Bounded, NEW c \in Callers, StepOf(c)
    PROVE  Bounded'
<1>1. SUFFICES ASSUME ~Excused' PROVE RetriesBounded' /\ \A d \in Callers : BoundOne(d)'
  BY DEF Bounded
<1>2. ~Excused /\ ~log'.overlap /\ ~log'.detached
  BY <1>1, LogGrows DEF Excused, Step
<1>3. (\A d \in Callers : BoundOne(d)) /\ RetriesBounded
  BY <1>2 DEF Bounded
<1>4. TypeOK' /\ Structure'
  BY StructureStep
<1>5. ASSUME NEW d \in Callers PROVE BoundOne(d)'
  <2>1. CASE ~Posting(d)'
    BY <2>1, BoundIdle
  <2>2. CASE Posting(d)' /\ d = c
    BY <1>2, <1>3, <1>4, <2>2, BoundOwn
  <2>3. CASE Posting(d)' /\ d # c
    <3>1. Posting(d)
      BY <2>3, PostingAfter DEF Structure
    <3> QED
      BY <1>2, <1>3, <1>4, <2>3, <3>1, BoundOutside
  <2> QED
    BY <2>1, <2>2, <2>3
<1>6. log.continued <= 2 * MaxRetries + 2
  BY <1>2, <1>3 DEF RetriesBounded, Excused
<1>7. CASE log'.continued \in {0, log.continued}
  BY <1>5, <1>6, <1>7, Counts DEF RetriesBounded
<1>8. ASSUME NEW t, Resume(c, t), Again(c, t) PROVE RetriesBounded'
  <2>1. log'.continued <= 1 + retry'.attempt + Extra'
    BY <1>2, <1>3, <1>4, <1>8, BoundAgain
  <2>2. retry'.attempt \in Nat /\ retry'.attempt <= MaxRetries /\ MaxRetries \in Nat /\ log'.continued \in Nat
    <3>1. retry'.attempt \in 0 .. MaxRetries /\ log'.continued \in Nat
      BY <1>4 DEF TypeOK
    <3> QED
      BY <3>1, SessionAssumption
  <2>3. log'.continued <= 2 * MaxRetries + 2
    BY <2>1, <2>2, ExtraIs
  <2> QED
    BY <2>3 DEF RetriesBounded
<1> QED
  BY <1>5, <1>7, <1>8, Recount

LEMMA BoundApart ==
    ASSUME TypeOK, Structure, Apart, NEW c \in Callers, BoundOne(c)
    PROVE  BoundOne(c)'
<1>1. Kept /\ Owners
  BY DEF Structure
<1>2. /\ retry' = retry /\ tried' = tried /\ log'.continued \in {0, log.continued}
      /\ \/ transcript' = transcript
         \/ log'.continued = 0
         \/ manual.pc = "summarize" /\ log' = log
  BY <1>1, ApartSays
<1>3. caller'[c].pc = caller[c].pc /\ caller'[c].pre = caller[c].pre /\ caller'[c].willRetry = caller[c].willRetry
  BY ApartSame
<1>4. caller'[c] = caller[c] \/ log'.continued = 0
  <2>1. Abort \/ CompactNow => log'.continued = 0
    BY DEF Abort, CompactNow, TypeOK
  <2> QED
    BY <2>1 DEF Apart, Steer, Custom, Bash, CompactResolved, CompactDone
<1>5. Extra' = Extra
  BY <1>2 DEF Extra
<1>6. ~manual'.connected => ~manual.connected \/ log'.continued = 0
  <2>1. CompactNow => log'.continued = 0
    BY DEF CompactNow, TypeOK
  <2>2. Abort => manual'.connected = manual.connected
    BY DEF Abort, TypeOK
  <2>3. CASE CompactResolved
    <3>1. ~manual.connected
      BY <1>1, <2>3 DEF CompactResolved, Owners
    <3> QED
      BY <3>1
  <2>4. CASE ~CompactResolved
    BY <2>1, <2>2, <2>4 DEF Apart, Steer, Custom, Bash, CompactDone, IdleManual
  <2> QED
    BY <2>3, <2>4
<1>7. Mid(c) /\ ~caller[c].willRetry /\ log'.continued # 0 =>
          EndsIn(messages)' /\ EndsIn(entries)' /\ Last(messages)'.stop # "overflow"
  <2>1. manual.pc = "summarize" => ~manual.connected
    BY <1>1 DEF Owners
  <2> QED
    BY <1>2, <2>1 DEF BoundOne, EndsIn, transcript
<1>8. Mid(c)' <=> Mid(c)
  BY <1>3 DEF Mid
<1>9. caller[c].pc \in {"running", "post"} => log'.continued <= 1 + retry.attempt + Extra
  BY <1>2, Counts, ExtraIs DEF BoundOne
<1>10. caller[c].pc = "sleep" => log'.continued <= IF caller'[c].aborted THEN 0 ELSE retry.attempt + Extra
  BY <1>2, <1>4, Counts, ExtraIs DEF BoundOne
<1>11. Mid(c) /\ caller[c].willRetry => tried /\ log'.continued <= MaxRetries + 1
  BY <1>2, Counts DEF BoundOne
<1>12. Mid(c) /\ ~caller[c].willRetry => manual'.connected \/ log'.continued = 0
  BY <1>2, <1>6 DEF BoundOne
<1> QED
  BY <1>2, <1>3, <1>5, <1>7, <1>8, <1>9, <1>10, <1>11, <1>12 DEF BoundOne, EndsIn

LEMMA BoundedApart ==
    ASSUME TypeOK, Structure, Bounded, Apart
    PROVE  Bounded'
<1>1. SUFFICES ASSUME ~Excused' PROVE RetriesBounded' /\ \A d \in Callers : BoundOne(d)'
  BY DEF Bounded
<1>2. ~Excused
  BY <1>1, LogGrows DEF Excused, Step
<1>3. (\A d \in Callers : BoundOne(d)) /\ RetriesBounded
  BY <1>2 DEF Bounded
<1>4. log.continued <= 2 * MaxRetries + 2
  BY <1>2, <1>3 DEF RetriesBounded, Excused
<1>5. log'.continued \in {0, log.continued}
  BY ApartSays DEF Structure
<1>6. RetriesBounded'
  BY <1>4, <1>5, Counts DEF RetriesBounded
<1> QED
  BY <1>3, <1>6, BoundApart

\* A request that keeps failing is sent again at most 2 * maxRetries + 2 times before
\* something is said or aborted: the retries of _prepareRetry, one overflow recovery of
\* _checkCompaction, the retries again, and a queued message behind a cancelled retry.
THEOREM ResendsBounded == Spec => []RetriesBounded
<1>1. Init => Bounded
  <2>1. SUFFICES ASSUME Init PROVE Bounded
    OBVIOUS
  <2>2. (\A c \in Callers : caller[c] = NoCall) /\ log.continued = 0
    BY <2>1 DEF Init
  <2>3. \A c \in Callers : BoundOne(c)
    BY <2>2, NoCallIs DEF BoundOne, Mid
  <2>4. RetriesBounded
    BY <2>2, SessionAssumption DEF RetriesBounded
  <2> QED
    BY <2>3, <2>4 DEF Bounded
<1>2. Held /\ Bounded /\ [Next]_vars => Bounded'
  <2>1. SUFFICES ASSUME Held, Bounded, [Next]_vars PROVE Bounded'
    OBVIOUS
  <2>2. CASE Next
    <3>1. (\E c \in Callers : StepOf(c)) \/ Apart
      BY <2>1, <2>2, Steps DEF Held, Structure
    <3> QED
      BY <2>1, <3>1, BoundedStep, BoundedApart DEF Held
  <2>3. CASE UNCHANGED vars
    BY <2>1, <2>3 DEF vars, Bounded, BoundOne, Excused, EndsIn, Mid, Extra, RetriesBounded, transcript
  <2> QED
    BY <2>1, <2>2, <2>3
<1>3. Bounded => RetriesBounded
  BY DEF Bounded, Excused, RetriesBounded
<1> QED
  BY <1>1, <1>2, <1>3, HeldAlways, PTL DEF Spec

-----------------------------------------------------------------------------
(* What is said, in the context as in the file                             *)

\* A step of a session that listens says ms on a transcript, in the file as in the
\* context; or it takes a failed response out of the context.
Free(ms) == \A k \in DOMAIN ms : ms[k].role # "toolResult"
Utters(t, ms) == /\ Source(t) /\ ms \in Seq(Message) /\ Spoken(ms)
                 /\ messages' = t.messages \o ms /\ entries' = t.entries \o ms
Withdraws(ms) == /\ ms \in {<<>>, bash} /\ EndsIn(messages \o ms) /\ Last(messages \o ms).stop \in Errors
                 /\ messages' = WithoutLast(messages \o ms) /\ entries' = entries \o ms
Voiced == (\E t, ms : Utters(t, ms) /\ Free(ms)) \/ \E ms : Withdraws(ms)

LEMMA PlainFree == ASSUME NEW ms, NEW role, role # "toolResult", Plain(ms, role) PROVE Free(ms)
  BY DEF Plain, Free

LEMMA FreeConcat ==
    ASSUME NEW s \in Seq(Message), NEW t \in Seq(Message), Free(s), Free(t)
    PROVE  Free(s \o t)
<1>1. PICK n \in Nat, l \in Nat : Len(s) = n /\ Len(t) = l
  OBVIOUS
<1>2. ASSUME NEW k \in DOMAIN (s \o t) PROVE (s \o t)[k].role # "toolResult"
  <2>1. \/ k \in 1 .. n /\ (s \o t)[k] = s[k]
        \/ \E i \in 1 .. l : k = n + i /\ (s \o t)[k] = t[i]
    BY <1>1, <1>2, ConcatPick, ZenonT(60)
  <2> QED
    BY <1>1, <2>1 DEF Free
<1> QED
  BY <1>2 DEF Free

LEMMA StartFree ==
    ASSUME NEW us \in Seq(Nat), NEW extra \in Seq(Message), Plain(extra, "custom")
    PROVE  Users(us) \o extra \in Seq(Message) /\ Spoken(Users(us) \o extra) /\ Free(Users(us) \o extra)
<1>1. Users(us) \in Seq(Message) /\ Plain(Users(us), "user")
  BY UsersAre
<1>2. Spoken(Users(us)) /\ Spoken(extra) /\ Free(Users(us)) /\ Free(extra)
  BY <1>1, PlainSpoken, PlainFree
<1> QED
  BY <1>1, <1>2, SpokenConcat, FreeConcat

\* The kinds of what is voiced.
LEMMA NothingVoiced == ASSUME TypeOK, Structure, NEW t, Source(t), messages' = t.messages, entries' = t.entries PROVE Voiced
<1>1. t.messages \in Seq(Message) /\ t.entries \in Seq(Message)
  BY SourceIs DEF Structure
<1>2. Utters(t, <<>>) /\ Free(<<>>)
  BY <1>1, EmptyConcat DEF Utters, Free, Spoken
<1> QED
  BY <1>2 DEF Voiced

LEMMA SameVoiced == ASSUME TypeOK, Structure, UNCHANGED transcript PROVE Voiced
  BY NothingVoiced, NowIs DEF transcript, Source

LEMMA FlushVoiced == ASSUME TypeOK, Structure, NEW t, Source(t), Flush(t) PROVE Voiced
<1>1. bash \in Seq(Message) /\ Spoken(bash) /\ Free(bash)
  BY BashSpoken, PlainFree DEF Structure, Roled
<1>2. Utters(t, bash)
  BY <1>1 DEF Flush, Utters
<1> QED
  BY <1>1, <1>2 DEF Voiced

LEMMA OneVoiced ==
    ASSUME TypeOK, Structure, NEW m \in Message, m.role \notin {"compaction", "toolResult"},
           messages' = messages \o <<m>>, entries' = entries \o <<m>>
    PROVE  Voiced
<1>1. <<m>> \in Seq(Message) /\ Spoken(<<m>>) /\ Free(<<m>>)
  BY OneSpoken DEF Free
<1>2. Utters(Now, <<m>>)
  BY <1>1, NowIs DEF Utters, Source
<1> QED
  BY <1>1, <1>2 DEF Voiced

LEMMA CompactVoiced ==
    ASSUME TypeOK, Structure, NEW c, NEW r, NEW pre, NEW ms, ms \in {<<>>, bash},
           Compact(c, r, pre, messages \o ms), entries' = entries \o ms,
           r.stop = "overflow" /\ EndsIn(messages \o ms) => Last(messages \o ms) = r
    PROVE  Voiced
<1>1. ms \in Seq(Message) /\ Spoken(ms) /\ Free(ms) /\ messages \in Seq(Message)
  <2>1. Free(<<>>)
    BY DEF Free
  <2>2. Free(bash)
    BY PlainFree DEF Structure, Roled
  <2> QED
    BY <2>1, <2>2, BashOrNone DEF Structure, TypeOK
<1>2. Source(Now)
  BY DEF Source
<1> DEFINE x == messages \o ms
<1>3. x \in Seq(Message)
  BY <1>1
<1>4. CASE messages' = x
  <2>1. Utters(Now, ms)
    BY <1>1, <1>2, <1>4, NowIs DEF Utters
  <2> QED
    BY <1>1, <2>1 DEF Voiced
<1>5. CASE messages' # x
  <2>1. messages' = WithoutLast(x) /\ r.stop = "overflow"
    BY <1>5 DEF Compact, Overflown
  <2> HIDE DEF x
  <2>2. EndsIn(x)
    BY <1>3, <1>5, <2>1, WithoutLastEnd
  <2>3. Last(x) = r
    BY <2>1, <2>2 DEF x
  <2>4. Withdraws(ms)
    BY <2>1, <2>2, <2>3 DEF x, Withdraws, Errors
  <2> QED
    BY <2>4 DEF Voiced
<1> QED
  BY <1>4, <1>5

\* While the session listens, the file gets what the context gets.
LEMMA StepVoiced ==
    ASSUME TypeOK, Structure, Answering, NEW c \in Callers, StepOf(c), ~RunTurn(c), ~log.detached, ~log'.detached
    PROVE  Voiced
<1>0. messages \o <<>> = messages /\ entries \o <<>> = entries /\ messages \in Seq(Message) /\ bash \in Seq(Message)
  BY EmptyConcat DEF TypeOK
<1>1. Source(Now) /\ Plain(caller[c].extra, "custom") /\ Kept /\ Owners /\ Plain(bash, "bash")
  BY DEF Source, Roled, Structure
<1>3. CASE Prompt(c) \/ Queued(c) \/ Summarize(c)
  BY <1>3, SameVoiced DEF Prompt, Queued, Summarize
<1>5. CASE Declined(c)
  BY <1>1, <1>5, SameVoiced, FlushVoiced DEF Declined, transcript
<1>6. CASE Preflight(c)
  <2> DEFINE r == messages[Max(Responses)]
  <2>1. Flush(Now) \/ (Compact(c, r, TRUE, messages \o bash) /\ entries' = entries \o bash)
    BY <1>6 DEF Preflight
  <2>2. EndsIn(messages \o bash) => Last(messages \o bash) = r
    <3>1. SUFFICES ASSUME EndsIn(messages \o bash) PROVE Last(messages \o bash) = r
      OBVIOUS
    <3>2. bash = <<>> /\ EndsIn(messages)
      BY <1>0, <1>1, <3>1, PlainEndConcat
    <3>3. messages[Max(Responses)] = Last(messages)
      BY <3>2, LastResponse
    <3> QED
      BY <1>0, <3>2, <3>3
  <2> HIDE DEF r
  <2> QED
    BY <1>1, <2>1, <2>2, CompactVoiced, FlushVoiced
<1>7. CASE Send(c)
  <2>1. CASE Sends(c)
    <3>1. PICK ms \in Seq(Message) :
              /\ ms = Users(<<caller[c].msg>>) \o caller[c].extra
              /\ messages' = messages \o ms /\ (manual.connected => entries' = entries \o ms)
      BY <2>1, SendsIs
    <3>2. manual.connected
      BY <2>1, SendsIs
    <3>3. caller[c].msg \in Nat /\ caller[c].extra \in Seq(Message)
      BY DEF TypeOK, Call
    <3>4. <<caller[c].msg>> \in Seq(Nat)
      BY <3>3
    <3>5. Spoken(ms) /\ Free(ms)
      BY <1>1, <3>1, <3>3, <3>4, StartFree
    <3>6. Utters(Now, ms)
      BY <1>1, <3>1, <3>2, <3>5, NowIs DEF Utters
    <3> QED
      BY <3>5, <3>6 DEF Voiced
  <2>2. CASE Finally(c, Now)
    BY <1>1, <2>2, FlushVoiced DEF Finally
  <2> QED
    BY <1>7, <2>1, <2>2 DEF Send, Sends
<1>9. CASE RunEnd(c)
  <2>1. PICK stop \in Stops \ {"toolUse"}, r \in Message : r.role = "assistant" /\ messages' = messages \o <<r>> /\ entries' = entries \o <<r>>
    BY <1>1, <1>9, RunEndIs
  <2> QED
    BY <2>1, OneVoiced
<1>10. CASE PostRetry(c)
  <2>1. EndsIn(messages) /\ Last(messages) = last /\ last.stop \in Errors
    BY <1>10 DEF PostRetry, Answering, Errors, EndsIn
  <2>2. Withdraws(<<>>)
    BY <1>0, <1>10, <2>1 DEF PostRetry, Withdraws
  <2> QED
    BY <2>2 DEF Voiced
<1>11. CASE PostCompact(c)
  <2>1. EndsIn(messages) => Last(messages) = last
    BY <1>11 DEF PostCompact, Answering, EndsIn
  <2> QED
    BY <1>0, <1>11, <2>1, CompactVoiced DEF PostCompact
<1>12. ASSUME NEW t, Landed(c, t) PROVE Voiced
  BY <1>12, NothingVoiced DEF Landed
<1>13. ASSUME NEW t, Resume(c, t) PROVE Voiced
  <2>1. Source(t) /\ GoesOn(c, t)
    BY <1>13 DEF Resume
  <2>2. CASE Halt(c, t)
    BY <2>1, <2>2, FlushVoiced DEF Halt, Finally
  <2>3. CASE Again(c, t)
    BY <1>1, <2>1, <2>3, AgainIs, NothingVoiced
  <2>4. CASE Further(c, t)
    <3>1. PICK ms \in Seq(Message) :
              /\ ms = Users(<<Head(queue)>>) \o <<>>
              /\ messages' = t.messages \o ms /\ (manual.connected => entries' = t.entries \o ms)
      BY <1>1, <2>1, <2>4, FurtherIs
    <3>2. manual.connected
      BY <1>1, <2>1, <2>4, FurtherIs
    <3>3. <<Head(queue)>> \in Seq(Nat) /\ <<>> \in Seq(Message)
      BY <2>4, HeadTyped DEF Further, TypeOK
    <3>4. Spoken(ms) /\ Free(ms)
      BY <3>1, <3>3, PlainEmpty, StartFree
    <3>5. Utters(t, ms)
      BY <2>1, <3>1, <3>2, <3>4 DEF Utters
    <3> QED
      BY <3>4, <3>5 DEF Voiced
  <2> QED
    BY <2>1, <2>2, <2>3, <2>4 DEF GoesOn
<1> QED
  BY <1>3, <1>5, <1>6, <1>7, <1>9, <1>10, <1>11, <1>12, <1>13 DEF StepOf

\* So it does outside of the calls.
LEMMA ApartVoiced ==
    ASSUME TypeOK, Structure, Apart
    PROVE  Voiced
<1>0. Kept
  BY DEF Structure
<1>1. \/ transcript' = transcript
      \/ \E m \in Message : m.role \in {"custom", "bash"} /\ messages' = messages \o <<m>> /\ entries' = entries \o <<m>>
      \/ \E k \in Nat : Keepable(k) /\ messages' = Landing(k, FALSE).messages /\ entries' = Landing(k, FALSE).entries
  BY <1>0, ApartSays
<1>2. CASE transcript' = transcript
  BY <1>2, SameVoiced
<1>3. ASSUME NEW m \in Message, m.role \in {"custom", "bash"}, messages' = messages \o <<m>>, entries' = entries \o <<m>>
      PROVE  Voiced
  BY <1>3, OneVoiced
<1>4. ASSUME NEW k \in Nat, Keepable(k), messages' = Landing(k, FALSE).messages, entries' = Landing(k, FALSE).entries
      PROVE  Voiced
  <2>1. Source(Landing(k, FALSE))
    BY <1>4 DEF Source
  <2> QED
    BY <1>4, <2>1, NothingVoiced
<1> QED
  BY <1>1, <1>2, <1>3, <1>4

\* What a turn says.
LEMMA TurnIs ==
    ASSUME TypeOK, NEW ms \in Seq(Message), Spoken(ms), NEW us \in Seq(Nat), NEW step, NEW good,
           Turn(ms, us, step, good), ~log'.detached
    PROVE  Utters(Now, ms \o Users(us)) /\ Free(Users(us)) /\ Users(us) \in Seq(Message) /\ run'.step = step
<1>1. Users(us) \in Seq(Message) /\ Plain(Users(us), "user")
  BY UsersAre
<1>2. Spoken(Users(us)) /\ Free(Users(us))
  BY <1>1, PlainSpoken, PlainFree
<1> DEFINE x == ms \o Users(us)
<1>3. x \in Seq(Message) /\ Spoken(x)
  BY <1>1, <1>2, SpokenConcat
<1>4. Say(x, us, Now)
  BY DEF Turn
<1>5. manual.connected /\ run'.step = step
  BY TurnEnds
<1> HIDE DEF x
<1>6. Utters(Now, x)
  BY <1>3, <1>4, <1>5 DEF Utters, Say, Source
<1> QED
  BY <1>1, <1>2, <1>5, <1>6 DEF x

TurnSays(ms) ==
    /\ Free(ms) \/ (run.step = "tools" /\ \E r \in Message, rest \in Seq(Message) :
                        r.role = "toolResult" /\ Free(rest) /\ ms = <<r>> \o rest)
    /\ run'.step = "tools" => \E r \in Message : ms = <<r>> /\ r.stop = "toolUse"

\* So it does in a turn of a run.
LEMMA TurnVoiced ==
    ASSUME TypeOK, NEW c \in Callers, RunTurn(c), ~log'.detached
    PROVE  \E ms : Utters(Now, ms) /\ TurnSays(ms)
<1>1. made + 1 \in Nat /\ queue \in Seq(Nat) /\ <<>> \in Seq(Nat) /\ <<>> \in Seq(Message)
  BY DEF TypeOK
<1>2. queue # <<>> => <<Head(queue)>> \in Seq(Nat)
  BY <1>1, HeadTyped
<1> DEFINE answer == Response(made + 1, "stop")
           call == Response(made + 1, "toolUse")
           result == Msg("toolResult", made + 1)
<1>3. /\ answer \in Message /\ call \in Message /\ result \in Message /\ result.role = "toolResult"
      /\ answer.role = "assistant" /\ call.role = "assistant" /\ call.stop = "toolUse"
  BY <1>1, ResponseTyped DEF Msg, Response, Stops, Roles
<1>5. \/ queue # <<>> /\ Turn(<<>>, <<Head(queue)>>, "model", FALSE)
      \/ Turn(<<call>>, <<>>, "tools", TRUE)
      \/ run.step = "tools" /\ Turn(<<result>>, <<>>, "model", FALSE)
      \/ run.step = "tools" /\ queue # <<>> /\ Turn(<<result>>, <<Head(queue)>>, "model", FALSE)
      \/ queue # <<>> /\ Turn(<<answer>>, <<Head(queue)>>, "model", TRUE)
  BY DEF RunTurn
<1> HIDE DEF answer, call, result
<1>4. /\ <<answer>> \in Seq(Message) /\ <<call>> \in Seq(Message) /\ <<result>> \in Seq(Message)
      /\ Spoken(<<answer>>) /\ Spoken(<<call>>) /\ Spoken(<<result>>) /\ Spoken(<<>>)
      /\ Free(<<answer>>) /\ Free(<<call>>) /\ Free(<<>>)
  BY <1>3 DEF Spoken, Free
<1>6. CASE queue # <<>> /\ Turn(<<>>, <<Head(queue)>>, "model", FALSE)
  <2> DEFINE us == Users(<<Head(queue)>>)
  <2>1. Utters(Now, <<>> \o us) /\ Free(us) /\ us \in Seq(Message) /\ run'.step = "model"
    BY <1>1, <1>2, <1>4, <1>6, TurnIs
  <2> HIDE DEF us
  <2>2. Free(<<>> \o us)
    BY <1>1, <1>4, <2>1, FreeConcat
  <2> QED
    BY <2>1, <2>2 DEF TurnSays
<1>7. CASE Turn(<<call>>, <<>>, "tools", TRUE)
  <2> DEFINE us == Users(<<>>)
  <2>1. Utters(Now, <<call>> \o us)
    BY <1>1, <1>4, <1>7, TurnIs
  <2>2. us = <<>>
    <3>1. Users(<<>>) \in Seq(Message) /\ Len(Users(<<>>)) = Len(<<>>)
      BY <1>1, UsersAre
    <3> QED
      BY <3>1
  <2>3. <<call>> \o us = <<call>>
    BY <1>4, <2>2, EmptyConcat
  <2> HIDE DEF us
  <2> QED
    BY <1>3, <1>4, <2>1, <2>3 DEF TurnSays
<1>8. ASSUME NEW us \in Seq(Nat), run.step = "tools", Turn(<<result>>, us, "model", FALSE)
      PROVE  \E ms : Utters(Now, ms) /\ TurnSays(ms)
  <2> DEFINE rest == Users(us)
  <2>1. Utters(Now, <<result>> \o rest) /\ Free(rest) /\ rest \in Seq(Message) /\ run'.step = "model"
    BY <1>1, <1>4, <1>8, TurnIs
  <2> HIDE DEF rest
  <2> QED
    BY <1>3, <1>8, <2>1 DEF TurnSays
<1>9. CASE queue # <<>> /\ Turn(<<answer>>, <<Head(queue)>>, "model", TRUE)
  <2> DEFINE us == Users(<<Head(queue)>>)
  <2>1. Utters(Now, <<answer>> \o us) /\ Free(us) /\ us \in Seq(Message) /\ run'.step = "model"
    BY <1>1, <1>2, <1>4, <1>9, TurnIs
  <2> HIDE DEF us
  <2>2. Free(<<answer>> \o us)
    BY <1>4, <2>1, FreeConcat
  <2> QED
    BY <2>1, <2>2 DEF TurnSays
<1> QED
  BY <1>1, <1>2, <1>5, <1>6, <1>7, <1>8, <1>9

-----------------------------------------------------------------------------
\* Each tool result follows the response that called the tools.
Adjacent(s) == \A k \in DOMAIN s : s[k].role = "toolResult" => k > 1 /\ s[k - 1].stop = "toolUse"
CallEnds(s) == s # <<>> /\ Last(s).stop = "toolUse"

\* What separates no result from its response.
LEMMA AdjacentConcat ==
    ASSUME NEW s \in Seq(Message), NEW t \in Seq(Message), Adjacent(s), Free(t)
    PROVE  Adjacent(s \o t)
<1>1. PICK n \in Nat, l \in Nat : Len(s) = n /\ Len(t) = l
  OBVIOUS
<1>2. \A i \in 1 .. n : (s \o t)[i] = s[i]
  BY <1>1, ConcatIs
<1>3. ASSUME NEW k \in DOMAIN (s \o t), (s \o t)[k].role = "toolResult"
      PROVE  k > 1 /\ (s \o t)[k - 1].stop = "toolUse"
  <2>1. k \in 1 .. n /\ (s \o t)[k] = s[k]
    <3>1. \/ k \in 1 .. n /\ (s \o t)[k] = s[k]
          \/ \E i \in 1 .. l : k = n + i /\ (s \o t)[k] = t[i]
      BY <1>1, <1>3, ConcatPick
    <3> QED
      BY <1>1, <1>3, <3>1 DEF Free
  <2>2. k > 1 /\ s[k - 1].stop = "toolUse"
    BY <1>1, <1>3, <2>1 DEF Adjacent
  <2>3. k - 1 \in 1 .. n
    BY <2>1, <2>2
  <2> QED
    BY <1>2, <2>2, <2>3
<1> QED
  BY <1>3 DEF Adjacent

LEMMA AdjacentResult ==
    ASSUME NEW s \in Seq(Message), Adjacent(s), CallEnds(s), NEW r \in Message
    PROVE  Adjacent(s \o <<r>>)
<1>1. PICK n \in Nat : Len(s) = n /\ n # 0 /\ Last(s) = s[n]
  <2>1. Last(s) = s[Len(s)]
    BY LastIs DEF CallEnds
  <2> QED
    BY <2>1 DEF CallEnds
<1>2. <<r>> \in Seq(Message) /\ Len(<<r>>) = 1
  OBVIOUS
<1>3. Len(s \o <<r>>) = n + 1 /\ \A i \in 1 .. n : (s \o <<r>>)[i] = s[i]
  BY <1>1, <1>2, ConcatIs
<1>4. ASSUME NEW k \in 1 .. n + 1, (s \o <<r>>)[k].role = "toolResult"
      PROVE  k > 1 /\ (s \o <<r>>)[k - 1].stop = "toolUse"
  <2>1. CASE k = n + 1
    <3>1. k - 1 = n /\ n \in 1 .. n /\ k > 1
      BY <1>1, <2>1
    <3>2. (s \o <<r>>)[k - 1] = s[n]
      BY <1>3, <3>1
    <3> QED
      BY <1>1, <3>1, <3>2 DEF CallEnds
  <2>2. CASE k # n + 1
    <3>1. k \in 1 .. n /\ (s \o <<r>>)[k] = s[k] /\ k \in DOMAIN s
      BY <1>1, <1>3, <2>2
    <3>2. k > 1 /\ s[k - 1].stop = "toolUse"
      BY <1>4, <3>1 DEF Adjacent
    <3>3. k - 1 \in 1 .. n
      BY <3>1, <3>2
    <3> QED
      BY <1>3, <3>2, <3>3
  <2> QED
    BY <2>1, <2>2
<1>5. DOMAIN (s \o <<r>>) = 1 .. n + 1
  BY <1>2, <1>3
<1> HIDE DEF CallEnds
<1> QED
  BY <1>4, <1>5 DEF Adjacent

LEMMA AdjacentFront ==
    ASSUME NEW s \in Seq(Message), Adjacent(s)
    PROVE  Adjacent(WithoutLast(s))
<1>1. CASE EndsIn(s)
  <2>1. PICK n \in Nat : Len(s) = n /\ n # 0
    BY <1>1 DEF EndsIn
  <2>2. /\ Front(s) \in Seq(Message) /\ Len(Front(s)) = n - 1
        /\ \A k \in 1 .. n - 1 : Front(s)[k] = s[k]
    BY <1>1, <2>1, LastFront DEF EndsIn
  <2>3. WithoutLast(s) = Front(s)
    BY <1>1 DEF EndsIn, WithoutLast
  <2>4. ASSUME NEW k \in 1 .. n - 1, Front(s)[k].role = "toolResult"
        PROVE  k > 1 /\ Front(s)[k - 1].stop = "toolUse"
    <3>1. k \in DOMAIN s /\ s[k].role = "toolResult"
      BY <2>1, <2>2, <2>4
    <3>2. k > 1 /\ s[k - 1].stop = "toolUse"
      BY <3>1 DEF Adjacent
    <3>3. k - 1 \in 1 .. n - 1
      BY <2>1, <3>2
    <3> QED
      BY <2>2, <3>2, <3>3
  <2>5. DOMAIN Front(s) = 1 .. n - 1
    BY <2>1, <2>2
  <2> QED
    BY <2>3, <2>4, <2>5 DEF Adjacent
<1>2. CASE ~EndsIn(s)
  BY <1>2, WithoutLastEnd
<1> QED
  BY <1>1, <1>2

\* A cut is never between a response and the results of its calls.
LEMMA AdjacentLanding ==
    ASSUME TypeOK, Kept, NEW k \in Nat, Keepable(k), NEW again \in BOOLEAN, Adjacent(entries)
    PROVE  Adjacent(Landing(k, again).messages) /\ Adjacent(Landing(k, again).entries)
<1>1. entries \in Seq(Message) /\ k \in 1 .. Len(entries) /\ entries[k].role # "toolResult"
  BY DEF TypeOK, Keepable, KeepableIn
<1> DEFINE m == Msg("compaction", k)
           e == Append(entries, m)
           s == Build(e)
<1>2. Landing(k, again).entries = e /\ Landing(k, again).messages \in {s, WithoutLast(s)}
  BY LandingIs
<1>3. /\ s \in Seq(Message) /\ s # <<>> /\ s[1] = m /\ Len(s) = Len(entries) - k + 2
      /\ \A i \in 2 .. Len(entries) - k + 2 : s[i] = entries[k + i - 2]
      /\ m \in Message
  BY LandingIs
<1>4. m.role = "compaction"
  BY DEF Msg
<1>5. e = entries \o <<m>>
  BY <1>1, <1>3, AppendConcat
<1> HIDE DEF e, m, s
<1>6. Adjacent(e)
  <2>1. <<m>> \in Seq(Message) /\ Free(<<m>>)
    BY <1>3, <1>4 DEF Free
  <2> QED
    BY <1>1, <1>5, <2>1, AdjacentConcat
<1>7. PICK n \in Nat : Len(entries) = n /\ k <= n /\ 1 <= k
  BY <1>1
<1>8. ASSUME NEW i \in 1 .. n - k + 2, s[i].role = "toolResult" PROVE i > 1 /\ s[i - 1].stop = "toolUse"
  <2>1. i # 1
    BY <1>3, <1>4, <1>8
  <2>2. s[i] = entries[k + i - 2] /\ i > 1
    BY <1>3, <1>7, <2>1
  <2>3. i # 2
    <3>1. k + 2 - 2 = k
      BY <1>7
    <3> QED
      BY <1>1, <1>8, <2>2, <3>1
  <2>4. k + i - 2 \in DOMAIN entries /\ i - 1 \in 2 .. n - k + 2 /\ k + (i - 1) - 2 = (k + i - 2) - 1
    BY <1>1, <1>7, <2>2, <2>3
  <2>5. entries[(k + i - 2) - 1].stop = "toolUse"
    BY <1>8, <2>2, <2>4 DEF Adjacent
  <2>6. s[i - 1] = entries[k + (i - 1) - 2]
    BY <1>3, <1>7, <2>4
  <2> QED
    BY <2>2, <2>4, <2>5, <2>6
<1>9. Adjacent(s)
  <2>1. DOMAIN s = 1 .. n - k + 2
    BY <1>3, <1>7
  <2> QED
    BY <1>8, <2>1 DEF Adjacent
<1> QED
  BY <1>2, <1>3, <1>6, <1>9, AdjacentFront

-----------------------------------------------------------------------------
(* Tool results                                                            *)

Results == ~Excused =>
    /\ Adjacent(messages) /\ Adjacent(entries)
    /\ run.step = "tools" => CallEnds(messages) /\ CallEnds(entries)

LEMMA CallEndsOne ==
    ASSUME NEW s \in Seq(Message), NEW m \in Message, m.stop = "toolUse"
    PROVE  CallEnds(s \o <<m>>)
  BY EndsInOne DEF CallEnds

\* A cut does not separate them: it is never before a tool result.
LEMMA AdjacentSource ==
    ASSUME TypeOK, Kept, NEW t, Source(t), Adjacent(messages), Adjacent(entries)
    PROVE  Adjacent(t.messages) /\ Adjacent(t.entries)
<1>1. CASE t = Now
  BY <1>1, NowIs
<1>2. ASSUME NEW k \in Nat, NEW again \in BOOLEAN, Keepable(k), t = Landing(k, again)
      PROVE  Adjacent(t.messages) /\ Adjacent(t.entries)
  BY <1>2, AdjacentLanding
<1> QED
  BY <1>1, <1>2 DEF Source

LEMMA ResultsVoiced ==
    ASSUME TypeOK, Structure, Voiced, Adjacent(messages), Adjacent(entries)
    PROVE  Adjacent(messages') /\ Adjacent(entries')
<1>0. Kept /\ messages \in Seq(Message) /\ entries \in Seq(Message)
  BY DEF Structure, TypeOK
<1>1. ASSUME NEW t, NEW ms, Utters(t, ms), Free(ms)
      PROVE  Adjacent(messages') /\ Adjacent(entries')
  <2>1. t.messages \in Seq(Message) /\ t.entries \in Seq(Message) /\ Adjacent(t.messages) /\ Adjacent(t.entries)
    BY <1>0, <1>1, SourceIs, AdjacentSource DEF Utters
  <2> QED
    BY <1>1, <2>1, AdjacentConcat DEF Utters
<1>2. ASSUME NEW ms, Withdraws(ms)
      PROVE  Adjacent(messages') /\ Adjacent(entries')
  <2>1. ms \in Seq(Message) /\ Free(ms)
    <3>1. Free(<<>>)
      BY DEF Free
    <3>2. Free(bash)
      BY PlainFree DEF Structure, Roled
    <3> QED
      BY <1>2, <3>1, <3>2, BashOrNone DEF Structure, Withdraws
  <2> DEFINE x == messages \o ms
             y == entries \o ms
  <2>2. x \in Seq(Message) /\ Adjacent(x) /\ Adjacent(y)
    BY <1>0, <2>1, AdjacentConcat
  <2>3. messages' = WithoutLast(x) /\ entries' = y
    BY <1>2 DEF Withdraws
  <2> HIDE DEF x, y
  <2> QED
    BY <2>2, <2>3, AdjacentFront
<1> QED
  BY <1>1, <1>2 DEF Voiced

LEMMA ResultsTurn ==
    ASSUME TypeOK, Structure, NEW c \in Callers, RunTurn(c), ~log'.detached, ~Excused, Results
    PROVE  /\ Adjacent(messages') /\ Adjacent(entries')
           /\ run'.step = "tools" => CallEnds(messages') /\ CallEnds(entries')
<1>0. messages \in Seq(Message) /\ entries \in Seq(Message) /\ Adjacent(messages) /\ Adjacent(entries)
  BY DEF TypeOK, Results
<1>1. PICK ms : Utters(Now, ms) /\ TurnSays(ms)
  BY TurnVoiced
<1>2. ms \in Seq(Message) /\ messages' = messages \o ms /\ entries' = entries \o ms
  BY <1>1, NowIs DEF Utters
<1>3. run'.step = "tools" => CallEnds(messages') /\ CallEnds(entries')
  BY <1>0, <1>1, <1>2, CallEndsOne DEF TurnSays
<1>4. CASE Free(ms)
  BY <1>0, <1>2, <1>3, <1>4, AdjacentConcat
<1>5. CASE ~Free(ms)
  <2>1. PICK r \in Message, rest \in Seq(Message) : Free(rest) /\ ms = <<r>> \o rest
    BY <1>1, <1>5 DEF TurnSays
  <2>2. CallEnds(messages) /\ CallEnds(entries)
    BY <1>1, <1>5 DEF TurnSays, Results
  <2>3. <<r>> \in Seq(Message)
    OBVIOUS
  <2>4. messages' = (messages \o <<r>>) \o rest /\ entries' = (entries \o <<r>>) \o rest
    <3> DEFINE one == <<r>>
    <3>1. one \in Seq(Message) /\ messages' = messages \o (one \o rest) /\ entries' = entries \o (one \o rest)
      BY <1>2, <2>1, <2>3
    <3> HIDE DEF one
    <3>2. messages' = (messages \o one) \o rest /\ entries' = (entries \o one) \o rest
      BY <1>0, <3>1, Assoc, ZenonT(60)
    <3> QED
      BY <3>2 DEF one
  <2>5. Adjacent(messages \o <<r>>) /\ Adjacent(entries \o <<r>>)
    BY <1>0, <2>2, AdjacentResult
  <2>6. messages \o <<r>> \in Seq(Message) /\ entries \o <<r>> \in Seq(Message)
    BY <1>0, <2>3
  <2> QED
    BY <1>3, <2>1, <2>4, <2>5, <2>6, AdjacentConcat
<1> QED
  BY <1>4, <1>5

\* Only a turn calls tools; nothing is said before their results are there.
LEMMA ToolsWait ==
    ASSUME TypeOK, Structure, NEW c \in Callers, StepOf(c), ~RunTurn(c), ~log'.overlap, run'.step = "tools"
    PROVE  run.step = "tools" /\ messages' = messages /\ entries' = entries
<1>0. Owners /\ Kept
  BY DEF Structure
<1>1. ~Send(c) \/ ~Sends(c)
  BY StartIs DEF Sends
<1>2. ~RunEnd(c)
  BY DEF RunEnd, TypeOK
<1>3. \A t : ~Again(c, t) /\ ~Further(c, t)
  BY StartIs DEF Again, Further
<1>4. run' = run
  <2>1. Send(c) => run' = run
    BY <1>1 DEF Send, Sends
  <2>2. ASSUME NEW t, Resume(c, t) PROVE run' = run
    BY <1>3, <2>2 DEF Resume, GoesOn, Halt
  <2>3. ASSUME NEW t, Landed(c, t) PROVE run' = run
    BY <2>3 DEF Landed
  <2>4. Prompt(c) \/ Queued(c) \/ Declined(c) \/ Preflight(c) \/ PostRetry(c) \/ PostCompact(c) \/ Summarize(c) => run' = run
    BY DEF Prompt, Queued, Declined, Preflight, PostRetry, PostCompact, Summarize
  <2> QED
    BY <1>2, <2>1, <2>2, <2>3, <2>4 DEF StepOf
<1>5. run.step = "tools" /\ Streaming
  BY <1>0, <1>4 DEF Owners, Streaming
<1>6. run.owner \in Callers /\ Posting(run.owner) /\ caller[run.owner].pc = "running"
  BY <1>0, <1>5, Runner
<1>7. c # run.owner
  <2>1. SUFFICES ASSUME caller[c].pc = "running" PROVE FALSE
    BY <1>6
  <2> QED
    BY <1>2, <2>1 DEF StepOf, Prompt, Queued, Declined, Preflight, Send, PostRetry, PostCompact, Summarize, Landed, Resume
<1>8. OutsideSays
  BY <1>6, <1>7, OutsideIs, OutsideSaid
<1> QED
  BY <1>5, <1>8 DEF OutsideSays

\* Results stay where they are through each step of a call.
LEMMA ResultsStep ==
    ASSUME TypeOK, Structure, Answering, Results, NEW c \in Callers, StepOf(c)
    PROVE  Results'
<1>1. SUFFICES ASSUME ~Excused'
               PROVE  /\ Adjacent(messages') /\ Adjacent(entries')
                      /\ run'.step = "tools" => CallEnds(messages') /\ CallEnds(entries')
  BY DEF Results, Adjacent, CallEnds
<1>2. ~Excused /\ ~log'.overlap /\ ~log'.detached /\ ~log.detached
  BY <1>1, LogGrows DEF Excused, Step
<1>3. CASE RunTurn(c)
  BY <1>2, <1>3, ResultsTurn
<1>4. CASE ~RunTurn(c)
  <2>1. Adjacent(messages') /\ Adjacent(entries')
    BY <1>2, <1>4, StepVoiced, ResultsVoiced DEF Results
  <2>2. run'.step = "tools" => CallEnds(messages') /\ CallEnds(entries')
    BY <1>2, <1>4, ToolsWait DEF Results
  <2> QED
    BY <2>1, <2>2
<1> QED
  BY <1>3, <1>4

LEMMA ResultsApart ==
    ASSUME TypeOK, Structure, Paired, Results, Apart
    PROVE  Results'
<1>1. SUFFICES ASSUME ~Excused'
               PROVE  /\ Adjacent(messages') /\ Adjacent(entries')
                      /\ run'.step = "tools" => CallEnds(messages') /\ CallEnds(entries')
  BY DEF Results, Adjacent, CallEnds
<1>2. ~Excused
  BY <1>1, LogGrows DEF Excused, Step
<1>3. Adjacent(messages') /\ Adjacent(entries')
  BY <1>2, ApartVoiced, ResultsVoiced DEF Results
<1>4. ASSUME run'.step = "tools" PROVE CallEnds(messages') /\ CallEnds(entries')
  <2>0. Kept /\ Owners
    BY DEF Structure
  <2>1. run.step = "tools"
    BY <1>4, <2>0, ApartSays
  <2>2. Streaming
    BY <2>0, <2>1 DEF Owners, Streaming
  <2>3. PairOne(run.owner)
    BY <1>2, <2>0, <2>2, Runner DEF Paired
  <2>4. manual.pc # "summarize"
    BY <2>1, <2>3 DEF PairOne, Compacting
  <2>5. transcript' = transcript
    BY <2>0, <2>2, <2>4, ApartSays
  <2> QED
    BY <1>2, <2>1, <2>5 DEF Results, transcript
<1> QED
  BY <1>3, <1>4

\* A tool result in the context follows the response that called it: shell output that
\* is flushed (_flushPendingBashMessages), messages of the queue, cuts of
\* prepareCompaction and retries that take a response out never come between them - unless
\* two prompts overlapped or compact() replaced the context of a run.
THEOREM ResultsInPlace == Spec => []ResultsFollowCalls
<1>1. Init => Results
  BY DEF Init, Results, Adjacent
<1>2. Held /\ Results /\ [Next]_vars => Results'
  <2>1. SUFFICES ASSUME Held, Results, [Next]_vars PROVE Results'
    OBVIOUS
  <2>2. CASE Next
    <3>1. (\E c \in Callers : StepOf(c)) \/ Apart
      BY <2>1, <2>2, Steps DEF Held, Structure
    <3> QED
      BY <2>1, <3>1, ResultsStep, ResultsApart DEF Held
  <2>3. CASE UNCHANGED vars
    BY <2>1, <2>3 DEF vars, Results, Excused, Adjacent, CallEnds, transcript
  <2> QED
    BY <2>1, <2>2, <2>3
<1>3. Results => ResultsFollowCalls
  BY DEF Results, Excused, Adjacent, ResultsFollowCalls
<1> QED
  BY <1>1, <1>2, <1>3, HeldAlways, PTL DEF Spec

-----------------------------------------------------------------------------
(* A context without its failed responses                                  *)

\* The function that Sound takes the last value of.
Sift(s, f, k) == IF k = 0 THEN <<>>
                 ELSE IF s[k].stop \in Errors THEN f[k - 1] ELSE Append(f[k - 1], s[k])
Sifted(s) == CHOOSE f : f = [k \in 0 .. Len(s) |->
                 IF k = 0 THEN <<>>
                 ELSE IF s[k].stop \in Errors THEN f[k - 1] ELSE Append(f[k - 1], s[k])]

\* A set of numbers with 0 and with what follows each of its numbers has them all.
LEMMA AllNumbers ==
    ASSUME NEW P \in SUBSET Nat, 0 \in P, \A n \in P : n + 1 \in P
    PROVE  P = Nat
<1>1. SUFFICES ASSUME NEW x \in Nat, x \notin P PROVE FALSE
  OBVIOUS
<1> DEFINE S == Nat \ P
           m == Min(S)
<1>2. S \in SUBSET Nat /\ S # {}
  BY <1>1
<1>3. m \in S /\ \A k \in S : m <= k
  <2> HIDE DEF S
  <2> QED
    BY <1>2, LeastNat
<1> HIDE DEF m
<1>4. m \in Nat /\ m \notin P /\ m # 0
  BY <1>3
<1>5. m - 1 \in Nat /\ m - 1 \notin S
  BY <1>3, <1>4
<1>6. m - 1 \in P
  BY <1>5
<1>7. (m - 1) + 1 \in P /\ (m - 1) + 1 = m
  BY <1>4, <1>6
<1> QED
  BY <1>4, <1>7

\* Sifting a sequence from its front: there is one result, by induction on its length.
LEMMA SiftedExists ==
    ASSUME NEW s \in Seq(Message)
    PROVE  \E f : f = [k \in 0 .. Len(s) |-> Sift(s, f, k)]
<1> DEFINE P(n) == \E f : f = [k \in 0 .. n |-> Sift(s, f, k)]
           S == {n \in Nat : P(n)}
<1>1. P(0)
  <2>1. [k \in 0 .. 0 |-> <<>>] = [k \in 0 .. 0 |-> Sift(s, [j \in 0 .. 0 |-> <<>>], k)]
    BY DEF Sift
  <2> QED
    BY <2>1
<1>2. ASSUME NEW n \in Nat, P(n) PROVE P(n + 1)
  <2>1. PICK f : f = [k \in 0 .. n |-> Sift(s, f, k)]
    BY <1>2, Zenon
  <2> DEFINE g == [k \in 0 .. n + 1 |-> IF k = n + 1 THEN Sift(s, f, k) ELSE f[k]]
  <2>2. ASSUME NEW k \in 0 .. n + 1 PROVE g[k] = Sift(s, g, k)
    <3>1. CASE k = n + 1
      <4>1. g[n] = f[n] /\ k # 0 /\ k - 1 = n
        BY <3>1
      <4>2. g[k] = Sift(s, f, k)
        BY <3>1
      <4>3. Sift(s, f, k) = Sift(s, g, k)
        <5> HIDE DEF g
        <5> QED
          BY <4>1 DEF Sift
      <4> QED
        BY <4>2, <4>3
    <3>2. CASE k # n + 1
      <4>1. k \in 0 .. n /\ g[k] = f[k]
        BY <3>2
      <4>2. k # 0 => g[k - 1] = f[k - 1]
        BY <4>1
      <4>3. f[k] = Sift(s, f, k)
        BY <2>1, <4>1, Zenon
      <4>4. Sift(s, f, k) = Sift(s, g, k)
        <5> HIDE DEF g
        <5> QED
          BY <4>2 DEF Sift
      <4> QED
        BY <4>1, <4>3, <4>4
    <3> QED
      BY <3>1, <3>2
  <2>3. g = [k \in 0 .. n + 1 |-> g[k]]
    OBVIOUS
  <2>4. [k \in 0 .. n + 1 |-> g[k]] = [k \in 0 .. n + 1 |-> Sift(s, g, k)]
    <3> HIDE DEF g
    <3> QED
      BY <2>2
  <2> QED
    <3> HIDE DEF g
    <3> QED
      BY <2>3, <2>4
<1> HIDE DEF P
<1>3. 0 \in S /\ \A n \in S : n + 1 \in S
  BY <1>1, <1>2
<1>4. S = Nat
  <2> DEFINE T == S
  <2>1. T \in SUBSET Nat /\ 0 \in T /\ \A n \in T : n + 1 \in T
    BY <1>3
  <2> HIDE DEF T
  <2>2. T = Nat
    BY <2>1, AllNumbers
  <2> QED
    BY <2>2 DEF T
<1>5. Len(s) \in S
  BY <1>4
<1> QED
  BY <1>5, Zenon DEF P

LEMMA SiftedIs ==
    ASSUME NEW s \in Seq(Message)
    PROVE  Sifted(s) = [k \in 0 .. Len(s) |-> Sift(s, Sifted(s), k)]
<1>1. \E f : f = [k \in 0 .. Len(s) |-> Sift(s, f, k)]
  BY SiftedExists
<1>2. Sifted(s) = CHOOSE f : f = [k \in 0 .. Len(s) |-> Sift(s, f, k)]
  BY DEF Sifted, Sift
<1> QED
  BY <1>1, <1>2, Zenon

\* Sound is that result.
LEMMA SoundIs == ASSUME NEW s PROVE Sound(s) = Sifted(s)[Len(s)]
  BY DEF Sound, Sifted

\* A message that follows is kept unless it is a failed response.
LEMMA SoundAppend ==
    ASSUME NEW s \in Seq(Message), NEW m \in Message
    PROVE  Sound(Append(s, m)) = IF m.stop \in Errors THEN Sound(s) ELSE Append(Sound(s), m)
<1>1. PICK n \in Nat : Len(s) = n
  OBVIOUS
<1> DEFINE a == Append(s, m)
           F == Sifted(s)
           G == Sifted(a)
           P == {j \in Nat : j <= n => G[j] = F[j]}
<1>2. a \in Seq(Message) /\ Len(a) = n + 1 /\ a[n + 1] = m /\ \A i \in 1 .. n : a[i] = s[i]
  BY <1>1
<1>3. \A k \in 0 .. n : F[k] = Sift(s, F, k)
  <2>1. F = [k \in 0 .. n |-> Sift(s, F, k)]
    BY <1>1, SiftedIs
  <2> HIDE DEF F
  <2> QED
    BY <2>1, Zenon
<1>4. \A k \in 0 .. n + 1 : G[k] = Sift(a, G, k)
  <2> HIDE DEF a
  <2>1. G = [k \in 0 .. n + 1 |-> Sift(a, G, k)]
    BY <1>2, SiftedIs
  <2> HIDE DEF G
  <2> QED
    BY <2>1, Zenon
<1>5. Sound(a) = G[n + 1] /\ Sound(s) = F[n]
  BY <1>1, <1>2, SoundIs
<1> HIDE DEF F, G, a
<1>6. 0 \in P
  <2>1. 0 \in 0 .. n /\ 0 \in 0 .. n + 1
    BY <1>1
  <2>2. F[0] = <<>> /\ G[0] = <<>>
    BY <1>3, <1>4, <2>1 DEF Sift
  <2> QED
    BY <2>2
<1>7. ASSUME NEW j \in P PROVE j + 1 \in P
  <2>1. SUFFICES ASSUME j + 1 <= n PROVE G[j + 1] = F[j + 1]
    OBVIOUS
  <2>2. j + 1 \in 0 .. n /\ j + 1 \in 0 .. n + 1 /\ j + 1 # 0 /\ (j + 1) - 1 = j /\ j + 1 \in 1 .. n /\ G[j] = F[j]
    BY <1>1, <2>1
  <2>3. a[j + 1] = s[j + 1]
    BY <1>2, <2>2
  <2>4. G[j + 1] = Sift(a, G, j + 1) /\ F[j + 1] = Sift(s, F, j + 1)
    BY <1>3, <1>4, <2>2
  <2>5. Sift(a, G, j + 1) = Sift(s, F, j + 1)
    BY <2>2, <2>3 DEF Sift
  <2> QED
    BY <2>4, <2>5
<1>8. P = Nat
  <2>1. P \in SUBSET Nat
    OBVIOUS
  <2>2. \A j \in P : j + 1 \in P
    BY <1>7
  <2> HIDE DEF P
  <2> QED
    BY <1>6, <2>1, <2>2, AllNumbers
<1>9. G[n] = F[n]
  BY <1>1, <1>8
<1>10. n + 1 \in 0 .. n + 1 /\ n + 1 # 0 /\ (n + 1) - 1 = n
  BY <1>1
<1>11. G[n + 1] = IF m.stop \in Errors THEN F[n] ELSE Append(F[n], m)
  BY <1>2, <1>4, <1>9, <1>10 DEF Sift
<1> QED
  BY <1>5, <1>11 DEF a

\* Contexts that are the same but for failed responses stay so with the same tail.
LEMMA SoundTail ==
    ASSUME NEW a \in Seq(Message), NEW b \in Seq(Message), NEW ms \in Seq(Message), Sound(a) = Sound(b)
    PROVE  Sound(a \o ms) = Sound(b \o ms)
<1>1. PICK n \in Nat : Len(ms) = n
  OBVIOUS
<1> DEFINE upTo(j) == SubSeq(ms, 1, j)
           P == {j \in Nat : j <= n => Sound(a \o upTo(j)) = Sound(b \o upTo(j))}
<1>2. 0 \in P
  <2>1. upTo(0) = <<>>
    BY <1>1
  <2>2. a \o <<>> = a /\ b \o <<>> = b
    BY EmptyConcat
  <2> QED
    BY <2>1, <2>2
<1>3. ASSUME NEW j \in P PROVE j + 1 \in P
  <2>1. SUFFICES ASSUME j + 1 <= n PROVE Sound(a \o upTo(j + 1)) = Sound(b \o upTo(j + 1))
    OBVIOUS
  <2>2. j \in Nat /\ j + 1 \in 1 .. n /\ j + 1 \in DOMAIN ms /\ j <= n
    BY <1>1, <2>1
  <2>3. ms[j + 1] \in Message /\ upTo(j) \in Seq(Message) /\ upTo(j + 1) = Append(upTo(j), ms[j + 1])
    BY <1>1, <2>2
  <2>4. Sound(a \o upTo(j)) = Sound(b \o upTo(j))
    BY <2>2
  <2> DEFINE u == upTo(j)
             m == ms[j + 1]
  <2>5. u \in Seq(Message) /\ m \in Message /\ upTo(j + 1) = Append(u, m) /\ Sound(a \o u) = Sound(b \o u)
    BY <2>3, <2>4
  <2> HIDE DEF u, m, upTo
  <2>6. a \o Append(u, m) = Append(a \o u, m) /\ b \o Append(u, m) = Append(b \o u, m)
    BY <2>5, SMTT(30)
  <2>7. a \o u \in Seq(Message) /\ b \o u \in Seq(Message)
    BY <2>5
  <2>8. Sound(Append(a \o u, m)) = Sound(Append(b \o u, m))
    <3> DEFINE x == a \o u
               y == b \o u
    <3>1. x \in Seq(Message) /\ y \in Seq(Message) /\ Sound(x) = Sound(y)
      BY <2>5, <2>7
    <3> HIDE DEF x, y
    <3>2. Sound(Append(x, m)) = IF m.stop \in Errors THEN Sound(x) ELSE Append(Sound(x), m)
      BY <2>5, <3>1, SoundAppend
    <3>3. Sound(Append(y, m)) = IF m.stop \in Errors THEN Sound(y) ELSE Append(Sound(y), m)
      BY <2>5, <3>1, SoundAppend
    <3>4. Sound(Append(x, m)) = Sound(Append(y, m))
      BY <3>1, <3>2, <3>3
    <3> QED
      BY <3>4 DEF x, y
  <2> QED
    BY <2>5, <2>6, <2>8
<1>4. P = Nat
  <2>1. P \in SUBSET Nat
    OBVIOUS
  <2>2. \A j \in P : j + 1 \in P
    BY <1>3
  <2> HIDE DEF P
  <2> QED
    BY <1>2, <2>1, <2>2, AllNumbers
<1>5. Sound(a \o upTo(n)) = Sound(b \o upTo(n))
  BY <1>1, <1>4
<1>6. upTo(n) = ms
  BY <1>1
<1> QED
  BY <1>5, <1>6

\* Taking a failed response out leaves the rest as it was.
LEMMA SoundWithout ==
    ASSUME NEW s \in Seq(Message), EndsIn(s), Last(s).stop \in Errors
    PROVE  Sound(WithoutLast(s)) = Sound(s)
<1>1. WithoutLast(s) = Front(s) /\ s # <<>>
  BY DEF EndsIn, WithoutLast
<1>2. s = Append(Front(s), Last(s)) /\ Front(s) \in Seq(Message) /\ Last(s) \in Message
  BY <1>1, LastFront
<1>3. Sound(Append(Front(s), Last(s))) = Sound(Front(s))
  BY <1>2, SoundAppend
<1> QED
  BY <1>1, <1>2, <1>3

SoundSource(t) == Sound(t.messages) = Sound(Build(t.entries))

\* A compaction that lands makes context and file anew from the same entries.
LEMMA SourceSound ==
    ASSUME TypeOK, Kept, NEW t, Source(t), Sound(messages) = Sound(Build(entries))
    PROVE  SoundSource(t)
<1>1. CASE t = Now
  BY <1>1, NowIs DEF SoundSource
<1>2. ASSUME NEW k \in Nat, NEW again \in BOOLEAN, Keepable(k), t = Landing(k, again)
      PROVE  SoundSource(t)
  <2> DEFINE e == Append(entries, Msg("compaction", k))
             s == Build(e)
  <2>1. t.entries = e /\ t.messages = IF again /\ Last(s).stop \in Errors THEN WithoutLast(s) ELSE s
    BY <1>2 DEF Landing, Transcript
  <2>2. s \in Seq(Message)
    BY <1>2, LandingIs
  <2> HIDE DEF e, s
  <2>3. CASE t.messages = s
    BY <2>1, <2>3 DEF SoundSource, s
  <2>4. CASE t.messages # s
    <3>1. t.messages = WithoutLast(s) /\ Last(s).stop \in Errors
      BY <2>1, <2>4
    <3>2. EndsIn(s)
      BY <2>2, <2>4, <3>1, WithoutLastEnd
    <3>3. Sound(WithoutLast(s)) = Sound(s)
      BY <2>2, <3>1, <3>2, SoundWithout
    <3> QED
      BY <2>1, <3>1, <3>3 DEF SoundSource, s
  <2> QED
    BY <2>3, <2>4
<1> QED
  BY <1>1, <1>2 DEF Source

\* What is said on both keeps them together.
LEMMA SoundUttered ==
    ASSUME TypeOK, Kept, NEW t, NEW ms, Utters(t, ms), Sound(messages) = Sound(Build(entries))
    PROVE  Sound(messages') = Sound(Build(entries'))
<1>1. t.messages \in Seq(Message) /\ t.entries \in Seq(Message) /\ Anchored(t.entries) /\ SoundSource(t)
  BY SourceIs, SourceSound DEF Utters
<1>2. ms \in Seq(Message) /\ Spoken(ms) /\ messages' = t.messages \o ms /\ entries' = t.entries \o ms
  BY DEF Utters
<1>3. Build(t.entries \o ms) = Build(t.entries) \o ms /\ Build(t.entries) \in Seq(Message)
  BY <1>1, <1>2, AnchoredConcat
<1>4. Sound(t.messages \o ms) = Sound(Build(t.entries) \o ms)
  BY <1>1, <1>2, <1>3, SoundTail DEF SoundSource
<1> QED
  BY <1>2, <1>3, <1>4

\* A failed response is taken out of the context and is sifted out of the file.
LEMMA SoundWithdrawn ==
    ASSUME TypeOK, Structure, NEW ms, Withdraws(ms), Sound(messages) = Sound(Build(entries))
    PROVE  Sound(messages') = Sound(Build(entries'))
<1>1. messages \in Seq(Message) /\ entries \in Seq(Message) /\ Anchored(entries) /\ ms \in Seq(Message) /\ Spoken(ms)
  BY BashOrNone DEF Withdraws, TypeOK, Structure, Kept
<1>2. Build(entries \o ms) = Build(entries) \o ms /\ Build(entries) \in Seq(Message)
  BY <1>1, AnchoredConcat
<1>3. Sound(messages \o ms) = Sound(Build(entries) \o ms)
  BY <1>1, <1>2, SoundTail
<1> DEFINE x == messages \o ms
<1>4. x \in Seq(Message) /\ EndsIn(x) /\ Last(x).stop \in Errors /\ messages' = WithoutLast(x)
  BY <1>1 DEF Withdraws
<1>5. Sound(x) = Sound(Build(entries) \o ms)
  BY <1>3
<1> HIDE DEF x
<1>6. Sound(WithoutLast(x)) = Sound(x)
  BY <1>4, SoundWithout
<1> QED
  BY <1>2, <1>4, <1>5, <1>6 DEF Withdraws

LEMMA SoundVoiced ==
    ASSUME TypeOK, Structure, Voiced, Sound(messages) = Sound(Build(entries))
    PROVE  Sound(messages') = Sound(Build(entries'))
<1>1. Kept
  BY DEF Structure
<1> QED
  BY <1>1, SoundUttered, SoundWithdrawn DEF Voiced

Recoverable == log.detached \/ Sound(messages) = Sound(Build(entries))

\* What a model is sent can be rebuilt from the session file: but for failed responses,
\* the context is what buildSessionContext makes of the entries, over every retry,
\* compaction, abort and flush - unless a run wrote while compact() had the session
\* disconnected.
THEOREM ContextReloads == Spec => []ContextRecoverable
<1>1. Init => Recoverable
  <2>1. SUFFICES ASSUME Init PROVE Sound(messages) = Sound(Build(entries))
    BY DEF Recoverable
  <2>2. messages = <<>> /\ entries = <<>> /\ <<>> \in Seq(Message) /\ Len(<<>>) = 0
    BY <2>1 DEF Init
  <2>3. Compacted(<<>>) = 0
    <3>1. Compacted(<<>>) \in 0 .. 0
      BY <2>2, CompactedIs
    <3> QED
      BY <3>1
  <2>4. Build(<<>>) = <<>>
    BY <2>3 DEF Build
  <2> QED
    BY <2>2, <2>4
<1>2. Held /\ Recoverable /\ [Next]_vars => Recoverable'
  <2>1. SUFFICES ASSUME Held, Recoverable, [Next]_vars, ~log'.detached
                 PROVE  Sound(messages') = Sound(Build(entries'))
    BY DEF Recoverable
  <2>2. CASE Next
    <3>1. (\E c \in Callers : StepOf(c)) \/ Apart
      BY <2>1, <2>2, Steps DEF Held, Structure
    <3>2. ~log.detached /\ Sound(messages) = Sound(Build(entries)) /\ Kept
      BY <2>1, <3>1, LogGrows DEF Held, Step, Recoverable, Structure
    <3>3. ASSUME NEW c \in Callers, RunTurn(c) PROVE Sound(messages') = Sound(Build(entries'))
      BY <2>1, <3>2, <3>3, TurnVoiced, SoundUttered DEF Held
    <3>4. ASSUME NEW c \in Callers, StepOf(c), ~RunTurn(c) PROVE Sound(messages') = Sound(Build(entries'))
      BY <2>1, <3>2, <3>4, StepVoiced, SoundVoiced DEF Held
    <3>5. CASE Apart
      BY <2>1, <3>2, <3>5, ApartVoiced, SoundVoiced DEF Held
    <3> QED
      BY <3>1, <3>3, <3>4, <3>5
  <2>3. CASE UNCHANGED vars
    BY <2>1, <2>3 DEF vars, Recoverable, transcript
  <2> QED
    BY <2>1, <2>2, <2>3
<1>3. Recoverable => ContextRecoverable
  BY DEF Recoverable, ContextRecoverable
<1> QED
  BY <1>1, <1>2, <1>3, HeldAlways, PTL DEF Spec

-----------------------------------------------------------------------------
(* Each message that was handed over is in one place                       *)

\* The numbers of the messages made so far are parted among: the queue, shell output
\* that waits, messages for the next prompt, the calls, the file, and what was refused.
Parted(Q, B, N, O, F, X, m) ==
    /\ Q \subseteq 1 .. m /\ B \subseteq 1 .. m /\ N \subseteq 1 .. m /\ F \subseteq 1 .. m /\ X \subseteq 1 .. m
    /\ \A c \in Callers : O[c] \subseteq 1 .. m
    /\ \A n \in 1 .. m : n \in Q \/ n \in B \/ n \in N \/ n \in F \/ n \in X \/ \E c \in Callers : n \in O[c]
    /\ \A n \in Q : n \notin B /\ n \notin N /\ n \notin F /\ n \notin X
    /\ \A n \in B : n \notin N /\ n \notin F /\ n \notin X
    /\ \A n \in N : n \notin F /\ n \notin X
    /\ \A n \in F : n \notin X
    /\ \A c \in Callers : \A n \in O[c] : n \notin Q /\ n \notin B /\ n \notin N /\ n \notin F /\ n \notin X
    /\ \A c, d \in Callers : c # d => \A n \in O[c] : n \notin O[d]

\* How the numbers move: shell output to the file, a queued message to the file, a
\* prompt to the queue, to those refused, to the file; and new ones to each place.
LEMMA PartFlush ==
    ASSUME NEW Q, NEW B, NEW N, NEW O, NEW F, NEW X, NEW m, Parted(Q, B, N, O, F, X, m)
    PROVE  Parted(Q, {}, N, O, F \cup B, X, m)
  BY DEF Parted

LEMMA PartSay ==
    ASSUME NEW Q, NEW B, NEW N, NEW O, NEW F, NEW X, NEW m, Parted(Q, B, N, O, F, X, m), NEW q \in Q
    PROVE  Parted(Q \ {q}, B, N, O, F \cup {q}, X, m)
  BY DEF Parted

LEMMA PartQueue ==
    ASSUME NEW Q, NEW B, NEW N, NEW O, NEW F, NEW X, NEW m, Parted(Q, B, N, O, F, X, m), NEW c \in Callers,
           O \in [Callers -> SUBSET Nat]
    PROVE  Parted(Q \cup O[c], B, N, [O EXCEPT ![c] = {}], F, X, m)
  BY DEF Parted

LEMMA PartRefuse ==
    ASSUME NEW Q, NEW B, NEW N, NEW O, NEW F, NEW X, NEW m, Parted(Q, B, N, O, F, X, m), NEW c \in Callers,
           O \in [Callers -> SUBSET Nat]
    PROVE  Parted(Q, B, N, [O EXCEPT ![c] = {}], F, X \cup O[c], m)
  BY DEF Parted

LEMMA PartSend ==
    ASSUME NEW Q, NEW B, NEW N, NEW O, NEW F, NEW X, NEW m, Parted(Q, B, N, O, F, X, m), NEW c \in Callers,
           O \in [Callers -> SUBSET Nat]
    PROVE  Parted(Q, B, N, [O EXCEPT ![c] = {}], F \cup O[c], X, m)
  BY DEF Parted

LEMMA PartTake ==
    ASSUME NEW Q, NEW B, NEW N, NEW O, NEW F, NEW X, NEW m, Parted(Q, B, N, O, F, X, m), NEW c \in Callers,
           O \in [Callers -> SUBSET Nat]
    PROVE  Parted(Q, B, {}, [O EXCEPT ![c] = O[c] \cup N], F, X, m)
  BY DEF Parted

LEMMA OneMore ==
    ASSUME NEW m \in Nat
    PROVE  1 .. m + 1 = 1 .. m \cup {m + 1} /\ m + 1 \notin 1 .. m
  OBVIOUS

LEMMA PartNew ==
    ASSUME NEW Q, NEW B, NEW N, NEW O, NEW F, NEW X, NEW m \in Nat, Parted(Q, B, N, O, F, X, m)
    PROVE  /\ Parted(Q \cup {m + 1}, B, N, O, F, X, m + 1)
           /\ Parted(Q, B \cup {m + 1}, N, O, F, X, m + 1)
           /\ Parted(Q, B, N \cup {m + 1}, O, F, X, m + 1)
           /\ Parted(Q, B, N, O, F \cup {m + 1}, X, m + 1)
<1> DEFINE I == 1 .. m
           J == 1 .. m + 1
           n == m + 1
<1>1. J = I \cup {n} /\ n \notin I
  BY OneMore
<1> HIDE DEF I, J, n
<1>2. Parted(Q \cup {n}, B, N, O, F, X, n)
  BY <1>1 DEF Parted, I, J, n
<1>3. Parted(Q, B \cup {n}, N, O, F, X, n)
  BY <1>1 DEF Parted, I, J, n
<1>4. Parted(Q, B, N \cup {n}, O, F, X, n)
  BY <1>1 DEF Parted, I, J, n
<1>5. Parted(Q, B, N, O, F \cup {n}, X, n)
  BY <1>1 DEF Parted, I, J, n
<1> QED
  BY <1>2, <1>3, <1>4, <1>5 DEF n

LEMMA PartCall ==
    ASSUME NEW Q, NEW B, NEW N, NEW O, NEW F, NEW X, NEW m \in Nat, Parted(Q, B, N, O, F, X, m), NEW c \in Callers,
           O \in [Callers -> SUBSET Nat], O[c] = {}
    PROVE  Parted(Q, B, N, [O EXCEPT ![c] = {m + 1}], F, X, m + 1)
<1> DEFINE I == 1 .. m
           J == 1 .. m + 1
           n == m + 1
<1>1. J = I \cup {n} /\ n \notin I
  BY OneMore
<1> HIDE DEF I, J, n
<1>2. Parted(Q, B, N, [O EXCEPT ![c] = {n}], F, X, n)
  BY <1>1 DEF Parted, I, J, n
<1> QED
  BY <1>2 DEF n

-----------------------------------------------------------------------------
\* The numbers of the messages of a sequence that are no compactions; no two the same.
Filed(s) == {s[k].n : k \in {j \in DOMAIN s : s[j].role # "compaction"}}
Sole(s) == \A i, j \in DOMAIN s : s[i].n = s[j].n /\ s[i].role # "compaction" /\ s[j].role # "compaction" => i = j

\* The numbers in a file.
LEMMA FiledEmpty == Filed(<<>>) = {} /\ Sole(<<>>) /\ Ids(<<>>) = {}
  BY DEF Filed, Sole, Ids

LEMMA FiledPlain ==
    ASSUME NEW s \in Seq(Message), NEW role, role # "compaction", Plain(s, role)
    PROVE  Filed(s) = Ids(s)
  BY DEF Filed, Ids, Plain

LEMMA FiledSpoken ==
    ASSUME NEW s \in Seq(Message), Spoken(s)
    PROVE  Filed(s) = Ids(s)
  BY DEF Filed, Ids, Spoken

\* A file that is added to holds both parts, once if they have nothing in common.
LEMMA FiledConcat ==
    ASSUME NEW s \in Seq(Message), NEW t \in Seq(Message)
    PROVE  /\ Filed(s \o t) = Filed(s) \cup Filed(t)
           /\ Sole(s) /\ Sole(t) /\ (\A n \in Filed(s) : n \notin Filed(t)) => Sole(s \o t)
<1>1. PICK n \in Nat, l \in Nat : Len(s) = n /\ Len(t) = l /\ DOMAIN s = 1 .. n /\ DOMAIN t = 1 .. l
  OBVIOUS
<1> DEFINE u == s \o t
<1>2. Len(u) = n + l /\ (\A i \in 1 .. n : u[i] = s[i]) /\ (\A i \in 1 .. l : u[n + i] = t[i]) /\ DOMAIN u = 1 .. n + l
  <2>0. Len(s) = n /\ Len(t) = l
    BY <1>1
  <2>1. /\ u \in Seq(Message) /\ Len(u) = n + l
        /\ \A i \in 1 .. n : u[i] = s[i]
        /\ \A i \in 1 .. l : u[n + i] = t[i]
    BY <2>0, ConcatIs
  <2> HIDE DEF u
  <2>2. DOMAIN u = 1 .. Len(u)
    BY <2>1
  <2> QED
    BY <2>1, <2>2, Zenon
<1>3. \A k \in DOMAIN u : \/ k \in 1 .. n /\ u[k] = s[k]
                          \/ \E i \in 1 .. l : k = n + i /\ u[k] = t[i]
  BY <1>1, ConcatPick, ZenonT(60)
<1> HIDE DEF u
<1>4. \A i \in 1 .. l : n + i \in DOMAIN u
  BY <1>1, <1>2
<1>5. \A i \in 1 .. n : i \in DOMAIN u
  BY <1>1, <1>2
<1>6. Filed(u) = Filed(s) \cup Filed(t)
  <2>1. \A x \in Filed(u) : x \in Filed(s) \cup Filed(t)
    BY <1>1, <1>3 DEF Filed
  <2>2. \A x \in Filed(s) : x \in Filed(u)
    BY <1>1, <1>2, <1>5 DEF Filed
  <2>3. \A x \in Filed(t) : x \in Filed(u)
    BY <1>1, <1>2, <1>4 DEF Filed
  <2> QED
    BY <2>1, <2>2, <2>3
<1>7. ASSUME Sole(s), Sole(t), \A x \in Filed(s) : x \notin Filed(t),
             NEW i \in DOMAIN u, NEW j \in DOMAIN u, u[i].n = u[j].n, u[i].role # "compaction", u[j].role # "compaction"
      PROVE  i = j
  <2>1. CASE i \in 1 .. n /\ u[i] = s[i] /\ j \in 1 .. n /\ u[j] = s[j]
    BY <1>1, <1>7, <2>1 DEF Sole
  <2>2. ASSUME NEW a \in 1 .. l, i = n + a, u[i] = t[a], NEW b \in 1 .. l, j = n + b, u[j] = t[b] PROVE i = j
    BY <1>1, <1>7, <2>2 DEF Sole
  <2>3. ASSUME NEW a \in 1 .. n, u[i] = s[a], NEW b \in 1 .. l, u[j] = t[b] PROVE FALSE
    <3>1. s[a].n \in Filed(s) /\ t[b].n \in Filed(t) /\ s[a].n = t[b].n
      BY <1>1, <1>7, <2>3 DEF Filed
    <3> QED
      BY <1>7, <3>1
  <2>4. ASSUME NEW a \in 1 .. n, u[j] = s[a], NEW b \in 1 .. l, u[i] = t[b] PROVE FALSE
    <3>1. s[a].n \in Filed(s) /\ t[b].n \in Filed(t) /\ s[a].n = t[b].n
      BY <1>1, <1>7, <2>4 DEF Filed
    <3> QED
      BY <1>7, <3>1
  <2> QED
    BY <1>3, <2>1, <2>2, <2>3, <2>4
<1>8. Sole(s) /\ Sole(t) /\ (\A x \in Filed(s) : x \notin Filed(t)) => Sole(u)
  BY <1>7 DEF Sole
<1> QED
  BY <1>6, <1>8 DEF u

LEMMA FiledOne ==
    ASSUME NEW m \in Message
    PROVE  /\ Filed(<<m>>) = IF m.role = "compaction" THEN {} ELSE {m.n}
           /\ Sole(<<m>>) /\ Ids(<<m>>) = {m.n}
<1>1. DOMAIN <<m>> = {1} /\ <<m>>[1] = m
  OBVIOUS
<1> DEFINE s == <<m>>
<1>2. DOMAIN s = {1} /\ s[1] = m
  BY <1>1
<1> HIDE DEF s
<1>3. Filed(s) = (IF m.role = "compaction" THEN {} ELSE {m.n}) /\ Sole(s) /\ Ids(s) = {m.n}
  BY <1>2 DEF Filed, Sole, Ids
<1> QED
  BY <1>3 DEF s

\* Where the messages are that a caller has handed over: each in one place.
Distinct(s) == \A i, j \in DOMAIN s : s[i] = s[j] => i = j
OwnOf(x) == Pending(x) \cup Ids(x.extra)
SoleCall(x) == Sole(x.extra) /\ \A n \in Pending(x) : n \notin Ids(x.extra)
OwnsIn(ca) == [c \in Callers |-> OwnOf(ca[c])]
PlacesOf(q, b, nt, e, ca, X, m) ==
    /\ Distinct(q) /\ Sole(b) /\ Sole(nt) /\ Sole(e)
    /\ \A c \in Callers : SoleCall(ca[c])
    /\ Parted(Range(q), Ids(b), Ids(nt), OwnsIn(ca), Filed(e), X, m)

\* What the calls hold.
LEMMA OwnsTyped ==
    ASSUME NEW ca \in [Callers -> Call]
    PROVE  /\ OwnsIn(ca) \in [Callers -> SUBSET Nat]
           /\ \A c \in Callers : OwnsIn(ca)[c] = OwnOf(ca[c])
<1>1. ASSUME NEW c \in Callers PROVE OwnOf(ca[c]) \in SUBSET Nat
  <2>1. ca[c].msg \in Nat /\ ca[c].extra \in Seq(Message)
    BY DEF Call
  <2>2. Pending(ca[c]) \subseteq Nat
    BY <2>1 DEF Pending
  <2> DEFINE s == ca[c].extra
  <2>a. s \in Seq(Message)
    BY <2>1
  <2> HIDE DEF s
  <2>b. \A k \in DOMAIN s : s[k] \in Message
    BY <2>a
  <2>c. \A k \in DOMAIN s : s[k].n \in Nat
    BY <2>b DEF Message
  <2>3. \A k \in DOMAIN ca[c].extra : ca[c].extra[k].n \in Nat
    BY <2>c DEF s
  <2>4. Ids(ca[c].extra) \subseteq Nat
    BY <2>3 DEF Ids
  <2> QED
    BY <2>2, <2>4 DEF OwnOf
<1> QED
  BY <1>1 DEF OwnsIn

LEMMA OwnsMoved ==
    ASSUME NEW ca \in [Callers -> Call], NEW ca2 \in [Callers -> Call], NEW c \in Callers,
           \A d \in Callers \ {c} : ca2[d] = ca[d]
    PROVE  OwnsIn(ca2) = [OwnsIn(ca) EXCEPT ![c] = OwnOf(ca2[c])]
  BY DEF OwnsIn

LEMMA OwnsSame ==
    ASSUME NEW ca, NEW ca2, \A c \in Callers : ca2[c].msg = ca[c].msg /\ ca2[c].extra = ca[c].extra
    PROVE  OwnsIn(ca2) = OwnsIn(ca) /\ \A c \in Callers : SoleCall(ca[c]) => SoleCall(ca2[c])
  BY DEF OwnsIn, OwnOf, Pending, SoleCall

LEMMA OwnNone ==
    ASSUME NEW x, x.msg = 0, x.extra = <<>>
    PROVE  OwnOf(x) = {} /\ SoleCall(x)
  BY FiledEmpty DEF OwnOf, Pending, SoleCall

LEMMA OwnMessage ==
    ASSUME NEW x, x.msg # 0, x.extra = <<>>
    PROVE  OwnOf(x) = {x.msg} /\ Pending(x) = {x.msg} /\ SoleCall(x)
  BY FiledEmpty DEF OwnOf, Pending, SoleCall

\* The queue without its head, and with one more.
LEMMA TailIs ==
    ASSUME NEW q \in Seq(Nat), q # <<>>, Distinct(q)
    PROVE  /\ Tail(q) \in Seq(Nat) /\ Distinct(Tail(q)) /\ Range(Tail(q)) = Range(q) \ {Head(q)}
           /\ Head(q) \in Range(q) /\ Head(q) \in Nat
<1>1. PICK n \in Nat : Len(q) = n /\ n # 0 /\ DOMAIN q = 1 .. n
  OBVIOUS
<1> DEFINE t == Tail(q)
<1>2. t \in Seq(Nat) /\ Len(t) = n - 1 /\ DOMAIN t = 1 .. n - 1 /\ \A i \in 1 .. n - 1 : t[i] = q[i + 1]
  BY <1>1
<1>3. Head(q) = q[1] /\ 1 \in 1 .. n
  BY <1>1
<1> HIDE DEF t
<1>4. Distinct(t)
  <2>1. ASSUME NEW i \in 1 .. n - 1, NEW j \in 1 .. n - 1, t[i] = t[j] PROVE i = j
    <3>1. i + 1 \in 1 .. n /\ j + 1 \in 1 .. n /\ q[i + 1] = q[j + 1]
      BY <1>1, <1>2, <2>1
    <3>2. i + 1 = j + 1
      BY <1>1, <3>1 DEF Distinct
    <3> QED
      BY <3>2
  <2> QED
    BY <1>2, <2>1 DEF Distinct
<1>5. \A x \in Range(t) : x \in Range(q) /\ x # Head(q)
  <2>1. ASSUME NEW i \in 1 .. n - 1 PROVE t[i] \in Range(q) /\ t[i] # Head(q)
    <3>1. i + 1 \in 1 .. n /\ t[i] = q[i + 1] /\ i + 1 # 1
      BY <1>1, <1>2
    <3> QED
      BY <1>1, <1>3, <3>1 DEF Range, Distinct
  <2> QED
    BY <1>2, <2>1 DEF Range
<1>6. \A x \in Range(q) : x # Head(q) => x \in Range(t)
  <2>1. ASSUME NEW i \in 1 .. n, q[i] # Head(q) PROVE q[i] \in Range(t)
    <3>1. i # 1
      BY <1>3, <2>1
    <3>2. i - 1 \in 1 .. n - 1 /\ (i - 1) + 1 = i
      BY <1>1, <3>1
    <3>3. t[i - 1] = q[i]
      BY <1>2, <3>2
    <3> QED
      BY <1>2, <3>2, <3>3 DEF Range
  <2> QED
    BY <1>1, <2>1 DEF Range
<1>7. Head(q) \in Range(q) /\ Head(q) \in Nat
  BY <1>1, <1>3 DEF Range
<1> QED
  BY <1>2, <1>4, <1>5, <1>6, <1>7 DEF t

LEMMA AppendIs ==
    ASSUME NEW q \in Seq(Nat), Distinct(q), NEW x \in Nat, x \notin Range(q)
    PROVE  Distinct(Append(q, x)) /\ Range(Append(q, x)) = Range(q) \cup {x} /\ Append(q, x) \in Seq(Nat)
<1>1. PICK n \in Nat : Len(q) = n /\ DOMAIN q = 1 .. n
  OBVIOUS
<1> DEFINE t == Append(q, x)
<1>2. t \in Seq(Nat) /\ DOMAIN t = 1 .. n + 1 /\ t[n + 1] = x /\ \A i \in 1 .. n : t[i] = q[i]
  BY <1>1
<1> HIDE DEF t
<1>3. \A i \in 1 .. n + 1 : i = n + 1 \/ i \in 1 .. n
  BY <1>1
<1>4. \A i \in 1 .. n : i \in 1 .. n + 1 /\ i # n + 1
  BY <1>1
<1>a. n + 1 \in 1 .. n + 1
  BY <1>1
<1>5. Distinct(t)
  BY <1>1, <1>2, <1>3, <1>4 DEF Distinct, Range
<1>6. \A y \in Range(t) : y \in Range(q) \cup {x}
  BY <1>1, <1>2, <1>3 DEF Range
<1>7. \A y \in Range(q) \cup {x} : y \in Range(t)
  BY <1>1, <1>2, <1>4, <1>a DEF Range
<1> QED
  BY <1>2, <1>5, <1>6, <1>7 DEF t

\* Messages of users, as they are said.
LEMMA UserSaid ==
    ASSUME NEW h \in Nat
    PROVE  LET us == Users(<<h>>)
           IN us \in Seq(Message) /\ Spoken(us) /\ Ids(us) = {h} /\ Sole(us) /\ Filed(us) = {h}
<1>1. <<h>> \in Seq(Nat) /\ Len(<<h>>) = 1 /\ DOMAIN <<h>> = {1} /\ <<h>>[1] = h
  OBVIOUS
<1> DEFINE us == Users(<<h>>)
<1>2. us \in Seq(Message) /\ Plain(us, "user") /\ Len(us) = 1 /\ us[1].n = h
  BY <1>1, UsersAre
<1> HIDE DEF us
<1>3. DOMAIN us = {1}
  BY <1>2
<1>4. Spoken(us)
  BY <1>2, PlainSpoken
<1>5. Ids(us) = {h} /\ Sole(us)
  BY <1>2, <1>3 DEF Ids, Sole
<1>6. Filed(us) = {h}
  BY <1>2, <1>4, <1>5, FiledSpoken
<1> QED
  BY <1>2, <1>4, <1>5, <1>6 DEF us

\* What is new is nowhere yet.
LEMMA NewPlace ==
    ASSUME NEW Q, NEW B, NEW N, NEW O, NEW F, NEW X, NEW m \in Nat, Parted(Q, B, N, O, F, X, m)
    PROVE  m + 1 \notin Q /\ m + 1 \notin B /\ m + 1 \notin N /\ m + 1 \notin F
<1>1. m + 1 \notin 1 .. m
  BY OneMore
<1> QED
  BY <1>1 DEF Parted

\* How the places change. Each lemma is one move of messages by the code.
LEMMA MoveFlush ==
    ASSUME NEW q, NEW b \in Seq(Message), NEW nt, NEW e \in Seq(Message), NEW ca, NEW X, NEW m,
           PlacesOf(q, b, nt, e, ca, X, m), Plain(b, "bash")
    PROVE  PlacesOf(q, <<>>, nt, e \o b, ca, X, m)
<1>1. Filed(b) = Ids(b)
  BY FiledPlain
<1>2. Parted(Range(q), Ids(b), Ids(nt), OwnsIn(ca), Filed(e), X, m)
  BY DEF PlacesOf
<1>3. Parted(Range(q), {}, Ids(nt), OwnsIn(ca), Filed(e) \cup Ids(b), X, m)
  BY <1>2, PartFlush
<1>4. \A n \in Filed(e) : n \notin Filed(b)
  BY <1>1, <1>2 DEF Parted
<1>5. Sole(e \o b) /\ Filed(e \o b) = Filed(e) \cup Ids(b)
  BY <1>1, <1>4, FiledConcat DEF PlacesOf
<1> QED
  BY <1>3, <1>5, FiledEmpty DEF PlacesOf

LEMMA MoveSay ==
    ASSUME NEW q \in Seq(Nat), q # <<>>, NEW b, NEW nt, NEW e \in Seq(Message), NEW ca, NEW X, NEW m,
           PlacesOf(q, b, nt, e, ca, X, m)
    PROVE  PlacesOf(Tail(q), b, nt, e \o Users(<<Head(q)>>), ca, X, m)
<1> DEFINE h == Head(q)
           t == Tail(q)
           us == Users(<<h>>)
<1>1. t \in Seq(Nat) /\ Distinct(t) /\ Range(t) = Range(q) \ {h} /\ h \in Range(q) /\ h \in Nat
  BY TailIs DEF PlacesOf
<1>2. us \in Seq(Message) /\ Ids(us) = {h} /\ Sole(us) /\ Filed(us) = {h}
  <2> HIDE DEF h
  <2> QED
    BY <1>1, UserSaid
<1> HIDE DEF h, t, us
<1>3. Parted(Range(q), Ids(b), Ids(nt), OwnsIn(ca), Filed(e), X, m)
  BY DEF PlacesOf
<1>4. Parted(Range(t), Ids(b), Ids(nt), OwnsIn(ca), Filed(e) \cup {h}, X, m)
  BY <1>1, <1>3, PartSay
<1>5. \A n \in Filed(e) : n \notin Filed(us)
  BY <1>1, <1>2, <1>3 DEF Parted
<1>6. Sole(e \o us) /\ Filed(e \o us) = Filed(e) \cup {h}
  BY <1>2, <1>5, FiledConcat DEF PlacesOf
<1>7. PlacesOf(t, b, nt, e \o us, ca, X, m)
  BY <1>1, <1>4, <1>6 DEF PlacesOf
<1> QED
  BY <1>7 DEF h, t, us

LEMMA MoveCalls ==
    ASSUME NEW q, NEW b, NEW nt, NEW e, NEW ca, NEW ca2, NEW X, NEW m, PlacesOf(q, b, nt, e, ca, X, m),
           \A c \in Callers : ca2[c].msg = ca[c].msg /\ ca2[c].extra = ca[c].extra
    PROVE  PlacesOf(q, b, nt, e, ca2, X, m)
<1>1. OwnsIn(ca2) = OwnsIn(ca) /\ \A c \in Callers : SoleCall(ca[c]) => SoleCall(ca2[c])
  BY OwnsSame
<1> QED
  BY <1>1 DEF PlacesOf

\* The calls after a step of c that leaves its call with other messages.
LEMMA CallsMoved ==
    ASSUME NEW ca \in [Callers -> Call], NEW ca2 \in [Callers -> Call], NEW c \in Callers,
           \A d \in Callers \ {c} : ca2[d] = ca[d], \A d \in Callers : SoleCall(ca[d]), SoleCall(ca2[c])
    PROVE  /\ \A d \in Callers : SoleCall(ca2[d])
           /\ OwnsIn(ca2) = [OwnsIn(ca) EXCEPT ![c] = OwnOf(ca2[c])]
           /\ OwnsIn(ca)[c] = OwnOf(ca[c]) /\ OwnsIn(ca) \in [Callers -> SUBSET Nat]
<1>1. \A d \in Callers : SoleCall(ca2[d])
  OBVIOUS
<1> QED
  BY <1>1, OwnsMoved, OwnsTyped

LEMMA MoveQueue ==
    ASSUME NEW q \in Seq(Nat), NEW b, NEW nt, NEW e, NEW X, NEW m,
           NEW ca \in [Callers -> Call], NEW ca2 \in [Callers -> Call], NEW c \in Callers,
           \A d \in Callers \ {c} : ca2[d] = ca[d], PlacesOf(q, b, nt, e, ca, X, m),
           ca[c].msg # 0, ca[c].extra = <<>>, ca2[c].msg = 0, ca2[c].extra = <<>>
    PROVE  PlacesOf(Append(q, ca[c].msg), b, nt, e, ca2, X, m) /\ ca[c].msg \notin Range(q)
<1> DEFINE x == ca[c].msg
           O == OwnsIn(ca)
           O2 == OwnsIn(ca2)
<1>1. OwnOf(ca[c]) = {x} /\ OwnOf(ca2[c]) = {} /\ SoleCall(ca2[c])
  BY OwnMessage, OwnNone
<1>2. \A d \in Callers : SoleCall(ca[d])
  BY DEF PlacesOf
<1>3. (\A d \in Callers : SoleCall(ca2[d])) /\ O2 = [O EXCEPT ![c] = {}] /\ O[c] = {x} /\ O \in [Callers -> SUBSET Nat]
  BY <1>1, <1>2, CallsMoved
<1>4. x \in Nat
  BY DEF Call
<1> HIDE DEF x, O, O2
<1>5. Parted(Range(q), Ids(b), Ids(nt), O, Filed(e), X, m)
  BY DEF PlacesOf, O
<1>6. Parted(Range(q) \cup {x}, Ids(b), Ids(nt), O2, Filed(e), X, m)
  <2>1. Parted(Range(q) \cup O[c], Ids(b), Ids(nt), [O EXCEPT ![c] = {}], Filed(e), X, m)
    BY <1>3, <1>5, PartQueue
  <2> QED
    BY <1>3, <2>1
<1>7. x \notin Range(q)
  BY <1>3, <1>5 DEF Parted
<1>8. Distinct(Append(q, x)) /\ Range(Append(q, x)) = Range(q) \cup {x}
  BY <1>4, <1>7, AppendIs DEF PlacesOf
<1>9. PlacesOf(Append(q, x), b, nt, e, ca2, X, m)
  BY <1>3, <1>6, <1>8 DEF PlacesOf, O2
<1> QED
  BY <1>7, <1>9 DEF x

LEMMA MoveRefuse ==
    ASSUME NEW q, NEW b, NEW nt, NEW e, NEW X, NEW m,
           NEW ca \in [Callers -> Call], NEW ca2 \in [Callers -> Call], NEW c \in Callers,
           \A d \in Callers \ {c} : ca2[d] = ca[d], PlacesOf(q, b, nt, e, ca, X, m),
           ca2[c].msg = 0, ca2[c].extra = <<>>
    PROVE  PlacesOf(q, b, nt, e, ca2, X \cup OwnOf(ca[c]), m)
<1> DEFINE O == OwnsIn(ca)
           O2 == OwnsIn(ca2)
<1>1. OwnOf(ca2[c]) = {} /\ SoleCall(ca2[c])
  BY OwnNone
<1>2. \A d \in Callers : SoleCall(ca[d])
  BY DEF PlacesOf
<1>3. (\A d \in Callers : SoleCall(ca2[d])) /\ O2 = [O EXCEPT ![c] = {}] /\ O[c] = OwnOf(ca[c]) /\ O \in [Callers -> SUBSET Nat]
  BY <1>1, <1>2, CallsMoved
<1> HIDE DEF O, O2
<1>5. Parted(Range(q), Ids(b), Ids(nt), O, Filed(e), X, m)
  BY DEF PlacesOf, O
<1>6. Parted(Range(q), Ids(b), Ids(nt), O2, Filed(e), X \cup OwnOf(ca[c]), m)
  <2>1. Parted(Range(q), Ids(b), Ids(nt), [O EXCEPT ![c] = {}], Filed(e), X \cup O[c], m)
    BY <1>3, <1>5, PartRefuse
  <2> QED
    BY <1>3, <2>1
<1> QED
  BY <1>3, <1>6 DEF PlacesOf, O2

LEMMA MoveSend ==
    ASSUME NEW q, NEW b, NEW nt, NEW e \in Seq(Message), NEW X, NEW m,
           NEW ca \in [Callers -> Call], NEW ca2 \in [Callers -> Call], NEW c \in Callers,
           \A d \in Callers \ {c} : ca2[d] = ca[d], PlacesOf(q, b, nt, e, ca, X, m),
           ca[c].msg # 0, Plain(ca[c].extra, "custom"), ca2[c].msg = 0, ca2[c].extra = <<>>
    PROVE  /\ PlacesOf(q, b, nt, e \o (Users(<<ca[c].msg>>) \o ca[c].extra), ca2, X, m)
           /\ ca[c].msg \notin Range(q)
<1> DEFINE x == ca[c].msg
           s == ca[c].extra
           us == Users(<<x>>)
           O == OwnsIn(ca)
           O2 == OwnsIn(ca2)
<1>1. OwnOf(ca2[c]) = {} /\ SoleCall(ca2[c])
  BY OwnNone
<1>2. \A d \in Callers : SoleCall(ca[d])
  BY DEF PlacesOf
<1>3. (\A d \in Callers : SoleCall(ca2[d])) /\ O2 = [O EXCEPT ![c] = {}] /\ O[c] = OwnOf(ca[c]) /\ O \in [Callers -> SUBSET Nat]
  BY <1>1, <1>2, CallsMoved
<1>4. x \in Nat /\ s \in Seq(Message) /\ Plain(s, "custom")
  BY DEF Call
<1>5. Pending(ca[c]) = {x} /\ OwnOf(ca[c]) = {x} \cup Ids(s) /\ Sole(s) /\ x \notin Ids(s)
  BY <1>2 DEF Pending, OwnOf, SoleCall
<1> HIDE DEF x, s
<1>6. us \in Seq(Message) /\ Sole(us) /\ Filed(us) = {x}
  BY <1>4, UserSaid
<1> HIDE DEF O, O2, us
<1>7. Filed(s) = Ids(s)
  BY <1>4, FiledPlain
<1> DEFINE ms == us \o s
<1>8. ms \in Seq(Message) /\ Filed(ms) = {x} \cup Ids(s) /\ Sole(ms)
  BY <1>4, <1>5, <1>6, <1>7, FiledConcat
<1> HIDE DEF ms
<1>9. Parted(Range(q), Ids(b), Ids(nt), O, Filed(e), X, m)
  BY DEF PlacesOf, O
<1>10. Parted(Range(q), Ids(b), Ids(nt), O2, Filed(e) \cup Filed(ms), X, m)
  <2>1. Parted(Range(q), Ids(b), Ids(nt), [O EXCEPT ![c] = {}], Filed(e) \cup O[c], X, m)
    BY <1>3, <1>9, PartSend
  <2> QED
    BY <1>3, <1>5, <1>8, <2>1
<1>11. \A n \in Filed(e) : n \notin Filed(ms)
  BY <1>3, <1>5, <1>8, <1>9 DEF Parted
<1>12. Sole(e \o ms) /\ Filed(e \o ms) = Filed(e) \cup Filed(ms)
  BY <1>8, <1>11, FiledConcat DEF PlacesOf
<1>13. x \notin Range(q)
  BY <1>3, <1>5, <1>9 DEF Parted
<1>14. PlacesOf(q, b, nt, e \o ms, ca2, X, m)
  BY <1>3, <1>10, <1>12 DEF PlacesOf, O2
<1> QED
  BY <1>13, <1>14 DEF x, s, us, ms

LEMMA MoveTake ==
    ASSUME NEW q, NEW b, NEW nt, NEW e, NEW X, NEW m,
           NEW ca \in [Callers -> Call], NEW ca2 \in [Callers -> Call], NEW c \in Callers,
           \A d \in Callers \ {c} : ca2[d] = ca[d], PlacesOf(q, b, nt, e, ca, X, m),
           ca[c].msg # 0, ca[c].extra = <<>>, ca2[c].msg = ca[c].msg, ca2[c].extra = nt
    PROVE  PlacesOf(q, b, <<>>, e, ca2, X, m)
<1> DEFINE x == ca[c].msg
           O == OwnsIn(ca)
           O2 == OwnsIn(ca2)
<1>1. OwnOf(ca[c]) = {x} /\ OwnOf(ca2[c]) = {x} \cup Ids(nt) /\ Pending(ca2[c]) = {x}
  BY OwnMessage DEF OwnOf, Pending
<1>2. (\A d \in Callers : SoleCall(ca[d])) /\ Sole(nt)
  BY DEF PlacesOf
<1>3. O[c] = {x} /\ O \in [Callers -> SUBSET Nat]
  BY <1>1, OwnsTyped
<1> HIDE DEF O
<1>5. Parted(Range(q), Ids(b), Ids(nt), O, Filed(e), X, m)
  BY DEF PlacesOf, O
<1>6. x \notin Ids(nt)
  BY <1>3, <1>5 DEF Parted
<1>7. SoleCall(ca2[c])
  BY <1>1, <1>2, <1>6 DEF SoleCall
<1>8. (\A d \in Callers : SoleCall(ca2[d])) /\ O2 = [O EXCEPT ![c] = {x} \cup Ids(nt)]
  BY <1>1, <1>2, <1>7, CallsMoved DEF O
<1> HIDE DEF O2, x
<1>9. Parted(Range(q), Ids(b), {}, O2, Filed(e), X, m)
  <2>1. Parted(Range(q), Ids(b), {}, [O EXCEPT ![c] = O[c] \cup Ids(nt)], Filed(e), X, m)
    BY <1>3, <1>5, PartTake
  <2> QED
    BY <1>3, <1>8, <2>1
<1> QED
  BY <1>8, <1>9, FiledEmpty DEF PlacesOf, O2

LEMMA MoveCall ==
    ASSUME NEW q, NEW b, NEW nt, NEW e, NEW X, NEW m \in Nat,
           NEW ca \in [Callers -> Call], NEW ca2 \in [Callers -> Call], NEW c \in Callers,
           \A d \in Callers \ {c} : ca2[d] = ca[d], PlacesOf(q, b, nt, e, ca, X, m),
           ca[c].msg = 0, ca[c].extra = <<>>, ca2[c].msg = m + 1, ca2[c].extra = <<>>
    PROVE  PlacesOf(q, b, nt, e, ca2, X, m + 1)
<1> DEFINE O == OwnsIn(ca)
           O2 == OwnsIn(ca2)
<1>0. m + 1 # 0
  OBVIOUS
<1>1. OwnOf(ca[c]) = {} /\ OwnOf(ca2[c]) = {m + 1} /\ SoleCall(ca2[c])
  BY <1>0, OwnMessage, OwnNone
<1>2. \A d \in Callers : SoleCall(ca[d])
  BY DEF PlacesOf
<1>3. (\A d \in Callers : SoleCall(ca2[d])) /\ O2 = [O EXCEPT ![c] = {m + 1}] /\ O[c] = {} /\ O \in [Callers -> SUBSET Nat]
  BY <1>1, <1>2, CallsMoved
<1> HIDE DEF O, O2
<1>5. Parted(Range(q), Ids(b), Ids(nt), O, Filed(e), X, m)
  BY DEF PlacesOf, O
<1>6. Parted(Range(q), Ids(b), Ids(nt), O2, Filed(e), X, m + 1)
  BY <1>3, <1>5, PartCall
<1> QED
  BY <1>3, <1>6 DEF PlacesOf, O2

\* A message is made: where it can go.
LEMMA OneMoreOf ==
    ASSUME NEW s \in Seq(Message), Sole(s), NEW r \in Message, r.role # "compaction", r.n \notin Filed(s)
    PROVE  Sole(s \o <<r>>) /\ Filed(s \o <<r>>) = Filed(s) \cup {r.n}
<1> DEFINE t == <<r>>
<1>0. Sole(t) /\ Filed(t) = IF r.role = "compaction" THEN {} ELSE {r.n}
  BY FiledOne
<1>1. t \in Seq(Message) /\ Sole(t) /\ Filed(t) = {r.n}
  BY <1>0
<1> HIDE DEF t
<1>2. \A n \in Filed(s) : n \notin Filed(t)
  BY <1>1
<1>3. Sole(s \o t) /\ Filed(s \o t) = Filed(s) \cup {r.n}
  BY <1>1, <1>2, FiledConcat
<1> QED
  BY <1>3 DEF t

\* A response or a result is made and said.
LEMMA MoveReply ==
    ASSUME NEW q, NEW b, NEW nt, NEW e \in Seq(Message), NEW ca, NEW X, NEW m \in Nat,
           PlacesOf(q, b, nt, e, ca, X, m), NEW r \in Message, r.role # "compaction", r.n = m + 1
    PROVE  PlacesOf(q, b, nt, e \o <<r>>, ca, X, m + 1)
<1>1. Parted(Range(q), Ids(b), Ids(nt), OwnsIn(ca), Filed(e), X, m)
  BY DEF PlacesOf
<1>2. m + 1 \notin Filed(e) /\ Parted(Range(q), Ids(b), Ids(nt), OwnsIn(ca), Filed(e) \cup {m + 1}, X, m + 1)
  BY <1>1, NewPlace, PartNew
<1>3. Sole(e \o <<r>>) /\ Filed(e \o <<r>>) = Filed(e) \cup {m + 1}
  BY <1>2, OneMoreOf DEF PlacesOf
<1> QED
  BY <1>2, <1>3 DEF PlacesOf

\* A message is made and queued.
LEMMA MoveSteer ==
    ASSUME NEW q \in Seq(Nat), NEW b, NEW nt, NEW e, NEW ca, NEW X, NEW m \in Nat,
           PlacesOf(q, b, nt, e, ca, X, m)
    PROVE  PlacesOf(Append(q, m + 1), b, nt, e, ca, X, m + 1)
<1>1. Parted(Range(q), Ids(b), Ids(nt), OwnsIn(ca), Filed(e), X, m)
  BY DEF PlacesOf
<1>2. m + 1 \notin Range(q) /\ Parted(Range(q) \cup {m + 1}, Ids(b), Ids(nt), OwnsIn(ca), Filed(e), X, m + 1)
  BY <1>1, NewPlace, PartNew
<1>3. Distinct(Append(q, m + 1)) /\ Range(Append(q, m + 1)) = Range(q) \cup {m + 1}
  BY <1>2, AppendIs DEF PlacesOf
<1> QED
  BY <1>2, <1>3 DEF PlacesOf

\* A message is made and left for the next prompt.
LEMMA MoveNext ==
    ASSUME NEW q, NEW b, NEW nt \in Seq(Message), Plain(nt, "custom"), NEW e, NEW ca, NEW X, NEW m \in Nat,
           PlacesOf(q, b, nt, e, ca, X, m), NEW r, r = Msg("custom", m + 1)
    PROVE  PlacesOf(q, b, Append(nt, r), e, ca, X, m + 1)
<1>1. Parted(Range(q), Ids(b), Ids(nt), OwnsIn(ca), Filed(e), X, m)
  BY DEF PlacesOf
<1>2. m + 1 \notin Ids(nt) /\ Parted(Range(q), Ids(b), Ids(nt) \cup {m + 1}, OwnsIn(ca), Filed(e), X, m + 1)
  BY <1>1, NewPlace, PartNew
<1>0. m + 1 \in Nat
  OBVIOUS
<1>d. r \in Message /\ r.role = "custom" /\ r.n = m + 1
  BY <1>0, ResponseTyped DEF Msg, Roles
<1>a. Append(nt, r) = nt \o <<r>>
  BY <1>d, AppendConcat
<1>b. Append(nt, r) \in Seq(Message)
  BY <1>d
<1>c. Plain(Append(nt, r), "custom")
  BY <1>0, PlainAppend DEF Roles
<1>3. Append(nt, r) = nt \o <<r>> /\ Append(nt, r) \in Seq(Message) /\ Plain(Append(nt, r), "custom")
  BY <1>a, <1>b, <1>c
<1>4. Filed(nt) = Ids(nt) /\ Filed(Append(nt, r)) = Ids(Append(nt, r))
  BY <1>3, FiledPlain
<1>5. Sole(Append(nt, r)) /\ Ids(Append(nt, r)) = Ids(nt) \cup {m + 1}
  BY <1>d, <1>2, <1>3, <1>4, OneMoreOf DEF PlacesOf
<1> QED
  BY <1>2, <1>5 DEF PlacesOf

\* Shell output is made while a run is active.
LEMMA MoveBash ==
    ASSUME NEW q, NEW b \in Seq(Message), Plain(b, "bash"), NEW nt, NEW e, NEW ca, NEW X, NEW m \in Nat,
           PlacesOf(q, b, nt, e, ca, X, m), NEW r, r = Msg("bash", m + 1)
    PROVE  PlacesOf(q, Append(b, r), nt, e, ca, X, m + 1)
<1>1. Parted(Range(q), Ids(b), Ids(nt), OwnsIn(ca), Filed(e), X, m)
  BY DEF PlacesOf
<1>2. m + 1 \notin Ids(b) /\ Parted(Range(q), Ids(b) \cup {m + 1}, Ids(nt), OwnsIn(ca), Filed(e), X, m + 1)
  BY <1>1, NewPlace, PartNew
<1>0. m + 1 \in Nat
  OBVIOUS
<1>d. r \in Message /\ r.role = "bash" /\ r.n = m + 1
  BY <1>0, ResponseTyped DEF Msg, Roles
<1>a. Append(b, r) = b \o <<r>>
  BY <1>d, AppendConcat
<1>b. Append(b, r) \in Seq(Message)
  BY <1>d
<1>c. Plain(Append(b, r), "bash")
  BY <1>0, PlainAppend DEF Roles
<1>3. Append(b, r) = b \o <<r>> /\ Append(b, r) \in Seq(Message) /\ Plain(Append(b, r), "bash")
  BY <1>a, <1>b, <1>c
<1>4. Filed(b) = Ids(b) /\ Filed(Append(b, r)) = Ids(Append(b, r))
  BY <1>3, FiledPlain
<1>5. Sole(Append(b, r)) /\ Ids(Append(b, r)) = Ids(b) \cup {m + 1}
  BY <1>d, <1>2, <1>3, <1>4, OneMoreOf DEF PlacesOf
<1> QED
  BY <1>2, <1>5 DEF PlacesOf

\* A compaction hands over nothing.
LEMMA MoveCompaction ==
    ASSUME NEW q, NEW b, NEW nt, NEW e \in Seq(Message), NEW ca, NEW X, NEW m, PlacesOf(q, b, nt, e, ca, X, m),
           NEW r \in Message, r.role = "compaction"
    PROVE  PlacesOf(q, b, nt, Append(e, r), ca, X, m)
<1> DEFINE t == <<r>>
<1>1. t \in Seq(Message) /\ Sole(t) /\ Filed(t) = {} /\ Append(e, r) = e \o t
  BY FiledOne, AppendConcat
<1> HIDE DEF t
<1>2. Sole(e \o t) /\ Filed(e \o t) = Filed(e) \cup {}
  BY <1>1, FiledConcat DEF PlacesOf
<1> QED
  BY <1>1, <1>2 DEF PlacesOf

\* The queue that is shown follows the queue.
LEMMA UnshowNone ==
    ASSUME NEW us, \A i \in DOMAIN shown : shown[i] \notin Range(us)
    PROVE  Unshow(us) = shown
  BY DEF Unshow

LEMMA UnshowNothing == Unshow(<<>>) = shown
  BY UnshowNone DEF Range

LEMMA UnshowOther ==
    ASSUME NEW n \in Nat, n \notin Range(shown)
    PROVE  Unshow(<<n>>) = shown
<1>1. Range(<<n>>) = {n}
  BY DEF Range
<1> QED
  BY <1>1, UnshowNone DEF Range

\* The message that is taken from the queue is the one no longer shown.
LEMMA UnshowHead ==
    ASSUME shown \in Seq(Nat), shown # <<>>, Distinct(shown), manual.connected
    PROVE  Unshow(<<Head(shown)>>) = Tail(shown)
<1> DEFINE h == Head(shown)
           places == {k \in DOMAIN shown : shown[k] \in Range(<<h>>)}
<1>1. PICK n \in Nat : Len(shown) = n /\ n # 0 /\ DOMAIN shown = 1 .. n
  OBVIOUS
<1>2. h = shown[1] /\ 1 \in 1 .. n /\ Range(<<h>>) = {h}
  BY <1>1 DEF Range
<1>3. places = {1}
  BY <1>1, <1>2 DEF Distinct
<1>4. Min(places) = 1
  <2>1. Min(places) \in places
    <3>1. places \in SUBSET Nat /\ places # {}
      BY <1>3
    <3> HIDE DEF places
    <3> QED
      BY <3>1, LeastNat
  <2> QED
    BY <1>3, <2>1
<1>5. Unshow(<<h>>) = RemoveAt(shown, 1)
  BY <1>3, <1>4 DEF Unshow
<1>6. RemoveAt(shown, 1) = SubSeq(shown, 1, 0) \o SubSeq(shown, 2, n)
  BY <1>1 DEF RemoveAt
<1>7. SubSeq(shown, 1, 0) = <<>> /\ SubSeq(shown, 2, n) = Tail(shown) /\ Tail(shown) \in Seq(Nat)
  BY <1>1
<1>8. <<>> \o Tail(shown) = Tail(shown)
  BY <1>7
<1> QED
  BY <1>5, <1>6, <1>7, <1>8

Places == PlacesOf(queue, bash, nextTurn, entries, caller, log.refused, made)
Shown == shown = queue

\* A compaction that lands moves no message.
LEMMA SourcePlaces ==
    ASSUME TypeOK, Kept, NEW t, Source(t), Places
    PROVE  PlacesOf(queue, bash, nextTurn, t.entries, caller, log.refused, made)
<1>1. CASE t = Now
  BY <1>1, NowIs DEF Places
<1>2. ASSUME NEW k \in Nat, NEW again \in BOOLEAN, Keepable(k), t = Landing(k, again)
      PROVE  PlacesOf(queue, bash, nextTurn, t.entries, caller, log.refused, made)
  <2> DEFINE r == Msg("compaction", k)
  <2>1. t.entries = Append(entries, r)
    BY <1>2 DEF Landing, Transcript
  <2>2. r \in Message /\ r.role = "compaction" /\ entries \in Seq(Message)
    BY ResponseTyped DEF Msg, Roles, TypeOK
  <2> HIDE DEF r
  <2>3. PlacesOf(queue, bash, nextTurn, Append(entries, r), caller, log.refused, made)
    BY <2>2, MoveCompaction DEF Places
  <2> QED
    BY <2>1, <2>3
<1> QED
  BY <1>1, <1>2 DEF Source

\* What every step of a call can count on.
LEMMA StepFacts ==
    ASSUME TypeOK, Structure, NEW c \in Callers, StepOf(c)
    PROVE  /\ caller \in [Callers -> Call] /\ caller' \in [Callers -> Call]
           /\ \A d \in Callers \ {c} : caller'[d] = caller[d]
           /\ CallOK(caller[c]) /\ Plain(bash, "bash") /\ Plain(nextTurn, "custom") /\ Plain(caller[c].extra, "custom")
           /\ queue \in Seq(Nat) /\ bash \in Seq(Message) /\ nextTurn \in Seq(Message) /\ entries \in Seq(Message)
           /\ made \in Nat /\ log \in Logs /\ Kept /\ Owners
<1>1. TypeOK'
  BY StructureStep
<1>2. caller' \in [Callers -> Call]
  BY <1>1 DEF TypeOK
<1>3. \A d \in Callers \ {c} : caller'[d] = caller[d]
  BY PcOthers DEF Structure
<1> QED
  BY <1>2, <1>3 DEF TypeOK, Structure, Called, Roled, Logs

\* Each step moves messages from one place to another.
LEMMA PromptPlaces ==
    ASSUME TypeOK, Structure, NEW c \in Callers, Prompt(c), Places, Shown
    PROVE  Places' /\ Shown'
<1>1. StepOf(c)
  BY DEF StepOf
<1>2. caller[c].msg = 0 /\ caller[c].extra = <<>>
  BY <1>1, StepFacts DEF Prompt, CallOK
<1>3. caller'[c].msg = made + 1 /\ caller'[c].extra = <<>> /\ made' = made + 1
  BY PcAfter DEF Prompt
<1>4. UNCHANGED <<queue, bash, nextTurn, entries, log, shown>>
  BY DEF Prompt, transcript
<1>5. PlacesOf(queue, bash, nextTurn, entries, caller', log.refused, made + 1)
  BY <1>1, <1>2, <1>3, StepFacts, MoveCall DEF Places
<1> QED
  BY <1>3, <1>4, <1>5 DEF Places, Shown

LEMMA QueuedPlaces ==
    ASSUME TypeOK, Structure, NEW c \in Callers, Queued(c), Places, Shown
    PROVE  Places' /\ Shown'
<1>1. StepOf(c)
  BY DEF StepOf
<1>2. caller[c].msg # 0 /\ caller[c].extra = <<>>
  BY <1>1, StepFacts DEF Queued, CallOK
<1>3. caller'[c].msg = 0 /\ caller'[c].extra = <<>>
  BY PcAfter, NoCallIs
<1>4. UNCHANGED <<bash, nextTurn, entries, log, made>> /\ queue' = Append(queue, caller[c].msg) /\ shown' = Append(shown, caller[c].msg)
  BY DEF Queued, transcript
<1>5. PlacesOf(Append(queue, caller[c].msg), bash, nextTurn, entries, caller', log.refused, made)
  BY <1>1, <1>2, <1>3, StepFacts, MoveQueue DEF Places
<1> QED
  BY <1>4, <1>5 DEF Places, Shown

\* A call that ends: its messages are refused, and shell output goes to the file.
LEMMA EndPlaces ==
    ASSUME NEW q, NEW b \in Seq(Message), NEW nt, NEW e \in Seq(Message), NEW X, NEW m,
           NEW ca \in [Callers -> Call], NEW ca2 \in [Callers -> Call], NEW c \in Callers,
           \A d \in Callers \ {c} : ca2[d] = ca[d], PlacesOf(q, b, nt, e, ca, X, m), Plain(b, "bash"), ca2[c] = NoCall
    PROVE  /\ PlacesOf(q, b, nt, e, ca2, X \cup OwnOf(ca[c]), m)
           /\ PlacesOf(q, <<>>, nt, e \o b, ca2, X \cup OwnOf(ca[c]), m)
<1>1. PlacesOf(q, b, nt, e, ca2, X \cup OwnOf(ca[c]), m)
  BY NoCallIs, MoveRefuse
<1> QED
  BY <1>1, MoveFlush

LEMMA DeclinedPlaces ==
    ASSUME TypeOK, Structure, NEW c \in Callers, Declined(c), Places, Shown
    PROVE  Places' /\ Shown'
<1>1. StepOf(c)
  BY DEF StepOf
<1>2. caller[c].extra = <<>>
  BY <1>1, StepFacts DEF Declined, CallOK
<1>3. OwnOf(caller[c]) = Pending(caller[c])
  BY <1>2, FiledEmpty DEF OwnOf
<1>4. caller'[c] = NoCall
  BY PcAfter
<1>5. /\ PlacesOf(queue, bash, nextTurn, entries, caller', log.refused \cup OwnOf(caller[c]), made)
      /\ PlacesOf(queue, <<>>, nextTurn, entries \o bash, caller', log.refused \cup OwnOf(caller[c]), made)
  BY <1>1, <1>4, StepFacts, EndPlaces DEF Places
<1>6. UNCHANGED <<queue, shown, nextTurn, made>>
  BY DEF Declined
<1>7. log'.refused = log.refused \cup Pending(caller[c])
  BY <1>1, StepFacts DEF Declined, Logs
<1>8. (entries' = entries /\ bash' = bash) \/ (entries' = entries \o bash /\ bash' = <<>>)
  BY NowIs DEF Declined, Flush, transcript
<1> QED
  BY <1>3, <1>5, <1>6, <1>7, <1>8 DEF Places, Shown

LEMMA PreflightPlaces ==
    ASSUME TypeOK, Structure, NEW c \in Callers, Preflight(c), Places, Shown
    PROVE  Places' /\ Shown'
<1>1. StepOf(c)
  BY DEF StepOf
<1>2. caller[c].msg # 0 /\ caller[c].extra = <<>>
  BY <1>1, StepFacts DEF Preflight, CallOK
<1>3. UNCHANGED <<queue, shown, made>> /\ entries' = entries \o bash /\ bash' = <<>>
  BY NowIs DEF Preflight, Flush
<1>4. log'.refused = log.refused
  BY <1>1, StepFacts DEF Preflight, Logs
<1>5. PlacesOf(queue, <<>>, nextTurn, entries \o bash, caller, log.refused, made)
  BY <1>1, StepFacts, MoveFlush DEF Places
<1>6. \/ BeforeStart(c)
      \/ nextTurn' = nextTurn /\ caller'[c].msg = caller[c].msg /\ caller'[c].extra = caller[c].extra
  BY CompactIs DEF Preflight
<1>7. CASE BeforeStart(c)
  <2>1. caller'[c].msg = caller[c].msg /\ caller'[c].extra = nextTurn /\ nextTurn' = <<>>
    BY <1>7, BeforeIs DEF BeforeStart
  <2>2. PlacesOf(queue, <<>>, <<>>, entries \o bash, caller', log.refused, made)
    <3>1. caller \in [Callers -> Call] /\ caller' \in [Callers -> Call] /\ \A d \in Callers \ {c} : caller'[d] = caller[d]
      BY <1>1, StepFacts
    <3> DEFINE X == log.refused
               e == entries \o bash
    <3>2. PlacesOf(queue, <<>>, nextTurn, e, caller, X, made)
      BY <1>5
    <3> HIDE DEF X, e
    <3>3. PlacesOf(queue, <<>>, <<>>, e, caller', X, made)
      BY <1>2, <2>1, <3>1, <3>2, MoveTake
    <3> QED
      BY <3>3 DEF X, e
  <2> QED
    BY <1>3, <1>4, <2>1, <2>2 DEF Places, Shown
<1>8. CASE nextTurn' = nextTurn /\ caller'[c].msg = caller[c].msg /\ caller'[c].extra = caller[c].extra
  <2>1. \A d \in Callers : caller'[d].msg = caller[d].msg /\ caller'[d].extra = caller[d].extra
    BY <1>1, <1>8, StepFacts
  <2>2. PlacesOf(queue, <<>>, nextTurn, entries \o bash, caller', log.refused, made)
    BY <1>5, <2>1, MoveCalls
  <2> QED
    BY <1>3, <1>4, <1>8, <2>2 DEF Places, Shown
<1> QED
  BY <1>6, <1>7, <1>8

\* The end of a call on transcript t.
LEMMA FinallyPlaces ==
    ASSUME TypeOK, Structure, NEW c \in Callers, StepOf(c), NEW t, Source(t), Finally(c, t), Places
    PROVE  PlacesOf(queue, bash', nextTurn, entries', caller', log'.refused, made)
<1>1. t.entries \in Seq(Message)
  BY SourceIs DEF Structure
<1>2. PlacesOf(queue, bash, nextTurn, t.entries, caller, log.refused, made)
  BY SourcePlaces DEF Structure
<1>3. caller'[c] = NoCall
  BY EndIs DEF Finally
<1>4. PlacesOf(queue, <<>>, nextTurn, t.entries \o bash, caller', log.refused \cup OwnOf(caller[c]), made)
  BY <1>1, <1>2, <1>3, StepFacts, EndPlaces
<1>5. log'.refused = log.refused \cup OwnOf(caller[c])
  BY StepFacts DEF Finally, Logs, OwnOf
<1>6. bash' = <<>> /\ entries' = t.entries \o bash
  BY DEF Finally, Flush
<1> QED
  BY <1>4, <1>5, <1>6

LEMMA SendPlaces ==
    ASSUME TypeOK, Structure, NEW c \in Callers, Send(c), ~log'.detached, Places, Shown
    PROVE  Places' /\ Shown'
<1>1. StepOf(c) /\ Source(Now)
  BY DEF StepOf, Source
<1>2. caller[c].msg # 0 /\ caller[c].msg \in Nat
  BY <1>1, StepFacts DEF Send, CallOK, TypeOK, Call
<1>3. UNCHANGED <<queue, nextTurn, made>>
  BY DEF Send
<1>4. CASE Sends(c)
  <2>1. StartRun(c, Now, <<caller[c].msg>>, caller[c].extra)
    BY <1>4 DEF Sends
  <2>2. caller'[c].msg = 0 /\ caller'[c].extra = <<>>
    BY <2>1, StartIs
  <2>3. entries' = entries \o (Users(<<caller[c].msg>>) \o caller[c].extra)
    BY <1>4, SendsIs
  <2>4. /\ PlacesOf(queue, bash, nextTurn, entries \o (Users(<<caller[c].msg>>) \o caller[c].extra), caller', log.refused, made)
        /\ caller[c].msg \notin Range(queue)
    <3>1. caller \in [Callers -> Call] /\ caller' \in [Callers -> Call] /\ \A d \in Callers \ {c} : caller'[d] = caller[d]
      BY <1>1, StepFacts
    <3>2. entries \in Seq(Message) /\ Plain(caller[c].extra, "custom")
      BY <1>1, StepFacts
    <3> DEFINE X == log.refused
    <3>3. PlacesOf(queue, bash, nextTurn, entries, caller, X, made)
      BY DEF Places
    <3> HIDE DEF X
    <3>4. /\ PlacesOf(queue, bash, nextTurn, entries \o (Users(<<caller[c].msg>>) \o caller[c].extra), caller', X, made)
          /\ caller[c].msg \notin Range(queue)
      BY <1>2, <2>2, <3>1, <3>2, <3>3, MoveSend
    <3> QED
      BY <3>4 DEF X
  <2>5. bash' = bash /\ log'.refused = log.refused
    BY <1>1, <2>1, StepFacts DEF StartRun, Logs
  <2>6. shown' = Unshow(<<caller[c].msg>>)
    BY <2>1 DEF StartRun, Say
  <2>7. shown' = shown
    BY <1>2, <2>4, <2>6, UnshowOther DEF Shown
  <2> QED
    BY <1>3, <2>3, <2>4, <2>5, <2>7 DEF Places, Shown
<1>5. CASE Finally(c, Now) /\ shown' = shown
  <2>1. PlacesOf(queue, bash', nextTurn, entries', caller', log'.refused, made)
    BY <1>1, <1>5, FinallyPlaces
  <2> QED
    BY <1>3, <1>5, <2>1 DEF Places, Shown
<1> QED
  BY <1>4, <1>5 DEF Send, Sends

\* A turn: what is made, and then what is taken from the queue.
LEMMA TurnPlaced ==
    ASSUME TypeOK, Structure, NEW ms \in Seq(Message), NEW us, NEW step, NEW good, Turn(ms, us, step, good), manual.connected,
           us = <<>> \/ (queue # <<>> /\ us = <<Head(queue)>>), Shown, Distinct(queue), NEW m,
           PlacesOf(queue, bash, nextTurn, entries \o ms, caller, log.refused, m)
    PROVE  /\ PlacesOf(queue', bash, nextTurn, entries', caller, log'.refused, m)
           /\ Shown'
<1>1. queue \in Seq(Nat) /\ entries \in Seq(Message) /\ log \in Logs /\ shown = queue
  BY DEF TypeOK, Logs, Shown
<1>2. entries' = entries \o (ms \o Users(us)) /\ shown' = Unshow(us) /\ queue' = SubSeq(queue, Len(us) + 1, Len(queue))
  BY NowIs DEF Turn, Say
<1>3. log'.refused = log.refused
  BY <1>1 DEF Turn, Logs
<1>4. CASE us = <<>>
  <2>1. Users(us) = <<>>
    <3>1. <<>> \in Seq(Nat) /\ Len(<<>>) = 0
      OBVIOUS
    <3>2. Users(<<>>) \in Seq(Message) /\ Len(Users(<<>>)) = 0
      BY <3>1, UsersAre
    <3> QED
      BY <1>4, <3>2
  <2>2. entries' = entries \o ms
    BY <1>2, <2>1, EmptyConcat
  <2>3. queue' = queue
    BY <1>1, <1>2, <1>4
  <2>4. shown' = shown
    BY <1>2, <1>4, UnshowNothing
  <2> QED
    BY <1>1, <1>3, <2>2, <2>3, <2>4 DEF Shown
<1>5. CASE queue # <<>> /\ us = <<Head(queue)>>
  <2> DEFINE e == entries \o ms
             s == Users(us)
  <2>1. e \in Seq(Message)
    BY <1>1
  <2>2. Head(queue) \in Nat
    BY <1>1, <1>5
  <2>3. s \in Seq(Message)
    BY <1>5, <2>2, UserSaid
  <2>4. entries' = e \o s
    <3>1. entries' = entries \o (ms \o s)
      BY <1>2
    <3> HIDE DEF s
    <3>2. entries \o (ms \o s) = (entries \o ms) \o s
      BY <1>1, <2>3, ConcatAssociative, SMTT(30)
    <3> QED
      BY <3>1, <3>2
  <2>5. queue' = Tail(queue)
    BY <1>1, <1>2, <1>5, SMTT(30)
  <2>6. PlacesOf(Tail(queue), bash, nextTurn, e \o s, caller, log.refused, m)
    <3> HIDE DEF e
    <3> QED
      BY <1>1, <1>5, <2>1, MoveSay DEF e
  <2>7. shown' = Tail(queue)
    BY <1>1, <1>2, <1>5, UnshowHead
  <2> QED
    BY <1>3, <2>4, <2>5, <2>6, <2>7 DEF Shown
<1> QED
  BY <1>4, <1>5

LEMMA RunTurnPlaces ==
    ASSUME TypeOK, Structure, NEW c \in Callers, RunTurn(c), ~log'.detached, Places, Shown
    PROVE  Places' /\ Shown'
<1>1. made \in Nat /\ made + 1 \in Nat /\ queue \in Seq(Nat) /\ entries \in Seq(Message) /\ <<>> \in Seq(Nat) /\ <<>> \in Seq(Message)
  BY DEF TypeOK
<1> DEFINE answer == Response(made + 1, "stop")
           call == Response(made + 1, "toolUse")
           result == Msg("toolResult", made + 1)
<1>3. /\ answer \in Message /\ call \in Message /\ result \in Message
      /\ result.role = "toolResult" /\ answer.role = "assistant" /\ call.role = "assistant"
      /\ result.n = made + 1 /\ answer.n = made + 1 /\ call.n = made + 1
  BY <1>1, ResponseTyped DEF Msg, Response, Stops, Roles
<1>5. \/ queue # <<>> /\ Turn(<<>>, <<Head(queue)>>, "model", FALSE) /\ made' = made
      \/ Turn(<<call>>, <<>>, "tools", TRUE) /\ made' = made + 1
      \/ Turn(<<result>>, <<>>, "model", FALSE) /\ made' = made + 1
      \/ queue # <<>> /\ Turn(<<result>>, <<Head(queue)>>, "model", FALSE) /\ made' = made + 1
      \/ queue # <<>> /\ Turn(<<answer>>, <<Head(queue)>>, "model", TRUE) /\ made' = made + 1
  BY DEF RunTurn
<1> HIDE DEF answer, call, result
<1>6. UNCHANGED <<caller, bash, nextTurn>>
  BY DEF RunTurn
<1>7. ASSUME NEW ms \in Seq(Message), NEW us, NEW step, NEW good, Turn(ms, us, step, good),
             us = <<>> \/ (queue # <<>> /\ us = <<Head(queue)>>),
             PlacesOf(queue, bash, nextTurn, entries \o ms, caller, log.refused, made')
      PROVE  Places' /\ Shown'
  <2>1. us \in Seq(Nat)
    BY <1>1, <1>7, HeadTyped
  <2>2. manual.connected
    BY <1>7, <2>1, TurnEnds
  <2>3. Distinct(queue)
    BY DEF Places, PlacesOf
  <2>4. PlacesOf(queue', bash, nextTurn, entries', caller, log'.refused, made') /\ Shown'
    BY <1>7, <2>2, <2>3, TurnPlaced
  <2> QED
    BY <1>6, <2>4 DEF Places
<1>8. PlacesOf(queue, bash, nextTurn, entries \o <<>>, caller, log.refused, made)
  BY <1>1, EmptyConcat DEF Places
<1>9. /\ PlacesOf(queue, bash, nextTurn, entries \o <<call>>, caller, log.refused, made + 1)
      /\ PlacesOf(queue, bash, nextTurn, entries \o <<result>>, caller, log.refused, made + 1)
      /\ PlacesOf(queue, bash, nextTurn, entries \o <<answer>>, caller, log.refused, made + 1)
  BY <1>1, <1>3, MoveReply DEF Places
<1>10. <<call>> \in Seq(Message) /\ <<answer>> \in Seq(Message) /\ <<result>> \in Seq(Message)
  BY <1>3
<1>11. CASE queue # <<>> /\ Turn(<<>>, <<Head(queue)>>, "model", FALSE) /\ made' = made
  BY <1>1, <1>7, <1>8, <1>11
<1>12. CASE Turn(<<call>>, <<>>, "tools", TRUE) /\ made' = made + 1
  BY <1>7, <1>9, <1>10, <1>12
<1>13. CASE Turn(<<result>>, <<>>, "model", FALSE) /\ made' = made + 1
  BY <1>7, <1>9, <1>10, <1>13
<1>14. CASE queue # <<>> /\ Turn(<<result>>, <<Head(queue)>>, "model", FALSE) /\ made' = made + 1
  BY <1>7, <1>9, <1>10, <1>14
<1>15. CASE queue # <<>> /\ Turn(<<answer>>, <<Head(queue)>>, "model", TRUE) /\ made' = made + 1
  BY <1>7, <1>9, <1>10, <1>15
<1> QED
  BY <1>5, <1>11, <1>12, <1>13, <1>14, <1>15

LEMMA RunEndPlaces ==
    ASSUME TypeOK, Structure, NEW c \in Callers, RunEnd(c), ~log'.detached, Places, Shown
    PROVE  Places' /\ Shown'
<1>1. StepOf(c) /\ Owners
  BY DEF StepOf, Structure
<1>2. PICK stop \in Stops \ {"toolUse"}, r \in Message :
        /\ r.role = "assistant" /\ r.n = made + 1 /\ entries' = entries \o <<r>>
        /\ log' = [log EXCEPT !.detached = @ \/ ~manual.connected, !.continued = IF stop \in Errors THEN @ ELSE 0]
  BY <1>1, RunEndIs
<1>3. log'.refused = log.refused
  BY <1>1, <1>2, StepFacts DEF Logs
<1>4. PlacesOf(queue, bash, nextTurn, entries \o <<r>>, caller, log.refused, made + 1)
  BY <1>1, <1>2, StepFacts, MoveReply DEF Places
<1>5. caller'[c].msg = caller[c].msg /\ caller'[c].extra = caller[c].extra
  BY PcAfter
<1>6. \A d \in Callers : caller'[d].msg = caller[d].msg /\ caller'[d].extra = caller[d].extra
  BY <1>1, <1>5, StepFacts
<1>7. PlacesOf(queue, bash, nextTurn, entries \o <<r>>, caller', log.refused, made + 1)
  BY <1>4, <1>6, MoveCalls
<1>8. UNCHANGED <<queue, bash, nextTurn>> /\ made' = made + 1
  BY DEF RunEnd
<1>9. shown' = Unshow(<<>>)
  BY DEF RunEnd, Say
<1>10. shown' = shown
  BY <1>9, UnshowNothing
<1> QED
  BY <1>2, <1>3, <1>7, <1>8, <1>10 DEF Places, Shown

\* The steps that move no message.
LEMMA StillPlaces ==
    ASSUME TypeOK, Structure, NEW c \in Callers, PostRetry(c) \/ PostCompact(c) \/ Summarize(c), Places, Shown
    PROVE  Places' /\ Shown'
<1>1. StepOf(c)
  BY DEF StepOf
<1>2. caller'[c].msg = caller[c].msg /\ caller'[c].extra = caller[c].extra
  BY PcAfter
<1>3. \A d \in Callers : caller'[d].msg = caller[d].msg /\ caller'[d].extra = caller[d].extra
  BY <1>1, <1>2, StepFacts
<1>4. PlacesOf(queue, bash, nextTurn, entries, caller', log.refused, made)
  BY <1>3, MoveCalls DEF Places
<1>5. UNCHANGED <<queue, bash, nextTurn, entries, log, made, shown>>
  BY DEF PostRetry, PostCompact, Summarize, transcript
<1> QED
  BY <1>4, <1>5 DEF Places, Shown

LEMMA LandedPlaces ==
    ASSUME TypeOK, Structure, NEW c \in Callers, NEW t, Landed(c, t), Places, Shown
    PROVE  Places' /\ Shown'
<1>1. StepOf(c) /\ Source(t)
  BY DEF StepOf, Landed
<1>2. caller[c].msg # 0 /\ caller[c].extra = <<>>
  BY <1>1, StepFacts DEF Landed, CallOK
<1>3. caller'[c].msg = caller[c].msg /\ caller'[c].extra = nextTurn /\ nextTurn' = <<>>
  BY BeforeIs DEF Landed, BeforeStart
<1>4. PlacesOf(queue, bash, nextTurn, t.entries, caller, log.refused, made)
  BY <1>1, SourcePlaces DEF Structure
<1>5. PlacesOf(queue, bash, <<>>, t.entries, caller', log.refused, made)
  <2>1. caller \in [Callers -> Call] /\ caller' \in [Callers -> Call] /\ \A d \in Callers \ {c} : caller'[d] = caller[d]
    BY <1>1, StepFacts
  <2> DEFINE X == log.refused
             e == t.entries
  <2>2. PlacesOf(queue, bash, nextTurn, e, caller, X, made)
    BY <1>4
  <2> HIDE DEF X, e
  <2>3. PlacesOf(queue, bash, <<>>, e, caller', X, made)
    BY <1>2, <1>3, <2>1, <2>2, MoveTake
  <2> QED
    BY <2>3 DEF X, e
<1>6. log'.refused = log.refused
  BY <1>1, StepFacts DEF Landed, Logs
<1>7. UNCHANGED <<queue, bash, made, shown>> /\ entries' = t.entries
  BY DEF Landed
<1> QED
  BY <1>3, <1>5, <1>6, <1>7 DEF Places, Shown

LEMMA ResumePlaces ==
    ASSUME TypeOK, Structure, NEW c \in Callers, NEW t, Resume(c, t), ~log'.detached, Places, Shown
    PROVE  Places' /\ Shown'
<1>1. StepOf(c) /\ Source(t) /\ GoesOn(c, t) /\ Kept
  BY DEF StepOf, Resume, Structure
<1>2. caller[c].msg = 0 /\ caller[c].extra = <<>>
  BY <1>1, StepFacts DEF Resume, CallOK
<1>3. UNCHANGED <<nextTurn, made>>
  BY DEF Resume
<1>4. PlacesOf(queue, bash, nextTurn, t.entries, caller, log.refused, made)
  BY <1>1, SourcePlaces
<1>5. CASE Halt(c, t)
  <2>1. PlacesOf(queue, bash', nextTurn, entries', caller', log'.refused, made)
    BY <1>1, <1>5, FinallyPlaces DEF Halt
  <2> QED
    BY <1>3, <1>5, <2>1 DEF Places, Shown, Halt
<1>6. ASSUME NEW us, StartRun(c, t, us, <<>>)
      PROVE  /\ \A d \in Callers : caller'[d].msg = caller[d].msg /\ caller'[d].extra = caller[d].extra
             /\ log'.refused = log.refused /\ bash' = bash /\ shown' = Unshow(us)
  <2>1. caller'[c].msg = caller[c].msg /\ caller'[c].extra = caller[c].extra
    BY <1>2, <1>6, StartIs
  <2>2. \A d \in Callers : caller'[d].msg = caller[d].msg /\ caller'[d].extra = caller[d].extra
    BY <1>1, <2>1, StepFacts
  <2>3. log'.refused = log.refused
    BY <1>1, <1>6, StepFacts DEF StartRun, Logs
  <2> QED
    BY <1>6, <2>2, <2>3 DEF StartRun, Say
<1>7. CASE Again(c, t)
  <2>1. entries' = t.entries /\ queue' = queue /\ StartRun(c, t, <<>>, <<>>)
    BY <1>1, <1>7, AgainIs DEF Again
  <2>2. shown' = shown
    BY <1>6, <2>1, UnshowNothing
  <2>3. PlacesOf(queue, bash, nextTurn, t.entries, caller', log.refused, made)
    BY <1>4, <1>6, <2>1, MoveCalls
  <2> QED
    BY <1>3, <1>6, <2>1, <2>2, <2>3 DEF Places, Shown
<1>8. CASE Further(c, t)
  <2>1. StartRun(c, t, <<Head(queue)>>, <<>>) /\ queue # <<>> /\ queue' = Tail(queue)
    BY <1>8 DEF Further
  <2>2. manual.connected
    BY <1>1, <1>8, FurtherIs
  <2>3. queue \in Seq(Nat) /\ t.entries \in Seq(Message) /\ Head(queue) \in Nat
    BY <1>1, <2>1, SourceIs, HeadTyped DEF TypeOK
  <2>4. entries' = t.entries \o Users(<<Head(queue)>>)
    <3>1. entries' = t.entries \o (Users(<<Head(queue)>>) \o <<>>)
      BY <1>1, <1>8, <2>2, FurtherIs
    <3>2. Users(<<Head(queue)>>) \in Seq(Message)
      BY <2>3, UserSaid
    <3> QED
      BY <3>1, <3>2, EmptyConcat
  <2>5. PlacesOf(Tail(queue), bash, nextTurn, t.entries \o Users(<<Head(queue)>>), caller, log.refused, made)
    BY <1>4, <2>1, <2>3, MoveSay
  <2>6. PlacesOf(Tail(queue), bash, nextTurn, t.entries \o Users(<<Head(queue)>>), caller', log.refused, made)
    BY <1>6, <2>1, <2>5, MoveCalls
  <2>7. shown' = Tail(queue)
    <3>1. shown = queue /\ Distinct(shown)
      BY DEF Shown, Places, PlacesOf
    <3> QED
      BY <1>6, <2>1, <2>2, <2>3, <3>1, UnshowHead
  <2> QED
    BY <1>3, <1>6, <2>1, <2>4, <2>6, <2>7 DEF Places, Shown
<1> QED
  BY <1>1, <1>5, <1>7, <1>8 DEF GoesOn

\* So every step of a call keeps each message in one place.
LEMMA PlacesStep ==
    ASSUME TypeOK, Structure, NEW c \in Callers, StepOf(c), ~log'.detached, Places, Shown
    PROVE  Places' /\ Shown'
  BY PromptPlaces, QueuedPlaces, DeclinedPlaces, PreflightPlaces, SendPlaces, RunTurnPlaces, RunEndPlaces,
     StillPlaces, LandedPlaces, ResumePlaces, Zenon DEF StepOf

\* So does every step apart from the calls.
LEMMA PlacesApart ==
    ASSUME TypeOK, Structure, Apart, Places, Shown
    PROVE  Places' /\ Shown'
<1>0. /\ made \in Nat /\ made + 1 \in Nat /\ queue \in Seq(Nat) /\ bash \in Seq(Message) /\ nextTurn \in Seq(Message)
      /\ entries \in Seq(Message) /\ log \in Logs /\ Plain(bash, "bash") /\ Plain(nextTurn, "custom") /\ Kept
  BY DEF TypeOK, Logs, Structure, Roled
<1>1. \A c \in Callers : caller'[c].msg = caller[c].msg /\ caller'[c].extra = caller[c].extra
  BY ApartSame
<1>2. ASSUME PlacesOf(queue', bash', nextTurn', entries', caller, log'.refused, made'), shown' = queue'
      PROVE  Places' /\ Shown'
  BY <1>1, <1>2, MoveCalls DEF Places, Shown
<1>3. CASE Steer
  <2>1. UNCHANGED <<bash, nextTurn, entries, log>> /\ queue' = Append(queue, made + 1) /\ shown' = Append(shown, made + 1) /\ made' = made + 1
    BY <1>3 DEF Steer, transcript
  <2> QED
    BY <1>0, <1>2, <2>1, MoveSteer DEF Places, Shown
<1>4. ASSUME NEW r \in Message, r.role # "compaction", r.n = made + 1, entries' = Append(entries, r),
             log'.refused = log.refused, made' = made + 1, UNCHANGED <<queue, bash, nextTurn, shown>>
      PROVE  Places' /\ Shown'
  <2>1. entries' = entries \o <<r>>
    BY <1>0, <1>4, AppendConcat
  <2>2. PlacesOf(queue, bash, nextTurn, entries \o <<r>>, caller, log.refused, made + 1)
    BY <1>0, <1>4, MoveReply DEF Places
  <2> QED
    BY <1>2, <1>4, <2>1, <2>2 DEF Shown
<1>5. CASE Custom
  <2> DEFINE r == Msg("custom", made + 1)
  <2>1. r \in Message /\ r.role = "custom" /\ r.n = made + 1
    BY <1>0, ResponseTyped DEF Msg, Roles
  <2>2. UNCHANGED <<queue, bash, shown>> /\ made' = made + 1
    BY <1>5 DEF Custom
  <2>3. \/ nextTurn' = Append(nextTurn, r) /\ UNCHANGED <<transcript, log>>
        \/ SayNow(r) /\ UNCHANGED nextTurn
    BY <1>5 DEF Custom
  <2>4. PlacesOf(queue, bash, Append(nextTurn, r), entries, caller, log.refused, made + 1)
    BY <1>0, MoveNext DEF Places
  <2> HIDE DEF r
  <2>5. CASE nextTurn' = Append(nextTurn, r) /\ UNCHANGED <<transcript, log>>
    BY <1>2, <2>2, <2>4, <2>5 DEF transcript, Shown
  <2>6. CASE SayNow(r) /\ UNCHANGED nextTurn
    <3>1. entries' = Append(entries, r) /\ log'.refused = log.refused
      BY <1>0, <2>6 DEF SayNow, Logs
    <3> QED
      BY <1>4, <2>1, <2>2, <2>6, <3>1
  <2> QED
    BY <2>3, <2>5, <2>6
<1>6. CASE Bash
  <2> DEFINE r == Msg("bash", made + 1)
  <2>1. r \in Message /\ r.role = "bash" /\ r.n = made + 1
    BY <1>0, ResponseTyped DEF Msg, Roles
  <2>2. UNCHANGED <<queue, nextTurn, shown>> /\ made' = made + 1
    BY <1>6 DEF Bash
  <2>3. \/ bash' = Append(bash, r) /\ UNCHANGED <<transcript, log>>
        \/ SayNow(r) /\ UNCHANGED bash
    BY <1>6 DEF Bash, Record
  <2>4. PlacesOf(queue, Append(bash, r), nextTurn, entries, caller, log.refused, made + 1)
    BY <1>0, MoveBash DEF Places
  <2> HIDE DEF r
  <2>5. CASE bash' = Append(bash, r) /\ UNCHANGED <<transcript, log>>
    BY <1>2, <2>2, <2>4, <2>5 DEF transcript, Shown
  <2>6. CASE SayNow(r) /\ UNCHANGED bash
    <3>1. entries' = Append(entries, r) /\ log'.refused = log.refused
      BY <1>0, <2>6 DEF SayNow, Logs
    <3> QED
      BY <1>4, <2>1, <2>2, <2>6, <3>1
  <2> QED
    BY <2>3, <2>5, <2>6
<1>7. CASE Abort \/ CompactNow
  <2>1. log'.refused = log.refused
    BY <1>0, <1>7 DEF Abort, CompactNow, Logs
  <2>2. UNCHANGED <<queue, shown, bash, nextTurn, entries, made>>
    BY <1>7 DEF Abort, CompactNow, transcript
  <2> QED
    BY <1>2, <2>1, <2>2 DEF Places, Shown
<1>8. CASE CompactResolved
  BY <1>2, <1>8 DEF CompactResolved, Places, Shown, transcript
<1>9. CASE CompactDone
  <2>1. UNCHANGED <<queue, shown, bash, nextTurn, log, made>>
    BY <1>9 DEF CompactDone
  <2>2. entries' = entries \/ \E r \in Message : r.role = "compaction" /\ entries' = Append(entries, r)
    <3> DEFINE r == Msg("compaction", manual.keep)
    <3>1. manual.keep \in Nat
      BY DEF TypeOK
    <3>2. r \in Message /\ r.role = "compaction"
      BY <3>1, ResponseTyped DEF Msg, Roles
    <3>3. entries' = entries \/ entries' = Append(entries, r)
      BY <1>9 DEF CompactDone, Compaction, Transcript, transcript
    <3> HIDE DEF r
    <3> QED
      BY <3>2, <3>3
  <2>3. PlacesOf(queue, bash, nextTurn, entries', caller, log.refused, made)
    BY <1>0, <2>2, MoveCompaction DEF Places
  <2> QED
    BY <1>2, <2>1, <2>3 DEF Shown
<1> QED
  BY <1>3, <1>5, <1>6, <1>7, <1>8, <1>9 DEF Apart

Placed == log.detached \/ (Places /\ Shown)

LEMMA PlacedInit == ASSUME Init PROVE Placed
<1>1. /\ queue = <<>> /\ shown = <<>> /\ bash = <<>> /\ nextTurn = <<>> /\ entries = <<>> /\ made = 0 /\ log.refused = {}
      /\ \A c \in Callers : caller[c] = NoCall
  BY DEF Init
<1>2. \A c \in Callers : OwnsIn(caller)[c] = {} /\ SoleCall(caller[c])
  BY <1>1, OwnNone, NoCallIs DEF OwnsIn
<1>3. Range(<<>>) = {} /\ Distinct(<<>>) /\ 1 .. 0 = {}
  BY DEF Range, Distinct
<1>4. Parted({}, {}, {}, OwnsIn(caller), {}, {}, 0)
  BY <1>2, <1>3 DEF Parted
<1> QED
  BY <1>1, <1>2, <1>3, <1>4, FiledEmpty DEF Placed, Places, PlacesOf, Shown

\* What is in one place is waiting, or refused, or saved exactly once.
LEMMA PlacedKept == ASSUME TypeOK, Placed PROVE KeptOnce
<1>1. SUFFICES ASSUME ~log.detached, NEW n \in Handed
               PROVE  Saved(n) = IF n \in Waiting \cup log.refused THEN 0 ELSE 1
  BY DEF KeptOnce, Placed, Shown
<1>2. /\ Sole(entries) /\ Parted(Range(queue), Ids(bash), Ids(nextTurn), OwnsIn(caller), Filed(entries), log.refused, made)
  BY <1>1 DEF Placed, Places, PlacesOf
<1>3. n \in 1 .. made /\ \A k \in DOMAIN entries : entries[k].n = n => entries[k].role \notin {"assistant", "toolResult"}
  BY <1>1 DEF Handed, Range
<1> DEFINE S == {k \in DOMAIN entries : entries[k].n = n /\ entries[k].role \in {"user", "custom", "bash"}}
<1>4. n \in Waiting <=> \/ n \in Range(queue) \/ n \in Ids(bash) \/ n \in Ids(nextTurn)
                        \/ \E c \in Callers : n \in OwnsIn(caller)[c]
  BY DEF Waiting, OwnsIn, OwnOf
<1>5. CASE n \in Waiting \cup log.refused
  <2>1. n \notin Filed(entries)
    BY <1>2, <1>4, <1>5 DEF Parted
  <2>2. S = {}
    BY <2>1 DEF Filed
  <2>3. Cardinality(S) = 0
    BY <2>2, FS_EmptySet
  <2> QED
    BY <1>5, <2>3 DEF Saved
<1>6. CASE n \notin Waiting \cup log.refused
  <2>1. n \in Filed(entries)
    BY <1>2, <1>3, <1>4, <1>6 DEF Parted
  <2>2. PICK k \in DOMAIN entries : entries[k].n = n /\ entries[k].role # "compaction"
    BY <2>1 DEF Filed
  <2>3. entries[k].role \in Roles
    <3>1. entries \in Seq(Message)
      BY DEF TypeOK
    <3>2. entries[k] \in Message
      BY <3>1
    <3> QED
      BY <3>2 DEF Message
  <2>4. entries[k].role \in {"user", "custom", "bash"}
    BY <1>3, <2>2, <2>3 DEF Roles
  <2>5. S = {k}
    BY <1>2, <2>2, <2>4 DEF Sole
  <2>6. Cardinality(S) = 1
    BY <2>5, FS_Singleton
  <2> QED
    BY <1>6, <2>6 DEF Saved
<1> QED
  BY <1>5, <1>6

\* Every prompt, steered or custom message and shell output is waiting in exactly one
\* place, saved exactly once, or its prompt() has thrown, and the queue that is shown is
\* the queue the agent has: nothing is lost or said twice by _handlePostAgentRun,
\* _runAutoCompaction, abort() or the finally block of _runAgentPrompt.
THEOREM HandedOverOnce == Spec => []KeptOnce
<1>1. Init => Placed
  BY PlacedInit
<1>2. Held /\ Placed /\ [Next]_vars => Placed'
  <2>1. SUFFICES ASSUME Held, Placed, [Next]_vars, ~log'.detached
                 PROVE  Places' /\ Shown'
    BY DEF Placed
  <2>2. CASE Next
    <3>1. (\E c \in Callers : StepOf(c)) \/ Apart
      BY <2>1, <2>2, Steps DEF Held, Structure
    <3>2. ~log.detached
      BY <2>1, <3>1, LogGrows DEF Held, Step, Structure
    <3>3. Places /\ Shown
      BY <2>1, <3>2 DEF Placed
    <3> QED
      BY <2>1, <3>1, <3>3, PlacesStep, PlacesApart DEF Held
  <2>3. CASE UNCHANGED vars
    <3>1. UNCHANGED <<queue, shown, bash, nextTurn, entries, caller, log, made>>
      BY <2>3 DEF vars, transcript
    <3>2. Places /\ Shown
      BY <2>1, <3>1 DEF Placed
    <3> QED
      BY <3>1, <3>2 DEF Places, Shown
  <2> QED
    BY <2>1, <2>2, <2>3
<1>3. Held /\ Placed => KeptOnce
  BY PlacedKept DEF Held
<1> QED
  BY <1>1, <1>2, <1>3, HeldAlways, PTL DEF Spec
=============================================================================
