---------------------------- MODULE AskMentorProofs ----------------------------
(***************************************************************************)
(* Theorems about AskMentor for any users, questions, goroutines, caps and *)
(* retries. Coherent is inductive: types, whole exchanges in every dialog  *)
(* and every snapshot, and answers that fit where they stand. That the     *)
(* cache is bounded is inductive by itself.                                *)
(***************************************************************************)
EXTENDS AskMentor, FiniteSetTheorems, TLAPS

\* What an Ask holds: whole exchanges in its snapshot, as many as are sent at
\* most, somebody's question, and an attempt left when it is about to try again.
Snapshot(a) ==
  /\ a \in AskState
  /\ Len(a.prior) <= SendWindow /\ Paired(a.prior)
  /\ a.pc # "idle" => a.user \in User /\ a.question \in Question
  /\ a.pc = "backoff" => a.attempt < RetryMax
  /\ a.pc = "store" => a.prior = <<>>

\* Its reply, once it has one, is to its question and its snapshot.
Fitting(a) ==
  a.pc \in {"store", "append"} => a.reply = [of |-> a.question, fresh |-> a.prior = <<>>]

Snapshots == \A p \in Asker : Snapshot(ask[p])

Coherent == TypeOK /\ DialogPaired /\ Snapshots /\ AnswerFits /\ CacheContextFree

-----------------------------------------------------------------------------
(* Dialogs *)

LEMMA EvenLess ==
  ASSUME NEW a \in Nat, NEW b \in Nat, a % 2 = 0, b % 2 = 0, a - b \in Nat
  PROVE  (a - b) % 2 = 0
OBVIOUS

\* The newest messages of a dialog, an even number of them, are whole exchanges.
LEMMA NewestPaired ==
  ASSUME NEW h \in Seq(Message), NEW n \in Nat \ {0}, n % 2 = 0, Paired(h)
  PROVE  Newest(h, n) \in Seq(Message) /\ Len(Newest(h, n)) <= n /\ Paired(Newest(h, n))
<1>1. CASE Len(h) <= n
  BY <1>1 DEF Newest
<1>2. CASE Len(h) > n
  <2> DEFINE w == SubSeq(h, Len(h) - n + 1, Len(h))
             d == Len(h) - n
  <2>1. Newest(h, n) = w
    BY <1>2 DEF Newest
  <2>2. Len(h) \in Nat /\ d \in Nat /\ d % 2 = 0
    <3>1. Len(h) \in Nat /\ Len(h) % 2 = 0
      BY DEF Paired
    <3>2. d \in Nat
      BY <3>1, <1>2
    <3> QED BY <3>1, <3>2, EvenLess
  <2>3. w \in Seq(Message) /\ Len(w) = n /\ \A i \in 1 .. n : w[i] = h[i + d] /\ i + d \in 1 .. Len(h)
    BY <1>2, <2>2
  <2>4. ASSUME NEW i \in 1 .. n
        PROVE  /\ w[i].role = IF i % 2 = 1 THEN "user" ELSE "assistant"
               /\ i % 2 = 0 => w[i].of = w[i - 1].of
    <3>1. (i + d) % 2 = i % 2
      BY <2>2
    <3>2. i + d \in DOMAIN h /\ w[i] = h[i + d]
      BY <2>3
    <3>3. w[i].role = IF i % 2 = 1 THEN "user" ELSE "assistant"
      BY <3>1, <3>2 DEF Paired
    <3>4. ASSUME i % 2 = 0 PROVE w[i].of = w[i - 1].of
      <4>1. i - 1 \in 1 .. n
        BY <3>4
      <4>2. w[i - 1] = h[(i - 1) + d] /\ (i - 1) + d = (i + d) - 1
        BY <4>1, <2>2, <2>3
      <4>3. h[i + d].of = h[(i + d) - 1].of
        BY <3>1, <3>2, <3>4 DEF Paired
      <4> QED BY <4>2, <4>3, <3>2
    <3> QED BY <3>3, <3>4
  <2>5. DOMAIN w = 1 .. n
    BY <2>3
  <2> HIDE DEF w
  <2>6. Paired(w)
    BY <2>3, <2>4, <2>5 DEF Paired
  <2> QED BY <2>1, <2>3, <2>6
<1> QED BY <1>1, <1>2

\* A dialog of whole exchanges stays one when a question and its answer join it.
LEMMA ExchangePaired ==
  ASSUME NEW h \in Seq(Message), NEW q \in Question, Paired(h)
  PROVE  LET g == h \o <<Said("user", q), Said("assistant", q)>>
         IN g \in Seq(Message) /\ Paired(g)
<1> DEFINE g == h \o <<Said("user", q), Said("assistant", q)>>
           n == Len(h)
<1>1. Said("user", q) \in Message /\ Said("assistant", q) \in Message
  BY DEF Said, Message
<1>2. n \in Nat /\ n % 2 = 0
  BY DEF Paired
<1>3. g \in Seq(Message) /\ Len(g) = n + 2 /\ DOMAIN g = 1 .. n + 2
  BY <1>1, <1>2
<1>4. (\A i \in 1 .. n : g[i] = h[i]) /\ g[n + 1] = Said("user", q) /\ g[n + 2] = Said("assistant", q)
  BY <1>1, <1>2
<1> HIDE DEF g
<1>5. ASSUME NEW i \in 1 .. n + 2
      PROVE  /\ g[i].role = IF i % 2 = 1 THEN "user" ELSE "assistant"
             /\ i % 2 = 0 => g[i].of = g[i - 1].of
  <2>1. CASE i \in 1 .. n
    <3>1. i \in DOMAIN h /\ g[i] = h[i]
      BY <1>4, <2>1
    <3>2. i % 2 = 0 => i - 1 \in 1 .. n
      BY <2>1, <1>2
    <3> QED BY <1>4, <3>1, <3>2 DEF Paired
  <2>2. CASE i = n + 1
    BY <1>2, <1>4, <2>2 DEF Said
  <2>3. CASE i = n + 2
    <3>1. i % 2 = 0 /\ i - 1 = n + 1
      BY <1>2, <2>3
    <3> QED BY <1>4, <2>3, <3>1 DEF Said
  <2> QED BY <1>2, <2>1, <2>2, <2>3
<1>6. (n + 2) % 2 = 0
  BY <1>2
<1> QED BY <1>3, <1>5, <1>6 DEF Paired, g
-----------------------------------------------------------------------------
(* Coherence *)

\* A step of one Ask is coherent when what it makes of the dialogs, of the cache
\* and of that Ask is.
LEMMA Rests ==
  ASSUME Coherent, NEW p \in Asker, NEW a, Snapshot(a), Fitting(a),
         ask' = [ask EXCEPT ![p] = a], UNCHANGED <<clock, stopping>>,
         histories' \in [User -> Seq(Message)], DialogPaired',
         cache' \in [Question -> Maybe(Entry)], CacheContextFree'
  PROVE  Coherent'
<1>1. TypeOK'
  BY DEF Coherent, TypeOK, Snapshot
<1>2. \A r \in Asker : ask'[r] = IF r = p THEN a ELSE ask[r]
  BY DEF Coherent, TypeOK
<1>3. Snapshots'
  <2>1. \A r \in Asker : Snapshot(ask'[r])
    BY <1>2 DEF Coherent, Snapshots
  <2> QED BY <2>1 DEF Snapshots
<1>4. AnswerFits'
  BY <1>2 DEF Coherent, AnswerFits, Fitting
<1> QED BY <1>1, <1>3, <1>4 DEF Coherent

\* In particular when it leaves dialogs and cache alone.
LEMMA AskMoves ==
  ASSUME Coherent, NEW p \in Asker, NEW a, Snapshot(a), Fitting(a),
         ask' = [ask EXCEPT ![p] = a], UNCHANGED <<clock, histories, cache, stopping>>
  PROVE  Coherent'
<1>1. DialogPaired' /\ CacheContextFree'
  BY DEF Coherent, DialogPaired, Paired, CacheContextFree, Stored
<1> QED BY <1>1, Rests DEF Coherent, TypeOK

\* Not being in Ask at all is such a state.
LEMMA NoAskFits == NoAsk \in AskState /\ Snapshot(NoAsk) /\ Fitting(NoAsk)
<1>1. NoAsk \in AskState
  BY AttemptAssumption DEF NoAsk, AskState, Phase, Maybe, Answer
<1>2. NoAsk.pc = "idle" /\ NoAsk.prior = <<>> /\ Len(<<>>) = 0 /\ Paired(<<>>)
  BY DEF NoAsk, Paired
<1> QED BY <1>1, <1>2, DialogAssumption DEF Snapshot, Fitting

LEMMA CoherentInit == Init => Coherent
<1> SUFFICES ASSUME Init PROVE Coherent
  OBVIOUS
<1>1. \A u \in User : histories[u] = <<>> /\ <<>> \in Seq(Message) /\ Paired(<<>>)
  BY DEF Init, Paired
<1>2. TypeOK
  BY <1>1, NoAskFits DEF Init, TypeOK, Maybe
<1>3. DialogPaired
  BY <1>1, DialogAssumption DEF DialogPaired
<1>4. Snapshots /\ AnswerFits
  BY NoAskFits DEF Init, Snapshots, AnswerFits, Fitting
<1>5. CacheContextFree
  BY DEF Init, CacheContextFree, Stored
<1> QED BY <1>2, <1>3, <1>4, <1>5 DEF Coherent

LEMMA CoherentNext == Coherent /\ [Next]_vars => Coherent'
<1> SUFFICES ASSUME Coherent, [Next]_vars PROVE Coherent'
  OBVIOUS
<1>0. /\ TypeOK /\ DialogPaired /\ Snapshots /\ AnswerFits /\ CacheContextFree
      /\ \A r \in Asker : ask[r] \in AskState
  BY DEF Coherent, TypeOK
<1>1. ASSUME UNCHANGED <<histories, cache, ask>>, clock' \in Nat, stopping' \in BOOLEAN
      PROVE  Coherent'
  <2>1. \A r \in Asker : Snapshot(ask'[r])
    BY <1>0, <1>1 DEF Snapshots
  <2>2. \A v \in User : Len(histories'[v]) <= HistoryCap /\ Paired(histories'[v])
    BY <1>0, <1>1 DEF DialogPaired
  <2>3. TypeOK' /\ AnswerFits' /\ CacheContextFree'
    BY <1>0, <1>1 DEF TypeOK, AnswerFits, CacheContextFree, Stored
  <2>4. Snapshots'
    BY <2>1 DEF Snapshots
  <2>5. DialogPaired'
    BY <2>2 DEF DialogPaired
  <2> QED BY <2>3, <2>4, <2>5 DEF Coherent
<1>2. CASE UNCHANGED vars
  BY <1>0, <1>1, <1>2 DEF vars, TypeOK
<1>3. CASE Tick \/ Stop
  <2>1. UNCHANGED <<histories, cache, ask>>
    BY <1>3 DEF Tick, Stop
  <2>2. clock' \in Nat
    BY <1>0, <1>3 DEF Tick, Stop, TypeOK
  <2>3. stopping' \in BOOLEAN
    BY <1>0, <1>3 DEF Tick, Stop, TypeOK
  <2> QED BY <1>1, <2>1, <2>2, <2>3
<1>4. CASE Restart
  <2>1. \A u \in User : histories'[u] = <<>> /\ <<>> \in Seq(Message) /\ Paired(<<>>)
    BY <1>4 DEF Restart, Paired
  <2>2. TypeOK'
    BY <1>0, <1>4, <2>1, NoAskFits DEF Restart, TypeOK, Maybe
  <2>3. DialogPaired'
    <3>1. \A u \in User : Len(histories'[u]) <= HistoryCap /\ Paired(histories'[u])
      BY <2>1, DialogAssumption
    <3> QED BY <3>1 DEF DialogPaired
  <2>4. Snapshots' /\ AnswerFits'
    <3>1. \A r \in Asker : ask'[r] = NoAsk
      BY <1>4 DEF Restart
    <3>2. \A r \in Asker : Snapshot(ask'[r])
      BY <3>1, NoAskFits
    <3> QED BY <3>1, <3>2, NoAskFits DEF Snapshots, AnswerFits, Fitting
  <2>5. CacheContextFree'
    BY <1>4 DEF Restart, CacheContextFree, Stored
  <2> QED BY <2>2, <2>3, <2>4, <2>5 DEF Coherent
<1>5. ASSUME NEW u \in User, Clear(u)
      PROVE  Coherent'
  <2>1. histories' \in [User -> Seq(Message)] /\ \A v \in User : histories'[v] = IF v = u THEN <<>> ELSE histories[v]
    BY <1>0, <1>5 DEF Clear, TypeOK
  <2>2. Len(<<>>) = 0 /\ Paired(<<>>)
    BY DEF Paired
  <2>3. \A v \in User : Len(histories'[v]) <= HistoryCap /\ Paired(histories'[v])
    BY <1>0, <2>1, <2>2, DialogAssumption DEF DialogPaired
  <2>4. DialogPaired'
    BY <2>3 DEF DialogPaired
  <2>5. Snapshots' /\ AnswerFits' /\ CacheContextFree'
    <3>1. UNCHANGED <<ask, cache, clock, stopping>>
      BY <1>5 DEF Clear
    <3>2. \A r \in Asker : Snapshot(ask'[r])
      BY <1>0, <3>1 DEF Snapshots
    <3> QED BY <1>0, <3>1, <3>2 DEF Snapshots, AnswerFits, CacheContextFree, Stored
  <2> QED BY <1>0, <1>5, <2>1, <2>4, <2>5 DEF Clear, Coherent, TypeOK
<1>6. ASSUME NEW p \in Asker, NEW u \in User, NEW q \in Question, Begin(p, u, q)
      PROVE  Coherent'
  <2> DEFINE w == Newest(histories[u], SendWindow)
             a == [NoAsk EXCEPT !.pc = "look", !.user = u, !.question = q, !.prior = w]
  <2>1. w \in Seq(Message) /\ Len(w) <= SendWindow /\ Paired(w)
    BY <1>0, NewestPaired, DialogAssumption DEF TypeOK, DialogPaired
  <2> HIDE DEF w
  <2>2. NoAsk \in AskState
    BY NoAskFits
  <2>3. /\ a \in AskState
        /\ a.pc = "look" /\ a.user = u /\ a.question = q /\ a.prior = w
    BY <2>1, <2>2 DEF AskState, Phase, Maybe
  <2>4. ask' = [ask EXCEPT ![p] = a] /\ UNCHANGED <<clock, histories, cache, stopping>>
    BY <1>6 DEF Begin, w
  <2>5. Snapshot(a) /\ Fitting(a)
    BY <2>1, <2>3 DEF Snapshot, Fitting
  <2> HIDE DEF a
  <2> QED BY <2>4, <2>5, AskMoves
<1>7. ASSUME NEW p \in Asker, AskStep(p)
      PROVE  Coherent'
  <2>0. ask[p] \in AskState /\ Snapshot(ask[p]) /\ Fitting(ask[p])
    BY <1>0 DEF Snapshots, AnswerFits, Fitting
  <2>1. CASE CacheHit(p)
    <3> DEFINE q == ask[p].question
               a == [ask[p] EXCEPT !.pc = "append", !.reply = [of |-> cache[q].of, fresh |-> cache[q].fresh]]
    <3>1. q \in Question /\ ask[p].prior = <<>> /\ cache[q].of = q /\ cache[q].fresh = TRUE
      <4>1. q \in Stored
        BY <2>1 DEF CacheHit, Served
      <4>2. cache[q] \in Entry
        BY <1>0, <4>1 DEF TypeOK, Maybe, Stored
      <4> QED BY <1>0, <2>1, <4>1, <4>2 DEF CacheHit, CacheContextFree, Entry, Stored
    <3>2. a \in AskState
      BY <2>0, <3>1 DEF AskState, Phase, Answer, Maybe
    <3>3. ask' = [ask EXCEPT ![p] = a] /\ UNCHANGED <<clock, histories, cache, stopping>>
      BY <1>0, <2>1 DEF CacheHit, TypeOK, AskState
    <3>4. Snapshot(a) /\ Fitting(a)
      BY <2>0, <2>1, <3>1, <3>2 DEF Snapshot, Fitting, CacheHit, AskState
    <3> HIDE DEF a
    <3> QED BY <3>3, <3>4, AskMoves
  <2>2. CASE CacheMiss(p) \/ Retry(p)
    <3> DEFINE called(k) == [ask[p] EXCEPT !.pc = "call", !.late = stopping, !.attempt = k]
    <3>1. \E k \in 0 .. RetryMax : ask' = [ask EXCEPT ![p] = called(k)]
      <4>1. CASE CacheMiss(p)
        <5>1. called(ask[p].attempt) = [ask[p] EXCEPT !.pc = "call", !.late = stopping]
          BY <2>0 DEF AskState
        <5>2. ask' = [ask EXCEPT ![p] = called(ask[p].attempt)]
          BY <4>1, <5>1 DEF CacheMiss
        <5>3. ask[p].attempt \in 0 .. RetryMax
          BY <2>0 DEF AskState
        <5> HIDE DEF called
        <5> QED BY <5>2, <5>3
      <4>2. CASE Retry(p)
        <5>1. ask[p].attempt + 1 \in 0 .. RetryMax
          BY <2>0, <4>2, AttemptAssumption DEF Retry, Snapshot, AskState
        <5> QED BY <4>2, <5>1 DEF Retry
      <4> QED BY <2>2, <4>1, <4>2
    <3>2. PICK k \in 0 .. RetryMax : ask' = [ask EXCEPT ![p] = called(k)]
      BY <3>1
    <3>3. ask[p].pc # "idle" /\ UNCHANGED <<clock, histories, cache, stopping>>
      BY <2>2 DEF CacheMiss, Retry
    <3>4. called(k) \in AskState
      BY <1>0, <2>0 DEF AskState, Phase, TypeOK
    <3>5. Snapshot(called(k)) /\ Fitting(called(k))
      BY <2>0, <3>3, <3>4 DEF Snapshot, Fitting, AskState
    <3> HIDE DEF called
    <3> QED BY <3>2, <3>3, <3>5, AskMoves
  <2>3. CASE Answered(p)
    <3> DEFINE a == [ask[p] EXCEPT !.pc = IF ask[p].prior = <<>> THEN "store" ELSE "append", !.attempt = 0,
                                   !.reply = [of |-> ask[p].question, fresh |-> Len(Prompt(p)) = 1]]
    <3>1. ask[p].question \in Question /\ (Len(Prompt(p)) = 1 <=> ask[p].prior = <<>>)
      BY <2>0, <2>3 DEF Snapshot, Answered, Prompt, AskState
    <3>2. a \in AskState
      <4>1. 0 \in 0 .. RetryMax /\ (Len(Prompt(p)) = 1) \in BOOLEAN
        BY AttemptAssumption
      <4> HIDE DEF Prompt
      <4> QED BY <2>0, <3>1, <4>1 DEF AskState, Phase, Answer, Maybe
    <3>3. ask' = [ask EXCEPT ![p] = a] /\ UNCHANGED <<clock, histories, cache, stopping>>
      BY <2>3 DEF Answered
    <3>4. Snapshot(a) /\ Fitting(a)
      <4> HIDE DEF Prompt
      <4> QED BY <2>0, <2>3, <3>1, <3>2 DEF Snapshot, Fitting, Answered, AskState
    <3> HIDE DEF a
    <3> QED BY <3>3, <3>4, AskMoves
  <2>4. CASE (\E retriable \in BOOLEAN : CallFails(p, retriable)) \/ GiveUp(p)
    <3> DEFINE a == [ask[p] EXCEPT !.pc = "backoff", !.late = FALSE]
    <3>1. UNCHANGED <<clock, histories, cache, stopping>>
      BY <2>4 DEF CallFails, GiveUp
    <3>2. CASE ask' = [ask EXCEPT ![p] = NoAsk]
      BY <3>1, <3>2, NoAskFits, AskMoves
    <3>3. CASE ask[p].attempt < RetryMax /\ ask[p].pc = "call" /\ ask' = [ask EXCEPT ![p] = a]
      <4>1. a \in AskState
        BY <2>0 DEF AskState, Phase
      <4>2. Snapshot(a) /\ Fitting(a)
        BY <2>0, <3>3, <4>1 DEF Snapshot, Fitting, AskState
      <4> HIDE DEF a
      <4> QED BY <3>1, <3>3, <4>2, AskMoves
    <3> QED BY <2>4, <3>2, <3>3 DEF CallFails, GiveUp
  <2>5. CASE StoreAnswer(p)
    <3> DEFINE q == ask[p].question
               a == [ask[p] EXCEPT !.pc = "append"]
    <3>1. ask[p].prior = <<>> /\ ask[p].reply = [of |-> q, fresh |-> TRUE] /\ q \in Question
      BY <2>0, <2>5 DEF StoreAnswer, Snapshot, Fitting
    <3>2. PICK kept \in Kept :
            cache' = [x \in Question |-> IF x = q THEN [of |-> q, fresh |-> TRUE, at |-> clock]
                                         ELSE IF x \in kept THEN cache[x] ELSE None]
      BY <2>5, <3>1 DEF StoreAnswer
    <3>3. cache' \in [Question -> Maybe(Entry)] /\ CacheContextFree'
      BY <1>0, <3>1, <3>2 DEF TypeOK, Maybe, Entry, CacheContextFree, Stored
    <3>4. a \in AskState /\ Snapshot(a) /\ Fitting(a)
      <4>1. a \in AskState
        BY <2>0 DEF AskState, Phase
      <4> QED BY <2>0, <2>5, <3>1, <4>1 DEF StoreAnswer, Snapshot, Fitting, AskState
    <3>5. ask' = [ask EXCEPT ![p] = a] /\ UNCHANGED <<clock, histories, stopping>>
      BY <2>5 DEF StoreAnswer
    <3>6. histories' \in [User -> Seq(Message)] /\ DialogPaired'
      <4>1. \A v \in User : Len(histories'[v]) <= HistoryCap /\ Paired(histories'[v])
        BY <1>0, <3>5 DEF DialogPaired
      <4> QED BY <1>0, <3>5, <4>1 DEF TypeOK, DialogPaired
    <3> HIDE DEF a
    <3> QED BY <3>3, <3>4, <3>5, <3>6, Rests
  <2>6. CASE AppendTurn(p)
    <3> DEFINE u == ask[p].user
               q == ask[p].question
               h == histories[u] \o <<Said("user", q), Said("assistant", q)>>
    <3>1. u \in User /\ q \in Question /\ ask[p].reply.of = q
      BY <2>0, <2>6 DEF AppendTurn, Snapshot, Fitting
    <3>2. h \in Seq(Message) /\ Paired(h)
      BY <1>0, <3>1, ExchangePaired DEF TypeOK, DialogPaired
    <3>3. histories' = [histories EXCEPT ![u] = Newest(h, HistoryCap)]
      BY <2>6, <3>1 DEF AppendTurn
    <3> HIDE DEF h
    <3>4. /\ Newest(h, HistoryCap) \in Seq(Message) /\ Len(Newest(h, HistoryCap)) <= HistoryCap
          /\ Paired(Newest(h, HistoryCap))
      BY <3>2, NewestPaired, DialogAssumption
    <3>5. histories' \in [User -> Seq(Message)] /\ DialogPaired'
      <4>1. \A v \in User : histories'[v] = IF v = u THEN Newest(h, HistoryCap) ELSE histories[v]
        BY <1>0, <3>3 DEF TypeOK
      <4>2. \A v \in User : Len(histories'[v]) <= HistoryCap /\ Paired(histories'[v])
        BY <1>0, <3>4, <4>1 DEF DialogPaired
      <4>3. histories' \in [User -> Seq(Message)]
        BY <1>0, <3>3, <3>4 DEF TypeOK
      <4> QED BY <4>2, <4>3 DEF DialogPaired
    <3>6. ask' = [ask EXCEPT ![p] = NoAsk] /\ UNCHANGED <<clock, cache, stopping>>
      BY <2>6 DEF AppendTurn
    <3>7. cache' \in [Question -> Maybe(Entry)] /\ CacheContextFree'
      BY <1>0, <3>6 DEF TypeOK, CacheContextFree, Stored
    <3> QED BY <3>5, <3>6, <3>7, NoAskFits, Rests
  <2> QED BY <1>7, <2>1, <2>2, <2>3, <2>4, <2>5, <2>6 DEF AskStep
<1> QED BY <1>2, <1>3, <1>4, <1>5, <1>6, <1>7 DEF Next

LEMMA CoherentAlways == Spec => []Coherent
<1>1. Init => Coherent
  BY CoherentInit
<1>2. Coherent /\ [Next]_vars => Coherent'
  BY CoherentNext
<1> QED BY <1>1, <1>2, PTL DEF Spec

\* A dialog is made of whole exchanges within its cap, whoever asks, clears or
\* restarts in between (appendTurn).
THEOREM DialogsArePaired == Spec => []DialogPaired
<1>1. Coherent => DialogPaired
  BY DEF Coherent
<1> QED BY <1>1, CoherentAlways, PTL

\* Every store, dialog and question keeps its type, at every point of Ask and of the
\* commands that run beside it.
THEOREM MentorTypeCorrect == Spec => []TypeOK
<1>1. Coherent => TypeOK
  BY DEF Coherent
<1> QED BY <1>1, CoherentAlways, PTL

\* A follow-up is not answered by the cache, and a first question is answered in view
\* of nothing but itself (Ask, the guard on len(prior) before the look-up).
THEOREM AnswersFit == Spec => []AnswerFits
<1>1. Coherent => AnswerFits
  BY DEF Coherent
<1> QED BY <1>1, CoherentAlways, PTL

\* What the cache holds was given in view of nothing but its question (Ask, the guard
\* on len(prior) before the store).
THEOREM CacheFitsEverybody == Spec => []CacheContextFree
<1>1. Coherent => CacheContextFree
  BY DEF Coherent
<1> QED BY <1>1, CoherentAlways, PTL

\* Every prompt sent, also by a retry, alternates between the roles and ends with
\* the question (buildMessages).
THEOREM PromptsAlternate == Spec => []PromptAlternates
<1>1. Coherent => PromptAlternates
  <2> SUFFICES ASSUME Coherent, NEW p \in Asker, ask[p].pc \in {"call", "backoff"}
               PROVE  LET prompt == Prompt(p)
                          earlier == SubSeq(prompt, 1, Len(prompt) - 1)
                      IN /\ Paired(earlier) /\ Len(earlier) <= SendWindow
                         /\ prompt[Len(prompt)] = Said("user", ask[p].question)
    BY DEF PromptAlternates
  <2> DEFINE h == ask[p].prior
             last == Said("user", ask[p].question)
  <2>1. h \in Seq(Message) /\ Len(h) <= SendWindow /\ Paired(h) /\ last \in Message
    BY DEF Coherent, Snapshots, Snapshot, AskState, Said, Message
  <2>2. Prompt(p) = h \o <<last>>
    BY DEF Prompt
  <2> HIDE DEF h, last
  <2>3. Len(Prompt(p)) = Len(h) + 1 /\ Prompt(p)[Len(h) + 1] = last
    BY <2>1, <2>2
  <2>4. SubSeq(Prompt(p), 1, Len(Prompt(p)) - 1) = h
    BY <2>1, <2>2, <2>3
  <2> QED BY <2>1, <2>3, <2>4 DEF last
<1> QED BY <1>1, CoherentAlways, PTL

-----------------------------------------------------------------------------
(* The size of the cache *)

\* Set keeps fewer entries than the limit before it adds its own.
LEMMA KeptIsSmall ==
  ASSUME CacheBounded, NEW kept \in Kept
  PROVE  IsFiniteSet(kept) /\ Cardinality(kept) < CacheMax
<1> DEFINE young == {q \in Stored : ~ Expired(q)}
<1>1. IsFiniteSet(Stored) /\ Cardinality(Stored) \in Nat /\ Cardinality(Stored) <= CacheMax
  BY CacheAssumption, FS_Subset, FS_CardinalityType DEF Stored, CacheBounded
<1>2. IsFiniteSet(young) /\ Cardinality(young) \in Nat /\ Cardinality(young) <= Cardinality(Stored)
  BY <1>1, FS_Subset, FS_CardinalityType
<1>3. CASE kept = Stored /\ Cardinality(Stored) < CacheMax
  BY <1>1, <1>3
<1>4. CASE kept = young /\ Cardinality(young) < CacheMax
  BY <1>2, <1>4
<1>5. ASSUME NEW o \in SUBSET young, Cardinality(o) = Quarter(Cardinality(young)), kept = young \ o
      PROVE  IsFiniteSet(kept) /\ Cardinality(kept) < CacheMax
  <2> HIDE DEF young
  <2>1. IsFiniteSet(kept) /\ Cardinality(kept) = Cardinality(young) - Cardinality(young \cap o)
    BY <1>2, <1>5, FS_Difference
  <2>2. young \cap o = o
    OBVIOUS
  <2>3. Quarter(Cardinality(young)) >= 1
    <3>1. \A n \in Nat : n \div 4 \in Nat
      OBVIOUS
    <3>2. Cardinality(young) \div 4 \in Nat
      BY <1>2, <3>1
    <3> QED BY <3>2 DEF Quarter
  <2>4. Cardinality(o) \in Nat
    BY <1>2, FS_Subset, FS_CardinalityType
  <2> QED BY <1>1, <1>2, <1>5, <2>1, <2>2, <2>3, <2>4, CacheAssumption
<1>6. Kept = IF Cardinality(Stored) >= CacheMax
               THEN IF Cardinality(young) < CacheMax THEN {young}
                    ELSE {young \ o : o \in {x \in SUBSET young :
                            /\ Cardinality(x) = Quarter(Cardinality(young))
                            /\ \A y \in x, z \in young \ x : cache[y].at <= cache[z].at}}
               ELSE {Stored}
  BY DEF Kept, Survivors
<1>7. CASE Cardinality(Stored) < CacheMax
  <2>1. kept = Stored
    BY <1>1, <1>6, <1>7, CacheAssumption
  <2> QED BY <1>3, <1>7, <2>1
<1>8. CASE Cardinality(Stored) >= CacheMax /\ Cardinality(young) < CacheMax
  <2>1. kept = young
    BY <1>6, <1>8
  <2> QED BY <1>4, <1>8, <2>1
<1>9. CASE Cardinality(Stored) >= CacheMax /\ ~ (Cardinality(young) < CacheMax)
  <2>1. \E o \in SUBSET young : Cardinality(o) = Quarter(Cardinality(young)) /\ kept = young \ o
    BY <1>6, <1>9
  <2> QED BY <1>5, <2>1
<1> QED BY <1>1, <1>7, <1>8, <1>9, CacheAssumption

\* No step makes the cache outgrow its limit; only Set adds to it, one entry.
LEMMA BoundedNext == CacheBounded /\ [Next]_vars => CacheBounded'
<1> SUFFICES ASSUME CacheBounded, [Next]_vars PROVE CacheBounded'
  OBVIOUS
<1>1. CASE UNCHANGED cache
  BY <1>1 DEF CacheBounded, Stored
<1>2. CASE Restart
  <2>1. Stored' = {}
    BY <1>2 DEF Restart, Stored
  <2> QED BY <2>1, FS_EmptySet, CacheAssumption DEF CacheBounded
<1>3. ASSUME NEW p \in Asker, StoreAnswer(p)
      PROVE  CacheBounded'
  <2> DEFINE q == ask[p].question
  <2>1. PICK kept \in Kept : Stored' \subseteq kept \cup {q}
    BY <1>3 DEF StoreAnswer, Stored
  <2>2. IsFiniteSet(kept) /\ Cardinality(kept) \in Nat /\ Cardinality(kept) < CacheMax
    BY KeptIsSmall, FS_CardinalityType
  <2>3. IsFiniteSet(kept \cup {q}) /\ Cardinality(kept \cup {q}) <= Cardinality(kept) + 1
    <3>1. /\ IsFiniteSet(kept \cup {q})
          /\ Cardinality(kept \cup {q}) = IF q \in kept THEN Cardinality(kept) ELSE Cardinality(kept) + 1
      BY <2>2, FS_AddElement
    <3> QED BY <2>2, <3>1
  <2>4. Cardinality(kept \cup {q}) \in Nat /\ Cardinality(Stored') \in Nat
        /\ Cardinality(Stored') <= Cardinality(kept \cup {q})
    BY <2>1, <2>3, FS_Subset, FS_CardinalityType
  <2> QED BY <2>2, <2>3, <2>4, CacheAssumption DEF CacheBounded
<1> QED BY <1>1, <1>2, <1>3
      DEF Next, Tick, Stop, Begin, AskStep, CacheHit, CacheMiss, Answered, CallFails, Retry, GiveUp,
          AppendTurn, Clear, vars

\* The cache never holds more entries than its limit, whatever is stored at once
\* and however old the entries are (Set, evictOldestLocked).
THEOREM CacheIsBounded == Spec => []CacheBounded
<1>1. Init => CacheBounded
  <2> SUFFICES ASSUME Init PROVE CacheBounded
    OBVIOUS
  <2>1. Stored = {}
    BY DEF Init, Stored
  <2> QED BY <2>1, FS_EmptySet, CacheAssumption DEF CacheBounded
<1>2. CacheBounded /\ [Next]_vars => CacheBounded'
  BY BoundedNext
<1> QED BY <1>1, <1>2, PTL DEF Spec
=============================================================================
