------------------------------- MODULE AskMentor -------------------------------
(***************************************************************************)
(* The AI mentor (services/ai_service.go, services/ai_cache.go,            *)
(* handlers/ask.go): per-user dialogs and one answer cache for everybody,  *)
(* both in memory, used by every handler goroutine at once. An Ask copies  *)
(* the user's dialog, works on the copy through a cache look-up and up to  *)
(* RetryMax + 1 calls of the model, and only then touches the shared maps; *)
(* other questions of the same user, a clear of the dialog or a restart of *)
(* the process may come in between.                                        *)
(*                                                                         *)
(* A question is a member of a set, and an answer is known by the question *)
(* it is to and by whether the prompt held an earlier turn. The handlers   *)
(* only ever choose the persona ModeSolve, so the persona is left out of   *)
(* the cache key; whether the question came by /ask or as free text of the *)
(* AI mode makes no difference to Ask.                                     *)
(***************************************************************************)
EXTENDS Naturals, Sequences, FiniteSets

CONSTANTS
  User,         \* students
  Question,     \* distinct questions, trimmed
  Ambiguous,    \* the questions knowledge.Disambiguate asks back about
  Asker,        \* handler goroutines that may be in Ask at once
  None,         \* no user, no question, no cache entry
  HistoryCap,   \* messages kept per dialog
  SendWindow,   \* messages of the dialog sent along with a question
  RetryMax,     \* attempts after the first
  CacheMax,     \* entries at which the cache evicts
  CacheTTL,     \* age at which an entry is no longer served
  MaxClock      \* bound: the last instant of the model

ASSUME NoneIsNothing == None \notin User /\ None \notin Question
ASSUME CacheAssumption == CacheMax \in Nat \ {0} /\ CacheTTL \in Nat /\ IsFiniteSet(Question)
ASSUME DialogAssumption ==
  /\ HistoryCap \in Nat \ {0} /\ HistoryCap % 2 = 0
  /\ SendWindow \in Nat \ {0} /\ SendWindow % 2 = 0
ASSUME AttemptAssumption == RetryMax \in Nat /\ MaxClock \in Nat

VARIABLES
  clock,      \* time, for the age of cache entries
  histories,  \* histories[u]: the dialog of u
  cache,      \* cache[q]: the stored answer to q, or None
  ask,        \* ask[p]: where the Ask of goroutine p is, and what it holds
  stopping    \* the application context is cancelled

vars == <<clock, histories, cache, ask, stopping>>

-----------------------------------------------------------------------------
(* Values *)

Maybe(S) == S \cup {None}

Message == [role : {"user", "assistant"}, of : Question]
Answer == [of : Maybe(Question), fresh : BOOLEAN]
Entry == [of : Question, fresh : BOOLEAN, at : Nat]

Phase == {"idle", "look", "call", "backoff", "store", "append"}
AskState == [pc : Phase, user : Maybe(User), question : Maybe(Question), prior : Seq(Message),
             attempt : 0 .. RetryMax, late : BOOLEAN, reply : Answer]
NoAsk == [pc |-> "idle", user |-> None, question |-> None, prior |-> <<>>,
          attempt |-> 0, late |-> FALSE, reply |-> [of |-> None, fresh |-> TRUE]]

\* Mutant of Newest: one message too few.
OffByOne(h, n) == IF Len(h) > n THEN SubSeq(h, Len(h) - n + 2, Len(h)) ELSE h

\* The last n messages of a dialog.
Newest(h, n) == IF Len(h) > n THEN SubSeq(h, Len(h) - n + 1, Len(h)) ELSE h

Said(role, q) == [role |-> role, of |-> q]

\* buildMessages, after the system prompt: the window of the snapshot, then the
\* question. Nothing else of the snapshot is ever used, so prior holds only that.
Prompt(p) == ask[p].prior \o <<Said("user", ask[p].question)>>

-----------------------------------------------------------------------------
(* The answer cache *)

Stored == {q \in Question : cache[q] # None}
Expired(q) == clock - cache[q].at > CacheTTL

\* Get: an expired entry is not served, and not removed either.
Served(q) == q \in Stored /\ ~ Expired(q)

\* A quarter of n, and at least one.
Quarter(n) == IF n \div 4 = 0 THEN 1 ELSE n \div 4

\* evictOldestLocked: what may be left. Entries of one age go in any order.
Survivors ==
  LET young == {q \in Stored : ~ Expired(q)}
      oldest == {o \in SUBSET young :
                   /\ Cardinality(o) = Quarter(Cardinality(young))
                   /\ \A x \in o, y \in young \ o : cache[x].at <= cache[y].at}
  IN IF Cardinality(young) < CacheMax THEN {young} ELSE {young \ o : o \in oldest}

\* Mutant of Kept: only expired entries are ever evicted.
ExpiredOnly ==
  IF Cardinality(Stored) >= CacheMax THEN {{q \in Stored : ~ Expired(q)}} ELSE {Stored}

\* What Set may keep of the entries before it adds its own.
Kept == IF Cardinality(Stored) >= CacheMax THEN Survivors ELSE {Stored}

-----------------------------------------------------------------------------

Init ==
  /\ clock = 0
  /\ histories = [u \in User |-> <<>>]
  /\ cache = [q \in Question |-> None]
  /\ ask = [p \in Asker |-> NoAsk]
  /\ stopping = FALSE

Tick ==
  /\ clock < MaxClock
  /\ clock' = clock + 1
  /\ UNCHANGED <<histories, cache, ask, stopping>>

\* Ask copies the dialog of u (snapshotHistory). An ambiguous first question is answered with a
\* question and leaves no trace.
Begin(p, u, q) ==
  /\ ask[p].pc = "idle"
  /\ histories[u] = <<>> => q \notin Ambiguous
  /\ ask' = [ask EXCEPT ![p] = [NoAsk EXCEPT !.pc = "look", !.user = u, !.question = q,
                                             !.prior = Newest(histories[u], SendWindow)]]
  /\ UNCHANGED <<clock, histories, cache, stopping>>

\* Mutant of CacheHit: follow-up questions are answered from the cache too.
AnyHit(p) ==
  LET q == ask[p].question IN
  /\ ask[p].pc = "look"
  /\ Served(q)
  /\ ask' = [ask EXCEPT ![p].pc = "append", ![p].reply = [of |-> cache[q].of, fresh |-> cache[q].fresh]]
  /\ UNCHANGED <<clock, histories, cache, stopping>>

\* The first question of a dialog is answered from the cache.
CacheHit(p) ==
  LET q == ask[p].question IN
  /\ ask[p].pc = "look"
  /\ ask[p].prior = <<>>
  /\ Served(q)
  /\ ask' = [ask EXCEPT ![p].pc = "append", ![p].reply = [of |-> cache[q].of, fresh |-> cache[q].fresh]]
  /\ UNCHANGED <<clock, histories, cache, stopping>>

\* A follow-up, or a question nobody has asked lately, goes to the model.
CacheMiss(p) ==
  /\ ask[p].pc = "look"
  /\ ask[p].prior # <<>> \/ ~ Served(ask[p].question)
  /\ ask' = [ask EXCEPT ![p].pc = "call", ![p].late = stopping]
  /\ UNCHANGED <<clock, histories, cache, stopping>>

\* Mutant of Answered: the prompt is built from the dialog as it is by now.
UnsnappedPrompt(p) ==
  /\ ask[p].pc = "call"
  /\ ~ ask[p].late
  /\ ask' = [ask EXCEPT ![p].pc = IF ask[p].prior = <<>> THEN "store" ELSE "append",
                        ![p].attempt = 0,
                        ![p].reply = [of |-> ask[p].question, fresh |-> histories[ask[p].user] = <<>>]]
  /\ UNCHANGED <<clock, histories, cache, stopping>>

\* The model answers the prompt. Only an answer to a first question is cached.
\* A call begun after the cancellation fails. The loop's counter is gone with it.
Answered(p) ==
  /\ ask[p].pc = "call"
  /\ ~ ask[p].late
  /\ ask' = [ask EXCEPT ![p].pc = IF ask[p].prior = <<>> THEN "store" ELSE "append",
                        ![p].attempt = 0,
                        ![p].reply = [of |-> ask[p].question, fresh |-> Len(Prompt(p)) = 1]]
  /\ UNCHANGED <<clock, histories, cache, stopping>>

\* Mutant of CallFails: one attempt more than there are.
OneTooMany(p, retriable) ==
  /\ ask[p].pc = "call"
  /\ retriable => ~ ask[p].late
  /\ ask' = [ask EXCEPT ![p] = IF retriable /\ ask[p].attempt <= RetryMax
                                 THEN [ask[p] EXCEPT !.pc = "backoff", !.late = FALSE] ELSE NoAsk]
  /\ UNCHANGED <<clock, histories, cache, stopping>>

\* A call fails. A network error while the context is live, 408, 429 and 5xx
\* are worth a retry, as long as there is one left; any other error, and the
\* last one, ends the Ask and leaves dialog and cache alone.
CallFails(p, retriable) ==
  /\ ask[p].pc = "call"
  /\ retriable => ~ ask[p].late
  /\ ask' = [ask EXCEPT ![p] = IF retriable /\ ask[p].attempt < RetryMax
                                 THEN [ask[p] EXCEPT !.pc = "backoff", !.late = FALSE] ELSE NoAsk]
  /\ UNCHANGED <<clock, histories, cache, stopping>>

\* The backoff is over. With the context cancelled meanwhile, select may still
\* choose the timer.
Retry(p) ==
  /\ ask[p].pc = "backoff"
  /\ ask' = [ask EXCEPT ![p].pc = "call", ![p].late = stopping, ![p].attempt = @ + 1]
  /\ UNCHANGED <<clock, histories, cache, stopping>>

\* The context is cancelled during the backoff.
GiveUp(p) ==
  /\ ask[p].pc = "backoff"
  /\ stopping
  /\ ask' = [ask EXCEPT ![p] = NoAsk]
  /\ UNCHANGED <<clock, histories, cache, stopping>>

\* Set: make room if the cache is full, then store the answer.
StoreAnswer(p) ==
  LET r == ask[p].reply IN
  /\ ask[p].pc = "store"
  /\ \E kept \in Kept :
       cache' = [q \in Question |->
                   IF q = ask[p].question THEN [of |-> r.of, fresh |-> r.fresh, at |-> clock]
                   ELSE IF q \in kept THEN cache[q] ELSE None]
  /\ ask' = [ask EXCEPT ![p].pc = "append"]
  /\ UNCHANGED <<clock, histories, stopping>>

\* Mutant of AppendTurn: a dialog that is already full is trimmed first.
TrimFirst(p) ==
  LET u == ask[p].user IN
  /\ ask[p].pc = "append"
  /\ histories' = [histories EXCEPT
       ![u] = Newest(@, HistoryCap) \o <<Said("user", ask[p].question), Said("assistant", ask[p].reply.of)>>]
  /\ ask' = [ask EXCEPT ![p] = NoAsk]
  /\ UNCHANGED <<clock, cache, stopping>>

\* appendTurn: both sides of the exchange join the dialog as it is by now.
AppendTurn(p) ==
  LET u == ask[p].user IN
  /\ ask[p].pc = "append"
  /\ histories' = [histories EXCEPT
       ![u] = Newest(@ \o <<Said("user", ask[p].question), Said("assistant", ask[p].reply.of)>>, HistoryCap)]
  /\ ask' = [ask EXCEPT ![p] = NoAsk]
  /\ UNCHANGED <<clock, cache, stopping>>

\* /clear, or the button of the AI mode.
Clear(u) ==
  /\ histories[u] # <<>>
  /\ histories' = [histories EXCEPT ![u] = <<>>]
  /\ UNCHANGED <<clock, cache, ask, stopping>>

\* SIGTERM cancels the context the handlers run under.
Stop ==
  /\ ~ stopping
  /\ stopping' = TRUE
  /\ UNCHANGED <<clock, histories, cache, ask>>

\* The process ends, by itself or not, and its successor starts from nothing.
Restart ==
  /\ histories' = [u \in User |-> <<>>]
  /\ cache' = [q \in Question |-> None]
  /\ ask' = [p \in Asker |-> NoAsk]
  /\ stopping' = FALSE
  /\ UNCHANGED clock

-----------------------------------------------------------------------------

AskStep(p) ==
  \/ CacheHit(p) \/ CacheMiss(p)
  \/ Answered(p) \/ CallFails(p, TRUE) \/ CallFails(p, FALSE) \/ Retry(p) \/ GiveUp(p)
  \/ StoreAnswer(p) \/ AppendTurn(p)

Next ==
  \/ Tick \/ Stop \/ Restart
  \/ \E p \in Asker, u \in User, q \in Question : Begin(p, u, q)
  \/ \E p \in Asker : AskStep(p)
  \/ \E u \in User : Clear(u)

Spec == Init /\ [][Next]_vars

-----------------------------------------------------------------------------
(* Properties *)

TypeOK ==
  /\ clock \in Nat
  /\ histories \in [User -> Seq(Message)]
  /\ cache \in [Question -> Maybe(Entry)]
  /\ ask \in [Asker -> AskState]
  /\ stopping \in BOOLEAN

\* Whole exchanges: a question, its answer, a question, its answer, ...
Paired(h) ==
  /\ Len(h) % 2 = 0
  /\ \A i \in DOMAIN h : /\ h[i].role = IF i % 2 = 1 THEN "user" ELSE "assistant"
                         /\ i % 2 = 0 => h[i].of = h[i - 1].of

\* However the questions of a user overlap, and whatever is cleared or trimmed
\* in between, a dialog consists of whole exchanges, each answer right after its
\* question, and stays within its cap (ai_service.go:715-727).
DialogPaired == \A u \in User : Len(histories[u]) <= HistoryCap /\ Paired(histories[u])

\* What is sent to the model, through all its retries: whole exchanges, and then
\* the question, no more than the window allows. Roles alternate, as the
\* OpenAI-compatible API expects (ai_service.go:729-741).
PromptAlternates ==
  \A p \in Asker : ask[p].pc \in {"call", "backoff"} =>
    LET prompt == Prompt(p)
        earlier == SubSeq(prompt, 1, Len(prompt) - 1)
    IN /\ Paired(earlier) /\ Len(earlier) <= SendWindow
       /\ prompt[Len(prompt)] = Said("user", ask[p].question)

\* The answer to a follow-up was given in view of the dialog, never by the cache;
\* the answer to a first question was given, by the model now or earlier to
\* anybody, in view of nothing else (ai_service.go:494-509, 531-533).
AnswerFits ==
  \A p \in Asker : ask[p].pc \in {"store", "append"} =>
    ask[p].reply = [of |-> ask[p].question, fresh |-> ask[p].prior = <<>>]

\* What the cache holds is the answer to its question and to nothing else, also
\* when the dialog of the one who asked has grown since (ai_cache.go:64-66).
CacheContextFree ==
  \A q \in Stored : cache[q].of = q /\ cache[q].fresh

\* The cache never outgrows its limit, concurrent stores included.
CacheBounded == Cardinality(Stored) <= CacheMax
=============================================================================
