# Tomorrow Tracker: specifications and proofs

Tomorrow Tracker is a Telegram bot and Mini App for students who must study a
weekly number of hours: it times study sessions, keeps a daily streak, ranks
students, answers questions with an AI mentor, and lets administrators correct
sessions and send broadcasts. It is one Go process in front of PostgreSQL; every
Telegram update and every HTTP call runs in a goroutine of its own, and nothing
but the database survives a deploy. These modules model what is hard about
that: calls that interleave, transactions that race plain reads and writes, a
process that stops or dies between any two steps, and deliveries that repeat.

Paths below are relative to `src/`. Line references are to the commit that is
checked in beside this directory.

## 1. The system

### Components, their state and their operations

| component | source | state | operations | where it is hard |
|---|---|---|---|---|
| Study sessions and streak | `services/session_service.go`, `streak_service.go`, `user_api_service.go`, `repositories/session_repository.go`, `user_repository.go`, `utils/streak.go` | tables `sessions` and `users` (streak columns) | Start, Finish (bot), FinishSession (Mini App), RecordCompletedSession | every call is a statement of its own; check-then-act against a unique index; the streak is read, computed in Go and written back unconditionally |
| Administrator's corrections | `repositories/admin_repository.go` | `sessions`, `users`, `admin_audit_logs` | CorrectSessionWithAudit with recomputeStreakTx | row locks in a transaction against the unlocked paths above; a deadlock two corrections can run into; rollback |
| Broadcasts | `services/broadcast_service.go`, `repositories/broadcast_repository.go`, `bot/sender.go` | table `broadcasts`; in memory the running flag, cursor and counters | Start, Resume, run, SendMessage | cursor persisted once per page; death, shutdown and restart; two processes during a deploy; lost answers |
| AI mentor | `services/ai_service.go`, `services/ai_cache.go`, `handlers/ask.go` | in memory: dialogs, answer cache | Ask, Clear, AI mode on/off | a dialog copied before a call of seconds; one cache for everybody; retries; eviction under concurrency |
| Bot update delivery | `bot/bot.go`, `bot/webhook.go`, `cmd/app/main.go` | slots and wait group; Telegram's queue and webhook setting | Run, RunWebhook, WebhookHandler, dispatch, shutdown | acknowledgement before processing; drain, wait and exit; a mode that changes between starts |
| Users and roles | `services/user_service.go`, `repositories/user_repository.go` | `users` | EnsureUser | an upsert and a promotion on every request, concurrently, under an administrator that may be replaced |
| Totals and leaderboard | `session_service.go:190-280`, `repositories/session_repository.go:193-258`, `services/leaderboard_service.go` | none | Progress, sumMinutes, WeeklyTotals, ranking | the same minutes summed by three programs; clipping to the day, the week and 12 hours; rows newer than the time they are summed for |
| Admin listings, exports, audit reads | `api/request.go`, `api/admin_handlers.go`, `repositories/admin_repository.go` | none | pages by offset, CSV streams | pages are queries of their own while rows come, go and change; date ranges with an inclusive end |
| HTTP API | `api/*.go` | requests in hand; `admin_audit_logs` | middleware chains, the acting handlers, janitor | two statements that are not one transaction; deadlines, panics and restarts between them |
| Rate limiter | `api/ratelimit.go` | token buckets | allow, sweep | refill only when used, a sweep that forgets buckets, five limiters with keys of their own |
| Knowledge base | `knowledge/*.go` | none (a catalogue) | scoring search, Disambiguate | names inside names and keywords, ties, a search that looks at five results only |
| Bot menus and rendering | `handlers/*.go`, `menu`, `utils/format.go` | none | replies, keyboards | - |
| Configuration, logging, pool, embedded web | `config`, `database`, `web`, `pkg/logger` | none | start-up | - |
| Mini App | `frontend/src` | React state | pages, session control | optimistic state |

### Interactions

Updates reach the router through *update delivery*; the router calls *sessions*,
the *mentor* and the read-only handlers. The Mini App reaches *sessions* over
HTTP, so two actors may finish the same session. Every HTTP request passes the
*rate limiter*, authentication, EnsureUser and the check of the role before it
reaches a handler; those of administrators end in *corrections*, *broadcasts* and
the audit log. *Totals* read what *sessions* and *corrections* write; the
*mentor* asks the *knowledge base* first. *Corrections* write the rows
*sessions* writes, and the streak both write lives in the row of *users*.
*Broadcasts* read `users` while students register. *Update delivery* owns the
context whose cancellation ends a broadcast's worker and a mentor's retries,
and the process exits without waiting for either.

### What makes each component correct

- Sessions: at most one open session per student and disjoint lifetimes; a
  session is closed once and counted toward the streak by one request at most; a
  streak counts only days that were studied, and exactly those of the table as long
  as nothing interferes between a close and its counting.
- Corrections: row, audit entry and streak commit together; the audit log of a
  session is a gapless chain; corrections only amend closed sessions; none hangs.
- Broadcasts: done only after everybody was sent to; nobody twice across orderly
  shutdowns; one worker per process; counters that add up; done in the end.
- Mentor: dialogs and prompts are whole exchanges within their caps; nothing that
  depends on a dialog is served to somebody else; the cache is bounded.
- Delivery: an acknowledged update is handled, in hand, or knowingly thrown away;
  slots are neither lost nor invented; a polling shutdown leaves no handler behind.
- Totals: nothing studied is counted twice, on whichever path, and less than a minute
  of each session is lost; the leaderboard never shows more than the student's own
  page; the days add up to the lifetime but for a minute at each midnight a session
  lies across.
- API: a client gets its rate, no more and, whatever others or the janitor do, no
  less; the audit log tells what administrators did; only who was ever configured
  is one, and acts as one.
- Knowledge: what is asked for by name comes first in the reference, as far as its two
  places go; a student is asked back only when nothing was named, among exercises nothing beats, and the same ones every time.
- Replies, listings: what is sent fits a message and is the text in order; a walk
  over the pages misses no row except for rows that left; exports meet without a
  gap or an overlap.

## 2. Modules

| module | models | correspondence |
|---|---|---|
| `StreakRules` | the streak arithmetic | `StreakUpdate` and `SameDay` are computeStreakUpdate, `StreakFromSessions` the rebuild of `utils/streak.go`; time is in instants, `MinuteLength` of them a minute and `DayLength` a day; `MinutesBetween` cuts down to whole minutes |
| `StudySessions` | sessions, streak, corrections | one variable per table (`sessions`, `streak`, `audit`), `req[p]` and `adm[a]` hold where a goroutine stands and what it has read; each database call is an action, PostgreSQL's locks are guards, the writes of a transaction appear at its commit |
| `SessionLifecycle` | the promise: open, close, amend as atomic steps | `StudySessions` implements it with `book <- Book` |
| `Broadcast` | broadcasts | `rows` is the table, `worker[w]` a goroutine of run with its cursor, counters and page, `proc[p]` a process with its context and running flag; `calls`, `answered` and `audience` are histories |
| `AskMentor` | the mentor | `histories` and `cache` are the two maps, `ask[p]` the locals of one Ask; an answer is known by its question and by whether a dialog went along with it |
| `UpdateDelivery` | delivery | `tg` is Telegram, `library` the polling goroutine of the client library, `chan` its channel, `pool` the goroutines with and without a slot, `process` where main is; `handled` and `dropped` are histories |
| `StudyTotals` | today's and this week's minutes of Progress, sumMinutes, WeeklyTotals, the lifetime total | operators over the tables of `StudySessions`, evaluated in each of its states for each time a reader may have taken before; a sum is `SumFunctionOnSet` over the rows it visits |
| `LastingBroadcast` | `Broadcast` on one process that comes back | adds `OneProcess`, the history `died` and fairness |
| `RateLimiter` | `api/ratelimit.go` and the janitor | `bucket[k]` is `visitors[key]` of the limiter in `k`; tokens are scaled so that a refill per tick is whole; `admitted` is a history of one minute |
| `TokenBucket` | the promise: a bucket per key that is always there and drips | `RateLimiter` implements it with `level <-` what a key could spend now |
| `HttpApi` | the middleware chains and the handlers that act; EnsureUser | extends `RateLimiter`; `req[r]` is where a request is, `role`, `trail` are tables; `acted`, `trusted` are histories |
| `Catalogue` | `knowledge/exercises*.go`, `concepts.go`, `topics.go` | every entry with its names, keywords and the words of its description any question of the model can hold; `WordsOf` and `HeardIn` are what normalize, tokenize and strings.Contains find in a question |
| `Knowledge` | `knowledge/knowledge.go` | `Score`, `Search`, `Disambiguate` over any registry (`Exercises` and `Concepts` are CONSTANTS); the words of one question and the scores of all entries are the state; the stable sort is the numbering by `Rank`, how many entries are ahead |
| `Replies` | `askAI` and splitForTelegram (`handlers/ask.go`) | a text is its length and its newlines; `at` is the loop's position |
| `Listing` | pages and exports | `stamp` and `listed` are a table and a filter, `walk` a reader |
| `MCReads` | `Knowledge` over `Catalogue`, `Replies` and `Listing` side by side | while one part is looked at the other two rest |
| `MC*` | instances for TLC | symmetry of interchangeable goroutines, processes and ids |
| `*Proofs` | theorems | section 5 |

Definitions marked *Mutant of ...* are plausible bugs in the definition they name
(a dropped guard, an off-by-one, a missing reset). They are used by no
specification; replacing the definition by its mutant must break the property
`PROJECT.json` pairs it with.

### Modelling decisions and assumptions

- A correction is a PostgreSQL transaction at READ COMMITTED. `FOR UPDATE` on the
  session and on the owner's row, and the `FOR KEY SHARE` the foreign key of the
  audit log takes on the owner's row, are guards over the phases of the other
  corrections. A deadlock ends with one of the two rolled back, whichever.
- Clock: the wall clock is monotone, and application and database read the same
  one. The acting administrator's own row, on which `actor_user_id` takes a key
  share, is not among the corrected owners.
- `is_active` and `ended_at` are one field, `status`: the code always writes them
  together. A new row gets any free id; only identity matters.
- A session row a request has read cannot change owner or start, so a request
  keeps its id only.
- Broadcast: a send and the advance of the in-memory cursor are one step, because
  nobody can see between them; a death in between is the same as a death before
  the next persist. SendMessage with its one wait for a 429 is one step with the
  outcomes it can have; a shutdown during the wait is `Abandons`.
- A cancelled context makes a query fail, and an INSERT may have committed all
  the same (`StartLost`). A `select` over a timer and a cancelled context may take
  either branch (`Ticks`/`Pauses`, `Retry`/`GiveUp`).
- Mentor: the handlers always use ModeSolve, so the persona is no part of a cache
  key; reference material depends on the question alone. A call of the model
  that began after the cancellation fails without a retry.
- Delivery: Telegram and the polling goroutine of the client library are not in
  this repository and are modelled from how `bot.go` uses them: getUpdates
  acknowledges what is before its offset, the library pushes a batch in order and
  looks for the stop between two requests. One process is up at a time here; the
  overlap of a deploy is modelled for broadcasts only.
- Webhook: dispatch and the 200 of one POST are one step, with or without the
  answer reaching Telegram. The path of the webhook is not under `/api/`, so a
  process that polls answers Telegram's POSTs with the Mini App's page (`Swallow`).
- Totals: instant 0 is a local midnight and a Monday's. Durations are cut down to whole
  minutes where the code does so: once in the stored duration, and once more in every
  part of a session that lies within a day or a week. `requests` has two instants in a
  minute; in the other runs the two are the same, since their properties do not add
  durations up. The time a start spends between its time stamp and its INSERT counts for the student;
  `MinutesCounted` allows for it.
- API: six routes stand for all: the login, one that reads for a user, one that
  reads for an administrator, and the three that act. The verification of
  initData is an outcome; a request cannot fail it and then go on. Any statement
  may fail with or without its effect; a deadline, a client that left and a panic
  end a request between any two steps (`Answers`). Tokens are fractions in the
  code: here a token weighs `Minute` and a tick refills `Rate(k)`.
- Knowledge: a question is a set of terms (names, display names, keywords) among
  filler words that no entry holds; keywords are substrings of a question in the
  code, so `PartOf` lists which keywords a term holds inside. Russian is written
  in Latin letters, one to one, because TLA+ modules are ASCII.
- Replies: what Telegram accepts is a length between 1 and the limit; whether it
  likes the HTML is a choice at every chunk.
- Listings: the limit asked for is positive, because `request.go:62-70` rejects any
  other and puts in a default for none (`ReadsAssumption`). Newest first, the default and the only order of sessions' pages and of
  exports' predecessors; sorting by a streak, which changes under the reader, is
  not modelled. Rows are never deleted, as in the code.

## 3. Runs

Distinct states are those TLC reports; times are of two workers.

| run | specification and bounds | shows |
|---|---|---|
| `requests` | `StudySessions!Spec` with `StudyTotals`; one user, two sessions, two requests, seven instants of half a minute, from the first to the fourth day of one minute each, two weeks, a cap of one minute, no corrections (443 000 states, a minute and a half) | `LifetimesDisjoint`, `OneRecorderPerSession`, `MinutesCounted`, `BoardAgrees`, `DaysAddUp` and the refinement `ImplementsLifecycle` under every interleaving and failure |
| `corrections` | `Spec`; two sessions, one request, two administrators, two corrections each, a day per minute | `TypeOK`, `StreakBacked`, `AuditChain`, `ImplementsLifecycle` |
| `undisturbed` | `UndisturbedSpec`: anything may fail or overlap, except that nothing interferes between a close and its counting; one user, one request, three sessions, five instants of three days, one administrator, one correction of each session (2.0 million states, 80 s) | `StreakExact`: the incremental streak is the one a rebuild would compute, after any mix of sessions, corrections and failures |
| `ends` | `FairSpec`; two requests and two administrators, two sessions, a clock that stands still | `RequestsEnd`, `CorrectionsEnd` |
| `invalid_counted` | `WorkSpec`: overlaps, no failure | violation, section 4 |
| `overlap` | `Broadcast!Spec`; three recipients in pages of two, two processes, two goroutines, two starts | `AudienceReached`, `OneWorkerPerProcess` |
| `lasting` | `LastingSpec`; two recipients in pages of one, two broadcasts, one process, deaths and shutdowns until the last start (52 000 states) | `OnceUntilDeath`, `OneRunningRow`, `DoneTally`, `BroadcastsEnd` |
| `each_once` | `Broadcast!Spec`; two recipients | violation, section 4 |
| `mentor` | `AskMentor!Spec`; two users, two goroutines, three questions of which one is ambiguous, dialogs of four messages, a window of two, one retry, a cache of one entry that ages, two instants (2.6 million states, two minutes) | `TypeOK`, `DialogPaired`, `PromptAlternates`, `AnswerFits`, `CacheContextFree`, `CacheBounded` |
| `delivery` | `UpdateDelivery!FairSpec`; two updates, one slot, a channel of one, two deliveries of an update to one process, two starts | `TypeOK`, `CleanStop`, `Accounted`, `EveryUpdateSettled`, `StopEnds` |
| `api` | `HttpApi!Spec`; two people, one address, two goroutines, two requests to arrive, rates of one or two, a minute of two ticks, four instants, two starts | `RateKept`, `AuditTrail`, `RolesEarned`, and the refinement `ImplementsTokenBucket` |
| `reads` | `MCReads!Spec`; every term of the catalogue, and every name of an exercise or a concept beside another name, a keyword several entries share, two of the concepts that score most or two of the keywords that most entries share; texts of up to nine runes with a limit of four; four rows, three instants, pages of at most two, two departures | `NamedAreReferenced`, `ChoicesAreFair`, `ChunksFit`, `AnswerArrives`, `WalkMissesDeparted`, `ExportsMeet` |

`CHECK_DEADLOCK FALSE` is set where the bounds stop the model: ids, minutes,
starts, requests or updates are used up, and where a walk or an answer is done.
`ends` checks deadlock too.

### Why the bounds are enough

Every hazard listed in `PROJECT.json` needs two actors of one kind and one of the
other at most: two starts or two finishes against one row, two corrections of
one owner, a finish and a correction, two workers of one row, two questions of
one dialog. Three sessions over three days give a streak that grows, breaks and
starts again, and a finish that is stamped before and recorded after another.
Its one request and one administrator in `undisturbed` interleave
with each other only; more of each are in the other runs, and in the theorem.
In `requests`, four days of two half-minutes, two days to a week, give sessions across
one midnight and several, across Monday, of whole minutes and of halves that the cut at a
midnight loses, two of them in one minute or one after the other, and one that is longer
than the cap; a third session adds terms to the sums and no new way for two lifetimes to meet. Three recipients in pages of two (`overlap`) give a full page, a short one and the empty
one that ends the list; two in pages of one (`lasting`) give a page for every
recipient, so that a stop falls before, within and after one. A cache of one entry makes every second question evict;
dialogs of four messages with a window of two make trim and window differ. One
slot and two updates make a handler wait for a slot. With a rate of one and of two
per minute of two ticks, buckets run dry, refill by halves and are swept while
not in use; a correction passes two limiters. Texts of nine runes with a limit of four are
cut twice, with newlines at, before and behind every cut. The catalogue is not
bounded: it is the code's. Each property is broken
within these bounds by the mutant it is paired with. Safety that is proved
(section 5) does not depend on them.

### Fairness

- Sessions and corrections: strong fairness of each request's and correction's
  next step. A goroutine runs; a statement returns; a row lock is held by
  transactions that end, and PostgreSQL grants locks in queue order, so a step
  that becomes possible again and again is taken.
- Broadcasts (`LastingSpec`): weak fairness of each worker, of the exit of a process and of the
  start of one that is down (the platform restarts it). The run assumes that
  queries answer and that the last start stays up; nothing ends otherwise.
- Delivery: weak fairness of the process, the library and the handlers; strong
  fairness where something must succeed among attempts that may fail or lose a
  race: a getUpdates whose answer is lost is repeated, a POST whose 200 is lost
  is repeated, a goroutine that waits for a slot competes with others (Go's
  channels queue senders in order). Handlers are assumed to return: sends have a
  timeout of 50 s, calls of the model one of their own.

## 4. Where the code and its comments differ

- `invalid_counted` (`InvalidNotCounted`): `models/session.go:12-13` says an invalid
  finished session does not count toward the streak. RecordCompletedSession
  writes a streak computed from what it read, with the minutes it computed
  itself. An administrator's invalidation that commits between the finish and
  that write is overwritten, and the session counts for good. The row lock of
  recomputeStreakTx orders the writes and cannot help against the earlier read.
- `each_once` (`EachOnce`): `services/broadcast_service.go:46` says "no user is messaged
  twice and none is skipped". The cursor is persisted once per page of 200, so a
  death after a send repeats up to a page on Resume; the run shows it. It also
  happens when main exits before the worker has persisted, since nothing waits for
  the worker. As long as nobody dies, nobody is messaged twice (`OnceUntilDeath`, in
  `lasting`). The other half fails too: a shutdown during the wait of a 429 counts
  the recipient as failed and moves the cursor past them (`Abandons`).

Seen while modelling, without a run of their own:

- `bot/bot.go:81` says the wait group lets a shutdown wait a handler out. In
  webhook mode the HTTP server goes on to dispatch after `wg.Wait` has returned
  (`webhook.go:123`, the server is shut down later, by a deferred call of main):
  such an update is acknowledged and goes down with the process. `CleanStop` is
  therefore stated for polling only.
- When DeleteWebhook fails, polling goes on behind a warning (`bot.go:102-104`);
  it is then refused, while Telegram's POSTs are answered 200 by the Mini App.
- Comments of `ai_cache.go` speak of recency and of a periodic sweep: eviction is
  by creation time, happens only when the cache is full, and there is no sweep.
- A failed page look-up ends a worker and leaves its row running; the process may
  then start another broadcast, and Resume takes up one running row per start.
- `last_study_at` keeps the first qualifying session of a day, where a rebuild
  stores the last; both fall on the same day, which is all `SameStreak` compares.
  A correction may lower `best_streak`.
- A clear that overlaps a question does not forget that question: its exchange is
  appended to the cleared dialog. An empty completion is cached and not sendable.
- `handlers/ask.go:94-95` falls back to plain text "so the student still receives the
  answer". The fallback sends the whole answer uncut, also after chunks that have
  arrived: an answer longer than one message is refused again and ends in an
  error. The limit is counted in runes of the HTML, where Telegram counts UTF-16
  units. A fenced block inside inline backticks leaves a raw placeholder and loses
  the code (`handlers/markdown.go`).
- `services/admin_service.go:114-116` says every fan-out is logged. The audit row is
  written after the start, in a statement of its own whose failure is only logged
  (`admin_handlers.go:459-462`). `AuditTrail` therefore promises that no broadcast is
  logged that was not started, and not the converse.
- `auth/verify` is the one API group without a deadline; `broadcast.Start` does not
  take the request's context.
- `total_minutes` sums the stored durations, corrected ones included; today, the
  week and the leaderboard subtract time stamps and know neither corrections nor
  `is_valid`. `DaysAddUp` is stated for students without corrections.
- Every part of a session is cut down to whole minutes by itself. From 23:50:30 to
  00:10:30 is 20 minutes in `total_minutes`, and 9 and 10 in the two days. `DaysAddUp`
  bounds the difference by a minute per midnight, `MinutesCounted` what is lost by less
  than a minute per session.
- The reference of an answer has two places (`ai_service.go:512`), and a concept whose
  name contains its own keywords scores more than an exercise that is named: `pointone
  goroutines channels` scores 100, 120 and 120, so `pointone` is left out, for two
  entries that were named too. That is all `NamedReferenced` promises.
- The export's dates are midnights in UTC, while days elsewhere are those of the
  configured time zone. A page past the end reports a total of 0, because the
  total comes with the rows (`COUNT(*) OVER()`); the student's own list counts
  separately. `(page-1)*limit` may overflow for an absurd page.
- `knowledge.go:155` says the candidates are the exercises tied at the top score;
  only the first five results are looked at, so of 25 tied exercises five are
  offered. `knowledge.go:100-101` says one credit per word of a description; a word
  that occurs twice is credited twice. "Significant" words are those of four
  bytes, which two Cyrillic letters are. Keywords with punctuation (`Punctuated`)
  and concept names with an underscore are in no normalized question, so they never
  match.

## 5. Theorems

All hold for all values of the constants allowed by the named assumptions, which
TLC evaluates in the runs. They are theorems of the specification with every
overlap and failure (`Spec`), except for those whose property is about less:
`StreakIsExact` is of `UndisturbedSpec`, `StreakIsIsolated` of the steps undisturbed for one student, and `OneRunning`, `CountersAddUp` and `CalledOnce`
are of `LastingSpec`. They are safety; each `Spec => []Inv` is shown by an
inductive invariant.

**StudySessions** (`StudySessionsProofs`, with the arithmetic of the rebuild, and
`StreakProofs`). The invariant is built in layers.

1. `Consistent`: types, and what each goroutine knows of the row it holds (a
   stamp is not in the future and not before the row's start, a request in
   `update` or later holds a row that is not absent, a correction holds a closed
   row nobody else holds). It gives `TypeCorrect`.
2. `LifetimesAreDisjoint`: the unique index admits an INSERT only when every other
   session of the user is closed, and those ended no later than now.
3. `OneRecorder`: only the request whose UPDATE matched goes on to record; its
   session is closed from then on, so no other UPDATE matches.
4. `AuditIsChain` needs `ReadUnderLock`: what a correction has read is what the row
   still holds, because of the lock; by itself the chain is not inductive.
5. `StreakIsBacked` needs that what is about to be written is backed as well: a
   request's pending streak by the days credited so far, a rebuild's by those days
   and the one its own commit credits. The days credited only ever grow, and a
   session that qualifies now was made to by its close or by an audited
   correction, which is where the chain enters. The arithmetic lemmas say that
   the incremental rule and the rebuild return runs of days they were given.
6. `StreakIsExact` is about the stored streak being the rebuilt one. That cannot hold
   in `Spec`: section 4 shows a correction that gets between a close and its
   counting, and a request that dies there is never counted. So the
   hypothesis is about that stretch only: `UndisturbedStep(u)` lets anything fail and overlap,
   but two requests do not count for `u` at once, none counts for `u` while a
   correction of a session of `u` is between its audit entry and its commit, and
   the counting itself does not fail. `StreakIsIsolated` says that this is enough
   for `u` alone, whatever the requests and corrections of the other students do
   meanwhile; `StreakIsExact` is its consequence for everybody. The invariant is
   `Sound(u)`: the layers above, and `Exact(u)`, which speaks of the rows, the
   streak and the counting of `u` only. While a session is being counted the streak
   is the rebuild of what is counted already (`CountedExactly`); that is inductive
   with `PendingLatest` (the session about to be counted ended last, by
   `LifetimesAreDisjoint`, and is still what it was closed with) and
   `RebuildCurrent` (what a correction writes is the rebuild of the table its commit
   leaves). A step is either quiet for `u` or one of five, for `u` (`StepsFor`).
   The lemma that carries it is `RebuildWithLatest`: the incremental rule applied to the
   rebuild of some sessions is the rebuild of those and a later one. It rests on
   `NewestRun` and `NewestBest`, which say what a new last day does to the current run
   and to the longest.
7. `SessionsImplementLifecycle`: the INSERT maps to Open, the guarded UPDATE to
   Close, the commit of a correction to Amend, everything else to a stutter.

**Totals** (`TotalsProofs`). A total is a sum over a finite set of rows. That the
table stays finite is an invariant (`AlwaysFinite`), whatever `SessionId` is. What sums
do is shown by induction over the subsets of a finite set, written as a set that
contains the empty set and is closed under adding an element (`SubsetsReached`):
a sum splits off an element, is monotone, adds up with another, and does not see
terms that are zero (`SumSplit`, `SumMonotone`, `SumAdded`, `SumOfPart`). `SumOverRows` then says
that the query's filter by overlap loses nothing, and `DayInWeek` that a day lies
within its week. Cutting down to whole minutes loses less than a minute (`WholeBounds`), and
cutting two parts costs at most one minute beside cutting their sum (`WholeParts`), for any
`MinuteLength`. `MinutesAreCounted` compares the sum with the number of instants in
which a session was open: disjoint lifetimes are disjoint sets of instants, so
their sizes add up (`SizeOfParts`), and what a row contributes falls short of the time it
was open by less than a minute, and exceeds it by the delay of its INSERT at most (`CountedTerm`). `BoardIsRight`
compares term by term (`CappedTerm`). `DaysMakeALifetime` is an induction over the days
(`DaysUntil`, each of which adds to a session at most one cut at its first midnight,
`WindowAdds`) for rows whose stored duration is still that of their time stamps, by
`AuditIsChain` (`UntouchedDuration`).

**Broadcast** (`BroadcastProofs`). `Consistent` is `TypeOK`, `Flagged` (a worker's
process is up, flagged, and has no other worker) and `Covered` (everybody of the
audience behind a cursor, in a row or in a worker, was called; while a worker is in
a page, whoever else of the audience is ahead comes after all of that page). It gives `BroadcastTypeCorrect`,
`EverybodyIsReached` and `OneWorker`. The page lemmas say that
`ORDER BY id LIMIT n` is a prefix of what remains, and empty only at the end.
The three theorems of `LastingSpec` stand on three more invariants. `Sole`: at most one
row is unfinished, a process that is up and not stopping has a worker on it, and a
Start behind its count has seen none (`OneRunning`). `Tallied`: what a row or a
worker has counted lies between the members of the audience and the users behind its
cursor, on both sides of a persist (`CountersAddUp`). `Once`: as long as nobody died, nobody
ahead of a worker's cursor was called, nor, when there is no worker, ahead of the
row's, because a worker gives up only where it has persisted (`CalledOnce`).

**AskMentor** (`AskMentorProofs`). `Coherent` is types, whole exchanges in every
dialog and in every snapshot, and answers that fit where they stand: `MentorTypeCorrect`,
`DialogsArePaired`, `PromptsAlternate`, `AnswersFit`, and `CacheFitsEverybody` from the part
about what is stored. That trimming an even number of messages keeps
exchanges whole is a lemma on sequences; it needs the caps to be even, which the
code's are and `DialogAssumption` names. `CacheIsBounded` is inductive by itself.

**UpdateDelivery** (`UpdateDeliveryProofs`). `Tracked` is `TypeOK`, `Offsets` (what
Telegram holds from the offset up to a member of the batch is in the batch), `Slotted` (slots add
up), `OncePolled` and `Quiet` (a process that is down holds nothing). On top of it
`Accounted` is inductive with `Passed`: what lies before the offset and is still
held by Telegram is in hand or settled already, so that the acknowledgement of
the next getUpdates forgets nothing. Theorems: `DeliveryTypeCorrect`,
`NothingDisappears`, `PollingStopsCleanly`, `PolledOnce`.

**HttpApi** (`HttpApiProofs`). `TypeCorrect`: `TypeOK` is inductive together with the
finiteness of the history. `LimitersAreTokenBuckets` is the refinement: a sweep
forgets a bucket only when it was idle for more than `MaxIdle >= Minute` ticks, in
which it refilled to the brim, so forgetting does not change its level; refilling
by elapsed time equals dripping tick by tick because both cap at the burst.
`RatesAreKept` is about a history over a sliding minute. `Rated` relates it to the
level of the bucket, for each length `j` of a window up to that minute: what passed
in the window, with what the bucket still holds, is at least the refill of `j`
ticks, and at most a burst with the refill of the ticks between. A tick turns the
statement for `j` into the one for `j + 1`, a pass moves one token from the bucket to the
window, and a sweep leaves the level alone.
`RolesAreEarned` is inductive with `Cleared` (a request behind the check of the role
belongs to an administrator, one about to be promoted to somebody trusted).
`TrailIsTrue` counts: the exports logged less those that sent rows, and the
broadcasts started less those logged, never fall below the number of requests in
the phase between the two (`Ledger*`, `Stage*`).

**Replies and listings** (`ReadsProofs`), of the specification that runs them side by
side, of which each theorem uses its own part. `Delivered`: the chunks received are messages that join
up, and the loop stands where they end; the cut at a line break lies within the
limit and ahead. It gives `ChunksAlwaysFit` and `AnswersArrive`, for a text of any length.
`Walked`: rows that were there all along, are not seen yet and lie before the page
read next are no more than the rows that departed. An insertion moves nothing
into that range, a departure at most one row, because positions are a numbering
without gaps (`PositionsUnique`, `PositionsClose`); a page that comes back empty is
behind every row. It gives `MissesAreDepartures`. `ExportsAlwaysMeet` follows from the
half-open ranges of two exports.

`AnyChoiceIsFair` is about any registry and any question, and gives `ChoicesAlwaysFair`. Which entries are
hits, and in what order, follows from two things about `Ahead`: it is a strict
linear order of the entries, and the number of entries ahead of one (`Rank`) is
therefore a numbering without gaps (`RanksUnique`, `RanksInside`, and `RanksTaken`
by the pigeonhole principle), so that the sorted results list every hit once and
in order (`InOrderLists`). The first result is then one that nothing beats, what
ties with it among five is a prefix of all that tie, and the exercises come
first in a tie because they come first in the registry. A name that is said
scores at least `directNameScore` (`NamesScore`), so a top below it means that
nothing was named. `NamesComeFirst` says that the named entries stand first in the
reference, as many as fit, under the condition that no other entry reaches
`directNameScore` (`KeywordsStayBelow`): then every named one is ahead of every other, so another
entry's place comes after all of theirs. Lists of results are functions on `1..n` found by counting, and
not the recursive sort of the library, so that they can be reasoned about.

Only model-checked:

- liveness (`RequestsEnd`, `CorrectionsEnd`, `BroadcastsEnd`, `EveryUpdateSettled`,
  `StopEnds`), which is out of the prover's reach;
- that the condition of `NamesComeFirst` may be dropped for the code's own catalogue and
  the questions of `reads`: this is a matter of which names and keywords the catalogue holds
  inside others, and `NamedAreReferenced` is evaluated there without it. A question
  with ten keywords of one entry would violate it.

Each type invariant is proved, those of `Broadcast` and `HttpApi` without a run of
their own.

## 6. Not modelled, and the plan

Not modelled:

- Menus, schedule, rendering and the Markdown conversion: text in, text out, no
  state and no property but the wording.
- The verification of initData (an HMAC over sorted fields): its two outcomes are
  modelled, the computation is not.
- Parsing of request bodies beyond pages and dates, CORS, headers, access logs.
- Statistics, user details, ranks and the top ten: single queries and formatting.
- Configuration, logging, the connection pool and the embedded front end.
- The Mini App's React state.

The order followed:

1. `StreakRules`, `StudySessions` with `SessionLifecycle`: the data students see.
2. `Broadcast`, then `LastingBroadcast`: crash recovery.
3. `AskMentor`, `UpdateDelivery`: concurrency in memory, delivery.
4. `StudyTotals`: what students are shown of that data.
5. `RateLimiter` with `TokenBucket`, and `HttpApi` on top: rates, roles, the audit trail.
6. `Catalogue`, `Knowledge`, `Replies`, `Listing`: what only reads.

What is left: the Mini App's session control with its optimistic state, composed
with `StudySessions` seen through `SessionLifecycle`; ranks over `WeeklyTotal`;
sorting by columns that change.
