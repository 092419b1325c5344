------------------------------- MODULE Broadcast -------------------------------
(***************************************************************************)
(* Admin broadcasts: the message fan-out of services/broadcast_service.go  *)
(* over repositories/broadcast_repository.go and bot/sender.go.            *)
(*                                                                         *)
(* A worker is one goroutine of run: every database call and every send is *)
(* a step. Its cursor and counters live in memory and reach the broadcasts *)
(* table only when they are persisted, so a process that dies loses what   *)
(* its worker did since. Several processes may be up at once, as a rolling *)
(* deploy has them.                                                        *)
(***************************************************************************)
EXTENDS Naturals, FiniteSets

CONSTANTS
  None,         \* the absent value
  Recipient,    \* ids of the users table
  BroadcastId,  \* ids of the broadcasts table; bounds the broadcasts ever started
  Process,      \* processes of the application
  Worker,       \* goroutines that Start or run a broadcast
  Batch,        \* broadcastBatchSize
  MaxBoots      \* bound: process starts

ASSUME RecipientAssumption == Recipient \subseteq Nat \ {0} /\ IsFiniteSet(Recipient)
ASSUME BroadcastIdAssumption == BroadcastId \subseteq Nat
ASSUME NoneAssumption == None \notin BroadcastId /\ None \notin Process
ASSUME BatchAssumption == Batch \in Nat \ {0}
ASSUME BootsAssumption == MaxBoots \in Nat

VARIABLES
  users,     \* the ids committed to the users table
  rows,      \* the broadcasts table
  proc,      \* proc[p]: is p up, is its context cancelled, its running flag
  worker,    \* worker[w]: where goroutine w is, and what it has in memory
  boots,     \* process starts so far
  calls,     \* history: calls[b][u] counts the SendMessage calls of b for u
  answered   \* history: answered[b] are the users Telegram took or refused b for

vars == <<users, rows, proc, worker, boots, calls, answered>>

-----------------------------------------------------------------------------
(* Values *)

Cursor == Recipient \cup {0}

\* audience is the history of who was registered when the row was created.
BroadcastRow == [status : {"absent", "running", "done"}, cursor : Cursor, sent : Nat,
                 failed : Nat, total : Nat, audience : SUBSET Recipient]
NoBroadcast == [status |-> "absent", cursor |-> 0, sent |-> 0,
                failed |-> 0, total |-> 0, audience |-> {}]

ProcessState == [up : BOOLEAN, stopping : BOOLEAN, running : BOOLEAN]
Down == [up |-> FALSE, stopping |-> FALSE, running |-> FALSE]
Fresh == [up |-> TRUE, stopping |-> FALSE, running |-> FALSE]

\* create is Start between its two queries; the other phases are those of run.
RunPhase == {"fetch", "wait", "send", "save", "pause", "finish"}
WorkerShape(phases, procs, ids) ==
  [pc : phases, proc : procs, id : ids, cursor : Cursor, sent : Nat, failed : Nat,
   total : Nat, batch : SUBSET Recipient]
WorkerState == WorkerShape({"none"}, {None}, {None})
               \cup WorkerShape({"create"}, Process, {None})
               \cup WorkerShape(RunPhase, Process, BroadcastId)
NoWorker == [pc |-> "none", proc |-> None, id |-> None, cursor |-> 0,
             sent |-> 0, failed |-> 0, total |-> 0, batch |-> {}]

WorkersOf(p) == {w \in Worker : worker[w].proc = p}

\* Mutant of FirstOf: the page is ordered the other way.
LastOf(S, n) == {u \in S : Cardinality({v \in S : v > u}) < n}

\* The first n of the ids in S: ORDER BY id ASC LIMIT n.
FirstOf(S, n) == {u \in S : Cardinality({v \in S : v < u}) < n}

RecipientsAfter(c) == FirstOf({u \in users : u > c}, Batch)

\* Mutant of WorkerOf: a resumed worker starts counting anew.
UncountedWorker(p, b, r) ==
  [NoWorker EXCEPT !.pc = "fetch", !.proc = p, !.id = b, !.cursor = r.cursor]

\* The goroutine run(b), from the row r of broadcast b as p has read it.
WorkerOf(p, b, r) ==
  [pc |-> "fetch", proc |-> p, id |-> b, cursor |-> r.cursor,
   sent |-> r.sent, failed |-> r.failed, total |-> 0, batch |-> {}]

-----------------------------------------------------------------------------

Init ==
  /\ users = {}
  /\ rows = [b \in BroadcastId |-> NoBroadcast]
  /\ proc = [p \in Process |-> Down]
  /\ worker = [w \in Worker |-> NoWorker]
  /\ boots = 0
  /\ calls = [b \in BroadcastId |-> [u \in Recipient |-> 0]]
  /\ answered = [b \in BroadcastId |-> {}]

\* A first contact inserts a user. Ids come from a sequence, but the inserts
\* may commit in another order.
Register(u) ==
  /\ u \notin users
  /\ users' = users \cup {u}
  /\ UNCHANGED <<rows, proc, worker, boots, calls, answered>>

-----------------------------------------------------------------------------
(* Start, under the mutex *)

MutexFree(p) == \A w \in WorkersOf(p) : worker[w].pc # "create"

\* Start after its count.
Counted(p) == [pc |-> "create", proc |-> p, id |-> None, cursor |-> 0, sent |-> 0,
               failed |-> 0, total |-> Cardinality(users), batch |-> {}]

\* Mutant of StartCount: the running flag is not looked at.
UnflaggedCount(p, w) ==
  /\ proc[p].up /\ ~ proc[p].stopping
  /\ worker[w].pc = "none"
  /\ MutexFree(p)
  /\ worker' = [worker EXCEPT ![w] = Counted(p)]
  /\ UNCHANGED <<users, rows, proc, boots, calls, answered>>

\* No broadcast of this process is running: count the recipients. A running one
\* is ErrBroadcastInProgress, a failed count an error; both change nothing.
StartCount(p, w) ==
  /\ proc[p].up /\ ~ proc[p].stopping
  /\ worker[w].pc = "none"
  /\ MutexFree(p)
  /\ ~ proc[p].running
  /\ worker' = [worker EXCEPT ![w] = Counted(p)]
  /\ UNCHANGED <<users, rows, proc, boots, calls, answered>>

NextId(b) == rows[b] = NoBroadcast /\ \A c \in BroadcastId : c < b => rows[c] # NoBroadcast

NewRow(w) == [status |-> "running", cursor |-> 0, sent |-> 0, failed |-> 0,
              total |-> worker[w].total, audience |-> users]

\* INSERT the row, set the flag, release the mutex and go run.
StartCreate(w, b) ==
  /\ worker[w].pc = "create"
  /\ ~ proc[worker[w].proc].stopping
  /\ NextId(b)
  /\ rows' = [rows EXCEPT ![b] = NewRow(w)]
  /\ proc' = [proc EXCEPT ![worker[w].proc].running = TRUE]
  /\ worker' = [worker EXCEPT ![w] = WorkerOf(worker[w].proc, b, NewRow(w))]
  /\ UNCHANGED <<users, boots, calls, answered>>

\* The INSERT failed (or the model's ids are used up).
StartFails(w) ==
  /\ worker[w].pc = "create"
  /\ worker' = [worker EXCEPT ![w] = NoWorker]
  /\ UNCHANGED <<users, rows, proc, boots, calls, answered>>

\* The INSERT committed and its answer was lost: to Start it failed.
StartLost(w, b) ==
  /\ worker[w].pc = "create"
  /\ NextId(b)
  /\ rows' = [rows EXCEPT ![b] = NewRow(w)]
  /\ worker' = [worker EXCEPT ![w] = NoWorker]
  /\ UNCHANGED <<users, proc, boots, calls, answered>>

-----------------------------------------------------------------------------
(* run, the worker *)

\* The deferred clean-up of run: the flag is cleared, the goroutine ends.
Ends(w) ==
  /\ worker' = [worker EXCEPT ![w] = NoWorker]
  /\ proc' = [proc EXCEPT ![worker[w].proc].running = FALSE]

\* RecipientsAfter: the next page, or the end of the list.
Fetch(w) ==
  LET page == RecipientsAfter(worker[w].cursor) IN
  /\ worker[w].pc = "fetch"
  /\ ~ proc[worker[w].proc].stopping
  /\ worker' = [worker EXCEPT ![w].pc = IF page = {} THEN "finish" ELSE "wait",
                              ![w].batch = page]
  /\ UNCHANGED <<users, rows, proc, boots, calls, answered>>

\* The query failed, or the context is cancelled: run returns, the row stays.
FetchFails(w) ==
  /\ worker[w].pc = "fetch"
  /\ Ends(w)
  /\ UNCHANGED <<users, rows, boots, calls, answered>>

\* select: the ticker, also when the context is cancelled at the same time.
Ticks(w) ==
  /\ worker[w].pc = "wait"
  /\ worker' = [worker EXCEPT ![w].pc = "send"]
  /\ UNCHANGED <<users, rows, proc, boots, calls, answered>>

\* select: the context is cancelled, progress is about to be persisted.
Pauses(w) ==
  /\ worker[w].pc = "wait"
  /\ proc[worker[w].proc].stopping
  /\ worker' = [worker EXCEPT ![w].pc = "pause"]
  /\ UNCHANGED <<users, rows, proc, boots, calls, answered>>

\* The recipient in turn: pages come in ascending id order.
InTurn(w, u) == u \in worker[w].batch /\ \A v \in worker[w].batch : u <= v

\* After a send, whatever its outcome: the cursor moves to u, and the page goes
\* on or is persisted.
Advance(w, u, sent, failed) ==
  LET r == worker[w] IN
  /\ calls' = [calls EXCEPT ![r.id][u] = @ + 1]
  /\ worker' = [worker EXCEPT ![w] =
       [pc |-> IF r.batch = {u} THEN "save" ELSE "wait", proc |-> r.proc, id |-> r.id,
        cursor |-> u, sent |-> r.sent + sent, failed |-> r.failed + failed,
        total |-> r.total, batch |-> r.batch \ {u}]]
  /\ UNCHANGED <<users, rows, proc, boots>>

\* SendMessage got an answer, after at most one 429 and its wait: the message
\* is taken, or refused for good.
Sends(w, u) ==
  /\ worker[w].pc = "send"
  /\ InTurn(w, u)
  /\ Advance(w, u, 1, 0) \/ Advance(w, u, 0, 1)
  /\ answered' = [answered EXCEPT ![worker[w].id] = @ \cup {u}]

\* SendMessage was told to retry later, and the context was cancelled first.
Abandons(w, u) ==
  /\ worker[w].pc = "send"
  /\ InTurn(w, u)
  /\ proc[worker[w].proc].stopping
  /\ Advance(w, u, 0, 1)
  /\ UNCHANGED answered

\* Mutant of Saved: the counters are persisted, the cursor is not.
SavedCounters(w) ==
  [rows EXCEPT ![worker[w].id].sent = worker[w].sent,
               ![worker[w].id].failed = worker[w].failed]

\* SaveProgress: cursor and counters, whatever the row holds by now.
Saved(w) ==
  [rows EXCEPT ![worker[w].id] = [@ EXCEPT !.cursor = worker[w].cursor,
                                           !.sent = worker[w].sent,
                                           !.failed = worker[w].failed]]

\* persist after a page: a failure is logged and the worker goes on.
Saves(w, ok) ==
  /\ worker[w].pc = "save"
  /\ rows' = IF ok THEN Saved(w) ELSE rows
  /\ worker' = [worker EXCEPT ![w].pc = "fetch"]
  /\ UNCHANGED <<users, proc, boots, calls, answered>>

\* persist on shutdown, on a context of its own, then run returns.
SavesPause(w, ok) ==
  /\ worker[w].pc = "pause"
  /\ rows' = IF ok THEN Saved(w) ELSE rows
  /\ Ends(w)
  /\ UNCHANGED <<users, boots, calls, answered>>

\* Mutant of Finished: the terminal status is not written.
Unmarked(w) ==
  [rows EXCEPT ![worker[w].id] = [@ EXCEPT !.sent = worker[w].sent,
                                           !.failed = worker[w].failed]]

\* Finish: the row is done with this worker's counters; its cursor stays.
Finished(w) ==
  [rows EXCEPT ![worker[w].id] = [@ EXCEPT !.status = "done",
                                           !.sent = worker[w].sent,
                                           !.failed = worker[w].failed]]

\* The end of run after the last page; a failed Finish leaves the row running.
Finishes(w, ok) ==
  /\ worker[w].pc = "finish"
  /\ rows' = IF ok THEN Finished(w) ELSE rows
  /\ Ends(w)
  /\ UNCHANGED <<users, boots, calls, answered>>

-----------------------------------------------------------------------------
(* Processes *)

Unfinished == {b \in BroadcastId : rows[b].status = "running"}

\* A process starts; Resume finds no running row, or fails to look.
Boot(p) ==
  /\ ~ proc[p].up
  /\ boots < MaxBoots
  /\ boots' = boots + 1
  /\ proc' = [proc EXCEPT ![p] = Fresh]
  /\ UNCHANGED <<users, rows, worker, calls, answered>>

\* Mutant of BootResumes: the flag is not set for a resumed worker.
BootUnflagged(p, w, b) ==
  /\ ~ proc[p].up
  /\ boots < MaxBoots
  /\ worker[w].pc = "none"
  /\ b \in Unfinished /\ \A c \in Unfinished : b <= c
  /\ boots' = boots + 1
  /\ proc' = [proc EXCEPT ![p] = Fresh]
  /\ worker' = [worker EXCEPT ![w] = WorkerOf(p, b, rows[b])]
  /\ UNCHANGED <<users, rows, calls, answered>>

\* Resume: FindRunning takes the running row with the lowest id, and a worker
\* goes on from what the row holds.
BootResumes(p, w, b) ==
  /\ ~ proc[p].up
  /\ boots < MaxBoots
  /\ worker[w].pc = "none"
  /\ b \in Unfinished /\ \A c \in Unfinished : b <= c
  /\ boots' = boots + 1
  /\ proc' = [proc EXCEPT ![p] = [Fresh EXCEPT !.running = TRUE]]
  /\ worker' = [worker EXCEPT ![w] = WorkerOf(p, b, rows[b])]
  /\ UNCHANGED <<users, rows, calls, answered>>

\* SIGTERM cancels the application context.
Stops(p) ==
  /\ proc[p].up /\ ~ proc[p].stopping
  /\ proc' = [proc EXCEPT ![p].stopping = TRUE]
  /\ UNCHANGED <<users, rows, worker, boots, calls, answered>>

\* p is gone, and its goroutines with it.
Gone(p) ==
  /\ proc' = [proc EXCEPT ![p] = Down]
  /\ worker' = [w \in Worker |-> IF worker[w].proc = p THEN NoWorker ELSE worker[w]]
  /\ UNCHANGED <<users, rows, boots, calls, answered>>

\* The worker was done in time: main does not wait for it.
Exits(p) ==
  /\ proc[p].stopping
  /\ WorkersOf(p) = {}
  /\ Gone(p)

\* A crash, a kill, or an exit that overtook the worker.
Dies(p) ==
  /\ proc[p].up
  /\ WorkersOf(p) # {}
  /\ Gone(p)

-----------------------------------------------------------------------------
(* The next-state relation, by what goes wrong *)

WorkerStep(w) ==
  \/ Fetch(w) \/ Ticks(w) \/ Pauses(w)
  \/ \E u \in Recipient : Sends(w, u) \/ Abandons(w, u)
  \/ Saves(w, TRUE) \/ SavesPause(w, TRUE) \/ Finishes(w, TRUE)

\* A cancelled context fails the queries that run under it; an INSERT may still
\* have committed.
CancelledStep(w) ==
  /\ worker[w].pc # "none"
  /\ proc[worker[w].proc].stopping
  /\ \/ FetchFails(w) \/ StartFails(w)
     \/ \E b \in BroadcastId : StartLost(w, b)

StartStep(w) ==
  \/ \E p \in Process : StartCount(p, w)
  \/ \E b \in BroadcastId : StartCreate(w, b)
  \/ StartFails(w)

BootStep(p) ==
  \/ Unfinished = {} /\ Boot(p)
  \/ \E w \in Worker, b \in BroadcastId : BootResumes(p, w, b)

\* Everything a process does while its database answers and its exit does not
\* overtake its worker.
OrderlyStep ==
  \/ \E u \in Recipient : Register(u)
  \/ \E w \in Worker : StartStep(w) \/ WorkerStep(w) \/ CancelledStep(w)
  \/ \E p \in Process : BootStep(p) \/ Stops(p) \/ Exits(p)

\* A query fails, or its answer is lost.
FailedQuery ==
  \/ \E w \in Worker :
       \/ FetchFails(w)
       \/ Saves(w, FALSE) \/ SavesPause(w, FALSE) \/ Finishes(w, FALSE)
       \/ \E b \in BroadcastId : StartLost(w, b)
  \/ \E p \in Process : Unfinished # {} /\ Boot(p)

Death == \E p \in Process : Dies(p)

Next == OrderlyStep \/ FailedQuery \/ Death

Spec == Init /\ [][Next]_vars

\* No query fails, processes may die, and after the last start of the model the
\* process stays up. The runtime schedules goroutines, queries answer, and the
\* platform starts a process that is down.
LastingStep == (OrderlyStep \/ Death) /\ (boots = MaxBoots => \A p \in Process : proc[p].up =>
                                           proc'[p].up /\ proc'[p].stopping = proc[p].stopping)

FairSpec ==
  /\ Init /\ [][LastingStep]_vars
  /\ \A w \in Worker : WF_vars(WorkerStep(w) \/ CancelledStep(w))
  /\ \A p \in Process : WF_vars(Exits(p)) /\ WF_vars(BootStep(p))

-----------------------------------------------------------------------------
(* Correctness properties *)

\* Every variable holds the values its column, field or history can hold.
TypeOK ==
  /\ users \in SUBSET Recipient
  /\ rows \in [BroadcastId -> BroadcastRow]
  /\ proc \in [Process -> ProcessState]
  /\ worker \in [Worker -> WorkerState]
  /\ boots \in 0 .. MaxBoots
  /\ calls \in [BroadcastId -> [Recipient -> Nat]]
  /\ answered \in [BroadcastId -> SUBSET Recipient]

\* A broadcast is done only when everybody registered at its start was sent to
\* at least once, whatever failed, died, or ran twice on the way: a cursor that
\* is persisted late, or moved back by another worker, repeats and never skips.
AudienceReached ==
  \A b \in BroadcastId : rows[b].status = "done" =>
    \A u \in rows[b].audience : calls[b][u] >= 1

\* The running flag keeps a process at one goroutine in Start or run, across
\* Start, Resume, the end of a worker and its next start.
OneWorkerPerProcess ==
  \A p \in Process, v, w \in Worker :
    worker[v].proc = p /\ worker[w].proc = p => v = w

\* With one process up at a time, what a finished broadcast reports adds up: each
\* user of the audience is counted, sent or failed, and nobody is counted twice,
\* although users are called again after a lost cursor.
DoneTally ==
  \A b \in BroadcastId : rows[b].status = "done" =>
    /\ rows[b].sent + rows[b].failed >= Cardinality(rows[b].audience)
    /\ rows[b].sent + rows[b].failed <= Cardinality(users)

\* At most one row is running. It holds while the queries of one process succeed
\* (FairSpec), and is why Resume may look for a single row.
OneRunningRow == Cardinality(Unfinished) <= 1

\* A broadcast that was started is done some day, when queries answer, processes
\* that die are started again, and the last one stays up.
BroadcastsEnd == \A b \in BroadcastId : rows[b].status = "running" ~> rows[b].status = "done"

\* SendMessage is called at most once for a user of a broadcast.
AttemptedOnce == \A b \in BroadcastId : \A u \in Recipient : calls[b][u] <= 1

\* Everybody in the audience of a finished broadcast was answered for by Telegram.
NoneSkipped ==
  \A b \in BroadcastId : rows[b].status = "done" => rows[b].audience \subseteq answered[b]

-----------------------------------------------------------------------------
(* What a comment says and the code does not do *)

\* "No user is messaged twice and none is skipped" (broadcast_service.go:46). A
\* death before the page is persisted breaks the first half, a shutdown during
\* the wait of a 429 the second.
EachOnce == AttemptedOnce /\ NoneSkipped
=============================================================================
