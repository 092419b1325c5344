---------------------------- MODULE UpdateDelivery ----------------------------
(***************************************************************************)
(* How updates get from Telegram to the handlers (bot/bot.go,              *)
(* bot/webhook.go, cmd/app/main.go): one process at a time, polling or     *)
(* serving a webhook, that may be told to stop, die, and be started again  *)
(* in either mode. Each update is handled by a goroutine of its own, which *)
(* takes one of the slots first.                                           *)
(*                                                                         *)
(* Telegram keeps an update until it is acknowledged: by a getUpdates with *)
(* a later offset, or by a 200 to the POST that carried it. Telegram and   *)
(* the polling goroutine of the client library are not in this repository; *)
(* they are modelled from how bot.go uses them.                            *)
(*                                                                         *)
(* Updates are numbered as they are sent. What a handler does, and whether *)
(* it returns, fails or panics, makes no difference here: the pipeline     *)
(* recovers, and the deferred calls give slot and count back.              *)
(***************************************************************************)
EXTENDS Naturals, Sequences

CONSTANTS
  LastUpdate,  \* bound: updates users send
  Slots,       \* maxConcurrentUpdates
  Buffer,      \* capacity of the library's channel
  MaxPosts,    \* bound: deliveries of one update to one process
  MaxBoots     \* bound: starts of the process; the last one stays up

ASSUME DeliveryAssumption ==
  /\ LastUpdate \in Nat /\ Slots \in Nat \ {0} /\ Buffer \in Nat \ {0}
  /\ MaxPosts \in Nat \ {0} /\ MaxBoots \in Nat \ {0}

VARIABLES
  tg,       \* Telegram: updates sent so far, those it holds, whether a webhook is set
  process,  \* where main is, in which mode, starts so far, shutdown signalled
  library,  \* the polling goroutine: pc, next offset, batch being pushed, told to stop
  chan,     \* its channel
  pool,     \* deliveries so far, goroutines without and with a slot, free slots
  handled,  \* history: updates some handler has finished with
  dropped   \* history: updates a process has taken and thrown away

vars == <<tg, process, library, chan, pool, handled, dropped>>

-----------------------------------------------------------------------------
(* Values *)

Update == 1 .. LastUpdate
Job == Update \X (1 .. MaxPosts)

Telegram == [sent : 0 .. LastUpdate, held : SUBSET Update, webhook : BOOLEAN]

Phase == {"down", "starting", "serving", "draining", "waiting", "closing"}
Process == [phase : Phase, mode : {"polling", "webhook"}, boots : 0 .. MaxBoots, cancelled : BOOLEAN]

Library == [pc : {"none", "ask", "poll", "push", "closed"}, offset : 1 .. LastUpdate + 1,
            batch : SUBSET Update, shut : BOOLEAN]
NoLibrary == [pc |-> "none", offset |-> 1, batch |-> {}, shut |-> FALSE]

Pool == [seen : [Update -> 0 .. MaxPosts], waiting : SUBSET Job, running : SUBSET Job, free : 0 .. Slots]
EmptyPool == [seen |-> [u \in Update |-> 0], waiting |-> {}, running |-> {}, free |-> Slots]

\* What wg counts: a goroutine from before it starts to after it has given its slot back.
InFlight == pool.waiting \cup pool.running

UpdatesOf(jobs) == {j[1] : j \in jobs}

\* What goes down with the process.
InHand == UpdatesOf(InFlight) \cup {chan[i] : i \in DOMAIN chan}

Spared == process.boots < MaxBoots

-----------------------------------------------------------------------------
(* Handlers *)

\* Mutant of Dispatched: with every slot taken, the update is turned away.
Shed(u) ==
  pool' = IF pool.free = 0 THEN pool
          ELSE [pool EXCEPT !.seen[u] = @ + 1, !.waiting = @ \cup {<<u, pool.seen[u] + 1>>}]

\* dispatch: never blocks, however busy the handlers are.
Dispatched(u) ==
  pool' = [pool EXCEPT !.seen[u] = @ + 1, !.waiting = @ \cup {<<u, pool.seen[u] + 1>>}]

\* b.sem <- struct{}{}
Take(j) ==
  /\ j \in pool.waiting
  /\ pool.free > 0
  /\ pool' = [pool EXCEPT !.waiting = @ \ {j}, !.running = @ \cup {j}, !.free = @ - 1]
  /\ UNCHANGED <<tg, process, library, chan, handled, dropped>>

\* Mutant of Finish: the slot is given back twice.
ReleaseTwice(j) ==
  /\ j \in pool.running
  /\ pool' = [pool EXCEPT !.running = @ \ {j}, !.free = @ + 2]
  /\ handled' = handled \cup {j[1]}
  /\ UNCHANGED <<tg, process, library, chan, dropped>>

\* Mutant of Finish: the slot is not given back.
KeepSlot(j) ==
  /\ j \in pool.running
  /\ pool' = [pool EXCEPT !.running = @ \ {j}]
  /\ handled' = handled \cup {j[1]}
  /\ UNCHANGED <<tg, process, library, chan, dropped>>

\* The pipeline returns, whatever became of the update.
Finish(j) ==
  /\ j \in pool.running
  /\ pool' = [pool EXCEPT !.running = @ \ {j}, !.free = @ + 1]
  /\ handled' = handled \cup {j[1]}
  /\ UNCHANGED <<tg, process, library, chan, dropped>>

-----------------------------------------------------------------------------
(* Long polling *)

\* getUpdates reaches Telegram, which forgets what is before the offset. With a
\* webhook set it is refused, and tried again.
Ask ==
  /\ library.pc = "ask"
  /\ ~ library.shut
  /\ ~ tg.webhook
  /\ library' = [library EXCEPT !.pc = "poll"]
  /\ tg' = [tg EXCEPT !.held = {u \in @ : u >= library.offset}]
  /\ UNCHANGED <<process, chan, pool, handled, dropped>>

\* Its answer: every update held, from the offset on.
Answer ==
  LET new == {u \in tg.held : u >= library.offset} IN
  /\ library.pc = "poll"
  /\ new # {}
  /\ library' = [library EXCEPT !.pc = "push", !.batch = new]
  /\ UNCHANGED <<tg, process, chan, pool, handled, dropped>>

\* Nothing new for 30 seconds, or the answer is lost.
NoAnswer ==
  /\ library.pc = "poll"
  /\ library' = [library EXCEPT !.pc = "ask"]
  /\ UNCHANGED <<tg, process, chan, pool, handled, dropped>>

\* The next of the batch, in order, enters the channel, and the offset moves past it.
Push ==
  /\ library.pc = "push"
  /\ Len(chan) < Buffer
  /\ \E u \in library.batch :
       /\ \A v \in library.batch : u <= v
       /\ chan' = Append(chan, u)
       /\ library' = [library EXCEPT !.offset = u + 1, !.batch = @ \ {u},
                                     !.pc = IF library.batch = {u} THEN "ask" ELSE "push"]
  /\ UNCHANGED <<tg, process, pool, handled, dropped>>

\* The library looks for the stop only between two getUpdates.
Close ==
  /\ library.pc = "ask"
  /\ library.shut
  /\ library' = [library EXCEPT !.pc = "closed"]
  /\ UNCHANGED <<tg, process, chan, pool, handled, dropped>>

\* case update := <-updates
Receive ==
  /\ process.phase = "serving"
  /\ chan # <<>>
  /\ chan' = Tail(chan)
  /\ Dispatched(Head(chan))
  /\ UNCHANGED <<tg, process, library, handled, dropped>>

-----------------------------------------------------------------------------
(* The webhook *)

\* Telegram POSTs u to a process in webhook mode: it is dispatched, and
\* acknowledged unless the answer is lost, in which case it will come again. The
\* route is served from before the registration until the server is shut down.
Post(u, acked) ==
  /\ tg.webhook /\ u \in tg.held
  /\ process.phase # "down" /\ process.mode = "webhook"
  /\ pool.seen[u] + (IF acked THEN 0 ELSE 1) < MaxPosts
  /\ Dispatched(u)
  /\ tg' = IF acked THEN [tg EXCEPT !.held = @ \ {u}] ELSE tg
  /\ UNCHANGED <<process, library, chan, handled, dropped>>

\* Telegram POSTs u to a process that polls: the path has no handler there, and
\* the Mini App, mounted on "/", answers 200 with its page.
Swallow(u) ==
  /\ tg.webhook /\ u \in tg.held
  /\ process.phase # "down" /\ process.mode = "polling"
  /\ tg' = [tg EXCEPT !.held = @ \ {u}]
  /\ dropped' = dropped \cup {u}
  /\ UNCHANGED <<process, library, chan, pool, handled>>

-----------------------------------------------------------------------------
(* The process *)

\* A user writes to the bot.
Send ==
  /\ tg.sent < LastUpdate
  /\ tg' = [tg EXCEPT !.sent = @ + 1, !.held = @ \cup {tg.sent + 1}]
  /\ UNCHANGED <<process, library, chan, pool, handled, dropped>>

\* main, up to the start of the HTTP server. The mode is a matter of configuration.
Boot(mode) ==
  /\ process.phase = "down"
  /\ Spared
  /\ process' = [phase |-> "starting", mode |-> mode, boots |-> process.boots + 1, cancelled |-> FALSE]
  /\ library' = NoLibrary
  /\ pool' = EmptyPool
  /\ UNCHANGED <<tg, chan, handled, dropped>>

\* Run: the webhook of a previous run is removed, or a warning is logged.
StartPolling(cleared) ==
  /\ process.phase = "starting" /\ process.mode = "polling"
  /\ process' = [process EXCEPT !.phase = "serving"]
  /\ library' = [library EXCEPT !.pc = "ask"]
  /\ tg' = [tg EXCEPT !.webhook = @ /\ ~ cleared]
  /\ UNCHANGED <<chan, pool, handled, dropped>>

\* RunWebhook: Telegram is told where to post.
StartWebhook ==
  /\ process.phase = "starting" /\ process.mode = "webhook"
  /\ process' = [process EXCEPT !.phase = "serving"]
  /\ tg' = [tg EXCEPT !.webhook = TRUE]
  /\ UNCHANGED <<library, chan, pool, handled, dropped>>

\* The process is gone, with everything it had in hand.
Gone ==
  /\ process' = [process EXCEPT !.phase = "down"]
  /\ dropped' = dropped \cup InHand
  /\ chan' = <<>>
  /\ library' = NoLibrary
  /\ pool' = EmptyPool
  /\ UNCHANGED handled

\* The registration fails, or only its answer is lost: os.Exit.
RegistrationFails(registered) ==
  /\ Spared
  /\ process.phase = "starting" /\ process.mode = "webhook"
  /\ tg' = [tg EXCEPT !.webhook = @ \/ registered]
  /\ Gone

\* SIGTERM.
Cancel ==
  /\ Spared
  /\ process.phase # "down" /\ ~ process.cancelled
  /\ process' = [process EXCEPT !.cancelled = TRUE]
  /\ UNCHANGED <<tg, library, chan, pool, handled, dropped>>

\* Mutant of NoticeCancel: the library is not told.
NoticeOnly ==
  /\ process.phase = "serving" /\ process.cancelled
  /\ process' = [process EXCEPT !.phase = IF process.mode = "polling" THEN "draining" ELSE "waiting"]
  /\ UNCHANGED <<tg, library, chan, pool, handled, dropped>>

\* case <-ctx.Done(), with StopReceivingUpdates when polling.
NoticeCancel ==
  /\ process.phase = "serving" /\ process.cancelled
  /\ process' = [process EXCEPT !.phase = IF process.mode = "polling" THEN "draining" ELSE "waiting"]
  /\ library' = [library EXCEPT !.shut = (process.mode = "polling")]
  /\ UNCHANGED <<tg, chan, pool, handled, dropped>>

\* for range updates {}: what is still in the channel is thrown away,
Drain ==
  /\ process.phase = "draining"
  /\ chan # <<>>
  /\ chan' = Tail(chan)
  /\ dropped' = dropped \cup {Head(chan)}
  /\ UNCHANGED <<tg, process, library, pool, handled>>

\* until the library has closed it.
Drained ==
  /\ process.phase = "draining"
  /\ chan = <<>> /\ library.pc = "closed"
  /\ process' = [process EXCEPT !.phase = "waiting"]
  /\ UNCHANGED <<tg, library, chan, pool, handled, dropped>>

\* Mutant of Waited: a handler is counted when it has its slot, not before.
LateAdd ==
  /\ process.phase = "waiting"
  /\ pool.running = {}
  /\ process' = [process EXCEPT !.phase = "closing"]
  /\ UNCHANGED <<tg, library, chan, pool, handled, dropped>>

\* wg.Wait returns.
Waited ==
  /\ process.phase = "waiting"
  /\ InFlight = {}
  /\ process' = [process EXCEPT !.phase = "closing"]
  /\ UNCHANGED <<tg, library, chan, pool, handled, dropped>>

\* The deferred calls of main: the server, then the pool of connections.
Exit ==
  /\ process.phase = "closing"
  /\ Gone
  /\ UNCHANGED tg

\* The process is killed.
Die ==
  /\ Spared
  /\ process.phase # "down"
  /\ Gone
  /\ UNCHANGED tg

-----------------------------------------------------------------------------

Init ==
  /\ tg = [sent |-> 0, held |-> {}, webhook |-> FALSE]
  /\ process = [phase |-> "down", mode |-> "polling", boots |-> 0, cancelled |-> FALSE]
  /\ library = NoLibrary
  /\ chan = <<>>
  /\ pool = EmptyPool
  /\ handled = {} /\ dropped = {}

LibraryStep == Ask \/ Answer \/ NoAnswer \/ Push \/ Close
StartStep == StartWebhook \/ \E cleared \in BOOLEAN : StartPolling(cleared)
StopStep == NoticeCancel \/ Drain \/ Drained \/ Waited \/ Exit

Next ==
  \/ Send \/ Cancel \/ Die
  \/ \E mode \in {"polling", "webhook"} : Boot(mode)
  \/ \E registered \in BOOLEAN : RegistrationFails(registered)
  \/ StartStep \/ StopStep
  \/ LibraryStep \/ Receive
  \/ \E u \in Update : Swallow(u) \/ \E acked \in BOOLEAN : Post(u, acked)
  \/ \E j \in Job : Take(j) \/ Finish(j)

Spec == Init /\ [][Next]_vars

\* The platform starts a process that has ended, its start-up calls answer,
\* goroutines run, handlers end, and a call that is made again and again reaches
\* its goal some day.
FairSpec ==
  /\ Spec
  /\ WF_vars(\E mode \in {"polling", "webhook"} : Boot(mode))
  /\ WF_vars(StartStep) /\ WF_vars(StopStep)
  /\ WF_vars(LibraryStep) /\ SF_vars(Answer) /\ WF_vars(Receive)
  /\ \A u \in Update : SF_vars(Post(u, TRUE)) /\ SF_vars(Swallow(u))
  /\ \A j \in Job : SF_vars(Take(j)) /\ WF_vars(Finish(j))

-----------------------------------------------------------------------------
(* Properties *)

TypeOK ==
  /\ tg \in Telegram
  /\ process \in Process
  /\ library \in Library
  /\ chan \in Seq(Update) /\ Len(chan) <= Buffer
  /\ pool \in Pool
  /\ handled \subseteq Update /\ dropped \subseteq Update

\* A polling process that stops in order has no handler in flight when it goes on
\* to close the database: none that runs, none that waits for a slot
\* (bot.go:81-82, 92-95). Webhook mode does not promise it: its HTTP server takes
\* updates in while wg.Wait has already returned.
CleanStop == process.phase = "closing" /\ process.mode = "polling" => InFlight = {}

\* What Telegram has forgotten was handled, or is in hand, or was thrown away by a
\* shutdown, a death or the Mini App's route: nothing disappears in between,
\* however busy the handlers are (bot.go:78-90, webhook.go:57-59).
Accounted ==
  \A u \in 1 .. tg.sent : u \in tg.held \cup handled \cup dropped \cup InHand

\* As long as the last process stays up, every update is settled: Telegram has
\* forgotten it, and it was handled or, by an earlier process or the Mini App's
\* route, thrown away.
EveryUpdateSettled ==
  \A u \in Update : u <= tg.sent ~> u \notin tg.held /\ u \in handled \cup dropped

\* A shutdown ends, although the library answers it only after its long poll and
\* handlers may be waiting for slots.
StopEnds == process.cancelled ~> process.phase = "down"
=============================================================================
