-------------------------- MODULE UpdateDeliveryProofs --------------------------
(***************************************************************************)
(* Theorems about UpdateDelivery for any number of updates, slots, starts  *)
(* and any buffer. The inductive invariant Tracked follows an update from  *)
(* Telegram to its handler:                                                *)
(*   Offsets     what the library's offset and batch say of what Telegram  *)
(*               holds                                                     *)
(*   Slotted     slots given out and free ones add up, and no goroutine is *)
(*               in two places                                             *)
(*   OncePolled  what a polling process has taken lies before the offset,  *)
(*               and is taken once                                         *)
(*   Quiet       a process that is down has nothing in hand, and one that  *)
(*               serves the webhook does not poll                          *)
(***************************************************************************)
EXTENDS UpdateDelivery, FiniteSetTheorems, TLAPS

Offsets ==
  /\ tg.held \subseteq 1 .. tg.sent
  /\ library.offset <= tg.sent + 1
  /\ library.batch \subseteq 1 .. tg.sent
  /\ \A b \in library.batch : library.offset <= b
  /\ \A b \in library.batch, u \in tg.held : library.offset <= u /\ u <= b => u \in library.batch
  /\ library.pc # "push" => library.batch = {}

Slotted ==
  /\ IsFiniteSet(pool.running) /\ Cardinality(pool.running) + pool.free = Slots
  /\ pool.waiting \cap pool.running = {}
  /\ \A j \in InFlight : j[2] <= pool.seen[j[1]]

OncePolled ==
  process.mode = "polling" =>
    /\ \A u \in Update : library.offset <= u => pool.seen[u] = 0
    /\ \A i \in DOMAIN chan : chan[i] < library.offset /\ pool.seen[chan[i]] = 0
    /\ \A i, k \in DOMAIN chan : i < k => chan[i] # chan[k]

Quiet ==
  /\ process.phase = "down" => InFlight = {}
  /\ process.phase = "down" \/ process.mode = "webhook" => chan = <<>> /\ library.pc = "none"
  /\ process.phase = "starting" => library.pc = "none"

Tracked == TypeOK /\ Offsets /\ Slotted /\ OncePolled /\ Quiet

-----------------------------------------------------------------------------
(* Sequences, slots and the empty process *)

\* What Append and Tail do to a channel.
LEMMA Appended ==
  ASSUME NEW s \in Seq(Update), NEW u \in Update
  PROVE  /\ Append(s, u) \in Seq(Update) /\ Len(Append(s, u)) = Len(s) + 1
         /\ \A i \in DOMAIN Append(s, u) : \/ i \in DOMAIN s /\ Append(s, u)[i] = s[i]
                                           \/ i = Len(s) + 1 /\ Append(s, u)[i] = u
         /\ \A i \in DOMAIN s : i \in DOMAIN Append(s, u) /\ Append(s, u)[i] = s[i] /\ i < Len(s) + 1
         /\ Len(s) + 1 \in DOMAIN Append(s, u) /\ Append(s, u)[Len(s) + 1] = u
OBVIOUS

LEMMA Shifted ==
  ASSUME NEW s \in Seq(Update), s # <<>>
  PROVE  /\ Tail(s) \in Seq(Update) /\ Len(Tail(s)) = Len(s) - 1 /\ Len(s) \in Nat
         /\ 1 \in DOMAIN s /\ Head(s) = s[1] /\ Head(s) \in Update
         /\ \A i \in DOMAIN Tail(s) : i + 1 \in DOMAIN s /\ Tail(s)[i] = s[i + 1] /\ 1 < i + 1
         /\ \A i \in DOMAIN s : i = 1 \/ (i - 1 \in DOMAIN Tail(s) /\ Tail(s)[i - 1] = s[i])
OBVIOUS

\* A process that has just started, or has ended, has nothing in hand.
LEMMA EmptyIsTyped ==
  /\ EmptyPool \in Pool /\ NoLibrary \in Library
  /\ EmptyPool.waiting = {} /\ EmptyPool.running = {} /\ EmptyPool.free = Slots
  /\ \A u \in Update : EmptyPool.seen[u] = 0
  /\ NoLibrary.pc = "none" /\ NoLibrary.offset = 1 /\ NoLibrary.batch = {}
  /\ IsFiniteSet({}) /\ Cardinality({}) + Slots = Slots
<1>1. EmptyPool \in Pool
  BY DeliveryAssumption DEF EmptyPool, Pool
<1>2. NoLibrary \in Library
  BY DeliveryAssumption DEF NoLibrary, Library
<1>3. IsFiniteSet({}) /\ Cardinality({}) + Slots = Slots
  BY FS_EmptySet, DeliveryAssumption
<1> QED BY <1>1, <1>2, <1>3 DEF EmptyPool, NoLibrary

\* What dispatch does to the goroutines.
LEMMA DispatchAdds ==
  ASSUME TypeOK, Slotted, NEW u \in Update, pool.seen[u] < MaxPosts, Dispatched(u)
  PROVE  /\ pool' \in Pool /\ Slotted'
         /\ pool'.seen = [pool.seen EXCEPT ![u] = pool.seen[u] + 1]
         /\ InFlight' = InFlight \cup {<<u, pool.seen[u] + 1>>}
<1>1. /\ pool.seen \in [Update -> 0 .. MaxPosts] /\ pool.waiting \subseteq Job
      /\ pool.running \subseteq Job /\ pool.free \in 0 .. Slots
  BY DEF TypeOK, Pool
<1> DEFINE n == pool.seen[u] + 1
           j == <<u, n>>
<1>2. n \in 1 .. MaxPosts /\ j \in Job
  BY <1>1, DeliveryAssumption DEF Job
<1>3. pool' = [pool EXCEPT !.seen[u] = n, !.waiting = pool.waiting \cup {j}]
  BY DEF Dispatched
<1>4. /\ pool'.seen = [pool.seen EXCEPT ![u] = n] /\ pool'.waiting = pool.waiting \cup {j}
      /\ pool'.running = pool.running /\ pool'.free = pool.free
  BY <1>3 DEF TypeOK, Pool
<1>5. pool' \in Pool
  <2>1. [pool.seen EXCEPT ![u] = n] \in [Update -> 0 .. MaxPosts]
    BY <1>1, <1>2
  <2>2. pool.waiting \cup {j} \in SUBSET Job
    BY <1>1, <1>2
  <2>3. pool' = [seen |-> [pool.seen EXCEPT ![u] = n], waiting |-> pool.waiting \cup {j},
                 running |-> pool.running, free |-> pool.free]
    BY <1>3 DEF TypeOK, Pool
  <2> HIDE DEF j, n
  <2> QED BY <1>1, <2>1, <2>2, <2>3 DEF Pool
<1>6. InFlight' = InFlight \cup {j}
  BY <1>4 DEF InFlight
<1>7. j \notin InFlight
  BY <1>1 DEF Slotted
<1>8. Slotted'
  <2>1. \A k \in InFlight' : k[2] <= pool'.seen[k[1]]
    <3> SUFFICES ASSUME NEW k \in InFlight' PROVE k[2] <= pool'.seen[k[1]]
      OBVIOUS
    <3>1. CASE k = j
      BY <1>1, <1>2, <1>4, <3>1
    <3>2. CASE k \in InFlight
      <4>1. k \in Job /\ k[1] \in Update /\ k[2] \in 1 .. MaxPosts /\ k[2] <= pool.seen[k[1]]
        BY <1>1, <3>2 DEF InFlight, Job, Slotted
      <4>2. pool'.seen[k[1]] = IF k[1] = u THEN pool.seen[u] + 1 ELSE pool.seen[k[1]]
        BY <1>1, <1>4, <4>1
      <4> QED BY <1>1, <4>1, <4>2
    <3> QED BY <1>6, <3>1, <3>2
  <2>2. pool'.waiting \cap pool'.running = {}
    BY <1>4, <1>7 DEF Slotted, InFlight
  <2> QED BY <1>4, <2>1, <2>2 DEF Slotted
<1> QED BY <1>4, <1>5, <1>6, <1>8
-----------------------------------------------------------------------------
(* Tracked is inductive *)

LEMMA TrackedInit == Init => Tracked
<1> SUFFICES ASSUME Init PROVE Tracked
  OBVIOUS
<1>0. pool = EmptyPool /\ library = NoLibrary /\ chan = <<>> /\ <<>> \in Seq(Update) /\ Len(<<>>) = 0
  BY DEF Init
<1>1. InFlight = {}
  BY <1>0, EmptyIsTyped DEF InFlight
<1>2. TypeOK
  BY <1>0, EmptyIsTyped, DeliveryAssumption DEF Init, TypeOK, Telegram, Process, Phase
<1>3. Offsets
  BY <1>0, EmptyIsTyped DEF Init, Offsets
<1>4. Slotted
  BY <1>0, <1>1, EmptyIsTyped DEF Slotted
<1>5. OncePolled
  BY <1>0, EmptyIsTyped DEF OncePolled
<1>6. Quiet
  BY <1>0, <1>1, EmptyIsTyped DEF Quiet
<1> QED BY <1>2, <1>3, <1>4, <1>5, <1>6 DEF Tracked

\* The process ends, at whatever point.
LEMMA GoneTracked ==
  ASSUME Tracked, Gone, tg' \in Telegram, tg'.held = tg.held, tg'.sent = tg.sent
  PROVE  Tracked'
<1>0. /\ pool' = EmptyPool /\ library' = NoLibrary /\ chan' = <<>> /\ <<>> \in Seq(Update) /\ Len(<<>>) = 0
      /\ process' = [process EXCEPT !.phase = "down"] /\ handled' = handled /\ dropped' = dropped \cup InHand
  BY DEF Gone
<1>1. InFlight' = {}
  BY <1>0, EmptyIsTyped DEF InFlight
<1>2. TypeOK'
  <2>1. process' \in Process
    BY <1>0 DEF Tracked, TypeOK, Process, Phase
  <2>2. InHand \subseteq Update
    <3>1. UpdatesOf(InFlight) \subseteq Update
      BY DEF Tracked, TypeOK, Pool, UpdatesOf, InFlight, Job
    <3>2. {chan[i] : i \in DOMAIN chan} \subseteq Update
      BY DEF Tracked, TypeOK
    <3> QED BY <3>1, <3>2 DEF InHand
  <2> QED BY <1>0, <2>1, <2>2, EmptyIsTyped, DeliveryAssumption DEF Tracked, TypeOK
<1>3. Offsets'
  BY <1>0, EmptyIsTyped DEF Tracked, TypeOK, Telegram, Offsets
<1>4. Slotted'
  BY <1>0, <1>1, EmptyIsTyped DEF Slotted
<1>5. OncePolled'
  BY <1>0, EmptyIsTyped DEF OncePolled
<1>6. Quiet'
  BY <1>0, <1>1, EmptyIsTyped DEF Quiet
<1> QED BY <1>2, <1>3, <1>4, <1>5, <1>6 DEF Tracked

\* A step of main, of the signal or of Telegram that leaves library, channel and
\* goroutines alone, or only tells the library to stop.
LEMMA MainTracked ==
  ASSUME Tracked, process' \in Process, process'.mode = process.mode,
         process'.phase \in {"down", "starting"} => process.phase = process'.phase,
         library' \in Library, library'.pc = library.pc, library'.offset = library.offset,
         library'.batch = library.batch,
         UNCHANGED <<chan, pool>>, handled' \subseteq Update, dropped' \subseteq Update,
         tg' \in Telegram, tg'.held \subseteq tg.held, tg'.sent = tg.sent
  PROVE  Tracked'
<1>1. TypeOK'
  BY DEF Tracked, TypeOK
<1>2. Offsets'
  BY DEF Tracked, Offsets
<1>3. Slotted'
  BY DEF Tracked, Slotted, InFlight
<1>4. OncePolled'
  BY DEF Tracked, OncePolled
<1>5. Quiet'
  BY DEF Tracked, Quiet, InFlight
<1> QED BY <1>1, <1>2, <1>3, <1>4, <1>5 DEF Tracked

\* A step of the library that takes nothing.
LEMMA LibraryTracked ==
  ASSUME Tracked, library' \in Library, library'.offset = library.offset, Offsets',
         library.pc # "none", UNCHANGED <<process, chan, pool, handled, dropped>>, tg' \in Telegram
  PROVE  Tracked'
<1>1. TypeOK'
  BY DEF Tracked, TypeOK
<1>2. Slotted' /\ OncePolled'
  BY DEF Tracked, Slotted, OncePolled, InFlight
<1>3. Quiet'
  BY DEF Tracked, Quiet, InFlight
<1> QED BY <1>1, <1>2, <1>3 DEF Tracked

LEMMA TrackedStop ==
  ASSUME Tracked, StopStep \/ Cancel \/ Die \/ \E registered \in BOOLEAN : RegistrationFails(registered)
  PROVE  Tracked'
<1>0. TypeOK /\ tg \in Telegram /\ process \in Process /\ library \in Library
  BY DEF Tracked, TypeOK
<1>1. CASE Exit \/ Die
  BY <1>0, <1>1, GoneTracked DEF Exit, Die
<1>2. ASSUME NEW registered \in BOOLEAN, RegistrationFails(registered) PROVE Tracked'
  <2>1. tg' \in Telegram /\ tg'.held = tg.held /\ tg'.sent = tg.sent
    BY <1>0, <1>2 DEF RegistrationFails, Telegram
  <2> QED BY <1>2, <2>1, GoneTracked DEF RegistrationFails
<1>3. CASE Cancel \/ Waited \/ Drained
  <2>1. process' \in Process /\ process'.mode = process.mode /\ process.phase # "down"
    BY <1>0, <1>3 DEF Cancel, Waited, Drained, Process, Phase
  <2>2. UNCHANGED <<tg, library, chan, pool, handled, dropped>>
    BY <1>3 DEF Cancel, Waited, Drained
  <2>3. process'.phase \in {"down", "starting"} => process.phase = process'.phase
    BY <1>0, <1>3 DEF Cancel, Waited, Drained, Process
  <2> QED BY <1>0, <2>1, <2>2, <2>3, MainTracked DEF TypeOK
<1>4. CASE NoticeCancel
  <2>1. process' \in Process /\ process'.mode = process.mode /\ process'.phase \notin {"down", "starting"}
    BY <1>0, <1>4 DEF NoticeCancel, Process, Phase
  <2>2. library' \in Library /\ library'.pc = library.pc /\ library'.offset = library.offset
        /\ library'.batch = library.batch
    BY <1>0, <1>4 DEF NoticeCancel, Library
  <2> QED BY <1>0, <1>4, <2>1, <2>2, MainTracked DEF NoticeCancel, TypeOK
<1>5. CASE Drain
  <2>1. /\ chan \in Seq(Update) /\ chan # <<>> /\ chan' = Tail(chan) /\ dropped' = dropped \cup {Head(chan)}
        /\ UNCHANGED <<tg, process, library, pool, handled>> /\ process.phase = "draining"
    BY <1>0, <1>5 DEF Drain, TypeOK
  <2>2. TypeOK'
    BY <1>0, <2>1, Shifted, DeliveryAssumption DEF TypeOK
  <2>3. OncePolled'
    <3>1. \A i \in DOMAIN chan' : i + 1 \in DOMAIN chan /\ chan'[i] = chan[i + 1] /\ i \in Int
      BY <2>1, Shifted
    <3>2. ASSUME process.mode = "polling" PROVE OncePolled'
      <4>1. \A i \in DOMAIN chan' : chan'[i] < library.offset /\ pool.seen[chan'[i]] = 0
        BY <3>1, <3>2 DEF Tracked, OncePolled
      <4>2. \A i, k \in DOMAIN chan' : i < k => chan'[i] # chan'[k]
        <5> TAKE i, k \in DOMAIN chan'
        <5> HAVE i < k
        <5>1. i + 1 < k + 1
          BY <3>1
        <5> QED BY <3>1, <3>2, <5>1 DEF Tracked, OncePolled
      <4> QED BY <2>1, <3>2, <4>1, <4>2 DEF Tracked, OncePolled
    <3> QED BY <2>1, <3>2 DEF OncePolled
  <2>4. Quiet'
    BY <2>1 DEF Tracked, Quiet, InFlight
  <2> QED BY <2>1, <2>2, <2>3, <2>4 DEF Tracked, Offsets, Slotted, InFlight
<1> QED BY <1>1, <1>2, <1>3, <1>4, <1>5 DEF StopStep
LEMMA TrackedStart ==
  ASSUME Tracked, StartStep \/ Send \/ \E mode \in {"polling", "webhook"} : Boot(mode)
  PROVE  Tracked'
<1>0. TypeOK /\ tg \in Telegram /\ process \in Process /\ library \in Library
  BY DEF Tracked, TypeOK
<1>1. ASSUME NEW mode \in {"polling", "webhook"}, Boot(mode) PROVE Tracked'
  <2>1. /\ pool' = EmptyPool /\ library' = NoLibrary /\ UNCHANGED <<tg, chan, handled, dropped>>
        /\ process'.phase = "starting" /\ chan = <<>>
    BY <1>1 DEF Boot, Tracked, Quiet
  <2>2. process' \in Process
    BY <1>0, <1>1, DeliveryAssumption DEF Boot, Spared, Process, Phase
  <2>3. InFlight' = {}
    BY <2>1, EmptyIsTyped DEF InFlight
  <2>4. TypeOK'
    BY <1>0, <2>1, <2>2, EmptyIsTyped DEF TypeOK
  <2>5. Offsets'
    BY <1>0, <2>1, EmptyIsTyped DEF Tracked, Offsets, Telegram
  <2>6. Slotted' /\ OncePolled' /\ Quiet'
    BY <2>1, <2>3, EmptyIsTyped DEF Slotted, OncePolled, Quiet
  <2> QED BY <2>4, <2>5, <2>6 DEF Tracked
<1>2. CASE StartWebhook
  <2>1. process' \in Process /\ process'.mode = process.mode /\ process'.phase \notin {"down", "starting"}
    BY <1>0, <1>2 DEF StartWebhook, Process, Phase
  <2>2. tg' \in Telegram /\ tg'.held = tg.held /\ tg'.sent = tg.sent
    BY <1>0, <1>2 DEF StartWebhook, Telegram
  <2> QED BY <1>0, <1>2, <2>1, <2>2, MainTracked DEF StartWebhook, TypeOK
<1>3. ASSUME NEW cleared \in BOOLEAN, StartPolling(cleared) PROVE Tracked'
  <2>1. process' \in Process /\ process'.mode = "polling" /\ process.mode = "polling" /\ process'.phase = "serving"
    BY <1>0, <1>3 DEF StartPolling, Process, Phase
  <2>2. tg' \in Telegram /\ tg'.held = tg.held /\ tg'.sent = tg.sent
    BY <1>0, <1>3 DEF StartPolling, Telegram
  <2>3. /\ library' \in Library /\ library'.pc = "ask" /\ library'.offset = library.offset
        /\ library'.batch = library.batch /\ UNCHANGED <<chan, pool, handled, dropped>>
    BY <1>0, <1>3 DEF StartPolling, Library
  <2>4. library.batch = {}
    BY <1>3 DEF Tracked, StartPolling, Quiet, Offsets
  <2>5. TypeOK'
    BY <1>0, <2>1, <2>2, <2>3 DEF TypeOK
  <2>6. Offsets'
    BY <2>2, <2>3, <2>4 DEF Tracked, Offsets
  <2>7. Slotted' /\ Quiet'
    BY <2>1, <2>3 DEF Tracked, Slotted, Quiet, InFlight
  <2>8. OncePolled'
    BY <2>1, <2>3 DEF Tracked, OncePolled
  <2> QED BY <2>5, <2>6, <2>7, <2>8 DEF Tracked
<1>4. CASE Send
  <2>1. /\ tg.sent \in Nat /\ tg.sent < LastUpdate /\ tg' \in Telegram /\ tg'.sent = tg.sent + 1
        /\ tg'.held = tg.held \cup {tg.sent + 1} /\ UNCHANGED <<process, library, chan, pool, handled, dropped>>
    <3>1. tg.sent \in 0 .. LastUpdate /\ tg.held \subseteq Update /\ tg.webhook \in BOOLEAN
      BY <1>0 DEF Telegram
    <3>2. tg.sent + 1 \in Update /\ tg.sent + 1 \in 0 .. LastUpdate
      BY <1>4, <3>1, DeliveryAssumption DEF Send, Update
    <3>3. tg' = [sent |-> tg.sent + 1, held |-> tg.held \cup {tg.sent + 1}, webhook |-> tg.webhook]
      BY <1>0, <1>4 DEF Send, Telegram
    <3>4. tg' \in Telegram
      BY <3>1, <3>2, <3>3 DEF Telegram
    <3> QED BY <1>4, <3>1, <3>3, <3>4 DEF Send
  <2>2. TypeOK'
    BY <1>0, <2>1 DEF TypeOK
  <2>3. Offsets'
    <3>1. library.offset \in Nat
      BY <1>0 DEF Library
    <3> QED BY <2>1, <3>1 DEF Tracked, Offsets
  <2> QED BY <2>1, <2>2, <2>3 DEF Tracked, Slotted, OncePolled, Quiet, InFlight
<1> QED BY <1>1, <1>2, <1>3, <1>4 DEF StartStep

LEMMA TrackedPool ==
  ASSUME Tracked, NEW j \in Job, Take(j) \/ Finish(j)
  PROVE  Tracked'
<1>0. /\ TypeOK /\ pool.seen \in [Update -> 0 .. MaxPosts] /\ pool.waiting \subseteq Job
      /\ pool.running \subseteq Job /\ pool.free \in 0 .. Slots /\ j[1] \in Update
  BY DEF Tracked, TypeOK, Pool, Job
<1>1. UNCHANGED <<tg, process, library, chan, dropped>> /\ handled' \subseteq Update
  BY <1>0 DEF Take, Finish, TypeOK
<1>2. IsFiniteSet(pool.running) /\ Cardinality(pool.running) \in Nat
  BY FS_CardinalityType DEF Tracked, Slotted
<1>3. CASE Take(j)
  <2>1. /\ j \in pool.waiting /\ j \notin pool.running /\ pool.free > 0
        /\ pool'.seen = pool.seen /\ pool'.waiting = pool.waiting \ {j}
        /\ pool'.running = pool.running \cup {j} /\ pool'.free = pool.free - 1
        /\ pool' = [seen |-> pool.seen, waiting |-> pool.waiting \ {j}, running |-> pool.running \cup {j},
                    free |-> pool.free - 1]
    BY <1>0, <1>3 DEF Take, Tracked, TypeOK, Slotted, Pool
  <2>2. pool' \in Pool
    <3>1. pool.free - 1 \in 0 .. Slots
      BY <1>0, <2>1, DeliveryAssumption
    <3> QED BY <1>0, <2>1, <3>1 DEF Pool
  <2>3. IsFiniteSet(pool'.running) /\ Cardinality(pool'.running) = Cardinality(pool.running) + 1
    BY <1>2, <2>1, FS_AddElement
  <2>4. InFlight' = InFlight
    BY <2>1 DEF InFlight
  <2>5. Slotted'
    BY <1>0, <1>2, <2>1, <2>3, <2>4, DeliveryAssumption DEF Tracked, Slotted
  <2> QED BY <1>0, <1>1, <2>1, <2>2, <2>4, <2>5 DEF Tracked, TypeOK, Offsets, OncePolled, Quiet
<1>4. CASE Finish(j)
  <2>1. /\ j \in pool.running
        /\ pool'.seen = pool.seen /\ pool'.waiting = pool.waiting
        /\ pool'.running = pool.running \ {j} /\ pool'.free = pool.free + 1
        /\ pool' = [seen |-> pool.seen, waiting |-> pool.waiting, running |-> pool.running \ {j},
                    free |-> pool.free + 1]
    BY <1>0, <1>4 DEF Finish, Tracked, TypeOK, Slotted, Pool
  <2>2. /\ IsFiniteSet(pool'.running) /\ Cardinality(pool'.running) = Cardinality(pool.running) - 1
        /\ Cardinality(pool'.running) \in Nat
    BY <1>2, <2>1, FS_RemoveElement, FS_CardinalityType
  <2>3. pool' \in Pool
    <3>1. pool.free + 1 \in 0 .. Slots
      BY <1>0, <1>2, <2>2, DeliveryAssumption DEF Tracked, Slotted
    <3> QED BY <1>0, <2>1, <3>1 DEF Pool
  <2>4. InFlight' \subseteq InFlight
    BY <2>1 DEF InFlight
  <2>5. Slotted'
    BY <1>0, <1>2, <2>1, <2>2, <2>4, DeliveryAssumption DEF Tracked, Slotted
  <2>6. Quiet'
    BY <1>1, <2>4 DEF Tracked, Quiet
  <2> QED BY <1>0, <1>1, <2>1, <2>3, <2>5, <2>6 DEF Tracked, TypeOK, Offsets, OncePolled
<1> QED BY <1>3, <1>4
LEMMA TrackedPolling ==
  ASSUME Tracked, LibraryStep \/ Receive
  PROVE  Tracked'
<1>0. /\ TypeOK /\ tg \in Telegram /\ process \in Process /\ library \in Library /\ chan \in Seq(Update)
      /\ tg.sent \in 0 .. LastUpdate /\ tg.held \subseteq Update /\ library.offset \in 1 .. LastUpdate + 1
      /\ library.batch \subseteq Update /\ pool.seen \in [Update -> 0 .. MaxPosts]
  BY DEF Tracked, TypeOK, Telegram, Library, Pool
<1>1. CASE Ask
  <2>1. /\ tg' \in Telegram /\ tg'.held \subseteq tg.held /\ tg'.sent = tg.sent
        /\ UNCHANGED <<process, chan, pool, handled, dropped>>
    BY <1>0, <1>1 DEF Ask, Telegram
  <2>2. /\ library' \in Library /\ library'.pc = "poll" /\ library'.offset = library.offset
        /\ library'.batch = library.batch /\ library.pc = "ask"
    BY <1>0, <1>1 DEF Ask, Library
  <2> QED BY <1>0, <2>1, <2>2, LibraryTracked DEF Tracked, Offsets
<1>2. CASE Answer
  <2> DEFINE new == {u \in tg.held : u >= library.offset}
  <2>1. /\ library' \in Library /\ library'.pc = "push" /\ library'.offset = library.offset
        /\ library'.batch = new /\ library.pc = "poll" /\ UNCHANGED <<tg, process, chan, pool, handled, dropped>>
    BY <1>0, <1>2 DEF Answer, Library
  <2>2. Offsets'
    BY <1>0, <2>1 DEF Tracked, Offsets
  <2> QED BY <1>0, <2>1, <2>2, LibraryTracked
<1>3. CASE NoAnswer \/ Close
  <2>1. /\ library' \in Library /\ library'.pc \in {"ask", "closed"} /\ library'.offset = library.offset
        /\ library'.batch = library.batch /\ library.pc \in {"poll", "ask"}
        /\ UNCHANGED <<tg, process, chan, pool, handled, dropped>>
    BY <1>0, <1>3 DEF NoAnswer, Close, Library
  <2>2. Offsets'
    BY <2>1 DEF Tracked, Offsets
  <2> QED BY <1>0, <2>1, <2>2, LibraryTracked
<1>4. CASE Push
  <2>1. PICK u \in library.batch :
          /\ \A v \in library.batch : u <= v
          /\ chan' = Append(chan, u)
          /\ library' = [library EXCEPT !.offset = u + 1, !.batch = library.batch \ {u},
                                        !.pc = IF library.batch = {u} THEN "ask" ELSE "push"]
    BY <1>4 DEF Push
  <2>2. u \in Update /\ u \in 1 .. tg.sent /\ library.offset <= u /\ u + 1 \in 1 .. LastUpdate + 1
    BY <1>0, <2>1, DeliveryAssumption DEF Tracked, Offsets, Update
  <2>3. /\ library' \in Library /\ library'.offset = u + 1 /\ library'.batch = library.batch \ {u}
        /\ library'.pc = (IF library.batch = {u} THEN "ask" ELSE "push") /\ library.pc = "push"
        /\ Len(chan) < Buffer /\ UNCHANGED <<tg, process, pool, handled, dropped>>
    BY <1>0, <1>4, <2>1, <2>2 DEF Push, Library
  <2>4. TypeOK'
    BY <1>0, <2>1, <2>2, <2>3, Appended, DeliveryAssumption DEF TypeOK
  <2>5. Offsets'
    <3>1. library'.offset <= tg.sent + 1
      BY <1>0, <2>2, <2>3
    <3>2. \A b \in library'.batch : b \in library.batch /\ library'.offset <= b
      <4> TAKE b \in library'.batch
      <4>1. b \in library.batch /\ b # u /\ b \in Nat /\ u \in Nat /\ u <= b
        BY <1>0, <2>1, <2>2, <2>3 DEF Update
      <4> QED BY <2>3, <4>1
    <3>3. \A b \in library'.batch, v \in tg.held : library'.offset <= v /\ v <= b => v \in library'.batch
      BY <1>0, <2>1, <2>2, <2>3, <3>2 DEF Tracked, Offsets
    <3>4. library'.pc # "push" => library'.batch = {}
      BY <2>3
    <3> QED BY <2>3, <3>1, <3>2, <3>3, <3>4 DEF Tracked, Offsets
  <2>6. OncePolled'
    <3> SUFFICES ASSUME process.mode = "polling"
                 PROVE  /\ \A v \in Update : library'.offset <= v => pool.seen[v] = 0
                        /\ \A i \in DOMAIN chan' : chan'[i] < library'.offset /\ pool.seen[chan'[i]] = 0
                        /\ \A i, k \in DOMAIN chan' : i < k => chan'[i] # chan'[k]
      BY <2>3 DEF OncePolled
    <3>1. \A v \in Update : library.offset <= v => pool.seen[v] = 0
      BY DEF Tracked, OncePolled
    <3>2. \A v \in Update : library'.offset <= v => pool.seen[v] = 0
      BY <1>0, <2>2, <2>3, <3>1 DEF Update
    <3>3. \A i \in DOMAIN chan : chan[i] \in Update /\ chan[i] < library.offset /\ pool.seen[chan[i]] = 0
      BY <1>0 DEF Tracked, OncePolled
    <3>4. \A i \in DOMAIN chan' : \/ i \in DOMAIN chan /\ chan'[i] = chan[i]
                                  \/ i = Len(chan) + 1 /\ chan'[i] = u
      BY <1>0, <2>1, <2>2, Appended
    <3>5. \A i \in DOMAIN chan' : chan'[i] < library'.offset /\ pool.seen[chan'[i]] = 0
      <4> TAKE i \in DOMAIN chan'
      <4>1. CASE i \in DOMAIN chan /\ chan'[i] = chan[i]
        BY <1>0, <2>2, <2>3, <3>3, <4>1 DEF Update
      <4>2. CASE chan'[i] = u
        BY <2>2, <2>3, <3>1, <4>2 DEF Update
      <4> QED BY <3>4, <4>1, <4>2
    <3>6. \A i, k \in DOMAIN chan' : i < k => chan'[i] # chan'[k]
      <4> TAKE i, k \in DOMAIN chan'
      <4> HAVE i < k
      <4>1. \A m \in DOMAIN chan : m < Len(chan) + 1 /\ m \in Nat
        BY <1>0
      <4>2. i \in DOMAIN chan /\ chan'[i] = chan[i]
        BY <1>0, <3>4, <4>1
      <4>3. CASE k \in DOMAIN chan /\ chan'[k] = chan[k]
        BY <4>2, <4>3 DEF Tracked, OncePolled
      <4>4. CASE chan'[k] = u
        <5>1. chan[i] < library.offset
          BY <3>3, <4>2
        <5> QED BY <1>0, <2>2, <3>3, <4>2, <4>4, <5>1 DEF Update
      <4> QED BY <3>4, <4>3, <4>4
    <3> QED BY <3>2, <3>5, <3>6
  <2>7. Quiet'
    BY <2>3 DEF Tracked, Quiet
  <2> QED BY <2>3, <2>4, <2>5, <2>6, <2>7 DEF Tracked, Slotted, InFlight
<1>5. CASE Receive
  <2> DEFINE u == Head(chan)
  <2>1. /\ process.phase = "serving" /\ chan # <<>> /\ chan' = Tail(chan) /\ Dispatched(u)
        /\ UNCHANGED <<tg, process, library, handled, dropped>>
    BY <1>5 DEF Receive
  <2>2. process.mode = "polling"
    BY <1>0, <2>1 DEF Tracked, Quiet, Process
  <2>3. u \in Update /\ u < library.offset /\ pool.seen[u] = 0
    BY <1>0, <2>1, <2>2, Shifted DEF Tracked, OncePolled
  <2>4. /\ pool' \in Pool /\ Slotted' /\ pool'.seen = [pool.seen EXCEPT ![u] = pool.seen[u] + 1]
        /\ InFlight' = InFlight \cup {<<u, pool.seen[u] + 1>>}
    <3>1. pool.seen[u] < MaxPosts /\ Slotted /\ Dispatched(u)
      BY <2>1, <2>3, DeliveryAssumption DEF Tracked
    <3> HIDE DEF u
    <3> QED BY <1>0, <2>3, <3>1, DispatchAdds
  <2>5. TypeOK'
    BY <1>0, <2>1, <2>4, Shifted, DeliveryAssumption DEF TypeOK
  <2>6. OncePolled'
    <3>1. \A v \in Update : v # u => pool'.seen[v] = pool.seen[v]
      BY <1>0, <2>3, <2>4
    <3>2. \A v \in Update : library.offset <= v => pool'.seen[v] = 0
      BY <1>0, <2>2, <2>3, <3>1 DEF Tracked, OncePolled, Update
    <3>3. \A i \in DOMAIN chan' : i + 1 \in DOMAIN chan /\ chan'[i] = chan[i + 1] /\ 1 < i + 1 /\ i \in Int
      BY <1>0, <2>1, Shifted
    <3>4. u = chan[1] /\ 1 \in DOMAIN chan
      BY <1>0, <2>1, Shifted
    <3>5. \A i \in DOMAIN chan' : chan'[i] < library.offset /\ pool'.seen[chan'[i]] = 0
      <4> TAKE i \in DOMAIN chan'
      <4>1. chan[i + 1] \in Update /\ chan[i + 1] # u
        BY <1>0, <2>2, <3>3, <3>4 DEF Tracked, OncePolled
      <4> QED BY <2>2, <3>1, <3>3, <4>1 DEF Tracked, OncePolled
    <3>6. \A i, k \in DOMAIN chan' : i < k => chan'[i] # chan'[k]
      <4> TAKE i, k \in DOMAIN chan'
      <4> HAVE i < k
      <4>1. i + 1 < k + 1
        BY <3>3
      <4> QED BY <2>2, <3>3, <4>1 DEF Tracked, OncePolled
    <3> QED BY <2>1, <2>2, <3>2, <3>5, <3>6 DEF OncePolled
  <2>7. Quiet'
    BY <2>1, <2>2 DEF Tracked, Quiet
  <2> QED BY <2>1, <2>4, <2>5, <2>6, <2>7 DEF Tracked, Offsets
<1> QED BY <1>1, <1>2, <1>3, <1>4, <1>5 DEF LibraryStep

LEMMA TrackedHook ==
  ASSUME Tracked, NEW u \in Update, Swallow(u) \/ \E acked \in BOOLEAN : Post(u, acked)
  PROVE  Tracked'
<1>0. /\ TypeOK /\ tg \in Telegram /\ process \in Process /\ pool.seen \in [Update -> 0 .. MaxPosts]
      /\ dropped \subseteq Update
  BY DEF Tracked, TypeOK, Pool
<1>1. CASE Swallow(u)
  <2>1. tg' \in Telegram /\ tg'.held \subseteq tg.held /\ tg'.sent = tg.sent
    BY <1>0, <1>1 DEF Swallow, Telegram
  <2>2. UNCHANGED <<process, library, chan, pool, handled>> /\ dropped' \subseteq Update
    BY <1>0, <1>1 DEF Swallow
  <2> QED BY <1>0, <2>1, <2>2, MainTracked DEF TypeOK
<1>2. ASSUME NEW acked \in BOOLEAN, Post(u, acked) PROVE Tracked'
  <2>1. tg' \in Telegram /\ tg'.held \subseteq tg.held /\ tg'.sent = tg.sent
    BY <1>0, <1>2 DEF Post, Telegram
  <2>2. UNCHANGED <<process, library, chan, handled, dropped>>
        /\ process.phase # "down" /\ process.mode = "webhook" /\ Dispatched(u)
    BY <1>2 DEF Post
  <2>3. pool.seen[u] < MaxPosts
    BY <1>0, <1>2, DeliveryAssumption DEF Post
  <2>4. pool' \in Pool /\ Slotted'
    BY <1>0, <2>2, <2>3, DispatchAdds DEF Tracked
  <2>5. TypeOK'
    BY <1>0, <2>1, <2>2, <2>4 DEF TypeOK
  <2> QED BY <2>1, <2>2, <2>4, <2>5 DEF Tracked, Offsets, OncePolled, Quiet
<1> QED BY <1>1, <1>2

LEMMA TrackedNext == Tracked /\ [Next]_vars => Tracked'
<1> SUFFICES ASSUME Tracked, [Next]_vars PROVE Tracked'
  OBVIOUS
<1>1. CASE UNCHANGED vars
  BY <1>1 DEF vars, Tracked, TypeOK, Offsets, Slotted, OncePolled, Quiet, InFlight
<1>2. CASE Next
  BY <1>2, TrackedStop, TrackedStart, TrackedPool, TrackedPolling, TrackedHook DEF Next
<1> QED BY <1>1, <1>2

LEMMA TrackedAlways == Spec => []Tracked
<1>1. Tracked /\ [Next]_vars => Tracked'
  BY TrackedNext
<1> QED BY <1>1, TrackedInit, PTL DEF Spec

\* The queue, the slots, the library's state and the fate of every update keep their
\* types, whichever way the process is started and stopped.
THEOREM DeliveryTypeCorrect == Spec => []TypeOK
<1>1. Tracked => TypeOK
  BY DEF Tracked
<1> QED BY <1>1, TrackedAlways, PTL

TakenOnce == process.mode = "polling" => \A u \in Update : pool.seen[u] <= 1

\* A polling process hands an update to the handlers once (Run).
THEOREM PolledOnce == Spec => []TakenOnce
<1>1. Init => TakenOnce
  BY EmptyIsTyped DEF Init, TakenOnce
<1>2. Tracked /\ TakenOnce /\ [Next]_vars => TakenOnce'
  <2> SUFFICES ASSUME Tracked, TakenOnce, [Next]_vars PROVE TakenOnce'
    OBVIOUS
  <2>1. CASE UNCHANGED <<process, pool>>
    BY <2>1 DEF TakenOnce
  <2>2. CASE pool' = EmptyPool
    BY <2>2, EmptyIsTyped DEF TakenOnce
  <2>3. CASE pool'.seen = pool.seen /\ process'.mode = process.mode
    BY <2>3 DEF TakenOnce
  <2>4. CASE Receive
    <3>1. process' = process /\ Dispatched(Head(chan)) /\ chan # <<>> /\ chan \in Seq(Update)
      BY <2>4 DEF Receive, Tracked, TypeOK
    <3>2. ASSUME process.mode = "polling", NEW v \in Update PROVE pool'.seen[v] <= 1
      <4>1. pool.seen \in [Update -> 0 .. MaxPosts]
        BY DEF Tracked, TypeOK, Pool
      <4>2. Head(chan) \in Update /\ pool.seen[Head(chan)] = 0
        BY <3>1, <3>2, Shifted DEF Tracked, OncePolled
      <4>3. pool'.seen = [pool.seen EXCEPT ![Head(chan)] = pool.seen[Head(chan)] + 1]
        BY <3>1 DEF Dispatched, Tracked, TypeOK, Pool
      <4> QED BY <3>2, <4>1, <4>2, <4>3 DEF TakenOnce
    <3> QED BY <3>1, <3>2 DEF TakenOnce
  <2>5. ASSUME NEW u \in Update, NEW acked \in BOOLEAN, Post(u, acked) PROVE TakenOnce'
    BY <2>5 DEF Post, TakenOnce
  <2>6. ASSUME NEW j \in Job, Take(j) \/ Finish(j) PROVE TakenOnce'
    <3>1. pool'.seen = pool.seen /\ process' = process
      BY <2>6 DEF Take, Finish, Tracked, TypeOK, Pool
    <3> QED BY <2>3, <3>1
  <2>7. CASE StartStep \/ StopStep \/ Cancel \/ Die \/ \E registered \in BOOLEAN : RegistrationFails(registered)
    <3>1. pool' = EmptyPool \/ (pool' = pool /\ process'.mode = process.mode)
      BY <2>7 DEF StartStep, StartPolling, StartWebhook, StopStep, NoticeCancel, Drain, Drained, Waited, Exit,
                  Cancel, Die, RegistrationFails, Gone, Tracked, TypeOK, Process
    <3> QED BY <2>2, <2>3, <3>1
  <2>8. CASE LibraryStep \/ Send \/ \E u \in Update : Swallow(u)
    BY <2>1, <2>8 DEF LibraryStep, Ask, Answer, NoAnswer, Push, Close, Send, Swallow
  <2>9. CASE \E mode \in {"polling", "webhook"} : Boot(mode)
    BY <2>2, <2>9 DEF Boot
  <2> QED BY <2>1, <2>4, <2>5, <2>6, <2>7, <2>8, <2>9 DEF Next, vars
<1> QED BY <1>1, <1>2, TrackedAlways, PTL DEF Spec

-----------------------------------------------------------------------------
(* Nothing disappears *)

Covered(u) == u \in handled \cup dropped \cup InHand

\* What the library has moved past is covered, so Telegram may forget it.
Passed == \A u \in tg.held : u < library.offset => Covered(u)

\* A step that only adds to what is covered, forgets nothing else and moves past
\* nothing else, loses nothing.
LEMMA CoverKept ==
  ASSUME Tracked, Tracked', Accounted, Passed,
         \A u \in Update : Covered(u) => Covered(u)',
         tg'.sent = tg.sent,
         \A u \in tg.held \ tg'.held : Covered(u)',
         \A u \in tg'.held : u < library'.offset => u < library.offset \/ Covered(u)',
         tg'.held \subseteq tg.held
  PROVE  Accounted' /\ Passed'
<1>0. tg.held \subseteq Update /\ tg.sent \in 0 .. LastUpdate /\ 1 .. tg.sent \subseteq Update
  BY DeliveryAssumption DEF Tracked, TypeOK, Telegram, Update
<1>1. Accounted'
  <2>1. \A u \in 1 .. tg.sent : u \in tg.held \/ Covered(u)
    BY DEF Accounted, Covered
  <2>2. \A u \in 1 .. tg'.sent : u \in tg'.held \/ Covered(u)'
    BY <1>0, <2>1
  <2> QED BY <2>2 DEF Accounted, Covered
<1>2. Passed'
  BY <1>0 DEF Passed
<1> QED BY <1>1, <1>2
\* What is covered stays so while nothing is taken out of the process.
LEMMA CoverGrows ==
  ASSUME handled \subseteq handled', dropped \subseteq dropped', InHand \subseteq InHand' \cup handled' \cup dropped'
  PROVE  \A u \in Update : Covered(u) => Covered(u)'
BY DEF Covered

LEMMA InHandGrows ==
  ASSUME InFlight \subseteq InFlight', chan' = chan
  PROVE  InHand \subseteq InHand'
BY DEF InHand, UpdatesOf

LEMMA AccountedNext == Tracked /\ Tracked' /\ Accounted /\ Passed /\ [Next]_vars => Accounted' /\ Passed'
<1> SUFFICES ASSUME Tracked, Tracked', Accounted, Passed, [Next]_vars PROVE Accounted' /\ Passed'
  OBVIOUS
<1>0. /\ TypeOK /\ tg \in Telegram /\ process \in Process /\ library \in Library /\ chan \in Seq(Update)
      /\ tg.held \subseteq Update /\ tg.sent \in 0 .. LastUpdate /\ library.offset \in 1 .. LastUpdate + 1
  BY DEF Tracked, TypeOK, Telegram, Library
<1>1. ASSUME UNCHANGED <<chan, pool, handled, dropped>>, tg'.held = tg.held, tg'.sent = tg.sent,
             library'.offset = library.offset
      PROVE  Accounted' /\ Passed'
  BY <1>1 DEF Accounted, Passed, Covered, InHand, InFlight, UpdatesOf
<1>2. CASE UNCHANGED vars
  BY <1>1, <1>2 DEF vars
<1>3. CASE StartStep \/ Cancel \/ NoticeCancel \/ Drained \/ Waited \/ Answer \/ NoAnswer \/ Close
  <2>1. UNCHANGED <<chan, pool, handled, dropped>>
    BY <1>3 DEF StartStep, StartPolling, StartWebhook, Cancel, NoticeCancel, Drained, Waited, Answer, NoAnswer, Close
  <2>2. tg'.held = tg.held /\ tg'.sent = tg.sent
    BY <1>0, <1>3 DEF StartStep, StartPolling, StartWebhook, Cancel, NoticeCancel, Drained, Waited, Answer,
                      NoAnswer, Close, Telegram
  <2>3. library'.offset = library.offset
    BY <1>0, <1>3 DEF StartStep, StartPolling, StartWebhook, Cancel, NoticeCancel, Drained, Waited, Answer,
                      NoAnswer, Close, Library
  <2> QED BY <1>1, <2>1, <2>2, <2>3
<1>4. CASE Exit \/ Die \/ \E registered \in BOOLEAN : RegistrationFails(registered)
  <2>1. handled' = handled /\ dropped' = dropped \cup InHand /\ library' = NoLibrary
    BY <1>4 DEF Exit, Die, RegistrationFails, Gone
  <2>2. tg'.held = tg.held /\ tg'.sent = tg.sent
    BY <1>0, <1>4 DEF Exit, Die, RegistrationFails, Telegram
  <2>3. \A u \in Update : Covered(u) => Covered(u)'
    BY <2>1, CoverGrows
  <2>4. \A u \in Update : ~ (u < library'.offset)
    BY <2>1, EmptyIsTyped, DeliveryAssumption DEF Update
  <2> QED BY <1>0, <2>2, <2>3, <2>4, CoverKept
<1>5. ASSUME NEW mode \in {"polling", "webhook"}, Boot(mode) PROVE Accounted' /\ Passed'
  <2>1. UNCHANGED <<tg, chan, handled, dropped>> /\ library' = NoLibrary /\ InFlight = {}
    BY <1>5 DEF Boot, Tracked, Quiet
  <2>2. \A u \in Update : Covered(u) => Covered(u)'
    BY <2>1, InHandGrows, CoverGrows
  <2>3. \A u \in Update : ~ (u < library'.offset)
    BY <2>1, EmptyIsTyped, DeliveryAssumption DEF Update
  <2> QED BY <1>0, <2>1, <2>2, <2>3, CoverKept
<1>6. CASE Send
  <2>1. /\ tg'.sent = tg.sent + 1 /\ tg'.held = tg.held \cup {tg.sent + 1}
        /\ UNCHANGED <<process, library, chan, pool, handled, dropped>>
    BY <1>0, <1>6 DEF Send, Telegram
  <2>2. \A u : Covered(u)' <=> Covered(u)
    BY <2>1 DEF Covered, InHand, InFlight, UpdatesOf
  <2>3. \A u \in 1 .. tg.sent : u \in tg.held \/ Covered(u)
    BY DEF Accounted, Covered
  <2>4. \A u \in 1 .. tg'.sent : u \in tg'.held \/ Covered(u)'
    BY <1>0, <2>1, <2>2, <2>3
  <2>5. ~ (tg.sent + 1 < library.offset)
    BY <1>0 DEF Tracked, Offsets
  <2>6. \A u \in tg'.held : u < library'.offset => Covered(u)'
    BY <2>1, <2>2, <2>5 DEF Passed
  <2> QED BY <2>4, <2>6 DEF Accounted, Passed, Covered
<1>7. ASSUME NEW j \in Job, Take(j) \/ Finish(j) PROVE Accounted' /\ Passed'
  <2>1. UNCHANGED <<tg, library, chan, dropped>> /\ handled \subseteq handled'
    BY <1>7 DEF Take, Finish
  <2>2. InFlight \subseteq InFlight' \cup {k \in InFlight : k[1] \in handled'}
    BY <1>7 DEF Take, Finish, InFlight, Tracked, TypeOK, Pool
  <2>3. InHand \subseteq InHand' \cup handled'
    BY <2>1, <2>2 DEF InHand, UpdatesOf
  <2>4. \A u \in Update : Covered(u) => Covered(u)'
    BY <2>1, <2>3, CoverGrows
  <2> QED BY <1>0, <2>1, <2>4, CoverKept
<1>8. CASE Ask
  <2>1. /\ tg'.held = {u \in tg.held : u >= library.offset} /\ tg'.sent = tg.sent
        /\ library'.offset = library.offset /\ UNCHANGED <<chan, pool, handled, dropped>>
    BY <1>0, <1>8 DEF Ask, Telegram, Library
  <2>2. \A u : Covered(u)' <=> Covered(u)
    BY <2>1 DEF Covered, InHand, InFlight, UpdatesOf
  <2>3. \A u \in tg.held \ tg'.held : Covered(u)
    BY <1>0, <2>1 DEF Passed, Update
  <2> QED BY <2>1, <2>2, <2>3, CoverKept
<1>9. CASE Push
  <2>1. PICK u \in library.batch :
          (\A v \in library.batch : u <= v) /\ chan' = Append(chan, u) /\ library'.offset = u + 1
    BY <1>0, <1>9 DEF Push, Library
  <2>2. u \in Update /\ UNCHANGED <<tg, pool, handled, dropped>>
    BY <1>0, <1>9, <2>1 DEF Push, Library
  <2>3. InHand' = InHand \cup {u}
    BY <1>0, <2>1, <2>2, Appended DEF InHand, InFlight, UpdatesOf
  <2>4. \A v \in Update : Covered(v) => Covered(v)'
    BY <2>2, <2>3, CoverGrows
  <2>5. ASSUME NEW v \in tg.held, v < u + 1, ~ (v < library.offset) PROVE v = u
    <3>1. v \in Nat /\ u \in Nat /\ library.offset \in Nat
      BY <1>0, <2>2 DEF Update
    <3>2. library.offset <= v /\ v <= u
      BY <2>5, <3>1
    <3>3. v \in library.batch
      BY <2>1, <3>2 DEF Tracked, Offsets
    <3> QED BY <2>1, <3>1, <3>2, <3>3
  <2>6. Covered(u)'
    BY <2>3 DEF Covered
  <2>7. \A v \in tg'.held : v < library'.offset => v < library.offset \/ Covered(v)'
    BY <2>1, <2>2, <2>5, <2>6
  <2> QED BY <2>2, <2>4, <2>7, CoverKept
<1>10. CASE Receive
  <2> DEFINE u == Head(chan)
  <2>1. /\ chan # <<>> /\ chan' = Tail(chan) /\ UNCHANGED <<tg, library, handled, dropped>>
        /\ InFlight' = InFlight \cup {<<u, pool.seen[u] + 1>>}
    BY <1>10 DEF Receive, Dispatched, InFlight, Tracked, TypeOK, Pool
  <2>2. \A i \in DOMAIN chan : chan[i] = u \/ \E k \in DOMAIN chan' : chan'[k] = chan[i]
    BY <1>0, <2>1, Shifted
  <2>3. InHand \subseteq InHand'
    <3> DEFINE job == <<u, pool.seen[u] + 1>>
    <3>1. job \in InFlight' /\ job[1] = u /\ InFlight \subseteq InFlight'
      BY <2>1
    <3> HIDE DEF u, job
    <3>2. u \in UpdatesOf(InFlight') /\ UpdatesOf(InFlight) \subseteq UpdatesOf(InFlight')
      BY <3>1 DEF UpdatesOf
    <3>3. InHand' = UpdatesOf(InFlight') \cup {chan'[i] : i \in DOMAIN chan'}
      BY DEF InHand, UpdatesOf
    <3> QED BY <2>2, <3>2, <3>3 DEF InHand
  <2>4. \A v \in Update : Covered(v) => Covered(v)'
    BY <2>1, <2>3, CoverGrows
  <2> QED BY <1>0, <2>1, <2>4, CoverKept
<1>11. CASE Drain
  <2>1. /\ chan # <<>> /\ chan' = Tail(chan) /\ UNCHANGED <<tg, library, pool, handled>>
        /\ dropped' = dropped \cup {Head(chan)}
    BY <1>11 DEF Drain
  <2>2. \A i \in DOMAIN chan : chan[i] = Head(chan) \/ \E k \in DOMAIN chan' : chan'[k] = chan[i]
    BY <1>0, <2>1, Shifted
  <2>3. InHand \subseteq InHand' \cup dropped'
    <3>1. InFlight' = InFlight
      BY <2>1 DEF InFlight
    <3> QED BY <2>1, <2>2, <3>1 DEF InHand, UpdatesOf
  <2>4. \A v \in Update : Covered(v) => Covered(v)'
    BY <2>1, <2>3, CoverGrows
  <2> QED BY <1>0, <2>1, <2>4, CoverKept
<1>12. ASSUME NEW u \in Update, Swallow(u) \/ \E acked \in BOOLEAN : Post(u, acked)
       PROVE  Accounted' /\ Passed'
  <2>1. UNCHANGED <<library, chan, handled>> /\ dropped \subseteq dropped' /\ tg'.sent = tg.sent
        /\ tg'.held \subseteq tg.held /\ tg.held \ tg'.held \subseteq {u}
    BY <1>0, <1>12 DEF Swallow, Post, Telegram
  <2>2. InFlight \subseteq InFlight' /\ (u \in dropped' \/ <<u, pool.seen[u] + 1>> \in InFlight')
    BY <1>12 DEF Swallow, Post, Dispatched, InFlight, Tracked, TypeOK, Pool
  <2>3. Covered(u)'
    <3>1. CASE u \in dropped'
      BY <3>1 DEF Covered
    <3>2. CASE <<u, pool.seen[u] + 1>> \in InFlight'
      <4>1. u \in UpdatesOf(InFlight')
        BY <3>2 DEF UpdatesOf
      <4> QED BY <4>1 DEF Covered, InHand, UpdatesOf
    <3> QED BY <2>2, <3>1, <3>2
  <2>4. \A v \in Update : Covered(v) => Covered(v)'
    BY <2>1, <2>2, InHandGrows, CoverGrows
  <2> QED BY <1>0, <2>1, <2>3, <2>4, CoverKept
<1> QED BY <1>2, <1>3, <1>4, <1>5, <1>6, <1>7, <1>8, <1>9, <1>10, <1>11, <1>12
        DEF Next, StopStep, LibraryStep

\* What Telegram has forgotten was handled, is in hand, or was thrown away by a
\* shutdown, a death or the Mini App's route (dispatch, Run, WebhookHandler).
THEOREM NothingDisappears == Spec => []Accounted
<1>1. Init => Accounted /\ Passed
  BY DEF Init, Accounted, Passed
<1>2. Tracked /\ Tracked' /\ Accounted /\ Passed /\ [Next]_vars => Accounted' /\ Passed'
  BY AccountedNext
<1> QED BY <1>1, <1>2, TrackedAlways, PTL DEF Spec

-----------------------------------------------------------------------------
(* An orderly stop *)

\* A polling process that has waited for its handlers has none left, and takes
\* none up any more (Run, wg.Wait).
THEOREM PollingStopsCleanly == Spec => []CleanStop
<1>1. Init => CleanStop
  BY DEF Init, CleanStop
<1>2. Tracked /\ CleanStop /\ [Next]_vars => CleanStop'
  <2> SUFFICES ASSUME Tracked, CleanStop, [Next]_vars, process'.phase = "closing", process'.mode = "polling"
               PROVE  InFlight' = {}
    BY DEF CleanStop
  <2>0. process \in Process /\ InFlight = pool.waiting \cup pool.running
    BY DEF Tracked, TypeOK, InFlight
  <2>1. CASE Waited
    BY <2>1 DEF Waited, InFlight
  <2>2. CASE process' = process /\ (pool' = pool \/ \E j \in Job : Take(j) \/ Finish(j))
    <3>1. InFlight = {}
      BY <2>2 DEF CleanStop
    <3> QED BY <2>0, <2>2, <3>1 DEF Take, Finish, InFlight
  <2>3. CASE Receive \/ \E u \in Update, acked \in BOOLEAN : Post(u, acked)
    BY <2>3 DEF Receive, Post
  <2>4. CASE Cancel
    <3>1. process.phase = "closing" /\ process.mode = "polling" /\ pool' = pool
      BY <2>0, <2>4 DEF Cancel, Process
    <3> QED BY <3>1 DEF CleanStop, InFlight
  <2>5. CASE StartStep \/ NoticeCancel \/ Drained \/ Exit \/ Die
             \/ (\E registered \in BOOLEAN : RegistrationFails(registered))
             \/ (\E mode \in {"polling", "webhook"} : Boot(mode))
    BY <2>0, <2>5 DEF StartStep, StartPolling, StartWebhook, NoticeCancel, Drained, Exit, Die, Gone,
                      RegistrationFails, Boot, Process
  <2>6. CASE LibraryStep \/ Drain \/ Send \/ (\E u \in Update : Swallow(u)) \/ UNCHANGED vars
    BY <2>2, <2>6 DEF LibraryStep, Ask, Answer, NoAnswer, Push, Close, Drain, Send, Swallow, vars
  <2> QED BY <2>1, <2>2, <2>3, <2>4, <2>5, <2>6
          DEF Next, StopStep, Take, Finish
<1> QED BY <1>1, <1>2, TrackedAlways, PTL DEF Spec
=============================================================================
