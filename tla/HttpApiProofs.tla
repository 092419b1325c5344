----------------------------- MODULE HttpApiProofs -----------------------------
(***************************************************************************)
(* The HTTP API for any number of people, addresses, goroutines and starts *)
(* and any rates: its types, its limiters as token buckets, its audit      *)
(* trail and its roles.                                                    *)
(***************************************************************************)
EXTENDS HttpApi, FiniteSetTheorems, TLAPS

-----------------------------------------------------------------------------
(* Arithmetic of rates, in the form the provers need it *)

\* A product of naturals is a natural.
LEMMA TimesNat == \A a, b \in Nat : a * b \in Nat
  BY SMT

\* More ticks refill no less.
LEMMA TimesMono == \A a, b, r \in Nat : a <= b => a * r <= b * r
<1>1. ASSUME NEW a \in Nat, NEW b \in Nat, NEW r \in Nat, a <= b
      PROVE  a * r <= b * r
  <2>1. PICK d \in Nat : b = a + d
    BY <1>1, b - a \in Nat, b = a + (b - a)
  <2>2. b * r = a * r + d * r
    BY <2>1
  <2>3. a * r \in Nat /\ d * r \in Nat
    BY TimesNat
  <2> QED
    BY <2>2, <2>3
<1> QED
  BY <1>1

\* One tick more refills one rate more.
LEMMA TimesNext == \A a, r \in Nat : (a + 1) * r = a * r + r
  BY SMT

\* Rates and bursts are positive naturals.
LEMMA Rates ==
  ASSUME NEW k \in Key
  PROVE  Rate(k) \in Nat /\ Rate(k) >= 1 /\ Full(k) \in Nat /\ Full(k) >= Minute
<1>1. Rate(k) \in Nat /\ Rate(k) >= 1
  BY RateAssumption
<1>2. Minute \in Nat
  BY MinuteAssumption
<1>3. 1 * Minute <= Rate(k) * Minute
  BY <1>1, <1>2, TimesMono
<1> QED
  BY <1>1, <1>2, <1>3, TimesNat DEF Full

-----------------------------------------------------------------------------
(* The limiters *)

\* What a limiter does in one step.
LimiterStep ==
  \/ Tick \/ Forget \/ UNCHANGED limits
  \/ \E k \in Key : Allows(k) \/ Refuses(k)
  \/ \E K \in SUBSET Key : Sweep(K)

\* A bucket that was used holds between nothing and the burst after its refill.
LEMMA RefilledRange ==
  ASSUME LimiterOK, NEW k \in Key, bucket[k] # None
  PROVE  Refilled(k, bucket[k]) \in Nat /\ Refilled(k, bucket[k]) <= Full(k)
<1> DEFINE b == bucket[k]
<1>1. /\ b.tokens \in Nat /\ b.last \in Nat /\ now \in Nat /\ b.last <= now
      /\ Rate(k) \in Nat /\ Full(k) \in Nat
  BY Rates, ClockAssumption DEF LimiterOK, BucketOK, Time
<1>2. now - b.last \in Nat
  BY <1>1
<1>3. (now - b.last) * Rate(k) \in Nat
  BY <1>1, <1>2, TimesNat
<1> HIDE DEF b
<1>4. Refilled(k, b) \in Nat /\ Refilled(k, b) <= Full(k)
  BY <1>1, <1>3 DEF Refilled
<1> QED
  BY <1>4 DEF b

\* Level is within the burst.
LEMMA LevelRange ==
  ASSUME LimiterOK, NEW k \in Key
  PROVE  Level(k) \in Nat /\ Level(k) <= Full(k)
  BY RefilledRange, Rates DEF Level

\* The admissions on record are finitely many, so that they can be counted.
FiniteRecord == \A k \in Key : IsFiniteSet(admitted[k])

\* A record to which an admission is added stays a record.
LEMMA RecordGrows ==
  ASSUME LimiterOK, FiniteRecord, NEW k \in Key, Admits(k)
  PROVE  admitted' \in [Key -> SUBSET (Time \X Nat)] /\ FiniteRecord'
<1>1. Cardinality(admitted[k]) \in Nat
  BY FS_CardinalityType DEF FiniteRecord
<1>2. now \in Time
  BY DEF LimiterOK
<1>3. /\ admitted \in [Key -> SUBSET (Time \X Nat)]
      /\ admitted' = [admitted EXCEPT ![k] = @ \cup {<<now, Cardinality(@)>>}]
  BY DEF LimiterOK, Admits
<1>4. <<now, Cardinality(admitted[k])>> \in Time \X Nat
  BY <1>1, <1>2
<1>5. admitted' \in [Key -> SUBSET (Time \X Nat)]
  BY <1>3, <1>4
<1>6. \A l \in Key : IsFiniteSet(admitted'[l])
  BY <1>3, FS_AddElement DEF FiniteRecord
<1> QED
  BY <1>5, <1>6 DEF FiniteRecord

\* The limiters keep their buckets in order.
LEMMA LimiterKept ==
  ASSUME LimiterOK, FiniteRecord, LimiterStep
  PROVE  LimiterOK' /\ FiniteRecord'
<1> USE ClockAssumption, MinuteAssumption
<1>1. CASE Tick
  <2>1. now \in Nat /\ now' = now + 1 /\ now' \in Time /\ bucket' = bucket
    BY <1>1 DEF Tick, LimiterOK, Time
  <2>2. \A k \in Key : BucketOK(k)'
    BY <2>1, ClockAssumption DEF LimiterOK, BucketOK, Time, Full
  <2>3. admitted' \in [Key -> SUBSET (Time \X Nat)]
    BY <1>1 DEF Tick, LimiterOK
  <2>4. \A k \in Key : admitted'[k] \subseteq admitted[k]
    BY <1>1 DEF Tick
  <2>5. FiniteRecord'
    BY <2>4, FS_Subset DEF FiniteRecord
  <2> QED
    BY <2>1, <2>2, <2>3, <2>5 DEF LimiterOK
<1>2. CASE Forget
  <2>1. LimiterOK'
    BY <1>2 DEF Forget, LimiterOK, BucketOK, Time, Full
  <2>2. FiniteRecord'
    BY <1>2, FS_EmptySet DEF Forget, FiniteRecord
  <2> QED
    BY <2>1, <2>2
<1>3. CASE UNCHANGED limits
  BY <1>3 DEF limits, LimiterOK, BucketOK, Time, Full, FiniteRecord
<1>4. ASSUME NEW k \in Key, Allows(k) PROVE LimiterOK' /\ FiniteRecord'
  <2>1. Level(k) - Minute \in Nat /\ Level(k) - Minute <= Full(k)
    BY <1>4, LevelRange, Rates DEF Allows
  <2>2. now \in Nat /\ now' = now /\ now \in Time
    BY <1>4 DEF Allows, LimiterOK, Time
  <2>3. /\ bucket' = [bucket EXCEPT ![k] = [tokens |-> Level(k) - Minute, last |-> now]]
        /\ Admits(k)
    BY <1>4 DEF Allows
  <2>4. \A l \in Key : BucketOK(l)'
    BY <2>1, <2>2, <2>3 DEF LimiterOK, BucketOK, Full
  <2>5. DOMAIN bucket' = Key
    BY <2>3 DEF LimiterOK
  <2> QED
    BY <2>2, <2>3, <2>4, <2>5, RecordGrows DEF LimiterOK
<1>5. ASSUME NEW k \in Key, Refuses(k) PROVE LimiterOK' /\ FiniteRecord'
  <2>1. Level(k) \in Nat /\ Level(k) <= Full(k)
    BY LevelRange
  <2>2. now \in Nat /\ now' = now /\ now \in Time /\ admitted' = admitted
    BY <1>5 DEF Refuses, LimiterOK, Time
  <2>3. bucket' = [bucket EXCEPT ![k] = [tokens |-> Level(k), last |-> now]]
    BY <1>5 DEF Refuses
  <2>4. \A l \in Key : BucketOK(l)'
    BY <2>1, <2>2, <2>3 DEF LimiterOK, BucketOK, Full
  <2>5. DOMAIN bucket' = Key
    BY <2>3 DEF LimiterOK
  <2> QED
    BY <2>2, <2>4, <2>5 DEF LimiterOK, FiniteRecord
<1>6. ASSUME NEW K \in SUBSET Key, Sweep(K) PROVE LimiterOK' /\ FiniteRecord'
  BY <1>6 DEF Sweep, LimiterOK, BucketOK, Time, Full, FiniteRecord
<1> QED
  BY <1>1, <1>2, <1>3, <1>4, <1>5, <1>6 DEF LimiterStep

-----------------------------------------------------------------------------
(* The limiters are token buckets *)

\* A tick of the clock is one tick's refill of every level.
LEMMA TickDrips ==
  ASSUME LimiterOK, Tick, NEW k \in Key
  PROVE  Level(k)' = Budget!Capped(k, Level(k) + Rate(k))
<1>1. /\ now \in Nat /\ now' = now + 1 /\ bucket' = bucket
      /\ Rate(k) \in Nat /\ Full(k) \in Nat /\ Full(k)' = Full(k)
      /\ Budget!Full(k) = Full(k)
  BY Rates DEF Tick, LimiterOK, Time, Full, Budget!Full
<1>2. CASE bucket[k] = None
  BY <1>1, <1>2 DEF Level, Budget!Capped
<1>3. CASE bucket[k] # None
  <2> DEFINE e == now - bucket[k].last
  <2>1. bucket[k].tokens \in Nat /\ e \in Nat
    BY <1>1, <1>3 DEF LimiterOK, BucketOK, Time
  <2>2. now' - bucket'[k].last = e + 1
    BY <1>1, <1>3 DEF LimiterOK, BucketOK, Time
  <2>3. (e + 1) * Rate(k) = e * Rate(k) + Rate(k) /\ e * Rate(k) \in Nat
    BY <1>1, <2>1, TimesNext, TimesNat
  <2>4. Level(k) = (IF bucket[k].tokens + e * Rate(k) > Full(k) THEN Full(k)
                    ELSE bucket[k].tokens + e * Rate(k))
    BY <1>3 DEF Level, Refilled
  <2>5. Level(k)' = (IF bucket[k].tokens + (e + 1) * Rate(k) > Full(k) THEN Full(k)
                     ELSE bucket[k].tokens + (e + 1) * Rate(k))
    BY <1>1, <1>3, <2>2 DEF Level, Refilled
  <2> HIDE DEF e
  <2> QED
    BY <1>1, <2>1, <2>3, <2>4, <2>5 DEF Budget!Capped
<1> QED
  BY <1>2, <1>3

\* A bucket the janitor forgets is full again.
LEMMA SweptIsFull ==
  ASSUME LimiterOK, NEW K \in SUBSET Key, Sweep(K), NEW k \in Key
  PROVE  Level(k)' = Level(k)
<1>1. /\ now \in Nat /\ now' = now /\ Minute \in Nat /\ Full(k)' = Full(k)
      /\ Rate(k) \in Nat /\ Full(k) = Rate(k) * Minute /\ MaxIdle \in Nat /\ MaxIdle >= Minute
  BY Rates, MinuteAssumption, IdleAssumption DEF Sweep, LimiterOK, Time, Full
<1>2. CASE ~(k \in K /\ Idle(k))
  BY <1>1, <1>2 DEF Sweep, Level, Refilled
<1>3. CASE k \in K /\ Idle(k)
  <2> DEFINE e == now - bucket[k].last
  <2>1. bucket[k] # None /\ bucket'[k] = None
    BY <1>3 DEF Sweep, Idle
  <2>2. bucket[k].tokens \in Nat /\ e \in Nat /\ Minute <= e
    BY <1>1, <1>3, <2>1 DEF LimiterOK, BucketOK, Time, Idle
  <2>3. Minute * Rate(k) <= e * Rate(k) /\ Minute * Rate(k) = Full(k)
    BY <1>1, <2>2, TimesMono
  <2>4. e * Rate(k) \in Nat /\ Full(k) \in Nat
    BY <1>1, <2>2, TimesNat
  <2>5. Level(k) = (IF bucket[k].tokens + e * Rate(k) > Full(k) THEN Full(k)
                    ELSE bucket[k].tokens + e * Rate(k))
    BY <2>1 DEF Level, Refilled
  <2>6. Level(k)' = Full(k)
    BY <1>1, <2>1 DEF Level
  <2> HIDE DEF e
  <2> QED
    BY <2>2, <2>3, <2>4, <2>5, <2>6
<1> QED
  BY <1>2, <1>3

\* The refill that a use notes in the bucket counts once.
LEMMA NotedOnce ==
  ASSUME LimiterOK, NEW k \in Key, NEW n \in Nat, n <= Full(k),
         bucket' = [bucket EXCEPT ![k] = [tokens |-> n, last |-> now]], now' = now,
         NEW l \in Key
  PROVE  Level(l)' = IF l = k THEN n ELSE Level(l)
<1>1. bucket'[k] = [tokens |-> n, last |-> now] /\ bucket'[k] # None
  BY BucketAssumption DEF LimiterOK, Time
<1>2. now \in Nat /\ Full(k) \in Nat /\ Rate(k) \in Nat
  BY Rates DEF LimiterOK, Time
<1>3. now - now = 0 /\ 0 * Rate(k) = 0
  BY <1>2
<1>4. Level(k)' = n
  BY <1>1, <1>2, <1>3 DEF Level, Refilled, Full
<1>5. l # k => Level(l)' = Level(l)
  BY DEF Level, Refilled, Full, LimiterOK
<1> QED
  BY <1>4, <1>5

\* Every step of the limiters is a step of token buckets, or none.
LEMMA BucketStep ==
  ASSUME LimiterOK, LimiterStep
  PROVE  Budget!Next \/ [k \in Key |-> Level(k)]' = [k \in Key |-> Level(k)]
<1> DEFINE level == [k \in Key |-> Level(k)]
<1>1. CASE Tick
  <2>1. [k \in Key |-> Level(k)]' = [k \in Key |-> Budget!Capped(k, level[k] + Rate(k))]
    BY <1>1, TickDrips
  <2> QED
    BY <2>1 DEF Budget!Next, Budget!Drip
<1>2. CASE Forget
  <2>1. [k \in Key |-> Level(k)]' = [k \in Key |-> Full(k)]
    BY <1>2 DEF Forget, Level, Full
  <2> QED
    BY <2>1 DEF Budget!Next, Budget!Restart, Budget!Brimful, Budget!Full, Full
<1>3. CASE UNCHANGED limits
  BY <1>3 DEF limits, Level, Refilled, Full
<1>4. ASSUME NEW k \in Key, Allows(k)
      PROVE  Budget!Next
  <2>1. Level(k) >= Minute /\ Level(k) - Minute \in Nat /\ Level(k) - Minute <= Full(k)
    BY <1>4, LevelRange, Rates, MinuteAssumption DEF Allows
  <2>2. \A l \in Key : Level(l)' = IF l = k THEN Level(k) - Minute ELSE Level(l)
    BY <1>4, <2>1, NotedOnce DEF Allows
  <2>3. \A l \in Key : Level(l)' \in Nat
    BY <2>1, <2>2, LevelRange
  <2>4. Budget!Take(k)
    BY <2>1, <2>2, <2>3 DEF Budget!Take
  <2> QED
    BY <2>4 DEF Budget!Next
<1>5. ASSUME NEW k \in Key, Refuses(k)
      PROVE  [l \in Key |-> Level(l)]' = [l \in Key |-> Level(l)]
  <2>1. \A l \in Key : Level(l)' = Level(l)
    BY <1>5, LevelRange, NotedOnce DEF Refuses
  <2> QED
    BY <2>1
<1>6. ASSUME NEW K \in SUBSET Key, Sweep(K)
      PROVE  [l \in Key |-> Level(l)]' = [l \in Key |-> Level(l)]
  BY <1>6, SweptIsFull
<1> QED
  BY <1>1, <1>2, <1>3, <1>4, <1>5, <1>6 DEF LimiterStep

-----------------------------------------------------------------------------
(* Types *)

\* The key of the first limiter is one of its keys.
LEMMA GateIsKey ==
  ASSUME NEW op \in Op, NEW p \in Person \cup {None}, NEW ip \in Ip
  PROVE  Gate(op, p, ip) \in Key
  BY KeyAssumption DEF Gate, ApiKeys, Op, AdminOp, Act

\* A request at work has an operation and a caller.
LEMMA AtWork ==
  ASSUME TypeOK, NEW r \in Request, ~At(r, "idle")
  PROVE  /\ req[r].pc \in {"auth", "promote", "budget", "handle", "stream", "record"}
         /\ req[r].op \in Op /\ req[r].who \in Person
         /\ req[r].role \in {"none", "user", "admin"}
         /\ req[r] = Working(req[r].pc, req[r].op, req[r].who, req[r].role)
  BY DEF TypeOK, Phases, Working, Idling, At

\* The key of the second limiter is one of its keys.
LEMMA AllowanceIsKey ==
  ASSUME TypeOK, NEW r \in Request, At(r, "budget")
  PROVE  Allowance(r) \in Key
<1>1. req[r].who \in Person
  BY AtWork DEF At
<1> QED
  BY <1>1, KeyAssumption DEF Allowance, ApiKeys

\* Whatever the API does, its limiters make a step of theirs or none.
LEMMA LimitersStep ==
  ASSUME TypeOK, [Next]_vars
  PROVE  LimiterStep
<1>1. CASE UNCHANGED vars
  BY <1>1 DEF vars, LimiterStep
<1>2. CASE Clock
  BY <1>2 DEF Clock, LimiterStep
<1>3. CASE Janitor
  BY <1>3 DEF Janitor, LimiterStep
<1>4. CASE Restarts
  BY <1>4 DEF Restarts, LimiterStep
<1>5. ASSUME NEW r \in Request, RequestStep(r)
      PROVE  LimiterStep
  <2>1. ASSUME NEW op \in Op, NEW p \in Person \cup {None}, NEW ip \in Ip, Arrives(r, op, p, ip)
        PROVE  LimiterStep
    BY <2>1, GateIsKey DEF Arrives, LimiterStep
  <2>2. CASE SpendsAllowance(r)
    BY <2>2, AllowanceIsKey DEF SpendsAllowance, LimiterStep
  <2>3. ASSUME NEW a \in BOOLEAN,
               Upserts(r, a) \/ Promotes(r, a) \/ RecordsExport(r, a) \/ Corrects(r)
                 \/ Streams(r) \/ StartsBroadcast(r) \/ RecordsBroadcast(r) \/ Answers(r)
        PROVE  LimiterStep
    BY <2>3 DEF Upserts, Promotes, RecordsExport, Corrects, Streams, StartsBroadcast,
                RecordsBroadcast, Answers, LimiterStep
  <2> QED
    BY <1>5, <2>1, <2>2, <2>3 DEF RequestStep
<1> QED
  BY <1>1, <1>2, <1>3, <1>4, <1>5 DEF Next

\* A request that goes on, or ends, is a request.
LEMMA MovesTyped ==
  ASSUME TypeOK, NEW r \in Request, ~At(r, "idle"),
         NEW rl \in {"none", "user", "admin"},
         NEW pc \in {"auth", "promote", "budget", "handle", "stream", "record"},
         Goes(r, pc) \/ Ends(r) \/ After(r, rl)
  PROVE  req' \in [Request -> Phases]
<1>1. req \in [Request -> Phases]
  BY DEF TypeOK
<1>2. req[r].op \in Op /\ req[r].who \in Person /\ req[r].role \in {"none", "user", "admin"}
      /\ req[r] = Working(req[r].pc, req[r].op, req[r].who, req[r].role)
  BY AtWork
<1>3. \A q \in {"auth", "promote", "budget", "handle", "stream", "record"},
         l \in {"none", "user", "admin"} : Working(q, req[r].op, req[r].who, l) \in Phases
  BY <1>2 DEF Phases
<1>4. CASE Goes(r, pc)
  <2>1. [req[r] EXCEPT !.pc = pc] = Working(pc, req[r].op, req[r].who, req[r].role)
    BY <1>2 DEF Working
  <2> QED
    BY <1>1, <1>2, <1>3, <1>4, <2>1 DEF Goes
<1>5. CASE Ends(r)
  BY <1>1, <1>5 DEF Ends, Phases
<1>6. CASE After(r, rl)
  <2>1. Idling \in Phases
    BY DEF Phases
  <2> QED
    BY <1>1, <1>3, <1>6, <2>1 DEF After
<1> QED
  BY <1>4, <1>5, <1>6

\* The counts of one person and act go up by one.
LEMMA CountsTyped ==
  ASSUME TypeOK, NEW p \in Person, NEW a \in Act
  PROVE  /\ Logs(p, a) => trail' \in [Person -> [Act -> Nat]]
         /\ Does(p, a) => acted' \in [Person -> [Act -> Nat]]
<1> DEFINE More(f) == [f EXCEPT ![p][a] = @ + 1]
<1>1. ASSUME NEW f \in [Person -> [Act -> Nat]]
      PROVE  More(f) \in [Person -> [Act -> Nat]]
  <2>1. f[p] \in [Act -> Nat] /\ f[p][a] + 1 \in Nat
    BY <1>1
  <2>2. [f[p] EXCEPT ![a] = @ + 1] \in [Act -> Nat]
    BY <2>1
  <2> QED
    BY <1>1, <2>2
<1>2. Logs(p, a) => trail' = More(trail)
  BY DEF Logs
<1>3. Does(p, a) => acted' = More(acted)
  BY DEF Does
<1>4. trail \in [Person -> [Act -> Nat]] /\ acted \in [Person -> [Act -> Nat]]
  BY DEF TypeOK
<1>5. More(trail) \in [Person -> [Act -> Nat]] /\ More(acted) \in [Person -> [Act -> Nat]]
  BY <1>1, <1>4
<1> HIDE DEF More
<1> QED
  BY <1>2, <1>3, <1>5

\* Everything but the limiters keeps its type.
LEMMA ApiTyped ==
  ASSUME TypeOK, LimiterOK', [Next]_vars
  PROVE  TypeOK'
<1> USE BoundsAssumption
<1>1. CASE UNCHANGED vars
  BY <1>1 DEF vars, TypeOK
<1>2. CASE Clock
  BY <1>2 DEF Clock, TypeOK
<1>3. CASE Janitor
  BY <1>3 DEF Janitor, TypeOK
<1>4. CASE Restarts
  <2>1. req' \in [Request -> Phases] /\ boots' \in 1 .. MaxBoots /\ trusted' \subseteq Person
    BY <1>4, PersonAssumption DEF Restarts, TypeOK, Phases
  <2> QED
    BY <1>4, <2>1 DEF Restarts, TypeOK
<1>5. ASSUME NEW r \in Request, RequestStep(r)
      PROVE  TypeOK'
  <2>1. ASSUME NEW op \in Op, NEW p \in Person \cup {None}, NEW ip \in Ip, Arrives(r, op, p, ip)
        PROVE  TypeOK'
    <3>1. arrivals' \in 0 .. MaxArrivals
      BY <2>1 DEF Arrives, TypeOK
    <3>2. p \in Person => Working("auth", op, p, "none") \in Phases
      BY DEF Phases
    <3>3. req' \in [Request -> Phases]
      BY <2>1, <3>2 DEF Arrives, TypeOK
    <3> QED
      BY <2>1, <3>1, <3>3 DEF Arrives, TypeOK
  <2>2. ASSUME NEW a \in BOOLEAN, Upserts(r, a)
        PROVE  TypeOK'
    <3> DEFINE p == req[r].who
               rl == IF role[p] = "none" THEN "user" ELSE role[p]
    <3>1. ~At(r, "idle") /\ p \in Person /\ rl \in {"none", "user", "admin"}
      BY <2>2, AtWork DEF Upserts, At, TypeOK
    <3>2. role' = [role EXCEPT ![p] = rl] /\ (Goes(r, "promote") \/ Ends(r) \/ After(r, rl))
      BY <2>2 DEF Upserts
    <3>3. req' \in [Request -> Phases]
      BY <3>1, <3>2, MovesTyped
    <3>4. role' \in [Person -> {"none", "user", "admin"}]
      BY <3>1, <3>2 DEF TypeOK
    <3> QED
      BY <2>2, <3>3, <3>4 DEF Upserts, TypeOK
  <2>3. ASSUME NEW a \in BOOLEAN, Promotes(r, a)
        PROVE  TypeOK'
    <3>1. ~At(r, "idle") /\ (Ends(r) \/ After(r, "admin"))
      BY <2>3 DEF Promotes, At
    <3>2. req' \in [Request -> Phases]
      BY <3>1, MovesTyped
    <3>3. role' \in [Person -> {"none", "user", "admin"}]
      BY <2>3 DEF Promotes, TypeOK
    <3> QED
      BY <2>3, <3>2, <3>3 DEF Promotes, TypeOK
  <2>4. ASSUME NEW a \in BOOLEAN, RecordsExport(r, a)
        PROVE  TypeOK'
    <3>1. ~At(r, "idle") /\ (Goes(r, "stream") \/ Ends(r)) /\ Logs(req[r].who, "export")
      BY <2>4 DEF RecordsExport, At
    <3>2. req' \in [Request -> Phases]
      BY <3>1, MovesTyped
    <3>3. trail' \in [Person -> [Act -> Nat]]
      BY <3>1, AtWork, CountsTyped DEF Act
    <3> QED
      BY <2>4, <3>2, <3>3 DEF RecordsExport, TypeOK
  <2>5. CASE SpendsAllowance(r)
    <3>1. ~At(r, "idle") /\ (Goes(r, "handle") \/ Ends(r))
      BY <2>5 DEF SpendsAllowance, At
    <3>2. req' \in [Request -> Phases]
      BY <3>1, MovesTyped
    <3> QED
      BY <2>5, <3>2 DEF SpendsAllowance, TypeOK
  <2>6. CASE Corrects(r)
    <3>1. ~At(r, "idle") /\ Ends(r) /\ Logs(req[r].who, "correct") /\ Does(req[r].who, "correct")
      BY <2>6 DEF Corrects, At
    <3>2. req' \in [Request -> Phases]
      BY <3>1, MovesTyped
    <3>3. trail' \in [Person -> [Act -> Nat]] /\ acted' \in [Person -> [Act -> Nat]]
      BY <3>1, AtWork, CountsTyped DEF Act
    <3> QED
      BY <2>6, <3>2, <3>3 DEF Corrects, TypeOK
  <2>7. CASE Streams(r)
    <3>1. ~At(r, "idle") /\ Ends(r) /\ Does(req[r].who, "export")
      BY <2>7 DEF Streams, At
    <3>2. req' \in [Request -> Phases]
      BY <3>1, MovesTyped
    <3>3. acted' \in [Person -> [Act -> Nat]]
      BY <3>1, AtWork, CountsTyped DEF Act
    <3> QED
      BY <2>7, <3>2, <3>3 DEF Streams, TypeOK
  <2>8. CASE StartsBroadcast(r)
    <3>1. ~At(r, "idle") /\ Goes(r, "record") /\ Does(req[r].who, "broadcast")
      BY <2>8 DEF StartsBroadcast, At
    <3>2. req' \in [Request -> Phases]
      BY <3>1, MovesTyped
    <3>3. acted' \in [Person -> [Act -> Nat]]
      BY <3>1, AtWork, CountsTyped DEF Act
    <3> QED
      BY <2>8, <3>2, <3>3 DEF StartsBroadcast, TypeOK
  <2>9. CASE RecordsBroadcast(r)
    <3>1. ~At(r, "idle") /\ Ends(r) /\ Logs(req[r].who, "broadcast")
      BY <2>9 DEF RecordsBroadcast, At
    <3>2. req' \in [Request -> Phases]
      BY <3>1, MovesTyped
    <3>3. trail' \in [Person -> [Act -> Nat]]
      BY <3>1, AtWork, CountsTyped DEF Act
    <3> QED
      BY <2>9, <3>2, <3>3 DEF RecordsBroadcast, TypeOK
  <2>10. CASE Answers(r)
    <3>1. req' \in [Request -> Phases]
      BY <2>10, MovesTyped DEF Answers
    <3> QED
      BY <2>10, <3>1 DEF Answers, TypeOK
  <2> QED
    BY <1>5, <2>1, <2>2, <2>3, <2>4, <2>5, <2>6, <2>7, <2>8, <2>9, <2>10 DEF RequestStep
<1> QED
  BY <1>1, <1>2, <1>3, <1>4, <1>5 DEF Next

\* The first state.
LEMMA TypedAtFirst ==
  ASSUME Init
  PROVE  TypeOK /\ FiniteRecord
<1>1. LimiterOK
  BY ClockAssumption DEF Init, LimiterInit, LimiterOK, BucketOK, Time
<1>2. FiniteRecord
  BY FS_EmptySet DEF Init, LimiterInit, FiniteRecord
<1>3. trusted \subseteq Person /\ arrivals \in 0 .. MaxArrivals /\ boots \in 1 .. MaxBoots
  BY BoundsAssumption DEF Init
<1> QED
  BY <1>1, <1>2, <1>3 DEF Init, TypeOK, NoRows, Phases

\* Types and the finite record are kept together.
LEMMA TypedKept ==
  ASSUME TypeOK, FiniteRecord, [Next]_vars
  PROVE  TypeOK' /\ FiniteRecord'
<1>1. LimiterOK' /\ FiniteRecord'
  BY LimitersStep, LimiterKept DEF TypeOK
<1> QED
  BY <1>1, ApiTyped

\* TypeOK for every number of people, requests and starts: no bucket ever
\* overflows or goes below nothing, whoever is served and whatever is swept.
THEOREM TypeCorrect == Spec => []TypeOK
<1>1. Init => TypeOK /\ FiniteRecord
  BY TypedAtFirst
<1>2. TypeOK /\ FiniteRecord /\ [Next]_vars => (TypeOK /\ FiniteRecord)'
  BY TypedKept
<1> QED
  BY <1>1, <1>2, PTL DEF Spec

\* Buckets made late, refilled lazily and swept when idle are token buckets,
\* for all rates, all keys and every janitor that waits for a minute or more.
THEOREM LimitersAreTokenBuckets == Spec => ImplementsTokenBucket
<1>1. Init => TypeOK /\ FiniteRecord
  BY TypedAtFirst
<1>2. TypeOK /\ FiniteRecord /\ [Next]_vars => (TypeOK /\ FiniteRecord)'
  BY TypedKept
<1>3. Init => Budget!Init
  BY DEF Init, LimiterInit, Budget!Init, Budget!Brimful, Budget!Full, Level, Full
<1>4. TypeOK /\ [Next]_vars => [Budget!Next]_[k \in Key |-> Level(k)]
  BY LimitersStep, BucketStep DEF TypeOK
<1> QED
  BY <1>1, <1>2, <1>3, <1>4, PTL DEF Spec, ImplementsTokenBucket, Budget!Spec

-----------------------------------------------------------------------------
(* Rates *)

\* The requests of k that passed within the last j ticks.
Recent(k, j) == {a \in admitted[k] : a[1] > now - j}

Weight(k, j) == Cardinality(Recent(k, j)) * Minute

\* The record holds a minute, and its next number is free.
Recorded(k) ==
  \A a \in admitted[k] :
    a[1] <= now /\ a[1] > now - Minute /\ (a[1] = now => a[2] < Cardinality(admitted[k]))

\* What k can spend, with what it spent within any j ticks, lies between the refill
\* of j ticks and the burst with the refill of the ticks between.
Rated(k) ==
  /\ Recorded(k)
  /\ \A j \in 0 .. Minute : Rate(k) * j <= Level(k) + Weight(k, j)
  /\ \A j \in 1 .. Minute : Weight(k, j) + Level(k) <= Full(k) + Rate(k) * (j - 1)

LEMMA RecentFinite ==
  ASSUME FiniteRecord, NEW k \in Key, NEW j \in Nat
  PROVE  /\ Cardinality(Recent(k, j)) \in Nat /\ Weight(k, j) \in Nat
         /\ IsFiniteSet(Recent(k, j))
<1>1. Recent(k, j) \subseteq admitted[k] /\ IsFiniteSet(admitted[k])
  BY DEF Recent, FiniteRecord
<1>2. IsFiniteSet(Recent(k, j))
  BY <1>1, FS_Subset
<1>3. Cardinality(Recent(k, j)) \in Nat
  BY <1>2, FS_CardinalityType
<1> QED
  BY <1>2, <1>3, MinuteAssumption, TimesNat DEF Weight

\* A full bucket and an empty record.
LEMMA RatedWhenFull ==
  ASSUME NEW k \in Key, admitted[k] = {}, Level(k) = Full(k)
  PROVE  Rated(k)
<1>1. \A j \in 0 .. Minute : Weight(k, j) = 0
  <2>1. \A j \in 0 .. Minute : Recent(k, j) = {}
    BY DEF Recent
  <2> QED
    BY <2>1, FS_EmptySet, MinuteAssumption DEF Weight
<1>2. Rate(k) \in Nat /\ Minute \in Nat /\ Full(k) \in Nat /\ Full(k) = Rate(k) * Minute
  BY Rates, MinuteAssumption DEF Full
<1>3. ASSUME NEW j \in 0 .. Minute
      PROVE  Rate(k) * j <= Level(k) + Weight(k, j)
  <2>1. j * Rate(k) <= Minute * Rate(k)
    BY <1>2, TimesMono
  <2> QED
    BY <1>1, <1>2, <2>1
<1>4. ASSUME NEW j \in 1 .. Minute
      PROVE  Weight(k, j) + Level(k) <= Full(k) + Rate(k) * (j - 1)
  <2>1. Rate(k) * (j - 1) \in Nat /\ Weight(k, j) = 0
    BY <1>1, <1>2, TimesNat
  <2> QED
    BY <1>2, <2>1
<1> QED
  BY <1>3, <1>4 DEF Rated, Recorded

\* The same of every state, for the state after a step.
LEMMA AllRatedWhenFull == \A k \in Key : admitted[k] = {} /\ Level(k) = Full(k) => Rated(k)
  BY RatedWhenFull

LEMMA AllLevels == LimiterOK => \A l \in Key : Level(l) \in Nat /\ Level(l) <= Full(l)
  BY LevelRange

LEMMA RatedStays ==
  ASSUME NEW k \in Key, Rated(k), now' = now, admitted'[k] = admitted[k], Level(k)' = Level(k)
  PROVE  Rated(k)'
<1>1. Full(k)' = Full(k)
  BY DEF Full
<1>2. \A j \in 0 .. Minute : Weight(k, j)' = Weight(k, j)
  BY DEF Weight, Recent
<1>3. Recorded(k)'
  BY DEF Rated, Recorded
<1> QED
  BY <1>1, <1>2, <1>3 DEF Rated

\* A tick later, what was recent for j ticks is recent for j + 1.
LEMMA RatedByTick ==
  ASSUME LimiterOK, FiniteRecord, FiniteRecord', LimiterOK', NEW k \in Key, Rated(k), Tick
  PROVE  Rated(k)'
<1>1. /\ now \in Nat /\ now' = now + 1 /\ Minute \in Nat \ {0}
      /\ Rate(k) \in Nat /\ Full(k) \in Nat /\ Full(k)' = Full(k) /\ Full(k) = Rate(k) * Minute
      /\ admitted'[k] = {a \in admitted[k] : a[1] > now + 1 - Minute}
      /\ \A a \in admitted[k] : a[1] \in Nat /\ a[1] <= now /\ a[1] > now - Minute
  BY Rates, MinuteAssumption DEF Tick, LimiterOK, Time, Full, Rated, Recorded
<1>2. Level(k) \in Nat /\ Level(k)' \in Nat /\ Level(k)' <= Full(k)
  <2>1. (LimiterOK => \A l \in Key : Level(l) \in Nat /\ Level(l) <= Full(l))'
    BY AllLevels, PTL
  <2> QED
    BY <1>1, <2>1, LevelRange
<1>3. Level(k)' = IF Level(k) + Rate(k) > Full(k) THEN Full(k) ELSE Level(k) + Rate(k)
  BY TickDrips DEF Budget!Capped, Budget!Full, Full
<1>4. ASSUME NEW j \in 1 .. Minute
      PROVE  Weight(k, j)' = Weight(k, j - 1)
  <2>1. \A a \in admitted[k] :
          (a[1] > now + 1 - Minute /\ a[1] > now + 1 - j) <=> a[1] > now - (j - 1)
    BY <1>1
  <2>2. Recent(k, j)' = Recent(k, j - 1)
    BY <1>1, <2>1 DEF Recent
  <2> QED
    BY <2>2 DEF Weight
<1>5. Weight(k, 0) = 0 /\ Weight(k, 0)' = 0
  <2>1. Recent(k, 0) = {} /\ Recent(k, 0)' = {}
    BY <1>1 DEF Recent
  <2>2. 0 * Minute = 0
    BY <1>1
  <2> QED
    BY <2>1, <2>2, FS_EmptySet DEF Weight
<1>6. Recorded(k)'
  <2>1. ASSUME NEW a \in admitted'[k]
        PROVE  a[1] <= now' /\ a[1] > now' - Minute /\ a[1] # now'
    <3>1. a \in admitted[k] /\ a[1] > now + 1 - Minute
      BY <1>1, <2>1
    <3> QED
      BY <1>1, <3>1
  <2> QED
    BY <2>1 DEF Recorded
<1>7. ASSUME NEW j \in 0 .. Minute
      PROVE  Rate(k) * j <= Level(k)' + Weight(k, j)'
  <2>1. CASE j = 0
    BY <1>1, <1>2, <1>5, <2>1
  <2>2. CASE j # 0
    <3>1. j - 1 \in 0 .. Minute /\ j \in 1 .. Minute /\ j \in Nat /\ j - 1 \in Nat
      BY <1>1, <2>2
    <3>2. Rate(k) * (j - 1) <= Level(k) + Weight(k, j - 1)
      BY <3>1 DEF Rated
    <3>3. Rate(k) * j = Rate(k) * (j - 1) + Rate(k) /\ Rate(k) * (j - 1) \in Nat
      <4>1. ((j - 1) + 1) * Rate(k) = (j - 1) * Rate(k) + Rate(k)
        BY <1>1, <3>1, TimesNext
      <4> QED
        BY <1>1, <3>1, <4>1, TimesNat
    <3>4. Weight(k, j - 1) \in Nat
      BY <3>1, RecentFinite
    <3>5. Rate(k) * j <= Full(k)
      <4>1. j * Rate(k) <= Minute * Rate(k)
        BY <1>1, <3>1, TimesMono
      <4> QED
        BY <1>1, <3>1, <4>1
    <3> QED
      BY <1>1, <1>2, <1>3, <1>4, <3>1, <3>2, <3>3, <3>4, <3>5
  <2> QED
    BY <2>1, <2>2
<1>8. ASSUME NEW j \in 1 .. Minute
      PROVE  Weight(k, j)' + Level(k)' <= Full(k) + Rate(k) * (j - 1)
  <2>1. Rate(k) * (j - 1) \in Nat
    BY <1>1, TimesNat
  <2>2. CASE j = 1
    BY <1>1, <1>2, <1>4, <1>5, <2>1, <2>2
  <2>3. CASE j # 1
    <3>1. j - 1 \in 1 .. Minute /\ j - 1 \in Nat /\ j - 2 \in Nat /\ (j - 1) - 1 = j - 2
      BY <1>1, <2>3
    <3>2. Weight(k, j - 1) + Level(k) <= Full(k) + Rate(k) * (j - 2)
      BY <3>1 DEF Rated
    <3>3. Rate(k) * (j - 1) = Rate(k) * (j - 2) + Rate(k) /\ Rate(k) * (j - 2) \in Nat
      <4>1. ((j - 2) + 1) * Rate(k) = (j - 2) * Rate(k) + Rate(k) /\ (j - 2) + 1 = j - 1
        BY <1>1, <3>1, TimesNext
      <4> QED
        BY <1>1, <3>1, <4>1, TimesNat
    <3>4. Weight(k, j - 1) \in Nat
      BY <3>1, RecentFinite
    <3> QED
      BY <1>1, <1>2, <1>3, <1>4, <3>2, <3>3, <3>4
  <2> QED
    BY <2>2, <2>3
<1> QED
  BY <1>1, <1>6, <1>7, <1>8 DEF Rated

\* A request that passes moves one token from what k can spend to what it spent.
LEMMA RatedByAllow ==
  ASSUME LimiterOK, FiniteRecord, FiniteRecord', NEW k \in Key, Rated(k), Allows(k)
  PROVE  Rated(k)'
<1>1. /\ now \in Nat /\ now' = now /\ Minute \in Nat \ {0} /\ Level(k) \in Nat
      /\ Level(k) >= Minute /\ Level(k) <= Full(k) /\ Full(k) \in Nat /\ Full(k)' = Full(k)
      /\ Rate(k) \in Nat /\ Cardinality(admitted[k]) \in Nat /\ IsFiniteSet(admitted[k])
  BY Rates, LevelRange, MinuteAssumption, FS_CardinalityType
  DEF Allows, LimiterOK, Time, Full, FiniteRecord
<1>2. Level(k) - Minute \in Nat /\ Level(k) - Minute <= Full(k)
  BY <1>1
<1>3. Level(k)' = Level(k) - Minute
  BY <1>1, <1>2, NotedOnce DEF Allows
<1> DEFINE new == <<now, Cardinality(admitted[k])>>
<1>4. admitted'[k] = admitted[k] \cup {new} /\ new[1] = now /\ new[2] = Cardinality(admitted[k])
  BY DEF Allows, Admits, LimiterOK
<1>5. new \notin admitted[k]
  <2>1. \A a \in admitted[k] : a[1] = now => a[2] < Cardinality(admitted[k])
    BY DEF Rated, Recorded
  <2> HIDE DEF new
  <2> QED
    BY <1>1, <1>4, <2>1
<1>6. Cardinality(admitted'[k]) = Cardinality(admitted[k]) + 1
  <2> HIDE DEF new
  <2> QED
    BY <1>1, <1>4, <1>5, FS_AddElement
<1>7. Recorded(k)'
  <2>1. ASSUME NEW a \in admitted'[k]
        PROVE  a[1] <= now /\ a[1] > now - Minute
               /\ (a[1] = now => a[2] < Cardinality(admitted[k]) + 1)
    <3>1. CASE a \in admitted[k]
      <4>1. a[1] <= now /\ a[1] > now - Minute /\ (a[1] = now => a[2] < Cardinality(admitted[k]))
        BY <3>1 DEF Rated, Recorded
      <4>2. a[2] \in Nat
        BY <3>1 DEF LimiterOK
      <4> QED
        BY <1>1, <4>1, <4>2
    <3>2. CASE a = new
      <4> HIDE DEF new
      <4> QED
        BY <1>1, <1>4, <3>2
    <3> QED
      BY <1>4, <2>1, <3>1, <3>2
  <2> QED
    BY <1>1, <1>6, <2>1 DEF Recorded
<1>8. ASSUME NEW j \in 1 .. Minute
      PROVE  Weight(k, j)' = Weight(k, j) + Minute
  <2>1. now > now - j
    BY <1>1
  <2>2. Recent(k, j)' = Recent(k, j) \cup {new} /\ new \notin Recent(k, j)
    <3> HIDE DEF new
    <3> QED
      BY <1>1, <1>4, <1>5, <2>1 DEF Recent
  <2>3. IsFiniteSet(Recent(k, j)) /\ Cardinality(Recent(k, j)) \in Nat
    BY RecentFinite
  <2>4. Cardinality(Recent(k, j)') = Cardinality(Recent(k, j)) + 1
    <3> HIDE DEF new
    <3> QED
      BY <2>2, <2>3, FS_AddElement
  <2>5. (Cardinality(Recent(k, j)) + 1) * Minute = Cardinality(Recent(k, j)) * Minute + Minute
    BY <1>1, <2>3, TimesNext
  <2>6. Weight(k, j)' = Cardinality(Recent(k, j)') * Minute
    BY DEF Weight
  <2> QED
    BY <2>4, <2>5, <2>6 DEF Weight
<1>9. Weight(k, 0)' = 0
  <2>1. Recent(k, 0)' = {}
    <3>1. \A a \in admitted'[k] : a[1] <= now
      BY <1>1, <1>7 DEF Recorded
    <3>2. \A a \in admitted'[k] : a[1] \in Nat
      <4>1. \A a \in admitted[k] : a[1] \in Nat
        BY DEF LimiterOK, Time
      <4> HIDE DEF new
      <4> QED
        BY <1>1, <1>4, <4>1
    <3> QED
      BY <1>1, <3>1, <3>2 DEF Recent
  <2>2. 0 * Minute = 0
    BY <1>1
  <2> QED
    BY <2>1, <2>2, FS_EmptySet DEF Weight
<1>10. ASSUME NEW j \in 0 .. Minute
       PROVE  Rate(k) * j <= Level(k)' + Weight(k, j)'
  <2>1. CASE j = 0
    BY <1>1, <1>2, <1>3, <1>9, <2>1
  <2>2. CASE j # 0
    <3>1. Rate(k) * j <= Level(k) + Weight(k, j) /\ j \in 1 .. Minute /\ j \in Nat
      BY <1>1, <2>2 DEF Rated
    <3>2. Rate(k) * j \in Nat /\ Weight(k, j) \in Nat
      BY <1>1, <3>1, TimesNat, RecentFinite
    <3> QED
      BY <1>1, <1>3, <1>8, <3>1, <3>2
  <2> QED
    BY <2>1, <2>2
<1>11. ASSUME NEW j \in 1 .. Minute
       PROVE  Weight(k, j)' + Level(k)' <= Full(k) + Rate(k) * (j - 1)
  <2>1. Weight(k, j) + Level(k) <= Full(k) + Rate(k) * (j - 1) /\ j \in Nat /\ j - 1 \in Nat
    BY <1>1 DEF Rated
  <2>2. Rate(k) * (j - 1) \in Nat /\ Weight(k, j) \in Nat
    BY <1>1, <2>1, TimesNat, RecentFinite
  <2> QED
    BY <1>1, <1>3, <1>8, <2>1, <2>2
<1> QED
  BY <1>1, <1>7, <1>10, <1>11 DEF Rated

LEMMA RatedStep ==
  ASSUME LimiterOK, FiniteRecord, LimiterOK', FiniteRecord', LimiterStep,
         \A k \in Key : Rated(k)
  PROVE  \A k \in Key : Rated(k)'
<1>1. CASE Tick
  BY <1>1, RatedByTick
<1>2. CASE Forget
  <2>1. \A k \in Key : admitted'[k] = {} /\ Level(k)' = Full(k)'
    BY <1>2 DEF Forget, Level, Full
  <2>2. (\A k \in Key : admitted[k] = {} /\ Level(k) = Full(k) => Rated(k))'
    BY AllRatedWhenFull, PTL
  <2> QED
    BY <2>1, <2>2
<1>3. CASE UNCHANGED limits
  <2>1. \A k \in Key : Level(k)' = Level(k)
    BY <1>3 DEF limits, Level, Refilled, Full
  <2> QED
    BY <1>3, <2>1, RatedStays DEF limits
<1>4. ASSUME NEW l \in Key, Allows(l), NEW k \in Key
      PROVE  Rated(k)'
  <2>1. CASE k = l
    BY <1>4, <2>1, RatedByAllow
  <2>2. CASE k # l
    <3>1. Level(l) - Minute \in Nat /\ Level(l) - Minute <= Full(l)
      BY <1>4, LevelRange, Rates, MinuteAssumption DEF Allows
    <3>2. Level(k)' = Level(k)
      BY <1>4, <2>2, <3>1, NotedOnce DEF Allows
    <3>3. now' = now /\ admitted'[k] = admitted[k]
      BY <1>4, <2>2 DEF Allows, Admits, LimiterOK
    <3> QED
      BY <3>2, <3>3, RatedStays
  <2> QED
    BY <2>1, <2>2
<1>5. ASSUME NEW l \in Key, Refuses(l), NEW k \in Key
      PROVE  Rated(k)'
  <2>1. Level(k)' = Level(k)
    BY <1>5, LevelRange, NotedOnce DEF Refuses
  <2> QED
    BY <1>5, <2>1, RatedStays DEF Refuses
<1>6. ASSUME NEW K \in SUBSET Key, Sweep(K), NEW k \in Key
      PROVE  Rated(k)'
  BY <1>6, SweptIsFull, RatedStays DEF Sweep
<1> QED
  BY <1>1, <1>2, <1>3, <1>4, <1>5, <1>6 DEF LimiterStep

LEMMA RatedIsRateKept ==
  ASSUME LimiterOK, FiniteRecord, \A k \in Key : Rated(k)
  PROVE  RateKept
<1>1. SUFFICES ASSUME NEW k \in Key
               PROVE  /\ Level(k) < Minute => Cardinality(admitted[k]) >= Rate(k)
                      /\ Cardinality(admitted[k]) * Minute <= Full(k) + Rate(k) * (Minute - 1)
  BY DEF RateKept
<1>2. /\ Minute \in Nat /\ Minute >= 1 /\ Rate(k) \in Nat /\ Level(k) \in Nat /\ Full(k) \in Nat
  BY MinuteAssumption, Rates, LevelRange
<1>3. Recent(k, Minute) = admitted[k]
  BY DEF Recent, Rated, Recorded
<1>4. PICK n \in Nat : n = Cardinality(admitted[k]) /\ Weight(k, Minute) = n * Minute
  BY <1>2, <1>3, RecentFinite DEF Weight
<1>5. /\ Rate(k) * Minute <= Level(k) + n * Minute
      /\ n * Minute + Level(k) <= Full(k) + Rate(k) * (Minute - 1)
  BY <1>2, <1>4 DEF Rated
<1>6. n * Minute \in Nat /\ Rate(k) * (Minute - 1) \in Nat /\ Rate(k) * Minute \in Nat
  BY <1>2, TimesNat
<1>7. ASSUME Level(k) < Minute, n < Rate(k)
      PROVE  FALSE
  <2>1. n + 1 <= Rate(k) /\ n + 1 \in Nat
    BY <1>2, <1>7
  <2>2. (n + 1) * Minute <= Rate(k) * Minute
    BY <1>2, <2>1, TimesMono
  <2>3. (n + 1) * Minute = n * Minute + Minute
    BY <1>2, TimesNext
  <2> QED
    BY <1>2, <1>5, <1>6, <1>7, <2>2, <2>3
<1> QED
  BY <1>2, <1>4, <1>5, <1>6, <1>7

\* Over every minute, whatever is swept, refilled lazily or asked by others: a key is
\* refused only after its own rate was used up, and gets no more than a burst and the
\* refill of the minute.
THEOREM RatesAreKept == Spec => []RateKept
<1> DEFINE Inv == TypeOK /\ FiniteRecord /\ \A k \in Key : Rated(k)
<1>1. Init => Inv
  <2>1. Init => \A k \in Key : admitted[k] = {} /\ Level(k) = Full(k)
    BY DEF Init, LimiterInit, Level
  <2> QED
    BY <2>1, TypedAtFirst, RatedWhenFull
<1>2. Inv /\ [Next]_vars => Inv'
  <2>1. SUFFICES ASSUME Inv, [Next]_vars
                 PROVE  Inv'
    OBVIOUS
  <2>2. TypeOK' /\ FiniteRecord'
    BY <2>1, TypedKept
  <2>3. LimiterOK /\ LimiterOK'
    BY <2>1, <2>2 DEF TypeOK
  <2>4. \A k \in Key : Rated(k)'
    BY <2>1, <2>2, <2>3, LimitersStep, RatedStep
  <2> QED
    BY <2>2, <2>4
<1>3. Inv => RateKept
  BY RatedIsRateKept DEF TypeOK
<1> QED
  BY <1>1, <1>2, <1>3, PTL DEF Spec

-----------------------------------------------------------------------------
(* Roles *)

\* A request waits for a promotion only if its caller was configured, and
\* whoever is past the check of the role with an administrator's request has
\* the role for good.
Cleared(r) ==
  /\ At(r, "promote") => req[r].who \in trusted
  /\ (\E pc \in {"budget", "handle", "stream", "record"} : At(r, pc))
       /\ req[r].op \in AdminOp => role[req[r].who] = "admin"
  /\ At(r, "stream") => req[r].op = "export"
  /\ At(r, "record") => req[r].op = "broadcast"

\* RolesEarned as it is kept.
RolesKept ==
  /\ RolesEarned
  /\ admin # None => admin \in trusted
  /\ \A r \in Request : Cleared(r)

\* After requireAdmin only administrators go on.
LEMMA AfterClears ==
  ASSUME TypeOK, NEW r \in Request, ~At(r, "idle"), NEW rl, After(r, rl),
         rl = "admin" => role'[req[r].who] = "admin"
  PROVE  Cleared(r)'
<1>1. req[r].op \in Op /\ req \in [Request -> Phases]
  BY AtWork DEF TypeOK
<1>2. req'[r] = Idling \/ /\ req'[r].pc \in {"budget", "handle"} /\ req'[r].op = req[r].op
                          /\ req'[r].who = req[r].who
                          /\ req[r].op \in AdminOp => rl = "admin"
  BY <1>1 DEF After, Working
<1> QED
  BY <1>2 DEF Cleared, At, Idling

\* Where a request goes on, it stays what it is.
LEMMA GoesOn ==
  ASSUME TypeOK, NEW r \in Request, ~At(r, "idle"), NEW pc, Goes(r, pc)
  PROVE  req'[r].pc = pc /\ req'[r].op = req[r].op /\ req'[r].who = req[r].who
<1>1. req[r] = Working(req[r].pc, req[r].op, req[r].who, req[r].role) /\ req \in [Request -> Phases]
  BY AtWork DEF TypeOK
<1>2. req'[r] = [req[r] EXCEPT !.pc = pc]
  BY <1>1 DEF Goes
<1> QED
  BY <1>1, <1>2 DEF Working

\* The other requests stay as cleared as they are: nobody loses the role.
LEMMA OthersCleared ==
  ASSUME TypeOK, RolesKept, NEW r \in Request, NEW q \in Request, q # r,
         req'[q] = req[q], trusted' = trusted,
         \A p \in Person : role[p] = "admin" => role'[p] = "admin"
  PROVE  Cleared(q)'
<1>1. ~At(q, "idle") => req[q].who \in Person
  BY AtWork
<1> QED
  BY <1>1 DEF RolesKept, Cleared, At

\* Counts that nobody touches keep their owners.
LEMMA EarnedKept ==
  ASSUME TypeOK, RolesEarned, NEW p \in Person, NEW a \in Act,
         role[p] = "admin",
         trusted' = trusted, role' = role,
         trail' = trail \/ Logs(p, a), acted' = acted \/ Does(p, a)
  PROVE  RolesEarned'
<1>1. trail \in [Person -> [Act -> Nat]] /\ acted \in [Person -> [Act -> Nat]]
  BY DEF TypeOK
<1>2. ASSUME NEW q \in Person, NEW b \in Act, q # p
      PROVE  acted'[q][b] = acted[q][b] /\ trail'[q][b] = trail[q][b]
  BY <1>1, <1>2 DEF Logs, Does
<1>3. ASSUME NEW q \in Person, q # p, \E b \in Act : acted'[q][b] + trail'[q][b] > 0
      PROVE  role'[q] = "admin"
  BY <1>2, <1>3 DEF RolesEarned
<1> QED
  BY <1>3 DEF RolesEarned

\* Every step keeps the roles as they were earned.
LEMMA RolesStep ==
  ASSUME TypeOK, RolesKept, [Next]_vars
  PROVE  RolesKept'
<1>1. CASE UNCHANGED vars
  BY <1>1 DEF vars, RolesKept, RolesEarned, Cleared, At
<1>2. CASE Clock
  BY <1>2 DEF Clock, RolesKept, RolesEarned, Cleared, At
<1>3. CASE Janitor
  BY <1>3 DEF Janitor, RolesKept, RolesEarned, Cleared, At
<1>4. CASE Restarts
  <2>1. trusted \subseteq Person /\ trusted \subseteq trusted'
    BY <1>4, PersonAssumption DEF Restarts, TypeOK
  <2>2. admin' # None => admin' \in trusted'
    BY <1>4 DEF Restarts
  <2>3. \A r \in Request : Cleared(r)'
    BY <1>4 DEF Restarts, Cleared, At, Idling
  <2>4. RolesEarned'
    BY <1>4, <2>1 DEF Restarts, RolesKept, RolesEarned
  <2> QED
    BY <2>2, <2>3, <2>4 DEF RolesKept
<1>5. ASSUME NEW r \in Request, RequestStep(r)
      PROVE  RolesKept'
  <2>1. ASSUME NEW op \in Op, NEW p \in Person \cup {None}, NEW ip \in Ip, Arrives(r, op, p, ip)
        PROVE  RolesKept'
    <3>1. UNCHANGED <<role, admin, trail, acted, trusted>>
      BY <2>1 DEF Arrives
    <3>2. \/ req' = req
          \/ req' = [req EXCEPT ![r] = Working("auth", op, p, "none")]
      BY <2>1 DEF Arrives
    <3>3. req \in [Request -> Phases]
      BY DEF TypeOK
    <3>4. Cleared(r)'
      BY <3>1, <3>2, <3>3 DEF RolesKept, Cleared, At, Working
    <3>5. \A q \in Request : q # r => Cleared(q)'
      BY <3>1, <3>2, <3>3 DEF RolesKept, Cleared, At
    <3> QED
      BY <3>1, <3>4, <3>5 DEF RolesKept, RolesEarned
  <2>2. ~At(r, "idle") => req[r].who \in Person /\ req[r].op \in Op
    BY AtWork
  <2>3. req \in [Request -> Phases] /\ role \in [Person -> {"none", "user", "admin"}]
    BY DEF TypeOK
  <2>4. ASSUME NEW a \in BOOLEAN, Upserts(r, a)
        PROVE  RolesKept'
    <3> DEFINE p == req[r].who
               rl == IF role[p] = "none" THEN "user" ELSE role[p]
    <3>1. /\ ~At(r, "idle") /\ p \in Person /\ role' = [role EXCEPT ![p] = rl]
          /\ UNCHANGED <<admin, trail, acted, trusted>>
      BY <2>2, <2>4 DEF Upserts, At
    <3>2. \A q \in Person : role'[q] = "admin" <=> role[q] = "admin"
      BY <2>3, <3>1
    <3>3. \/ Ends(r) \/ (Goes(r, "promote") /\ p = admin)
          \/ After(r, rl)
      BY <2>4 DEF Upserts
    <3>4. Cleared(r)'
      <4>1. CASE Ends(r)
        BY <2>3, <4>1 DEF Ends, Cleared, At, Idling
      <4>2. CASE Goes(r, "promote") /\ p = admin
        BY <2>3, <3>1, <4>2, PersonAssumption DEF Goes, RolesKept, Cleared, At
      <4>3. CASE After(r, rl)
        BY <3>1, <3>2, <2>3, <4>3, AfterClears
      <4> QED
        BY <3>3, <4>1, <4>2, <4>3
    <3>5. \A q \in Request : q # r => req'[q] = req[q]
      BY <2>3, <3>3 DEF Ends, Goes, After
    <3>6. \A q \in Request : q # r => Cleared(q)'
      BY <3>1, <3>2, <3>5, OthersCleared
    <3>7. RolesEarned'
      BY <3>1, <3>2 DEF RolesKept, RolesEarned
    <3> QED
      BY <3>1, <3>4, <3>6, <3>7 DEF RolesKept
  <2>5. ASSUME NEW a \in BOOLEAN, Promotes(r, a)
        PROVE  RolesKept'
    <3> DEFINE p == req[r].who
    <3>1. /\ ~At(r, "idle") /\ p \in Person /\ role' = [role EXCEPT ![p] = "admin"]
          /\ p \in trusted /\ UNCHANGED <<admin, trail, acted, trusted>>
      BY <2>2, <2>5 DEF Promotes, At, RolesKept, Cleared
    <3>2. \A q \in Person : role'[q] = "admin" <=> q = p \/ role[q] = "admin"
      BY <2>3, <3>1
    <3>3. Ends(r) \/ After(r, "admin")
      BY <2>5 DEF Promotes
    <3>4. Cleared(r)'
      <4>1. CASE Ends(r)
        BY <2>3, <4>1 DEF Ends, Cleared, At, Idling
      <4>2. CASE After(r, "admin")
        BY <3>1, <3>2, <4>2, AfterClears
      <4> QED
        BY <3>3, <4>1, <4>2
    <3>5. \A q \in Request : q # r => req'[q] = req[q]
      BY <2>3, <3>3 DEF Ends, After
    <3>6. \A q \in Request : q # r => Cleared(q)'
      BY <3>1, <3>2, <3>5, OthersCleared
    <3>7. RolesEarned'
      BY <3>1, <3>2 DEF RolesKept, RolesEarned
    <3> QED
      BY <3>1, <3>4, <3>6, <3>7 DEF RolesKept
  <2>6. ASSUME UNCHANGED <<role, admin, trail, acted, trusted>>, Ends(r) \/ Goes(r, "handle"),
               At(r, "budget") \/ Ends(r)
        PROVE  RolesKept'
    <3>1. \A q \in Request : q # r => Cleared(q)'
      BY <2>3, <2>6 DEF Ends, Goes, RolesKept, Cleared, At
    <3>2. CASE Ends(r)
      BY <2>3, <2>6, <3>1, <3>2 DEF Ends, RolesKept, RolesEarned, Cleared, At, Idling
    <3>3. CASE At(r, "budget") /\ Goes(r, "handle")
      <4>1. req'[r].pc = "handle" /\ req'[r].op = req[r].op /\ req'[r].who = req[r].who
        BY <3>3, GoesOn DEF At
      <4>2. Cleared(r)'
        BY <2>6, <3>3, <4>1 DEF RolesKept, Cleared, At
      <4> QED
        BY <2>6, <3>1, <4>2 DEF RolesKept, RolesEarned
    <3> QED
      BY <2>6, <3>2, <3>3
  <2>7. ASSUME NEW act \in Act, At(r, "handle") \/ At(r, "stream") \/ At(r, "record"),
               req[r].op = act, UNCHANGED <<role, admin, trusted>>,
               trail' = trail \/ Logs(req[r].who, act),
               acted' = acted \/ Does(req[r].who, act),
               \/ Ends(r) \/ (Goes(r, "stream") /\ act = "export")
               \/ (Goes(r, "record") /\ act = "broadcast")
        PROVE  RolesKept'
    <3>1. req[r].who \in Person /\ req[r].op \in AdminOp /\ role[req[r].who] = "admin"
      BY <2>2, <2>7 DEF At, AdminOp, RolesKept, Cleared
    <3>2. RolesEarned'
      BY <2>7, <3>1, EarnedKept DEF RolesKept
    <3>3. \A q \in Request : q # r => Cleared(q)'
      BY <2>3, <2>7 DEF Ends, Goes, RolesKept, Cleared, At
    <3>4. Cleared(r)'
      <4>1. CASE Ends(r)
        BY <2>3, <4>1 DEF Ends, Cleared, At, Idling
      <4>2. ASSUME NEW pc \in {"stream", "record"}, Goes(r, pc),
                   pc = "stream" => act = "export", pc = "record" => act = "broadcast"
            PROVE  Cleared(r)'
        <5>1. req'[r].pc = pc /\ req'[r].op = act /\ req'[r].who = req[r].who
          BY <2>7, <4>2, GoesOn DEF At
        <5> QED
          BY <2>7, <3>1, <4>2, <5>1 DEF Cleared, At
      <4> QED
        BY <2>7, <4>1, <4>2
    <3> QED
      BY <2>7, <3>2, <3>3, <3>4 DEF RolesKept
  <2>8. ASSUME NEW a \in BOOLEAN, RecordsExport(r, a)
        PROVE  RolesKept'
    BY <2>7, <2>8 DEF RecordsExport, Act
  <2>9. CASE SpendsAllowance(r)
    BY <2>6, <2>9 DEF SpendsAllowance
  <2>10. CASE Corrects(r)
    BY <2>7, <2>10 DEF Corrects, Act
  <2>11. CASE Streams(r)
    <3>1. req[r].op = "export"
      BY <2>11 DEF Streams, RolesKept, Cleared
    <3> QED
      BY <2>7, <2>11, <3>1 DEF Streams, Act
  <2>12. CASE StartsBroadcast(r)
    BY <2>7, <2>12 DEF StartsBroadcast, Act
  <2>13. CASE RecordsBroadcast(r)
    <3>1. req[r].op = "broadcast"
      BY <2>13 DEF RecordsBroadcast, RolesKept, Cleared
    <3> QED
      BY <2>7, <2>13, <3>1 DEF RecordsBroadcast, Act
  <2>14. CASE Answers(r)
    BY <2>6, <2>14 DEF Answers
  <2> QED
    BY <1>5, <2>1, <2>4, <2>5, <2>8, <2>9, <2>10, <2>11, <2>12, <2>13, <2>14 DEF RequestStep
<1> QED
  BY <1>1, <1>2, <1>3, <1>4, <1>5 DEF Next

\* Roles are earned, for any number of people, requests and restarts.
THEOREM RolesAreEarned == Spec => []RolesEarned
<1>1. Init => (TypeOK /\ FiniteRecord) /\ RolesKept
  <2>1. Init => RolesKept
    BY PersonAssumption DEF Init, NoRows, RolesKept, RolesEarned, Cleared, At, Idling
  <2> QED
    BY <2>1, TypedAtFirst
<1>2. (TypeOK /\ FiniteRecord) /\ RolesKept /\ [Next]_vars
        => ((TypeOK /\ FiniteRecord) /\ RolesKept)'
  BY TypedKept, RolesStep
<1>3. RolesKept => RolesEarned
  BY DEF RolesKept
<1> QED
  BY <1>1, <1>2, <1>3, PTL DEF Spec

-----------------------------------------------------------------------------
(* The audit trail *)

\* The requests of p that are at pc.
Stage(pc, p) == {r \in Request : At(r, pc) /\ req[r].who = p}

\* Corrections without a row, or rows without one.
Gap(p) == trail[p]["correct"] - acted[p]["correct"]

\* Exports that sent a row or are about to, beyond those on record.
Unrecorded(p) == acted[p]["export"] + Cardinality(Stage("stream", p)) - trail[p]["export"]

\* Broadcasts on record or about to be, beyond those that were started.
Unstarted(p) == trail[p]["broadcast"] + Cardinality(Stage("record", p)) - acted[p]["broadcast"]

\* AuditTrail with what is on its way.
LedgerKept == \A p \in Person : Gap(p) = 0 /\ Unrecorded(p) <= 0 /\ Unstarted(p) <= 0

\* Stages can be counted.
LEMMA StageFinite ==
  \A pc, p : /\ IsFiniteSet(Stage(pc, p)) /\ Cardinality(Stage(pc, p)) \in Nat
             /\ Cardinality(Stage(pc, p))' \in Nat
<1>1. \A pc, p : Stage(pc, p) \subseteq Request /\ Stage(pc, p)' \subseteq Request
  BY DEF Stage
<1> QED
  BY <1>1, BoundsAssumption, FS_Subset, FS_CardinalityType

\* A smaller stage counts no more.
LEMMA StageShrinks ==
  ASSUME NEW pc, NEW p, Stage(pc, p)' \subseteq Stage(pc, p)
  PROVE  /\ Cardinality(Stage(pc, p)') \in Nat
         /\ Cardinality(Stage(pc, p)') <= Cardinality(Stage(pc, p))
  BY StageFinite, FS_Subset, FS_CardinalityType

\* A stage nobody enters does not grow.
LEMMA NobodyEnters ==
  ASSUME TypeOK, NEW r \in Request, NEW pc, NEW p, NEW x,
         req' = [req EXCEPT ![r] = x], x.pc # pc
  PROVE  Stage(pc, p)' \subseteq Stage(pc, p) \ {r}
<1>1. req \in [Request -> Phases]
  BY DEF TypeOK
<1> QED
  BY <1>1 DEF Stage, At

\* What a request's step does to the stages.
LEMMA StageMoves ==
  ASSUME TypeOK, NEW r \in Request, ~At(r, "idle"), NEW pc \in {"stream", "record"}, NEW p
  PROVE  /\ Ends(r) => Stage(pc, p)' \subseteq Stage(pc, p) \ {r}
         /\ \A to : Goes(r, to) /\ to # pc => Stage(pc, p)' \subseteq Stage(pc, p) \ {r}
         /\ \A rl : After(r, rl) => Stage(pc, p)' \subseteq Stage(pc, p) \ {r}
         /\ Goes(r, pc) => Stage(pc, p)' \subseteq Stage(pc, p) \cup {r}
         /\ Goes(r, pc) /\ p # req[r].who => Stage(pc, p)' \subseteq Stage(pc, p)
<1>1. req \in [Request -> Phases]
  BY DEF TypeOK
<1>2. Ends(r) => Stage(pc, p)' \subseteq Stage(pc, p) \ {r}
  BY NobodyEnters DEF Ends, Idling
<1>3. ASSUME NEW to, Goes(r, to), to # pc
      PROVE  Stage(pc, p)' \subseteq Stage(pc, p) \ {r}
  BY <1>1, <1>3, GoesOn DEF Stage, At, Goes
<1>4. ASSUME NEW rl, After(r, rl)
      PROVE  Stage(pc, p)' \subseteq Stage(pc, p) \ {r}
  <2> DEFINE x == IF req[r].op = "verify" \/ (req[r].op \in AdminOp /\ rl # "admin") THEN Idling
                  ELSE Working(IF req[r].op \in Budgeted THEN "budget" ELSE "handle",
                               req[r].op, req[r].who, rl)
  <2>1. x.pc # pc
    BY DEF Working, Idling
  <2>2. req' = [req EXCEPT ![r] = x]
    BY <1>4 DEF After
  <2> HIDE DEF x
  <2> QED
    BY <2>1, <2>2, NobodyEnters
<1>5. Goes(r, pc) => Stage(pc, p)' \subseteq Stage(pc, p) \cup {r}
  BY <1>1 DEF Goes, Stage, At
<1>6. Goes(r, pc) /\ p # req[r].who => Stage(pc, p)' \subseteq Stage(pc, p)
  BY <1>1, GoesOn DEF Goes, Stage, At
<1> QED
  BY <1>2, <1>3, <1>4, <1>5, <1>6

\* Who is added to a stage is counted.
LEMMA StageGrows ==
  ASSUME NEW pc, NEW p, NEW r, Stage(pc, p)' \subseteq Stage(pc, p) \cup {r}
  PROVE  /\ Cardinality(Stage(pc, p)') \in Nat
         /\ Cardinality(Stage(pc, p)') <= Cardinality(Stage(pc, p)) + 1
<1> DEFINE S == Stage(pc, p)
<1>a. IsFiniteSet(S) /\ Cardinality(S) \in Nat
  BY StageFinite
<1> HIDE DEF S
<1>b. /\ IsFiniteSet(S \cup {r})
      /\ Cardinality(S \cup {r}) \in {Cardinality(S), Cardinality(S) + 1}
  BY <1>a, FS_AddElement
<1>1. /\ IsFiniteSet(Stage(pc, p) \cup {r})
      /\ Cardinality(Stage(pc, p) \cup {r}) <= Cardinality(Stage(pc, p)) + 1
      /\ Cardinality(Stage(pc, p)) \in Nat
      /\ Cardinality(Stage(pc, p) \cup {r}) \in Nat
  BY <1>a, <1>b DEF S
<1>2. /\ Cardinality(Stage(pc, p)') \in Nat
      /\ Cardinality(Stage(pc, p)') <= Cardinality(Stage(pc, p) \cup {r})
  BY <1>1, FS_Subset, FS_CardinalityType
<1> QED
  BY <1>1, <1>2

\* Who leaves a stage is no longer counted.
LEMMA StageLoses ==
  ASSUME NEW pc, NEW p, NEW r \in Stage(pc, p), Stage(pc, p)' \subseteq Stage(pc, p) \ {r}
  PROVE  /\ Cardinality(Stage(pc, p)') \in Nat
         /\ Cardinality(Stage(pc, p)') + 1 <= Cardinality(Stage(pc, p))
<1>1. /\ IsFiniteSet(Stage(pc, p) \ {r})
      /\ Cardinality(Stage(pc, p) \ {r}) = Cardinality(Stage(pc, p)) - 1
      /\ Cardinality(Stage(pc, p)) \in Nat
      /\ Cardinality(Stage(pc, p) \ {r}) \in Nat
  BY StageFinite, FS_RemoveElement, FS_CardinalityType
<1>2. /\ Cardinality(Stage(pc, p)') \in Nat
      /\ Cardinality(Stage(pc, p)') <= Cardinality(Stage(pc, p) \ {r})
  BY <1>1, FS_Subset, FS_CardinalityType
<1> QED
  BY <1>1, <1>2

\* A count that is logged or done goes up by one, and no other moves.
LEMMA OneMore ==
  ASSUME TypeOK, NEW p \in Person, NEW a \in Act, NEW q \in Person, NEW b \in Act
  PROVE  /\ trail[q][b] \in Nat /\ acted[q][b] \in Nat
         /\ Logs(p, a) => trail'[q][b] = IF q = p /\ b = a THEN trail[q][b] + 1 ELSE trail[q][b]
         /\ Does(p, a) => acted'[q][b] = IF q = p /\ b = a THEN acted[q][b] + 1 ELSE acted[q][b]
<1>1. trail \in [Person -> [Act -> Nat]] /\ acted \in [Person -> [Act -> Nat]]
  BY DEF TypeOK
<1> QED
  BY <1>1 DEF Logs, Does

\* A step keeps the ledger if it opens no gap.
LEMMA LedgerMoves ==
  ASSUME TypeOK, TypeOK', LedgerKept,
         \A p \in Person : /\ Gap(p)' = Gap(p)
                           /\ Unrecorded(p)' <= Unrecorded(p) /\ Unstarted(p)' <= Unstarted(p)
  PROVE  LedgerKept'
<1> SUFFICES ASSUME NEW p \in Person
             PROVE  Gap(p)' = 0 /\ Unrecorded(p)' <= 0 /\ Unstarted(p)' <= 0
  BY DEF LedgerKept
<1>1. \A a \in Act : /\ trail[p][a] \in Nat /\ acted[p][a] \in Nat
                     /\ trail'[p][a] \in Nat /\ acted'[p][a] \in Nat
  BY DEF TypeOK
<1>2. /\ Unrecorded(p) \in Int /\ Unrecorded(p)' \in Int
      /\ Unstarted(p) \in Int /\ Unstarted(p)' \in Int
  BY <1>1, StageFinite DEF Unrecorded, Unstarted, Act
<1> QED
  BY <1>2 DEF LedgerKept

\* What p's counts become by a step of a request r of who, about a.
LEMMA LedgerFacts ==
  ASSUME TypeOK, NEW p \in Person, NEW a \in Act, NEW who \in Person
  PROVE  /\ \A b \in Act : trail[p][b] \in Nat /\ acted[p][b] \in Nat
         /\ Logs(who, a) => \A b \in Act :
              trail'[p][b] = IF p = who /\ b = a THEN trail[p][b] + 1 ELSE trail[p][b]
         /\ Does(who, a) => \A b \in Act :
              acted'[p][b] = IF p = who /\ b = a THEN acted[p][b] + 1 ELSE acted[p][b]
  BY OneMore

\* Every step keeps the ledger.
LEMMA LedgerStep ==
  ASSUME TypeOK, TypeOK', LedgerKept, [Next]_vars
  PROVE  LedgerKept'
<1> SUFFICES ASSUME NEW p \in Person
             PROVE  /\ Gap(p)' = Gap(p)
                    /\ Unrecorded(p)' <= Unrecorded(p) /\ Unstarted(p)' <= Unstarted(p)
  BY LedgerMoves
<1> DEFINE w == Cardinality(Stage("stream", p))
           s == Cardinality(Stage("record", p))
<1>n. w \in Nat /\ s \in Nat /\ w' \in Nat /\ s' \in Nat
  BY StageFinite
<1>t. \A b \in Act : trail[p][b] \in Nat /\ acted[p][b] \in Nat
  BY DEF TypeOK
<1>q. ASSUME UNCHANGED <<trail, acted>>,
             Stage("stream", p)' \subseteq Stage("stream", p),
             Stage("record", p)' \subseteq Stage("record", p)
      PROVE  /\ Gap(p)' = Gap(p)
             /\ Unrecorded(p)' <= Unrecorded(p) /\ Unstarted(p)' <= Unstarted(p)
  <2>1. w' <= w /\ s' <= s
    BY <1>q, StageShrinks
  <2> QED
    BY <1>n, <1>t, <1>q, <2>1 DEF Gap, Unrecorded, Unstarted, Act
<1>1. ASSUME UNCHANGED <<req, trail, acted>>
      PROVE  /\ Gap(p)' = Gap(p)
             /\ Unrecorded(p)' <= Unrecorded(p) /\ Unstarted(p)' <= Unstarted(p)
  BY <1>1, <1>q DEF Stage, At
<1>2. CASE UNCHANGED vars
  BY <1>1, <1>2 DEF vars
<1>3. CASE Clock \/ Janitor
  BY <1>1, <1>3 DEF Clock, Janitor
<1>4. CASE Restarts
  <2>1. Stage("stream", p)' = {} /\ Stage("record", p)' = {}
    BY <1>4 DEF Restarts, Stage, At, Idling
  <2> QED
    BY <1>4, <2>1, <1>q DEF Restarts
<1>5. ASSUME NEW r \in Request, RequestStep(r)
      PROVE  /\ Gap(p)' = Gap(p)
             /\ Unrecorded(p)' <= Unrecorded(p) /\ Unstarted(p)' <= Unstarted(p)
  <2> DEFINE who == req[r].who
  <2>1. ASSUME UNCHANGED <<trail, acted>>, ~At(r, "idle"),
               \/ Ends(r) \/ (\E rl : After(r, rl))
               \/ \E to \in {"promote", "handle"} : Goes(r, to)
        PROVE  /\ Gap(p)' = Gap(p)
               /\ Unrecorded(p)' <= Unrecorded(p) /\ Unstarted(p)' <= Unstarted(p)
    <3>1. \A pc \in {"stream", "record"} : Stage(pc, p)' \subseteq Stage(pc, p)
      BY <2>1, StageMoves
    <3> QED
      BY <2>1, <3>1, <1>q
  <2>2. ASSUME NEW op \in Op, NEW c \in Person \cup {None}, NEW ip \in Ip, Arrives(r, op, c, ip)
        PROVE  /\ Gap(p)' = Gap(p)
               /\ Unrecorded(p)' <= Unrecorded(p) /\ Unstarted(p)' <= Unstarted(p)
    <3>1. CASE UNCHANGED req
      BY <1>1, <2>2, <3>1 DEF Arrives
    <3>2. CASE req' = [req EXCEPT ![r] = Working("auth", op, c, "none")]
      <4>1. Working("auth", op, c, "none").pc = "auth"
        BY DEF Working
      <4>2. \A pc \in {"stream", "record"} : Stage(pc, p)' \subseteq Stage(pc, p)
        BY <3>2, <4>1, NobodyEnters
      <4> QED
        BY <2>2, <4>2, <1>q DEF Arrives
    <3> QED
      BY <2>2, <3>1, <3>2 DEF Arrives
  <2>3. ASSUME NEW a \in BOOLEAN, Upserts(r, a) \/ Promotes(r, a)
        PROVE  /\ Gap(p)' = Gap(p)
               /\ Unrecorded(p)' <= Unrecorded(p) /\ Unstarted(p)' <= Unstarted(p)
    BY <2>1, <2>3 DEF Upserts, Promotes, At
  <2>4. CASE SpendsAllowance(r) \/ Answers(r)
    BY <2>1, <2>4 DEF SpendsAllowance, Answers, At
  <2>6. ~At(r, "idle") => who \in Person
    BY AtWork
  <2>e. ASSUME ~At(r, "idle"), Ends(r)
        PROVE  w' <= w /\ s' <= s
    BY <2>e, StageMoves, StageShrinks
  <2>7. CASE Corrects(r)
    <3>1. ~At(r, "idle") /\ Ends(r) /\ Logs(who, "correct") /\ Does(who, "correct")
      BY <2>7 DEF Corrects, At
    <3>2. /\ trail'[p]["correct"] - acted'[p]["correct"] = trail[p]["correct"] - acted[p]["correct"]
          /\ \A b \in {"export", "broadcast"} :
                trail'[p][b] = trail[p][b] /\ acted'[p][b] = acted[p][b]
      BY <2>6, <3>1, <1>t, LedgerFacts DEF Act
    <3> QED
      BY <1>n, <1>t, <2>e, <3>1, <3>2 DEF Gap, Unrecorded, Unstarted, Act
  <2>8. ASSUME NEW a \in BOOLEAN, RecordsExport(r, a)
        PROVE  /\ Gap(p)' = Gap(p)
               /\ Unrecorded(p)' <= Unrecorded(p) /\ Unstarted(p)' <= Unstarted(p)
    <3>1. ~At(r, "idle") /\ (Ends(r) \/ Goes(r, "stream")) /\ Logs(who, "export") /\ acted' = acted
      BY <2>8 DEF RecordsExport, At
    <3>2. s' <= s
      BY <3>1, StageMoves, StageShrinks
    <3>3. IF p = who THEN w' <= w + 1 ELSE w' <= w
      <4>1. CASE Ends(r)
        BY <3>1, <4>1, <2>e, <1>n
      <4>2. CASE Goes(r, "stream") /\ p = who
        BY <3>1, <4>2, StageMoves, StageGrows
      <4>3. CASE Goes(r, "stream") /\ p # who
        BY <3>1, <4>3, StageMoves, StageShrinks
      <4> QED
        BY <3>1, <4>1, <4>2, <4>3
    <3>4. /\ trail'[p]["export"] = IF p = who THEN trail[p]["export"] + 1 ELSE trail[p]["export"]
          /\ \A b \in {"correct", "broadcast"} : trail'[p][b] = trail[p][b]
      BY <2>6, <3>1, LedgerFacts DEF Act
    <3> HIDE DEF who
    <3> QED
      BY <1>n, <1>t, <3>1, <3>2, <3>3, <3>4 DEF Gap, Unrecorded, Unstarted, Act
  <2>9. CASE Streams(r)
    <3>1. ~At(r, "idle") /\ Ends(r) /\ Does(who, "export") /\ trail' = trail /\ At(r, "stream")
      BY <2>9 DEF Streams, At
    <3>2. IF p = who THEN w' + 1 <= w ELSE w' <= w
      <4>1. CASE p = who
        <5>1. r \in Stage("stream", p) /\ Stage("stream", p)' \subseteq Stage("stream", p) \ {r}
          BY <3>1, <4>1, StageMoves DEF Stage
        <5> QED
          BY <4>1, <5>1, StageLoses
      <4>2. CASE p # who
        BY <3>1, <4>2, <2>e
      <4> QED
        BY <4>1, <4>2
    <3>3. /\ acted'[p]["export"] = IF p = who THEN acted[p]["export"] + 1 ELSE acted[p]["export"]
          /\ \A b \in {"correct", "broadcast"} : acted'[p][b] = acted[p][b]
      BY <2>6, <3>1, LedgerFacts DEF Act
    <3>4. s' <= s
      BY <2>e, <3>1
    <3> HIDE DEF who
    <3> QED
      BY <1>n, <1>t, <3>1, <3>2, <3>3, <3>4 DEF Gap, Unrecorded, Unstarted, Act
  <2>10. CASE StartsBroadcast(r)
    <3>1. ~At(r, "idle") /\ Goes(r, "record") /\ Does(who, "broadcast") /\ trail' = trail
      BY <2>10 DEF StartsBroadcast, At
    <3>2. w' <= w
      BY <3>1, StageMoves, StageShrinks
    <3>3. IF p = who THEN s' <= s + 1 ELSE s' <= s
      <4>1. CASE p = who
        BY <3>1, <4>1, StageMoves, StageGrows
      <4>2. CASE p # who
        BY <3>1, <4>2, StageMoves, StageShrinks
      <4> QED
        BY <4>1, <4>2
    <3>4. /\ acted'[p]["broadcast"] = IF p = who THEN acted[p]["broadcast"] + 1
                                      ELSE acted[p]["broadcast"]
          /\ \A b \in {"correct", "export"} : acted'[p][b] = acted[p][b]
      BY <2>6, <3>1, LedgerFacts DEF Act
    <3> HIDE DEF who
    <3> QED
      BY <1>n, <1>t, <3>1, <3>2, <3>3, <3>4 DEF Gap, Unrecorded, Unstarted, Act
  <2>11. CASE RecordsBroadcast(r)
    <3>1. ~At(r, "idle") /\ Ends(r) /\ Logs(who, "broadcast") /\ acted' = acted /\ At(r, "record")
      BY <2>11 DEF RecordsBroadcast, At
    <3>2. IF p = who THEN s' + 1 <= s ELSE s' <= s
      <4>1. CASE p = who
        <5>1. r \in Stage("record", p) /\ Stage("record", p)' \subseteq Stage("record", p) \ {r}
          BY <3>1, <4>1, StageMoves DEF Stage
        <5> QED
          BY <4>1, <5>1, StageLoses
      <4>2. CASE p # who
        BY <3>1, <4>2, <2>e
      <4> QED
        BY <4>1, <4>2
    <3>3. /\ trail'[p]["broadcast"] = IF p = who THEN trail[p]["broadcast"] + 1
                                      ELSE trail[p]["broadcast"]
          /\ \A b \in {"correct", "export"} : trail'[p][b] = trail[p][b]
      BY <2>6, <3>1, LedgerFacts DEF Act
    <3>4. w' <= w
      BY <2>e, <3>1
    <3> HIDE DEF who
    <3> QED
      BY <1>n, <1>t, <3>1, <3>2, <3>3, <3>4 DEF Gap, Unrecorded, Unstarted, Act
  <2> QED
    BY <1>5, <2>2, <2>3, <2>4, <2>7, <2>8, <2>9, <2>10, <2>11 DEF RequestStep
<1> QED
  BY <1>2, <1>3, <1>4, <1>5 DEF Next

\* The audit trail for any number of administrators and requests, any failure
\* and any restart.
THEOREM TrailIsTrue == Spec => []AuditTrail
<1>1. Init => (TypeOK /\ FiniteRecord) /\ LedgerKept
  <2>1. ASSUME Init PROVE LedgerKept
    <3>1. \A p \in Person : Stage("stream", p) = {} /\ Stage("record", p) = {}
      BY <2>1 DEF Init, Stage, At, Idling
    <3> QED
      BY <2>1, <3>1, FS_EmptySet DEF Init, NoRows, LedgerKept, Gap, Unrecorded, Unstarted, Act
  <2> QED
    BY <2>1, TypedAtFirst
<1>2. (TypeOK /\ FiniteRecord) /\ LedgerKept /\ [Next]_vars
        => ((TypeOK /\ FiniteRecord) /\ LedgerKept)'
  BY TypedKept, LedgerStep
<1>3. TypeOK /\ LedgerKept => AuditTrail
  <2> SUFFICES ASSUME TypeOK, LedgerKept, NEW p \in Person
               PROVE  /\ trail[p]["correct"] = acted[p]["correct"]
                      /\ acted[p]["export"] <= trail[p]["export"]
                      /\ trail[p]["broadcast"] <= acted[p]["broadcast"]
    BY DEF AuditTrail
  <2>1. /\ trail[p]["correct"] \in Nat /\ acted[p]["correct"] \in Nat
        /\ trail[p]["export"] \in Nat /\ acted[p]["export"] \in Nat
        /\ trail[p]["broadcast"] \in Nat /\ acted[p]["broadcast"] \in Nat
    BY DEF TypeOK, Act
  <2> DEFINE w == Cardinality(Stage("stream", p))
             s == Cardinality(Stage("record", p))
  <2>2. w \in Nat /\ s \in Nat
    BY StageFinite
  <2>3. /\ trail[p]["correct"] - acted[p]["correct"] = 0
        /\ acted[p]["export"] + w - trail[p]["export"] <= 0
        /\ trail[p]["broadcast"] + s - acted[p]["broadcast"] <= 0
    BY DEF LedgerKept, Gap, Unrecorded, Unstarted
  <2> HIDE DEF w, s
  <2>4. trail[p]["correct"] = acted[p]["correct"]
    BY <2>1, <2>3
  <2>5. acted[p]["export"] <= trail[p]["export"]
    BY <2>1, <2>2, <2>3
  <2>6. trail[p]["broadcast"] <= acted[p]["broadcast"]
    BY <2>1, <2>2, <2>3
  <2> QED
    BY <2>4, <2>5, <2>6
<1> QED
  BY <1>1, <1>2, <1>3, PTL DEF Spec
=============================================================================
