------------------------------ MODULE RateLimiter ------------------------------
(***************************************************************************)
(* The rate limiters of the HTTP API: api/ratelimit.go and the janitor of  *)
(* api/server.go. The five limiters differ in their rate and in what they  *)
(* are keyed by, so a key is a limiter and an identity. A bucket is made   *)
(* at the first request of its key, refilled only when it is used, and     *)
(* deleted by the janitor when it was idle for long.                       *)
(*                                                                         *)
(* Time is a clock of ticks. Tokens are fractions in the code: here they   *)
(* are scaled by the ticks of a minute, so that refills are whole numbers. *)
(***************************************************************************)
EXTENDS Integers, FiniteSets

CONSTANTS
  None,      \* the absent value
  Key,       \* limiters and the identities they are keyed by
  Rate(_),      \* Rate(k): requests per minute, which is also the burst
  Minute,    \* ticks in a minute
  MaxIdle,   \* ticks after which the janitor may forget a bucket
  MaxClock   \* bound: the clock

ASSUME RateAssumption == \A k \in Key : Rate(k) \in Nat \ {0}
ASSUME MinuteAssumption == Minute \in Nat \ {0}
\* 10 minutes in the code.
ASSUME IdleAssumption == MaxIdle \in Nat /\ MaxIdle >= Minute
ASSUME ClockAssumption == MaxClock \in Nat
ASSUME BucketAssumption == None \notin [tokens : Nat, last : Nat]

VARIABLES
  now,       \* the clock
  bucket,    \* bucket[k]: visitors[k] of its limiter, or None
  admitted   \* history: admitted[k], the requests of k that passed within a minute

limits == <<now, bucket, admitted>>

-----------------------------------------------------------------------------

Time == 0 .. MaxClock
Full(k) == Rate(k) * Minute

\* The refill for the time since the bucket was used, capped at the burst.
Refilled(k, b) ==
  LET n == b.tokens + (now - b.last) * Rate(k) IN IF n > Full(k) THEN Full(k) ELSE n

\* What k could spend now; a key without a bucket has the whole burst.
Level(k) == IF bucket[k] = None THEN Full(k) ELSE Refilled(k, bucket[k])

LimiterInit ==
  /\ now = 0
  /\ bucket = [k \in Key |-> None]
  /\ admitted = [k \in Key |-> {}]

\* A request of k passes: it is told from the others by its time and a number.
Admits(k) == admitted' = [admitted EXCEPT ![k] = @ \cup {<<now, Cardinality(@)>>}]

\* Mutant of Allows: a request of k is charged to every key.
AllowsAll(k) ==
  /\ Level(k) >= Minute
  /\ bucket' = [l \in Key |-> [tokens |-> IF Level(l) >= Minute THEN Level(l) - Minute ELSE 0,
                               last |-> now]]
  /\ Admits(k)
  /\ UNCHANGED now

\* allow(k) is true.
Allows(k) ==
  /\ Level(k) >= Minute
  /\ bucket' = [bucket EXCEPT ![k] = [tokens |-> Level(k) - Minute, last |-> now]]
  /\ Admits(k)
  /\ UNCHANGED now

\* allow(k) is false; the refill is noted all the same.
Refuses(k) ==
  /\ Level(k) < Minute
  /\ bucket' = [bucket EXCEPT ![k] = [tokens |-> Level(k), last |-> now]]
  /\ UNCHANGED <<now, admitted>>

\* Mutant of Idle: a bucket is idle as soon as it is not used.
IdleAtOnce(k) == bucket[k] # None /\ now - bucket[k].last >= 0

Idle(k) == bucket[k] # None /\ now - bucket[k].last > MaxIdle

\* The janitor sweeps one limiter, whose keys are K.
Sweep(K) ==
  /\ bucket' = [k \in Key |-> IF k \in K /\ Idle(k) THEN None ELSE bucket[k]]
  /\ UNCHANGED <<now, admitted>>

Tick ==
  /\ now < MaxClock
  /\ now' = now + 1
  /\ admitted' = [k \in Key |-> {a \in admitted[k] : a[1] > now + 1 - Minute}]
  /\ UNCHANGED bucket

\* A new process starts with empty maps. Its history starts anew.
Forget ==
  /\ bucket' = [k \in Key |-> None]
  /\ admitted' = [k \in Key |-> {}]
  /\ UNCHANGED now

-----------------------------------------------------------------------------
(* Correctness properties *)

BucketOK(k) ==
  bucket[k] # None => /\ bucket[k] \in [tokens : Nat, last : Time]
                      /\ bucket[k].tokens <= Full(k)
                      /\ bucket[k].last <= now

\* Every bucket holds between nothing and the burst, and was used in the past.
LimiterOK ==
  /\ now \in Time
  /\ DOMAIN bucket = Key /\ \A k \in Key : BucketOK(k)
  /\ admitted \in [Key -> SUBSET (Time \X Nat)]

\* The rate in both directions, over every minute since the start: a key is
\* refused only if it used up its own rate within the minute (nobody else's
\* requests and no sweep can cost it a token), and never gets more than a burst
\* and the refill of the minute.
RateKept ==
  \A k \in Key :
    /\ Level(k) < Minute => Cardinality(admitted[k]) >= Rate(k)
    /\ Cardinality(admitted[k]) * Minute <= Full(k) + Rate(k) * (Minute - 1)

Budget == INSTANCE TokenBucket WITH level <- [k \in Key |-> Level(k)]

\* Buckets that are made late, refilled lazily and swept when idle cannot be
\* told from buckets that are always there.
ImplementsTokenBucket == Budget!Spec
=============================================================================
