------------------------------ MODULE TokenBucket ------------------------------
(***************************************************************************)
(* What a rate limiter promises to its callers: every key owns a bucket    *)
(* that is full at the start, loses one token to each request it lets      *)
(* through, and is refilled at a constant rate. Nothing else moves it: not *)
(* the requests of another key, and not the house-keeping of the limiter.  *)
(***************************************************************************)
EXTENDS Integers

CONSTANTS
  Key,     \* who is limited
  Rate(_),    \* Rate(k): tokens refilled per minute, and the most k can save up
  Minute   \* ticks of the clock in a minute; a token weighs Minute

VARIABLE level   \* level[k]: the weight of k's tokens

Full(k) == Rate(k) * Minute

Capped(k, n) == IF n > Full(k) THEN Full(k) ELSE n

Brimful == [k \in Key |-> Full(k)]

Init == level = Brimful

\* One request of k passes: k pays for it, and nobody else.
Take(k) ==
  /\ level[k] >= Minute
  /\ level'[k] = level[k] - Minute
  /\ \A l \in Key \ {k} : level'[l] = level[l]
  /\ level' \in [Key -> Nat]

\* Time passes: everybody gets the refill of one tick.
Drip == level' = [k \in Key |-> Capped(k, level[k] + Rate(k))]

\* The process starts again: nothing is remembered.
Restart == level' = Brimful

Next == Drip \/ Restart \/ \E k \in Key : Take(k)

Spec == Init /\ [][Next]_level
=============================================================================
