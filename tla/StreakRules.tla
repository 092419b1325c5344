------------------------------ MODULE StreakRules ------------------------------
(***************************************************************************)
(* The arithmetic of the daily streak: the incremental rule the bot and    *)
(* the Mini App apply to a finished session (services/streak_service.go)   *)
(* and the rebuild an administrator's correction triggers                  *)
(* (utils/streak.go). Time is counted in instants of the configured zone:  *)
(* MinuteLength of them make a minute, which is what durations are cut     *)
(* down to, and DayLength a calendar day.                                  *)
(***************************************************************************)
EXTENDS Naturals, FiniteSetsExt

CONSTANTS
  None,          \* SQL NULL, and the absent user or session
  MinuteLength,  \* instants in a minute
  DayLength      \* instants in a calendar day

ASSUME NoneIsNoTime == None \notin Nat
ASSUME MinuteAssumption == MinuteLength \in Nat \ {0}
ASSUME DayAssumption == DayLength \in Nat \ {0}

Time == Nat
Maybe(S) == S \cup {None}

\* current_streak, best_streak and last_study_at of a user.
StreakState == [current : Nat, best : Nat, last : Maybe(Time)]

NoStreak == [current |-> 0, best |-> 0, last |-> None]

Day(t) == t \div DayLength

\* Whole minutes; the rest is lost.
MinutesBetween(start, end) == IF end > start THEN (end - start) \div MinuteLength ELSE 0

Larger(m, n) == IF m > n THEN m ELSE n

\* Mutant of SameDay: only an older session is ignored.
OlderDay(prev, endedAt) == prev.last # None /\ Day(endedAt) < Day(prev.last)

\* diff <= 0 in computeStreakUpdate: a session of the streak's last day, or an
\* older one, changes nothing.
SameDay(prev, endedAt) == prev.last # None /\ Day(endedAt) <= Day(prev.last)

\* What RecordCompletedSession persists for a session that is not SameDay.
StreakUpdate(prev, endedAt) ==
  LET grown == prev.current + 1 IN
  IF prev.last = None
    THEN [current |-> 1, best |-> Larger(1, prev.best), last |-> endedAt]
  ELSE IF Day(endedAt) = Day(prev.last) + 1
    THEN [current |-> grown, best |-> Larger(grown, prev.best), last |-> endedAt]
  ELSE [current |-> 1, best |-> prev.best, last |-> endedAt]

\* The length of the run of consecutive days of D that ends at day d.
RunLength(D, d) ==
  CHOOSE n \in 1..(d + 1) : (\A k \in 0..(n - 1) : d - k \in D) /\ ~ (n <= d /\ d - n \in D)

\* The longest run of consecutive days of D.
BestRunLength(D) == Max({RunLength(D, d) : d \in D})

\* utils.StreakFromSessions over the end times of the qualifying sessions.
StreakFromSessions(E) ==
  LET D == {Day(t) : t \in E} IN
  IF E = {} THEN NoStreak
  ELSE [current |-> RunLength(D, Max(D)),
        best    |-> BestRunLength(D),
        last    |-> Max(E)]

-----------------------------------------------------------------------------

\* n consecutive days of D end at day d.
IsRun(D, d, n) == \A k \in 0..(n - 1) : k <= d /\ d - k \in D

\* The streak st counts days of D only, and is in itself consistent.
BackedBy(st, D) ==
  /\ st.current <= st.best
  /\ st.last = None <=> st.current = 0
  /\ st.last # None => IsRun(D, Day(st.last), st.current)
  /\ st.best # 0 => \E d \in D : IsRun(D, d, st.best)

\* Two streaks show the same counters and were last extended on the same day.
SameStreak(a, b) ==
  /\ a.current = b.current
  /\ a.best = b.best
  /\ (a.last = None) = (b.last = None)
  /\ a.last # None => Day(a.last) = Day(b.last)
=============================================================================
