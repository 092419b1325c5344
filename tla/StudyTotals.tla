------------------------------ MODULE StudyTotals ------------------------------
(***************************************************************************)
(* The minutes the students are shown: today and this week                 *)
(* (services/session_service.go, Progress), the weekly leaderboard         *)
(* (repositories/session_repository.go, WeeklyTotals) and the lifetime     *)
(* totals of the Mini App (services/user_api_service.go). Nothing is       *)
(* stored: each is computed from the sessions table when it is asked for,  *)
(* each along a path of its own, and the paths must agree.                 *)
(*                                                                         *)
(* A caller takes its time first and reads afterwards, so `now` is any     *)
(* instant up to the clock, and the rows may be newer than it. Every part  *)
(* of a session that is added up is cut down to whole minutes by itself.   *)
(***************************************************************************)
EXTENDS StudySessions, Functions

CONSTANTS
  WeekDays,      \* days in a week
  SessionCap     \* minutes of one session the leaderboard counts at most

ASSUME TotalsAssumption == WeekDays \in Nat \ {0} /\ SessionCap \in Nat

WeekLength == WeekDays * DayLength

\* Local midnight, and Monday's: instant 0 of the model is one.
StartOfDay(t) == Day(t) * DayLength
StartOfWeek(t) == (t \div WeekLength) * WeekLength

SessionsOf(u) == {s \in SessionId : sessions[s].status # "absent" /\ sessions[s].user = u}

\* Mutant of ListOverlapping: the NULL of an active session fails the comparison.
ListClosed(u, from, to) ==
  {s \in SessionsOf(u) : /\ sessions[s].started < to
                         /\ sessions[s].ended # None /\ sessions[s].ended > from}

\* The sessions of u that overlap [from, to).
ListOverlapping(u, from, to) ==
  {s \in SessionsOf(u) : /\ sessions[s].started < to
                         /\ sessions[s].ended = None \/ sessions[s].ended > from}

EndOr(s, now) == IF sessions[s].ended = None THEN now ELSE sessions[s].ended

\* Mutant of Clipped: the window does not cut a session that outlasts it.
ClippedBelow(s, from, to, now) == MinutesBetween(Larger(sessions[s].started, from), EndOr(s, now))

\* Whole minutes of s inside [from, to); an active session lasts until now.
Clipped(s, from, to, now) ==
  MinutesBetween(Larger(sessions[s].started, from), Min({EndOr(s, now), to}))

SumMinutes(u, from, to, now) ==
  SumFunctionOnSet([s \in SessionsOf(u) |-> Clipped(s, from, to, now)], ListOverlapping(u, from, to))

\* What /user/me and the bot's session screens show.
TodayMinutes(u, now) == SumMinutes(u, StartOfDay(now), StartOfDay(now) + DayLength, now)
WeekMinutes(u, now) == SumMinutes(u, StartOfWeek(now), StartOfWeek(now) + WeekLength, now)

\* Mutant of WeeklyTotal: neither the cap nor the cut at now.
UncappedTotal(u, from, now) ==
  SumFunctionOnSet([s \in SessionsOf(u) |-> MinutesBetween(Larger(sessions[s].started, from), EndOr(s, now))],
                   ListOverlapping(u, from, now))

\* The leaderboard's aggregation: each session cut to [from, now] and capped.
WeeklyTotal(u, from, now) ==
  SumFunctionOnSet([s \in SessionsOf(u) |-> Min({SessionCap, Clipped(s, from, now, now)})],
                   ListOverlapping(u, from, now))

\* total_minutes of the Mini App: what the closed rows say.
LifetimeMinutes(u) ==
  SumFunction([s \in {r \in SessionsOf(u) : sessions[r].status = "finished"} |-> sessions[s].duration])

-----------------------------------------------------------------------------
(* Properties *)

\* The instants of [from, to) at which s was open in the table.
OpenIn(s, from, to) == {t \in from..(to - 1) : sessions[s].created <= t /\ t < EndOr(s, clock)}

\* How many u studied.
Studied(u, from, to) == Cardinality(UNION {OpenIn(s, from, to) : s \in SessionsOf(u)})

\* How long the INSERTs of u's sessions were held up after their time stamp.
Delays(u) ==
  SumFunction([s \in SessionsOf(u) |-> sessions[s].created - sessions[s].started])

\* Nothing studied is counted twice in the week, and of each session less than a minute
\* is lost, however late the rows are read (session_service.go:210-220): the minutes
\* shown stand for no more than what was studied up to the reading, plus what starts were
\* held up before their INSERT, and what was studied up to now exceeds them by less than a
\* minute for each session that was open in it. Today is part of the week.
MinutesCounted ==
  \A u \in User, now \in 0..clock :
    LET from    == StartOfWeek(now)
        to      == from + WeekLength
        sum     == WeekMinutes(u, now)
        counted == {s \in SessionsOf(u) : OpenIn(s, from, now) # {}}
    IN  /\ Studied(u, from, now) <= sum * MinuteLength + Cardinality(counted) * (MinuteLength - 1)
        /\ sum * MinuteLength <= Studied(u, from, Min({to, clock})) + Delays(u)
        /\ TodayMinutes(u, now) <= sum

\* The leaderboard and the week of /user/me are two programs, one in SQL and
\* one in Go. The leaderboard never shows more, and it shows the same unless a
\* session ended after the time was taken or is longer than the cap
\* (session_repository.go:193-258 beside session_service.go:254-280).
BoardAgrees ==
  \A u \in User, now \in 0..clock :
    LET board == WeeklyTotal(u, StartOfWeek(now), now)
        week  == WeekMinutes(u, now)
    IN  /\ board <= week
        /\ (\A s \in SessionsOf(u) : /\ EndOr(s, now) <= now
                                     /\ Clipped(s, StartOfWeek(now), now, now) <= SessionCap)
           => board = week

\* The midnights a session lies across.
Midnights(s) ==
  {d \in 1..Day(clock) : sessions[s].started < d * DayLength /\ d * DayLength < EndOr(s, clock)}

\* The days add up, but for what their rounding loses: as long as no correction has
\* touched a row, today's minutes taken at the end of every day so far, and of the present
\* one, sum to no more than total_minutes and the running session, and to less by at most
\* one minute for each midnight a session lies across. There it is split, and both parts
\* are cut down to whole minutes (session_service.go:268-277), where the stored duration
\* was cut down once; a session within one day loses nothing.
DaysAddUp ==
  \A u \in User :
    (\A s \in SessionsOf(u) : audit[s] = <<>>)
    => LET days  == SumFunction([d \in 0..Day(clock) |->
                       SumMinutes(u, d * DayLength, (d + 1) * DayLength, clock)])
           whole == LifetimeMinutes(u)
                    + SumFunction([s \in ActiveOf(u) |-> MinutesBetween(sessions[s].started, clock)])
       IN  /\ days <= whole
           /\ whole <= days + SumFunction([s \in SessionsOf(u) |-> Cardinality(Midnights(s))])
=============================================================================
