----------------------------- MODULE StudySessions -----------------------------
(***************************************************************************)
(* Study sessions, the daily streak and the administrator's corrections,   *)
(* as the Go services drive PostgreSQL (services/session_service.go,       *)
(* services/streak_service.go, repositories/session_repository.go,         *)
(* repositories/user_repository.go, repositories/admin_repository.go).     *)
(*                                                                         *)
(* A bot update or a Mini App call is a request: every database call it    *)
(* makes is a step of its own, and any other request may run in between.   *)
(* A correction is one PostgreSQL transaction at READ COMMITTED: its       *)
(* writes become visible at its commit, and the row locks it takes on the  *)
(* way are modelled by guards.                                             *)
(*                                                                         *)
(* Time is counted in instants, durations in whole minutes. The streak     *)
(* arithmetic is in StreakRules.                                           *)
(***************************************************************************)
EXTENDS StreakRules, Sequences

CONSTANTS
  User,                     \* registered students
  SessionId,                \* ids of the sessions table; bounds the sessions ever opened
  Request,                  \* concurrent bot updates and Mini App calls
  Admin,                    \* concurrent admin corrections
  MinStreakSessionMinutes,  \* shortest session that counts toward the streak
  PatchMinutes,             \* the durations an admin may set
  MaxClock,                 \* bound: the last instant of the model
  MaxCorrections            \* bound: corrections of one session

ASSUME NoneIsNoId == None \notin User /\ None \notin SessionId
ASSUME MinutesAssumption == MinStreakSessionMinutes \in Nat \ {0} /\ PatchMinutes \subseteq Nat
ASSUME BoundAssumption == MaxClock \in Nat /\ MaxCorrections \in Nat

VARIABLES
  clock,     \* the wall clock
  sessions,  \* the sessions table
  streak,    \* current_streak, best_streak, last_study_at of the users table
  audit,     \* audit[s]: the PATCH_SESSION rows of the audit log for session s
  req,       \* req[p]: where request p is, and what it has read so far
  adm        \* adm[a]: where correction a is, and what it is going to write

vars == <<clock, sessions, streak, audit, req, adm>>

-----------------------------------------------------------------------------
(* Values *)

Row == [status : {"absent", "active", "finished"}, user : Maybe(User),
        started : Maybe(Time), created : Maybe(Time), ended : Maybe(Time),
        duration : Nat, valid : BOOLEAN]

NoRow == [status |-> "absent", user |-> None, started |-> None, created |-> None,
          ended |-> None, duration |-> 0, valid |-> TRUE]

\* The two fields a correction may change, as its audit row records them.
Outcome == [duration : Nat, valid : BOOLEAN]
AuditEntry == [before : Outcome, after : Outcome]

RequestPhase == {"idle", "start_stamp", "insert", "finish_stamp", "update", "record", "streak_write"}
RequestState == [pc : RequestPhase, user : Maybe(User), session : Maybe(SessionId),
                 now : Maybe(Time), seen : StreakState]
IdleRequest == [pc |-> "idle", user |-> None, session |-> None, now |-> None, seen |-> NoStreak]

AdminPhase == {"idle", "locked", "audited", "rebuilt"}
AdminState == [pc : AdminPhase, session : Maybe(SessionId), before : Outcome, after : Outcome,
               streak : StreakState]
NoOutcome == [duration |-> 0, valid |-> TRUE]
IdleAdmin == [pc |-> "idle", session |-> None, before |-> NoOutcome, after |-> NoOutcome,
              streak |-> NoStreak]

-----------------------------------------------------------------------------
(* Reading the tables *)

ActiveOf(u) == {s \in SessionId : sessions[s].status = "active" /\ sessions[s].user = u}

Qualifies(o) == o.valid /\ o.duration >= MinStreakSessionMinutes

OutcomeOf(s) == [duration |-> sessions[s].duration, valid |-> sessions[s].valid]

\* Mutant of QualifyingEnds: the rebuild forgets to filter on validity and minutes.
AllEnds(t, u) ==
  {t[s].ended : s \in {r \in SessionId : t[r].user = u /\ t[r].status = "finished"}}

\* End times of the sessions that count toward the streak of u, in table t.
QualifyingEnds(t, u) ==
  {t[s].ended : s \in {r \in SessionId : /\ t[r].user = u
                                         /\ t[r].status = "finished"
                                         /\ Qualifies(t[r])}}

OwnerOf(a) == sessions[adm[a].session].user

\* Another correction of a session of the same user, in one of these phases.
SiblingIn(a, phases) ==
  \E b \in Admin \ {a} : adm[b].pc \in phases /\ OwnerOf(b) = OwnerOf(a)

\* recomputeStreakTx holds the user row FOR UPDATE until the commit.
UserRowLocked(u) == \E a \in Admin : adm[a].pc = "rebuilt" /\ OwnerOf(a) = u

-----------------------------------------------------------------------------

Init ==
  /\ clock = 0
  /\ sessions = [s \in SessionId |-> NoRow]
  /\ streak = [u \in User |-> NoStreak]
  /\ audit = [s \in SessionId |-> <<>>]
  /\ req = [p \in Request |-> IdleRequest]
  /\ adm = [a \in Admin |-> IdleAdmin]

Tick ==
  /\ clock < MaxClock
  /\ clock' = clock + 1
  /\ UNCHANGED <<sessions, streak, audit, req, adm>>

Goto(p, pc) == [req EXCEPT ![p].pc = pc]
Leave(p) == [req EXCEPT ![p] = IdleRequest]

-----------------------------------------------------------------------------
(* SessionService.Start *)

\* The pre-check: GetActive found nothing. Finding a session ends the request
\* with ErrSessionAlreadyActive and changes nothing.
StartCheck(p, u) ==
  /\ req[p].pc = "idle"
  /\ ActiveOf(u) = {}
  /\ req' = [req EXCEPT ![p] = [IdleRequest EXCEPT !.pc = "start_stamp", !.user = u]]
  /\ UNCHANGED <<clock, sessions, streak, audit, adm>>

\* time.Now(), in Start, Finish and FinishSession alike.
Stamp(p) ==
  /\ req[p].pc \in {"start_stamp", "finish_stamp"}
  /\ req' = [req EXCEPT ![p].now = clock,
                        ![p].pc = IF req[p].pc = "start_stamp" THEN "insert" ELSE "update"]
  /\ UNCHANGED <<clock, sessions, streak, audit, adm>>

\* Mutant of StartInsert: no unique index behind the pre-check.
UnindexedInsert(p, s) ==
  /\ req[p].pc = "insert"
  /\ sessions[s] = NoRow
  /\ sessions' = [sessions EXCEPT ![s] = [NoRow EXCEPT !.status = "active", !.user = req[p].user,
                                              !.started = req[p].now, !.created = clock]]
  /\ req' = Leave(p)
  /\ UNCHANGED <<clock, streak, audit, adm>>

\* The INSERT. The partial unique index admits one active row per user, and
\* the foreign key waits for a correction that holds the user row.
StartInsert(p, s) ==
  LET u == req[p].user IN
  /\ req[p].pc = "insert"
  /\ ~ UserRowLocked(u)
  /\ ActiveOf(u) = {}
  /\ sessions[s] = NoRow
  /\ sessions' = [sessions EXCEPT ![s] = [NoRow EXCEPT !.status = "active", !.user = u,
                                              !.started = req[p].now, !.created = clock]]
  /\ req' = Leave(p)
  /\ UNCHANGED <<clock, streak, audit, adm>>

\* Mutant of StartRefused: the unique violation is not recognised.
UnhandledViolation(p) ==
  /\ req[p].pc = "insert"
  /\ NoRow \notin {sessions[s] : s \in SessionId}
  /\ ActiveOf(req[p].user) = {}
  /\ req' = Leave(p)
  /\ UNCHANGED <<clock, sessions, streak, audit, adm>>

\* uq_sessions_one_active rejected the row (or the model's ids are used up).
StartRefused(p) ==
  /\ req[p].pc = "insert"
  /\ ActiveOf(req[p].user) # {} \/ NoRow \notin {sessions[s] : s \in SessionId}
  /\ req' = Leave(p)
  /\ UNCHANGED <<clock, sessions, streak, audit, adm>>

-----------------------------------------------------------------------------
(* SessionService.Finish and FinishSession, then RecordCompletedSession *)

\* The bot reads the user's active session, the Mini App the session it names
\* and checks owner and is_active: either way s is an active session of u.
FinishRead(p, u, s) ==
  /\ req[p].pc = "idle"
  /\ s \in ActiveOf(u)
  /\ req' = [req EXCEPT ![p] = [IdleRequest EXCEPT !.pc = "finish_stamp", !.user = u, !.session = s]]
  /\ UNCHANGED <<clock, sessions, streak, audit, adm>>

\* Mutant of FinishUpdate: the UPDATE does not ask for is_active again.
UnguardedFinish(p) ==
  LET s == req[p].session IN
  /\ req[p].pc = "update"
  /\ sessions' = [sessions EXCEPT
                    ![s].status = "finished",
                    ![s].ended = req[p].now,
                    ![s].duration = MinutesBetween(sessions[s].started, req[p].now)]
  /\ req' = Goto(p, "record")
  /\ UNCHANGED <<clock, streak, audit, adm>>

\* UPDATE ... WHERE id = $3 AND is_active: this request closes the session.
FinishUpdate(p) ==
  LET s == req[p].session IN
  /\ req[p].pc = "update"
  /\ sessions[s].status = "active"
  /\ sessions' = [sessions EXCEPT
                    ![s].status = "finished",
                    ![s].ended = req[p].now,
                    ![s].duration = MinutesBetween(sessions[s].started, req[p].now)]
  /\ req' = Goto(p, "record")
  /\ UNCHANGED <<clock, streak, audit, adm>>

\* No row matched: another request closed it first.
FinishLost(p) ==
  /\ req[p].pc = "update"
  /\ sessions[req[p].session].status # "active"
  /\ req' = Leave(p)
  /\ UNCHANGED <<clock, sessions, streak, audit, adm>>

\* The reading half of RecordCompletedSession. The minutes are those this
\* request computed, whatever a correction has made of the row since.
RecordRead(p) ==
  LET r == req[p]
      minutes == MinutesBetween(sessions[r.session].started, r.now)
      counted == minutes >= MinStreakSessionMinutes /\ ~ SameDay(streak[r.user], r.now)
  IN
  /\ r.pc = "record"
  /\ req' = IF counted
              THEN [req EXCEPT ![p].pc = "streak_write", ![p].seen = streak[r.user]]
              ELSE Leave(p)
  /\ UNCHANGED <<clock, sessions, streak, audit, adm>>

\* UpdateStreak: an unconditional UPDATE computed from the row read before.
RecordWrite(p) ==
  LET r == req[p] IN
  /\ r.pc = "streak_write"
  /\ ~ UserRowLocked(r.user)
  /\ streak' = [streak EXCEPT ![r.user] = StreakUpdate(r.seen, r.now)]
  /\ req' = Leave(p)
  /\ UNCHANGED <<clock, sessions, audit, adm>>

\* A failed database call, a cancelled context or a dead process ends the
\* request where it is; nothing takes it up again.
RequestAborts(p) ==
  /\ req[p].pc # "idle"
  /\ req' = Leave(p)
  /\ UNCHANGED <<clock, sessions, streak, audit, adm>>

-----------------------------------------------------------------------------
(* AdminRepository.CorrectSessionWithAudit *)

ReleaseAdmin(a) == [adm EXCEPT ![a] = IdleAdmin]

\* oldQualifies # newQualifies: judged by what the correction has read.
Flips(a) == Qualifies(adm[a].before) # Qualifies(adm[a].after)

\* Mutant of PatchesOf: an absent duration reaches the UPDATE as NULL.
UnresolvedPatches(s) == [duration : PatchMinutes \cup {None}, valid : BOOLEAN]

\* What a patch may leave in the row of s: an absent field keeps its value.
PatchesOf(s) == [duration : PatchMinutes \cup {sessions[s].duration}, valid : BOOLEAN]

\* Mutant of CorrectionBegin: the row is read without FOR UPDATE.
UnlockedBegin(a, s, after) ==
  /\ adm[a].pc = "idle"
  /\ sessions[s].status = "finished"
  /\ Len(audit[s]) < MaxCorrections
  /\ adm' = [adm EXCEPT ![a] = [IdleAdmin EXCEPT !.pc = "locked", !.session = s,
                                               !.before = OutcomeOf(s), !.after = after]]
  /\ UNCHANGED <<clock, sessions, streak, audit, req>>

\* Mutant of CorrectionBegin: an active session may be corrected.
ActiveBegin(a, s, after) ==
  /\ adm[a].pc = "idle"
  /\ sessions[s].status # "absent"
  /\ \A b \in Admin : adm[b].session # s
  /\ Len(audit[s]) < MaxCorrections
  /\ adm' = [adm EXCEPT ![a] = [IdleAdmin EXCEPT !.pc = "locked", !.session = s,
                                               !.before = OutcomeOf(s), !.after = after]]
  /\ UNCHANGED <<clock, sessions, streak, audit, req>>

\* SELECT ... FOR UPDATE, the is_active check, and the UPDATE of the row.
CorrectionBegin(a, s, after) ==
  /\ adm[a].pc = "idle"
  /\ sessions[s].status = "finished"
  /\ \A b \in Admin : adm[b].session # s
  /\ Len(audit[s]) < MaxCorrections
  /\ adm' = [adm EXCEPT ![a] = [IdleAdmin EXCEPT !.pc = "locked", !.session = s,
                                               !.before = OutcomeOf(s), !.after = after]]
  /\ UNCHANGED <<clock, sessions, streak, audit, req>>

\* insertAuditLog: the foreign key on target_user_id takes the owner's row FOR
\* KEY SHARE, which waits for a FOR UPDATE holder and no one else.
CorrectionAudit(a) ==
  /\ adm[a].pc = "locked"
  /\ ~ SiblingIn(a, {"rebuilt"})
  /\ adm' = [adm EXCEPT ![a].pc = "audited"]
  /\ UNCHANGED <<clock, sessions, streak, audit, req>>

\* recomputeStreakTx: lock the owner's row FOR UPDATE, read the qualifying
\* sessions (this transaction's own edit included), rebuild the streak.
CorrectionRebuild(a) ==
  LET s == adm[a].session
      patched == [sessions EXCEPT ![s].duration = adm[a].after.duration,
                                  ![s].valid = adm[a].after.valid]
  IN
  /\ adm[a].pc = "audited"
  /\ Flips(a)
  /\ ~ SiblingIn(a, {"audited", "rebuilt"})
  /\ adm' = [adm EXCEPT ![a].pc = "rebuilt",
                        ![a].streak = StreakFromSessions(QualifyingEnds(patched, OwnerOf(a)))]
  /\ UNCHANGED <<clock, sessions, streak, audit, req>>

\* Mutant of CorrectionCommit: only a correction that rebuilt the streak commits.
RebuiltCommitOnly(a) ==
  LET s == adm[a].session IN
  /\ adm[a].pc = "rebuilt"
  /\ sessions' = [sessions EXCEPT ![s].duration = adm[a].after.duration, ![s].valid = adm[a].after.valid]
  /\ audit' = [audit EXCEPT ![s] = Append(@, [before |-> adm[a].before, after |-> adm[a].after])]
  /\ streak' = [streak EXCEPT ![OwnerOf(a)] = adm[a].streak]
  /\ adm' = ReleaseAdmin(a)
  /\ UNCHANGED <<clock, req>>

\* Commit: the row, the audit entry and the streak become visible together.
CorrectionCommit(a) ==
  LET s == adm[a].session
      after == adm[a].after
  IN
  /\ adm[a].pc = "rebuilt" \/ (adm[a].pc = "audited" /\ ~ Flips(a))
  /\ sessions' = [sessions EXCEPT ![s].duration = after.duration, ![s].valid = after.valid]
  /\ audit' = [audit EXCEPT ![s] = Append(@, [before |-> adm[a].before, after |-> after])]
  /\ streak' = IF adm[a].pc = "rebuilt" THEN [streak EXCEPT ![OwnerOf(a)] = adm[a].streak] ELSE streak
  /\ adm' = ReleaseAdmin(a)
  /\ UNCHANGED <<clock, req>>

\* Two corrections of one user's sessions hold the owner's row FOR KEY SHARE
\* and each wants it FOR UPDATE: PostgreSQL rolls one of them back.
CorrectionDeadlocks(a) ==
  /\ adm[a].pc = "audited"
  /\ Flips(a)
  /\ \E b \in Admin \ {a} : adm[b].pc = "audited" /\ OwnerOf(b) = OwnerOf(a) /\ Flips(b)
  /\ adm' = ReleaseAdmin(a)
  /\ UNCHANGED <<clock, sessions, streak, audit, req>>

\* Any failure before the commit rolls the whole transaction back.
CorrectionAborts(a) ==
  /\ adm[a].pc # "idle"
  /\ adm' = ReleaseAdmin(a)
  /\ UNCHANGED <<clock, sessions, streak, audit, req>>

-----------------------------------------------------------------------------

\* What a request does once it has begun.
RequestStep(p) ==
  \/ Stamp(p)
  \/ \E s \in SessionId : StartInsert(p, s)
  \/ StartRefused(p)
  \/ FinishUpdate(p)
  \/ FinishLost(p)
  \/ RecordRead(p)
  \/ RecordWrite(p)

\* What a correction does once it has begun.
CorrectionStep(a) ==
  \/ CorrectionAudit(a)
  \/ CorrectionRebuild(a)
  \/ CorrectionCommit(a)
  \/ CorrectionDeadlocks(a)

Arrival ==
  \/ \E p \in Request, u \in User :
        StartCheck(p, u) \/ \E s \in SessionId : FinishRead(p, u, s)
  \/ \E a \in Admin, s \in SessionId : \E after \in PatchesOf(s) : CorrectionBegin(a, s, after)

Failure ==
  \/ \E p \in Request : RequestAborts(p)
  \/ \E a \in Admin : CorrectionAborts(a)

\* Every step but a failure.
Work ==
  \/ Tick
  \/ Arrival
  \/ \E p \in Request : RequestStep(p)
  \/ \E a \in Admin : CorrectionStep(a)

Next == Work \/ Failure

Spec == Init /\ [][Next]_vars

\* Calls return and row locks are granted in turn: a request or a correction
\* that can go on again and again does go on.
Fairness ==
  /\ \A p \in Request : SF_vars(RequestStep(p))
  /\ \A a \in Admin : SF_vars(CorrectionStep(a))

FairSpec == Spec /\ Fairness

\* The requests that have closed a session of u and are still to count it.
Counting(u) == {p \in Request : req[p].pc \in {"record", "streak_write"} /\ req[p].user = u}

\* One of them at a time, and none while a correction of a session of u stands
\* between its audit entry and its commit.
CountsAlone(u) ==
  /\ \A p, q \in Counting(u) : p = q
  /\ Counting(u) # {} => \A a \in Admin : adm[a].pc \in {"audited", "rebuilt"} => OwnerOf(a) # u

\* Whatever fails but the counting of a session of u, and whatever overlaps but
\* with that.
UndisturbedStep(u) ==
  /\ Work \/ (\E p \in Request \ Counting(u) : RequestAborts(p)) \/ (\E a \in Admin : CorrectionAborts(a))
  /\ CountsAlone(u)'

\* A deployment in which this holds for every student.
UndisturbedSpec == Init /\ [][\A u \in User : UndisturbedStep(u)]_vars

\* Overlapping requests and corrections, but no failure.
WorkSpec == Init /\ [][Work]_vars

-----------------------------------------------------------------------------
(* Properties *)

TypeOK ==
  /\ clock \in Time
  /\ sessions \in [SessionId -> Row]
  /\ streak \in [User -> StreakState]
  /\ audit \in [SessionId -> Seq(AuditEntry)]
  /\ req \in [Request -> RequestState]
  /\ adm \in [Admin -> AdminState]

\* s was closed before the row of t was inserted.
Precedes(s, t) == sessions[s].status = "finished" /\ sessions[s].ended <= sessions[t].created

\* A session is stamped, inserted and ended in that order, and of two sessions
\* of one user one was closed before the other was inserted. The pre-check of
\* Start does not give this (two starts pass it together), nor does started_at:
\* a start held up between its stamp and its INSERT may carry a time from
\* before the end of the previous session, so the time of two sessions may
\* overlap, by no more than that delay.
LifetimesDisjoint ==
  /\ \A s \in SessionId :
        /\ sessions[s].status # "absent" => sessions[s].started <= sessions[s].created
        /\ sessions[s].status = "finished" => sessions[s].created <= sessions[s].ended
  /\ \A s, t \in SessionId :
        (s # t /\ sessions[s].user = sessions[t].user /\ sessions[s].user # None)
           => Precedes(s, t) \/ Precedes(t, s)

\* No two requests are on their way to count one session toward the streak: a
\* finish that lost the race on the UPDATE does not go on, whether it came from
\* the bot or from the Mini App (session_service.go:100-102).
OneRecorderPerSession ==
  \A p, q \in Request :
    (/\ {req[p].pc, req[q].pc} \subseteq {"record", "streak_write"}
     /\ req[p].session = req[q].session) => p = q

\* The sessions of the table, seen through the promise of SessionLifecycle.
Book == [s \in SessionId |-> [status |-> sessions[s].status, user |-> sessions[s].user,
                              minutes |-> sessions[s].duration, valid |-> sessions[s].valid]]

Lifecycle == INSTANCE SessionLifecycle WITH book <- Book

\* Start, Finish, FinishSession and the corrections, interleaved call by call
\* and failing anywhere, are the atomic open, close and amend of the promise.
ImplementsLifecycle == Lifecycle!Spec

\* Some outcome s had, at its close or after a correction, counts for a streak.
EverQualified(s) ==
  /\ sessions[s].status = "finished"
  /\ \/ MinutesBetween(sessions[s].started, sessions[s].ended) >= MinStreakSessionMinutes
     \/ \E i \in DOMAIN audit[s] : Qualifies(audit[s][i].after)

\* The days on which u ended such a session.
CreditDays(u) ==
  {Day(sessions[s].ended) : s \in {r \in SessionId : sessions[r].user = u /\ EverQualified(r)}}

\* A streak is never more than was studied: its days, counted back from
\* last_study_at, each hold the end of a session that has qualified, and so do
\* those of the best streak. Neither a stale read in RecordCompletedSession
\* nor a rebuild racing it (admin_repository.go:402-452) can invent a day.
StreakBacked == \A u \in User : BackedBy(streak[u], CreditDays(u))

\* The outcome recorded when s was closed.
ClosingOutcome(s) ==
  [duration |-> MinutesBetween(sessions[s].started, sessions[s].ended), valid |-> TRUE]

\* The audit log of a session is a chain without gaps: the first entry starts
\* from what the close recorded, each next one from what the previous left, and
\* the row holds what the last one left (admin_repository.go:305-366).
AuditChain ==
  \A s \in SessionId :
    LET log == audit[s] IN
    IF sessions[s].status # "finished" THEN log = <<>>
    ELSE /\ \A i \in DOMAIN log :
               log[i].before = IF i = 1 THEN ClosingOutcome(s) ELSE log[i - 1].after
         /\ OutcomeOf(s) = IF log = <<>> THEN ClosingOutcome(s) ELSE log[Len(log)].after

Rebuilt(u) == StreakFromSessions(QualifyingEnds(sessions, u))

\* The incremental path and the rebuild agree for u (utils/streak.go:16): unless a
\* closed session is just being counted, the stored streak is the one that
\* StreakFromSessions computes from the sessions table.
ExactFor(u) == Counting(u) = {} => SameStreak(streak[u], Rebuilt(u))

\* They agree for everybody, after any mix of sessions, corrections and failures, as
\* long as nothing interferes between a close and its counting.
StreakExact == \A u \in User : ExactFor(u)

\* No request hangs: not on an insert that lost its race, not on the row lock
\* of a correction.
RequestsEnd == \A p \in Request : req[p].pc # "idle" ~> req[p].pc = "idle"

\* No correction hangs, the one that deadlocks with a sibling included.
CorrectionsEnd == \A a \in Admin : adm[a].pc # "idle" ~> adm[a].pc = "idle"

-----------------------------------------------------------------------------
(* What a comment says and the code does not do *)

Quiescent == (\A p \in Request : req[p].pc = "idle") /\ (\A a \in Admin : adm[a].pc = "idle")

\* models/session.go:12: "An invalid finished session does NOT count toward the
\* user's streak": once everything has come to rest, a user with no valid
\* qualifying session has no streak. A streak write computed from what was read
\* before an invalidation, and applied after it, breaks this, although
\* recomputeStreakTx locks the user's row (repositories/admin_repository.go:404).
InvalidNotCounted ==
  Quiescent => \A u \in User : QualifyingEnds(sessions, u) = {} => streak[u].current = 0
=============================================================================
