-------------------------- MODULE StudySessionsProofs --------------------------
(***************************************************************************)
(* Theorems about StudySessions for any set of users, session ids,         *)
(* concurrent requests and concurrent corrections, with every interleaving *)
(* and every failure of Next. The inductive invariant is built in layers,  *)
(* each proved from the ones before it:                                    *)
(*   Consistent         types; what a row, a request and a correction know *)
(*   LifetimesDisjoint  from Consistent                                    *)
(*   AuditChain         from Consistent and ReadUnderLock                  *)
(* What is proved of the streak is in StreakProofs.                        *)
(***************************************************************************)
EXTENDS StudySessions, WellFoundedInduction, SequenceTheorems, TLAPS

-----------------------------------------------------------------------------
(* What the rebuild of a streak returns, for any length of the day and any history: it
   counts only days it was given. *)

\* A non-empty set of naturals has a least element.
LEMMA LeastNatural ==
  ASSUME NEW T, T \subseteq Nat, T # {}
  PROVE  \E m \in T : \A n \in T : m <= n
<1>1. PICK m \in T : \A n \in T : ~ (<<n, m>> \in OpToRel(<, Nat))
  BY NatLessThanWellFounded, WFMin
<1>2. ASSUME NEW n \in T
      PROVE  m <= n
  <2>1. ~ (n < m)
    BY <1>1 DEF OpToRel
  <2>2. QED
    BY <2>1
<1>3. QED
  BY <1>2

\* A bounded non-empty set of naturals has a maximum, and Max returns it.
LEMMA MaxOfBounded ==
  ASSUME NEW S, S \subseteq Nat, S # {}, NEW b \in Nat, \A x \in S : x <= b
  PROVE  Max(S) \in S /\ \A x \in S : x <= Max(S)
<1> DEFINE B == {n \in Nat : \A x \in S : x <= n}
<1>1. PICK m \in B : \A n \in B : m <= n
  <2>1. b \in B
    OBVIOUS
  <2>2. QED
    BY <2>1, LeastNatural
<1>2. m \in S
  <2>1. SUFFICES ASSUME m \notin S
                 PROVE  FALSE
    OBVIOUS
  <2>2. \A x \in S : x <= m /\ x # m
    BY <1>1, <2>1
  <2>3. m # 0
    <3>1. PICK x \in S : TRUE
      OBVIOUS
    <3>2. x \in Nat /\ x <= m /\ x # m
      BY <2>2
    <3>3. QED
      BY <3>2
  <2>4. m - 1 \in B
    BY <2>2, <2>3
  <2>5. QED
    BY <1>1, <2>4
<1>3. \E x \in S : \A y \in S : x >= y
  BY <1>1, <1>2
<1>4. Max(S) \in S /\ \A y \in S : Max(S) >= y
  BY <1>3 DEF Max
<1>5. QED
  BY <1>4

\* The days of a time: a natural number no larger than the time.
LEMMA DayIsNatural ==
  ASSUME NEW t \in Nat
  PROVE  Day(t) \in Nat /\ Day(t) <= t
BY DayAssumption DEF Day

\* A later time is on the same or a later day.
LEMMA DayIsMonotone ==
  ASSUME NEW t \in Nat, NEW w \in Nat, t <= w
  PROVE  Day(t) <= Day(w)
BY DayAssumption DEF Day

\* RunLength finds the run that ends at a day of D and cannot be longer.
LEMMA RunLengthIsRun ==
  ASSUME NEW D, D \subseteq Nat, NEW d \in D
  PROVE  /\ RunLength(D, d) \in 1..(d + 1)
         /\ IsRun(D, d, RunLength(D, d))
         /\ ~ (RunLength(D, d) <= d /\ d - RunLength(D, d) \in D)
<1> DEFINE Stop(n) == ~ (n <= d /\ d - n \in D)
           T == {n \in 1..(d + 1) : Stop(n)}
<1>1. T \subseteq Nat /\ T # {}
  <2>1. d + 1 \in T
    OBVIOUS
  <2>2. QED
    BY <2>1
<1>2. PICK m \in T : \A n \in T : m <= n
  <2> HIDE DEF T
  <2>1. QED
    BY <1>1, LeastNatural
<1>3. ASSUME NEW k \in 0..(m - 1)
      PROVE  k <= d /\ d - k \in D
  <2>1. CASE k = 0
    BY <2>1
  <2>2. CASE k # 0
    <3>1. k \notin T
      BY <1>2
    <3>2. k \in 1..(d + 1)
      BY <2>2
    <3>3. QED
      BY <3>1, <3>2
  <2>3. QED
    BY <2>1, <2>2
<1>4. \E n \in 1..(d + 1) : (\A k \in 0..(n - 1) : d - k \in D) /\ Stop(n)
  BY <1>2, <1>3
<1>5. /\ RunLength(D, d) \in 1..(d + 1)
      /\ \A k \in 0..(RunLength(D, d) - 1) : d - k \in D
      /\ ~ (RunLength(D, d) <= d /\ d - RunLength(D, d) \in D)
  BY <1>4 DEF RunLength
<1>6. QED
  BY <1>5 DEF IsRun

\* Among the runs that end at the days of a bounded set D there is a longest:
\* it is itself a run of D, and no shorter than the run ending at any day d.
LEMMA LongestRun ==
  ASSUME NEW D, D \subseteq Nat, NEW b \in Nat, \A d \in D : d <= b, NEW d \in D
  PROVE  /\ BestRunLength(D) \in Nat
         /\ RunLength(D, d) \in Nat \ {0}
         /\ RunLength(D, d) <= BestRunLength(D)
         /\ \E e \in D : IsRun(D, e, BestRunLength(D))
<1> DEFINE L == {RunLength(D, e) : e \in D}
<1>1. \A e \in D : RunLength(D, e) \in 1..(e + 1) /\ IsRun(D, e, RunLength(D, e))
  BY RunLengthIsRun
<1>2. \A e \in D : RunLength(D, e) \in Nat \ {0} /\ RunLength(D, e) <= b + 1
  <2>1. SUFFICES ASSUME NEW e \in D
                 PROVE  RunLength(D, e) \in Nat \ {0} /\ RunLength(D, e) <= b + 1
    OBVIOUS
  <2>2. e \in Nat /\ e <= b /\ RunLength(D, e) \in 1..(e + 1)
    BY <1>1
  <2>3. QED
    BY <2>2
<1>3. /\ L \subseteq Nat
      /\ RunLength(D, d) \in L
      /\ \A n \in L : n <= b + 1
      /\ \A n \in L : \E e \in D : n = RunLength(D, e)
  BY <1>2
<1>4. Max(L) \in L /\ \A n \in L : n <= Max(L)
  <2> HIDE DEF L
  <2>1. L # {} /\ b + 1 \in Nat
    BY <1>3
  <2>2. QED
    BY <1>3, <2>1, MaxOfBounded
<1>5. \E e \in D : IsRun(D, e, Max(L))
  <2>1. PICK e \in D : Max(L) = RunLength(D, e)
    BY <1>3, <1>4
  <2>2. QED
    BY <1>1, <2>1
<1>6. Max(L) \in Nat /\ RunLength(D, d) \in Nat \ {0} /\ RunLength(D, d) <= Max(L)
  <2> HIDE DEF L
  <2>1. QED
    BY <1>2, <1>3, <1>4
<1>7. QED
  BY <1>5, <1>6 DEF BestRunLength

\* The days of a bounded non-empty set of times: their maximum is the day of
\* the latest time.
LEMMA LatestDay ==
  ASSUME NEW E, E \subseteq Nat, E # {}, NEW b \in Nat, \A t \in E : t <= b,
         NEW D, D = {Day(t) : t \in E}
  PROVE  /\ Max(E) \in E
         /\ D \subseteq Nat /\ \A d \in D : d <= b
         /\ Max(D) \in D /\ Max(D) = Day(Max(E))
<1>1. Max(E) \in E /\ \A t \in E : t <= Max(E)
  BY MaxOfBounded
<1>2. /\ \A t \in E : Day(t) \in D
      /\ \A d \in D : \E t \in E : d = Day(t)
  OBVIOUS
<1>3. D \subseteq Nat /\ \A d \in D : d <= b
  <2>1. SUFFICES ASSUME NEW d \in D
                 PROVE  d \in Nat /\ d <= b
    OBVIOUS
  <2>2. PICK t \in E : d = Day(t)
    BY <1>2
  <2>3. t \in Nat /\ t <= b /\ Day(t) \in Nat /\ Day(t) <= t
    BY DayIsNatural
  <2>4. QED
    BY <2>2, <2>3
<1>4. Max(D) \in D /\ \A d \in D : d <= Max(D)
  <2>1. D # {}
    BY <1>1, <1>2
  <2>2. QED
    BY <1>3, <2>1, MaxOfBounded
<1>5. Max(D) = Day(Max(E))
  <2>1. PICK t \in E : Max(D) = Day(t)
    BY <1>2, <1>4
  <2>2. Day(t) <= Day(Max(E))
    BY <1>1, DayIsMonotone
  <2>3. Day(Max(E)) <= Max(D)
    BY <1>1, <1>2, <1>4
  <2>4. Day(t) \in Nat /\ Day(Max(E)) \in Nat
    BY <1>1, DayIsNatural
  <2>5. QED
    BY <2>1, <2>2, <2>3, <2>4
<1>6. QED
  BY <1>1, <1>3, <1>4, <1>5

\* The rebuild counts only the days of the end times it is given.
LEMMA RebuildIsBacked ==
  ASSUME NEW E, E \subseteq Nat, NEW b \in Nat, \A t \in E : t <= b,
         NEW D, D = {Day(t) : t \in E}
  PROVE  /\ StreakFromSessions(E) \in StreakState
         /\ BackedBy(StreakFromSessions(E), D)
<1> DEFINE st == StreakFromSessions(E)
           cur == RunLength(D, Max(D))
           best == BestRunLength(D)
<1>1. CASE E = {}
  BY <1>1 DEF StreakFromSessions, NoStreak, StreakState, BackedBy, Maybe, IsRun
<1>2. CASE E # {}
  <2>1. st = [current |-> cur, best |-> best, last |-> Max(E)]
    BY <1>2 DEF StreakFromSessions
  <2>2. /\ Max(E) \in E /\ Max(D) \in D /\ Max(D) = Day(Max(E))
        /\ D \subseteq Nat /\ \A d \in D : d <= b
    BY <1>2, LatestDay
  <2>3. /\ best \in Nat /\ cur \in Nat \ {0} /\ cur <= best
        /\ \E d \in D : IsRun(D, d, best)
    BY <2>2, LongestRun
  <2>4. IsRun(D, Day(Max(E)), cur)
    BY <2>2, RunLengthIsRun
  <2>5. Max(E) \in Nat /\ Max(E) # None
    BY <2>2, NoneIsNoTime
  <2> HIDE DEF cur, best
  <2>6. st \in StreakState
    BY <2>1, <2>3, <2>5 DEF StreakState, Maybe, Time
  <2>7. st.current = cur /\ st.best = best /\ st.last = Max(E)
    BY <2>1
  <2>8. BackedBy(st, D)
    BY <2>3, <2>4, <2>5, <2>7 DEF BackedBy
  <2>9. QED
    BY <2>6, <2>8
<1>3. QED
  BY <1>1, <1>2

-----------------------------------------------------------------------------
(* The first layer of the inductive invariant *)

\* The columns of a row agree with its status, and its times with the clock.
RowConsistent(s) ==
  LET r == sessions[s] IN
  /\ r.status = "absent" => r = NoRow
  /\ r.status # "absent" => /\ r.user \in User
                            /\ r.started \in Nat /\ r.created \in Nat
                            /\ r.started <= r.created /\ r.created <= clock
  /\ r.status = "active" => r.ended = None /\ r.valid = TRUE
  /\ r.status = "finished" => r.ended \in Nat /\ r.created <= r.ended /\ r.ended <= clock

\* What a request carries from one database call to the next stays true of
\* the tables, whatever runs in between.
RequestConsistent(p) ==
  LET r == req[p] IN
  /\ r.pc # "idle" => r.user \in User
  /\ r.pc \in {"insert", "update", "record", "streak_write"} => r.now \in Nat /\ r.now <= clock
  /\ r.pc \in {"finish_stamp", "update", "record", "streak_write"} =>
       /\ r.session \in SessionId
       /\ sessions[r.session].user = r.user
       /\ sessions[r.session].status # "absent"
  /\ r.pc = "update" => sessions[r.session].created <= r.now
  /\ r.pc \in {"record", "streak_write"} =>
       sessions[r.session].status = "finished" /\ sessions[r.session].ended = r.now

\* A correction at work holds the lock of one finished session.
CorrectionConsistent(a) ==
  /\ adm[a].pc = "idle" => adm[a].session = None
  /\ adm[a].pc # "idle" => /\ adm[a].session \in SessionId
                           /\ sessions[adm[a].session].status = "finished"
                           /\ \A b \in Admin : adm[b].session = adm[a].session => b = a

Consistent ==
  /\ TypeOK
  /\ \A s \in SessionId : RowConsistent(s)
  /\ \A p \in Request : RequestConsistent(p)
  /\ \A a \in Admin : CorrectionConsistent(a)

-----------------------------------------------------------------------------

LEMMA InitConsistent == Init => Consistent
BY DEF Init, Consistent, TypeOK, RowConsistent, RequestConsistent, CorrectionConsistent,
       NoRow, Row, NoStreak, StreakState, IdleRequest, RequestState, RequestPhase,
       IdleAdmin, NoOutcome, AdminState, AdminPhase, Outcome, Time, Maybe

\* The steps that write req only.
LEMMA RequestMoveConsistent ==
  ASSUME Consistent, NEW p \in Request, NEW r \in RequestState,
         req' = [req EXCEPT ![p] = r],
         UNCHANGED <<clock, sessions, streak, audit, adm>>,
         RequestConsistent(p)'
  PROVE  Consistent'
<1>1. TypeOK'
  BY DEF Consistent, TypeOK
<1>2. ASSUME NEW q \in Request
      PROVE  RequestConsistent(q)'
  <2>1. CASE q = p
    BY <2>1
  <2>2. CASE q # p
    BY <2>2 DEF Consistent, TypeOK, RequestConsistent
  <2>3. QED
    BY <2>1, <2>2
<1>3. (\A s \in SessionId : RowConsistent(s))' /\ (\A a \in Admin : CorrectionConsistent(a))'
  BY DEF Consistent, RowConsistent, CorrectionConsistent
<1>4. QED
  BY <1>1, <1>2, <1>3 DEF Consistent

LEMMA IdleIsConsistent ==
  ASSUME Consistent, NEW p \in Request, req' = Leave(p),
         UNCHANGED <<clock, sessions, streak, audit, adm>>
  PROVE  Consistent'
<1>1. IdleRequest \in RequestState
  BY DEF IdleRequest, RequestState, RequestPhase, NoStreak, StreakState, Maybe
<1>2. req'[p] = IdleRequest
  BY DEF Leave, Consistent, TypeOK
<1>3. RequestConsistent(p)'
  BY <1>2 DEF RequestConsistent, IdleRequest
<1>4. QED
  BY <1>1, <1>3, RequestMoveConsistent DEF Leave

LEMMA StartCheckConsistent ==
  ASSUME Consistent, NEW p \in Request, NEW u \in User, StartCheck(p, u)
  PROVE  Consistent'
<1> DEFINE r == [IdleRequest EXCEPT !.pc = "start_stamp", !.user = u]
<1>1. r \in RequestState
  BY DEF IdleRequest, RequestState, RequestPhase, NoStreak, StreakState, Maybe
<1>2. req' = [req EXCEPT ![p] = r] /\ req'[p] = r
  BY DEF StartCheck, Consistent, TypeOK
<1>3. req'[p].pc = "start_stamp" /\ req'[p].user = u
  BY <1>2 DEF IdleRequest
<1>4. RequestConsistent(p)'
  BY <1>3 DEF RequestConsistent
<1>5. QED
  BY <1>1, <1>2, <1>4, RequestMoveConsistent DEF StartCheck

LEMMA FinishReadConsistent ==
  ASSUME Consistent, NEW p \in Request, NEW u \in User, NEW s \in SessionId, FinishRead(p, u, s)
  PROVE  Consistent'
<1> DEFINE r == [IdleRequest EXCEPT !.pc = "finish_stamp", !.user = u, !.session = s]
<1>1. r \in RequestState
  BY DEF IdleRequest, RequestState, RequestPhase, NoStreak, StreakState, Maybe
<1>2. req' = [req EXCEPT ![p] = r] /\ req'[p] = r
  BY DEF FinishRead, Consistent, TypeOK
<1>3. RequestConsistent(p)'
  BY <1>2 DEF RequestConsistent, IdleRequest, FinishRead, ActiveOf
<1>4. QED
  BY <1>1, <1>2, <1>3, RequestMoveConsistent DEF FinishRead

LEMMA StampConsistent ==
  ASSUME Consistent, NEW p \in Request, Stamp(p)
  PROVE  Consistent'
<1> DEFINE r == [req[p] EXCEPT !.now = clock,
                               !.pc = IF req[p].pc = "start_stamp" THEN "insert" ELSE "update"]
<1>1. req[p] \in RequestState /\ clock \in Nat
  BY DEF Consistent, TypeOK, Time
<1>2. r \in RequestState
  BY <1>1 DEF RequestState, RequestPhase, Maybe, Time
<1>3. req' = [req EXCEPT ![p] = r] /\ req'[p] = r
  BY <1>1 DEF Stamp, Consistent, TypeOK, RequestState
<1>4. /\ req'[p].now = clock /\ req'[p].user = req[p].user /\ req'[p].session = req[p].session
      /\ req[p].pc = "start_stamp" => req'[p].pc = "insert"
      /\ req[p].pc = "finish_stamp" => req'[p].pc = "update"
  BY <1>1, <1>3 DEF RequestState
<1>5. sessions' = sessions /\ clock' = clock /\ req[p].pc \in {"start_stamp", "finish_stamp"}
  BY DEF Stamp
<1>6. req[p].session \in SessionId => RowConsistent(req[p].session)
  BY DEF Consistent
<1>7. RequestConsistent(p)
  BY DEF Consistent
<1>8. RequestConsistent(p)'
  BY <1>1, <1>4, <1>5, <1>6, <1>7 DEF RequestConsistent, RowConsistent
<1>9. QED
  BY <1>2, <1>3, <1>8, RequestMoveConsistent DEF Stamp

LEMMA RecordReadConsistent ==
  ASSUME Consistent, NEW p \in Request, RecordRead(p)
  PROVE  Consistent'
<1> DEFINE r == [req[p] EXCEPT !.pc = "streak_write", !.seen = streak[req[p].user]]
<1>1. req[p] \in RequestState /\ req[p].user \in User /\ streak[req[p].user] \in StreakState
  BY DEF RecordRead, Consistent, TypeOK, RequestConsistent
<1>2. CASE req' = Leave(p)
  BY <1>2, IdleIsConsistent DEF RecordRead
<1>3. CASE req' = [req EXCEPT ![p].pc = "streak_write", ![p].seen = streak[req[p].user]]
  <2>1. r \in RequestState
    BY <1>1 DEF RequestState, RequestPhase
  <2>2. req' = [req EXCEPT ![p] = r] /\ req'[p] = r
    BY <1>1, <1>3 DEF Consistent, TypeOK, RequestState
  <2>3. /\ req'[p].pc = "streak_write" /\ req'[p].now = req[p].now
        /\ req'[p].user = req[p].user /\ req'[p].session = req[p].session
    BY <1>1, <2>2 DEF RequestState
  <2>4. sessions' = sessions /\ clock' = clock /\ req[p].pc = "record" /\ RequestConsistent(p)
    BY DEF RecordRead, Consistent
  <2>5. RequestConsistent(p)'
    BY <2>3, <2>4 DEF RequestConsistent
  <2>6. QED
    BY <2>1, <2>2, <2>5, RequestMoveConsistent DEF RecordRead
<1>4. QED
  BY <1>2, <1>3 DEF RecordRead

-----------------------------------------------------------------------------
(* The steps that write the tables *)

\* What no step ever takes back from the row of s.
RowKept(s) ==
  /\ sessions[s].status # "absent" => /\ sessions'[s].status # "absent"
                                      /\ sessions'[s].user = sessions[s].user
                                      /\ sessions'[s].created = sessions[s].created
  /\ sessions[s].status = "finished" => /\ sessions'[s].status = "finished"
                                        /\ sessions'[s].ended = sessions[s].ended

LEMMA RequestKept ==
  ASSUME NEW p \in Request, RequestConsistent(p), req'[p] = req[p],
         clock \in Nat, clock' \in Nat, clock <= clock',
         \A s \in SessionId : RowKept(s)
  PROVE  RequestConsistent(p)'
<1>1. req[p].session \in SessionId => RowKept(req[p].session)
  OBVIOUS
<1>2. QED
  BY <1>1 DEF RequestConsistent, RowKept

LEMMA CorrectionKept ==
  ASSUME NEW a \in Admin, CorrectionConsistent(a), adm' = adm,
         \A s \in SessionId : RowKept(s)
  PROVE  CorrectionConsistent(a)'
<1>1. adm[a].session \in SessionId => RowKept(adm[a].session)
  OBVIOUS
<1>2. QED
  BY <1>1 DEF CorrectionConsistent, RowKept

LEMMA TickConsistent ==
  ASSUME Consistent, Tick
  PROVE  Consistent'
<1>1. clock \in Nat /\ clock' = clock + 1 /\ clock' \in Nat /\ clock <= clock'
  BY DEF Tick, Consistent, TypeOK, Time
<1>2. TypeOK'
  BY <1>1 DEF Tick, Consistent, TypeOK, Time
<1>3. \A s \in SessionId : RowConsistent(s)'
  BY <1>1 DEF Tick, Consistent, RowConsistent
<1>4. \A s \in SessionId : RowKept(s)
  BY DEF Tick, RowKept
<1>5. \A p \in Request : RequestConsistent(p)'
  BY <1>1, <1>4, RequestKept DEF Tick, Consistent
<1>6. \A a \in Admin : CorrectionConsistent(a)'
  BY <1>4, CorrectionKept DEF Tick, Consistent
<1>7. QED
  BY <1>2, <1>3, <1>5, <1>6 DEF Consistent

\* The steps of a request that write one row of the sessions table.
LEMMA RowWriteConsistent ==
  ASSUME Consistent, NEW p \in Request, NEW q \in RequestState, NEW s \in SessionId,
         sessions' \in [SessionId -> Row],
         \A t \in SessionId : t # s => sessions'[t] = sessions[t],
         req' = [req EXCEPT ![p] = q],
         UNCHANGED <<clock, streak, audit, adm>>,
         RowConsistent(s)', RowKept(s), RequestConsistent(p)'
  PROVE  Consistent'
<1>1. TypeOK'
  BY DEF Consistent, TypeOK
<1>2. ASSUME NEW t \in SessionId
      PROVE  RowConsistent(t)' /\ RowKept(t)
  <2>1. CASE t = s
    BY <2>1
  <2>2. CASE t # s
    <3>1. sessions'[t] = sessions[t]
      BY <2>2
    <3>2. QED
      BY <3>1 DEF Consistent, RowConsistent, RowKept
  <2>3. QED
    BY <2>1, <2>2
<1>3. ASSUME NEW o \in Request
      PROVE  RequestConsistent(o)'
  <2>1. CASE o = p
    BY <2>1
  <2>2. CASE o # p
    <3>1. req'[o] = req[o] /\ clock' = clock /\ clock \in Nat /\ RequestConsistent(o)
      BY <2>2 DEF Consistent, TypeOK, Time
    <3>2. QED
      BY <1>2, <3>1, RequestKept
  <2>3. QED
    BY <2>1, <2>2
<1>4. \A a \in Admin : CorrectionConsistent(a)'
  BY <1>2, CorrectionKept DEF Consistent
<1>5. QED
  BY <1>1, <1>2, <1>3, <1>4 DEF Consistent

LEMMA StartInsertConsistent ==
  ASSUME Consistent, NEW p \in Request, NEW s \in SessionId, StartInsert(p, s)
  PROVE  Consistent'
<1> DEFINE r == [NoRow EXCEPT !.status = "active", !.user = req[p].user,
                              !.started = req[p].now, !.created = clock]
<1>1. /\ req[p].user \in User /\ req[p].now \in Nat /\ req[p].now <= clock
      /\ clock \in Nat
  BY DEF StartInsert, Consistent, TypeOK, Time, RequestConsistent
<1>2. sessions' = [sessions EXCEPT ![s] = r] /\ sessions'[s] = r /\ sessions[s].status = "absent"
  BY DEF StartInsert, Consistent, TypeOK, NoRow
<1>3. /\ r \in Row /\ r.status = "active" /\ r.user = req[p].user
      /\ r.started = req[p].now /\ r.created = clock /\ r.ended = None /\ r.valid = TRUE
  BY <1>1 DEF NoRow, Row, Maybe, Time
<1> HIDE DEF r
<1>4. clock' = clock
  BY DEF StartInsert
<1>5. RowConsistent(s)' /\ RowKept(s)
  BY <1>1, <1>2, <1>3, <1>4 DEF RowConsistent, RowKept
<1>6. IdleRequest \in RequestState
  BY DEF IdleRequest, RequestState, RequestPhase, NoStreak, StreakState, Maybe
<1>7. req' = [req EXCEPT ![p] = IdleRequest] /\ req'[p].pc = "idle"
  BY DEF StartInsert, Leave, IdleRequest, Consistent, TypeOK
<1>8. RequestConsistent(p)'
  BY <1>7 DEF RequestConsistent
<1>9. UNCHANGED <<clock, streak, audit, adm>>
  BY DEF StartInsert
<1>10. sessions' \in [SessionId -> Row] /\ \A t \in SessionId : t # s => sessions'[t] = sessions[t]
  BY <1>2, <1>3 DEF Consistent, TypeOK
<1>11. QED
  BY <1>5, <1>6, <1>7, <1>8, <1>9, <1>10, RowWriteConsistent

LEMMA MinutesAreNatural ==
  ASSUME NEW x \in Nat, NEW y \in Nat
  PROVE  MinutesBetween(x, y) \in Nat
<1>1. ASSUME NEW n \in Nat, NEW m \in Nat \ {0}
      PROVE  n \div m \in Nat
  OBVIOUS
<1>2. y > x => y - x \in Nat
  OBVIOUS
<1>3. QED
  BY <1>1, <1>2, MinuteAssumption DEF MinutesBetween

\* The close, as a step of one row.
LEMMA CloseStep ==
  ASSUME Consistent, NEW p \in Request, FinishUpdate(p),
         NEW s, s = req[p].session
  PROVE  /\ s \in SessionId /\ req[p].user \in User /\ req[p] \in RequestState
         /\ req[p].now \in Nat /\ req[p].now <= clock /\ clock \in Nat /\ clock' = clock
         /\ sessions[s] \in Row /\ sessions[s].status = "active" /\ sessions[s].user = req[p].user
         /\ sessions[s].started \in Nat /\ sessions[s].created \in Nat
         /\ sessions[s].started <= sessions[s].created /\ sessions[s].created <= req[p].now
         /\ \A t \in SessionId : t # s => sessions'[t] = sessions[t]
         /\ sessions' \in [SessionId -> Row] /\ sessions'[s].status = "finished"
         /\ sessions'[s].ended = req[p].now
         /\ sessions'[s].duration = MinutesBetween(sessions[s].started, req[p].now)
         /\ sessions'[s].user = sessions[s].user /\ sessions'[s].started = sessions[s].started
         /\ sessions'[s].created = sessions[s].created /\ sessions'[s].valid = sessions[s].valid
<1> DEFINE m == MinutesBetween(sessions[s].started, req[p].now)
           c == [sessions[s] EXCEPT !.status = "finished", !.ended = req[p].now, !.duration = m]
<1>1. /\ s \in SessionId /\ req[p].user \in User /\ req[p] \in RequestState
      /\ req[p].now \in Nat /\ req[p].now <= clock /\ clock \in Nat /\ clock' = clock
      /\ sessions[s].user = req[p].user /\ sessions[s].created <= req[p].now
  BY DEF Consistent, TypeOK, RequestConsistent, FinishUpdate, Time
<1>2. sessions[s] \in Row /\ sessions[s].status = "active"
  BY <1>1 DEF Consistent, TypeOK, FinishUpdate
<1>3. /\ sessions[s].started \in Nat /\ sessions[s].created \in Nat
      /\ sessions[s].started <= sessions[s].created
  BY <1>1, <1>2 DEF Consistent, RowConsistent
<1>4. sessions' = [sessions EXCEPT ![s] = c] /\ sessions'[s] = c
  BY <1>1, <1>2 DEF FinishUpdate, Consistent, TypeOK, Row
<1>5. m \in Nat
  BY <1>1, <1>3, MinutesAreNatural
<1>6. /\ c \in Row /\ c.status = "finished" /\ c.ended = req[p].now /\ c.duration = m
      /\ c.user = sessions[s].user /\ c.started = sessions[s].started
      /\ c.created = sessions[s].created /\ c.valid = sessions[s].valid
  BY <1>1, <1>2, <1>5 DEF Row, Maybe, Time
<1> HIDE DEF c
<1>7. /\ \A t \in SessionId : t # s => sessions'[t] = sessions[t]
      /\ sessions' \in [SessionId -> Row]
  BY <1>1, <1>4, <1>6 DEF Consistent, TypeOK
<1>8. QED
  BY <1>1, <1>2, <1>3, <1>4, <1>6, <1>7

LEMMA FinishUpdateConsistent ==
  ASSUME Consistent, NEW p \in Request, FinishUpdate(p)
  PROVE  Consistent'
<1> DEFINE q == [req[p] EXCEPT !.pc = "record"]
<1>s. PICK s : s = req[p].session
  OBVIOUS
<1>1. /\ s \in SessionId /\ req[p].user \in User /\ req[p] \in RequestState
      /\ req[p].now \in Nat /\ req[p].now <= clock /\ clock \in Nat /\ clock' = clock
      /\ sessions[s].status = "active" /\ sessions[s].user = req[p].user
      /\ sessions[s].started \in Nat /\ sessions[s].created \in Nat
      /\ sessions[s].started <= sessions[s].created /\ sessions[s].created <= req[p].now
      /\ \A t \in SessionId : t # s => sessions'[t] = sessions[t]
      /\ sessions' \in [SessionId -> Row] /\ sessions'[s].status = "finished"
      /\ sessions'[s].ended = req[p].now
      /\ sessions'[s].user = sessions[s].user /\ sessions'[s].started = sessions[s].started
      /\ sessions'[s].created = sessions[s].created
  BY <1>s, CloseStep
<1>2. q \in RequestState
  BY <1>1 DEF RequestState, RequestPhase
<1>3. req' = [req EXCEPT ![p] = q] /\ req'[p] = q
  BY <1>1 DEF FinishUpdate, Goto, Consistent, TypeOK, RequestState
<1>4. /\ req'[p].pc = "record" /\ req'[p].now = req[p].now
      /\ req'[p].user = req[p].user /\ req'[p].session = s
  BY <1>s, <1>1, <1>3 DEF RequestState
<1> HIDE DEF q
<1>5. RowConsistent(s)'
  BY <1>1 DEF RowConsistent
<1>6. RowKept(s)
  BY <1>1 DEF RowKept
<1>7. RequestConsistent(p)'
  BY <1>1, <1>4 DEF RequestConsistent
<1>8. UNCHANGED <<clock, streak, audit, adm>>
  BY DEF FinishUpdate
<1>9. QED
  BY <1>1, <1>2, <1>3, <1>5, <1>6, <1>7, <1>8, RowWriteConsistent

LEMMA StreakUpdateIsTyped ==
  ASSUME NEW prev \in StreakState, NEW t \in Nat
  PROVE  StreakUpdate(prev, t) \in StreakState
BY DEF StreakUpdate, StreakState, Maybe, Time, Larger

LEMMA RecordWriteConsistent ==
  ASSUME Consistent, NEW p \in Request, RecordWrite(p)
  PROVE  Consistent'
<1>1. /\ req[p].user \in User /\ req[p].now \in Nat /\ req[p].seen \in StreakState
      /\ IdleRequest \in RequestState
  BY DEF RecordWrite, Consistent, TypeOK, RequestConsistent, RequestState, IdleRequest,
         RequestPhase, NoStreak, StreakState, Maybe
<1>2. streak' \in [User -> StreakState]
  BY <1>1, StreakUpdateIsTyped DEF RecordWrite, Consistent, TypeOK
<1>3. TypeOK'
  BY <1>1, <1>2 DEF RecordWrite, Leave, Consistent, TypeOK
<1>4. (\A s \in SessionId : RowConsistent(s))' /\ (\A a \in Admin : CorrectionConsistent(a))'
  BY DEF RecordWrite, Consistent, RowConsistent, CorrectionConsistent
<1>5. ASSUME NEW o \in Request
      PROVE  RequestConsistent(o)'
  <2>1. CASE o = p
    <3>1. req'[o].pc = "idle"
      BY <2>1 DEF RecordWrite, Leave, IdleRequest, Consistent, TypeOK
    <3>2. QED
      BY <3>1 DEF RequestConsistent
  <2>2. CASE o # p
    BY <2>2 DEF RecordWrite, Leave, Consistent, TypeOK, RequestConsistent
  <2>3. QED
    BY <2>1, <2>2
<1>6. QED
  BY <1>3, <1>4, <1>5 DEF Consistent

-----------------------------------------------------------------------------
(* The steps of a correction *)

LEMMA CorrectionsKept ==
  ASSUME adm \in [Admin -> AdminState], \A b \in Admin : CorrectionConsistent(b),
         \A s \in SessionId : RowKept(s),
         NEW a \in Admin, NEW r \in AdminState, adm' = [adm EXCEPT ![a] = r],
         r.pc = "idle" => r.session = None,
         r.pc # "idle" => /\ r.session \in SessionId
                          /\ sessions[r.session].status = "finished"
                          /\ \A b \in Admin : adm[b].session = r.session => b = a
  PROVE  \A b \in Admin : CorrectionConsistent(b)'
<1>1. ASSUME NEW b \in Admin
      PROVE  adm'[b] = IF b = a THEN r ELSE adm[b]
  OBVIOUS
<1>2. ASSUME NEW b \in Admin
      PROVE  CorrectionConsistent(b)'
  <2>1. CASE b = a
    <3>1. r.session \in SessionId => RowKept(r.session)
      OBVIOUS
    <3>2. QED
      BY <1>1, <2>1, <3>1 DEF CorrectionConsistent, RowKept
  <2>2. CASE b # a
    <3>1. adm[b].session \in SessionId => RowKept(adm[b].session)
      OBVIOUS
    <3>2. CorrectionConsistent(b) /\ adm'[b] = adm[b]
      BY <1>1, <2>2
    <3>3. adm[b].pc # "idle" => \A c \in Admin : adm'[c].session = adm[b].session => c = b
      <4>1. CASE r.pc = "idle"
        BY <1>1, <3>2, <4>1, NoneIsNoId DEF CorrectionConsistent
      <4>2. CASE r.pc # "idle"
        BY <1>1, <2>2, <3>2, <4>2 DEF CorrectionConsistent
      <4>3. QED
        BY <4>1, <4>2
    <3>4. QED
      BY <3>1, <3>2, <3>3 DEF CorrectionConsistent, RowKept
  <2>3. QED
    BY <2>1, <2>2
<1>3. QED
  BY <1>2

\* The steps that write adm only.
LEMMA CorrectionMoveConsistent ==
  ASSUME Consistent, UNCHANGED <<clock, sessions, streak, audit, req>>,
         NEW a \in Admin, NEW r \in AdminState, adm' = [adm EXCEPT ![a] = r],
         r.pc = "idle" => r.session = None,
         r.pc # "idle" => /\ r.session \in SessionId
                          /\ sessions[r.session].status = "finished"
                          /\ \A b \in Admin : adm[b].session = r.session => b = a
  PROVE  Consistent'
<1>1. TypeOK'
  BY DEF Consistent, TypeOK
<1>2. \A s \in SessionId : RowKept(s)
  BY DEF RowKept
<1>3. \A b \in Admin : CorrectionConsistent(b)'
  BY <1>2, CorrectionsKept DEF Consistent, TypeOK
<1>4. (\A s \in SessionId : RowConsistent(s))' /\ (\A p \in Request : RequestConsistent(p))'
  BY DEF Consistent, RowConsistent, RequestConsistent
<1>5. QED
  BY <1>1, <1>3, <1>4 DEF Consistent

LEMMA IdleAdminIsTyped == IdleAdmin \in AdminState /\ IdleAdmin.pc = "idle" /\ IdleAdmin.session = None
BY DEF IdleAdmin, NoOutcome, AdminState, AdminPhase, Outcome, NoStreak, StreakState, Maybe, Time

LEMMA ReleaseConsistent ==
  ASSUME Consistent, NEW a \in Admin, adm' = ReleaseAdmin(a),
         UNCHANGED <<clock, sessions, streak, audit, req>>
  PROVE  Consistent'
BY IdleAdminIsTyped, CorrectionMoveConsistent DEF ReleaseAdmin

LEMMA CorrectionBeginConsistent ==
  ASSUME Consistent, NEW a \in Admin, NEW s \in SessionId, NEW after \in PatchesOf(s),
         CorrectionBegin(a, s, after)
  PROVE  Consistent'
<1> DEFINE r == [IdleAdmin EXCEPT !.pc = "locked", !.session = s, !.before = OutcomeOf(s), !.after = after]
<1>1. sessions[s] \in Row
  BY DEF Consistent, TypeOK
<1>2. after \in Outcome /\ OutcomeOf(s) \in Outcome
  BY <1>1, MinutesAssumption DEF PatchesOf, OutcomeOf, Outcome, Row
<1>3. r \in AdminState /\ r.pc = "locked" /\ r.session = s
  BY <1>2 DEF IdleAdmin, NoOutcome, AdminState, AdminPhase, NoStreak, StreakState, Maybe, Time
<1>4. adm' = [adm EXCEPT ![a] = r]
  BY DEF CorrectionBegin
<1>5. /\ sessions[s].status = "finished"
      /\ \A b \in Admin : adm[b].session = s => b = a
      /\ UNCHANGED <<clock, sessions, streak, audit, req>>
  BY DEF CorrectionBegin
<1> HIDE DEF r
<1>6. QED
  BY <1>3, <1>4, <1>5, CorrectionMoveConsistent

\* The phase of a correction at work advances.
LEMMA CorrectionAdvanceConsistent ==
  ASSUME Consistent, UNCHANGED <<clock, sessions, streak, audit, req>>,
         NEW a \in Admin, adm[a].pc # "idle",
         NEW pc \in AdminPhase \ {"idle"}, NEW st \in StreakState,
         adm' = [adm EXCEPT ![a].pc = pc, ![a].streak = st]
  PROVE  Consistent'
<1>r. PICK r : r = [adm[a] EXCEPT !.pc = pc, !.streak = st]
  OBVIOUS
<1>1. adm[a] \in AdminState
  BY DEF Consistent, TypeOK
<1>2. r \in AdminState /\ r.pc # "idle" /\ r.session = adm[a].session
  BY <1>1, <1>r DEF AdminState
<1>3. adm' = [adm EXCEPT ![a] = r]
  BY <1>1, <1>r DEF Consistent, TypeOK, AdminState
<1>4. /\ r.session \in SessionId
      /\ sessions[r.session].status = "finished"
      /\ \A b \in Admin : adm[b].session = r.session => b = a
  BY <1>2 DEF Consistent, CorrectionConsistent
<1>5. QED
  BY <1>2, <1>3, <1>4, CorrectionMoveConsistent

LEMMA CorrectionAuditConsistent ==
  ASSUME Consistent, NEW a \in Admin, CorrectionAudit(a)
  PROVE  Consistent'
<1>1. adm[a] \in AdminState /\ adm[a].streak \in StreakState
  BY DEF Consistent, TypeOK, AdminState
<1>2. adm' = [adm EXCEPT ![a].pc = "audited", ![a].streak = adm[a].streak]
  BY <1>1 DEF CorrectionAudit, Consistent, TypeOK, AdminState
<1>3. /\ "audited" \in AdminPhase \ {"idle"} /\ adm[a].pc # "idle"
      /\ UNCHANGED <<clock, sessions, streak, audit, req>>
  BY DEF CorrectionAudit, AdminPhase
<1>4. QED
  BY <1>1, <1>2, <1>3, CorrectionAdvanceConsistent

\* The sessions table as the correction of a reads it after its own UPDATE.
Patched(a) ==
  [sessions EXCEPT ![adm[a].session].duration = adm[a].after.duration,
                   ![adm[a].session].valid = adm[a].after.valid]

LEMMA PatchedRows ==
  ASSUME Consistent, NEW a \in Admin, NEW c, c = adm[a].session, c \in SessionId
  PROVE  /\ Patched(a) \in [SessionId -> Row]
         /\ \A s \in SessionId :
              /\ Patched(a)[s].status = sessions[s].status
              /\ Patched(a)[s].user = sessions[s].user
              /\ Patched(a)[s].started = sessions[s].started
              /\ Patched(a)[s].created = sessions[s].created
              /\ Patched(a)[s].ended = sessions[s].ended
              /\ s # c => Patched(a)[s] = sessions[s]
         /\ Patched(a)[c].duration = adm[a].after.duration
         /\ Patched(a)[c].valid = adm[a].after.valid
         /\ adm[a].after \in Outcome
<1>1. sessions \in [SessionId -> Row] /\ adm[a].after \in Outcome
  BY DEF Consistent, TypeOK, AdminState
<1>2. adm[a].after.duration \in Nat /\ adm[a].after.valid \in BOOLEAN
  BY <1>1 DEF Outcome
<1>d. PICK d \in Nat : d = adm[a].after.duration
  BY <1>2
<1>v. PICK v \in BOOLEAN : v = adm[a].after.valid
  BY <1>2
<1> DEFINE r == [sessions[c] EXCEPT !.duration = d, !.valid = v]
<1>3. Patched(a) = [sessions EXCEPT ![c] = r]
  BY <1>1, <1>d, <1>v DEF Patched, Row
<1>4. /\ r \in Row /\ r.duration = d /\ r.valid = v
      /\ r.status = sessions[c].status /\ r.user = sessions[c].user
      /\ r.started = sessions[c].started /\ r.created = sessions[c].created
      /\ r.ended = sessions[c].ended
  BY <1>1 DEF Row
<1> HIDE DEF r
<1>5. QED
  BY <1>1, <1>3, <1>4, <1>d, <1>v

\* The end times of the sessions of u that are over, all of them in the past.
EndTimes(u) ==
  {sessions[s].ended : s \in {r \in SessionId : sessions[r].user = u /\ sessions[r].status = "finished"}}

LEMMA QualifyingEndsArePast ==
  ASSUME Consistent, NEW a \in Admin, adm[a].pc # "idle",
         NEW u, NEW E, E = QualifyingEnds(Patched(a), u)
  PROVE  E \subseteq Nat /\ \A t \in E : t <= clock
<1>c. PICK c \in SessionId : c = adm[a].session
  BY DEF Consistent, CorrectionConsistent
<1>1. \A s \in SessionId : /\ Patched(a)[s].status = sessions[s].status
                           /\ Patched(a)[s].ended = sessions[s].ended
  BY <1>c, PatchedRows
<1>2. \A s \in SessionId : sessions[s].status = "finished" => sessions[s].ended \in Nat /\ sessions[s].ended <= clock
  BY DEF Consistent, RowConsistent
<1>3. \A t \in E : \E s \in SessionId : sessions[s].status = "finished" /\ t = sessions[s].ended
  BY <1>1 DEF QualifyingEnds
<1>4. QED
  BY <1>2, <1>3

LEMMA RebuiltStreakIsTyped ==
  ASSUME Consistent, NEW a \in Admin, adm[a].pc # "idle", NEW u
  PROVE  StreakFromSessions(QualifyingEnds(Patched(a), u)) \in StreakState
<1>1. PICK E : E = QualifyingEnds(Patched(a), u)
  OBVIOUS
<1>2. E \subseteq Nat /\ (\A t \in E : t <= clock) /\ clock \in Nat
  BY <1>1, QualifyingEndsArePast DEF Consistent, TypeOK, Time
<1>3. PICK D : D = {Day(t) : t \in E}
  OBVIOUS
<1>4. StreakFromSessions(E) \in StreakState
  BY <1>2, <1>3, RebuildIsBacked
<1>5. QED
  BY <1>1, <1>4

LEMMA CorrectionRebuildConsistent ==
  ASSUME Consistent, NEW a \in Admin, CorrectionRebuild(a)
  PROVE  Consistent'
<1>1. adm[a].pc # "idle"
  BY DEF CorrectionRebuild
<1>2. PICK st : st = StreakFromSessions(QualifyingEnds(Patched(a), OwnerOf(a)))
  OBVIOUS
<1>3. st \in StreakState
  BY <1>1, <1>2, RebuiltStreakIsTyped
<1>4. adm' = [adm EXCEPT ![a].pc = "rebuilt", ![a].streak = st]
  BY <1>2 DEF CorrectionRebuild, Patched
<1>5. "rebuilt" \in AdminPhase \ {"idle"} /\ UNCHANGED <<clock, sessions, streak, audit, req>>
  BY DEF CorrectionRebuild, AdminPhase
<1>6. QED
  BY <1>1, <1>3, <1>4, <1>5, CorrectionAdvanceConsistent

\* The commit, as a step of the tables.
LEMMA CommitStep ==
  ASSUME Consistent, NEW a \in Admin, CorrectionCommit(a), NEW c, c = adm[a].session
  PROVE  /\ c \in SessionId /\ sessions[c].status = "finished" /\ adm[a].after \in Outcome
         /\ sessions' = Patched(a)
         /\ audit' = [audit EXCEPT ![c] = Append(@, [before |-> adm[a].before, after |-> adm[a].after])]
         /\ [before |-> adm[a].before, after |-> adm[a].after] \in AuditEntry
<1>1. /\ c \in SessionId /\ sessions[c].status = "finished"
      /\ adm[a].before \in Outcome /\ adm[a].after \in Outcome
  BY DEF CorrectionCommit, Consistent, CorrectionConsistent, TypeOK, AdminState
<1>2. QED
  BY <1>1 DEF CorrectionCommit, Patched, AuditEntry

LEMMA CorrectionCommitConsistent ==
  ASSUME Consistent, NEW a \in Admin, CorrectionCommit(a)
  PROVE  Consistent'
<1>c. PICK c : c = adm[a].session
  OBVIOUS
<1>1. /\ c \in SessionId /\ sessions[c].status = "finished"
      /\ sessions' = Patched(a)
  BY <1>c, CommitStep
<1>2. /\ sessions' \in [SessionId -> Row]
      /\ \A s \in SessionId :
           /\ sessions'[s].status = sessions[s].status
           /\ sessions'[s].user = sessions[s].user
           /\ sessions'[s].started = sessions[s].started
           /\ sessions'[s].created = sessions[s].created
           /\ sessions'[s].ended = sessions[s].ended
           /\ s # c => sessions'[s] = sessions[s]
  BY <1>c, <1>1, PatchedRows
<1>3. audit' \in [SessionId -> Seq(AuditEntry)]
  <2>e. PICK e : e = [before |-> adm[a].before, after |-> adm[a].after]
    OBVIOUS
  <2>1. e \in AuditEntry /\ audit' = [audit EXCEPT ![c] = Append(@, e)]
    BY <1>c, <2>e, CommitStep
  <2>2. audit \in [SessionId -> Seq(AuditEntry)]
    BY DEF Consistent, TypeOK
  <2>3. Append(audit[c], e) \in Seq(AuditEntry)
    BY <1>1, <2>1, <2>2
  <2>4. QED
    BY <2>1, <2>2, <2>3
<1>4. streak' \in [User -> StreakState]
  BY DEF CorrectionCommit, Consistent, TypeOK, AdminState
<1>5. /\ UNCHANGED <<clock, req>> /\ adm' = [adm EXCEPT ![a] = IdleAdmin]
      /\ adm \in [Admin -> AdminState] /\ clock \in Nat
  BY DEF CorrectionCommit, ReleaseAdmin, Consistent, TypeOK, Time
<1>6. TypeOK'
  BY <1>2, <1>3, <1>4, <1>5, IdleAdminIsTyped DEF Consistent, TypeOK
<1>7. ASSUME NEW s \in SessionId
      PROVE  RowConsistent(s)' /\ RowKept(s)
  <2>1. RowKept(s)
    BY <1>2 DEF RowKept
  <2>2. CASE s = c
    BY <1>1, <1>2, <1>5, <2>1, <2>2 DEF Consistent, RowConsistent
  <2>3. CASE s # c
    <3>1. sessions'[s] = sessions[s] /\ RowConsistent(s) /\ clock' = clock
      BY <1>2, <1>5, <2>3 DEF Consistent
    <3>2. QED
      BY <2>1, <3>1 DEF RowConsistent
  <2>4. QED
    BY <2>2, <2>3
<1>8. \A b \in Admin : CorrectionConsistent(b)'
  BY <1>5, <1>7, IdleAdminIsTyped, CorrectionsKept DEF Consistent
<1>9. ASSUME NEW p \in Request
      PROVE  RequestConsistent(p)'
  <2>1. req'[p] = req[p] /\ clock' = clock /\ clock <= clock' /\ RequestConsistent(p)
    BY <1>5 DEF Consistent
  <2>2. QED
    BY <1>5, <1>7, <2>1, RequestKept
<1>10. QED
  BY <1>6, <1>7, <1>8, <1>9 DEF Consistent

-----------------------------------------------------------------------------
(* Every step, and the first theorems *)

LEMMA RequestStepConsistent ==
  ASSUME Consistent, NEW p \in Request, RequestStep(p)
  PROVE  Consistent'
<1>1. CASE Stamp(p)
  BY <1>1, StampConsistent
<1>2. CASE \E s \in SessionId : StartInsert(p, s)
  BY <1>2, StartInsertConsistent
<1>3. CASE StartRefused(p)
  BY <1>3, IdleIsConsistent DEF StartRefused
<1>4. CASE FinishUpdate(p)
  BY <1>4, FinishUpdateConsistent
<1>5. CASE FinishLost(p)
  BY <1>5, IdleIsConsistent DEF FinishLost
<1>6. CASE RecordRead(p)
  BY <1>6, RecordReadConsistent
<1>7. CASE RecordWrite(p)
  BY <1>7, RecordWriteConsistent
<1>8. QED
  BY <1>1, <1>2, <1>3, <1>4, <1>5, <1>6, <1>7 DEF RequestStep

LEMMA CorrectionStepConsistent ==
  ASSUME Consistent, NEW a \in Admin, CorrectionStep(a)
  PROVE  Consistent'
<1>1. CASE CorrectionAudit(a)
  BY <1>1, CorrectionAuditConsistent
<1>2. CASE CorrectionRebuild(a)
  BY <1>2, CorrectionRebuildConsistent
<1>3. CASE CorrectionCommit(a)
  BY <1>3, CorrectionCommitConsistent
<1>4. CASE CorrectionDeadlocks(a)
  BY <1>4, ReleaseConsistent DEF CorrectionDeadlocks
<1>5. QED
  BY <1>1, <1>2, <1>3, <1>4 DEF CorrectionStep

LEMMA NextConsistent ==
  ASSUME Consistent, [Next]_vars
  PROVE  Consistent'
<1>1. CASE Tick
  BY <1>1, TickConsistent
<1>2. ASSUME NEW p \in Request, NEW u \in User, StartCheck(p, u)
      PROVE  Consistent'
  BY <1>2, StartCheckConsistent
<1>3. ASSUME NEW p \in Request, NEW u \in User, NEW s \in SessionId, FinishRead(p, u, s)
      PROVE  Consistent'
  BY <1>3, FinishReadConsistent
<1>4. ASSUME NEW a \in Admin, NEW s \in SessionId, NEW after \in PatchesOf(s), CorrectionBegin(a, s, after)
      PROVE  Consistent'
  BY <1>4, CorrectionBeginConsistent
<1>5. CASE \E p \in Request : RequestStep(p)
  BY <1>5, RequestStepConsistent
<1>6. CASE \E a \in Admin : CorrectionStep(a)
  BY <1>6, CorrectionStepConsistent
<1>7. ASSUME NEW p \in Request, RequestAborts(p)
      PROVE  Consistent'
  BY <1>7, IdleIsConsistent DEF RequestAborts
<1>8. ASSUME NEW a \in Admin, CorrectionAborts(a)
      PROVE  Consistent'
  BY <1>8, ReleaseConsistent DEF CorrectionAborts
<1>9. CASE UNCHANGED vars
  BY <1>9 DEF vars, Consistent, TypeOK, RowConsistent, RequestConsistent, CorrectionConsistent
<1>10. QED
  BY <1>1, <1>2, <1>3, <1>4, <1>5, <1>6, <1>7, <1>8, <1>9 DEF Next, Work, Failure, Arrival

LEMMA AlwaysConsistent == Spec => []Consistent
<1>1. Init => Consistent
  BY InitConsistent
<1>2. Consistent /\ [Next]_vars => Consistent'
  BY NextConsistent
<1>3. QED
  BY <1>1, <1>2, PTL DEF Spec

\* Every table, request and correction keeps its type; the case that needs an
\* argument is the streak a correction rebuilds (utils/streak.go:26-62): each
\* CHOOSE of its runs and maxima has a witness.
THEOREM TypeCorrect == Spec => []TypeOK
<1>1. Consistent => TypeOK
  BY DEF Consistent
<1>2. QED
  BY <1>1, AlwaysConsistent, PTL

-----------------------------------------------------------------------------
(* Which steps write the tables, and what they keep *)

LEMMA TableWriters ==
  ASSUME [Next]_vars
  PROVE  \/ UNCHANGED <<sessions, audit>>
         \/ \E p \in Request, s \in SessionId : StartInsert(p, s)
         \/ \E p \in Request : FinishUpdate(p)
         \/ \E a \in Admin : CorrectionCommit(a)
BY DEF Next, Work, Arrival, Failure, RequestStep, CorrectionStep, vars, Tick, StartCheck,
       FinishRead, CorrectionBegin, RequestAborts, CorrectionAborts, Stamp, StartRefused,
       FinishLost, RecordRead, RecordWrite, CorrectionAudit, CorrectionRebuild, CorrectionDeadlocks

\* What an INSERT does to the table: s was free, u had nothing open.
LEMMA InsertStep ==
  ASSUME Consistent, NEW p \in Request, NEW s \in SessionId, StartInsert(p, s)
  PROVE  /\ req[p].user \in User /\ sessions[s].status = "absent"
         /\ \A t \in SessionId : sessions[t].status = "active" => sessions[t].user # req[p].user
         /\ \A t \in SessionId : t # s => sessions'[t] = sessions[t]
         /\ sessions'[s].status = "active" /\ sessions'[s].user = req[p].user
         /\ sessions'[s].created = clock /\ clock \in Nat
         /\ UNCHANGED audit
<1>1. req[p].user \in User /\ clock \in Nat
  BY DEF StartInsert, Consistent, RequestConsistent, TypeOK, Time
<1>2. \A t \in SessionId : sessions[t].status = "active" => sessions[t].user # req[p].user
  BY DEF StartInsert, ActiveOf
<1>3. sessions[s].status = "absent"
  BY DEF StartInsert, NoRow
<1>4. /\ \A t \in SessionId : t # s => sessions'[t] = sessions[t]
      /\ sessions'[s] = [NoRow EXCEPT !.status = "active", !.user = req[p].user,
                                      !.started = req[p].now, !.created = clock]
      /\ UNCHANGED audit
  BY DEF StartInsert, Consistent, TypeOK
<1>5. /\ sessions'[s].status = "active" /\ sessions'[s].user = req[p].user
      /\ sessions'[s].created = clock
  BY <1>4 DEF NoRow
<1>6. QED
  BY <1>1, <1>2, <1>3, <1>4, <1>5

\* No row is ever taken back, whatever the step.
LEMMA RowsKept ==
  ASSUME Consistent, [Next]_vars
  PROVE  \A s \in SessionId : RowKept(s)
<1>1. CASE UNCHANGED <<sessions, audit>>
  BY <1>1 DEF RowKept
<1>2. ASSUME NEW p \in Request, NEW s \in SessionId, StartInsert(p, s)
      PROVE  \A t \in SessionId : RowKept(t)
  BY <1>2, InsertStep DEF RowKept
<1>3. ASSUME NEW p \in Request, FinishUpdate(p)
      PROVE  \A t \in SessionId : RowKept(t)
  <2>1. PICK s : s = req[p].session
    OBVIOUS
  <2>2. /\ sessions[s].status = "active" /\ sessions'[s].status = "finished"
        /\ sessions'[s].user = sessions[s].user /\ sessions'[s].created = sessions[s].created
        /\ \A t \in SessionId : t # s => sessions'[t] = sessions[t]
    BY <1>3, <2>1, CloseStep
  <2>3. QED
    BY <2>2 DEF RowKept
<1>4. ASSUME NEW a \in Admin, CorrectionCommit(a)
      PROVE  \A t \in SessionId : RowKept(t)
  <2>1. PICK c : c = adm[a].session
    OBVIOUS
  <2>2. c \in SessionId /\ sessions' = Patched(a)
    BY <1>4, <2>1, CommitStep
  <2>3. \A s \in SessionId :
           /\ sessions'[s].status = sessions[s].status
           /\ sessions'[s].user = sessions[s].user
           /\ sessions'[s].created = sessions[s].created
           /\ sessions'[s].ended = sessions[s].ended
    BY <2>1, <2>2, PatchedRows
  <2>4. QED
    BY <2>3 DEF RowKept
<1>5. QED
  BY <1>1, <1>2, <1>3, <1>4, TableWriters

-----------------------------------------------------------------------------
(* No two sessions of a user overlap *)

\* The same, without the part Consistent already gives.
Disjoint ==
  \A s, t \in SessionId :
    (s # t /\ sessions[s].user = sessions[t].user /\ sessions[s].user # None)
       => Precedes(s, t) \/ Precedes(t, s)

LEMMA ConsistentLifetimes ==
  ASSUME Consistent, Disjoint
  PROVE  LifetimesDisjoint
<1>1. \A s \in SessionId :
        /\ sessions[s].status # "absent" => sessions[s].started <= sessions[s].created
        /\ sessions[s].status = "finished" => sessions[s].created <= sessions[s].ended
  BY DEF Consistent, RowConsistent
<1>2. QED
  BY <1>1 DEF Disjoint, LifetimesDisjoint

LEMMA NextDisjoint ==
  ASSUME Consistent, Disjoint, [Next]_vars
  PROVE  Disjoint'
<1>1. \A s \in SessionId : RowKept(s)
  BY RowsKept
<1>2. \A s \in SessionId : sessions[s].status # "absent" <=> sessions[s].user # None
  BY NoneIsNoId DEF Consistent, RowConsistent, NoRow
<1>3. ASSUME NEW s \in SessionId, NEW t \in SessionId, Precedes(s, t), sessions[t].status # "absent"
      PROVE  Precedes(s, t)'
  BY <1>1, <1>3 DEF Precedes, RowKept
<1>4. ASSUME NEW p \in Request, NEW n \in SessionId, StartInsert(p, n)
      PROVE  Disjoint'
  <2>1. /\ sessions[n].status = "absent" /\ req[p].user \in User
        /\ \A t \in SessionId : sessions[t].status = "active" => sessions[t].user # req[p].user
        /\ \A t \in SessionId : t # n => sessions'[t] = sessions[t]
        /\ sessions'[n].user = req[p].user /\ sessions'[n].created = clock
    BY <1>4, InsertStep
  <2>2. ASSUME NEW t \in SessionId, t # n, sessions'[t].user = sessions'[n].user
        PROVE  Precedes(t, n)'
    <3>1. sessions[t].status \in {"absent", "active", "finished"}
      BY DEF Consistent, TypeOK, Row
    <3>2. sessions[t].status = "finished"
      BY <1>2, <2>1, <2>2, <3>1, NoneIsNoId
    <3>3. sessions[t].ended <= clock
      BY <3>2 DEF Consistent, RowConsistent
    <3>4. QED
      BY <2>1, <2>2, <3>2, <3>3 DEF Precedes
  <2>3. ASSUME NEW s \in SessionId, NEW t \in SessionId, s # t, s # n, t # n,
               sessions'[s].user = sessions'[t].user, sessions'[s].user # None
        PROVE  Precedes(s, t)' \/ Precedes(t, s)'
    BY <1>2, <1>3, <2>1, <2>3 DEF Disjoint
  <2>4. QED
    BY <2>2, <2>3 DEF Disjoint
<1>5. CASE \A s \in SessionId : sessions'[s].user = sessions[s].user
  BY <1>2, <1>3, <1>5 DEF Disjoint
<1>6. ASSUME NEW p \in Request, FinishUpdate(p)
      PROVE  \A s \in SessionId : sessions'[s].user = sessions[s].user
  <2>1. PICK s : s = req[p].session
    OBVIOUS
  <2>2. /\ sessions'[s].user = sessions[s].user
        /\ \A t \in SessionId : t # s => sessions'[t] = sessions[t]
    BY <1>6, <2>1, CloseStep
  <2>3. QED
    BY <2>2
<1>7. ASSUME NEW a \in Admin, CorrectionCommit(a)
      PROVE  \A s \in SessionId : sessions'[s].user = sessions[s].user
  <2>1. PICK c : c = adm[a].session
    OBVIOUS
  <2>2. c \in SessionId /\ sessions' = Patched(a)
    BY <1>7, <2>1, CommitStep
  <2>3. QED
    BY <2>1, <2>2, PatchedRows
<1>8. QED
  BY <1>4, <1>5, <1>6, <1>7, TableWriters

LEMMA AlwaysDisjoint == Spec => []Disjoint
<1>1. Init => Disjoint
  BY DEF Init, Disjoint, NoRow
<1>2. QED
  BY <1>1, AlwaysConsistent, NextDisjoint, PTL DEF Spec

\* Of two sessions of one user, one was closed before the other was inserted,
\* and each is stamped, inserted and ended in that order. The steps that give
\* it are the unique index behind the INSERT of Start and the clock read of a
\* finish after the read of its session (session_service.go:71-90, 103-130).
THEOREM LifetimesAreDisjoint == Spec => []LifetimesDisjoint
<1>1. Consistent /\ Disjoint => LifetimesDisjoint
  BY ConsistentLifetimes
<1>2. QED
  BY <1>1, AlwaysConsistent, AlwaysDisjoint, PTL

-----------------------------------------------------------------------------
(* Who counts a session *)

Recording == {"record", "streak_write"}

\* A request counts a session because it did so before, or closes it now.
LEMMA RecorderStep ==
  ASSUME Consistent, [Next]_vars, NEW p \in Request, req'[p].pc \in Recording
  PROVE  \/ req[p].pc \in Recording /\ req'[p].session = req[p].session
         \/ FinishUpdate(p)
<1>1. req \in [Request -> RequestState]
  BY DEF Consistent, TypeOK
<1>2. CASE req' = req
  BY <1>2
<1>3. ASSUME NEW q \in Request, req' = Leave(q)
      PROVE  req[p].pc \in Recording /\ req'[p].session = req[p].session
  BY <1>1, <1>3 DEF Leave, IdleRequest, Recording
<1>4. ASSUME NEW q \in Request, NEW u \in User, StartCheck(q, u)
      PROVE  req[p].pc \in Recording /\ req'[p].session = req[p].session
  BY <1>1, <1>4 DEF StartCheck, IdleRequest, Recording
<1>5. ASSUME NEW q \in Request, NEW u \in User, NEW s \in SessionId, FinishRead(q, u, s)
      PROVE  req[p].pc \in Recording /\ req'[p].session = req[p].session
  BY <1>1, <1>5 DEF FinishRead, IdleRequest, Recording
<1>6. ASSUME NEW q \in Request, Stamp(q)
      PROVE  req[p].pc \in Recording /\ req'[p].session = req[p].session
  BY <1>1, <1>6 DEF Stamp, Recording, RequestState
<1>7. ASSUME NEW q \in Request, RecordRead(q)
      PROVE  req[p].pc \in Recording /\ req'[p].session = req[p].session
  BY <1>1, <1>7, <1>3 DEF RecordRead, Recording, RequestState
<1>8. ASSUME NEW q \in Request, FinishUpdate(q)
      PROVE  (req[p].pc \in Recording /\ req'[p].session = req[p].session) \/ FinishUpdate(p)
  BY <1>1, <1>8 DEF FinishUpdate, Goto
<1>9. ASSUME NEW q \in Request, RequestStep(q)
       PROVE  (req[p].pc \in Recording /\ req'[p].session = req[p].session) \/ FinishUpdate(p)
  BY <1>3, <1>6, <1>7, <1>8, <1>9 DEF RequestStep, StartInsert, StartRefused, FinishLost, RecordWrite
<1>10. ASSUME NEW a \in Admin, CorrectionStep(a)
       PROVE  req' = req
  BY <1>10 DEF CorrectionStep, CorrectionAudit, CorrectionRebuild, CorrectionCommit, CorrectionDeadlocks
<1>11. Tick \/ (\E a \in Admin, s \in SessionId : \E after \in PatchesOf(s) : CorrectionBegin(a, s, after))
         \/ (\E a \in Admin : CorrectionAborts(a)) \/ UNCHANGED vars => req' = req
  BY DEF Tick, CorrectionBegin, CorrectionAborts, vars
<1>12. QED
  BY <1>2, <1>3, <1>4, <1>5, <1>9, <1>10, <1>11 DEF Next, Work, Arrival, Failure, RequestAborts

LEMMA NextOneRecorder ==
  ASSUME Consistent, OneRecorderPerSession, [Next]_vars
  PROVE  OneRecorderPerSession'
<1>1. SUFFICES ASSUME NEW p \in Request, NEW q \in Request,
                      req'[p].pc \in Recording, req'[q].pc \in Recording,
                      req'[p].session = req'[q].session
               PROVE  p = q
  BY DEF OneRecorderPerSession, Recording
<1>2. ASSUME NEW x \in Request, req[x].pc \in Recording
      PROVE  sessions[req[x].session].status = "finished"
  BY <1>2 DEF Consistent, RequestConsistent, Recording
<1>3. ASSUME NEW x \in Request, FinishUpdate(x)
      PROVE  /\ sessions[req[x].session].status = "active"
             /\ req'[x].session = req[x].session
             /\ \A y \in Request : y # x => req'[y] = req[y]
  BY <1>3 DEF FinishUpdate, Goto, Consistent, TypeOK, RequestState
<1>4. ASSUME NEW x \in Request, NEW y \in Request, FinishUpdate(x), x # y,
             req'[y].pc \in Recording, req'[x].session = req'[y].session
      PROVE  FALSE
  <2>1. /\ sessions[req[x].session].status = "active"
        /\ req'[x].session = req[x].session /\ req'[y] = req[y]
    BY <1>3, <1>4
  <2>2. req[y].pc \in Recording /\ req[y].session = req[x].session
    BY <1>4, <2>1
  <2>3. QED
    BY <1>2, <2>1, <2>2
<1>5. CASE FinishUpdate(p) \/ FinishUpdate(q)
  BY <1>1, <1>4, <1>5
<1>6. CASE ~ FinishUpdate(p) /\ ~ FinishUpdate(q)
  <2>1. /\ req[p].pc \in Recording /\ req'[p].session = req[p].session
        /\ req[q].pc \in Recording /\ req'[q].session = req[q].session
    BY <1>1, <1>6, RecorderStep
  <2>2. QED
    BY <1>1, <2>1 DEF OneRecorderPerSession, Recording
<1>7. QED
  BY <1>5, <1>6

\* No session is counted toward the streak by two requests, however many
\* finishes of it are in flight: a recorder's session is finished, and the
\* UPDATE that makes a recorder asks for an active one
\* (session_repository.go:131-163, session_service.go:100-102).
THEOREM OneRecorder == Spec => []OneRecorderPerSession
<1>1. Init => OneRecorderPerSession
  BY DEF Init, OneRecorderPerSession, IdleRequest
<1>2. Consistent /\ OneRecorderPerSession /\ [Next]_vars => OneRecorderPerSession'
  BY NextOneRecorder
<1>3. QED
  BY <1>1, <1>2, AlwaysConsistent, PTL DEF Spec

-----------------------------------------------------------------------------
(* The audit log *)

\* What a correction has read of its session is what the row still holds: no
\* one else may write the row before it commits.
ReadUnderLock ==
  \A a \in Admin : adm[a].pc # "idle" => adm[a].before = OutcomeOf(adm[a].session)

\* A step leaves the outcome of a finished row alone, or commits a correction of it.
LEMMA OutcomeKept ==
  ASSUME Consistent, [Next]_vars, NEW s \in SessionId, sessions[s].status = "finished"
  PROVE  \/ OutcomeOf(s)' = OutcomeOf(s)
         \/ \E a \in Admin : CorrectionCommit(a) /\ adm[a].session = s
<1>1. CASE UNCHANGED <<sessions, audit>>
  BY <1>1 DEF OutcomeOf
<1>2. ASSUME NEW p \in Request, NEW n \in SessionId, StartInsert(p, n)
      PROVE  OutcomeOf(s)' = OutcomeOf(s)
  BY <1>2, InsertStep DEF OutcomeOf
<1>3. ASSUME NEW p \in Request, FinishUpdate(p)
      PROVE  OutcomeOf(s)' = OutcomeOf(s)
  <2>1. PICK c : c = req[p].session
    OBVIOUS
  <2>2. sessions[c].status = "active" /\ \A t \in SessionId : t # c => sessions'[t] = sessions[t]
    BY <1>3, <2>1, CloseStep
  <2>3. QED
    BY <2>2 DEF OutcomeOf
<1>4. ASSUME NEW a \in Admin, CorrectionCommit(a), adm[a].session # s
      PROVE  OutcomeOf(s)' = OutcomeOf(s)
  <2>1. PICK c : c = adm[a].session
    OBVIOUS
  <2>2. c \in SessionId /\ sessions' = Patched(a)
    BY <1>4, <2>1, CommitStep
  <2>3. sessions'[s] = sessions[s]
    BY <1>4, <2>1, <2>2, PatchedRows
  <2>4. QED
    BY <2>3 DEF OutcomeOf
<1>5. QED
  BY <1>1, <1>2, <1>3, <1>4, TableWriters

\* A correction at work keeps what it has read, or has just read it.
LEMMA ReadKept ==
  ASSUME Consistent, [Next]_vars, NEW a \in Admin, adm'[a].pc # "idle"
  PROVE  \/ /\ adm[a].pc # "idle"
            /\ adm'[a].session = adm[a].session /\ adm'[a].before = adm[a].before
            /\ ~ CorrectionCommit(a)
         \/ /\ adm'[a].session \in SessionId /\ adm'[a].before = OutcomeOf(adm'[a].session)
            /\ UNCHANGED sessions
<1>0. adm \in [Admin -> AdminState]
  BY DEF Consistent, TypeOK
<1> DEFINE Kept == /\ adm[a].pc # "idle"
                   /\ adm'[a].session = adm[a].session /\ adm'[a].before = adm[a].before
                   /\ ~ CorrectionCommit(a)
<1>1. ASSUME NEW b \in Admin, adm' = ReleaseAdmin(b)
      PROVE  Kept
  <2>1. b # a /\ adm'[a] = adm[a]
    BY <1>0, <1>1, IdleAdminIsTyped DEF ReleaseAdmin
  <2>2. ~ CorrectionCommit(a)
    BY <1>0, <2>1, IdleAdminIsTyped DEF CorrectionCommit, ReleaseAdmin
  <2>3. QED
    BY <2>1, <2>2
<1>2. CASE adm' = adm
  <2>1. ~ CorrectionCommit(a)
    BY <1>0, <1>2, IdleAdminIsTyped DEF CorrectionCommit, ReleaseAdmin
  <2>2. QED
    BY <1>2, <2>1
<1>3. ASSUME NEW b \in Admin, NEW s \in SessionId, NEW after \in PatchesOf(s), CorrectionBegin(b, s, after)
      PROVE  Kept \/ (adm'[a].session \in SessionId /\ adm'[a].before = OutcomeOf(adm'[a].session)
                      /\ UNCHANGED sessions)
  <2>1. CASE a = b
    BY <1>0, <1>3, <2>1 DEF CorrectionBegin, IdleAdmin
  <2>2. CASE a # b
    <3>1. adm'[a] = adm[a]
      BY <1>0, <1>3, <2>2 DEF CorrectionBegin
    <3>2. ~ CorrectionCommit(a)
      BY <1>0, <3>1, IdleAdminIsTyped DEF CorrectionCommit, ReleaseAdmin
    <3>3. QED
      BY <3>1, <3>2
  <2>3. QED
    BY <2>1, <2>2
<1>4. ASSUME NEW b \in Admin, CorrectionAudit(b) \/ CorrectionRebuild(b)
      PROVE  Kept
  <2>1. /\ adm'[a].session = adm[a].session /\ adm'[a].before = adm[a].before
        /\ adm[a].pc # "idle"
    BY <1>0, <1>4 DEF CorrectionAudit, CorrectionRebuild, AdminState
  <2>2. ~ CorrectionCommit(a)
    BY <1>0, <2>1, IdleAdminIsTyped DEF CorrectionCommit, ReleaseAdmin
  <2>3. QED
    BY <2>1, <2>2
<1>5. ASSUME NEW b \in Admin, CorrectionStep(b)
      PROVE  Kept
  BY <1>1, <1>4, <1>5 DEF CorrectionStep, CorrectionCommit, CorrectionDeadlocks
<1>6. ASSUME NEW p \in Request, RequestStep(p)
      PROVE  adm' = adm
  BY <1>6 DEF RequestStep, Stamp, StartInsert, StartRefused, FinishUpdate, FinishLost, RecordRead, RecordWrite
<1>7. Tick \/ (\E p \in Request, u \in User : StartCheck(p, u) \/ \E s \in SessionId : FinishRead(p, u, s))
         \/ (\E p \in Request : RequestAborts(p)) \/ UNCHANGED vars => adm' = adm
  BY DEF Tick, StartCheck, FinishRead, RequestAborts, vars
<1>8. QED
  BY <1>1, <1>2, <1>3, <1>5, <1>6, <1>7 DEF Next, Work, Arrival, Failure, CorrectionAborts

LEMMA NextReadUnderLock ==
  ASSUME Consistent, ReadUnderLock, [Next]_vars
  PROVE  ReadUnderLock'
<1>1. SUFFICES ASSUME NEW a \in Admin, adm'[a].pc # "idle"
               PROVE  adm'[a].before = [duration |-> sessions'[adm'[a].session].duration,
                                        valid |-> sessions'[adm'[a].session].valid]
  BY DEF ReadUnderLock, OutcomeOf
<1>2. CASE /\ adm[a].pc # "idle"
           /\ adm'[a].session = adm[a].session /\ adm'[a].before = adm[a].before
           /\ ~ CorrectionCommit(a)
  <2>1. PICK s \in SessionId : /\ s = adm[a].session /\ sessions[s].status = "finished"
                               /\ \A b \in Admin : adm[b].session = s => b = a
    BY <1>2 DEF Consistent, CorrectionConsistent
  <2>2. OutcomeOf(s)' = OutcomeOf(s)
    BY <1>2, <2>1, OutcomeKept
  <2>3. adm[a].before = OutcomeOf(s)
    BY <1>2, <2>1 DEF ReadUnderLock
  <2>4. QED
    BY <1>2, <2>1, <2>2, <2>3 DEF OutcomeOf
<1>3. CASE /\ adm'[a].session \in SessionId /\ adm'[a].before = OutcomeOf(adm'[a].session)
           /\ UNCHANGED sessions
  BY <1>3 DEF OutcomeOf
<1>4. QED
  BY <1>1, <1>2, <1>3, ReadKept

\* One session's part of AuditChain.
Chained(s) ==
  LET log == audit[s] IN
  IF sessions[s].status # "finished" THEN log = <<>>
  ELSE /\ \A i \in DOMAIN log :
             log[i].before = IF i = 1 THEN ClosingOutcome(s) ELSE log[i - 1].after
       /\ OutcomeOf(s) = IF log = <<>> THEN ClosingOutcome(s) ELSE log[Len(log)].after

\* What one more entry leaves of a log.
LEMMA AppendedEntry ==
  ASSUME NEW log \in Seq(AuditEntry), NEW e \in AuditEntry
  PROVE  /\ \A i \in DOMAIN log : Append(log, e)[i] = log[i]
         /\ Append(log, e)[Len(log) + 1] = e
         /\ DOMAIN Append(log, e) = 1..(Len(log) + 1) /\ DOMAIN log = 1..Len(log)
         /\ Len(log) \in Nat /\ Len(Append(log, e)) = Len(log) + 1
         /\ log = <<>> <=> Len(log) = 0
         /\ Append(log, e) # <<>>
<1>1. Len(log) \in Nat /\ DOMAIN log = 1..Len(log)
  BY LenProperties
<1>2. /\ Append(log, e) \in Seq(AuditEntry) /\ Append(log, e) # <<>>
      /\ Len(Append(log, e)) = Len(log) + 1
      /\ \A i \in 1..Len(log) : Append(log, e)[i] = log[i]
      /\ Append(log, e)[Len(log) + 1] = e
  BY AppendProperties
<1>3. DOMAIN Append(log, e) = 1..(Len(log) + 1)
  BY <1>2, LenProperties
<1>4. log = <<>> <=> Len(log) = 0
  BY EmptySeq
<1>5. QED
  BY <1>1, <1>2, <1>3, <1>4

LEMMA NextChained ==
  ASSUME Consistent, ReadUnderLock, \A s \in SessionId : Chained(s), [Next]_vars, NEW s \in SessionId
  PROVE  Chained(s)'
<1>1. ASSUME sessions'[s] = sessions[s], audit'[s] = audit[s]
      PROVE  Chained(s)'
  BY <1>1 DEF Chained, ClosingOutcome, OutcomeOf
<1>2. ASSUME NEW p \in Request, NEW n \in SessionId, StartInsert(p, n)
      PROVE  Chained(s)'
  <2>1. /\ sessions[n].status = "absent" /\ sessions'[n].status = "active" /\ audit' = audit
        /\ \A t \in SessionId : t # n => sessions'[t] = sessions[t]
    BY <1>2, InsertStep
  <2>2. CASE s = n
    BY <2>1, <2>2 DEF Chained
  <2>3. CASE s # n
    BY <1>1, <2>1, <2>3
  <2>4. QED
    BY <2>2, <2>3
<1>3. ASSUME NEW p \in Request, FinishUpdate(p)
      PROVE  Chained(s)'
  <2>1. PICK c : c = req[p].session
    OBVIOUS
  <2>2. /\ c \in SessionId /\ sessions[c].status = "active" /\ sessions'[c].status = "finished"
        /\ sessions'[c].ended = req[p].now /\ sessions'[c].valid = sessions[c].valid
        /\ sessions'[c].duration = MinutesBetween(sessions[c].started, req[p].now)
        /\ sessions'[c].started = sessions[c].started
        /\ \A t \in SessionId : t # c => sessions'[t] = sessions[t]
    BY <1>3, <2>1, CloseStep
  <2>3. audit' = audit
    BY <1>3 DEF FinishUpdate
  <2>4. CASE s = c
    <3>1. audit[c] = <<>> /\ sessions[c].valid = TRUE
      BY <2>2 DEF Chained, Consistent, RowConsistent
    <3>2. (OutcomeOf(c))' = (ClosingOutcome(c))'
      BY <2>2, <3>1 DEF OutcomeOf, ClosingOutcome
    <3>3. QED
      BY <2>2, <2>3, <2>4, <3>1, <3>2 DEF Chained
  <2>5. CASE s # c
    BY <1>1, <2>2, <2>3, <2>5
  <2>6. QED
    BY <2>4, <2>5
<1>4. ASSUME NEW a \in Admin, CorrectionCommit(a)
      PROVE  Chained(s)'
  <2>1. PICK c : c = adm[a].session
    OBVIOUS
  <2>2. PICK e : e = [before |-> adm[a].before, after |-> adm[a].after]
    OBVIOUS
  <2>3. /\ c \in SessionId /\ sessions[c].status = "finished" /\ adm[a].after \in Outcome
        /\ sessions' = Patched(a) /\ audit' = [audit EXCEPT ![c] = Append(@, e)]
        /\ e \in AuditEntry
    BY <1>4, <2>1, <2>2, CommitStep
  <2>4. /\ \A t \in SessionId :
             /\ sessions'[t].status = sessions[t].status
             /\ sessions'[t].started = sessions[t].started
             /\ sessions'[t].ended = sessions[t].ended
             /\ t # c => sessions'[t] = sessions[t]
        /\ sessions'[c].duration = adm[a].after.duration
        /\ sessions'[c].valid = adm[a].after.valid
    BY <2>1, <2>3, PatchedRows
  <2>5. audit \in [SessionId -> Seq(AuditEntry)]
    BY DEF Consistent, TypeOK
  <2>6. CASE s = c
    <3>1. PICK log \in Seq(AuditEntry) : log = audit[c]
      BY <2>3, <2>5
    <3>2. audit'[c] = Append(log, e)
      BY <2>3, <2>5, <3>1
    <3>3. /\ \A i \in DOMAIN log : Append(log, e)[i] = log[i]
          /\ Append(log, e)[Len(log) + 1] = e
          /\ DOMAIN Append(log, e) = 1..(Len(log) + 1) /\ DOMAIN log = 1..Len(log)
          /\ Len(log) \in Nat /\ Len(Append(log, e)) = Len(log) + 1
          /\ log = <<>> <=> Len(log) = 0
          /\ Append(log, e) # <<>>
      BY <2>3, AppendedEntry
    <3>4. (ClosingOutcome(c))' = ClosingOutcome(c)
      BY <2>3, <2>4 DEF ClosingOutcome
    <3>5. (OutcomeOf(c))' = e.after
      BY <2>2, <2>3, <2>4 DEF OutcomeOf, Outcome
    <3>6. /\ \A i \in DOMAIN log :
               log[i].before = IF i = 1 THEN ClosingOutcome(c) ELSE log[i - 1].after
          /\ e.before = IF log = <<>> THEN ClosingOutcome(c) ELSE log[Len(log)].after
      <4>1. e.before = OutcomeOf(c)
        BY <1>4, <2>1, <2>2 DEF ReadUnderLock, CorrectionCommit
      <4>2. QED
        BY <2>3, <3>1, <4>1 DEF Chained
    <3>7. ASSUME NEW i \in 1..(Len(log) + 1)
          PROVE  Append(log, e)[i].before =
                   IF i = 1 THEN ClosingOutcome(c) ELSE Append(log, e)[i - 1].after
      <4>1. CASE i \in 1..Len(log)
        BY <3>3, <3>6, <4>1
      <4>2. CASE i = Len(log) + 1
        <5>1. CASE log = <<>>
          BY <3>3, <3>6, <4>2, <5>1
        <5>2. CASE log # <<>>
          <6>1. i - 1 = Len(log) /\ i # 1 /\ Len(log) \in DOMAIN log
            BY <3>3, <4>2, <5>2
          <6>2. Append(log, e)[i - 1] = log[Len(log)] /\ Append(log, e)[i] = e
            BY <3>3, <4>2, <6>1
          <6>3. QED
            BY <3>6, <5>2, <6>1, <6>2
        <5>3. QED
          BY <5>1, <5>2
      <4>3. QED
        BY <3>3, <4>1, <4>2
    <3>8. sessions'[c].status = "finished"
      BY <2>3, <2>4
    <3>9. QED
      BY <2>6, <3>2, <3>3, <3>4, <3>5, <3>7, <3>8 DEF Chained
  <2>7. CASE s # c
    BY <1>1, <2>3, <2>4, <2>5, <2>7
  <2>8. QED
    BY <2>6, <2>7
<1>5. QED
  BY <1>1, <1>2, <1>3, <1>4, TableWriters

\* The audit log of every session explains its row: it is a chain without gaps
\* from what the close recorded to what the row holds, however many
\* corrections ran, waited for each other or were rolled back
\* (admin_repository.go:296-400).
THEOREM AuditIsChain == Spec => []AuditChain
<1>1. AuditChain <=> \A s \in SessionId : Chained(s)
  BY DEF AuditChain, Chained
<1>2. Init => AuditChain /\ ReadUnderLock
  BY DEF Init, AuditChain, NoRow, ReadUnderLock, IdleAdmin
<1>3. Consistent /\ ReadUnderLock /\ AuditChain /\ [Next]_vars => AuditChain' /\ ReadUnderLock'
  <2>1. AuditChain' <=> \A s \in SessionId : Chained(s)'
    BY DEF AuditChain, Chained, OutcomeOf, ClosingOutcome
  <2>2. QED
    BY <1>1, <2>1, NextChained, NextReadUnderLock
<1>4. QED
  BY <1>2, <1>3, AlwaysConsistent, PTL DEF Spec

-----------------------------------------------------------------------------
(***************************************************************************)
(* StudySessions implements SessionLifecycle: of all its steps three write *)
(* the sessions table, and each is a step of the promise: the INSERT is an *)
(* open, the guarded UPDATE of a finish is a close, the commit of a        *)
(* correction is an amendment. Every other step leaves the book alone.     *)
(***************************************************************************)

LEMMA InitIsBlank == Init => Lifecycle!Init
BY DEF Init, Lifecycle!Init, Lifecycle!Blank, Book, NoRow

LEMMA InsertOpens ==
  ASSUME Consistent, NEW p \in Request, NEW s \in SessionId, StartInsert(p, s)
  PROVE  Lifecycle!Open(req[p].user, s)
<1>1. /\ sessions[s] = NoRow
      /\ sessions'[s] = [NoRow EXCEPT !.status = "active", !.user = req[p].user,
                                      !.started = req[p].now, !.created = clock]
      /\ \A t \in SessionId : t # s => sessions'[t] = sessions[t]
  BY DEF StartInsert, Consistent, TypeOK
<1>2. /\ sessions'[s].status = "active" /\ sessions'[s].user = req[p].user
      /\ sessions'[s].duration = 0 /\ sessions'[s].valid = TRUE
  BY <1>1 DEF NoRow
<1>3. Book' = [Book EXCEPT ![s] = [status |-> "active", user |-> req[p].user,
                                   minutes |-> 0, valid |-> TRUE]]
  BY <1>1, <1>2 DEF Book
<1>4. Book[s] = Lifecycle!Blank
  <2>1. /\ sessions[s].status = "absent" /\ sessions[s].user = None
        /\ sessions[s].duration = 0 /\ sessions[s].valid = TRUE
    BY <1>1 DEF NoRow
  <2>2. QED
    BY <2>1 DEF Book, Lifecycle!Blank
<1>5. \A t \in SessionId : Book[t].status = "active" => Book[t].user # req[p].user
  BY InsertStep DEF Book
<1>6. QED
  BY <1>3, <1>4, <1>5 DEF Lifecycle!Open

LEMMA FinishCloses ==
  ASSUME Consistent, NEW p \in Request, FinishUpdate(p), NEW s, s = req[p].session
  PROVE  s \in SessionId /\ Lifecycle!Close(s)
<1>1. /\ s \in SessionId /\ sessions[s].status = "active"
      /\ req[p].now \in Nat /\ sessions[s].started \in Nat
      /\ \A t \in SessionId : t # s => sessions'[t] = sessions[t]
      /\ sessions'[s].status = "finished"
      /\ sessions'[s].duration = MinutesBetween(sessions[s].started, req[p].now)
      /\ sessions'[s].user = sessions[s].user /\ sessions'[s].valid = sessions[s].valid
  BY CloseStep
<1>2. sessions'[s].duration \in Nat
  BY <1>1, MinutesAreNatural
<1>3. Book'[s].minutes = sessions'[s].duration /\ Book[s].status = "active"
  BY <1>1 DEF Book
<1>4. Book' = [Book EXCEPT ![s].status = "finished", ![s].minutes = sessions'[s].duration]
  <2>1. /\ \A t \in SessionId : t # s => sessions'[t] = sessions[t]
        /\ sessions'[s].user = sessions[s].user /\ sessions'[s].valid = sessions[s].valid
    BY <1>1
  <2>2. PICK b : b = "finished"
    OBVIOUS
  <2>3. sessions'[s].status = b
    BY <1>1, <2>2
  <2>4. Book' = [Book EXCEPT ![s].status = b, ![s].minutes = sessions'[s].duration]
    BY <2>1, <2>3 DEF Book
  <2>5. QED
    BY <2>2, <2>4
<1>5. QED
  BY <1>1, <1>2, <1>3, <1>4 DEF Lifecycle!Close

LEMMA CommitAmends ==
  ASSUME Consistent, NEW a \in Admin, CorrectionCommit(a), NEW c, c = adm[a].session
  PROVE  c \in SessionId /\ Lifecycle!Amend(c)
<1>1. /\ c \in SessionId /\ sessions[c].status = "finished"
      /\ sessions' = Patched(a) /\ adm[a].after \in Outcome
  BY CommitStep
<1>2. /\ \A t \in SessionId : t # c => sessions'[t] = sessions[t]
      /\ sessions'[c].status = sessions[c].status /\ sessions'[c].user = sessions[c].user
      /\ sessions'[c].duration = adm[a].after.duration
      /\ sessions'[c].valid = adm[a].after.valid
  BY <1>1, PatchedRows
<1>3. sessions'[c].duration \in Nat /\ sessions'[c].valid \in BOOLEAN
  BY <1>1, <1>2 DEF Outcome
<1>4. /\ Book'[c].minutes = sessions'[c].duration /\ Book'[c].valid = sessions'[c].valid
      /\ Book[c].status = "finished"
  BY <1>1 DEF Book
<1>5. Book' = [Book EXCEPT ![c].minutes = sessions'[c].duration, ![c].valid = sessions'[c].valid]
  BY <1>1, <1>2 DEF Book
<1>6. QED
  BY <1>1, <1>3, <1>4, <1>5 DEF Lifecycle!Amend

LEMMA NextIsLifecycle ==
  ASSUME Consistent, [Next]_vars
  PROVE  [Lifecycle!Next]_Book
<1>1. CASE UNCHANGED <<sessions, audit>>
  BY <1>1 DEF Book
<1>2. ASSUME NEW p \in Request, NEW s \in SessionId, StartInsert(p, s)
      PROVE  Lifecycle!Next
  <2>1. req[p].user \in User
    BY <1>2, InsertStep
  <2>2. Lifecycle!Open(req[p].user, s)
    BY <1>2, InsertOpens
  <2>3. QED
    BY <2>1, <2>2 DEF Lifecycle!Next
<1>3. ASSUME NEW p \in Request, FinishUpdate(p)
      PROVE  Lifecycle!Next
  <2>1. PICK s : s = req[p].session
    OBVIOUS
  <2>2. s \in SessionId /\ Lifecycle!Close(s)
    BY <1>3, <2>1, FinishCloses
  <2>3. QED
    BY <2>2 DEF Lifecycle!Next
<1>4. ASSUME NEW a \in Admin, CorrectionCommit(a)
      PROVE  Lifecycle!Next
  <2>1. PICK c : c = adm[a].session
    OBVIOUS
  <2>2. c \in SessionId /\ Lifecycle!Amend(c)
    BY <1>4, <2>1, CommitAmends
  <2>3. QED
    BY <2>2 DEF Lifecycle!Next
<1>5. QED
  BY <1>1, <1>2, <1>3, <1>4, TableWriters

\* Split into database calls, interleaved and failing anywhere, the handlers of
\* Start, Finish and the corrections still open a session only for a user with
\* none open, close it once, and amend it only after the close.
THEOREM SessionsImplementLifecycle == Spec => ImplementsLifecycle
<1>1. Init => Lifecycle!Init
  BY InitIsBlank
<1>2. Consistent /\ [Next]_vars => [Lifecycle!Next]_Book
  BY NextIsLifecycle
<1>3. QED
  BY <1>1, <1>2, AlwaysConsistent, PTL DEF Spec, ImplementsLifecycle, Lifecycle!Spec
=============================================================================
