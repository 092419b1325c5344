------------------------------ MODULE StreakProofs ------------------------------
(***************************************************************************)
(* Theorems about the stored streak, for any set of users, session ids,    *)
(* concurrent requests and concurrent corrections:                         *)
(*   StreakBacked  it is never more than was studied, however calls        *)
(*                 overlap and fail                                        *)
(*   StreakExact   it is what the rebuild computes from the table, as long *)
(*                 as nothing interferes between a close and its counting, *)
(*                 and for each student whatever happens to the others     *)
(***************************************************************************)
EXTENDS StudySessionsProofs

-----------------------------------------------------------------------------
(* The streak arithmetic: a longer history *)

\* A streak backed by D and extended by a session that ended at t is backed by
\* any set of days that holds D and the day of t, whatever lies in between.
LEMMA UpdateIsBacked ==
  ASSUME NEW prev \in StreakState, NEW D, BackedBy(prev, D),
         NEW t \in Nat, ~ SameDay(prev, t),
         NEW C, D \subseteq C, Day(t) \in C
  PROVE  /\ StreakUpdate(prev, t) \in StreakState
         /\ BackedBy(StreakUpdate(prev, t), C)
<1>1. /\ prev.current \in Nat /\ prev.best \in Nat /\ prev.last \in Maybe(Nat)
      /\ t # None /\ Day(t) \in Nat
  BY NoneIsNoTime, DayIsNatural DEF StreakState, Time, Maybe
<1> DEFINE new == StreakUpdate(prev, t)
<1>2. new \in StreakState
  BY <1>1 DEF StreakUpdate, StreakState, Larger, Maybe, Time
<1>3. new.last = t /\ new.current # 0 /\ new.current \in Nat /\ new.best \in Nat
  BY <1>1 DEF StreakUpdate, Larger
<1>4. new.current <= new.best
  BY <1>1 DEF StreakUpdate, Larger, BackedBy
<1>5. IsRun(C, Day(t), new.current)
  <2>1. CASE new.current = 1
    BY <1>1, <2>1 DEF IsRun
  <2>2. CASE new.current # 1
    <3>1. /\ prev.last # None /\ prev.last \in Nat
          /\ Day(t) = Day(prev.last) + 1
          /\ new.current = prev.current + 1
      BY <1>1, <2>2 DEF StreakUpdate, Maybe
    <3>2. Day(prev.last) \in Nat
      BY <3>1, DayIsNatural
    <3>3. IsRun(D, Day(prev.last), prev.current)
      BY <3>1 DEF BackedBy
    <3>4. ASSUME NEW k \in 0..(new.current - 1)
          PROVE  k <= Day(t) /\ Day(t) - k \in C
      <4>1. CASE k = 0
        BY <1>1, <4>1
      <4>2. CASE k # 0
        <5>1. k - 1 \in 0..(prev.current - 1)
          BY <1>1, <3>1, <4>2
        <5>2. k - 1 <= Day(prev.last) /\ Day(prev.last) - (k - 1) \in D
          BY <3>3, <5>1 DEF IsRun
        <5>3. Day(t) - k = Day(prev.last) - (k - 1)
          BY <3>1, <3>2
        <5>4. QED
          BY <3>1, <3>2, <5>2, <5>3
      <4>3. QED
        BY <4>1, <4>2
    <3>5. QED
      BY <3>4 DEF IsRun
  <2>3. QED
    BY <2>1, <2>2
<1>6. \E d \in C : IsRun(C, d, new.best)
  <2>1. CASE new.best = new.current
    BY <1>5, <2>1
  <2>2. CASE new.best # new.current
    <3>1. new.best = prev.best
      BY <1>1, <2>2 DEF StreakUpdate, Larger
    <3>2. prev.best # 0
      BY <1>3, <1>4, <3>1
    <3>3. PICK d \in D : IsRun(D, d, prev.best)
      BY <3>2 DEF BackedBy
    <3>4. IsRun(C, d, prev.best)
      BY <3>3 DEF IsRun
    <3>5. QED
      BY <3>1, <3>3, <3>4
  <2>3. QED
    BY <2>1, <2>2
<1>7. BackedBy(new, C)
  BY <1>1, <1>3, <1>4, <1>5, <1>6 DEF BackedBy
<1>8. QED
  BY <1>2, <1>7

\* More days back a streak no less.
LEMMA BackedByMore ==
  ASSUME NEW st, NEW D, BackedBy(st, D), NEW C, D \subseteq C
  PROVE  BackedBy(st, C)
<1>1. \A d, n : IsRun(D, d, n) => IsRun(C, d, n)
  BY DEF IsRun
<1>2. st.best # 0 => \E d \in C : IsRun(C, d, st.best)
  <2>1. SUFFICES ASSUME st.best # 0
                 PROVE  \E d \in C : IsRun(C, d, st.best)
    OBVIOUS
  <2>2. PICK d \in D : IsRun(D, d, st.best)
    BY <2>1 DEF BackedBy
  <2>3. QED
    BY <1>1, <2>2
<1>3. QED
  BY <1>1, <1>2 DEF BackedBy

-----------------------------------------------------------------------------
(***************************************************************************)
(* A streak is never more than was studied: StreakBacked, for every set of *)
(* users, sessions, requests and corrections. The invariant says what the  *)
(* requests and corrections in flight are about to write is backed too; it *)
(* needs the audit chain, because a session that qualifies now must be one *)
(* that its close or a correction made qualify.                            *)
(***************************************************************************)

\* The day a correction at work will add, if the outcome it sets qualifies.
NewCredit(a) ==
  IF Qualifies(adm[a].after) THEN {Day(sessions[adm[a].session].ended)} ELSE {}

WriteSupported(p) ==
  LET r == req[p] IN
  r.pc = "streak_write" => /\ BackedBy(r.seen, CreditDays(r.user))
                           /\ ~ SameDay(r.seen, r.now)
                           /\ EverQualified(r.session)

RebuildSupported(a) ==
  adm[a].pc = "rebuilt" => BackedBy(adm[a].streak, CreditDays(OwnerOf(a)) \cup NewCredit(a))

Supported ==
  /\ StreakBacked
  /\ \A p \in Request : WriteSupported(p)
  /\ \A a \in Admin : RebuildSupported(a)

-----------------------------------------------------------------------------
(* Credits are never taken back *)

LEMMA EverQualifiedKept ==
  ASSUME Consistent, [Next]_vars, NEW s \in SessionId, EverQualified(s)
  PROVE  /\ EverQualified(s)'
         /\ sessions'[s].ended = sessions[s].ended /\ sessions'[s].user = sessions[s].user
<1>1. /\ sessions[s].status = "finished" /\ sessions'[s].status = "finished"
      /\ sessions'[s].ended = sessions[s].ended /\ sessions'[s].user = sessions[s].user
  BY RowsKept DEF EverQualified, RowKept
<1>2. ASSUME sessions'[s].started = sessions[s].started, audit'[s] = audit[s]
      PROVE  EverQualified(s)'
  BY <1>1, <1>2 DEF EverQualified
<1>3. ASSUME NEW p \in Request, NEW n \in SessionId, StartInsert(p, n)
      PROVE  EverQualified(s)'
  <2>1. /\ sessions[n].status = "absent" /\ audit' = audit
        /\ \A t \in SessionId : t # n => sessions'[t] = sessions[t]
    BY <1>3, InsertStep
  <2>2. s # n
    BY <1>1, <2>1
  <2>3. QED
    BY <1>2, <2>1, <2>2
<1>4. ASSUME NEW p \in Request, FinishUpdate(p)
      PROVE  EverQualified(s)'
  <2>1. PICK c : c = req[p].session
    OBVIOUS
  <2>2. /\ sessions[c].status = "active"
        /\ \A t \in SessionId : t # c => sessions'[t] = sessions[t]
    BY <1>4, <2>1, CloseStep
  <2>3. s # c /\ audit' = audit
    BY <1>1, <1>4, <2>2 DEF FinishUpdate
  <2>4. QED
    BY <1>2, <2>2, <2>3
<1>5. ASSUME NEW a \in Admin, CorrectionCommit(a)
      PROVE  EverQualified(s)'
  <2>1. PICK c : c = adm[a].session
    OBVIOUS
  <2>2. PICK e : e = [before |-> adm[a].before, after |-> adm[a].after]
    OBVIOUS
  <2>3. /\ c \in SessionId /\ sessions' = Patched(a)
        /\ audit' = [audit EXCEPT ![c] = Append(@, e)] /\ e \in AuditEntry
    BY <1>5, <2>1, <2>2, CommitStep
  <2>4. sessions'[s].started = sessions[s].started
    BY <2>1, <2>3, PatchedRows
  <2>5. audit \in [SessionId -> Seq(AuditEntry)]
    BY DEF Consistent, TypeOK
  <2>6. CASE s = c
    <3>1. PICK log \in Seq(AuditEntry) : log = audit[s]
      BY <2>5
    <3>2. /\ audit'[s] = Append(log, e) /\ DOMAIN log \subseteq DOMAIN Append(log, e)
          /\ \A i \in DOMAIN log : Append(log, e)[i] = log[i]
      BY <2>3, <2>5, <2>6, <3>1, AppendedEntry
    <3>3. QED
      BY <1>1, <2>4, <3>1, <3>2 DEF EverQualified
  <2>7. CASE s # c
    BY <1>2, <2>3, <2>4, <2>5, <2>7
  <2>8. QED
    BY <2>6, <2>7
<1>6. CASE UNCHANGED <<sessions, audit>>
  BY <1>2, <1>6
<1>7. QED
  BY <1>1, <1>3, <1>4, <1>5, <1>6, TableWriters

LEMMA CreditMember ==
  ASSUME NEW s \in SessionId, EverQualified(s)
  PROVE  Day(sessions[s].ended) \in CreditDays(sessions[s].user)
BY DEF CreditDays

LEMMA CreditDaysGrow ==
  ASSUME Consistent, [Next]_vars, NEW u
  PROVE  CreditDays(u) \subseteq CreditDays(u)'
<1>1. SUFFICES ASSUME NEW d \in CreditDays(u)
               PROVE  d \in CreditDays(u)'
  OBVIOUS
<1>2. PICK s \in SessionId : sessions[s].user = u /\ EverQualified(s) /\ d = Day(sessions[s].ended)
  BY <1>1 DEF CreditDays
<1>3. /\ EverQualified(s)'
      /\ sessions'[s].ended = sessions[s].ended /\ sessions'[s].user = sessions[s].user
  BY <1>2, EverQualifiedKept
<1>4. QED
  BY <1>2, <1>3 DEF CreditDays

\* A session that qualifies now has qualified at its close or by a correction.
LEMMA QualifyingHasQualified ==
  ASSUME Consistent, AuditChain, NEW s \in SessionId,
         sessions[s].status = "finished", Qualifies(sessions[s])
  PROVE  EverQualified(s)
<1>1. PICK log \in Seq(AuditEntry) : log = audit[s]
  BY DEF Consistent, TypeOK
<1>2. OutcomeOf(s) = IF log = <<>> THEN ClosingOutcome(s) ELSE log[Len(log)].after
  BY <1>1 DEF AuditChain
<1>3. Qualifies(OutcomeOf(s))
  BY DEF Qualifies, OutcomeOf
<1>4. CASE log = <<>>
  BY <1>2, <1>3, <1>4 DEF Qualifies, ClosingOutcome, EverQualified
<1>5. CASE log # <<>>
  <2>1. Len(log) \in DOMAIN log
    BY <1>5, EmptySeq, LenProperties
  <2>2. Qualifies(audit[s][Len(log)].after)
    BY <1>1, <1>2, <1>3, <1>5
  <2>3. QED
    BY <1>1, <2>1, <2>2 DEF EverQualified
<1>6. QED
  BY <1>4, <1>5

LEMMA RebuildCredits ==
  ASSUME Consistent, AuditChain, NEW a \in Admin, adm[a].pc # "idle", NEW u
  PROVE  {Day(t) : t \in QualifyingEnds(Patched(a), u)} \subseteq CreditDays(u) \cup NewCredit(a)
<1>c. PICK c \in SessionId : c = adm[a].session
  BY DEF Consistent, CorrectionConsistent
<1>1. /\ \A s \in SessionId :
           /\ Patched(a)[s].status = sessions[s].status
           /\ Patched(a)[s].user = sessions[s].user
           /\ Patched(a)[s].ended = sessions[s].ended
           /\ s # c => Patched(a)[s] = sessions[s]
      /\ Patched(a)[c].duration = adm[a].after.duration
      /\ Patched(a)[c].valid = adm[a].after.valid
  BY <1>c, PatchedRows
<1>2. SUFFICES ASSUME NEW s \in SessionId, Patched(a)[s].user = u,
                      Patched(a)[s].status = "finished", Qualifies(Patched(a)[s])
               PROVE  Day(Patched(a)[s].ended) \in CreditDays(u) \cup NewCredit(a)
  BY DEF QualifyingEnds
<1>3. CASE s = c
  BY <1>c, <1>1, <1>2, <1>3 DEF NewCredit, Qualifies
<1>4. CASE s # c
  <2>1. EverQualified(s)
    BY <1>1, <1>2, <1>4, QualifyingHasQualified
  <2>2. QED
    BY <1>1, <1>2, <2>1, CreditMember
<1>5. QED
  BY <1>3, <1>4

-----------------------------------------------------------------------------
(* Who writes what *)

LEMMA StreakWriters ==
  ASSUME [Next]_vars
  PROVE  \/ UNCHANGED streak
         \/ \E p \in Request : RecordWrite(p)
         \/ \E a \in Admin : CorrectionCommit(a)
BY DEF Next, Work, Arrival, Failure, RequestStep, CorrectionStep, vars, Tick, StartCheck,
       FinishRead, CorrectionBegin, RequestAborts, CorrectionAborts, Stamp, StartRefused, StartInsert,
       FinishUpdate, FinishLost, RecordRead, CorrectionAudit, CorrectionRebuild, CorrectionDeadlocks

LEMMA WriterStep ==
  ASSUME Consistent, [Next]_vars, NEW p \in Request, req'[p].pc = "streak_write"
  PROVE  req'[p] = req[p] \/ RecordRead(p)
<1>1. req \in [Request -> RequestState]
  BY DEF Consistent, TypeOK
<1>2. ASSUME NEW q \in Request, req' = Leave(q)
      PROVE  req'[p] = req[p]
  BY <1>1, <1>2 DEF Leave, IdleRequest
<1>3. ASSUME NEW q \in Request, NEW u \in User, StartCheck(q, u)
      PROVE  req'[p] = req[p]
  BY <1>1, <1>3 DEF StartCheck, IdleRequest
<1>4. ASSUME NEW q \in Request, NEW u \in User, NEW s \in SessionId, FinishRead(q, u, s)
      PROVE  req'[p] = req[p]
  BY <1>1, <1>4 DEF FinishRead, IdleRequest
<1>5. ASSUME NEW q \in Request, Stamp(q)
      PROVE  req'[p] = req[p]
  BY <1>1, <1>5 DEF Stamp, RequestState
<1>6. ASSUME NEW q \in Request, FinishUpdate(q)
      PROVE  req'[p] = req[p]
  BY <1>1, <1>6 DEF FinishUpdate, Goto, RequestState
<1>7. ASSUME NEW q \in Request, RecordRead(q)
      PROVE  req'[p] = req[p] \/ RecordRead(p)
  BY <1>1, <1>2, <1>7 DEF RecordRead
<1>8. ASSUME NEW q \in Request, RequestStep(q)
      PROVE  req'[p] = req[p] \/ RecordRead(p)
  BY <1>2, <1>5, <1>6, <1>7, <1>8 DEF RequestStep, StartInsert, StartRefused, FinishLost, RecordWrite
<1>9. ASSUME NEW a \in Admin, CorrectionStep(a)
      PROVE  req' = req
  BY <1>9 DEF CorrectionStep, CorrectionAudit, CorrectionRebuild, CorrectionCommit, CorrectionDeadlocks
<1>10. Tick \/ (\E a \in Admin, s \in SessionId : \E after \in PatchesOf(s) : CorrectionBegin(a, s, after))
         \/ (\E a \in Admin : CorrectionAborts(a)) \/ UNCHANGED vars => req' = req
  BY DEF Tick, CorrectionBegin, CorrectionAborts, vars
<1>11. QED
  BY <1>2, <1>3, <1>4, <1>8, <1>9, <1>10 DEF Next, Work, Arrival, Failure, RequestAborts

LEMMA RebuilderStep ==
  ASSUME Consistent, [Next]_vars, NEW a \in Admin, adm'[a].pc = "rebuilt"
  PROVE  adm'[a] = adm[a] \/ CorrectionRebuild(a)
<1>1. adm \in [Admin -> AdminState]
  BY DEF Consistent, TypeOK
<1>2. ASSUME NEW b \in Admin, adm' = ReleaseAdmin(b)
      PROVE  adm'[a] = adm[a]
  BY <1>1, <1>2, IdleAdminIsTyped DEF ReleaseAdmin
<1>3. ASSUME NEW b \in Admin, NEW s \in SessionId, NEW after \in PatchesOf(s), CorrectionBegin(b, s, after)
      PROVE  adm'[a] = adm[a]
  BY <1>1, <1>3 DEF CorrectionBegin, IdleAdmin
<1>4. ASSUME NEW b \in Admin, CorrectionAudit(b)
      PROVE  adm'[a] = adm[a]
  BY <1>1, <1>4 DEF CorrectionAudit, AdminState
<1>5. ASSUME NEW b \in Admin, CorrectionRebuild(b)
      PROVE  adm'[a] = adm[a] \/ CorrectionRebuild(a)
  BY <1>1, <1>5 DEF CorrectionRebuild
<1>6. ASSUME NEW b \in Admin, CorrectionStep(b)
      PROVE  adm'[a] = adm[a] \/ CorrectionRebuild(a)
  BY <1>2, <1>4, <1>5, <1>6 DEF CorrectionStep, CorrectionCommit, CorrectionDeadlocks
<1>7. ASSUME NEW p \in Request, RequestStep(p)
      PROVE  adm' = adm
  BY <1>7 DEF RequestStep, Stamp, StartInsert, StartRefused, FinishUpdate, FinishLost, RecordRead, RecordWrite
<1>8. Tick \/ UNCHANGED vars \/ (\E p \in Request : RequestAborts(p))
        \/ (\E p \in Request, u \in User : StartCheck(p, u) \/ \E s \in SessionId : FinishRead(p, u, s))
           => adm' = adm
  BY DEF Tick, StartCheck, FinishRead, RequestAborts, vars
<1>9. QED
  BY <1>2, <1>3, <1>6, <1>7, <1>8 DEF Next, Work, Arrival, Failure, CorrectionAborts

-----------------------------------------------------------------------------
(* Every step keeps what is stored, and what is about to be, supported *)

LEMMA RecordWriteBacked ==
  ASSUME Consistent, Supported, NEW p \in Request, RecordWrite(p), NEW u \in User
  PROVE  BackedBy(streak'[u], CreditDays(u))
<1>1. /\ req[p].pc = "streak_write" /\ req[p].user \in User /\ req[p].now \in Nat
      /\ req[p].seen \in StreakState /\ req[p].session \in SessionId
      /\ sessions[req[p].session].user = req[p].user
      /\ sessions[req[p].session].ended = req[p].now
  BY DEF RecordWrite, Consistent, TypeOK, RequestConsistent, RequestState
<1>2. /\ BackedBy(req[p].seen, CreditDays(req[p].user))
      /\ ~ SameDay(req[p].seen, req[p].now) /\ EverQualified(req[p].session)
  BY <1>1 DEF Supported, WriteSupported
<1>3. Day(req[p].now) \in CreditDays(req[p].user)
  BY <1>1, <1>2, CreditMember
<1>4. BackedBy(StreakUpdate(req[p].seen, req[p].now), CreditDays(req[p].user))
  BY <1>1, <1>2, <1>3, UpdateIsBacked
<1>5. streak' = [streak EXCEPT ![req[p].user] = StreakUpdate(req[p].seen, req[p].now)]
  BY DEF RecordWrite
<1>6. BackedBy(streak[u], CreditDays(u)) /\ streak \in [User -> StreakState]
  BY DEF Supported, StreakBacked, Consistent, TypeOK
<1>7. QED
  BY <1>1, <1>4, <1>5, <1>6

LEMMA CommitBacked ==
  ASSUME Consistent, Supported, [Next]_vars, NEW a \in Admin, CorrectionCommit(a), NEW u \in User
  PROVE  BackedBy(streak'[u], CreditDays(u)')
<1>c. PICK c : c = adm[a].session
  OBVIOUS
<1>1. CASE streak'[u] = streak[u]
  <2>1. BackedBy(streak[u], CreditDays(u))
    BY DEF Supported, StreakBacked
  <2>2. QED
    BY <1>1, <2>1, CreditDaysGrow, BackedByMore
<1>2. CASE u = OwnerOf(a) /\ adm[a].pc = "rebuilt" /\ streak'[u] = adm[a].streak
  <2>1. BackedBy(adm[a].streak, CreditDays(u) \cup NewCredit(a))
    BY <1>2 DEF Supported, RebuildSupported
  <2>2. PICK e : e = [before |-> adm[a].before, after |-> adm[a].after]
    OBVIOUS
  <2>3. /\ c \in SessionId /\ sessions[c].status = "finished" /\ sessions' = Patched(a)
        /\ audit' = [audit EXCEPT ![c] = Append(@, e)] /\ e \in AuditEntry
    BY <1>c, <2>2, CommitStep
  <2>4. /\ sessions'[c].status = "finished" /\ sessions'[c].user = u
        /\ sessions'[c].ended = sessions[c].ended
    BY <1>c, <1>2, <2>3, PatchedRows DEF OwnerOf
  <2>5. PICK log \in Seq(AuditEntry) : log = audit[c]
    BY <2>3 DEF Consistent, TypeOK
  <2>6. Len(log) + 1 \in DOMAIN audit'[c] /\ audit'[c][Len(log) + 1] = e
    <3>1. audit'[c] = Append(log, e)
      BY <2>3, <2>5 DEF Consistent, TypeOK
    <3>2. /\ DOMAIN Append(log, e) = 1..(Len(log) + 1) /\ Len(log) \in Nat
          /\ Append(log, e)[Len(log) + 1] = e
      BY <2>3, AppendedEntry
    <3>3. QED
      BY <3>1, <3>2
  <2>7. NewCredit(a) \subseteq CreditDays(u)'
    <3>1. CASE Qualifies(adm[a].after)
      <4>1. EverQualified(c)'
        <5>1. Qualifies(audit'[c][Len(log) + 1].after)
          BY <2>2, <2>6, <3>1
        <5>2. QED
          BY <2>4, <2>6, <5>1 DEF EverQualified, Qualifies
      <4>2. Day(sessions'[c].ended) \in CreditDays(u)'
        BY <2>3, <2>4, <4>1 DEF CreditDays
      <4>3. QED
        BY <1>c, <2>4, <3>1, <4>2 DEF NewCredit
    <3>2. CASE ~ Qualifies(adm[a].after)
      BY <3>2 DEF NewCredit
    <3>3. QED
      BY <3>1, <3>2
  <2>8. CreditDays(u) \cup NewCredit(a) \subseteq CreditDays(u)'
    BY <2>7, CreditDaysGrow
  <2>9. QED
    BY <1>2, <2>1, <2>8, BackedByMore
<1>3. QED
  BY <1>1, <1>2 DEF CorrectionCommit, Consistent, TypeOK

LEMMA NextStreakBacked ==
  ASSUME Consistent, Supported, [Next]_vars
  PROVE  StreakBacked'
<1>1. SUFFICES ASSUME NEW u \in User
               PROVE  BackedBy(streak'[u], CreditDays(u)')
  BY DEF StreakBacked
<1>2. CASE UNCHANGED streak
  <2>1. BackedBy(streak[u], CreditDays(u))
    BY DEF Supported, StreakBacked
  <2>2. QED
    BY <1>2, <2>1, CreditDaysGrow, BackedByMore
<1>3. ASSUME NEW p \in Request, RecordWrite(p)
      PROVE  BackedBy(streak'[u], CreditDays(u)')
  BY <1>3, RecordWriteBacked, CreditDaysGrow, BackedByMore
<1>4. ASSUME NEW a \in Admin, CorrectionCommit(a)
      PROVE  BackedBy(streak'[u], CreditDays(u)')
  BY <1>4, CommitBacked
<1>5. QED
  BY <1>2, <1>3, <1>4, StreakWriters

LEMMA NextWriteSupported ==
  ASSUME Consistent, Supported, [Next]_vars, NEW p \in Request
  PROVE  WriteSupported(p)'
<1>1. SUFFICES ASSUME req'[p].pc = "streak_write",
                      NEW u, u = req'[p].user, NEW s, s = req'[p].session
               PROVE  /\ BackedBy(req'[p].seen, CreditDays(u)')
                      /\ ~ SameDay(req'[p].seen, req'[p].now)
                      /\ EverQualified(s)'
  BY DEF WriteSupported, CreditDays, EverQualified
<1>2. CASE req'[p] = req[p]
  <2>1. /\ BackedBy(req[p].seen, CreditDays(req[p].user))
        /\ ~ SameDay(req[p].seen, req[p].now) /\ EverQualified(req[p].session)
        /\ req[p].session \in SessionId
    BY <1>1, <1>2 DEF Supported, WriteSupported, Consistent, RequestConsistent
  <2>2. s \in SessionId /\ EverQualified(s) /\ BackedBy(req[p].seen, CreditDays(u))
    BY <1>1, <1>2, <2>1
  <2>3. EverQualified(s)'
    BY <2>2, EverQualifiedKept
  <2>4. BackedBy(req[p].seen, CreditDays(u)')
    BY <2>2, CreditDaysGrow, BackedByMore
  <2>5. QED
    BY <1>2, <2>1, <2>3, <2>4
<1>3. CASE RecordRead(p)
  <2>1. /\ req[p].pc = "record" /\ req[p].user \in User /\ req[p].session \in SessionId
        /\ sessions[req[p].session].status = "finished"
        /\ sessions[req[p].session].ended = req[p].now
        /\ req[p] \in RequestState
    BY <1>3 DEF RecordRead, Consistent, TypeOK, RequestConsistent
  <2>2. /\ MinutesBetween(sessions[req[p].session].started, req[p].now) >= MinStreakSessionMinutes
        /\ ~ SameDay(streak[req[p].user], req[p].now)
        /\ req' = [req EXCEPT ![p].pc = "streak_write", ![p].seen = streak[req[p].user]]
    BY <1>1, <1>3 DEF RecordRead, Leave, IdleRequest, Consistent, TypeOK
  <2>3. /\ req'[p].seen = streak[u] /\ req'[p].now = req[p].now
        /\ u = req[p].user /\ s = req[p].session
    BY <1>1, <2>1, <2>2 DEF Consistent, TypeOK, RequestState
  <2>4. EverQualified(s)
    BY <2>1, <2>2, <2>3 DEF EverQualified
  <2>5. BackedBy(streak[u], CreditDays(u))
    BY <2>1, <2>3 DEF Supported, StreakBacked
  <2>6. EverQualified(s)' /\ CreditDays(u)' = CreditDays(u)
    BY <1>3, <2>4 DEF RecordRead, EverQualified, CreditDays
  <2>7. QED
    BY <2>2, <2>3, <2>5, <2>6
<1>4. QED
  BY <1>1, <1>2, <1>3, WriterStep

LEMMA NextRebuildSupported ==
  ASSUME Consistent, AuditChain, Supported, [Next]_vars, NEW a \in Admin
  PROVE  RebuildSupported(a)'
<1>1. SUFFICES ASSUME adm'[a].pc = "rebuilt"
               PROVE  BackedBy(adm'[a].streak, CreditDays(OwnerOf(a))' \cup NewCredit(a)')
  BY DEF RebuildSupported
<1>2. PICK c : c = adm[a].session
  OBVIOUS
<1>3. CASE adm'[a] = adm[a]
  <2>1. /\ c \in SessionId /\ sessions[c].status = "finished"
        /\ BackedBy(adm[a].streak, CreditDays(OwnerOf(a)) \cup NewCredit(a))
    BY <1>1, <1>2, <1>3 DEF Supported, RebuildSupported, Consistent, CorrectionConsistent
  <2>2. sessions'[c].user = sessions[c].user /\ sessions'[c].ended = sessions[c].ended
    BY <2>1, RowsKept DEF RowKept
  <2>3. NewCredit(a)' = NewCredit(a) /\ OwnerOf(a)' = OwnerOf(a)
    BY <1>2, <1>3, <2>2 DEF NewCredit, OwnerOf, Qualifies
  <2>4. PICK u : u = OwnerOf(a)
    OBVIOUS
  <2>5. CreditDays(u) \subseteq CreditDays(u)'
    BY CreditDaysGrow
  <2>6. BackedBy(adm[a].streak, CreditDays(u)' \cup NewCredit(a))
    BY <2>1, <2>4, <2>5, BackedByMore
  <2>7. CreditDays(OwnerOf(a))' = CreditDays(u)'
    BY <2>3, <2>4 DEF CreditDays
  <2>8. QED
    BY <1>3, <2>3, <2>6, <2>7
<1>4. CASE CorrectionRebuild(a)
  <2>1. /\ adm[a].pc # "idle" /\ adm[a] \in AdminState /\ clock \in Nat
        /\ UNCHANGED <<clock, sessions, streak, audit, req>>
    BY <1>4 DEF CorrectionRebuild, Consistent, TypeOK, Time
  <2>2. PICK E : E = QualifyingEnds(Patched(a), OwnerOf(a))
    OBVIOUS
  <2>3. PICK D : D = {Day(t) : t \in E}
    OBVIOUS
  <2>4. E \subseteq Nat /\ \A t \in E : t <= clock
    BY <2>1, <2>2, QualifyingEndsArePast
  <2>5. BackedBy(StreakFromSessions(E), D)
    BY <2>1, <2>3, <2>4, RebuildIsBacked
  <2>6. D \subseteq CreditDays(OwnerOf(a)) \cup NewCredit(a)
    BY <2>1, <2>2, <2>3, RebuildCredits
  <2>7. BackedBy(StreakFromSessions(E), CreditDays(OwnerOf(a)) \cup NewCredit(a))
    BY <2>5, <2>6, BackedByMore
  <2>8. adm' = [adm EXCEPT ![a].pc = "rebuilt", ![a].streak = StreakFromSessions(E)]
    BY <1>4, <2>2 DEF CorrectionRebuild, Patched
  <2>9. /\ adm'[a].streak = StreakFromSessions(E)
        /\ adm'[a].session = adm[a].session /\ adm'[a].after = adm[a].after
    BY <2>1, <2>8 DEF Consistent, TypeOK, AdminState
  <2>10. OwnerOf(a)' = OwnerOf(a) /\ NewCredit(a)' = NewCredit(a)
    BY <2>1, <2>9 DEF OwnerOf, NewCredit, Qualifies
  <2>11. CreditDays(OwnerOf(a))' = CreditDays(OwnerOf(a))
    BY <2>1, <2>10 DEF CreditDays, EverQualified
  <2>12. QED
    BY <2>7, <2>9, <2>10, <2>11
<1>5. QED
  BY <1>1, <1>3, <1>4, RebuilderStep

\* No interleaving of finishes, retries, failures and corrections stores a
\* streak, current or best, one of whose days lacks the end of a session that
\* qualified at its close or by a correction (streak_service.go:68-166,
\* admin_repository.go:402-452).
THEOREM StreakIsBacked == Spec => []StreakBacked
<1>1. Init => Supported
  BY NoneIsNoTime DEF Init, Supported, StreakBacked, BackedBy, NoStreak, WriteSupported, RebuildSupported,
         IdleRequest, IdleAdmin
<1>2. Consistent /\ AuditChain /\ Supported /\ [Next]_vars => Supported'
  BY NextStreakBacked, NextWriteSupported, NextRebuildSupported DEF Supported
<1>3. Supported => StreakBacked
  BY DEF Supported
<1>4. QED
  BY <1>1, <1>2, <1>3, AlwaysConsistent, AuditIsChain, PTL DEF Spec

-----------------------------------------------------------------------------
(***************************************************************************)
(* The stored streak is what the rebuild computes: ExactFor(u), for each   *)
(* student u, from what happens to the counting of u and to nobody else's. *)
(* The invariant counts what is pending apart: a session that is closed    *)
(* and not yet recorded is in the table and not in the streak.             *)
(***************************************************************************)

\* No run of D that ends at d is longer than the one RunLength finds.
LEMMA RunsAreShorter ==
  ASSUME NEW D, D \subseteq Nat, NEW d \in D, NEW n \in Nat, IsRun(D, d, n)
  PROVE  n <= RunLength(D, d)
<1> DEFINE m == RunLength(D, d)
<1>1. m \in 1..(d + 1) /\ ~ (m <= d /\ d - m \in D)
  BY RunLengthIsRun
<1> HIDE DEF m
<1>2. SUFFICES ASSUME m < n
               PROVE  FALSE
  BY <1>1 DEF m
<1>3. m \in 0..(n - 1)
  BY <1>1, <1>2
<1>4. QED
  BY <1>1, <1>3 DEF IsRun

\* A run that cannot be extended is the one RunLength finds.
LEMMA RunIsFound ==
  ASSUME NEW D, D \subseteq Nat, NEW d \in D, NEW n \in Nat,
         IsRun(D, d, n), ~ (n <= d /\ d - n \in D)
  PROVE  RunLength(D, d) = n
<1> DEFINE m == RunLength(D, d)
<1>1. m \in 1..(d + 1) /\ IsRun(D, d, m) /\ n <= m
  BY RunLengthIsRun, RunsAreShorter
<1> HIDE DEF m
<1>2. SUFFICES ASSUME n < m
               PROVE  FALSE
  BY <1>1 DEF m
<1>3. n \in 0..(m - 1)
  BY <1>1, <1>2
<1>4. QED
  BY <1>1, <1>3 DEF IsRun

\* A day later than all of D leaves the runs of D as they were.
LEMMA EarlierRunsStay ==
  ASSUME NEW D, D \subseteq Nat, NEW d \in Nat, \A x \in D : x < d, NEW e \in D
  PROVE  RunLength(D \cup {d}, e) = RunLength(D, e)
<1> DEFINE n == RunLength(D, e)
           C == D \cup {d}
<1>1. n \in 1..(e + 1) /\ IsRun(D, e, n) /\ ~ (n <= e /\ e - n \in D)
  BY RunLengthIsRun
<1> HIDE DEF n
<1>2. IsRun(C, e, n)
  BY <1>1 DEF IsRun
<1>3. ~ (n <= e /\ e - n \in C)
  <2>1. SUFFICES ASSUME n <= e, e - n = d
                 PROVE  FALSE
    BY <1>1
  <2>2. e \in Nat /\ e < d
    OBVIOUS
  <2>3. QED
    BY <1>1, <2>1, <2>2
<1>4. C \subseteq Nat /\ e \in C /\ n \in Nat
  BY <1>1
<1> HIDE DEF C
<1>5. RunLength(C, e) = n
  BY <1>1, <1>2, <1>3, <1>4, RunIsFound
<1>6. QED
  BY <1>5 DEF n, C

\* The run that ends at a new day: one longer than yesterday's, or a day of its own.
LEMMA NewestRun ==
  ASSUME NEW D, D \subseteq Nat, NEW d \in Nat, \A x \in D : x < d
  PROVE  RunLength(D \cup {d}, d) = IF d # 0 /\ d - 1 \in D THEN RunLength(D, d - 1) + 1 ELSE 1
<1> DEFINE C == D \cup {d}
<1>1. C \subseteq Nat /\ d \in C
  OBVIOUS
<1>2. CASE d # 0 /\ d - 1 \in D
  <2> DEFINE y == d - 1
             n == RunLength(D, y)
  <2>1. y \in D /\ y \in Nat /\ d = y + 1
    BY <1>2
  <2> HIDE DEF y
  <2>2. n \in 1..(y + 1) /\ IsRun(D, y, n) /\ ~ (n <= y /\ y - n \in D)
    BY <2>1, RunLengthIsRun
  <2> HIDE DEF n
  <2>3. IsRun(C, d, n + 1)
    <3>1. ASSUME NEW k \in 0..(n + 1 - 1)
          PROVE  k <= d /\ d - k \in C
      <4>1. CASE k = 0
        BY <4>1
      <4>2. CASE k # 0
        <5>1. k - 1 \in 0..(n - 1)
          BY <2>2, <4>2
        <5>2. k - 1 <= y /\ y - (k - 1) \in D
          BY <2>2, <5>1 DEF IsRun
        <5>3. d - k = y - (k - 1) /\ k <= d
          BY <2>1, <2>2, <5>2
        <5>4. QED
          BY <5>2, <5>3
      <4>3. QED
        BY <4>1, <4>2
    <3> HIDE DEF C
    <3>2. \A k \in 0..(n + 1 - 1) : k <= d /\ d - k \in C
      BY <3>1
    <3>3. n \in Nat
      BY <2>1, <2>2
    <3>4. QED
      BY <3>2, <3>3 DEF IsRun
  <2>4. ~ (n + 1 <= d /\ d - (n + 1) \in C)
    <3>1. SUFFICES ASSUME n + 1 <= d, d - (n + 1) \in C
                   PROVE  FALSE
      OBVIOUS
    <3>2. d - (n + 1) = y - n /\ n <= y /\ y - n # d
      BY <2>1, <2>2, <3>1
    <3>3. QED
      BY <2>2, <3>1, <3>2
  <2> HIDE DEF C
  <2>5. n + 1 \in Nat
    BY <2>2
  <2>6. RunLength(C, d) = n + 1
    BY <1>1, <2>5, <2>3, <2>4, RunIsFound
  <2>7. QED
    BY <1>2, <2>6 DEF n, y, C
<1>3. CASE ~ (d # 0 /\ d - 1 \in D)
  <2>1. IsRun(C, d, 1)
    BY DEF IsRun
  <2>2. ~ (1 <= d /\ d - 1 \in C)
    <3>1. d - 1 # d
      OBVIOUS
    <3>2. QED
      BY <1>3, <3>1
  <2> HIDE DEF C
  <2>3. RunLength(C, d) = 1
    BY <1>1, <2>1, <2>2, RunIsFound
  <2>4. QED
    BY <1>3, <2>3 DEF C
<1>4. QED
  BY <1>2, <1>3

\* The longest run with a new day: the longest so far, or the one that ends at it.
LEMMA NewestBest ==
  ASSUME NEW D, D \subseteq Nat, D # {}, NEW d \in Nat, \A x \in D : x < d
  PROVE  BestRunLength(D \cup {d}) = Larger(RunLength(D \cup {d}, d), BestRunLength(D))
<1> DEFINE C == D \cup {d}
           r == RunLength(C, d)
           old == BestRunLength(D)
           new == BestRunLength(C)
<1>1. C \subseteq Nat /\ d \in C /\ \A x \in C : x <= d
  OBVIOUS
<1>2. \A e \in D : RunLength(C, e) = RunLength(D, e)
  BY EarlierRunsStay
<1>3. PICK x \in D : TRUE
  OBVIOUS
<1>4. \A e \in D : /\ old \in Nat /\ RunLength(D, e) \in Nat \ {0}
                   /\ RunLength(D, e) <= old
                   /\ \E f \in D : IsRun(D, f, old)
  <2>1. \A y \in D : y <= d
    OBVIOUS
  <2>2. QED
    BY <2>1, LongestRun
<1> HIDE DEF C
<1>5. \A e \in C : /\ new \in Nat /\ RunLength(C, e) \in Nat \ {0}
                   /\ RunLength(C, e) <= new
                   /\ \E f \in C : IsRun(C, f, new)
  BY <1>1, LongestRun
<1>6. old \in Nat /\ new \in Nat /\ r \in Nat /\ r <= new
  BY <1>1, <1>3, <1>4, <1>5
<1>7. old <= new
  <2>1. PICK f \in D : IsRun(D, f, old)
    BY <1>3, <1>4
  <2>2. old <= RunLength(D, f) /\ RunLength(D, f) \in Nat
    BY <1>4, <1>6, <2>1, RunsAreShorter
  <2>3. f \in C
    BY DEF C
  <2>4. RunLength(D, f) <= new
    BY <1>2, <1>5, <2>3
  <2>5. QED
    BY <1>6, <2>2, <2>4
<1>8. new <= r \/ new <= old
  <2>1. PICK f \in C : IsRun(C, f, new)
    BY <1>1, <1>5
  <2>2. new <= RunLength(C, f)
    BY <1>1, <1>6, <2>1, RunsAreShorter
  <2>3. CASE f = d
    BY <2>2, <2>3
  <2>4. CASE f # d
    <3>1. f \in D
      BY <2>4 DEF C
    <3>2. RunLength(C, f) \in Nat /\ RunLength(C, f) <= old
      BY <1>2, <1>4, <3>1
    <3>3. QED
      BY <1>6, <2>2, <3>2
  <2>5. QED
    BY <2>3, <2>4
<1> HIDE DEF r, old, new
<1>9. new = Larger(r, old)
  BY <1>6, <1>7, <1>8 DEF Larger
<1>10. QED
  BY <1>9 DEF r, old, new, C

\* The rebuild with one more, latest session is the incremental rule applied to the
\* rebuild without it.
LEMMA RebuildWithLatest ==
  ASSUME NEW E, E \subseteq Nat, NEW t \in Nat, \A e \in E : e <= t,
         NEW st \in StreakState, SameStreak(st, StreakFromSessions(E))
  PROVE  SameStreak(IF SameDay(st, t) THEN st ELSE StreakUpdate(st, t),
                    StreakFromSessions(E \cup {t}))
<1> DEFINE F == E \cup {t}
           D == {Day(e) : e \in E}
           C == {Day(e) : e \in F}
           d == Day(t)
<1>1. /\ F \subseteq Nat /\ F # {} /\ t \in F /\ \A e \in F : e <= t
      /\ C = D \cup {d} /\ d \in Nat
  BY DayIsNatural
<1>2. Max(F) = t
  <2> HIDE DEF F
  <2>1. Max(F) \in F /\ \A e \in F : e <= Max(F)
    BY <1>1, MaxOfBounded
  <2>2. Max(F) \in Nat /\ Max(F) <= t /\ t <= Max(F)
    BY <1>1, <2>1
  <2>3. QED
    BY <2>2
<1>3. C \subseteq Nat /\ Max(C) = d
  <2> HIDE DEF F
  <2>1. QED
    BY <1>1, <1>2, LatestDay
<1>4. StreakFromSessions(F) = [current |-> RunLength(C, d), best |-> BestRunLength(C), last |-> t]
  BY <1>1, <1>2, <1>3 DEF StreakFromSessions
<1>5. t # None /\ st.current \in Nat /\ st.best \in Nat /\ st.last \in Maybe(Nat)
  BY NoneIsNoTime DEF StreakState, Time
<1>6. CASE E = {}
  <2>1. st.current = 0 /\ st.best = 0 /\ st.last = None
    BY <1>6 DEF StreakFromSessions, NoStreak, SameStreak
  <2>2. StreakUpdate(st, t) = [current |-> 1, best |-> 1, last |-> t] /\ ~ SameDay(st, t)
    BY <2>1 DEF StreakUpdate, SameDay, Larger
  <2>3. C = {d} /\ C = {} \cup {d}
    BY <1>1, <1>6
  <2>4. RunLength(C, d) = 1
    <3>1. RunLength({} \cup {d}, d) = 1
      BY <1>1, NewestRun
    <3>2. QED
      BY <2>3, <3>1
  <2>5. BestRunLength(C) = 1
    <3>1. d \in C /\ \A x \in C : x <= d
      BY <1>1, <2>3
    <3> HIDE DEF C, d
    <3>2. /\ BestRunLength(C) \in Nat /\ RunLength(C, d) <= BestRunLength(C)
          /\ \E e \in C : IsRun(C, e, BestRunLength(C))
      BY <1>1, <1>3, <3>1, LongestRun
    <3>3. BestRunLength(C) <= RunLength(C, d)
      <4>1. IsRun(C, d, BestRunLength(C))
        BY <2>3, <3>2
      <4>2. QED
        BY <1>3, <3>1, <3>2, <4>1, RunsAreShorter
    <3>4. QED
      BY <2>4, <3>2, <3>3
  <2>6. QED
    BY <1>4, <1>5, <2>2, <2>4, <2>5 DEF SameStreak
<1>7. CASE E # {}
  <2> DEFINE m == Max(D)
  <2>1. /\ Max(E) \in E /\ m \in D /\ m = Day(Max(E))
        /\ D \subseteq Nat /\ m \in Nat
    <3>1. D = {Day(e) : e \in E}
      OBVIOUS
    <3> HIDE DEF D
    <3>2. QED
      BY <1>7, <3>1, LatestDay
  <2>2. \A x \in D : x <= m
    <3>1. \A x \in D : x <= d
      <4>1. ASSUME NEW e \in E
            PROVE  Day(e) <= d
        BY DayIsMonotone
      <4>2. QED
        BY <4>1
    <3> HIDE DEF D, d
    <3>2. QED
      BY <1>1, <2>1, <3>1, MaxOfBounded
  <2>3. m <= d
    <3>1. Max(E) \in Nat /\ Max(E) <= t
      BY <2>1
    <3>2. QED
      BY <2>1, <3>1, DayIsMonotone
  <2>4. StreakFromSessions(E) = [current |-> RunLength(D, m), best |-> BestRunLength(D),
                                 last |-> Max(E)]
    BY <1>7 DEF StreakFromSessions
  <2>5. Max(E) # None
    BY <2>1, NoneIsNoTime
  <2> HIDE DEF m
  <2>6. /\ st.current = RunLength(D, m) /\ st.best = BestRunLength(D)
        /\ st.last # None /\ Day(st.last) = m
    BY <2>1, <2>4, <2>5 DEF SameStreak
  <2>7. /\ BestRunLength(D) \in Nat /\ RunLength(D, m) \in Nat \ {0}
        /\ RunLength(D, m) <= BestRunLength(D)
    <3> HIDE DEF D
    <3>1. QED
      BY <2>1, <2>2, LongestRun
  <2> HIDE DEF C, D, d
  <2>8. CASE d = m
    <3>1. SameDay(st, t)
      BY <2>1, <2>6, <2>8 DEF SameDay, d
    <3>2. C = D
      BY <1>1, <2>1, <2>8
    <3>3. QED
      BY <1>4, <1>5, <2>6, <2>8, <3>1, <3>2 DEF SameStreak, d
  <2>9. CASE d # m
    <3>1. m < d /\ \A x \in D : x < d
      BY <1>1, <2>1, <2>2, <2>3, <2>9
    <3>2. ~ SameDay(st, t)
      BY <1>1, <2>1, <2>6, <3>1 DEF SameDay, d
    <3>3. BestRunLength(C) = Larger(RunLength(C, d), BestRunLength(D))
      BY <1>1, <2>1, <3>1, NewestBest
    <3>4. RunLength(C, d) = IF d # 0 /\ d - 1 \in D THEN RunLength(D, d - 1) + 1 ELSE 1
      BY <1>1, <2>1, <3>1, NewestRun
    <3>5. CASE d = m + 1
      <4>1. RunLength(C, d) = RunLength(D, m) + 1
        <5>1. d # 0 /\ d - 1 = m
          BY <2>1, <3>5
        <5>2. QED
          BY <2>1, <3>4, <5>1
      <4>2. StreakUpdate(st, t) = [current |-> RunLength(D, m) + 1,
                                   best |-> Larger(RunLength(D, m) + 1, BestRunLength(D)),
                                   last |-> t]
        BY <2>6, <3>5 DEF StreakUpdate, d
      <4>3. QED
        BY <1>4, <1>5, <3>2, <3>3, <4>1, <4>2 DEF SameStreak
    <3>6. CASE d # m + 1
      <4>1. ~ (d # 0 /\ d - 1 \in D)
        <5>1. SUFFICES ASSUME d # 0, d - 1 \in D
                       PROVE  FALSE
          OBVIOUS
        <5>2. d - 1 <= m
          BY <2>2, <5>1
        <5>3. QED
          BY <1>1, <2>1, <3>1, <3>6, <5>2
      <4>2. RunLength(C, d) = 1
        BY <3>4, <4>1
      <4>3. BestRunLength(C) = BestRunLength(D)
        BY <2>7, <3>3, <4>2 DEF Larger
      <4>4. StreakUpdate(st, t) = [current |-> 1, best |-> BestRunLength(D), last |-> t]
        BY <2>6, <3>6 DEF StreakUpdate, d
      <4>5. QED
        BY <1>4, <1>5, <3>2, <4>2, <4>3, <4>4 DEF SameStreak
    <3>7. QED
      BY <3>5, <3>6
  <2>10. QED
    BY <2>8, <2>9
<1>8. QED
  BY <1>6, <1>7

-----------------------------------------------------------------------------
(* What the stored streak of a student counts *)

\* The sessions of u that a request has closed and is about to count.
PendingOf(u) == {req[p].session : p \in Counting(u)}

\* s counts toward the streak of u, and no request is still to count it.
Counts(s, u) ==
  /\ sessions[s].user = u /\ sessions[s].status = "finished"
  /\ Qualifies(sessions[s])
  /\ s \notin PendingOf(u)

CountedEnds(u) == {sessions[s].ended : s \in {r \in SessionId : Counts(r, u)}}

\* What a request is about to count ended last, and is what it was closed with.
PendingLatest(p) ==
  LET r == req[p]
      s == r.session
  IN  /\ sessions[s].valid = TRUE
      /\ sessions[s].duration = MinutesBetween(sessions[s].started, r.now)
      /\ \A e \in CountedEnds(r.user) : e <= r.now
      /\ r.pc = "streak_write" => /\ r.seen = streak[r.user]
                                  /\ ~ SameDay(r.seen, r.now)
                                  /\ Qualifies(sessions[s])

\* What a correction is about to write is what it will leave in the table.
RebuildCurrent(a) ==
  /\ adm[a].streak = StreakFromSessions(QualifyingEnds(Patched(a), OwnerOf(a)))
  /\ ~ SiblingIn(a, {"audited", "rebuilt"})

CountedExactly(u) == SameStreak(streak[u], StreakFromSessions(CountedEnds(u)))

\* The part of the invariant that is about u. It does not mention what belongs to others.
Exact(u) ==
  /\ CountsAlone(u)
  /\ CountedExactly(u)
  /\ \A p \in Counting(u) : PendingLatest(p)
  /\ \A a \in Admin : adm[a].pc = "rebuilt" /\ OwnerOf(a) = u => RebuildCurrent(a)

-----------------------------------------------------------------------------
(* The steps that concern a student *)

\* A step that leaves alone the rows, the streak and the counting of u.
Quiet(u) ==
  /\ streak'[u] = streak[u]
  /\ \A s \in SessionId : /\ sessions'[s].user = u <=> sessions[s].user = u
                          /\ sessions[s].user = u => sessions'[s] = sessions[s]
  /\ Counting(u)' = Counting(u)
  /\ \A p \in Counting(u) : req'[p] = req[p]

\* A step of one request that was not, and is not now, counting for u.
LEMMA ElsewhereKeepsCounting ==
  ASSUME NEW u, NEW p \in Request, p \notin Counting(u), p \notin Counting(u)',
         \A q \in Request : q # p => req'[q] = req[q]
  PROVE  Counting(u)' = Counting(u) /\ \A q \in Counting(u) : req'[q] = req[q]
BY DEF Counting

LEMMA MoveKeepsCounting ==
  ASSUME Consistent, NEW u, NEW p \in Request, p \notin Counting(u), NEW r,
         req' = [req EXCEPT ![p] = r], r.pc \notin Recording
  PROVE  Counting(u)' = Counting(u) /\ \A q \in Counting(u) : req'[q] = req[q]
<1>1. req'[p] = r /\ \A q \in Request : q # p => req'[q] = req[q]
  BY DEF Consistent, TypeOK
<1>2. p \notin Counting(u)'
  BY <1>1 DEF Counting, Recording
<1>3. QED
  BY <1>1, <1>2, ElsewhereKeepsCounting

\* The tables of u are written by a step for u.
LEMMA OthersKeepRows ==
  ASSUME Consistent, [Next]_vars, NEW u \in User
  PROVE  \/ /\ streak'[u] = streak[u]
            /\ \A s \in SessionId : /\ sessions'[s].user = u <=> sessions[s].user = u
                                    /\ sessions[s].user = u => sessions'[s] = sessions[s]
         \/ \E p \in Request, s \in SessionId : StartInsert(p, s) /\ req[p].user = u
         \/ \E p \in Request : (FinishUpdate(p) \/ RecordWrite(p)) /\ req[p].user = u
         \/ \E a \in Admin : CorrectionCommit(a) /\ OwnerOf(a) = u
<1> DEFINE Kept == /\ streak'[u] = streak[u]
                   /\ \A s \in SessionId : /\ sessions'[s].user = u <=> sessions[s].user = u
                                           /\ sessions[s].user = u => sessions'[s] = sessions[s]
<1>1. ASSUME NEW p \in Request, NEW s \in SessionId, StartInsert(p, s), req[p].user # u
      PROVE  Kept
  <2>1. /\ sessions[s].status = "absent" /\ sessions'[s].user = req[p].user
        /\ \A t \in SessionId : t # s => sessions'[t] = sessions[t]
    BY <1>1, InsertStep
  <2>2. sessions[s].user = None /\ None # u
    BY <2>1, NoneIsNoId DEF Consistent, RowConsistent, NoRow
  <2>3. streak' = streak
    BY <1>1 DEF StartInsert
  <2>4. QED
    BY <1>1, <2>1, <2>2, <2>3
<1>2. ASSUME NEW p \in Request, FinishUpdate(p), req[p].user # u
      PROVE  Kept
  <2>c. PICK c : c = req[p].session
    OBVIOUS
  <2>1. /\ sessions[c].user = req[p].user /\ sessions'[c].user = sessions[c].user
        /\ \A t \in SessionId : t # c => sessions'[t] = sessions[t]
    BY <1>2, <2>c, CloseStep
  <2>2. streak' = streak
    BY <1>2 DEF FinishUpdate
  <2>3. QED
    BY <1>2, <2>1, <2>2
<1>3. ASSUME NEW p \in Request, RecordWrite(p), req[p].user # u
      PROVE  Kept
  BY <1>3 DEF RecordWrite, Consistent, TypeOK
<1>4. ASSUME NEW a \in Admin, CorrectionCommit(a), OwnerOf(a) # u
      PROVE  Kept
  <2>c. PICK c : c = adm[a].session
    OBVIOUS
  <2>1. c \in SessionId /\ sessions' = Patched(a)
    BY <1>4, <2>c, CommitStep
  <2>2. \A s \in SessionId : sessions'[s].user = sessions[s].user /\ (s # c => sessions'[s] = sessions[s])
    BY <2>c, <2>1, PatchedRows
  <2>3. sessions[c].user # u
    BY <1>4, <2>c DEF OwnerOf
  <2>4. streak'[u] = streak[u]
    BY <1>4 DEF CorrectionCommit, Consistent, TypeOK
  <2>5. QED
    BY <2>2, <2>3, <2>4
<1>5. CASE UNCHANGED <<sessions, streak>>
  BY <1>5
<1>6. UNCHANGED <<sessions, streak>>
        \/ (\E p \in Request, s \in SessionId : StartInsert(p, s))
        \/ (\E p \in Request : FinishUpdate(p) \/ RecordWrite(p))
        \/ (\E a \in Admin : CorrectionCommit(a))
  BY TableWriters, StreakWriters
<1>7. QED
  BY <1>1, <1>2, <1>3, <1>4, <1>5, <1>6

\* Whose counting a step may begin, carry on or end.
LEMMA OthersKeepCounting ==
  ASSUME Consistent, NEW u \in User,
         Work \/ (\E p \in Request \ Counting(u) : RequestAborts(p))
              \/ (\E a \in Admin : CorrectionAborts(a)) \/ UNCHANGED vars
  PROVE  \/ Counting(u)' = Counting(u) /\ \A p \in Counting(u) : req'[p] = req[p]
         \/ \E p \in Request : /\ FinishUpdate(p) \/ RecordRead(p) \/ RecordWrite(p)
                               /\ req[p].user = u
<1> DEFINE Kept == Counting(u)' = Counting(u) /\ \A p \in Counting(u) : req'[p] = req[p]
<1>1. req' = req => Kept
  BY DEF Counting
<1>2. IdleRequest.pc \notin Recording /\ req \in [Request -> RequestState]
  BY DEF IdleRequest, Recording, Consistent, TypeOK
<1>3. ASSUME NEW p \in Request, p \notin Counting(u), req' = Leave(p)
      PROVE  Kept
  <2>1. req' = [req EXCEPT ![p] = IdleRequest]
    BY <1>3 DEF Leave
  <2>2. QED
    BY <1>2, <1>3, <2>1, MoveKeepsCounting
<1>4. ASSUME NEW p \in Request, NEW v \in User, StartCheck(p, v)
      PROVE  Kept
  <2>1. PICK r : r = [IdleRequest EXCEPT !.pc = "start_stamp", !.user = v]
    OBVIOUS
  <2>2. r.pc \notin Recording /\ p \notin Counting(u)
    BY <1>4, <2>1 DEF IdleRequest, Recording, StartCheck, Counting
  <2>3. QED
    BY <1>4, <2>1, <2>2, MoveKeepsCounting DEF StartCheck
<1>5. ASSUME NEW p \in Request, NEW v \in User, NEW s \in SessionId, FinishRead(p, v, s)
      PROVE  Kept
  <2>1. PICK r : r = [IdleRequest EXCEPT !.pc = "finish_stamp", !.user = v, !.session = s]
    OBVIOUS
  <2>2. r.pc \notin Recording /\ p \notin Counting(u)
    BY <1>5, <2>1 DEF IdleRequest, Recording, FinishRead, Counting
  <2>3. QED
    BY <1>5, <2>1, <2>2, MoveKeepsCounting DEF FinishRead
<1>6. ASSUME NEW p \in Request, Stamp(p)
      PROVE  Kept
  <2>1. /\ req'[p].pc \notin Recording /\ req[p].pc \notin Recording
        /\ \A q \in Request : q # p => req'[q] = req[q]
    BY <1>2, <1>6 DEF Stamp, Recording, RequestState
  <2>2. p \notin Counting(u) /\ p \notin Counting(u)'
    BY <2>1 DEF Counting, Recording
  <2>3. QED
    BY <2>1, <2>2, ElsewhereKeepsCounting
<1>7. ASSUME NEW p \in Request, req[p].user # u, FinishUpdate(p) \/ RecordRead(p) \/ RecordWrite(p)
      PROVE  Kept
  <2>1. p \notin Counting(u)
    BY <1>7 DEF Counting
  <2>2. CASE req' = Leave(p)
    BY <1>3, <2>1, <2>2
  <2>3. CASE req' # Leave(p)
    <3>1. /\ req'[p].user = req[p].user
          /\ \A q \in Request : q # p => req'[q] = req[q]
      BY <1>2, <1>7, <2>3 DEF FinishUpdate, RecordRead, RecordWrite, Goto, RequestState
    <3>2. p \notin Counting(u)'
      BY <1>7, <3>1 DEF Counting
    <3>3. QED
      BY <2>1, <3>1, <3>2, ElsewhereKeepsCounting
  <2>4. QED
    BY <2>2, <2>3
<1>8. ASSUME NEW p \in Request, RequestStep(p)
      PROVE  Kept \/ ((FinishUpdate(p) \/ RecordRead(p) \/ RecordWrite(p)) /\ req[p].user = u)
  <2>1. ASSUME (\E s \in SessionId : StartInsert(p, s)) \/ StartRefused(p) \/ FinishLost(p)
        PROVE  Kept
    <3>1. req' = Leave(p) /\ p \notin Counting(u)
      BY <2>1 DEF StartInsert, StartRefused, FinishLost, Counting
    <3>2. QED
      BY <1>3, <3>1
  <2>2. QED
    BY <1>6, <1>7, <1>8, <2>1 DEF RequestStep
<1>9. ASSUME NEW p \in Request \ Counting(u), RequestAborts(p)
      PROVE  Kept
  BY <1>3, <1>9 DEF RequestAborts
<1>10. ASSUME NEW a \in Admin, CorrectionStep(a)
       PROVE  req' = req
  BY <1>10 DEF CorrectionStep, CorrectionAudit, CorrectionRebuild, CorrectionCommit, CorrectionDeadlocks
<1>11. ASSUME NEW a \in Admin, NEW s \in SessionId, NEW after \in PatchesOf(s), CorrectionBegin(a, s, after)
       PROVE  req' = req
  BY <1>11 DEF CorrectionBegin
<1>12. Tick \/ (\E a \in Admin : CorrectionAborts(a)) => req' = req
  BY DEF Tick, CorrectionAborts
<1>13. CASE UNCHANGED vars
  BY <1>1, <1>13 DEF vars
<1>14. QED
  BY <1>1, <1>4, <1>5, <1>8, <1>9, <1>10, <1>11, <1>12, <1>13 DEF Work, Arrival

\* Either a step is quiet for u, or it is one of these, and for u.
LEMMA StepsFor ==
  ASSUME Consistent, NEW u \in User, [UndisturbedStep(u)]_vars
  PROVE  \/ Quiet(u)
         \/ \E p \in Request, s \in SessionId : StartInsert(p, s) /\ req[p].user = u
         \/ \E p \in Request : /\ FinishUpdate(p) \/ RecordRead(p) \/ RecordWrite(p)
                               /\ req[p].user = u
         \/ \E a \in Admin : CorrectionCommit(a) /\ OwnerOf(a) = u
<1>1. [Next]_vars
  BY DEF UndisturbedStep, Next, Failure
<1>2. Work \/ (\E p \in Request \ Counting(u) : RequestAborts(p))
           \/ (\E a \in Admin : CorrectionAborts(a)) \/ UNCHANGED vars
  BY DEF UndisturbedStep
<1>3. QED
  BY <1>1, <1>2, OthersKeepRows, OthersKeepCounting DEF Quiet

-----------------------------------------------------------------------------
(* When what is counted changes *)

LEMMA CountsFacts ==
  ASSUME Consistent, NEW u, NEW s \in SessionId, Counts(s, u)
  PROVE  sessions[s].ended \in Nat /\ sessions[s].ended <= clock /\ sessions[s].ended \in CountedEnds(u)
BY DEF Consistent, RowConsistent, Counts, CountedEnds

LEMMA CountedEndsArePast ==
  ASSUME Consistent, NEW u
  PROVE  CountedEnds(u) \subseteq Nat /\ \A e \in CountedEnds(u) : e <= clock
<1>1. ASSUME NEW e \in CountedEnds(u)
      PROVE  e \in Nat /\ e <= clock
  <2>1. PICK s \in SessionId : Counts(s, u) /\ e = sessions[s].ended
    BY DEF CountedEnds
  <2>2. QED
    BY <2>1, CountsFacts
<1>2. QED
  BY <1>1

LEMMA SameCounted ==
  ASSUME NEW u,
         \A s \in SessionId : Counts(s, u)' <=> Counts(s, u),
         \A s \in SessionId : Counts(s, u) => sessions'[s].ended = sessions[s].ended
  PROVE  CountedEnds(u)' = CountedEnds(u)
BY DEF CountedEnds

\* A session that is no longer pending counts from now on, if it qualifies.
LEMMA OneMoreCounted ==
  ASSUME NEW u, NEW c \in SessionId, sessions' = sessions,
         \A s \in SessionId \ {c} : Counts(s, u)' <=> Counts(s, u),
         ~ Counts(c, u)
  PROVE  CountedEnds(u)' = IF Counts(c, u)' THEN CountedEnds(u) \cup {sessions[c].ended}
                                            ELSE CountedEnds(u)
<1>1. CASE Counts(c, u)'
  BY <1>1 DEF CountedEnds
<1>2. CASE ~ Counts(c, u)'
  BY <1>2 DEF CountedEnds
<1>3. QED
  BY <1>1, <1>2

\* The requests that count for u are the same, with the same sessions.
LEMMA SamePending ==
  ASSUME NEW u, Counting(u)' = Counting(u),
         \A p \in Counting(u) : req'[p].session = req[p].session
  PROVE  PendingOf(u)' = PendingOf(u)
BY DEF PendingOf

LEMMA SameRowsCounted ==
  ASSUME NEW u, PendingOf(u)' = PendingOf(u),
         \A s \in SessionId : /\ sessions'[s].user = u <=> sessions[s].user = u
                              /\ sessions[s].user = u => sessions'[s] = sessions[s]
  PROVE  CountedEnds(u)' = CountedEnds(u)
<1>1. \A s \in SessionId : Counts(s, u)' <=> Counts(s, u)
  BY DEF Counts, Qualifies
<1>2. \A s \in SessionId : Counts(s, u) => sessions'[s].ended = sessions[s].ended
  BY DEF Counts
<1>3. QED
  BY <1>1, <1>2, SameCounted

LEMMA QuietCounted ==
  ASSUME NEW u, Quiet(u)
  PROVE  CountedEnds(u)' = CountedEnds(u)
<1>1. PendingOf(u)' = PendingOf(u)
  BY SamePending DEF Quiet
<1>2. QED
  BY <1>1, SameRowsCounted DEF Quiet

-----------------------------------------------------------------------------
(* Every step keeps the stored streak exact *)

\* The request that counts for u, and the session it counts.
LEMMA OneRecorderOf ==
  ASSUME Consistent, NEW u \in User, Exact(u), NEW p \in Request,
         req[p].pc \in Recording, req[p].user = u, NEW c, c = req[p].session
  PROVE  /\ Counting(u) = {p} /\ PendingOf(u) = {c} /\ c \in SessionId
         /\ sessions[c].user = u /\ sessions[c].status = "finished"
         /\ sessions[c].ended = req[p].now /\ req[p].now \in Nat
<1>1. p \in Counting(u) /\ Counting(u) = {p}
  BY DEF Counting, Recording, Exact, CountsAlone
<1>2. PendingOf(u) = {c}
  BY <1>1 DEF PendingOf
<1>3. RequestConsistent(p)
  BY DEF Consistent
<1>4. /\ c \in SessionId /\ req[p].now \in Nat
      /\ sessions[c].user = u /\ sessions[c].status = "finished" /\ sessions[c].ended = req[p].now
  BY <1>3 DEF RequestConsistent, Recording
<1>5. QED
  BY <1>1, <1>2, <1>4

\* What it knows.
LEMMA RecorderFacts ==
  ASSUME Consistent, NEW u \in User, Exact(u), NEW p \in Request,
         req[p].pc \in Recording, req[p].user = u, NEW c, c = req[p].session
  PROVE  /\ PendingLatest(p)
         /\ sessions[c].valid = TRUE
         /\ sessions[c].duration = MinutesBetween(sessions[c].started, req[p].now)
         /\ \A e \in CountedEnds(u) : e <= req[p].now
         /\ CountedEnds(u) \subseteq Nat
         /\ SameStreak(streak[u], StreakFromSessions(CountedEnds(u)))
         /\ streak[u] \in StreakState
         /\ streak \in [User -> StreakState]
<1>1. PendingLatest(p)
  BY DEF Exact, Counting, Recording
<1>2. SameStreak(streak[u], StreakFromSessions(CountedEnds(u))) /\ streak \in [User -> StreakState]
  BY DEF Exact, CountedExactly, Consistent, TypeOK
<1>3. CountedEnds(u) \subseteq Nat
  BY CountedEndsArePast
<1>4. QED
  BY <1>1, <1>2, <1>3 DEF PendingLatest

\* The session a request was counting leaves what is pending, and nothing else does.
LEMMA DoneCounting ==
  ASSUME Consistent, NEW u \in User, Exact(u), NEW p \in Request,
         req[p].pc \in Recording, req[p].user = u, req' = Leave(p),
         sessions' = sessions, NEW c, c = req[p].session
  PROVE  /\ Counting(u)' = {}
         /\ CountedEnds(u)' = IF Qualifies(sessions[c])
                                THEN CountedEnds(u) \cup {req[p].now}
                                ELSE CountedEnds(u)
<1>1. req \in [Request -> RequestState]
  BY DEF Consistent, TypeOK
<1>2. /\ req'[p] = IdleRequest /\ \A q \in Request : q # p => req'[q] = req[q]
      /\ IdleRequest.pc \notin Recording
  BY <1>1 DEF Leave, IdleRequest, Recording
<1>3. /\ Counting(u) = {p} /\ PendingOf(u) = {c} /\ c \in SessionId
      /\ sessions[c].user = u /\ sessions[c].status = "finished" /\ sessions[c].ended = req[p].now
  BY OneRecorderOf
<1>4. Counting(u)' = {}
  BY <1>2, <1>3 DEF Counting, Recording
<1>5. PendingOf(u)' = {}
  BY <1>4 DEF PendingOf
<1>6. /\ \A s \in SessionId \ {c} : Counts(s, u)' <=> Counts(s, u)
      /\ ~ Counts(c, u)
      /\ Counts(c, u)' <=> Qualifies(sessions[c])
  BY <1>3, <1>5 DEF Counts, Qualifies
<1>7. QED
  BY <1>3, <1>4, <1>6, OneMoreCounted

\* A request that goes on to write has read the streak as it is.
LEMMA GoesOnToWrite ==
  ASSUME Consistent, NEW u \in User, Exact(u), NEW p \in Request, RecordRead(p),
         req[p].user = u, req' # Leave(p)
  PROVE  /\ Counting(u)' = Counting(u)
         /\ CountedEnds(u)' = CountedEnds(u)
         /\ PendingLatest(p)'
<1>c. PICK c : c = req[p].session
  OBVIOUS
<1>1. /\ req \in [Request -> RequestState] /\ req[p].pc = "record" /\ req[p].pc \in Recording
      /\ UNCHANGED <<sessions, streak>>
  BY DEF RecordRead, Consistent, TypeOK, Recording
<1>2. /\ MinutesBetween(sessions[c].started, req[p].now) >= MinStreakSessionMinutes
      /\ ~ SameDay(streak[u], req[p].now)
      /\ req' = [req EXCEPT ![p].pc = "streak_write", ![p].seen = streak[u]]
  BY <1>c DEF RecordRead
<1>3. /\ req'[p].pc = "streak_write" /\ req'[p].session = c
      /\ req'[p].now = req[p].now /\ req'[p].user = u
      /\ req'[p].seen = streak[u]
      /\ \A q \in Request : q # p => req'[q] = req[q]
  BY <1>c, <1>1, <1>2 DEF RequestState
<1>4. Counting(u)' = Counting(u)
  BY <1>1, <1>3 DEF Counting
<1>5. PendingOf(u)' = PendingOf(u)
  <2>1. \A q \in Request : req'[q].session = req[q].session
    BY <1>c, <1>3
  <2>2. QED
    BY <1>4, <2>1, SamePending DEF Counting
<1>6. CountedEnds(u)' = CountedEnds(u)
  BY <1>1, <1>5, SameRowsCounted
<1>7. /\ sessions[c].valid = TRUE
      /\ sessions[c].duration = MinutesBetween(sessions[c].started, req[p].now)
      /\ \A e \in CountedEnds(u) : e <= req[p].now
  BY <1>c, <1>1, RecorderFacts
<1>8. Qualifies(sessions[c])
  BY <1>2, <1>7 DEF Qualifies
<1>9. PendingLatest(p)'
  BY <1>1, <1>2, <1>3, <1>6, <1>7, <1>8 DEF PendingLatest, Qualifies
<1>10. QED
  BY <1>4, <1>6, <1>9

LEMMA RecordReadExactly ==
  ASSUME Consistent, NEW u \in User, Exact(u), NEW p \in Request, RecordRead(p), req[p].user = u
  PROVE  CountedExactly(u)'
<1>c. PICK c : c = req[p].session
  OBVIOUS
<1> DEFINE minutes == MinutesBetween(sessions[c].started, req[p].now)
<1>1. req[p].pc \in Recording /\ UNCHANGED <<sessions, streak>>
  BY DEF RecordRead, Recording
<1>n. req[p].now \in Nat
  BY <1>1, OneRecorderOf
<1>2. /\ req[p].now \in Nat /\ sessions[c].duration = minutes
      /\ \A e \in CountedEnds(u) : e <= req[p].now
      /\ CountedEnds(u) \subseteq Nat
      /\ SameStreak(streak[u], StreakFromSessions(CountedEnds(u)))
      /\ streak[u] \in StreakState
  BY <1>c, <1>1, <1>n, RecorderFacts
<1>3. CASE req' # Leave(p)
  BY <1>1, <1>2, <1>3, GoesOnToWrite DEF CountedExactly
<1>4. CASE req' = Leave(p)
  <2>1. CountedEnds(u)' = IF Qualifies(sessions[c])
                            THEN CountedEnds(u) \cup {req[p].now} ELSE CountedEnds(u)
    BY <1>c, <1>1, <1>4, DoneCounting
  <2>2. CASE Qualifies(sessions[c])
    <3>1. minutes >= MinStreakSessionMinutes
      BY <1>2, <2>2 DEF Qualifies
    <3>2. req \in [Request -> RequestState]
      BY DEF Consistent, TypeOK
    <3>3. SameDay(streak[u], req[p].now)
      <4>1. SUFFICES ASSUME ~ SameDay(streak[u], req[p].now) PROVE FALSE
        OBVIOUS
      <4>2. req' = [req EXCEPT ![p].pc = "streak_write", ![p].seen = streak[u]]
        BY <1>c, <3>1, <4>1 DEF RecordRead
      <4>3. req'[p].pc = "streak_write"
        BY <3>2, <4>2 DEF RequestState
      <4>4. QED
        BY <1>4, <3>2, <4>3 DEF Leave, IdleRequest
    <3>4. SameStreak(IF SameDay(streak[u], req[p].now) THEN streak[u]
                                                       ELSE StreakUpdate(streak[u], req[p].now),
                     StreakFromSessions(CountedEnds(u) \cup {req[p].now}))
      BY <1>2, RebuildWithLatest
    <3>5. QED
      BY <1>1, <2>1, <2>2, <3>3, <3>4 DEF CountedExactly
  <2>3. CASE ~ Qualifies(sessions[c])
    BY <1>1, <1>2, <2>1, <2>3 DEF CountedExactly
  <2>4. QED
    BY <2>2, <2>3
<1>5. QED
  BY <1>3, <1>4

LEMMA RecordWriteExactly ==
  ASSUME Consistent, NEW u \in User, Exact(u), NEW p \in Request, RecordWrite(p), req[p].user = u
  PROVE  CountedExactly(u)' /\ Counting(u)' = {}
<1>c. PICK c : c = req[p].session
  OBVIOUS
<1> DEFINE now == req[p].now
<1>1. /\ req[p].pc = "streak_write" /\ req[p].pc \in Recording /\ req' = Leave(p)
      /\ sessions' = sessions
      /\ streak' = [streak EXCEPT ![u] = StreakUpdate(req[p].seen, now)]
  BY DEF RecordWrite, Recording
<1>2. /\ now \in Nat /\ \A e \in CountedEnds(u) : e <= now
      /\ CountedEnds(u) \subseteq Nat
      /\ SameStreak(streak[u], StreakFromSessions(CountedEnds(u)))
      /\ streak[u] \in StreakState /\ streak \in [User -> StreakState]
      /\ PendingLatest(p)
  BY <1>c, <1>1, OneRecorderOf, RecorderFacts
<1>3. req[p].seen = streak[u] /\ ~ SameDay(streak[u], now) /\ Qualifies(sessions[c])
  BY <1>c, <1>1, <1>2 DEF PendingLatest
<1>4. CountedEnds(u)' = CountedEnds(u) \cup {now} /\ Counting(u)' = {}
  BY <1>c, <1>1, <1>3, DoneCounting
<1>5. SameStreak(IF SameDay(streak[u], now) THEN streak[u] ELSE StreakUpdate(streak[u], now),
                 StreakFromSessions(CountedEnds(u) \cup {now}))
  BY <1>2, RebuildWithLatest
<1>6. streak'[u] = StreakUpdate(streak[u], now)
  BY <1>1, <1>2, <1>3
<1>7. QED
  BY <1>3, <1>4, <1>5, <1>6 DEF CountedExactly

\* A session that opens does not count, and one that is closed is pending first.
LEMMA InsertCounted ==
  ASSUME Consistent, NEW u, NEW p \in Request, NEW s \in SessionId, StartInsert(p, s)
  PROVE  /\ CountedEnds(u)' = CountedEnds(u)
         /\ Counting(u)' = Counting(u) /\ \A q \in Counting(u) : req'[q] = req[q]
<1>1. p \notin Counting(u) /\ req' = [req EXCEPT ![p] = IdleRequest] /\ IdleRequest.pc \notin Recording
  BY DEF StartInsert, Leave, Counting, IdleRequest, Recording
<1>2. Counting(u)' = Counting(u) /\ \A q \in Counting(u) : req'[q] = req[q]
  BY <1>1, MoveKeepsCounting
<1>3. PendingOf(u)' = PendingOf(u)
  BY <1>2, SamePending
<1>4. /\ sessions[s].status = "absent" /\ sessions'[s].status = "active"
      /\ \A t \in SessionId : t # s => sessions'[t] = sessions[t]
  BY InsertStep
<1>5. \A t \in SessionId : Counts(t, u)' <=> Counts(t, u)
  BY <1>3, <1>4 DEF Counts, Qualifies
<1>6. \A t \in SessionId : Counts(t, u) => sessions'[t].ended = sessions[t].ended
  BY <1>4 DEF Counts
<1>7. QED
  BY <1>2, <1>5, <1>6, SameCounted

LEMMA CloseCounted ==
  ASSUME Consistent, NEW u \in User, NEW p \in Request, FinishUpdate(p), req[p].user = u
  PROVE  /\ CountedEnds(u)' = CountedEnds(u)
         /\ p \in Counting(u)'
<1>c. PICK c : c = req[p].session
  OBVIOUS
<1>1. /\ c \in SessionId /\ sessions[c].status = "active"
      /\ \A t \in SessionId : t # c => sessions'[t] = sessions[t]
  BY <1>c, CloseStep
<1>2. req[p].pc = "update" /\ req' = [req EXCEPT ![p].pc = "record"]
  BY DEF FinishUpdate, Goto
<1>3. /\ req'[p].pc = "record" /\ req'[p].session = c /\ req'[p].user = u
      /\ \A q \in Request : q # p => req'[q] = req[q]
  BY <1>c, <1>2 DEF Consistent, TypeOK, RequestState
<1>4. p \in Counting(u)' /\ p \notin Counting(u)
      /\ \A q \in Request : q # p => (q \in Counting(u)' <=> q \in Counting(u))
  BY <1>2, <1>3 DEF Counting
<1>5. \A t \in SessionId : t \in PendingOf(u)' <=> t \in PendingOf(u) \/ t = c
  BY <1>3, <1>4 DEF PendingOf, Counting
<1>6. \A t \in SessionId : Counts(t, u)' <=> Counts(t, u)
  BY <1>1, <1>5 DEF Counts, Qualifies
<1>7. \A t \in SessionId : Counts(t, u) => sessions'[t].ended = sessions[t].ended
  BY <1>1 DEF Counts
<1>8. QED
  BY <1>4, <1>6, <1>7, SameCounted

\* A correction commits when nothing is being counted for its owner.
LEMMA CommitExactly ==
  ASSUME Consistent, ReadUnderLock, NEW u \in User, Exact(u),
         NEW a \in Admin, CorrectionCommit(a), OwnerOf(a) = u
  PROVE  CountedExactly(u)' /\ Counting(u)' = {}
<1>c. PICK c : c = adm[a].session
  OBVIOUS
<1>1. adm[a].pc \in {"audited", "rebuilt"} /\ req' = req
  BY DEF CorrectionCommit
<1>2. Counting(u) = {} /\ Counting(u)' = {}
  <2>1. Counting(u) = {}
    BY <1>1 DEF Exact, CountsAlone
  <2>2. QED
    BY <1>1, <2>1 DEF Counting
<1>3. PendingOf(u) = {} /\ PendingOf(u)' = {}
  BY <1>2 DEF PendingOf
<1>4. c \in SessionId /\ sessions' = Patched(a)
  BY <1>c, CommitStep
<1>5. /\ \A s \in SessionId : /\ sessions'[s].status = sessions[s].status
                              /\ sessions'[s].user = sessions[s].user
                              /\ sessions'[s].ended = sessions[s].ended
                              /\ s # c => sessions'[s] = sessions[s]
      /\ sessions'[c].duration = adm[a].after.duration
      /\ sessions'[c].valid = adm[a].after.valid
  BY <1>c, <1>4, PatchedRows
<1>6. SameStreak(streak[u], StreakFromSessions(CountedEnds(u))) /\ streak \in [User -> StreakState]
  BY DEF Exact, CountedExactly, Consistent, TypeOK
<1>7. CASE adm[a].pc = "rebuilt"
  <2>1. streak'[u] = adm[a].streak
    BY <1>6, <1>7 DEF CorrectionCommit
  <2>2. adm[a].streak = StreakFromSessions(QualifyingEnds(sessions', u))
    BY <1>4, <1>7 DEF Exact, RebuildCurrent
  <2>3. QualifyingEnds(sessions', u) = CountedEnds(u)'
    BY <1>3 DEF QualifyingEnds, CountedEnds, Counts, Qualifies
  <2>4. QED
    BY <1>2, <2>1, <2>2, <2>3 DEF SameStreak, CountedExactly
<1>8. CASE adm[a].pc # "rebuilt"
  <2>1. ~ Flips(a) /\ streak' = streak
    BY <1>8 DEF CorrectionCommit
  <2>2. Qualifies(adm[a].before) <=> Qualifies(sessions[c])
    <3>1. adm[a].before = OutcomeOf(c)
      BY <1>c, <1>1 DEF ReadUnderLock
    <3>2. adm[a].before.duration = sessions[c].duration /\ adm[a].before.valid = sessions[c].valid
      BY <3>1 DEF OutcomeOf
    <3>3. QED
      BY <3>2 DEF Qualifies
  <2>3. Qualifies(adm[a].after) <=> Qualifies(sessions'[c])
    BY <1>5 DEF Qualifies
  <2>4. Qualifies(sessions'[c]) <=> Qualifies(sessions[c])
    BY <2>1, <2>2, <2>3 DEF Flips, Qualifies
  <2>5. \A s \in SessionId : Counts(s, u)' <=> Counts(s, u)
    BY <1>3, <1>5, <2>4 DEF Counts, Qualifies
  <2>6. CountedEnds(u)' = CountedEnds(u)
    BY <1>5, <2>5, SameCounted
  <2>7. QED
    BY <1>2, <1>6, <2>1, <2>6 DEF CountedExactly
<1>9. QED
  BY <1>7, <1>8

LEMMA StepCountedExactly ==
  ASSUME Consistent, ReadUnderLock, NEW u \in User, Exact(u), [UndisturbedStep(u)]_vars
  PROVE  CountedExactly(u)'
<1>1. CASE Quiet(u)
  <2>1. CountedEnds(u)' = CountedEnds(u) /\ streak'[u] = streak[u]
    BY <1>1, QuietCounted DEF Quiet
  <2>2. QED
    BY <2>1 DEF CountedExactly, Exact
<1>2. ASSUME NEW p \in Request, NEW s \in SessionId, StartInsert(p, s)
      PROVE  CountedExactly(u)'
  <2>1. CountedEnds(u)' = CountedEnds(u)
    BY <1>2, InsertCounted
  <2>2. streak' = streak
    BY <1>2 DEF StartInsert
  <2>3. QED
    BY <2>1, <2>2 DEF CountedExactly, Exact
<1>3. ASSUME NEW p \in Request, FinishUpdate(p), req[p].user = u
      PROVE  CountedExactly(u)'
  <2>1. CountedEnds(u)' = CountedEnds(u)
    BY <1>3, CloseCounted
  <2>2. streak' = streak
    BY <1>3 DEF FinishUpdate
  <2>3. QED
    BY <2>1, <2>2 DEF CountedExactly, Exact
<1>4. QED
  BY <1>1, <1>2, <1>3, StepsFor, RecordReadExactly, RecordWriteExactly, CommitExactly

-----------------------------------------------------------------------------
(* What is about to be written stays exact *)

LEMMA PendingKept ==
  ASSUME NEW u, NEW p \in Counting(u), PendingLatest(p), req'[p] = req[p],
         sessions'[req[p].session] = sessions[req[p].session],
         streak'[u] = streak[u], CountedEnds(u)' = CountedEnds(u)
  PROVE  PendingLatest(p)'
<1>1. req[p].user = u
  BY DEF Counting
<1>2. QED
  BY <1>1 DEF PendingLatest, Qualifies

LEMMA ClosedLatest ==
  ASSUME Consistent, Disjoint, NEW u \in User, NEW p \in Request, FinishUpdate(p), req[p].user = u
  PROVE  PendingLatest(p)'
<1>c. PICK c : c = req[p].session
  OBVIOUS
<1>n. PICK now : now = req[p].now
  OBVIOUS
<1>1. /\ c \in SessionId /\ sessions[c].status = "active" /\ sessions[c].user = u
      /\ now \in Nat /\ sessions[c].created \in Nat /\ sessions[c].created <= now
      /\ sessions'[c].duration = MinutesBetween(sessions[c].started, now)
      /\ sessions'[c].started = sessions[c].started /\ sessions'[c].valid = sessions[c].valid
  BY <1>c, <1>n, CloseStep
<1>2. req[p].pc = "update" /\ req' = [req EXCEPT ![p].pc = "record"]
  BY DEF FinishUpdate, Goto
<1>3. /\ req'[p].pc = "record" /\ req'[p].session = c /\ req'[p].now = now /\ req'[p].user = u
  BY <1>c, <1>n, <1>2 DEF Consistent, TypeOK, RequestState
<1>4. sessions[c].valid = TRUE
  BY <1>1 DEF Consistent, RowConsistent
<1>5. ASSUME NEW e \in CountedEnds(u)
      PROVE  e <= now
  <2>1. PICK s \in SessionId : Counts(s, u) /\ e = sessions[s].ended
    BY DEF CountedEnds
  <2>2. s # c /\ sessions[s].user = sessions[c].user /\ sessions[s].user # None
    BY <1>1, <2>1, NoneIsNoId DEF Counts
  <2>3. Precedes(s, c)
    BY <1>1, <2>2 DEF Disjoint, Precedes
  <2>4. e <= sessions[c].created /\ e \in Nat
    BY <2>1, <2>3, CountsFacts DEF Precedes
  <2>5. QED
    BY <1>1, <2>4
<1>6. CountedEnds(u)' = CountedEnds(u)
  BY CloseCounted
<1>7. QED
  BY <1>1, <1>3, <1>4, <1>5, <1>6 DEF PendingLatest

\* A request that counts for u after a step has counted before, or closes a session now.
LEMMA StepPendingLatest ==
  ASSUME Consistent, ReadUnderLock, Disjoint, NEW u \in User, Exact(u),
         [UndisturbedStep(u)]_vars, CountsAlone(u)'
  PROVE  \A p \in Counting(u)' : PendingLatest(p)'
<1>1. ASSUME NEW p \in Counting(u)
      PROVE  /\ PendingLatest(p) /\ p \in Request /\ req[p].session \in SessionId
             /\ sessions[req[p].session].user = u
             /\ sessions[req[p].session].status = "finished"
             /\ req[p].user = u /\ req[p].pc \in Recording
  <2>1. PendingLatest(p) /\ p \in Request /\ req[p].user = u /\ req[p].pc \in Recording
    BY DEF Exact, Counting, Recording
  <2>2. RequestConsistent(p)
    BY <2>1 DEF Consistent
  <2>3. QED
    BY <2>1, <2>2 DEF RequestConsistent, Recording
<1>2. CASE Quiet(u)
  <2>1. CountedEnds(u)' = CountedEnds(u)
    BY <1>2, QuietCounted
  <2>2. TAKE p \in Counting(u)'
  <2>3. p \in Counting(u) /\ req'[p] = req[p] /\ streak'[u] = streak[u]
    BY <1>2 DEF Quiet
  <2>4. sessions'[req[p].session] = sessions[req[p].session]
    BY <1>1, <1>2, <2>3 DEF Quiet
  <2>5. QED
    BY <1>1, <2>1, <2>3, <2>4, PendingKept
<1>3. ASSUME NEW q \in Request, NEW s \in SessionId, StartInsert(q, s)
      PROVE  \A p \in Counting(u)' : PendingLatest(p)'
  <2>1. /\ CountedEnds(u)' = CountedEnds(u)
        /\ Counting(u)' = Counting(u) /\ \A p \in Counting(u) : req'[p] = req[p]
    BY <1>3, InsertCounted
  <2>2. /\ sessions[s].status = "absent"
        /\ \A t \in SessionId : t # s => sessions'[t] = sessions[t]
    BY <1>3, InsertStep
  <2>3. streak' = streak
    BY <1>3 DEF StartInsert
  <2>4. TAKE p \in Counting(u)'
  <2>5. p \in Counting(u) /\ req'[p] = req[p]
    BY <2>1
  <2>6. sessions'[req[p].session] = sessions[req[p].session]
    BY <1>1, <2>2, <2>5
  <2>7. QED
    BY <1>1, <2>1, <2>3, <2>5, <2>6, PendingKept
<1>4. ASSUME NEW q \in Request, FinishUpdate(q), req[q].user = u
      PROVE  \A p \in Counting(u)' : PendingLatest(p)'
  <2>1. PendingLatest(q)' /\ q \in Counting(u)'
    BY <1>4, ClosedLatest, CloseCounted
  <2>2. \A p \in Counting(u)' : p = q
    BY <2>1 DEF CountsAlone
  <2>3. QED
    BY <2>1, <2>2
<1>5. ASSUME NEW q \in Request, RecordRead(q), req[q].user = u
      PROVE  \A p \in Counting(u)' : PendingLatest(p)'
  <2>c. PICK c : c = req[q].session
    OBVIOUS
  <2>1. req[q].pc \in Recording /\ sessions' = sessions
    BY <1>5 DEF RecordRead, Recording
  <2>2. CASE req' = Leave(q)
    <3>1. Counting(u)' = {}
      BY <1>5, <2>c, <2>1, <2>2, DoneCounting
    <3>2. QED
      BY <3>1
  <2>3. CASE req' # Leave(q)
    <3>1. Counting(u)' = Counting(u) /\ PendingLatest(q)'
      BY <1>5, <2>3, GoesOnToWrite
    <3>2. Counting(u) = {q}
      BY <1>5, <2>c, <2>1, OneRecorderOf
    <3>3. QED
      BY <3>1, <3>2
  <2>4. QED
    BY <2>2, <2>3
<1>6. ASSUME NEW q \in Request, RecordWrite(q), req[q].user = u
      PROVE  Counting(u)' = {}
  BY <1>6, RecordWriteExactly
<1>7. ASSUME NEW a \in Admin, CorrectionCommit(a), OwnerOf(a) = u
      PROVE  Counting(u)' = {}
  BY <1>7, CommitExactly
<1>8. QED
  BY <1>2, <1>3, <1>4, <1>5, <1>6, <1>7, StepsFor

\* A correction enters the phases in which it holds the owner's row by its own steps only.
LEMMA SiblingStep ==
  ASSUME Consistent, [Next]_vars, NEW a \in Admin, adm'[a].pc \in {"audited", "rebuilt"}
  PROVE  adm'[a] = adm[a] \/ CorrectionAudit(a) \/ CorrectionRebuild(a)
<1>1. adm \in [Admin -> AdminState]
  BY DEF Consistent, TypeOK
<1>2. ASSUME NEW b \in Admin, adm' = ReleaseAdmin(b)
      PROVE  adm'[a] = adm[a]
  BY <1>1, <1>2, IdleAdminIsTyped DEF ReleaseAdmin, IdleAdmin
<1>3. ASSUME NEW b \in Admin, NEW s \in SessionId, NEW after \in PatchesOf(s), CorrectionBegin(b, s, after)
      PROVE  adm'[a] = adm[a]
  BY <1>1, <1>3 DEF CorrectionBegin, IdleAdmin
<1>4. ASSUME NEW b \in Admin, CorrectionAudit(b)
      PROVE  adm'[a] = adm[a] \/ CorrectionAudit(a)
  BY <1>1, <1>4 DEF CorrectionAudit
<1>5. ASSUME NEW b \in Admin, CorrectionRebuild(b)
      PROVE  adm'[a] = adm[a] \/ CorrectionRebuild(a)
  BY <1>1, <1>5 DEF CorrectionRebuild
<1>6. ASSUME NEW b \in Admin, CorrectionStep(b)
      PROVE  adm'[a] = adm[a] \/ CorrectionAudit(a) \/ CorrectionRebuild(a)
  BY <1>2, <1>4, <1>5, <1>6 DEF CorrectionStep, CorrectionCommit, CorrectionDeadlocks
<1>7. ASSUME NEW p \in Request, RequestStep(p)
      PROVE  adm' = adm
  BY <1>7 DEF RequestStep, Stamp, StartInsert, StartRefused, FinishUpdate, FinishLost, RecordRead, RecordWrite
<1>8. ASSUME NEW p \in Request, NEW u \in User, StartCheck(p, u) \/ \E s \in SessionId : FinishRead(p, u, s)
      PROVE  adm' = adm
  <2>1. StartCheck(p, u) => adm' = adm
    BY DEF StartCheck
  <2>2. ASSUME NEW s \in SessionId, FinishRead(p, u, s)
        PROVE  adm' = adm
    BY <2>2 DEF FinishRead
  <2>3. QED
    BY <1>8, <2>1, <2>2
<1>9. Tick \/ UNCHANGED vars \/ (\E p \in Request : RequestAborts(p)) => adm' = adm
  BY DEF Tick, RequestAborts, vars
<1>10. QED
  BY <1>2, <1>3, <1>6, <1>7, <1>8, <1>9 DEF Next, Work, Arrival, Failure, CorrectionAborts

\* While a correction holds its rebuilt streak, no step touches a session of its owner.
LEMMA OwnerUntouched ==
  ASSUME Consistent, NEW u \in User, Exact(u), [UndisturbedStep(u)]_vars, CountsAlone(u)',
         NEW a \in Admin, adm[a].pc = "rebuilt", adm'[a] = adm[a], OwnerOf(a) = u, OwnerOf(a)' = u
  PROVE  \A s \in SessionId : /\ sessions'[s].user = u <=> sessions[s].user = u
                              /\ sessions[s].user = u => sessions'[s] = sessions[s]
<1>1. CASE Quiet(u)
  BY <1>1 DEF Quiet
<1>2. ASSUME NEW p \in Request, NEW s \in SessionId, StartInsert(p, s), req[p].user = u
      PROVE  FALSE
  BY <1>2 DEF StartInsert, UserRowLocked
<1>3. ASSUME NEW p \in Request, FinishUpdate(p), req[p].user = u
      PROVE  FALSE
  <2>1. p \in Counting(u)'
    BY <1>3, CloseCounted
  <2>2. adm'[a].pc \notin {"audited", "rebuilt"}
    BY <2>1 DEF CountsAlone
  <2>3. QED
    BY <2>2
<1>4. ASSUME NEW p \in Request, RecordRead(p) \/ RecordWrite(p)
      PROVE  sessions' = sessions
  BY <1>4 DEF RecordRead, RecordWrite
<1>5. ASSUME NEW b \in Admin, CorrectionCommit(b), OwnerOf(b) = u
      PROVE  FALSE
  <2>1. adm[b].pc \in {"audited", "rebuilt"}
    BY <1>5 DEF CorrectionCommit
  <2>2. b # a
    <3>1. adm'[b] = IdleAdmin
      BY <1>5 DEF CorrectionCommit, ReleaseAdmin, Consistent, TypeOK
    <3>2. QED
      BY <3>1 DEF IdleAdmin
  <2>3. ~ SiblingIn(a, {"audited", "rebuilt"})
    BY DEF Exact, RebuildCurrent
  <2>4. QED
    BY <1>5, <2>1, <2>2, <2>3 DEF SiblingIn
<1>6. QED
  BY <1>1, <1>2, <1>3, <1>4, <1>5, StepsFor

\* The rows a correction reads, PatchedRows, before and after a step.
PatchedAlike(a) ==
  LET c == adm[a].session IN
  /\ \A s \in SessionId : /\ Patched(a)[s].status = sessions[s].status
                          /\ Patched(a)[s].user = sessions[s].user
                          /\ Patched(a)[s].ended = sessions[s].ended
                          /\ s # c => Patched(a)[s] = sessions[s]
  /\ Patched(a)[c].duration = adm[a].after.duration
  /\ Patched(a)[c].valid = adm[a].after.valid

LEMMA PatchedRowsHere ==
  Consistent => \A a \in Admin : adm[a].session \in SessionId => PatchedAlike(a)
BY PatchedRows DEF PatchedAlike

LEMMA PatchedRowsThere ==
  Consistent' => \A a \in Admin : adm'[a].session \in SessionId => PatchedAlike(a)'
<1>1. (Consistent => \A a \in Admin : adm[a].session \in SessionId => PatchedAlike(a))'
  BY PatchedRowsHere, PTL
<1>2. QED
  BY <1>1

\* What a correction read of its owner's sessions is what they still are.
LEMMA RebuildKept ==
  ASSUME Consistent, Consistent', NEW a \in Admin, adm[a].pc # "idle", adm'[a] = adm[a], NEW u,
         \A s \in SessionId : /\ sessions'[s].user = u <=> sessions[s].user = u
                              /\ sessions[s].user = u => sessions'[s] = sessions[s]
  PROVE  QualifyingEnds(Patched(a), u)' = QualifyingEnds(Patched(a), u)
<1>c. PICK c \in SessionId : c = adm[a].session
  BY DEF Consistent, CorrectionConsistent
<1>1. /\ \A s \in SessionId : /\ Patched(a)[s].status = sessions[s].status
                              /\ Patched(a)[s].user = sessions[s].user
                              /\ Patched(a)[s].ended = sessions[s].ended
                              /\ s # c => Patched(a)[s] = sessions[s]
      /\ Patched(a)[c].duration = adm[a].after.duration
      /\ Patched(a)[c].valid = adm[a].after.valid
  BY <1>c, PatchedRows
<1>2. /\ \A s \in SessionId : /\ Patched(a)'[s].status = sessions'[s].status
                              /\ Patched(a)'[s].user = sessions'[s].user
                              /\ Patched(a)'[s].ended = sessions'[s].ended
                              /\ s # c => Patched(a)'[s] = sessions'[s]
      /\ Patched(a)'[c].duration = adm[a].after.duration
      /\ Patched(a)'[c].valid = adm[a].after.valid
  <2>1. c = adm'[a].session
    BY <1>c
  <2>2. QED
    BY <1>c, <2>1, PatchedRowsThere DEF PatchedAlike
<1>3. ASSUME NEW s \in SessionId
      PROVE  /\ Patched(a)'[s].user = u <=> Patched(a)[s].user = u
             /\ Patched(a)[s].user = u =>
                  /\ Patched(a)'[s].status = Patched(a)[s].status
                  /\ Patched(a)'[s].ended = Patched(a)[s].ended
                  /\ Qualifies(Patched(a)'[s]) <=> Qualifies(Patched(a)[s])
  <2>1. CASE s = c
    BY <1>1, <1>2, <2>1 DEF Qualifies
  <2>2. CASE s # c
    BY <1>1, <1>2, <2>2
  <2>3. QED
    BY <2>1, <2>2
<1>4. QED
  BY <1>3 DEF QualifyingEnds, Qualifies

LEMMA StepRebuildCurrent ==
  ASSUME Consistent, Consistent', NEW u \in User, Exact(u), [UndisturbedStep(u)]_vars, CountsAlone(u)',
         NEW a \in Admin, adm'[a].pc = "rebuilt", OwnerOf(a)' = u
  PROVE  RebuildCurrent(a)'
<1>1. [Next]_vars /\ adm \in [Admin -> AdminState]
  BY DEF UndisturbedStep, Next, Failure, Consistent, TypeOK
<1>2. CASE CorrectionRebuild(a)
  <2>1. /\ sessions' = sessions /\ adm[a].pc = "audited"
        /\ ~ SiblingIn(a, {"audited", "rebuilt"})
        /\ adm' = [adm EXCEPT ![a].pc = "rebuilt",
                              ![a].streak = StreakFromSessions(QualifyingEnds(Patched(a), OwnerOf(a)))]
    BY <1>2 DEF CorrectionRebuild, Patched
  <2>2. /\ adm'[a].session = adm[a].session /\ adm'[a].after = adm[a].after
        /\ adm'[a].streak = StreakFromSessions(QualifyingEnds(Patched(a), OwnerOf(a)))
        /\ \A b \in Admin : b # a => adm'[b] = adm[b]
    BY <1>1, <2>1 DEF AdminState
  <2>3. Patched(a)' = Patched(a) /\ OwnerOf(a)' = OwnerOf(a)
    BY <2>1, <2>2 DEF Patched, OwnerOf
  <2>4. QualifyingEnds(Patched(a), OwnerOf(a))' = QualifyingEnds(Patched(a), OwnerOf(a))
    BY <2>3 DEF QualifyingEnds, Qualifies
  <2>5. ~ SiblingIn(a, {"audited", "rebuilt"})'
    BY <2>1, <2>2, <2>3 DEF SiblingIn, OwnerOf
  <2>6. QED
    BY <2>2, <2>4, <2>5 DEF RebuildCurrent
<1>3. CASE adm'[a] = adm[a]
  <2>1. \A b \in Admin : adm[b].pc # "idle" => adm[b].session \in SessionId
                            /\ sessions[adm[b].session].status = "finished"
    BY DEF Consistent, CorrectionConsistent
  <2>2. OwnerOf(a) = u
    <3>1. RowKept(adm[a].session)
      BY <1>1, <1>3, <2>1, RowsKept
    <3>2. QED
      BY <1>3, <2>1, <3>1 DEF RowKept, OwnerOf
  <2>3. /\ adm[a].pc = "rebuilt" /\ ~ SiblingIn(a, {"audited", "rebuilt"})
        /\ adm[a].streak = StreakFromSessions(QualifyingEnds(Patched(a), u))
    BY <1>3, <2>2 DEF Exact, RebuildCurrent
  <2>4. \A s \in SessionId : /\ sessions'[s].user = u <=> sessions[s].user = u
                             /\ sessions[s].user = u => sessions'[s] = sessions[s]
    BY <1>3, <2>2, <2>3, OwnerUntouched
  <2>5. QualifyingEnds(Patched(a), u)' = QualifyingEnds(Patched(a), u)
    BY <1>3, <2>3, <2>4, RebuildKept
  <2>6. (QualifyingEnds(Patched(a), OwnerOf(a)))' = QualifyingEnds(Patched(a), u)
    BY <2>5 DEF QualifyingEnds, Qualifies
  <2>7. ASSUME NEW b \in Admin \ {a}, adm'[b].pc \in {"audited", "rebuilt"}
        PROVE  OwnerOf(b)' # u
    <3>1. CASE adm'[b] = adm[b]
      <4>1. OwnerOf(b) # u
        BY <2>2, <2>3, <2>7, <3>1 DEF SiblingIn
      <4>2. adm[b].session \in SessionId
        BY <2>1, <2>7, <3>1
      <4>3. QED
        BY <2>4, <3>1, <4>1, <4>2 DEF OwnerOf
    <3>2. CASE CorrectionAudit(b)
      <4>1. sessions' = sessions /\ adm'[b].session = adm[b].session /\ ~ SiblingIn(b, {"rebuilt"})
        BY <1>1, <3>2 DEF CorrectionAudit, AdminState
      <4>2. OwnerOf(a) # OwnerOf(b)
        BY <2>3, <2>7, <4>1 DEF SiblingIn
      <4>3. QED
        BY <2>2, <4>1, <4>2 DEF OwnerOf
    <3>3. CASE CorrectionRebuild(b)
      <4>1. ~ SiblingIn(b, {"audited", "rebuilt"})
        BY <3>3 DEF CorrectionRebuild
      <4>2. sessions' = sessions /\ adm'[b].session = adm[b].session
        BY <1>1, <3>3 DEF CorrectionRebuild, AdminState
      <4>3. OwnerOf(a) # OwnerOf(b)
        BY <2>3, <2>7, <4>1 DEF SiblingIn
      <4>4. QED
        BY <2>2, <4>2, <4>3 DEF OwnerOf
    <3>4. QED
      BY <1>1, <2>7, <3>1, <3>2, <3>3, SiblingStep
  <2>8. ~ SiblingIn(a, {"audited", "rebuilt"})'
    BY <2>7 DEF SiblingIn
  <2>9. QED
    BY <1>3, <2>3, <2>6, <2>8 DEF RebuildCurrent
<1>4. QED
  BY <1>1, <1>2, <1>3, RebuilderStep

-----------------------------------------------------------------------------

\* The invariant of one student needs nothing but that his own counting is undisturbed.
LEMMA StepExact ==
  ASSUME Consistent, Consistent', ReadUnderLock, Disjoint,
         NEW u \in User, Exact(u), [UndisturbedStep(u)]_vars
  PROVE  Exact(u)'
<1>1. CountsAlone(u)'
  <2>1. CASE UNCHANGED vars
    <3>1. CountsAlone(u) /\ UNCHANGED <<req, adm, sessions>>
      BY <2>1 DEF vars, Exact
    <3>2. QED
      BY <3>1 DEF CountsAlone, Counting, OwnerOf
  <2>2. QED
    BY <2>1 DEF UndisturbedStep
<1>2. QED
  BY <1>1, StepCountedExactly, StepPendingLatest, StepRebuildCurrent DEF Exact

LEMMA InitExact ==
  ASSUME Init, NEW u \in User
  PROVE  Exact(u)
<1>1. /\ \A p \in Request : req[p].pc = "idle"
      /\ \A a \in Admin : adm[a].pc = "idle"
      /\ \A s \in SessionId : sessions[s].status = "absent"
      /\ streak[u] = NoStreak
  BY DEF Init, IdleRequest, IdleAdmin, NoRow
<1>2. Counting(u) = {}
  BY <1>1 DEF Counting
<1>3. CountedEnds(u) = {}
  BY <1>1 DEF CountedEnds, Counts
<1>4. CountedExactly(u)
  BY <1>1, <1>3 DEF CountedExactly, StreakFromSessions, SameStreak
<1>5. QED
  BY <1>1, <1>2, <1>4 DEF Exact, CountsAlone

\* When no request is counting, all that qualifies is counted.
LEMMA ExactIsExact ==
  ASSUME NEW u \in User, Exact(u)
  PROVE  ExactFor(u)
<1> SUFFICES ASSUME Counting(u) = {}
             PROVE  SameStreak(streak[u], Rebuilt(u))
  BY DEF ExactFor
<1>1. PendingOf(u) = {}
  BY DEF PendingOf
<1>2. CountedEnds(u) = QualifyingEnds(sessions, u)
  BY <1>1 DEF CountedEnds, Counts, QualifyingEnds, Qualifies
<1>3. QED
  BY <1>2 DEF Exact, CountedExactly, Rebuilt

\* All that the argument for u rests on: what is known of the tables, and his part.
Sound(u) == Consistent /\ ReadUnderLock /\ Disjoint /\ Exact(u)

LEMMA InitSound ==
  ASSUME Init, NEW u \in User
  PROVE  Sound(u)
<1>1. Consistent /\ Exact(u)
  BY InitConsistent, InitExact
<1>2. ReadUnderLock
  BY DEF Init, ReadUnderLock, IdleAdmin
<1>3. Disjoint
  BY DEF Init, Disjoint, NoRow
<1>4. QED
  BY <1>1, <1>2, <1>3 DEF Sound

LEMMA StepSound ==
  ASSUME NEW u \in User, Sound(u), [UndisturbedStep(u)]_vars
  PROVE  Sound(u)'
<1>1. Consistent /\ ReadUnderLock /\ Disjoint /\ Exact(u)
  BY DEF Sound
<1>2. [Next]_vars
  BY DEF UndisturbedStep, Next, Failure
<1>3. Consistent' /\ ReadUnderLock' /\ Disjoint'
  BY <1>1, <1>2, NextConsistent, NextReadUnderLock, NextDisjoint
<1>4. Exact(u)'
  BY <1>1, <1>3, StepExact
<1>5. QED
  BY <1>3, <1>4 DEF Sound

\* The incremental path and the rebuild agree (utils/streak.go:16) for a student as long
\* as nothing interferes between his close and its counting: whatever the others do, at
\* the same time and failing anywhere, and whatever of his own fails or overlaps before.
THEOREM StreakIsIsolated ==
  ASSUME NEW u \in User
  PROVE  Init /\ [][UndisturbedStep(u)]_vars => []ExactFor(u)
<1>1. Init => Sound(u)
  BY InitSound
<1>2. Sound(u) /\ [UndisturbedStep(u)]_vars => Sound(u)'
  BY StepSound
<1>3. Sound(u) => ExactFor(u)
  BY ExactIsExact DEF Sound
<1>4. QED
  BY <1>1, <1>2, <1>3, PTL

\* They agree for everybody, after any mix of sessions, corrections and failures of any
\* number of students, when this holds for each of them.
THEOREM StreakIsExact == UndisturbedSpec => []StreakExact
<1> DEFINE All == \A u \in User : Sound(u)
<1>1. Init => All
  BY InitSound
<1>2. All /\ [\A u \in User : UndisturbedStep(u)]_vars => All'
  <2>1. ASSUME All, [\A u \in User : UndisturbedStep(u)]_vars, NEW u \in User
        PROVE  Sound(u)'
    <3>1. [UndisturbedStep(u)]_vars
      BY <2>1
    <3>2. QED
      BY <2>1, <3>1, StepSound
  <2>2. QED
    BY <2>1
<1>3. All => StreakExact
  BY ExactIsExact DEF Sound, StreakExact
<1> HIDE DEF All
<1>4. QED
  BY <1>1, <1>2, <1>3, PTL DEF UndisturbedSpec

=============================================================================
