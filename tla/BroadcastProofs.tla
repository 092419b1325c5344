---------------------------- MODULE BroadcastProofs ----------------------------
(***************************************************************************)
(* Theorems about Broadcast for any users, broadcasts, processes and       *)
(* goroutines, under every failure of Next. One inductive invariant,       *)
(* Consistent, carries all of them:                                        *)
(*   TypeOK             the types                                          *)
(*   Flagged            a worker runs in a process that is up and flagged, *)
(*                      and is the only one of it                          *)
(*   Covered            whoever a cursor has passed was called             *)
(* and about LastingSpec, one process at a time whose queries answer.      *)
(* Three strengthenings of Consistent carry them:                          *)
(*   Sole               one broadcast runs, and who is up is working on it *)
(*   Tallied            the counters lie between the audience and the      *)
(*                      users that a cursor has passed                     *)
(*   Once               nobody ahead of a cursor was called; lost with the *)
(*                      first death of a process                           *)
(***************************************************************************)
EXTENDS LastingBroadcast, FiniteSetTheorems, WellFoundedInduction, TLAPS

-----------------------------------------------------------------------------
(* Pages *)

\* A finite, nonempty set of naturals has a least element.
LEMMA LeastElement ==
  ASSUME NEW T \in SUBSET Nat, IsFiniteSet(T), T # {}
  PROVE  \E x \in T : \A y \in T : x <= y
<1> DEFINE Below(x) == {y \in T : y < x}
           B == {Below(x) : x \in T}
<1>1. IsWellFoundedOn(StrictSubsetOrdering(T), FiniteSubsetsOf(T))
  BY FS_StrictSubsetOrderingWellFounded
<1>2. B \subseteq FiniteSubsetsOf(T)
  <2>1. FiniteSubsetsOf(T) = SUBSET T
    BY FS_FiniteSubsetsOfFinite
  <2>2. QED
    BY <2>1
<1>3. B # {}
  OBVIOUS
<1>4. PICK b \in B : \A c \in B : ~ (<<c, b>> \in StrictSubsetOrdering(T))
  <2> HIDE DEF B
  <2> QED BY <1>1, <1>2, <1>3, WFMin
<1>5. PICK x \in T : b = Below(x)
  BY <1>4
<1>6. ASSUME NEW y \in T, y < x
      PROVE  FALSE
  <2>1. Below(y) \in B
    OBVIOUS
  <2>2. Below(y) \subseteq Below(x) /\ y \in Below(x) /\ y \notin Below(y)
    <3>1. T \subseteq Nat /\ x \in Nat /\ y \in Nat /\ ~ (y < y)
      OBVIOUS
    <3> HIDE DEF B
    <3>2. Below(y) \subseteq Below(x)
      <4>1. \A z \in T : z < y => z < x
        BY <3>1, <1>6
      <4>2. QED
        BY <4>1
    <3>3. y \in Below(x)
      BY <1>6
    <3>4. y \notin Below(y)
      BY <3>1
    <3>5. QED
      BY <3>2, <3>3, <3>4
  <2>3. <<Below(y), b>> \in StrictSubsetOrdering(T)
    <3>1. Below(y) \in SUBSET T /\ b \in SUBSET T
      BY <1>5
    <3> HIDE DEF Below
    <3> QED BY <3>1, <2>2, <1>5 DEF StrictSubsetOrdering
  <2>4. QED
    BY <2>1, <2>3, <1>4
<1>7. QED
  BY <1>6

\* A page of at most n is everything, or is followed by what it leaves out.
LEMMA PageIsPrefix ==
  ASSUME NEW S \in SUBSET Nat, IsFiniteSet(S), NEW n \in Nat,
         NEW x \in S, x \notin FirstOf(S, n), NEW u \in FirstOf(S, n)
  PROVE  u < x
<1> DEFINE Below(y) == {v \in S : v < y}
<1>1. \A y \in S : IsFiniteSet(Below(y)) /\ Cardinality(Below(y)) \in Nat
  BY FS_Subset, FS_CardinalityType
<1>2. Cardinality(Below(u)) < n /\ ~ (Cardinality(Below(x)) < n) /\ u \in S
  BY DEF FirstOf
<1>3. SUFFICES ASSUME ~ (u < x)
               PROVE  FALSE
  OBVIOUS
<1>4. Below(x) \subseteq Below(u)
  <2>1. u \in Nat /\ x \in Nat /\ S \subseteq Nat
    BY <1>2
  <2>2. \A v \in S : v < x => v < u
    BY <2>1, <1>3
  <2>3. QED
    BY <2>2
<1>5. Cardinality(Below(x)) <= Cardinality(Below(u))
  <2> HIDE DEF Below
  <2> QED BY <1>1, <1>2, <1>4, FS_Subset
<1>6. QED
  <2> HIDE DEF Below
  <2> QED BY <1>1, <1>2, <1>5

\* A page is empty only when nothing is left.
LEMMA EmptyPageIsEnd ==
  ASSUME NEW S \in SUBSET Nat, IsFiniteSet(S), NEW n \in Nat \ {0}, FirstOf(S, n) = {}
  PROVE  S = {}
<1>1. SUFFICES ASSUME S # {}
               PROVE  FALSE
  OBVIOUS
<1>2. PICK x \in S : \A y \in S : x <= y
  BY <1>1, LeastElement
<1>3. {v \in S : v < x} = {}
  <2>1. S \subseteq Nat /\ x \in Nat
    OBVIOUS
  <2>2. \A v \in S : ~ (v < x)
    BY <2>1, <1>2
  <2>3. QED
    BY <2>2
<1>4. Cardinality({v \in S : v < x}) = 0
  BY <1>3, FS_EmptySet
<1>5. x \in FirstOf(S, n)
  BY <1>4 DEF FirstOf
<1>6. QED
  BY <1>5

-----------------------------------------------------------------------------
(* The inductive invariant *)

\* A goroutine in Start or run is in a process that is up, a worker also in one
\* that has its flag set, and it is alone there.
Flagged ==
  /\ \A w \in Worker : worker[w].pc # "none" => proc[worker[w].proc].up
  /\ \A w \in Worker : worker[w].pc \in RunPhase => proc[worker[w].proc].running
  /\ OneWorkerPerProcess

\* The audience of b up to the cursor c was called.
Passed(b, c) == \A u \in rows[b].audience : u <= c => calls[b][u] >= 1

AllCalled(b) == \A u \in rows[b].audience : calls[b][u] >= 1

RowCovered(b) ==
  /\ rows[b].audience \subseteq users
  /\ Passed(b, rows[b].cursor)
  /\ rows[b].status = "done" => AllCalled(b)

\* A worker has passed its cursor; while it is in a page, the page is ahead of the
\* cursor, and whoever else of the audience is ahead is after all of the page.
WorkerCovered(w) ==
  LET r == worker[w] IN
  r.pc \in RunPhase =>
    /\ rows[r.id].status # "absent"
    /\ Passed(r.id, r.cursor)
    /\ r.pc \in {"wait", "send"} =>
         /\ \A v \in r.batch : r.cursor < v
         /\ \A u \in rows[r.id].audience : u > r.cursor /\ u \notin r.batch =>
              \A v \in r.batch : v < u
    /\ r.pc = "finish" => AllCalled(r.id)

Covered == (\A b \in BroadcastId : RowCovered(b)) /\ (\A w \in Worker : WorkerCovered(w))

Consistent == TypeOK /\ Flagged /\ Covered

-----------------------------------------------------------------------------
(* Types *)

LEMMA NoWorkerType == NoWorker \in WorkerState /\ NoWorker.pc = "none" /\ NoWorker.proc = None
BY DEF NoWorker, WorkerState, WorkerShape, Cursor

LEMMA WorkerOfType ==
  ASSUME NEW p \in Process, NEW b \in BroadcastId, NEW r \in BroadcastRow
  PROVE  /\ WorkerOf(p, b, r) = [pc |-> "fetch", proc |-> p, id |-> b, cursor |-> r.cursor,
                                 sent |-> r.sent, failed |-> r.failed, total |-> 0, batch |-> {}]
         /\ WorkerOf(p, b, r) \in WorkerState
BY DEF WorkerOf, WorkerState, WorkerShape, RunPhase, BroadcastRow

LEMMA NewRowType ==
  ASSUME TypeOK, NEW w \in Worker, worker[w].pc = "create"
  PROVE  /\ NewRow(w) = [status |-> "running", cursor |-> 0, sent |-> 0, failed |-> 0,
                         total |-> worker[w].total, audience |-> users]
         /\ NewRow(w) \in BroadcastRow
<1>1. worker[w].total \in Nat
  BY DEF TypeOK, WorkerState, WorkerShape
<1>2. users \in SUBSET Recipient
  BY DEF TypeOK
<1>3. QED
  BY <1>1, <1>2 DEF NewRow, BroadcastRow, Cursor

\* What TypeOK says of one goroutine.
LEMMA WorkerFacts ==
  ASSUME TypeOK, NEW w \in Worker
  PROVE  /\ worker[w] \in WorkerState
         /\ worker[w].cursor \in Cursor /\ worker[w].batch \in SUBSET Recipient
         /\ worker[w].sent \in Nat /\ worker[w].failed \in Nat /\ worker[w].total \in Nat
         /\ worker[w].pc = "none" <=> worker[w].proc = None
         /\ worker[w].pc # "none" => worker[w].proc \in Process
         /\ worker[w].pc \in RunPhase => worker[w].id \in BroadcastId
         /\ worker[w].pc = "none" \/ worker[w].pc = "create" \/ worker[w].pc \in RunPhase
         /\ worker[w] = [pc |-> worker[w].pc, proc |-> worker[w].proc, id |-> worker[w].id,
                         cursor |-> worker[w].cursor, sent |-> worker[w].sent,
                         failed |-> worker[w].failed, total |-> worker[w].total,
                         batch |-> worker[w].batch]
<1>1. worker[w] \in WorkerState
  BY DEF TypeOK
<1>2. QED
  BY <1>1, NoneAssumption DEF WorkerState, WorkerShape, RunPhase

-----------------------------------------------------------------------------
(* What steps have in common *)

\* A worker that goes on leaves the flags as they are.
LEMMA FlaggedByMove ==
  ASSUME Consistent, NEW w \in Worker, worker[w].pc \in RunPhase,
         NEW r \in WorkerState, r.pc \in RunPhase, r.proc = worker[w].proc,
         worker' = [worker EXCEPT ![w] = r], UNCHANGED proc
  PROVE  Flagged'
<1>1. worker'[w] = r /\ \A v \in Worker : v # w => worker'[v] = worker[v]
  BY DEF Consistent, TypeOK
<1>2. \A v \in Worker : worker'[v].proc = worker[v].proc
  BY <1>1
<1>3. \A v \in Worker : worker'[v].pc # "none" => worker[v].pc # "none"
  BY <1>1 DEF RunPhase
<1>4. \A v \in Worker : worker'[v].pc \in RunPhase => worker[v].pc \in RunPhase
  BY <1>1
<1>5. QED
  BY <1>2, <1>3, <1>4 DEF Consistent, Flagged, OneWorkerPerProcess

\* A worker that ends, or a Start that fails, takes nobody's flag.
LEMMA FlaggedByEnd ==
  ASSUME Consistent, NEW w \in Worker,
         worker[w].pc # "none",
         worker' = [worker EXCEPT ![w] = NoWorker],
         \/ UNCHANGED proc
         \/ proc' = [proc EXCEPT ![worker[w].proc].running = FALSE]
  PROVE  Flagged'
<1>1. worker'[w] = NoWorker /\ \A v \in Worker : v # w => worker'[v] = worker[v]
  BY DEF Consistent, TypeOK
<1>2. \A p \in Process : proc'[p].up = proc[p].up
  BY DEF Consistent, TypeOK, ProcessState
<1>3. \A p \in Process : p # worker[w].proc => proc'[p] = proc[p]
  BY DEF Consistent, TypeOK, ProcessState
<1>4. \A v \in Worker : worker[v].pc # "none" => worker[v].proc \in Process
  BY WorkerFacts DEF Consistent
<1>5. \A v \in Worker : v # w /\ worker[v].pc # "none" => worker[v].proc # worker[w].proc
  BY <1>4 DEF Consistent, Flagged, OneWorkerPerProcess
<1>6. \A v \in Worker : v # w /\ worker[v].pc # "none" =>
        proc'[worker[v].proc] = proc[worker[v].proc]
  BY <1>3, <1>4, <1>5
<1>7. OneWorkerPerProcess'
  BY <1>1, NoWorkerType, NoneAssumption DEF Consistent, Flagged, OneWorkerPerProcess
<1>8. \A v \in Worker : worker'[v].pc # "none" => v # w /\ worker'[v] = worker[v]
  BY <1>1, NoWorkerType
<1>9. \A v \in Worker : worker[v].pc \in RunPhase => worker[v].pc # "none"
  BY DEF RunPhase
<1>10. \A v \in Worker : worker'[v].pc \in RunPhase => worker'[v].pc # "none"
  BY DEF RunPhase
<1>11. \A v \in Worker : worker'[v].pc # "none" => proc'[worker'[v].proc].up
  BY <1>6, <1>8 DEF Consistent, Flagged
<1>12. \A v \in Worker : worker'[v].pc \in RunPhase => proc'[worker'[v].proc].running
  BY <1>6, <1>8, <1>10 DEF Consistent, Flagged
<1>13. QED
  BY <1>7, <1>11, <1>12 DEF Flagged

\* A goroutine that starts in a process that had none.
LEMMA FlaggedByStart ==
  ASSUME Consistent, NEW w \in Worker, NEW p \in Process, NEW r \in WorkerState,
         NEW f \in ProcessState, WorkersOf(p) \subseteq {w}, r.proc = p,
         worker[w].proc \in {None, p}, f.up, r.pc \in RunPhase => f.running,
         worker' = [worker EXCEPT ![w] = r],
         proc' = [proc EXCEPT ![p] = f]
  PROVE  Flagged'
<1>1. worker'[w] = r /\ \A v \in Worker : v # w => worker'[v] = worker[v]
  BY DEF Consistent, TypeOK
<1>2. proc'[p] = f /\ \A q \in Process : q # p => proc'[q] = proc[q]
  BY DEF Consistent, TypeOK
<1>3. \A v \in Worker : v # w => worker[v].proc # p
  BY DEF WorkersOf
<1>4. \A v \in Worker : worker[v].pc # "none" => worker[v].proc \in Process
  BY WorkerFacts DEF Consistent
<1>5. \A v \in Worker : v # w /\ worker[v].pc # "none" =>
        proc'[worker[v].proc] = proc[worker[v].proc]
  BY <1>2, <1>3, <1>4
<1>6. \A v \in Worker : worker'[v].pc # "none" => proc'[worker'[v].proc].up
  BY <1>1, <1>2, <1>5 DEF Consistent, Flagged
<1>7. \A v \in Worker : worker[v].pc \in RunPhase => worker[v].pc # "none"
  BY DEF RunPhase
<1>8. \A v \in Worker : worker'[v].pc \in RunPhase => proc'[worker'[v].proc].running
  BY <1>1, <1>2, <1>5, <1>7 DEF Consistent, Flagged
<1>9. OneWorkerPerProcess'
  BY <1>1, <1>3 DEF Consistent, Flagged, OneWorkerPerProcess
<1>10. QED
  BY <1>6, <1>8, <1>9 DEF Flagged

\* Tables and histories only grow in the way coverage needs.
Grows ==
  /\ users \subseteq users'
  /\ \A b \in BroadcastId :
       /\ rows[b].status # "absent" => /\ rows'[b].status # "absent"
                                       /\ rows'[b].audience = rows[b].audience
       /\ \A u \in Recipient : calls'[b][u] >= calls[b][u]

\* Then whoever was passed stays passed.
LEMMA PassedStays ==
  ASSUME TypeOK, TypeOK', Grows, NEW b \in BroadcastId, rows[b].status # "absent"
  PROVE  /\ \A c \in Cursor : Passed(b, c) => Passed(b, c)'
         /\ AllCalled(b) => AllCalled(b)'
<1>1. rows'[b].audience = rows[b].audience
  BY DEF Grows
<1>2. rows[b].audience \subseteq Recipient
  BY DEF TypeOK, BroadcastRow
<1>3. \A u \in Recipient : calls[b][u] \in Nat /\ calls'[b][u] \in Nat /\ calls'[b][u] >= calls[b][u]
  BY DEF TypeOK, Grows
<1>4. \A u \in rows[b].audience : calls[b][u] >= 1 => calls'[b][u] >= 1
  BY <1>2, <1>3
<1>5. QED
  BY <1>1, <1>4 DEF Passed, AllCalled

\* and a worker that did not move is still covered.
LEMMA CoveredStays ==
  ASSUME Consistent, TypeOK', Grows, NEW w \in Worker, worker'[w] = worker[w]
  PROVE  WorkerCovered(w)'
<1>1. SUFFICES ASSUME worker[w].pc \in RunPhase
               PROVE  WorkerCovered(w)'
  BY DEF WorkerCovered
<1>2. PICK b \in BroadcastId : b = worker[w].id
  BY <1>1, WorkerFacts DEF Consistent
<1>3. PICK c \in Cursor : c = worker[w].cursor
  BY WorkerFacts DEF Consistent
<1>4. rows[b].status # "absent" /\ Passed(b, c) /\ (worker[w].pc = "finish" => AllCalled(b))
  BY <1>1, <1>2, <1>3 DEF Consistent, Covered, WorkerCovered
<1>5. Passed(b, c)' /\ (worker[w].pc = "finish" => AllCalled(b)')
  BY <1>4, PassedStays DEF Consistent
<1>6. rows'[b].status # "absent" /\ rows'[b].audience = rows[b].audience
  BY <1>4 DEF Grows
<1>7. QED
  BY <1>1, <1>2, <1>3, <1>5, <1>6 DEF WorkerCovered, Consistent, Covered

\* A step of the worker w alone, which stays at work on the same broadcast and
\* writes no table.
LEMMA MoveConsistent ==
  ASSUME Consistent, NEW w \in Worker, worker[w].pc \in RunPhase,
         NEW r \in WorkerState, r.pc \in RunPhase, r.proc = worker[w].proc,
         worker' = [worker EXCEPT ![w] = r],
         UNCHANGED <<users, rows, proc, boots, calls, answered>>,
         WorkerCovered(w)'
  PROVE  Consistent'
<1>1. TypeOK'
  BY DEF Consistent, TypeOK
<1>2. Flagged'
  BY FlaggedByMove
<1>3. Grows
  BY DEF Grows, Consistent, TypeOK
<1>4. ASSUME NEW v \in Worker
      PROVE  WorkerCovered(v)'
  <2>1. CASE v = w
    BY <2>1
  <2>2. CASE v # w
    BY <1>1, <1>3, <2>2, CoveredStays DEF Consistent, TypeOK
  <2>3. QED
    BY <2>1, <2>2
<1>5. \A b \in BroadcastId : RowCovered(b)'
  BY DEF RowCovered, Passed, AllCalled, Consistent, Covered
<1>6. QED
  BY <1>1, <1>2, <1>4, <1>5 DEF Consistent, Covered

\* A goroutine that ends, whether or not its process is unflagged.
LEMMA EndConsistent ==
  ASSUME Consistent, NEW w \in Worker, worker[w].pc # "none",
         worker' = [worker EXCEPT ![w] = NoWorker],
         \/ UNCHANGED proc
         \/ proc' = [proc EXCEPT ![worker[w].proc].running = FALSE],
         UNCHANGED <<users, boots, calls, answered>>,
         rows' \in [BroadcastId -> BroadcastRow], Grows,
         \A b \in BroadcastId : RowCovered(b)'
  PROVE  Consistent'
<1>1. proc' \in [Process -> ProcessState]
  BY DEF Consistent, TypeOK, ProcessState
<1>2. TypeOK'
  BY <1>1, NoWorkerType DEF Consistent, TypeOK
<1>3. Flagged'
  BY FlaggedByEnd
<1>4. ASSUME NEW v \in Worker
      PROVE  WorkerCovered(v)'
  <2>1. CASE v = w
    <3>1. worker'[w].pc = "none"
      BY NoWorkerType DEF Consistent, TypeOK
    <3>2. QED
      BY <2>1, <3>1 DEF WorkerCovered, RunPhase
  <2>2. CASE v # w
    BY <1>2, <2>2, CoveredStays DEF Consistent, TypeOK
  <2>3. QED
    BY <2>1, <2>2
<1>5. QED
  BY <1>2, <1>3, <1>4 DEF Consistent, Covered

\* The rows a persist writes, and what stays covered by them.
LEMMA SavedCovered ==
  ASSUME Consistent, NEW w \in Worker, worker[w].pc \in RunPhase, rows' = Saved(w),
         UNCHANGED <<users, calls>>
  PROVE  /\ rows' \in [BroadcastId -> BroadcastRow]
         /\ Grows
         /\ \A b \in BroadcastId : RowCovered(b)'
<1>1. PICK i \in BroadcastId : i = worker[w].id
  BY WorkerFacts DEF Consistent
<1>2. PICK c \in Cursor : c = worker[w].cursor
  BY WorkerFacts DEF Consistent
<1>3. worker[w].sent \in Nat /\ worker[w].failed \in Nat
  BY WorkerFacts DEF Consistent
<1>4. PICK r : r = [rows[i] EXCEPT !.cursor = c, !.sent = worker[w].sent,
                                   !.failed = worker[w].failed]
  OBVIOUS
<1>5. /\ r \in BroadcastRow /\ r.status = rows[i].status
       /\ r.audience = rows[i].audience /\ r.cursor = c
  <2>1. rows[i] \in BroadcastRow
    BY DEF Consistent, TypeOK
  <2>2. QED
    BY <1>3, <1>4, <2>1 DEF BroadcastRow
<1>6. rows' = [rows EXCEPT ![i] = r]
  BY <1>1, <1>2, <1>4 DEF Saved, Consistent, TypeOK
<1>7. rows' \in [BroadcastId -> BroadcastRow]
  BY <1>5, <1>6 DEF Consistent, TypeOK
<1>8. \A b \in BroadcastId : /\ rows'[b].status = rows[b].status
                            /\ rows'[b].audience = rows[b].audience
                            /\ rows'[b].cursor = IF b = i THEN c ELSE rows[b].cursor
  BY <1>5, <1>6 DEF Consistent, TypeOK
<1>9. Grows
  BY <1>8 DEF Grows, Consistent, TypeOK
<1>10. Passed(i, c)
  BY <1>1, <1>2 DEF Consistent, Covered, WorkerCovered
<1>11. \A b \in BroadcastId : RowCovered(b)'
  BY <1>8, <1>10 DEF RowCovered, Passed, AllCalled, Consistent, Covered
<1>12. QED
  BY <1>7, <1>9, <1>11

\* The row a worker finishes: everybody was called.
LEMMA FinishedCovered ==
  ASSUME Consistent, NEW w \in Worker, worker[w].pc = "finish", rows' = Finished(w),
         UNCHANGED <<users, calls>>
  PROVE  /\ rows' \in [BroadcastId -> BroadcastRow]
         /\ Grows
         /\ \A b \in BroadcastId : RowCovered(b)'
<1>1. worker[w].pc \in RunPhase
  BY DEF RunPhase
<1>2. PICK i \in BroadcastId : i = worker[w].id
  BY <1>1, WorkerFacts DEF Consistent
<1>3. worker[w].sent \in Nat /\ worker[w].failed \in Nat
  BY WorkerFacts DEF Consistent
<1>4. PICK r : r = [rows[i] EXCEPT !.status = "done", !.sent = worker[w].sent,
                                   !.failed = worker[w].failed]
  OBVIOUS
<1>5. /\ r \in BroadcastRow /\ r.status = "done"
      /\ r.audience = rows[i].audience /\ r.cursor = rows[i].cursor
  <2>1. rows[i] \in BroadcastRow
    BY DEF Consistent, TypeOK
  <2>2. QED
    BY <1>3, <1>4, <2>1 DEF BroadcastRow
<1>6. rows' = [rows EXCEPT ![i] = r]
  BY <1>2, <1>4 DEF Finished, Consistent, TypeOK
<1>7. rows' \in [BroadcastId -> BroadcastRow]
  BY <1>5, <1>6 DEF Consistent, TypeOK
<1>8. \A b \in BroadcastId : /\ rows'[b].status = IF b = i THEN "done" ELSE rows[b].status
                            /\ rows'[b].audience = rows[b].audience
                            /\ rows'[b].cursor = rows[b].cursor
  BY <1>5, <1>6 DEF Consistent, TypeOK
<1>9. Grows
  BY <1>8 DEF Grows, Consistent, TypeOK
<1>10. AllCalled(i)
  BY <1>1, <1>2 DEF Consistent, Covered, WorkerCovered
<1>11. \A b \in BroadcastId : RowCovered(b)'
  BY <1>8, <1>10 DEF RowCovered, Passed, AllCalled, Consistent, Covered
<1>12. QED
  BY <1>7, <1>9, <1>11

-----------------------------------------------------------------------------
(* The steps of run *)

LEMMA FetchConsistent ==
  ASSUME Consistent, NEW w \in Worker, Fetch(w)
  PROVE  Consistent'
<1> DEFINE ahead == {u \in users : u > worker[w].cursor}
           page == RecipientsAfter(worker[w].cursor)
<1>1. PICK r : r = [worker[w] EXCEPT !.pc = IF page = {} THEN "finish" ELSE "wait",
                                     !.batch = page]
  OBVIOUS
<1>2. worker[w].pc = "fetch" /\ worker[w].pc \in RunPhase
  BY DEF Fetch, RunPhase
<1>3. ahead \in SUBSET Nat /\ IsFiniteSet(ahead) /\ ahead \in SUBSET Recipient
  BY RecipientAssumption, FS_Subset DEF Consistent, TypeOK
<1>4. page = FirstOf(ahead, Batch)
  BY DEF RecipientsAfter
<1>5. page \subseteq ahead /\ page \in SUBSET Recipient
  BY <1>3, <1>4 DEF FirstOf
<1>6. /\ r.pc = IF page = {} THEN "finish" ELSE "wait"
      /\ r.batch = page /\ r.proc = worker[w].proc
      /\ r.id = worker[w].id /\ r.cursor = worker[w].cursor
      /\ r \in WorkerState
  <2>1. worker[w] \in WorkerShape(RunPhase, Process, BroadcastId)
    BY <1>2, WorkerFacts DEF Consistent, WorkerState, WorkerShape, RunPhase
  <2> HIDE DEF page
  <2>2. QED
    BY <1>1, <1>5, <2>1 DEF WorkerState, WorkerShape, RunPhase
<1>7. worker' = [worker EXCEPT ![w] = r]
  BY <1>1 DEF Fetch, Consistent, TypeOK
<1>8. worker'[w] = r
  BY <1>7 DEF Consistent, TypeOK
<1>9. PICK b \in BroadcastId : b = worker[w].id
  BY <1>2, WorkerFacts DEF Consistent
<1>10. PICK c \in Cursor : c = worker[w].cursor
  BY WorkerFacts DEF Consistent
<1>11. /\ rows[b].status # "absent" /\ Passed(b, c)
       /\ rows[b].audience \subseteq users /\ rows[b].audience \subseteq Nat
  BY <1>2, <1>9, <1>10, RecipientAssumption
  DEF Consistent, Covered, WorkerCovered, RowCovered, TypeOK
<1>12. ASSUME NEW u \in rows[b].audience, u > c, u \notin page, NEW v \in page
       PROVE  v < u
  <2>1. u \in ahead
    BY <1>10, <1>11, <1>12
  <2>2. QED
    BY <1>3, <1>4, <1>12, <2>1, BatchAssumption, PageIsPrefix
<1>13. ASSUME page = {}
       PROVE  AllCalled(b)
  <2>1. ahead = {}
    BY <1>3, <1>4, <1>13, BatchAssumption, EmptyPageIsEnd
  <2>2. c \in Nat
    BY RecipientAssumption DEF Cursor
  <2>3. \A u \in rows[b].audience : u <= c
    BY <1>10, <1>11, <2>1, <2>2
  <2>4. QED
    BY <1>11, <2>3 DEF Passed, AllCalled
<1>14. UNCHANGED <<users, rows, proc, boots, calls, answered>>
  BY DEF Fetch
<1>15. WorkerCovered(w)'
  <2>1. \A v \in page : c < v
    BY <1>3, <1>5, <1>10, RecipientAssumption DEF Cursor
  <2> HIDE DEF page, ahead
  <2>2. (Passed(b, c))' /\ (page = {} => AllCalled(b)')
    BY <1>11, <1>13, <1>14 DEF Passed, AllCalled
  <2>3. QED
    BY <1>6, <1>8, <1>9, <1>10, <1>11, <1>12, <1>14, <2>1, <2>2 DEF WorkerCovered
<1>16. r.pc \in RunPhase
  BY <1>6 DEF RunPhase
<1>17. QED
  BY <1>2, <1>6, <1>7, <1>14, <1>15, <1>16, MoveConsistent

LEMMA WaitConsistent ==
  ASSUME Consistent, NEW w \in Worker, Ticks(w) \/ Pauses(w)
  PROVE  Consistent'
<1>1. worker[w].pc = "wait" /\ worker[w].pc \in RunPhase
  BY DEF Ticks, Pauses, RunPhase
<1>2. PICK pc \in {"send", "pause"} : worker' = [worker EXCEPT ![w].pc = pc]
  BY DEF Ticks, Pauses
<1>3. PICK r : r = [worker[w] EXCEPT !.pc = pc]
  OBVIOUS
<1>4. /\ r \in WorkerState /\ r.pc = pc /\ r.proc = worker[w].proc /\ r.id = worker[w].id
      /\ r.cursor = worker[w].cursor /\ r.batch = worker[w].batch
  <2>1. worker[w] \in WorkerShape(RunPhase, Process, BroadcastId)
    BY <1>1, WorkerFacts DEF Consistent, WorkerState, WorkerShape, RunPhase
  <2>2. QED
    BY <1>3, <2>1 DEF WorkerState, WorkerShape, RunPhase
<1>5. worker' = [worker EXCEPT ![w] = r] /\ worker'[w] = r
  BY <1>2, <1>3 DEF Consistent, TypeOK
<1>6. UNCHANGED <<users, rows, proc, boots, calls, answered>>
  BY DEF Ticks, Pauses
<1>7. WorkerCovered(w)'
  BY <1>1, <1>4, <1>5, <1>6 DEF WorkerCovered, Passed, AllCalled, Consistent, Covered
<1>8. pc \in RunPhase
  BY DEF RunPhase
<1>9. QED
  BY <1>1, <1>4, <1>5, <1>6, <1>7, <1>8, MoveConsistent

\* The cursor passes u only when u was called, and nobody of the audience is
\* between the old cursor and u.
LEMMA AdvanceConsistent ==
  ASSUME Consistent, NEW w \in Worker, NEW u \in Recipient, worker[w].pc = "send",
         InTurn(w, u), NEW sent \in Nat, NEW failed \in Nat, Advance(w, u, sent, failed),
         answered' \in [BroadcastId -> SUBSET Recipient]
  PROVE  Consistent'
<1>1. worker[w].pc \in RunPhase
  BY DEF RunPhase
<1>2. PICK b \in BroadcastId : b = worker[w].id
  BY <1>1, WorkerFacts DEF Consistent
<1>3. PICK c \in Cursor : c = worker[w].cursor
  BY WorkerFacts DEF Consistent
<1>4. PICK page \in SUBSET Recipient : page = worker[w].batch
  BY WorkerFacts DEF Consistent
<1>5. PICK r : r = [pc |-> IF page = {u} THEN "save" ELSE "wait", proc |-> worker[w].proc,
                    id |-> b, cursor |-> u, sent |-> worker[w].sent + sent,
                    failed |-> worker[w].failed + failed, total |-> worker[w].total,
                    batch |-> page \ {u}]
  OBVIOUS
<1>6. r \in WorkerState /\ r.pc \in RunPhase /\ r.proc = worker[w].proc
  <2>1. /\ worker[w].proc \in Process
        /\ worker[w].sent \in Nat /\ worker[w].failed \in Nat /\ worker[w].total \in Nat
    BY <1>1, WorkerFacts DEF Consistent, RunPhase
  <2>2. worker[w].sent + sent \in Nat /\ worker[w].failed + failed \in Nat
    BY <2>1
  <2>3. (page \ {u}) \in SUBSET Recipient /\ u \in Cursor
    BY DEF Cursor
  <2>4. QED
    BY <1>5, <2>1, <2>2, <2>3 DEF WorkerState, WorkerShape, RunPhase
<1>7. worker' = [worker EXCEPT ![w] = r] /\ worker'[w] = r
  BY <1>2, <1>4, <1>5 DEF Advance, Consistent, TypeOK
<1>8. UNCHANGED <<users, rows, proc, boots>> /\ calls' = [calls EXCEPT ![b][u] = @ + 1]
  BY <1>2 DEF Advance
<1>9. /\ calls' \in [BroadcastId -> [Recipient -> Nat]] /\ calls'[b][u] >= 1
      /\ \A i \in BroadcastId, v \in Recipient : calls'[i][v] >= calls[i][v]
  <2>1. calls \in [BroadcastId -> [Recipient -> Nat]]
    BY DEF Consistent, TypeOK
  <2>2. calls' \in [BroadcastId -> [Recipient -> Nat]]
    BY <1>8, <2>1
  <2>3. \A i \in BroadcastId, v \in Recipient :
          calls'[i][v] = IF i = b /\ v = u THEN calls[i][v] + 1 ELSE calls[i][v]
    BY <1>8, <2>1
  <2>4. QED
    BY <2>1, <2>2, <2>3
<1>10. TypeOK'
  BY <1>6, <1>7, <1>8, <1>9 DEF Consistent, TypeOK
<1>11. Flagged'
  BY <1>1, <1>6, <1>7, <1>8, FlaggedByMove
<1>12. Grows
  BY <1>8, <1>9 DEF Grows
<1>13. ASSUME NEW i \in BroadcastId
       PROVE  RowCovered(i)'
  <2>1. rows[i].audience \subseteq Recipient
    BY DEF Consistent, TypeOK, BroadcastRow
  <2>2. \A v \in rows[i].audience : calls[i][v] >= 1 => calls'[i][v] >= 1
    BY <1>9, <2>1 DEF Consistent, TypeOK
  <2>3. QED
    BY <1>8, <2>2 DEF RowCovered, Passed, AllCalled, Consistent, Covered
<1>14. /\ rows[b].status # "absent" /\ Passed(b, c)
       /\ rows[b].audience \subseteq Recipient /\ Recipient \subseteq Nat /\ c \in Nat
       /\ u \in page /\ \A v \in page : u <= v
       /\ \A v \in page : c < v
       /\ \A v \in rows[b].audience : v > c /\ v \notin page => \A x \in page : x < v
  BY <1>1, <1>2, <1>3, <1>4, RecipientAssumption
  DEF Consistent, Covered, WorkerCovered, TypeOK, BroadcastRow, InTurn, Cursor
<1>15. Passed(b, u)'
  <2>1. ASSUME NEW v \in rows[b].audience, v <= u
        PROVE  calls'[b][v] >= 1
    <3>1. CASE v <= c
      <4>1. calls[b][v] >= 1
        BY <1>14, <3>1 DEF Passed
      <4>2. v \in Recipient
        BY <1>14
      <4>3. QED
        BY <1>9, <4>1, <4>2 DEF Consistent, TypeOK
    <3>2. CASE v > c
      <4>1. v \in Nat /\ u \in Nat
        BY <1>14
      <4>2. v \in page
        BY <1>14, <2>1, <3>2, <4>1
      <4>3. u <= v
        BY <1>14, <4>2
      <4>4. v = u
        BY <2>1, <4>1, <4>3
      <4>5. QED
        BY <1>9, <4>4
    <3>3. QED
      BY <1>14, <3>1, <3>2
  <2>2. QED
    BY <1>8, <2>1 DEF Passed
<1>16. ASSUME NEW v \in rows[b].audience, v > u, v \notin page \ {u}, NEW x \in page \ {u}
       PROVE  x < v
  <2>1. v \notin page
    BY <1>14, <1>16
  <2>2. v > c
    <3>1. c < u /\ u \in Nat /\ v \in Nat /\ c \in Nat
      BY <1>14
    <3>2. QED
      BY <1>16, <3>1
  <2>3. QED
    BY <1>14, <1>16, <2>1, <2>2
<1>17. \A v \in page \ {u} : u < v
  BY <1>14
<1>18. WorkerCovered(w)'
  <2>1. r.id = b /\ r.cursor = u /\ r.batch = page \ {u} /\ r.pc \in {"save", "wait"}
    BY <1>5
  <2>2. QED
    BY <1>7, <1>8, <1>14, <1>15, <1>16, <1>17, <2>1 DEF WorkerCovered
<1>19. ASSUME NEW v \in Worker
       PROVE  WorkerCovered(v)'
  <2>1. CASE v = w
    BY <1>18, <2>1
  <2>2. CASE v # w
    BY <1>7, <1>10, <1>12, <2>2, CoveredStays DEF Consistent, TypeOK
  <2>3. QED
    BY <2>1, <2>2
<1>20. QED
  BY <1>10, <1>11, <1>13, <1>19 DEF Consistent, Covered

LEMMA SaveConsistent ==
  ASSUME Consistent, NEW w \in Worker, NEW ok \in BOOLEAN, Saves(w, ok)
  PROVE  Consistent'
<1>1. worker[w].pc = "save" /\ worker[w].pc \in RunPhase
  BY DEF Saves, RunPhase
<1>2. UNCHANGED <<users, proc, boots, calls, answered>> /\ rows' \in {Saved(w), rows}
  BY DEF Saves
<1>3. PICK r : r = [worker[w] EXCEPT !.pc = "fetch"]
  OBVIOUS
<1>4. /\ r \in WorkerState /\ r.pc = "fetch" /\ r.pc \in RunPhase /\ r.proc = worker[w].proc
      /\ r.id = worker[w].id /\ r.cursor = worker[w].cursor
  <2>1. worker[w] \in WorkerShape(RunPhase, Process, BroadcastId)
    BY <1>1, WorkerFacts DEF Consistent, WorkerState, WorkerShape, RunPhase
  <2>2. QED
    BY <1>3, <2>1 DEF WorkerState, WorkerShape, RunPhase
<1>5. worker' = [worker EXCEPT ![w] = r] /\ worker'[w] = r
  BY <1>3 DEF Saves, Consistent, TypeOK
<1>6. /\ rows' \in [BroadcastId -> BroadcastRow] /\ Grows
      /\ \A b \in BroadcastId : RowCovered(b)'
  <2>1. CASE rows' = Saved(w)
    BY <1>1, <1>2, <2>1, SavedCovered
  <2>2. CASE rows' = rows
    <3>1. Grows
      BY <1>2, <2>2 DEF Grows, Consistent, TypeOK
    <3>2. QED
      BY <1>2, <2>2, <3>1 DEF RowCovered, Passed, AllCalled, Consistent, Covered, TypeOK
  <2>3. QED
    BY <1>2, <2>1, <2>2
<1>7. TypeOK'
  BY <1>2, <1>4, <1>5, <1>6 DEF Consistent, TypeOK
<1>8. Flagged'
  BY <1>1, <1>2, <1>4, <1>5, FlaggedByMove
<1>9. PICK b \in BroadcastId : b = worker[w].id
  BY <1>1, WorkerFacts DEF Consistent
<1>10. PICK c \in Cursor : c = worker[w].cursor
  BY WorkerFacts DEF Consistent
<1>11. rows[b].status # "absent" /\ Passed(b, c)
  BY <1>1, <1>9, <1>10 DEF Consistent, Covered, WorkerCovered
<1>12. rows'[b].status # "absent" /\ Passed(b, c)'
  BY <1>6, <1>7, <1>11, PassedStays DEF Grows, Consistent
<1>13. WorkerCovered(w)'
  BY <1>4, <1>5, <1>9, <1>10, <1>12 DEF WorkerCovered
<1>14. ASSUME NEW v \in Worker
       PROVE  WorkerCovered(v)'
  <2>1. CASE v = w
    BY <1>13, <2>1
  <2>2. CASE v # w
    BY <1>5, <1>6, <1>7, <2>2, CoveredStays DEF Consistent, TypeOK
  <2>3. QED
    BY <2>1, <2>2
<1>15. QED
  BY <1>6, <1>7, <1>8, <1>14 DEF Consistent, Covered

\* The end of run: a failed page, a pause for shutdown, the end of the list. Only
\* a worker at the end of the list marks the row done.
LEMMA RunEndConsistent ==
  ASSUME Consistent, NEW w \in Worker, NEW ok \in BOOLEAN,
         FetchFails(w) \/ SavesPause(w, ok) \/ Finishes(w, ok)
  PROVE  Consistent'
<1>1. worker[w].pc \in RunPhase /\ worker[w].pc # "none"
  BY DEF FetchFails, SavesPause, Finishes, RunPhase
<1>2. /\ worker' = [worker EXCEPT ![w] = NoWorker]
      /\ proc' = [proc EXCEPT ![worker[w].proc].running = FALSE]
      /\ UNCHANGED <<users, boots, calls, answered>>
  BY DEF FetchFails, SavesPause, Finishes, Ends
<1>3. rows' \in {rows, Saved(w)} \/ (worker[w].pc = "finish" /\ rows' = Finished(w))
  BY DEF FetchFails, SavesPause, Finishes
<1>4. /\ rows' \in [BroadcastId -> BroadcastRow] /\ Grows
      /\ \A b \in BroadcastId : RowCovered(b)'
  <2>1. CASE rows' = Saved(w)
    BY <1>1, <1>2, <2>1, SavedCovered
  <2>2. CASE rows' = rows
    <3>1. Grows
      BY <1>2, <2>2 DEF Grows, Consistent, TypeOK
    <3>2. QED
      BY <1>2, <2>2, <3>1 DEF RowCovered, Passed, AllCalled, Consistent, Covered, TypeOK
  <2>3. CASE worker[w].pc = "finish" /\ rows' = Finished(w)
    BY <1>2, <2>3, FinishedCovered
  <2>4. QED
    BY <1>3, <2>1, <2>2, <2>3
<1>5. QED
  BY <1>1, <1>2, <1>4, EndConsistent

-----------------------------------------------------------------------------
(* The steps of Start and of processes *)

LEMMA RegisterConsistent ==
  ASSUME Consistent, NEW u \in Recipient, Register(u)
  PROVE  Consistent'
<1>1. users \subseteq users' /\ users' \in SUBSET Recipient
      /\ UNCHANGED <<rows, proc, worker, boots, calls, answered>>
  BY DEF Register, Consistent, TypeOK
<1>2. TypeOK' /\ Flagged'
  BY <1>1 DEF Consistent, TypeOK, Flagged, OneWorkerPerProcess
<1>3. Covered'
  BY <1>1 DEF Consistent, Covered, RowCovered, WorkerCovered, Passed, AllCalled
<1>4. QED
  BY <1>2, <1>3 DEF Consistent

LEMMA StartCountConsistent ==
  ASSUME Consistent, NEW p \in Process, NEW w \in Worker, StartCount(p, w)
  PROVE  Consistent'
<1>1. /\ proc[p].up /\ ~ proc[p].running /\ worker[w].pc = "none" /\ MutexFree(p)
      /\ worker' = [worker EXCEPT ![w] = Counted(p)]
      /\ UNCHANGED <<users, rows, proc, boots, calls, answered>>
  BY DEF StartCount
<1>2. Counted(p) \in WorkerState /\ Counted(p).proc = p /\ Counted(p).pc = "create"
  <2>1. IsFiniteSet(users)
    BY RecipientAssumption, FS_Subset DEF Consistent, TypeOK
  <2>2. Cardinality(users) \in Nat
    BY <2>1, FS_CardinalityType
  <2>3. QED
    BY <2>2 DEF Counted, WorkerState, WorkerShape, Cursor
<1>3. WorkersOf(p) = {}
  <2>1. \A v \in WorkersOf(p) : worker[v].pc # "none" /\ worker[v].pc # "create"
    BY <1>1, NoneAssumption, WorkerFacts DEF WorkersOf, MutexFree, Consistent
  <2>2. \A v \in WorkersOf(p) : worker[v].pc \notin RunPhase
    BY <1>1 DEF WorkersOf, Consistent, Flagged
  <2>3. QED
    BY <2>1, <2>2, WorkerFacts DEF WorkersOf, Consistent
<1>4. Flagged'
  <2>1. proc[p] \in ProcessState /\ proc' = [proc EXCEPT ![p] = proc[p]]
    BY <1>1 DEF Consistent, TypeOK
  <2>2. worker[w].proc = None
    BY <1>1, WorkerFacts DEF Consistent
  <2>3. Counted(p).pc \notin RunPhase
    BY <1>2 DEF RunPhase
  <2>4. QED
    BY <1>1, <1>2, <1>3, <2>1, <2>2, <2>3, FlaggedByStart
<1>5. TypeOK'
  BY <1>1, <1>2 DEF Consistent, TypeOK
<1>6. Grows
  BY <1>1 DEF Grows, Consistent, TypeOK
<1>7. ASSUME NEW v \in Worker
      PROVE  WorkerCovered(v)'
  <2>1. CASE v = w
    <3>1. worker'[w].pc = "create"
      BY <1>1, <1>2 DEF Consistent, TypeOK
    <3>2. QED
      BY <2>1, <3>1 DEF WorkerCovered, RunPhase
  <2>2. CASE v # w
    BY <1>1, <1>5, <1>6, <2>2, CoveredStays DEF Consistent, TypeOK
  <2>3. QED
    BY <2>1, <2>2
<1>8. \A b \in BroadcastId : RowCovered(b)'
  BY <1>1 DEF RowCovered, Passed, AllCalled, Consistent, Covered
<1>9. QED
  BY <1>4, <1>5, <1>7, <1>8 DEF Consistent, Covered

LEMMA StartFailsConsistent ==
  ASSUME Consistent, NEW w \in Worker, StartFails(w)
  PROVE  Consistent'
<1>1. /\ worker[w].pc # "none" /\ worker' = [worker EXCEPT ![w] = NoWorker]
      /\ UNCHANGED <<users, rows, proc, boots, calls, answered>>
  BY DEF StartFails
<1>2. rows' \in [BroadcastId -> BroadcastRow] /\ Grows
  BY <1>1 DEF Grows, Consistent, TypeOK
<1>3. \A b \in BroadcastId : RowCovered(b)'
  BY <1>1 DEF RowCovered, Passed, AllCalled, Consistent, Covered
<1>4. QED
  BY <1>1, <1>2, <1>3, EndConsistent

\* A new row has nobody behind its cursor.
LEMMA InsertCovered ==
  ASSUME Consistent, NEW w \in Worker, worker[w].pc = "create", NEW b \in BroadcastId,
         NextId(b), rows' = [rows EXCEPT ![b] = NewRow(w)], UNCHANGED <<users, calls>>
  PROVE  /\ rows' \in [BroadcastId -> BroadcastRow]
         /\ Grows
         /\ \A i \in BroadcastId : RowCovered(i)'
         /\ rows'[b] = NewRow(w) /\ Passed(b, 0)'
<1>1. /\ NewRow(w) \in BroadcastRow /\ NewRow(w).status = "running"
      /\ NewRow(w).cursor = 0 /\ NewRow(w).audience = users
  BY NewRowType DEF Consistent
<1>2. /\ rows' \in [BroadcastId -> BroadcastRow] /\ rows'[b] = NewRow(w)
      /\ \A i \in BroadcastId : i # b => rows'[i] = rows[i]
  BY <1>1 DEF Consistent, TypeOK
<1>3. rows[b].status = "absent"
  BY DEF NextId, NoBroadcast
<1>4. Grows
  BY <1>2, <1>3 DEF Grows, Consistent, TypeOK
<1>5. Passed(b, 0)'
  <2>1. \A u \in users : ~ (u <= 0)
    BY RecipientAssumption DEF Consistent, TypeOK
  <2>2. QED
    BY <1>1, <1>2, <2>1 DEF Passed
<1>6. ASSUME NEW i \in BroadcastId
      PROVE  RowCovered(i)'
  <2>1. CASE i = b
    BY <1>1, <1>2, <1>5, <2>1 DEF RowCovered
  <2>2. CASE i # b
    BY <1>2, <2>2 DEF RowCovered, Passed, AllCalled, Consistent, Covered
  <2>3. QED
    BY <2>1, <2>2
<1>7. QED
  BY <1>2, <1>4, <1>5, <1>6

LEMMA StartLostConsistent ==
  ASSUME Consistent, NEW w \in Worker, NEW b \in BroadcastId, StartLost(w, b)
  PROVE  Consistent'
<1>1. /\ worker[w].pc = "create" /\ NextId(b) /\ rows' = [rows EXCEPT ![b] = NewRow(w)]
      /\ worker' = [worker EXCEPT ![w] = NoWorker]
      /\ UNCHANGED <<users, proc, boots, calls, answered>>
  BY DEF StartLost
<1>2. /\ rows' \in [BroadcastId -> BroadcastRow] /\ Grows
      /\ \A i \in BroadcastId : RowCovered(i)'
  BY <1>1, InsertCovered
<1>3. worker[w].pc # "none"
  BY <1>1
<1>4. QED
  BY <1>1, <1>2, <1>3, EndConsistent

LEMMA StartCreateConsistent ==
  ASSUME Consistent, NEW w \in Worker, NEW b \in BroadcastId, StartCreate(w, b)
  PROVE  Consistent'
<1>1. /\ worker[w].pc = "create" /\ NextId(b) /\ rows' = [rows EXCEPT ![b] = NewRow(w)]
      /\ proc' = [proc EXCEPT ![worker[w].proc].running = TRUE]
      /\ worker' = [worker EXCEPT ![w] = WorkerOf(worker[w].proc, b, NewRow(w))]
      /\ UNCHANGED <<users, boots, calls, answered>>
  BY DEF StartCreate
<1>2. PICK p \in Process : p = worker[w].proc
  BY <1>1, WorkerFacts DEF Consistent
<1>3. /\ rows' \in [BroadcastId -> BroadcastRow] /\ Grows
      /\ \A i \in BroadcastId : RowCovered(i)'
      /\ rows'[b] = NewRow(w) /\ Passed(b, 0)'
  BY <1>1, InsertCovered
<1>4. /\ NewRow(w) \in BroadcastRow /\ NewRow(w).status = "running" /\ NewRow(w).cursor = 0
  BY <1>1, NewRowType DEF Consistent
<1>5. PICK r \in WorkerState : /\ r = WorkerOf(p, b, NewRow(w)) /\ r.pc = "fetch"
                               /\ r.proc = p /\ r.id = b /\ r.cursor = 0
  BY <1>4, WorkerOfType
<1>6. worker' = [worker EXCEPT ![w] = r] /\ worker'[w] = r
  BY <1>1, <1>2, <1>5 DEF Consistent, TypeOK
<1>7. PICK f \in ProcessState : /\ f.up /\ f.running
                                /\ proc' = [proc EXCEPT ![p] = f]
  <2>1. PICK f : f = [proc[p] EXCEPT !.running = TRUE]
    OBVIOUS
  <2>2. proc[p].up
    BY <1>1, <1>2 DEF Consistent, Flagged
  <2>3. proc[p] \in ProcessState
    BY DEF Consistent, TypeOK
  <2>4. f \in ProcessState /\ f.up /\ f.running
    BY <2>1, <2>2, <2>3 DEF ProcessState
  <2>5. proc' = [proc EXCEPT ![p] = f]
    BY <1>1, <1>2, <2>1 DEF Consistent, TypeOK
  <2>6. QED
    BY <2>4, <2>5
<1>8. TypeOK'
  <2>1. worker' \in [Worker -> WorkerState]
    BY <1>6 DEF Consistent, TypeOK
  <2>2. proc' \in [Process -> ProcessState]
    BY <1>7 DEF Consistent, TypeOK
  <2>3. UNCHANGED <<users, boots, calls, answered>>
    BY <1>1
  <2>4. QED
    BY <1>3, <2>1, <2>2, <2>3 DEF Consistent, TypeOK
<1>9. Flagged'
  <2>1. WorkersOf(p) \subseteq {w}
    BY <1>2 DEF WorkersOf, Consistent, Flagged, OneWorkerPerProcess
  <2>2. QED
    BY <1>2, <1>5, <1>6, <1>7, <2>1, FlaggedByStart
<1>10. ASSUME NEW v \in Worker
       PROVE  WorkerCovered(v)'
  <2>1. CASE v = w
    <3>1. rows'[b].status # "absent"
      BY <1>3, <1>4
    <3>2. QED
      BY <1>3, <1>5, <1>6, <2>1, <3>1 DEF WorkerCovered
  <2>2. CASE v # w
    BY <1>1, <1>3, <1>8, <2>2, CoveredStays DEF Consistent, TypeOK
  <2>3. QED
    BY <2>1, <2>2
<1>11. QED
  BY <1>3, <1>8, <1>9, <1>10 DEF Consistent, Covered

LEMMA BootConsistent ==
  ASSUME Consistent, NEW p \in Process, Boot(p)
  PROVE  Consistent'
<1>1. /\ ~ proc[p].up /\ boots < MaxBoots /\ boots' = boots + 1
      /\ proc' = [proc EXCEPT ![p] = Fresh]
      /\ UNCHANGED <<users, rows, worker, calls, answered>>
  BY DEF Boot
<1>2. boots' \in 0 .. MaxBoots
  BY <1>1, BootsAssumption DEF Consistent, TypeOK
<1>3. TypeOK'
  BY <1>1, <1>2 DEF Consistent, TypeOK, Fresh, ProcessState
<1>4. \A v \in Worker : worker[v].pc # "none" => worker[v].proc \in Process \ {p}
  BY <1>1, WorkerFacts DEF Consistent, Flagged
<1>5. \A v \in Worker : worker[v].pc # "none" => proc'[worker[v].proc] = proc[worker[v].proc]
  BY <1>1, <1>4 DEF Consistent, TypeOK
<1>6. \A v \in Worker : worker[v].pc \in RunPhase => worker[v].pc # "none"
  BY DEF RunPhase
<1>7. Flagged'
  BY <1>1, <1>5, <1>6 DEF Consistent, Flagged, OneWorkerPerProcess
<1>8. Covered'
  BY <1>1 DEF Consistent, Covered, RowCovered, WorkerCovered, Passed, AllCalled
<1>9. QED
  BY <1>3, <1>7, <1>8 DEF Consistent

\* A resumed worker starts from the row, whose cursor is covered.
LEMMA BootResumesConsistent ==
  ASSUME Consistent, NEW p \in Process, NEW w \in Worker, NEW b \in BroadcastId,
         BootResumes(p, w, b)
  PROVE  Consistent'
<1>1. /\ ~ proc[p].up /\ boots < MaxBoots /\ worker[w].pc = "none" /\ b \in Unfinished
      /\ boots' = boots + 1
      /\ proc' = [proc EXCEPT ![p] = [Fresh EXCEPT !.running = TRUE]]
      /\ worker' = [worker EXCEPT ![w] = WorkerOf(p, b, rows[b])]
      /\ UNCHANGED <<users, rows, calls, answered>>
  BY DEF BootResumes
<1>2. boots' \in 0 .. MaxBoots
  BY <1>1, BootsAssumption DEF Consistent, TypeOK
<1>3. rows[b] \in BroadcastRow /\ rows[b].status = "running"
  BY <1>1 DEF Consistent, TypeOK, Unfinished
<1>4. PICK r \in WorkerState : /\ r = WorkerOf(p, b, rows[b]) /\ r.pc = "fetch"
                               /\ r.proc = p /\ r.id = b /\ r.cursor = rows[b].cursor
  BY <1>3, WorkerOfType
<1>5. worker' = [worker EXCEPT ![w] = r] /\ worker'[w] = r
  BY <1>1, <1>4 DEF Consistent, TypeOK
<1>6. PICK f \in ProcessState : f = [Fresh EXCEPT !.running = TRUE] /\ f.up /\ f.running
  <2>1. PICK f : f = [Fresh EXCEPT !.running = TRUE]
    OBVIOUS
  <2>2. f = [up |-> TRUE, stopping |-> FALSE, running |-> TRUE]
    BY <2>1 DEF Fresh
  <2>3. f \in ProcessState /\ f.up /\ f.running
    BY <2>2 DEF ProcessState
  <2>4. QED
    BY <2>1, <2>3
<1>7. TypeOK'
  BY <1>1, <1>2, <1>5, <1>6 DEF Consistent, TypeOK
<1>8. Flagged'
  <2>1. WorkersOf(p) = {}
    BY <1>1, NoneAssumption, WorkerFacts DEF WorkersOf, Consistent, Flagged
  <2>2. worker[w].proc = None
    BY <1>1, WorkerFacts DEF Consistent
  <2>3. QED
    BY <1>1, <1>4, <1>5, <1>6, <2>1, <2>2, FlaggedByStart
<1>9. Grows
  BY <1>1 DEF Grows, Consistent, TypeOK
<1>10. \A i \in BroadcastId : RowCovered(i)'
  BY <1>1 DEF RowCovered, Passed, AllCalled, Consistent, Covered
<1>11. ASSUME NEW v \in Worker
       PROVE  WorkerCovered(v)'
  <2>1. CASE v = w
    <3>1. Passed(b, rows[b].cursor)
      BY DEF Consistent, Covered, RowCovered
    <3>2. (rows[b].status # "absent")' /\ Passed(b, r.cursor)'
      BY <1>1, <1>3, <1>4, <3>1 DEF Passed
    <3>3. QED
      BY <1>4, <1>5, <2>1, <3>2 DEF WorkerCovered
  <2>2. CASE v # w
    BY <1>1, <1>7, <1>9, <2>2, CoveredStays DEF Consistent, TypeOK
  <2>3. QED
    BY <2>1, <2>2
<1>12. QED
  BY <1>7, <1>8, <1>10, <1>11 DEF Consistent, Covered

LEMMA StopsConsistent ==
  ASSUME Consistent, NEW p \in Process, Stops(p)
  PROVE  Consistent'
<1>1. /\ proc' = [proc EXCEPT ![p].stopping = TRUE]
      /\ UNCHANGED <<users, rows, worker, boots, calls, answered>>
  BY DEF Stops
<1>2. TypeOK'
  BY <1>1 DEF Consistent, TypeOK, ProcessState
<1>3. \A q \in Process : proc'[q].up = proc[q].up /\ proc'[q].running = proc[q].running
  BY <1>1 DEF Consistent, TypeOK, ProcessState
<1>4. \A v \in Worker : worker[v].pc # "none" => worker[v].proc \in Process
  BY WorkerFacts DEF Consistent
<1>5. \A v \in Worker : worker[v].pc \in RunPhase => worker[v].pc # "none"
  BY DEF RunPhase
<1>6. Flagged'
  BY <1>1, <1>3, <1>4, <1>5 DEF Consistent, Flagged, OneWorkerPerProcess
<1>7. Covered'
  BY <1>1 DEF Consistent, Covered, RowCovered, WorkerCovered, Passed, AllCalled
<1>8. QED
  BY <1>2, <1>6, <1>7 DEF Consistent

\* A process that goes takes its goroutines along.
LEMMA GoneConsistent ==
  ASSUME Consistent, NEW p \in Process, Gone(p)
  PROVE  Consistent'
<1>1. /\ proc' = [proc EXCEPT ![p] = Down]
      /\ worker' = [w \in Worker |-> IF worker[w].proc = p THEN NoWorker ELSE worker[w]]
      /\ UNCHANGED <<users, rows, boots, calls, answered>>
  BY DEF Gone
<1>2. TypeOK'
  BY <1>1, NoWorkerType DEF Consistent, TypeOK, Down, ProcessState
<1>3. \A v \in Worker : worker'[v].pc # "none" => worker'[v] = worker[v] /\ worker[v].proc # p
  BY <1>1, NoWorkerType
<1>4. \A v \in Worker : worker[v].pc # "none" => worker[v].proc \in Process
  BY WorkerFacts DEF Consistent
<1>5. \A v \in Worker : worker'[v].pc # "none" => proc'[worker[v].proc] = proc[worker[v].proc]
  BY <1>1, <1>3, <1>4 DEF Consistent, TypeOK
<1>6. \A v \in Worker : worker'[v].pc \in RunPhase => worker'[v].pc # "none"
  BY DEF RunPhase
<1>7. \A v \in Worker : worker'[v].proc \in {worker[v].proc, None}
  BY <1>1, NoWorkerType
<1>8. Flagged'
  <2>1. OneWorkerPerProcess'
    BY <1>7, NoneAssumption DEF Consistent, Flagged, OneWorkerPerProcess
  <2>2. \A v \in Worker : worker'[v].pc # "none" => proc'[worker'[v].proc].up
    BY <1>3, <1>5 DEF Consistent, Flagged
  <2>3. \A v \in Worker : worker'[v].pc \in RunPhase => proc'[worker'[v].proc].running
    BY <1>3, <1>5, <1>6 DEF Consistent, Flagged
  <2>4. QED
    BY <2>1, <2>2, <2>3 DEF Flagged
<1>9. \A b \in BroadcastId : RowCovered(b)'
  BY <1>1 DEF RowCovered, Passed, AllCalled, Consistent, Covered
<1>10. Grows
  BY <1>1 DEF Grows, Consistent, TypeOK
<1>11. ASSUME NEW v \in Worker
       PROVE  WorkerCovered(v)'
  <2>1. CASE worker'[v].pc = "none"
    BY <2>1 DEF WorkerCovered, RunPhase
  <2>2. CASE worker'[v].pc # "none"
    BY <1>2, <1>3, <1>10, <2>2, CoveredStays
  <2>3. QED
    BY <2>1, <2>2
<1>12. QED
  BY <1>2, <1>8, <1>9, <1>11 DEF Consistent, Covered

-----------------------------------------------------------------------------
(* The theorems *)

LEMMA InitConsistent == Init => Consistent
<1>1. SUFFICES ASSUME Init
               PROVE  Consistent
  OBVIOUS
<1>2. NoBroadcast \in BroadcastRow /\ NoBroadcast.status = "absent" /\ NoBroadcast.audience = {}
  BY DEF NoBroadcast, BroadcastRow, Cursor
<1>3. TypeOK
  <2>1. proc \in [Process -> ProcessState] /\ worker \in [Worker -> WorkerState]
    BY <1>1, NoWorkerType DEF Init, Down, ProcessState
  <2>2. boots \in 0 .. MaxBoots
    BY <1>1, BootsAssumption DEF Init
  <2>3. calls \in [BroadcastId -> [Recipient -> Nat]]
    BY <1>1 DEF Init
  <2>4. QED
    BY <1>1, <1>2, <2>1, <2>2, <2>3 DEF Init, TypeOK
<1>4. \A w \in Worker : worker[w].pc = "none" /\ worker[w].proc = None
  BY <1>1, NoWorkerType DEF Init
<1>5. Flagged
  BY <1>4, NoneAssumption DEF Flagged, OneWorkerPerProcess, RunPhase
<1>6. Covered
  BY <1>1, <1>2, <1>4 DEF Init, Covered, RowCovered, WorkerCovered, Passed, AllCalled, RunPhase
<1>7. QED
  BY <1>3, <1>5, <1>6 DEF Consistent

LEMMA StepConsistent == Consistent /\ [Next]_vars => Consistent'
<1>1. SUFFICES ASSUME Consistent, [Next]_vars
               PROVE  Consistent'
  OBVIOUS
<1>2. CASE UNCHANGED vars
  BY <1>1, <1>2 DEF vars, Consistent, TypeOK, Flagged, OneWorkerPerProcess,
                    Covered, RowCovered, WorkerCovered, Passed, AllCalled
<1>3. ASSUME NEW w \in Worker, WorkerStep(w)
      PROVE  Consistent'
  <2>1. CASE Fetch(w)
    BY <1>1, <2>1, FetchConsistent
  <2>2. CASE Ticks(w) \/ Pauses(w)
    BY <1>1, <2>2, WaitConsistent
  <2>3. ASSUME NEW u \in Recipient, Sends(w, u) \/ Abandons(w, u)
        PROVE  Consistent'
    <3>1. worker[w].pc = "send" /\ InTurn(w, u)
      BY <2>3 DEF Sends, Abandons
    <3>2. Advance(w, u, 1, 0) \/ Advance(w, u, 0, 1)
      BY <2>3 DEF Sends, Abandons
    <3>3. answered' \in [BroadcastId -> SUBSET Recipient]
      BY <1>1, <2>3 DEF Sends, Abandons, Consistent, TypeOK
    <3>4. QED
      BY <1>1, <3>1, <3>2, <3>3, AdvanceConsistent
  <2>4. CASE Saves(w, TRUE)
    BY <1>1, <2>4, SaveConsistent
  <2>5. CASE SavesPause(w, TRUE) \/ Finishes(w, TRUE)
    BY <1>1, <2>5, RunEndConsistent
  <2>6. QED
    BY <1>3, <2>1, <2>2, <2>3, <2>4, <2>5 DEF WorkerStep
<1>4. ASSUME NEW w \in Worker, StartStep(w) \/ CancelledStep(w)
      PROVE  Consistent'
  <2>1. CASE FetchFails(w)
    BY <1>1, <2>1, RunEndConsistent
  <2>2. QED
    BY <1>1, <1>4, <2>1, StartCountConsistent, StartCreateConsistent, StartFailsConsistent,
       StartLostConsistent DEF StartStep, CancelledStep
<1>5. ASSUME NEW p \in Process, BootStep(p) \/ Stops(p) \/ Exits(p)
      PROVE  Consistent'
  BY <1>1, <1>5, BootConsistent, BootResumesConsistent, StopsConsistent, GoneConsistent
  DEF BootStep, Exits
<1>6. CASE OrderlyStep
  BY <1>1, <1>3, <1>4, <1>5, <1>6, RegisterConsistent DEF OrderlyStep
<1>7. CASE FailedQuery
  BY <1>1, <1>7, RunEndConsistent, SaveConsistent, StartLostConsistent, BootConsistent
  DEF FailedQuery
<1>8. CASE Death
  BY <1>1, <1>8, GoneConsistent DEF Death, Dies
<1>9. QED
  BY <1>1, <1>2, <1>6, <1>7, <1>8 DEF Next

LEMMA AlwaysConsistent == Spec => []Consistent
BY InitConsistent, StepConsistent, PTL DEF Spec

\* TypeOK holds of every broadcast, worker and process, whatever fails.
THEOREM BroadcastTypeCorrect == Spec => []TypeOK
<1>1. Consistent => TypeOK
  BY DEF Consistent
<1>2. QED
  BY <1>1, AlwaysConsistent, PTL

\* A broadcast marked done was attempted for everybody registered at its start, for
\* any page size and any number of overlapping processes, crashes and failed queries:
\* the code of run, persist and Finish repeats a recipient but passes over none.
THEOREM EverybodyIsReached == Spec => []AudienceReached
<1>1. Consistent => AudienceReached
  BY DEF Consistent, Covered, RowCovered, AllCalled, AudienceReached
<1>2. QED
  BY <1>1, AlwaysConsistent, PTL

\* Start, Resume and the deferred clean-up of run keep each process at one worker.
THEOREM OneWorker == Spec => []OneWorkerPerProcess
<1>1. Consistent => OneWorkerPerProcess
  BY DEF Consistent, Flagged
<1>2. QED
  BY <1>1, AlwaysConsistent, PTL

-----------------------------------------------------------------------------
(* One worker, one running broadcast *)

Runs(w, b) == worker[w].pc \in RunPhase /\ worker[w].id = b

\* A process that is up and not stopping is at work on the running broadcast; a
\* Start past its count has seen none, and a worker is never left without its row.
Sole ==
  /\ OneProcess
  /\ \A b, c \in Unfinished : b = c
  /\ \A b \in Unfinished : \A p \in Process :
       proc[p].up /\ ~ proc[p].stopping => \E w \in Worker : Runs(w, b)
  /\ \A w \in Worker : worker[w].pc = "create" => Unfinished = {}
  /\ \A w \in Worker : worker[w].pc \in RunPhase => worker[w].id \in Unfinished
  /\ \A w \in Worker : worker[w].pc = "pause" => proc[worker[w].proc].stopping

LEMMA OnlyWorker ==
  ASSUME Consistent, Sole, NEW v \in Worker, NEW w \in Worker,
         worker[v].pc # "none", worker[w].pc # "none"
  PROVE  v = w
<1>1. worker[v].proc \in Process /\ worker[w].proc \in Process
  BY WorkerFacts DEF Consistent
<1>2. worker[v].proc = worker[w].proc
  BY <1>1 DEF Sole, OneProcess
<1>3. QED
  BY <1>1, <1>2 DEF Consistent, Flagged, OneWorkerPerProcess

LEMMA RunPhaseActive == "none" \notin RunPhase /\ "create" \notin RunPhase
BY DEF RunPhase

\* A worker that goes on keeps its broadcast, and the status of every row.
LEMMA SoleByMove ==
  ASSUME Consistent, Sole, NEW w \in Worker, worker[w].pc \in RunPhase,
         NEW r \in WorkerState, r.pc \in RunPhase, r.id = worker[w].id,
         r.proc = worker[w].proc, r.pc = "pause" => proc[worker[w].proc].stopping,
         worker' = [worker EXCEPT ![w] = r],
         \A b \in BroadcastId : rows'[b].status = rows[b].status,
         UNCHANGED proc
  PROVE  Sole'
<1>1. worker'[w] = r /\ \A v \in Worker : v # w => worker'[v] = worker[v]
  BY DEF Consistent, TypeOK
<1>2. Unfinished' = Unfinished
  BY DEF Unfinished
<1>3. \A v \in Worker : \A b \in BroadcastId : Runs(v, b) => Runs(v, b)'
  BY <1>1 DEF Runs
<1>4. Unfinished \subseteq BroadcastId
  BY DEF Unfinished
<1>5. \A b \in Unfinished' : \A p \in Process :
        (proc[p].up /\ ~ proc[p].stopping)' => \E v \in Worker : Runs(v, b)'
  BY <1>2, <1>3, <1>4 DEF Sole
<1>6. \A v \in Worker : worker'[v].pc = "create" => Unfinished' = {}
  BY <1>1, <1>2, RunPhaseActive DEF Sole
<1>7. \A v \in Worker : worker'[v].pc \in RunPhase => worker'[v].id \in Unfinished'
  BY <1>1, <1>2 DEF Sole
<1>8. \A v \in Worker : worker'[v].pc = "pause" => proc'[worker'[v].proc].stopping
  BY <1>1 DEF Sole
<1>9. QED
  BY <1>2, <1>5, <1>6, <1>7, <1>8 DEF Sole, OneProcess

\* A worker that ends was told to stop, or has finished its broadcast.
LEMMA SoleByEnd ==
  ASSUME Consistent, Sole, NEW w \in Worker, worker[w].pc # "none",
         worker' = [worker EXCEPT ![w] = NoWorker],
         UNCHANGED proc \/ proc' = [proc EXCEPT ![worker[w].proc].running = FALSE],
         \/ Unfinished' = {}
         \/ /\ proc[worker[w].proc].stopping
            /\ \A b, c \in Unfinished' : b = c
  PROVE  Sole'
<1>1. worker'[w] = NoWorker /\ \A v \in Worker : v # w => worker'[v] = worker[v]
  BY DEF Consistent, TypeOK
<1>2. \A v \in Worker : worker'[v].pc = "none"
  <2>1. \A v \in Worker : v # w => worker[v].pc = "none"
    BY OnlyWorker
  <2>2. QED
    BY <1>1, <2>1, NoWorkerType
<1>3. \A p \in Process : proc'[p].stopping = proc[p].stopping
  BY DEF Consistent, TypeOK, ProcessState
<1>4. \A b \in Unfinished' : \A p \in Process : ~ (proc'[p].up /\ ~ proc'[p].stopping)
  <2>1. CASE Unfinished' = {}
    BY <2>1
  <2>2. CASE proc[worker[w].proc].stopping
    <3>1. worker[w].proc \in Process
      BY WorkerFacts DEF Consistent
    <3>2. \A p \in Process : p = worker[w].proc
      BY <3>1 DEF Sole, OneProcess
    <3>3. QED
      BY <1>3, <2>2, <3>2
  <2>3. QED
    BY <2>1, <2>2
<1>5. \A b, c \in Unfinished' : b = c
  OBVIOUS
<1>6. \A v \in Worker : worker'[v].pc \notin RunPhase /\ worker'[v].pc # "pause"
                        /\ worker'[v].pc # "create"
  BY <1>2, RunPhaseActive
<1>7. QED
  BY <1>4, <1>5, <1>6 DEF Sole, OneProcess

LEMMA SoleByFrame ==
  ASSUME Sole, UNCHANGED <<rows, worker>>,
         \A p \in Process : /\ proc'[p].up = proc[p].up
                            /\ proc[p].stopping => proc'[p].stopping,
         Consistent
  PROVE  Sole'
<1>1. Unfinished' = Unfinished
  BY DEF Unfinished
<1>2. \A v \in Worker : worker[v].pc = "pause" => worker[v].proc \in Process
  BY WorkerFacts DEF Consistent
<1>3. \A v \in Worker : worker'[v].pc = "pause" => proc'[worker'[v].proc].stopping
  BY <1>2 DEF Sole
<1>4. \A b \in Unfinished' : \A p \in Process :
        (proc[p].up /\ ~ proc[p].stopping)' => \E v \in Worker : Runs(v, b)'
  BY <1>1 DEF Sole, Runs
<1>5. QED
  BY <1>1, <1>3, <1>4 DEF Sole, OneProcess

LEMMA StartCountSole ==
  ASSUME Consistent, Sole, NEW p \in Process, NEW w \in Worker, StartCount(p, w)
  PROVE  Sole'
<1>1. /\ proc[p].up /\ ~ proc[p].stopping /\ ~ proc[p].running /\ worker[w].pc = "none"
      /\ MutexFree(p)
      /\ worker' = [worker EXCEPT ![w] = Counted(p)]
      /\ UNCHANGED <<users, rows, proc, boots, calls, answered>>
  BY DEF StartCount
<1>2. worker'[w] = Counted(p) /\ \A v \in Worker : v # w => worker'[v] = worker[v]
  BY <1>1 DEF Consistent, TypeOK
<1>3. \A v \in Worker : worker[v].pc \notin RunPhase
  <2>1. ASSUME NEW v \in Worker, worker[v].pc \in RunPhase
        PROVE  FALSE
    <3>1. worker[v].proc \in Process
      BY <2>1, WorkerFacts, RunPhaseActive DEF Consistent
    <3>2. worker[v].proc = p
      BY <3>1 DEF Sole, OneProcess
    <3>3. QED
      BY <1>1, <2>1, <3>2 DEF Consistent, Flagged
  <2>2. QED
    BY <2>1
<1>4. Unfinished = {}
  BY <1>1, <1>3 DEF Sole, Runs
<1>5. Unfinished' = {}
  BY <1>1, <1>4 DEF Unfinished
<1>6. \A v \in Worker : worker'[v].pc \notin RunPhase /\ worker'[v].pc # "pause"
  BY <1>2, <1>3, RunPhaseActive DEF Counted, RunPhase
<1>7. QED
  BY <1>1, <1>5, <1>6 DEF Sole, OneProcess

\* A row is inserted while none is running.
LEMMA InsertUnfinished ==
  ASSUME Consistent, Sole, NEW w \in Worker, worker[w].pc = "create",
         NEW b \in BroadcastId, rows' = [rows EXCEPT ![b] = NewRow(w)]
  PROVE  Unfinished' = {b}
<1>1. Unfinished = {}
  BY DEF Sole
<1>2. rows'[b].status = "running" /\ \A c \in BroadcastId : c # b => rows'[c] = rows[c]
  BY NewRowType DEF Consistent, TypeOK
<1>3. QED
  BY <1>1, <1>2 DEF Unfinished

LEMMA StartCreateSole ==
  ASSUME Consistent, Sole, NEW w \in Worker, NEW b \in BroadcastId, StartCreate(w, b)
  PROVE  Sole'
<1>1. /\ worker[w].pc = "create" /\ rows' = [rows EXCEPT ![b] = NewRow(w)]
      /\ worker' = [worker EXCEPT ![w] = WorkerOf(worker[w].proc, b, NewRow(w))]
  BY DEF StartCreate
<1>2. Unfinished' = {b}
  BY <1>1, InsertUnfinished
<1>3. worker'[w] = WorkerOf(worker[w].proc, b, NewRow(w))
      /\ \A v \in Worker : v # w => worker'[v] = worker[v]
  BY <1>1 DEF Consistent, TypeOK
<1>4. worker'[w].pc = "fetch" /\ worker'[w].id = b
  BY <1>3 DEF WorkerOf
<1>5. \A v \in Worker : v # w => worker'[v].pc = "none"
  BY <1>1, <1>3, OnlyWorker
<1>6. \E v \in Worker : Runs(v, b)'
  BY <1>4 DEF Runs, RunPhase
<1>7. \A v \in Worker : /\ worker'[v].pc # "create" /\ worker'[v].pc # "pause"
                        /\ worker'[v].pc \in RunPhase => worker'[v].id = b
  BY <1>4, <1>5, RunPhaseActive
<1>8. QED
  BY <1>2, <1>6, <1>7 DEF Sole, OneProcess

LEMMA BootSole ==
  ASSUME Consistent, Sole, NEW p \in Process, Unfinished = {}, Boot(p)
  PROVE  Sole'
<1>1. ~ proc[p].up /\ UNCHANGED <<rows, worker>>
  BY DEF Boot
<1>2. \A v \in Worker : worker[v].pc = "none"
  <2>1. ASSUME NEW v \in Worker, worker[v].pc # "none"
        PROVE  FALSE
    <3>1. worker[v].proc \in Process
      BY <2>1, WorkerFacts DEF Consistent
    <3>2. worker[v].proc = p
      BY <3>1 DEF Sole, OneProcess
    <3>3. QED
      BY <1>1, <2>1, <3>2 DEF Consistent, Flagged
  <2>2. QED
    BY <2>1
<1>3. Unfinished' = {}
  BY <1>1 DEF Unfinished
<1>4. \A v \in Worker : worker'[v].pc \notin RunPhase /\ worker'[v].pc # "pause"
                        /\ worker'[v].pc # "create"
  BY <1>1, <1>2, RunPhaseActive
<1>5. QED
  BY <1>3, <1>4 DEF Sole, OneProcess

LEMMA BootResumesSole ==
  ASSUME Consistent, Sole, NEW p \in Process, NEW w \in Worker, NEW b \in BroadcastId,
         BootResumes(p, w, b)
  PROVE  Sole'
<1>1. /\ ~ proc[p].up /\ b \in Unfinished
      /\ worker' = [worker EXCEPT ![w] = WorkerOf(p, b, rows[b])]
      /\ UNCHANGED rows
  BY DEF BootResumes
<1>2. \A v \in Worker : worker[v].pc = "none"
  <2>1. ASSUME NEW v \in Worker, worker[v].pc # "none"
        PROVE  FALSE
    <3>1. worker[v].proc \in Process
      BY <2>1, WorkerFacts DEF Consistent
    <3>2. worker[v].proc = p
      BY <3>1 DEF Sole, OneProcess
    <3>3. QED
      BY <1>1, <2>1, <3>2 DEF Consistent, Flagged
  <2>2. QED
    BY <2>1
<1>3. Unfinished' = Unfinished /\ \A c \in Unfinished : c = b
  BY <1>1 DEF Unfinished, Sole
<1>4. worker'[w] = WorkerOf(p, b, rows[b])
      /\ \A v \in Worker : v # w => worker'[v] = worker[v]
  BY <1>1 DEF Consistent, TypeOK
<1>5. worker'[w].pc = "fetch" /\ worker'[w].id = b
  BY <1>4 DEF WorkerOf
<1>6. \E v \in Worker : Runs(v, b)'
  BY <1>5 DEF Runs, RunPhase
<1>7. \A v \in Worker : /\ worker'[v].pc # "create" /\ worker'[v].pc # "pause"
                        /\ worker'[v].pc \in RunPhase => worker'[v].id = b
  BY <1>2, <1>4, <1>5, RunPhaseActive
<1>8. QED
  BY <1>1, <1>3, <1>6, <1>7 DEF Sole, OneProcess

LEMMA GoneSole ==
  ASSUME Consistent, Sole, NEW p \in Process, Gone(p)
  PROVE  Sole'
<1>1. /\ proc' = [proc EXCEPT ![p] = Down]
      /\ worker' = [w \in Worker |-> IF worker[w].proc = p THEN NoWorker ELSE worker[w]]
      /\ UNCHANGED rows
  BY DEF Gone
<1>2. \A q \in Process : ~ proc'[q].up
  <2>1. \A q \in Process : q = p
    BY DEF Sole, OneProcess
  <2>2. QED
    BY <1>1, <2>1 DEF Consistent, TypeOK, Down
<1>3. \A v \in Worker : worker'[v].pc = "none"
  <2>1. ASSUME NEW v \in Worker, worker[v].pc # "none"
        PROVE  worker[v].proc = p
    <3>1. worker[v].proc \in Process
      BY <2>1, WorkerFacts DEF Consistent
    <3>2. QED
      BY <3>1 DEF Sole, OneProcess
  <2>2. QED
    BY <1>1, <2>1, NoWorkerType
<1>4. Unfinished' = Unfinished
  BY <1>1 DEF Unfinished
<1>5. \A v \in Worker : worker'[v].pc \notin RunPhase /\ worker'[v].pc # "pause"
                        /\ worker'[v].pc # "create"
  BY <1>3, RunPhaseActive
<1>6. QED
  BY <1>2, <1>4, <1>5 DEF Sole, OneProcess

-----------------------------------------------------------------------------
(* What the steps of a worker do to it and to its row *)

\* w goes on with the same broadcast, in the same process, as r.
Moved(w, r) ==
  /\ worker[w].pc \in RunPhase
  /\ r \in WorkerState /\ r.pc \in RunPhase
  /\ r.id = worker[w].id /\ r.proc = worker[w].proc
  /\ worker' = [worker EXCEPT ![w] = r]

LEMMA RunningShape ==
  ASSUME TypeOK, NEW w \in Worker, worker[w].pc \in RunPhase
  PROVE  worker[w] \in WorkerShape(RunPhase, Process, BroadcastId)
BY WorkerFacts DEF WorkerState, WorkerShape, RunPhase

LEMMA FetchMoved ==
  ASSUME Consistent, NEW w \in Worker, Fetch(w)
  PROVE  \E r : /\ Moved(w, r)
                /\ r.pc = IF r.batch = {} THEN "finish" ELSE "wait"
                /\ r.batch = RecipientsAfter(worker[w].cursor)
                /\ r.cursor = worker[w].cursor
                /\ r.sent = worker[w].sent /\ r.failed = worker[w].failed
<1> DEFINE page == RecipientsAfter(worker[w].cursor)
<1>1. PICK r : r = [worker[w] EXCEPT !.pc = IF page = {} THEN "finish" ELSE "wait",
                                     !.batch = page]
  OBVIOUS
<1>2. worker[w].pc \in RunPhase /\ worker' = [worker EXCEPT ![w] = r]
  BY <1>1 DEF Fetch, RunPhase, Consistent, TypeOK
<1>3. page \in SUBSET Recipient
  BY DEF RecipientsAfter, FirstOf, Consistent, TypeOK
<1>4. worker[w] \in WorkerShape(RunPhase, Process, BroadcastId)
  BY <1>2, RunningShape DEF Consistent
<1> HIDE DEF page
<1>5. /\ r \in WorkerState /\ r.pc = IF page = {} THEN "finish" ELSE "wait"
      /\ r.batch = page /\ r.id = worker[w].id /\ r.proc = worker[w].proc
      /\ r.cursor = worker[w].cursor /\ r.sent = worker[w].sent
      /\ r.failed = worker[w].failed /\ r.pc \in RunPhase
  BY <1>1, <1>3, <1>4 DEF WorkerState, WorkerShape, RunPhase
<1>6. Moved(w, r)
  BY <1>2, <1>5 DEF Moved
<1>7. QED
  BY <1>5, <1>6 DEF page

LEMMA WaitMoved ==
  ASSUME Consistent, NEW w \in Worker, Ticks(w) \/ Pauses(w)
  PROVE  \E r : /\ Moved(w, r)
                /\ r.pc \in {"send", "pause"}
                /\ r.pc = "pause" => proc[worker[w].proc].stopping
                /\ r.batch = worker[w].batch /\ r.cursor = worker[w].cursor
                /\ r.sent = worker[w].sent /\ r.failed = worker[w].failed
<1>1. PICK pc \in {"send", "pause"} : /\ worker' = [worker EXCEPT ![w].pc = pc]
                                      /\ pc = "pause" => proc[worker[w].proc].stopping
  BY DEF Ticks, Pauses
<1>2. worker[w].pc \in RunPhase
  BY DEF Ticks, Pauses, RunPhase
<1>3. PICK r : r = [worker[w] EXCEPT !.pc = pc]
  OBVIOUS
<1>4. worker' = [worker EXCEPT ![w] = r]
  BY <1>1, <1>3 DEF Consistent, TypeOK
<1>5. worker[w] \in WorkerShape(RunPhase, Process, BroadcastId)
  BY <1>2, RunningShape DEF Consistent
<1>6. /\ r \in WorkerState /\ r.pc = pc /\ r.pc \in RunPhase
      /\ r.batch = worker[w].batch /\ r.id = worker[w].id /\ r.proc = worker[w].proc
      /\ r.cursor = worker[w].cursor /\ r.sent = worker[w].sent
      /\ r.failed = worker[w].failed
  BY <1>3, <1>5 DEF WorkerState, WorkerShape, RunPhase
<1>7. Moved(w, r)
  BY <1>2, <1>4, <1>6 DEF Moved
<1>8. QED
  BY <1>1, <1>6, <1>7

LEMMA AdvanceMoved ==
  ASSUME Consistent, NEW w \in Worker, NEW u \in Recipient, worker[w].pc = "send",
         NEW sent \in Nat, NEW failed \in Nat, Advance(w, u, sent, failed)
  PROVE  \E r : /\ Moved(w, r)
                /\ r.pc \in {"save", "wait"}
                /\ r.batch = worker[w].batch \ {u} /\ r.cursor = u
                /\ r.sent = worker[w].sent + sent /\ r.failed = worker[w].failed + failed
<1>1. PICK r : r = [pc |-> IF worker[w].batch = {u} THEN "save" ELSE "wait",
                    proc |-> worker[w].proc, id |-> worker[w].id, cursor |-> u,
                    sent |-> worker[w].sent + sent, failed |-> worker[w].failed + failed,
                    total |-> worker[w].total, batch |-> worker[w].batch \ {u}]
  OBVIOUS
<1>2. worker' = [worker EXCEPT ![w] = r]
  BY <1>1 DEF Advance
<1>3. worker[w].pc \in RunPhase
  BY DEF RunPhase
<1>4. /\ worker[w].proc \in Process /\ worker[w].id \in BroadcastId
      /\ worker[w].sent + sent \in Nat /\ worker[w].failed + failed \in Nat
      /\ worker[w].total \in Nat /\ (worker[w].batch \ {u}) \in SUBSET Recipient
      /\ u \in Cursor
  <2>1. /\ worker[w].proc \in Process /\ worker[w].id \in BroadcastId
        /\ worker[w].sent \in Nat /\ worker[w].failed \in Nat /\ worker[w].total \in Nat
        /\ worker[w].batch \in SUBSET Recipient
    BY <1>3, WorkerFacts, RunPhaseActive DEF Consistent
  <2>2. worker[w].sent + sent \in Nat /\ worker[w].failed + failed \in Nat
    BY <2>1
  <2>3. QED
    BY <2>1, <2>2 DEF Cursor
<1>5. r \in WorkerState /\ r.pc \in {"save", "wait"}
  BY <1>1, <1>4 DEF WorkerState, WorkerShape, RunPhase
<1>6. Moved(w, r)
  BY <1>1, <1>2, <1>3, <1>5 DEF Moved, RunPhase
<1>7. QED
  BY <1>1, <1>5, <1>6

LEMMA SavesMoved ==
  ASSUME Consistent, NEW w \in Worker, Saves(w, TRUE)
  PROVE  \E r : /\ Moved(w, r)
                /\ r.pc = "fetch" /\ r.cursor = worker[w].cursor
                /\ r.sent = worker[w].sent /\ r.failed = worker[w].failed
<1>1. PICK r : r = [worker[w] EXCEPT !.pc = "fetch"]
  OBVIOUS
<1>2. worker[w].pc \in RunPhase /\ worker' = [worker EXCEPT ![w] = r]
  BY <1>1 DEF Saves, RunPhase, Consistent, TypeOK
<1>3. worker[w] \in WorkerShape(RunPhase, Process, BroadcastId)
  BY <1>2, RunningShape DEF Consistent
<1>4. /\ r \in WorkerState /\ r.pc = "fetch" /\ r.pc \in RunPhase
      /\ r.id = worker[w].id /\ r.proc = worker[w].proc
      /\ r.cursor = worker[w].cursor /\ r.sent = worker[w].sent
      /\ r.failed = worker[w].failed
  BY <1>1, <1>3 DEF WorkerState, WorkerShape, RunPhase
<1>5. Moved(w, r)
  BY <1>2, <1>4 DEF Moved
<1>6. QED
  BY <1>4, <1>5

\* What persist writes: the cursor and the counters of w, in its row only.
LEMMA SavedRow ==
  ASSUME Consistent, NEW w \in Worker, worker[w].pc \in RunPhase, rows' = Saved(w)
  PROVE  /\ rows'[worker[w].id].cursor = worker[w].cursor
         /\ rows'[worker[w].id].sent = worker[w].sent
         /\ rows'[worker[w].id].failed = worker[w].failed
         /\ \A b \in BroadcastId : /\ rows'[b].status = rows[b].status
                                   /\ rows'[b].audience = rows[b].audience
                                   /\ b # worker[w].id => rows'[b] = rows[b]
<1>1. PICK b \in BroadcastId : b = worker[w].id
  BY WorkerFacts DEF Consistent
<1>2. rows[b] \in BroadcastRow
  BY DEF Consistent, TypeOK
<1>3. PICK r : r = [rows[b] EXCEPT !.cursor = worker[w].cursor, !.sent = worker[w].sent,
                                   !.failed = worker[w].failed]
  OBVIOUS
<1>4. /\ r.cursor = worker[w].cursor /\ r.sent = worker[w].sent
      /\ r.failed = worker[w].failed /\ r.status = rows[b].status
      /\ r.audience = rows[b].audience
  BY <1>2, <1>3 DEF BroadcastRow
<1>5. rows' = [rows EXCEPT ![b] = r]
  BY <1>1, <1>3 DEF Saved, Consistent, TypeOK
<1>6. QED
  BY <1>1, <1>4, <1>5 DEF Consistent, TypeOK

\* What Finish writes: the status and the counters of w, in its row only.
LEMMA FinishedRow ==
  ASSUME Consistent, NEW w \in Worker, worker[w].pc \in RunPhase, rows' = Finished(w)
  PROVE  /\ rows'[worker[w].id].status = "done"
         /\ rows'[worker[w].id].sent = worker[w].sent
         /\ rows'[worker[w].id].failed = worker[w].failed
         /\ \A b \in BroadcastId : /\ rows'[b].audience = rows[b].audience
                                   /\ b # worker[w].id => rows'[b] = rows[b]
<1>1. PICK b \in BroadcastId : b = worker[w].id
  BY WorkerFacts DEF Consistent
<1>2. rows[b] \in BroadcastRow
  BY DEF Consistent, TypeOK
<1>3. PICK r : r = [rows[b] EXCEPT !.status = "done", !.sent = worker[w].sent,
                                   !.failed = worker[w].failed]
  OBVIOUS
<1>4. /\ r.sent = worker[w].sent /\ r.failed = worker[w].failed /\ r.status = "done"
      /\ r.audience = rows[b].audience
  BY <1>2, <1>3 DEF BroadcastRow
<1>5. rows' = [rows EXCEPT ![b] = r]
  BY <1>1, <1>3 DEF Finished, Consistent, TypeOK
<1>6. QED
  BY <1>1, <1>4, <1>5 DEF Consistent, TypeOK

\* Whoever else there is does nothing, before and after.
LEMMA MovedAlone ==
  ASSUME Consistent, Sole, NEW w \in Worker, NEW r, Moved(w, r)
  PROVE  /\ worker'[w] = r
         /\ \A v \in Worker : v # w => worker[v].pc = "none" /\ worker'[v] = worker[v]
         /\ worker[w].id \in BroadcastId /\ rows[worker[w].id].status = "running"
<1>1. worker[w].pc \in RunPhase
  BY DEF Moved
<1>2. worker'[w] = r /\ \A v \in Worker : v # w => worker'[v] = worker[v]
  BY DEF Moved, Consistent, TypeOK
<1>3. \A v \in Worker : v # w => worker[v].pc = "none"
  BY <1>1, RunPhaseActive, OnlyWorker
<1>4. worker[w].id \in Unfinished
  BY <1>1 DEF Sole
<1>5. QED
  BY <1>2, <1>3, <1>4 DEF Unfinished

-----------------------------------------------------------------------------
(* Sole is inductive *)

LEMMA WorkerStepSole ==
  ASSUME Consistent, Sole, NEW w \in Worker, WorkerStep(w)
  PROVE  Sole'
<1>1. CASE Fetch(w)
  <2>1. PICK r : Moved(w, r) /\ r.pc # "pause"
    BY <1>1, FetchMoved
  <2>2. UNCHANGED <<rows, proc>>
    BY <1>1 DEF Fetch
  <2>3. QED
    BY <2>1, <2>2, SoleByMove DEF Moved
<1>2. CASE Ticks(w) \/ Pauses(w)
  <2>1. PICK r : Moved(w, r) /\ (r.pc = "pause" => proc[worker[w].proc].stopping)
    BY <1>2, WaitMoved
  <2>2. UNCHANGED <<rows, proc>>
    BY <1>2 DEF Ticks, Pauses
  <2>3. QED
    BY <2>1, <2>2, SoleByMove DEF Moved
<1>3. ASSUME NEW u \in Recipient, Sends(w, u) \/ Abandons(w, u)
      PROVE  Sole'
  <2>1. worker[w].pc = "send" /\ (Advance(w, u, 1, 0) \/ Advance(w, u, 0, 1))
    BY <1>3 DEF Sends, Abandons
  <2>2. PICK r : Moved(w, r) /\ r.pc # "pause"
    BY <2>1, AdvanceMoved
  <2>3. UNCHANGED <<rows, proc>>
    BY <2>1 DEF Advance
  <2>4. QED
    BY <2>2, <2>3, SoleByMove DEF Moved
<1>4. CASE Saves(w, TRUE)
  <2>1. PICK r : Moved(w, r) /\ r.pc # "pause"
    BY <1>4, SavesMoved
  <2>2. worker[w].pc \in RunPhase /\ rows' = Saved(w) /\ UNCHANGED proc
    BY <1>4, <2>1 DEF Saves, Moved
  <2>3. \A b \in BroadcastId : rows'[b].status = rows[b].status
    BY <2>2, SavedRow
  <2>4. QED
    BY <2>1, <2>2, <2>3, SoleByMove DEF Moved
<1>5. CASE SavesPause(w, TRUE)
  <2>1. /\ worker[w].pc = "pause" /\ worker[w].pc \in RunPhase /\ worker[w].pc # "none"
        /\ rows' = Saved(w) /\ Ends(w)
    BY <1>5 DEF SavesPause, RunPhase
  <2>2. Unfinished' = Unfinished
    BY <2>1, SavedRow DEF Unfinished
  <2>3. proc[worker[w].proc].stopping /\ \A b, c \in Unfinished' : b = c
    BY <2>1, <2>2 DEF Sole
  <2>4. QED
    BY <2>1, <2>3, SoleByEnd DEF Ends
<1>6. CASE Finishes(w, TRUE)
  <2>1. /\ worker[w].pc \in RunPhase /\ worker[w].pc # "none"
        /\ rows' = Finished(w) /\ Ends(w)
    BY <1>6 DEF Finishes, RunPhase
  <2>2. worker[w].id \in Unfinished /\ \A b \in Unfinished : b = worker[w].id
    BY <2>1 DEF Sole
  <2>3. Unfinished' = {}
    BY <2>1, <2>2, FinishedRow DEF Unfinished
  <2>4. QED
    BY <2>1, <2>3, SoleByEnd DEF Ends
<1>7. QED
  BY <1>1, <1>2, <1>3, <1>4, <1>5, <1>6 DEF WorkerStep

LEMMA StartFailsSole ==
  ASSUME Consistent, Sole, NEW w \in Worker, StartFails(w)
  PROVE  Sole'
<1>1. /\ worker[w].pc = "create" /\ worker[w].pc # "none" /\ UNCHANGED <<rows, proc>>
      /\ worker' = [worker EXCEPT ![w] = NoWorker]
  BY DEF StartFails
<1>2. Unfinished' = {}
  BY <1>1 DEF Sole, Unfinished
<1>3. QED
  BY <1>1, <1>2, SoleByEnd

LEMMA CancelledStepSole ==
  ASSUME Consistent, Sole, NEW w \in Worker, CancelledStep(w)
  PROVE  Sole'
<1>1. worker[w].pc # "none" /\ proc[worker[w].proc].stopping
  BY DEF CancelledStep
<1>2. CASE FetchFails(w)
  <2>1. Unfinished' = Unfinished /\ Ends(w)
    BY <1>2 DEF FetchFails, Unfinished
  <2>2. \A b, c \in Unfinished' : b = c
    BY <2>1 DEF Sole
  <2>3. QED
    BY <1>1, <2>1, <2>2, SoleByEnd DEF Ends
<1>3. CASE StartFails(w)
  BY <1>3, StartFailsSole
<1>4. ASSUME NEW b \in BroadcastId, StartLost(w, b)
      PROVE  Sole'
  <2>1. /\ worker[w].pc = "create" /\ rows' = [rows EXCEPT ![b] = NewRow(w)]
        /\ worker' = [worker EXCEPT ![w] = NoWorker] /\ UNCHANGED proc
    BY <1>4 DEF StartLost
  <2>2. Unfinished' = {b}
    BY <2>1, InsertUnfinished
  <2>3. QED
    BY <1>1, <2>1, <2>2, SoleByEnd
<1>5. QED
  BY <1>2, <1>3, <1>4 DEF CancelledStep

LEMMA OrderlyStepSole ==
  ASSUME Consistent, Sole, OrderlyStep
  PROVE  Sole'
<1>1. ASSUME NEW u \in Recipient, Register(u)
      PROVE  Sole'
  <2>1. UNCHANGED <<rows, worker, proc>>
    BY <1>1 DEF Register
  <2>2. QED
    BY <2>1, SoleByFrame
<1>2. ASSUME NEW w \in Worker, StartStep(w)
      PROVE  Sole'
  BY <1>2, StartCountSole, StartCreateSole, StartFailsSole DEF StartStep
<1>3. ASSUME NEW p \in Process, BootStep(p)
      PROVE  Sole'
  BY <1>3, BootSole, BootResumesSole DEF BootStep
<1>4. ASSUME NEW p \in Process, Stops(p)
      PROVE  Sole'
  <2>1. proc' = [proc EXCEPT ![p].stopping = TRUE] /\ UNCHANGED <<rows, worker>>
    BY <1>4 DEF Stops
  <2>2. \A q \in Process : /\ proc'[q].up = proc[q].up
                           /\ proc[q].stopping => proc'[q].stopping
    BY <2>1 DEF Consistent, TypeOK, ProcessState
  <2>3. QED
    BY <2>1, <2>2, SoleByFrame
<1>5. QED
  BY <1>1, <1>2, <1>3, <1>4, WorkerStepSole, CancelledStepSole, GoneSole
  DEF OrderlyStep, Exits

\* One broadcast at a time: no action of one process makes a second running row.
LEMMA LastingStepSole ==
  ASSUME Consistent, Sole, LastingStep
  PROVE  Sole'
BY OrderlyStepSole, GoneSole DEF LastingStep, Death, Dies

-----------------------------------------------------------------------------
(* The counters *)

Behind(S, c) == {u \in S : u <= c}

\* n lies between those of b's audience and those of the users that c has passed.
Tally(b, c, n) ==
  /\ Cardinality(Behind(rows[b].audience, c)) <= n
  /\ n <= Cardinality(Behind(users, c))

RowTallied(b) ==
  /\ rows[b].status = "running" => Tally(b, rows[b].cursor, rows[b].sent + rows[b].failed)
  /\ rows[b].status = "done" =>
       /\ Cardinality(rows[b].audience) <= rows[b].sent + rows[b].failed
       /\ rows[b].sent + rows[b].failed <= Cardinality(users)

\* A page holds users, and at the end of the list the cursor is past the audience.
WorkerTallied(w) ==
  LET r == worker[w] IN
  r.pc \in RunPhase =>
    /\ Tally(r.id, r.cursor, r.sent + r.failed)
    /\ r.pc \in {"wait", "send"} => r.batch \subseteq users
    /\ r.pc = "finish" => \A u \in rows[r.id].audience : u <= r.cursor

Tallied == (\A b \in BroadcastId : RowTallied(b)) /\ (\A w \in Worker : WorkerTallied(w))

\* Sets of recipients are finite sets of naturals.
LEMMA RecipientsFinite ==
  ASSUME NEW S, S \subseteq Recipient
  PROVE  IsFiniteSet(S) /\ Cardinality(S) \in Nat /\ S \subseteq Nat
<1>1. IsFiniteSet(Recipient) /\ Recipient \subseteq Nat
  BY RecipientAssumption
<1>2. IsFiniteSet(S)
  BY <1>1, FS_Subset
<1>3. QED
  BY <1>1, <1>2, FS_CardinalityType

LEMMA CursorNat == Cursor \subseteq Nat
BY RecipientAssumption DEF Cursor

LEMMA RecipientsGrow ==
  ASSUME NEW S, NEW T, S \subseteq T, T \subseteq Recipient
  PROVE  Cardinality(S) <= Cardinality(T)
BY RecipientsFinite, FS_Subset

\* New users are never behind the count's upper end.
LEMMA TallyStays ==
  ASSUME TypeOK, TypeOK', users \subseteq users', NEW b \in BroadcastId,
         rows'[b].audience = rows[b].audience, NEW c \in Cursor, NEW n \in Nat, Tally(b, c, n)
  PROVE  Tally(b, c, n)'
<1>1. users' \subseteq Recipient
  BY DEF TypeOK
<1>2. Behind(users, c) \subseteq Behind(users', c) /\ Behind(users', c) \subseteq Recipient
  BY <1>1 DEF Behind
<1>3. Cardinality(Behind(users, c)) <= Cardinality(Behind(users', c))
  BY <1>2, RecipientsGrow
<1>4. /\ Cardinality(Behind(users, c)) \in Nat /\ Cardinality(Behind(users', c)) \in Nat
  BY <1>2, RecipientsFinite
<1>5. Cardinality(Behind(users, c))' = Cardinality(Behind(users', c))
  OBVIOUS
<1>6. QED
  BY <1>3, <1>4, <1>5 DEF Tally

LEMMA RowValues ==
  ASSUME TypeOK, NEW b \in BroadcastId
  PROVE  /\ rows[b].cursor \in Cursor /\ rows[b].sent + rows[b].failed \in Nat
         /\ rows[b].sent \in Nat /\ rows[b].failed \in Nat
         /\ rows[b].audience \subseteq Recipient
         /\ rows[b].status \in {"absent", "running", "done"}
<1>1. rows[b] \in BroadcastRow
  BY DEF TypeOK
<1>2. rows[b].sent \in Nat /\ rows[b].failed \in Nat
  BY <1>1 DEF BroadcastRow
<1>3. QED
  BY <1>1, <1>2 DEF BroadcastRow

\* A step disturbs only the rows and workers it changes.
LEMMA TalliedByParts ==
  ASSUME Consistent, TypeOK', Tallied, users \subseteq users',
         \A b \in BroadcastId :
           rows[b].status # "absent" => rows'[b].audience = rows[b].audience,
         \A b \in BroadcastId : rows'[b] = rows[b] \/ RowTallied(b)',
         \A w \in Worker : \/ worker'[w] = worker[w]
                           \/ worker'[w].pc \notin RunPhase
                           \/ WorkerTallied(w)'
  PROVE  Tallied'
<1>1. ASSUME NEW b \in BroadcastId, rows'[b] = rows[b]
      PROVE  RowTallied(b)'
  <2>1. RowTallied(b) /\ rows'[b].audience = rows[b].audience
    BY <1>1 DEF Tallied
  <2>2. PICK c \in Cursor : c = rows[b].cursor
    BY RowValues DEF Consistent
  <2>3. PICK n \in Nat : n = rows[b].sent + rows[b].failed
    BY RowValues DEF Consistent
  <2>4. rows[b].status = "running" => Tally(b, c, n)'
    BY <2>1, <2>2, <2>3, TallyStays DEF RowTallied, Consistent
  <2>5. Cardinality(users) <= Cardinality(users') /\ Cardinality(users) \in Nat
        /\ Cardinality(users') \in Nat
    BY RecipientsGrow, RecipientsFinite DEF Consistent, TypeOK
  <2>6. rows[b].status = "done" => /\ Cardinality(rows[b].audience) <= n
                                   /\ n <= Cardinality(users')
    BY <2>1, <2>3, <2>5 DEF RowTallied
  <2>7. QED
    BY <1>1, <2>2, <2>3, <2>4, <2>6 DEF RowTallied
<1>2. ASSUME NEW w \in Worker, worker'[w] = worker[w]
      PROVE  WorkerTallied(w)'
  <2>1. SUFFICES ASSUME worker[w].pc \in RunPhase
                 PROVE  WorkerTallied(w)'
    BY <1>2 DEF WorkerTallied
  <2>2. PICK b \in BroadcastId : b = worker[w].id
    BY <2>1, WorkerFacts DEF Consistent
  <2>3. PICK c \in Cursor : c = worker[w].cursor
    BY WorkerFacts DEF Consistent
  <2>4. PICK n \in Nat : n = worker[w].sent + worker[w].failed
    <3>1. worker[w].sent \in Nat /\ worker[w].failed \in Nat
      BY WorkerFacts DEF Consistent
    <3>2. QED
      BY <3>1
  <2>5. rows[b].status # "absent"
    BY <2>1, <2>2 DEF Consistent, Covered, WorkerCovered
  <2>6. rows'[b].audience = rows[b].audience
    BY <2>5
  <2>7. WorkerTallied(w)
    BY DEF Tallied
  <2>8. Tally(b, c, n)'
    BY <2>1, <2>2, <2>3, <2>4, <2>6, <2>7, TallyStays DEF WorkerTallied, Consistent
  <2>9. QED
    BY <1>2, <2>1, <2>2, <2>3, <2>4, <2>6, <2>7, <2>8 DEF WorkerTallied
<1>3. \A w \in Worker : worker'[w].pc \notin RunPhase => WorkerTallied(w)'
  BY DEF WorkerTallied
<1>4. QED
  BY <1>1, <1>2, <1>3 DEF Tallied

LEMMA FetchTallied ==
  ASSUME Consistent, TypeOK', Tallied, Sole, NEW w \in Worker, Fetch(w)
  PROVE  Tallied'
<1>1. PICK r : /\ Moved(w, r) /\ r.pc = IF r.batch = {} THEN "finish" ELSE "wait"
               /\ r.batch = RecipientsAfter(worker[w].cursor)
               /\ r.cursor = worker[w].cursor
               /\ r.sent = worker[w].sent /\ r.failed = worker[w].failed
  BY FetchMoved
<1>2. /\ worker'[w] = r /\ \A v \in Worker : v # w => worker'[v] = worker[v]
      /\ UNCHANGED <<users, rows>> /\ r.id = worker[w].id /\ worker[w].pc \in RunPhase
  BY <1>1, MovedAlone DEF Fetch, Moved
<1>3. PICK b \in BroadcastId : b = worker[w].id
  BY <1>1, MovedAlone
<1>4. PICK c \in Cursor : c = worker[w].cursor
  BY WorkerFacts DEF Consistent
<1>5. r.batch \subseteq users
  BY <1>1 DEF RecipientsAfter, FirstOf
<1>6. ASSUME r.pc = "finish"
      PROVE  \A u \in rows[b].audience : u <= c
  <2> DEFINE ahead == {u \in users : u > c}
  <2>1. FirstOf(ahead, Batch) = {}
    BY <1>1, <1>4, <1>6 DEF RecipientsAfter
  <2>2. ahead \subseteq Recipient /\ c \in Nat
    <3>1. users \subseteq Recipient
      BY DEF Consistent, TypeOK
    <3>2. c \in Nat
      BY CursorNat
    <3>3. QED
      BY <3>1, <3>2
  <2>3. ahead = {}
    <3> HIDE DEF ahead
    <3> QED BY <2>1, <2>2, RecipientsFinite, BatchAssumption, EmptyPageIsEnd
  <2>4. rows[b].audience \subseteq users /\ users \subseteq Nat
    BY RecipientsFinite DEF Consistent, TypeOK, Covered, RowCovered
  <2>5. \A u \in users : ~ (u > c)
    BY <2>3
  <2>6. \A u \in Nat : ~ (u > c) => u <= c
    BY <2>2
  <2>7. QED
    BY <2>4, <2>5, <2>6
<1>7. Tally(b, c, worker[w].sent + worker[w].failed)
  BY <1>2, <1>3, <1>4 DEF Tallied, WorkerTallied
<1>8. WorkerTallied(w)'
  BY <1>1, <1>2, <1>3, <1>4, <1>5, <1>6, <1>7 DEF WorkerTallied, Tally
<1>9. QED
  BY <1>2, <1>8, TalliedByParts

LEMMA WaitTallied ==
  ASSUME Consistent, TypeOK', Tallied, Sole, NEW w \in Worker, Ticks(w) \/ Pauses(w)
  PROVE  Tallied'
<1>1. PICK r : /\ Moved(w, r) /\ r.pc \in {"send", "pause"}
               /\ r.batch = worker[w].batch /\ r.cursor = worker[w].cursor
               /\ r.sent = worker[w].sent /\ r.failed = worker[w].failed
  BY WaitMoved
<1>2. /\ worker'[w] = r /\ \A v \in Worker : v # w => worker'[v] = worker[v]
      /\ UNCHANGED <<users, rows>> /\ r.id = worker[w].id /\ worker[w].pc = "wait"
      /\ worker[w].pc \in RunPhase
  BY <1>1, MovedAlone DEF Ticks, Pauses, Moved
<1>3. WorkerTallied(w)'
  BY <1>1, <1>2 DEF WorkerTallied, Tally, Tallied
<1>4. QED
  BY <1>2, <1>3, TalliedByParts

\* One more user passed is one more counted, and the next of the page is the only
\* one of the audience between the two cursors.
LEMMA AdvanceTallied ==
  ASSUME Consistent, TypeOK', Tallied, Sole, NEW w \in Worker, NEW u \in Recipient,
         worker[w].pc = "send", InTurn(w, u), NEW sent \in Nat, NEW failed \in Nat,
         sent + failed = 1, Advance(w, u, sent, failed)
  PROVE  Tallied'
<1>1. PICK r : /\ Moved(w, r) /\ r.pc \in {"save", "wait"}
               /\ r.batch = worker[w].batch \ {u} /\ r.cursor = u
               /\ r.sent = worker[w].sent + sent /\ r.failed = worker[w].failed + failed
  BY AdvanceMoved
<1>2. /\ worker'[w] = r /\ \A v \in Worker : v # w => worker'[v] = worker[v]
      /\ UNCHANGED <<users, rows>> /\ r.id = worker[w].id /\ worker[w].pc \in RunPhase
  BY <1>1, MovedAlone DEF Advance, Moved
<1>3. PICK b \in BroadcastId : b = worker[w].id
  BY <1>1, MovedAlone
<1>4. PICK c \in Cursor : c = worker[w].cursor
  BY WorkerFacts DEF Consistent
<1>5. PICK page \in SUBSET Recipient : page = worker[w].batch
  BY WorkerFacts DEF Consistent
<1>6. worker[w].sent \in Nat /\ worker[w].failed \in Nat
  BY WorkerFacts DEF Consistent
<1>7. PICK n \in Nat : n = worker[w].sent + worker[w].failed
  BY <1>6
<1>8. r.sent + r.failed = n + 1
  BY <1>1, <1>6, <1>7
<1>9. Tally(b, c, n) /\ page \subseteq users
  BY <1>2, <1>3, <1>4, <1>5, <1>7 DEF Tallied, WorkerTallied
<1>10. /\ u \in page /\ \A v \in page : u <= v /\ c < v
       /\ \A v \in rows[b].audience : v > c /\ v \notin page => \A x \in page : x < v
  BY <1>2, <1>3, <1>4, <1>5 DEF Consistent, Covered, WorkerCovered, InTurn
<1>11. /\ users \subseteq Recipient /\ rows[b].audience \subseteq Recipient
       /\ Recipient \subseteq Nat /\ c \in Nat
  BY RowValues, RecipientsFinite, CursorNat DEF Consistent, TypeOK
<1> DEFINE aud == rows[b].audience
<1>12. Behind(aud, u) \subseteq Behind(aud, c) \cup {u}
  <2>1. ASSUME NEW v \in aud, v <= u, ~ (v <= c)
        PROVE  v = u
    <3>1. v \in Nat /\ u \in Nat /\ v > c
      <4>1. v \in Nat /\ u \in Nat /\ c \in Nat
        BY <1>11
      <4>2. QED
        BY <2>1, <4>1
    <3>2. CASE v \in page
      BY <1>10, <2>1, <3>1, <3>2
    <3>3. CASE v \notin page
      <4>1. u < v
        BY <1>10, <3>1, <3>3
      <4>2. QED
        BY <2>1, <3>1, <4>1
    <3>4. QED
      BY <3>2, <3>3
  <2>2. QED
    BY <2>1 DEF Behind
<1>13. Behind(users, c) \cup {u} \subseteq Behind(users, u) /\ u \notin Behind(users, c)
  <2>1. c < u /\ u \in users /\ u \in Nat
    BY <1>9, <1>10, <1>11
  <2>2. \A v \in Nat : v <= c => v <= u
    BY <1>11, <2>1
  <2>3. ~ (u <= c) /\ u <= u
    BY <1>11, <2>1
  <2>4. QED
    BY <1>11, <2>1, <2>2, <2>3 DEF Behind
<1>14. Cardinality(Behind(aud, u)) <= n + 1
  <2>1. Behind(aud, c) \subseteq Recipient /\ (Behind(aud, c) \cup {u}) \subseteq Recipient
        /\ Behind(aud, u) \subseteq Recipient
    BY <1>11 DEF Behind
  <2>2. IsFiniteSet(Behind(aud, c)) /\ Cardinality(Behind(aud, c)) \in Nat
        /\ Cardinality(Behind(aud, c) \cup {u}) \in Nat
        /\ Cardinality(Behind(aud, u)) \in Nat
    BY <2>1, RecipientsFinite
  <2>3. Cardinality(Behind(aud, u)) <= Cardinality(Behind(aud, c) \cup {u})
    BY <1>12, <2>1, RecipientsGrow
  <2>4. Cardinality(Behind(aud, c) \cup {u}) <= Cardinality(Behind(aud, c)) + 1
    <3>1. Cardinality(Behind(aud, c) \cup {u}) =
            IF u \in Behind(aud, c) THEN Cardinality(Behind(aud, c))
                                    ELSE Cardinality(Behind(aud, c)) + 1
      BY <2>2, FS_AddElement
    <3>2. QED
      BY <2>2, <3>1
  <2>5. Cardinality(Behind(aud, c)) <= n
    BY <1>9 DEF Tally
  <2> HIDE DEF aud
  <2>6. QED
    BY <2>2, <2>3, <2>4, <2>5
<1>15. n + 1 <= Cardinality(Behind(users, u))
  <2>1. Behind(users, c) \subseteq Recipient /\ Behind(users, u) \subseteq Recipient
    BY <1>11 DEF Behind
  <2>2. IsFiniteSet(Behind(users, c)) /\ Cardinality(Behind(users, c)) \in Nat
        /\ Cardinality(Behind(users, u)) \in Nat
    BY <2>1, RecipientsFinite
  <2>3. Cardinality(Behind(users, c) \cup {u}) = Cardinality(Behind(users, c)) + 1
    BY <1>13, <2>2, FS_AddElement
  <2>4. Cardinality(Behind(users, c) \cup {u}) <= Cardinality(Behind(users, u))
    BY <1>13, <2>1, RecipientsGrow
  <2>5. n <= Cardinality(Behind(users, c))
    BY <1>9 DEF Tally
  <2>6. QED
    BY <2>2, <2>3, <2>4, <2>5
<1>16. Tally(b, u, n + 1)'
  BY <1>2, <1>14, <1>15 DEF Tally
<1>17. WorkerTallied(w)'
  BY <1>1, <1>2, <1>3, <1>5, <1>8, <1>9, <1>16 DEF WorkerTallied
<1>18. QED
  BY <1>2, <1>17, TalliedByParts

\* The row takes over the cursor and the counters of its worker.
LEMMA SavedTallied ==
  ASSUME Consistent, Tallied, Sole, NEW w \in Worker, worker[w].pc \in RunPhase,
         rows' = Saved(w), UNCHANGED users,
         NEW c \in Cursor, c = worker[w].cursor,
         NEW n \in Nat, n = worker[w].sent + worker[w].failed,
         NEW b \in BroadcastId, b = worker[w].id
  PROVE  /\ \A i \in BroadcastId : rows'[i].audience = rows[i].audience
         /\ \A i \in BroadcastId : rows'[i] = rows[i] \/ RowTallied(i)'
         /\ Tally(b, c, n)'
<1>1. rows[b].status = "running"
  BY DEF Sole, Unfinished
<1>2. /\ rows'[b].cursor = c /\ rows'[b].sent + rows'[b].failed = n
      /\ \A i \in BroadcastId : /\ rows'[i].status = rows[i].status
                                /\ rows'[i].audience = rows[i].audience
                                /\ i # b => rows'[i] = rows[i]
  BY SavedRow
<1>3. Tally(b, c, n)
  BY DEF Tallied, WorkerTallied
<1>4. Tally(b, c, n)'
  BY <1>2, <1>3 DEF Tally
<1>5. RowTallied(b)'
  BY <1>1, <1>2, <1>4 DEF RowTallied
<1>6. QED
  BY <1>2, <1>4, <1>5

LEMMA SavesTallied ==
  ASSUME Consistent, TypeOK', Tallied, Sole, NEW w \in Worker, Saves(w, TRUE)
  PROVE  Tallied'
<1>1. PICK r : /\ Moved(w, r) /\ r.pc = "fetch" /\ r.cursor = worker[w].cursor
               /\ r.sent = worker[w].sent /\ r.failed = worker[w].failed
  BY SavesMoved
<1>2. /\ worker'[w] = r /\ \A v \in Worker : v # w => worker'[v] = worker[v]
      /\ r.id = worker[w].id /\ worker[w].pc \in RunPhase
      /\ rows' = Saved(w) /\ UNCHANGED users
  BY <1>1, MovedAlone DEF Saves, Moved
<1>3. PICK b \in BroadcastId : b = worker[w].id
  BY <1>1, MovedAlone
<1>4. PICK c \in Cursor : c = worker[w].cursor
  BY WorkerFacts DEF Consistent
<1>5. PICK n \in Nat : n = worker[w].sent + worker[w].failed
  <2>1. worker[w].sent \in Nat /\ worker[w].failed \in Nat
    BY WorkerFacts DEF Consistent
  <2>2. QED
    BY <2>1
<1>6. /\ \A i \in BroadcastId : rows'[i].audience = rows[i].audience
      /\ \A i \in BroadcastId : rows'[i] = rows[i] \/ RowTallied(i)'
      /\ Tally(b, c, n)'
  BY <1>2, <1>3, <1>4, <1>5, SavedTallied
<1>7. WorkerTallied(w)'
  BY <1>1, <1>2, <1>3, <1>4, <1>5, <1>6 DEF WorkerTallied
<1>8. QED
  BY <1>2, <1>6, <1>7, TalliedByParts

LEMMA SavesPauseTallied ==
  ASSUME Consistent, TypeOK', Tallied, Sole, NEW w \in Worker, SavesPause(w, TRUE)
  PROVE  Tallied'
<1>1. /\ worker[w].pc \in RunPhase /\ rows' = Saved(w) /\ UNCHANGED users
      /\ worker' = [worker EXCEPT ![w] = NoWorker]
  BY DEF SavesPause, Ends, RunPhase
<1>2. /\ worker'[w].pc \notin RunPhase
      /\ \A v \in Worker : v # w => worker'[v] = worker[v]
  BY <1>1, NoWorkerType, RunPhaseActive DEF Consistent, TypeOK
<1>3. PICK b \in BroadcastId : b = worker[w].id
  BY <1>1, WorkerFacts DEF Consistent
<1>4. PICK c \in Cursor : c = worker[w].cursor
  BY WorkerFacts DEF Consistent
<1>5. PICK n \in Nat : n = worker[w].sent + worker[w].failed
  <2>1. worker[w].sent \in Nat /\ worker[w].failed \in Nat
    BY WorkerFacts DEF Consistent
  <2>2. QED
    BY <2>1
<1>6. /\ \A i \in BroadcastId : rows'[i].audience = rows[i].audience
      /\ \A i \in BroadcastId : rows'[i] = rows[i] \/ RowTallied(i)'
  BY <1>1, <1>3, <1>4, <1>5, SavedTallied
<1>7. QED
  BY <1>1, <1>2, <1>6, TalliedByParts

\* At the end of the list the cursor has passed the whole audience.
LEMMA FinishesTallied ==
  ASSUME Consistent, TypeOK', Tallied, Sole, NEW w \in Worker, Finishes(w, TRUE)
  PROVE  Tallied'
<1>1. /\ worker[w].pc = "finish" /\ worker[w].pc \in RunPhase
      /\ rows' = Finished(w) /\ UNCHANGED users
      /\ worker' = [worker EXCEPT ![w] = NoWorker]
  BY DEF Finishes, Ends, RunPhase
<1>2. /\ worker'[w].pc \notin RunPhase
      /\ \A v \in Worker : v # w => worker'[v] = worker[v]
  BY <1>1, NoWorkerType, RunPhaseActive DEF Consistent, TypeOK
<1>3. PICK b \in BroadcastId : b = worker[w].id
  BY <1>1, WorkerFacts DEF Consistent
<1>4. PICK c \in Cursor : c = worker[w].cursor
  BY WorkerFacts DEF Consistent
<1>5. PICK n \in Nat : n = worker[w].sent + worker[w].failed
  <2>1. worker[w].sent \in Nat /\ worker[w].failed \in Nat
    BY WorkerFacts DEF Consistent
  <2>2. QED
    BY <2>1
<1>6. /\ rows'[b].status = "done" /\ rows'[b].sent + rows'[b].failed = n
      /\ \A i \in BroadcastId : /\ rows'[i].audience = rows[i].audience
                                /\ i # b => rows'[i] = rows[i]
  BY <1>1, <1>3, <1>5, FinishedRow
<1>7. Tally(b, c, n) /\ \A u \in rows[b].audience : u <= c
  BY <1>1, <1>3, <1>4, <1>5 DEF Tallied, WorkerTallied
<1>8. Behind(rows[b].audience, c) = rows[b].audience
  BY <1>7 DEF Behind
<1>9. n <= Cardinality(users)
  <2>1. Behind(users, c) \subseteq users /\ users \subseteq Recipient
    BY DEF Behind, Consistent, TypeOK
  <2>2. /\ Cardinality(Behind(users, c)) <= Cardinality(users)
        /\ Cardinality(Behind(users, c)) \in Nat /\ Cardinality(users) \in Nat
    BY <2>1, RecipientsGrow, RecipientsFinite
  <2>3. QED
    BY <1>7, <2>2 DEF Tally
<1>10. Cardinality(rows[b].audience) <= n
  BY <1>7, <1>8 DEF Tally
<1>11. RowTallied(b)'
  BY <1>1, <1>6, <1>9, <1>10 DEF RowTallied
<1>12. QED
  BY <1>1, <1>2, <1>6, <1>11, TalliedByParts

\* A new row has passed nobody.
LEMMA InsertTallied ==
  ASSUME Consistent, TypeOK', Tallied, NEW w \in Worker, worker[w].pc = "create",
         NEW b \in BroadcastId, rows' = [rows EXCEPT ![b] = NewRow(w)], NextId(b),
         UNCHANGED users
  PROVE  /\ Tally(b, 0, 0)'
         /\ \A i \in BroadcastId : rows'[i] = rows[i] \/ RowTallied(i)'
         /\ \A i \in BroadcastId :
              rows[i].status # "absent" => rows'[i].audience = rows[i].audience
<1>1. /\ rows'[b].status = "running" /\ rows'[b].cursor = 0 /\ rows'[b].audience = users
      /\ rows'[b].sent = 0 /\ rows'[b].failed = 0
      /\ \A i \in BroadcastId : i # b => rows'[i] = rows[i]
  BY NewRowType DEF Consistent, TypeOK
<1>2. rows[b].status = "absent"
  BY DEF NextId, NoBroadcast
<1>3. users \subseteq Recipient
  BY DEF Consistent, TypeOK
<1>4. Behind(users, 0) = {}
  <2>1. \A u \in users : u \in Nat /\ u # 0
    BY <1>3, RecipientAssumption
  <2>2. \A u \in Nat : u <= 0 => u = 0
    OBVIOUS
  <2>3. QED
    BY <2>1, <2>2 DEF Behind
<1>5. Cardinality(Behind(users, 0)) = 0
  BY <1>4, FS_EmptySet
<1>6. Tally(b, 0, 0)'
  BY <1>1, <1>5 DEF Tally
<1>7. RowTallied(b)'
  BY <1>1, <1>6 DEF RowTallied
<1>8. QED
  BY <1>1, <1>2, <1>6, <1>7

LEMMA StartCreateTallied ==
  ASSUME Consistent, TypeOK', Tallied, NEW w \in Worker, NEW b \in BroadcastId,
         StartCreate(w, b)
  PROVE  Tallied'
<1>1. /\ worker[w].pc = "create" /\ rows' = [rows EXCEPT ![b] = NewRow(w)] /\ NextId(b)
      /\ worker' = [worker EXCEPT ![w] = WorkerOf(worker[w].proc, b, NewRow(w))]
      /\ UNCHANGED users
  BY DEF StartCreate
<1>2. /\ Tally(b, 0, 0)'
      /\ \A i \in BroadcastId : rows'[i] = rows[i] \/ RowTallied(i)'
      /\ \A i \in BroadcastId :
           rows[i].status # "absent" => rows'[i].audience = rows[i].audience
  BY <1>1, InsertTallied
<1>3. /\ worker'[w] = WorkerOf(worker[w].proc, b, NewRow(w))
      /\ \A v \in Worker : v # w => worker'[v] = worker[v]
  BY <1>1 DEF Consistent, TypeOK
<1>4. /\ worker'[w].pc = "fetch" /\ worker'[w].id = b /\ worker'[w].cursor = 0
      /\ worker'[w].sent = 0 /\ worker'[w].failed = 0
  BY <1>3 DEF WorkerOf, NewRow
<1>5. WorkerTallied(w)'
  BY <1>2, <1>4 DEF WorkerTallied
<1>6. QED
  BY <1>1, <1>2, <1>3, <1>5, TalliedByParts

LEMMA BootResumesTallied ==
  ASSUME Consistent, TypeOK', Tallied, NEW p \in Process, NEW w \in Worker,
         NEW b \in BroadcastId, BootResumes(p, w, b)
  PROVE  Tallied'
<1>1. /\ worker' = [worker EXCEPT ![w] = WorkerOf(p, b, rows[b])]
      /\ b \in Unfinished /\ UNCHANGED <<users, rows>>
  BY DEF BootResumes
<1>2. /\ worker'[w] = WorkerOf(p, b, rows[b])
      /\ \A v \in Worker : v # w => worker'[v] = worker[v]
  BY <1>1 DEF Consistent, TypeOK
<1>3. /\ worker'[w].pc = "fetch" /\ worker'[w].id = b /\ worker'[w].cursor = rows[b].cursor
      /\ worker'[w].sent = rows[b].sent /\ worker'[w].failed = rows[b].failed
  BY <1>2 DEF WorkerOf
<1>4. Tally(b, rows[b].cursor, rows[b].sent + rows[b].failed)
  BY <1>1 DEF Tallied, RowTallied, Unfinished
<1>5. WorkerTallied(w)'
  BY <1>1, <1>3, <1>4 DEF WorkerTallied, Tally
<1>6. QED
  BY <1>1, <1>2, <1>5, TalliedByParts

\* A step that writes no row, and starts no worker.
LEMMA TalliedByFrame ==
  ASSUME Consistent, TypeOK', Tallied, users \subseteq users', UNCHANGED rows,
         \A v \in Worker : worker'[v] = worker[v] \/ worker'[v].pc \notin RunPhase
  PROVE  Tallied'
BY TalliedByParts

LEMMA WorkerStepTallied ==
  ASSUME Consistent, TypeOK', Tallied, Sole, NEW w \in Worker, WorkerStep(w)
  PROVE  Tallied'
<1>1. ASSUME NEW u \in Recipient, Sends(w, u) \/ Abandons(w, u)
      PROVE  Tallied'
  <2>1. /\ worker[w].pc = "send" /\ InTurn(w, u)
        /\ Advance(w, u, 1, 0) \/ Advance(w, u, 0, 1)
    BY <1>1 DEF Sends, Abandons
  <2>2. 1 \in Nat /\ 0 \in Nat /\ 1 + 0 = 1 /\ 0 + 1 = 1
    OBVIOUS
  <2>3. QED
    BY <2>1, <2>2, AdvanceTallied
<1>2. QED
  BY <1>1, FetchTallied, WaitTallied, SavesTallied, SavesPauseTallied, FinishesTallied
  DEF WorkerStep

LEMMA EndTallied ==
  ASSUME Consistent, TypeOK', Tallied, NEW w \in Worker, StartFails(w) \/ FetchFails(w)
  PROVE  Tallied'
<1>1. /\ worker' = [worker EXCEPT ![w] = NoWorker]
      /\ UNCHANGED <<users, rows>>
  BY DEF StartFails, FetchFails, Ends
<1>2. /\ worker'[w].pc \notin RunPhase
      /\ \A v \in Worker : v # w => worker'[v] = worker[v]
  BY <1>1, NoWorkerType, RunPhaseActive DEF Consistent, TypeOK
<1>3. QED
  BY <1>1, <1>2, TalliedByFrame

LEMMA StartStepTallied ==
  ASSUME Consistent, TypeOK', Tallied, NEW w \in Worker, StartStep(w) \/ CancelledStep(w)
  PROVE  Tallied'
<1>1. ASSUME NEW p \in Process, StartCount(p, w)
      PROVE  Tallied'
  <2>1. worker' = [worker EXCEPT ![w] = Counted(p)] /\ UNCHANGED <<users, rows>>
    BY <1>1 DEF StartCount
  <2>2. worker'[w].pc \notin RunPhase /\ \A v \in Worker : v # w => worker'[v] = worker[v]
    BY <2>1, RunPhaseActive DEF Counted, Consistent, TypeOK
  <2>3. QED
    BY <2>1, <2>2, TalliedByFrame
<1>2. ASSUME NEW b \in BroadcastId, StartLost(w, b)
      PROVE  Tallied'
  <2>1. /\ worker[w].pc = "create" /\ NextId(b) /\ rows' = [rows EXCEPT ![b] = NewRow(w)]
        /\ worker' = [worker EXCEPT ![w] = NoWorker] /\ UNCHANGED users
    BY <1>2 DEF StartLost
  <2>2. /\ worker'[w].pc \notin RunPhase
        /\ \A v \in Worker : v # w => worker'[v] = worker[v]
    BY <2>1, NoWorkerType, RunPhaseActive DEF Consistent, TypeOK
  <2>3. /\ \A i \in BroadcastId : rows'[i] = rows[i] \/ RowTallied(i)'
        /\ \A i \in BroadcastId :
             rows[i].status # "absent" => rows'[i].audience = rows[i].audience
    BY <2>1, InsertTallied
  <2>4. QED
    BY <2>1, <2>2, <2>3, TalliedByParts
<1>3. QED
  BY <1>1, <1>2, EndTallied, StartCreateTallied DEF StartStep, CancelledStep

LEMMA GoneTallied ==
  ASSUME Consistent, TypeOK', Tallied, NEW p \in Process, Gone(p)
  PROVE  Tallied'
<1>1. /\ worker' = [w \in Worker |-> IF worker[w].proc = p THEN NoWorker ELSE worker[w]]
      /\ UNCHANGED <<users, rows>>
  BY DEF Gone
<1>2. \A v \in Worker : worker'[v] = worker[v] \/ worker'[v].pc \notin RunPhase
  BY <1>1, NoWorkerType, RunPhaseActive
<1>3. QED
  BY <1>1, <1>2, TalliedByFrame

LEMMA LastingStepTallied ==
  ASSUME Consistent, TypeOK', Tallied, Sole, LastingStep
  PROVE  Tallied'
<1>1. ASSUME NEW u \in Recipient, Register(u)
      PROVE  Tallied'
  <2>1. users \subseteq users' /\ UNCHANGED <<rows, worker>>
    BY <1>1 DEF Register
  <2>2. QED
    BY <2>1, TalliedByFrame
<1>2. ASSUME NEW p \in Process, BootStep(p) \/ Stops(p)
      PROVE  Tallied'
  <2>1. CASE Boot(p) \/ Stops(p)
    <3>1. UNCHANGED <<users, rows, worker>>
      BY <2>1 DEF Boot, Stops
    <3>2. QED
      BY <3>1, TalliedByFrame
  <2>2. QED
    BY <1>2, <2>1, BootResumesTallied DEF BootStep
<1>3. QED
  BY <1>1, <1>2, WorkerStepTallied, StartStepTallied, GoneTallied
  DEF LastingStep, OrderlyStep, Death, Dies, Exits

-----------------------------------------------------------------------------
(* Nobody ahead of a cursor was called *)

CalledBehind(b, c) == \A u \in Recipient : calls[b][u] > 0 => u <= c

RowOnce(b) ==
  /\ rows[b].status = "absent" => CalledBehind(b, 0)
  /\ rows[b].status = "running" /\ (\A w \in Worker : ~ Runs(w, b)) =>
       CalledBehind(b, rows[b].cursor)

\* A worker that could give up, in fetch, has persisted what it did.
WorkerOnce(w) ==
  /\ worker[w].pc \in RunPhase => CalledBehind(worker[w].id, worker[w].cursor)
  /\ worker[w].pc = "fetch" => rows[worker[w].id].cursor = worker[w].cursor

Once ==
  /\ AttemptedOnce
  /\ \A b \in BroadcastId : RowOnce(b)
  /\ \A w \in Worker : WorkerOnce(w)

\* The cursor and the row a worker moves to, when nobody is called.
LEMMA OnceByMove ==
  ASSUME Consistent, Sole, Once, NEW w \in Worker, NEW r, Moved(w, r),
         r.cursor = worker[w].cursor, UNCHANGED calls,
         \A b \in BroadcastId : rows'[b].status = rows[b].status,
         \A b \in BroadcastId : b # worker[w].id => rows'[b] = rows[b],
         r.pc = "fetch" => rows'[worker[w].id].cursor = worker[w].cursor
  PROVE  Once'
<1>1. /\ worker'[w] = r /\ worker[w].id \in BroadcastId /\ r.id = worker[w].id
      /\ \A v \in Worker : v # w => worker[v].pc = "none" /\ worker'[v] = worker[v]
      /\ r.pc \in RunPhase /\ worker[w].pc \in RunPhase
      /\ rows[worker[w].id].status = "running"
  BY MovedAlone DEF Moved
<1>2. AttemptedOnce'
  BY DEF AttemptedOnce, Once
<1>3. ASSUME NEW b \in BroadcastId
      PROVE  RowOnce(b)'
  <2>1. CASE b = worker[w].id
    <3>1. Runs(w, b)' /\ rows'[b].status = "running"
      BY <1>1, <2>1 DEF Runs
    <3>2. QED
      BY <3>1 DEF RowOnce
  <2>2. CASE b # worker[w].id
    <3>1. \A v \in Worker : Runs(v, b) = Runs(v, b)'
      BY <1>1, <2>2, RunPhaseActive DEF Runs
    <3>2. rows'[b] = rows[b] /\ RowOnce(b)
      BY <2>2 DEF Once
    <3>3. QED
      BY <3>1, <3>2 DEF RowOnce, CalledBehind
  <2>3. QED
    BY <2>1, <2>2
<1>4. WorkerOnce(w)'
  BY <1>1 DEF WorkerOnce, Once, CalledBehind
<1>5. \A v \in Worker : v # w => WorkerOnce(v)'
  BY <1>1, RunPhaseActive DEF WorkerOnce
<1>6. QED
  BY <1>2, <1>3, <1>4, <1>5 DEF Once

\* The next of the page is ahead of whoever was called, so it is called once.
LEMMA AdvanceOnce ==
  ASSUME Consistent, Sole, Once, NEW w \in Worker, NEW u \in Recipient,
         worker[w].pc = "send", InTurn(w, u), NEW sent \in Nat, NEW failed \in Nat,
         Advance(w, u, sent, failed)
  PROVE  Once'
<1>1. PICK r : Moved(w, r) /\ r.pc \in {"save", "wait"} /\ r.cursor = u
  BY AdvanceMoved
<1>2. /\ worker'[w] = r /\ r.id = worker[w].id
      /\ \A v \in Worker : v # w => worker[v].pc = "none" /\ worker'[v] = worker[v]
      /\ r.pc \in RunPhase /\ worker[w].pc \in RunPhase
  BY <1>1, MovedAlone DEF Moved
<1>3. PICK b \in BroadcastId : b = worker[w].id /\ rows[b].status = "running"
  BY <1>1, MovedAlone
<1>4. PICK c \in Cursor : c = worker[w].cursor
  BY WorkerFacts DEF Consistent
<1>5. c < u /\ c \in Nat /\ Recipient \subseteq Nat
  BY <1>2, <1>4, CursorNat, RecipientsFinite DEF Consistent, Covered, WorkerCovered, InTurn
<1>6. CalledBehind(b, c)
  BY <1>2, <1>3, <1>4 DEF Once, WorkerOnce
<1>7. calls \in [BroadcastId -> [Recipient -> Nat]]
  BY DEF Consistent, TypeOK
<1>8. UNCHANGED rows /\ calls' = [calls EXCEPT ![b][u] = @ + 1]
  BY <1>3 DEF Advance
<1>9. /\ \A i \in BroadcastId : i # b => calls'[i] = calls[i]
      /\ \A v \in Recipient : calls'[b][v] = IF v = u THEN calls[b][v] + 1 ELSE calls[b][v]
  BY <1>7, <1>8
<1>10. calls[b][u] = 0
  <2>1. calls[b][u] \in Nat /\ ~ (u <= c)
    BY <1>5, <1>7
  <2>2. ~ (calls[b][u] > 0)
    BY <1>6, <2>1 DEF CalledBehind
  <2>3. QED
    BY <2>1, <2>2
<1>11. AttemptedOnce'
  <2>1. \A i \in BroadcastId : \A v \in Recipient : calls[i][v] <= 1
    BY DEF Once, AttemptedOnce
  <2>2. calls'[b][u] = 1
    BY <1>9, <1>10
  <2>3. \A v \in Recipient : calls'[b][v] <= 1
    BY <1>9, <2>1, <2>2
  <2>4. QED
    BY <1>9, <2>1, <2>3 DEF AttemptedOnce
<1>12. CalledBehind(b, u)'
  <2>1. ASSUME NEW v \in Recipient, calls'[b][v] > 0, v # u
        PROVE  v <= u
    <3>1. v <= c /\ v \in Nat /\ u \in Nat
      BY <1>5, <1>6, <1>9, <2>1 DEF CalledBehind
    <3>2. QED
      BY <1>5, <3>1
  <2>2. u <= u
    BY <1>5
  <2>3. QED
    BY <2>1, <2>2 DEF CalledBehind
<1>13. ASSUME NEW i \in BroadcastId
       PROVE  RowOnce(i)'
  <2>1. CASE i = b
    <3>1. Runs(w, b)'
      BY <1>2, <1>3 DEF Runs
    <3>2. QED
      BY <1>3, <1>8, <2>1, <3>1 DEF RowOnce
  <2>2. CASE i # b
    <3>1. \A v \in Worker : Runs(v, i) = Runs(v, i)'
      BY <1>2, <1>3, <2>2, RunPhaseActive DEF Runs
    <3>2. RowOnce(i)
      BY DEF Once
    <3>3. QED
      BY <1>8, <1>9, <2>2, <3>1, <3>2 DEF RowOnce, CalledBehind
  <2>3. QED
    BY <2>1, <2>2
<1>14. WorkerOnce(w)'
  BY <1>1, <1>2, <1>3, <1>12 DEF WorkerOnce
<1>15. \A v \in Worker : v # w => WorkerOnce(v)'
  BY <1>2, RunPhaseActive DEF WorkerOnce
<1>16. QED
  BY <1>11, <1>13, <1>14, <1>15 DEF Once

\* A step after which nobody is at work.
LEMMA OnceIdle ==
  ASSUME Once, UNCHANGED calls, \A v \in Worker : worker'[v].pc \notin RunPhase,
         \A b \in BroadcastId : rows'[b].status = "absent" => rows[b].status = "absent",
         \A b \in BroadcastId : rows'[b].status = "running" => CalledBehind(b, rows'[b].cursor)
  PROVE  Once'
<1>1. AttemptedOnce'
  BY DEF AttemptedOnce, Once
<1>2. \A b \in BroadcastId : RowOnce(b)'
  BY DEF RowOnce, CalledBehind, Once
<1>3. \A v \in Worker : WorkerOnce(v)'
  BY DEF WorkerOnce, RunPhase
<1>4. QED
  BY <1>1, <1>2, <1>3 DEF Once

\* A step that changes no row, no worker and no call.
LEMMA OnceByFrame ==
  ASSUME Once, UNCHANGED <<rows, calls>>, \A v \in Worker : worker'[v] = worker[v]
  PROVE  Once'
BY DEF Once, AttemptedOnce, RowOnce, WorkerOnce, CalledBehind, Runs

LEMMA WorkerStepOnce ==
  ASSUME Consistent, Sole, Once, NEW w \in Worker, WorkerStep(w)
  PROVE  Once'
<1>1. CASE Fetch(w)
  <2>1. PICK r : Moved(w, r) /\ r.pc # "fetch" /\ r.cursor = worker[w].cursor
    BY <1>1, FetchMoved
  <2>2. UNCHANGED <<rows, calls>>
    BY <1>1 DEF Fetch
  <2>3. QED
    BY <2>1, <2>2, OnceByMove
<1>2. CASE Ticks(w) \/ Pauses(w)
  <2>1. PICK r : Moved(w, r) /\ r.pc # "fetch" /\ r.cursor = worker[w].cursor
    BY <1>2, WaitMoved
  <2>2. UNCHANGED <<rows, calls>>
    BY <1>2 DEF Ticks, Pauses
  <2>3. QED
    BY <2>1, <2>2, OnceByMove
<1>3. ASSUME NEW u \in Recipient, Sends(w, u) \/ Abandons(w, u)
      PROVE  Once'
  <2>1. /\ worker[w].pc = "send" /\ InTurn(w, u)
        /\ Advance(w, u, 1, 0) \/ Advance(w, u, 0, 1)
    BY <1>3 DEF Sends, Abandons
  <2>2. QED
    BY <2>1, AdvanceOnce
<1>4. CASE Saves(w, TRUE)
  <2>1. PICK r : Moved(w, r) /\ r.cursor = worker[w].cursor
    BY <1>4, SavesMoved
  <2>2. worker[w].pc \in RunPhase /\ rows' = Saved(w) /\ UNCHANGED calls
    BY <1>4, <2>1 DEF Saves, Moved
  <2>3. /\ rows'[worker[w].id].cursor = worker[w].cursor
        /\ \A b \in BroadcastId : /\ rows'[b].status = rows[b].status
                                  /\ b # worker[w].id => rows'[b] = rows[b]
    BY <2>2, SavedRow
  <2>4. QED
    BY <2>1, <2>2, <2>3, OnceByMove
<1>5. CASE SavesPause(w, TRUE) \/ Finishes(w, TRUE)
  <2>1. /\ worker[w].pc \in RunPhase /\ UNCHANGED calls
        /\ worker' = [worker EXCEPT ![w] = NoWorker]
        /\ rows' = Saved(w) \/ rows' = Finished(w)
    BY <1>5 DEF SavesPause, Finishes, Ends, RunPhase
  <2>2. \A v \in Worker : worker'[v].pc \notin RunPhase
    <3>1. \A v \in Worker : v # w => worker[v].pc = "none" /\ worker'[v] = worker[v]
      BY <2>1, RunPhaseActive, OnlyWorker DEF Consistent, TypeOK
    <3>2. worker'[w].pc = "none"
      BY <2>1, NoWorkerType DEF Consistent, TypeOK
    <3>3. QED
      BY <3>1, <3>2, RunPhaseActive
  <2>3. PICK b \in BroadcastId : b = worker[w].id
    BY <2>1, WorkerFacts DEF Consistent
  <2>4. rows[b].status = "running" /\ \A c \in BroadcastId : rows[c].status = "running" => c = b
    BY <2>1, <2>3 DEF Sole, Unfinished
  <2>5. CalledBehind(b, worker[w].cursor)
    BY <2>1, <2>3 DEF Once, WorkerOnce
  <2>6. CASE rows' = Saved(w)
    <3>1. /\ rows'[b].cursor = worker[w].cursor
          /\ \A c \in BroadcastId : rows'[c].status = rows[c].status
      BY <2>1, <2>3, <2>6, SavedRow
    <3>2. QED
      BY <2>1, <2>2, <2>4, <2>5, <3>1, OnceIdle
  <2>7. CASE rows' = Finished(w)
    <3>1. /\ rows'[b].status = "done"
          /\ \A c \in BroadcastId : c # b => rows'[c] = rows[c]
      BY <2>1, <2>3, <2>7, FinishedRow
    <3>2. QED
      BY <2>1, <2>2, <2>4, <3>1, OnceIdle
  <2>8. QED
    BY <2>1, <2>6, <2>7
<1>6. QED
  BY <1>1, <1>2, <1>3, <1>4, <1>5 DEF WorkerStep

LEMMA EndsIdle ==
  ASSUME Consistent, Sole, NEW w \in Worker, worker[w].pc # "none",
         worker' = [worker EXCEPT ![w] = NoWorker]
  PROVE  \A v \in Worker : worker'[v].pc \notin RunPhase
<1>1. \A v \in Worker : v # w => worker[v].pc = "none" /\ worker'[v] = worker[v]
  BY OnlyWorker DEF Consistent, TypeOK
<1>2. worker'[w].pc = "none"
  BY NoWorkerType DEF Consistent, TypeOK
<1>3. QED
  BY <1>1, <1>2, RunPhaseActive

LEMMA StartStepOnce ==
  ASSUME Consistent, Sole, Sole', Once, NEW w \in Worker, StartStep(w) \/ CancelledStep(w)
  PROVE  Once'
<1>1. ASSUME NEW p \in Process, StartCount(p, w)
      PROVE  Once'
  <2>1. worker' = [worker EXCEPT ![w] = Counted(p)] /\ UNCHANGED <<rows, calls>>
    BY <1>1 DEF StartCount
  <2>2. worker'[w].pc = "create"
    BY <2>1 DEF Counted, Consistent, TypeOK
  <2>3. Unfinished' = {}
    BY <2>2 DEF Sole
  <2>4. /\ \A v \in Worker : worker'[v].pc \notin RunPhase
        /\ \A b \in BroadcastId : rows'[b].status # "running"
    BY <2>3 DEF Sole, Unfinished
  <2>5. QED
    BY <2>1, <2>4, OnceIdle
<1>2. CASE StartFails(w)
  <2>1. /\ worker[w].pc = "create" /\ worker[w].pc # "none" /\ UNCHANGED <<rows, calls>>
        /\ worker' = [worker EXCEPT ![w] = NoWorker]
    BY <1>2 DEF StartFails
  <2>2. \A b \in BroadcastId : rows'[b].status # "running"
    BY <2>1 DEF Sole, Unfinished
  <2>3. QED
    BY <2>1, <2>2, EndsIdle, OnceIdle
<1>3. CASE FetchFails(w)
  <2>1. /\ worker[w].pc = "fetch" /\ worker[w].pc # "none" /\ worker[w].pc \in RunPhase
        /\ UNCHANGED <<rows, calls>>
        /\ worker' = [worker EXCEPT ![w] = NoWorker]
    BY <1>3 DEF FetchFails, Ends, RunPhase
  <2>2. /\ CalledBehind(worker[w].id, rows[worker[w].id].cursor)
        /\ \A b \in BroadcastId : rows[b].status = "running" => b = worker[w].id
    BY <2>1 DEF Once, WorkerOnce, Sole, Unfinished
  <2>3. \A b \in BroadcastId : rows'[b].status = "running" => CalledBehind(b, rows'[b].cursor)
    BY <2>1, <2>2
  <2>4. QED
    BY <2>1, <2>3, EndsIdle, OnceIdle
<1>4. ASSUME NEW b \in BroadcastId, worker[w].pc = "create", NextId(b),
             rows' = [rows EXCEPT ![b] = NewRow(w)], UNCHANGED calls
      PROVE  /\ CalledBehind(b, 0) /\ rows'[b].cursor = 0 /\ rows'[b].status = "running"
             /\ \A c \in BroadcastId : c # b => rows'[c] = rows[c] /\ rows[c].status # "running"
  <2>1. rows[b].status = "absent"
    BY <1>4 DEF NextId, NoBroadcast
  <2>2. CalledBehind(b, 0)
    BY <2>1 DEF Once, RowOnce
  <2>3. /\ rows'[b].cursor = 0 /\ rows'[b].status = "running"
        /\ \A c \in BroadcastId : c # b => rows'[c] = rows[c]
    BY <1>4, NewRowType DEF Consistent, TypeOK
  <2>4. \A c \in BroadcastId : rows[c].status # "running"
    BY <1>4 DEF Sole, Unfinished
  <2>5. QED
    BY <2>2, <2>3, <2>4
<1>5. ASSUME NEW b \in BroadcastId, StartLost(w, b)
      PROVE  Once'
  <2>1. /\ worker[w].pc = "create" /\ worker[w].pc # "none" /\ NextId(b)
        /\ rows' = [rows EXCEPT ![b] = NewRow(w)] /\ UNCHANGED calls
        /\ worker' = [worker EXCEPT ![w] = NoWorker]
    BY <1>5 DEF StartLost
  <2>2. QED
    BY <1>4, <2>1, EndsIdle, OnceIdle
<1>6. ASSUME NEW b \in BroadcastId, StartCreate(w, b)
      PROVE  Once'
  <2>1. /\ worker[w].pc = "create" /\ worker[w].pc # "none" /\ NextId(b)
        /\ rows' = [rows EXCEPT ![b] = NewRow(w)] /\ UNCHANGED calls
        /\ worker' = [worker EXCEPT ![w] = WorkerOf(worker[w].proc, b, NewRow(w))]
    BY <1>6 DEF StartCreate
  <2>2. /\ CalledBehind(b, 0) /\ rows'[b].cursor = 0 /\ rows'[b].status = "running"
        /\ \A c \in BroadcastId : c # b => rows'[c] = rows[c] /\ rows[c].status # "running"
    BY <1>4, <2>1
  <2>3. \A v \in Worker : v # w => worker[v].pc = "none" /\ worker'[v] = worker[v]
    BY <2>1, OnlyWorker DEF Consistent, TypeOK
  <2>4. worker'[w].pc = "fetch" /\ worker'[w].id = b /\ worker'[w].cursor = 0
    BY <2>1 DEF WorkerOf, NewRow, Consistent, TypeOK
  <2>5. Runs(w, b)'
    BY <2>4 DEF Runs, RunPhase
  <2>6. \A c \in BroadcastId : RowOnce(c)'
    BY <2>1, <2>2, <2>5 DEF Once, RowOnce, CalledBehind
  <2>7. \A v \in Worker : WorkerOnce(v)'
    BY <2>1, <2>2, <2>3, <2>4, RunPhaseActive DEF WorkerOnce, CalledBehind
  <2>8. AttemptedOnce'
    BY <2>1 DEF Once, AttemptedOnce
  <2>9. QED
    BY <2>6, <2>7, <2>8 DEF Once
<1>7. QED
  BY <1>1, <1>2, <1>3, <1>5, <1>6 DEF StartStep, CancelledStep

LEMMA BootResumesOnce ==
  ASSUME Consistent, Sole, Once, NEW p \in Process, NEW w \in Worker,
         NEW b \in BroadcastId, BootResumes(p, w, b)
  PROVE  Once'
<1>1. /\ ~ proc[p].up /\ b \in Unfinished
      /\ worker' = [worker EXCEPT ![w] = WorkerOf(p, b, rows[b])]
      /\ UNCHANGED <<rows, calls>>
  BY DEF BootResumes
<1>2. \A v \in Worker : worker[v].pc = "none"
  <2>1. ASSUME NEW v \in Worker, worker[v].pc # "none"
        PROVE  FALSE
    <3>1. worker[v].proc \in Process
      BY <2>1, WorkerFacts DEF Consistent
    <3>2. worker[v].proc = p
      BY <3>1 DEF Sole, OneProcess
    <3>3. QED
      BY <1>1, <2>1, <3>2 DEF Consistent, Flagged
  <2>2. QED
    BY <2>1
<1>3. /\ worker'[w] = WorkerOf(p, b, rows[b])
      /\ \A v \in Worker : v # w => worker'[v] = worker[v]
  BY <1>1 DEF Consistent, TypeOK
<1>4. worker'[w].pc = "fetch" /\ worker'[w].id = b /\ worker'[w].cursor = rows[b].cursor
  BY <1>3 DEF WorkerOf
<1>5. rows[b].status = "running" /\ \A c \in BroadcastId : rows[c].status = "running" => c = b
  BY <1>1 DEF Unfinished, Sole
<1>6. CalledBehind(b, rows[b].cursor)
  BY <1>2, <1>5, RunPhaseActive DEF Once, RowOnce, Runs
<1>7. Runs(w, b)'
  BY <1>4 DEF Runs, RunPhase
<1>8. \A c \in BroadcastId : RowOnce(c)'
  BY <1>1, <1>5, <1>7 DEF Once, RowOnce, CalledBehind
<1>9. \A v \in Worker : WorkerOnce(v)'
  BY <1>1, <1>2, <1>3, <1>4, <1>6, RunPhaseActive DEF WorkerOnce, CalledBehind
<1>10. AttemptedOnce'
  BY <1>1 DEF Once, AttemptedOnce
<1>11. QED
  BY <1>8, <1>9, <1>10 DEF Once

LEMMA OrderlyStepOnce ==
  ASSUME Consistent, Sole, Sole', Once, OrderlyStep
  PROVE  Once'
<1>1. ASSUME NEW u \in Recipient, Register(u)
      PROVE  Once'
  BY <1>1, OnceByFrame DEF Register
<1>2. ASSUME NEW p \in Process, BootStep(p) \/ Stops(p)
      PROVE  Once'
  <2>1. CASE Boot(p) \/ Stops(p)
    BY <2>1, OnceByFrame DEF Boot, Stops
  <2>2. QED
    BY <1>2, <2>1, BootResumesOnce DEF BootStep
<1>3. ASSUME NEW p \in Process, Exits(p)
      PROVE  Once'
  <2>1. /\ \A v \in Worker : worker[v].proc # p
        /\ worker' = [w \in Worker |-> IF worker[w].proc = p THEN NoWorker ELSE worker[w]]
        /\ UNCHANGED <<rows, calls>>
    BY <1>3 DEF Exits, Gone, WorkersOf
  <2>2. \A v \in Worker : worker'[v] = worker[v]
    BY <2>1
  <2>3. QED
    BY <2>1, <2>2, OnceByFrame
<1>4. QED
  BY <1>1, <1>2, <1>3, WorkerStepOnce, StartStepOnce DEF OrderlyStep

-----------------------------------------------------------------------------
(* The theorems *)

Lasting == Consistent /\ Sole /\ Tallied /\ (~ died => Once)

LEMMA InitLasting == LastingInit => Lasting
<1>1. SUFFICES ASSUME LastingInit
               PROVE  Lasting
  OBVIOUS
<1>2. Init /\ OneProcess
  BY <1>1 DEF LastingInit
<1>3. Consistent
  BY <1>2, InitConsistent
<1>4. /\ \A b \in BroadcastId : rows[b].status = "absent"
      /\ \A w \in Worker : worker[w].pc = "none"
      /\ \A b \in BroadcastId : \A u \in Recipient : calls[b][u] = 0
  BY <1>2, NoWorkerType DEF Init, NoBroadcast
<1>5. Unfinished = {}
  BY <1>4 DEF Unfinished
<1>6. Sole
  BY <1>2, <1>4, <1>5, RunPhaseActive DEF Sole
<1>7. Tallied
  BY <1>4, RunPhaseActive DEF Tallied, RowTallied, WorkerTallied
<1>8. Once
  BY <1>4, RunPhaseActive DEF Once, AttemptedOnce, RowOnce, WorkerOnce, CalledBehind, RunPhase
<1>9. QED
  BY <1>3, <1>6, <1>7, <1>8 DEF Lasting

LEMMA StepLasting == Lasting /\ [LastingNext]_allVars => Lasting'
<1>1. SUFFICES ASSUME Lasting, [LastingNext]_allVars
               PROVE  Lasting'
  OBVIOUS
<1>2. CASE UNCHANGED allVars
  <2>1. UNCHANGED vars /\ UNCHANGED <<users, rows, proc, worker, calls, died>>
    BY <1>2 DEF allVars, vars
  <2>2. Consistent'
    BY <1>1, <2>1, StepConsistent DEF Lasting
  <2>3. Sole'
    BY <1>1, <2>1, SoleByFrame DEF Lasting
  <2>4. Tallied'
    BY <1>1, <2>1, <2>2, TalliedByFrame DEF Lasting, Consistent
  <2>5. ~ died' => Once'
    BY <1>1, <2>1, OnceByFrame DEF Lasting
  <2>6. QED
    BY <2>2, <2>3, <2>4, <2>5 DEF Lasting
<1>3. CASE LastingNext
  <2>1. LastingStep /\ died' = (died \/ Death)
    BY <1>3 DEF LastingNext
  <2>2. Consistent'
    BY <1>1, <2>1, StepConsistent DEF Lasting, LastingStep, Next
  <2>3. Sole'
    BY <1>1, <2>1, LastingStepSole DEF Lasting
  <2>4. Tallied'
    BY <1>1, <2>1, <2>2, LastingStepTallied DEF Lasting, Consistent
  <2>5. ASSUME ~ died'
        PROVE  Once'
    <3>1. ~ died /\ ~ Death
      BY <2>1, <2>5
    <3>2. OrderlyStep /\ Once
      BY <1>1, <2>1, <3>1 DEF LastingStep, Lasting
    <3>3. QED
      BY <1>1, <2>3, <3>2, OrderlyStepOnce DEF Lasting
  <2>6. QED
    BY <2>2, <2>3, <2>4, <2>5 DEF Lasting
<1>4. QED
  BY <1>1, <1>2, <1>3

LEMMA AlwaysLasting == LastingSpec => []Lasting
<1>1. LastingSpec => LastingInit /\ [][LastingNext]_allVars
  BY PTL DEF LastingSpec
<1>2. QED
  BY <1>1, InitLasting, StepLasting, PTL

\* One process whose queries answer has one running row at most: Start and Resume
\* between them never leave a second one behind, whenever it stops or dies, so that
\* FindRunning's LIMIT 1 loses none.
THEOREM OneRunning == LastingSpec => []OneRunningRow
<1>1. Lasting => OneRunningRow
  <2>1. SUFFICES ASSUME Lasting
                 PROVE  Cardinality(Unfinished) <= 1
    BY DEF OneRunningRow
  <2>2. \A b, c \in Unfinished : b = c
    BY <2>1 DEF Lasting, Sole
  <2>3. CASE Unfinished = {}
    BY <2>3, FS_EmptySet
  <2>4. CASE Unfinished # {}
    <3>1. PICK b : Unfinished = {b}
      BY <2>2, <2>4
    <3>2. QED
      BY <3>1, FS_Singleton
  <2>5. QED
    BY <2>3, <2>4
<1>2. QED
  BY <1>1, AlwaysLasting, PTL

\* What a finished broadcast reports adds up, whatever cursor a death took it back to.
THEOREM CountersAddUp == LastingSpec => []DoneTally
<1>1. Lasting => DoneTally
  <2>1. SUFFICES ASSUME Lasting, NEW b \in BroadcastId, rows[b].status = "done"
                 PROVE  /\ rows[b].sent + rows[b].failed >= Cardinality(rows[b].audience)
                        /\ rows[b].sent + rows[b].failed <= Cardinality(users)
    BY DEF DoneTally
  <2>2. /\ Cardinality(rows[b].audience) <= rows[b].sent + rows[b].failed
        /\ rows[b].sent + rows[b].failed <= Cardinality(users)
    BY <2>1 DEF Lasting, Tallied, RowTallied
  <2>3. Cardinality(rows[b].audience) \in Nat /\ rows[b].sent + rows[b].failed \in Nat
    BY <2>1, RowValues, RecipientsFinite DEF Lasting, Consistent
  <2>4. QED
    BY <2>2, <2>3
<1>2. QED
  BY <1>1, AlwaysLasting, PTL

\* Nobody is called twice for a broadcast while no process has died: a shutdown at
\* any point of run persists the cursor of what was sent, and Resume goes on from it.
THEOREM CalledOnce == LastingSpec => []OnceUntilDeath
<1>1. Lasting => OnceUntilDeath
  BY DEF Lasting, Once, OnceUntilDeath
<1>2. QED
  BY <1>1, AlwaysLasting, PTL
================================================================================
