-------------------------------- MODULE Listing --------------------------------
(***************************************************************************)
(* Paged listings and exports (api/request.go, the list handlers of        *)
(* api/admin_handlers.go and api/user_handlers.go, the queries of          *)
(* repositories/admin_repository.go and session_repository.go).            *)
(*                                                                         *)
(* A reader walks a listing page by page, newest first, until the page     *)
(* count of the last response is reached. Every page is a query of its     *)
(* own, by offset. In between, rows are inserted, and rows enter or leave  *)
(* the listing when what its filter asks for changes; none is deleted.     *)
(***************************************************************************)
EXTENDS Integers, FiniteSets

CONSTANTS
  RowId,          \* ids of rows, in the order of insertion
  Instant,        \* times a row can carry
  InstantsOfDay,  \* instants in a day
  MaxPageLimit,   \* rows on a page, at most
  MaxExportDays,  \* days an export may span beyond its first
  MaxDepartures,  \* bound: rows that leave the listing during a walk
  Ghost           \* the time of a row that is not there

ASSUME ListingAssumption ==
  /\ RowId \subseteq Nat /\ Instant \subseteq Nat /\ Ghost \notin Nat
  /\ {InstantsOfDay, MaxPageLimit} \subseteq Nat \ {0}
  /\ {MaxExportDays, MaxDepartures} \subseteq Nat

VARIABLES
  stamp,   \* created_at or started_at of every row, or Ghost
  listed,  \* the rows the filter lets through
  walk     \* the reader: page and limit asked for, rows seen

listVars == <<stamp, listed, walk>>

Rows == {r \in RowId : stamp[r] # Ghost}

\* ORDER BY time DESC, id DESC.
Newer(r, s) == stamp[r] > stamp[s] \/ (stamp[r] = stamp[s] /\ r > s)
Position(r) == Cardinality({s \in listed : Newer(s, r)})

Capped(asked) == IF asked > MaxPageLimit THEN MaxPageLimit ELSE asked

\* Mutant of Offset: it is computed from the limit before the cap.
UncappedOffset(page, asked) == (page - 1) * asked

Offset(page, asked) == (page - 1) * Capped(asked)

\* LIMIT and OFFSET of one page.
Items(page, asked) ==
  {r \in listed : Position(r) \in Offset(page, asked)..(Offset(page, asked) + Capped(asked) - 1)}

\* COUNT(*) OVER() comes with the rows: a page without rows counts none.
TotalPages(page, asked) ==
  IF Items(page, asked) = {} THEN 0
  ELSE (Cardinality(listed) + Capped(asked) - 1) \div Capped(asked)

\* Tables and readers: every row that is there, listed or not.
ListInit(stamps, limits) ==
  /\ stamp \in stamps
  /\ listed \in SUBSET Rows
  /\ walk \in {[page |-> 1, asked |-> n, seen |-> {}, kept |-> listed, departed |-> 0,
                done |-> FALSE] : n \in limits}

ReadsPage ==
  LET w == walk IN
  /\ ~ w.done
  /\ walk' = [w EXCEPT !.seen = @ \cup Items(w.page, w.asked),
                       !.page = @ + 1,
                       !.done = w.page >= TotalPages(w.page, w.asked)]
  /\ UNCHANGED <<stamp, listed>>

\* A new row, listed at once; its time may be older than what is there already.
Inserted(r, t) ==
  /\ ~ walk.done
  /\ stamp[r] = Ghost /\ \A s \in RowId : s < r => stamp[s] # Ghost
  /\ stamp' = [stamp EXCEPT ![r] = t]
  /\ listed' = listed \cup {r}
  /\ UNCHANGED walk

\* A correction makes a row match the filter.
Enters(r) ==
  /\ ~ walk.done
  /\ r \in Rows \ listed
  /\ listed' = listed \cup {r}
  /\ UNCHANGED <<stamp, walk>>

\* A correction makes a row match it no longer.
Departs(r) ==
  /\ ~ walk.done /\ walk.departed < MaxDepartures
  /\ r \in listed
  /\ listed' = listed \ {r}
  /\ walk' = [walk EXCEPT !.kept = @ \ {r}, !.departed = @ + 1]
  /\ UNCHANGED stamp

ListNext ==
  \/ ReadsPage
  \/ \E r \in RowId : Enters(r) \/ Departs(r) \/ \E t \in Instant : Inserted(r, t)

-----------------------------------------------------------------------------
(* Exports *)

Days == {t \div InstantsOfDay : t \in Instant}

Allowed(from, to) == from <= to /\ to - from <= MaxExportDays

\* Mutant of Exported: the last day ends where it begins.
ExportedBefore(from, to) ==
  {r \in Rows : from * InstantsOfDay <= stamp[r] /\ stamp[r] < to * InstantsOfDay}

\* The rows of an export from one date to another, both included.
Exported(from, to) ==
  {r \in Rows : from * InstantsOfDay <= stamp[r] /\ stamp[r] < (to + 1) * InstantsOfDay}

-----------------------------------------------------------------------------
(* Properties *)

\* A walk misses a row that was listed from its beginning to its end only when another
\* row left the listing meanwhile, and no more rows than left: inserts move rows to
\* later pages, where they are seen (again), whatever time they carry
\* (request.go:74, admin_repository.go:152-295).
WalkMissesDeparted ==
  walk.done => Cardinality(walk.kept \ walk.seen) <= walk.departed

\* Exports of consecutive date ranges share no row and lose none, on any day and at any
\* instant of it, however the range an administrator wants is cut to what is allowed
\* (request.go:222-228).
ExportsMeet ==
  \A from, last, to \in Days :
    Allowed(from, to) /\ from <= last /\ last < to =>
      /\ Exported(from, last) \cap Exported(last + 1, to) = {}
      /\ Exported(from, last) \cup Exported(last + 1, to)
           = {r \in Rows : stamp[r] \div InstantsOfDay \in from..to}
=============================================================================
