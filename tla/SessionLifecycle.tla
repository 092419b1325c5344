---------------------------- MODULE SessionLifecycle ----------------------------
(***************************************************************************)
(* What the tracker promises about study sessions, with every request an   *)
(* atomic step: a user opens a session only when none of theirs is open, a *)
(* session is closed once and stays closed, and what was recorded at the   *)
(* close is amended by an administrator only, and only after the close.    *)
(* StudySessions, which splits every request into its database calls,      *)
(* implements this specification.                                          *)
(***************************************************************************)
EXTENDS Naturals

CONSTANTS
  User,        \* the registered students
  SessionId,   \* the ids the sessions table hands out
  None         \* the absent value

VARIABLE book  \* book[s]: the part of the row of session s the promise is about

-----------------------------------------------------------------------------

Blank == [status |-> "absent", user |-> None, minutes |-> 0, valid |-> TRUE]

Init == book = [s \in SessionId |-> Blank]

\* A session opens valid and with no minutes, for a user who has none open.
Open(u, s) ==
  /\ book[s] = Blank
  /\ \A t \in SessionId : book[t].status = "active" => book[t].user # u
  /\ book' = [book EXCEPT ![s] = [status |-> "active", user |-> u, minutes |-> 0, valid |-> TRUE]]

\* The close fixes the minutes; neither the owner nor the validity moves.
Close(s) ==
  /\ book[s].status = "active"
  /\ book'[s].minutes \in Nat
  /\ book' = [book EXCEPT ![s].status = "finished", ![s].minutes = book'[s].minutes]

\* A correction touches the minutes and the validity of a closed session.
Amend(s) ==
  /\ book[s].status = "finished"
  /\ book'[s].minutes \in Nat
  /\ book'[s].valid \in BOOLEAN
  /\ book' = [book EXCEPT ![s].minutes = book'[s].minutes, ![s].valid = book'[s].valid]

Next == \E s \in SessionId : (\E u \in User : Open(u, s)) \/ Close(s) \/ Amend(s)

Spec == Init /\ [][Next]_book
=============================================================================
