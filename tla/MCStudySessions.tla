---------------------------- MODULE MCStudySessions ----------------------------
(* Instances of StudySessions small enough for TLC, with the totals read from them. *)
EXTENDS StudyTotals, TLC

\* Requests, and the ids of sessions, are interchangeable.
RequestSymmetry == Permutations(Request) \cup Permutations(SessionId)

\* So are administrators.
AllSymmetry == Permutations(Request) \cup Permutations(SessionId) \cup Permutations(Admin)
=============================================================================
