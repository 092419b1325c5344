------------------------------- MODULE MCHttpApi -------------------------------
(* Instances of HttpApi for TLC. *)
EXTENDS HttpApi, TLC

\* A burst of one or two requests: every limiter runs dry, and is refilled.
MCRate(k) == IF k[1] \in {"admin", "userIP"} THEN 2 ELSE 1

\* The goroutines of the server are interchangeable, and so are people.
ApiSymmetry == Permutations(Request) \cup Permutations(Person)
=============================================================================
