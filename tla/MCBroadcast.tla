------------------------------ MODULE MCBroadcast ------------------------------
(* Instances of Broadcast for TLC: interchangeable goroutines and processes. *)
EXTENDS Broadcast, TLC

\* Goroutines have no identity beyond their state.
WorkerSymmetry == Permutations(Worker)

\* Processes of a rolling deploy are interchangeable too.
AllSymmetry == Permutations(Worker) \cup Permutations(Process)
=============================================================================
