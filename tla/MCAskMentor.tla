------------------------------ MODULE MCAskMentor ------------------------------
(* An instance of AskMentor small enough for TLC. *)
EXTENDS AskMentor, TLC

AskerSymmetry == Permutations(Asker) \cup Permutations(User) \cup Permutations(Question \ Ambiguous)
=============================================================================
