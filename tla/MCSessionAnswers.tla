-------------------------- MODULE MCSessionAnswers --------------------------
(* SessionAnswers for TLC; call slots and candidates are interchangeable. *)
EXTENDS SessionAnswers, TLC

Symmetry == Permutations(Call) \cup Permutations(Candidate)
=============================================================================
