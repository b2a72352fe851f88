--------------------------- MODULE MCTeamRegistry ---------------------------
(* TeamRegistry for TLC; team IDs and slots of deletions are interchangeable. *)
EXTENDS TeamRegistry, TLC

Symmetry == Permutations(Team) \cup Permutations(Deleter)
=============================================================================
