--------------------------- MODULE MCSessionPlay ----------------------------
(* SessionPlay for TLC.  Request slots are interchangeable, and where no    *)
(* constant names one, so are sessions and candidates.                      *)
EXTENDS SessionPlay, TLC

Symmetry     == Permutations(Request)
FullSymmetry == Symmetry \cup Permutations(Session) \cup Permutations(Candidate)
=============================================================================
