--------------------------- MODULE MCTeamSessions ---------------------------
(* TeamSessions for TLC; session IDs, start slots and characters are         *)
(* interchangeable in the runs without liveness.                             *)
EXTENDS TeamSessions, TLC

Symmetry == Permutations(Session) \cup Permutations(Starter)
               \cup Permutations(Character)

=============================================================================
