------------------------------ MODULE Scoring -------------------------------
(***************************************************************************)
(* What a correct guess is worth, from the seconds since the session was   *)
(* created, the questions recorded in it and its failed requests.  The     *)
(* code also charges timeouts and unhandled errors, but IncrementFailure   *)
(* is only ever called with "failed": those two counters stay zero.        *)
(***************************************************************************)
EXTENDS Integers

BaseScore == 1000

TimeBonus(elapsed) == IF elapsed < 600 THEN 600 - elapsed ELSE 0

\* Mutant: the questions beyond the fifteenth are added instead of charged.
ExcessRewarded(asked) ==
    IF asked <= 15 THEN 300 - 20 * asked ELSE 5 * (asked - 15)

\* Twenty points less per question down to zero, then five below zero each.
QuestionBonus(asked) ==
    IF asked <= 15 THEN 300 - 20 * asked ELSE -(5 * (asked - 15))

ReliabilityPenalty(failed) == 5 * failed

\* SubmitGuess clamps the total at zero.
GuessScore(elapsed, asked, failed) ==
    LET total == BaseScore + TimeBonus(elapsed) + QuestionBonus(asked)
                           - ReliabilityPenalty(failed)
    IN  IF total < 0 THEN 0 ELSE total
=============================================================================
