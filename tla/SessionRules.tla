---------------------------- MODULE SessionRules ----------------------------
(***************************************************************************)
(* The rules of one guessing session: what POST /ask, /guess, /reveal and  *)
(* /decrypt decide once they have read the session record, as sets of      *)
(* possible outcomes.  An outcome is the record the handler wants to store *)
(* together with the Redis commands it is going to issue (`todo`) and the  *)
(* number of points they move (`points`).  When and in which order those   *)
(* commands reach Redis is the business of module SessionPlay.             *)
(*                                                                         *)
(* Dice (chaos, block, encryption) and the request's input are the choice  *)
(* among the outcomes.  Every handler may also refuse: an unknown question *)
(* or candidate, or a wrong plaintext or key, is an input a client can     *)
(* always send.                                                            *)
(***************************************************************************)
EXTENDS Integers, FiniteSets

CONSTANTS
    Candidate,          \* characters on the board of the session
    Question,           \* trait questions of the catalog
    GuessLimit,         \* 3 in the code
    PriorSolves,        \* team solves when the session starts
    SolveScore,         \* the score of a correct guess, clamped at 0
    MaxFailed,          \* bound on FailedRequests, for TLC only
    ElimQuestions,      \* 3 in the code: questions that earn M3
    RevealQuestions,    \* 5 in the code: questions before /reveal
    EfficientQuestions  \* 10 in the code: at most that many earn S1

ASSUME RulesAssumption ==
    /\ IsFiniteSet(Question)
    /\ GuessLimit \in Nat \ {0}
    /\ PriorSolves \in Nat
    /\ SolveScore \in Nat
    /\ MaxFailed \in Nat
    /\ ElimQuestions \in Nat
    /\ RevealQuestions \in Nat
    /\ EfficientQuestions \in Nat

WrongGuessPenalty == 200
RevealPenalty     == 500
DecryptionBonus   == 100

\* Fixed when the session is created, from the team's solves at that moment.
Stage    == IF PriorSolves >= 48 THEN 2 ELSE 1
Filtered == PriorSolves >= 10   \* block and encryption rolls are on

Milestone == {"M1", "M2", "M3", "M4", "M5", "SP1", "S1", "S2", "S3"}

Bonus(m) == IF m = "SP1" THEN 4000
            ELSE IF m \in {"S1", "S2", "S3"} THEN 2000 ELSE 1000

\* Redis commands a handler may issue after its read, one name per command.
Effect == {"score", "board", "write", "stats", "clear", "remove", "publish"}
             \cup (Milestone \ {"M1"})

-----------------------------------------------------------------------------
\* The per-question maps of the record: "none" is an absent key.
Decision == {"none", "yes", "no"}

SessionRecord ==
    [target         : Candidate,
     asked          : Nat,                    \* len(QuestionsAsked)
     encrypted      : [Question -> Decision],
     blocked        : [Question -> Decision],
     guesses        : 0 .. GuessLimit,        \* GuessesRemaining
     guessed        : SUBSET Candidate,
     failed         : 0 .. MaxFailed,
     completed      : BOOLEAN,
     correct        : BOOLEAN,
     pending        : BOOLEAN,
     pendingCorrect : BOOLEAN,
     pendingKey     : SUBSET Question]        \* key of the stored ciphertext

NewSession(target) ==
    [target         |-> target,
     asked          |-> 0,
     encrypted      |-> [q \in Question |-> "none"],
     blocked        |-> [q \in Question |-> "none"],
     guesses        |-> GuessLimit,
     guessed        |-> {},
     failed         |-> 0,
     completed      |-> FALSE,
     correct        |-> FALSE,
     pending        |-> FALSE,
     pendingCorrect |-> FALSE,
     pendingKey     |-> {}]

Outcome == [session : SessionRecord, todo : SUBSET Effect, points : Int]

Refused(sess) == [session |-> sess, todo |-> {}, points |-> 0]

Completed(sess, correct) ==
    [sess EXCEPT !.completed = TRUE, !.correct = correct]

OneGuessLess(sess) ==
    [sess EXCEPT !.guesses = IF @ > 0 THEN @ - 1 ELSE @]

\* The witness key is derived from the answers given in the clear.
WitnessKey(sess) == {q \in Question : sess.encrypted[q] = "no"}

SawCipher(sess) == \E q \in Question : sess.encrypted[q] = "yes"

\* A chaos failure is counted in the session and stored.
ChaosFailures(sess) ==
    IF sess.failed < MaxFailed
    THEN {[session |-> [sess EXCEPT !.failed = @ + 1],
           todo    |-> {"write"},
           points  |-> 0]}
    ELSE {}

-----------------------------------------------------------------------------
\* Mutant: the dice are rolled again although a decision is stored.
RollsAgain(stored, enabled) == IF enabled THEN {"yes", "no"} ELSE {"no"}

\* A decision already stored for a question is reused, a new one is rolled.
Rolls(stored, enabled) ==
    IF stored # "none" THEN {stored}
    ELSE IF enabled THEN {"yes", "no"} ELSE {"no"}

\* Mutant: RecordQuestion runs for every answer.
RecordedAgain(sess, q, encrypt) ==
    [sess EXCEPT !.asked = @ + 1, !.encrypted = [@ EXCEPT ![q] = encrypt]]

\* RecordQuestion, skipped when the question was answered before.
Recorded(sess, q, encrypt) ==
    IF sess.encrypted[q] # "none" THEN sess
    ELSE [sess EXCEPT !.asked = @ + 1,
                      !.encrypted = [@ EXCEPT ![q] = encrypt]]

AskMilestones(sess, inWindow) ==
    {"M2"} \cup (IF sess.asked >= ElimQuestions THEN {"M3"} ELSE {})
           \cup (IF inWindow THEN {"S3"} ELSE {})

Answered(sess, q) ==
    {[session |-> Recorded(sess, q, e),
      todo    |-> {"write"} \cup AskMilestones(Recorded(sess, q, e), w),
      points  |-> 0] : e \in Rolls(sess.encrypted[q], Filtered), w \in BOOLEAN}

BlockedAnswer(sess) == [session |-> sess, todo |-> {"write"}, points |-> 0]

Asked(sess, q) ==
    IF Stage = 2 \/ ~Filtered THEN Answered(sess, q)
    ELSE UNION {LET next == [sess EXCEPT !.blocked = [@ EXCEPT ![q] = b]]
                IN  IF b = "yes" THEN {BlockedAnswer(next)}
                                 ELSE Answered(next, q)
                : b \in Rolls(sess.blocked[q], TRUE)}

\* Mutant: no check for a completed session.
AskEvenCompleted(sess) ==
    {Refused(sess)} \cup ChaosFailures(sess)
                    \cup UNION {Asked(sess, q) : q \in Question}

AskOutcomes(sess) ==
    {Refused(sess)} \cup
    (IF sess.completed THEN {}
     ELSE ChaosFailures(sess) \cup UNION {Asked(sess, q) : q \in Question})

-----------------------------------------------------------------------------
\* Mutant: the verdict is not kept with the pending guess.
WithheldAsWrong(sess, correct) ==
    [session |-> [sess EXCEPT !.pending = TRUE, !.pendingKey = WitnessKey(sess)],
     todo    |-> {"write"},
     points  |-> 0]

\* Stage 2: the answer is encrypted under the witness key of this moment and
\* the session stays open until the client has decrypted it.
Withheld(sess, correct) ==
    [session |-> [sess EXCEPT !.pending = TRUE,
                              !.pendingCorrect = correct,
                              !.pendingKey = WitnessKey(sess)],
     todo    |-> {"write"},
     points  |-> 0]

\* Mutant: a solve does not clean up the active session.
SolvedUncleaned(sess) ==
    [session |-> Completed(sess, TRUE),
     todo    |-> {"write", "stats", "M4", "S2", "publish"},
     points  |-> SolveScore]

Solved(sess) ==
    [session |-> Completed(sess, TRUE),
     todo    |-> {"write", "stats", "clear", "remove", "M4", "S2", "publish"}
                    \cup (IF SawCipher(sess) THEN {"M5"} ELSE {})
                    \cup (IF sess.asked <= EfficientQuestions THEN {"S1"} ELSE {}),
     points  |-> SolveScore]

\* Mutant: running out of guesses completes the session without cleaning up.
MissedUncleaned(sess) ==
    LET next == OneGuessLess(sess)
    IN  [session |-> IF next.guesses <= 0 THEN Completed(next, FALSE) ELSE next,
         todo    |-> {"score", "board", "write", "publish"},
         points  |-> -WrongGuessPenalty]

Missed(sess) ==
    LET next == OneGuessLess(sess)
        over == next.guesses <= 0 \/ next.guessed = Candidate
    IN  [session |-> IF over THEN Completed(next, FALSE) ELSE next,
         todo    |-> {"score", "board", "write", "publish"}
                        \cup (IF over THEN {"clear", "remove"} ELSE {}),
         points  |-> -WrongGuessPenalty]

Guessed(sess, c) ==
    LET next    == [sess EXCEPT !.guessed = @ \cup {c}]
        correct == c = sess.target
    IN  {IF correct THEN Solved(next) ELSE Missed(next)}
           \cup (IF Stage = 2 THEN {Withheld(next, correct)} ELSE {})

\* Mutant: no check for a completed session.
GuessEvenCompleted(sess) ==
    IF sess.pending THEN {Refused(sess)} ELSE UNION {Guessed(sess, c) : c \in Candidate}

GuessOutcomes(sess) ==
    {Refused(sess)} \cup
    (IF sess.completed \/ sess.pending THEN {}
     ELSE ChaosFailures(sess) \cup
          (IF sess.guesses <= 0 THEN {}
           ELSE UNION {Guessed(sess, c) : c \in Candidate}))

-----------------------------------------------------------------------------
Revealed(sess) ==
    [session |-> Completed(sess, sess.correct),
     todo    |-> {"score", "board", "write", "clear", "remove"},
     points  |-> -RevealPenalty]

RevealOutcomes(sess) ==
    ChaosFailures(sess) \cup
    (IF sess.completed \/ sess.asked < RevealQuestions
     THEN {Refused(sess)} ELSE {Revealed(sess)})

-----------------------------------------------------------------------------
NoPending(sess) ==
    [sess EXCEPT !.pending = FALSE, !.pendingCorrect = FALSE, !.pendingKey = {}]

Deciphered(sess) ==
    [session |-> Completed(sess, TRUE),
     todo    |-> {"score", "board", "SP1", "write", "stats", "clear", "remove"}
                    \cup (IF SawCipher(sess) THEN {"M5"} ELSE {}),
     points  |-> SolveScore + DecryptionBonus]

\* Mutant: "completed" is assigned from the guesses instead of only set.
DecipheredMissReopens(sess) ==
    LET next == OneGuessLess(sess)
    IN  [session |-> [next EXCEPT !.completed = (next.guesses <= 0)],
         todo    |-> {"score", "board", "write"},
         points  |-> -WrongGuessPenalty]

DecipheredMiss(sess) ==
    LET next == OneGuessLess(sess)
        over == next.guesses <= 0
    IN  [session |-> IF over THEN Completed(next, FALSE) ELSE next,
         todo    |-> {"score", "board", "write"}
                        \cup (IF over THEN {"clear", "remove"} ELSE {}),
         points  |-> -WrongGuessPenalty]

DecryptOutcomes(sess) ==
    {Refused(sess)} \cup
    (IF Stage # 2 \/ ~sess.pending THEN {}
     ELSE {IF sess.pendingCorrect THEN Deciphered(NoPending(sess))
                                  ELSE DecipheredMiss(NoPending(sess))})
=============================================================================
