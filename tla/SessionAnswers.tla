--------------------------- MODULE SessionAnswers ---------------------------
(***************************************************************************)
(* One session seen from its player: what the responses say, against what  *)
(* the session record holds.  Module SessionRules decides; the session     *)
(* lock makes reading, deciding and storing one step (AtomicPlay), so this *)
(* module starts where that one ends: a request is sent, decided in one    *)
(* step, answered - a guess from a second, unlocked read of the session -  *)
(* and its response reaches the player or is lost.                         *)
(*                                                                         *)
(* The player keeps the first plain answer it receives to each question.   *)
(* That log is all it has to derive the witness key of Stage 2 from.  An   *)
(* enum question is asked with a value; values are told apart only by      *)
(* whether the target has them (`hit`).                                    *)
(***************************************************************************)
EXTENDS SessionRules, Scoring

CONSTANTS
    Call,         \* how many requests the player may have open at once
    PriorAsked,   \* questions outside Question that were asked before
    TickSeconds,  \* the step of the clock
    MaxElapsed,   \* bound on the age of the session
    MaxBadWrites  \* bound on the writes of the session that fail

ASSUME AnswersAssumption ==
    /\ PriorAsked \in Nat
    /\ TickSeconds \in Nat \ {0}
    /\ MaxElapsed \in Nat
    /\ MaxBadWrites \in Nat

VARIABLES
    \* the record in Redis
    session, witness, challenge, stored,
    \* time since the session was created, and writes that failed
    elapsed, badWrites,
    \* the requests, and the player's log of plain answers
    calls, log,
    \* observation: solves told by the service; calls that were open together
    \* with another one; questions whose asks crossed or lost a response
    victories, crossed, unsure

record   == <<session, witness, challenge>>
world    == <<stored, elapsed>>
observed == <<victories, crossed, unsure>>
vars     == <<record, world, badWrites, calls, log, observed>>

Answer == {"none", "yes", "no"}
Log    == [Question -> Answer]
NoLog  == [q \in Question |-> "none"]

\* PendingDecryptionPlaintext and PendingScore.
NoChallenge == [plaintext |-> {}, score |-> 0]
Challenge   == [plaintext : SUBSET Candidate, score : Nat]

Request == [op : {"ask"}, question : Question, hit : BOOLEAN]
              \cup [op : {"guess"}, candidate : Candidate]
              \cup [op : {"decrypt"}, candidate : Candidate, key : Log]
              \cup [op : {"reveal"}]

Result == {"yes", "no", "cipher", "blocked", "correct", "wrong", "withheld",
           "revealed", "completed", "pending_decryption", "no_guesses_remaining",
           "insufficient_questions", "no_pending_decryption", "wrong_decryption",
           "wrong_witness_key", "chaos", "transient_error"}

Idle == [phase |-> "idle"]

CallState == {Idle}
    \cup [phase : {"sent"}, request : Request]
    \cup [phase : {"decided"}, request : Request, result : Result]

Open(c) == calls[c].phase # "idle"
Asks(c, q) == Open(c) /\ calls[c].request.op = "ask" /\ calls[c].request.question = q

\* What a correct guess is worth now.
Worth == GuessScore(elapsed, session.asked, session.failed)

Init ==
    /\ \E target \in Candidate :
          session = [NewSession(target) EXCEPT !.asked = PriorAsked]
    /\ witness = NoLog
    /\ challenge = NoChallenge
    /\ stored = TRUE
    /\ elapsed = 0
    /\ badWrites = 0
    /\ calls = [c \in Call |-> Idle]
    /\ log = NoLog
    /\ victories = 0
    /\ crossed = {}
    /\ unsure = {}

-----------------------------------------------------------------------------
(* The player sends a request.                                             *)

Send(c, request) ==
    LET others == {d \in Call \ {c} : Open(d)}
    IN  /\ ~Open(c)
        /\ calls' = [calls EXCEPT ![c] = [phase |-> "sent", request |-> request]]
        /\ crossed' = IF others = {} THEN crossed ELSE crossed \cup others \cup {c}
        /\ UNCHANGED <<record, world, badWrites, log, victories>>

SendAsk(c) == \E q \in Question, hit \in BOOLEAN :
    /\ Send(c, [op |-> "ask", question |-> q, hit |-> hit])
    /\ unsure' = IF \E d \in Call : Asks(d, q) THEN unsure \cup {q} ELSE unsure

SendGuess(c) == \E candidate \in Candidate :
    /\ Send(c, [op |-> "guess", candidate |-> candidate])
    /\ UNCHANGED unsure

\* The player submits the witness key it derives from its log.
SendDecrypt(c) == \E candidate \in Candidate :
    /\ Send(c, [op |-> "decrypt", candidate |-> candidate, key |-> log])
    /\ UNCHANGED unsure

SendReveal(c) == Send(c, [op |-> "reveal"]) /\ UNCHANGED unsure

-----------------------------------------------------------------------------
(* The service decides, under the session lock.                            *)

Deciding(c, op) == stored /\ calls[c].phase = "sent" /\ calls[c].request.op = op

Decided(c, result) ==
    /\ calls' = [calls EXCEPT ![c] = [phase   |-> "decided",
                                      request |-> calls[c].request,
                                      result  |-> result]]
    /\ UNCHANGED <<world, log, crossed, unsure>>

Refuse(c, error) == Decided(c, error) /\ UNCHANGED <<record, badWrites, victories>>

Write(sess, wit, chal) ==
    /\ session' = sess
    /\ witness' = wit
    /\ challenge' = chal
    /\ UNCHANGED badWrites

WriteFails ==
    /\ badWrites < MaxBadWrites
    /\ badWrites' = badWrites + 1
    /\ UNCHANGED record

\* An injected failure is stored in the session, or is not: either is an error.
Injected(c) == \E o \in ChaosFailures(session) :
    /\ Write(o.session, witness, challenge) \/ WriteFails
    /\ Decided(c, "chaos")
    /\ UNCHANGED victories

\* Mutant: every plain answer is recorded, the first one or not.
WitnessOverwritten(sess, q, answer) ==
    IF sess.encrypted[q] = "no" THEN [witness EXCEPT ![q] = answer] ELSE witness

\* The answer of the first ask stays: RecordQuestion runs once per question.
WitnessRecorded(sess, q, answer) ==
    IF sess.encrypted[q] = "no" /\ session.encrypted[q] = "none"
    THEN [witness EXCEPT ![q] = answer] ELSE witness

AskQuestion(c) ==
    /\ Deciding(c, "ask")
    /\ UNCHANGED victories
    /\ LET q      == calls[c].request.question
           answer == IF calls[c].request.hit THEN "yes" ELSE "no"
       IN  \/ session.completed /\ Refuse(c, "completed")
           \/ ~session.completed /\ Injected(c)
           \/ /\ ~session.completed
              /\ \E o \in Asked(session, q) :
                    IF o.session.blocked[q] = "yes"
                    THEN /\ Write(o.session, witness, challenge) \/ WriteFails
                         /\ Decided(c, "blocked")
                    ELSE \/ /\ Write(o.session, WitnessRecorded(o.session, q, answer),
                                     challenge)
                            /\ Decided(c, IF o.session.encrypted[q] = "yes"
                                          THEN "cipher" ELSE answer)
                         \/ WriteFails /\ Decided(c, "transient_error")

\* Mutant: the penalty of a wrong guess is stored with it.
PenaltyPending(hit) == IF hit THEN Worth ELSE -WrongGuessPenalty

\* A withheld solve keeps the score of the moment of the guess.
ScorePending(hit) == IF hit THEN Worth ELSE 0

\* A failed write of the session changes nothing in what SubmitGuess answers.
SubmitGuess(c) ==
    /\ Deciding(c, "guess")
    /\ \/ session.completed /\ Refuse(c, "completed")
       \/ ~session.completed /\ session.pending /\ Refuse(c, "pending_decryption")
       \/ ~session.completed /\ ~session.pending /\ UNCHANGED victories /\ Injected(c)
       \/ /\ ~session.completed /\ ~session.pending /\ session.guesses <= 0
          /\ Refuse(c, "no_guesses_remaining")
       \/ /\ ~session.completed /\ ~session.pending /\ session.guesses > 0
          /\ \E o \in Guessed(session, calls[c].request.candidate) :
                LET hit  == calls[c].request.candidate = session.target
                    chal == IF o.session.pending
                            THEN [plaintext |-> {calls[c].request.candidate},
                                  score |-> ScorePending(hit)]
                            ELSE challenge
                IN  /\ Write(o.session, witness, chal) \/ WriteFails
                    /\ Decided(c, IF o.session.pending THEN "withheld"
                                  ELSE IF hit THEN "correct" ELSE "wrong")
                    /\ victories' = IF ~o.session.pending /\ hit
                                    THEN victories + 1 ELSE victories

RevealTarget(c) ==
    /\ Deciding(c, "reveal")
    /\ UNCHANGED victories
    /\ \/ Injected(c)
       \/ session.completed /\ Refuse(c, "revealed")
       \/ /\ ~session.completed /\ session.asked < RevealQuestions
          /\ Refuse(c, "insufficient_questions")
       \/ /\ ~session.completed /\ session.asked >= RevealQuestions
          /\ Write(Revealed(session).session, witness, challenge) \/ WriteFails
          /\ Decided(c, "revealed")

\* Mutant: the decryption of a solve does not complete the session.
DecipheredStaysOpen(sess) ==
    IF sess.pendingCorrect THEN NoPending(sess)
                           ELSE DecipheredMiss(NoPending(sess)).session

DecipheredRecord(sess) ==
    IF sess.pendingCorrect THEN Deciphered(NoPending(sess)).session
                           ELSE DecipheredMiss(NoPending(sess)).session

\* Mutant: a submission is compared with the key of the ciphertext.
KeyOfCiphertext(sess, wit) ==
    [q \in Question |-> IF q \in sess.pendingKey THEN wit[q] ELSE "none"]

\* The key is derived again, from the plain answers given until now.
KeyDemanded(sess, wit) == wit

SubmitDecryption(c) ==
    /\ Deciding(c, "decrypt")
    /\ LET request == calls[c].request
           matches == request.candidate \in challenge.plaintext
       IN  \/ (Stage # 2 \/ ~session.pending) /\ Refuse(c, "no_pending_decryption")
           \/ Stage = 2 /\ session.pending /\ ~matches /\ Refuse(c, "wrong_decryption")
           \/ /\ Stage = 2 /\ session.pending /\ matches
              /\ request.key # KeyDemanded(session, witness)
              /\ Refuse(c, "wrong_witness_key")
           \/ /\ Stage = 2 /\ session.pending /\ matches
              /\ request.key = KeyDemanded(session, witness)
              /\ Write(DecipheredRecord(session), witness, NoChallenge) \/ WriteFails
              /\ Decided(c, IF session.pendingCorrect THEN "correct" ELSE "wrong")
              /\ victories' = IF session.pendingCorrect THEN victories + 1 ELSE victories

-----------------------------------------------------------------------------
(* The response.                                                           *)

Finished(c) ==
    /\ calls' = [calls EXCEPT ![c] = Idle]
    /\ crossed' = crossed \ {c}
    /\ UNCHANGED <<record, world, badWrites, victories>>

\* Another request holds the lock for longer than the retries last: an error
\* ("session not found" for an ask, a guess or a reveal), and nothing is done.
Contention(c) ==
    /\ calls[c].phase = "sent"
    /\ \E d \in Call \ {c} : calls[d].phase = "sent"
    /\ Finished(c)
    /\ UNCHANGED <<log, unsure>>

NotFound(c) ==
    /\ ~stored /\ calls[c].phase = "sent"
    /\ Finished(c)
    /\ UNCHANGED <<log, unsure>>

\* Mutant: the handler reports what the second read says of the session.
GuessReplyFromRead(result) ==
    IF session.pending THEN "withheld"
    ELSE IF session.correct THEN "correct" ELSE "wrong"

\* The handler of a guess reads the session again, without the lock.
GuessReply(result) ==
    IF result \notin {"correct", "wrong", "withheld"} THEN result
    ELSE IF ~stored THEN "internal_error"
    ELSE IF session.pending THEN "withheld"
    ELSE IF result = "correct" THEN "correct" ELSE "wrong"

Receive(c) ==
    /\ calls[c].phase = "decided"
    /\ Finished(c)
    /\ UNCHANGED unsure
    /\ log' = IF calls[c].result \in {"yes", "no"}
                 THEN [log EXCEPT ![calls[c].request.question] =
                          IF @ = "none" THEN calls[c].result ELSE @]
                 ELSE log

\* The connection breaks, or the player has given up waiting.
LoseResponse(c) ==
    /\ calls[c].phase = "decided"
    /\ Finished(c)
    /\ UNCHANGED log
    /\ unsure' = IF calls[c].request.op = "ask"
                 THEN unsure \cup {calls[c].request.question} ELSE unsure

-----------------------------------------------------------------------------
Tick ==
    /\ elapsed + TickSeconds <= MaxElapsed
    /\ elapsed' = elapsed + TickSeconds
    /\ UNCHANGED <<record, stored, badWrites, calls, log, observed>>

\* The TTL of the record ends, or an operator flushes the database.
Vanish ==
    /\ stored
    /\ stored' = FALSE
    /\ UNCHANGED <<record, elapsed, badWrites, calls, log, observed>>

Next ==
    \/ \E c \in Call :
          \/ SendAsk(c) \/ SendGuess(c) \/ SendDecrypt(c) \/ SendReveal(c)
          \/ AskQuestion(c) \/ SubmitGuess(c) \/ SubmitDecryption(c) \/ RevealTarget(c)
          \/ Contention(c) \/ NotFound(c) \/ Receive(c) \/ LoseResponse(c)
    \/ Tick \/ Vanish

Spec == Init /\ [][Next]_vars

-----------------------------------------------------------------------------
TypeOK ==
    /\ session \in SessionRecord
    /\ witness \in Log
    /\ challenge \in Challenge
    /\ stored \in BOOLEAN
    /\ elapsed \in 0 .. MaxElapsed
    /\ badWrites \in 0 .. MaxBadWrites
    /\ calls \in [Call -> CallState]
    /\ log \in Log
    /\ victories \in Nat
    /\ crossed \subseteq Call
    /\ unsure \subseteq Question

(* The player's log is the key material.  Whenever no ask of a question is *)
(* open, the log says of it what the record says - also after asking it    *)
(* again with another value, after injected failures, contention and       *)
(* failed writes.  Only asks of one question that cross, or a lost         *)
(* response, can part the two (RecordQuestion and the guard around it).    *)
LogIsKey ==
    \A q \in Question \ unsure :
        (\A c \in Call : ~Asks(c, q)) => log[q] = witness[q]

(* A player that has only one request open and lost no response is never   *)
(* told that its witness key is wrong, also if it asked between the guess  *)
(* and the decryption (SubmitDecryption derives the key anew).             *)
HonestKeyAccepted ==
    \A c \in Call :
        /\ calls[c].phase = "decided" /\ calls[c].result = "wrong_witness_key"
        => c \in crossed \/ unsure # {}

(* A session is won once: for every further time the service says "correct" *)
(* - to a guess or to a decryption - a write of the session was lost.      *)
WonOnce == victories <= 1 + badWrites

(* The verdict of a guess survives the second read.  Unless a write of the *)
(* session failed, a solve that was not withheld is answered as a solve    *)
(* whatever other requests do before the second read, and the answer to a  *)
(* guess that is the only request open is the verdict reached on it.       *)
VerdictTold ==
    \A c \in Call :
        /\ calls[c].phase = "decided" /\ calls[c].request.op = "guess"
        /\ calls[c].result \in {"correct", "wrong", "withheld"}
        /\ stored /\ badWrites = 0
        => LET reply == GuessReply(calls[c].result)
           IN  /\ reply = "correct" <=> calls[c].result = "correct"
               /\ c \notin crossed => reply = calls[c].result

(* What a withheld solve will pay is never less than what it would be     *)
(* worth now: whatever time, questions and failures go by until it is      *)
(* deciphered, waiting gains nothing and costs nothing (PendingScore, and  *)
(* the thresholds of CalculateScore).                                      *)
WaitingIsFree ==
    session.pending /\ session.pendingCorrect => challenge.score >= Worth
=============================================================================
