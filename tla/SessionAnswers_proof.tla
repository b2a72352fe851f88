------------------------ MODULE SessionAnswers_proof ------------------------
(* Proofs about module SessionAnswers: types, one victory, the log as the  *)
(* key material, the honest key, the price of waiting, and the verdict     *)
(* that is told.                                                           *)
EXTENDS SessionAnswers, SessionRules_proof

-----------------------------------------------------------------------------
(* Scores and outcomes.                                                    *)

LEMMA ScoreNat ==
    ASSUME NEW e \in Nat, NEW a \in Nat, NEW f \in Nat
    PROVE  GuessScore(e, a, f) \in Nat
  BY DEF GuessScore, BaseScore, TimeBonus, QuestionBonus, ReliabilityPenalty

LEMMA WorthNat == TypeOK => Worth \in Nat
<1> SUFFICES ASSUME TypeOK
             PROVE  Worth \in Nat
  OBVIOUS
<1>1. elapsed \in Nat /\ session.asked \in Nat /\ session.failed \in Nat
  BY RulesAssumption, AnswersAssumption DEF TypeOK, SessionRecord
<1> QED BY <1>1, ScoreNat DEF Worth

LEMMA AskedOutcome ==
    ASSUME NEW sess \in SessionRecord, ~sess.completed, NEW q \in Question,
           NEW o \in Asked(sess, q)
    PROVE  o.session \in SessionRecord
<1>1. o \in AskOutcomes(sess)
  BY DEF AskOutcomes
<1> QED BY <1>1, AskType DEF Outcome

LEMMA GuessedOutcome ==
    ASSUME NEW sess \in SessionRecord, ~sess.completed, ~sess.pending, sess.guesses > 0,
           NEW c \in Candidate, NEW o \in Guessed(sess, c)
    PROVE  o.session \in SessionRecord
<1>1. sess.guesses \in Int
  BY RulesAssumption DEF SessionRecord
<1>2. ~(sess.guesses <= 0)
  BY <1>1
<1>3. o \in GuessOutcomes(sess)
  BY <1>2 DEF GuessOutcomes
<1> QED BY <1>3, GuessType DEF Outcome

LEMMA ChaosOutcome ==
    ASSUME NEW sess \in SessionRecord, NEW o \in ChaosFailures(sess)
    PROVE  /\ o.session \in SessionRecord
           /\ o.session.completed = sess.completed /\ o.session.pending = sess.pending
           /\ o.session.encrypted = sess.encrypted
<1>1. o.session \in SessionRecord
  BY ChaosType DEF Outcome
<1>2. o.session = [sess EXCEPT !.failed = @ + 1]
  BY DEF ChaosFailures
<1> QED BY <1>1, <1>2 DEF SessionRecord

LEMMA RevealedOutcome ==
    ASSUME NEW sess \in SessionRecord
    PROVE  /\ Revealed(sess).session \in SessionRecord
           /\ Revealed(sess).session.completed
           /\ Revealed(sess).session.pending = sess.pending
           /\ Revealed(sess).session.encrypted = sess.encrypted
<1>1. Revealed(sess).session = Completed(sess, sess.correct)
  BY DEF Revealed
<1>2. Completed(sess, sess.correct) \in SessionRecord
  BY CompletedType DEF SessionRecord
<1> QED BY <1>1, <1>2 DEF Completed, SessionRecord

LEMMA CompletedFields ==
    ASSUME NEW sess \in SessionRecord, NEW b \in BOOLEAN
    PROVE  /\ Completed(sess, b) \in SessionRecord
           /\ Completed(sess, b).completed
           /\ Completed(sess, b).pending = sess.pending
           /\ Completed(sess, b).encrypted = sess.encrypted
<1>1. Completed(sess, b) \in SessionRecord
  BY CompletedType
<1> QED BY <1>1 DEF Completed, SessionRecord

LEMMA DecipheredOutcome ==
    ASSUME NEW sess \in SessionRecord, sess.pending
    PROVE  /\ DecipheredRecord(sess) \in SessionRecord
           /\ ~DecipheredRecord(sess).pending
           /\ DecipheredRecord(sess).encrypted = sess.encrypted
           /\ sess.pendingCorrect => DecipheredRecord(sess).completed
           /\ sess.completed => DecipheredRecord(sess).completed
<1> USE RulesAssumption
<1> DEFINE next == NoPending(sess)
<1>1. /\ next \in SessionRecord /\ ~next.pending
      /\ next.encrypted = sess.encrypted /\ next.completed = sess.completed
  BY DEF NoPending, SessionRecord
<1> HIDE DEF next
<1>2. CASE sess.pendingCorrect
  <2>1. DecipheredRecord(sess) = Completed(next, TRUE)
    BY <1>2 DEF DecipheredRecord, Deciphered, next
  <2> QED BY <2>1, <1>1, CompletedFields
<1>3. CASE ~sess.pendingCorrect
  <2> DEFINE less == OneGuessLess(next)
  <2>1. /\ less \in SessionRecord /\ ~less.pending
        /\ less.encrypted = sess.encrypted /\ less.completed = sess.completed
    BY <1>1, OneGuessLessType DEF OneGuessLess, SessionRecord
  <2>2. DecipheredRecord(sess) = IF less.guesses <= 0 THEN Completed(less, FALSE) ELSE less
    BY <1>3 DEF DecipheredRecord, DecipheredMiss, next
  <2> HIDE DEF less
  <2>3. Completed(less, FALSE) \in SessionRecord /\ ~Completed(less, FALSE).pending
        /\ Completed(less, FALSE).completed
        /\ Completed(less, FALSE).encrypted = sess.encrypted
    BY <2>1, CompletedFields
  <2>4. CASE less.guesses <= 0
    BY <2>2, <2>3, <2>4, <1>3
  <2>5. CASE ~(less.guesses <= 0)
    BY <2>1, <2>2, <2>5, <1>3
  <2> QED BY <2>4, <2>5
<1> QED BY <1>2, <1>3

-----------------------------------------------------------------------------
(* Requests and calls.                                                     *)

LEMMA AskRequest ==
    ASSUME NEW r \in Request, r.op = "ask"
    PROVE  r.question \in Question /\ r.hit \in BOOLEAN
  BY DEF Request

LEMMA GuessRequest ==
    ASSUME NEW r \in Request, r.op = "guess"
    PROVE  r.candidate \in Candidate
  BY DEF Request

LEMMA OpenRequest ==
    ASSUME calls \in [Call -> CallState], NEW c \in Call, calls[c].phase # "idle"
    PROVE  calls[c].request \in Request
<1>1. calls[c] \in CallState /\ calls[c] # Idle
  BY DEF Idle
<1> QED BY <1>1 DEF CallState

LEMMA DecidedResult ==
    ASSUME calls \in [Call -> CallState], NEW c \in Call, calls[c].phase = "decided"
    PROVE  calls[c].result \in Result
<1>1. calls[c] \in CallState /\ calls[c] # Idle
  BY DEF Idle
<1> QED BY <1>1 DEF CallState

LEMMA SentState ==
    ASSUME NEW r \in Request
    PROVE  [phase |-> "sent", request |-> r] \in CallState
  BY DEF CallState

LEMMA DecidedState ==
    ASSUME NEW r \in Request, NEW result \in Result
    PROVE  [phase |-> "decided", request |-> r, result |-> result] \in CallState
  BY DEF CallState

(* The parts of the type invariant, by who writes them: the service under  *)
(* the lock, the clock and the operator, the player.                       *)
RecordOK ==
    /\ session \in SessionRecord
    /\ witness \in Log
    /\ challenge \in Challenge

WorldOK == stored \in BOOLEAN /\ elapsed \in 0 .. MaxElapsed

PlayerOK ==
    /\ calls \in [Call -> CallState]
    /\ log \in Log
    /\ crossed \subseteq Call
    /\ unsure \subseteq Question

CountersOK == badWrites \in 0 .. MaxBadWrites /\ victories \in Nat

LEMMA TypeParts == TypeOK <=> RecordOK /\ WorldOK /\ PlayerOK /\ CountersOK
  BY DEF TypeOK, RecordOK, WorldOK, PlayerOK, CountersOK

LEMMA SendType ==
    ASSUME TypeOK, NEW c \in Call, NEW r \in Request, Send(c, r), unsure' \subseteq Question
    PROVE  PlayerOK'
<1>1. calls' = [calls EXCEPT ![c] = [phase |-> "sent", request |-> r]] /\ log' = log
  BY DEF Send
<1>2. calls' \in [Call -> CallState]
  BY <1>1, SentState DEF TypeOK
<1>3. crossed' \subseteq Call
  BY DEF Send, TypeOK
<1> QED BY <1>1, <1>2, <1>3 DEF PlayerOK, TypeOK

LEMMA DecidedType ==
    ASSUME TypeOK, NEW c \in Call, NEW result \in Result, calls[c].phase = "sent",
           Decided(c, result)
    PROVE  PlayerOK' /\ WorldOK'
<1>1. calls[c].request \in Request
  BY OpenRequest DEF TypeOK
<1>2. calls' \in [Call -> CallState]
  BY <1>1, DecidedState DEF Decided, TypeOK
<1>3. UNCHANGED <<stored, elapsed, log, crossed, unsure>>
  BY DEF Decided, world
<1> QED BY <1>2, <1>3 DEF PlayerOK, WorldOK, TypeOK

LEMMA WriteType ==
    ASSUME TypeOK, NEW sess \in SessionRecord, NEW wit \in Log, NEW chal \in Challenge,
           Write(sess, wit, chal) \/ WriteFails
    PROVE  RecordOK' /\ badWrites' \in 0 .. MaxBadWrites
<1>1. CASE Write(sess, wit, chal)
  BY <1>1 DEF Write, RecordOK, TypeOK
<1>2. CASE WriteFails
  <2>1. badWrites + 1 \in 0 .. MaxBadWrites
    BY <1>2, AnswersAssumption DEF WriteFails, TypeOK
  <2> QED BY <1>2, <2>1 DEF WriteFails, RecordOK, TypeOK, record
<1> QED BY <1>1, <1>2

LEMMA RefuseType ==
    ASSUME TypeOK, NEW c \in Call, NEW error \in Result, calls[c].phase = "sent",
           Refuse(c, error)
    PROVE  TypeOK'
<1>1. PlayerOK' /\ WorldOK'
  BY DecidedType DEF Refuse
<1>2. UNCHANGED <<session, witness, challenge, badWrites, victories>>
  BY DEF Refuse, record
<1>3. RecordOK' /\ CountersOK'
  BY <1>2 DEF RecordOK, CountersOK, TypeOK
<1> QED BY <1>1, <1>3 DEF TypeOK, RecordOK, WorldOK, PlayerOK, CountersOK

LEMMA WritingType ==
    ASSUME TypeOK, NEW c \in Call, NEW result \in Result, calls[c].phase = "sent",
           NEW sess \in SessionRecord, NEW wit \in Log, NEW chal \in Challenge,
           Write(sess, wit, chal) \/ WriteFails,
           Decided(c, result), victories' \in Nat
    PROVE  TypeOK'
<1>1. PlayerOK' /\ WorldOK'
  BY DecidedType
<1>2. RecordOK' /\ badWrites' \in 0 .. MaxBadWrites
  BY WriteType
<1> QED BY <1>1, <1>2 DEF TypeOK, RecordOK, WorldOK, PlayerOK

LEMMA InjectedType ==
    ASSUME TypeOK, NEW c \in Call, calls[c].phase = "sent", Injected(c)
    PROVE  TypeOK'
<1>1. PICK o \in ChaosFailures(session) :
          /\ Write(o.session, witness, challenge) \/ WriteFails
          /\ Decided(c, "chaos") /\ UNCHANGED victories
  BY DEF Injected
<1>2. session \in SessionRecord /\ witness \in Log /\ challenge \in Challenge
      /\ victories \in Nat
  BY DEF TypeOK
<1>3. o.session \in SessionRecord
  BY <1>2, ChaosOutcome
<1>4. "chaos" \in Result
  BY DEF Result
<1> QED BY <1>1, <1>2, <1>3, <1>4, WritingType

LEMMA FinishedType ==
    ASSUME TypeOK, NEW c \in Call, Finished(c), log' \in Log, unsure' \subseteq Question
    PROVE  TypeOK'
<1>1. Idle \in CallState
  BY DEF CallState
<1>2. UNCHANGED <<session, witness, challenge, stored, elapsed, badWrites, victories>>
  BY DEF Finished, record, world
<1>3. calls' \in [Call -> CallState] /\ crossed' \subseteq Call
  BY <1>1 DEF Finished, TypeOK
<1> QED BY <1>2, <1>3 DEF TypeOK

LEMMA WitnessRecordedType ==
    ASSUME witness \in Log, NEW sess, NEW q \in Question, NEW answer \in {"yes", "no"}
    PROVE  WitnessRecorded(sess, q, answer) \in Log
  BY DEF WitnessRecorded, Log, Answer

LEMMA AskActionType ==
    ASSUME TypeOK, NEW c \in Call, AskQuestion(c)
    PROVE  TypeOK'
<1> DEFINE q      == calls[c].request.question
           answer == IF calls[c].request.hit THEN "yes" ELSE "no"
<1>1. calls[c].phase = "sent" /\ calls[c].request.op = "ask" /\ victories' = victories
  BY DEF AskQuestion, Deciding
<1>2. q \in Question /\ answer \in {"yes", "no"}
  BY <1>1, OpenRequest, AskRequest DEF TypeOK
<1>3. /\ session \in SessionRecord /\ witness \in Log /\ challenge \in Challenge
      /\ victories' \in Nat
  BY <1>1 DEF TypeOK
<1>4. /\ "completed" \in Result /\ "blocked" \in Result /\ "cipher" \in Result
      /\ "transient_error" \in Result /\ answer \in Result
  BY <1>2 DEF Result
<1> HIDE DEF q, answer
<1>5. CASE Refuse(c, "completed")
  BY <1>1, <1>4, <1>5, RefuseType
<1>6. CASE Injected(c)
  BY <1>1, <1>6, InjectedType
<1>7. ASSUME ~session.completed, NEW o \in Asked(session, q),
             \/ /\ Write(o.session, witness, challenge) \/ WriteFails
                /\ Decided(c, "blocked")
             \/ /\ Write(o.session, WitnessRecorded(o.session, q, answer), challenge)
                /\ Decided(c, IF o.session.encrypted[q] = "yes" THEN "cipher" ELSE answer)
             \/ WriteFails /\ Decided(c, "transient_error")
      PROVE  TypeOK'
  <2>1. o.session \in SessionRecord
    BY <1>2, <1>3, <1>7, AskedOutcome
  <2>2. WitnessRecorded(o.session, q, answer) \in Log
    BY <1>2, <1>3, WitnessRecordedType
  <2>3. (IF o.session.encrypted[q] = "yes" THEN "cipher" ELSE answer) \in Result
    BY <1>4
  <2>4. CASE (Write(o.session, witness, challenge) \/ WriteFails) /\ Decided(c, "blocked")
    BY <1>1, <1>3, <1>4, <2>1, <2>4, WritingType
  <2>5. CASE /\ Write(o.session, WitnessRecorded(o.session, q, answer), challenge)
             /\ Decided(c, IF o.session.encrypted[q] = "yes" THEN "cipher" ELSE answer)
    BY <1>1, <1>3, <2>1, <2>2, <2>3, <2>5, WritingType
  <2>6. CASE WriteFails /\ Decided(c, "transient_error")
    BY <1>1, <1>3, <1>4, <2>6, WritingType
  <2> QED BY <1>7, <2>4, <2>5, <2>6
<1> QED BY <1>5, <1>6, <1>7 DEF AskQuestion, q, answer

LEMMA GuessActionType ==
    ASSUME TypeOK, NEW c \in Call, SubmitGuess(c)
    PROVE  TypeOK'
<1> DEFINE candidate == calls[c].request.candidate
           hit == candidate = session.target
<1>1. calls[c].phase = "sent" /\ calls[c].request.op = "guess"
  BY DEF SubmitGuess, Deciding
<1>2. candidate \in Candidate
  BY <1>1, OpenRequest, GuessRequest DEF TypeOK
<1>3. /\ session \in SessionRecord /\ witness \in Log /\ challenge \in Challenge
      /\ victories \in Nat
  BY DEF TypeOK
<1>4. /\ "completed" \in Result /\ "pending_decryption" \in Result
      /\ "no_guesses_remaining" \in Result /\ "withheld" \in Result
      /\ "correct" \in Result /\ "wrong" \in Result
  BY DEF Result
<1>5. ScorePending(hit) \in Nat
  BY WorthNat DEF ScorePending
<1> HIDE DEF candidate, hit
<1>6. CASE \/ Refuse(c, "completed") \/ Refuse(c, "pending_decryption")
           \/ Refuse(c, "no_guesses_remaining")
  BY <1>1, <1>4, <1>6, RefuseType
<1>7. CASE Injected(c)
  BY <1>1, <1>7, InjectedType
<1>8. ASSUME ~session.completed, ~session.pending, session.guesses > 0,
             NEW o \in Guessed(session, candidate), NEW chal,
             chal = (IF o.session.pending
                     THEN [plaintext |-> {candidate}, score |-> ScorePending(hit)]
                     ELSE challenge),
             Write(o.session, witness, chal) \/ WriteFails,
             Decided(c, IF o.session.pending THEN "withheld"
                        ELSE IF hit THEN "correct" ELSE "wrong"),
             victories' = IF ~o.session.pending /\ hit THEN victories + 1 ELSE victories
      PROVE  TypeOK'
  <2>1. o.session \in SessionRecord
    BY <1>2, <1>3, <1>8, GuessedOutcome
  <2>2. chal \in Challenge
    BY <1>2, <1>3, <1>5, <1>8 DEF Challenge
  <2>3. victories' \in Nat
    BY <1>3, <1>8
  <2> DEFINE result == IF o.session.pending THEN "withheld"
                       ELSE IF hit THEN "correct" ELSE "wrong"
  <2>4. result \in Result /\ Decided(c, result)
    BY <1>4, <1>8
  <2> HIDE DEF result
  <2>5. (Write(o.session, witness, chal) \/ WriteFails)
    BY <1>8
  <2> QED BY <1>1, <1>3, <2>1, <2>2, <2>3, <2>4, <2>5, WritingType
<1> QED BY <1>6, <1>7, <1>8 DEF SubmitGuess, candidate, hit

LEMMA RevealActionType ==
    ASSUME TypeOK, NEW c \in Call, RevealTarget(c)
    PROVE  TypeOK'
<1>1. calls[c].phase = "sent" /\ UNCHANGED victories
  BY DEF RevealTarget, Deciding
<1>2. /\ session \in SessionRecord /\ witness \in Log /\ challenge \in Challenge
      /\ victories' \in Nat
  BY <1>1 DEF TypeOK
<1>3. "revealed" \in Result /\ "insufficient_questions" \in Result
  BY DEF Result
<1>4. CASE Injected(c)
  BY <1>1, <1>4, InjectedType
<1>5. CASE Refuse(c, "revealed") \/ Refuse(c, "insufficient_questions")
  BY <1>1, <1>3, <1>5, RefuseType
<1>6. CASE /\ Write(Revealed(session).session, witness, challenge) \/ WriteFails
           /\ Decided(c, "revealed")
  BY <1>1, <1>2, <1>3, <1>6, RevealedOutcome, WritingType
<1> QED BY <1>4, <1>5, <1>6 DEF RevealTarget

LEMMA DecryptActionType ==
    ASSUME TypeOK, NEW c \in Call, SubmitDecryption(c)
    PROVE  TypeOK'
<1>1. calls[c].phase = "sent"
  BY DEF SubmitDecryption, Deciding
<1>2. session \in SessionRecord /\ witness \in Log /\ victories \in Nat
  BY DEF TypeOK
<1>3. /\ "no_pending_decryption" \in Result /\ "wrong_decryption" \in Result
      /\ "wrong_witness_key" \in Result /\ "correct" \in Result /\ "wrong" \in Result
  BY DEF Result
<1>4. CASE \/ Refuse(c, "no_pending_decryption") \/ Refuse(c, "wrong_decryption")
           \/ Refuse(c, "wrong_witness_key")
  BY <1>1, <1>3, <1>4, RefuseType
<1>5. ASSUME session.pending,
             Write(DecipheredRecord(session), witness, NoChallenge) \/ WriteFails,
             Decided(c, IF session.pendingCorrect THEN "correct" ELSE "wrong"),
             victories' = IF session.pendingCorrect THEN victories + 1 ELSE victories
      PROVE  TypeOK'
  <2>1. DecipheredRecord(session) \in SessionRecord
    BY <1>2, <1>5, DecipheredOutcome
  <2>2. NoChallenge \in Challenge
    BY DEF NoChallenge, Challenge
  <2>3. victories' \in Nat
    BY <1>2, <1>5
  <2> DEFINE result == IF session.pendingCorrect THEN "correct" ELSE "wrong"
  <2>4. result \in Result /\ Decided(c, result)
    BY <1>3, <1>5
  <2> HIDE DEF result
  <2> QED BY <1>1, <1>2, <1>5, <2>1, <2>2, <2>3, <2>4, WritingType
<1> QED BY <1>4, <1>5 DEF SubmitDecryption

LEMMA ResponseType ==
    ASSUME TypeOK, NEW c \in Call,
           Contention(c) \/ NotFound(c) \/ Receive(c) \/ LoseResponse(c)
    PROVE  TypeOK'
<1>1. log \in Log /\ unsure \subseteq Question
  BY DEF TypeOK
<1>2. CASE Contention(c) \/ NotFound(c)
  BY <1>1, <1>2, FinishedType DEF Contention, NotFound
<1>3. CASE Receive(c)
  <2>1. log' \in Log
    BY <1>1, <1>3 DEF Receive, Log, Answer
  <2> QED BY <1>1, <1>3, <2>1, FinishedType DEF Receive
<1>4. CASE LoseResponse(c)
  <2>1. calls[c].request.op = "ask" => calls[c].request.question \in Question
    BY <1>4, OpenRequest, AskRequest DEF LoseResponse, TypeOK
  <2>2. log' \in Log /\ unsure' \subseteq Question
    BY <1>1, <1>4, <2>1 DEF LoseResponse
  <2> QED BY <1>4, <2>2, FinishedType DEF LoseResponse
<1> QED BY <1>2, <1>3, <1>4

LEMMA SendingType ==
    ASSUME TypeOK, NEW c \in Call,
           SendAsk(c) \/ SendGuess(c) \/ SendDecrypt(c) \/ SendReveal(c)
    PROVE  TypeOK'
<1>1. PICK r \in Request : Send(c, r) /\ unsure' \subseteq Question
  <2>1. CASE SendAsk(c)
    <3>1. PICK q \in Question, hit \in BOOLEAN :
             /\ Send(c, [op |-> "ask", question |-> q, hit |-> hit])
             /\ unsure' = IF \E d \in Call : Asks(d, q) THEN unsure \cup {q} ELSE unsure
      BY <2>1 DEF SendAsk
    <3>2. [op |-> "ask", question |-> q, hit |-> hit] \in Request
      BY DEF Request
    <3> QED BY <3>1, <3>2 DEF TypeOK
  <2>2. CASE SendGuess(c)
    BY <2>2 DEF SendGuess, TypeOK, Request
  <2>3. CASE SendDecrypt(c)
    BY <2>3 DEF SendDecrypt, TypeOK, Request
  <2>4. CASE SendReveal(c)
    BY <2>4 DEF SendReveal, TypeOK, Request
  <2> QED BY <2>1, <2>2, <2>3, <2>4
<1>2. PlayerOK'
  BY <1>1, SendType
<1>3. UNCHANGED <<session, witness, challenge, stored, elapsed, badWrites, victories>>
  BY <1>1 DEF Send, record, world
<1>4. RecordOK' /\ WorldOK' /\ CountersOK'
  BY <1>3 DEF RecordOK, WorldOK, CountersOK, TypeOK
<1> QED BY <1>2, <1>4 DEF TypeOK, RecordOK, WorldOK, PlayerOK, CountersOK

LEMMA WorldType ==
    ASSUME TypeOK, Tick \/ Vanish
    PROVE  TypeOK'
<1>1. CASE Tick
  <2>1. elapsed + TickSeconds \in 0 .. MaxElapsed
    BY <1>1, AnswersAssumption DEF Tick, TypeOK
  <2> QED BY <1>1, <2>1 DEF Tick, TypeOK, record, observed
<1>2. CASE Vanish
  BY <1>2 DEF Vanish, TypeOK, record, observed
<1> QED BY <1>1, <1>2

LEMMA InitType == Init => TypeOK
<1> SUFFICES ASSUME Init
             PROVE  TypeOK
  OBVIOUS
<1>1. PICK target \in Candidate :
          session = [NewSession(target) EXCEPT !.asked = PriorAsked]
  BY DEF Init
<1>2. session \in SessionRecord
  BY <1>1, NewSessionType, AnswersAssumption DEF SessionRecord
<1>3. NoLog \in Log /\ NoChallenge \in Challenge
  BY DEF NoLog, Log, Answer, NoChallenge, Challenge
<1>4. [c \in Call |-> Idle] \in [Call -> CallState]
  BY DEF CallState
<1> QED BY <1>2, <1>3, <1>4, AnswersAssumption DEF Init, TypeOK

LEMMA NextType ==
    ASSUME TypeOK, [Next]_vars
    PROVE  TypeOK'
<1>1. CASE UNCHANGED vars
  BY <1>1 DEF vars, TypeOK, record, world, observed
<1>2. CASE Next
  <2>1. CASE Tick \/ Vanish
    BY <2>1, WorldType
  <2>2. ASSUME NEW c \in Call,
               \/ SendAsk(c) \/ SendGuess(c) \/ SendDecrypt(c) \/ SendReveal(c)
               \/ AskQuestion(c) \/ SubmitGuess(c) \/ SubmitDecryption(c)
               \/ RevealTarget(c)
               \/ Contention(c) \/ NotFound(c) \/ Receive(c) \/ LoseResponse(c)
        PROVE  TypeOK'
    BY <2>2, SendingType, AskActionType, GuessActionType, DecryptActionType, RevealActionType, ResponseType
  <2> QED BY <1>2, <2>1, <2>2 DEF Next
<1> QED BY <1>1, <1>2

(* What the record, the requests and the player's log hold has its type in *)
(* every state, whatever crosses, fails or is lost on the way (the whole   *)
(* of SubmitGuess, AskQuestion, SubmitDecryption and Reveal).              *)
THEOREM AnswersTypeCorrect == Spec => []TypeOK
  BY InitType, NextType, PTL DEF Spec

-----------------------------------------------------------------------------
(* One victory.                                                            *)

(* WonOnce alone is not inductive: while the session can still be won - it *)
(* is open, or waits for a decryption - no victory has been told beyond    *)
(* the writes that were lost.                                              *)
Winnable(sess) == ~sess.completed \/ sess.pending

WonInv ==
    /\ WonOnce
    /\ Winnable(session) => victories <= badWrites

LEMMA GuessedSolve ==
    ASSUME NEW sess \in SessionRecord, NEW o \in Guessed(sess, sess.target),
           ~o.session.pending
    PROVE  o.session.completed
<1> DEFINE next == [sess EXCEPT !.guessed = @ \cup {sess.target}]
<1>1. next \in SessionRecord
  BY DEF SessionRecord
<1>2. o = Solved(next) \/ o = Withheld(next, TRUE)
  BY DEF Guessed
<1> HIDE DEF next
<1>3. Withheld(next, TRUE).session.pending
  BY <1>1 DEF Withheld, SessionRecord
<1>4. o = Solved(next)
  BY <1>2, <1>3
<1>5. o.session = Completed(next, TRUE)
  BY <1>4 DEF Solved
<1> QED BY <1>1, <1>5, CompletedFields

LEMMA WonByWrite ==
    ASSUME TypeOK, WonInv, NEW sess, NEW wit, NEW chal,
           Write(sess, wit, chal) \/ WriteFails, victories' = victories,
           Winnable(sess) => Winnable(session)
    PROVE  WonInv'
<1>1. victories \in Nat /\ badWrites \in Nat
  BY AnswersAssumption DEF TypeOK
<1>2. CASE Write(sess, wit, chal)
  BY <1>1, <1>2 DEF Write, WonInv, WonOnce, Winnable
<1>3. CASE WriteFails
  BY <1>1, <1>3 DEF WriteFails, record, WonInv, WonOnce, Winnable
<1> QED BY <1>2, <1>3

LEMMA WonByVictory ==
    ASSUME TypeOK, WonInv, NEW sess, NEW wit, NEW chal,
           Write(sess, wit, chal) \/ WriteFails, victories' = victories + 1,
           Winnable(session), ~Winnable(sess)
    PROVE  WonInv'
<1>1. victories \in Nat /\ badWrites \in Nat
  BY AnswersAssumption DEF TypeOK
<1>2. CASE Write(sess, wit, chal)
  BY <1>1, <1>2 DEF Write, WonInv, WonOnce, Winnable
<1>3. CASE WriteFails
  BY <1>1, <1>3 DEF WriteFails, record, WonInv, WonOnce, Winnable
<1> QED BY <1>2, <1>3

LEMMA WonUnchanged ==
    ASSUME WonInv, UNCHANGED <<session, badWrites, victories>>
    PROVE  WonInv'
  BY DEF WonInv, WonOnce, Winnable

LEMMA WonInjected ==
    ASSUME TypeOK, WonInv, NEW c \in Call, Injected(c)
    PROVE  WonInv'
<1>1. PICK o \in ChaosFailures(session) :
          /\ Write(o.session, witness, challenge) \/ WriteFails
          /\ victories' = victories
  BY DEF Injected
<1>2. session \in SessionRecord
  BY DEF TypeOK
<1>3. Winnable(o.session) => Winnable(session)
  BY <1>1, <1>2, ChaosOutcome DEF Winnable
<1> QED BY <1>1, <1>3, WonByWrite

LEMMA WonStep ==
    ASSUME TypeOK, WonInv, [Next]_vars
    PROVE  WonInv'
<1>0. session \in SessionRecord
  BY DEF TypeOK
<1>1. CASE UNCHANGED vars
  BY <1>1, WonUnchanged DEF vars, record, observed
<1>2. CASE Tick \/ Vanish
  BY <1>2, WonUnchanged DEF Tick, Vanish, record, observed
<1>3. ASSUME NEW c \in Call,
             \/ SendAsk(c) \/ SendGuess(c) \/ SendDecrypt(c) \/ SendReveal(c)
             \/ Contention(c) \/ NotFound(c) \/ Receive(c) \/ LoseResponse(c)
      PROVE  WonInv'
  BY <1>3, WonUnchanged
     DEF SendAsk, SendGuess, SendDecrypt, SendReveal, Send, Contention, NotFound, Receive,
         LoseResponse, Finished, record
<1>4. ASSUME NEW c \in Call, NEW error, Refuse(c, error)
      PROVE  WonInv'
  BY <1>4, WonUnchanged DEF Refuse, record
<1>5. ASSUME NEW c \in Call, AskQuestion(c)
      PROVE  WonInv'
  <2>1. victories' = victories
    BY <1>5 DEF AskQuestion
  <2>2. CASE Refuse(c, "completed") \/ Injected(c)
    BY <2>2, <1>4, WonInjected
  <2>3. ASSUME ~session.completed,
               NEW sess, NEW wit, Write(sess, wit, challenge) \/ WriteFails
        PROVE  WonInv'
    BY <2>1, <2>3, WonByWrite DEF Winnable
  <2> QED BY <1>5, <2>2, <2>3 DEF AskQuestion
<1>6. ASSUME NEW c \in Call, SubmitGuess(c)
      PROVE  WonInv'
  <2> DEFINE candidate == calls[c].request.candidate
             hit == candidate = session.target
  <2>1. CASE \/ Refuse(c, "completed") \/ Refuse(c, "pending_decryption")
             \/ Refuse(c, "no_guesses_remaining") \/ Injected(c)
    BY <2>1, <1>4, WonInjected
  <2>2. ASSUME ~session.completed, NEW o \in Guessed(session, candidate), NEW chal,
               Write(o.session, witness, chal) \/ WriteFails,
               victories' = IF ~o.session.pending /\ hit THEN victories + 1 ELSE victories
        PROVE  WonInv'
    <3>1. Winnable(session)
      BY <2>2 DEF Winnable
    <3>2. CASE ~o.session.pending /\ hit
      <4>1. o.session.completed
        BY <1>0, <2>2, <3>2, GuessedSolve
      <4> QED BY <2>2, <3>1, <3>2, <4>1, WonByVictory DEF Winnable
    <3>3. CASE ~(~o.session.pending /\ hit)
      BY <2>2, <3>1, <3>3, WonByWrite
    <3> QED BY <3>2, <3>3
  <2> QED BY <1>6, <2>1, <2>2 DEF SubmitGuess
<1>7. ASSUME NEW c \in Call, RevealTarget(c)
      PROVE  WonInv'
  <2>1. CASE Refuse(c, "revealed") \/ Refuse(c, "insufficient_questions") \/ Injected(c)
    BY <2>1, <1>4, WonInjected
  <2>2. CASE /\ ~session.completed
             /\ Write(Revealed(session).session, witness, challenge) \/ WriteFails
    BY <1>7, <2>2, WonByWrite DEF Winnable, RevealTarget
  <2> QED BY <1>7, <2>1, <2>2 DEF RevealTarget
<1>8. ASSUME NEW c \in Call, SubmitDecryption(c)
      PROVE  WonInv'
  <2>1. CASE \/ Refuse(c, "no_pending_decryption") \/ Refuse(c, "wrong_decryption")
             \/ Refuse(c, "wrong_witness_key")
    BY <2>1, <1>4
  <2>2. ASSUME session.pending,
               Write(DecipheredRecord(session), witness, NoChallenge) \/ WriteFails,
               victories' = IF session.pendingCorrect THEN victories + 1 ELSE victories
        PROVE  WonInv'
    <3>1. Winnable(session)
      BY <2>2 DEF Winnable
    <3>2. CASE session.pendingCorrect
      <4>1. ~Winnable(DecipheredRecord(session))
        BY <1>0, <2>2, <3>2, DecipheredOutcome DEF Winnable
      <4> QED BY <2>2, <3>1, <3>2, <4>1, WonByVictory
    <3>3. CASE ~session.pendingCorrect
      BY <2>2, <3>1, <3>3, WonByWrite
    <3> QED BY <3>2, <3>3
  <2> QED BY <1>8, <2>1, <2>2 DEF SubmitDecryption
<1>9. CASE Next
  BY <1>9, <1>2, <1>3, <1>5, <1>6, <1>7, <1>8 DEF Next
<1> QED BY <1>1, <1>9

LEMMA WonInit == Init => WonInv
<1> SUFFICES ASSUME Init
             PROVE  WonInv
  OBVIOUS
<1> QED BY DEF Init, WonInv, WonOnce

(* However many guesses and decryptions are in flight, the service says    *)
(* "correct" at most once more often than it lost a write of the session   *)
(* (SubmitGuess, SubmitDecryption and their ignored write errors).         *)
THEOREM WonAtMostOnce == Spec => []WonOnce
<1>1. Init => TypeOK /\ WonInv
  BY InitType, WonInit
<1>2. TypeOK /\ WonInv /\ [Next]_vars => (TypeOK /\ WonInv)'
  BY NextType, WonStep
<1>3. TypeOK /\ WonInv => WonOnce
  BY DEF WonInv
<1> QED BY <1>1, <1>2, <1>3, PTL DEF Spec

-----------------------------------------------------------------------------
(* The log is the key.                                                     *)

SameKeys(next, sess) == next.encrypted = sess.encrypted /\ next.blocked = sess.blocked

LEMMA CompletedKeys ==
    ASSUME NEW sess \in SessionRecord, NEW b \in BOOLEAN
    PROVE  SameKeys(Completed(sess, b), sess)
  BY DEF Completed, SameKeys, SessionRecord

LEMMA ChaosKeys ==
    ASSUME NEW sess \in SessionRecord, NEW o \in ChaosFailures(sess)
    PROVE  SameKeys(o.session, sess)
  BY DEF ChaosFailures, SameKeys, SessionRecord

LEMMA LessKeys ==
    ASSUME NEW sess \in SessionRecord
    PROVE  OneGuessLess(sess) \in SessionRecord /\ SameKeys(OneGuessLess(sess), sess)
<1>1. SameKeys(OneGuessLess(sess), sess)
  BY DEF OneGuessLess, SameKeys, SessionRecord
<1> QED BY <1>1, OneGuessLessType

LEMMA GuessedKeys ==
    ASSUME NEW sess \in SessionRecord, NEW c \in Candidate, NEW o \in Guessed(sess, c)
    PROVE  SameKeys(o.session, sess)
<1> DEFINE next == [sess EXCEPT !.guessed = @ \cup {c}]
           correct == c = sess.target
           less == OneGuessLess(next)
<1>1. next \in SessionRecord /\ SameKeys(next, sess)
  BY DEF SessionRecord, SameKeys
<1>2. o = Solved(next) \/ o = Missed(next) \/ o = Withheld(next, correct)
  BY DEF Guessed
<1> HIDE DEF next, correct
<1>3. less \in SessionRecord /\ SameKeys(less, next)
  BY <1>1, LessKeys
<1>4. CASE o = Solved(next)
  <2>1. o.session = Completed(next, TRUE)
    BY <1>4 DEF Solved
  <2> QED BY <1>1, <2>1, CompletedKeys DEF SameKeys
<1>5. CASE o = Missed(next)
  <2>1. o.session = Completed(less, FALSE) \/ o.session = less
    BY <1>5 DEF Missed
  <2> HIDE DEF less
  <2>2. SameKeys(Completed(less, FALSE), less)
    BY <1>3, CompletedKeys
  <2> QED BY <1>1, <1>3, <2>1, <2>2 DEF SameKeys
<1>6. CASE o = Withheld(next, correct)
  <2>1. SameKeys(o.session, next)
    BY <1>1, <1>6 DEF Withheld, SameKeys, SessionRecord
  <2> QED BY <1>1, <2>1 DEF SameKeys
<1> QED BY <1>2, <1>4, <1>5, <1>6

LEMMA DecipheredKeys ==
    ASSUME NEW sess \in SessionRecord
    PROVE  SameKeys(DecipheredRecord(sess), sess)
<1> DEFINE next == NoPending(sess)
           less == OneGuessLess(next)
<1>1. next \in SessionRecord /\ SameKeys(next, sess)
  BY DEF NoPending, SessionRecord, SameKeys
<1> HIDE DEF next
<1>2. less \in SessionRecord /\ SameKeys(less, next)
  BY <1>1, LessKeys
<1>3. \/ DecipheredRecord(sess) = Completed(next, TRUE)
      \/ DecipheredRecord(sess) = Completed(less, FALSE)
      \/ DecipheredRecord(sess) = less
  BY DEF DecipheredRecord, Deciphered, DecipheredMiss, next
<1> HIDE DEF less
<1>4. SameKeys(Completed(next, TRUE), next) /\ SameKeys(Completed(less, FALSE), less)
  BY <1>1, <1>2, CompletedKeys
<1> QED BY <1>1, <1>2, <1>3, <1>4 DEF SameKeys

(* In Stage 2 and below ten solves no question is ever blocked.            *)
Unblocked(sess) ==
    Stage = 2 \/ ~Filtered => \A q \in Question : sess.blocked[q] # "yes"

LEMMA RecordedKeys ==
    ASSUME NEW sess \in SessionRecord, NEW q \in Question,
           NEW e \in Rolls(sess.encrypted[q], Filtered)
    PROVE  /\ Recorded(sess, q, e).blocked = sess.blocked
           /\ \A r \in Question \ {q} :
                 Recorded(sess, q, e).encrypted[r] = sess.encrypted[r]
           /\ Recorded(sess, q, e).encrypted[q] \in {"yes", "no"}
           /\ sess.encrypted[q] # "none" =>
                 Recorded(sess, q, e).encrypted[q] = sess.encrypted[q]
<1>1. sess.encrypted[q] \in Decision /\ Filtered \in BOOLEAN
  BY DEF SessionRecord, Filtered
<1>2. e \in {"yes", "no"}
  BY <1>1, RollsType
<1>3. CASE sess.encrypted[q] # "none"
  BY <1>1, <1>3 DEF Recorded, Decision
<1>4. CASE sess.encrypted[q] = "none"
  <2> DEFINE enc == [sess.encrypted EXCEPT ![q] = e]
  <2>1. enc[q] = e /\ \A r \in Question \ {q} : enc[r] = sess.encrypted[r]
    BY DEF SessionRecord
  <2>2. Recorded(sess, q, e).encrypted = enc /\ Recorded(sess, q, e).blocked = sess.blocked
    BY <1>4 DEF Recorded, SessionRecord
  <2> HIDE DEF enc
  <2> QED BY <1>2, <1>4, <2>1, <2>2
<1> QED BY <1>3, <1>4

LEMMA AskedKeys ==
    ASSUME NEW sess \in SessionRecord, Unblocked(sess), NEW q \in Question,
           NEW o \in Asked(sess, q)
    PROVE  /\ Unblocked(o.session)
           /\ \A r \in Question \ {q} : o.session.encrypted[r] = sess.encrypted[r]
           /\ o.session.blocked[q] = "yes" =>
                 o.session.encrypted[q] = sess.encrypted[q]
           /\ o.session.blocked[q] # "yes" =>
                 /\ o.session.encrypted[q] \in {"yes", "no"}
                 /\ sess.encrypted[q] # "none" =>
                       o.session.encrypted[q] = sess.encrypted[q]
<1>1. CASE Stage = 2 \/ ~Filtered
  <2>1. o \in Answered(sess, q)
    BY <1>1 DEF Asked
  <2>2. PICK e \in Rolls(sess.encrypted[q], Filtered) : o.session = Recorded(sess, q, e)
    BY <2>1 DEF Answered
  <2>3. o.session.blocked[q] # "yes"
    BY <1>1, <2>2, RecordedKeys DEF Unblocked
  <2> QED BY <1>1, <2>2, <2>3, RecordedKeys DEF Unblocked
<1>2. CASE ~(Stage = 2 \/ ~Filtered)
  <2>1. PICK b \in Rolls(sess.blocked[q], TRUE) :
           LET next == [sess EXCEPT !.blocked = [@ EXCEPT ![q] = b]]
           IN  o \in IF b = "yes" THEN {BlockedAnswer(next)} ELSE Answered(next, q)
    BY <1>2 DEF Asked
  <2> DEFINE blk == [sess.blocked EXCEPT ![q] = b]
             next == [sess EXCEPT !.blocked = blk]
  <2>2. b \in {"yes", "no"}
    <3>1. sess.blocked[q] \in Decision
      BY DEF SessionRecord
    <3> QED BY <3>1, RollsType
  <2>3. blk \in [Question -> Decision] /\ blk[q] = b
    BY <2>2 DEF SessionRecord, Decision
  <2>4. o \in IF b = "yes" THEN {BlockedAnswer(next)} ELSE Answered(next, q)
    BY <2>1
  <2> HIDE DEF blk
  <2>5. next \in SessionRecord /\ next.encrypted = sess.encrypted /\ next.blocked = blk
    BY <2>3 DEF SessionRecord
  <2> HIDE DEF next
  <2>6. CASE b = "yes"
    <3>1. o.session = next
      BY <2>4, <2>6 DEF BlockedAnswer
    <3> QED BY <1>2, <2>3, <2>5, <2>6, <3>1 DEF Unblocked
  <2>7. CASE b = "no"
    <3>1. PICK e \in Rolls(next.encrypted[q], Filtered) : o.session = Recorded(next, q, e)
      BY <2>4, <2>7 DEF Answered
    <3>2. o.session.blocked[q] # "yes"
      BY <2>3, <2>5, <2>7, <3>1, RecordedKeys
    <3> QED BY <1>2, <2>5, <3>1, <3>2, RecordedKeys DEF Unblocked
  <2> QED BY <2>2, <2>6, <2>7
<1> QED BY <1>1, <1>2

(* What the log will say of q once the response of c has arrived.          *)
Plain(c) == calls[c].phase = "decided" /\ calls[c].result \in {"yes", "no"}
WillSay(c, q) == IF Plain(c) /\ log[q] = "none" THEN calls[c].result ELSE log[q]

Recording(q) == session.encrypted[q] = "no" <=> witness[q] # "none"

Single(q) == \A c, d \in Call : Asks(c, q) /\ Asks(d, q) => c = d
Arriving(q) == \A c \in Call : Asks(c, q) => WillSay(c, q) = witness[q]
Arrived(q) == (\A c \in Call : ~Asks(c, q)) => log[q] = witness[q]

(* LogIsKey strengthened: at most one ask of the question is open, and the *)
(* answer it brings is the one recorded.                                   *)
InStep(q) == q \notin unsure => Single(q) /\ Arriving(q) /\ Arrived(q)

PlainAsked == \A c \in Call : Plain(c) => calls[c].request.op = "ask"

KeyInv ==
    /\ Unblocked(session)
    /\ PlainAsked
    /\ \A q \in Question : Recording(q) /\ InStep(q)

LEMMA SameRecording ==
    ASSUME NEW q \in Question, Recording(q), witness'[q] = witness[q],
           session'.encrypted[q] = session.encrypted[q]
    PROVE  Recording(q)'
  BY DEF Recording

LEMMA KeyUnmoved ==
    ASSUME KeyInv, UNCHANGED <<session, witness, calls, log, unsure>>
    PROVE  KeyInv'
  BY DEF KeyInv, Unblocked, PlainAsked, Recording, InStep, Single, Arriving, Arrived,
         WillSay, Plain, Asks, Open

LEMMA KeySend ==
    ASSUME TypeOK, KeyInv, NEW c \in Call, NEW r \in Request, Send(c, r),
           unsure \subseteq unsure',
           \A q \in Question : r.op = "ask" /\ r.question = q
                               /\ (\E d \in Call : Asks(d, q)) => q \in unsure'
    PROVE  KeyInv'
<1>1. /\ UNCHANGED <<session, witness, log>>
      /\ ~Open(c) /\ calls' = [calls EXCEPT ![c] = [phase |-> "sent", request |-> r]]
  BY DEF Send, record
<1>2. /\ calls'[c] = [phase |-> "sent", request |-> r]
      /\ \A d \in Call \ {c} : calls'[d] = calls[d]
  BY <1>1 DEF TypeOK
<1>3. ~Plain(c)' /\ \A d \in Call \ {c} : Plain(d)' <=> Plain(d)
  BY <1>2 DEF Plain
<1>4. PlainAsked'
  BY <1>2, <1>3 DEF PlainAsked, KeyInv
<1>5. ASSUME NEW q \in Question
      PROVE  Recording(q)' /\ InStep(q)'
  <2>1. Recording(q)'
    BY <1>1 DEF Recording, KeyInv
  <2>2. /\ Asks(c, q)' <=> r.op = "ask" /\ r.question = q
        /\ ~Asks(c, q)
        /\ \A d \in Call \ {c} : Asks(d, q)' <=> Asks(d, q)
    BY <1>1, <1>2 DEF Asks, Open
  <2>3. ASSUME q \notin unsure'
        PROVE  Single(q)' /\ Arriving(q)' /\ Arrived(q)'
    <3>1. Single(q) /\ Arriving(q) /\ Arrived(q)
      BY <2>3 DEF KeyInv, InStep
    <3>2. WillSay(c, q)' = log[q] /\ \A d \in Call \ {c} : WillSay(d, q)' = WillSay(d, q)
      BY <1>1, <1>2, <1>3 DEF WillSay
    <3>3. Asks(c, q)' => \A d \in Call : ~Asks(d, q)
      BY <2>2, <2>3
    <3>4. Single(q)'
      BY <2>2, <3>1, <3>3 DEF Single
    <3>5. Arriving(q)'
      BY <1>1, <2>2, <3>1, <3>2, <3>3 DEF Arriving, Arrived
    <3>6. Arrived(q)'
      BY <1>1, <2>2, <3>1 DEF Arrived
    <3> QED BY <3>4, <3>5, <3>6
  <2> QED BY <2>1, <2>3 DEF InStep
<1> QED BY <1>1, <1>4, <1>5 DEF KeyInv, Unblocked

(* A decision: the request stays open, and where it asks q what its        *)
(* response will make the log say is what the record then says.            *)
LEMMA KeyDecided ==
    ASSUME TypeOK, KeyInv, NEW c \in Call, NEW result, calls[c].phase = "sent",
           Decided(c, result), Unblocked(session'),
           result \in {"yes", "no"} => calls[c].request.op = "ask",
           \A q \in Question : Recording(q)',
           \A q \in Question : ~Asks(c, q) => witness'[q] = witness[q],
           \A q \in Question : Asks(c, q) /\ log[q] = witness[q] =>
              witness'[q] = IF result \in {"yes", "no"} /\ log[q] = "none"
                            THEN result ELSE log[q]
    PROVE  KeyInv'
<1>1. /\ UNCHANGED <<log, unsure>>
      /\ calls' = [calls EXCEPT ![c] = [phase   |-> "decided",
                                        request |-> calls[c].request,
                                        result  |-> result]]
  BY DEF Decided
<1>2. /\ calls'[c] = [phase |-> "decided", request |-> calls[c].request, result |-> result]
      /\ \A d \in Call \ {c} : calls'[d] = calls[d]
  BY <1>1 DEF TypeOK
<1>3. /\ Plain(c)' <=> result \in {"yes", "no"}
      /\ \A d \in Call \ {c} : Plain(d)' <=> Plain(d)
  BY <1>2 DEF Plain
<1>4. PlainAsked'
  BY <1>2, <1>3 DEF PlainAsked, KeyInv
<1>5. ASSUME NEW q \in Question
      PROVE  InStep(q)'
  <2>1. \A d \in Call : Asks(d, q)' <=> Asks(d, q)
    BY <1>2 DEF Asks, Open
  <2>2. ASSUME q \notin unsure
        PROVE  Single(q)' /\ Arriving(q)' /\ Arrived(q)'
    <3>1. Single(q) /\ Arriving(q) /\ Arrived(q)
      BY <2>2 DEF KeyInv, InStep
    <3>2. /\ WillSay(c, q)' = IF result \in {"yes", "no"} /\ log[q] = "none"
                              THEN result ELSE log[q]
          /\ \A d \in Call \ {c} : WillSay(d, q)' = WillSay(d, q)
      BY <1>1, <1>2, <1>3 DEF WillSay
    <3>3. WillSay(c, q) = log[q]
      BY DEF WillSay, Plain
    <3>4. Single(q)'
      BY <2>1, <3>1 DEF Single
    <3>5. CASE Asks(c, q)
      <4>1. log[q] = witness[q]
        BY <3>1, <3>3, <3>5 DEF Arriving
      <4>2. WillSay(c, q)' = witness'[q]
        BY <3>2, <3>5, <4>1
      <4>3. \A d \in Call : Asks(d, q)' => d = c
        BY <2>1, <3>1, <3>5 DEF Single
      <4> QED BY <2>1, <3>4, <3>5, <4>2, <4>3 DEF Arriving, Arrived
    <3>6. CASE ~Asks(c, q)
      <4>1. witness'[q] = witness[q]
        BY <3>6
      <4>2. Arriving(q)'
        BY <2>1, <3>1, <3>2, <3>6, <4>1 DEF Arriving
      <4>3. Arrived(q)'
        BY <1>1, <2>1, <3>1, <4>1 DEF Arrived
      <4> QED BY <3>4, <4>2, <4>3
    <3> QED BY <3>5, <3>6
  <2> QED BY <1>1, <2>2 DEF InStep
<1> QED BY <1>4, <1>5 DEF KeyInv

(* A decision that leaves what is recorded of every question alone.        *)
LEMMA KeyDecidedSame ==
    ASSUME TypeOK, KeyInv, NEW c \in Call, NEW result, calls[c].phase = "sent",
           Decided(c, result), result \notin {"yes", "no"},
           witness' = witness, SameKeys(session', session)
    PROVE  KeyInv'
<1>1. Unblocked(session')
  BY DEF KeyInv, Unblocked, SameKeys
<1>2. \A q \in Question : Recording(q)'
  BY DEF KeyInv, Recording, SameKeys
<1> QED BY <1>1, <1>2, KeyDecided

LEMMA KeyRefuse ==
    ASSUME TypeOK, KeyInv, NEW c \in Call, NEW error, calls[c].phase = "sent",
           error \notin {"yes", "no"}, Refuse(c, error)
    PROVE  KeyInv'
  BY KeyDecidedSame DEF Refuse, record, SameKeys

LEMMA KeyWriting ==
    ASSUME TypeOK, KeyInv, NEW c \in Call, NEW result, calls[c].phase = "sent",
           result \notin {"yes", "no"}, Decided(c, result),
           NEW sess, NEW chal, SameKeys(sess, session),
           Write(sess, witness, chal) \/ WriteFails
    PROVE  KeyInv'
<1>1. witness' = witness /\ SameKeys(session', session)
  BY DEF Write, WriteFails, record, SameKeys
<1> QED BY <1>1, KeyDecidedSame

LEMMA KeyInjected ==
    ASSUME TypeOK, KeyInv, NEW c \in Call, calls[c].phase = "sent", Injected(c)
    PROVE  KeyInv'
<1>1. PICK o \in ChaosFailures(session) :
          /\ Write(o.session, witness, challenge) \/ WriteFails
          /\ Decided(c, "chaos")
  BY DEF Injected
<1>2. SameKeys(o.session, session)
  BY <1>1, ChaosKeys DEF TypeOK
<1> QED BY <1>1, <1>2, KeyWriting

LEMMA KeyAsk ==
    ASSUME TypeOK, KeyInv, NEW c \in Call, AskQuestion(c)
    PROVE  KeyInv'
<1>1. calls[c].phase = "sent" /\ calls[c].request.op = "ask"
  BY DEF AskQuestion, Deciding
<1>2. PICK q \in Question, answer \in {"yes", "no"} :
          /\ q = calls[c].request.question
          /\ answer = IF calls[c].request.hit THEN "yes" ELSE "no"
  BY <1>1, OpenRequest, AskRequest DEF TypeOK
<1>3. session \in SessionRecord /\ Unblocked(session) /\ witness \in Log /\ log \in Log
  BY DEF TypeOK, KeyInv
<1>4. \A r \in Question : Asks(c, r) <=> r = q
  BY <1>1, <1>2 DEF Asks, Open
<1>5. CASE Refuse(c, "completed") \/ Injected(c)
  BY <1>1, <1>5, KeyRefuse, KeyInjected
<1>6. ASSUME NEW o \in Asked(session, q), o.session.blocked[q] = "yes",
             Write(o.session, witness, challenge) \/ WriteFails, Decided(c, "blocked")
      PROVE  KeyInv'
  <2>1. Unblocked(o.session)
        /\ \A r \in Question : o.session.encrypted[r] = session.encrypted[r]
    BY <1>2, <1>3, <1>6, AskedKeys
  <2>2. /\ witness' = witness /\ Unblocked(session')
        /\ \A r \in Question : session'.encrypted[r] = session.encrypted[r]
    BY <1>3, <1>6, <2>1 DEF Write, WriteFails, record
  <2>3. \A r \in Question : Recording(r)'
    BY <2>2 DEF KeyInv, Recording
  <2> QED BY <1>1, <1>6, <2>2, <2>3, KeyDecided
<1>7. CASE WriteFails /\ Decided(c, "transient_error")
  <2>1. witness' = witness /\ SameKeys(session', session)
    BY <1>7 DEF WriteFails, record, SameKeys
  <2> QED BY <1>1, <1>7, <2>1, KeyDecidedSame
<1>8. ASSUME NEW o \in Asked(session, q), o.session.blocked[q] # "yes",
             Write(o.session, WitnessRecorded(o.session, q, answer), challenge),
             Decided(c, IF o.session.encrypted[q] = "yes" THEN "cipher" ELSE answer)
      PROVE  KeyInv'
  <2> DEFINE result == IF o.session.encrypted[q] = "yes" THEN "cipher" ELSE answer
  <2>1. /\ Unblocked(o.session)
        /\ \A r \in Question \ {q} : o.session.encrypted[r] = session.encrypted[r]
        /\ o.session.encrypted[q] \in {"yes", "no"}
        /\ session.encrypted[q] # "none" => o.session.encrypted[q] = session.encrypted[q]
    BY <1>2, <1>3, <1>8, AskedKeys
  <2>2. session' = o.session /\ witness' = WitnessRecorded(o.session, q, answer)
    BY <1>8 DEF Write
  <2>3. \A r \in Question \ {q} : witness'[r] = witness[r]
    BY <1>3, <2>2 DEF WitnessRecorded, Log
  <2>4. /\ Recording(q) /\ session.encrypted[q] \in {"none", "yes", "no"}
        /\ witness[q] \in {"none", "yes", "no"} /\ log[q] \in {"none", "yes", "no"}
    BY <1>2, <1>3 DEF KeyInv, SessionRecord, Decision, Log, Answer
  <2>5. witness'[q] = IF o.session.encrypted[q] = "no" /\ session.encrypted[q] = "none"
                      THEN answer ELSE witness[q]
    BY <1>2, <1>3, <2>2 DEF WitnessRecorded, Log
  <2>6. Recording(q)'
    BY <1>2, <2>1, <2>2, <2>4, <2>5 DEF Recording
  <2>7. \A r \in Question : Recording(r)'
    <3>1. ASSUME NEW r \in Question \ {q}
          PROVE  Recording(r)'
      BY <2>1, <2>2, <2>3, SameRecording DEF KeyInv
    <3> QED BY <2>6, <3>1
  <2>8. log[q] = witness[q] =>
           witness'[q] = IF result \in {"yes", "no"} /\ log[q] = "none"
                         THEN result ELSE log[q]
    BY <1>2, <2>1, <2>4, <2>5 DEF Recording
  <2>9. Decided(c, result)
    BY <1>8
  <2> HIDE DEF result
  <2> QED BY <1>1, <1>4, <2>1, <2>2, <2>3, <2>7, <2>8, <2>9, KeyDecided
<1> QED BY <1>2, <1>5, <1>6, <1>7, <1>8 DEF AskQuestion

LEMMA KeyOthers ==
    ASSUME TypeOK, KeyInv, NEW c \in Call,
           SubmitGuess(c) \/ RevealTarget(c) \/ SubmitDecryption(c)
    PROVE  KeyInv'
<1>1. calls[c].phase = "sent" /\ session \in SessionRecord
  BY DEF SubmitGuess, RevealTarget, SubmitDecryption, Deciding, TypeOK
<1>2. CASE SubmitGuess(c)
  <2> DEFINE candidate == calls[c].request.candidate
  <2>1. candidate \in Candidate
    BY <1>2, OpenRequest, GuessRequest DEF TypeOK, SubmitGuess, Deciding
  <2>2. CASE \/ Refuse(c, "completed") \/ Refuse(c, "pending_decryption")
             \/ Refuse(c, "no_guesses_remaining") \/ Injected(c)
    BY <1>1, <2>2, KeyRefuse, KeyInjected
  <2>3. ASSUME NEW o \in Guessed(session, candidate), NEW chal,
               NEW result \in {"withheld", "correct", "wrong"},
               Write(o.session, witness, chal) \/ WriteFails, Decided(c, result)
        PROVE  KeyInv'
    <3>1. SameKeys(o.session, session)
      BY <1>1, <2>1, GuessedKeys
    <3>2. result \notin {"yes", "no"}
      BY <2>3
    <3> QED BY <1>1, <2>3, <3>1, <3>2, KeyWriting
  <2> QED BY <1>2, <2>2, <2>3 DEF SubmitGuess
<1>3. CASE RevealTarget(c)
  <2>1. SameKeys(Revealed(session).session, session)
    <3>1. Revealed(session).session = Completed(session, session.correct)
      BY DEF Revealed
    <3> QED BY <1>1, <3>1, CompletedKeys DEF SessionRecord
  <2>2. CASE \/ Refuse(c, "revealed") \/ Refuse(c, "insufficient_questions")
             \/ Injected(c)
    BY <1>1, <2>2, KeyRefuse, KeyInjected
  <2>3. CASE /\ Write(Revealed(session).session, witness, challenge) \/ WriteFails
             /\ Decided(c, "revealed")
    BY <1>1, <2>1, <2>3, KeyWriting
  <2> QED BY <1>3, <2>2, <2>3 DEF RevealTarget
<1>4. CASE SubmitDecryption(c)
  <2>1. SameKeys(DecipheredRecord(session), session)
    BY <1>1, DecipheredKeys
  <2>2. CASE \/ Refuse(c, "no_pending_decryption") \/ Refuse(c, "wrong_decryption")
             \/ Refuse(c, "wrong_witness_key")
    BY <1>1, <2>2, KeyRefuse
  <2>3. ASSUME NEW result \in {"correct", "wrong"}, Decided(c, result),
               Write(DecipheredRecord(session), witness, NoChallenge) \/ WriteFails
        PROVE  KeyInv'
    <3>1. result \notin {"yes", "no"}
      BY <2>3
    <3> QED BY <1>1, <2>1, <2>3, <3>1, KeyWriting
  <2> QED BY <1>4, <2>2, <2>3 DEF SubmitDecryption
<1> QED BY <1>2, <1>3, <1>4

(* A request ends: what it was still going to say has been said.           *)
LEMMA KeyFinished ==
    ASSUME TypeOK, KeyInv, NEW c \in Call, Finished(c), Open(c),
           unsure \subseteq unsure',
           \A q \in Question \ unsure' :
              log'[q] = IF Asks(c, q) THEN WillSay(c, q) ELSE log[q]
    PROVE  KeyInv'
<1>1. UNCHANGED <<session, witness>> /\ calls' = [calls EXCEPT ![c] = Idle]
  BY DEF Finished, record
<1>2. calls'[c] = Idle /\ \A d \in Call \ {c} : calls'[d] = calls[d]
  BY <1>1 DEF TypeOK
<1>3. ~Plain(c)' /\ \A d \in Call \ {c} : Plain(d)' <=> Plain(d)
  BY <1>2 DEF Plain, Idle
<1>4. PlainAsked'
  BY <1>2, <1>3 DEF PlainAsked, KeyInv
<1>5. ASSUME NEW q \in Question
      PROVE  Recording(q)' /\ InStep(q)'
  <2>1. Recording(q)'
    BY <1>1 DEF Recording, KeyInv
  <2>2. ~Asks(c, q)' /\ \A d \in Call \ {c} : Asks(d, q)' <=> Asks(d, q)
    BY <1>2 DEF Asks, Open, Idle
  <2>3. ASSUME q \notin unsure'
        PROVE  Single(q)' /\ Arriving(q)' /\ Arrived(q)'
    <3>1. Single(q) /\ Arriving(q) /\ Arrived(q)
      BY <2>3 DEF KeyInv, InStep
    <3>2. log'[q] = IF Asks(c, q) THEN WillSay(c, q) ELSE log[q]
      BY <2>3
    <3>3. Single(q)'
      BY <2>2, <3>1 DEF Single
    <3>4. CASE Asks(c, q)
      <4>1. log'[q] = witness'[q]
        BY <1>1, <3>1, <3>2, <3>4 DEF Arriving
      <4>2. \A d \in Call : ~Asks(d, q)'
        BY <2>2, <3>1, <3>4 DEF Single
      <4> QED BY <3>3, <4>1, <4>2 DEF Arriving, Arrived
    <3>5. CASE ~Asks(c, q)
      <4>1. \A d \in Call \ {c} : WillSay(d, q)' = WillSay(d, q)
        BY <1>2, <1>3, <3>2, <3>5 DEF WillSay
      <4>2. Arriving(q)'
        BY <1>1, <2>2, <3>1, <4>1 DEF Arriving
      <4>3. Arrived(q)'
        BY <1>1, <2>2, <3>1, <3>2, <3>5 DEF Arrived
      <4> QED BY <3>3, <4>2, <4>3
    <3> QED BY <3>4, <3>5
  <2> QED BY <2>1, <2>3 DEF InStep
<1> QED BY <1>1, <1>4, <1>5 DEF KeyInv, Unblocked

LEMMA KeyResponse ==
    ASSUME TypeOK, KeyInv, NEW c \in Call,
           Contention(c) \/ NotFound(c) \/ Receive(c) \/ LoseResponse(c)
    PROVE  KeyInv'
<1>1. Finished(c) /\ Open(c)
  BY DEF Contention, NotFound, Receive, LoseResponse, Open
<1>2. CASE Contention(c) \/ NotFound(c)
  <2>1. calls[c].phase = "sent" /\ log' = log /\ unsure' = unsure
    BY <1>2 DEF Contention, NotFound
  <2>2. \A q \in Question : WillSay(c, q) = log[q]
    BY <2>1 DEF WillSay, Plain
  <2> QED BY <1>1, <2>1, <2>2, KeyFinished
<1>3. CASE Receive(c)
  <2>1. ASSUME NEW q \in Question
        PROVE  log'[q] = IF Asks(c, q) THEN WillSay(c, q) ELSE log[q]
    <3>1. CASE Plain(c)
      <4>1. Asks(c, q) <=> calls[c].request.question = q
        BY <1>1, <3>1 DEF KeyInv, PlainAsked, Asks
      <4>2. log' = [log EXCEPT ![calls[c].request.question] =
                      IF @ = "none" THEN calls[c].result ELSE @]
        BY <1>3, <3>1 DEF Receive, Plain
      <4> QED BY <3>1, <4>1, <4>2 DEF WillSay, TypeOK, Log
    <3>2. CASE ~Plain(c)
      <4>1. log' = log
        BY <1>3, <3>2 DEF Receive, Plain
      <4> QED BY <3>2, <4>1 DEF WillSay
    <3> QED BY <3>1, <3>2
  <2>2. unsure' = unsure
    BY <1>3 DEF Receive
  <2> QED BY <1>1, <2>1, <2>2, KeyFinished
<1>4. CASE LoseResponse(c)
  <2>1. log' = log /\ unsure \subseteq unsure'
    BY <1>4 DEF LoseResponse
  <2>2. \A q \in Question : Asks(c, q) => q \in unsure'
    BY <1>4 DEF LoseResponse, Asks
  <2> QED BY <1>1, <2>1, <2>2, KeyFinished
<1> QED BY <1>2, <1>3, <1>4

LEMMA KeySending ==
    ASSUME TypeOK, KeyInv, NEW c \in Call,
           SendAsk(c) \/ SendGuess(c) \/ SendDecrypt(c) \/ SendReveal(c)
    PROVE  KeyInv'
<1>1. CASE SendAsk(c)
  <2>1. PICK q \in Question, hit \in BOOLEAN :
           /\ Send(c, [op |-> "ask", question |-> q, hit |-> hit])
           /\ unsure' = IF \E d \in Call : Asks(d, q) THEN unsure \cup {q} ELSE unsure
    BY <1>1 DEF SendAsk
  <2> DEFINE r == [op |-> "ask", question |-> q, hit |-> hit]
  <2>2. r \in Request /\ r.question = q
    BY DEF Request
  <2>3. Send(c, r) /\ unsure \subseteq unsure'
    BY <2>1
  <2> HIDE DEF r
  <2> QED BY <2>1, <2>2, <2>3, KeySend
<1>2. CASE SendGuess(c)
  <2>1. PICK candidate \in Candidate : Send(c, [op |-> "guess", candidate |-> candidate])
    BY <1>2 DEF SendGuess
  <2> DEFINE r == [op |-> "guess", candidate |-> candidate]
  <2>2. r \in Request /\ r.op # "ask" /\ Send(c, r) /\ unsure' = unsure
    BY <1>2, <2>1 DEF Request, SendGuess
  <2> HIDE DEF r
  <2> QED BY <2>2, KeySend
<1>3. CASE SendDecrypt(c)
  <2>1. PICK candidate \in Candidate :
           Send(c, [op |-> "decrypt", candidate |-> candidate, key |-> log])
    BY <1>3 DEF SendDecrypt
  <2> DEFINE r == [op |-> "decrypt", candidate |-> candidate, key |-> log]
  <2>2. r \in Request /\ r.op # "ask" /\ Send(c, r) /\ unsure' = unsure
    BY <1>3, <2>1 DEF Request, SendDecrypt, TypeOK
  <2> HIDE DEF r
  <2> QED BY <2>2, KeySend
<1>4. CASE SendReveal(c)
  <2> DEFINE r == [op |-> "reveal"]
  <2>1. r \in Request /\ r.op # "ask" /\ Send(c, r) /\ unsure' = unsure
    BY <1>4 DEF Request, SendReveal
  <2> HIDE DEF r
  <2> QED BY <2>1, KeySend
<1> QED BY <1>1, <1>2, <1>3, <1>4

LEMMA KeyStep ==
    ASSUME TypeOK, KeyInv, [Next]_vars
    PROVE  KeyInv'
<1>1. CASE UNCHANGED vars
  BY <1>1, KeyUnmoved DEF vars, record, observed
<1>2. CASE Tick \/ Vanish
  BY <1>2, KeyUnmoved DEF Tick, Vanish, record, observed
<1>3. ASSUME NEW c \in Call,
             \/ SendAsk(c) \/ SendGuess(c) \/ SendDecrypt(c) \/ SendReveal(c)
             \/ AskQuestion(c) \/ SubmitGuess(c) \/ SubmitDecryption(c)
             \/ RevealTarget(c)
             \/ Contention(c) \/ NotFound(c) \/ Receive(c) \/ LoseResponse(c)
      PROVE  KeyInv'
  BY <1>3, KeySending, KeyAsk, KeyOthers, KeyResponse
<1> QED BY <1>1, <1>2, <1>3 DEF Next

LEMMA KeyInit == Init => KeyInv
<1> SUFFICES ASSUME Init
             PROVE  KeyInv
  OBVIOUS
<1>1. PICK target \in Candidate :
          session = [NewSession(target) EXCEPT !.asked = PriorAsked]
  BY DEF Init
<1>2. /\ session.encrypted = [q \in Question |-> "none"]
      /\ session.blocked = [q \in Question |-> "none"]
  BY <1>1 DEF NewSession
<1>3. log = NoLog /\ witness = NoLog /\ \A c \in Call : calls[c] = Idle
  BY DEF Init
<1>4. \A c \in Call : ~Open(c) /\ ~Plain(c)
  BY <1>3 DEF Open, Plain, Idle
<1>5. Unblocked(session) /\ PlainAsked
  BY <1>2, <1>4 DEF Unblocked, PlainAsked
<1>6. ASSUME NEW q \in Question
      PROVE  Recording(q) /\ InStep(q)
  <2>1. Recording(q)
    BY <1>2, <1>3 DEF Recording, NoLog
  <2>2. Single(q) /\ Arriving(q) /\ Arrived(q)
    BY <1>3, <1>4 DEF Single, Arriving, Arrived, Asks
  <2> QED BY <2>1, <2>2 DEF InStep
<1> QED BY <1>5, <1>6 DEF KeyInv

LEMMA KeyInvLog == KeyInv => LogIsKey
  BY DEF KeyInv, InStep, Arrived, LogIsKey

(* For any number of questions, candidates and requests in flight, a       *)
(* player that never had two asks of one question open, nor lost an answer *)
(* to one, holds exactly the recorded answer of that question              *)
(* (AskQuestion, RecordQuestion).                                          *)
THEOREM LogIsTheKey == Spec => []LogIsKey
<1>1. Init => TypeOK /\ KeyInv
  BY InitType, KeyInit
<1>2. TypeOK /\ KeyInv /\ [Next]_vars => (TypeOK /\ KeyInv)'
  BY NextType, KeyStep
<1> QED BY <1>1, <1>2, KeyInvLog, PTL DEF Spec
-----------------------------------------------------------------------------
(* The honest key is accepted.                                             *)

(* A request that is not marked as crossed is the only one open.           *)
Alone == \A c, d \in Call : Open(c) /\ Open(d) /\ c \notin crossed => c = d

(* Until its decision, the key of a lone decryption stays the one demanded. *)
KeyHeld ==
    \A c \in Call :
        /\ calls[c].phase = "sent" /\ calls[c].request.op = "decrypt"
        /\ c \notin crossed /\ unsure = {}
        => calls[c].request.key = witness

HonestInv == Alone /\ KeyHeld /\ HonestKeyAccepted

LEMMA HonestSend ==
    ASSUME TypeOK, LogIsKey, HonestInv, NEW c \in Call, NEW r \in Request, Send(c, r),
           unsure \subseteq unsure', r.op = "decrypt" => r.key = log
    PROVE  HonestInv'
<1> DEFINE others == {d \in Call \ {c} : Open(d)}
<1>1. /\ witness' = witness /\ ~Open(c)
      /\ calls' = [calls EXCEPT ![c] = [phase |-> "sent", request |-> r]]
      /\ crossed' = IF others = {} THEN crossed ELSE crossed \cup others \cup {c}
  BY DEF Send, record
<1>2. /\ calls'[c] = [phase |-> "sent", request |-> r]
      /\ \A d \in Call \ {c} : calls'[d] = calls[d]
  BY <1>1 DEF TypeOK
<1>3. \A d \in Call \ {c} : Open(d)' <=> Open(d)
  BY <1>2 DEF Open
<1>4. crossed \subseteq crossed' /\ \A d \in Call \ {c} : Open(d) => d \in crossed'
  <2>1. CASE others = {}
    BY <1>1, <2>1
  <2>2. CASE others # {}
    BY <1>1, <2>2
  <2> QED BY <2>1, <2>2
<1>5. c \notin crossed' => \A d \in Call : ~Open(d)
  BY <1>1
<1> HIDE DEF others
<1>6. Alone'
  BY <1>3, <1>4, <1>5 DEF Alone
<1>7. KeyHeld'
  <2>1. ASSUME NEW d \in Call, calls'[d].phase = "sent", calls'[d].request.op = "decrypt",
               d \notin crossed', unsure' = {}
        PROVE  calls'[d].request.key = witness
    <3>1. d = c
      BY <1>2, <1>4, <2>1 DEF Open
    <3>2. calls'[d].request.key = log
      BY <1>2, <2>1, <3>1
    <3>3. \A q \in Question : log[q] = witness[q]
      BY <1>5, <2>1, <3>1 DEF LogIsKey, Asks
    <3>4. log = witness
      BY <3>3 DEF TypeOK, Log
    <3> QED BY <3>2, <3>4
  <2> QED BY <1>1, <2>1 DEF KeyHeld
<1>8. HonestKeyAccepted'
  BY <1>2, <1>4 DEF HonestKeyAccepted, HonestInv
<1> QED BY <1>6, <1>7, <1>8 DEF HonestInv

LEMMA HonestDecided ==
    ASSUME TypeOK, HonestInv, NEW c \in Call, NEW result, calls[c].phase = "sent",
           Decided(c, result),
           result = "wrong_witness_key" => c \in crossed \/ unsure # {}
    PROVE  HonestInv'
<1>1. /\ UNCHANGED <<crossed, unsure>>
      /\ calls' = [calls EXCEPT ![c] = [phase   |-> "decided",
                                        request |-> calls[c].request,
                                        result  |-> result]]
  BY DEF Decided
<1>2. /\ calls'[c] = [phase |-> "decided", request |-> calls[c].request, result |-> result]
      /\ \A d \in Call \ {c} : calls'[d] = calls[d]
  BY <1>1 DEF TypeOK
<1>3. Open(c) /\ \A d \in Call : Open(d)' <=> Open(d)
  BY <1>2 DEF Open
<1>4. Alone'
  BY <1>1, <1>3 DEF Alone, HonestInv
<1>5. KeyHeld'
  <2>1. ASSUME NEW d \in Call, calls'[d].phase = "sent", d \notin crossed
        PROVE  FALSE
    BY <1>2, <1>3, <2>1 DEF HonestInv, Alone, Open
  <2> QED BY <1>1, <2>1 DEF KeyHeld
<1>6. HonestKeyAccepted'
  BY <1>1, <1>2 DEF HonestKeyAccepted, HonestInv
<1> QED BY <1>4, <1>5, <1>6 DEF HonestInv

LEMMA HonestFinished ==
    ASSUME TypeOK, HonestInv, NEW c \in Call, Finished(c), unsure \subseteq unsure'
    PROVE  HonestInv'
<1>1. /\ crossed' = crossed \ {c} /\ witness' = witness
      /\ calls' = [calls EXCEPT ![c] = Idle]
  BY DEF Finished, record
<1>2. calls'[c] = Idle /\ \A d \in Call \ {c} : calls'[d] = calls[d]
  BY <1>1 DEF TypeOK
<1>3. /\ calls'[c].phase # "sent" /\ calls'[c].phase # "decided" /\ ~Open(c)'
      /\ \A d \in Call \ {c} : Open(d)' <=> Open(d)
  BY <1>2 DEF Open, Idle
<1>4. Alone'
  BY <1>1, <1>3 DEF Alone, HonestInv
<1>5. KeyHeld'
  BY <1>1, <1>2, <1>3 DEF KeyHeld, HonestInv
<1>6. HonestKeyAccepted'
  BY <1>1, <1>2, <1>3 DEF HonestKeyAccepted, HonestInv
<1> QED BY <1>4, <1>5, <1>6 DEF HonestInv

(* Every action of the service on a request is a Decided.                  *)
LEMMA ServiceDecides ==
    ASSUME NEW c \in Call,
           AskQuestion(c) \/ SubmitGuess(c) \/ RevealTarget(c) \/ SubmitDecryption(c)
    PROVE  /\ calls[c].phase = "sent"
           /\ \E result :
                 /\ Decided(c, result)
                 /\ result = "wrong_witness_key" =>
                       /\ calls[c].request.op = "decrypt"
                       /\ calls[c].request.key # witness
<1>1. calls[c].phase = "sent"
  BY DEF AskQuestion, SubmitGuess, RevealTarget, SubmitDecryption, Deciding
<1>2. CASE AskQuestion(c)
  <2>1. PICK result : Decided(c, result) /\ result # "wrong_witness_key"
    BY <1>2 DEF AskQuestion, Refuse, Injected
  <2> QED BY <1>1, <2>1
<1>3. CASE SubmitGuess(c)
  <2>1. PICK result : Decided(c, result) /\ result # "wrong_witness_key"
    BY <1>3 DEF SubmitGuess, Refuse, Injected
  <2> QED BY <1>1, <2>1
<1>4. CASE RevealTarget(c)
  <2>1. PICK result : Decided(c, result) /\ result # "wrong_witness_key"
    BY <1>4 DEF RevealTarget, Refuse, Injected
  <2> QED BY <1>1, <2>1
<1>5. CASE SubmitDecryption(c)
  <2>1. calls[c].request.op = "decrypt"
    BY <1>5 DEF SubmitDecryption, Deciding
  <2>2. CASE /\ calls[c].request.key # KeyDemanded(session, witness)
             /\ Refuse(c, "wrong_witness_key")
    BY <1>1, <2>1, <2>2 DEF Refuse, KeyDemanded
  <2>3. CASE \/ Refuse(c, "no_pending_decryption") \/ Refuse(c, "wrong_decryption")
             \/ Decided(c, IF session.pendingCorrect THEN "correct" ELSE "wrong")
    <3>1. PICK result : Decided(c, result) /\ result # "wrong_witness_key"
      BY <2>3 DEF Refuse
    <3> QED BY <1>1, <3>1
  <2> QED BY <1>1, <1>5, <2>2, <2>3 DEF SubmitDecryption
<1> QED BY <1>2, <1>3, <1>4, <1>5

LEMMA HonestStep ==
    ASSUME TypeOK, LogIsKey, HonestInv, [Next]_vars
    PROVE  HonestInv'
<1>1. ASSUME UNCHANGED <<witness, calls, crossed, unsure>>
      PROVE  HonestInv'
  BY <1>1 DEF HonestInv, Alone, KeyHeld, HonestKeyAccepted, Open
<1>2. CASE UNCHANGED vars
  BY <1>1, <1>2 DEF vars, record, observed
<1>3. CASE Tick \/ Vanish
  BY <1>1, <1>3 DEF Tick, Vanish, record, observed
<1>4. ASSUME NEW c \in Call,
             SendAsk(c) \/ SendGuess(c) \/ SendDecrypt(c) \/ SendReveal(c)
      PROVE  HonestInv'
  <2>1. PICK r \in Request : /\ Send(c, r) /\ unsure \subseteq unsure'
                             /\ r.op = "decrypt" => r.key = log
    <3>1. CASE SendAsk(c)
      <4>1. PICK q \in Question, hit \in BOOLEAN :
               /\ Send(c, [op |-> "ask", question |-> q, hit |-> hit])
               /\ unsure' = IF \E d \in Call : Asks(d, q) THEN unsure \cup {q} ELSE unsure
        BY <3>1 DEF SendAsk
      <4>2. unsure \subseteq unsure'
        BY <4>1
      <4> QED BY <4>1, <4>2 DEF Request
    <3>2. CASE SendGuess(c)
      BY <3>2 DEF SendGuess, Request
    <3>3. CASE SendDecrypt(c)
      BY <3>3 DEF SendDecrypt, TypeOK, Request
    <3>4. CASE SendReveal(c)
      BY <3>4 DEF SendReveal, Request
    <3> QED BY <1>4, <3>1, <3>2, <3>3, <3>4
  <2> QED BY <2>1, HonestSend
<1>5. ASSUME NEW c \in Call,
             AskQuestion(c) \/ SubmitGuess(c) \/ RevealTarget(c) \/ SubmitDecryption(c)
      PROVE  HonestInv'
  <2>1. calls[c].phase = "sent"
    BY <1>5, ServiceDecides
  <2>2. PICK result : /\ Decided(c, result)
                      /\ result = "wrong_witness_key" =>
                            /\ calls[c].request.op = "decrypt"
                            /\ calls[c].request.key # witness
    BY <1>5, ServiceDecides
  <2>3. result = "wrong_witness_key" => c \in crossed \/ unsure # {}
    BY <2>1, <2>2 DEF HonestInv, KeyHeld
  <2> QED BY <2>1, <2>2, <2>3, HonestDecided
<1>6. ASSUME NEW c \in Call,
             Contention(c) \/ NotFound(c) \/ Receive(c) \/ LoseResponse(c)
      PROVE  HonestInv'
  <2>1. Finished(c) /\ unsure \subseteq unsure'
    BY <1>6 DEF Contention, NotFound, Receive, LoseResponse
  <2> QED BY <2>1, HonestFinished
<1> QED BY <1>2, <1>3, <1>4, <1>5, <1>6 DEF Next

LEMMA HonestInit == Init => HonestInv
<1> SUFFICES ASSUME Init
             PROVE  HonestInv
  OBVIOUS
<1>1. \A c \in Call : calls[c] = Idle
  BY DEF Init
<1>2. \A c \in Call : calls[c].phase = "idle" /\ ~Open(c)
  BY <1>1 DEF Open, Idle
<1> QED BY <1>2 DEF HonestInv, Alone, KeyHeld, HonestKeyAccepted

(* A player that keeps one request open at a time and loses no response is *)
(* never told that its witness key is wrong, for any number of questions   *)
(* and in whatever order it asks, guesses and decrypts (SubmitDecryption   *)
(* derives the key anew).                                                  *)
THEOREM HonestKeyHolds == Spec => []HonestKeyAccepted
<1>1. Init => TypeOK /\ KeyInv /\ HonestInv
  BY InitType, KeyInit, HonestInit
<1>2. TypeOK /\ KeyInv /\ HonestInv /\ [Next]_vars => (TypeOK /\ KeyInv /\ HonestInv)'
  BY NextType, KeyStep, KeyInvLog, HonestStep
<1>3. HonestInv => HonestKeyAccepted
  BY DEF HonestInv
<1> QED BY <1>1, <1>2, <1>3, PTL DEF Spec

-----------------------------------------------------------------------------
(* What waiting costs.                                                     *)

LEMMA TimeMonotone ==
    ASSUME NEW e \in Nat, NEW later \in Nat, e <= later
    PROVE  TimeBonus(later) <= TimeBonus(e) /\ TimeBonus(e) \in Int /\ TimeBonus(later) \in Int
  BY DEF TimeBonus

LEMMA QuestionMonotone ==
    ASSUME NEW a \in Nat, NEW more \in Nat, a <= more
    PROVE  /\ QuestionBonus(more) <= QuestionBonus(a)
           /\ QuestionBonus(a) \in Int /\ QuestionBonus(more) \in Int
  BY DEF QuestionBonus

(* Neither time, nor questions, nor failed requests ever raise a score.    *)
LEMMA ScoreMonotone ==
    ASSUME NEW e \in Nat, NEW later \in Nat, e <= later,
           NEW a \in Nat, NEW more \in Nat, a <= more,
           NEW f \in Nat, NEW worse \in Nat, f <= worse
    PROVE  GuessScore(later, more, worse) <= GuessScore(e, a, f)
<1>1. TimeBonus(later) <= TimeBonus(e) /\ TimeBonus(e) \in Int /\ TimeBonus(later) \in Int
  BY TimeMonotone
<1>2. /\ QuestionBonus(more) <= QuestionBonus(a)
      /\ QuestionBonus(a) \in Int /\ QuestionBonus(more) \in Int
  BY QuestionMonotone
<1>3. ReliabilityPenalty(f) <= ReliabilityPenalty(worse)
      /\ ReliabilityPenalty(f) \in Int /\ ReliabilityPenalty(worse) \in Int
  BY DEF ReliabilityPenalty
<1> QED BY <1>1, <1>2, <1>3 DEF GuessScore, BaseScore

Owed(sess, chal) ==
    sess.pending /\ sess.pendingCorrect
    => chal.score >= GuessScore(elapsed, sess.asked, sess.failed)

LEMMA OwedWaiting == WaitingIsFree <=> Owed(session, challenge)
  BY DEF WaitingIsFree, Owed, Worth

(* A record that follows session without a new guess: the same challenge,  *)
(* no less asked, no less failed.                                          *)
Follows(sess) ==
    /\ sess.pending = session.pending /\ sess.pendingCorrect = session.pendingCorrect
    /\ session.asked <= sess.asked /\ session.failed <= sess.failed

LEMMA CountsNat ==
    ASSUME NEW sess \in SessionRecord
    PROVE  sess.asked \in Nat /\ sess.failed \in Nat
  BY RulesAssumption DEF SessionRecord

LEMMA OwedFollows ==
    ASSUME TypeOK, WaitingIsFree, NEW sess \in SessionRecord, Follows(sess)
    PROVE  Owed(sess, challenge)
<1>1. session \in SessionRecord /\ challenge.score \in Nat /\ elapsed \in Nat
  BY AnswersAssumption DEF TypeOK, Challenge
<1>2. session.asked \in Nat /\ session.failed \in Nat /\ sess.asked \in Nat /\ sess.failed \in Nat
  BY <1>1, CountsNat
<1>3. GuessScore(elapsed, sess.asked, sess.failed)
         <= GuessScore(elapsed, session.asked, session.failed)
  BY <1>1, <1>2, ScoreMonotone DEF Follows
<1>4. /\ GuessScore(elapsed, sess.asked, sess.failed) \in Nat
      /\ GuessScore(elapsed, session.asked, session.failed) \in Nat
  BY <1>1, <1>2, ScoreNat
<1>5. SUFFICES ASSUME sess.pending, sess.pendingCorrect
               PROVE  challenge.score >= GuessScore(elapsed, sess.asked, sess.failed)
  BY DEF Owed
<1>6. challenge.score >= GuessScore(elapsed, session.asked, session.failed)
  BY <1>5, OwedWaiting DEF Owed, Follows
<1> QED BY <1>1, <1>3, <1>4, <1>6

LEMMA OwedWrite ==
    ASSUME TypeOK, WaitingIsFree, NEW sess, NEW wit, NEW chal, Owed(sess, chal),
           Write(sess, wit, chal) \/ WriteFails, elapsed' = elapsed
    PROVE  WaitingIsFree'
<1>1. CASE Write(sess, wit, chal)
  BY <1>1 DEF Write, Owed, WaitingIsFree, Worth
<1>2. CASE WriteFails
  BY <1>2 DEF WriteFails, record, WaitingIsFree, Worth
<1> QED BY <1>1, <1>2

LEMMA OwedUnmoved ==
    ASSUME WaitingIsFree, UNCHANGED <<session, challenge, elapsed>>
    PROVE  WaitingIsFree'
  BY DEF WaitingIsFree, Worth

LEMMA OwedTick ==
    ASSUME TypeOK, WaitingIsFree, Tick
    PROVE  WaitingIsFree'
<1>1. /\ session \in SessionRecord /\ challenge.score \in Nat
      /\ elapsed \in Nat /\ elapsed' \in Nat /\ elapsed <= elapsed'
      /\ UNCHANGED <<session, challenge>>
  BY AnswersAssumption DEF TypeOK, Challenge, Tick, record
<1>2. session.asked \in Nat /\ session.failed \in Nat
  BY <1>1, CountsNat
<1>3. /\ GuessScore(elapsed, session.asked, session.failed) \in Nat
      /\ GuessScore(elapsed', session.asked, session.failed) \in Nat
      /\ GuessScore(elapsed', session.asked, session.failed)
            <= GuessScore(elapsed, session.asked, session.failed)
  <2>1. session.asked <= session.asked /\ session.failed <= session.failed
    BY <1>2
  <2>2. GuessScore(elapsed', session.asked, session.failed)
            <= GuessScore(elapsed, session.asked, session.failed)
    BY <1>1, <1>2, <2>1, ScoreMonotone
  <2>3. /\ GuessScore(elapsed, session.asked, session.failed) \in Nat
        /\ GuessScore(elapsed', session.asked, session.failed) \in Nat
    BY <1>1, <1>2, ScoreNat
  <2> QED BY <2>2, <2>3
<1>4. Worth' <= Worth /\ Worth' \in Nat /\ Worth \in Nat
  BY <1>1, <1>3 DEF Worth
<1>5. SUFFICES ASSUME session.pending, session.pendingCorrect
               PROVE  challenge.score >= Worth'
  BY <1>1 DEF WaitingIsFree
<1>6. challenge.score >= Worth
  BY <1>5 DEF WaitingIsFree
<1> QED BY <1>1, <1>4, <1>6

LEMMA OwedInjected ==
    ASSUME TypeOK, WaitingIsFree, NEW c \in Call, Injected(c)
    PROVE  WaitingIsFree'
<1>1. PICK o \in ChaosFailures(session) :
          /\ Write(o.session, witness, challenge) \/ WriteFails
          /\ Decided(c, "chaos")
  BY DEF Injected
<1>2. session \in SessionRecord /\ o.session \in SessionRecord
  BY <1>1, ChaosOutcome DEF TypeOK
<1>3. o.session = [session EXCEPT !.failed = @ + 1]
  BY <1>1 DEF ChaosFailures
<1>4. session.failed \in Nat /\ session.asked \in Nat
  BY <1>2, CountsNat
<1>5. /\ o.session.failed = session.failed + 1 /\ o.session.asked = session.asked
      /\ o.session.pending = session.pending
      /\ o.session.pendingCorrect = session.pendingCorrect
  BY <1>2, <1>3 DEF SessionRecord
<1>6. Follows(o.session)
  BY <1>4, <1>5 DEF Follows
<1>7. elapsed' = elapsed
  BY <1>1 DEF Decided, world
<1> QED BY <1>1, <1>2, <1>6, <1>7, OwedFollows, OwedWrite

LEMMA RecordedFollows ==
    ASSUME NEW sess \in SessionRecord, NEW q \in Question, NEW e
    PROVE  /\ Recorded(sess, q, e).pending = sess.pending
           /\ Recorded(sess, q, e).pendingCorrect = sess.pendingCorrect
           /\ sess.asked <= Recorded(sess, q, e).asked
           /\ Recorded(sess, q, e).failed = sess.failed
<1>1. sess.asked \in Nat
  BY CountsNat
<1>2. CASE sess.encrypted[q] # "none"
  BY <1>1, <1>2 DEF Recorded
<1>3. CASE sess.encrypted[q] = "none"
  BY <1>1, <1>3 DEF Recorded, SessionRecord
<1> QED BY <1>2, <1>3

LEMMA AskedFollows ==
    ASSUME NEW sess \in SessionRecord, NEW q \in Question, NEW o \in Asked(sess, q)
    PROVE  /\ o.session.pending = sess.pending
           /\ o.session.pendingCorrect = sess.pendingCorrect
           /\ sess.asked <= o.session.asked
           /\ o.session.failed = sess.failed
<1>1. CASE Stage = 2 \/ ~Filtered
  <2>1. o \in Answered(sess, q)
    BY <1>1 DEF Asked
  <2>2. PICK e \in Rolls(sess.encrypted[q], Filtered) : o.session = Recorded(sess, q, e)
    BY <2>1 DEF Answered
  <2> QED BY <2>2, RecordedFollows
<1>2. CASE ~(Stage = 2 \/ ~Filtered)
  <2>1. PICK b \in Rolls(sess.blocked[q], TRUE) :
           LET next == [sess EXCEPT !.blocked = [@ EXCEPT ![q] = b]]
           IN  o \in IF b = "yes" THEN {BlockedAnswer(next)} ELSE Answered(next, q)
    BY <1>2 DEF Asked
  <2> DEFINE blk == [sess.blocked EXCEPT ![q] = b]
             next == [sess EXCEPT !.blocked = blk]
  <2>2. blk \in [Question -> Decision]
    <3>1. sess.blocked[q] \in Decision
      BY DEF SessionRecord
    <3>2. b \in {"yes", "no"}
      BY <3>1, RollsType
    <3> QED BY <3>2 DEF SessionRecord, Decision
  <2>3. o \in IF b = "yes" THEN {BlockedAnswer(next)} ELSE Answered(next, q)
    BY <2>1
  <2> HIDE DEF blk
  <2>4. /\ next \in SessionRecord
        /\ next.pending = sess.pending /\ next.pendingCorrect = sess.pendingCorrect
        /\ next.asked = sess.asked /\ next.failed = sess.failed
    BY <2>2 DEF SessionRecord
  <2> HIDE DEF next
  <2>5. CASE b = "yes"
    <3>1. o.session = next /\ sess.asked \in Nat
      BY <2>3, <2>5, CountsNat DEF BlockedAnswer
    <3> QED BY <2>4, <3>1
  <2>6. CASE b # "yes"
    <3>1. PICK e \in Rolls(next.encrypted[q], Filtered) : o.session = Recorded(next, q, e)
      BY <2>3, <2>6 DEF Answered
    <3> QED BY <2>4, <3>1, RecordedFollows
  <2> QED BY <2>5, <2>6
<1> QED BY <1>1, <1>2

LEMMA CompletedFollows ==
    ASSUME NEW sess \in SessionRecord, NEW b \in BOOLEAN
    PROVE  /\ Completed(sess, b).pending = sess.pending
           /\ Completed(sess, b).pendingCorrect = sess.pendingCorrect
           /\ Completed(sess, b).asked = sess.asked
           /\ Completed(sess, b).failed = sess.failed
  BY DEF Completed, SessionRecord

(* A guess either leaves nothing pending or is withheld as it was made.    *)
LEMMA GuessedPending ==
    ASSUME NEW sess \in SessionRecord, ~sess.pending, NEW c \in Candidate,
           NEW o \in Guessed(sess, c)
    PROVE  \/ ~o.session.pending
           \/ /\ o.session.pendingCorrect = (c = sess.target)
              /\ o.session.asked = sess.asked /\ o.session.failed = sess.failed
<1> DEFINE next == [sess EXCEPT !.guessed = @ \cup {c}]
           correct == c = sess.target
           less == OneGuessLess(next)
<1>1. /\ next \in SessionRecord /\ ~next.pending
      /\ next.asked = sess.asked /\ next.failed = sess.failed
  BY DEF SessionRecord
<1>2. o = Solved(next) \/ o = Missed(next) \/ o = Withheld(next, correct)
  BY DEF Guessed
<1> HIDE DEF next
<1>3. CASE o = Solved(next)
  <2>1. o.session = Completed(next, TRUE)
    BY <1>3 DEF Solved
  <2> QED BY <1>1, <2>1, CompletedFollows
<1>4. CASE o = Missed(next)
  <2>1. o.session = Completed(less, FALSE) \/ o.session = less
    BY <1>4 DEF Missed
  <2>2. less \in SessionRecord /\ ~less.pending
    BY <1>1, OneGuessLessType DEF OneGuessLess, SessionRecord
  <2> HIDE DEF less
  <2>3. ~Completed(less, FALSE).pending
    BY <2>2, CompletedFollows
  <2> QED BY <2>1, <2>2, <2>3
<1>5. CASE o = Withheld(next, correct)
  <2> HIDE DEF correct
  <2>1. /\ o.session.pendingCorrect = correct
        /\ o.session.asked = next.asked /\ o.session.failed = next.failed
    BY <1>1, <1>5 DEF Withheld, SessionRecord
  <2> QED BY <1>1, <2>1 DEF correct
<1> QED BY <1>2, <1>3, <1>4, <1>5

LEMMA OwedService ==
    ASSUME TypeOK, WaitingIsFree, NEW c \in Call,
           AskQuestion(c) \/ SubmitGuess(c) \/ RevealTarget(c) \/ SubmitDecryption(c)
    PROVE  WaitingIsFree'
<1>1. session \in SessionRecord /\ challenge \in Challenge
  BY DEF TypeOK
<1>2. PICK result0 : Decided(c, result0)
  BY ServiceDecides
<1>3. elapsed' = elapsed
  BY <1>2 DEF Decided, world
<1>4. ASSUME NEW error, Refuse(c, error)
      PROVE  WaitingIsFree'
  BY <1>3, <1>4, OwedUnmoved DEF Refuse, record
<1>5. CASE Injected(c)
  BY <1>5, OwedInjected
<1>6. CASE WriteFails
  BY <1>3, <1>6, OwedUnmoved DEF WriteFails, record
<1>7. CASE AskQuestion(c)
  <2> DEFINE q == calls[c].request.question
  <2>1. q \in Question
    BY <1>7, OpenRequest, AskRequest DEF TypeOK, AskQuestion, Deciding
  <2>2. ASSUME NEW o \in Asked(session, q), ~session.completed, NEW wit,
               Write(o.session, wit, challenge)
        PROVE  WaitingIsFree'
    <3>1. o.session \in SessionRecord
      BY <1>1, <2>1, <2>2, AskedOutcome
    <3>2. Follows(o.session)
      <4>1. session.failed \in Nat
        BY <1>1, CountsNat
      <4> QED BY <1>1, <2>1, <2>2, <4>1, AskedFollows DEF Follows
    <3> QED BY <1>3, <2>2, <3>1, <3>2, OwedFollows, OwedWrite
  <2> QED BY <1>4, <1>5, <1>6, <1>7, <2>2 DEF AskQuestion
<1>8. CASE SubmitGuess(c)
  <2> DEFINE candidate == calls[c].request.candidate
             hit == candidate = session.target
  <2>1. candidate \in Candidate
    BY <1>8, OpenRequest, GuessRequest DEF TypeOK, SubmitGuess, Deciding
  <2>2. ASSUME NEW o \in Guessed(session, candidate), ~session.pending, NEW chal,
               chal = (IF o.session.pending
                       THEN [plaintext |-> {candidate}, score |-> ScorePending(hit)]
                       ELSE challenge),
               Write(o.session, witness, chal)
        PROVE  WaitingIsFree'
    <3>1. CASE ~o.session.pending
      BY <1>3, <2>2, <3>1, OwedWrite DEF Owed
    <3>2. CASE o.session.pending
      <4>1. /\ o.session.pendingCorrect = hit
            /\ o.session.asked = session.asked /\ o.session.failed = session.failed
        BY <1>1, <2>1, <2>2, <3>2, GuessedPending
      <4>2. chal.score = IF hit THEN Worth ELSE 0
        BY <2>2, <3>2 DEF ScorePending
      <4>3. Worth \in Nat
        BY WorthNat
      <4> HIDE DEF hit
      <4>4. Owed(o.session, chal)
        BY <4>1, <4>2, <4>3 DEF Owed, Worth
      <4> QED BY <1>3, <2>2, <4>4, OwedWrite
    <3> QED BY <3>1, <3>2
  <2> QED BY <1>4, <1>5, <1>6, <1>8, <2>2 DEF SubmitGuess
<1>9. CASE RevealTarget(c)
  <2>1. CASE Write(Revealed(session).session, witness, challenge)
    <3>1. Revealed(session).session = Completed(session, session.correct)
      BY DEF Revealed
    <3>2. session.correct \in BOOLEAN /\ session.asked \in Nat /\ session.failed \in Nat
      BY <1>1, CountsNat DEF SessionRecord
    <3>3. Follows(Revealed(session).session) /\ Revealed(session).session \in SessionRecord
      BY <1>1, <3>1, <3>2, CompletedFollows, CompletedFields DEF Follows
    <3> QED BY <1>3, <2>1, <3>3, OwedFollows, OwedWrite
  <2> QED BY <1>4, <1>5, <1>6, <1>9, <2>1 DEF RevealTarget
<1>10. CASE SubmitDecryption(c)
  <2>1. CASE session.pending /\ Write(DecipheredRecord(session), witness, NoChallenge)
    <3>1. ~DecipheredRecord(session).pending
      BY <1>1, <2>1, DecipheredOutcome
    <3> QED BY <1>3, <2>1, <3>1, OwedWrite DEF Owed
  <2> QED BY <1>4, <1>6, <1>10, <2>1 DEF SubmitDecryption
<1> QED BY <1>7, <1>8, <1>9, <1>10

LEMMA OwedStep ==
    ASSUME TypeOK, WaitingIsFree, [Next]_vars
    PROVE  WaitingIsFree'
<1>1. CASE UNCHANGED vars
  BY <1>1, OwedUnmoved DEF vars, record, world
<1>2. CASE Tick
  BY <1>2, OwedTick
<1>3. CASE Vanish
  BY <1>3, OwedUnmoved DEF Vanish, record
<1>4. ASSUME NEW c \in Call,
             \/ SendAsk(c) \/ SendGuess(c) \/ SendDecrypt(c) \/ SendReveal(c)
             \/ Contention(c) \/ NotFound(c) \/ Receive(c) \/ LoseResponse(c)
      PROVE  WaitingIsFree'
  BY <1>4, OwedUnmoved
     DEF SendAsk, SendGuess, SendDecrypt, SendReveal, Send, Contention, NotFound, Receive,
         LoseResponse, Finished, record, world
<1> QED BY <1>1, <1>2, <1>3, <1>4, OwedService DEF Next

LEMMA OwedInit == Init => WaitingIsFree
<1> SUFFICES ASSUME Init
             PROVE  WaitingIsFree
  OBVIOUS
<1>1. PICK target \in Candidate :
          session = [NewSession(target) EXCEPT !.asked = PriorAsked]
  BY DEF Init
<1> QED BY <1>1 DEF NewSession, WaitingIsFree

(* For every limit of the constants a withheld solve pays at least what it *)
(* would be worth at its decryption, and no later guess, question, failure *)
(* or second can change what is owed (PendingScore, CalculateScore).       *)
THEOREM WaitingCostsNothing == Spec => []WaitingIsFree
<1>1. Init => TypeOK /\ WaitingIsFree
  BY InitType, OwedInit
<1>2. TypeOK /\ WaitingIsFree /\ [Next]_vars => (TypeOK /\ WaitingIsFree)'
  BY NextType, OwedStep
<1> QED BY <1>1, <1>2, PTL DEF Spec

-----------------------------------------------------------------------------
(* The verdict that is told.                                               *)

Verdict(c, result) ==
    /\ calls[c].phase = "decided" /\ calls[c].request.op = "guess"
    /\ calls[c].result = result

(* While no write has failed, a solve leaves the session completed with    *)
(* nothing pending, for good; and while a decided guess is alone, what is  *)
(* pending is what that guess left.                                        *)
VerdictHeld ==
    badWrites = 0 =>
        \A c \in Call :
            /\ Verdict(c, "correct") => ~Winnable(session)
            /\ Verdict(c, "wrong") /\ c \notin crossed => ~session.pending
            /\ Verdict(c, "withheld") /\ c \notin crossed => session.pending

LEMMA VerdictReplies == VerdictHeld => VerdictTold
<1> SUFFICES ASSUME VerdictHeld, NEW c \in Call,
                    calls[c].phase = "decided", calls[c].request.op = "guess",
                    calls[c].result \in {"correct", "wrong", "withheld"},
                    stored, badWrites = 0
             PROVE  /\ GuessReply(calls[c].result) = "correct" <=> calls[c].result = "correct"
                    /\ c \notin crossed => GuessReply(calls[c].result) = calls[c].result
  BY DEF VerdictTold
<1>1. CASE calls[c].result = "correct"
  BY <1>1 DEF VerdictHeld, Verdict, Winnable, GuessReply
<1>2. CASE calls[c].result = "wrong"
  BY <1>2 DEF VerdictHeld, Verdict, GuessReply
<1>3. CASE calls[c].result = "withheld"
  BY <1>3 DEF VerdictHeld, Verdict, GuessReply
<1> QED BY <1>1, <1>2, <1>3

LEMMA VerdictUnmoved ==
    ASSUME VerdictHeld, UNCHANGED <<session, badWrites, calls, crossed>>
    PROVE  VerdictHeld'
  BY DEF VerdictHeld, Verdict, Winnable

LEMMA VerdictSend ==
    ASSUME TypeOK, VerdictHeld, NEW c \in Call, NEW r, Send(c, r)
    PROVE  VerdictHeld'
<1> DEFINE others == {d \in Call \ {c} : Open(d)}
<1>1. /\ UNCHANGED <<session, badWrites>>
      /\ calls' = [calls EXCEPT ![c] = [phase |-> "sent", request |-> r]]
      /\ crossed' = IF others = {} THEN crossed ELSE crossed \cup others \cup {c}
  BY DEF Send, record
<1>2. /\ calls'[c] = [phase |-> "sent", request |-> r]
      /\ \A d \in Call \ {c} : calls'[d] = calls[d]
  BY <1>1 DEF TypeOK
<1>3. crossed \subseteq crossed'
  BY <1>1
<1> QED BY <1>1, <1>2, <1>3 DEF VerdictHeld, Verdict, Winnable

LEMMA VerdictFinished ==
    ASSUME TypeOK, VerdictHeld, NEW c \in Call, Finished(c)
    PROVE  VerdictHeld'
<1>1. /\ UNCHANGED <<session, badWrites>> /\ crossed' = crossed \ {c}
      /\ calls' = [calls EXCEPT ![c] = Idle]
  BY DEF Finished, record
<1>2. calls'[c] = Idle /\ \A d \in Call \ {c} : calls'[d] = calls[d]
  BY <1>1 DEF TypeOK
<1>3. calls'[c].phase # "decided"
  BY <1>2 DEF Idle
<1> QED BY <1>1, <1>2, <1>3 DEF VerdictHeld, Verdict, Winnable

(* A decision on c: other requests that are open make every one of them    *)
(* crossed, so only a solve has to survive it; the verdict on c itself is  *)
(* what the session then says.                                             *)
LEMMA VerdictDecided ==
    ASSUME TypeOK, VerdictHeld, Alone, NEW c \in Call, calls[c].phase = "sent",
           NEW result, Decided(c, result),
           badWrites' = 0 => badWrites = 0,
           badWrites' = 0 => (Winnable(session') => Winnable(session)),
           badWrites' = 0 /\ calls[c].request.op = "guess" =>
              /\ result = "correct" => ~Winnable(session')
              /\ result = "wrong" => ~session'.pending
              /\ result = "withheld" => session'.pending
    PROVE  VerdictHeld'
<1>1. /\ crossed' = crossed
      /\ calls' = [calls EXCEPT ![c] = [phase   |-> "decided",
                                        request |-> calls[c].request,
                                        result  |-> result]]
  BY DEF Decided
<1>2. /\ calls'[c] = [phase |-> "decided", request |-> calls[c].request, result |-> result]
      /\ \A d \in Call \ {c} : calls'[d] = calls[d]
  BY <1>1 DEF TypeOK
<1>3. ASSUME badWrites' = 0, NEW d \in Call \ {c}
      PROVE  /\ Verdict(d, "correct")' => ~Winnable(session')
             /\ Verdict(d, "wrong")' => d \in crossed
             /\ Verdict(d, "withheld")' => d \in crossed
  <2>1. Open(d)' => d \in crossed
    BY <1>2 DEF Alone, Open
  <2>2. Verdict(d, "correct")' => Verdict(d, "correct")
    BY <1>2 DEF Verdict
  <2>3. Verdict(d, "correct")' => ~Winnable(session')
    BY <1>3, <2>2 DEF VerdictHeld
  <2>4. \A res : Verdict(d, res)' => Open(d)'
    BY DEF Verdict, Open
  <2> QED BY <2>1, <2>3, <2>4
<1>4. ASSUME badWrites' = 0
      PROVE  /\ Verdict(c, "correct")' => ~Winnable(session')
             /\ Verdict(c, "wrong")' => ~session'.pending
             /\ Verdict(c, "withheld")' => session'.pending
  BY <1>2, <1>4 DEF Verdict
<1>5. ASSUME badWrites' = 0, NEW d \in Call
      PROVE  /\ Verdict(d, "correct")' => ~Winnable(session')
             /\ Verdict(d, "wrong")' /\ d \notin crossed => ~session'.pending
             /\ Verdict(d, "withheld")' /\ d \notin crossed => session'.pending
  <2>1. CASE d = c
    BY <1>4, <1>5, <2>1
  <2>2. CASE d # c
    BY <1>3, <1>5, <2>2
  <2> QED BY <2>1, <2>2
<1>6. Winnable(session)' <=> Winnable(session')
  BY DEF Winnable
<1> QED BY <1>1, <1>5, <1>6 DEF VerdictHeld

LEMMA WriteCounts ==
    ASSUME TypeOK, NEW sess, NEW wit, NEW chal, Write(sess, wit, chal) \/ WriteFails
    PROVE  badWrites' = 0 => badWrites = 0 /\ session' = sess
<1>1. badWrites \in Nat
  BY AnswersAssumption DEF TypeOK
<1> QED BY <1>1 DEF Write, WriteFails

LEMMA VerdictWriting ==
    ASSUME TypeOK, VerdictHeld, Alone, NEW c \in Call, calls[c].phase = "sent",
           NEW result, Decided(c, result),
           NEW sess, NEW wit, NEW chal, Write(sess, wit, chal) \/ WriteFails,
           Winnable(sess) => Winnable(session),
           calls[c].request.op = "guess" =>
              /\ result = "correct" => ~Winnable(sess)
              /\ result = "wrong" => ~sess.pending
              /\ result = "withheld" => sess.pending
    PROVE  VerdictHeld'
<1>1. badWrites' = 0 => badWrites = 0 /\ session' = sess
  BY WriteCounts
<1> QED BY <1>1, VerdictDecided

LEMMA VerdictRefuse ==
    ASSUME TypeOK, VerdictHeld, Alone, NEW c \in Call, calls[c].phase = "sent",
           NEW error, Refuse(c, error), error \notin {"correct", "wrong", "withheld"}
    PROVE  VerdictHeld'
<1>1. UNCHANGED <<session, badWrites>>
  BY DEF Refuse, record
<1> QED BY <1>1, VerdictDecided DEF Refuse

LEMMA VerdictInjected ==
    ASSUME TypeOK, VerdictHeld, Alone, NEW c \in Call, calls[c].phase = "sent", Injected(c)
    PROVE  VerdictHeld'
<1>1. PICK o \in ChaosFailures(session) :
          /\ Write(o.session, witness, challenge) \/ WriteFails
          /\ Decided(c, "chaos")
  BY DEF Injected
<1>2. Winnable(o.session) => Winnable(session)
  BY <1>1, ChaosOutcome DEF TypeOK, Winnable
<1> QED BY <1>1, <1>2, VerdictWriting

LEMMA VerdictService ==
    ASSUME TypeOK, VerdictHeld, Alone, NEW c \in Call,
           AskQuestion(c) \/ SubmitGuess(c) \/ RevealTarget(c) \/ SubmitDecryption(c)
    PROVE  VerdictHeld'
<1>1. session \in SessionRecord /\ calls[c].phase = "sent"
  BY ServiceDecides DEF TypeOK
<1>2. CASE AskQuestion(c)
  <2>1. calls[c].request.op # "guess"
    BY <1>2 DEF AskQuestion, Deciding
  <2>2. CASE Refuse(c, "completed") \/ Injected(c)
    BY <1>1, <2>2, VerdictRefuse, VerdictInjected
  <2>3. ASSUME ~session.completed, NEW result, Decided(c, result),
               NEW sess, NEW wit, Write(sess, wit, challenge) \/ WriteFails
        PROVE  VerdictHeld'
    BY <1>1, <2>1, <2>3, VerdictWriting DEF Winnable
  <2> QED BY <1>2, <2>2, <2>3 DEF AskQuestion
<1>3. CASE SubmitGuess(c)
  <2> DEFINE candidate == calls[c].request.candidate
             hit == candidate = session.target
  <2>1. CASE \/ Refuse(c, "completed") \/ Refuse(c, "pending_decryption")
             \/ Refuse(c, "no_guesses_remaining") \/ Injected(c)
    BY <1>1, <2>1, VerdictRefuse, VerdictInjected
  <2>2. ASSUME ~session.completed, NEW o \in Guessed(session, candidate), NEW chal,
               Write(o.session, witness, chal) \/ WriteFails,
               Decided(c, IF o.session.pending THEN "withheld"
                          ELSE IF hit THEN "correct" ELSE "wrong")
        PROVE  VerdictHeld'
    <3>1. Winnable(session)
      BY <2>2 DEF Winnable
    <3>2. CASE o.session.pending
      <4>1. Decided(c, "withheld")
        BY <2>2, <3>2
      <4> QED BY <1>1, <2>2, <3>1, <3>2, <4>1, VerdictWriting
    <3>3. CASE ~o.session.pending /\ hit
      <4>1. Decided(c, "correct") /\ ~Winnable(o.session)
        BY <1>1, <2>2, <3>3, GuessedSolve DEF Winnable
      <4> QED BY <1>1, <2>2, <3>1, <4>1, VerdictWriting
    <3>4. CASE ~o.session.pending /\ ~hit
      <4>1. Decided(c, "wrong")
        BY <2>2, <3>4
      <4> QED BY <1>1, <2>2, <3>1, <3>4, <4>1, VerdictWriting
    <3> QED BY <3>2, <3>3, <3>4
  <2> QED BY <1>3, <2>1, <2>2 DEF SubmitGuess
<1>4. CASE RevealTarget(c)
  <2>1. calls[c].request.op # "guess"
    BY <1>4 DEF RevealTarget, Deciding
  <2>2. CASE \/ Refuse(c, "revealed") \/ Refuse(c, "insufficient_questions")
             \/ Injected(c)
    BY <1>1, <2>2, VerdictRefuse, VerdictInjected
  <2>3. CASE /\ ~session.completed
             /\ Write(Revealed(session).session, witness, challenge) \/ WriteFails
             /\ Decided(c, "revealed")
    BY <1>1, <2>1, <2>3, VerdictWriting DEF Winnable
  <2> QED BY <1>4, <2>2, <2>3 DEF RevealTarget
<1>5. CASE SubmitDecryption(c)
  <2>1. calls[c].request.op # "guess"
    BY <1>5 DEF SubmitDecryption, Deciding
  <2>2. CASE \/ Refuse(c, "no_pending_decryption") \/ Refuse(c, "wrong_decryption")
             \/ Refuse(c, "wrong_witness_key")
    BY <1>1, <2>2, VerdictRefuse
  <2>3. ASSUME session.pending, NEW result, Decided(c, result),
               Write(DecipheredRecord(session), witness, NoChallenge) \/ WriteFails
        PROVE  VerdictHeld'
    BY <1>1, <2>1, <2>3, VerdictWriting DEF Winnable
  <2> QED BY <1>5, <2>2, <2>3 DEF SubmitDecryption
<1> QED BY <1>2, <1>3, <1>4, <1>5

LEMMA VerdictStep ==
    ASSUME TypeOK, VerdictHeld, Alone, [Next]_vars
    PROVE  VerdictHeld'
<1>1. CASE UNCHANGED vars
  BY <1>1, VerdictUnmoved DEF vars, record, observed
<1>2. CASE Tick \/ Vanish
  BY <1>2, VerdictUnmoved DEF Tick, Vanish, record, observed
<1>3. ASSUME NEW c \in Call,
             SendAsk(c) \/ SendGuess(c) \/ SendDecrypt(c) \/ SendReveal(c)
      PROVE  VerdictHeld'
  BY <1>3, VerdictSend DEF SendAsk, SendGuess, SendDecrypt, SendReveal
<1>4. ASSUME NEW c \in Call,
             Contention(c) \/ NotFound(c) \/ Receive(c) \/ LoseResponse(c)
      PROVE  VerdictHeld'
  BY <1>4, VerdictFinished DEF Contention, NotFound, Receive, LoseResponse
<1> QED BY <1>1, <1>2, <1>3, <1>4, VerdictService DEF Next

LEMMA VerdictInit == Init => VerdictHeld
<1> SUFFICES ASSUME Init
             PROVE  VerdictHeld
  OBVIOUS
<1>1. \A c \in Call : calls[c].phase # "decided"
  BY DEF Init, Idle
<1> QED BY <1>1 DEF VerdictHeld, Verdict

(* As long as no write of the session fails, the second, unlocked read of  *)
(* the guess handler never turns a solve into anything else nor anything   *)
(* else into a solve, and never changes the verdict of a guess that was    *)
(* the only request open - for any number of requests (Guess handler).     *)
THEOREM VerdictSurvives == Spec => []VerdictTold
<1>1. Init => TypeOK /\ KeyInv /\ HonestInv /\ VerdictHeld
  BY InitType, KeyInit, HonestInit, VerdictInit
<1>2. TypeOK /\ KeyInv /\ HonestInv /\ VerdictHeld /\ [Next]_vars
         => (TypeOK /\ KeyInv /\ HonestInv /\ VerdictHeld)'
  BY NextType, KeyStep, KeyInvLog, HonestStep, VerdictStep DEF HonestInv
<1> QED BY <1>1, <1>2, VerdictReplies, PTL DEF Spec
=============================================================================
