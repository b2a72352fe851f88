-------------------------- MODULE SessionRules_proof --------------------------
(* What the rules of a session return: proofs about module SessionRules. *)
EXTENDS SessionRules, TLAPS

LEMMA RefusedType ==
    ASSUME NEW sess \in SessionRecord
    PROVE  Refused(sess) \in Outcome
  BY DEF Refused, Outcome

LEMMA NewSessionType ==
    ASSUME NEW c \in Candidate
    PROVE  NewSession(c) \in SessionRecord
<1> DEFINE none == [q \in Question |-> "none"]
<1>1. none \in [Question -> Decision]
  BY DEF Decision
<1>2. GuessLimit \in 0 .. GuessLimit /\ 0 \in 0 .. MaxFailed
  BY RulesAssumption
<1> HIDE DEF none
<1>3. [target |-> c, asked |-> 0, encrypted |-> none, blocked |-> none,
       guesses |-> GuessLimit, guessed |-> {}, failed |-> 0, completed |-> FALSE,
       correct |-> FALSE, pending |-> FALSE, pendingCorrect |-> FALSE,
       pendingKey |-> {}] \in SessionRecord
  BY <1>1, <1>2 DEF SessionRecord
<1> QED BY <1>3 DEF NewSession, none

LEMMA ChaosType ==
    ASSUME NEW sess \in SessionRecord
    PROVE  ChaosFailures(sess) \subseteq Outcome
<1> USE RulesAssumption
<1>1. CASE sess.failed < MaxFailed
  <2>1. [sess EXCEPT !.failed = @ + 1] \in SessionRecord
    BY <1>1 DEF SessionRecord
  <2>2. {"write"} \in SUBSET Effect
    BY DEF Effect
  <2> QED BY <1>1, <2>1, <2>2 DEF ChaosFailures, Outcome
<1>2. CASE ~(sess.failed < MaxFailed)
  BY <1>2 DEF ChaosFailures
<1> QED BY <1>1, <1>2

LEMMA CompletedType ==
    ASSUME NEW sess \in SessionRecord, NEW b \in BOOLEAN
    PROVE  Completed(sess, b) \in SessionRecord
  BY DEF Completed, SessionRecord

LEMMA OneGuessLessType ==
    ASSUME NEW sess \in SessionRecord
    PROVE  OneGuessLess(sess) \in SessionRecord
  BY RulesAssumption DEF OneGuessLess, SessionRecord

LEMMA RecordedType ==
    ASSUME NEW sess \in SessionRecord, NEW q \in Question, NEW e \in {"yes", "no"}
    PROVE  Recorded(sess, q, e) \in SessionRecord
<1>1. CASE sess.encrypted[q] # "none"
  BY <1>1 DEF Recorded
<1>2. CASE sess.encrypted[q] = "none"
  <2> DEFINE enc == [sess.encrypted EXCEPT ![q] = e]
  <2>1. enc \in [Question -> Decision]
    BY DEF SessionRecord, Decision
  <2>2. Recorded(sess, q, e) = [sess EXCEPT !.asked = sess.asked + 1, !.encrypted = enc]
    BY <1>2 DEF Recorded
  <2>3. sess.asked + 1 \in Nat
    BY DEF SessionRecord
  <2> HIDE DEF enc
  <2>4. \A n \in Nat : [sess EXCEPT !.asked = n, !.encrypted = enc] \in SessionRecord
    BY <2>1 DEF SessionRecord
  <2> QED BY <2>2, <2>3, <2>4
<1> QED BY <1>1, <1>2

LEMMA RollsType ==
    ASSUME NEW d \in Decision, NEW b \in BOOLEAN
    PROVE  Rolls(d, b) \subseteq {"yes", "no"}
  BY DEF Rolls, Decision

LEMMA AnsweredType ==
    ASSUME NEW sess \in SessionRecord, NEW q \in Question
    PROVE  Answered(sess, q) \subseteq Outcome
<1>1. Rolls(sess.encrypted[q], Filtered) \subseteq {"yes", "no"}
  <2>1. sess.encrypted[q] \in Decision /\ Filtered \in BOOLEAN
    BY DEF SessionRecord, Filtered
  <2> QED BY <2>1, RollsType
<1>2. \A s, w : {"write"} \cup AskMilestones(s, w) \subseteq Effect
  BY DEF AskMilestones, Effect, Milestone
<1>3. \A e \in {"yes", "no"} : Recorded(sess, q, e) \in SessionRecord
  BY RecordedType
<1> QED BY <1>1, <1>2, <1>3 DEF Answered, Outcome

LEMMA AskType ==
    ASSUME NEW sess \in SessionRecord
    PROVE  AskOutcomes(sess) \subseteq Outcome
<1>1. ASSUME NEW q \in Question
      PROVE  Asked(sess, q) \subseteq Outcome
  <2>1. Answered(sess, q) \subseteq Outcome
    BY AnsweredType
  <2>2. ASSUME NEW b \in {"yes", "no"}
        PROVE  /\ Answered([sess EXCEPT !.blocked = [@ EXCEPT ![q] = b]], q) \subseteq Outcome
               /\ BlockedAnswer([sess EXCEPT !.blocked = [@ EXCEPT ![q] = b]]) \in Outcome
    <3>1. [sess EXCEPT !.blocked = [@ EXCEPT ![q] = b]] \in SessionRecord
      <4>1. [sess.blocked EXCEPT ![q] = b] \in [Question -> Decision]
        BY DEF SessionRecord, Decision
      <4> QED BY <4>1 DEF SessionRecord
    <3>2. {"write"} \in SUBSET Effect
      BY DEF Effect
    <3> QED BY <3>1, <3>2, AnsweredType DEF BlockedAnswer, Outcome
  <2>3. Rolls(sess.blocked[q], TRUE) \subseteq {"yes", "no"}
    <3>1. sess.blocked[q] \in Decision
      BY DEF SessionRecord
    <3> QED BY <3>1, RollsType
  <2> QED BY <2>1, <2>2, <2>3 DEF Asked
<1> QED BY <1>1, RefusedType, ChaosType DEF AskOutcomes

LEMMA GuessType ==
    ASSUME NEW sess \in SessionRecord
    PROVE  GuessOutcomes(sess) \subseteq Outcome
<1> USE RulesAssumption
<1>1. ASSUME NEW c \in Candidate
      PROVE  Guessed(sess, c) \subseteq Outcome
  <2> DEFINE next == [sess EXCEPT !.guessed = @ \cup {c}]
  <2>1. next \in SessionRecord
    BY DEF SessionRecord
  <2> HIDE DEF next
  <2>2. Solved(next) \in Outcome
    <3>1. Completed(next, TRUE) \in SessionRecord
      BY <2>1, CompletedType
    <3>2. Solved(next).todo \subseteq Effect
      BY DEF Solved, Effect, Milestone
    <3>3. SolveScore \in Int
    OBVIOUS
    <3> QED BY <3>1, <3>2, <3>3 DEF Solved, Outcome
  <2>3. Missed(next) \in Outcome
    <3>1. OneGuessLess(next) \in SessionRecord
      BY <2>1, OneGuessLessType
    <3>2. Completed(OneGuessLess(next), FALSE) \in SessionRecord
      BY <3>1, CompletedType
    <3>3. Missed(next).todo \subseteq Effect
      BY DEF Missed, Effect, Milestone
    <3>4. -WrongGuessPenalty \in Int
      BY DEF WrongGuessPenalty
    <3> QED BY <3>1, <3>2, <3>3, <3>4 DEF Missed, Outcome
  <2>4. ASSUME NEW b \in BOOLEAN
        PROVE  Withheld(next, b) \in Outcome
    <3>1. WitnessKey(next) \in SUBSET Question
      BY DEF WitnessKey
    <3>2. {"write"} \in SUBSET Effect
      BY DEF Effect
    <3>3. Withheld(next, b).session \in SessionRecord
      <4> DEFINE key == WitnessKey(next)
      <4> HIDE DEF key
      <4>1. [next EXCEPT !.pending = TRUE, !.pendingCorrect = b, !.pendingKey = key]
               \in SessionRecord
        BY <2>1, <3>1 DEF SessionRecord, key
      <4> QED BY <4>1 DEF Withheld, key
    <3> QED BY <3>2, <3>3 DEF Withheld, Outcome
  <2> QED BY <2>2, <2>3, <2>4 DEF Guessed, next
<1> QED BY <1>1, RefusedType, ChaosType DEF GuessOutcomes

LEMMA RevealType ==
    ASSUME NEW sess \in SessionRecord
    PROVE  RevealOutcomes(sess) \subseteq Outcome
<1>1. Revealed(sess) \in Outcome
  <2>1. Completed(sess, sess.correct) \in SessionRecord
    BY CompletedType DEF SessionRecord
  <2>2. {"score", "board", "write", "clear", "remove"} \in SUBSET Effect
    BY DEF Effect
  <2>3. -RevealPenalty \in Int
    BY DEF RevealPenalty
  <2> QED BY <2>1, <2>2, <2>3 DEF Revealed, Outcome
<1> QED BY <1>1, RefusedType, ChaosType DEF RevealOutcomes

LEMMA DecryptType ==
    ASSUME NEW sess \in SessionRecord
    PROVE  DecryptOutcomes(sess) \subseteq Outcome
<1> USE RulesAssumption
<1> DEFINE next == NoPending(sess)
<1>1. next \in SessionRecord
  BY DEF NoPending, SessionRecord
<1> HIDE DEF next
<1>2. Deciphered(next) \in Outcome
  <2>1. Completed(next, TRUE) \in SessionRecord
    BY <1>1, CompletedType
  <2>2. Deciphered(next).todo \subseteq Effect
    BY DEF Deciphered, Effect, Milestone
  <2>3. SolveScore + DecryptionBonus \in Int
    BY DEF DecryptionBonus
  <2> QED BY <2>1, <2>2, <2>3 DEF Deciphered, Outcome
<1>3. DecipheredMiss(next) \in Outcome
  <2>1. OneGuessLess(next) \in SessionRecord
    BY <1>1, OneGuessLessType
  <2>2. Completed(OneGuessLess(next), FALSE) \in SessionRecord
    BY <2>1, CompletedType
  <2>3. DecipheredMiss(next).todo \subseteq Effect
    BY DEF DecipheredMiss, Effect, Milestone
  <2>4. -WrongGuessPenalty \in Int
    BY DEF WrongGuessPenalty
  <2> QED BY <2>1, <2>2, <2>3, <2>4 DEF DecipheredMiss, Outcome
<1> QED BY <1>2, <1>3, RefusedType DEF DecryptOutcomes, next

-----------------------------------------------------------------------------
(* Which outcomes credit a solve.  Only an open session, or one that waits *)
(* for its decryption, is credited, and the record stored before the       *)
(* credit is completed and waits for nothing; a session that is completed  *)
(* and waits for nothing stays so.                                         *)

Closed(sess) == sess.completed /\ ~sess.pending

CreditsOnlyOpen(sess, out) ==
    "stats" \in out.todo =>
        /\ ~Closed(sess) /\ Closed(out.session) /\ "write" \in out.todo

KeepsClosed(sess, out) ==
    "write" \in out.todo /\ Closed(sess) => Closed(out.session)

LEMMA ChaosCredits ==
    ASSUME NEW sess \in SessionRecord, NEW out \in ChaosFailures(sess)
    PROVE  "stats" \notin out.todo /\ KeepsClosed(sess, out)
  BY DEF ChaosFailures, SessionRecord, KeepsClosed, Closed

LEMMA AskCredits ==
    ASSUME NEW sess \in SessionRecord, NEW out \in AskOutcomes(sess)
    PROVE  "stats" \notin out.todo /\ KeepsClosed(sess, out)
<1>1. CASE out = Refused(sess)
  BY <1>1 DEF Refused, KeepsClosed
<1>2. CASE out \in ChaosFailures(sess)
  BY <1>2, ChaosCredits
<1>3. CASE ~sess.completed /\ \E q \in Question : out \in Asked(sess, q)
  <2>1. KeepsClosed(sess, out)
    BY <1>3 DEF KeepsClosed, Closed
  <2>2. \A s, q : \A a \in Answered(s, q) : "stats" \notin a.todo
    BY DEF Answered, AskMilestones
  <2>3. \A s : "stats" \notin BlockedAnswer(s).todo
    BY DEF BlockedAnswer
  <2>4. PICK q \in Question : out \in Asked(sess, q)
    BY <1>3
  <2>5. "stats" \notin out.todo
    <3> DEFINE blockedBy(b) == [sess EXCEPT !.blocked = [@ EXCEPT ![q] = b]]
    <3> HIDE DEF blockedBy
    <3>1. \/ out \in Answered(sess, q)
          \/ \E b \in Rolls(sess.blocked[q], TRUE) :
                out \in IF b = "yes" THEN {BlockedAnswer(blockedBy(b))}
                                     ELSE Answered(blockedBy(b), q)
      BY <2>4 DEF Asked, blockedBy
    <3> QED BY <3>1, <2>2, <2>3
  <2> QED BY <2>1, <2>5
<1> QED BY <1>1, <1>2, <1>3 DEF AskOutcomes

LEMMA GuessCredits ==
    ASSUME NEW sess \in SessionRecord, NEW out \in GuessOutcomes(sess)
    PROVE  CreditsOnlyOpen(sess, out) /\ KeepsClosed(sess, out)
<1>1. CASE out = Refused(sess)
  BY <1>1 DEF Refused, KeepsClosed, CreditsOnlyOpen
<1>2. CASE out \in ChaosFailures(sess)
  BY <1>2, ChaosCredits DEF CreditsOnlyOpen
<1>3. CASE /\ ~sess.completed /\ ~sess.pending
           /\ \E c \in Candidate : out \in Guessed(sess, c)
  <2>1. PICK c \in Candidate : out \in Guessed(sess, c)
    BY <1>3
  <2> DEFINE next == [sess EXCEPT !.guessed = @ \cup {c}]
  <2>2. next \in SessionRecord /\ ~next.pending
    BY <1>3 DEF SessionRecord
  <2> HIDE DEF next
  <2>3. "stats" \in Solved(next).todo /\ "write" \in Solved(next).todo
    BY DEF Solved
  <2>4. Closed(Solved(next).session)
    BY <2>2 DEF Solved, Completed, Closed, SessionRecord
  <2>5. "stats" \notin Missed(next).todo
    BY DEF Missed
  <2>6. \A b : "stats" \notin Withheld(next, b).todo
    BY DEF Withheld
  <2>7. out = Solved(next) \/ out = Missed(next) \/ \E b \in BOOLEAN : out = Withheld(next, b)
    BY <2>1 DEF Guessed, next
  <2> QED BY <1>3, <2>3, <2>4, <2>5, <2>6, <2>7
          DEF CreditsOnlyOpen, KeepsClosed, Closed
<1> QED BY <1>1, <1>2, <1>3 DEF GuessOutcomes

LEMMA RevealCredits ==
    ASSUME NEW sess \in SessionRecord, NEW out \in RevealOutcomes(sess)
    PROVE  "stats" \notin out.todo /\ KeepsClosed(sess, out)
<1>1. CASE out = Refused(sess)
  BY <1>1 DEF Refused, KeepsClosed
<1>2. CASE out \in ChaosFailures(sess)
  BY <1>2, ChaosCredits
<1>3. CASE ~sess.completed /\ out = Revealed(sess)
  BY <1>3 DEF Revealed, KeepsClosed, Closed
<1> QED BY <1>1, <1>2, <1>3 DEF RevealOutcomes

LEMMA DecryptCredits ==
    ASSUME NEW sess \in SessionRecord, NEW out \in DecryptOutcomes(sess)
    PROVE  CreditsOnlyOpen(sess, out) /\ KeepsClosed(sess, out)
<1> DEFINE next == NoPending(sess)
<1>1. CASE out = Refused(sess)
  BY <1>1 DEF Refused, KeepsClosed, CreditsOnlyOpen
<1>2. CASE sess.pending /\ out = Deciphered(next)
  <2>1. next \in SessionRecord /\ ~next.pending
    BY DEF NoPending, SessionRecord
  <2> HIDE DEF next
  <2>2. Closed(Deciphered(next).session) /\ "write" \in Deciphered(next).todo
    BY <2>1 DEF Deciphered, Completed, Closed, SessionRecord
  <2> QED BY <1>2, <2>2 DEF CreditsOnlyOpen, KeepsClosed, Closed
<1>3. CASE sess.pending /\ out = DecipheredMiss(next)
  <2>1. "stats" \notin DecipheredMiss(next).todo
    BY DEF DecipheredMiss
  <2> QED BY <1>3, <2>1 DEF CreditsOnlyOpen, KeepsClosed, Closed
<1> QED BY <1>1, <1>2, <1>3 DEF DecryptOutcomes
-----------------------------------------------------------------------------
(* What a request may change in a record.  RecordStep says which fields     *)
(* each handler can touch, and how, on an open, a waiting or a completed    *)
(* session; HandlersStep below shows that the rules allow nothing else.     *)

\* An answer, a block or neither: the decisions taken for q so far stay, and
\* the question is counted with its first decision on encryption.
AskStep(r, n) ==
    /\ ~r.completed /\ ~n.completed /\ n.correct = r.correct
    /\ n.target = r.target /\ n.guessed = r.guessed /\ n.guesses = r.guesses
    /\ n.failed = r.failed
    /\ n.pending = r.pending /\ n.pendingCorrect = r.pendingCorrect
    /\ n.pendingKey = r.pendingKey
    /\ \E q \in Question :
          /\ \A x \in Question \ {q} : /\ n.encrypted[x] = r.encrypted[x]
                                       /\ n.blocked[x] = r.blocked[x]
          /\ r.encrypted[q] # "none" => n.encrypted[q] = r.encrypted[q]
          /\ r.blocked[q] # "none" => n.blocked[q] = r.blocked[q]
          /\ IF r.encrypted[q] = "none" /\ n.encrypted[q] # "none"
             THEN n.asked = r.asked + 1
             ELSE n.asked = r.asked

SameAnswers(r, n) ==
    /\ n.target = r.target /\ n.asked = r.asked
    /\ n.encrypted = r.encrypted /\ n.blocked = r.blocked

\* A guess is solved, withheld (Stage 2) or missed.
GuessStep(r, n) ==
    /\ ~r.completed /\ ~r.pending /\ SameAnswers(r, n)
    /\ \E c \in Candidate :
          /\ n.guessed = r.guessed \cup {c}
          /\ \/ c = r.target /\ n.completed /\ n.correct /\ ~n.pending
             \/ c # r.target /\ ~n.correct /\ n.completed /\ ~n.pending
             \/ c # r.target /\ n.correct = r.correct /\ ~n.completed /\ ~n.pending
             \/ /\ Stage = 2 /\ n.pending /\ n.pendingCorrect = (c = r.target)
                /\ ~n.completed /\ n.correct = r.correct

\* A withheld guess is resolved; a session already completed stays so.
DecryptStep(r, n) ==
    /\ Stage = 2 /\ r.pending /\ ~n.pending /\ SameAnswers(r, n)
    /\ n.guessed = r.guessed
    /\ \/ r.pendingCorrect /\ n.completed /\ n.correct
       \/ /\ ~r.pendingCorrect
          /\ \/ n.completed /\ ~n.correct
             \/ n.completed = r.completed /\ n.correct = r.correct

ChaosStep(r, n) == n = [r EXCEPT !.failed = r.failed + 1]

RevealStep(r, n) == ~r.completed /\ n = [r EXCEPT !.completed = TRUE]

RecordStep(r, n) ==
    \/ n = r \/ ChaosStep(r, n) \/ AskStep(r, n)
    \/ GuessStep(r, n) \/ RevealStep(r, n) \/ DecryptStep(r, n)

LEMMA ChaosSteps ==
    ASSUME NEW r \in SessionRecord, NEW out \in ChaosFailures(r)
    PROVE  ChaosStep(r, out.session)
<1>1. r.failed < MaxFailed
  BY DEF ChaosFailures
<1>2. out = [session |-> [r EXCEPT !.failed = @ + 1], todo |-> {"write"}, points |-> 0]
  BY <1>1 DEF ChaosFailures
<1> QED BY <1>2 DEF ChaosStep

\* One answered question, on a record whose block was just decided.
LEMMA AnsweredSteps ==
    ASSUME NEW r \in SessionRecord, ~r.completed, NEW q \in Question,
           NEW b \in SessionRecord, b.encrypted = r.encrypted,
           \A f \in Question \ {q} : b.blocked[f] = r.blocked[f],
           r.blocked[q] # "none" => b.blocked[q] = r.blocked[q],
           /\ b.asked = r.asked /\ b.completed = r.completed
           /\ b.correct = r.correct /\ b.target = r.target
           /\ b.guessed = r.guessed /\ b.guesses = r.guesses
           /\ b.failed = r.failed /\ b.pending = r.pending
           /\ b.pendingCorrect = r.pendingCorrect /\ b.pendingKey = r.pendingKey,
           NEW out \in Answered(b, q)
    PROVE  AskStep(r, out.session)
<1>1. PICK e \in Rolls(b.encrypted[q], Filtered) : out.session = Recorded(b, q, e)
  BY DEF Answered
<1>2. e \in {"yes", "no"}
  <2>1. b.encrypted[q] \in Decision /\ Filtered \in BOOLEAN
    BY DEF SessionRecord, Filtered
  <2> QED BY <2>1, <1>1, RollsType
<1>3. CASE b.encrypted[q] # "none"
  <2>1. out.session = b
    BY <1>1, <1>3 DEF Recorded
  <2> QED BY <1>3, <2>1 DEF AskStep
<1>4. CASE b.encrypted[q] = "none"
  <2> DEFINE n == out.session
  <2>1. n = [b EXCEPT !.asked = @ + 1, !.encrypted = [@ EXCEPT ![q] = e]]
    BY <1>1, <1>4 DEF Recorded
  <2>2. /\ n.asked = b.asked + 1 /\ n.encrypted = [b.encrypted EXCEPT ![q] = e]
        /\ n.blocked = b.blocked /\ n.completed = b.completed
        /\ n.correct = b.correct /\ n.target = b.target /\ n.guessed = b.guessed
        /\ n.guesses = b.guesses /\ n.failed = b.failed /\ n.pending = b.pending
        /\ n.pendingCorrect = b.pendingCorrect /\ n.pendingKey = b.pendingKey
    BY <2>1 DEF SessionRecord
  <2>3. b.encrypted \in [Question -> Decision]
    BY DEF SessionRecord
  <2>4. n.encrypted[q] = e /\ \A f \in Question \ {q} : n.encrypted[f] = b.encrypted[f]
    BY <2>2, <2>3
  <2> HIDE DEF n
  <2>5. AskStep(r, n)
    BY <1>2, <1>4, <2>2, <2>4 DEF AskStep
  <2> QED BY <2>5 DEF n
<1> QED BY <1>3, <1>4

LEMMA AskSteps ==
    ASSUME NEW r \in SessionRecord, NEW out \in AskOutcomes(r)
    PROVE  RecordStep(r, out.session)
<1>1. CASE out = Refused(r)
  BY <1>1 DEF Refused, RecordStep
<1>2. CASE out \in ChaosFailures(r)
  BY <1>2, ChaosSteps DEF RecordStep
<1>3. CASE ~r.completed /\ \E q \in Question : out \in Asked(r, q)
  <2>1. PICK q \in Question : out \in Asked(r, q)
    BY <1>3
  <2>2. CASE out \in Answered(r, q)
    BY <1>3, <2>2, AnsweredSteps DEF RecordStep
  <2>3. CASE out \notin Answered(r, q)
    <3>1. PICK b \in Rolls(r.blocked[q], TRUE) :
             LET next == [r EXCEPT !.blocked = [@ EXCEPT ![q] = b]]
             IN  out \in IF b = "yes" THEN {BlockedAnswer(next)} ELSE Answered(next, q)
      BY <2>1, <2>3 DEF Asked
    <3>2. PICK next : /\ next = [r EXCEPT !.blocked = [@ EXCEPT ![q] = b]]
                      /\ out = BlockedAnswer(next) \/ out \in Answered(next, q)
      BY <3>1
    <3>3. b \in {"yes", "no"} /\ (r.blocked[q] # "none" => b = r.blocked[q])
      <4>1. r.blocked[q] \in Decision
        BY DEF SessionRecord
      <4> QED BY <4>1, RollsType DEF Rolls
    <3>4. r.blocked \in [Question -> Decision]
      BY DEF SessionRecord
    <3>5. [r.blocked EXCEPT ![q] = b] \in [Question -> Decision]
      BY <3>3, <3>4 DEF Decision
    <3>6. /\ next.encrypted = r.encrypted /\ next.blocked = [r.blocked EXCEPT ![q] = b]
          /\ next.asked = r.asked /\ next.completed = r.completed
          /\ next.correct = r.correct /\ next.target = r.target
          /\ next.guessed = r.guessed /\ next.guesses = r.guesses
          /\ next.failed = r.failed /\ next.pending = r.pending
          /\ next.pendingCorrect = r.pendingCorrect /\ next.pendingKey = r.pendingKey
      BY <3>2 DEF SessionRecord
    <3>7. next \in SessionRecord
      BY <3>2, <3>5 DEF SessionRecord
    <3>8. /\ \A f \in Question \ {q} : next.blocked[f] = r.blocked[f]
          /\ r.blocked[q] # "none" => next.blocked[q] = r.blocked[q]
      BY <3>3, <3>4, <3>6
    <3>9. CASE out \in Answered(next, q)
      BY <1>3, <3>6, <3>7, <3>8, <3>9, AnsweredSteps DEF RecordStep
    <3>10. CASE out = BlockedAnswer(next)
      <4>1. out.session = next
        BY <3>10 DEF BlockedAnswer
      <4>2. AskStep(r, next)
        BY <1>3, <3>6, <3>8 DEF AskStep
      <4> QED BY <4>1, <4>2 DEF RecordStep
    <3> QED BY <3>2, <3>9, <3>10
  <2> QED BY <2>2, <2>3
<1> QED BY <1>1, <1>2, <1>3 DEF AskOutcomes

LEMMA GuessSteps ==
    ASSUME NEW r \in SessionRecord, NEW out \in GuessOutcomes(r)
    PROVE  RecordStep(r, out.session)
<1>1. CASE out = Refused(r)
  BY <1>1 DEF Refused, RecordStep
<1>2. CASE out \in ChaosFailures(r)
  BY <1>2, ChaosSteps DEF RecordStep
<1>3. CASE /\ ~r.completed /\ ~r.pending
           /\ \E c \in Candidate : out \in Guessed(r, c)
  <2>1. PICK c \in Candidate : out \in Guessed(r, c)
    BY <1>3
  <2>2. PICK next : next = [r EXCEPT !.guessed = @ \cup {c}]
    OBVIOUS
  <2>3. /\ next \in SessionRecord /\ SameAnswers(r, next)
        /\ next.guessed = r.guessed \cup {c} /\ next.target = r.target
        /\ next.completed = r.completed /\ next.correct = r.correct
        /\ next.pending = r.pending
    BY <2>2 DEF SessionRecord, SameAnswers
  <2>4. \/ c = r.target /\ out = Solved(next)
        \/ c # r.target /\ out = Missed(next)
        \/ Stage = 2 /\ out = Withheld(next, c = r.target)
    BY <2>1, <2>2, <2>3 DEF Guessed
  <2>5. CASE c = r.target /\ out = Solved(next)
    <3>1. out.session = [next EXCEPT !.completed = TRUE, !.correct = TRUE]
      BY <2>5 DEF Solved, Completed
    <3>2. /\ SameAnswers(r, out.session) /\ out.session.guessed = r.guessed \cup {c}
          /\ out.session.completed /\ out.session.correct /\ ~out.session.pending
      BY <1>3, <2>3, <3>1 DEF SessionRecord, SameAnswers
    <3> QED BY <1>3, <2>5, <3>2 DEF GuessStep, RecordStep
  <2>6. CASE c # r.target /\ out = Missed(next)
    <3>1. PICK less : less = OneGuessLess(next)
    OBVIOUS
    <3>2. /\ less \in SessionRecord /\ SameAnswers(r, less)
          /\ less.guessed = r.guessed \cup {c}
          /\ less.completed = r.completed /\ less.correct = r.correct /\ ~less.pending
      BY <1>3, <2>3, <3>1, OneGuessLessType DEF OneGuessLess, SessionRecord, SameAnswers
    <3>3. out.session = less \/ out.session = [less EXCEPT !.completed = TRUE, !.correct = FALSE]
      BY <2>6, <3>1 DEF Missed, Completed
    <3>4. CASE out.session = less
      BY <1>3, <2>6, <3>2, <3>4 DEF GuessStep, RecordStep
    <3>5. CASE out.session = [less EXCEPT !.completed = TRUE, !.correct = FALSE]
      <4>1. /\ SameAnswers(r, out.session) /\ out.session.guessed = r.guessed \cup {c}
            /\ out.session.completed /\ ~out.session.correct /\ ~out.session.pending
        BY <3>2, <3>5 DEF SessionRecord, SameAnswers
      <4> QED BY <1>3, <2>6, <4>1 DEF GuessStep, RecordStep
    <3> QED BY <3>3, <3>4, <3>5
  <2>7. CASE Stage = 2 /\ out = Withheld(next, c = r.target)
    <3>1. PICK key : out.session = [next EXCEPT !.pending = TRUE,
                                       !.pendingCorrect = (c = r.target), !.pendingKey = key]
      BY <2>7 DEF Withheld
    <3>2. /\ SameAnswers(r, out.session) /\ out.session.guessed = r.guessed \cup {c}
          /\ out.session.completed = r.completed /\ out.session.correct = r.correct
          /\ out.session.pending /\ out.session.pendingCorrect = (c = r.target)
      BY <2>3, <3>1 DEF SessionRecord, SameAnswers
    <3> QED BY <1>3, <2>7, <3>2 DEF GuessStep, RecordStep
  <2> QED BY <2>4, <2>5, <2>6, <2>7
<1> QED BY <1>1, <1>2, <1>3 DEF GuessOutcomes

LEMMA RevealSteps ==
    ASSUME NEW r \in SessionRecord, NEW out \in RevealOutcomes(r)
    PROVE  RecordStep(r, out.session)
<1>1. CASE out = Refused(r)
  BY <1>1 DEF Refused, RecordStep
<1>2. CASE out \in ChaosFailures(r)
  BY <1>2, ChaosSteps DEF RecordStep
<1>3. CASE ~r.completed /\ out = Revealed(r)
  <2>1. out.session = [r EXCEPT !.completed = TRUE, !.correct = r.correct]
    BY <1>3 DEF Revealed, Completed
  <2>2. out.session = [r EXCEPT !.completed = TRUE]
    BY <2>1 DEF SessionRecord
  <2> QED BY <1>3, <2>2 DEF RevealStep, RecordStep
<1> QED BY <1>1, <1>2, <1>3 DEF RevealOutcomes

\* A decryption that is not refused settles the withheld guess.
LEMMA DecryptSettles ==
    ASSUME NEW r \in SessionRecord, NEW out \in DecryptOutcomes(r), out # Refused(r)
    PROVE  DecryptStep(r, out.session)
<1>1. PICK next : next = NoPending(r)
    OBVIOUS
<1>2. /\ Stage = 2 /\ r.pending
      /\ out = IF r.pendingCorrect THEN Deciphered(next) ELSE DecipheredMiss(next)
  BY <1>1 DEF DecryptOutcomes
<1>3. /\ next \in SessionRecord /\ SameAnswers(r, next) /\ next.guessed = r.guessed
      /\ next.completed = r.completed /\ next.correct = r.correct /\ ~next.pending
  BY <1>1 DEF NoPending, SessionRecord, SameAnswers
<1>4. CASE r.pendingCorrect
  <2>1. out.session = [next EXCEPT !.completed = TRUE, !.correct = TRUE]
    BY <1>2, <1>4 DEF Deciphered, Completed
  <2>2. /\ SameAnswers(r, out.session) /\ out.session.guessed = r.guessed
        /\ ~out.session.pending /\ out.session.completed /\ out.session.correct
    BY <1>3, <2>1 DEF SessionRecord, SameAnswers
  <2> QED BY <1>2, <1>4, <2>2 DEF DecryptStep
<1>5. CASE ~r.pendingCorrect
  <2>1. PICK less : less = OneGuessLess(next)
    OBVIOUS
  <2>2. /\ less \in SessionRecord /\ SameAnswers(r, less) /\ less.guessed = r.guessed
        /\ less.completed = r.completed /\ less.correct = r.correct /\ ~less.pending
    BY <1>3, <2>1, OneGuessLessType DEF OneGuessLess, SessionRecord, SameAnswers
  <2>3. out.session = less \/ out.session = [less EXCEPT !.completed = TRUE, !.correct = FALSE]
    BY <1>2, <1>5, <2>1 DEF DecipheredMiss, Completed
  <2>4. CASE out.session = less
    BY <1>2, <1>5, <2>2, <2>4 DEF DecryptStep
  <2>5. CASE out.session = [less EXCEPT !.completed = TRUE, !.correct = FALSE]
    <3>1. /\ SameAnswers(r, out.session) /\ out.session.guessed = r.guessed
          /\ ~out.session.pending /\ out.session.completed /\ ~out.session.correct
      BY <2>2, <2>5 DEF SessionRecord, SameAnswers
    <3> QED BY <1>2, <1>5, <3>1 DEF DecryptStep
  <2> QED BY <2>3, <2>4, <2>5
<1> QED BY <1>4, <1>5

LEMMA DecryptSteps ==
    ASSUME NEW r \in SessionRecord, NEW out \in DecryptOutcomes(r)
    PROVE  RecordStep(r, out.session)
<1>1. CASE out = Refused(r)
  BY <1>1 DEF Refused, RecordStep
<1>2. CASE out # Refused(r)
  BY <1>2, DecryptSettles DEF RecordStep
<1> QED BY <1>1, <1>2

-----------------------------------------------------------------------------
(* What an outcome has to do with the team's books: the score, the          *)
(* leaderboard, the solves, the active session and the publication.         *)

TeamCommands == {"score", "board", "stats", "clear", "remove", "publish"}

\* Refusals, failures, answers and withheld guesses.
BooksNothing(r, out) ==
    /\ TeamCommands \cap out.todo = {} /\ out.points = 0
    /\ out.session.completed = r.completed /\ out.session.correct = r.correct
    /\ out.session.guesses = r.guesses

BooksSolve(r, out) ==
    /\ ~r.completed /\ out.session.completed /\ out.session.correct
    /\ out.session.guesses = r.guesses
    /\ {"write", "stats", "clear", "remove", "publish"} \subseteq out.todo
    /\ {"score", "board"} \cap out.todo = {}
    /\ out.points = SolveScore

\* The last guess is missed, or one that leaves nobody to guess.
BooksMiss(r, out) ==
    /\ ~r.completed /\ r.guesses > 0 /\ out.session.guesses = r.guesses - 1
    /\ {"score", "board", "write", "publish"} \subseteq out.todo
    /\ "stats" \notin out.todo
    /\ out.points = -WrongGuessPenalty
    /\ \/ /\ out.session.completed /\ ~out.session.correct
          /\ {"clear", "remove"} \subseteq out.todo
          /\ out.session.guesses = 0 \/ r.target \in r.guessed
       \/ /\ ~out.session.completed /\ out.session.correct = r.correct
          /\ out.session.guesses > 0
          /\ {"clear", "remove"} \cap out.todo = {}

BooksReveal(r, out) ==
    /\ ~r.completed /\ out.session.completed /\ out.session.correct = r.correct
    /\ out.session.guesses = r.guesses
    /\ {"score", "board", "write", "clear", "remove"} \subseteq out.todo
    /\ {"stats", "publish"} \cap out.todo = {}
    /\ out.points = -RevealPenalty

BooksDecryption(r, out) ==
    /\ Stage = 2 /\ r.pending /\ "publish" \notin out.todo
    /\ {"score", "board", "write"} \subseteq out.todo
    /\ \/ /\ out.session.completed /\ out.session.correct
          /\ {"stats", "clear", "remove"} \subseteq out.todo
          /\ out.points = SolveScore + DecryptionBonus
       \/ /\ "stats" \notin out.todo /\ out.points = -WrongGuessPenalty
          /\ \/ /\ out.session.completed /\ ~out.session.correct
                /\ {"clear", "remove"} \subseteq out.todo
             \/ /\ out.session.completed = r.completed
                /\ out.session.correct = r.correct
                /\ {"clear", "remove"} \cap out.todo = {}

LEMMA ChaosBooks ==
    ASSUME NEW r \in SessionRecord, NEW out \in ChaosFailures(r)
    PROVE  BooksNothing(r, out)
<1>1. out = [session |-> [r EXCEPT !.failed = @ + 1], todo |-> {"write"}, points |-> 0]
  BY DEF ChaosFailures
<1> QED BY <1>1 DEF SessionRecord, BooksNothing, TeamCommands

LEMMA RefusedBooks ==
    ASSUME NEW r \in SessionRecord
    PROVE  BooksNothing(r, Refused(r))
  BY DEF Refused, BooksNothing, TeamCommands

LEMMA AnsweredBooks ==
    ASSUME NEW r \in SessionRecord, NEW q \in Question, NEW out \in Answered(r, q)
    PROVE  BooksNothing(r, out)
<1>1. PICK e, w : /\ out.session = Recorded(r, q, e)
                  /\ out.todo = {"write"} \cup AskMilestones(Recorded(r, q, e), w)
                  /\ out.points = 0
  BY DEF Answered
<1>2. TeamCommands \cap out.todo = {}
  BY <1>1 DEF AskMilestones, TeamCommands
<1>3. /\ out.session.completed = r.completed /\ out.session.correct = r.correct
      /\ out.session.guesses = r.guesses
  BY <1>1 DEF Recorded, SessionRecord
<1> QED BY <1>1, <1>2, <1>3 DEF BooksNothing

LEMMA AskBooks ==
    ASSUME NEW r \in SessionRecord, NEW out \in AskOutcomes(r)
    PROVE  BooksNothing(r, out)
<1>1. CASE \E q \in Question : out \in Asked(r, q)
  <2>1. PICK q \in Question : out \in Asked(r, q)
    BY <1>1
  <2>2. CASE out \in Answered(r, q)
    BY <2>2, AnsweredBooks
  <2>3. CASE out \notin Answered(r, q)
    <3>1. PICK b \in Rolls(r.blocked[q], TRUE) :
             LET next == [r EXCEPT !.blocked = [@ EXCEPT ![q] = b]]
             IN  out \in IF b = "yes" THEN {BlockedAnswer(next)} ELSE Answered(next, q)
      BY <2>1, <2>3 DEF Asked
    <3>2. PICK next : /\ next = [r EXCEPT !.blocked = [@ EXCEPT ![q] = b]]
                      /\ out = BlockedAnswer(next) \/ out \in Answered(next, q)
      BY <3>1
    <3>3. b \in {"yes", "no"}
      <4>1. r.blocked[q] \in Decision
        BY DEF SessionRecord
      <4> QED BY <4>1, RollsType
    <3>4. next \in SessionRecord /\ next.completed = r.completed
          /\ next.correct = r.correct /\ next.guesses = r.guesses
      <4>1. [r.blocked EXCEPT ![q] = b] \in [Question -> Decision]
        BY <3>3 DEF SessionRecord, Decision
      <4> QED BY <3>2, <4>1 DEF SessionRecord
    <3>5. BooksNothing(next, BlockedAnswer(next))
      BY DEF BlockedAnswer, BooksNothing, TeamCommands
    <3>6. BooksNothing(next, out)
      BY <3>2, <3>4, <3>5, AnsweredBooks
    <3> QED BY <3>4, <3>6 DEF BooksNothing
  <2> QED BY <2>2, <2>3
<1> QED BY <1>1, RefusedBooks, ChaosBooks DEF AskOutcomes

LEMMA GuessBooks ==
    ASSUME NEW r \in SessionRecord, NEW out \in GuessOutcomes(r)
    PROVE  BooksNothing(r, out) \/ BooksSolve(r, out) \/ BooksMiss(r, out)
<1>1. CASE /\ ~r.completed /\ ~(r.guesses <= 0)
           /\ \E c \in Candidate : out \in Guessed(r, c)
  <2>1. PICK c \in Candidate : out \in Guessed(r, c)
    BY <1>1
  <2>2. PICK next : next = [r EXCEPT !.guessed = @ \cup {c}]
    OBVIOUS
  <2>3. /\ next \in SessionRecord
        /\ next.guessed = r.guessed \cup {c} /\ next.target = r.target
        /\ next.completed = r.completed /\ next.correct = r.correct
        /\ next.guesses = r.guesses
    BY <2>2 DEF SessionRecord
  <2>4. \/ c = r.target /\ out = Solved(next)
        \/ c # r.target /\ out = Missed(next)
        \/ \E b : out = Withheld(next, b)
    BY <2>1, <2>2, <2>3 DEF Guessed
  <2>5. CASE out = Solved(next)
    <3>1. /\ out.session = [next EXCEPT !.completed = TRUE, !.correct = TRUE]
          /\ {"write", "stats", "clear", "remove", "publish"} \subseteq out.todo
          /\ {"score", "board"} \cap out.todo = {} /\ out.points = SolveScore
      BY <2>5 DEF Solved, Completed
    <3>2. /\ out.session.completed /\ out.session.correct
          /\ out.session.guesses = r.guesses
      BY <2>3, <3>1 DEF SessionRecord
    <3> QED BY <1>1, <3>1, <3>2 DEF BooksSolve
  <2>6. CASE c # r.target /\ out = Missed(next)
    <3>1. PICK less : less = OneGuessLess(next)
    OBVIOUS
    <3>2. /\ less \in SessionRecord /\ less.guessed = r.guessed \cup {c}
          /\ less.completed = r.completed /\ less.correct = r.correct
      BY <2>3, <3>1, OneGuessLessType DEF OneGuessLess, SessionRecord
    <3>3. /\ r.guesses \in Nat /\ r.guesses > 0
          /\ less.guesses = r.guesses - 1 /\ less.guesses \in Nat
      BY <1>1, <2>3, <3>1, <3>2, RulesAssumption DEF OneGuessLess, SessionRecord
    <3>4. /\ {"score", "board", "write", "publish"} \subseteq out.todo
          /\ "stats" \notin out.todo /\ out.points = -WrongGuessPenalty
      BY <2>6 DEF Missed
    <3>5. CASE less.guesses <= 0 \/ less.guessed = Candidate
      <4>1. /\ out.session = [less EXCEPT !.completed = TRUE, !.correct = FALSE]
            /\ {"clear", "remove"} \subseteq out.todo
        BY <2>6, <3>1, <3>5 DEF Missed, Completed
      <4>2. /\ out.session.completed /\ ~out.session.correct
            /\ out.session.guesses = less.guesses
        BY <3>2, <4>1 DEF SessionRecord
      <4>3. less.guesses = 0 \/ r.target \in r.guessed
        <5>1. r.target \in Candidate
          BY DEF SessionRecord
        <5> QED BY <2>6, <3>2, <3>3, <3>5, <5>1
      <4> QED BY <1>1, <3>3, <3>4, <4>1, <4>2, <4>3 DEF BooksMiss
    <3>6. CASE ~(less.guesses <= 0 \/ less.guessed = Candidate)
      <4>1. out.session = less /\ {"clear", "remove"} \cap out.todo = {}
        BY <2>6, <3>1, <3>6 DEF Missed
      <4> QED BY <1>1, <3>2, <3>3, <3>4, <3>6, <4>1 DEF BooksMiss
    <3> QED BY <3>5, <3>6
  <2>7. CASE \E b : out = Withheld(next, b)
    <3>1. PICK b : out = Withheld(next, b)
      BY <2>7
    <3>2. PICK key : /\ out.session = [next EXCEPT !.pending = TRUE,
                               !.pendingCorrect = b, !.pendingKey = key]
                     /\ out.todo = {"write"} /\ out.points = 0
      BY <3>1 DEF Withheld
    <3>3. /\ out.session.completed = r.completed /\ out.session.correct = r.correct
          /\ out.session.guesses = r.guesses
      BY <2>3, <3>2 DEF SessionRecord
    <3> QED BY <3>2, <3>3 DEF BooksNothing, TeamCommands
  <2> QED BY <2>4, <2>5, <2>6, <2>7
<1> QED BY <1>1, RefusedBooks, ChaosBooks DEF GuessOutcomes

LEMMA RevealBooks ==
    ASSUME NEW r \in SessionRecord, NEW out \in RevealOutcomes(r)
    PROVE  BooksNothing(r, out) \/ BooksReveal(r, out)
<1>1. CASE ~r.completed /\ out = Revealed(r)
  <2>1. out.session = [r EXCEPT !.completed = TRUE, !.correct = r.correct]
    BY <1>1 DEF Revealed, Completed
  <2>2. /\ out.session.completed /\ out.session.correct = r.correct
        /\ out.session.guesses = r.guesses
    BY <2>1 DEF SessionRecord
  <2>3. out.todo = {"score", "board", "write", "clear", "remove"}
        /\ out.points = -RevealPenalty
    BY <1>1 DEF Revealed
  <2> QED BY <1>1, <2>2, <2>3 DEF BooksReveal
<1> QED BY <1>1, RefusedBooks, ChaosBooks DEF RevealOutcomes

LEMMA DecryptBooks ==
    ASSUME NEW r \in SessionRecord, NEW out \in DecryptOutcomes(r)
    PROVE  BooksNothing(r, out) \/ BooksDecryption(r, out)
<1>1. CASE out = Refused(r)
  BY <1>1, RefusedBooks
<1>2. CASE out # Refused(r)
  <2>1. PICK next : next = NoPending(r)
    OBVIOUS
  <2>2. /\ Stage = 2 /\ r.pending
        /\ out = Deciphered(next) \/ out = DecipheredMiss(next)
    BY <1>2, <2>1 DEF DecryptOutcomes
  <2>3. /\ next \in SessionRecord
        /\ next.completed = r.completed /\ next.correct = r.correct
    BY <2>1 DEF NoPending, SessionRecord
  <2>4. CASE out = Deciphered(next)
    <3>1. /\ out.session = [next EXCEPT !.completed = TRUE, !.correct = TRUE]
          /\ {"score", "board", "write", "stats", "clear", "remove"} \subseteq out.todo
          /\ "publish" \notin out.todo /\ out.points = SolveScore + DecryptionBonus
      BY <2>4 DEF Deciphered, Completed
    <3>2. out.session.completed /\ out.session.correct
      BY <2>3, <3>1 DEF SessionRecord
    <3> QED BY <2>2, <3>1, <3>2 DEF BooksDecryption
  <2>5. CASE out = DecipheredMiss(next)
    <3>1. PICK less : less = OneGuessLess(next)
    OBVIOUS
    <3>2. /\ less \in SessionRecord
          /\ less.completed = r.completed /\ less.correct = r.correct
      BY <2>3, <3>1, OneGuessLessType DEF OneGuessLess, SessionRecord
    <3>3. /\ {"score", "board", "write"} \subseteq out.todo
          /\ {"stats", "publish"} \cap out.todo = {}
          /\ out.points = -WrongGuessPenalty
      BY <2>5 DEF DecipheredMiss
    <3>4. CASE less.guesses <= 0
      <4>1. /\ out.session = [less EXCEPT !.completed = TRUE, !.correct = FALSE]
            /\ {"clear", "remove"} \subseteq out.todo
        BY <2>5, <3>1, <3>4 DEF DecipheredMiss, Completed
      <4>2. out.session.completed /\ ~out.session.correct
        BY <3>2, <4>1 DEF SessionRecord
      <4> QED BY <2>2, <3>3, <4>1, <4>2 DEF BooksDecryption
    <3>5. CASE ~(less.guesses <= 0)
      <4>1. out.session = less /\ {"clear", "remove"} \cap out.todo = {}
        BY <2>5, <3>1, <3>5 DEF DecipheredMiss
      <4> QED BY <2>2, <3>2, <3>3, <4>1 DEF BooksDecryption
    <3> QED BY <3>4, <3>5
  <2> QED BY <2>2, <2>4, <2>5
<1> QED BY <1>1, <1>2
-----------------------------------------------------------------------------
(* What an outcome has to do with the end of its session: the session goes  *)
(* on, with a guess withheld, settled or neither; or the outcome ends it.   *)

\* The record of a session keeps its target.
LEMMA StepKeepsTarget ==
    ASSUME NEW r \in SessionRecord, NEW n, RecordStep(r, n)
    PROVE  n.target = r.target
<1>1. CASE ChaosStep(r, n) \/ RevealStep(r, n)
  BY <1>1 DEF ChaosStep, RevealStep, SessionRecord
<1>2. CASE n = r \/ AskStep(r, n) \/ GuessStep(r, n) \/ DecryptStep(r, n)
  BY <1>2 DEF AskStep, GuessStep, DecryptStep, SameAnswers
<1> QED BY <1>1, <1>2 DEF RecordStep

PlaysOn(r, n) ==
    /\ n.target = r.target /\ n.completed = r.completed
    /\ \/ n.pending = r.pending
       \/ n.pending /\ ~r.pending /\ ~r.completed
       \/ ~n.pending /\ r.pending

GoesOn(r, out) ==
    PlaysOn(r, out.session) /\ {"stats", "clear", "remove"} \cap out.todo = {}

EndsIt(r, out) ==
    /\ out.session.target = r.target /\ out.session.completed
    /\ {"write", "clear", "remove"} \subseteq out.todo

GuessEnds(r, out) ==
    EndsIt(r, out) /\ ~r.completed /\ ~r.pending /\ ~out.session.pending
RevealEnds(r, out) ==
    /\ EndsIt(r, out) /\ ~r.completed /\ out.session.pending = r.pending
    /\ "stats" \notin out.todo
DecryptEnds(r, out) == EndsIt(r, out) /\ r.pending /\ ~out.session.pending

\* A record that is stored without an end of the session.
LEMMA RecordPlaysOn ==
    ASSUME NEW r \in SessionRecord, NEW n \in SessionRecord, RecordStep(r, n),
           n.completed = r.completed
    PROVE  PlaysOn(r, n)
<1>1. n.target = r.target
  BY StepKeepsTarget
<1>2. CASE ChaosStep(r, n)
  BY <1>1, <1>2 DEF ChaosStep, SessionRecord, PlaysOn
<1>3. CASE n = r \/ AskStep(r, n)
  BY <1>1, <1>3 DEF AskStep, PlaysOn
<1>4. CASE GuessStep(r, n)
  BY <1>1, <1>4 DEF GuessStep, SessionRecord, PlaysOn
<1>5. CASE DecryptStep(r, n)
  BY <1>1, <1>5 DEF DecryptStep, PlaysOn
<1>6. ~RevealStep(r, n)
  BY DEF RevealStep, SessionRecord
<1> QED BY <1>2, <1>3, <1>4, <1>5, <1>6 DEF RecordStep

LEMMA NothingGoesOn ==
    ASSUME NEW r \in SessionRecord, NEW out \in Outcome, RecordStep(r, out.session),
           BooksNothing(r, out)
    PROVE  GoesOn(r, out)
  BY RecordPlaysOn DEF BooksNothing, GoesOn, TeamCommands, Outcome

LEMMA GuessEnding ==
    ASSUME NEW r \in SessionRecord, NEW out \in GuessOutcomes(r)
    PROVE  GoesOn(r, out) \/ GuessEnds(r, out)
<1>1. /\ out \in Outcome /\ out.session \in SessionRecord
      /\ RecordStep(r, out.session) /\ out.session.target = r.target
  BY GuessType, GuessSteps, StepKeepsTarget DEF Outcome
<1>2. CASE out = Refused(r)
  BY <1>1, <1>2, RefusedBooks, NothingGoesOn
<1>3. CASE out # Refused(r)
  <2>1. ~r.completed /\ ~r.pending
    BY <1>3 DEF GuessOutcomes
  <2>2. ASSUME out.session.completed PROVE ~out.session.pending
    BY <1>1, <2>1, <2>2
    DEF RecordStep, ChaosStep, AskStep, GuessStep, RevealStep, DecryptStep, SessionRecord
  <2>3. CASE BooksNothing(r, out)
    BY <1>1, <2>3, NothingGoesOn
  <2>4. CASE BooksSolve(r, out)
    BY <1>1, <2>1, <2>2, <2>4 DEF BooksSolve, GuessEnds, EndsIt
  <2>5. CASE BooksMiss(r, out) /\ out.session.completed
    BY <1>1, <2>1, <2>2, <2>5 DEF BooksMiss, GuessEnds, EndsIt
  <2>6. CASE BooksMiss(r, out) /\ ~out.session.completed
    <3>1. out.session.completed = r.completed
      BY <1>1, <2>1, <2>6 DEF SessionRecord
    <3> QED BY <1>1, <2>6, <3>1, RecordPlaysOn DEF BooksMiss, GoesOn
  <2> QED BY <2>3, <2>4, <2>5, <2>6, GuessBooks
<1> QED BY <1>2, <1>3

LEMMA RevealEnding ==
    ASSUME NEW r \in SessionRecord, NEW out \in RevealOutcomes(r)
    PROVE  GoesOn(r, out) \/ RevealEnds(r, out)
<1>1. /\ out \in Outcome /\ out.session \in SessionRecord
      /\ RecordStep(r, out.session) /\ out.session.target = r.target
  BY RevealType, RevealSteps, StepKeepsTarget DEF Outcome
<1>2. CASE BooksNothing(r, out)
  BY <1>1, <1>2, NothingGoesOn
<1>3. CASE ~r.completed /\ out = Revealed(r)
  <2>1. /\ out.session = [r EXCEPT !.completed = TRUE, !.correct = r.correct]
        /\ out.todo = {"score", "board", "write", "clear", "remove"}
    BY <1>3 DEF Revealed, Completed
  <2>2. out.session.completed /\ out.session.pending = r.pending
    BY <2>1 DEF SessionRecord
  <2> QED BY <1>1, <1>3, <2>1, <2>2 DEF RevealEnds, EndsIt
<1> QED BY <1>2, <1>3, RefusedBooks, ChaosBooks DEF RevealOutcomes

LEMMA DecryptEnding ==
    ASSUME NEW r \in SessionRecord, NEW out \in DecryptOutcomes(r)
    PROVE  GoesOn(r, out) \/ DecryptEnds(r, out)
<1>1. /\ out \in Outcome /\ out.session \in SessionRecord
      /\ RecordStep(r, out.session) /\ out.session.target = r.target
  BY DecryptType, DecryptSteps, StepKeepsTarget DEF Outcome
<1>2. CASE BooksNothing(r, out)
  BY <1>1, <1>2, NothingGoesOn
<1>3. CASE ~BooksNothing(r, out)
  <2>1. r.pending /\ ~out.session.pending
    BY <1>3, RefusedBooks, DecryptSettles DEF DecryptStep
  <2>2. BooksDecryption(r, out)
    BY <1>3, DecryptBooks
  <2>3. CASE {"clear", "remove"} \subseteq out.todo /\ out.session.completed
    BY <1>1, <2>1, <2>2, <2>3 DEF BooksDecryption, DecryptEnds, EndsIt
  <2>4. CASE /\ {"stats", "clear", "remove"} \cap out.todo = {}
             /\ out.session.completed = r.completed
    BY <1>1, <2>4, RecordPlaysOn DEF GoesOn
  <2> QED BY <2>2, <2>3, <2>4 DEF BooksDecryption
<1> QED BY <1>2, <1>3

LEMMA AskEnding ==
    ASSUME NEW r \in SessionRecord, NEW out \in AskOutcomes(r)
    PROVE  GoesOn(r, out)
  BY AskType, AskSteps, AskBooks, NothingGoesOn
=============================================================================
