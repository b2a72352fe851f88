------------------------- MODULE SessionRecords_proof -------------------------
(***************************************************************************)
(* What SessionPlay promises of a session's record and of the team's books *)
(* that follow it, for every set of sessions, requests, questions and      *)
(* candidates:                                                             *)
(*   CompletionIsFinal, ResultsAreFinal, DecisionsAreStable                *)
(*                      what no step may do to a stored record;            *)
(*   QuestionsCounted, CorrectGuessesKept                                  *)
(*                      what every stored record satisfies;                *)
(*   LocksAreKept       who may take a lock out of Redis;                  *)
(*   PlayableSessionsCounted, MilestonesAfterSolve                         *)
(*                      order between a request's commands, cut off or not;*)
(*   BoardFollowsScore, TeamFollowsSessions, ScoreFollowsSessions          *)
(*                      what leaderboard, team data and score amount to;   *)
(*   EndsAreOrdered     a session ends as SessionEnds says.                *)
(* The first five need AtomicSessions' invariant: a record is only ever    *)
(* replaced by one that the rules make of it.  The books are kept by what  *)
(* is still planned: what a team at rest has booked, a team at work has    *)
(* booked or has a request that is going to.                               *)
(***************************************************************************)
EXTENDS SessionPlay_proof, FiniteSetTheorems

\* A step leaves a session's record to the rules.
LEMMA ResultsSteps ==
    ASSUME NEW r \in SessionRecord, NEW n \in Results(r)
    PROVE  RecordStep(r, n)
  BY AskSteps, GuessSteps, RevealSteps, DecryptSteps DEF Results

LEMMA StoredSteps ==
    ASSUME TypeOK, CopyInv, [Next]_vars, NEW s \in Session
    PROVE  RecordStep(session[s], session'[s])
<1>1. CASE session' = session
  BY <1>1 DEF RecordStep
<1>2. CASE Atomic!Next
  <2>1. PICK t \in Session : Atomic!Play(t)
    BY <1>2 DEF Atomic!Next
  <2>2. PICK n \in Results(session[t]) : session' = [session EXCEPT ![t] = n]
    BY <2>1 DEF Atomic!Play
  <2>3. session[s] \in SessionRecord /\ session[t] \in SessionRecord
    BY DEF TypeOK
  <2>4. RecordStep(session[t], n)
    BY <2>2, <2>3, ResultsSteps
  <2>5. s = t => session'[s] = n
    BY <2>2 DEF TypeOK
  <2>6. s # t => session'[s] = session[s]
    BY <2>2 DEF TypeOK
  <2> QED BY <2>4, <2>5, <2>6 DEF RecordStep
<1> QED BY <1>1, <1>2, StepRefines

\* The invariant behind AtomicSessions.
AtomicInv == TypeOK /\ LockInv /\ CopyInv

LEMMA InitAtomic == Init => AtomicInv
  BY InitType, InitLock DEF AtomicInv, Init, CopyInv

LEMMA NextAtomic ==
    ASSUME "lease" \notin Faults
    PROVE  AtomicInv /\ [Next]_vars => AtomicInv'
  BY NextType, NextLock, NextCopy DEF AtomicInv

LEMMA AtomicAlways ==
    ASSUME "lease" \notin Faults
    PROVE  Spec => []AtomicInv
  BY InitAtomic, NextAtomic, PTL DEF Spec

-----------------------------------------------------------------------------
(* What no step may do *)

LEMMA StepKeepsCompleted ==
    ASSUME NEW r \in SessionRecord, NEW n, RecordStep(r, n), r.completed
    PROVE  n.completed
<1>1. CASE n = r
  BY <1>1
<1>2. CASE ChaosStep(r, n)
  BY <1>2 DEF ChaosStep, SessionRecord
<1>3. CASE DecryptStep(r, n)
  BY <1>3 DEF DecryptStep
<1> QED BY <1>1, <1>2, <1>3 DEF RecordStep, AskStep, GuessStep, RevealStep

\* A completed session never opens again: no request that decided on an open
\* record stores it over a completed one.
THEOREM CompletionIsFinal ==
    ASSUME "lease" \notin Faults
    PROVE  Spec => CompletedStays
<1>1. AtomicInv /\ [Next]_vars
         => [\A s \in Session : session[s].completed => session'[s].completed]_vars
  <2> SUFFICES ASSUME AtomicInv, [Next]_vars, NEW s \in Session, session[s].completed
               PROVE  session'[s].completed
    OBVIOUS
  <2>1. session[s] \in SessionRecord
    BY DEF AtomicInv, TypeOK
  <2> QED BY <2>1, StoredSteps, StepKeepsCompleted DEF AtomicInv
<1> QED BY <1>1, AtomicAlways, PTL DEF Spec, CompletedStays

\* Over: of a session that is over a request can at most count a failure.
LEMMA OverStep ==
    ASSUME NEW r \in SessionRecord, NEW n, RecordStep(r, n), Over(r)
    PROVE  [n EXCEPT !.failed = 0] = [r EXCEPT !.failed = 0]
<1>1. n = r \/ ChaosStep(r, n)
  BY DEF RecordStep, Over, AskStep, GuessStep, RevealStep, DecryptStep
<1>2. CASE ChaosStep(r, n)
  <2>1. n = [r EXCEPT !.failed = r.failed + 1]
    BY <1>2 DEF ChaosStep
  <2> QED BY <2>1 DEF SessionRecord
<1> QED BY <1>1, <1>2

\* The result of a session that is over never changes: a late request, however
\* long it waited for the lock, finds the session as it ended.
THEOREM ResultsAreFinal ==
    ASSUME "lease" \notin Faults
    PROVE  Spec => ResultFinal
<1> DEFINE Kept == \A s \in Session : Over(session[s]) =>
              [session'[s] EXCEPT !.failed = 0] = [session[s] EXCEPT !.failed = 0]
<1>1. AtomicInv /\ [Next]_vars => [Kept]_vars
  <2> SUFFICES ASSUME AtomicInv, [Next]_vars, NEW s \in Session, Over(session[s])
               PROVE  [session'[s] EXCEPT !.failed = 0] = [session[s] EXCEPT !.failed = 0]
    OBVIOUS
  <2>1. session[s] \in SessionRecord
    BY DEF AtomicInv, TypeOK
  <2> QED BY <2>1, StoredSteps, OverStep DEF AtomicInv
<1> QED BY <1>1, AtomicAlways, PTL DEF Spec, ResultFinal

LEMMA StepKeepsDecisions ==
    ASSUME NEW r \in SessionRecord, NEW n, RecordStep(r, n), NEW q \in Question
    PROVE  /\ r.encrypted[q] # "none" => n.encrypted[q] = r.encrypted[q]
           /\ r.blocked[q] # "none" => n.blocked[q] = r.blocked[q]
<1>1. CASE ChaosStep(r, n) \/ RevealStep(r, n)
  BY <1>1 DEF ChaosStep, RevealStep, SessionRecord
<1>2. CASE AskStep(r, n)
  <2>1. PICK f \in Question :
           /\ \A x \in Question \ {f} : /\ n.encrypted[x] = r.encrypted[x]
                                        /\ n.blocked[x] = r.blocked[x]
           /\ r.encrypted[f] # "none" => n.encrypted[f] = r.encrypted[f]
           /\ r.blocked[f] # "none" => n.blocked[f] = r.blocked[f]
    BY <1>2 DEF AskStep
  <2> QED BY <2>1
<1>3. CASE n = r \/ GuessStep(r, n) \/ DecryptStep(r, n)
  BY <1>3 DEF GuessStep, DecryptStep, SameAnswers
<1> QED BY <1>1, <1>2, <1>3 DEF RecordStep

\* The dice are cast once per question: no interleaving of asks lets a player
\* roll again.
THEOREM DecisionsAreStable ==
    ASSUME "lease" \notin Faults
    PROVE  Spec => DecisionsStable
<1> DEFINE Kept == \A s \in Session, q \in Question :
          /\ session[s].encrypted[q] # "none" =>
                session'[s].encrypted[q] = session[s].encrypted[q]
          /\ session[s].blocked[q] # "none" =>
                session'[s].blocked[q] = session[s].blocked[q]
<1>1. AtomicInv /\ [Next]_vars => [Kept]_vars
  <2> SUFFICES ASSUME AtomicInv, [Next]_vars PROVE Kept
    OBVIOUS
  <2>1. \A s \in Session : session[s] \in SessionRecord
    BY DEF AtomicInv, TypeOK
  <2> QED BY <2>1, StoredSteps, StepKeepsDecisions DEF AtomicInv
<1> QED BY <1>1, AtomicAlways, PTL DEF Spec, DecisionsStable
-----------------------------------------------------------------------------
(* What every stored record satisfies *)

Decided(r) == {q \in Question : r.encrypted[q] # "none"}

CountedRecord(r) == r.asked = Cardinality(Decided(r))

LEMMA StepCounts ==
    ASSUME NEW r \in SessionRecord, NEW n, RecordStep(r, n), CountedRecord(r)
    PROVE  CountedRecord(n)
<1>1. CASE ChaosStep(r, n) \/ RevealStep(r, n)
  <2>1. n.asked = r.asked /\ n.encrypted = r.encrypted
    BY <1>1 DEF ChaosStep, RevealStep, SessionRecord
  <2> QED BY <2>1 DEF CountedRecord, Decided
<1>2. CASE AskStep(r, n)
  <2>1. PICK q \in Question :
           /\ \A x \in Question \ {q} : n.encrypted[x] = r.encrypted[x]
           /\ r.encrypted[q] # "none" => n.encrypted[q] = r.encrypted[q]
           /\ IF r.encrypted[q] = "none" /\ n.encrypted[q] # "none"
              THEN n.asked = r.asked + 1
              ELSE n.asked = r.asked
    BY <1>2 DEF AskStep
  <2>2. IsFiniteSet(Decided(r))
    BY RulesAssumption, FS_Subset DEF Decided
  <2>3. CASE r.encrypted[q] = "none" /\ n.encrypted[q] # "none"
    <3>1. Decided(n) = Decided(r) \cup {q} /\ q \notin Decided(r)
      BY <2>1, <2>3 DEF Decided
    <3>2. Cardinality(Decided(n)) = Cardinality(Decided(r)) + 1
      BY <2>2, <3>1, FS_AddElement
    <3> QED BY <2>1, <2>3, <3>2 DEF CountedRecord
  <2>4. CASE ~(r.encrypted[q] = "none" /\ n.encrypted[q] # "none")
    <3>1. Decided(n) = Decided(r)
      BY <2>1, <2>4 DEF Decided
    <3> QED BY <2>1, <2>4, <3>1 DEF CountedRecord
  <2> QED BY <2>3, <2>4
<1>3. CASE n = r \/ GuessStep(r, n) \/ DecryptStep(r, n)
  BY <1>3 DEF GuessStep, DecryptStep, SameAnswers, CountedRecord, Decided
<1> QED BY <1>1, <1>2, <1>3 DEF RecordStep

LEMMA NewCounts ==
    ASSUME NEW c \in Candidate
    PROVE  CountedRecord(NewSession(c))
<1>1. Decided(NewSession(c)) = {}
  BY DEF Decided, NewSession
<1> QED BY <1>1, FS_EmptySet DEF CountedRecord, NewSession

\* QuestionsAsked has one entry per decided question, so that neither repeated
\* nor overlapping asks bring Reveal, M3 or the loss of S1 nearer.
THEOREM QuestionsCounted ==
    ASSUME "lease" \notin Faults
    PROVE  Spec => []AskedCountedOnce
<1> DEFINE Counted == \A s \in Session : CountedRecord(session[s])
<1>1. Init => Counted
  BY NewCounts DEF Init, Fresh
<1>2. AtomicInv /\ Counted /\ [Next]_vars => Counted'
  <2> SUFFICES ASSUME AtomicInv, Counted, [Next]_vars, NEW s \in Session
               PROVE  CountedRecord(session'[s])
    BY DEF CountedRecord, Decided
  <2>1. session[s] \in SessionRecord /\ CountedRecord(session[s])
    BY DEF AtomicInv, TypeOK
  <2> HIDE DEF Counted
  <2>2. RecordStep(session[s], session'[s])
    BY StoredSteps DEF AtomicInv
  <2> QED BY <2>1, <2>2, StepCounts
<1>3. Counted => AskedCountedOnce
  BY DEF CountedRecord, Decided, AskedCountedOnce
<1> HIDE DEF Counted
<1> QED BY <1>1, <1>2, <1>3, AtomicAlways, PTL DEF Spec

\* A guess waits with its verdict, or the session is over: "waits" alone does
\* not survive the decryption, which ends a session only if the verdict is kept.
KeptRecord(r) ==
    r.target \in r.guessed => r.completed \/ (r.pending /\ r.pendingCorrect)

LEMMA StepKeepsGuess ==
    ASSUME NEW r \in SessionRecord, NEW n, RecordStep(r, n), KeptRecord(r)
    PROVE  KeptRecord(n)
<1>1. CASE ChaosStep(r, n) \/ RevealStep(r, n)
  BY <1>1 DEF ChaosStep, RevealStep, SessionRecord, KeptRecord
<1>2. CASE n = r \/ AskStep(r, n)
  BY <1>2 DEF AskStep, KeptRecord
<1>3. CASE GuessStep(r, n)
  BY <1>3 DEF GuessStep, SameAnswers, KeptRecord
<1>4. CASE DecryptStep(r, n)
  BY <1>4 DEF DecryptStep, SameAnswers, KeptRecord
<1> QED BY <1>1, <1>2, <1>3, <1>4 DEF RecordStep

\* A correct guess is never forgotten, withheld or not: it has ended its
\* session, or its verdict waits for the decryption.
THEOREM CorrectGuessesKept ==
    ASSUME "lease" \notin Faults
    PROVE  Spec => []CorrectGuessKept
<1> DEFINE Kept == \A s \in Session : KeptRecord(session[s])
<1>1. Init => Kept
  BY DEF Init, Fresh, KeptRecord, NewSession
<1>2. AtomicInv /\ Kept /\ [Next]_vars => Kept'
  <2> SUFFICES ASSUME AtomicInv, Kept, [Next]_vars, NEW s \in Session
               PROVE  KeptRecord(session'[s])
    BY DEF KeptRecord
  <2>1. session[s] \in SessionRecord /\ KeptRecord(session[s])
    BY DEF AtomicInv, TypeOK
  <2> HIDE DEF Kept
  <2>2. RecordStep(session[s], session'[s])
    BY StoredSteps DEF AtomicInv
  <2> QED BY <2>1, <2>2, StepKeepsGuess
<1>3. Kept => CorrectGuessKept
  BY DEF KeptRecord, CorrectGuessKept
<1> HIDE DEF Kept
<1> QED BY <1>1, <1>2, <1>3, AtomicAlways, PTL DEF Spec

-----------------------------------------------------------------------------
(* The lock, with every fault *)

LEMMA StepKeepsLock ==
    ASSUME TypeOK, [Next]_vars, NEW p \in Request, NEW s \in Session,
           lock[s] = p, Holds(p, s), lock'[s] # p
    PROVE  pc'[p] = "idle" \/ faults' > faults
<1> USE PlayAssumption
<1>1. ASSUME NEW q \in Request, Handler(q) PROVE FALSE
  BY <1>1, HandlerPlans DEF Planned, redis
<1>2. ASSUME NEW q \in Request, Command(q) PROVE FALSE
  BY <1>2 DEF Command, IncrementScore, IncrementBoard, WriteSession, UpdateTeamStats,
              ClearActiveSession, RemoveActiveSession, AwardIfAbsent,
              PublishGameUpdate, Issue
<1>3. ASSUME NEW q \in Request, Acquire(q) PROVE FALSE
  BY <1>3 DEF TypeOK, Acquire
<1>4. ASSUME NEW q \in Request, NEW t \in Session,
             Begin(q, t) \/ Retry(q) \/ Contention(q) \/ Abort(q) \/ CommandFails(q)
      PROVE  FALSE
  BY <1>4 DEF Begin, Retry, Contention, Abort, CommandFails, redis
<1>5. ASSUME NEW q \in Request, Release(q) PROVE pc'[p] = "idle"
  BY <1>5 DEF TypeOK, Release, Leave
<1>6. ASSUME NEW t \in Session, LockExpires(t) PROVE FALSE
  BY <1>6 DEF TypeOK, LockExpires, Expire, HolderAlive
<1>7. ASSUME NEW t \in Session, LeaseEnds(t) PROVE faults' > faults
  BY <1>7 DEF TypeOK, LeaseEnds
<1>8. ASSUME UNCHANGED vars PROVE FALSE
  BY <1>8 DEF vars, redis
<1> QED
  BY <1>1, <1>2, <1>3, <1>4, <1>5, <1>6, <1>7, <1>8 DEF Next, Serve, Handler

\* Whatever fails, a lock at work is only lost to its own request's end or to
\* the end of its lease; the release script of another request leaves it alone.
THEOREM LocksAreKept == Spec => LockNotStolen
<1> DEFINE Kept == \A p \in Request, s \in Session :
          lock[s] = p /\ Holds(p, s) /\ lock'[s] # p
             => pc'[p] = "idle" \/ faults' > faults
<1>1. TypeOK /\ [Next]_vars => [Kept]_vars
  BY StepKeepsLock
<1> QED BY <1>1, TypeCorrect, PTL DEF Spec, LockNotStolen
-----------------------------------------------------------------------------
(* The kinds of steps, as far as a request's plan is concerned: a handler    *)
(* decides, a request issues one of its commands, or all plans stay or end. *)

Issued(p, e) ==
    /\ Due(p, e)
    /\ todo' = [todo EXCEPT ![p] = @ \ {e}]
    /\ UNCHANGED <<pc, sid, op, copy, points, faults>>

\* Nothing is stored but locks; requests begin, wait or end.
Quiet ==
    /\ UNCHANGED <<session, team, sessions, credits>>
    /\ \A p \in Request : pc'[p] = "working" =>
          /\ pc[p] = "working"
          /\ sid'[p] = sid[p] /\ op'[p] = op[p] /\ copy'[p] = copy[p]
          /\ points'[p] = points[p] /\ todo'[p] = todo[p]

LEMMA CommandKinds ==
    ASSUME TypeOK, NEW p \in Request, Command(p)
    PROVE  \E e \in Effect : Issued(p, e) /\
              \/ e = "score"   /\ IncrementScore(p)
              \/ e = "board"   /\ IncrementBoard(p)
              \/ e = "write"   /\ WriteSession(p)
              \/ e = "stats"   /\ UpdateTeamStats(p)
              \/ e = "clear"   /\ ClearActiveSession(p)
              \/ e = "remove"  /\ RemoveActiveSession(p)
              \/ e \in Milestone /\ AwardIfAbsent(p, e)
              \/ e = "publish" /\ PublishGameUpdate(p)
<1>1. ASSUME NEW e, Issue(p, e) PROVE e \in Effect /\ Issued(p, e)
  BY <1>1 DEF TypeOK, Issue, Issued, Due
<1>2. CASE IncrementScore(p)
  BY <1>1, <1>2 DEF IncrementScore
<1>3. CASE IncrementBoard(p)
  BY <1>1, <1>3 DEF IncrementBoard
<1>4. CASE WriteSession(p)
  BY <1>1, <1>4 DEF WriteSession
<1>5. CASE UpdateTeamStats(p)
  BY <1>1, <1>5 DEF UpdateTeamStats
<1>6. CASE ClearActiveSession(p)
  BY <1>1, <1>6 DEF ClearActiveSession
<1>7. CASE RemoveActiveSession(p)
  BY <1>1, <1>7 DEF RemoveActiveSession
<1>8. CASE \E m \in Milestone : AwardIfAbsent(p, m)
  <2>1. PICK m \in Milestone : AwardIfAbsent(p, m)
    BY <1>8
  <2>2. m \in Effect /\ Issued(p, m)
    BY <1>1, <2>1 DEF AwardIfAbsent
  <2> QED BY <2>1, <2>2
<1>9. CASE PublishGameUpdate(p)
  BY <1>1, <1>9 DEF PublishGameUpdate
<1> QED BY <1>2, <1>3, <1>4, <1>5, <1>6, <1>7, <1>8, <1>9 DEF Command

LEMMA StepKinds ==
    ASSUME TypeOK, [Next]_vars
    PROVE  \/ \E p \in Request : Handler(p)
           \/ \E p \in Request : Command(p)
           \/ \E p \in Request : CommandFails(p)
           \/ Quiet
<1>1. ASSUME NEW p \in Request, NEW s \in Session, Begin(p, s) PROVE Quiet
  BY <1>1 DEF TypeOK, Quiet, Begin, redis, team, sessions
<1>2. ASSUME NEW p \in Request, Acquire(p) PROVE Quiet
  BY <1>2 DEF TypeOK, Quiet, Acquire
<1>3. ASSUME NEW p \in Request, Retry(p) PROVE Quiet
  BY <1>3 DEF Quiet, Retry, redis, team, sessions
<1>4. ASSUME NEW p \in Request, Contention(p) \/ Abort(p) \/ Release(p) PROVE Quiet
  BY <1>4 DEF TypeOK, Quiet, Contention, Abort, Release, Leave, redis, team, sessions
<1>5. ASSUME NEW s \in Session, LockExpires(s) \/ LeaseEnds(s) PROVE Quiet
  BY <1>5 DEF Quiet, LockExpires, LeaseEnds, Expire, local
<1>6. ASSUME UNCHANGED vars PROVE Quiet
  BY <1>6 DEF Quiet, vars, redis, local, team, sessions
<1> QED
  BY <1>1, <1>2, <1>3, <1>4, <1>5, <1>6 DEF Next, Serve, Handler

-----------------------------------------------------------------------------
(* Slots: what a handler that frees its session's slot has planned with it. *)

FreesCompleted(o, out) ==
    "remove" \in out.todo =>
        "write" \in out.todo /\ out.session.completed /\ o # "ask"

LEMMA FreedByHandler ==
    ASSUME TypeOK, NEW p \in Request, Handler(p)
    PROVE  \E o \in Op, out \in Outcome : Planned(p, o, out) /\ FreesCompleted(o, out)
<1>1. PICK sess \in SessionRecord : sess = session[sid[p]]
  BY DEF TypeOK, Handler, AskQuestion, SubmitGuess, Reveal, SubmitDecryption, Handle
<1>2. \A out \in ChaosFailures(sess) : "remove" \notin out.todo
  BY DEF ChaosFailures
<1>3. "remove" \notin Refused(sess).todo
  BY DEF Refused
<1>4. CASE AskQuestion(p)
  <2>1. PICK out \in AskOutcomes(sess) : Planned(p, "ask", out)
    BY <1>1, <1>4 DEF AskQuestion, Handle, Planned
  <2>2. \A s, q : \A a \in Answered(s, q) : "remove" \notin a.todo
    BY DEF Answered, AskMilestones
  <2>3. \A s : "remove" \notin BlockedAnswer(s).todo
    BY DEF BlockedAnswer
  <2>4. ASSUME NEW q \in Question, out \in Asked(sess, q) PROVE "remove" \notin out.todo
    <3>1. \/ out \in Answered(sess, q)
          \/ \E b, next : out \in IF b = "yes" THEN {BlockedAnswer(next)} ELSE Answered(next, q)
      BY <2>4 DEF Asked
    <3> QED BY <3>1, <2>2, <2>3
  <2>5. "remove" \notin out.todo
    BY <1>2, <1>3, <2>4 DEF AskOutcomes
  <2>6. out \in Outcome
    BY AskType
  <2> QED BY <2>1, <2>5, <2>6 DEF FreesCompleted, Op
<1>5. CASE SubmitGuess(p)
  <2>1. PICK out \in GuessOutcomes(sess) : Planned(p, "guess", out)
    BY <1>1, <1>5 DEF SubmitGuess, Handle, Planned
  <2>2. ASSUME NEW c \in Candidate, out \in Guessed(sess, c) PROVE FreesCompleted("guess", out)
    <3>1. PICK next : next = [sess EXCEPT !.guessed = @ \cup {c}]
      OBVIOUS
    <3>2. next \in SessionRecord
      BY <3>1 DEF SessionRecord
    <3>3. CASE out = Solved(next)
      BY <3>2, <3>3 DEF Solved, Completed, SessionRecord, FreesCompleted
    <3>4. CASE out = Missed(next)
      <4>1. OneGuessLess(next) \in SessionRecord
        BY <3>2, OneGuessLessType
      <4> QED BY <3>4, <4>1 DEF Missed, Completed, SessionRecord, FreesCompleted
    <3>5. CASE \E b : out = Withheld(next, b)
      BY <3>5 DEF Withheld, FreesCompleted
    <3> QED BY <2>2, <3>1, <3>3, <3>4, <3>5 DEF Guessed
  <2>3. FreesCompleted("guess", out)
    BY <1>2, <1>3, <2>2 DEF GuessOutcomes, FreesCompleted
  <2>4. out \in Outcome
    BY GuessType
  <2> QED BY <2>1, <2>3, <2>4 DEF Op
<1>6. CASE Reveal(p)
  <2>1. PICK out \in RevealOutcomes(sess) : Planned(p, "reveal", out)
    BY <1>1, <1>6 DEF Reveal, Handle, Planned
  <2>2. FreesCompleted("reveal", Revealed(sess))
    BY DEF Revealed, Completed, SessionRecord, FreesCompleted
  <2>3. FreesCompleted("reveal", out)
    BY <1>2, <1>3, <2>2 DEF RevealOutcomes, FreesCompleted
  <2>4. out \in Outcome
    BY RevealType
  <2> QED BY <2>1, <2>3, <2>4 DEF Op
<1>7. CASE SubmitDecryption(p)
  <2>1. PICK out \in DecryptOutcomes(sess) : Planned(p, "decrypt", out)
    BY <1>1, <1>7 DEF SubmitDecryption, Handle, Planned
  <2>2. PICK next : next = NoPending(sess)
    OBVIOUS
  <2>3. next \in SessionRecord
    BY <2>2 DEF NoPending, SessionRecord
  <2>4. FreesCompleted("decrypt", Deciphered(next))
    BY <2>3 DEF Deciphered, Completed, SessionRecord, FreesCompleted
  <2>5. FreesCompleted("decrypt", DecipheredMiss(next))
    <3>1. OneGuessLess(next) \in SessionRecord
      BY <2>3, OneGuessLessType
    <3> QED BY <3>1 DEF DecipheredMiss, Completed, SessionRecord, FreesCompleted
  <2>6. FreesCompleted("decrypt", out)
    BY <1>3, <2>2, <2>4, <2>5 DEF DecryptOutcomes, FreesCompleted
  <2>7. out \in Outcome
    BY DecryptType
  <2> QED BY <2>1, <2>6, <2>7 DEF Op
<1> QED BY <1>4, <1>5, <1>6, <1>7 DEF Handler
RemovalPlanned(p) == pc[p] = "working" /\ "remove" \in todo[p]

\* Freed slots belong to completed sessions, and so do the slots that a request
\* is still going to free: it has stored the completed record, or will before.
FreedCompleted == \A s \in Session : s \notin active => session[s].completed
PlannedRemovals ==
    \A p \in Request : RemovalPlanned(p) =>
        /\ op[p] \in {"guess", "reveal", "decrypt"}
        /\ copy[p].completed
        /\ ~WritePlanned(p) => session[sid[p]].completed
SlotInv == FreedCompleted /\ PlannedRemovals

LEMMA WriteBeforeRemove ==
    ASSUME NEW o \in {"guess", "reveal", "decrypt"}
    PROVE  Precedes(o, "write", "remove")
<1>1. CASE o = "guess"
  <2>1. Order[o][3] = "write" /\ Order[o][6] = "remove" /\ {3, 6} \subseteq DOMAIN Order[o]
    BY <1>1 DEF Order
  <2> QED BY <2>1 DEF Precedes
<1>2. CASE o = "reveal"
  <2>1. Order[o][3] = "write" /\ Order[o][5] = "remove" /\ {3, 5} \subseteq DOMAIN Order[o]
    BY <1>2 DEF Order
  <2> QED BY <2>1 DEF Precedes
<1>3. CASE o = "decrypt"
  <2>1. Order[o][5] = "write" /\ Order[o][8] = "remove" /\ {5, 8} \subseteq DOMAIN Order[o]
    BY <1>3 DEF Order
  <2> QED BY <2>1 DEF Precedes
<1> QED BY <1>1, <1>2, <1>3

LEMMA HandlerSlots ==
    ASSUME TypeOK, SlotInv, NEW p \in Request, Handler(p)
    PROVE  SlotInv'
<1>1. PICK o \in Op, out \in Outcome : Planned(p, o, out) /\ FreesCompleted(o, out)
  BY FreedByHandler
<1>2. UNCHANGED <<session, active, sid>>
  BY <1>1 DEF Planned, redis
<1>3. /\ op'[p] = o /\ copy'[p] = out.session /\ todo'[p] = out.todo
      /\ \A q \in Request \ {p} : /\ op'[q] = op[q] /\ copy'[q] = copy[q]
                                  /\ todo'[q] = todo[q] /\ pc'[q] = pc[q]
      /\ pc'[p] = "working"
  BY <1>1 DEF TypeOK, Planned
<1>4. FreedCompleted'
  BY <1>2 DEF SlotInv, FreedCompleted
<1>5. PlannedRemovals'
  <2>1. RemovalPlanned(p)' => /\ o \in {"guess", "reveal", "decrypt"}
                              /\ out.session.completed /\ WritePlanned(p)'
    BY <1>1, <1>3 DEF RemovalPlanned, WritePlanned, FreesCompleted, Op
  <2> QED BY <2>1, <1>2, <1>3 DEF SlotInv, PlannedRemovals, RemovalPlanned, WritePlanned
<1> QED BY <1>4, <1>5 DEF SlotInv

LEMMA WriteSlots ==
    ASSUME AtomicInv, SlotInv, [Next]_vars, NEW p \in Request, WriteSession(p)
    PROVE  SlotInv'
<1>1. /\ UNCHANGED <<pc, sid, op, copy, active>>
      /\ todo' = [todo EXCEPT ![p] = @ \ {"write"}]
      /\ session' = [session EXCEPT ![sid[p]] = copy[p]]
      /\ WritePlanned(p)
  BY DEF WriteSession, Issue, Due, WritePlanned, sessions
<1>2. sid[p] \in Session /\ session'[sid[p]] = copy[p]
  BY <1>1 DEF AtomicInv, TypeOK, WritePlanned
<1>3. \A s \in Session : session[s].completed => session'[s].completed
  <2>1. \A s \in Session : session[s] \in SessionRecord
    BY DEF AtomicInv, TypeOK
  <2> QED BY <2>1, StoredSteps, StepKeepsCompleted DEF AtomicInv
<1>4. FreedCompleted'
  BY <1>1, <1>3 DEF SlotInv, FreedCompleted
<1>5. /\ \A q \in Request : q # p => todo'[q] = todo[q]
      /\ todo'[p] = todo[p] \ {"write"}
      /\ \A q \in Request : pc[q] = "working" => sid[q] \in Session
  BY <1>1 DEF AtomicInv, TypeOK
<1>6. PlannedRemovals'
  BY <1>1, <1>2, <1>3, <1>5 DEF SlotInv, PlannedRemovals, RemovalPlanned, WritePlanned
<1> QED BY <1>4, <1>6 DEF SlotInv

LEMMA RemoveSlots ==
    ASSUME TypeOK, SlotInv, NEW p \in Request, RemoveActiveSession(p)
    PROVE  SlotInv'
<1>1. /\ UNCHANGED <<pc, sid, op, copy, session>>
      /\ todo' = [todo EXCEPT ![p] = @ \ {"remove"}]
      /\ active' = active \ {sid[p]}
      /\ RemovalPlanned(p)
  BY DEF RemoveActiveSession, Issue, Due, RemovalPlanned
<1>2. ~WritePlanned(p)
  <2>1. op[p] \in {"guess", "reveal", "decrypt"}
    BY <1>1 DEF SlotInv, PlannedRemovals
  <2> QED BY <2>1, WriteBeforeRemove DEF RemoveActiveSession, Issue, Due, WritePlanned
<1>3. session[sid[p]].completed
  BY <1>1, <1>2 DEF SlotInv, PlannedRemovals
<1>4. FreedCompleted'
  BY <1>1, <1>3 DEF SlotInv, FreedCompleted
<1>5. /\ \A q \in Request : q # p => todo'[q] = todo[q]
      /\ todo'[p] = todo[p] \ {"remove"}
  BY <1>1 DEF TypeOK
<1>6. PlannedRemovals'
  BY <1>1, <1>5 DEF SlotInv, PlannedRemovals, RemovalPlanned, WritePlanned
<1> QED BY <1>4, <1>6 DEF SlotInv

\* Any other command.
LEMMA CommandSlots ==
    ASSUME TypeOK, SlotInv, NEW p \in Request, Command(p),
           ~WriteSession(p), ~RemoveActiveSession(p)
    PROVE  SlotInv'
<1>1. PICK e \in Effect \ {"write", "remove"} :
         todo' = [todo EXCEPT ![p] = @ \ {e}] /\ UNCHANGED <<pc, sid, op, copy>>
  BY CommandKinds DEF Issued, Milestone
<1>2. UNCHANGED <<session, active>>
  BY DEF Command, IncrementScore, IncrementBoard, UpdateTeamStats, ClearActiveSession,
         AwardIfAbsent, PublishGameUpdate, sessions
<1>3. \A q \in Request : /\ todo'[q] \subseteq todo[q]
                         /\ "write" \in todo'[q] <=> "write" \in todo[q]
  BY <1>1 DEF TypeOK
<1>4. FreedCompleted'
  BY <1>2 DEF SlotInv, FreedCompleted
<1>5. PlannedRemovals'
  BY <1>1, <1>2, <1>3 DEF SlotInv, PlannedRemovals, RemovalPlanned, WritePlanned
<1> QED BY <1>4, <1>5 DEF SlotInv

LEMMA StepSlots ==
    ASSUME AtomicInv, SlotInv, [Next]_vars, \A p \in Request : ~CommandFails(p)
    PROVE  SlotInv'
<1>1. TypeOK
  BY DEF AtomicInv
<1>2. CASE \E p \in Request : Handler(p)
  BY <1>1, <1>2, HandlerSlots
<1>3. CASE \E p \in Request : Command(p)
  BY <1>1, <1>3, WriteSlots, RemoveSlots, CommandSlots
<1>4. CASE \E p \in Request : CommandFails(p)
  BY <1>4
<1>5. CASE Quiet
  <2>1. FreedCompleted'
    BY <1>5 DEF Quiet, sessions, SlotInv, FreedCompleted
  <2>2. PlannedRemovals'
    BY <1>5 DEF Quiet, SlotInv, PlannedRemovals, RemovalPlanned, WritePlanned
  <2> QED BY <2>1, <2>2 DEF SlotInv
<1> QED BY <1>1, <1>2, <1>3, <1>4, <1>5, StepKinds

LEMMA NextSlots ==
    ASSUME "error" \notin Faults
    PROVE  AtomicInv /\ SlotInv /\ [Next]_vars => SlotInv'
  BY StepSlots DEF CommandFails, MayFault

\* A session that can be played holds a slot, also when the request that was
\* to free the slot or to store the completed session is cut off between.
THEOREM PlayableSessionsCounted ==
    ASSUME "lease" \notin Faults, "error" \notin Faults
    PROVE  Spec => []OpenSessionsCounted
<1>1. Init => SlotInv
  BY DEF Init, SlotInv, FreedCompleted, PlannedRemovals, RemovalPlanned
<1>2. AtomicInv /\ SlotInv /\ [Next]_vars => SlotInv'
  BY NextSlots
<1>3. SlotInv => OpenSessionsCounted
  BY DEF SlotInv, FreedCompleted, OpenSessionsCounted
<1> QED BY <1>1, <1>2, <1>3, AtomicAlways, PTL DEF Spec
-----------------------------------------------------------------------------
(* Milestones: which of them a handler plans, and what with them.           *)

AwardsASolve(o, out) ==
    \A m \in SolveMilestones : m \in out.todo => o = "guess" /\ "stats" \in out.todo

LEMMA AwardedByHandler ==
    ASSUME TypeOK, NEW p \in Request, Handler(p)
    PROVE  \E o \in Op, out \in Outcome : Planned(p, o, out) /\ AwardsASolve(o, out)
<1>1. PICK sess \in SessionRecord : sess = session[sid[p]]
  BY DEF TypeOK, Handler, AskQuestion, SubmitGuess, Reveal, SubmitDecryption, Handle
<1>2. SolveMilestones \subseteq {"M4", "M5", "S1", "S2"}
  BY DEF SolveMilestones
<1>3. \A out \in ChaosFailures(sess) : SolveMilestones \cap out.todo = {}
  BY <1>2 DEF ChaosFailures
<1>4. SolveMilestones \cap Refused(sess).todo = {}
  BY DEF Refused
<1>5. CASE AskQuestion(p)
  <2>1. PICK out \in AskOutcomes(sess) : Planned(p, "ask", out)
    BY <1>1, <1>5 DEF AskQuestion, Handle, Planned
  <2>2. \A s, q : \A a \in Answered(s, q) : SolveMilestones \cap a.todo = {}
    BY <1>2 DEF Answered, AskMilestones
  <2>3. \A s : SolveMilestones \cap BlockedAnswer(s).todo = {}
    BY <1>2 DEF BlockedAnswer
  <2>4. ASSUME NEW q \in Question, out \in Asked(sess, q)
        PROVE  SolveMilestones \cap out.todo = {}
    <3>1. \/ out \in Answered(sess, q)
          \/ \E b, next : out \in IF b = "yes" THEN {BlockedAnswer(next)} ELSE Answered(next, q)
      BY <2>4 DEF Asked
    <3> QED BY <3>1, <2>2, <2>3
  <2>5. SolveMilestones \cap out.todo = {}
    BY <1>3, <1>4, <2>4 DEF AskOutcomes
  <2>6. out \in Outcome
    BY AskType
  <2> QED BY <2>1, <2>5, <2>6 DEF AwardsASolve, Op
<1>6. CASE SubmitGuess(p)
  <2>1. PICK out \in GuessOutcomes(sess) : Planned(p, "guess", out)
    BY <1>1, <1>6 DEF SubmitGuess, Handle, Planned
  <2>2. ASSUME NEW c \in Candidate, out \in Guessed(sess, c) PROVE AwardsASolve("guess", out)
    <3>1. PICK next : \/ out = Solved(next) \/ out = Missed(next)
                      \/ \E b : out = Withheld(next, b)
      BY <2>2 DEF Guessed
    <3>2. CASE out = Solved(next)
      BY <3>2 DEF Solved, AwardsASolve
    <3>3. CASE out = Missed(next)
      BY <1>2, <3>3 DEF Missed, AwardsASolve
    <3>4. CASE \E b : out = Withheld(next, b)
      BY <1>2, <3>4 DEF Withheld, AwardsASolve
    <3> QED BY <3>1, <3>2, <3>3, <3>4
  <2>3. AwardsASolve("guess", out)
    BY <1>3, <1>4, <2>2 DEF GuessOutcomes, AwardsASolve
  <2>4. out \in Outcome
    BY GuessType
  <2> QED BY <2>1, <2>3, <2>4 DEF Op
<1>7. CASE Reveal(p)
  <2>1. PICK out \in RevealOutcomes(sess) : Planned(p, "reveal", out)
    BY <1>1, <1>7 DEF Reveal, Handle, Planned
  <2>2. SolveMilestones \cap Revealed(sess).todo = {}
    BY <1>2 DEF Revealed
  <2>3. SolveMilestones \cap out.todo = {}
    BY <1>3, <1>4, <2>2 DEF RevealOutcomes
  <2>4. out \in Outcome
    BY RevealType
  <2> QED BY <2>1, <2>3, <2>4 DEF AwardsASolve, Op
<1>8. CASE SubmitDecryption(p)
  <2>1. PICK out \in DecryptOutcomes(sess) : Planned(p, "decrypt", out)
    BY <1>1, <1>8 DEF SubmitDecryption, Handle, Planned
  <2>2. PICK next : \/ out = Refused(sess)
                    \/ Stage = 2 /\ (out = Deciphered(next) \/ out = DecipheredMiss(next))
    BY <2>1 DEF DecryptOutcomes
  <2>3. Stage = 2 => SolveMilestones = {"M4", "S1", "S2"}
    BY DEF SolveMilestones
  <2>4. SolveMilestones \cap out.todo = {}
    <3>1. CASE Stage = 2 /\ out = Deciphered(next)
      BY <2>3, <3>1 DEF Deciphered
    <3>2. CASE Stage = 2 /\ out = DecipheredMiss(next)
      BY <2>3, <3>2 DEF DecipheredMiss
    <3> QED BY <1>4, <2>2, <3>1, <3>2
  <2>5. out \in Outcome
    BY DecryptType
  <2> QED BY <2>1, <2>4, <2>5 DEF AwardsASolve, Op
<1> QED BY <1>5, <1>6, <1>7, <1>8 DEF Handler

\* A milestone of a solve is held, or still planned, only with a credit that is
\* there or planned before it.
AwardPlanned(p, m) == pc[p] = "working" /\ m \in todo[p]

HeldCredited ==
    SolveMilestones \cap (milestones \ PriorMilestones) # {} =>
        \E s \in Session : credits[s] > 0
PlannedAwards ==
    \A p \in Request, m \in SolveMilestones : AwardPlanned(p, m) =>
        op[p] = "guess" /\ ("stats" \in todo[p] \/ credits[sid[p]] > 0)
AwardInv == HeldCredited /\ PlannedAwards

LEMMA StatsBeforeAwards ==
    ASSUME NEW m \in SolveMilestones
    PROVE  Precedes("guess", "stats", m)
<1>1. /\ Order["guess"][4] = "stats" /\ Order["guess"][7] = "M4"
      /\ Order["guess"][8] = "M5" /\ Order["guess"][9] = "S1" /\ Order["guess"][10] = "S2"
      /\ {4, 7, 8, 9, 10} \subseteq DOMAIN Order["guess"]
  BY DEF Order
<1>2. m \in {"M4", "M5", "S1", "S2"}
  BY DEF SolveMilestones
<1> QED BY <1>1, <1>2 DEF Precedes

LEMMA HandlerAwards ==
    ASSUME TypeOK, AwardInv, NEW p \in Request, Handler(p)
    PROVE  AwardInv'
<1>1. PICK o \in Op, out \in Outcome : Planned(p, o, out) /\ AwardsASolve(o, out)
  BY AwardedByHandler
<1>2. UNCHANGED <<milestones, credits, sid>>
  BY <1>1 DEF Planned, redis
<1>3. /\ op'[p] = o /\ todo'[p] = out.todo
      /\ \A q \in Request \ {p} : op'[q] = op[q] /\ todo'[q] = todo[q] /\ pc'[q] = pc[q]
  BY <1>1 DEF TypeOK, Planned
<1>4. HeldCredited'
  BY <1>2 DEF AwardInv, HeldCredited
<1>5. PlannedAwards'
  <2>1. \A m \in SolveMilestones : AwardPlanned(p, m)' => o = "guess" /\ "stats" \in out.todo
    BY <1>1, <1>3 DEF AwardPlanned, AwardsASolve
  <2> QED BY <2>1, <1>2, <1>3 DEF AwardInv, PlannedAwards, AwardPlanned
<1> QED BY <1>4, <1>5 DEF AwardInv

\* Of the commands, the stats script moves a credit from the plan to the team,
\* and an award finds that done.
LEMMA CommandAwards ==
    ASSUME TypeOK, AwardInv, NEW p \in Request, Command(p)
    PROVE  AwardInv'
<1>1. PICK e \in Effect :
         /\ Issued(p, e)
         /\ e = "stats" => UpdateTeamStats(p)
         /\ e \in Milestone => AwardIfAbsent(p, e)
         /\ e \notin Milestone => milestones' = milestones
         /\ e # "stats" => credits' = credits
  <2>1. PICK e \in Effect : Issued(p, e) /\
              \/ e = "score"   /\ IncrementScore(p)
              \/ e = "board"   /\ IncrementBoard(p)
              \/ e = "write"   /\ WriteSession(p)
              \/ e = "stats"   /\ UpdateTeamStats(p)
              \/ e = "clear"   /\ ClearActiveSession(p)
              \/ e = "remove"  /\ RemoveActiveSession(p)
              \/ e \in Milestone /\ AwardIfAbsent(p, e)
              \/ e = "publish" /\ PublishGameUpdate(p)
    BY CommandKinds
  <2>2. Milestone \cap {"score", "board", "write", "stats", "clear", "remove", "publish"} = {}
    BY DEF Milestone
  <2>3. e \in Milestone => AwardIfAbsent(p, e)
    BY <2>1, <2>2
  <2>4. e = "stats" => UpdateTeamStats(p)
    BY <2>1, <2>2
  <2>5. e # "stats" => credits' = credits
    BY <2>1 DEF IncrementScore, IncrementBoard, WriteSession,
         ClearActiveSession, RemoveActiveSession, AwardIfAbsent, PublishGameUpdate
  <2>6. e \notin Milestone => milestones' = milestones
    BY <2>1 DEF IncrementScore, IncrementBoard, WriteSession, UpdateTeamStats,
         ClearActiveSession, RemoveActiveSession, PublishGameUpdate, team
  <2> QED BY <2>1, <2>3, <2>4, <2>5, <2>6
<1>2. /\ UNCHANGED <<pc, sid, op>> /\ pc[p] = "working" /\ e \in todo[p]
      /\ sid[p] \in Session
      /\ todo'[p] = todo[p] \ {e} /\ \A q \in Request \ {p} : todo'[q] = todo[q]
  BY <1>1 DEF TypeOK, Issued, Due
<1>3. \A s \in Session : credits[s] > 0 => credits'[s] > 0
  <2>1. CASE e = "stats"
    BY <1>1, <2>1 DEF TypeOK, UpdateTeamStats
  <2>2. CASE e # "stats"
    BY <1>1, <2>2
  <2> QED BY <2>1, <2>2
<1>4. e = "stats" => credits'[sid[p]] > 0
  BY <1>1, <1>2 DEF TypeOK, UpdateTeamStats
<1>5. HeldCredited'
  <2>1. CASE e \in SolveMilestones
    <3>1. AwardPlanned(p, e)
      BY <1>2 DEF AwardPlanned
    <3>2. "stats" \notin todo[p]
      <4>1. op[p] = "guess" /\ Precedes("guess", "stats", e)
        BY <2>1, <3>1, StatsBeforeAwards DEF AwardInv, PlannedAwards
      <4> QED BY <1>1, <4>1 DEF Issued, Due
    <3>3. credits[sid[p]] > 0
      BY <2>1, <3>1, <3>2 DEF AwardInv, PlannedAwards
    <3> QED BY <1>2, <1>3, <3>3 DEF HeldCredited
  <2>2. CASE e \notin SolveMilestones
    <3>1. SolveMilestones \cap (milestones' \ PriorMilestones)
             = SolveMilestones \cap (milestones \ PriorMilestones)
      BY <1>1, <2>2 DEF AwardIfAbsent
    <3> QED BY <1>3, <3>1 DEF AwardInv, HeldCredited
  <2> QED BY <2>1, <2>2
<1>6. PlannedAwards'
  <2> SUFFICES ASSUME NEW q \in Request, NEW m \in SolveMilestones, AwardPlanned(q, m)'
               PROVE  op'[q] = "guess" /\ ("stats" \in todo'[q] \/ credits'[sid'[q]] > 0)
    BY DEF PlannedAwards
  <2>1. AwardPlanned(q, m) /\ sid[q] \in Session
    BY <1>2 DEF AwardPlanned, TypeOK
  <2>2. op[q] = "guess" /\ ("stats" \in todo[q] \/ credits[sid[q]] > 0)
    BY <2>1 DEF AwardInv, PlannedAwards
  <2>3. CASE credits[sid[q]] > 0
    BY <1>2, <1>3, <2>1, <2>2, <2>3
  <2>4. CASE "stats" \in todo[q]
    BY <1>2, <1>4, <2>2, <2>4
  <2> QED BY <2>2, <2>3, <2>4
<1> QED BY <1>5, <1>6 DEF AwardInv

LEMMA NextAwards ==
    ASSUME "error" \notin Faults
    PROVE  TypeOK /\ AwardInv /\ [Next]_vars => AwardInv'
<1> SUFFICES ASSUME TypeOK, AwardInv, [Next]_vars PROVE AwardInv'
  OBVIOUS
<1>1. CASE \E p \in Request : CommandFails(p)
  BY <1>1 DEF CommandFails, MayFault
<1>2. CASE Quiet
  <2>1. HeldCredited'
    BY <1>2 DEF Quiet, team, AwardInv, HeldCredited
  <2>2. PlannedAwards'
    BY <1>2 DEF Quiet, AwardInv, PlannedAwards, AwardPlanned
  <2> QED BY <2>1, <2>2 DEF AwardInv
<1> QED BY <1>1, <1>2, StepKinds, HandlerAwards, CommandAwards

\* The milestones of a solve are never awarded ahead of the solve, whatever is
\* cut off and even if two requests believe to hold the lock.
THEOREM MilestonesAfterSolve ==
    ASSUME "error" \notin Faults
    PROVE  Spec => []SolveBeforeMilestones
<1>1. Init => AwardInv
  BY DEF Init, AwardInv, HeldCredited, PlannedAwards, AwardPlanned
<1>2. TypeOK /\ AwardInv /\ [Next]_vars => AwardInv'
  BY NextAwards
<1>3. AwardInv => SolveBeforeMilestones
  BY DEF AwardInv, HeldCredited, SolveBeforeMilestones
<1> QED BY <1>1, <1>2, <1>3, TypeCorrect, PTL DEF Spec
-----------------------------------------------------------------------------
(* The books.  What a handler's plan does to them, and how a request ends:  *)
(* with nothing left to do, or cut off outside a pipeline.                  *)

BooksPlan(o, r, out) ==
    \/ BooksNothing(r, out)
    \/ o = "guess"   /\ (BooksSolve(r, out) \/ BooksMiss(r, out))
    \/ o = "reveal"  /\ BooksReveal(r, out)
    \/ o = "decrypt" /\ BooksDecryption(r, out)

LEMMA HandlerBooks ==
    ASSUME TypeOK, NEW p \in Request, Handler(p)
    PROVE  \E o \in Op, out \in Outcome :
              /\ Planned(p, o, out)
              /\ RecordStep(session[sid[p]], out.session)
              /\ BooksPlan(o, session[sid[p]], out)
<1>1. PICK sess \in SessionRecord : sess = session[sid[p]]
  BY DEF TypeOK, Handler, AskQuestion, SubmitGuess, Reveal, SubmitDecryption, Handle
<1>2. CASE AskQuestion(p)
  <2>1. PICK out \in AskOutcomes(sess) : Planned(p, "ask", out)
    BY <1>1, <1>2 DEF AskQuestion, Handle, Planned
  <2>2. out \in Outcome /\ RecordStep(sess, out.session) /\ BooksPlan("ask", sess, out)
    BY AskType, AskSteps, AskBooks DEF BooksPlan
  <2> QED BY <1>1, <2>1, <2>2 DEF Op
<1>3. CASE SubmitGuess(p)
  <2>1. PICK out \in GuessOutcomes(sess) : Planned(p, "guess", out)
    BY <1>1, <1>3 DEF SubmitGuess, Handle, Planned
  <2>2. out \in Outcome /\ RecordStep(sess, out.session) /\ BooksPlan("guess", sess, out)
    BY GuessType, GuessSteps, GuessBooks DEF BooksPlan
  <2> QED BY <1>1, <2>1, <2>2 DEF Op
<1>4. CASE Reveal(p)
  <2>1. PICK out \in RevealOutcomes(sess) : Planned(p, "reveal", out)
    BY <1>1, <1>4 DEF Reveal, Handle, Planned
  <2>2. out \in Outcome /\ RecordStep(sess, out.session) /\ BooksPlan("reveal", sess, out)
    BY RevealType, RevealSteps, RevealBooks DEF BooksPlan
  <2> QED BY <1>1, <2>1, <2>2 DEF Op
<1>5. CASE SubmitDecryption(p)
  <2>1. PICK out \in DecryptOutcomes(sess) : Planned(p, "decrypt", out)
    BY <1>1, <1>5 DEF SubmitDecryption, Handle, Planned
  <2>2. out \in Outcome /\ RecordStep(sess, out.session) /\ BooksPlan("decrypt", sess, out)
    BY DecryptType, DecryptSteps, DecryptBooks DEF BooksPlan
  <2> QED BY <1>1, <2>1, <2>2 DEF Op
<1> QED BY <1>2, <1>3, <1>4, <1>5 DEF Handler

\* Only a request at work has commands left.
PlansWorking == \A p \in Request : pc[p] # "working" => todo[p] = {}

PlanEnds ==
    \A p \in Request : pc'[p] # "working" =>
        /\ todo'[p] = {} /\ ~MidPipeline(p)
        /\ todo[p] = {} \/ faults' # faults

LEMMA StepEnds ==
    ASSUME TypeOK, PlansWorking, [Next]_vars
    PROVE  \/ \E p \in Request : Handler(p)
           \/ \E p \in Request : Command(p)
           \/ \E p \in Request : CommandFails(p)
           \/ Quiet /\ PlanEnds
<1>1. ASSUME NEW p \in Request, NEW s \in Session, Begin(p, s) PROVE PlanEnds
  BY <1>1 DEF TypeOK, PlansWorking, PlanEnds, MidPipeline, Begin
<1>2. ASSUME NEW p \in Request, Acquire(p) PROVE PlanEnds
  BY <1>2 DEF TypeOK, PlansWorking, PlanEnds, MidPipeline, Acquire
<1>3. ASSUME NEW p \in Request, Retry(p) PROVE PlanEnds
  BY <1>3 DEF TypeOK, PlansWorking, PlanEnds, MidPipeline, Retry
<1>4. ASSUME NEW p \in Request, Contention(p) PROVE PlanEnds
  BY <1>4 DEF TypeOK, PlansWorking, PlanEnds, MidPipeline, Contention, Leave
<1>5. ASSUME NEW p \in Request, Release(p) PROVE PlanEnds
  BY <1>5 DEF TypeOK, PlansWorking, PlanEnds, MidPipeline, Release, Leave
<1>6. ASSUME NEW p \in Request, Abort(p) PROVE PlanEnds
  BY <1>6 DEF TypeOK, PlansWorking, PlanEnds, MidPipeline, Abort, Leave
<1>7. ASSUME NEW s \in Session, LockExpires(s) \/ LeaseEnds(s) PROVE PlanEnds
  BY <1>7 DEF PlansWorking, PlanEnds, MidPipeline, LockExpires, LeaseEnds, Expire, local
<1>8. ASSUME UNCHANGED vars PROVE PlanEnds
  BY <1>8 DEF PlansWorking, PlanEnds, MidPipeline, vars, local
<1>9. CASE \E p \in Request : Handler(p) \/ Command(p) \/ CommandFails(p)
  BY <1>9
<1>10. CASE \A p \in Request : ~Handler(p) /\ ~Command(p) /\ ~CommandFails(p)
  <2>1. Quiet
    BY <1>10, StepKinds
  <2>2. PlanEnds
    BY <1>1, <1>2, <1>3, <1>4, <1>5, <1>6, <1>7, <1>8, <1>10 DEF Next, Serve, Handler
  <2> QED BY <2>1, <2>2
<1> QED BY <1>9, <1>10

-----------------------------------------------------------------------------
(* The leaderboard and the score, with every fault.                         *)

Paid == SolveScore + DecryptionBonus
Amounts == {Paid, -WrongGuessPenalty, -RevealPenalty}
Half(n) == {p \in Request : MidPipeline(p) /\ points[p] = n}

Amount(n) == n * Cardinality(Half(n))

Difference ==
    score - board = Amount(Paid) + Amount(-WrongGuessPenalty) + Amount(-RevealPenalty)

Pipelines ==
    \A p \in Request :
        /\ "score" \in todo[p] => "board" \in todo[p]
        /\ "board" \in todo[p] => op[p] # "ask" /\ points[p] \in Amounts

HalvesFinite == \A n \in Amounts : IsFiniteSet(Half(n))

PipelineInv == PlansWorking /\ Pipelines /\ HalvesFinite /\ Difference

LEMMA AmountsDiffer ==
    /\ Paid \in Nat /\ Paid # -WrongGuessPenalty /\ Paid # -RevealPenalty
    /\ -WrongGuessPenalty # -RevealPenalty
    /\ -WrongGuessPenalty \in Int /\ -RevealPenalty \in Int
  BY RulesAssumption DEF Paid, DecryptionBonus, WrongGuessPenalty, RevealPenalty

LEMMA OneMore ==
    ASSUME NEW a \in Int, NEW c \in Nat
    PROVE  a * (c + 1) = a * c + a
  BY SMT

LEMMA AmountType ==
    ASSUME NEW n \in Amounts, Cardinality(Half(n)) \in Nat
    PROVE  Amount(n) \in Int
<1>1. n \in Int
  BY AmountsDiffer DEF Amounts
<1> QED BY <1>1 DEF Amount

LEMMA AmountStays ==
    ASSUME NEW n, Half(n)' = Half(n)
    PROVE  Amount(n)' = Amount(n)
  BY DEF Amount

LEMMA AmountGrows ==
    ASSUME NEW n \in Amounts, Cardinality(Half(n)) \in Nat,
           Cardinality(Half(n)') = Cardinality(Half(n)) + 1
    PROVE  Amount(n)' = Amount(n) + n
<1>1. n \in Int
  BY AmountsDiffer DEF Amounts
<1> QED BY <1>1, OneMore DEF Amount

LEMMA AmountShrinks ==
    ASSUME NEW n \in Amounts, Cardinality(Half(n)') \in Nat,
           Cardinality(Half(n)) = Cardinality(Half(n)') + 1
    PROVE  Amount(n)' = Amount(n) - n
<1>1. n \in Int
  BY AmountsDiffer DEF Amounts
<1>2. Amount(n) = Amount(n)' + n
  BY <1>1, OneMore DEF Amount
<1> QED BY <1>1, <1>2 DEF Amount

\* One of the amounts changes, and the total with it.
LEMMA TotalMoves ==
    ASSUME NEW a \in Amounts, NEW d \in Int, NEW total,
           total = Amount(Paid) + Amount(-WrongGuessPenalty) + Amount(-RevealPenalty),
           \A n \in Amounts : Amount(n) \in Int,
           Amount(a)' = Amount(a) + d,
           \A n \in Amounts : n # a => Amount(n)' = Amount(n)
    PROVE  total + d
              = Amount(Paid)' + Amount(-WrongGuessPenalty)' + Amount(-RevealPenalty)'
  BY AmountsDiffer DEF Amounts

\* No pipeline begins or ends, and score and leaderboard move together.
KeepsPipelines ==
    /\ PlansWorking' /\ Pipelines'
    /\ \A p \in Request : MidPipeline(p)' <=> MidPipeline(p)
    /\ \A p \in Request : MidPipeline(p) => points'[p] = points[p]
    /\ score' - board' = score - board

LEMMA KeptPipelines ==
    ASSUME PipelineInv, KeepsPipelines
    PROVE  PipelineInv'
<1>1. \A n : Half(n)' = Half(n)
  BY DEF Half, KeepsPipelines
<1> QED BY <1>1 DEF PipelineInv, KeepsPipelines, HalvesFinite, Difference, Amount

LEMMA HandlerPipelines ==
    ASSUME TypeOK, PipelineInv, NEW p \in Request, Handler(p)
    PROVE  KeepsPipelines
<1>1. PICK o \in Op, out \in Outcome :
         Planned(p, o, out) /\ BooksPlan(o, session[sid[p]], out)
  BY HandlerBooks
<1>2. /\ op'[p] = o /\ todo'[p] = out.todo /\ points'[p] = out.points
      /\ pc'[p] = "working" /\ todo[p] = {}
      /\ \A q \in Request \ {p} : /\ op'[q] = op[q] /\ points'[q] = points[q]
                                  /\ todo'[q] = todo[q] /\ pc'[q] = pc[q]
  BY <1>1 DEF TypeOK, Planned, PipelineInv, PlansWorking
<1>3. /\ "score" \in out.todo <=> "board" \in out.todo
      /\ "board" \in out.todo => o # "ask" /\ out.points \in Amounts
  BY <1>1 DEF BooksPlan, BooksNothing, BooksSolve, BooksMiss, BooksReveal,
              BooksDecryption, TeamCommands, Amounts, Paid
<1>4. PlansWorking'
  BY <1>2 DEF PipelineInv, PlansWorking
<1>5. Pipelines'
  BY <1>2, <1>3 DEF PipelineInv, Pipelines
<1>6. \A q \in Request : MidPipeline(q)' <=> MidPipeline(q)
  BY <1>2, <1>3 DEF MidPipeline
<1>7. ~MidPipeline(p)
  BY <1>2 DEF MidPipeline
<1>8. score' = score /\ board' = board
  BY <1>1 DEF Planned, redis
<1> QED BY <1>2, <1>4, <1>5, <1>6, <1>7, <1>8 DEF KeepsPipelines

\* The first half of a pipeline.
LEMMA ScoreFirst ==
    ASSUME TypeOK, PipelineInv, NEW p \in Request, IncrementScore(p)
    PROVE  PipelineInv'
<1>1. PICK a \in Amounts : points[p] = a
  BY DEF IncrementScore, Issue, Due, PipelineInv, Pipelines
<1>2. /\ "score" \in todo[p] /\ "board" \in todo[p]
      /\ todo'[p] = todo[p] \ {"score"}
      /\ \A q \in Request \ {p} : todo'[q] = todo[q]
      /\ UNCHANGED <<pc, op, points, board>> /\ score' = score + a
  BY <1>1 DEF TypeOK, IncrementScore, Issue, Due, PipelineInv, Pipelines
<1>3. PlansWorking' /\ Pipelines'
  BY <1>2 DEF PipelineInv, PlansWorking, Pipelines
<1>4. ~MidPipeline(p) /\ MidPipeline(p)'
      /\ \A q \in Request \ {p} : MidPipeline(q)' <=> MidPipeline(q)
  BY <1>2 DEF MidPipeline
<1>5. \A n : n # a => Half(n)' = Half(n)
  BY <1>1, <1>2, <1>4 DEF Half
<1>6. Half(a)' = Half(a) \cup {p} /\ p \notin Half(a)
  BY <1>1, <1>2, <1>4 DEF Half
<1>7. IsFiniteSet(Half(a)') /\ Cardinality(Half(a)') = Cardinality(Half(a)) + 1
  BY <1>6, FS_AddElement DEF PipelineInv, HalvesFinite
<1>8. HalvesFinite'
  BY <1>5, <1>7 DEF PipelineInv, HalvesFinite
<1>9. \A n \in Amounts : Cardinality(Half(n)) \in Nat
  BY FS_CardinalityType DEF PipelineInv, HalvesFinite
<1>10. Amount(a)' = Amount(a) + a
  BY <1>7, <1>9, AmountGrows
<1>11. \A n \in Amounts : n # a => Amount(n)' = Amount(n)
  BY <1>5, AmountStays
<1>12. Difference'
  <2>1. \A n \in Amounts : Amount(n) \in Int
    BY <1>9, AmountType
  <2>2. score' - board' = (score - board) + a
    BY <1>2, AmountsDiffer DEF TypeOK, Amounts
  <2>3. a \in Int
    BY AmountsDiffer DEF Amounts
  <2> QED BY <1>10, <1>11, <2>1, <2>2, <2>3, TotalMoves DEF PipelineInv, Difference
<1> QED BY <1>3, <1>8, <1>12 DEF PipelineInv

\* The second half.
LEMMA BoardSecond ==
    ASSUME TypeOK, PipelineInv, NEW p \in Request, IncrementBoard(p)
    PROVE  PipelineInv'
<1>1. PICK a \in Amounts : points[p] = a
  BY DEF IncrementBoard, Issue, Due, PipelineInv, Pipelines
<1>2. /\ "score" \notin todo[p] /\ "board" \in todo[p]
      /\ todo'[p] = todo[p] \ {"board"}
      /\ \A q \in Request \ {p} : todo'[q] = todo[q]
      /\ UNCHANGED <<pc, op, points, score>> /\ board' = board + a
  <2>1. op[p] \in {"guess", "reveal", "decrypt"}
    BY DEF TypeOK, Op, IncrementBoard, Issue, Due, PipelineInv, Pipelines
  <2>2. Precedes(op[p], "score", "board")
    <3>1. \A o \in {"guess", "reveal", "decrypt"} :
             Order[o][1] = "score" /\ Order[o][2] = "board" /\ {1, 2} \subseteq DOMAIN Order[o]
      BY DEF Order
    <3> QED BY <2>1, <3>1 DEF Precedes
  <2> QED BY <1>1, <2>2 DEF TypeOK, IncrementBoard, Issue, Due
<1>3. PlansWorking' /\ Pipelines'
  BY <1>2 DEF PipelineInv, PlansWorking, Pipelines
<1>4. MidPipeline(p) /\ ~MidPipeline(p)'
      /\ \A q \in Request \ {p} : MidPipeline(q)' <=> MidPipeline(q)
  BY <1>2 DEF MidPipeline
<1>5. \A n : n # a => Half(n)' = Half(n)
  BY <1>1, <1>2, <1>4 DEF Half
<1>6. Half(a)' = Half(a) \ {p} /\ p \in Half(a)
  BY <1>1, <1>2, <1>4 DEF Half
<1>7. IsFiniteSet(Half(a)') /\ Cardinality(Half(a)') = Cardinality(Half(a)) - 1
  BY <1>6, FS_RemoveElement DEF PipelineInv, HalvesFinite
<1>8. HalvesFinite'
  BY <1>5, <1>7 DEF PipelineInv, HalvesFinite
<1>9. \A n \in Amounts : Cardinality(Half(n)) \in Nat
  BY FS_CardinalityType DEF PipelineInv, HalvesFinite
<1>10. Amount(a)' = Amount(a) - a
  <2>1. Cardinality(Half(a)') \in Nat
    BY <1>7, FS_CardinalityType
  <2> QED BY <1>7, <1>9, <2>1, AmountShrinks
<1>11. \A n \in Amounts : n # a => Amount(n)' = Amount(n)
  BY <1>5, AmountStays
<1>12. Difference'
  <2>1. \A n \in Amounts : Amount(n) \in Int
    BY <1>9, AmountType
  <2>2. a \in Int
    BY AmountsDiffer DEF Amounts
  <2>3. score' - board' = (score - board) + (-a)
    BY <1>2, <2>2 DEF TypeOK
  <2>4. Amount(a)' = Amount(a) + (-a)
    BY <1>10, <2>1, <2>2
  <2> QED BY <1>11, <2>1, <2>2, <2>3, <2>4, TotalMoves DEF PipelineInv, Difference
<1> QED BY <1>3, <1>8, <1>12 DEF PipelineInv

LEMMA CommandPipelines ==
    ASSUME TypeOK, PipelineInv, NEW p \in Request, Command(p),
           ~IncrementScore(p), ~IncrementBoard(p)
    PROVE  KeepsPipelines
<1>1. PICK e \in Effect \ {"score", "board"} :
         todo' = [todo EXCEPT ![p] = @ \ {e}] /\ UNCHANGED <<pc, op, points>>
  <2>1. {"score", "board"} \cap Milestone = {}
    BY DEF Milestone
  <2> QED BY <2>1, CommandKinds DEF Issued
<1>2. score' - board' = score - board
  <2>1. score \in Int /\ board \in Int
    BY DEF TypeOK
  <2>2. CASE UpdateTeamStats(p)
    <3>1. points[p] \in Int /\ score' = score + points[p] /\ board' = board + points[p]
      BY <2>2 DEF TypeOK, UpdateTeamStats
    <3> QED BY <2>1, <3>1
  <2>3. CASE \E m \in Milestone : AwardIfAbsent(p, m)
    <3>1. PICK m \in Milestone : AwardIfAbsent(p, m)
      BY <2>3
    <3>2. \/ score' = score /\ board' = board
          \/ score' = score + Bonus(m) /\ board' = board + Bonus(m)
      BY <3>1 DEF AwardIfAbsent
    <3>3. Bonus(m) \in Int
      BY BonusType
    <3> QED BY <2>1, <3>2, <3>3
  <2>4. CASE ~UpdateTeamStats(p) /\ ~\E m \in Milestone : AwardIfAbsent(p, m)
    BY <2>4 DEF Command, WriteSession, ClearActiveSession, RemoveActiveSession,
                PublishGameUpdate, team
  <2> QED BY <2>2, <2>3, <2>4
<1>3. \A q \in Request : /\ todo'[q] \subseteq todo[q]
                         /\ "score" \in todo'[q] <=> "score" \in todo[q]
                         /\ "board" \in todo'[q] <=> "board" \in todo[q]
  BY <1>1 DEF TypeOK
<1> QED BY <1>1, <1>2, <1>3
        DEF KeepsPipelines, PipelineInv, PlansWorking, Pipelines, MidPipeline

\* A pipeline fails as a whole, and nothing else that fails is part of one.
LEMMA FailurePipelines ==
    ASSUME TypeOK, PipelineInv, NEW p \in Request, CommandFails(p)
    PROVE  KeepsPipelines
<1>1. PICK e \in todo[p] \ {"board"} : todo' = [todo EXCEPT ![p] = @ \ LostWith(op[p], e)]
  BY DEF CommandFails
<1>2. UNCHANGED <<pc, op, points, score, board>>
  BY DEF CommandFails, redis
<1>3. /\ \A q \in Request \ {p} : todo'[q] = todo[q]
      /\ todo'[p] = todo[p] \ LostWith(op[p], e)
  BY <1>1 DEF TypeOK
<1>4. CASE e = "score"
  <2>1. "score" \notin todo'[p] /\ "board" \notin todo'[p] /\ todo'[p] \subseteq todo[p]
    BY <1>3, <1>4 DEF LostWith
  <2> QED BY <1>1, <1>2, <1>3, <1>4, <2>1
          DEF KeepsPipelines, PipelineInv, PlansWorking, Pipelines, MidPipeline
<1>5. CASE e = "write" /\ op[p] = "ask"
  <2>1. "score" \notin todo[p] /\ "board" \notin todo[p] /\ todo'[p] \subseteq todo[p]
    BY <1>3, <1>5 DEF PipelineInv, Pipelines
  <2> QED BY <1>2, <1>3, <2>1
          DEF KeepsPipelines, PipelineInv, PlansWorking, Pipelines, MidPipeline
<1>6. CASE e # "score" /\ ~(e = "write" /\ op[p] = "ask")
  <2>1. {"score", "board"} \cap LostWith(op[p], e) = {}
    BY <1>1, <1>6 DEF LostWith
  <2>2. /\ "score" \in todo'[p] <=> "score" \in todo[p]
        /\ "board" \in todo'[p] <=> "board" \in todo[p]
        /\ todo'[p] \subseteq todo[p]
    BY <1>3, <2>1
  <2> QED BY <1>2, <1>3, <2>2
          DEF KeepsPipelines, PipelineInv, PlansWorking, Pipelines, MidPipeline
<1> QED BY <1>4, <1>5, <1>6

LEMMA NextPipelines == TypeOK /\ PipelineInv /\ [Next]_vars => PipelineInv'
<1> SUFFICES ASSUME TypeOK, PipelineInv, [Next]_vars PROVE PipelineInv'
  OBVIOUS
<1>1. CASE \E p \in Request : Handler(p)
  BY <1>1, HandlerPipelines, KeptPipelines
<1>2. CASE \E p \in Request : Command(p)
  BY <1>2, ScoreFirst, BoardSecond, CommandPipelines, KeptPipelines
<1>3. CASE \E p \in Request : CommandFails(p)
  BY <1>3, FailurePipelines, KeptPipelines
<1>4. CASE Quiet /\ PlanEnds
  <2>1. PlansWorking'
    BY <1>4 DEF PlanEnds, PlansWorking
  <2>2. Pipelines'
    BY <1>4 DEF Quiet, PlanEnds, PipelineInv, Pipelines
  <2>3. \A p \in Request : MidPipeline(p)' <=> MidPipeline(p)
    BY <1>4 DEF Quiet, PlanEnds, MidPipeline
  <2>4. \A p \in Request : MidPipeline(p) => points'[p] = points[p]
    BY <1>4 DEF Quiet, PlanEnds
  <2>5. score' - board' = score - board
    BY <1>4 DEF Quiet, team
  <2> QED BY <2>1, <2>2, <2>3, <2>4, <2>5, KeptPipelines DEF KeepsPipelines
<1> QED BY <1>1, <1>2, <1>3, <1>4, StepEnds DEF PipelineInv

\* Under every fault the leaderboard entry is the team's score but for the
\* pipelines that are half executed, however requests fail or overlap.
THEOREM BoardFollowsScore == Spec => []BoardAgrees
<1>1. Init => PipelineInv
  <2> SUFFICES ASSUME Init PROVE PipelineInv
    OBVIOUS
  <2>1. \A n : Half(n) = {}
    BY DEF Init, Half, MidPipeline
  <2>2. PlansWorking /\ Pipelines
    BY DEF Init, PlansWorking, Pipelines
  <2>3. HalvesFinite
    BY <2>1, FS_EmptySet DEF HalvesFinite
  <2>4. \A n \in Amounts : Amount(n) = 0
    <3>1. \A n \in Amounts : n \in Int
      BY AmountsDiffer DEF Amounts
    <3>2. \A n \in Amounts : Amount(n) = n * 0
      BY <2>1, FS_EmptySet DEF Amount
    <3> QED BY <3>1, <3>2
  <2>5. Difference
    BY <2>4 DEF Init, Difference, Amounts
  <2> QED BY <2>2, <2>3, <2>5 DEF PipelineInv
<1>2. TypeOK /\ PipelineInv /\ [Next]_vars => PipelineInv'
  BY NextPipelines
<1>3. TypeOK /\ PipelineInv => BoardAgrees
  <2> SUFFICES ASSUME TypeOK, PipelineInv PROVE BoardAgrees
    OBVIOUS
  <2>1. \A n \in Amounts : Cardinality(Half(n)) \in Nat
    BY FS_CardinalityType DEF PipelineInv, HalvesFinite
  <2>2. /\ Amount(Paid) = Paid * Cardinality(Half(Paid))
        /\ Amount(-WrongGuessPenalty)
              = -(WrongGuessPenalty * Cardinality(Half(-WrongGuessPenalty)))
        /\ Amount(-RevealPenalty) = -(RevealPenalty * Cardinality(Half(-RevealPenalty)))
    BY <2>1 DEF Amount, Amounts, WrongGuessPenalty, RevealPenalty
  <2>3. score - board = Paid * Cardinality(Half(Paid))
                           - WrongGuessPenalty * Cardinality(Half(-WrongGuessPenalty))
                           - RevealPenalty * Cardinality(Half(-RevealPenalty))
    <3>1. \A n \in Amounts : Amount(n) \in Int
      BY <2>1, AmountType
    <3> QED BY <2>2, <3>1 DEF PipelineInv, Difference, Amounts
  <2> QED BY <2>3 DEF BoardAgrees, Half, Paid
<1> QED BY <1>1, <1>2, <1>3, TypeCorrect, PTL DEF Spec
-----------------------------------------------------------------------------
(* The team and its sessions, while no fault has happened.  What a settled   *)
(* team has booked, a team at work has booked or has still to book.         *)

Still(p, s, e) == pc[p] = "working" /\ sid[p] = s /\ e \in todo[p]

Credited == {s \in Session : credits[s] = 1}

SolvesBooked ==
    \A s \in Session :
        /\ session[s].correct => Closed(session[s])
        /\ credits[s] = 1 => session[s].correct
        /\ session[s].correct => credits[s] = 1 \/ \E p \in Request : Still(p, s, "stats")

CreditsCounted ==
    /\ IsFiniteSet(Credited) /\ solves = PriorSolves + Cardinality(Credited)
    /\ solvedChars = {session[s].target : s \in Credited}

SlotsFreed ==
    /\ \A s \in Session : session[s].completed =>
          s \notin active \/ \E p \in Request : Still(p, s, "remove")
    /\ activeID # None => active = Session
    /\ \A p \in Request : RemovalPlanned(p) => "clear" \in todo[p] \/ activeID = None

SolvesPublished ==
    /\ \A s \in announced : session[s].correct
    /\ Stage = 1 => \A s \in Session : session[s].correct =>
          s \in announced \/ \E p \in Request : Still(p, s, "publish") /\ copy[p].correct

TeamPlan(p) ==
    /\ copy[p].target = session[sid[p]].target
    /\ "stats" \in todo[p] =>
          copy[p].correct /\ (WritePlanned(p) \/ session[sid[p]].correct)
    /\ "publish" \in todo[p] =>
          /\ op[p] = "guess"
          /\ copy[p].correct => WritePlanned(p) \/ session[sid[p]].correct
    /\ "write" \in todo[p] =>
          /\ copy[p].correct => \/ session[sid[p]].correct
                                \/ "stats" \in todo[p] /\ (Stage = 1 => "publish" \in todo[p])
          /\ copy[p].completed => session[sid[p]].completed \/ "remove" \in todo[p]

TeamPlans == \A p \in Request : pc[p] = "working" => TeamPlan(p)

TeamInv == SolvesBooked /\ CreditsCounted /\ SlotsFreed /\ SolvesPublished /\ TeamPlans

\* What the proofs below may assume of a state and a step without faults.
CalmInv == AtomicInv /\ CreditInv /\ SlotInv /\ PlansWorking

LEMMA CalmSteps ==
    ASSUME TypeOK, [Next]_vars, faults' = faults
    PROVE  /\ \A s \in Session : ~LeaseEnds(s)
           /\ \A p \in Request : ~CommandFails(p) /\ ~Abort(p)
  BY DEF TypeOK, LeaseEnds, CommandFails, Abort

LEMMA NextPlansWorking ==
    ASSUME TypeOK, PlansWorking, [Next]_vars
    PROVE  PlansWorking'
<1>1. CASE \E p \in Request : Handler(p)
  <2>1. PICK p \in Request : Handler(p)
    BY <1>1
  <2>2. PICK o \in Op, out \in Outcome : Planned(p, o, out)
    BY <2>1, HandlerPlans
  <2> QED BY <2>2 DEF TypeOK, Planned, PlansWorking
<1>2. CASE \E p \in Request : Command(p)
  <2>1. PICK p \in Request : Command(p)
    BY <1>2
  <2>2. PICK e \in Effect : Issued(p, e)
    BY <2>1, CommandKinds
  <2> QED BY <2>2 DEF TypeOK, Issued, PlansWorking
<1>3. CASE \E p \in Request : CommandFails(p)
  BY <1>3 DEF TypeOK, CommandFails, PlansWorking
<1>4. CASE Quiet /\ PlanEnds
  BY <1>4 DEF PlanEnds, PlansWorking
<1> QED BY <1>1, <1>2, <1>3, <1>4, StepEnds

LEMMA NextCalm ==
    ASSUME CalmInv, [Next]_vars, faults' = faults
    PROVE  CalmInv'
<1>1. /\ \A s \in Session : ~LeaseEnds(s)
      /\ \A p \in Request : ~CommandFails(p)
  BY CalmSteps DEF CalmInv, AtomicInv
<1>2. AtomicInv'
  BY <1>1, NextType, StepLock, NextCopy DEF CalmInv, AtomicInv
<1>3. CreditInv'
  BY <1>1, StepCredit DEF CalmInv, AtomicInv
<1>4. SlotInv'
  BY <1>1, StepSlots DEF CalmInv
<1>5. PlansWorking'
  BY NextPlansWorking DEF CalmInv, AtomicInv
<1> QED BY <1>2, <1>3, <1>4, <1>5 DEF CalmInv

\* The record of a closed session keeps its verdict.
LEMMA ClosedSteps ==
    ASSUME NEW r \in SessionRecord, NEW n, RecordStep(r, n), Closed(r)
    PROVE  Closed(n) /\ n.correct = r.correct
<1>1. CASE ChaosStep(r, n)
  BY <1>1 DEF ChaosStep, SessionRecord, Closed
<1>2. CASE n = r
  BY <1>2
<1>3. ~AskStep(r, n) /\ ~GuessStep(r, n) /\ ~RevealStep(r, n) /\ ~DecryptStep(r, n)
  BY DEF AskStep, GuessStep, RevealStep, DecryptStep, Closed
<1> QED BY <1>1, <1>2, <1>3 DEF RecordStep

\* Steps that touch none of this: the score's commands, and requests that
\* begin, wait or end with nothing left to do.
KeepsTeam ==
    /\ UNCHANGED <<session, credits, solves, solvedChars, active, activeID, announced>>
    /\ \A p \in Request :
          pc'[p] = "working" =>
            /\ pc[p] = "working" /\ sid'[p] = sid[p] /\ op'[p] = op[p] /\ copy'[p] = copy[p]
            /\ \A e \in {"write", "stats", "clear", "remove", "publish"} :
                  e \in todo'[p] <=> e \in todo[p]
    /\ \A p \in Request :
          pc'[p] # "working" => pc[p] # "working" \/ todo[p] = {}

LEMMA KeptTeam ==
    ASSUME TeamInv, KeepsTeam
    PROVE  TeamInv'
<1>1. \A p \in Request, s \in Session, e \in {"stats", "remove", "publish"} :
         Still(p, s, e) => Still(p, s, e)' /\ copy'[p] = copy[p]
  BY DEF KeepsTeam, Still
<1>2. UNCHANGED <<session, credits, solves, solvedChars, active, activeID, announced>>
  BY DEF KeepsTeam
<1>3. SolvesBooked'
  BY <1>1, <1>2 DEF TeamInv, SolvesBooked
<1>4. CreditsCounted'
  BY <1>2 DEF TeamInv, CreditsCounted, Credited
<1>5. SlotsFreed'
  <2>1. \A p \in Request : RemovalPlanned(p)' => "clear" \in todo'[p] \/ activeID' = None
    BY <1>2 DEF KeepsTeam, TeamInv, SlotsFreed, RemovalPlanned
  <2> QED BY <1>1, <1>2, <2>1 DEF TeamInv, SlotsFreed
<1>6. SolvesPublished'
  BY <1>1, <1>2 DEF TeamInv, SolvesPublished
<1>7. TeamPlans'
  BY DEF KeepsTeam, TeamInv, TeamPlans, TeamPlan, WritePlanned
<1> QED BY <1>3, <1>4, <1>5, <1>6, <1>7 DEF TeamInv

LEMMA HandlerTeam ==
    ASSUME TypeOK, TeamInv, NEW p \in Request, Handler(p)
    PROVE  TeamInv'
<1>1. PICK o \in Op, out \in Outcome :
         /\ Planned(p, o, out)
         /\ RecordStep(session[sid[p]], out.session)
         /\ BooksPlan(o, session[sid[p]], out)
  BY HandlerBooks
<1>2. /\ op'[p] = o /\ copy'[p] = out.session /\ todo'[p] = out.todo
      /\ pc'[p] = "working" /\ pc[p] = "locked"
      /\ \A q \in Request \ {p} : /\ op'[q] = op[q] /\ copy'[q] = copy[q]
                                  /\ todo'[q] = todo[q] /\ pc'[q] = pc[q]
      /\ UNCHANGED sid
  BY <1>1 DEF TypeOK, Planned
<1>3. UNCHANGED <<session, credits, solves, solvedChars, active, activeID, announced>>
  BY <1>1 DEF Planned, redis
<1>4. \A q \in Request, s \in Session, e \in {"stats", "remove", "publish"} :
         Still(q, s, e) => Still(q, s, e)' /\ copy'[q] = copy[q]
  BY <1>2 DEF Still
<1>5. SolvesBooked'
  BY <1>3, <1>4 DEF TeamInv, SolvesBooked
<1>6. CreditsCounted'
  BY <1>3 DEF TeamInv, CreditsCounted, Credited
<1>7. SlotsFreed'
  <2>1. "remove" \in out.todo => "clear" \in out.todo
    BY <1>1 DEF BooksPlan, BooksNothing, BooksSolve, BooksMiss, BooksReveal,
                BooksDecryption, TeamCommands
  <2>2. \A q \in Request : RemovalPlanned(q)' => "clear" \in todo'[q] \/ activeID' = None
    BY <1>2, <1>3, <2>1 DEF TeamInv, SlotsFreed, RemovalPlanned
  <2> QED BY <1>3, <1>4, <2>2 DEF TeamInv, SlotsFreed
<1>8. SolvesPublished'
  BY <1>3, <1>4 DEF TeamInv, SolvesPublished
<1>9. TeamPlans'
  <2>1. TeamPlan(p)'
    <3>1. session[sid[p]] \in SessionRecord
      BY <1>2 DEF TypeOK
    <3>2. out.session.target = session[sid[p]].target
      BY <1>1, <3>1, StepKeepsTarget
    <3>3. "stats" \in out.todo => out.session.correct /\ "write" \in out.todo
      BY <1>1 DEF BooksPlan, BooksNothing, BooksSolve, BooksMiss, BooksReveal,
                  BooksDecryption, TeamCommands
    <3>4. "publish" \in out.todo => o = "guess" /\ "write" \in out.todo
      BY <1>1 DEF BooksPlan, BooksNothing, BooksSolve, BooksMiss, BooksReveal,
                  BooksDecryption, TeamCommands
    <3>5. out.session.correct =>
             \/ session[sid[p]].correct
             \/ "stats" \in out.todo /\ (Stage = 1 => "publish" \in out.todo)
      <4>1. CASE BooksNothing(session[sid[p]], out)
        BY <4>1 DEF BooksNothing
      <4>2. CASE BooksSolve(session[sid[p]], out)
        BY <4>2 DEF BooksSolve
      <4>3. CASE BooksMiss(session[sid[p]], out)
        BY <4>3 DEF BooksMiss
      <4>4. CASE BooksReveal(session[sid[p]], out)
        BY <4>4 DEF BooksReveal
      <4>5. CASE BooksDecryption(session[sid[p]], out)
        <5>1. Stage # 1
          BY <4>5 DEF BooksDecryption
        <5> QED BY <4>5, <5>1 DEF BooksDecryption
      <4> QED BY <1>1, <4>1, <4>2, <4>3, <4>4, <4>5 DEF BooksPlan
    <3>6. out.session.completed => session[sid[p]].completed \/ "remove" \in out.todo
      BY <1>1 DEF BooksPlan, BooksNothing, BooksSolve, BooksMiss, BooksReveal,
                  BooksDecryption
    <3> QED BY <1>2, <1>3, <3>2, <3>3, <3>4, <3>5, <3>6 DEF TeamPlan, WritePlanned
  <2>2. \A q \in Request \ {p} : pc'[q] = "working" => TeamPlan(q)'
    BY <1>2, <1>3 DEF TeamInv, TeamPlans, TeamPlan, WritePlanned
  <2> QED BY <2>1, <2>2 DEF TeamPlans
<1> QED BY <1>5, <1>6, <1>7, <1>8, <1>9 DEF TeamInv

LEMMA WriteTeam ==
    ASSUME CalmInv, TeamInv, [Next]_vars, NEW p \in Request, WriteSession(p)
    PROVE  TeamInv'
<1>1. /\ UNCHANGED <<pc, sid, op, copy, credits, solves, solvedChars, active, activeID,
                     announced>>
      /\ todo' = [todo EXCEPT ![p] = @ \ {"write"}]
      /\ session' = [session EXCEPT ![sid[p]] = copy[p]]
      /\ pc[p] = "working" /\ "write" \in todo[p]
  BY DEF WriteSession, Issue, Due, team, sessions
<1>2. sid[p] \in Session /\ session'[sid[p]] = copy[p]
  BY <1>1 DEF CalmInv, AtomicInv, TypeOK
<1>3. \A s \in Session : s # sid[p] => session'[s] = session[s]
  BY <1>1 DEF CalmInv, AtomicInv, TypeOK
<1>4. \A q \in Request : q # p /\ pc[q] = "working" => sid[q] # sid[p] /\ sid[q] \in Session
  BY WriterAlone DEF CalmInv, AtomicInv, TypeOK
<1>5. /\ \A q \in Request : q # p => todo'[q] = todo[q]
      /\ todo'[p] = todo[p] \ {"write"}
  BY <1>1 DEF CalmInv, AtomicInv, TypeOK
<1>6. \A q \in Request, s \in Session, e \in {"stats", "remove", "publish"} :
         Still(q, s, e) => Still(q, s, e)'
  BY <1>1, <1>5 DEF Still
<1>7. \A s \in Session :
         /\ session'[s].target = session[s].target
         /\ session[s].correct => Closed(session'[s]) /\ session'[s].correct
         /\ session[s].completed => session'[s].completed
  <2> SUFFICES ASSUME NEW s \in Session
               PROVE  /\ session'[s].target = session[s].target
                      /\ session[s].correct => Closed(session'[s]) /\ session'[s].correct
                      /\ session[s].completed => session'[s].completed
    OBVIOUS
  <2>1. session[s] \in SessionRecord /\ RecordStep(session[s], session'[s])
    BY StoredSteps DEF CalmInv, AtomicInv, TypeOK
  <2>2. session[s].correct => Closed(session[s])
    BY DEF TeamInv, SolvesBooked
  <2> QED BY <2>1, <2>2, StepKeepsTarget, ClosedSteps, StepKeepsCompleted
<1>8. TeamPlan(p)
  BY <1>1 DEF TeamInv, TeamPlans
<1>9. copy[p].correct =>
         \/ session[sid[p]].correct
         \/ /\ Still(p, sid[p], "stats")' /\ Closed(copy[p])
            /\ Stage = 1 => Still(p, sid[p], "publish")'
  <2>1. "stats" \in todo[p] => Closed(copy[p])
    BY <1>1 DEF CalmInv, CreditInv, PlannedCredits, CreditPlanned
  <2> QED BY <1>1, <1>5, <1>8, <2>1 DEF TeamPlan, Still
<1>10. SolvesBooked'
  BY <1>1, <1>2, <1>3, <1>6, <1>7, <1>9 DEF TeamInv, SolvesBooked
<1>11. CreditsCounted'
  <2>1. Credited' = Credited
    BY <1>1 DEF Credited
  <2>2. {session'[s].target : s \in Credited} = {session[s].target : s \in Credited}
    BY <1>7 DEF Credited
  <2> QED BY <1>1, <2>1, <2>2 DEF TeamInv, CreditsCounted
<1>12. SlotsFreed'
  <2>1. copy[p].completed => session[sid[p]].completed \/ Still(p, sid[p], "remove")'
    BY <1>1, <1>5, <1>8 DEF TeamPlan, Still
  <2>2. \A s \in Session : session'[s].completed =>
           s \notin active \/ \E q \in Request : Still(q, s, "remove")'
    <3> SUFFICES ASSUME NEW s \in Session, session'[s].completed
                 PROVE  s \notin active \/ \E q \in Request : Still(q, s, "remove")'
      OBVIOUS
    <3>1. CASE session[s].completed
      BY <1>6, <3>1 DEF TeamInv, SlotsFreed
    <3>2. CASE ~session[s].completed
      <4>1. s = sid[p] /\ copy[p].completed
        BY <1>2, <1>3, <3>2
      <4>2. Still(p, sid[p], "remove")'
        BY <2>1, <3>2, <4>1
      <4>3. Still(p, s, "remove")'
        BY <1>1, <4>1, <4>2 DEF Still
      <4> QED BY <4>3
    <3> QED BY <3>1, <3>2
  <2>3. \A q \in Request : RemovalPlanned(q)' => "clear" \in todo'[q] \/ activeID' = None
    BY <1>1, <1>5 DEF TeamInv, SlotsFreed, RemovalPlanned
  <2> QED BY <1>1, <2>2, <2>3 DEF TeamInv, SlotsFreed
<1>13. SolvesPublished'
  <2>1. \A s \in announced : session'[s].correct
    BY <1>7 DEF TeamInv, SolvesPublished, CalmInv, AtomicInv, TypeOK
  <2>2. ASSUME Stage = 1, NEW s \in Session, session'[s].correct
        PROVE  s \in announced \/ \E q \in Request : Still(q, s, "publish")' /\ copy[q].correct
    <3>1. CASE session[s].correct
      BY <1>6, <2>2, <3>1 DEF TeamInv, SolvesPublished
    <3>2. CASE ~session[s].correct
      <4>1. s = sid[p] /\ copy[p].correct
        BY <1>2, <1>3, <2>2, <3>2
      <4>2. Still(p, sid[p], "publish")'
        BY <1>9, <2>2, <3>2, <4>1
      <4>3. Still(p, s, "publish")'
        BY <1>1, <4>1, <4>2 DEF Still
      <4> QED BY <4>1, <4>3
    <3> QED BY <3>1, <3>2
  <2> QED BY <1>1, <2>1, <2>2 DEF SolvesPublished
<1>14. TeamPlans'
  <2>1. TeamPlan(p)'
    BY <1>1, <1>2, <1>5, <1>8 DEF TeamPlan, WritePlanned
  <2>2. \A q \in Request : q # p /\ pc[q] = "working" => TeamPlan(q)'
    BY <1>1, <1>3, <1>4, <1>5 DEF TeamInv, TeamPlans, TeamPlan, WritePlanned
  <2> QED BY <1>1, <2>1, <2>2 DEF TeamPlans
<1> QED BY <1>10, <1>11, <1>12, <1>13, <1>14 DEF TeamInv

LEMMA StatsTeam ==
    ASSUME CalmInv, TeamInv, NEW p \in Request, UpdateTeamStats(p)
    PROVE  TeamInv'
<1>1. /\ UNCHANGED <<pc, sid, op, copy, session, active, activeID, announced>>
      /\ todo' = [todo EXCEPT ![p] = @ \ {"stats"}]
      /\ solves' = solves + 1 /\ solvedChars' = solvedChars \cup {copy[p].target}
      /\ credits' = [credits EXCEPT ![sid[p]] = @ + 1]
      /\ CreditPlanned(p)
  BY DEF UpdateTeamStats, Issue, Due, CreditPlanned, sessions
<1>2. ~WritePlanned(p)
  <2>1. op[p] \in {"guess", "decrypt"}
    BY <1>1 DEF CalmInv, CreditInv, PlannedCredits
  <2> QED BY <2>1, WriteBeforeStats DEF UpdateTeamStats, Issue, Due, WritePlanned
<1>3. /\ sid[p] \in Session /\ credits[sid[p]] = 0
      /\ session[sid[p]].correct /\ copy[p].target = session[sid[p]].target
  BY <1>1, <1>2 DEF CalmInv, AtomicInv, TypeOK, CreditInv, PlannedCredits, CreditPlanned,
                    TeamInv, TeamPlans, TeamPlan
<1>4. /\ credits'[sid[p]] = 1
      /\ \A s \in Session : s # sid[p] => credits'[s] = credits[s]
  BY <1>1, <1>3 DEF CalmInv, AtomicInv, TypeOK
<1>5. /\ \A q \in Request : q # p => todo'[q] = todo[q]
      /\ todo'[p] = todo[p] \ {"stats"}
  BY <1>1 DEF CalmInv, AtomicInv, TypeOK
<1>6. /\ \A q \in Request, s \in Session, e \in {"remove", "publish"} :
            Still(q, s, e) => Still(q, s, e)'
      /\ \A q \in Request, s \in Session :
            Still(q, s, "stats") => s = sid[p] \/ Still(q, s, "stats")'
  BY <1>1, <1>5 DEF Still
<1>7. SolvesBooked'
  BY <1>1, <1>3, <1>4, <1>6 DEF TeamInv, SolvesBooked
<1>8. CreditsCounted'
  <2>1. Credited' = Credited \cup {sid[p]} /\ sid[p] \notin Credited
    BY <1>3, <1>4 DEF Credited
  <2>2. PICK old : old = Credited
    OBVIOUS
  <2>3. /\ IsFiniteSet(old \cup {sid[p]})
        /\ Cardinality(old \cup {sid[p]}) = Cardinality(old) + 1
        /\ Cardinality(old) \in Nat
    BY <2>1, <2>2, FS_AddElement, FS_CardinalityType DEF TeamInv, CreditsCounted
  <2>4. solves + 1 = PriorSolves + (Cardinality(old) + 1)
    BY <2>2, <2>3, RulesAssumption DEF TeamInv, CreditsCounted
  <2>5. solvedChars' = {session[s].target : s \in old \cup {sid[p]}}
    BY <1>1, <1>3, <2>2 DEF TeamInv, CreditsCounted
  <2> QED BY <1>1, <2>1, <2>2, <2>3, <2>4, <2>5 DEF CreditsCounted
<1>9. SlotsFreed'
  <2>1. \A q \in Request : RemovalPlanned(q)' => "clear" \in todo'[q] \/ activeID' = None
    BY <1>1, <1>5 DEF TeamInv, SlotsFreed, RemovalPlanned
  <2> QED BY <1>1, <1>6, <2>1 DEF TeamInv, SlotsFreed
<1>10. SolvesPublished'
  BY <1>1, <1>6 DEF TeamInv, SolvesPublished
<1>11. TeamPlans'
  <2>1. TeamPlan(p)'
    <3>1. TeamPlan(p)
      BY <1>1 DEF TeamInv, TeamPlans, CreditPlanned
    <3> QED BY <1>1, <1>2, <1>3, <1>5, <3>1 DEF TeamPlan, WritePlanned, CreditPlanned
  <2>2. \A q \in Request : q # p /\ pc[q] = "working" => TeamPlan(q)'
    BY <1>1, <1>5 DEF TeamInv, TeamPlans, TeamPlan, WritePlanned
  <2> QED BY <1>1, <2>1, <2>2 DEF TeamPlans
<1> QED BY <1>7, <1>8, <1>9, <1>10, <1>11 DEF TeamInv

LEMMA ClearTeam ==
    ASSUME CalmInv, TeamInv, NEW p \in Request, ClearActiveSession(p)
    PROVE  TeamInv'
<1>1. /\ UNCHANGED <<pc, sid, op, copy, session, credits, solves, solvedChars, active,
                     announced>>
      /\ todo' = [todo EXCEPT ![p] = @ \ {"clear"}] /\ activeID' = None
  BY DEF ClearActiveSession, Issue, team
<1>2. \A q \in Request, e \in {"write", "stats", "remove", "publish"} :
         e \in todo'[q] <=> e \in todo[q]
  BY <1>1 DEF CalmInv, AtomicInv, TypeOK
<1>3. \A q \in Request, s \in Session, e \in {"stats", "remove", "publish"} :
         Still(q, s, e) => Still(q, s, e)'
  BY <1>1, <1>2 DEF Still
<1>4. SolvesBooked'
  BY <1>1, <1>3 DEF TeamInv, SolvesBooked
<1>5. CreditsCounted'
  BY <1>1 DEF TeamInv, CreditsCounted, Credited
<1>6. SlotsFreed'
  BY <1>1, <1>3 DEF TeamInv, SlotsFreed
<1>7. SolvesPublished'
  BY <1>1, <1>3 DEF TeamInv, SolvesPublished
<1>8. TeamPlans'
  BY <1>1, <1>2 DEF TeamInv, TeamPlans, TeamPlan, WritePlanned
<1> QED BY <1>4, <1>5, <1>6, <1>7, <1>8 DEF TeamInv

\* In the handlers that free a slot, active_session_id goes first.
LEMMA ClearBeforeRemove ==
    ASSUME NEW o \in {"guess", "reveal", "decrypt"}
    PROVE  Precedes(o, "clear", "remove")
<1>1. CASE o = "guess"
  <2>1. Order[o][5] = "clear" /\ Order[o][6] = "remove" /\ {5, 6} \subseteq DOMAIN Order[o]
    BY <1>1 DEF Order
  <2> QED BY <2>1 DEF Precedes
<1>2. CASE o = "reveal"
  <2>1. Order[o][4] = "clear" /\ Order[o][5] = "remove" /\ {4, 5} \subseteq DOMAIN Order[o]
    BY <1>2 DEF Order
  <2> QED BY <2>1 DEF Precedes
<1>3. CASE o = "decrypt"
  <2>1. Order[o][7] = "clear" /\ Order[o][8] = "remove" /\ {7, 8} \subseteq DOMAIN Order[o]
    BY <1>3 DEF Order
  <2> QED BY <2>1 DEF Precedes
<1> QED BY <1>1, <1>2, <1>3

LEMMA RemoveTeam ==
    ASSUME CalmInv, TeamInv, NEW p \in Request, RemoveActiveSession(p)
    PROVE  TeamInv'
<1>1. /\ UNCHANGED <<pc, sid, op, copy, session, credits, solves, solvedChars, activeID,
                     announced>>
      /\ todo' = [todo EXCEPT ![p] = @ \ {"remove"}]
      /\ active' = active \ {sid[p]}
      /\ RemovalPlanned(p)
  BY DEF RemoveActiveSession, Issue, Due, RemovalPlanned, team
<1>2. op[p] \in {"guess", "reveal", "decrypt"}
  BY <1>1 DEF CalmInv, SlotInv, PlannedRemovals
<1>3. /\ \A q \in Request : q # p => todo'[q] = todo[q]
      /\ todo'[p] = todo[p] \ {"remove"}
  BY <1>1 DEF CalmInv, AtomicInv, TypeOK
<1>4. /\ \A q \in Request, s \in Session, e \in {"stats", "publish"} :
            Still(q, s, e) => Still(q, s, e)'
      /\ \A q \in Request, s \in Session :
            Still(q, s, "remove") => s = sid[p] \/ Still(q, s, "remove")'
  BY <1>1, <1>3 DEF Still
<1>5. SolvesBooked'
  BY <1>1, <1>4 DEF TeamInv, SolvesBooked
<1>6. CreditsCounted'
  BY <1>1 DEF TeamInv, CreditsCounted, Credited
<1>7. SlotsFreed'
  <2>1. "clear" \notin todo[p]
    BY <1>2, ClearBeforeRemove DEF RemoveActiveSession, Issue, Due
  <2>2. activeID = None
    BY <1>1, <2>1 DEF TeamInv, SlotsFreed
  <2>3. \A s \in Session : session'[s].completed =>
           s \notin active' \/ \E q \in Request : Still(q, s, "remove")'
    BY <1>1, <1>4 DEF TeamInv, SlotsFreed
  <2> QED BY <1>1, <2>2, <2>3 DEF SlotsFreed
<1>8. SolvesPublished'
  BY <1>1, <1>4 DEF TeamInv, SolvesPublished
<1>9. TeamPlans'
  <2>1. ~WritePlanned(p)
    BY <1>2, WriteBeforeRemove DEF RemoveActiveSession, Issue, Due, WritePlanned
  <2>2. TeamPlan(p)'
    <3>1. TeamPlan(p) /\ pc[p] = "working"
      BY <1>1 DEF TeamInv, TeamPlans, RemovalPlanned
    <3> QED BY <1>1, <1>3, <2>1, <3>1 DEF TeamPlan, WritePlanned
  <2>3. \A q \in Request : q # p /\ pc[q] = "working" => TeamPlan(q)'
    BY <1>1, <1>3 DEF TeamInv, TeamPlans, TeamPlan, WritePlanned
  <2> QED BY <1>1, <2>2, <2>3 DEF TeamPlans
<1> QED BY <1>5, <1>6, <1>7, <1>8, <1>9 DEF TeamInv

LEMMA PublishTeam ==
    ASSUME CalmInv, TeamInv, NEW p \in Request, PublishGameUpdate(p)
    PROVE  TeamInv'
<1>1. /\ UNCHANGED <<pc, sid, op, copy, session, credits, solves, solvedChars, activeID,
                     active>>
      /\ todo' = [todo EXCEPT ![p] = @ \ {"publish"}]
      /\ announced' = IF copy[p].correct THEN announced \cup {sid[p]} ELSE announced
      /\ pc[p] = "working" /\ "publish" \in todo[p]
  BY DEF PublishGameUpdate, Issue, Due, team
<1>2. op[p] = "guess" /\ TeamPlan(p)
  BY <1>1 DEF TeamInv, TeamPlans, TeamPlan
<1>3. ~WritePlanned(p)
  <2>1. /\ Order["guess"][3] = "write" /\ Order["guess"][11] = "publish"
        /\ {3, 11} \subseteq DOMAIN Order["guess"]
    BY DEF Order
  <2>2. Precedes("guess", "write", "publish")
    BY <2>1 DEF Precedes
  <2> QED BY <1>2, <2>2 DEF PublishGameUpdate, Issue, Due, WritePlanned
<1>4. sid[p] \in Session /\ (copy[p].correct => session[sid[p]].correct)
  BY <1>1, <1>2, <1>3 DEF CalmInv, AtomicInv, TypeOK, TeamPlan
<1>5. /\ \A q \in Request : q # p => todo'[q] = todo[q]
      /\ todo'[p] = todo[p] \ {"publish"}
  BY <1>1 DEF CalmInv, AtomicInv, TypeOK
<1>6. /\ \A q \in Request, s \in Session, e \in {"stats", "remove"} :
            Still(q, s, e) => Still(q, s, e)'
      /\ \A q \in Request, s \in Session :
            Still(q, s, "publish") /\ copy[q].correct =>
               \/ s \in announced'
               \/ Still(q, s, "publish")' /\ copy'[q].correct
  BY <1>1, <1>5 DEF Still
<1>7. SolvesBooked'
  BY <1>1, <1>6 DEF TeamInv, SolvesBooked
<1>8. CreditsCounted'
  BY <1>1 DEF TeamInv, CreditsCounted, Credited
<1>9. SlotsFreed'
  <2>1. \A q \in Request : RemovalPlanned(q)' => "clear" \in todo'[q] \/ activeID' = None
    BY <1>1, <1>5 DEF TeamInv, SlotsFreed, RemovalPlanned
  <2> QED BY <1>1, <1>6, <2>1 DEF TeamInv, SlotsFreed
<1>10. SolvesPublished'
  <2>1. announced \subseteq announced' /\ \A s \in announced' : session[s].correct
    BY <1>1, <1>4 DEF TeamInv, SolvesPublished
  <2> QED BY <1>1, <1>6, <2>1 DEF TeamInv, SolvesPublished
<1>11. TeamPlans'
  <2>1. TeamPlan(p)'
    BY <1>1, <1>2, <1>3, <1>5 DEF TeamPlan, WritePlanned
  <2>2. \A q \in Request : q # p /\ pc[q] = "working" => TeamPlan(q)'
    BY <1>1, <1>5 DEF TeamInv, TeamPlans, TeamPlan, WritePlanned
  <2> QED BY <1>1, <2>1, <2>2 DEF TeamPlans
<1> QED BY <1>7, <1>8, <1>9, <1>10, <1>11 DEF TeamInv

\* The pipeline's halves and the awards touch nothing of this.
LEMMA PointsTeam ==
    ASSUME CalmInv, NEW p \in Request, Command(p), ~WriteSession(p), ~UpdateTeamStats(p),
           ~ClearActiveSession(p), ~RemoveActiveSession(p), ~PublishGameUpdate(p)
    PROVE  KeepsTeam
<1>1. PICK e \in Effect \ {"write", "stats", "clear", "remove", "publish"} :
         Issued(p, e) /\ (\/ IncrementScore(p) \/ IncrementBoard(p)
                          \/ \E m \in Milestone : AwardIfAbsent(p, m))
  <2>1. {"write", "stats", "clear", "remove", "publish"} \cap Milestone = {}
    BY DEF Milestone
  <2> QED BY <2>1, CommandKinds DEF CalmInv, AtomicInv
<1>2. UNCHANGED <<session, credits, solves, solvedChars, active, activeID, announced>>
  BY <1>1 DEF IncrementScore, IncrementBoard, AwardIfAbsent, sessions
<1>3. /\ UNCHANGED <<pc, sid, op, copy>> /\ pc[p] = "working"
      /\ todo' = [todo EXCEPT ![p] = @ \ {e}]
  BY <1>1 DEF Issued, Due
<1>4. \A q \in Request, f \in {"write", "stats", "clear", "remove", "publish"} :
         f \in todo'[q] <=> f \in todo[q]
  BY <1>3 DEF CalmInv, AtomicInv, TypeOK
<1>5. \A q \in Request : pc'[q] # "working" => pc[q] # "working" \/ todo[q] = {}
  BY <1>3
<1> QED BY <1>2, <1>3, <1>4, <1>5 DEF KeepsTeam

LEMMA NextTeam ==
    ASSUME CalmInv, TeamInv, [Next]_vars, faults' = faults
    PROVE  TeamInv'
<1>1. CASE \E p \in Request : Handler(p)
  BY <1>1, HandlerTeam DEF CalmInv, AtomicInv
<1>2. CASE \E p \in Request : Command(p)
  BY <1>2, WriteTeam, StatsTeam, ClearTeam, RemoveTeam, PublishTeam, PointsTeam, KeptTeam
<1>3. CASE \E p \in Request : CommandFails(p)
  BY <1>3, CalmSteps DEF CalmInv, AtomicInv
<1>4. CASE Quiet /\ PlanEnds
  <2>1. KeepsTeam
    BY <1>4 DEF Quiet, PlanEnds, KeepsTeam, team, sessions
  <2> QED BY <2>1, KeptTeam
<1> QED BY <1>1, <1>2, <1>3, <1>4, StepEnds DEF CalmInv, AtomicInv

\* Faults are only ever counted up.
LEMMA FaultsGrow ==
    ASSUME TypeOK, [Next]_vars, faults' = 0
    PROVE  faults = 0
<1>1. faults' = faults \/ faults' = faults + 1
  <2>1. ASSUME NEW p \in Request, Handler(p) PROVE faults' = faults
    BY <2>1, HandlerPlans DEF Planned
  <2>2. ASSUME NEW p \in Request, Command(p) PROVE faults' = faults
    BY <2>2, CommandKinds DEF Issued
  <2>3. ASSUME NEW p \in Request,
               Acquire(p) \/ Retry(p) \/ Contention(p) \/ Release(p)
        PROVE  faults' = faults
    BY <2>3 DEF Acquire, Retry, Contention, Release
  <2>4. ASSUME NEW p \in Request, Abort(p) \/ CommandFails(p) PROVE faults' = faults + 1
    BY <2>4 DEF Abort, CommandFails
  <2>5. ASSUME NEW s \in Session, LockExpires(s) PROVE faults' = faults
    BY <2>5 DEF LockExpires
  <2>6. ASSUME NEW s \in Session, LeaseEnds(s) PROVE faults' = faults + 1
    BY <2>6 DEF LeaseEnds
  <2>7. ASSUME UNCHANGED vars PROVE faults' = faults
    BY <2>7 DEF vars
  <2>8. ASSUME NEW p \in Request, NEW s \in Session, Begin(p, s) PROVE faults' = faults
    BY <2>8 DEF Begin
  <2> QED BY <2>1, <2>2, <2>3, <2>4, <2>5, <2>6, <2>7, <2>8 DEF Next, Serve, Handler
<1> QED BY <1>1 DEF TypeOK

LEMMA InitTeam == Init => CalmInv /\ TeamInv
<1> SUFFICES ASSUME Init PROVE CalmInv /\ TeamInv
  OBVIOUS
<1>1. AtomicInv
  BY InitAtomic
<1>2. CreditInv /\ SlotInv /\ PlansWorking
  BY DEF Init, CreditInv, CreditedClosed, PlannedCredits, PlannedWrites, CreditPlanned,
         WritePlanned, SlotInv, FreedCompleted, PlannedRemovals, RemovalPlanned,
         PlansWorking
<1>3. \A s \in Session : ~session[s].correct /\ ~session[s].completed
  BY DEF Init, Fresh, NewSession
<1>4. SolvesBooked /\ SlotsFreed /\ SolvesPublished /\ TeamPlans
  BY <1>3 DEF Init, SolvesBooked, SlotsFreed, SolvesPublished, TeamPlans, RemovalPlanned
<1>5. CreditsCounted
  <2>1. Credited = {}
    BY DEF Init, Credited
  <2>2. solves = PriorSolves + 0
    BY RulesAssumption DEF Init
  <2> QED BY <2>1, <2>2, FS_EmptySet DEF Init, CreditsCounted
<1> QED BY <1>1, <1>2, <1>4, <1>5 DEF CalmInv, TeamInv

LEMMA SettledTeam ==
    ASSUME CalmInv, TeamInv, \A p \in Request : ~Live(p)
    PROVE  /\ solves = PriorSolves + Cardinality(SolvedSessions)
           /\ solvedChars = {session[s].target : s \in SolvedSessions}
           /\ active = {s \in Session : ~session[s].completed}
           /\ activeID # None => activeID \in active
           /\ announced \subseteq SolvedSessions
           /\ Stage = 1 => announced = SolvedSessions
<1>1. \A p \in Request, s \in Session : \A e : ~Still(p, s, e)
  BY DEF Live, Still
<1>2. Credited = SolvedSessions
  BY <1>1 DEF TeamInv, SolvesBooked, Credited, SolvedSessions
<1>3. active = {s \in Session : ~session[s].completed}
  BY <1>1 DEF TeamInv, SlotsFreed, CalmInv, SlotInv, FreedCompleted, AtomicInv, TypeOK
<1>4. activeID # None => activeID \in active
  BY DEF TeamInv, SlotsFreed, CalmInv, AtomicInv, TypeOK
<1>5. announced \subseteq SolvedSessions
  BY DEF TeamInv, SolvesPublished, SolvedSessions, CalmInv, AtomicInv, TypeOK
<1>6. Stage = 1 => SolvedSessions \subseteq announced
  BY <1>1 DEF TeamInv, SolvesPublished, SolvedSessions
<1> QED BY <1>2, <1>3, <1>4, <1>5, <1>6 DEF TeamInv, CreditsCounted

\* Once the requests are over and nothing failed, the team's solves, solved
\* characters, slots, current session and published updates are those of the
\* stored sessions; what happens after a fault is not claimed.
THEOREM TeamFollowsSessions == Spec => []TeamAgreesWithSessions
<1> DEFINE Calm == faults = 0 => CalmInv /\ TeamInv
<1>1. Init => Calm
  BY InitTeam
<1>2. TypeOK /\ Calm /\ [Next]_vars => Calm'
  BY FaultsGrow, NextCalm, NextTeam
<1>3. Calm => TeamAgreesWithSessions
  BY SettledTeam DEF TeamAgreesWithSessions, Settled
<1> HIDE DEF Calm
<1> QED BY <1>1, <1>2, <1>3, TypeCorrect, PTL DEF Spec
-----------------------------------------------------------------------------
(* The score, in Stage 1 and while no fault has happened.  A penalty is      *)
(* booked before the record that shows it is stored: in between, the request *)
(* is ahead of its record.                                                   *)

Penalties == {-WrongGuessPenalty, -RevealPenalty}

OpenRecord(r) ==
    ~r.pending /\ (~r.completed => r.guesses > 0 /\ r.target \notin r.guessed /\ ~r.correct)

\* What the record n that a request stores over r shows for its points x.
PricedStep(r, n, x) ==
    \/ /\ x = -WrongGuessPenalty
       /\ ~r.completed /\ r.guesses > 0 /\ n.guesses = r.guesses - 1
       /\ n.completed => n.guesses = 0
    \/ /\ x = -RevealPenalty
       /\ ~r.completed /\ n.completed /\ ~n.correct /\ n.guesses > 0 /\ n.guesses = r.guesses
    \/ /\ x \notin Penalties /\ n.guesses = r.guesses
       /\ \/ n.completed = r.completed /\ n.correct = r.correct
          \/ ~r.completed /\ n.correct

\* The plan of a handler in Stage 1.
PricedPlan(o, r, out) ==
    /\ OpenRecord(out.session) /\ PricedStep(r, out.session, out.points)
    /\ out.points \in Penalties => "score" \in out.todo
    /\ "score" \in out.todo =>
          "write" \in out.todo /\ o \in {"guess", "reveal"} /\ out.points \in Penalties
    /\ "stats" \in out.todo => out.points = SolveScore

LEMMA PenaltiesDiffer ==
    /\ -WrongGuessPenalty \in Int /\ -RevealPenalty \in Int
    /\ -WrongGuessPenalty # -RevealPenalty
    /\ SolveScore \notin Penalties /\ 0 \notin Penalties
  BY RulesAssumption DEF Penalties, WrongGuessPenalty, RevealPenalty

LEMMA OpenSteps ==
    ASSUME Stage = 1, NEW r \in SessionRecord, OpenRecord(r), NEW n \in SessionRecord,
           RecordStep(r, n)
    PROVE  ~n.pending /\ (~n.completed => n.target \notin n.guessed /\ ~n.correct)
<1>1. Stage # 2
  OBVIOUS
<1>2. CASE n = r
  BY <1>2 DEF OpenRecord
<1>3. CASE ChaosStep(r, n) \/ RevealStep(r, n)
  BY <1>3 DEF OpenRecord, ChaosStep, RevealStep, SessionRecord
<1>4. CASE AskStep(r, n)
  BY <1>4 DEF OpenRecord, AskStep
<1>5. CASE GuessStep(r, n)
  BY <1>1, <1>5 DEF OpenRecord, GuessStep, SameAnswers
<1> QED BY <1>1, <1>2, <1>3, <1>4, <1>5 DEF RecordStep, DecryptStep

LEMMA PricedBooks ==
    ASSUME Stage = 1, NEW r \in SessionRecord, OpenRecord(r), NEW out \in Outcome,
           RecordStep(r, out.session), NEW o, BooksPlan(o, r, out)
    PROVE  PricedPlan(o, r, out)
<1>1. out.session \in SessionRecord /\ r.guesses \in Int
  BY DEF Outcome, SessionRecord
<1>2. ~out.session.pending /\
      (~out.session.completed => out.session.target \notin out.session.guessed
                                    /\ ~out.session.correct)
  BY <1>1, OpenSteps
<1>3. CASE BooksNothing(r, out)
  <2>1. out.session.guesses = r.guesses /\ out.session.completed = r.completed
        /\ out.session.correct = r.correct /\ out.points \notin Penalties
    BY <1>3, PenaltiesDiffer DEF BooksNothing
  <2>2. OpenRecord(out.session)
    BY <1>2, <2>1 DEF OpenRecord
  <2>3. "score" \notin out.todo /\ "stats" \notin out.todo
    BY <1>3 DEF BooksNothing, TeamCommands
  <2> QED BY <2>1, <2>2, <2>3 DEF PricedPlan, PricedStep
<1>4. CASE BooksSolve(r, out)
  <2>1. out.points = SolveScore /\ out.points \notin Penalties
    BY <1>4, PenaltiesDiffer DEF BooksSolve
  <2>2. /\ out.session.completed /\ out.session.correct /\ ~r.completed
        /\ out.session.guesses = r.guesses /\ "score" \notin out.todo
    BY <1>4 DEF BooksSolve
  <2>3. OpenRecord(out.session)
    BY <1>2, <2>2 DEF OpenRecord
  <2> QED BY <2>1, <2>2, <2>3 DEF PricedPlan, PricedStep
<1>5. CASE o = "guess" /\ BooksMiss(r, out)
  <2>1. /\ out.points = -WrongGuessPenalty /\ out.points \in Penalties
        /\ "score" \in out.todo /\ "write" \in out.todo /\ "stats" \notin out.todo
    BY <1>5 DEF BooksMiss, Penalties
  <2>2. ~r.completed /\ r.guesses > 0 /\ out.session.guesses = r.guesses - 1
    BY <1>5 DEF BooksMiss
  <2>3. /\ out.session.completed => out.session.guesses = 0
        /\ ~out.session.completed => out.session.guesses > 0
    BY <1>5, <2>2 DEF BooksMiss, OpenRecord
  <2>4. OpenRecord(out.session)
    BY <1>2, <2>3 DEF OpenRecord
  <2> QED BY <1>5, <2>1, <2>2, <2>3, <2>4 DEF PricedPlan, PricedStep
<1>6. CASE o = "reveal" /\ BooksReveal(r, out)
  <2>1. /\ out.points = -RevealPenalty /\ out.points \in Penalties
        /\ "score" \in out.todo /\ "write" \in out.todo /\ "stats" \notin out.todo
    BY <1>6 DEF BooksReveal, Penalties
  <2>2. /\ ~r.completed /\ out.session.completed /\ ~out.session.correct
        /\ out.session.guesses = r.guesses /\ out.session.guesses > 0
    BY <1>6 DEF BooksReveal, OpenRecord
  <2>3. OpenRecord(out.session)
    BY <1>2, <2>2 DEF OpenRecord
  <2> QED BY <1>6, <2>1, <2>2, <2>3 DEF PricedPlan, PricedStep
<1>7. ~BooksDecryption(r, out)
  BY DEF BooksDecryption
<1> QED BY <1>3, <1>4, <1>5, <1>6, <1>7 DEF BooksPlan

\* The bonuses by amount.
EarnedAt(b) == {m \in milestones \ PriorMilestones : Bonus(m) = b}

LEMMA EarnedFinite ==
    ASSUME TypeOK, NEW b
    PROVE  IsFiniteSet(EarnedAt(b)) /\ Cardinality(EarnedAt(b)) \in Nat
<1>1. IsFiniteSet({"M1", "M2", "M3"}) /\ IsFiniteSet({"M4", "M5", "SP1"})
      /\ IsFiniteSet({"S1", "S2", "S3"})
  <2>1. ASSUME NEW x, NEW y, NEW z PROVE IsFiniteSet({x, y, z})
    <3>1. IsFiniteSet({x} \cup {y})
      BY FS_Singleton, FS_Union
    <3>2. IsFiniteSet(({x} \cup {y}) \cup {z})
      BY <3>1, FS_AddElement
    <3>3. {x, y, z} = ({x} \cup {y}) \cup {z}
      OBVIOUS
    <3> QED BY <3>2, <3>3
  <2> QED BY <2>1
<1>2. Milestone = {"M1", "M2", "M3"} \cup ({"M4", "M5", "SP1"} \cup {"S1", "S2", "S3"})
  BY DEF Milestone
<1>3. IsFiniteSet(Milestone)
  BY <1>1, <1>2, FS_Union
<1>4. EarnedAt(b) \subseteq Milestone
  BY DEF EarnedAt, TypeOK
<1> QED BY <1>3, <1>4, FS_Subset, FS_CardinalityType

LEMMA EarnedBonusType ==
    ASSUME TypeOK
    PROVE  /\ EarnedBonus \in Int
           /\ EarnedBonus = 1000 * Cardinality(EarnedAt(1000))
                               + 2000 * Cardinality(EarnedAt(2000))
                               + 4000 * Cardinality(EarnedAt(4000))
<1>1. EarnedBonus = 1000 * Cardinality(EarnedAt(1000)) + 2000 * Cardinality(EarnedAt(2000))
                       + 4000 * Cardinality(EarnedAt(4000))
  BY DEF EarnedBonus, EarnedAt
<1>2. /\ Cardinality(EarnedAt(1000)) \in Nat /\ Cardinality(EarnedAt(2000)) \in Nat
      /\ Cardinality(EarnedAt(4000)) \in Nat
  BY EarnedFinite
<1> QED BY <1>1, <1>2

Ahead(x) ==
    {p \in Request : /\ pc[p] = "working" /\ points[p] = x
                     /\ "write" \in todo[p] /\ "score" \notin todo[p]}

OpenRecords == \A s \in Session : OpenRecord(session[s])

ScorePlan(p) ==
    /\ "score" \in todo[p] =>
          "write" \in todo[p] /\ op[p] \in {"guess", "reveal"} /\ points[p] \in Penalties
    /\ "stats" \in todo[p] => points[p] = SolveScore
    /\ "write" \in todo[p] =>
          OpenRecord(copy[p]) /\ PricedStep(session[sid[p]], copy[p], points[p])

ScorePlans == \A p \in Request : pc[p] = "working" => ScorePlan(p)

CountsFinite ==
    /\ IsFiniteSet(WrongGuesses) /\ IsFiniteSet(RevealedSessions)
    /\ \A x \in Penalties : IsFiniteSet(Ahead(x))

\* What milestones, wrong guesses and reveals amount to.
Sundries ==
    EarnedBonus
       - WrongGuessPenalty
            * (Cardinality(WrongGuesses) + Cardinality(Ahead(-WrongGuessPenalty)))
       - RevealPenalty
            * (Cardinality(RevealedSessions) + Cardinality(Ahead(-RevealPenalty)))

ScoreBooked == score = SolveScore * Cardinality(Credited) + Sundries

ScoreInv == /\ OpenRecords /\ ScorePlans /\ CountsFinite /\ ScoreBooked
            /\ PriorMilestones \subseteq milestones

LEMMA SundriesType ==
    ASSUME TypeOK, CountsFinite
    PROVE  Sundries \in Int
<1>1. /\ Cardinality(Ahead(-WrongGuessPenalty)) \in Nat
      /\ Cardinality(Ahead(-RevealPenalty)) \in Nat
      /\ Cardinality(WrongGuesses) \in Nat /\ Cardinality(RevealedSessions) \in Nat
  BY FS_CardinalityType DEF CountsFinite, Penalties
<1> QED BY <1>1, EarnedBonusType DEF Sundries, WrongGuessPenalty, RevealPenalty

\* Steps that move neither points nor records.
LEMMA KeptScore ==
    ASSUME ScoreInv, UNCHANGED <<session, credits, score, milestones>>, ScorePlans',
           \A x \in Penalties : Ahead(x)' = Ahead(x)
    PROVE  ScoreInv'
<1>1. /\ Credited' = Credited /\ WrongGuesses' = WrongGuesses
      /\ RevealedSessions' = RevealedSessions
  BY DEF Credited, WrongGuesses, RevealedSessions
<1>2. EarnedBonus' = EarnedBonus
  BY DEF EarnedBonus
<1>3. CountsFinite'
  BY <1>1 DEF ScoreInv, CountsFinite
<1>4. ScoreBooked'
  BY <1>1, <1>2 DEF ScoreInv, ScoreBooked, Sundries, Penalties
<1>5. OpenRecords'
  BY DEF ScoreInv, OpenRecords
<1> QED BY <1>3, <1>4, <1>5 DEF ScoreInv

LEMMA HandlerScore ==
    ASSUME Stage = 1, TypeOK, ScoreInv, NEW p \in Request, Handler(p)
    PROVE  ScoreInv'
<1>1. PICK o \in Op, out \in Outcome :
         /\ Planned(p, o, out)
         /\ RecordStep(session[sid[p]], out.session)
         /\ BooksPlan(o, session[sid[p]], out)
  BY HandlerBooks
<1>2. /\ op'[p] = o /\ copy'[p] = out.session /\ todo'[p] = out.todo
      /\ points'[p] = out.points
      /\ pc'[p] = "working" /\ pc[p] = "locked"
      /\ \A q \in Request \ {p} : /\ op'[q] = op[q] /\ copy'[q] = copy[q]
                                  /\ points'[q] = points[q]
                                  /\ todo'[q] = todo[q] /\ pc'[q] = pc[q]
      /\ UNCHANGED <<sid, session, credits, score, milestones>>
  BY <1>1 DEF TypeOK, Planned, redis
<1>3. PricedPlan(o, session[sid[p]], out)
  <2>1. session[sid[p]] \in SessionRecord /\ OpenRecord(session[sid[p]])
    BY <1>2 DEF TypeOK, ScoreInv, OpenRecords
  <2> QED BY <1>1, <2>1, PricedBooks
<1>4. ScorePlans'
  <2>1. ScorePlan(p)'
    BY <1>2, <1>3 DEF PricedPlan, ScorePlan
  <2>2. \A q \in Request \ {p} : pc'[q] = "working" => ScorePlan(q)'
    BY <1>2 DEF ScoreInv, ScorePlans, ScorePlan
  <2> QED BY <2>1, <2>2 DEF ScorePlans
<1>5. \A x \in Penalties : Ahead(x)' = Ahead(x)
  <2> SUFFICES ASSUME NEW x \in Penalties PROVE Ahead(x)' = Ahead(x)
    OBVIOUS
  <2>1. p \notin Ahead(x) /\ p \notin Ahead(x)'
    BY <1>2, <1>3 DEF PricedPlan, Ahead
  <2>2. \A q \in Request \ {p} : q \in Ahead(x)' <=> q \in Ahead(x)
    BY <1>2 DEF Ahead
  <2>3. Ahead(x) \subseteq Request /\ Ahead(x)' \subseteq Request
    BY DEF Ahead
  <2> QED BY <2>1, <2>2, <2>3
<1> QED BY <1>2, <1>4, <1>5, KeptScore

\* A penalty is booked: its request gets ahead of the record.
LEMMA PenaltyScore ==
    ASSUME CalmInv, TeamInv, ScoreInv, NEW p \in Request, IncrementScore(p)
    PROVE  ScoreInv'
<1>1. /\ UNCHANGED <<pc, sid, op, copy, points, session, credits, milestones>>
      /\ todo' = [todo EXCEPT ![p] = @ \ {"score"}] /\ score' = score + points[p]
      /\ pc[p] = "working" /\ "score" \in todo[p]
  BY DEF IncrementScore, Issue, Due
<1>2. PICK x \in Penalties : points[p] = x
  BY <1>1 DEF ScoreInv, ScorePlans, ScorePlan
<1>3. /\ \A q \in Request : q # p => todo'[q] = todo[q]
      /\ todo'[p] = todo[p] \ {"score"} /\ "write" \in todo[p]
  BY <1>1 DEF CalmInv, AtomicInv, TypeOK, ScoreInv, ScorePlans, ScorePlan
<1>4. ScorePlans'
  BY <1>1, <1>3 DEF ScoreInv, ScorePlans, ScorePlan
<1>5. OpenRecords'
  BY <1>1 DEF ScoreInv, OpenRecords
<1>6. Ahead(x)' = Ahead(x) \cup {p} /\ p \notin Ahead(x)
  BY <1>1, <1>2, <1>3 DEF Ahead
<1>7. \A y : y # x => Ahead(y)' = Ahead(y)
  BY <1>1, <1>2, <1>3 DEF Ahead
<1>8. IsFiniteSet(Ahead(x)') /\ Cardinality(Ahead(x)') = Cardinality(Ahead(x)) + 1
  BY <1>6, FS_AddElement DEF ScoreInv, CountsFinite
<1>9. /\ Credited' = Credited /\ WrongGuesses' = WrongGuesses
      /\ RevealedSessions' = RevealedSessions /\ EarnedBonus' = EarnedBonus
  BY <1>1 DEF Credited, WrongGuesses, RevealedSessions, EarnedBonus
<1>10. CountsFinite'
  BY <1>7, <1>8, <1>9 DEF ScoreInv, CountsFinite
<1>11. ScoreBooked'
  <2>1. /\ Cardinality(Ahead(-WrongGuessPenalty)) \in Nat
        /\ Cardinality(Ahead(-RevealPenalty)) \in Nat
        /\ Cardinality(WrongGuesses) \in Nat /\ Cardinality(RevealedSessions) \in Nat
    BY FS_CardinalityType DEF ScoreInv, CountsFinite, Penalties
  <2>2. PICK k : k = SolveScore * Cardinality(Credited)
    OBVIOUS
  <2>3. k \in Int /\ EarnedBonus \in Int
    <3>1. Cardinality(Credited) \in Nat
      BY FS_CardinalityType DEF TeamInv, CreditsCounted
    <3> QED BY <2>2, <3>1, EarnedBonusType, RulesAssumption DEF CalmInv, AtomicInv
  <2>4. CASE x = -WrongGuessPenalty
    <3>1. /\ Cardinality(Ahead(-WrongGuessPenalty)')
                = Cardinality(Ahead(-WrongGuessPenalty)) + 1
          /\ Ahead(-RevealPenalty)' = Ahead(-RevealPenalty)
      BY <1>7, <1>8, <2>4, PenaltiesDiffer
    <3>2. score' = score - WrongGuessPenalty
      BY <1>1, <1>2, <2>4 DEF CalmInv, AtomicInv, TypeOK, WrongGuessPenalty
    <3> QED BY <1>9, <2>1, <2>2, <2>3, <3>1, <3>2
            DEF ScoreInv, ScoreBooked, Sundries, WrongGuessPenalty, RevealPenalty
  <2>5. CASE x = -RevealPenalty
    <3>1. /\ Cardinality(Ahead(-RevealPenalty)') = Cardinality(Ahead(-RevealPenalty)) + 1
          /\ Ahead(-WrongGuessPenalty)' = Ahead(-WrongGuessPenalty)
      BY <1>7, <1>8, <2>5, PenaltiesDiffer
    <3>2. score' = score - RevealPenalty
      BY <1>1, <1>2, <2>5 DEF CalmInv, AtomicInv, TypeOK, RevealPenalty
    <3> QED BY <1>9, <2>1, <2>2, <2>3, <3>1, <3>2
            DEF ScoreInv, ScoreBooked, Sundries, WrongGuessPenalty, RevealPenalty
  <2> QED BY <2>4, <2>5 DEF Penalties
<1> QED BY <1>1, <1>4, <1>5, <1>10, <1>11 DEF ScoreInv

\* A record is stored: the guesses it no longer has, or the reveal it shows,
\* take the place of the request that was ahead.
LEMMA WriteScore ==
    ASSUME CalmInv, ScoreInv, NEW p \in Request, WriteSession(p)
    PROVE  ScoreInv'
<1>1. /\ UNCHANGED <<pc, sid, op, copy, points, credits, score, milestones>>
      /\ todo' = [todo EXCEPT ![p] = @ \ {"write"}]
      /\ session' = [session EXCEPT ![sid[p]] = copy[p]]
      /\ pc[p] = "working" /\ "write" \in todo[p]
  BY DEF WriteSession, Issue, Due, team
<1>2. sid[p] \in Session /\ session'[sid[p]] = copy[p]
      /\ session[sid[p]] \in SessionRecord /\ copy[p] \in SessionRecord
  BY <1>1 DEF CalmInv, AtomicInv, TypeOK
<1>3. \A s \in Session : s # sid[p] => session'[s] = session[s]
  BY <1>1 DEF CalmInv, AtomicInv, TypeOK
<1>4. \A q \in Request : q # p /\ pc[q] = "working" => sid[q] # sid[p] /\ sid[q] \in Session
  BY WriterAlone DEF CalmInv, AtomicInv, TypeOK
<1>5. /\ \A q \in Request : q # p => todo'[q] = todo[q]
      /\ todo'[p] = todo[p] \ {"write"}
  BY <1>1 DEF CalmInv, AtomicInv, TypeOK
<1>6. ScorePlan(p)
  BY <1>1 DEF ScoreInv, ScorePlans
<1>7. "score" \notin todo[p]
  <2>1. \A o \in {"guess", "reveal"} :
           Order[o][1] = "score" /\ Order[o][3] = "write" /\ {1, 3} \subseteq DOMAIN Order[o]
    BY DEF Order
  <2>2. \A o \in {"guess", "reveal"} : Precedes(o, "score", "write")
    BY <2>1 DEF Precedes
  <2> QED BY <1>6, <2>2 DEF ScorePlan, WriteSession, Issue, Due
<1>8. PICK x : x = points[p]
  OBVIOUS
<1>9. PricedStep(session[sid[p]], copy[p], x) /\ OpenRecord(copy[p])
  BY <1>1, <1>6, <1>8 DEF ScorePlan
<1>10. OpenRecords'
  BY <1>2, <1>3, <1>9 DEF ScoreInv, OpenRecords
<1>11. ScorePlans'
  <2>1. ScorePlan(p)'
    BY <1>1, <1>5, <1>6, <1>7 DEF ScorePlan
  <2>2. \A q \in Request : q # p /\ pc[q] = "working" => ScorePlan(q)'
    BY <1>1, <1>3, <1>4, <1>5 DEF ScoreInv, ScorePlans, ScorePlan
  <2> QED BY <1>1, <2>1, <2>2 DEF ScorePlans
<1>12. Credited' = Credited /\ EarnedBonus' = EarnedBonus
  BY <1>1 DEF Credited, EarnedBonus
<1>13. Ahead(x)' = Ahead(x) \ {p} /\ p \in Ahead(x)
  BY <1>1, <1>5, <1>7, <1>8 DEF Ahead
<1>14. \A y : y # x => Ahead(y)' = Ahead(y)
  BY <1>1, <1>5, <1>8 DEF Ahead
<1>15. x \in Penalties =>
          /\ IsFiniteSet(Ahead(x)') /\ Cardinality(Ahead(x)) \in Nat
          /\ Cardinality(Ahead(x)') = Cardinality(Ahead(x)) - 1
  BY <1>13, FS_RemoveElement, FS_CardinalityType DEF ScoreInv, CountsFinite
<1>16. PICK g \in 0 .. GuessLimit : g = session[sid[p]].guesses
  BY <1>2 DEF SessionRecord
<1>17. \/ /\ x = -WrongGuessPenalty
          /\ WrongGuesses' = WrongGuesses \cup {<<sid[p], g>>} /\ <<sid[p], g>> \notin WrongGuesses
          /\ RevealedSessions' = RevealedSessions
       \/ /\ x = -RevealPenalty /\ WrongGuesses' = WrongGuesses
          /\ RevealedSessions' = RevealedSessions \cup {sid[p]}
          /\ sid[p] \notin RevealedSessions
       \/ /\ x \notin Penalties /\ WrongGuesses' = WrongGuesses
          /\ RevealedSessions' = RevealedSessions
  <2>1. \A s \in Session : s # sid[p] => (s \in RevealedSessions' <=> s \in RevealedSessions)
    BY <1>3 DEF RevealedSessions
  <2>2. RevealedSessions \subseteq Session /\ RevealedSessions' \subseteq Session
    BY DEF RevealedSessions
  <2>3. copy[p].guesses = g => WrongGuesses' = WrongGuesses
    <3> SUFFICES ASSUME copy[p].guesses = g PROVE WrongGuesses' = WrongGuesses
      OBVIOUS
    <3>1. \A s \in Session : session'[s].guesses = session[s].guesses
      BY <1>2, <1>3, <1>16
    <3> QED BY <3>1 DEF WrongGuesses
  <2>4. CASE /\ x = -WrongGuessPenalty
             /\ ~session[sid[p]].completed /\ g > 0 /\ copy[p].guesses = g - 1
             /\ copy[p].completed => copy[p].guesses = 0
    <3>1. sid[p] \notin RevealedSessions /\ sid[p] \notin RevealedSessions'
      BY <1>2, <2>4 DEF RevealedSessions
    <3>2. /\ session[sid[p]].guesses = g /\ session'[sid[p]].guesses = g - 1
          /\ g \in 1 .. GuessLimit
      BY <1>2, <1>16, <2>4, RulesAssumption
    <3>3. \A s \in Session, k \in 1 .. GuessLimit :
             session'[s].guesses < k <=> session[s].guesses < k \/ (s = sid[p] /\ k = g)
      <4> SUFFICES ASSUME NEW s \in Session, NEW k \in 1 .. GuessLimit
                   PROVE  session'[s].guesses < k
                             <=> session[s].guesses < k \/ (s = sid[p] /\ k = g)
        OBVIOUS
      <4>1. CASE s = sid[p]
        BY <3>2, <4>1, RulesAssumption
      <4>2. CASE s # sid[p]
        BY <1>3, <4>2
      <4> QED BY <4>1, <4>2
    <3>4. ~(session[sid[p]].guesses < g)
      BY <3>2, RulesAssumption
    <3>5. WrongGuesses' = WrongGuesses \cup {<<sid[p], g>>}
      BY <1>2, <3>2, <3>3 DEF WrongGuesses
    <3>6. <<sid[p], g>> \notin WrongGuesses
      BY <3>4 DEF WrongGuesses
    <3>7. RevealedSessions' = RevealedSessions
      BY <2>1, <2>2, <3>1
    <3> QED BY <2>4, <3>5, <3>6, <3>7
  <2>5. CASE /\ x = -RevealPenalty
             /\ ~session[sid[p]].completed /\ copy[p].completed /\ ~copy[p].correct
             /\ copy[p].guesses > 0 /\ copy[p].guesses = g
    <3>1. sid[p] \notin RevealedSessions /\ sid[p] \in RevealedSessions'
      BY <1>2, <2>5 DEF RevealedSessions
    <3> QED BY <2>1, <2>2, <2>3, <2>5, <3>1
  <2>6. CASE /\ x \notin Penalties /\ copy[p].guesses = g
             /\ \/ /\ copy[p].completed = session[sid[p]].completed
                   /\ copy[p].correct = session[sid[p]].correct
                \/ ~session[sid[p]].completed /\ copy[p].correct
    <3>1. sid[p] \in RevealedSessions' <=> sid[p] \in RevealedSessions
      BY <1>2, <1>16, <2>6 DEF RevealedSessions
    <3> QED BY <2>1, <2>2, <2>3, <2>6, <3>1
  <2> QED BY <1>9, <1>16, <2>4, <2>5, <2>6 DEF PricedStep
<1>18. /\ Cardinality(WrongGuesses) \in Nat /\ Cardinality(RevealedSessions) \in Nat
  BY FS_CardinalityType DEF ScoreInv, CountsFinite
<1>19. CASE /\ x = -WrongGuessPenalty
            /\ WrongGuesses' = WrongGuesses \cup {<<sid[p], g>>}
            /\ <<sid[p], g>> \notin WrongGuesses
            /\ RevealedSessions' = RevealedSessions
  <2>1. /\ IsFiniteSet(WrongGuesses')
        /\ Cardinality(WrongGuesses') = Cardinality(WrongGuesses) + 1
    BY <1>19, FS_AddElement DEF ScoreInv, CountsFinite
  <2>2. CountsFinite'
    BY <1>14, <1>15, <1>19, <2>1 DEF ScoreInv, CountsFinite
  <2>3. Ahead(-RevealPenalty)' = Ahead(-RevealPenalty)
    BY <1>14, <1>19, PenaltiesDiffer
  <2>4. Cardinality(WrongGuesses') + Cardinality(Ahead(-WrongGuessPenalty)')
           = Cardinality(WrongGuesses) + Cardinality(Ahead(-WrongGuessPenalty))
    <3>1. /\ Cardinality(Ahead(-WrongGuessPenalty)) \in Nat
          /\ Cardinality(Ahead(-WrongGuessPenalty)')
                = Cardinality(Ahead(-WrongGuessPenalty)) - 1
      BY <1>15, <1>19 DEF Penalties
    <3> QED BY <1>18, <2>1, <3>1
  <2>5. ScoreBooked'
    BY <1>1, <1>12, <1>19, <2>3, <2>4 DEF ScoreInv, ScoreBooked, Sundries
  <2> QED BY <1>1, <1>10, <1>11, <2>2, <2>5 DEF ScoreInv
<1>20. CASE /\ x = -RevealPenalty /\ WrongGuesses' = WrongGuesses
            /\ RevealedSessions' = RevealedSessions \cup {sid[p]}
            /\ sid[p] \notin RevealedSessions
  <2>1. /\ IsFiniteSet(RevealedSessions')
        /\ Cardinality(RevealedSessions') = Cardinality(RevealedSessions) + 1
    BY <1>20, FS_AddElement DEF ScoreInv, CountsFinite
  <2>2. CountsFinite'
    BY <1>14, <1>15, <1>20, <2>1 DEF ScoreInv, CountsFinite
  <2>3. Ahead(-WrongGuessPenalty)' = Ahead(-WrongGuessPenalty)
    BY <1>14, <1>20, PenaltiesDiffer
  <2>4. Cardinality(RevealedSessions') + Cardinality(Ahead(-RevealPenalty)')
           = Cardinality(RevealedSessions) + Cardinality(Ahead(-RevealPenalty))
    <3>1. /\ Cardinality(Ahead(-RevealPenalty)) \in Nat
          /\ Cardinality(Ahead(-RevealPenalty)') = Cardinality(Ahead(-RevealPenalty)) - 1
      BY <1>15, <1>20 DEF Penalties
    <3> QED BY <1>18, <2>1, <3>1
  <2>5. ScoreBooked'
    BY <1>1, <1>12, <1>20, <2>3, <2>4 DEF ScoreInv, ScoreBooked, Sundries
  <2> QED BY <1>1, <1>10, <1>11, <2>2, <2>5 DEF ScoreInv
<1>21. CASE /\ x \notin Penalties /\ WrongGuesses' = WrongGuesses
            /\ RevealedSessions' = RevealedSessions
  <2>1. \A y \in Penalties : Ahead(y)' = Ahead(y)
    BY <1>14, <1>21
  <2>2. CountsFinite'
    BY <1>21, <2>1 DEF ScoreInv, CountsFinite
  <2>3. ScoreBooked'
    BY <1>1, <1>12, <1>21, <2>1 DEF ScoreInv, ScoreBooked, Sundries, Penalties
  <2> QED BY <1>1, <1>10, <1>11, <2>2, <2>3 DEF ScoreInv
<1> QED BY <1>17, <1>19, <1>20, <1>21

\* A solve is booked with the team's stats.
LEMMA SolveScored ==
    ASSUME CalmInv, TeamInv, ScoreInv, NEW p \in Request, UpdateTeamStats(p)
    PROVE  ScoreInv'
<1>1. /\ UNCHANGED <<pc, sid, op, copy, points, session, milestones>>
      /\ todo' = [todo EXCEPT ![p] = @ \ {"stats"}] /\ score' = score + points[p]
      /\ credits' = [credits EXCEPT ![sid[p]] = @ + 1]
      /\ pc[p] = "working" /\ "stats" \in todo[p]
  BY DEF UpdateTeamStats, Issue, Due
<1>2. sid[p] \in Session /\ credits[sid[p]] = 0
  BY <1>1 DEF CalmInv, AtomicInv, TypeOK, CreditInv, PlannedCredits, CreditPlanned
<1>3. /\ credits'[sid[p]] = 1
      /\ \A s \in Session : s # sid[p] => credits'[s] = credits[s]
  BY <1>1, <1>2 DEF CalmInv, AtomicInv, TypeOK
<1>4. \A q \in Request, e \in {"write", "score"} : e \in todo'[q] <=> e \in todo[q]
  BY <1>1 DEF CalmInv, AtomicInv, TypeOK
<1>5. \A q \in Request : todo'[q] \subseteq todo[q]
  BY <1>1 DEF CalmInv, AtomicInv, TypeOK
<1>6. points[p] = SolveScore
  BY <1>1 DEF ScoreInv, ScorePlans, ScorePlan
<1>7. ScorePlans'
  BY <1>1, <1>4, <1>5 DEF ScoreInv, ScorePlans, ScorePlan
<1>8. \A x : Ahead(x)' = Ahead(x)
  BY <1>1, <1>4 DEF Ahead
<1>9. /\ WrongGuesses' = WrongGuesses /\ RevealedSessions' = RevealedSessions
      /\ EarnedBonus' = EarnedBonus
  BY <1>1 DEF WrongGuesses, RevealedSessions, EarnedBonus
<1>10. OpenRecords' /\ CountsFinite'
  BY <1>1, <1>8, <1>9 DEF ScoreInv, OpenRecords, CountsFinite
<1>11. ScoreBooked'
  <2>1. Credited' = Credited \cup {sid[p]} /\ sid[p] \notin Credited
    BY <1>2, <1>3 DEF Credited
  <2>2. /\ Cardinality(Credited') = Cardinality(Credited) + 1 /\ Cardinality(Credited) \in Nat
    BY <2>1, FS_AddElement, FS_CardinalityType DEF TeamInv, CreditsCounted
  <2>3. PICK c \in Nat : c = Cardinality(Credited)
    BY <2>2
  <2>4. PICK k \in Int : k = SolveScore * c
    BY RulesAssumption
  <2>5. SolveScore * Cardinality(Credited') = k + SolveScore
    BY <2>2, <2>3, <2>4, OneMore, RulesAssumption
  <2>6. Sundries \in Int /\ Sundries' = Sundries
    BY <1>8, <1>9, SundriesType DEF CalmInv, AtomicInv, ScoreInv, Sundries
  <2>7. score = k + Sundries
    BY <2>3, <2>4 DEF ScoreInv, ScoreBooked
  <2>8. score' = (k + SolveScore) + Sundries
    BY <1>1, <1>6, <2>6, <2>7, RulesAssumption
  <2> QED BY <2>5, <2>6, <2>8 DEF ScoreBooked
<1> QED BY <1>1, <1>7, <1>10, <1>11 DEF ScoreInv

\* A milestone brings its bonus with it, and only once.
LEMMA AwardScored ==
    ASSUME CalmInv, TeamInv, ScoreInv, NEW p \in Request, NEW m \in Milestone,
           AwardIfAbsent(p, m)
    PROVE  ScoreInv'
<1>1. /\ UNCHANGED <<pc, sid, op, copy, points, session, credits>>
      /\ todo' = [todo EXCEPT ![p] = @ \ {m}]
  BY DEF AwardIfAbsent, Issue
<1>2. \A q \in Request : /\ todo'[q] \subseteq todo[q]
                         /\ \A e \in {"write", "score"} : e \in todo'[q] <=> e \in todo[q]
  <2>1. m \notin {"write", "score"}
    BY DEF Milestone
  <2> QED BY <1>1, <2>1 DEF CalmInv, AtomicInv, TypeOK
<1>3. ScorePlans'
  BY <1>1, <1>2 DEF ScoreInv, ScorePlans, ScorePlan
<1>4. \A x : Ahead(x)' = Ahead(x)
  BY <1>1, <1>2 DEF Ahead
<1>5. CASE score' = score /\ milestones' = milestones
  BY <1>1, <1>3, <1>4, <1>5, KeptScore
<1>6. CASE /\ m \notin milestones /\ milestones' = milestones \cup {m}
           /\ score' = score + Bonus(m)
  <2>1. /\ WrongGuesses' = WrongGuesses /\ RevealedSessions' = RevealedSessions
        /\ Credited' = Credited
    BY <1>1 DEF WrongGuesses, RevealedSessions, Credited
  <2>2. OpenRecords' /\ CountsFinite'
    BY <1>1, <1>4, <2>1 DEF ScoreInv, OpenRecords, CountsFinite
  <2>3. m \notin PriorMilestones /\ PriorMilestones \subseteq milestones'
    BY <1>6 DEF ScoreInv
  <2>4. /\ EarnedAt(Bonus(m))' = EarnedAt(Bonus(m)) \cup {m} /\ m \notin EarnedAt(Bonus(m))
        /\ \A b : b # Bonus(m) => EarnedAt(b)' = EarnedAt(b)
    BY <1>6, <2>3 DEF EarnedAt
  <2>5. Cardinality(EarnedAt(Bonus(m))') = Cardinality(EarnedAt(Bonus(m))) + 1
    BY <2>4, EarnedFinite, FS_AddElement DEF CalmInv, AtomicInv
  <2>6. EarnedBonus' = EarnedBonus + Bonus(m)
    <3>1. /\ Cardinality(EarnedAt(1000)) \in Nat /\ Cardinality(EarnedAt(2000)) \in Nat
          /\ Cardinality(EarnedAt(4000)) \in Nat
      BY EarnedFinite DEF CalmInv, AtomicInv
    <3>2. EarnedBonus = 1000 * Cardinality(EarnedAt(1000)) + 2000 * Cardinality(EarnedAt(2000))
                           + 4000 * Cardinality(EarnedAt(4000))
      BY EarnedBonusType DEF CalmInv, AtomicInv
    <3>3. EarnedBonus' = 1000 * Cardinality(EarnedAt(1000)')
                            + 2000 * Cardinality(EarnedAt(2000)')
                            + 4000 * Cardinality(EarnedAt(4000)')
      BY DEF EarnedBonus, EarnedAt
    <3>4. CASE Bonus(m) = 1000
      <4>1. EarnedAt(2000)' = EarnedAt(2000) /\ EarnedAt(4000)' = EarnedAt(4000)
        BY <2>4, <3>4
      <4> QED BY <2>5, <3>1, <3>2, <3>3, <3>4, <4>1
    <3>5. CASE Bonus(m) = 2000
      <4>1. EarnedAt(1000)' = EarnedAt(1000) /\ EarnedAt(4000)' = EarnedAt(4000)
        BY <2>4, <3>5
      <4> QED BY <2>5, <3>1, <3>2, <3>3, <3>5, <4>1
    <3>6. CASE Bonus(m) = 4000
      <4>1. EarnedAt(1000)' = EarnedAt(1000) /\ EarnedAt(2000)' = EarnedAt(2000)
        BY <2>4, <3>6
      <4> QED BY <2>5, <3>1, <3>2, <3>3, <3>6, <4>1
    <3>7. Bonus(m) \in {1000, 2000, 4000}
      BY DEF Bonus
    <3> QED BY <3>4, <3>5, <3>6, <3>7
  <2>7. ScoreBooked'
    <3>1. PICK k \in Int : k = SolveScore * Cardinality(Credited)
      <4>1. Cardinality(Credited) \in Nat
        BY FS_CardinalityType DEF TeamInv, CreditsCounted
      <4> QED BY <4>1, RulesAssumption
    <3>2. PICK d \in Int : d = Sundries - EarnedBonus
      BY SundriesType, EarnedBonusType DEF CalmInv, AtomicInv, ScoreInv
    <3>3. PICK c \in Int : /\ c = WrongGuessPenalty * (Cardinality(WrongGuesses)
                                                 + Cardinality(Ahead(-WrongGuessPenalty)))
                           /\ Sundries' = EarnedBonus' - c - RevealPenalty
                                 * (Cardinality(RevealedSessions)
                                      + Cardinality(Ahead(-RevealPenalty)))
                           /\ Sundries = EarnedBonus - c - RevealPenalty
                                 * (Cardinality(RevealedSessions)
                                      + Cardinality(Ahead(-RevealPenalty)))
      <4>1. /\ Cardinality(Ahead(-WrongGuessPenalty)) \in Nat
            /\ Cardinality(WrongGuesses) \in Nat
        BY FS_CardinalityType DEF ScoreInv, CountsFinite, Penalties
      <4> QED BY <1>4, <2>1, <4>1 DEF Sundries, WrongGuessPenalty
    <3>4. /\ Cardinality(Ahead(-RevealPenalty)) \in Nat
          /\ Cardinality(RevealedSessions) \in Nat
      BY FS_CardinalityType DEF ScoreInv, CountsFinite, Penalties
    <3>5. EarnedBonus \in Int /\ Bonus(m) \in Int
      BY EarnedBonusType, BonusType DEF CalmInv, AtomicInv
    <3>6. Sundries' = Sundries + Bonus(m)
      BY <2>6, <3>3, <3>4, <3>5 DEF RevealPenalty
    <3>7. score = k + Sundries /\ Sundries \in Int
      BY <3>1, SundriesType DEF ScoreInv, ScoreBooked, CalmInv, AtomicInv
    <3>8. score' = k + Sundries'
      BY <1>6, <3>5, <3>6, <3>7
    <3> QED BY <2>1, <3>1, <3>8 DEF ScoreBooked
  <2> QED BY <1>3, <2>2, <2>3, <2>7 DEF ScoreInv
<1> QED BY <1>5, <1>6 DEF AwardIfAbsent

\* Any other command.
LEMMA CommandScore ==
    ASSUME CalmInv, ScoreInv, NEW p \in Request, Command(p), ~IncrementScore(p),
           ~WriteSession(p), ~UpdateTeamStats(p),
           \A m \in Milestone : ~AwardIfAbsent(p, m)
    PROVE  ScoreInv'
<1>1. PICK e \in {"board", "clear", "remove", "publish"} :
         todo' = [todo EXCEPT ![p] = @ \ {e}] /\ UNCHANGED <<pc, sid, op, copy, points>>
  BY CommandKinds DEF CalmInv, AtomicInv, Issued
<1>2. UNCHANGED <<session, credits, score, milestones>>
  BY DEF Command, IncrementBoard, ClearActiveSession, RemoveActiveSession,
         PublishGameUpdate, team
<1>3. \A q \in Request : /\ todo'[q] \subseteq todo[q]
                         /\ \A f \in {"write", "score"} : f \in todo'[q] <=> f \in todo[q]
  BY <1>1 DEF CalmInv, AtomicInv, TypeOK
<1>4. ScorePlans'
  BY <1>1, <1>2, <1>3 DEF ScoreInv, ScorePlans, ScorePlan
<1>5. \A x : Ahead(x)' = Ahead(x)
  BY <1>1, <1>3 DEF Ahead
<1> QED BY <1>2, <1>4, <1>5, KeptScore

LEMMA NextScore ==
    ASSUME Stage = 1, CalmInv, TeamInv, ScoreInv, [Next]_vars, faults' = faults
    PROVE  ScoreInv'
<1>1. CASE \E p \in Request : Handler(p)
  BY <1>1, HandlerScore DEF CalmInv, AtomicInv
<1>2. CASE \E p \in Request : Command(p)
  BY <1>2, PenaltyScore, WriteScore, SolveScored, AwardScored, CommandScore
<1>3. CASE \E p \in Request : CommandFails(p)
  BY <1>3, CalmSteps DEF CalmInv, AtomicInv
<1>4. CASE Quiet /\ PlanEnds
  <2>1. UNCHANGED <<session, credits, score, milestones>>
    BY <1>4 DEF Quiet, team
  <2>2. ScorePlans'
    BY <1>4 DEF Quiet, ScoreInv, ScorePlans, ScorePlan
  <2>3. \A x : Ahead(x)' = Ahead(x)
    BY <1>4 DEF Quiet, PlanEnds, Ahead
  <2> QED BY <2>1, <2>2, <2>3, KeptScore
<1> QED BY <1>1, <1>2, <1>3, <1>4, StepEnds DEF CalmInv, AtomicInv

LEMMA SettledScore ==
    ASSUME CalmInv, TeamInv, ScoreInv, \A p \in Request : ~Live(p)
    PROVE  score = SolveScore * Cardinality(SolvedSessions)
                      - WrongGuessPenalty * Cardinality(WrongGuesses)
                      - RevealPenalty * Cardinality(RevealedSessions)
                      + EarnedBonus
<1>1. \A x : Ahead(x) = {}
  BY DEF Live, Ahead
<1>2. Credited = SolvedSessions
  BY DEF Live, Still, TeamInv, SolvesBooked, Credited, SolvedSessions
<1>3. /\ Cardinality(WrongGuesses) \in Nat /\ Cardinality(RevealedSessions) \in Nat
      /\ Cardinality(Credited) \in Nat
  BY FS_CardinalityType DEF ScoreInv, CountsFinite, TeamInv, CreditsCounted
<1>4. Sundries = EarnedBonus - WrongGuessPenalty * Cardinality(WrongGuesses)
                             - RevealPenalty * Cardinality(RevealedSessions)
  BY <1>1, <1>3, FS_EmptySet DEF Sundries, WrongGuessPenalty, RevealPenalty
<1>5. PICK k \in Int : k = SolveScore * Cardinality(SolvedSessions)
  BY <1>2, <1>3, RulesAssumption
<1>6. score = k + Sundries
  BY <1>2, <1>5 DEF ScoreInv, ScoreBooked
<1>7. EarnedBonus \in Int
  BY EarnedBonusType DEF CalmInv, AtomicInv
<1> QED BY <1>3, <1>4, <1>5, <1>6, <1>7 DEF WrongGuessPenalty, RevealPenalty

\* In Stage 1, once the requests are over and nothing failed, every point of
\* the team's score is in the stored sessions or in a milestone, and all of
\* theirs are in the score: nothing was paid or charged twice or forgotten.
THEOREM ScoreFollowsSessions ==
    ASSUME Stage = 1
    PROVE  Spec => []ScoreAccounting
<1> DEFINE Calm == faults = 0 => CalmInv /\ TeamInv /\ ScoreInv
<1>1. Init => Calm
  <2> SUFFICES ASSUME Init PROVE CalmInv /\ TeamInv /\ ScoreInv
    OBVIOUS
  <2>1. CalmInv /\ TeamInv
    BY InitTeam
  <2>2. \A s \in Session : /\ OpenRecord(session[s]) /\ ~session[s].completed
                           /\ session[s].guesses = GuessLimit
    BY RulesAssumption DEF Init, Fresh, NewSession, OpenRecord
  <2>3. /\ WrongGuesses = {} /\ RevealedSessions = {} /\ Credited = {}
        /\ \A x : Ahead(x) = {}
    <3>1. \A k \in 1 .. GuessLimit : ~(GuessLimit < k)
      BY RulesAssumption
    <3> QED BY <2>2, <3>1 DEF Init, WrongGuesses, RevealedSessions, Credited, Ahead
  <2>4. OpenRecords /\ ScorePlans /\ CountsFinite /\ PriorMilestones \subseteq milestones
    BY <2>2, <2>3, FS_EmptySet DEF Init, OpenRecords, ScorePlans, CountsFinite
  <2>5. ScoreBooked
    <3>1. \A b : EarnedAt(b) = {}
      BY DEF Init, EarnedAt
    <3>2. EarnedBonus = 0
      <4>1. Cardinality(EarnedAt(1000)) = 0 /\ Cardinality(EarnedAt(2000)) = 0
            /\ Cardinality(EarnedAt(4000)) = 0
        BY <3>1, FS_EmptySet
      <4> QED BY <2>1, <4>1, EarnedBonusType DEF CalmInv, AtomicInv
    <3>3. Sundries = 0
      BY <2>3, <3>2, FS_EmptySet DEF Sundries, WrongGuessPenalty, RevealPenalty
    <3> QED BY <2>3, <3>3, FS_EmptySet, RulesAssumption DEF Init, ScoreBooked
  <2> QED BY <2>1, <2>4, <2>5 DEF ScoreInv
<1>2. TypeOK /\ Calm /\ [Next]_vars => Calm'
  BY FaultsGrow, NextCalm, NextTeam, NextScore
<1>3. Calm => ScoreAccounting
  BY SettledScore DEF ScoreAccounting, Settled
<1> HIDE DEF Calm
<1> QED BY <1>1, <1>2, <1>3, TypeCorrect, PTL DEF Spec
-----------------------------------------------------------------------------
(* How sessions end: SessionPlay implements SessionEnds, whatever is cut    *)
(* off and whichever command fails, as long as no lease ends under its      *)
(* holder.  The invariant says of every request at work what its plan       *)
(* means for the session it has locked.                                     *)

EndingPlan(o, r, out) ==
    \/ GoesOn(r, out)
    \/ o = "guess"   /\ GuessEnds(r, out)
    \/ o = "reveal"  /\ RevealEnds(r, out)
    \/ o = "decrypt" /\ DecryptEnds(r, out)

LEMMA HandlerEnds ==
    ASSUME TypeOK, NEW p \in Request, Handler(p)
    PROVE  \E o \in Op, out \in Outcome :
              Planned(p, o, out) /\ EndingPlan(o, session[sid[p]], out)
<1>1. PICK sess \in SessionRecord : sess = session[sid[p]]
  BY DEF TypeOK, Handler, AskQuestion, SubmitGuess, Reveal, SubmitDecryption, Handle
<1>2. CASE AskQuestion(p)
  <2>1. PICK out \in AskOutcomes(sess) : Planned(p, "ask", out)
    BY <1>1, <1>2 DEF AskQuestion, Handle, Planned
  <2> QED BY <1>1, <2>1, AskType, AskEnding DEF EndingPlan, Op
<1>3. CASE SubmitGuess(p)
  <2>1. PICK out \in GuessOutcomes(sess) : Planned(p, "guess", out)
    BY <1>1, <1>3 DEF SubmitGuess, Handle, Planned
  <2> QED BY <1>1, <2>1, GuessType, GuessEnding DEF EndingPlan, Op
<1>4. CASE Reveal(p)
  <2>1. PICK out \in RevealOutcomes(sess) : Planned(p, "reveal", out)
    BY <1>1, <1>4 DEF Reveal, Handle, Planned
  <2> QED BY <1>1, <2>1, RevealType, RevealEnding DEF EndingPlan, Op
<1>5. CASE SubmitDecryption(p)
  <2>1. PICK out \in DecryptOutcomes(sess) : Planned(p, "decrypt", out)
    BY <1>1, <1>5 DEF SubmitDecryption, Handle, Planned
  <2> QED BY <1>1, <2>1, DecryptType, DecryptEnding DEF EndingPlan, Op
<1> QED BY <1>2, <1>3, <1>4, <1>5 DEF Handler

\* A plan to end the session of record r with the record c, or to store c
\* while the session goes on.
PlanOf(o, r, c, commands) ==
    /\ "stats" \in commands => "remove" \in commands /\ o \in {"guess", "decrypt"}
    /\ "clear" \in commands => "remove" \in commands
    /\ "remove" \in commands => o \in {"guess", "reveal", "decrypt"}
    /\ c.target = r.target
    /\ "write" \in commands /\ "remove" \in commands =>
          c.completed /\ c.pending = (IF o = "decrypt" THEN FALSE ELSE r.pending)
    /\ "write" \in commands /\ "remove" \notin commands => PlaysOn(r, c)

PlansEnd ==
    \A p \in Request : pc[p] = "working" =>
        PlanOf(op[p], session[sid[p]], copy[p], todo[p])

EndsInv == AtomicInv /\ PlansWorking /\ PlansEnd

\* A handler plans what its outcome says.
LEMMA PlannedOutcome ==
    ASSUME NEW o \in Op, NEW r \in SessionRecord, NEW out \in Outcome, EndingPlan(o, r, out)
    PROVE  PlanOf(o, r, out.session, out.todo)
<1>1. out.session \in SessionRecord
  BY DEF Outcome
<1>2. CASE GoesOn(r, out)
  BY <1>2 DEF GoesOn, PlaysOn, PlanOf
<1>3. CASE o = "guess" /\ GuessEnds(r, out)
  BY <1>1, <1>3 DEF GuessEnds, EndsIt, PlanOf, SessionRecord
<1>4. CASE o = "reveal" /\ RevealEnds(r, out)
  BY <1>4 DEF RevealEnds, EndsIt, PlanOf
<1>5. CASE o = "decrypt" /\ DecryptEnds(r, out)
  BY <1>1, <1>5 DEF DecryptEnds, EndsIt, PlanOf, SessionRecord
<1> QED BY <1>2, <1>3, <1>4, <1>5 DEF EndingPlan

\* The order of the commands, as far as they end a session.
LEMMA EndOrderKept ==
    ASSUME NEW o \in {"guess", "reveal", "decrypt"}
    PROVE  /\ Precedes(o, "write", "clear") /\ Precedes(o, "write", "remove")
           /\ Precedes(o, "clear", "remove")
           /\ o # "reveal" => /\ Precedes(o, "write", "stats")
                              /\ Precedes(o, "stats", "clear")
                              /\ Precedes(o, "stats", "remove")
<1>1. CASE o = "guess"
  <2>1. /\ Order[o][3] = "write" /\ Order[o][4] = "stats" /\ Order[o][5] = "clear"
        /\ {3, 4, 5} \subseteq DOMAIN Order[o] /\ Order[o][6] = "remove" /\ 6 \in DOMAIN Order[o]
    BY <1>1 DEF Order
  <2>2. Precedes(o, "write", "clear") /\ Precedes(o, "stats", "clear")
    BY <2>1 DEF Precedes
  <2>3. Precedes(o, "stats", "remove")
    BY <2>1 DEF Precedes
  <2> QED BY <1>1, <2>2, <2>3, WriteBeforeStats, WriteBeforeRemove, ClearBeforeRemove
<1>2. CASE o = "reveal"
  <2>1. Order[o][3] = "write" /\ Order[o][4] = "clear" /\ {3, 4} \subseteq DOMAIN Order[o]
    BY <1>2 DEF Order
  <2>2. Precedes(o, "write", "clear")
    BY <2>1 DEF Precedes
  <2> QED BY <1>2, <2>2, WriteBeforeRemove, ClearBeforeRemove
<1>3. CASE o = "decrypt"
  <2>1. /\ Order[o][5] = "write" /\ Order[o][6] = "stats" /\ Order[o][7] = "clear"
        /\ {5, 6, 7} \subseteq DOMAIN Order[o] /\ Order[o][8] = "remove" /\ 8 \in DOMAIN Order[o]
    BY <1>3 DEF Order
  <2>2. Precedes(o, "write", "clear") /\ Precedes(o, "stats", "clear")
    BY <2>1 DEF Precedes
  <2>3. Precedes(o, "stats", "remove")
    BY <2>1 DEF Precedes
  <2> QED BY <1>3, <2>2, <2>3, WriteBeforeStats, WriteBeforeRemove, ClearBeforeRemove
<1> QED BY <1>1, <1>2, <1>3

\* What is no longer in a plan when one of its commands is due.
LEMMA DueAfter ==
    ASSUME PlansEnd, NEW p \in Request, NEW e, Due(p, e)
    PROVE  /\ e = "stats"  => "write" \notin todo[p]
           /\ e = "clear"  => {"write", "stats"} \cap todo[p] = {}
           /\ e = "remove" => {"write", "stats", "clear"} \cap todo[p] = {}
<1>1. PlanOf(op[p], session[sid[p]], copy[p], todo[p]) /\ e \in todo[p]
  BY DEF PlansEnd, Due
<1>2. ASSUME e \in {"stats", "clear", "remove"}
      PROVE  /\ op[p] \in {"guess", "reveal", "decrypt"}
             /\ "stats" \in todo[p] => op[p] # "reveal"
  BY <1>1, <1>2 DEF PlanOf
<1> QED BY <1>2, EndOrderKept DEF Due

\* One request's plan changes; the record of its session may, of no other.
LEMMA PlanMoves ==
    ASSUME PlansEnd, NEW p \in Request,
           \A q \in Request \ {p} : /\ pc'[q] = pc[q] /\ sid'[q] = sid[q] /\ op'[q] = op[q]
                                    /\ copy'[q] = copy[q] /\ todo'[q] = todo[q],
           \A q \in Request \ {p} : pc[q] = "working" => session'[sid[q]] = session[sid[q]],
           pc'[p] = "working" => PlanOf(op'[p], session'[sid'[p]], copy'[p], todo'[p])
    PROVE  PlansEnd'
  BY DEF PlansEnd

LEMMA HandlerPlansEnd ==
    ASSUME EndsInv, NEW p \in Request, Handler(p)
    PROVE  PlansEnd'
<1>1. TypeOK
  BY DEF EndsInv, AtomicInv
<1>2. PICK o \in Op, out \in Outcome : Planned(p, o, out) /\ EndingPlan(o, session[sid[p]], out)
  BY <1>1, HandlerEnds
<1>3. sid[p] \in Session /\ session[sid[p]] \in SessionRecord
  BY <1>1, <1>2 DEF TypeOK, Planned
<1>4. PlanOf(o, session[sid[p]], out.session, out.todo)
  BY <1>2, <1>3, PlannedOutcome
<1>5. /\ UNCHANGED <<session, sid>>
      /\ op'[p] = o /\ copy'[p] = out.session /\ todo'[p] = out.todo
      /\ \A q \in Request \ {p} : /\ pc'[q] = pc[q] /\ op'[q] = op[q]
                                  /\ copy'[q] = copy[q] /\ todo'[q] = todo[q]
  BY <1>1, <1>2 DEF TypeOK, Planned, redis
<1> QED BY <1>4, <1>5, PlanMoves DEF EndsInv

\* A plan that loses commands stays a plan, unless the end of the session
\* loses its write or its remove alone.
LEMMA ShorterPlan ==
    ASSUME NEW o, NEW r, NEW c, NEW commands, NEW less \in SUBSET commands,
           PlanOf(o, r, c, commands),
           "write" \in less => ("remove" \in less <=> "remove" \in commands),
           {"stats", "clear"} \cap less # {} => "remove" \in less
    PROVE  PlanOf(o, r, c, less)
  BY DEF PlanOf

LEMMA CommandPlansEnd ==
    ASSUME EndsInv, NEW p \in Request, Command(p)
    PROVE  PlansEnd'
<1>1. TypeOK /\ LockInv /\ PlansEnd
  BY DEF EndsInv, AtomicInv
<1>2. PICK e \in Effect :
         /\ Issued(p, e)
         /\ e # "write" => session' = session
         /\ e = "write" => WriteSession(p)
  <2>1. PICK e \in Effect : Issued(p, e) /\
              \/ e = "score"   /\ IncrementScore(p)
              \/ e = "board"   /\ IncrementBoard(p)
              \/ e = "write"   /\ WriteSession(p)
              \/ e = "stats"   /\ UpdateTeamStats(p)
              \/ e = "clear"   /\ ClearActiveSession(p)
              \/ e = "remove"  /\ RemoveActiveSession(p)
              \/ e \in Milestone /\ AwardIfAbsent(p, e)
              \/ e = "publish" /\ PublishGameUpdate(p)
    BY <1>1, CommandKinds
  <2>2. e = "write" => WriteSession(p)
    BY <2>1 DEF Milestone
  <2>3. e # "write" => session' = session
    BY <2>1 DEF IncrementScore, IncrementBoard, UpdateTeamStats, ClearActiveSession,
                RemoveActiveSession, AwardIfAbsent, PublishGameUpdate
  <2> QED BY <2>1, <2>2, <2>3
<1>3. /\ UNCHANGED <<pc, sid, op, copy>> /\ pc[p] = "working" /\ e \in todo[p]
      /\ todo'[p] = todo[p] \ {e} /\ \A q \in Request \ {p} : todo'[q] = todo[q]
      /\ sid[p] \in Session
  BY <1>1, <1>2 DEF TypeOK, Issued, Due
<1>4. \A q \in Request \ {p} : pc[q] = "working" => session'[sid[q]] = session[sid[q]]
  <2> SUFFICES ASSUME NEW q \in Request \ {p}, pc[q] = "working", e = "write"
               PROVE  session'[sid[q]] = session[sid[q]]
    BY <1>2
  <2>1. sid[q] # sid[p] /\ sid[q] \in Session
    BY <1>1, <1>2, WriterAlone DEF TypeOK
  <2> QED BY <1>1, <1>2, <2>1 DEF TypeOK, WriteSession
<1>5. PlanOf(op[p], session'[sid[p]], copy[p], todo'[p])
  <2>1. PlanOf(op[p], session[sid[p]], copy[p], todo[p])
    BY <1>1, <1>3 DEF PlansEnd
  <2>2. CASE e = "write"
    <3>1. session'[sid[p]] = copy[p]
      BY <1>1, <1>2, <1>3, <2>2 DEF TypeOK, WriteSession
    <3> QED BY <1>3, <2>1, <2>2, <3>1 DEF PlanOf
  <2>3. CASE e # "write"
    <3>1. e = "remove" => {"write", "stats", "clear"} \cap todo[p] = {}
      BY <1>1, <1>2, DueAfter DEF Issued
    <3>2. todo'[p] \in SUBSET todo[p] /\ session'[sid[p]] = session[sid[p]]
      BY <1>2, <1>3, <2>3
    <3>3. "write" \in todo'[p] => ("remove" \in todo'[p] <=> "remove" \in todo[p])
      BY <1>3, <3>1
    <3>4. {"stats", "clear"} \cap todo'[p] # {} => "remove" \in todo'[p]
      BY <1>3, <2>1, <3>1 DEF PlanOf
    <3> QED BY <2>1, <3>2, <3>3, <3>4, ShorterPlan
  <2> QED BY <2>2, <2>3
<1> QED BY <1>1, <1>3, <1>4, <1>5, PlanMoves

LEMMA FailurePlansEnd ==
    ASSUME EndsInv, NEW p \in Request, CommandFails(p)
    PROVE  PlansEnd'
<1>1. TypeOK /\ PlansEnd
  BY DEF EndsInv, AtomicInv
<1>2. PICK e \in todo[p] : Due(p, e) /\ todo' = [todo EXCEPT ![p] = @ \ LostWith(op[p], e)]
  BY DEF CommandFails
<1>3. /\ UNCHANGED <<session, pc, sid, op, copy>> /\ pc[p] = "working"
      /\ todo'[p] = todo[p] \ LostWith(op[p], e)
      /\ \A q \in Request \ {p} : todo'[q] = todo[q]
  BY <1>1, <1>2 DEF TypeOK, CommandFails, redis, Due
<1>4. PlanOf(op[p], session[sid[p]], copy[p], todo[p])
  BY <1>1, <1>3 DEF PlansEnd
<1>5. /\ e = "stats"  => "write" \notin todo[p]
      /\ e = "remove" => {"write", "stats", "clear"} \cap todo[p] = {}
  BY <1>1, <1>2, DueAfter
<1>6. \/ e = "stats" /\ LostWith(op[p], e) = {"stats", "clear", "remove"}
      \/ todo'[p] = {}
      \/ e # "stats" /\ LostWith(op[p], e) \in {{e}, {"score", "board"}}
  <2>1. CASE e = "write" /\ op[p] = "ask"
    BY <1>1, <1>3, <2>1 DEF LostWith, TypeOK
  <2>2. CASE ~(e = "write" /\ op[p] = "ask")
    BY <2>2 DEF LostWith
  <2> QED BY <2>1, <2>2
<1>7. "write" \in todo'[p] => ("remove" \in todo'[p] <=> "remove" \in todo[p])
  BY <1>3, <1>5, <1>6
<1>8. {"stats", "clear"} \cap todo'[p] # {} => "remove" \in todo'[p]
  BY <1>3, <1>4, <1>5, <1>6 DEF PlanOf
<1>9. PlanOf(op[p], session[sid[p]], copy[p], todo'[p])
  BY <1>3, <1>4, <1>7, <1>8, ShorterPlan
<1> QED BY <1>1, <1>3, <1>9, PlanMoves

LEMMA NextPlansEnd == EndsInv /\ [Next]_vars => PlansEnd'
<1> SUFFICES ASSUME EndsInv, [Next]_vars PROVE PlansEnd'
  OBVIOUS
<1>1. CASE Quiet
  BY <1>1 DEF EndsInv, PlansEnd, Quiet
<1> QED BY <1>1, StepKinds, HandlerPlansEnd, CommandPlansEnd, FailurePlansEnd DEF EndsInv, AtomicInv

\* What a request contributes to the end of session s.
LeftIn(p, s) == IF Holds(p, s) THEN LeftToEnd(p) ELSE {}

EndingShown == \A s \in Session : EndingView[s] = UNION {LeftIn(p, s) : p \in Request}

LEMMA EndingIs == EndingShown
<1> SUFFICES ASSUME NEW s \in Session
             PROVE  EndingView[s] = UNION {LeftIn(p, s) : p \in Request}
  BY DEF EndingShown
<1>1. EndingView[s] = UNION {LeftToEnd(p) : p \in {q \in Request : Holds(q, s)}}
  BY DEF EndingView
<1>2. ASSUME NEW x, x \in EndingView[s] PROVE x \in UNION {LeftIn(p, s) : p \in Request}
  <2>1. PICK p \in Request : Holds(p, s) /\ x \in LeftToEnd(p)
    BY <1>1, <1>2
  <2> QED BY <2>1 DEF LeftIn
<1>3. ASSUME NEW x, x \in UNION {LeftIn(p, s) : p \in Request} PROVE x \in EndingView[s]
  <2>1. PICK p \in Request : x \in LeftIn(p, s)
    BY <1>3
  <2>2. Holds(p, s) /\ x \in LeftToEnd(p)
    BY <2>1 DEF LeftIn
  <2> QED BY <1>1, <2>2
<1> QED BY <1>2, <1>3

\* One request at a time works on a session: it alone ends it.
LEMMA EndingOf ==
    ASSUME TypeOK, LockInv, NEW p \in Request, Live(p)
    PROVE  /\ sid[p] \in Session
           /\ \A q \in Request \ {p} : LeftIn(q, sid[p]) = {}
           /\ EndingView[sid[p]] = LeftToEnd(p)
<1>1. sid[p] \in Session
  BY DEF TypeOK, Live
<1>2. \A q \in Request \ {p} : LeftIn(q, sid[p]) = {}
  BY DEF LockInv, LeftIn, Holds
<1>3. EndingView[sid[p]] = LeftToEnd(p)
  <2>1. PICK t \in Session : t = sid[p]
    BY <1>1
  <2>2. LeftIn(p, t) = LeftToEnd(p) /\ EndingView[t] = UNION {LeftIn(q, t) : q \in Request}
    BY <2>1, EndingIs DEF EndingShown, LeftIn, Holds
  <2>3. ASSUME NEW x, x \in EndingView[t] PROVE x \in LeftToEnd(p)
    BY <1>2, <2>1, <2>2, <2>3
  <2>4. ASSUME NEW x, x \in LeftToEnd(p) PROVE x \in EndingView[t]
    BY <2>2, <2>4
  <2> QED BY <2>1, <2>3, <2>4
<1> QED BY <1>1, <1>2, <1>3

LEMMA EndingAfter == EndingShown'
<1> QED BY EndingIs, PTL

\* A step in which every request contributes what it did before ...
LEMMA EndingStays ==
    ASSUME \A s \in Session, p \in Request : LeftIn(p, s)' = LeftIn(p, s)
    PROVE  EndingView' = EndingView
<1>1. \A s \in Session : EndingView'[s] = EndingView[s]
  <2> SUFFICES ASSUME NEW s \in Session PROVE EndingView'[s] = EndingView[s]
    OBVIOUS
  <2>1. \A q \in Request : LeftIn(q, s)' = LeftIn(q, s)
    OBVIOUS
  <2>2. {LeftIn(q, s)' : q \in Request} = {LeftIn(q, s) : q \in Request}
    BY <2>1, Zenon
  <2>3. /\ EndingView[s] = UNION {LeftIn(q, s) : q \in Request}
        /\ EndingView'[s] = UNION {LeftIn(q, s)' : q \in Request}
    BY EndingIs, EndingAfter DEF EndingShown
  <2> QED BY <2>2, <2>3
<1>2. /\ EndingView = [s \in Session |-> EndingView[s]]
      /\ EndingView' = [s \in Session |-> EndingView'[s]]
  BY DEF EndingView
<1> QED BY <1>1, <1>2

\* ... and one of a request that has locked its session.
LEMMA EndingMoves ==
    ASSUME TypeOK, LockInv, NEW p \in Request, NEW t \in Session, Holds(p, t),
           Live(p)' => sid'[p] = t,
           \A q \in Request \ {p} : /\ pc'[q] = pc[q] /\ sid'[q] = sid[q]
                                    /\ op'[q] = op[q] /\ todo'[q] = todo[q]
    PROVE  EndingView' = [EndingView EXCEPT ![t] = LeftIn(p, t)']
<1>1. \A q \in Request \ {p} : LeftIn(q, t) = {}
  BY EndingOf DEF Holds
<1>2. \A q \in Request \ {p}, s \in Session : LeftIn(q, s)' = LeftIn(q, s)
  BY DEF LeftIn, LeftToEnd, Holds, Live
<1>3. \A s \in Session \ {t} : LeftIn(p, s) = {} /\ LeftIn(p, s)' = {}
  BY DEF LeftIn, Holds
<1>4. \A s \in Session \ {t} : EndingView'[s] = EndingView[s]
  <2> SUFFICES ASSUME NEW s \in Session \ {t} PROVE EndingView'[s] = EndingView[s]
    OBVIOUS
  <2>1. \A q \in Request : LeftIn(q, s)' = LeftIn(q, s)
    BY <1>2, <1>3
  <2>2. {LeftIn(q, s)' : q \in Request} = {LeftIn(q, s) : q \in Request}
    BY <2>1, Zenon
  <2>3. /\ EndingView[s] = UNION {LeftIn(q, s) : q \in Request}
        /\ EndingView'[s] = UNION {LeftIn(q, s)' : q \in Request}
    BY EndingIs, EndingAfter DEF EndingShown
  <2> QED BY <2>2, <2>3
<1>5. EndingView'[t] = LeftIn(p, t)'
  <2>1. \A q \in Request \ {p} : LeftIn(q, t)' = {}
    BY <1>1, <1>2
  <2>2. EndingView'[t] = UNION {LeftIn(q, t)' : q \in Request}
    BY <1>1, EndingAfter DEF EndingShown
  <2> QED BY <2>1, <2>2
<1>6. DOMAIN EndingView = Session /\ DOMAIN EndingView' = Session
      /\ EndingView' = [s \in Session |-> EndingView'[s]]
  BY DEF EndingView
<1> QED BY <1>1, <1>4, <1>5, <1>6

\* The step SessionEnds sees.
EndsStep == [Ends!EndsNext]_(Ends!endsVars)

LEMMA RecordsStay ==
    ASSUME session' = session
    PROVE  UNCHANGED <<StoredView, TargetView, WithheldView>>
  BY DEF StoredView, TargetView, WithheldView

LEMMA NothingSeen ==
    ASSUME session' = session, UNCHANGED <<activeID, active, solvedChars, solves>>,
           EndingView' = EndingView
    PROVE  EndsStep
  BY RecordsStay DEF EndsStep, Ends!endsVars, Ends!record, Ends!books

LEMMA HandlerSeen ==
    ASSUME EndsInv, NEW p \in Request, Handler(p)
    PROVE  EndsStep
<1>1. TypeOK /\ LockInv /\ PlansWorking
  BY DEF EndsInv, AtomicInv
<1>2. PICK o \in Op, out \in Outcome : Planned(p, o, out) /\ EndingPlan(o, session[sid[p]], out)
  BY <1>1, HandlerEnds
<1>3. PICK t \in Session : t = sid[p]
  BY <1>1, <1>2 DEF TypeOK, Planned
<1>4. /\ UNCHANGED <<session, activeID, active, solvedChars, solves, sid>>
      /\ pc[p] = "locked" /\ pc'[p] = "working" /\ op'[p] = o /\ todo'[p] = out.todo
      /\ \A q \in Request \ {p} : /\ pc'[q] = pc[q] /\ op'[q] = op[q] /\ todo'[q] = todo[q]
  BY <1>1, <1>2 DEF TypeOK, Planned, redis
<1>5. Holds(p, t) /\ Holds(p, t)' /\ Live(p)
  BY <1>3, <1>4 DEF Holds, Live
<1>6. LeftIn(p, t)' = IF "remove" \notin out.todo THEN {}
                      ELSE (out.todo \cap {"stats", "clear", "remove"})
                              \cup (IF "write" \notin out.todo THEN {}
                                    ELSE IF o = "decrypt" THEN {"settle"} ELSE {"write"})
  BY <1>4, <1>5 DEF LeftIn, LeftToEnd
<1>7. EndingView' = [EndingView EXCEPT ![t] = LeftIn(p, t)']
  BY <1>1, <1>3, <1>4, <1>5, EndingMoves
<1>8. EndingView[t] = {}
  <2>1. todo[p] = {}
    BY <1>1, <1>4 DEF PlansWorking
  <2> QED BY <1>1, <1>3, <1>5, <2>1, EndingOf DEF LeftToEnd
<1>9. PICK r : r = session[t]
  OBVIOUS
<1>10. /\ StoredView[t] = (IF r.completed THEN "closed" ELSE "open")
       /\ t \in WithheldView <=> r.pending
  BY <1>9 DEF StoredView, WithheldView
<1>11. UNCHANGED <<Ends!record, Ends!books>>
  BY <1>4, RecordsStay DEF Ends!record, Ends!books
<1>12. CASE GoesOn(r, out)
  <2>1. LeftIn(p, t)' = {}
    BY <1>6, <1>12 DEF GoesOn
  <2>2. EndingView' = EndingView
    BY <1>7, <1>8, <2>1 DEF EndingView
  <2> QED BY <1>4, <2>2, NothingSeen
<1>13. ASSUME EndsIt(r, out)
       PROVE  \E rest \in {Ends!AfterSolve, Ends!AfterLoss} :
                 /\ LeftIn(p, t)' = {IF o = "decrypt" THEN "settle" ELSE "write"} \cup rest
                 /\ "stats" \notin out.todo => rest = Ends!AfterLoss
  <2>1. {"write", "clear", "remove"} \subseteq out.todo
    BY <1>13 DEF EndsIt
  <2>2. LeftIn(p, t)' = (out.todo \cap {"stats", "clear", "remove"})
                           \cup {IF o = "decrypt" THEN "settle" ELSE "write"}
    BY <1>6, <2>1
  <2>3. CASE "stats" \in out.todo
    BY <2>1, <2>2, <2>3 DEF Ends!AfterSolve
  <2>4. CASE "stats" \notin out.todo
    BY <2>1, <2>2, <2>4 DEF Ends!AfterLoss
  <2> QED BY <2>3, <2>4
<1>14. CASE o = "guess" /\ GuessEnds(r, out)
  <2>1. PICK rest \in {Ends!AfterSolve, Ends!AfterLoss} : LeftIn(p, t)' = {"write"} \cup rest
    BY <1>13, <1>14 DEF GuessEnds
  <2>2. Ends!BeginEnd(t, {"write"} \cup rest)
    BY <1>7, <1>8, <1>11, <2>1 DEF Ends!BeginEnd
  <2>3. Ends!EndByGuess(t)
    BY <1>10, <1>14, <2>2 DEF Ends!EndByGuess, GuessEnds
  <2> QED BY <2>3 DEF EndsStep, Ends!EndsNext, Ends!Decide
<1>15. CASE o = "reveal" /\ RevealEnds(r, out)
  <2>1. LeftIn(p, t)' = {"write"} \cup Ends!AfterLoss
    BY <1>13, <1>15 DEF RevealEnds
  <2>2. Ends!BeginEnd(t, {"write"} \cup Ends!AfterLoss)
    BY <1>7, <1>8, <1>11, <2>1 DEF Ends!BeginEnd
  <2>3. Ends!EndByReveal(t)
    BY <1>10, <1>15, <2>2 DEF Ends!EndByReveal, RevealEnds
  <2> QED BY <2>3 DEF EndsStep, Ends!EndsNext, Ends!Decide
<1>16. CASE o = "decrypt" /\ DecryptEnds(r, out)
  <2>1. PICK rest \in {Ends!AfterSolve, Ends!AfterLoss} : LeftIn(p, t)' = {"settle"} \cup rest
    BY <1>13, <1>16 DEF DecryptEnds
  <2>2. Ends!BeginEnd(t, {"settle"} \cup rest)
    BY <1>7, <1>8, <1>11, <2>1 DEF Ends!BeginEnd
  <2>3. Ends!EndByDecryption(t)
    BY <1>10, <1>16, <2>2 DEF Ends!EndByDecryption, DecryptEnds
  <2> QED BY <2>3 DEF EndsStep, Ends!EndsNext, Ends!Decide
<1> QED BY <1>2, <1>3, <1>9, <1>12, <1>14, <1>15, <1>16 DEF EndingPlan

\* What a plan leaves to the end of the session, and the name SessionEnds has
\* for a command.
LeftOf(o, commands) ==
    IF "remove" \notin commands THEN {}
    ELSE (commands \cap {"stats", "clear", "remove"})
            \cup (IF "write" \notin commands THEN {}
                  ELSE IF o = "decrypt" THEN {"settle"} ELSE {"write"})

NameOf(o, e) == IF e = "write" /\ o = "decrypt" THEN "settle" ELSE e

LEMMA EndDue ==
    ASSUME NEW t, NEW f \in EndingView[t],
           \/ f = "write"
           \/ f = "settle" /\ "write" \notin EndingView[t]
           \/ f = "stats" /\ {"write", "settle"} \cap EndingView[t] = {}
           \/ f = "clear" /\ {"write", "settle", "stats"} \cap EndingView[t] = {}
           \/ f = "remove" /\ {"write", "settle", "stats", "clear"} \cap EndingView[t] = {}
    PROVE  Ends!Due(t, f)
<1>1. /\ Ends!EndOrder[1] = "write" /\ Ends!EndOrder[2] = "settle"
      /\ Ends!EndOrder[3] = "stats" /\ Ends!EndOrder[4] = "clear"
      /\ Ends!EndOrder[5] = "remove" /\ DOMAIN Ends!EndOrder = 1 .. 5
  BY DEF Ends!EndOrder
<1> HIDE DEF Ends!EndOrder
<1>2. PICK i \in 1 .. 5 :
         /\ Ends!EndOrder[i] = f
         /\ \A j \in 1 .. i - 1 : Ends!EndOrder[j] \notin EndingView[t]
  <2>1. CASE f = "write"
    BY <1>1, <2>1
  <2>2. CASE f = "settle" /\ "write" \notin EndingView[t]
    <3>1. 1 .. 2 - 1 = {1}
      OBVIOUS
    <3> QED BY <1>1, <2>2, <3>1
  <2>3. CASE f = "stats" /\ {"write", "settle"} \cap EndingView[t] = {}
    <3>1. 1 .. 3 - 1 = {1, 2}
      OBVIOUS
    <3> QED BY <1>1, <2>3, <3>1
  <2>4. CASE f = "clear" /\ {"write", "settle", "stats"} \cap EndingView[t] = {}
    <3>1. 1 .. 4 - 1 = {1, 2, 3}
      OBVIOUS
    <3> QED BY <1>1, <2>4, <3>1
  <2>5. CASE f = "remove" /\ {"write", "settle", "stats", "clear"} \cap EndingView[t] = {}
    <3>1. 1 .. 5 - 1 = {1, 2, 3, 4}
      OBVIOUS
    <3> QED BY <1>1, <2>5, <3>1
  <2> QED BY <2>1, <2>2, <2>3, <2>4, <2>5
<1> QED BY <1>1, <1>2 DEF Ends!Due

\* A command that ends the session is due for SessionEnds too.
LEMMA DueSeen ==
    ASSUME EndsInv, NEW p \in Request, NEW t \in Session, t = sid[p],
           NEW e, e \in {"write", "stats", "clear", "remove"}, Due(p, e), "remove" \in todo[p]
    PROVE  /\ Ends!Due(t, NameOf(op[p], e))
           /\ LeftOf(op[p], todo[p] \ {e}) = EndingView[t] \ {NameOf(op[p], e)}
<1>1. EndingView[t] = LeftOf(op[p], todo[p])
  BY EndingOf DEF EndsInv, AtomicInv, Due, Live, LeftToEnd, LeftOf
<1>2. /\ e = "stats"  => "write" \notin todo[p]
      /\ e = "clear"  => {"write", "stats"} \cap todo[p] = {}
      /\ e = "remove" => {"write", "stats", "clear"} \cap todo[p] = {}
      /\ e \in todo[p]
  BY DueAfter DEF EndsInv, Due
<1>3. NameOf(op[p], e) \in EndingView[t]
  BY <1>1, <1>2 DEF LeftOf, NameOf
<1>4. Ends!Due(t, NameOf(op[p], e))
  <2>1. CASE e = "write"
    <3>1. op[p] = "decrypt" => "write" \notin EndingView[t]
      BY <1>1 DEF LeftOf
    <3> QED BY <1>3, <2>1, <3>1, EndDue DEF NameOf
  <2>2. CASE e # "write"
    <3>1. {"write", "settle"} \cap EndingView[t] = {}
      BY <1>1, <1>2, <2>2 DEF LeftOf
    <3>2. /\ e = "clear" => "stats" \notin EndingView[t]
          /\ e = "remove" => {"stats", "clear"} \cap EndingView[t] = {}
      BY <1>1, <1>2 DEF LeftOf
    <3> QED BY <1>3, <2>2, <3>1, <3>2, EndDue DEF NameOf
  <2> QED BY <2>1, <2>2
<1>5. LeftOf(op[p], todo[p] \ {e}) = EndingView[t] \ {NameOf(op[p], e)}
  BY <1>1, <1>2 DEF LeftOf, NameOf
<1> QED BY <1>4, <1>5

\* A step in which request p only loses commands.
LEMMA PlanSeen ==
    ASSUME EndsInv, NEW p \in Request, NEW t \in Session, t = sid[p],
           pc[p] = "working", UNCHANGED <<pc, sid, op>>,
           NEW less, todo' = [todo EXCEPT ![p] = less]
    PROVE  /\ EndingView[t] = LeftOf(op[p], todo[p])
           /\ EndingView' = [EndingView EXCEPT ![t] = LeftOf(op[p], less)]
           /\ LeftOf(op[p], less) = EndingView[t] => EndingView' = EndingView
<1>1. TypeOK /\ LockInv /\ Holds(p, t) /\ Live(p) /\ todo'[p] = less
      /\ \A q \in Request \ {p} : todo'[q] = todo[q]
  BY DEF EndsInv, AtomicInv, TypeOK, Holds, Live
<1>2. EndingView[t] = LeftOf(op[p], todo[p])
  BY <1>1, EndingOf DEF LeftToEnd, LeftOf
<1>3. LeftIn(p, t)' = LeftOf(op[p], less)
  BY <1>1 DEF LeftIn, LeftToEnd, LeftOf, Holds, Live
<1>4. EndingView' = [EndingView EXCEPT ![t] = LeftIn(p, t)']
  BY <1>1, EndingMoves
<1> QED BY <1>2, <1>3, <1>4 DEF EndingView

\* Storing the record: the end of the session, or a guess withheld or settled.
LEMMA WriteSeen ==
    ASSUME EndsInv, NEW p \in Request, WriteSession(p)
    PROVE  EndsStep
<1>1. PICK t \in Session : t = sid[p]
  BY DEF EndsInv, AtomicInv, TypeOK, WriteSession, Issue, Due
<1>2. /\ Due(p, "write") /\ pc[p] = "working" /\ "write" \in todo[p]
      /\ UNCHANGED <<pc, sid, op, active, activeID, solvedChars, solves>>
      /\ todo' = [todo EXCEPT ![p] = todo[p] \ {"write"}]
      /\ session' = [session EXCEPT ![t] = copy[p]]
  BY <1>1 DEF WriteSession, Issue, Due, team, sessions
<1>3. PICK r, c, left : r = session[t] /\ c = copy[p] /\ left = todo[p] \ {"write"}
  OBVIOUS
<1>4. PlanOf(op[p], r, c, todo[p])
  BY <1>1, <1>2, <1>3 DEF EndsInv, PlansEnd
<1>5. r \in SessionRecord /\ c \in SessionRecord
  BY <1>1, <1>2, <1>3 DEF EndsInv, AtomicInv, TypeOK
<1>6. /\ session'[t] = c /\ \A s \in Session \ {t} : session'[s] = session[s]
  BY <1>1, <1>2, <1>3 DEF EndsInv, AtomicInv, TypeOK
<1>7. /\ EndingView[t] = LeftOf(op[p], todo[p])
      /\ EndingView' = [EndingView EXCEPT ![t] = LeftOf(op[p], left)]
      /\ LeftOf(op[p], left) = EndingView[t] => EndingView' = EndingView
  BY <1>1, <1>2, <1>3, PlanSeen
<1>8. TargetView' = TargetView
  BY <1>3, <1>4, <1>6 DEF TargetView, PlanOf
<1>9. UNCHANGED Ends!books
  BY <1>2 DEF Ends!books
<1>10. /\ StoredView[t] = (IF r.completed THEN "closed" ELSE "open")
       /\ t \in WithheldView <=> r.pending
  BY <1>3 DEF StoredView, WithheldView
<1>11. /\ StoredView' = [StoredView EXCEPT ![t] = IF c.completed THEN "closed" ELSE "open"]
       /\ WithheldView' = IF c.pending THEN WithheldView \cup {t} ELSE WithheldView \ {t}
  <2>1. StoredView' = [StoredView EXCEPT ![t] = IF c.completed THEN "closed" ELSE "open"]
    <3>1. StoredView' = [s \in Session |-> IF s = t THEN IF c.completed THEN "closed" ELSE "open"
                                           ELSE StoredView[s]]
      BY <1>6 DEF StoredView
    <3>2. DOMAIN StoredView = Session
      BY DEF StoredView
    <3> QED BY <3>1, <3>2
  <2>2. \A s : s \in WithheldView' <=> s \in Session /\ session'[s].pending
    BY DEF WithheldView
  <2>3. \A s : s \in WithheldView <=> s \in Session /\ session[s].pending
    BY DEF WithheldView
  <2>4. CASE c.pending
    BY <1>6, <2>1, <2>2, <2>3, <2>4
  <2>5. CASE ~c.pending
    BY <1>6, <2>1, <2>2, <2>3, <2>5
  <2> QED BY <2>4, <2>5
<1>12. CASE "remove" \in todo[p]
  <2>1. /\ Ends!Due(t, NameOf(op[p], "write"))
        /\ LeftOf(op[p], left) = EndingView[t] \ {NameOf(op[p], "write")}
    BY <1>1, <1>2, <1>3, <1>12, DueSeen
  <2>2. Ends!Issue(t, NameOf(op[p], "write"))
    BY <1>7, <1>8, <2>1 DEF Ends!Issue
  <2>3. c.completed /\ c.pending = (IF op[p] = "decrypt" THEN FALSE ELSE r.pending)
    BY <1>2, <1>4, <1>12 DEF PlanOf
  <2>4. CASE op[p] = "decrypt"
    <3>1. Ends!StoreSettled(t)
      BY <1>9, <1>11, <2>2, <2>3, <2>4 DEF Ends!StoreSettled, NameOf
    <3> QED BY <3>1 DEF EndsStep, Ends!EndsNext, Ends!EndStep
  <2>5. CASE op[p] # "decrypt"
    <3>1. WithheldView' = WithheldView
      BY <1>10, <1>11, <2>3, <2>5
    <3>2. Ends!StoreCompleted(t)
      BY <1>9, <1>11, <2>2, <2>3, <2>5, <3>1 DEF Ends!StoreCompleted, NameOf
    <3> QED BY <3>2 DEF EndsStep, Ends!EndsNext, Ends!EndStep
  <2> QED BY <2>4, <2>5
<1>13. CASE "remove" \notin todo[p]
  <2>1. EndingView[t] = {} /\ EndingView' = EndingView
    BY <1>3, <1>7, <1>13 DEF LeftOf
  <2>2. PlaysOn(r, c)
    BY <1>2, <1>4, <1>13 DEF PlanOf
  <2>3. StoredView' = StoredView
    BY <1>10, <1>11, <2>2 DEF StoredView, PlaysOn
  <2>4. CASE c.pending = r.pending
    <3>1. WithheldView' = WithheldView
      BY <1>10, <1>11, <2>4
    <3> QED BY <1>8, <1>9, <2>1, <2>3, <3>1 DEF EndsStep, Ends!endsVars, Ends!record
  <2>5. CASE c.pending /\ ~r.pending /\ ~r.completed
    <3>1. Ends!Withhold(t)
      BY <1>8, <1>9, <1>10, <1>11, <2>1, <2>3, <2>5 DEF Ends!Withhold
    <3> QED BY <3>1 DEF EndsStep, Ends!EndsNext, Ends!Decide
  <2>6. CASE ~c.pending /\ r.pending
    <3>1. Ends!SettleMiss(t)
      BY <1>8, <1>9, <1>10, <1>11, <2>1, <2>3, <2>6 DEF Ends!SettleMiss
    <3> QED BY <3>1 DEF EndsStep, Ends!EndsNext, Ends!Decide
  <2> QED BY <2>2, <2>4, <2>5, <2>6 DEF PlaysOn
<1> QED BY <1>12, <1>13

\* The other commands that end a session.
LEMMA EndCommandSeen ==
    ASSUME EndsInv, NEW p \in Request,
           UpdateTeamStats(p) \/ ClearActiveSession(p) \/ RemoveActiveSession(p)
    PROVE  EndsStep
<1>1. PICK e :
         /\ Issue(p, e) /\ e \in {"stats", "clear", "remove"}
         /\ \/ e = "stats"  /\ UpdateTeamStats(p)
            \/ e = "clear"  /\ ClearActiveSession(p)
            \/ e = "remove" /\ RemoveActiveSession(p)
  BY DEF UpdateTeamStats, ClearActiveSession, RemoveActiveSession
<1>2. PICK t \in Session : t = sid[p]
  BY <1>1 DEF EndsInv, AtomicInv, TypeOK, Issue, Due
<1>3. /\ Due(p, e) /\ pc[p] = "working" /\ e \in todo[p] /\ session' = session
      /\ e \in {"stats", "clear", "remove"}
  BY <1>1 DEF Issue, Due, UpdateTeamStats, ClearActiveSession, RemoveActiveSession
<1>4. PlanOf(op[p], session[t], copy[p], todo[p])
  BY <1>2, <1>3 DEF EndsInv, PlansEnd
<1>5. "remove" \in todo[p]
  BY <1>3, <1>4 DEF PlanOf
<1>6. Ends!Due(t, e) /\ LeftOf(op[p], todo[p] \ {e}) = EndingView[t] \ {e}
  <2>1. /\ Ends!Due(t, NameOf(op[p], e))
        /\ LeftOf(op[p], todo[p] \ {e}) = EndingView[t] \ {NameOf(op[p], e)}
    <3>1. Due(p, e) /\ e \in {"write", "stats", "clear", "remove"}
      BY <1>3
    <3> QED BY <1>2, <1>5, <3>1, DueSeen
  <2>2. NameOf(op[p], e) = e
    BY <1>3 DEF NameOf
  <2> QED BY <2>1, <2>2
<1>7. EndingView' = [EndingView EXCEPT ![t] = EndingView[t] \ {e}]
  <2>1. PICK left : left = todo[p] \ {e}
    OBVIOUS
  <2>2. pc[p] = "working" /\ UNCHANGED <<pc, sid, op>> /\ todo' = [todo EXCEPT ![p] = left]
    BY <1>1, <2>1 DEF Issue, Due
  <2>3. EndingView' = [EndingView EXCEPT ![t] = LeftOf(op[p], left)]
    BY <1>2, <2>2, PlanSeen
  <2> QED BY <1>6, <2>1, <2>3
<1>8. UNCHANGED <<StoredView, TargetView, WithheldView>>
  BY <1>3, RecordsStay
<1>9. Ends!Issue(t, e)
  BY <1>6, <1>7, <1>8 DEF Ends!Issue
<1>10. CASE e = "stats" /\ UpdateTeamStats(p)
  <2>1. copy[p].target = TargetView[t]
    BY <1>4 DEF PlanOf, TargetView
  <2>2. Ends!UpdateTeamStats(t)
    BY <1>8, <1>9, <1>10, <2>1 DEF Ends!UpdateTeamStats, UpdateTeamStats, sessions
  <2> QED BY <2>2 DEF EndsStep, Ends!EndsNext, Ends!EndStep
<1>11. CASE e = "clear" /\ ClearActiveSession(p)
  <2>1. Ends!ClearActiveSession(t)
    BY <1>8, <1>9, <1>11 DEF Ends!ClearActiveSession, ClearActiveSession, team
  <2> QED BY <2>1 DEF EndsStep, Ends!EndsNext, Ends!EndStep
<1>12. CASE e = "remove" /\ RemoveActiveSession(p)
  <2>1. Ends!RemoveActiveSession(t)
    BY <1>2, <1>8, <1>9, <1>12 DEF Ends!RemoveActiveSession, RemoveActiveSession, team
  <2> QED BY <2>1 DEF EndsStep, Ends!EndsNext, Ends!EndStep
<1> QED BY <1>1, <1>10, <1>11, <1>12

\* The commands SessionEnds knows nothing of.
LEMMA OtherCommandSeen ==
    ASSUME EndsInv, NEW p \in Request,
           \/ IncrementScore(p) \/ IncrementBoard(p) \/ PublishGameUpdate(p)
           \/ \E m \in Milestone : AwardIfAbsent(p, m)
    PROVE  EndsStep
<1>1. PICK e \in {"score", "board", "publish"} \cup Milestone : Issue(p, e)
  BY DEF IncrementScore, IncrementBoard, PublishGameUpdate, AwardIfAbsent
<1>2. UNCHANGED <<session, activeID, active, solvedChars, solves>>
  BY DEF IncrementScore, IncrementBoard, PublishGameUpdate, AwardIfAbsent, team, sessions
<1>3. PICK t \in Session : t = sid[p]
  BY <1>1 DEF EndsInv, AtomicInv, TypeOK, Issue, Due
<1>4. /\ pc[p] = "working" /\ UNCHANGED <<pc, sid, op>>
      /\ todo' = [todo EXCEPT ![p] = todo[p] \ {e}]
  BY <1>1 DEF Issue, Due
<1>5. e \notin {"write", "stats", "clear", "remove"}
  BY DEF Milestone
<1>6. LeftOf(op[p], todo[p] \ {e}) = LeftOf(op[p], todo[p])
  BY <1>5 DEF LeftOf
<1>7. EndingView' = EndingView
  BY <1>3, <1>4, <1>6, PlanSeen
<1> QED BY <1>2, <1>7, NothingSeen

LEMMA FailureSeen ==
    ASSUME EndsInv, NEW p \in Request, CommandFails(p)
    PROVE  EndsStep
<1>1. PICK e :
         Due(p, e) /\ todo' = [todo EXCEPT ![p] = @ \ LostWith(op[p], e)]
  BY DEF CommandFails
<1>2. PICK t \in Session : t = sid[p]
  BY <1>1 DEF EndsInv, AtomicInv, TypeOK, Due
<1>3. PICK left : left = todo[p] \ LostWith(op[p], e)
  OBVIOUS
<1>4. /\ Due(p, e) /\ pc[p] = "working" /\ UNCHANGED <<pc, sid, op>>
      /\ todo' = [todo EXCEPT ![p] = left]
      /\ UNCHANGED <<session, activeID, active, solvedChars, solves>>
      /\ "error" \in Faults
  BY <1>1, <1>3 DEF CommandFails, MayFault, Due, redis
<1>5. /\ EndingView[t] = LeftOf(op[p], todo[p])
      /\ EndingView' = [EndingView EXCEPT ![t] = LeftOf(op[p], left)]
      /\ LeftOf(op[p], left) = EndingView[t] => EndingView' = EndingView
  BY <1>2, <1>4, PlanSeen
<1>6. PlanOf(op[p], session[t], copy[p], todo[p])
  BY <1>2, <1>4 DEF EndsInv, PlansEnd
<1>7. CASE LeftOf(op[p], left) = LeftOf(op[p], todo[p])
  BY <1>4, <1>5, <1>7, NothingSeen
<1>8. CASE "remove" \in todo[p] /\ e \in {"write", "stats", "clear", "remove"}
  <2>1. /\ Ends!Due(t, NameOf(op[p], e))
        /\ LeftOf(op[p], todo[p] \ {e}) = EndingView[t] \ {NameOf(op[p], e)}
    <3>1. Due(p, e) /\ "remove" \in todo[p] /\ e \in {"write", "stats", "clear", "remove"}
      BY <1>4, <1>8
    <3> QED BY <1>2, <3>1, DueSeen
  <2>2. LeftOf(op[p], left) = IF NameOf(op[p], e) = "stats" THEN {}
                              ELSE EndingView[t] \ {NameOf(op[p], e)}
    <3>1. CASE e = "stats"
      BY <1>3, <3>1 DEF LostWith, LeftOf, NameOf
    <3>2. CASE e # "stats"
      <4>1. op[p] # "ask"
        BY <1>6, <1>8 DEF PlanOf
      <4>2. LostWith(op[p], e) = {e}
        BY <1>8, <3>2, <4>1 DEF LostWith
      <4>3. NameOf(op[p], e) # "stats"
        BY <3>2 DEF NameOf
      <4> QED BY <1>3, <2>1, <4>2, <4>3
    <3> QED BY <3>1, <3>2
  <2>3. NameOf(op[p], e) \in EndingView[t]
    BY <2>1 DEF Ends!Due
  <2>4. UNCHANGED <<Ends!record, Ends!books>>
    BY <1>4, RecordsStay DEF Ends!record, Ends!books
  <2>5. EndingView' = [EndingView EXCEPT ![t] = IF NameOf(op[p], e) = "stats" THEN {}
                                                ELSE @ \ {NameOf(op[p], e)}]
    BY <1>5, <2>2
  <2>6. Ends!Fails(t)
    BY <1>4, <2>1, <2>3, <2>4, <2>5 DEF Ends!Fails
  <2> QED BY <2>6 DEF EndsStep, Ends!EndsNext
<1>9. CASE "remove" \notin todo[p]
  BY <1>3, <1>7, <1>9 DEF LeftOf
<1>10. CASE e \notin {"write", "stats", "clear", "remove"}
  <2>1. {"write", "stats", "clear", "remove"} \cap LostWith(op[p], e) = {}
    BY <1>10 DEF LostWith
  <2>2. LeftOf(op[p], left) = LeftOf(op[p], todo[p])
    BY <1>3, <2>1 DEF LeftOf
  <2> QED BY <1>7, <2>2
<1> QED BY <1>8, <1>9, <1>10

\* The request that ends a session is cut off; for any other it is nothing.
LEMMA AbortSeen ==
    ASSUME EndsInv, NEW p \in Request, Abort(p)
    PROVE  EndsStep
<1>1. /\ UNCHANGED <<session, activeID, active, solvedChars, solves>> /\ "abort" \in Faults
      /\ pc'[p] = "idle" /\ todo'[p] = {}
      /\ \A q \in Request \ {p} : /\ pc'[q] = pc[q] /\ sid'[q] = sid[q]
                                  /\ op'[q] = op[q] /\ todo'[q] = todo[q]
  BY DEF EndsInv, AtomicInv, TypeOK, Abort, MayFault, Leave, redis
<1>2. CASE ~Live(p)
  <2>1. ASSUME NEW s \in Session, NEW q \in Request PROVE LeftIn(q, s)' = LeftIn(q, s)
    BY <1>1, <1>2 DEF LeftIn, LeftToEnd, Holds, Live
  <2> QED BY <1>1, <2>1, EndingStays, NothingSeen
<1>3. CASE Live(p)
  <2>1. PICK t \in Session : t = sid[p]
    BY <1>3 DEF EndsInv, AtomicInv, TypeOK, Live
  <2>2. Holds(p, t) /\ ~Live(p)' /\ LeftIn(p, t)' = {}
    BY <1>1, <1>3, <2>1 DEF Holds, Live, LeftIn
  <2>3. EndingView' = [EndingView EXCEPT ![t] = {}]
    BY <1>1, <2>1, <2>2, EndingMoves DEF EndsInv, AtomicInv
  <2>4. CASE EndingView[t] = {}
    <3>1. EndingView' = EndingView
      BY <2>3, <2>4 DEF EndingView
    <3> QED BY <1>1, <3>1, NothingSeen
  <2>5. CASE EndingView[t] # {}
    <3>1. UNCHANGED <<Ends!record, Ends!books>>
      BY <1>1, RecordsStay DEF Ends!record, Ends!books
    <3>2. Ends!CutOff(t)
      BY <1>1, <2>3, <2>5, <3>1 DEF Ends!CutOff
    <3> QED BY <3>2 DEF EndsStep, Ends!EndsNext
  <2> QED BY <2>4, <2>5
<1> QED BY <1>2, <1>3

\* Requests that begin, wait or are done, and locks that run out.
LEMMA QuietSeen ==
    ASSUME EndsInv,
           \/ \E p \in Request, s \in Session : Begin(p, s)
           \/ \E p \in Request : Acquire(p) \/ Retry(p) \/ Contention(p) \/ Release(p)
           \/ \E s \in Session : LockExpires(s) \/ LeaseEnds(s)
           \/ UNCHANGED vars
    PROVE  EndsStep
<1>1. TypeOK /\ PlansWorking
  BY DEF EndsInv, AtomicInv
<1>2. UNCHANGED <<session, activeID, active, solvedChars, solves>>
  BY DEF Begin, Acquire, Retry, Contention, Release, LockExpires, LeaseEnds, Expire,
         vars, redis, team, sessions
<1>3. ASSUME NEW p \in Request,
             \A q \in Request \ {p} : /\ pc'[q] = pc[q] /\ sid'[q] = sid[q]
                                      /\ op'[q] = op[q] /\ todo'[q] = todo[q],
             todo[p] = {}, todo'[p] = {}
      PROVE  EndsStep
  <2>1. ASSUME NEW s \in Session, NEW q \in Request PROVE LeftIn(q, s)' = LeftIn(q, s)
    <3>1. CASE q = p
      BY <1>3, <3>1 DEF LeftIn, LeftToEnd
    <3>2. CASE q # p
      BY <1>3, <3>2 DEF LeftIn, LeftToEnd, Holds, Live
    <3> QED BY <3>1, <3>2
  <2> QED BY <1>2, <2>1, EndingStays, NothingSeen
<1>4. ASSUME NEW p \in Request, NEW s \in Session, Begin(p, s) PROVE EndsStep
  BY <1>1, <1>3, <1>4 DEF Begin, PlansWorking, TypeOK
<1>5. ASSUME NEW p \in Request, Acquire(p) PROVE EndsStep
  BY <1>1, <1>3, <1>5 DEF Acquire, PlansWorking, TypeOK
<1>6. ASSUME NEW p \in Request, Contention(p) \/ Release(p) PROVE EndsStep
  BY <1>1, <1>3, <1>6 DEF Contention, Release, Leave, PlansWorking, TypeOK
<1>7. ASSUME UNCHANGED <<pc, sid, op, todo>> PROVE EndsStep
  <2>1. ASSUME NEW s \in Session, NEW q \in Request PROVE LeftIn(q, s)' = LeftIn(q, s)
    BY <1>7 DEF LeftIn, LeftToEnd, Holds, Live
  <2> QED BY <1>2, <2>1, EndingStays, NothingSeen
<1>8. CASE \/ \E p \in Request : Retry(p)
           \/ \E s \in Session : LockExpires(s) \/ LeaseEnds(s)
           \/ UNCHANGED vars
  BY <1>7, <1>8 DEF Retry, LockExpires, LeaseEnds, Expire, vars, local
<1> QED BY <1>4, <1>5, <1>6, <1>8

LEMMA NextSeen == EndsInv /\ [Next]_vars => EndsStep
<1> SUFFICES ASSUME EndsInv, [Next]_vars PROVE EndsStep
  OBVIOUS
<1>1. ASSUME NEW p \in Request, Command(p) PROVE EndsStep
  BY <1>1, WriteSeen, EndCommandSeen, OtherCommandSeen DEF Command
<1> QED BY <1>1, HandlerSeen, FailureSeen, AbortSeen, QuietSeen DEF Next, Serve, Handler

LEMMA InitSeen == Init => Ends!EndsInit
<1> SUFFICES ASSUME Init PROVE Ends!EndsInit
  OBVIOUS
<1>1. \A s \in Session : /\ ~session[s].completed /\ ~session[s].pending
                         /\ session[s].target \in Candidate
  BY DEF Init, Fresh, NewSession
<1>2. \A s \in Session, p \in Request : LeftIn(p, s) = {}
  BY DEF Init, LeftIn, LeftToEnd
<1>3. EndingView = [s \in Session |-> {}]
  <2>1. \A s \in Session : EndingView[s] = {}
    BY <1>2, EndingIs DEF EndingShown
  <2> QED BY <2>1 DEF EndingView
<1>4. StoredView = [s \in Session |-> "open"] /\ WithheldView = {}
      /\ TargetView \in [Session -> Candidate]
  BY <1>1 DEF StoredView, WithheldView, TargetView
<1>5. /\ active = Session /\ activeID \in Session /\ solvedChars = {} /\ solves \in Nat
  BY RulesAssumption DEF Init
<1> QED BY <1>3, <1>4, <1>5 DEF Ends!EndsInit

\* However requests are cut off or fail, a session is ended by one request at
\* a time, in an order on which the team's other sessions rely: SessionPlay
\* implements SessionEnds.
THEOREM EndsAreOrdered ==
    ASSUME "lease" \notin Faults
    PROVE  Spec => EndsInOrder
<1>1. Init => EndsInv
  BY InitAtomic DEF Init, EndsInv, PlansWorking, PlansEnd
<1>2. EndsInv /\ [Next]_vars => EndsInv'
  BY NextAtomic, NextPlansWorking, NextPlansEnd DEF EndsInv, AtomicInv
<1>3. EndsInv /\ [Next]_vars => [Ends!EndsNext]_(Ends!endsVars)
  BY NextSeen DEF EndsStep
<1> QED BY <1>1, <1>2, <1>3, InitSeen, PTL DEF Spec, EndsInOrder, Ends!EndsSpec

=============================================================================
