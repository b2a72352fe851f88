--------------------------- MODULE SessionPlay_proof ---------------------------
(***************************************************************************)
(* Proofs about SessionPlay, for every set of sessions, requests,          *)
(* questions and candidates and every bound:                               *)
(*   TypeCorrect       the type invariant;                                 *)
(*   MutualExclusion   one request at a time works on a session, unless a  *)
(*                     lease may end under its holder;                     *)
(*   AtomicSessions    under the same condition SessionPlay implements     *)
(*                     AtomicPlay: no update is lost;                      *)
(*   CreditedOnce      if moreover no command fails, the solve of a        *)
(*                     session is credited at most once - with requests    *)
(*                     cut off anywhere.                                   *)
(***************************************************************************)
EXTENDS SessionPlay, SessionRules_proof

LEMMA BonusType ==
    ASSUME NEW m
    PROVE  Bonus(m) \in Int
  BY DEF Bonus

\* A handler's step: it stays with its lock and plans one of its outcomes.
Handler(p) == AskQuestion(p) \/ SubmitGuess(p) \/ Reveal(p) \/ SubmitDecryption(p)

Planned(p, o, out) ==
    /\ pc[p] = "locked"
    /\ copy' = [copy EXCEPT ![p] = out.session]
    /\ points' = [points EXCEPT ![p] = out.points]
    /\ todo' = [todo EXCEPT ![p] = out.todo]
    /\ op' = [op EXCEPT ![p] = o]
    /\ pc' = [pc EXCEPT ![p] = "working"]
    /\ UNCHANGED <<redis, sid, tries, credits, faults>>

LEMMA HandlerPlans ==
    ASSUME TypeOK, NEW p \in Request, Handler(p)
    PROVE  \E o \in Op, out \in Outcome :
              /\ Planned(p, o, out)
              /\ out.session \in Results(session[sid[p]])
              /\ CreditsOnlyOpen(session[sid[p]], out)
              /\ KeepsClosed(session[sid[p]], out)
              /\ "stats" \in out.todo => o \in {"guess", "decrypt"}
<1> DEFINE sess == session[sid[p]]
<1>1. sess \in SessionRecord
  BY DEF TypeOK, Handler, AskQuestion, SubmitGuess, Reveal, SubmitDecryption, Handle
<1> HIDE DEF sess
<1>2. CASE AskQuestion(p)
  <2>1. PICK out \in AskOutcomes(sess) : Planned(p, "ask", out)
    BY <1>2 DEF AskQuestion, Handle, Planned, sess
  <2>2. out \in Outcome /\ out.session \in Results(sess)
    BY <1>1, AskType DEF Results
  <2>3. "stats" \notin out.todo /\ KeepsClosed(sess, out)
    BY <1>1, AskCredits
  <2> QED BY <2>1, <2>2, <2>3 DEF CreditsOnlyOpen, Op, sess
<1>3. CASE SubmitGuess(p)
  <2>1. PICK out \in GuessOutcomes(sess) : Planned(p, "guess", out)
    BY <1>3 DEF SubmitGuess, Handle, Planned, sess
  <2>2. out \in Outcome /\ out.session \in Results(sess)
    BY <1>1, GuessType DEF Results
  <2>3. CreditsOnlyOpen(sess, out) /\ KeepsClosed(sess, out)
    BY <1>1, GuessCredits
  <2> QED BY <2>1, <2>2, <2>3 DEF Op, sess
<1>4. CASE Reveal(p)
  <2>1. PICK out \in RevealOutcomes(sess) : Planned(p, "reveal", out)
    BY <1>4 DEF Reveal, Handle, Planned, sess
  <2>2. out \in Outcome /\ out.session \in Results(sess)
    BY <1>1, RevealType DEF Results
  <2>3. "stats" \notin out.todo /\ KeepsClosed(sess, out)
    BY <1>1, RevealCredits
  <2> QED BY <2>1, <2>2, <2>3 DEF CreditsOnlyOpen, Op, sess
<1>5. CASE SubmitDecryption(p)
  <2>1. PICK out \in DecryptOutcomes(sess) : Planned(p, "decrypt", out)
    BY <1>5 DEF SubmitDecryption, Handle, Planned, sess
  <2>2. out \in Outcome /\ out.session \in Results(sess)
    BY <1>1, DecryptType DEF Results
  <2>3. CreditsOnlyOpen(sess, out) /\ KeepsClosed(sess, out)
    BY <1>1, DecryptCredits
  <2> QED BY <2>1, <2>2, <2>3 DEF Op, sess
<1> QED BY <1>2, <1>3, <1>4, <1>5 DEF Handler

-----------------------------------------------------------------------------
(* Type correctness *)

LEMMA InitType == Init => TypeOK
<1> SUFFICES ASSUME Init PROVE TypeOK
  OBVIOUS
<1>1. Fresh \subseteq SessionRecord
  BY NewSessionType DEF Fresh
<1> QED BY <1>1, RulesAssumption, PlayAssumption DEF Init, TypeOK

LEMMA LeaveType ==
    ASSUME TypeOK, NEW p \in Request, Leave(p), UNCHANGED <<session, team, sessions, credits>>,
           lock' \in [Session -> Request \cup {None}], faults' \in Nat
    PROVE  TypeOK'
  BY DEF TypeOK, Leave, team, sessions

LEMMA NextType == TypeOK /\ [Next]_vars => TypeOK'
<1> SUFFICES ASSUME TypeOK, [Next]_vars PROVE TypeOK'
  OBVIOUS
<1>1. ASSUME NEW p \in Request, NEW s \in Session, Begin(p, s) PROVE TypeOK'
  BY <1>1 DEF TypeOK, Begin, redis
<1>2. ASSUME NEW p \in Request, Acquire(p) PROVE TypeOK'
  BY <1>2 DEF TypeOK, Acquire, team, sessions
<1>3. ASSUME NEW p \in Request, Retry(p) PROVE TypeOK'
  BY <1>3 DEF TypeOK, Retry, redis
<1>4. ASSUME NEW p \in Request, Contention(p) PROVE TypeOK'
  BY <1>4, LeaveType DEF TypeOK, Contention, redis, team, sessions
<1>5. ASSUME NEW p \in Request, Handler(p) PROVE TypeOK'
  <2>1. PICK o \in Op, out \in Outcome : Planned(p, o, out)
    BY <1>5, HandlerPlans
  <2>2. out.session \in SessionRecord /\ out.todo \in SUBSET Effect /\ out.points \in Int
    BY DEF Outcome
  <2> QED BY <2>1, <2>2 DEF TypeOK, Planned, redis
<1>6. ASSUME NEW p \in Request, IncrementScore(p) PROVE TypeOK'
  BY <1>6 DEF TypeOK, IncrementScore, Issue, sessions
<1>7. ASSUME NEW p \in Request, IncrementBoard(p) PROVE TypeOK'
  BY <1>7 DEF TypeOK, IncrementBoard, Issue, sessions
<1>8. ASSUME NEW p \in Request, WriteSession(p) PROVE TypeOK'
  BY <1>8 DEF TypeOK, WriteSession, Issue, Due, team, sessions
<1>9. ASSUME NEW p \in Request, UpdateTeamStats(p) PROVE TypeOK'
  <2>1. copy[p].target \in Candidate
    BY <1>9 DEF TypeOK, UpdateTeamStats, Issue, Due, SessionRecord
  <2>2. sid[p] \in Session
    BY <1>9 DEF TypeOK, UpdateTeamStats, Issue, Due
  <2> QED BY <1>9, <2>1, <2>2 DEF TypeOK, UpdateTeamStats, Issue, sessions
<1>10. ASSUME NEW p \in Request, ClearActiveSession(p) PROVE TypeOK'
  BY <1>10 DEF TypeOK, ClearActiveSession, Issue, team
<1>11. ASSUME NEW p \in Request, RemoveActiveSession(p) PROVE TypeOK'
  BY <1>11 DEF TypeOK, RemoveActiveSession, Issue, team
<1>12. ASSUME NEW p \in Request, NEW m \in Milestone, AwardIfAbsent(p, m) PROVE TypeOK'
  <2>1. score' \in Int /\ board' \in Int /\ milestones' \subseteq Milestone
    BY <1>12, BonusType DEF TypeOK, AwardIfAbsent
  <2> QED BY <1>12, <2>1 DEF TypeOK, AwardIfAbsent, Issue, sessions
<1>13. ASSUME NEW p \in Request, PublishGameUpdate(p) PROVE TypeOK'
  BY <1>13 DEF TypeOK, PublishGameUpdate, Issue, Due, team
<1>14. ASSUME NEW p \in Request, Release(p) PROVE TypeOK'
  BY <1>14, LeaveType DEF TypeOK, Release
<1>15. ASSUME NEW p \in Request, Abort(p) PROVE TypeOK'
  <2>1. faults' \in Nat
    BY <1>15 DEF TypeOK, Abort
  <2> QED BY <1>15, <2>1, LeaveType DEF TypeOK, Abort, redis, team, sessions
<1>16. ASSUME NEW p \in Request, CommandFails(p) PROVE TypeOK'
  BY <1>16 DEF TypeOK, CommandFails, redis
<1>17. ASSUME NEW s \in Session, LockExpires(s) PROVE TypeOK'
  BY <1>17 DEF TypeOK, LockExpires, Expire, team, sessions, local
<1>18. ASSUME NEW s \in Session, LeaseEnds(s) PROVE TypeOK'
  BY <1>18 DEF TypeOK, LeaseEnds, Expire, team, sessions, local
<1>19. ASSUME UNCHANGED vars PROVE TypeOK'
  BY <1>19 DEF TypeOK, vars, redis, local
<1> QED
  BY <1>1, <1>2, <1>3, <1>4, <1>5, <1>6, <1>7, <1>8, <1>9, <1>10, <1>11, <1>12,
     <1>13, <1>14, <1>15, <1>16, <1>17, <1>18, <1>19
  DEF Next, Serve, Command, Handler

\* Every reachable state has the declared types.
THEOREM TypeCorrect == Spec => []TypeOK
<1> QED BY InitType, NextType, PTL DEF Spec

-----------------------------------------------------------------------------
(* Mutual exclusion.  The invariant is ownership: a request past            *)
(* AcquireSessionLock finds its own value in the lock.                      *)

LockInv == \A p \in Request : Live(p) => lock[sid[p]] = p

LEMMA OwnershipExcludes ==
    ASSUME LockInv
    PROVE  LockExclusion
  BY DEF LockInv, LockExclusion, Holds

LEMMA InitLock == Init => LockInv
  BY DEF Init, LockInv, Live

\* As long as no lease ends under its holder ...
LEMMA StepLock ==
    ASSUME TypeOK, LockInv, [Next]_vars, \A s \in Session : ~LeaseEnds(s)
    PROVE  LockInv'
<1> USE PlayAssumption
<1>1. ASSUME NEW p \in Request, NEW s \in Session, Begin(p, s) PROVE LockInv'
  BY <1>1 DEF TypeOK, LockInv, Live, Begin, redis
<1>2. ASSUME NEW p \in Request, Acquire(p) PROVE LockInv'
  BY <1>2 DEF TypeOK, LockInv, Live, Acquire
<1>3. ASSUME NEW p \in Request, Retry(p) PROVE LockInv'
  BY <1>3 DEF LockInv, Live, Retry, redis
<1>4. ASSUME NEW p \in Request, Contention(p) \/ Abort(p) PROVE LockInv'
  BY <1>4 DEF TypeOK, LockInv, Live, Contention, Abort, Leave, redis
<1>5. ASSUME NEW p \in Request, Handler(p) PROVE LockInv'
  <2>1. PICK o \in Op, out \in Outcome : Planned(p, o, out)
    BY <1>5, HandlerPlans
  <2> QED BY <2>1 DEF TypeOK, LockInv, Live, Planned, redis
<1>6. ASSUME NEW p \in Request, Command(p) PROVE LockInv'
  <2>1. UNCHANGED <<pc, sid, lock>>
    BY <1>6 DEF Command, IncrementScore, IncrementBoard, WriteSession, UpdateTeamStats,
                ClearActiveSession, RemoveActiveSession, AwardIfAbsent,
                PublishGameUpdate, Issue
  <2> QED BY <2>1 DEF LockInv, Live
<1>7. ASSUME NEW p \in Request, Release(p) PROVE LockInv'
  BY <1>7 DEF TypeOK, LockInv, Live, Release, Leave
<1>8. ASSUME NEW p \in Request, CommandFails(p) PROVE LockInv'
  BY <1>8 DEF LockInv, Live, CommandFails, redis
<1>9. ASSUME NEW s \in Session, LockExpires(s) PROVE LockInv'
  BY <1>9 DEF TypeOK, LockInv, Live, Holds, HolderAlive, LockExpires, Expire, local
<1>10. ASSUME NEW s \in Session, LeaseEnds(s) PROVE LockInv'
  BY <1>10
<1>11. ASSUME UNCHANGED vars PROVE LockInv'
  BY <1>11 DEF LockInv, Live, vars, redis, local
<1> QED
  BY <1>1, <1>2, <1>3, <1>4, <1>5, <1>6, <1>7, <1>8, <1>9, <1>10, <1>11
  DEF Next, Serve, Handler

\* ... and therefore if none may.
LEMMA NextLock ==
    ASSUME "lease" \notin Faults
    PROVE  TypeOK /\ LockInv /\ [Next]_vars => LockInv'
  BY StepLock DEF LeaseEnds, MayFault

\* As long as no lease ends under its holder, the lock is mutual exclusion.
THEOREM MutualExclusion ==
    ASSUME "lease" \notin Faults
    PROVE  Spec => []LockExclusion
<1>1. Init => TypeOK /\ LockInv
  BY InitType, InitLock
<1>2. (TypeOK /\ LockInv) /\ [Next]_vars => (TypeOK /\ LockInv)'
  BY NextType, NextLock
<1>3. TypeOK /\ LockInv => LockExclusion
  BY OwnershipExcludes
<1> QED BY <1>1, <1>2, <1>3, PTL DEF Spec

-----------------------------------------------------------------------------
(* Refinement.  The invariant: what a request is about to store results     *)
(* from the record that is stored now, not from an outdated one.            *)

CopyInv ==
    \A p \in Request :
        pc[p] = "working" /\ "write" \in todo[p] => copy[p] \in Results(session[sid[p]])

\* A step that stores no session keeps CopyInv if it plans no new write.
KeepsPlans ==
    /\ session' = session
    /\ \A p \in Request :
          pc'[p] = "working" /\ "write" \in todo'[p] =>
             /\ pc[p] = "working" /\ "write" \in todo[p]
             /\ copy'[p] = copy[p] /\ sid'[p] = sid[p]

LEMMA KeptPlans ==
    ASSUME CopyInv, KeepsPlans
    PROVE  CopyInv'
  BY DEF CopyInv, KeepsPlans

\* What every step other than a handler's decision and a write does.
LEMMA OtherSteps ==
    ASSUME TypeOK, [Next]_vars,
           \A p \in Request : ~Handler(p) /\ ~WriteSession(p)
    PROVE  KeepsPlans
<1>1. ASSUME NEW p \in Request, NEW s \in Session, Begin(p, s) PROVE KeepsPlans
  BY <1>1 DEF TypeOK, KeepsPlans, Begin, redis
<1>2. ASSUME NEW p \in Request, Acquire(p) PROVE KeepsPlans
  BY <1>2 DEF TypeOK, KeepsPlans, Acquire
<1>3. ASSUME NEW p \in Request, Retry(p) PROVE KeepsPlans
  BY <1>3 DEF KeepsPlans, Retry, redis
<1>4. ASSUME NEW p \in Request, Contention(p) \/ Abort(p) \/ Release(p) PROVE KeepsPlans
  BY <1>4 DEF TypeOK, KeepsPlans, Contention, Abort, Release, Leave, redis
<1>5. ASSUME NEW p \in Request, Command(p), ~WriteSession(p) PROVE KeepsPlans
  <2>1. UNCHANGED <<session, pc, sid, copy>>
    BY <1>5 DEF Command, IncrementScore, IncrementBoard, UpdateTeamStats,
                ClearActiveSession, RemoveActiveSession, AwardIfAbsent,
                PublishGameUpdate, Issue
  <2>2. \E e \in Effect : todo' = [todo EXCEPT ![p] = @ \ {e}]
    <3>1. \E e \in {"score", "board", "stats", "clear", "remove", "publish"} \cup Milestone :
             todo' = [todo EXCEPT ![p] = @ \ {e}] /\ e \in todo[p]
      BY <1>5 DEF Command, IncrementScore, IncrementBoard, UpdateTeamStats,
                  ClearActiveSession, RemoveActiveSession, AwardIfAbsent,
                  PublishGameUpdate, Issue, Due
    <3> QED BY <3>1 DEF TypeOK
  <2> QED BY <2>1, <2>2 DEF TypeOK, KeepsPlans
<1>6. ASSUME NEW p \in Request, CommandFails(p) PROVE KeepsPlans
  BY <1>6 DEF TypeOK, KeepsPlans, CommandFails, redis
<1>7. ASSUME NEW s \in Session, LockExpires(s) \/ LeaseEnds(s) PROVE KeepsPlans
  BY <1>7 DEF KeepsPlans, LockExpires, LeaseEnds, Expire, local
<1>8. ASSUME UNCHANGED vars PROVE KeepsPlans
  BY <1>8 DEF KeepsPlans, vars, redis, local
<1> QED
  BY <1>1, <1>2, <1>3, <1>4, <1>5, <1>6, <1>7, <1>8
  DEF Next, Serve, Handler

\* While one request stores its session, no other is at work on it.
LEMMA WriterAlone ==
    ASSUME TypeOK, LockInv, NEW p \in Request, WriteSession(p),
           NEW q \in Request, q # p, pc[q] = "working"
    PROVE  sid[q] # sid[p]
  BY DEF LockInv, Live, WriteSession, Issue, Due

LEMMA NextCopy ==
    TypeOK /\ LockInv /\ CopyInv /\ [Next]_vars => CopyInv'
<1> SUFFICES ASSUME TypeOK, LockInv, CopyInv, [Next]_vars PROVE CopyInv'
  OBVIOUS
<1>1. ASSUME NEW p \in Request, Handler(p) PROVE CopyInv'
  <2>1. PICK o \in Op, out \in Outcome :
           Planned(p, o, out) /\ out.session \in Results(session[sid[p]])
    BY <1>1, HandlerPlans
  <2> QED BY <2>1 DEF TypeOK, CopyInv, Planned, redis
<1>2. ASSUME NEW p \in Request, WriteSession(p) PROVE CopyInv'
  <2> SUFFICES ASSUME NEW q \in Request, pc'[q] = "working", "write" \in todo'[q]
               PROVE  copy'[q] \in Results(session'[sid'[q]])
    BY DEF CopyInv
  <2>1. UNCHANGED <<pc, sid, copy>> /\ todo' = [todo EXCEPT ![p] = @ \ {"write"}]
        /\ session' = [session EXCEPT ![sid[p]] = copy[p]]
    BY <1>2 DEF WriteSession, Issue
  <2>2. q # p
    BY <2>1 DEF TypeOK
  <2>3. sid[q] # sid[p] /\ sid[q] \in Session
    BY <1>2, <2>1, <2>2, WriterAlone DEF TypeOK
  <2>4. session'[sid[q]] = session[sid[q]]
    BY <2>1, <2>3 DEF TypeOK
  <2>5. "write" \in todo[q]
    BY <2>1, <2>2 DEF TypeOK
  <2> QED BY <2>1, <2>4, <2>5 DEF CopyInv
<1>3. CASE \A p \in Request : ~Handler(p) /\ ~WriteSession(p)
  BY <1>3, OtherSteps, KeptPlans
<1> QED BY <1>1, <1>2, <1>3

LEMMA StepRefines ==
    TypeOK /\ CopyInv /\ [Next]_vars => [Atomic!Next]_session
<1> SUFFICES ASSUME TypeOK, CopyInv, [Next]_vars PROVE [Atomic!Next]_session
  OBVIOUS
<1>1. ASSUME NEW p \in Request, Handler(p) PROVE session' = session
  BY <1>1, HandlerPlans DEF Planned, redis
<1>2. ASSUME NEW p \in Request, WriteSession(p) PROVE Atomic!Next
  <2>1. sid[p] \in Session /\ copy[p] \in Results(session[sid[p]])
    BY <1>2 DEF TypeOK, CopyInv, WriteSession, Issue, Due
  <2>2. session' = [session EXCEPT ![sid[p]] = copy[p]]
    BY <1>2 DEF WriteSession
  <2>3. Atomic!Play(sid[p])
    BY <2>1, <2>2 DEF Atomic!Play
  <2> QED BY <2>1, <2>3 DEF Atomic!Next
<1>3. CASE \A p \in Request : ~Handler(p) /\ ~WriteSession(p)
  BY <1>3, OtherSteps DEF KeepsPlans
<1> QED BY <1>1, <1>2, <1>3

\* Under the lock, sessions behave as if read, decision and write were one
\* step: SessionPlay implements AtomicPlay.
THEOREM AtomicSessions ==
    ASSUME "lease" \notin Faults
    PROVE  Spec => NoLostUpdate
<1>1. Init => TypeOK /\ LockInv /\ CopyInv
  <2>1. Init => CopyInv
    BY DEF Init, CopyInv
  <2> QED BY <2>1, InitType, InitLock
<1>2. (TypeOK /\ LockInv /\ CopyInv) /\ [Next]_vars => (TypeOK /\ LockInv /\ CopyInv)'
  BY NextType, NextLock, NextCopy
<1>3. Init => Atomic!Init
  BY DEF Init, Atomic!Init
<1>4. (TypeOK /\ LockInv /\ CopyInv) /\ [Next]_vars => [Atomic!Next]_session
  BY StepRefines
<1> QED BY <1>1, <1>2, <1>3, <1>4, PTL DEF Spec, NoLostUpdate, Atomic!Spec

-----------------------------------------------------------------------------
(* A solve is credited once.  The invariant follows the credit: a credited  *)
(* session is stored as completed and waits for no decryption; a request    *)
(* that is still going to credit finds its session uncredited and stores    *)
(* the completed record before; and no pending write reopens a credited     *)
(* session.                                                                 *)

CreditedClosed ==
    \A s \in Session : credits[s] <= 1 /\ (credits[s] = 1 => Closed(session[s]))

CreditPlanned(p) == pc[p] = "working" /\ "stats" \in todo[p]
WritePlanned(p)  == pc[p] = "working" /\ "write" \in todo[p]

PlannedCredits ==
    \A p \in Request : CreditPlanned(p) =>
        /\ credits[sid[p]] = 0
        /\ op[p] \in {"guess", "decrypt"}
        /\ ~WritePlanned(p) => Closed(session[sid[p]])
        /\ Closed(copy[p])

PlannedWrites ==
    \A p \in Request :
        WritePlanned(p) /\ credits[sid[p]] = 1 => Closed(copy[p])

CreditInv == CreditedClosed /\ PlannedCredits /\ PlannedWrites

\* In both handlers that credit, the write comes before the credit.
LEMMA WriteBeforeStats ==
    ASSUME NEW o \in {"guess", "decrypt"}
    PROVE  Precedes(o, "write", "stats")
<1>1. CASE o = "guess"
  <2>1. Order[o][3] = "write" /\ Order[o][4] = "stats" /\ {3, 4} \subseteq DOMAIN Order[o]
    BY <1>1 DEF Order
  <2> QED BY <2>1 DEF Precedes
<1>2. CASE o = "decrypt"
  <2>1. Order[o][5] = "write" /\ Order[o][6] = "stats" /\ {5, 6} \subseteq DOMAIN Order[o]
    BY <1>2 DEF Order
  <2> QED BY <2>1 DEF Precedes
<1> QED BY <1>1, <1>2

\* Steps that neither decide, write nor credit only shorten the plans.
KeepsCredits ==
    /\ credits' = credits
    /\ session' = session
    /\ \A p \in Request : pc'[p] = "working" =>
          /\ pc[p] = "working"
          /\ sid'[p] = sid[p] /\ op'[p] = op[p] /\ copy'[p] = copy[p]
          /\ todo'[p] \subseteq todo[p]
          /\ "stats" \in todo'[p] => ("write" \in todo'[p] <=> "write" \in todo[p])

LEMMA KeptCredits ==
    ASSUME CreditInv, KeepsCredits
    PROVE  CreditInv'
  BY DEF CreditInv, KeepsCredits, CreditedClosed, PlannedCredits, PlannedWrites,
         CreditPlanned, WritePlanned

LEMMA OtherCreditSteps ==
    ASSUME TypeOK, [Next]_vars,
           \A p \in Request : /\ ~Handler(p) /\ ~WriteSession(p) /\ ~UpdateTeamStats(p)
                              /\ ~CommandFails(p)
    PROVE  KeepsCredits
<1>1. ASSUME NEW p \in Request, NEW s \in Session, Begin(p, s) PROVE KeepsCredits
  BY <1>1 DEF TypeOK, KeepsCredits, Begin, redis
<1>2. ASSUME NEW p \in Request, Acquire(p) PROVE KeepsCredits
  BY <1>2 DEF TypeOK, KeepsCredits, Acquire
<1>3. ASSUME NEW p \in Request, Retry(p) PROVE KeepsCredits
  BY <1>3 DEF KeepsCredits, Retry, redis
<1>4. ASSUME NEW p \in Request, Contention(p) \/ Abort(p) \/ Release(p) PROVE KeepsCredits
  BY <1>4 DEF TypeOK, KeepsCredits, Contention, Abort, Release, Leave, redis
<1>5. ASSUME NEW p \in Request, Command(p), ~WriteSession(p), ~UpdateTeamStats(p)
      PROVE  KeepsCredits
  <2>1. UNCHANGED <<session, credits, pc, sid, op, copy>>
    BY <1>5 DEF Command, IncrementScore, IncrementBoard, ClearActiveSession,
                RemoveActiveSession, AwardIfAbsent, PublishGameUpdate, Issue
  <2>2. \E e \in {"score", "board", "clear", "remove", "publish"} \cup Milestone :
           todo' = [todo EXCEPT ![p] = @ \ {e}]
    BY <1>5 DEF Command, IncrementScore, IncrementBoard, ClearActiveSession,
                RemoveActiveSession, AwardIfAbsent, PublishGameUpdate, Issue
  <2> QED BY <2>1, <2>2 DEF TypeOK, KeepsCredits, Milestone
<1>6. ASSUME NEW p \in Request, CommandFails(p) PROVE KeepsCredits
  BY <1>6
<1>7. ASSUME NEW s \in Session, LockExpires(s) \/ LeaseEnds(s) PROVE KeepsCredits
  BY <1>7 DEF KeepsCredits, LockExpires, LeaseEnds, Expire, local
<1>8. ASSUME UNCHANGED vars PROVE KeepsCredits
  BY <1>8 DEF KeepsCredits, vars, redis, local
<1> QED
  BY <1>1, <1>2, <1>3, <1>4, <1>5, <1>6, <1>7, <1>8
  DEF Next, Serve, Handler

LEMMA HandlerCredits ==
    ASSUME TypeOK, CreditInv, NEW p \in Request, Handler(p)
    PROVE  CreditInv'
<1>1. PICK o \in Op, out \in Outcome :
         /\ Planned(p, o, out)
         /\ CreditsOnlyOpen(session[sid[p]], out)
         /\ KeepsClosed(session[sid[p]], out)
         /\ "stats" \in out.todo => o \in {"guess", "decrypt"}
  BY HandlerPlans
<1>2. UNCHANGED <<session, credits, sid>>
  BY <1>1 DEF Planned, redis
<1>3. sid[p] \in Session /\ credits[sid[p]] \in Nat
  BY <1>1 DEF TypeOK, Planned
<1>4. /\ op'[p] = o /\ copy'[p] = out.session /\ todo'[p] = out.todo
      /\ \A q \in Request \ {p} : /\ op'[q] = op[q] /\ copy'[q] = copy[q]
                                  /\ todo'[q] = todo[q] /\ pc'[q] = pc[q]
  BY <1>1 DEF TypeOK, Planned
<1>5. CreditedClosed'
  BY <1>2 DEF CreditInv, CreditedClosed
<1>6. PlannedCredits'
  <2>1. CreditPlanned(p)' => /\ credits[sid[p]] = 0
                             /\ o \in {"guess", "decrypt"}
                             /\ WritePlanned(p)'
                             /\ Closed(out.session)
    BY <1>1, <1>3, <1>4
    DEF CreditInv, CreditedClosed, CreditPlanned, WritePlanned, CreditsOnlyOpen
  <2> QED BY <2>1, <1>2, <1>4
          DEF CreditInv, PlannedCredits, CreditPlanned, WritePlanned
<1>7. PlannedWrites'
  <2>1. WritePlanned(p)' /\ credits[sid[p]] = 1 => Closed(out.session)
    BY <1>1, <1>3, <1>4 DEF CreditInv, CreditedClosed, WritePlanned, KeepsClosed
  <2> QED BY <2>1, <1>2, <1>4 DEF CreditInv, PlannedWrites, WritePlanned
<1> QED BY <1>5, <1>6, <1>7 DEF CreditInv

LEMMA WriteCredits ==
    ASSUME TypeOK, LockInv, CreditInv, NEW p \in Request, WriteSession(p)
    PROVE  CreditInv'
<1>1. /\ UNCHANGED <<pc, sid, op, copy, credits>>
      /\ todo' = [todo EXCEPT ![p] = @ \ {"write"}]
      /\ session' = [session EXCEPT ![sid[p]] = copy[p]]
      /\ WritePlanned(p)
  BY DEF WriteSession, Issue, Due, WritePlanned
<1>2. sid[p] \in Session /\ session'[sid[p]] = copy[p]
  BY <1>1 DEF TypeOK, WritePlanned
<1>3. \A s \in Session : s # sid[p] => session'[s] = session[s]
  BY <1>1 DEF TypeOK
<1>4. \A q \in Request : q # p /\ pc[q] = "working" => sid[q] # sid[p] /\ sid[q] \in Session
  BY WriterAlone DEF TypeOK
<1>5. /\ \A q \in Request : q # p => todo'[q] = todo[q]
      /\ todo'[p] = todo[p] \ {"write"}
  BY <1>1 DEF TypeOK
<1>6. CreditedClosed'
  BY <1>1, <1>2, <1>3 DEF CreditInv, CreditedClosed, PlannedWrites
<1>7. PlannedCredits'
  BY <1>1, <1>2, <1>3, <1>4, <1>5 DEF CreditInv, PlannedCredits, CreditPlanned, WritePlanned
<1>8. PlannedWrites'
  BY <1>1, <1>5 DEF CreditInv, PlannedWrites, WritePlanned
<1> QED BY <1>6, <1>7, <1>8 DEF CreditInv

LEMMA StatsCredits ==
    ASSUME TypeOK, LockInv, CreditInv, NEW p \in Request, UpdateTeamStats(p)
    PROVE  CreditInv'
<1>1. /\ UNCHANGED <<pc, sid, op, copy, session>>
      /\ todo' = [todo EXCEPT ![p] = @ \ {"stats"}]
      /\ credits' = [credits EXCEPT ![sid[p]] = @ + 1]
      /\ CreditPlanned(p)
  BY DEF UpdateTeamStats, Issue, Due, CreditPlanned
<1>2. ~WritePlanned(p)
  <2>1. op[p] \in {"guess", "decrypt"}
    BY <1>1 DEF CreditInv, PlannedCredits
  <2> QED BY <2>1, WriteBeforeStats DEF UpdateTeamStats, Issue, Due, WritePlanned
<1>3. sid[p] \in Session /\ credits[sid[p]] = 0 /\ Closed(session[sid[p]])
  BY <1>1, <1>2 DEF TypeOK, CreditInv, PlannedCredits, CreditPlanned
<1>4. /\ credits'[sid[p]] = 1
      /\ \A s \in Session : s # sid[p] => credits'[s] = credits[s]
  BY <1>1, <1>3 DEF TypeOK
<1>5. \A q \in Request : q # p /\ pc[q] = "working" => sid[q] # sid[p] /\ sid[q] \in Session
  BY <1>1 DEF LockInv, Live, TypeOK, CreditPlanned
<1>6. /\ \A q \in Request : q # p => todo'[q] = todo[q]
      /\ todo'[p] = todo[p] \ {"stats"}
  BY <1>1 DEF TypeOK
<1>7. CreditedClosed'
  BY <1>1, <1>3, <1>4 DEF CreditInv, CreditedClosed
<1>8. PlannedCredits'
  BY <1>1, <1>4, <1>5, <1>6 DEF CreditInv, PlannedCredits, CreditPlanned, WritePlanned
<1>9. PlannedWrites'
  BY <1>1, <1>2, <1>4, <1>5, <1>6 DEF CreditInv, PlannedWrites, WritePlanned
<1> QED BY <1>7, <1>8, <1>9 DEF CreditInv

LEMMA StepCredit ==
    ASSUME TypeOK, LockInv, CreditInv, [Next]_vars,
           \A p \in Request : ~CommandFails(p)
    PROVE  CreditInv'
<1>1. CASE \E p \in Request : Handler(p)
  BY <1>1, HandlerCredits
<1>2. CASE \E p \in Request : WriteSession(p)
  BY <1>2, WriteCredits
<1>3. CASE \E p \in Request : UpdateTeamStats(p)
  BY <1>3, StatsCredits
<1>4. CASE \A p \in Request : ~Handler(p) /\ ~WriteSession(p) /\ ~UpdateTeamStats(p)
  BY <1>4, OtherCreditSteps, KeptCredits
<1> QED BY <1>1, <1>2, <1>3, <1>4

LEMMA NextCredit ==
    ASSUME "error" \notin Faults
    PROVE  TypeOK /\ LockInv /\ CreditInv /\ [Next]_vars => CreditInv'
  BY StepCredit DEF CommandFails, MayFault

\* Requests may overlap, be refused, lose the lock race or be cut off at any
\* command: a session's solve reaches the team at most once.
THEOREM CreditedOnce ==
    ASSUME "lease" \notin Faults, "error" \notin Faults
    PROVE  Spec => []SolveCreditedOnce
<1>1. Init => TypeOK /\ LockInv /\ CreditInv
  <2>1. Init => CreditInv
    BY DEF Init, CreditInv, CreditedClosed, PlannedCredits, PlannedWrites,
           CreditPlanned, WritePlanned
  <2> QED BY <2>1, InitType, InitLock
<1>2. (TypeOK /\ LockInv /\ CreditInv) /\ [Next]_vars => (TypeOK /\ LockInv /\ CreditInv)'
  BY NextType, NextLock, NextCredit
<1>3. TypeOK /\ LockInv /\ CreditInv => SolveCreditedOnce
  BY DEF CreditInv, CreditedClosed, SolveCreditedOnce, Closed
<1> QED BY <1>1, <1>2, <1>3, PTL DEF Spec
=============================================================================
