---------------------------- MODULE SessionPlay -----------------------------
(***************************************************************************)
(* Requests of one team play its sessions against one Redis.  Each Redis   *)
(* command or Lua script is one atomic step; between two steps of a        *)
(* request any other request may run, fail or disappear.                   *)
(*                                                                         *)
(* A request: SET NX the session lock (with retries), GET the session and  *)
(* decide (module SessionRules), issue the decided commands one by one in  *)
(* the order of the handler's source, and release the lock.                *)
(*                                                                         *)
(* Faults (the constant says which kinds occur, at most MaxFaults times):  *)
(*   "abort" the request's context is cancelled: all its later commands    *)
(*           fail, the release included, and the lock is left to its TTL;  *)
(*   "error" one command fails and the handler goes on as its code says;   *)
(*   "lease" the 5 s TTL of a lock ends while its holder is still at work. *)
(***************************************************************************)
EXTENDS SessionRules, Sequences

CONSTANTS
    Session,          \* sessions of the team, already started
    Request,          \* request slots: how many requests may run at once
    None,             \* the empty Redis value
    MaxTries,         \* 10 in the code: SET NX attempts
    AutomationSolves, \* 3 in the code: team solves that earn S2
    PriorMilestones,  \* milestones the team holds before the model starts
    Faults,           \* the kinds of fault that occur
    MaxFaults         \* bound on their number

ASSUME PlayAssumption ==
    /\ None \notin Session /\ None \notin Request
    /\ MaxTries \in Nat \ {0}
    /\ AutomationSolves \in Nat
    /\ PriorMilestones \subseteq Milestone
    /\ Faults \subseteq {"abort", "error", "lease"}
    /\ MaxFaults \in Nat

VARIABLES
    \* Redis
    session,     \* session:<id>
    lock,        \* lock:session:<id>: the slot of the holder, or None
    score,       \* team:<id> score, counted from the start of the model
    board,       \* the team's member of the leaderboard sorted set
    solves,      \* team:<id> solves
    solvedChars, \* team:<id>:solved_characters, and the masterboard sets
    milestones,  \* team:<id> milestones
    activeID,    \* team:<id> active_session_id
    active,      \* active_sessions:team:<id>
    announced,   \* sessions whose solve was published on game_updates
    \* the requests
    pc, sid, tries, op, copy, points, todo,
    \* observation: solves credited per session, faults so far
    credits, faults

redis    == <<session, lock, score, board, solves, solvedChars, milestones,
              activeID, active, announced>>
team     == <<score, board, solves, solvedChars, milestones>>
sessions == <<activeID, active, announced>>
local    == <<pc, sid, tries, op, copy, points, todo>>
vars     == <<redis, local, credits, faults>>

-----------------------------------------------------------------------------
\* Mutant: the active session is cleaned up before the session is stored.
OrderCleanupFirst ==
    [ask     |-> <<"write", "M2", "M3", "S3">>,
     guess   |-> <<"score", "board", "clear", "remove", "write", "stats",
                   "M4", "M5", "S1", "S2", "publish">>,
     reveal  |-> <<"score", "board", "clear", "remove", "write">>,
     decrypt |-> <<"score", "board", "SP1", "M5", "clear", "remove", "write", "stats">>]

\* Mutant: the milestones of a guess are awarded before the team's stats.
OrderAwardFirst ==
    [ask     |-> <<"write", "M2", "M3", "S3">>,
     guess   |-> <<"score", "board", "write", "M4", "M5", "S1", "S2", "stats",
                   "clear", "remove", "publish">>,
     reveal  |-> <<"score", "board", "write", "clear", "remove">>,
     decrypt |-> <<"score", "board", "SP1", "M5", "write", "stats", "clear", "remove">>]

\* The commands of each handler, in source order.
Order ==
    [ask     |-> <<"write", "M2", "M3", "S3">>,
     guess   |-> <<"score", "board", "write", "stats", "clear", "remove",
                   "M4", "M5", "S1", "S2", "publish">>,
     reveal  |-> <<"score", "board", "write", "clear", "remove">>,
     decrypt |-> <<"score", "board", "SP1", "M5", "write", "stats", "clear",
                   "remove">>]

Op == {"ask", "guess", "reveal", "decrypt"}

Precedes(o, e, f) ==
    \E i, j \in DOMAIN Order[o] : i < j /\ Order[o][i] = e /\ Order[o][j] = f

\* Mutant: HINCRBY and ZINCRBY are two calls, each with its own error.
LostAlone(o, e) == {e}

\* What a failed command takes with it: a pipeline fails as a whole,
\* updateTeamStats returns, AskQuestion returns the write error.
LostWith(o, e) ==
    CASE e = "score"               -> {"score", "board"}
      [] e = "stats"               -> {"stats", "clear", "remove"}
      [] e = "write" /\ o = "ask"  -> Effect
      [] OTHER                     -> {e}

Live(p)       == pc[p] \in {"locked", "working"}
Holds(p, s)   == Live(p) /\ sid[p] = s
Due(p, e)     == /\ pc[p] = "working" /\ e \in todo[p]
                 /\ \A f \in todo[p] : ~Precedes(op[p], f, e)
MidPipeline(p) == "board" \in todo[p] /\ "score" \notin todo[p]
MayFault(kind) == kind \in Faults /\ faults < MaxFaults

-----------------------------------------------------------------------------
Fresh == {NewSession(c) : c \in Candidate}

\* Init is the state after POST /sessions/start of every session: boards of
\* unsolved characters, all sessions active, the last one being current.
Init ==
    /\ session \in [Session -> Fresh]
    /\ lock = [s \in Session |-> None]
    /\ score = 0 /\ board = 0
    /\ solves = PriorSolves
    /\ solvedChars = {}
    /\ milestones = PriorMilestones
    /\ activeID \in Session
    /\ active = Session
    /\ announced = {}
    /\ pc = [p \in Request |-> "idle"]
    /\ sid = [p \in Request |-> None]
    /\ tries = [p \in Request |-> 0]
    /\ op = [p \in Request |-> None]
    /\ copy = [p \in Request |-> None]
    /\ points = [p \in Request |-> 0]
    /\ todo = [p \in Request |-> {}]
    /\ credits = [s \in Session |-> 0]
    /\ faults = 0

\* The slot forgets its request.
Leave(p) ==
    /\ pc' = [pc EXCEPT ![p] = "idle"]
    /\ sid' = [sid EXCEPT ![p] = None]
    /\ tries' = [tries EXCEPT ![p] = 0]
    /\ op' = [op EXCEPT ![p] = None]
    /\ copy' = [copy EXCEPT ![p] = None]
    /\ points' = [points EXCEPT ![p] = 0]
    /\ todo' = [todo EXCEPT ![p] = {}]

\* The lock value is random per request: a slot is not reused while an old
\* value of it is still in Redis.
Begin(p, s) ==
    /\ pc[p] = "idle"
    /\ \A t \in Session : lock[t] # p
    /\ pc' = [pc EXCEPT ![p] = "acquiring"]
    /\ sid' = [sid EXCEPT ![p] = s]
    /\ UNCHANGED <<redis, tries, op, copy, points, todo, credits, faults>>

\* Mutant: SET without NX.
AcquireWithoutNX(p) ==
    /\ pc[p] = "acquiring"
    /\ lock' = [lock EXCEPT ![sid[p]] = p]
    /\ pc' = [pc EXCEPT ![p] = "locked"]
    /\ tries' = [tries EXCEPT ![p] = 0]
    /\ UNCHANGED <<session, team, sessions, sid, op, copy, points, todo,
                   credits, faults>>

Acquire(p) ==
    /\ pc[p] = "acquiring"
    /\ lock[sid[p]] = None
    /\ lock' = [lock EXCEPT ![sid[p]] = p]
    /\ pc' = [pc EXCEPT ![p] = "locked"]
    /\ tries' = [tries EXCEPT ![p] = 0]
    /\ UNCHANGED <<session, team, sessions, sid, op, copy, points, todo,
                   credits, faults>>

\* Mutant: the attempts are not counted.
RetryForever(p) ==
    /\ pc[p] = "acquiring"
    /\ lock[sid[p]] # None
    /\ UNCHANGED vars

Retry(p) ==
    /\ pc[p] = "acquiring"
    /\ lock[sid[p]] # None
    /\ tries[p] + 1 < MaxTries
    /\ tries' = [tries EXCEPT ![p] = @ + 1]
    /\ UNCHANGED <<redis, pc, sid, op, copy, points, todo, credits, faults>>

\* Mutant: the contention error is not returned.
ContentionIgnored(p) ==
    /\ pc[p] = "acquiring"
    /\ lock[sid[p]] # None
    /\ pc' = [pc EXCEPT ![p] = "locked"]
    /\ tries' = [tries EXCEPT ![p] = 0]
    /\ UNCHANGED <<redis, sid, op, copy, points, todo, credits, faults>>

Contention(p) ==
    /\ pc[p] = "acquiring"
    /\ lock[sid[p]] # None
    /\ tries[p] + 1 >= MaxTries
    /\ Leave(p)
    /\ UNCHANGED <<redis, credits, faults>>

\* GET the session under the lock and decide.
Handle(p, o, Outcomes(_)) ==
    /\ pc[p] = "locked"
    /\ \E out \in Outcomes(session[sid[p]]) :
          /\ copy' = [copy EXCEPT ![p] = out.session]
          /\ points' = [points EXCEPT ![p] = out.points]
          /\ todo' = [todo EXCEPT ![p] = out.todo]
    /\ op' = [op EXCEPT ![p] = o]
    /\ pc' = [pc EXCEPT ![p] = "working"]
    /\ UNCHANGED <<redis, sid, tries, credits, faults>>

AskQuestion(p)      == Handle(p, "ask", AskOutcomes)
SubmitGuess(p)      == Handle(p, "guess", GuessOutcomes)
Reveal(p)           == Handle(p, "reveal", RevealOutcomes)
SubmitDecryption(p) == Handle(p, "decrypt", DecryptOutcomes)

-----------------------------------------------------------------------------
\* One command of the handler: it leaves the list.
Issue(p, e) ==
    /\ Due(p, e)
    /\ todo' = [todo EXCEPT ![p] = @ \ {e}]
    /\ UNCHANGED <<pc, sid, tries, op, copy, points, lock, faults>>

IncrementScore(p) ==      \* first half of the pipeline: HINCRBY
    /\ Issue(p, "score")
    /\ score' = score + points[p]
    /\ UNCHANGED <<session, board, solves, solvedChars, milestones, sessions,
                   credits>>

IncrementBoard(p) ==      \* second half: ZINCRBY
    /\ Issue(p, "board")
    /\ board' = board + points[p]
    /\ UNCHANGED <<session, score, solves, solvedChars, milestones, sessions,
                   credits>>

WriteSession(p) ==
    /\ Issue(p, "write")
    /\ session' = [session EXCEPT ![sid[p]] = copy[p]]
    /\ UNCHANGED <<team, sessions, credits>>

\* Mutant: the script's arguments are swapped, the session ID is stored.
StatsSwappedArgs(p) ==
    /\ Issue(p, "stats")
    /\ score' = score + points[p]
    /\ board' = board + points[p]
    /\ solves' = solves + 1
    /\ solvedChars' = solvedChars \cup {sid[p]}
    /\ credits' = [credits EXCEPT ![sid[p]] = @ + 1]
    /\ UNCHANGED <<session, milestones, sessions>>

UpdateTeamStats(p) ==     \* one Lua script
    /\ Issue(p, "stats")
    /\ score' = score + points[p]
    /\ board' = board + points[p]
    /\ solves' = solves + 1
    /\ solvedChars' = solvedChars \cup {copy[p].target}
    /\ credits' = [credits EXCEPT ![sid[p]] = @ + 1]
    /\ UNCHANGED <<session, milestones, sessions>>

ClearActiveSession(p) ==
    /\ Issue(p, "clear")
    /\ activeID' = None
    /\ UNCHANGED <<session, team, active, announced, credits>>

RemoveActiveSession(p) ==
    /\ Issue(p, "remove")
    /\ active' = active \ {sid[p]}
    /\ UNCHANGED <<session, team, activeID, announced, credits>>

\* Mutant: the bonus is paid whether or not the milestone is held.
AwardAlways(p, m) ==
    /\ Issue(p, m)
    /\ milestones' = milestones \cup {m}
    /\ score' = score + Bonus(m)
    /\ board' = board + Bonus(m)
    /\ UNCHANGED <<session, solves, solvedChars, sessions, credits>>

\* S2 is asked for only if the team's solves, read just before, suffice: they
\* never shrink here, so reading and awarding are taken as one step.
AwardIfAbsent(p, m) ==    \* one Lua script
    /\ Issue(p, m)
    /\ IF m \in milestones \/ (m = "S2" /\ solves < AutomationSolves)
       THEN UNCHANGED <<score, board, milestones>>
       ELSE /\ milestones' = milestones \cup {m}
            /\ score' = score + Bonus(m)
            /\ board' = board + Bonus(m)
    /\ UNCHANGED <<session, solves, solvedChars, sessions, credits>>

PublishGameUpdate(p) ==
    /\ Issue(p, "publish")
    /\ announced' = IF copy[p].correct THEN announced \cup {sid[p]}
                                       ELSE announced
    /\ UNCHANGED <<session, team, activeID, active, credits>>

\* Mutant: DEL without comparing the value.
ReleaseAny(p) ==
    /\ pc[p] = "working"
    /\ todo[p] = {}
    /\ lock' = [lock EXCEPT ![sid[p]] = None]
    /\ Leave(p)
    /\ UNCHANGED <<session, team, sessions, credits, faults>>

Release(p) ==             \* Lua script: DEL only if the value is still ours
    /\ pc[p] = "working"
    /\ todo[p] = {}
    /\ lock' = [lock EXCEPT ![sid[p]] = IF @ = p THEN None ELSE @]
    /\ Leave(p)
    /\ UNCHANGED <<session, team, sessions, credits, faults>>

-----------------------------------------------------------------------------
\* The two commands of a pipeline are sent together: no abort between them.
Abort(p) ==
    /\ MayFault("abort")
    /\ pc[p] # "idle" /\ ~MidPipeline(p)
    /\ faults' = faults + 1
    /\ Leave(p)
    /\ UNCHANGED <<redis, credits>>

CommandFails(p) ==
    /\ MayFault("error")
    /\ \E e \in todo[p] \ {"board"} :
          /\ Due(p, e)
          /\ todo' = [todo EXCEPT ![p] = @ \ LostWith(op[p], e)]
    /\ faults' = faults + 1
    /\ UNCHANGED <<redis, pc, sid, tries, op, copy, points, credits>>

\* The TTL of a lock runs out: normally one left behind by an aborted request.
Expire(s) ==
    /\ lock' = [lock EXCEPT ![s] = None]
    /\ UNCHANGED <<session, team, sessions, local, credits>>

HolderAlive(s) == \E p \in Request : lock[s] = p /\ Holds(p, s)

\* Mutant: SET NX without EX.
LockWithoutTTL(s) == FALSE /\ Expire(s) /\ UNCHANGED faults

LockExpires(s) ==
    /\ lock[s] # None /\ ~HolderAlive(s)
    /\ Expire(s)
    /\ UNCHANGED faults

LeaseEnds(s) ==           \* ... but also one whose holder is just slow
    /\ MayFault("lease")
    /\ HolderAlive(s)
    /\ Expire(s)
    /\ faults' = faults + 1

-----------------------------------------------------------------------------
Command(p) ==
    \/ IncrementScore(p) \/ IncrementBoard(p) \/ WriteSession(p)
    \/ UpdateTeamStats(p) \/ ClearActiveSession(p) \/ RemoveActiveSession(p)
    \/ \E m \in Milestone : AwardIfAbsent(p, m)
    \/ PublishGameUpdate(p)

Serve(p) ==
    \/ Acquire(p) \/ Retry(p) \/ Contention(p)
    \/ AskQuestion(p) \/ SubmitGuess(p) \/ Reveal(p) \/ SubmitDecryption(p)
    \/ Command(p) \/ Release(p)

Next ==
    \/ \E p \in Request :
          \/ \E s \in Session : Begin(p, s)
          \/ Serve(p)
          \/ Abort(p) \/ CommandFails(p)
    \/ \E s \in Session : LockExpires(s) \/ LeaseEnds(s)

Spec == Init /\ [][Next]_vars

\* A request runs on until it ends, and Redis expires what is due; nobody has
\* to send a request, and faults need not happen.
FairSpec ==
    /\ Spec
    /\ \A p \in Request : WF_vars(Serve(p))
    /\ \A s \in Session : WF_vars(LockExpires(s))

-----------------------------------------------------------------------------
\* Type invariant.
TypeOK ==
    /\ session \in [Session -> SessionRecord]
    /\ lock \in [Session -> Request \cup {None}]
    /\ score \in Int /\ board \in Int /\ solves \in Nat
    /\ solvedChars \subseteq Candidate
    /\ milestones \subseteq Milestone
    /\ activeID \in Session \cup {None}
    /\ active \subseteq Session /\ announced \subseteq Session
    /\ pc \in [Request -> {"idle", "acquiring", "locked", "working"}]
    /\ sid \in [Request -> Session \cup {None}]
    /\ tries \in [Request -> Nat]
    /\ op \in [Request -> Op \cup {None}]
    /\ copy \in [Request -> SessionRecord \cup {None}]
    /\ points \in [Request -> Int]
    /\ todo \in [Request -> SUBSET Effect]
    /\ credits \in [Session -> Nat]
    /\ faults \in Nat
    /\ \A p \in Request : pc[p] # "idle" => sid[p] \in Session
    /\ \A p \in Request : pc[p] = "working" =>
          copy[p] \in SessionRecord /\ op[p] \in Op

-----------------------------------------------------------------------------
(* The lock *)

\* At most one request at a time is past AcquireSessionLock and before its
\* release, per session (redis_store.go AcquireSessionLock).
LockExclusion ==
    \A p, q \in Request, s \in Session :
        Holds(p, s) /\ Holds(q, s) => p = q

\* A lock whose holder is at work leaves Redis only by that holder's own
\* release or by the end of its TTL: no other request's release deletes it.
LockNotStolen ==
    [][\A p \in Request, s \in Session :
          lock[s] = p /\ Holds(p, s) /\ lock'[s] # p
             => pc'[p] = "idle" \/ faults' > faults]_vars

\* Implementation of the atomic specification: every WriteSession is one step
\* of AtomicPlay on the record that is stored at that moment, so that no
\* request overwrites what another one stored meanwhile.
Results(sess) ==
    {out.session : out \in AskOutcomes(sess) \cup GuessOutcomes(sess)
                              \cup RevealOutcomes(sess) \cup DecryptOutcomes(sess)}
Atomic == INSTANCE AtomicPlay
NoLostUpdate == Atomic!Spec

-----------------------------------------------------------------------------
(* How sessions end *)

\* What SessionEnds sees of a request: the commands it has left to end its
\* session, the last of which gives back the slot.
LeftToEnd(p) ==
    IF "remove" \notin todo[p] THEN {}
    ELSE (todo[p] \cap {"stats", "clear", "remove"})
            \cup (IF "write" \notin todo[p] THEN {}
                  ELSE IF op[p] = "decrypt" THEN {"settle"} ELSE {"write"})

StoredView   == [s \in Session |-> IF session[s].completed THEN "closed" ELSE "open"]
TargetView   == [s \in Session |-> session[s].target]
WithheldView == {s \in Session : session[s].pending}
EndingView   ==
    [s \in Session |-> UNION {LeftToEnd(p) : p \in {q \in Request : Holds(q, s)}}]

Ends == INSTANCE SessionEnds WITH
    Character <- Candidate, stored <- StoredView, target <- TargetView,
    withheld <- WithheldView, ending <- EndingView

\* Implementation of SessionEnds: a session is ended by one request at a time,
\* whose commands reach Redis in the order the rest of the team relies on, and
\* a guess is withheld and settled by nothing else.
EndsInOrder == Ends!EndsSpec

-----------------------------------------------------------------------------
(* Solves and sessions *)

\* However requests overlap and wherever they are cut off, the solve of a
\* session is credited to the team at most once, and only a session that is
\* stored as completed is credited (updateTeamStats).
SolveCreditedOnce ==
    \A s \in Session :
        credits[s] <= 1 /\ (credits[s] = 1 => session[s].completed)

\* A completed session never opens again.
CompletedStays ==
    [][\A s \in Session : session[s].completed => session'[s].completed]_vars

\* The result of a session that is over is final: no late request changes its
\* verdict, guesses or answers.  A completed session is over unless a withheld
\* guess still waits for its decryption (Stage 2: Reveal completes it too).
Over(sess) == sess.completed /\ (Stage = 2 => ~sess.pending)
ResultFinal ==
    [][\A s \in Session : Over(session[s]) =>
          [session'[s] EXCEPT !.failed = 0] = [session[s] EXCEPT !.failed = 0]]_vars

\* A question counts once, however often it is asked again: the length of
\* QuestionsAsked is the number of questions with a stored decision.
AskedCountedOnce ==
    \A s \in Session :
        session[s].asked
           = Cardinality({q \in Question : session[s].encrypted[q] # "none"})

\* The block and encryption decisions of a question are rolled once: asking
\* again cannot turn a blocked or encrypted answer into a plain one.
DecisionsStable ==
    [][\A s \in Session, q \in Question :
          /\ session[s].encrypted[q] # "none" =>
                session'[s].encrypted[q] = session[s].encrypted[q]
          /\ session[s].blocked[q] # "none" =>
                session'[s].blocked[q] = session[s].blocked[q]]_vars

\* A correct guess is never forgotten: once the target is among the guessed
\* candidates the session is completed or waits for its decryption.
CorrectGuessKept ==
    \A s \in Session :
        session[s].target \in session[s].guessed =>
            session[s].completed \/ session[s].pending

\* While a session can still be played it counts against the team's limit of
\* concurrent sessions, even if requests are cut off at any point.
OpenSessionsCounted ==
    \A s \in Session : ~session[s].completed => s \in active

\* The milestones of a solve are held only by a team with a credited solve: no
\* award overtakes the stats update, even if the request is cut off.  In Stage
\* 2 that is not so for M5, which SubmitDecryption awards before its stats.
SolveMilestones == {"M4", "S1", "S2"} \cup (IF Stage = 1 THEN {"M5"} ELSE {})
SolveBeforeMilestones ==
    SolveMilestones \cap (milestones \ PriorMilestones) # {} =>
        \E s \in Session : credits[s] > 0

-----------------------------------------------------------------------------
(* The books, when nobody is at work on a session and no fault happened *)

Settled == faults = 0 /\ \A p \in Request : ~Live(p)

SolvedSessions   == {s \in Session : session[s].correct}
RevealedSessions == {s \in Session : /\ session[s].completed /\ ~session[s].correct
                                     /\ session[s].guesses > 0}
\* A session and a guess it no longer has.
WrongGuesses ==
    {m \in Session \X (1 .. GuessLimit) : session[m[1]].guesses < m[2]}

EarnedBonus ==
    LET Earned(b) == Cardinality({m \in milestones \ PriorMilestones : Bonus(m) = b})
    IN  1000 * Earned(1000) + 2000 * Earned(2000) + 4000 * Earned(4000)

\* The team's score is what the session records say it earned and cost, and
\* one bonus per milestone (Stage 1: no decryptions).
ScoreAccounting ==
    Settled =>
        score = SolveScore * Cardinality(SolvedSessions)
                   - WrongGuessPenalty * Cardinality(WrongGuesses)
                   - RevealPenalty * Cardinality(RevealedSessions)
                   + EarnedBonus

\* The leaderboard entry differs from the team's score exactly by the
\* pipelines that are half executed (IncrementTeamScore is no transaction).
BoardAgrees ==
    LET Halfway(n) == Cardinality({p \in Request : MidPipeline(p) /\ points[p] = n})
        paid       == SolveScore + DecryptionBonus
    IN  score - board = paid * Halfway(paid)
                           - WrongGuessPenalty * Halfway(-WrongGuessPenalty)
                           - RevealPenalty * Halfway(-RevealPenalty)

\* Solves, solved characters, active-sessions set, active_session_id and
\* published updates tell the same story as the session records; only a solve
\* by decryption, in Stage 2, is not published.
TeamAgreesWithSessions ==
    Settled =>
        /\ solves = PriorSolves + Cardinality(SolvedSessions)
        /\ solvedChars = {session[s].target : s \in SolvedSessions}
        /\ active = {s \in Session : ~session[s].completed}
        /\ activeID # None => activeID \in active
        /\ announced \subseteq SolvedSessions
        /\ Stage = 1 => announced = SolvedSessions

-----------------------------------------------------------------------------
(* Liveness, under FairSpec *)

\* Every request ends: nobody waits for the lock for ever.
RequestsEnd == \A p \in Request : pc[p] # "idle" ~> pc[p] = "idle"

\* Every lock is given back, also after its holder was cut off.
LocksFreed == \A s \in Session : lock[s] # None ~> lock[s] = None

\* A stored correct solve reaches the team's solves and frees the session's
\* slot, unless a fault interfered.
SolveReachesTeam ==
    \A s \in Session :
        session[s].correct
           ~> (credits[s] > 0 /\ s \notin active) \/ faults > 0

-----------------------------------------------------------------------------
(* What the documents say and the code does not do *)

\* docs/decryption-challenge-design.md: a solve by decryption pays the full
\* score and the +100 bonus, once.
SolvePaidOnce ==
    Settled =>
        score <= EarnedBonus
                   + (SolveScore + DecryptionBonus)
                        * Cardinality(SolvedSessions)
=============================================================================
