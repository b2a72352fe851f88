---------------------------- MODULE TeamSessions -----------------------------
(***************************************************************************)
(* A team starts and ends its sessions.  StartSession takes no lock: it    *)
(* counts the active sessions, reads the solved characters, draws a target *)
(* and then stores, registers and publishes the session, one Redis command *)
(* per step, while other requests start, end and reset.  What happens      *)
(* inside a session is module SessionPlay; of it the team sees what        *)
(* SessionEnds says, command by command.                                   *)
(*                                                                         *)
(* Faults: "abort" cuts a request off, "error" makes one command fail,     *)
(* "ttl" lets the 24 h TTLs of session records and of the active set end.  *)
(***************************************************************************)
EXTENDS SessionEnds  \* stored is also unused or gone (expired) here

CONSTANTS
    Starter,    \* slots of POST /sessions/start: how many may run at once
    Limit,      \* 2 in the code: active sessions of a team
    MaxFaults   \* bound on "abort" and "error", for TLC only

ASSUME TeamAssumption ==
    /\ IsFiniteSet(Session) /\ IsFiniteSet(Starter) /\ IsFiniteSet(Character)
    /\ Limit \in Nat \ {0}
    /\ None \notin Session /\ None \notin Character
    /\ Faults \subseteq {"abort", "error", "ttl"}
    /\ MaxFaults \in Nat

VARIABLES
    firstRound,  \* M1 is among the team's milestones
    pc, sid, seen,  \* the start requests; seen is SolvedCharacters as read
    resetting,   \* POST /team/reset is between its two commands
    \* observation: IDs a client can know (team progress shows the pointer, the
    \* response comes later), faults so far and their kinds,
    \* whether sessions ever overlapped, solved characters cleared away
    known, faults, happened, overlap, forgotten

starts  == <<pc, sid, seen>>
ghosts  == <<faults, happened, overlap, forgotten>>
vars    == <<endsVars, firstRound, starts, resetting, known, ghosts>>

-----------------------------------------------------------------------------
Init ==
    /\ stored = [s \in Session |-> "unused"]
    /\ target = [s \in Session |-> None]
    /\ withheld = {}
    /\ active = {} /\ activeID = None
    /\ solvedChars = {} /\ solves = 0 /\ firstRound = FALSE
    /\ pc = [p \in Starter |-> "idle"]
    /\ sid = [p \in Starter |-> None]
    /\ seen = [p \in Starter |-> {}]
    /\ ending = [s \in Session |-> {}]
    /\ resetting = FALSE
    /\ known = {} /\ faults = 0 /\ happened = {}
    /\ overlap = FALSE /\ forgotten = 0

Step(p, from, to) == pc[p] = from /\ pc' = [pc EXCEPT ![p] = to]

Playable(s) == s \in known /\ stored[s] = "open"

\* A client can still play s, or decrypt the guess withheld in it, or a
\* request is about to end it.
Live(s) == Playable(s) \/ s \in withheld \/ ending[s] # {}

\* Something else of the team is going on when p begins.
Busy(p) == \/ \E q \in Starter \ {p} : pc[q] # "idle"
           \/ \E s \in Session : Live(s)

-----------------------------------------------------------------------------
(* POST /sessions/start *)

\* Bound, for TLC only: a start begins when an ID is left for it.
IDsLeft ==
    Cardinality({p \in Starter : pc[p] \in {"read", "write"}})
        < Cardinality({s \in Session : stored[s] = "unused"})

\* Mutant: off by one at the limit.
CountOneTooMany(p) ==
    /\ IDsLeft
    /\ Step(p, "idle", "read")
    /\ Cardinality(active) <= Limit
    /\ overlap' = (overlap \/ Busy(p))
    /\ UNCHANGED <<endsVars, firstRound, sid, seen, resetting, known, faults,
                   happened, forgotten>>

\* SCARD, and 429 at the limit; TeamExists holds, teams are not deleted here.
CountActiveSessions(p) ==
    /\ IDsLeft
    /\ Step(p, "idle", "read")
    /\ Cardinality(active) < Limit
    /\ overlap' = (overlap \/ Busy(p))
    /\ UNCHANGED <<endsVars, firstRound, sid, seen, resetting, known, faults,
                   happened, forgotten>>

ReadTeamData(p) ==
    /\ Step(p, "read", "write")
    /\ seen' = [seen EXCEPT ![p] = solvedChars]
    /\ UNCHANGED <<endsVars, firstRound, sid, resetting, known, ghosts>>

\* Mutant: solved candidates are not filtered out.
WholeCatalog(seenChars) == Character

\* Solved characters are left out; if none remains, all come back.
Board(seenChars) ==
    IF Character \ seenChars = {} THEN Character ELSE Character \ seenChars

WriteSession(p) ==
    /\ Step(p, "write", "add")
    /\ \E s \in Session, c \in Board(seen[p]) :
          /\ stored[s] = "unused"
          /\ stored' = [stored EXCEPT ![s] = "open"]
          /\ target' = [target EXCEPT ![s] = c]
          /\ sid' = [sid EXCEPT ![p] = s]
    /\ UNCHANGED <<withheld, books, ending, firstRound, seen, resetting, known,
                   ghosts>>

AfterAdd(p) == IF Character \ seen[p] = {} THEN "clear" ELSE "point"

AddActiveSession(p) ==
    /\ Step(p, "add", AfterAdd(p))
    /\ active' = active \cup {sid[p]}
    /\ UNCHANGED <<record, activeID, solvedChars, solves, ending, firstRound,
                   sid, seen, resetting, known, ghosts>>

ClearSolvedCharacters(p) ==
    /\ Step(p, "clear", "point")
    /\ solvedChars' = {}
    /\ forgotten' = forgotten + Cardinality(solvedChars)
    /\ UNCHANGED <<record, active, activeID, solves, ending, firstRound, sid,
                   seen, resetting, known, faults, happened, overlap>>

SetActiveSession(p) ==
    /\ Step(p, "point", "award")
    /\ activeID' = sid[p]
    /\ known' = known \cup {sid[p]}
    /\ UNCHANGED <<record, active, solvedChars, solves, ending, firstRound,
                   sid, seen, resetting, ghosts>>

Leave(p) == sid' = [sid EXCEPT ![p] = None] /\ seen' = [seen EXCEPT ![p] = {}]

\* The response is sent, and with it the request is gone.
AwardFirstRound(p) ==
    /\ Step(p, "award", "idle")
    /\ Leave(p)
    /\ firstRound' = TRUE
    /\ UNCHANGED <<endsVars, resetting, known, ghosts>>

-----------------------------------------------------------------------------
(* Requests on a session, from clients that know it *)

EndSession(s) ==
    /\ s \in known
    /\ Decide(s)
    /\ UNCHANGED <<firstRound, starts, resetting, known, ghosts>>

EndCommand(s) ==
    /\ EndStep(s)
    /\ UNCHANGED <<firstRound, starts, resetting, known, ghosts>>

-----------------------------------------------------------------------------
(* POST /team/reset: a pipeline of two commands *)

ResetPointer ==
    /\ ~resetting
    /\ resetting' = TRUE
    /\ activeID' = None
    /\ UNCHANGED <<record, active, solvedChars, solves, ending, firstRound,
                   starts, known, ghosts>>

ResetSolved ==
    /\ resetting
    /\ resetting' = FALSE
    /\ solvedChars' = {}
    /\ forgotten' = forgotten + Cardinality(solvedChars)
    /\ UNCHANGED <<record, active, activeID, solves, ending, firstRound, starts,
                   known, faults, happened, overlap>>

-----------------------------------------------------------------------------
(* Faults *)

Fault(kind) ==
    /\ kind \in Faults /\ faults < MaxFaults
    /\ faults' = faults + 1
    /\ happened' = happened \cup {kind}
    /\ UNCHANGED <<record, books, firstRound, resetting, known, overlap, forgotten>>

Drop(p) == Leave(p) /\ pc[p] # "idle" /\ pc' = [pc EXCEPT ![p] = "idle"]

StartCutOff(p) == Fault("abort") /\ Drop(p) /\ UNCHANGED ending

EndCutOff(s) == Fault("abort") /\ CutOff(s) /\ UNCHANGED starts

\* StartSession returns the error, but goes on after a failed AddActiveSession
\* or ClearSolvedCharacters.
StartFails(p) ==
    /\ Fault("error")
    /\ UNCHANGED ending
    /\ \/ pc[p] \in {"read", "write", "point", "award"} /\ Drop(p)
       \/ Step(p, "add", AfterAdd(p)) /\ UNCHANGED <<sid, seen>>
       \/ Step(p, "clear", "point") /\ UNCHANGED <<sid, seen>>

EndFails(s) == Fault("error") /\ Fails(s) /\ UNCHANGED starts

\* Every write renews the record's 24 h.
SessionExpires(s) ==
    /\ "ttl" \in Faults
    /\ stored[s] \in {"open", "closed"} /\ ending[s] = {}
    /\ \A p \in Starter : sid[p] # s
    /\ stored' = [stored EXCEPT ![s] = "gone"]
    /\ withheld' = withheld \ {s}
    /\ happened' = happened \cup {"ttl"}
    /\ UNCHANGED <<target, books, ending, firstRound, starts, resetting, known,
                   faults, overlap, forgotten>>

\* Mutant: SADD without EXPIRE.
ActiveSetStays == FALSE /\ UNCHANGED vars

\* Every SADD renews the set's 24 h; no request takes that long.
ActiveSetExpires ==
    /\ "ttl" \in Faults
    /\ active # {}
    /\ \A p \in Starter : pc[p] \notin {"clear", "point", "award"}
    /\ active' = {}
    /\ happened' = happened \cup {"ttl"}
    /\ UNCHANGED <<record, activeID, solvedChars, solves, ending, firstRound,
                   starts, resetting, known, faults, overlap, forgotten>>

-----------------------------------------------------------------------------
StartStep(p) ==
    \/ ReadTeamData(p) \/ WriteSession(p) \/ AddActiveSession(p)
    \/ ClearSolvedCharacters(p) \/ SetActiveSession(p) \/ AwardFirstRound(p)

Next ==
    \/ \E p \in Starter : \/ CountActiveSessions(p) \/ StartStep(p)
                          \/ StartCutOff(p) \/ StartFails(p)
    \/ \E s \in Session : \/ EndSession(s) \/ EndCommand(s)
                          \/ EndCutOff(s) \/ EndFails(s) \/ SessionExpires(s)
    \/ ResetPointer \/ ResetSolved
    \/ ActiveSetExpires

Spec == Init /\ [][Next]_vars

\* At the limit no start gets as far as SADD, so nothing renews the set.
LockedOut ==
    /\ Cardinality(active) >= Limit
    /\ \A p \in Starter : pc[p] = "idle"

\* Requests run on; an active set that nothing renews expires.
FairSpec ==
    /\ Spec
    /\ \A p \in Starter : WF_vars(StartStep(p))
    /\ \A s \in Session : WF_vars(EndCommand(s))
    /\ WF_vars(LockedOut /\ ActiveSetExpires)

-----------------------------------------------------------------------------
\* Type invariant.
TypeOK ==
    /\ stored \in [Session -> {"unused", "open", "closed", "gone"}]
    /\ target \in [Session -> Character \cup {None}]
    /\ withheld \subseteq Session
    /\ active \subseteq Session /\ activeID \in Session \cup {None}
    /\ solvedChars \subseteq Character /\ solves \in Nat
    /\ firstRound \in BOOLEAN
    /\ pc \in [Starter -> {"idle", "read", "write", "add", "clear", "point",
                           "award"}]
    /\ sid \in [Starter -> Session \cup {None}]
    /\ seen \in [Starter -> SUBSET Character]
    /\ ending \in [Session -> SUBSET {"write", "settle", "stats", "clear", "remove"}]
    /\ resetting \in BOOLEAN
    /\ known \subseteq Session
    /\ faults \in Nat /\ happened \subseteq {"abort", "error", "ttl"}
    /\ overlap \in BOOLEAN /\ forgotten \in Nat
    /\ \A p \in Starter :
          pc[p] \in {"add", "clear", "point", "award"} => sid[p] \in Session

\* The limit can be overrun, but only by the starts that run at the same
\* time: a team that starts its sessions one by one never holds more slots
\* than the limit, whatever is cut off, fails or expires (StartSession).
SlotsBounded == Cardinality(active) < Limit + Cardinality(Starter)

\* A session a client can play holds a slot, however its start and the
\* requests on it overlap with others and wherever they are cut off.
PlayableCounted ==
    happened \subseteq {"abort"} =>
        \A s \in Session : Playable(s) => s \in active

\* active_session_id never names a session that has given back its slot, also
\* when other sessions start and end meanwhile.
PointerHonest ==
    happened \subseteq {"abort"} /\ activeID # None => activeID \in active

\* A team that plays one session after another solves a new character each
\* time: every solve is among the solved characters or was cleared away.
SolvesAddUp ==
    ~overlap /\ happened \subseteq {"abort"} =>
        solves = Cardinality(solvedChars) + forgotten

\* However many slots were leaked by requests that were cut off or sessions
\* that expired, a team is not locked out of starting for ever.
LockoutEnds == Cardinality(active) >= Limit ~> Cardinality(active) < Limit

-----------------------------------------------------------------------------
(* What the documents say and the code does not do *)

\* docs/security.md: at most 2 concurrent active sessions per team.
SessionLimit == Cardinality({s \in Session : stored[s] = "open"}) <= Limit
=============================================================================
