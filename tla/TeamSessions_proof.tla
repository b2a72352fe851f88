-------------------------- MODULE TeamSessions_proof --------------------------
(***************************************************************************)
(* Proofs about TeamSessions, for every set of sessions, start slots and   *)
(* characters, every limit and every fault:                                *)
(*   SessionsTypeCorrect  the type invariant;                              *)
(*   SlotsNeverOverrun    the limit is overrun by less than the number of  *)
(*                        starts that run at once;                         *)
(*   PlayableHoldsSlot, PointerIsHonest                                    *)
(*                        requests at most cut off: a session that         *)
(*                        can be played holds a slot, and so does the      *)
(*                        one the pointer names;                           *)
(*   SolvesAreNew         one session after another: each solve is of a    *)
(*                        character the team has not got.                  *)
(* None is inductive alone.  A solve stores the target of its session, so  *)
(* TypeInv says which sessions have one; a start that has passed the check *)
(* of the limit has still to add its session, so SlotInv counts those      *)
(* starts with the slots; HeldInv and SerialInv say what a start, or a     *)
(* request that ends a session, has still to do.                           *)
(***************************************************************************)
EXTENDS TeamSessions, FiniteSetTheorems, TLAPS

USE DEF endsVars, record, books

\* A session that was ever stored has a target; only such a session ends.
Targets ==
    \A s \in Session :
        /\ stored[s] # "unused" => target[s] \in Character
        /\ ending[s] # {} \/ s \in withheld => stored[s] # "unused"

TypeInv == TypeOK /\ Targets

\* The starts that have passed the check and have not added their session.
Past == {p \in Starter : pc[p] \in {"read", "write", "add"}}

SlotInv == Cardinality(active) + Cardinality(Past) < Limit + Cardinality(Starter)

-----------------------------------------------------------------------------
(* Types *)

\* What a request on a session decides: to withhold or settle a guess, or to
\* end the session, with the commands that are left to do so.
LEMMA Decisions ==
    ASSUME NEW s \in Session, Decide(s)
    PROVE  \/ Withhold(s) \/ SettleMiss(s)
           \/ \E commands \in SUBSET {"write", "settle", "stats", "clear", "remove"} :
                 /\ BeginEnd(s, commands)
                 /\ "clear" \in commands /\ "remove" \in commands
                 /\ \/ "write" \in commands /\ stored[s] = "open"
                    \/ "settle" \in commands /\ s \in withheld
                 /\ "stats" \in commands /\ "settle" \notin commands => s \notin withheld
<1>1. CASE EndByGuess(s)
  BY <1>1 DEF EndByGuess, AfterSolve, AfterLoss
<1>2. CASE EndByReveal(s)
  BY <1>2 DEF EndByReveal, AfterLoss
<1>3. CASE EndByDecryption(s)
  BY <1>3 DEF EndByDecryption, AfterSolve, AfterLoss
<1> QED BY <1>1, <1>2, <1>3 DEF Decide

LEMMA SolvedFinite ==
    ASSUME TypeOK
    PROVE  Cardinality(solvedChars) \in Nat
  BY TeamAssumption, FS_Subset, FS_CardinalityType DEF TypeOK

LEMMA AfterAddType ==
    ASSUME NEW p
    PROVE  AfterAdd(p) \in {"clear", "point"}
  BY DEF AfterAdd

\* The steps of a start.
LEMMA StartType ==
    ASSUME TypeInv, NEW p \in Starter,
           CountActiveSessions(p) \/ StartStep(p)
    PROVE  TypeInv'
<1>1. CASE CountActiveSessions(p)
  <2>1. TypeOK'
    BY <1>1 DEF TypeInv, TypeOK, CountActiveSessions, Step
  <2>2. Targets'
    BY <1>1 DEF TypeInv, TypeOK, Targets, CountActiveSessions, Step
  <2> QED BY <2>1, <2>2 DEF TypeInv
<1>2. CASE ReadTeamData(p)
  <2>1. TypeOK'
    BY <1>2 DEF TypeInv, TypeOK, ReadTeamData, Step, ghosts
  <2>2. Targets'
    BY <1>2 DEF TypeInv, TypeOK, Targets, ReadTeamData, Step, ghosts
  <2> QED BY <2>1, <2>2 DEF TypeInv
<1>3. CASE WriteSession(p)
  <2>1. TypeOK'
    BY <1>3 DEF TypeInv, TypeOK, WriteSession, Step, Board, ghosts
  <2>2. Targets'
    BY <1>3 DEF TypeInv, TypeOK, Targets, WriteSession, Step, Board, ghosts
  <2> QED BY <2>1, <2>2 DEF TypeInv
<1>4. CASE AddActiveSession(p)
  <2>1. TypeOK'
    BY <1>4, AfterAddType DEF TypeInv, TypeOK, AddActiveSession, Step, ghosts
  <2>2. Targets'
    BY <1>4 DEF TypeInv, TypeOK, Targets, AddActiveSession, Step, ghosts
  <2> QED BY <2>1, <2>2 DEF TypeInv
<1>5. CASE ClearSolvedCharacters(p)
  <2>1. TypeOK'
    BY <1>5, SolvedFinite DEF TypeInv, TypeOK, ClearSolvedCharacters, Step
  <2>2. Targets'
    BY <1>5 DEF TypeInv, TypeOK, Targets, ClearSolvedCharacters, Step
  <2> QED BY <2>1, <2>2 DEF TypeInv
<1>6. CASE SetActiveSession(p)
  <2>1. TypeOK'
    BY <1>6 DEF TypeInv, TypeOK, SetActiveSession, Step, ghosts
  <2>2. Targets'
    BY <1>6 DEF TypeInv, TypeOK, Targets, SetActiveSession, Step, ghosts
  <2> QED BY <2>1, <2>2 DEF TypeInv
<1>7. CASE AwardFirstRound(p)
  <2>1. TypeOK'
    BY <1>7 DEF TypeInv, TypeOK, AwardFirstRound, Step, Leave, ghosts
  <2>2. Targets'
    BY <1>7 DEF TypeInv, TypeOK, Targets, AwardFirstRound, Step, Leave, ghosts
  <2> QED BY <2>1, <2>2 DEF TypeInv
<1> QED BY <1>1, <1>2, <1>3, <1>4, <1>5, <1>6, <1>7 DEF StartStep

\* The steps of a request that ends a session.
LEMMA EndType ==
    ASSUME TypeInv, NEW s \in Session, EndSession(s) \/ EndCommand(s)
    PROVE  TypeInv'
<1> USE DEF EndCommand
<1>1. CASE EndSession(s)
  <2> USE DEF EndSession, starts, ghosts
  <2>1. TypeOK'
    <3>1. CASE Withhold(s) \/ SettleMiss(s)
      BY <1>1, <3>1 DEF TypeInv, TypeOK, Withhold, SettleMiss
    <3>2. CASE \E commands \in SUBSET {"write", "settle", "stats", "clear", "remove"} :
                  BeginEnd(s, commands)
      BY <1>1, <3>2 DEF TypeInv, TypeOK, BeginEnd
    <3> QED BY <1>1, <3>1, <3>2, Decisions
  <2>2. Targets'
    BY <1>1, Decisions DEF TypeInv, TypeOK, Targets, Withhold, SettleMiss, BeginEnd
  <2> QED BY <2>1, <2>2 DEF TypeInv
<1>2. CASE EndCommand(s) /\ StoreCompleted(s)
  <2>1. TypeOK'
    BY <1>2 DEF TypeInv, TypeOK, StoreCompleted, Issue, Due, starts, ghosts
  <2>2. Targets'
    BY <1>2 DEF TypeInv, TypeOK, Targets, StoreCompleted, Issue, Due, starts, ghosts
  <2> QED BY <2>1, <2>2 DEF TypeInv
<1>3. CASE EndCommand(s) /\ StoreSettled(s)
  <2>1. TypeOK'
    BY <1>3 DEF TypeInv, TypeOK, StoreSettled, Issue, Due, starts, ghosts
  <2>2. Targets'
    BY <1>3 DEF TypeInv, TypeOK, Targets, StoreSettled, Issue, Due, starts, ghosts
  <2> QED BY <2>1, <2>2 DEF TypeInv
<1>4. CASE EndCommand(s) /\ UpdateTeamStats(s)
  <2>1. TypeOK'
    BY <1>4 DEF TypeInv, TypeOK, Targets, UpdateTeamStats, Issue, Due, starts, ghosts
  <2>2. Targets'
    BY <1>4 DEF TypeInv, TypeOK, Targets, UpdateTeamStats, Issue, Due, starts, ghosts
  <2> QED BY <2>1, <2>2 DEF TypeInv
<1>5. CASE EndCommand(s) /\ ClearActiveSession(s)
  <2>1. TypeOK'
    BY <1>5 DEF TypeInv, TypeOK, ClearActiveSession, Issue, Due, starts, ghosts
  <2>2. Targets'
    BY <1>5 DEF TypeInv, TypeOK, Targets, ClearActiveSession, Issue, Due, starts, ghosts
  <2> QED BY <2>1, <2>2 DEF TypeInv
<1>6. CASE EndCommand(s) /\ RemoveActiveSession(s)
  <2>1. TypeOK'
    BY <1>6 DEF TypeInv, TypeOK, RemoveActiveSession, Issue, Due, starts, ghosts
  <2>2. Targets'
    BY <1>6 DEF TypeInv, TypeOK, Targets, RemoveActiveSession, Issue, Due, starts, ghosts
  <2> QED BY <2>1, <2>2 DEF TypeInv
<1> QED BY <1>1, <1>2, <1>3, <1>4, <1>5, <1>6 DEF EndStep

\* The two commands of a reset.
LEMMA ResetType ==
    ASSUME TypeInv, ResetPointer \/ ResetSolved
    PROVE  TypeInv'
<1>1. CASE ResetPointer
  <2>1. TypeOK'
    BY <1>1 DEF TypeInv, TypeOK, ResetPointer, starts, ghosts
  <2>2. Targets'
    BY <1>1 DEF TypeInv, TypeOK, Targets, ResetPointer, starts, ghosts
  <2> QED BY <2>1, <2>2 DEF TypeInv
<1>2. CASE ResetSolved
  <2>1. Cardinality(solvedChars) \in Nat
    BY SolvedFinite DEF TypeInv
  <2>2. forgotten' \in Nat
    BY <1>2, <2>1 DEF TypeInv, TypeOK, ResetSolved
  <2>3. TypeOK'
    BY <1>2, <2>2 DEF TypeInv, TypeOK, ResetSolved, starts
  <2>4. Targets'
    BY <1>2 DEF TypeInv, TypeOK, Targets, ResetSolved, starts
  <2> QED BY <2>3, <2>4 DEF TypeInv
<1> QED BY <1>1, <1>2

\* A start is cut off, or one of its commands fails.
LEMMA StartFaultType ==
    ASSUME TypeInv, NEW p \in Starter, StartCutOff(p) \/ StartFails(p)
    PROVE  TypeInv'
<1>1. CASE StartCutOff(p)
  <2>1. TypeOK'
    BY <1>1 DEF TypeInv, TypeOK, StartCutOff, Fault, Drop, Leave
  <2>2. Targets'
    BY <1>1 DEF TypeInv, TypeOK, Targets, StartCutOff, Fault, Drop, Leave
  <2> QED BY <2>1, <2>2 DEF TypeInv
<1>2. CASE StartFails(p)
  <2>1. TypeOK'
    BY <1>2, AfterAddType DEF TypeInv, TypeOK, StartFails, Fault, Drop, Leave, Step
  <2>2. Targets'
    BY <1>2 DEF TypeInv, TypeOK, Targets, StartFails, Fault, Drop, Leave, Step
  <2> QED BY <2>1, <2>2 DEF TypeInv
<1> QED BY <1>1, <1>2

\* The end of a session is cut off or fails in part; its record expires.
LEMMA EndFaultType ==
    ASSUME TypeInv, NEW s \in Session,
           EndCutOff(s) \/ EndFails(s) \/ SessionExpires(s)
    PROVE  TypeInv'
<1>1. CASE EndCutOff(s)
  <2>1. TypeOK'
    BY <1>1 DEF TypeInv, TypeOK, EndCutOff, CutOff, Fault, starts
  <2>2. Targets'
    BY <1>1 DEF TypeInv, TypeOK, Targets, EndCutOff, CutOff, Fault, starts
  <2> QED BY <2>1, <2>2 DEF TypeInv
<1>2. CASE EndFails(s)
  <2>1. TypeOK'
    BY <1>2 DEF TypeInv, TypeOK, EndFails, Fails, Fault, starts
  <2>2. Targets'
    BY <1>2 DEF TypeInv, TypeOK, Targets, EndFails, Fails, Fault, starts
  <2> QED BY <2>1, <2>2 DEF TypeInv
<1>3. CASE SessionExpires(s)
  <2>1. TypeOK'
    BY <1>3 DEF TypeInv, TypeOK, SessionExpires, starts
  <2>2. Targets'
    BY <1>3 DEF TypeInv, TypeOK, Targets, SessionExpires, starts
  <2> QED BY <2>1, <2>2 DEF TypeInv
<1> QED BY <1>1, <1>2, <1>3

\* The active set expires.
LEMMA ExpiryType ==
    ASSUME TypeInv, ActiveSetExpires
    PROVE  TypeInv'
<1>1. TypeOK'
  BY DEF TypeInv, TypeOK, ActiveSetExpires, starts
<1>2. Targets'
  BY DEF TypeInv, TypeOK, Targets, ActiveSetExpires, starts
<1> QED BY <1>1, <1>2 DEF TypeInv

LEMMA InitType == Init => TypeInv
<1> SUFFICES ASSUME Init PROVE TypeInv
  OBVIOUS
<1>1. TypeOK
  BY DEF Init, TypeOK
<1>2. Targets
  BY DEF Init, Targets
<1> QED BY <1>1, <1>2 DEF TypeInv

LEMMA NextType == TypeInv /\ [Next]_vars => TypeInv'
<1> SUFFICES ASSUME TypeInv, [Next]_vars PROVE TypeInv'
  OBVIOUS
<1>1. CASE Next
  BY <1>1, StartType, StartFaultType, EndType, EndFaultType, ResetType,
     ExpiryType DEF Next
<1>2. CASE UNCHANGED vars
  BY <1>2 DEF vars, starts, ghosts, TypeInv, TypeOK, Targets
<1> QED BY <1>1, <1>2

\* The type invariant holds in every reachable state of the starting and ending
\* of sessions, whatever fails or expires.
THEOREM SessionsTypeCorrect == Spec => []TypeOK
<1> QED BY InitType, NextType, PTL DEF Spec, TypeInv

-----------------------------------------------------------------------------
(* Slots *)

LEMMA SlotsFinite ==
    ASSUME TypeInv
    PROVE  /\ IsFiniteSet(active) /\ Cardinality(active) \in Nat
           /\ IsFiniteSet(Past) /\ Cardinality(Past) \in Nat
           /\ Cardinality(Starter) \in Nat
<1>1. active \subseteq Session /\ Past \subseteq Starter
  BY DEF TypeInv, TypeOK, Past
<1> QED BY <1>1, TeamAssumption, FS_Subset, FS_CardinalityType

\* A step that registers no session and lets no start past the check.
LEMMA SlotsShrink ==
    ASSUME TypeInv, SlotInv, active' \subseteq active, Past' \subseteq Past
    PROVE  SlotInv'
<1>1. Cardinality(active') \in Nat /\ Cardinality(active') <= Cardinality(active)
  BY SlotsFinite, FS_Subset, FS_CardinalityType
<1>2. Cardinality(Past') \in Nat /\ Cardinality(Past') <= Cardinality(Past)
  BY SlotsFinite, FS_Subset, FS_CardinalityType
<1> QED BY <1>1, <1>2, SlotsFinite, TeamAssumption DEF SlotInv

\* A start that passes the check has found a slot free.
LEMMA CountKeepsSlots ==
    ASSUME TypeInv, NEW p \in Starter, CountActiveSessions(p)
    PROVE  SlotInv'
<1>1. active' = active /\ Cardinality(active) < Limit
  BY DEF CountActiveSessions
<1>2. Cardinality(Past') \in Nat /\ Cardinality(Past') <= Cardinality(Starter)
  <2>1. Past' \subseteq Starter
    BY DEF Past
  <2> QED BY <2>1, TeamAssumption, FS_Subset, FS_CardinalityType
<1> QED BY <1>1, <1>2, SlotsFinite, TeamAssumption DEF SlotInv

\* A start that registers its session has been counted among those past the check.
LEMMA AddKeepsSlots ==
    ASSUME TypeInv, SlotInv, NEW p \in Starter, AddActiveSession(p)
    PROVE  SlotInv'
<1>1. active' = active \cup {sid[p]}
  BY DEF AddActiveSession
<1>2. p \in Past /\ Past' = Past \ {p}
  BY AfterAddType DEF AddActiveSession, Step, Past, TypeInv, TypeOK
<1>3. /\ Cardinality(active') \in Nat
      /\ Cardinality(active') <= Cardinality(active) + 1
  <2>1. Cardinality(active') = IF sid[p] \in active THEN Cardinality(active)
                                                   ELSE Cardinality(active) + 1
    BY <1>1, SlotsFinite, FS_AddElement, Zenon
  <2> QED BY <2>1, SlotsFinite
<1>4. Cardinality(Past') = Cardinality(Past) - 1
  BY <1>2, SlotsFinite, FS_RemoveElement
<1> QED BY <1>3, <1>4, SlotsFinite, TeamAssumption DEF SlotInv

LEMMA StartKeepsSlots ==
    ASSUME TypeInv, SlotInv, NEW p \in Starter,
           \/ CountActiveSessions(p) \/ StartStep(p)
           \/ StartCutOff(p) \/ StartFails(p)
    PROVE  SlotInv'
<1>1. CASE CountActiveSessions(p)
  BY <1>1, CountKeepsSlots
<1>2. CASE AddActiveSession(p)
  BY <1>2, AddKeepsSlots
<1>3. CASE \/ ReadTeamData(p) \/ WriteSession(p) \/ ClearSolvedCharacters(p)
           \/ SetActiveSession(p) \/ AwardFirstRound(p)
  <2>1. active' = active
    BY <1>3 DEF ReadTeamData, WriteSession, ClearSolvedCharacters,
                SetActiveSession, AwardFirstRound
  <2>2. Past' \subseteq Past
    BY <1>3 DEF ReadTeamData, WriteSession, ClearSolvedCharacters,
                SetActiveSession, AwardFirstRound, Step, Past, TypeInv, TypeOK
  <2> QED BY <2>1, <2>2, SlotsShrink
<1>4. CASE StartCutOff(p) \/ StartFails(p)
  <2>1. active' = active
    BY <1>4 DEF StartCutOff, StartFails, Fault
  <2>2. Past' \subseteq Past
    BY <1>4, AfterAddType
       DEF StartCutOff, StartFails, Drop, Step, Past, TypeInv, TypeOK
  <2> QED BY <2>1, <2>2, SlotsShrink
<1> QED BY <1>1, <1>2, <1>3, <1>4 DEF StartStep

LEMMA OtherKeepsSlots ==
    ASSUME TypeInv, SlotInv,
           \/ \E s \in Session : \/ EndSession(s) \/ EndCommand(s)
                                 \/ EndCutOff(s) \/ EndFails(s)
                                 \/ SessionExpires(s)
           \/ ResetPointer \/ ResetSolved
           \/ ActiveSetExpires
    PROVE  SlotInv'
<1>1. pc' = pc /\ active' \subseteq active
  <2>1. CASE \E s \in Session : EndSession(s)
    BY <2>1 DEF EndSession, Decide, Withhold, SettleMiss, EndByGuess, EndByReveal,
                EndByDecryption, BeginEnd, starts
  <2>2. CASE \E s \in Session : EndCommand(s)
    BY <2>2 DEF EndCommand, EndStep, StoreCompleted, StoreSettled, UpdateTeamStats,
                ClearActiveSession, RemoveActiveSession, starts
  <2>3. CASE \E s \in Session : EndCutOff(s) \/ EndFails(s) \/ SessionExpires(s)
    BY <2>3 DEF EndCutOff, EndFails, Fault, SessionExpires, starts
  <2>4. CASE ResetPointer \/ ResetSolved \/ ActiveSetExpires
    BY <2>4 DEF ResetPointer, ResetSolved, ActiveSetExpires, starts
  <2> QED BY <2>1, <2>2, <2>3, <2>4
<1>2. Past' \subseteq Past
  BY <1>1 DEF Past
<1> QED BY <1>1, <1>2, SlotsShrink

\* Whatever is cut off, fails or expires, a team that runs n starts at once
\* never holds Limit + n slots: StartSession's unlocked check of the limit.
THEOREM SlotsNeverOverrun == Spec => []SlotsBounded
<1>1. Init => SlotInv
  <2> SUFFICES ASSUME Init PROVE SlotInv
    OBVIOUS
  <2>1. active = {} /\ Past = {}
    BY DEF Init, Past
  <2>2. Cardinality(Starter) \in Nat
    BY TeamAssumption, FS_CardinalityType
  <2> QED BY <2>1, <2>2, FS_EmptySet, TeamAssumption DEF SlotInv
<1>2. TypeInv /\ SlotInv /\ [Next]_vars => SlotInv'
  <2> SUFFICES ASSUME TypeInv, SlotInv, [Next]_vars PROVE SlotInv'
    OBVIOUS
  <2>1. CASE Next
    BY <2>1, StartKeepsSlots, OtherKeepsSlots DEF Next
  <2>2. CASE UNCHANGED vars
    BY <2>2 DEF vars, starts, SlotInv, Past
  <2> QED BY <2>1, <2>2
<1>3. TypeInv /\ SlotInv => SlotsBounded
  BY SlotsFinite, TeamAssumption DEF SlotInv, SlotsBounded
<1> QED BY InitType, NextType, <1>1, <1>2, <1>3, PTL DEF Spec

-----------------------------------------------------------------------------
(* Whose session it is *)

\* From its WriteSession on a start has a session of its own, which no client
\* knows before the pointer is set; requests come only for known sessions.
Storing(p) == pc[p] \in {"add", "clear", "point", "award"}

OwnInv ==
    /\ \A p \in Starter : Storing(p) =>
          /\ sid[p] \in Session /\ stored[sid[p]] # "unused"
          /\ pc[p] # "award" => sid[p] \notin known
    /\ \A p, q \in Starter :
          p # q /\ Storing(p) /\ Storing(q) => sid[p] # sid[q]
    /\ \A s \in Session : s \in known => stored[s] # "unused"
    /\ \A s \in Session : ending[s] # {} \/ s \in withheld => s \in known

LEMMA OwnInit == Init => OwnInv
  BY DEF Init, OwnInv, Storing

LEMMA OwnStart ==
    ASSUME TypeInv, OwnInv, NEW p \in Starter, CountActiveSessions(p) \/ StartStep(p)
    PROVE  OwnInv'
<1> USE DEF TypeInv, TypeOK, OwnInv, Storing, Step, ghosts
<1>1. CASE CountActiveSessions(p)
  BY <1>1 DEF CountActiveSessions
<1>2. CASE ReadTeamData(p)
  BY <1>2 DEF ReadTeamData
<1>3. CASE WriteSession(p)
  BY <1>3, TeamAssumption DEF WriteSession
<1>4. CASE AddActiveSession(p)
  BY <1>4, AfterAddType DEF AddActiveSession
<1>5. CASE ClearSolvedCharacters(p)
  BY <1>5 DEF ClearSolvedCharacters
<1>6. CASE SetActiveSession(p)
  BY <1>6 DEF SetActiveSession
<1>7. CASE AwardFirstRound(p)
  BY <1>7 DEF AwardFirstRound, Leave
<1>8. QED
  BY <1>1, <1>2, <1>3, <1>4, <1>5, <1>6, <1>7 DEF StartStep

LEMMA OwnEnd ==
    ASSUME TypeInv, OwnInv, NEW s \in Session, EndSession(s) \/ EndCommand(s)
    PROVE  OwnInv'
<1> USE DEF TypeInv, TypeOK, OwnInv, Storing, ghosts, starts
<1>1. CASE EndSession(s)
  BY <1>1, Decisions DEF EndSession, Withhold, SettleMiss, BeginEnd
<1>2. CASE EndCommand(s)
  <2>1. UNCHANGED <<pc, sid, known>>
    BY <1>2 DEF EndCommand
  <2>2. /\ \A t \in Session : ending'[t] # {} => ending[t] # {}
        /\ withheld' \subseteq withheld
        /\ \A t \in Session : stored[t] # "unused" => stored'[t] # "unused"
    BY <1>2 DEF EndCommand, EndStep, StoreCompleted, StoreSettled, UpdateTeamStats,
                ClearActiveSession, RemoveActiveSession, Issue, Due
  <2> QED BY <2>1, <2>2
<1> QED BY <1>1, <1>2

LEMMA OwnFault ==
    ASSUME TypeInv, OwnInv,
           \/ \E p \in Starter : StartCutOff(p) \/ StartFails(p)
           \/ \E s \in Session : EndCutOff(s) \/ EndFails(s) \/ SessionExpires(s)
           \/ ResetPointer \/ ResetSolved \/ ActiveSetExpires \/ UNCHANGED vars
    PROVE  OwnInv'
<1> USE DEF TypeInv, TypeOK, OwnInv, Storing, starts
<1>1. CASE \E p \in Starter : StartCutOff(p)
  BY <1>1 DEF StartCutOff, Fault, Drop, Leave
<1>2. CASE \E p \in Starter : StartFails(p)
  BY <1>2, AfterAddType DEF StartFails, Fault, Drop, Leave, Step
<1>3. CASE \E s \in Session : EndCutOff(s)
  BY <1>3 DEF EndCutOff, CutOff, Fault
<1>4. CASE \E s \in Session : EndFails(s)
  BY <1>4 DEF EndFails, Fails, Fault
<1>5. CASE \E s \in Session : SessionExpires(s)
  BY <1>5 DEF SessionExpires
<1>6. CASE ResetPointer \/ ResetSolved \/ ActiveSetExpires \/ UNCHANGED vars
  BY <1>6 DEF ResetPointer, ResetSolved, ActiveSetExpires, vars
<1>7. QED
  BY <1>1, <1>2, <1>3, <1>4, <1>5, <1>6

\* Every step is one of a start, of the end of a session, or none of the two.
LEMMA SessionSteps ==
    ASSUME [Next]_vars
    PROVE  \/ \E p \in Starter : CountActiveSessions(p) \/ StartStep(p)
           \/ \E s \in Session : EndSession(s) \/ EndCommand(s)
           \/ \/ \E p \in Starter : StartCutOff(p) \/ StartFails(p)
              \/ \E s \in Session : EndCutOff(s) \/ EndFails(s) \/ SessionExpires(s)
              \/ ResetPointer \/ ResetSolved \/ ActiveSetExpires \/ UNCHANGED vars
  BY DEF Next

LEMMA OwnNext == TypeInv /\ OwnInv /\ [Next]_vars => OwnInv'
  BY SessionSteps, OwnStart, OwnEnd, OwnFault

LEMMA AlwaysOwn == Spec => [](TypeInv /\ OwnInv)
  BY InitType, NextType, OwnInit, OwnNext, PTL DEF Spec
-----------------------------------------------------------------------------
(* Playable sessions hold a slot, and the pointer names no other *)

\* A start gets its slot before it makes its session known.  The request that
\* ends a session first completes the record, then clears the pointer and gives
\* the slot back last.
HeldSlots ==
    /\ \A p \in Starter : pc[p] \in {"clear", "point"} => sid[p] \in active
    /\ \A s \in Session : Playable(s) => s \in active
    /\ activeID # None => activeID \in active
    /\ \A s \in Session : ending[s] # {} =>
          /\ "remove" \in ending[s]
          /\ \/ "write" \in ending[s] \/ "settle" \in ending[s]
             \/ stored[s] = "closed"
          /\ "clear" \in ending[s] \/ activeID # s
          /\ "stats" \in ending[s] => s \notin withheld \/ "settle" \in ending[s]

CutOffOnly == happened \subseteq {"abort"}

HeldInv == CutOffOnly => HeldSlots

\* The order of the commands of a request that ends a session.
LEMMA DueOrder ==
    ASSUME TypeInv, NEW s \in Session
    PROVE  /\ \A e : Due(s, e) => e \in ending[s]
           /\ \A e : Due(s, e) /\ e # "write" => "write" \notin ending[s]
           /\ \A e : Due(s, e) /\ e \notin {"write", "settle"} => "settle" \notin ending[s]
           /\ Due(s, "remove") => ending[s] = {"remove"}
  BY DEF Due, EndOrder, TypeInv, TypeOK

\* Only cuts leave room for these invariants, and happened never shrinks.
LEMMA CutOffBefore == [Next]_vars /\ TypeInv /\ CutOffOnly' => CutOffOnly
  BY DEF CutOffOnly, Next, CountActiveSessions, StartStep, ReadTeamData, WriteSession,
         AddActiveSession, ClearSolvedCharacters, SetActiveSession, AwardFirstRound,
         StartCutOff, StartFails, EndSession, EndCommand, EndCutOff, EndFails, SessionExpires, Fault, ResetPointer, ResetSolved,
         ActiveSetExpires, vars, ghosts

\* The faults other than a cut leave their kind behind.
LEMMA OtherFaults ==
    ASSUME CutOffOnly'
    PROVE  /\ \A p \in Starter : ~StartFails(p)
           /\ \A s \in Session : ~EndFails(s) /\ ~SessionExpires(s)
           /\ ~ActiveSetExpires
  BY DEF CutOffOnly, StartFails, EndFails, SessionExpires, ActiveSetExpires, Fault

LEMMA HeldStart ==
    ASSUME TypeInv, OwnInv, HeldSlots, NEW p \in Starter,
           CountActiveSessions(p) \/ StartStep(p)
    PROVE  HeldSlots'
<1> USE DEF TypeInv, TypeOK, OwnInv, Storing, HeldSlots, Playable, Step, ghosts
<1>1. CASE CountActiveSessions(p)
  BY <1>1 DEF CountActiveSessions
<1>2. CASE ReadTeamData(p)
  BY <1>2 DEF ReadTeamData
<1>3. CASE WriteSession(p)
  BY <1>3, TeamAssumption DEF WriteSession
<1>4. CASE AddActiveSession(p)
  BY <1>4, AfterAddType DEF AddActiveSession
<1>5. CASE ClearSolvedCharacters(p)
  BY <1>5 DEF ClearSolvedCharacters
<1>6. CASE SetActiveSession(p)
  BY <1>6 DEF SetActiveSession
<1>7. CASE AwardFirstRound(p)
  BY <1>7 DEF AwardFirstRound, Leave
<1>8. QED
  BY <1>1, <1>2, <1>3, <1>4, <1>5, <1>6, <1>7 DEF StartStep

LEMMA HeldEnd ==
    ASSUME TypeInv, OwnInv, HeldSlots, NEW s \in Session, EndSession(s) \/ EndCommand(s)
    PROVE  HeldSlots'
<1> USE DEF TypeInv, TypeOK, OwnInv, Storing, HeldSlots, Playable, ghosts, starts
<1>1. CASE EndSession(s)
  BY <1>1, Decisions DEF EndSession, Withhold, SettleMiss, BeginEnd
<1>2. CASE EndCommand(s) /\ StoreCompleted(s)
  BY <1>2, DueOrder DEF EndCommand, StoreCompleted, Issue
<1>3. CASE EndCommand(s) /\ StoreSettled(s)
  BY <1>3, DueOrder DEF EndCommand, StoreSettled, Issue
<1>4. CASE EndCommand(s) /\ UpdateTeamStats(s)
  BY <1>4, DueOrder DEF EndCommand, UpdateTeamStats, Issue
<1>5. CASE EndCommand(s) /\ ClearActiveSession(s)
  BY <1>5, DueOrder, TeamAssumption DEF EndCommand, ClearActiveSession, Issue
<1>6. CASE EndCommand(s) /\ RemoveActiveSession(s)
  <2>1. ending[s] = {"remove"} /\ ending'[s] = {} /\ active' = active \ {s}
    BY <1>6, DueOrder DEF EndCommand, RemoveActiveSession, Issue
  <2>2. \A t \in Session \ {s} : ending'[t] = ending[t]
    BY <1>6 DEF EndCommand, RemoveActiveSession, Issue
  <2>3. \A p \in Starter : pc[p] \in {"clear", "point"} => sid[p] # s
    BY <2>1
  <2>4. stored[s] = "closed" /\ activeID # s
    BY <2>1
  <2>5. UNCHANGED <<pc, sid, known, stored, withheld, activeID>>
    BY <1>6 DEF EndCommand, RemoveActiveSession, Issue
  <2>6. QED
    BY <2>1, <2>2, <2>3, <2>4, <2>5
<1>7. QED
  BY <1>1, <1>2, <1>3, <1>4, <1>5, <1>6 DEF EndCommand, EndStep

LEMMA HeldOther ==
    ASSUME TypeInv, OwnInv, HeldSlots,
           \/ \E p \in Starter : StartCutOff(p)
           \/ \E s \in Session : EndCutOff(s)
           \/ ResetPointer \/ ResetSolved \/ UNCHANGED vars
    PROVE  HeldSlots'
<1> USE DEF TypeInv, TypeOK, OwnInv, Storing, HeldSlots, Playable, starts
<1>1. CASE \E p \in Starter : StartCutOff(p)
  BY <1>1 DEF StartCutOff, Fault, Drop, Leave
<1>2. CASE \E s \in Session : EndCutOff(s)
  BY <1>2 DEF EndCutOff, CutOff, Fault
<1>3. CASE ResetPointer \/ ResetSolved \/ UNCHANGED vars
  BY <1>3, TeamAssumption DEF ResetPointer, ResetSolved, vars
<1>4. QED
  BY <1>1, <1>2, <1>3

LEMMA HeldNext == TypeInv /\ OwnInv /\ HeldInv /\ [Next]_vars => HeldInv'
<1> SUFFICES ASSUME TypeInv, OwnInv, HeldInv, [Next]_vars, CutOffOnly'
             PROVE  HeldSlots'
  BY DEF HeldInv
<1>1. HeldSlots
  BY CutOffBefore DEF HeldInv
<1> QED BY <1>1, SessionSteps, OtherFaults, HeldStart, HeldEnd, HeldOther

LEMMA AlwaysHeld == Spec => []HeldInv
<1>1. Init => HeldInv
  BY DEF Init, HeldInv, HeldSlots, Playable
<1> QED BY <1>1, HeldNext, AlwaysOwn, PTL DEF Spec

\* However starts, ends and resets overlap and wherever they are cut off, a
\* session a client can play is in the team's active set.
THEOREM PlayableHoldsSlot == Spec => []PlayableCounted
<1>1. HeldInv => PlayableCounted
  BY DEF HeldInv, HeldSlots, CutOffOnly, PlayableCounted
<1> QED BY <1>1, AlwaysHeld, PTL

\* active_session_id names no session that has given back its slot.
THEOREM PointerIsHonest == Spec => []PointerHonest
<1>1. HeldInv => PointerHonest
  BY DEF HeldInv, HeldSlots, CutOffOnly, PointerHonest
<1> QED BY <1>1, AlwaysHeld, PTL
-----------------------------------------------------------------------------
(* A team that plays one session after another *)

\* What one start knows of the solved characters: it has read them all, its
\* target is a new one, or the set is cleared before the session is known.
FreshTarget(p) ==
    /\ pc[p] \in {"write", "add", "clear"} => solvedChars \subseteq seen[p]
    /\ pc[p] = "add" =>
          Character \subseteq seen[p] \/ target[sid[p]] \notin seen[p]
    /\ pc[p] = "point" => target[sid[p]] \notin solvedChars

OneAtATime ==
    /\ \A p, q \in Starter : pc[p] # "idle" /\ pc[q] # "idle" => p = q
    /\ \A p \in Starter, s \in Session :
          Live(s) => pc[p] \in {"idle", "award"}
    /\ \A s, t \in Session : Live(s) /\ Live(t) => s = t

NewSolves ==
    /\ \A p \in Starter : FreshTarget(p)
    /\ \A s \in Session : Playable(s) \/ s \in withheld \/ "stats" \in ending[s] =>
          target[s] \notin solvedChars
    /\ solves = Cardinality(solvedChars) + forgotten

SerialInv == CutOffOnly /\ ~overlap => OneAtATime /\ NewSolves

LEMMA BoardIsNew ==
    ASSUME NEW S, NEW c \in Board(S)
    PROVE  c \in Character /\ (Character \subseteq S \/ c \notin S)
  BY DEF Board

LEMMA SerialStart ==
    ASSUME TypeInv, OwnInv, OneAtATime, NewSolves, ~overlap', NEW p \in Starter,
           CountActiveSessions(p) \/ StartStep(p)
    PROVE  OneAtATime' /\ NewSolves'
<1> USE DEF TypeInv, TypeOK, OwnInv, Storing, OneAtATime, NewSolves, FreshTarget,
            Live, Playable, Step, ghosts
<1>1. CASE CountActiveSessions(p)
  <2>1. ~Busy(p)
    BY <1>1, Zenon DEF CountActiveSessions
  <2>2. /\ \A q \in Starter \ {p} : pc[q] = "idle"
        /\ \A s \in Session : ~Live(s)
    BY <2>1 DEF Busy
  <2>3. /\ pc' = [pc EXCEPT ![p] = "read"]
        /\ UNCHANGED <<endsVars, sid, seen, known, forgotten>>
    BY <1>1 DEF CountActiveSessions
  <2>4. QED
    BY <2>2, <2>3
<1>2. CASE ReadTeamData(p)
  BY <1>2 DEF ReadTeamData
<1>3. CASE WriteSession(p)
  <2>1. PICK s \in Session, c \in Board(seen[p]) :
           /\ stored[s] = "unused"
           /\ stored' = [stored EXCEPT ![s] = "open"]
           /\ target' = [target EXCEPT ![s] = c]
           /\ sid' = [sid EXCEPT ![p] = s]
    BY <1>3 DEF WriteSession
  <2>2. QED
    BY <1>3, <2>1, BoardIsNew, TeamAssumption DEF WriteSession
<1>4. CASE AddActiveSession(p)
  BY <1>4, AfterAddType DEF AddActiveSession, AfterAdd
<1>5. CASE ClearSolvedCharacters(p)
  <2>1. solves' = Cardinality(solvedChars') + forgotten'
    BY <1>5, FS_EmptySet, SolvedFinite DEF ClearSolvedCharacters
  <2>2. QED
    BY <1>5, <2>1 DEF ClearSolvedCharacters
<1>6. CASE SetActiveSession(p)
  BY <1>6 DEF SetActiveSession
<1>7. CASE AwardFirstRound(p)
  BY <1>7 DEF AwardFirstRound, Leave
<1>8. QED
  BY <1>1, <1>2, <1>3, <1>4, <1>5, <1>6, <1>7 DEF StartStep

LEMMA SerialEnd ==
    ASSUME TypeInv, OwnInv, HeldSlots, OneAtATime, NewSolves, NEW s \in Session,
           EndSession(s) \/ EndCommand(s)
    PROVE  OneAtATime' /\ NewSolves'
<1> USE DEF TypeInv, TypeOK, OwnInv, Storing, OneAtATime, NewSolves, FreshTarget,
            Live, Playable, ghosts, starts
<1>1. CASE EndSession(s)
  BY <1>1, Decisions DEF EndSession, Withhold, SettleMiss, BeginEnd
<1>2. CASE EndCommand(s) /\ StoreCompleted(s)
  BY <1>2, DueOrder DEF EndCommand, StoreCompleted, Issue
<1>3. CASE EndCommand(s) /\ StoreSettled(s)
  BY <1>3, DueOrder DEF EndCommand, StoreSettled, Issue
<1>4. CASE EndCommand(s) /\ UpdateTeamStats(s)
  <2>1. /\ "stats" \in ending[s] /\ "write" \notin ending[s] /\ "settle" \notin ending[s]
        /\ ending'[s] = ending[s] \ {"stats"} /\ solvedChars' = solvedChars \cup {target[s]}
        /\ solves' = solves + 1 /\ forgotten' = forgotten
    BY <1>4, DueOrder DEF EndCommand, UpdateTeamStats, Issue
  <2>2. stored[s] = "closed" /\ s \notin withheld /\ target[s] \notin solvedChars
    BY <2>1 DEF HeldSlots
  <2>3. Cardinality(solvedChars') = Cardinality(solvedChars) + 1
    <3>1. IsFiniteSet(solvedChars)
      BY TeamAssumption, FS_Subset
    <3>2. QED
      BY <2>1, <2>2, <3>1, FS_AddElement
  <2>4. solves' = Cardinality(solvedChars') + forgotten'
    BY <2>1, <2>3, SolvedFinite
  <2>5. \A t \in Session \ {s} : ~Live(t) /\ ending'[t] = ending[t]
    BY <1>4, <2>1 DEF EndCommand, UpdateTeamStats, Issue
  <2>6. UNCHANGED <<pc, sid, seen, stored, withheld, known, target>>
    BY <1>4 DEF EndCommand, UpdateTeamStats, Issue
  <2>7. OneAtATime'
    BY <2>1, <2>2, <2>5, <2>6
  <2>8. \A p \in Starter : FreshTarget(p)'
    BY <2>1, <2>6
  <2>9. \A t \in Session : (Playable(t) \/ t \in withheld \/ "stats" \in ending[t])' =>
           target'[t] \notin solvedChars'
    BY <2>1, <2>2, <2>5, <2>6
  <2>10. QED
    BY <2>4, <2>7, <2>8, <2>9
<1>5. CASE EndCommand(s) /\ ClearActiveSession(s)
  BY <1>5, DueOrder DEF EndCommand, ClearActiveSession, Issue
<1>6. CASE EndCommand(s) /\ RemoveActiveSession(s)
  BY <1>6, DueOrder DEF EndCommand, RemoveActiveSession, Issue
<1>7. QED
  BY <1>1, <1>2, <1>3, <1>4, <1>5, <1>6 DEF EndCommand, EndStep

LEMMA SerialOther ==
    ASSUME TypeInv, OwnInv, HeldSlots, OneAtATime, NewSolves,
           \/ \E p \in Starter : StartCutOff(p)
           \/ \E s \in Session : EndCutOff(s)
           \/ ResetPointer \/ ResetSolved \/ UNCHANGED vars
    PROVE  OneAtATime' /\ NewSolves'
<1> USE DEF TypeInv, TypeOK, OwnInv, Storing, OneAtATime, NewSolves, FreshTarget,
            Live, Playable, starts
<1>1. CASE \E p \in Starter : StartCutOff(p)
  BY <1>1 DEF StartCutOff, Fault, Drop, Leave
<1>2. CASE \E s \in Session : EndCutOff(s)
  BY <1>2 DEF EndCutOff, CutOff, Fault
<1>3. CASE ResetPointer \/ UNCHANGED vars
  BY <1>3 DEF ResetPointer, vars, ghosts
<1>4. CASE ResetSolved
  <2>1. solves' = Cardinality(solvedChars') + forgotten'
    BY <1>4, FS_EmptySet, SolvedFinite DEF ResetSolved
  <2>2. QED
    BY <1>4, <2>1 DEF ResetSolved
<1>5. QED
  BY <1>1, <1>2, <1>3, <1>4

\* overlap never shrinks.
LEMMA NoOverlapBefore == [Next]_vars /\ ~overlap' => ~overlap
  BY DEF Next, CountActiveSessions, StartStep, ReadTeamData, WriteSession,
         AddActiveSession, ClearSolvedCharacters, SetActiveSession, AwardFirstRound,
         StartCutOff, StartFails, EndSession, EndCommand, EndCutOff, EndFails, SessionExpires, Fault, ResetPointer, ResetSolved,
         ActiveSetExpires, vars, ghosts

LEMMA SerialNext ==
    TypeInv /\ OwnInv /\ HeldInv /\ SerialInv /\ [Next]_vars => SerialInv'
<1> SUFFICES ASSUME TypeInv, OwnInv, HeldInv, SerialInv, [Next]_vars,
                    CutOffOnly', ~overlap'
             PROVE  OneAtATime' /\ NewSolves'
  BY DEF SerialInv
<1>1. HeldSlots /\ OneAtATime /\ NewSolves
  BY CutOffBefore, NoOverlapBefore DEF HeldInv, SerialInv
<1> QED BY <1>1, SessionSteps, OtherFaults, SerialStart, SerialEnd, SerialOther

\* A team whose sessions never overlap solves a new character each time,
\* whatever it resets and wherever its requests are cut off.
THEOREM SolvesAreNew == Spec => []SolvesAddUp
<1>1. Init => SerialInv
  <2> SUFFICES ASSUME Init PROVE OneAtATime /\ NewSolves
    BY DEF SerialInv
  <2>1. solves = Cardinality(solvedChars) + forgotten
    BY FS_EmptySet DEF Init
  <2> QED BY <2>1 DEF Init, OneAtATime, NewSolves, FreshTarget, Live, Playable
<1>2. SerialInv => SolvesAddUp
  BY DEF SerialInv, NewSolves, CutOffOnly, SolvesAddUp
<1> QED BY <1>1, <1>2, SerialNext, AlwaysOwn, AlwaysHeld, PTL DEF Spec
=============================================================================
