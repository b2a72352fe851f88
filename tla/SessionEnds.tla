---------------------------- MODULE SessionEnds ----------------------------
(***************************************************************************)
(* How a started session ends, as the rest of the team sees it: whether    *)
(* its record is open, whether a guess is withheld in it (Stage 2), and    *)
(* the commands left to the request that ends it, in their order.  One     *)
(* request at a time does so, which is the session lock's doing.           *)
(*                                                                         *)
(* Decrypting a withheld guess does not ask whether the session is still   *)
(* open, and a reveal leaves the guess withheld: a session that was        *)
(* revealed can be solved, or lost, a second time.                         *)
(*                                                                         *)
(* SessionPlay implements this module; TeamSessions takes its actions for  *)
(* the sessions it has started.                                            *)
(***************************************************************************)
EXTENDS Integers, FiniteSets

CONSTANTS
    Session,    \* session IDs
    Character,  \* the catalog
    None,
    Faults      \* the kinds of fault that occur

VARIABLES
    stored,      \* session:<id>: open or closed (completed)
    target,      \* the target in that record
    withheld,    \* sessions whose record has a pending decryption
    active,      \* active_sessions:team:<id>
    activeID,    \* team:<id> active_session_id
    solvedChars, \* team:<id>:solved_characters
    solves,      \* team:<id> solves
    ending       \* per session, the commands left to the request ending it

record   == <<stored, target, withheld>>
books    == <<active, activeID, solvedChars, solves>>
endsVars == <<record, books, ending>>

EndsInit ==
    /\ stored = [s \in Session |-> "open"]
    /\ target \in [Session -> Character]
    /\ withheld = {}
    /\ active = Session /\ activeID \in Session
    /\ solvedChars = {} /\ solves \in Nat
    /\ ending = [s \in Session |-> {}]

-----------------------------------------------------------------------------
(* What a request decides *)

\* SubmitGuess withholds its verdict; the session goes on.
Withhold(s) ==
    /\ stored[s] = "open" /\ s \notin withheld /\ ending[s] = {}
    /\ withheld' = withheld \cup {s}
    /\ UNCHANGED <<stored, target, books, ending>>

\* SubmitDecryption settles a wrong guess, and it was not the last one.
SettleMiss(s) ==
    /\ s \in withheld /\ ending[s] = {}
    /\ withheld' = withheld \ {s}
    /\ UNCHANGED <<stored, target, books, ending>>

\* What is left once the record is stored: a solve reaches the team's stats.
AfterSolve == {"stats", "clear", "remove"}
AfterLoss  == {"clear", "remove"}

BeginEnd(s, commands) ==
    /\ ending[s] = {}
    /\ ending' = [ending EXCEPT ![s] = commands]
    /\ UNCHANGED <<record, books>>

\* SubmitGuess: the target, or the last wrong guess.
EndByGuess(s) ==
    /\ stored[s] = "open" /\ s \notin withheld
    /\ \E rest \in {AfterSolve, AfterLoss} : BeginEnd(s, {"write"} \cup rest)

EndByReveal(s) ==
    /\ stored[s] = "open"
    /\ BeginEnd(s, {"write"} \cup AfterLoss)

EndByDecryption(s) ==
    /\ s \in withheld
    /\ \E rest \in {AfterSolve, AfterLoss} : BeginEnd(s, {"settle"} \cup rest)

-----------------------------------------------------------------------------
(* Its commands *)

\* Mutant: the slot is given back before the pointer is cleared.
OrderRemoveFirst == <<"write", "settle", "stats", "remove", "clear">>

\* "write" and "settle" are both WriteSession.
EndOrder == <<"write", "settle", "stats", "clear", "remove">>

Due(s, e) ==
    /\ e \in ending[s]
    /\ \E i \in DOMAIN EndOrder :
          /\ EndOrder[i] = e
          /\ \A j \in 1 .. i - 1 : EndOrder[j] \notin ending[s]

Issue(s, e) ==
    /\ Due(s, e)
    /\ ending' = [ending EXCEPT ![s] = @ \ {e}]
    /\ UNCHANGED target

\* The record is stored as completed; a withheld guess stays withheld.
StoreCompleted(s) ==
    /\ Issue(s, "write")
    /\ stored' = [stored EXCEPT ![s] = "closed"]
    /\ UNCHANGED <<withheld, books>>

\* The record is stored as completed, nothing withheld any more.
StoreSettled(s) ==
    /\ Issue(s, "settle")
    /\ stored' = [stored EXCEPT ![s] = "closed"]
    /\ withheld' = withheld \ {s}
    /\ UNCHANGED books

\* Mutant: the session ID is stored instead of the character.
StatsOfSession(s) ==
    /\ Issue(s, "stats")
    /\ solves' = solves + 1
    /\ solvedChars' = solvedChars \cup {s}
    /\ UNCHANGED <<stored, withheld, active, activeID>>

UpdateTeamStats(s) ==
    /\ Issue(s, "stats")
    /\ solves' = solves + 1
    /\ solvedChars' = solvedChars \cup {target[s]}
    /\ UNCHANGED <<stored, withheld, active, activeID>>

\* The pointer is cleared whichever session it names.
ClearActiveSession(s) ==
    /\ Issue(s, "clear")
    /\ activeID' = None
    /\ UNCHANGED <<stored, withheld, active, solvedChars, solves>>

\* Mutant: DEL of the set instead of SREM of the member.
RemoveAll(s) ==
    /\ Issue(s, "remove")
    /\ active' = {}
    /\ UNCHANGED <<stored, withheld, activeID, solvedChars, solves>>

RemoveActiveSession(s) ==
    /\ Issue(s, "remove")
    /\ active' = active \ {s}
    /\ UNCHANGED <<stored, withheld, activeID, solvedChars, solves>>

-----------------------------------------------------------------------------
(* Faults *)

\* The request is cut off.
CutOff(s) ==
    /\ "abort" \in Faults
    /\ ending[s] # {}
    /\ ending' = [ending EXCEPT ![s] = {}]
    /\ UNCHANGED <<record, books>>

\* updateTeamStats returns when its script fails; other errors are logged.
Fails(s) ==
    /\ "error" \in Faults
    /\ \E e \in ending[s] :
          /\ Due(s, e)
          /\ ending' = [ending EXCEPT ![s] = IF e = "stats" THEN {} ELSE @ \ {e}]
    /\ UNCHANGED <<record, books>>

-----------------------------------------------------------------------------
Decide(s) ==
    \/ Withhold(s) \/ SettleMiss(s)
    \/ EndByGuess(s) \/ EndByReveal(s) \/ EndByDecryption(s)

EndStep(s) ==
    \/ StoreCompleted(s) \/ StoreSettled(s) \/ UpdateTeamStats(s)
    \/ ClearActiveSession(s) \/ RemoveActiveSession(s)

EndsNext == \E s \in Session : Decide(s) \/ EndStep(s) \/ CutOff(s) \/ Fails(s)

EndsSpec == EndsInit /\ [][EndsNext]_endsVars
=============================================================================
