---------------------------- MODULE TeamRegistry -----------------------------
(***************************************************************************)
(* Teams come and go: signup, DELETE /debug/team, POST /debug/flush, and   *)
(* the master board's self-healing read, each Redis command one step.      *)
(* None of them takes a lock.  A team's login, its reset and its session   *)
(* requests appear with the commands that touch the team's keys, to show   *)
(* what they leave behind, and what they bring back, when the team is      *)
(* deleted or Redis is flushed.                                            *)
(***************************************************************************)
EXTENDS Integers, FiniteSets

CONSTANTS
    Team,      \* team IDs, none is given twice
    Name,      \* team names clients ask for
    Session,   \* session IDs, none is given twice
    Signer,    \* slots of POST /client/auth/signup
    Deleter,   \* slots of DELETE /debug/team/{teamId}
    Reader,    \* slots of GET /client/game/master-board
    None,
    Nameless,  \* a team hash that some command made without a name
    MaxDebug   \* bound on deletions and flushes, for TLC only

ASSUME RegistryAssumption ==
    /\ None \notin Team \cup Name /\ Nameless \notin Name \cup {None}
    /\ MaxDebug \in Nat

VARIABLES
    \* Redis
    names,     \* team_names_to_ids
    hash,      \* team:<id>, by its name field; None if the key is absent
    allTeams,  \* all_team_ids
    ranked,    \* members of the leaderboard
    solvers,   \* members of the master board's sets
    slots,     \* sessions in their teams' active_sessions sets
    playable,  \* stored sessions whose ID a client has, or will be told, and
               \* that can still be played or decrypted
    seeded,    \* the masterboard hash has its characters
    \* clients
    owner,     \* the team of a session; None while its ID is unused
    tokens,    \* teams that hold a JWT
    \* the requests: sessions, signup, delete, flush, master board
    todo,      \* commands a session's request, or its start, has still to do
    spc, sname, steam,
    dteam, dname, dtodo,
    dfound,    \* the sessions a deletion has read from the active set
    flushing,
    rpc,
    \* observation
    issued, deleted,
    haunted,   \* teams whose deletion left something that may write for them
    contested, \* names of teams that two deletions were at work on
    flushes, nullBoard

\* The next of the commands that are left, in the order of the source.
Due(order, left, e) == e \in left /\ \A f \in left : order[e] <= order[f]

registry == <<names, hash, allTeams>>
boards   == <<ranked, solvers>>
sessions == <<slots, playable>>
teamKeys == <<registry, boards, sessions>>
play     == <<owner, tokens, todo>>
signup   == <<spc, sname, steam>>
deletion == <<dteam, dname, dtodo, dfound>>
board    == <<seeded, flushing, rpc, flushes, nullBoard>>
ghosts   == <<issued, deleted, haunted, contested>>
vars     == <<teamKeys, play, signup, deletion, board, ghosts>>

-----------------------------------------------------------------------------
\* The service has started: the master board is seeded, there are no teams.
Init ==
    /\ names = [n \in Name |-> None]
    /\ hash = [t \in Team |-> None]
    /\ allTeams = {} /\ ranked = {} /\ solvers = {} /\ slots = {} /\ playable = {}
    /\ seeded = TRUE
    /\ owner = [s \in Session |-> None]
    /\ tokens = {}
    /\ todo = [s \in Session |-> {}]
    /\ spc = [p \in Signer |-> "idle"]
    /\ sname = [p \in Signer |-> None]
    /\ steam = [p \in Signer |-> None]
    /\ dteam = [d \in Deleter |-> None]
    /\ dname = [d \in Deleter |-> None]
    /\ dtodo = [d \in Deleter |-> {}]
    /\ dfound = [d \in Deleter |-> {}]
    /\ flushing = FALSE
    /\ rpc = [r \in Reader |-> "idle"]
    /\ issued = {} /\ deleted = {} /\ haunted = {} /\ contested = {}
    /\ flushes = 0 /\ nullBoard = FALSE

-----------------------------------------------------------------------------
(* POST /client/auth/signup *)

Signed(p, from, to) == spc[p] = from /\ spc' = [spc EXCEPT ![p] = to]

\* Mutant: the name is looked up first and set later.
RegisterByLookup(p) ==
    /\ Signed(p, "idle", "registered")
    /\ \E n \in Name, t \in Team \ issued :
          /\ names[n] = None
          /\ sname' = [sname EXCEPT ![p] = n]
          /\ steam' = [steam EXCEPT ![p] = t]
          /\ issued' = issued \cup {t}
    /\ UNCHANGED <<teamKeys, play, deletion, board, deleted, haunted, contested>>

\* HSETNX; the request is refused with 409 when the name is taken.
RegisterTeamName(p) ==
    /\ Signed(p, "idle", "registered")
    /\ \E n \in Name, t \in Team \ issued :
          /\ names[n] = None
          /\ names' = [names EXCEPT ![n] = t]
          /\ sname' = [sname EXCEPT ![p] = n]
          /\ steam' = [steam EXCEPT ![p] = t]
          /\ issued' = issued \cup {t}
    /\ UNCHANGED <<hash, allTeams, boards, sessions, play, deletion, board,
                   deleted, haunted, contested>>

\* WriteTeamData is a pipeline: HSET of the name, SADD, HSET of the team.
WriteName(p) ==
    /\ Signed(p, "registered", "named")
    /\ names' = [names EXCEPT ![sname[p]] = steam[p]]
    /\ UNCHANGED <<hash, allTeams, boards, sessions, play, sname, steam,
                   deletion, board, ghosts>>

WriteTeamID(p) ==
    /\ Signed(p, "named", "listed")
    /\ allTeams' = allTeams \cup {steam[p]}
    /\ UNCHANGED <<names, hash, boards, sessions, play, sname, steam, deletion,
                   board, ghosts>>

\* Mutant: the ID is stored in the name's field.
WriteHashWithID(p) ==
    /\ Signed(p, "listed", "idle")
    /\ hash' = [hash EXCEPT ![steam[p]] = steam[p]]
    /\ sname' = [sname EXCEPT ![p] = None]
    /\ steam' = [steam EXCEPT ![p] = None]
    /\ UNCHANGED <<names, allTeams, boards, sessions, play, deletion, board,
                   ghosts>>

WriteTeamHash(p) ==
    /\ Signed(p, "listed", "idle")
    /\ hash' = [hash EXCEPT ![steam[p]] = sname[p]]
    /\ sname' = [sname EXCEPT ![p] = None]
    /\ steam' = [steam EXCEPT ![p] = None]
    /\ UNCHANGED <<names, allTeams, boards, sessions, play, deletion, board,
                   ghosts>>

\* The request is cut off, or its WriteTeamData fails: the name stays taken.
SignupFails(p) ==
    /\ Signed(p, "registered", "idle")
    /\ sname' = [sname EXCEPT ![p] = None]
    /\ steam' = [steam EXCEPT ![p] = None]
    /\ UNCHANGED <<teamKeys, play, deletion, board, ghosts>>

-----------------------------------------------------------------------------
(* What a team's clients do: log in, reset, start sessions and play them *)

\* POST /client/auth/login; the token outlives the team.
Login(t) ==
    /\ t \notin tokens
    /\ hash[t] \in Name /\ names[hash[t]] = t
    /\ tokens' = tokens \cup {t}
    /\ UNCHANGED <<teamKeys, owner, todo, signup, deletion, board, ghosts>>

\* HSET and HINCRBY make the hash if it is not there.
Touched(t) == [hash EXCEPT ![t] = IF @ = None THEN Nameless ELSE @]

BeingDeleted(t) == \E d \in Deleter : dteam[d] = t

\* POST /client/team/reset clears active_session_id and does not ask whether the
\* team is there; the set of solved characters, which it deletes, is left out.
ResetTeamProgress(t) ==
    /\ t \in tokens
    /\ hash' = Touched(t)
    /\ haunted' = IF BeingDeleted(t) \/ t \in deleted THEN haunted \cup {t}
                                                      ELSE haunted
    /\ UNCHANGED <<names, allTeams, boards, sessions, play, signup, deletion,
                   board, issued, deleted, contested>>

\* The commands of session requests that touch a team's keys: a change of the
\* score, with or without a milestone; the SET of a record that is new, goes on
\* or is completed; SADD and SREM of the slot; the stats script; the HSET of
\* active_session_id; a milestone.
PlayOrder ==
    [score |-> 1, session |-> 2, save |-> 3, slot |-> 4, close |-> 5,
     stats |-> 6, point |-> 7, clear |-> 8, leave |-> 9, award |-> 10]

PlayCommands == DOMAIN PlayOrder

StartCommands == {"session", "slot", "point", "award"}

\* A question; a withheld guess or a chaos failure; a wrong guess, also one that
\* is decrypted; the last of them, or a reveal; a reveal that leaves a withheld
\* guess to be decrypted; a solve by guess; a solve by decryption.
Requests ==
    {{"save", "award"}, {"save"}, {"score", "save"},
     {"score", "close", "clear", "leave"},
     {"score", "save", "clear", "leave"},
     {"close", "stats", "clear", "leave", "award"},
     {"score", "close", "stats", "clear", "leave"}}

SlotsOf(t) == {s \in slots : owner[s] = t}

AtWork(t) == \E s \in Session : owner[s] = t /\ todo[s] # {}

Begin(s, t, commands) ==
    /\ todo' = [todo EXCEPT ![s] = commands]
    /\ haunted' = IF BeingDeleted(t) THEN haunted \cup {t} ELSE haunted
    /\ UNCHANGED <<teamKeys, tokens, signup, deletion, board, issued, deleted,
                   contested>>

\* The team must be there and have a slot left; anybody may name a team.
StartSession(s, t) ==
    /\ owner[s] = None /\ owner' = [owner EXCEPT ![s] = t]
    /\ Cardinality(SlotsOf(t)) < 2 /\ hash[t] # None
    /\ Begin(s, t, StartCommands)

\* The requests on one session come one after another.
Request(s) ==
    /\ s \in playable /\ todo[s] = {}
    /\ \E commands \in Requests : Begin(s, owner[s], commands)
    /\ UNCHANGED owner

PlayCommand(s, e) ==
    LET t == owner[s]
    IN  /\ Due(PlayOrder, todo[s], e)
        /\ todo' = [todo EXCEPT ![s] = @ \ {e}]
        /\ playable' = CASE e \in {"session", "save"} -> playable \cup {s}
                         [] e = "close"               -> playable \ {s}
                         [] OTHER                     -> playable
        /\ slots' = CASE e = "slot"  -> slots \cup {s}
                      [] e = "leave" -> slots \ {s}
                      [] OTHER       -> slots
        /\ hash' = IF e \in {"score", "stats", "point", "clear", "award"}
                     THEN Touched(t) ELSE hash
        /\ ranked' = IF e \in {"score", "stats", "award"} THEN ranked \cup {t}
                                                         ELSE ranked
        /\ solvers' = IF e = "stats" THEN solvers \cup {t} ELSE solvers
        /\ UNCHANGED <<names, allTeams, owner, tokens, signup, deletion, board,
                       ghosts>>

\* What a command that fails takes with it: a start that cannot store its session
\* or point at it answers 500, updateTeamStats returns when its script fails, and
\* any other error is only logged.
LostWith(s, e) ==
    CASE e \in {"session", "point"} -> todo[s]
      [] e = "stats"                -> {"stats", "clear", "leave"}
      [] OTHER                      -> {e}

\* A command fails, or the request is cut off with all it has left.  The ID of a
\* session whose start does not get past the pointer is told to nobody.
PlayFails(s) ==
    \E e \in PlayCommands :
        /\ Due(PlayOrder, todo[s], e)
        /\ \E lost \in {LostWith(s, e), todo[s]} :
              /\ todo' = [todo EXCEPT ![s] = @ \ lost]
              /\ playable' = IF "point" \in lost THEN playable \ {s} ELSE playable
        /\ UNCHANGED <<registry, boards, slots, owner, tokens, signup, deletion,
                       board, ghosts>>

\* The active set and the session's record live 24 hours from their last SADD and
\* SET.  One that ends during a request might as well have ended before or after.
SlotsExpire(t) ==
    /\ SlotsOf(t) # {} /\ ~AtWork(t)
    /\ slots' = slots \ SlotsOf(t)
    /\ UNCHANGED <<registry, boards, playable, play, signup, deletion, board,
                   ghosts>>

SessionExpires(s) ==
    /\ s \in playable /\ todo[s] = {}
    /\ playable' = playable \ {s}
    /\ UNCHANGED <<registry, boards, slots, play, signup, deletion, board, ghosts>>

\* Bound, for TLC only, on what organisers do: deletions at work, teams deleted
\* and flushes.
DebugLeft ==
    Cardinality({d \in Deleter : dteam[d] # None}) + Cardinality(deleted) + flushes
        < MaxDebug

-----------------------------------------------------------------------------
(* DELETE /debug/team/{teamId} *)

\* Mutant: the leaderboard entry is forgotten.
DeleteWithoutRank ==
    [hash |-> 1, name |-> 2, id |-> 3, slots |-> 4, solvers |-> 6, sessions |-> 7]

DeleteOrder ==
    [hash |-> 1, name |-> 2, id |-> 3, slots |-> 4, ranked |-> 5, solvers |-> 6,
     sessions |-> 7]

DeleteCommands == DOMAIN DeleteOrder

\* Phase 1; a team without a name is answered 404.  A session that is playable
\* and has no slot is not found.
Discover(d) ==
    /\ dteam[d] = None /\ DebugLeft
    /\ \E t \in Team :
          /\ hash[t] \in Name
          /\ dteam' = [dteam EXCEPT ![d] = t]
          /\ dname' = [dname EXCEPT ![d] = hash[t]]
          /\ dfound' = [dfound EXCEPT ![d] = SlotsOf(t)]
          /\ dtodo' = [dtodo EXCEPT ![d] = DeleteCommands]
          /\ haunted' = IF AtWork(t) \/ \E s \in playable \ slots : owner[s] = t
                          THEN haunted \cup {t} ELSE haunted
          /\ contested' = IF BeingDeleted(t) THEN contested \cup {hash[t]}
                                             ELSE contested
    /\ UNCHANGED <<teamKeys, play, signup, board, issued, deleted>>

\* Phase 2, one pipeline.
DeleteCommand(d, e) ==
    LET t == dteam[d]
        Without(S, f) == IF e = f THEN S \ {t} ELSE S
    IN  /\ Due(DeleteOrder, dtodo[d], e)
        /\ dtodo' = [dtodo EXCEPT ![d] = @ \ {e}]
        /\ hash' = IF e = "hash" THEN [hash EXCEPT ![t] = None] ELSE hash
        /\ names' = IF e = "name" THEN [names EXCEPT ![dname[d]] = None]
                                  ELSE names
        /\ allTeams' = Without(allTeams, "id")
        /\ slots' = IF e = "slots" THEN slots \ SlotsOf(t) ELSE slots
        /\ ranked' = Without(ranked, "ranked")
        /\ solvers' = Without(solvers, "solvers")
        /\ playable' = IF e = "sessions" THEN playable \ dfound[d] ELSE playable
        /\ UNCHANGED <<play, signup, dteam, dname, dfound, board, ghosts>>

DeleteDone(d) ==
    /\ dteam[d] # None /\ dtodo[d] = {}
    /\ deleted' = deleted \cup {dteam[d]}
    /\ dteam' = [dteam EXCEPT ![d] = None]
    /\ dname' = [dname EXCEPT ![d] = None]
    /\ dfound' = [dfound EXCEPT ![d] = {}]
    /\ UNCHANGED <<teamKeys, play, signup, dtodo, board, issued, haunted,
                   contested>>

-----------------------------------------------------------------------------
(* POST /debug/flush and GET /client/game/master-board *)

FlushDB ==
    /\ ~flushing /\ DebugLeft
    /\ flushing' = TRUE /\ flushes' = flushes + 1
    /\ names' = [n \in Name |-> None]
    /\ hash' = [t \in Team |-> None]
    /\ allTeams' = {} /\ ranked' = {} /\ solvers' = {} /\ slots' = {}
    /\ playable' = {} /\ seeded' = FALSE
    /\ UNCHANGED <<play, signup, deletion, rpc, nullBoard, ghosts>>

Reseed ==
    /\ flushing
    /\ flushing' = FALSE
    /\ seeded' = TRUE
    /\ UNCHANGED <<teamKeys, play, signup, deletion, rpc, flushes, nullBoard,
                   ghosts>>

Answer(r, null) ==
    /\ rpc' = [rpc EXCEPT ![r] = "idle"]
    /\ nullBoard' = (nullBoard \/ null)

\* Mutant: no self-healing.
KeysOnce(r) ==
    /\ rpc[r] = "idle"
    /\ Answer(r, ~seeded)
    /\ UNCHANGED <<teamKeys, play, signup, deletion, seeded, flushing, flushes,
                   ghosts>>

\* HKEYS: an empty master board is seeded and read once more.
ReadKeys(r) ==
    /\ rpc[r] = "idle"
    /\ IF seeded THEN Answer(r, FALSE)
                 ELSE rpc' = [rpc EXCEPT ![r] = "heal"] /\ UNCHANGED nullBoard
    /\ UNCHANGED <<teamKeys, play, signup, deletion, seeded, flushing, flushes,
                   ghosts>>

Heal(r) ==
    /\ rpc[r] = "heal"
    /\ rpc' = [rpc EXCEPT ![r] = "reread"]
    /\ seeded' = TRUE
    /\ UNCHANGED <<teamKeys, play, signup, deletion, flushing, flushes, nullBoard,
                   ghosts>>

ReadKeysAgain(r) ==
    /\ rpc[r] = "reread"
    /\ Answer(r, ~seeded)
    /\ UNCHANGED <<teamKeys, play, signup, deletion, seeded, flushing, flushes,
                   ghosts>>

-----------------------------------------------------------------------------
Next ==
    \/ \E p \in Signer : \/ RegisterTeamName(p) \/ WriteName(p)
                         \/ WriteTeamID(p) \/ WriteTeamHash(p) \/ SignupFails(p)
    \/ \E t \in Team : \/ Login(t) \/ ResetTeamProgress(t) \/ SlotsExpire(t)
                       \/ \E s \in Session : StartSession(s, t)
    \/ \E s \in Session : \/ Request(s) \/ PlayFails(s) \/ SessionExpires(s)
                          \/ \E e \in PlayCommands : PlayCommand(s, e)
    \/ \E d \in Deleter : \/ Discover(d) \/ DeleteDone(d)
                          \/ \E e \in DeleteCommands : DeleteCommand(d, e)
    \/ FlushDB \/ Reseed
    \/ \E r \in Reader : ReadKeys(r) \/ Heal(r) \/ ReadKeysAgain(r)

Spec == Init /\ [][Next]_vars

-----------------------------------------------------------------------------
\* Type invariant.
TypeOK ==
    /\ names \in [Name -> Team \cup {None}]
    /\ hash \in [Team -> Name \cup {None, Nameless}]
    /\ allTeams \subseteq Team /\ ranked \subseteq Team /\ solvers \subseteq Team
    /\ slots \subseteq Session /\ playable \subseteq Session
    /\ seeded \in BOOLEAN
    /\ owner \in [Session -> Team \cup {None}]
    /\ tokens \subseteq Team
    /\ todo \in [Session -> SUBSET PlayCommands]
    /\ spc \in [Signer -> {"idle", "registered", "named", "listed"}]
    /\ sname \in [Signer -> Name \cup {None}]
    /\ steam \in [Signer -> Team \cup {None}]
    /\ dteam \in [Deleter -> Team \cup {None}]
    /\ dname \in [Deleter -> Name \cup {None}]
    /\ dtodo \in [Deleter -> SUBSET DeleteCommands]
    /\ dfound \in [Deleter -> SUBSET Session]
    /\ flushing \in BOOLEAN
    /\ rpc \in [Reader -> {"idle", "heal", "reread"}]
    /\ issued \subseteq Team /\ deleted \subseteq Team /\ haunted \subseteq Team
    /\ contested \subseteq Name
    /\ flushes \in Nat /\ nullBoard \in BOOLEAN

\* A team that is there owns its name, so it can log in and no second team has
\* that name: signups race with each other, with deletions and with late
\* session requests, and may fail half-way; nobody flushes.  Only a name whose
\* team two deletions were at work on at once may be lost to a later owner.
NameOwned ==
    flushes = 0 =>
        \A t \in Team :
            hash[t] \in Name \ contested /\ (\A d \in Deleter : dteam[d] # t)
               => names[hash[t]] = t

\* Nobody can log in as the team, and it is not listed.
LoggedOut(t) ==
    /\ hash[t] \notin Name /\ t \notin allTeams
    /\ \A n \in Name : names[n] # t

\* Nothing is left that play, scores or boards would show.
Forgotten(t) ==
    /\ hash[t] = None /\ t \notin allTeams \cup ranked \cup solvers
    /\ \A s \in slots \cup playable : owner[s] # t

\* Nobody logs in as a deleted team again and it is never listed again, whatever
\* is still at work for it: late requests, resets, other deletions, flushes,
\* faults.  It also leaves nothing behind and cannot play again, unless one of
\* its requests was at work during the deletion, a session of it was playable
\* without a slot then, or a reset came with its token later: in these three ways
\* the code brings a deleted team back.
DeletedForGood ==
    \A t \in deleted : LoggedOut(t) /\ (t \notin haunted => Forgotten(t))

\* The master board is never answered empty, although a flush wipes it and
\* seeds it again in two steps, while readers heal it (at most one flush).
BoardNeverNull == flushes <= 1 => ~nullBoard
=============================================================================
