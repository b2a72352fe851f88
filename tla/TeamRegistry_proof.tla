-------------------------- MODULE TeamRegistry_proof --------------------------
(***************************************************************************)
(* What TeamRegistry promises, for every set of teams, names, signups,     *)
(* deletions and readers and any number of flushes:                        *)
(*   RegistryTypeCorrect  type correctness;                                *)
(*   NamesAreOwned        a team that is there owns its name;              *)
(*   DeletionIsForGood    a deleted team is never listed or logged in as   *)
(*                        again, and when it can come back;                *)
(*   BoardIsNeverNull     a self-healing reader never answers null.        *)
(* The middle two rest on FreshInv: nobody but its own signup knows a team *)
(* before its hash is written.                                             *)
(***************************************************************************)
EXTENDS TeamRegistry, TLAPS

LEMMA DeletionInOrder ==
    /\ DeleteCommands =
         {"hash", "name", "id", "slots", "ranked", "solvers", "sessions"}
    /\ \A left \in SUBSET DeleteCommands :
         Due(DeleteOrder, left, "name") => "hash" \notin left
  BY DEF DeleteCommands, DeleteOrder, Due

LEMMA PlayNames ==
    /\ PlayCommands = {"score", "session", "save", "slot", "close", "stats",
                       "point", "clear", "leave", "award"}
    /\ StartCommands \in SUBSET PlayCommands
    /\ \A commands \in Requests : commands \in SUBSET PlayCommands
  BY DEF PlayCommands, PlayOrder, StartCommands, Requests

\* The steps of one request.
SignupStep(p) ==
    \/ RegisterTeamName(p) \/ WriteName(p) \/ WriteTeamID(p)
    \/ WriteTeamHash(p) \/ SignupFails(p)

TeamStep(t) ==
    Login(t) \/ ResetTeamProgress(t) \/ SlotsExpire(t)

SessionStep(s) ==
    \/ \E t \in Team : StartSession(s, t)
    \/ Request(s) \/ PlayFails(s) \/ SessionExpires(s)
    \/ \E e \in PlayCommands : PlayCommand(s, e)

DeleteStep(d) ==
    Discover(d) \/ DeleteDone(d) \/ \E e \in DeleteCommands : DeleteCommand(d, e)

ReadStep(r) == ReadKeys(r) \/ Heal(r) \/ ReadKeysAgain(r)

LEMMA StepKinds ==
    ASSUME [Next]_vars
    PROVE  \/ \E p \in Signer : SignupStep(p)
           \/ \E t \in Team : TeamStep(t)
           \/ \E s \in Session : SessionStep(s)
           \/ \E d \in Deleter : DeleteStep(d)
           \/ FlushDB \/ Reseed
           \/ \E r \in Reader : ReadStep(r)
           \/ UNCHANGED vars
  BY DEF Next, SignupStep, TeamStep, SessionStep, DeleteStep, ReadStep

-----------------------------------------------------------------------------
(* Type correctness *)

\* A signup at work has its name and its team, a deletion at work its team's name,
\* and an unused session ID nothing.
Typed ==
    /\ TypeOK
    /\ \A p \in Signer : spc[p] # "idle" => sname[p] \in Name /\ steam[p] \in Team
    /\ \A d \in Deleter : IF dteam[d] = None THEN dtodo[d] = {}
                                             ELSE dname[d] \in Name
    /\ \A s \in Session :
          owner[s] = None => todo[s] = {} /\ s \notin slots \cup playable

LEMMA TypedInit == Init => Typed
<1>1. SUFFICES ASSUME Init PROVE Typed
  OBVIOUS
<1>2. TypeOK
  <2>1. /\ names \in [Name -> Team \cup {None}]
        /\ hash \in [Team -> Name \cup {None, Nameless}]
    BY <1>1 DEF Init
  <2>2. /\ spc \in [Signer -> {"idle", "registered", "named", "listed"}]
        /\ sname \in [Signer -> Name \cup {None}]
        /\ steam \in [Signer -> Team \cup {None}]
    BY <1>1 DEF Init
  <2>3. /\ dteam \in [Deleter -> Team \cup {None}]
        /\ dname \in [Deleter -> Name \cup {None}]
        /\ dtodo \in [Deleter -> SUBSET DeleteCommands]
        /\ dfound \in [Deleter -> SUBSET Session]
    BY <1>1 DEF Init
  <2>4. /\ rpc \in [Reader -> {"idle", "heal", "reread"}]
        /\ owner \in [Session -> Team \cup {None}]
        /\ todo \in [Session -> SUBSET PlayCommands]
    BY <1>1 DEF Init
  <2>5. QED
    BY <1>1, <2>1, <2>2, <2>3, <2>4 DEF Init, TypeOK
<1>3. QED
  BY <1>1, <1>2 DEF Typed, Init

LEMMA TypedSignup ==
    ASSUME Typed, NEW p \in Signer, SignupStep(p)
    PROVE  Typed'
<1>1. CASE RegisterTeamName(p)
  BY <1>1 DEF Typed, TypeOK, RegisterTeamName, Signed, boards, sessions, play,
              deletion, board
<1>2. CASE WriteName(p)
  BY <1>2 DEF Typed, TypeOK, WriteName, Signed, boards, sessions, play,
              deletion, board, ghosts
<1>3. CASE WriteTeamID(p)
  BY <1>3 DEF Typed, TypeOK, WriteTeamID, Signed, boards, sessions, play,
              deletion, board, ghosts
<1>4. CASE WriteTeamHash(p)
  BY <1>4 DEF Typed, TypeOK, WriteTeamHash, Signed, boards, sessions, play,
              deletion, board, ghosts
<1>5. CASE SignupFails(p)
  BY <1>5 DEF Typed, TypeOK, SignupFails, Signed, teamKeys, registry, boards,
              sessions, play, deletion, board, ghosts
<1>6. QED
  BY <1>1, <1>2, <1>3, <1>4, <1>5 DEF SignupStep

LEMMA TypedTeam ==
    ASSUME Typed, NEW t \in Team, TeamStep(t)
    PROVE  Typed'
<1>1. CASE Login(t)
  BY <1>1 DEF Typed, TypeOK, Login, teamKeys, registry, boards, sessions, signup,
              deletion, board, ghosts
<1>2. CASE ResetTeamProgress(t)
  <2>1. hash' \in [Team -> Name \cup {None, Nameless}] /\ haunted' \subseteq Team
    BY <1>2 DEF Typed, TypeOK, ResetTeamProgress, Touched
  <2>2. QED
    BY <1>2, <2>1 DEF Typed, TypeOK, ResetTeamProgress, boards, sessions, play,
                      signup, deletion, board
<1>3. CASE SlotsExpire(t)
  BY <1>3 DEF Typed, TypeOK, SlotsExpire, registry, boards, play, signup,
              deletion, board, ghosts
<1>4. QED
  BY <1>1, <1>2, <1>3 DEF TeamStep

LEMMA TypedBegin ==
    ASSUME Typed, NEW s \in Session, NEW t \in Team, NEW commands,
           Begin(s, t, commands), commands \in SUBSET PlayCommands,
           owner' \in [Session -> Team \cup {None}], owner'[s] # None,
           \A r \in Session : owner'[r] = None => owner[r] = None
    PROVE  Typed'
<1>1. todo' \in [Session -> SUBSET PlayCommands] /\ haunted' \subseteq Team
  BY DEF Typed, TypeOK, Begin
<1>2. \A r \in Session : owner'[r] = None => r # s /\ todo'[r] = todo[r]
  BY DEF Typed, TypeOK, Begin
<1>3. QED
  BY <1>1, <1>2 DEF Typed, TypeOK, Begin, teamKeys, registry, boards, sessions,
                    signup, deletion, board

LEMMA TypedSession ==
    ASSUME Typed, NEW s \in Session, SessionStep(s)
    PROVE  Typed'
<1>1. CASE \E t \in Team : StartSession(s, t)
  <2>1. PICK t \in Team : StartSession(s, t)
    BY <1>1
  <2>2. /\ owner' \in [Session -> Team \cup {None}] /\ owner'[s] # None
        /\ \A r \in Session : owner'[r] = None => owner[r] = None
    BY <2>1, RegistryAssumption DEF Typed, TypeOK, StartSession
  <2>3. Begin(s, t, StartCommands)
    BY <2>1 DEF StartSession
  <2>4. QED
    BY <2>2, <2>3, TypedBegin, PlayNames
<1>2. CASE Request(s)
  <2>1. PICK commands \in Requests : Begin(s, owner[s], commands)
    BY <1>2 DEF Request
  <2>2. owner[s] \in Team /\ owner[s] # None /\ owner' = owner
    BY <1>2, RegistryAssumption DEF Typed, TypeOK, Request
  <2>3. owner' \in [Session -> Team \cup {None}]
    BY <2>2 DEF Typed, TypeOK
  <2>4. QED
    BY <2>1, <2>2, <2>3, TypedBegin, PlayNames
<1>3. CASE PlayFails(s)
  BY <1>3 DEF Typed, TypeOK, PlayFails, Due, registry, boards, signup,
              deletion, board, ghosts
<1>4. CASE SessionExpires(s)
  BY <1>4 DEF Typed, TypeOK, SessionExpires, registry, boards, play, signup,
              deletion, board, ghosts
<1>5. CASE \E e \in PlayCommands : PlayCommand(s, e)
  <2>1. PICK e \in PlayCommands : PlayCommand(s, e)
    BY <1>5
  <2>2. owner[s] \in Team /\ owner[s] # None
    BY <2>1, RegistryAssumption DEF Typed, TypeOK, PlayCommand, Due
  <2>3. /\ todo' \in [Session -> SUBSET PlayCommands]
        /\ hash' \in [Team -> Name \cup {None, Nameless}]
        /\ ranked' \subseteq Team /\ solvers' \subseteq Team
        /\ slots' \in {slots, slots \cup {s}, slots \ {s}}
        /\ playable' \in {playable, playable \cup {s}, playable \ {s}}
    BY <2>1, <2>2 DEF Typed, TypeOK, PlayCommand, Touched
  <2>4. \A r \in Session : owner[r] = None =>
           todo'[r] = {} /\ r \notin slots' \cup playable'
    BY <2>1, <2>2, <2>3 DEF Typed, TypeOK, PlayCommand
  <2>5. QED
    BY <2>1, <2>3, <2>4 DEF Typed, TypeOK, PlayCommand, signup, deletion, board,
                            ghosts
<1>6. QED
  BY <1>1, <1>2, <1>3, <1>4, <1>5 DEF SessionStep

LEMMA TypedDelete ==
    ASSUME Typed, NEW d \in Deleter, DeleteStep(d)
    PROVE  Typed'
<1>1. CASE Discover(d)
  <2>1. PICK t \in Team :
           /\ hash[t] \in Name
           /\ dteam' = [dteam EXCEPT ![d] = t]
           /\ dname' = [dname EXCEPT ![d] = hash[t]]
           /\ dfound' = [dfound EXCEPT ![d] = SlotsOf(t)]
           /\ dtodo' = [dtodo EXCEPT ![d] = DeleteCommands]
           /\ haunted' \in {haunted, haunted \cup {t}}
           /\ contested' \in {contested, contested \cup {hash[t]}}
    BY <1>1 DEF Discover
  <2>2. /\ dteam' \in [Deleter -> Team \cup {None}]
        /\ dname' \in [Deleter -> Name \cup {None}]
        /\ dtodo' \in [Deleter -> SUBSET DeleteCommands]
        /\ dfound' \in [Deleter -> SUBSET Session]
        /\ haunted' \subseteq Team /\ contested' \subseteq Name
    BY <2>1 DEF Typed, TypeOK, SlotsOf
  <2>3. ASSUME NEW f \in Deleter
        PROVE  IF dteam'[f] = None THEN dtodo'[f] = {} ELSE dname'[f] \in Name
    BY <2>1, RegistryAssumption DEF Typed, TypeOK
  <2>4. QED
    BY <1>1, <2>2, <2>3 DEF Typed, TypeOK, Discover, teamKeys, registry, boards,
                            sessions, play, signup, board
<1>2. CASE \E e \in DeleteCommands : DeleteCommand(d, e)
  <2>0. PICK e \in DeleteCommands : DeleteCommand(d, e)
    BY <1>2
  <2>1. dteam[d] \in Team /\ dname[d] \in Name
    BY <2>0 DEF Typed, TypeOK, DeleteCommand, Due
  <2>2. /\ hash' \in [Team -> Name \cup {None, Nameless}]
        /\ names' \in [Name -> Team \cup {None}]
        /\ dtodo' \in [Deleter -> SUBSET DeleteCommands]
    BY <2>0, <2>1 DEF Typed, TypeOK, DeleteCommand
  <2>3. /\ allTeams' \subseteq Team /\ ranked' \subseteq Team
        /\ solvers' \subseteq Team
        /\ slots' \subseteq slots /\ playable' \subseteq playable
    BY <2>0 DEF Typed, TypeOK, DeleteCommand
  <2>4. ASSUME NEW f \in Deleter
        PROVE  IF dteam'[f] = None THEN dtodo'[f] = {} ELSE dname'[f] \in Name
    BY <2>0, <2>1, RegistryAssumption DEF Typed, TypeOK, DeleteCommand
  <2>5. QED
    BY <2>0, <2>2, <2>3, <2>4
       DEF Typed, TypeOK, DeleteCommand, play, signup, board, ghosts
<1>3. CASE DeleteDone(d)
  BY <1>3 DEF Typed, TypeOK, DeleteDone, teamKeys, registry, boards, sessions,
              play, signup, board
<1>4. QED
  BY <1>1, <1>2, <1>3 DEF DeleteStep

LEMMA TypedFlush ==
    ASSUME Typed, FlushDB \/ Reseed
    PROVE  Typed'
<1>1. CASE FlushDB
  <2>1. /\ names' \in [Name -> Team \cup {None}]
        /\ hash' \in [Team -> Name \cup {None, Nameless}]
        /\ flushes' \in Nat
    BY <1>1 DEF Typed, TypeOK, FlushDB
  <2>2. QED
    BY <1>1, <2>1 DEF Typed, TypeOK, FlushDB, play, signup, deletion, ghosts
<1>2. CASE Reseed
  BY <1>2 DEF Typed, TypeOK, Reseed, teamKeys, registry, boards, sessions, play,
              signup, deletion, ghosts
<1>3. QED
  BY <1>1, <1>2

LEMMA TypedRead ==
    ASSUME Typed, NEW r \in Reader, ReadStep(r)
    PROVE  Typed'
<1>1. nullBoard' \in BOOLEAN /\ rpc' \in [Reader -> {"idle", "heal", "reread"}]
  BY DEF Typed, TypeOK, ReadStep, ReadKeys, Heal, ReadKeysAgain, Answer
<1>2. /\ UNCHANGED <<teamKeys, play, signup, deletion, flushing, flushes, ghosts>>
      /\ seeded' \in BOOLEAN
  BY DEF Typed, TypeOK, ReadStep, ReadKeys, Heal, ReadKeysAgain
<1>3. QED
  BY <1>1, <1>2 DEF Typed, TypeOK, teamKeys, registry, boards, sessions, play,
                    signup, deletion, ghosts

LEMMA TypedStep ==
    ASSUME Typed, [Next]_vars
    PROVE  Typed'
<1>1. CASE UNCHANGED vars
  BY <1>1 DEF Typed, TypeOK, vars, teamKeys, registry, boards, sessions, play,
              signup, deletion, board, ghosts
<1>2. QED
  BY <1>1, TypedSignup, TypedTeam, TypedSession, TypedDelete, TypedFlush,
     TypedRead, StepKinds

LEMMA AlwaysTyped == Spec => []Typed
  BY TypedInit, TypedStep, PTL DEF Spec

\* Every command of a signup, a deletion, a flush, a read of the master board, a
\* reset and play keeps the declared types, however they interleave and fail.
THEOREM RegistryTypeCorrect == Spec => []TypeOK
<1>1. Typed => TypeOK
  BY DEF Typed
<1>2. QED
  BY <1>1, AlwaysTyped, PTL

-----------------------------------------------------------------------------
(* Clients' steps change of the registry only hashes, and give none a name *)

PlayStep ==
    \/ \E t \in Team : TeamStep(t)
    \/ \E s \in Session : SessionStep(s)

LEMMA PlayFrame ==
    ASSUME Typed, PlayStep
    PROVE  /\ names' = names /\ allTeams' = allTeams
           /\ UNCHANGED <<signup, deletion, board, issued, deleted, contested>>
           /\ \A t \in Team : hash'[t] \in {hash[t], Nameless}
<1>1. CASE \E t \in Team : TeamStep(t)
  BY <1>1 DEF TeamStep, Login, ResetTeamProgress, SlotsExpire, Touched, teamKeys,
              registry, ghosts, Typed, TypeOK
<1>2. CASE \E s \in Session : SessionStep(s)
  <2>1. PICK s \in Session : SessionStep(s)
    BY <1>2
  <2>2. CASE (\E t \in Team : StartSession(s, t)) \/ Request(s)
    BY <2>2 DEF StartSession, Request, Begin, teamKeys, registry
  <2>3. CASE PlayFails(s) \/ SessionExpires(s)
    BY <2>3 DEF PlayFails, SessionExpires, registry, ghosts
  <2>4. CASE \E e \in PlayCommands : PlayCommand(s, e)
    BY <2>4 DEF PlayCommand, Touched, ghosts, Typed, TypeOK
  <2>5. QED
    BY <2>1, <2>2, <2>3, <2>4 DEF SessionStep
<1>3. QED
  BY <1>1, <1>2 DEF PlayStep

-----------------------------------------------------------------------------
(* Nobody but its signup knows a team before its hash is written *)

Fresh(t) ==
    /\ hash[t] = None /\ t \notin deleted \cup tokens
    /\ \A s \in Session : owner[s] # t
    /\ \A d \in Deleter : dteam[d] # t

SigningUp(p) == spc[p] # "idle"

FreshInv ==
    /\ Typed
    /\ \A t \in Team \ issued : Fresh(t)
    /\ \A p \in Signer : SigningUp(p) => steam[p] \in issued /\ Fresh(steam[p])
    /\ \A p, q \in Signer :
          p # q /\ SigningUp(p) /\ SigningUp(q) => steam[p] # steam[q]

LEMMA FreshInit == Init => FreshInv
  BY TypedInit, RegistryAssumption DEF Init, FreshInv, Fresh, SigningUp

\* A signup issues its team, and only then makes it known.
LEMMA FreshSignup ==
    ASSUME FreshInv, NEW p \in Signer, SignupStep(p)
    PROVE  FreshInv'
<1>0. Typed'
  BY TypedSignup DEF FreshInv
<1>1. CASE RegisterTeamName(p)
  BY <1>0, <1>1 DEF FreshInv, Fresh, SigningUp, Typed, TypeOK, RegisterTeamName,
                    Signed, play, deletion
<1>2. CASE WriteName(p)
  BY <1>0, <1>2 DEF FreshInv, Fresh, SigningUp, Typed, TypeOK, WriteName,
                    Signed, play, deletion, ghosts
<1>3. CASE WriteTeamID(p)
  BY <1>0, <1>3 DEF FreshInv, Fresh, SigningUp, Typed, TypeOK, WriteTeamID,
                    Signed, play, deletion, ghosts
<1>4. CASE WriteTeamHash(p)
  BY <1>0, <1>4 DEF FreshInv, Fresh, SigningUp, Typed, TypeOK, WriteTeamHash,
                    Signed, play, deletion, ghosts
<1>5. CASE SignupFails(p)
  BY <1>0, <1>5 DEF FreshInv, Fresh, SigningUp, Typed, TypeOK, SignupFails,
                    Signed, teamKeys, registry, play, deletion, ghosts
<1>6. QED
  BY <1>1, <1>2, <1>3, <1>4, <1>5 DEF SignupStep

\* A client can name a team only after its hash is written.
LEMMA FreshStays ==
    ASSUME Typed, PlayStep, NEW u \in Team, Fresh(u)
    PROVE  Fresh(u)'
<1>1. deletion' = deletion /\ deleted' = deleted
  BY PlayFrame
<1>2. CASE \E t \in Team : TeamStep(t)
  <2>1. PICK t \in Team : TeamStep(t)
    BY <1>2
  <2>2. owner' = owner /\ u \notin tokens' /\ hash'[u] = hash[u]
    BY <2>1, RegistryAssumption
       DEF TeamStep, Login, ResetTeamProgress, SlotsExpire, Touched, teamKeys,
           registry, play, Fresh, Typed, TypeOK
  <2>3. QED
    BY <1>1, <2>2 DEF Fresh, deletion
<1>3. CASE \E s \in Session : SessionStep(s)
  <2>1. PICK s \in Session : SessionStep(s)
    BY <1>3
  <2>2. CASE \E t \in Team : StartSession(s, t)
    BY <1>1, <2>2 DEF StartSession, Begin, teamKeys, registry, deletion, Fresh,
                      Typed, TypeOK
  <2>3. CASE Request(s)
    BY <1>1, <2>3 DEF Request, Begin, teamKeys, registry, deletion, Fresh
  <2>4. CASE PlayFails(s) \/ SessionExpires(s)
    BY <1>1, <2>4 DEF PlayFails, SessionExpires, registry, play, deletion, Fresh
  <2>5. CASE \E e \in PlayCommands : PlayCommand(s, e)
    BY <1>1, <2>5 DEF PlayCommand, Touched, deletion, Fresh, Typed, TypeOK
  <2>6. QED
    BY <2>1, <2>2, <2>3, <2>4, <2>5 DEF SessionStep
<1>4. QED
  BY <1>2, <1>3 DEF PlayStep

LEMMA FreshPlay ==
    ASSUME FreshInv, PlayStep
    PROVE  FreshInv'
<1>1. Typed'
  BY TypedTeam, TypedSession DEF FreshInv, PlayStep
<1>2. signup' = signup /\ issued' = issued
  BY PlayFrame DEF FreshInv
<1>3. \A p \in Signer : SigningUp(p)' <=> SigningUp(p)
  BY <1>2 DEF SigningUp, signup
<1>4. QED
  BY <1>1, <1>2, <1>3, FreshStays DEF FreshInv, SigningUp, signup, Typed

LEMMA FreshDelete ==
    ASSUME FreshInv, NEW d \in Deleter, DeleteStep(d)
    PROVE  FreshInv'
<1>0. Typed'
  BY TypedDelete DEF FreshInv
<1>1. signup' = signup /\ issued' = issued
  BY DEF DeleteStep, Discover, DeleteCommand, DeleteDone, ghosts
<1>2. ASSUME NEW u \in Team, Fresh(u)
      PROVE  Fresh(u)'
  <2>1. CASE Discover(d)
    BY <1>2, <2>1, RegistryAssumption
       DEF Fresh, Discover, teamKeys, registry, play, FreshInv, Typed, TypeOK
  <2>2. CASE DeleteDone(d)
    BY <1>2, <2>2, RegistryAssumption
       DEF Fresh, DeleteDone, teamKeys, registry, play, FreshInv, Typed, TypeOK
  <2>3. CASE \E e \in DeleteCommands : DeleteCommand(d, e)
    BY <1>2, <2>3 DEF Fresh, DeleteCommand, play, ghosts, FreshInv, Typed, TypeOK
  <2>4. QED
    BY <2>1, <2>2, <2>3 DEF DeleteStep
<1>3. \A p \in Signer : SigningUp(p)' <=> SigningUp(p)
  BY <1>1 DEF SigningUp, signup
<1>4. QED
  BY <1>0, <1>1, <1>2, <1>3 DEF FreshInv, Fresh, SigningUp, signup, Typed

LEMMA FreshStep ==
    ASSUME FreshInv, [Next]_vars
    PROVE  FreshInv'
<1>0. Typed'
  BY TypedStep DEF FreshInv
<1>1. CASE FlushDB
  BY <1>0, <1>1 DEF FreshInv, Fresh, SigningUp, FlushDB, play, signup, deletion,
                    ghosts, Typed
<1>2. CASE Reseed \/ (\E r \in Reader : ReadStep(r)) \/ UNCHANGED vars
  <2>1. UNCHANGED <<teamKeys, play, signup, deletion, ghosts>>
    BY <1>2 DEF Reseed, ReadStep, ReadKeys, Heal, ReadKeysAgain, vars
  <2>2. QED
    BY <1>0, <2>1 DEF FreshInv, Fresh, SigningUp, teamKeys, registry, play, signup,
                      deletion, ghosts
<1>3. QED
  BY <1>1, <1>2, FreshSignup, FreshPlay, FreshDelete, StepKinds DEF PlayStep

LEMMA AlwaysFresh == Spec => []FreshInv
  BY FreshInit, FreshStep, PTL DEF Spec

-----------------------------------------------------------------------------
(* A team that is there owns its name *)

SignupsOwn ==
    \A p \in Signer :
        SigningUp(p) /\ sname[p] \notin contested => names[sname[p]] = steam[p]

\* The name is given up after the hash that carries it.
DeletionsOwn ==
    \A d \in Deleter : dteam[d] # None =>
        /\ "name" \in dtodo[d] /\ dname[d] \notin contested
              => names[dname[d]] = dteam[d]
        /\ hash[dteam[d]] \in Name => "hash" \in dtodo[d] /\ hash[dteam[d]] = dname[d]
        /\ "hash" \in dtodo[d] => "name" \in dtodo[d]

\* Two deletions of a team were both begun when it had its name.
DeletionsMeet ==
    \A d, e \in Deleter :
        d # e /\ dteam[d] # None /\ dteam[d] = dteam[e] => dname[d] \in contested

TeamsOwn ==
    \A t \in Team :
        hash[t] \in Name \ contested /\ (\A d \in Deleter : dteam[d] # t)
           => names[hash[t]] = t

NameInv ==
    flushes = 0 => SignupsOwn /\ DeletionsOwn /\ DeletionsMeet /\ TeamsOwn

LEMMA NameInit == Init => NameInv
  BY RegistryAssumption
     DEF Init, NameInv, SignupsOwn, DeletionsOwn, DeletionsMeet, TeamsOwn, SigningUp

LEMMA NameSignup ==
    ASSUME FreshInv, NameInv, NEW p \in Signer, SignupStep(p)
    PROVE  NameInv'
<1>0. /\ deletion' = deletion /\ contested' = contested /\ flushes' = flushes
      /\ flushes = 0 => DeletionsMeet'
  BY DEF SignupStep, RegisterTeamName, WriteName, WriteTeamID, WriteTeamHash,
         SignupFails, NameInv, DeletionsMeet, deletion, board, ghosts
<1>1. CASE RegisterTeamName(p)
  <2>1. PICK n \in Name, t \in Team \ issued :
           /\ names[n] = None
           /\ names' = [names EXCEPT ![n] = t]
           /\ sname' = [sname EXCEPT ![p] = n]
           /\ steam' = [steam EXCEPT ![p] = t]
    BY <1>1 DEF RegisterTeamName
  <2>2. \A m \in Name : names[m] # None => names'[m] = names[m]
    BY <2>1 DEF FreshInv, Typed, TypeOK
  <2>3. flushes = 0 => SignupsOwn'
    BY <1>0, <1>1, <2>1, <2>2, RegistryAssumption
       DEF NameInv, SignupsOwn, SigningUp, RegisterTeamName, Signed, FreshInv,
           Typed, TypeOK
  <2>4. flushes = 0 => (DeletionsOwn /\ TeamsOwn)'
    BY <1>0, <1>1, <2>2, RegistryAssumption
       DEF NameInv, DeletionsOwn, TeamsOwn, RegisterTeamName, deletion, FreshInv,
           Typed, TypeOK
  <2>5. QED
    BY <1>0, <2>3, <2>4 DEF NameInv
<1>2. CASE WriteName(p)
  <2>1. /\ sname[p] \in Name /\ SigningUp(p) /\ hash' = hash
        /\ sname' = sname /\ steam' = steam
        /\ \A q \in Signer : SigningUp(q)' <=> SigningUp(q)
        /\ names' = [names EXCEPT ![sname[p]] = steam[p]]
    BY <1>2 DEF WriteName, Signed, SigningUp, FreshInv, Typed, TypeOK
  <2>2. flushes = 0 => \A n \in Name \ contested : names'[n] = names[n]
    BY <2>1 DEF NameInv, SignupsOwn, FreshInv, Typed, TypeOK
  <2>3. flushes = 0 => SignupsOwn'
    BY <1>0, <2>1, <2>2 DEF NameInv, SignupsOwn, SigningUp, FreshInv, Typed
  <2>4. flushes = 0 => (DeletionsOwn /\ TeamsOwn)'
    BY <1>0, <2>1, <2>2 DEF NameInv, DeletionsOwn, TeamsOwn, deletion, FreshInv, Typed
  <2>5. QED
    BY <1>0, <2>3, <2>4 DEF NameInv
<1>3. CASE WriteTeamID(p)
  BY <1>0, <1>3 DEF WriteTeamID, Signed, NameInv, SignupsOwn, DeletionsOwn, TeamsOwn,
                    SigningUp, deletion, FreshInv, Typed, TypeOK
<1>4. CASE WriteTeamHash(p)
  <2>1. /\ steam[p] \in Team /\ sname[p] \in Name /\ Fresh(steam[p])
        /\ hash' = [hash EXCEPT ![steam[p]] = sname[p]]
        /\ hash \in [Team -> Name \cup {None, Nameless}]
    BY <1>4 DEF FreshInv, SigningUp, WriteTeamHash, Signed, Typed, TypeOK
  <2>2. flushes = 0 /\ sname[p] \notin contested => names[sname[p]] = steam[p]
    BY <1>4 DEF NameInv, SignupsOwn, SigningUp, WriteTeamHash, Signed
  <2>3. flushes = 0 => SignupsOwn'
    BY <1>0, <1>4 DEF NameInv, SignupsOwn, SigningUp, WriteTeamHash, Signed, FreshInv,
                      Typed, TypeOK
  <2>4. flushes = 0 => DeletionsOwn'
    BY <1>0, <1>4, <2>1 DEF NameInv, DeletionsOwn, WriteTeamHash, Fresh, deletion,
                            FreshInv, Typed, TypeOK
  <2>5. flushes = 0 => TeamsOwn'
    BY <1>0, <1>4, <2>1, <2>2 DEF NameInv, TeamsOwn, WriteTeamHash, deletion
  <2>6. QED
    BY <1>0, <2>3, <2>4, <2>5 DEF NameInv
<1>5. CASE SignupFails(p)
  BY <1>0, <1>5 DEF SignupFails, Signed, NameInv, SignupsOwn, DeletionsOwn, TeamsOwn,
                    SigningUp, teamKeys, registry, deletion, FreshInv, Typed, TypeOK
<1>6. QED
  BY <1>1, <1>2, <1>3, <1>4, <1>5 DEF SignupStep

LEMMA NamePlay ==
    ASSUME FreshInv, NameInv, PlayStep
    PROVE  NameInv'
<1>0. /\ names' = names /\ signup' = signup /\ deletion' = deletion
      /\ contested' = contested /\ flushes' = flushes
      /\ \A t \in Team : hash'[t] \in {hash[t], Nameless}
  BY PlayFrame DEF FreshInv, board
<1>1. \A u \in Team : hash'[u] \in Name => hash'[u] = hash[u]
  BY <1>0, RegistryAssumption
<1>2. flushes = 0 => (SignupsOwn /\ DeletionsMeet)'
  BY <1>0 DEF NameInv, SignupsOwn, SigningUp, DeletionsMeet, signup, deletion
<1>3. flushes = 0 => DeletionsOwn'
  <2>1. \A d \in Deleter : dteam[d] = None \/ dteam[d] \in Team
    BY DEF FreshInv, Typed, TypeOK
  <2>2. QED
    BY <1>0, <1>1, <2>1 DEF NameInv, DeletionsOwn, deletion
<1>4. flushes = 0 => TeamsOwn'
  BY <1>0, <1>1 DEF NameInv, TeamsOwn, deletion
<1>5. QED
  BY <1>0, <1>2, <1>3, <1>4 DEF NameInv

\* The second deletion of a team finds the name that the first one found.
LEMMA NameDiscover ==
    ASSUME FreshInv, NameInv, flushes = 0, NEW d \in Deleter, Discover(d)
    PROVE  (SignupsOwn /\ DeletionsOwn /\ DeletionsMeet /\ TeamsOwn)'
<1>1. PICK t \in Team :
         /\ hash[t] \in Name
         /\ dteam' = [dteam EXCEPT ![d] = t]
         /\ dname' = [dname EXCEPT ![d] = hash[t]]
         /\ dtodo' = [dtodo EXCEPT ![d] = DeleteCommands]
         /\ contested' = IF \E e \in Deleter : dteam[e] = t
                           THEN contested \cup {hash[t]} ELSE contested
  BY DEF Discover, BeingDeleted
<1>2. /\ dteam'[d] = t /\ dname'[d] = hash[t] /\ {"hash", "name"} \subseteq dtodo'[d]
      /\ \A f \in Deleter \ {d} : /\ dteam'[f] = dteam[f] /\ dname'[f] = dname[f]
                                  /\ dtodo'[f] = dtodo[f]
  BY <1>1, DeletionInOrder DEF FreshInv, Typed, TypeOK
<1>3. names' = names /\ hash' = hash /\ signup' = signup /\ dteam[d] = None
  BY DEF Discover, teamKeys, registry
<1>4. contested \subseteq contested'
  BY <1>1
<1>5. /\ SignupsOwn /\ DeletionsOwn /\ DeletionsMeet /\ TeamsOwn
      /\ t # None
  BY RegistryAssumption DEF NameInv
<1>6. ASSUME NEW f \in Deleter, dteam[f] = t
      PROVE  dname[f] = hash[t] /\ hash[t] \in contested'
  BY <1>1, <1>5, <1>6 DEF DeletionsOwn
<1>7. hash[t] \notin contested' => names[hash[t]] = t
  BY <1>1, <1>4, <1>5, <1>6 DEF TeamsOwn
<1>8. SignupsOwn'
  BY <1>3, <1>4, <1>5 DEF SignupsOwn, SigningUp, signup
<1>9. DeletionsOwn'
  BY <1>2, <1>3, <1>4, <1>5, <1>7 DEF DeletionsOwn
<1>10. DeletionsMeet'
  BY <1>2, <1>4, <1>5, <1>6 DEF DeletionsMeet
<1>11. TeamsOwn'
  BY <1>2, <1>3, <1>4, <1>5, RegistryAssumption DEF TeamsOwn
<1>12. QED
  BY <1>8, <1>9, <1>10, <1>11

\* A name is taken from nobody but the team that is deleted, or is contested.
LEMMA NameDeleteCommand ==
    ASSUME FreshInv, NameInv, flushes = 0, NEW d \in Deleter, NEW e,
           DeleteCommand(d, e)
    PROVE  (SignupsOwn /\ DeletionsOwn /\ DeletionsMeet /\ TeamsOwn)'
<1>1. /\ dteam[d] \in Team /\ dname[d] \in Name /\ dteam[d] # None
      /\ hash \in [Team -> Name \cup {None, Nameless}]
      /\ names \in [Name -> Team \cup {None}]
      /\ dtodo \in [Deleter -> SUBSET DeleteCommands]
  BY RegistryAssumption DEF DeleteCommand, Due, FreshInv, Typed, TypeOK
<1>2. /\ dteam' = dteam /\ dname' = dname /\ dtodo' = [dtodo EXCEPT ![d] = @ \ {e}]
      /\ hash' = IF e = "hash" THEN [hash EXCEPT ![dteam[d]] = None] ELSE hash
      /\ names' = IF e = "name" THEN [names EXCEPT ![dname[d]] = None] ELSE names
      /\ signup' = signup /\ contested' = contested
  BY DEF DeleteCommand, ghosts
<1>3. SignupsOwn /\ DeletionsOwn /\ DeletionsMeet /\ TeamsOwn
  BY DEF NameInv
<1>4. e = "name" => "name" \in dtodo[d] /\ "hash" \notin dtodo[d]
  BY <1>1, DeletionInOrder DEF DeleteCommand, Due
<1>5. e = "name" => hash[dteam[d]] \notin Name
  BY <1>1, <1>3, <1>4 DEF DeletionsOwn
<1>6. ASSUME e = "name", dname[d] \notin contested
      PROVE  /\ names[dname[d]] = dteam[d]
             /\ \A f \in Deleter : dteam[f] = dteam[d] => f = d
  BY <1>1, <1>3, <1>4, <1>6 DEF DeletionsOwn, DeletionsMeet
<1>7. \A n \in Name \ contested :
         names'[n] = names[n] \/ (e = "name" /\ n = dname[d] /\ names[n] = dteam[d])
  BY <1>1, <1>2, <1>6
<1>8. \A t \in Team : /\ hash'[t] \in Name => hash'[t] = hash[t]
                      /\ e = "hash" => hash'[dteam[d]] = None
  BY <1>1, <1>2, RegistryAssumption
<1>9. SignupsOwn'
  <2>1. ASSUME NEW p \in Signer, SigningUp(p)
        PROVE  steam[p] # dteam[d] /\ sname[p] \in Name
    BY <2>1 DEF FreshInv, Fresh, SigningUp, Typed
  <2>2. QED
    BY <1>2, <1>3, <1>7, <2>1 DEF SignupsOwn, SigningUp, signup
<1>10. DeletionsOwn'
  <2>1. SUFFICES ASSUME NEW f \in Deleter, dteam[f] # None
                 PROVE  /\ "name" \in dtodo'[f] /\ dname[f] \notin contested
                              => names'[dname[f]] = dteam[f]
                        /\ hash'[dteam[f]] \in Name
                              => "hash" \in dtodo'[f] /\ hash'[dteam[f]] = dname[f]
                        /\ "hash" \in dtodo'[f] => "name" \in dtodo'[f]
    BY <1>2 DEF DeletionsOwn
  <2>2. /\ dteam[f] \in Team /\ dname[f] \in Name
        /\ dtodo'[f] = IF f = d THEN dtodo[f] \ {e} ELSE dtodo[f]
    BY <1>1, <1>2, <2>1 DEF FreshInv, Typed, TypeOK
  <2>3. /\ "name" \in dtodo[f] /\ dname[f] \notin contested
              => names[dname[f]] = dteam[f]
        /\ hash[dteam[f]] \in Name => "hash" \in dtodo[f] /\ hash[dteam[f]] = dname[f]
        /\ "hash" \in dtodo[f] => "name" \in dtodo[f]
    BY <1>3, <2>1 DEF DeletionsOwn
  <2>4. "name" \in dtodo'[f] /\ dname[f] \notin contested
           => names'[dname[f]] = dteam[f]
    BY <1>6, <1>7, <2>2, <2>3
  <2>5. hash'[dteam[f]] \in Name
           => "hash" \in dtodo'[f] /\ hash'[dteam[f]] = dname[f]
    BY <1>8, <2>2, <2>3, RegistryAssumption
  <2>6. "hash" \in dtodo'[f] => "name" \in dtodo'[f]
    BY <1>4, <2>2, <2>3
  <2>7. QED
    BY <2>4, <2>5, <2>6
<1>11. DeletionsMeet'
  BY <1>2, <1>3 DEF DeletionsMeet
<1>12. TeamsOwn'
  BY <1>2, <1>3, <1>7, <1>8 DEF TeamsOwn
<1>13. QED
  BY <1>9, <1>10, <1>11, <1>12

LEMMA NameDelete ==
    ASSUME FreshInv, NameInv, NEW d \in Deleter, DeleteStep(d)
    PROVE  NameInv'
<1>0. flushes' = flushes
  BY DEF DeleteStep, Discover, DeleteCommand, DeleteDone, board
<1>1. CASE Discover(d)
  BY <1>0, <1>1, NameDiscover DEF NameInv
<1>2. CASE \E e \in DeleteCommands : DeleteCommand(d, e)
  BY <1>0, <1>2, NameDeleteCommand DEF NameInv
<1>3. CASE DeleteDone(d)
  <2>1. /\ dteam[d] \in Team /\ dteam[d] # None /\ dtodo[d] = {}
        /\ names' = names /\ hash' = hash /\ dtodo' = dtodo
        /\ signup' = signup /\ contested' = contested
        /\ dteam' = [dteam EXCEPT ![d] = None]
        /\ \A f \in Deleter \ {d} : dname'[f] = dname[f]
    BY <1>3, RegistryAssumption DEF DeleteDone, teamKeys, registry, ghosts, FreshInv,
                                    Typed, TypeOK
  <2>2. /\ dteam'[d] = None
        /\ \A f \in Deleter \ {d} : dteam'[f] = dteam[f]
    BY <2>1 DEF FreshInv, Typed, TypeOK
  <2>3. flushes = 0 => hash[dteam[d]] \notin Name
    BY <2>1 DEF NameInv, DeletionsOwn
  <2>4. flushes = 0 => (SignupsOwn /\ DeletionsMeet)'
    BY <2>1, <2>2 DEF NameInv, SignupsOwn, SigningUp, DeletionsMeet, signup
  <2>5. flushes = 0 => (DeletionsOwn /\ TeamsOwn)'
    BY <2>1, <2>2, <2>3 DEF NameInv, DeletionsOwn, TeamsOwn
  <2>6. QED
    BY <1>0, <2>4, <2>5 DEF NameInv
<1>4. QED
  BY <1>1, <1>2, <1>3 DEF DeleteStep

LEMMA NameStep ==
    ASSUME FreshInv, NameInv, [Next]_vars
    PROVE  NameInv'
<1>1. CASE FlushDB
  BY <1>1 DEF NameInv, FlushDB, FreshInv, Typed, TypeOK
<1>2. CASE Reseed \/ (\E r \in Reader : ReadStep(r)) \/ UNCHANGED vars
  <2>1. /\ names' = names /\ hash' = hash /\ signup' = signup
        /\ deletion' = deletion /\ contested' = contested /\ flushes' = flushes
    BY <1>2 DEF Reseed, ReadStep, ReadKeys, Heal, ReadKeysAgain, vars, teamKeys,
                registry, board, ghosts
  <2>2. QED
    BY <2>1 DEF NameInv, SignupsOwn, DeletionsOwn, DeletionsMeet, TeamsOwn,
                SigningUp, signup, deletion
<1>3. QED
  BY <1>1, <1>2, NameSignup, NamePlay, NameDelete, StepKinds DEF PlayStep

\* Signups race with each other, with any number of deletions and with late
\* session requests, and may fail half-way: as long as nobody flushes Redis, a
\* team that is there and is not being deleted owns its name, unless the name is
\* that of a team which two deletions were at work on at once.
THEOREM NamesAreOwned == Spec => []NameOwned
<1>1. NameInv => NameOwned
  BY DEF NameInv, TeamsOwn, NameOwned
<1>2. Init => NameInv
  BY NameInit
<1>3. FreshInv /\ NameInv /\ [Next]_vars => NameInv'
  BY NameStep
<1>4. QED
  BY <1>1, <1>2, <1>3, AlwaysFresh, PTL DEF Spec

-----------------------------------------------------------------------------
(* Nobody logs in as a deleted team again, and it is never listed again *)

\* A team's ID stands under its own name only, from its signup to its deletion,
\* and what a deletion has removed of that stays removed.
NamedOnce ==
    /\ \A t \in Team \ issued, n \in Name : names[n] # t
    /\ \A p \in Signer, n \in Name :
          SigningUp(p) /\ names[n] = steam[p] => n = sname[p]
    /\ \A t \in Team, n \in Name :
          hash[t] \in Name /\ names[n] = t => n = hash[t]
    /\ \A d \in Deleter, n \in Name :
          dteam[d] # None /\ names[n] = dteam[d] => n = dname[d]

Unlists ==
    \A d \in Deleter : dteam[d] # None =>
        /\ "hash" \notin dtodo[d] => hash[dteam[d]] \notin Name
        /\ "name" \notin dtodo[d] => \A n \in Name : names[n] # dteam[d]
        /\ "id" \notin dtodo[d] => dteam[d] \notin allTeams

GoneInv ==
    /\ NamedOnce /\ Unlists
    /\ \A t \in deleted : LoggedOut(t)

LEMMA GoneInit == Init => GoneInv
  BY RegistryAssumption DEF Init, GoneInv, NamedOnce, Unlists, SigningUp

\* A signup writes for a team that was never deleted.
LEMMA GoneSignup ==
    ASSUME FreshInv, GoneInv, NEW p \in Signer, SignupStep(p)
    PROVE  GoneInv'
<1>0. deletion' = deletion /\ deleted' = deleted
  BY DEF SignupStep, RegisterTeamName, WriteName, WriteTeamID, WriteTeamHash,
         SignupFails, ghosts
<1>1. PICK t \in Team :
         /\ Fresh(t)
         /\ \A q \in Signer : q # p /\ SigningUp(q) => steam[q] # t
         /\ \A u \in Team \ {t} : hash'[u] = hash[u]
         /\ \A u \in Team \ {t} : u \in allTeams' => u \in allTeams
         /\ \A u \in Team \ {t}, n \in Name : names'[n] = u => names[n] = u
         /\ t \in issued' /\ issued \subseteq issued'
         /\ \A q \in Signer : q # p =>
               /\ SigningUp(q)' = SigningUp(q)
               /\ steam'[q] = steam[q] /\ sname'[q] = sname[q]
         /\ \A n \in Name : SigningUp(p)' /\ names'[n] = t =>
               steam'[p] = t /\ n = sname'[p]
         /\ SigningUp(p)' => steam'[p] = t
         /\ \A n \in Name : hash'[t] \in Name /\ names'[n] = t => n = hash'[t]
  <2>1. CASE RegisterTeamName(p)
    <3>1. PICK n \in Name, t \in Team \ issued :
             /\ names' = [names EXCEPT ![n] = t]
             /\ sname' = [sname EXCEPT ![p] = n]
             /\ steam' = [steam EXCEPT ![p] = t]
             /\ issued' = issued \cup {t}
      BY <2>1 DEF RegisterTeamName
    <3>2. /\ hash' = hash /\ allTeams' = allTeams /\ Fresh(t)
          /\ spc[p] = "idle" /\ spc' = [spc EXCEPT ![p] = "registered"]
          /\ \A m \in Name : names[m] # t
          /\ \A q \in Signer : SigningUp(q) => steam[q] # t
      BY <2>1, <3>1 DEF RegisterTeamName, Signed, FreshInv, GoneInv, NamedOnce
    <3>3. hash'[t] \notin Name
      BY <3>2, RegistryAssumption DEF Fresh
    <3>4. QED
      BY <3>1, <3>2, <3>3 DEF SigningUp, FreshInv, Typed, TypeOK
  <2>2. CASE WriteName(p) \/ WriteTeamID(p) \/ WriteTeamHash(p) \/ SignupFails(p)
    <3>1. /\ SigningUp(p) /\ steam[p] \in Team /\ sname[p] \in Name
          /\ Fresh(steam[p]) /\ steam[p] \in issued /\ issued' = issued
          /\ hash[steam[p]] \notin Name
          /\ \A n \in Name : names[n] = steam[p] => n = sname[p]
          /\ \A q \in Signer : q # p /\ SigningUp(q) => steam[q] # steam[p]
      BY <2>2, RegistryAssumption
         DEF WriteName, WriteTeamID, WriteTeamHash, SignupFails, Signed, SigningUp,
             ghosts, FreshInv, Fresh, GoneInv, NamedOnce, Typed
    <3>2. CASE WriteName(p)
      BY <3>1, <3>2 DEF WriteName, Signed, SigningUp, FreshInv, Typed, TypeOK
    <3>3. CASE WriteTeamID(p)
      BY <3>1, <3>3 DEF WriteTeamID, Signed, SigningUp, FreshInv, Typed, TypeOK
    <3>4. CASE WriteTeamHash(p)
      BY <3>1, <3>4 DEF WriteTeamHash, Signed, SigningUp, FreshInv, Typed, TypeOK
    <3>5. CASE SignupFails(p)
      BY <3>1, <3>5 DEF SignupFails, Signed, SigningUp, teamKeys, registry,
                        FreshInv, Typed, TypeOK
    <3>6. QED
      BY <2>2, <3>2, <3>3, <3>4, <3>5
  <2>3. QED
    BY <2>1, <2>2 DEF SignupStep
<1>2. NamedOnce'
  <2>1. \A u \in Team \ issued', n \in Name : names'[n] # u
    BY <1>1 DEF GoneInv, NamedOnce
  <2>2. ASSUME NEW q \in Signer, NEW n \in Name, SigningUp(q)', names'[n] = steam'[q]
        PROVE  n = sname'[q]
    <3>1. CASE q = p
      BY <1>1, <2>2, <3>1
    <3>2. CASE q # p
      <4>1. SigningUp(q) /\ steam[q] \in Team /\ steam[q] # t /\ steam'[q] = steam[q]
        BY <1>1, <2>2, <3>2 DEF FreshInv, Typed, SigningUp
      <4>2. QED
        BY <1>1, <2>2, <3>2, <4>1 DEF GoneInv, NamedOnce
    <3>3. QED
      BY <3>1, <3>2
  <2>3. \A u \in Team, n \in Name : hash'[u] \in Name /\ names'[n] = u => n = hash'[u]
    BY <1>1 DEF GoneInv, NamedOnce
  <2>4. \A d \in Deleter, n \in Name :
           dteam'[d] # None /\ names'[n] = dteam'[d] => n = dname'[d]
    BY <1>0, <1>1 DEF GoneInv, NamedOnce, Fresh, deletion, FreshInv, Typed, TypeOK
  <2>5. QED
    BY <2>1, <2>2, <2>3, <2>4 DEF NamedOnce
<1>3. Unlists'
  BY <1>0, <1>1 DEF GoneInv, Unlists, Fresh, deletion, FreshInv, Typed, TypeOK
<1>4. \A u \in deleted' : LoggedOut(u)'
  BY <1>0, <1>1 DEF GoneInv, LoggedOut, Fresh, FreshInv, Typed, TypeOK
<1>5. QED
  BY <1>2, <1>3, <1>4 DEF GoneInv

LEMMA GonePlay ==
    ASSUME FreshInv, GoneInv, PlayStep
    PROVE  GoneInv'
<1>1. /\ names' = names /\ allTeams' = allTeams
      /\ UNCHANGED <<signup, deletion, board, issued, deleted, contested>>
      /\ \A t \in Team : hash'[t] \in {hash[t], Nameless}
  BY PlayFrame DEF FreshInv
<1>2. \A t \in Team : hash'[t] \in Name => hash'[t] = hash[t]
  BY <1>1, RegistryAssumption
<1>3. \A d \in Deleter : dteam[d] # None => dteam[d] \in Team
  BY DEF FreshInv, Typed, TypeOK
<1>4. NamedOnce'
  BY <1>1, <1>2 DEF GoneInv, NamedOnce, SigningUp, signup, deletion
<1>5. Unlists'
  BY <1>1, <1>2, <1>3 DEF GoneInv, Unlists, deletion
<1>6. \A t \in deleted' : LoggedOut(t)'
  BY <1>1, <1>2 DEF GoneInv, LoggedOut, FreshInv, Typed, TypeOK
<1>7. QED
  BY <1>4, <1>5, <1>6 DEF GoneInv

LEMMA GoneDelete ==
    ASSUME FreshInv, GoneInv, NEW d \in Deleter, DeleteStep(d)
    PROVE  GoneInv'
<1>0. /\ signup' = signup /\ issued' = issued
      /\ dteam \in [Deleter -> Team \cup {None}]
      /\ dname \in [Deleter -> Name \cup {None}]
      /\ dtodo \in [Deleter -> SUBSET DeleteCommands]
      /\ names \in [Name -> Team \cup {None}]
      /\ hash \in [Team -> Name \cup {None, Nameless}]
      /\ deleted \subseteq Team
  BY DEF FreshInv, Typed, TypeOK, DeleteStep, Discover, DeleteCommand, DeleteDone,
         ghosts
<1>1. CASE Discover(d)
  <2>1. PICK t \in Team :
           /\ hash[t] \in Name
           /\ dteam' = [dteam EXCEPT ![d] = t]
           /\ dname' = [dname EXCEPT ![d] = hash[t]]
           /\ dtodo' = [dtodo EXCEPT ![d] = DeleteCommands]
    BY <1>1 DEF Discover
  <2>2. names' = names /\ hash' = hash /\ allTeams' = allTeams /\ deleted' = deleted
    BY <1>1 DEF Discover, teamKeys, registry
  <2>3. NamedOnce'
    BY <1>0, <2>1, <2>2 DEF GoneInv, NamedOnce, SigningUp, signup
  <2>4. Unlists'
    BY <1>0, <2>1, <2>2, DeletionInOrder DEF GoneInv, Unlists
  <2>5. QED
    BY <2>2, <2>3, <2>4 DEF GoneInv, LoggedOut
<1>2. CASE \E e \in DeleteCommands : DeleteCommand(d, e)
  <2>1. PICK e \in DeleteCommands : DeleteCommand(d, e)
    BY <1>2
  <2>2. /\ dteam' = dteam /\ dname' = dname /\ deleted' = deleted
        /\ dtodo' = [dtodo EXCEPT ![d] = @ \ {e}]
        /\ hash' = IF e = "hash" THEN [hash EXCEPT ![dteam[d]] = None] ELSE hash
        /\ names' = IF e = "name" THEN [names EXCEPT ![dname[d]] = None] ELSE names
        /\ allTeams' = IF e = "id" THEN allTeams \ {dteam[d]} ELSE allTeams
    BY <2>1 DEF DeleteCommand, ghosts
  <2>3. dteam[d] \in Team /\ dname[d] \in Name /\ dteam[d] # None
    BY <2>1, RegistryAssumption DEF DeleteCommand, Due, FreshInv, Typed, TypeOK
  <2>4. /\ \A t \in Team : hash'[t] \in Name => hash'[t] = hash[t]
        /\ \A t \in Team, n \in Name : names'[n] = t => names[n] = t
        /\ e = "hash" => hash'[dteam[d]] \notin Name
        /\ e = "name" => \A n \in Name : names'[n] # dteam[d]
    BY <1>0, <2>2, <2>3, RegistryAssumption DEF GoneInv, NamedOnce
  <2>5. NamedOnce'
    BY <1>0, <2>2, <2>4
       DEF GoneInv, NamedOnce, SigningUp, signup, FreshInv, Typed, TypeOK
  <2>6. Unlists'
    <3>1. SUFFICES ASSUME NEW f \in Deleter, dteam[f] # None
                   PROVE  /\ "hash" \notin dtodo'[f] => hash'[dteam[f]] \notin Name
                          /\ "name" \notin dtodo'[f]
                                => \A n \in Name : names'[n] # dteam[f]
                          /\ "id" \notin dtodo'[f] => dteam[f] \notin allTeams'
      BY <2>2 DEF Unlists
    <3>2. /\ "hash" \notin dtodo[f] => hash[dteam[f]] \notin Name
          /\ "name" \notin dtodo[f] => \A n \in Name : names[n] # dteam[f]
          /\ "id" \notin dtodo[f] => dteam[f] \notin allTeams
          /\ dteam[f] \in Team
      BY <1>0, <3>1 DEF GoneInv, Unlists
    <3>3. dtodo'[f] = IF f = d THEN dtodo[f] \ {e} ELSE dtodo[f]
      BY <1>0, <2>2
    <3>4. QED
      BY <2>2, <2>4, <3>2, <3>3
  <2>7. \A t \in deleted' : LoggedOut(t)'
    BY <1>0, <2>2, <2>4 DEF GoneInv, LoggedOut
  <2>8. QED
    BY <2>5, <2>6, <2>7 DEF GoneInv
<1>3. CASE DeleteDone(d)
  <2>1. /\ dteam[d] # None /\ dtodo[d] = {} /\ dtodo' = dtodo
        /\ names' = names /\ hash' = hash /\ allTeams' = allTeams
        /\ deleted' = deleted \cup {dteam[d]}
        /\ dteam' = [dteam EXCEPT ![d] = None]
        /\ dname' = [dname EXCEPT ![d] = None]
    BY <1>3 DEF DeleteDone, teamKeys, registry
  <2>2. LoggedOut(dteam[d])
    BY <2>1 DEF GoneInv, Unlists, LoggedOut
  <2>3. NamedOnce'
    BY <1>0, <2>1 DEF GoneInv, NamedOnce, SigningUp, signup
  <2>4. Unlists'
    BY <1>0, <2>1 DEF GoneInv, Unlists
  <2>5. QED
    BY <2>1, <2>2, <2>3, <2>4 DEF GoneInv, LoggedOut
<1>4. QED
  BY <1>1, <1>2, <1>3 DEF DeleteStep

LEMMA GoneStep ==
    ASSUME FreshInv, GoneInv, [Next]_vars
    PROVE  GoneInv'
<1>1. CASE FlushDB
  <2>1. /\ \A n \in Name : names'[n] = None
        /\ \A t \in Team : hash'[t] = None
        /\ allTeams' = {} /\ deletion' = deletion /\ signup' = signup
        /\ deleted' = deleted /\ issued' = issued
    BY <1>1 DEF FlushDB, ghosts
  <2>2. /\ deleted \subseteq Team
        /\ \A p \in Signer : SigningUp(p) => steam[p] \in Team
        /\ \A d \in Deleter : dteam[d] # None => dteam[d] \in Team
    BY DEF FreshInv, Typed, TypeOK, SigningUp
  <2>3. NamedOnce' /\ Unlists'
    BY <2>1, <2>2, RegistryAssumption
       DEF NamedOnce, Unlists, SigningUp, deletion, signup
  <2>4. QED
    BY <2>1, <2>2, <2>3, RegistryAssumption DEF GoneInv, LoggedOut
<1>2. CASE Reseed \/ (\E r \in Reader : ReadStep(r)) \/ UNCHANGED vars
  <2>1. UNCHANGED <<teamKeys, signup, deletion, ghosts>>
    BY <1>2 DEF Reseed, ReadStep, ReadKeys, Heal, ReadKeysAgain, vars
  <2>2. QED
    BY <2>1 DEF GoneInv, NamedOnce, Unlists, LoggedOut, SigningUp, teamKeys,
                registry, signup, deletion, ghosts
<1>3. QED
  BY <1>1, <1>2, GoneSignup, GonePlay, GoneDelete, StepKinds DEF PlayStep

LEMMA AlwaysGone == Spec => []GoneInv
  BY GoneInit, GoneStep, AlwaysFresh, PTL DEF Spec

-----------------------------------------------------------------------------
(* When a deleted team comes back *)

\* What a deletion has removed stays removed while nothing can write for its
\* team, and it has read the ID of every session that can still be played.
Erases ==
    \A d \in Deleter : dteam[d] \in Team \ haunted =>
        LET t == dteam[d] IN
        /\ ~AtWork(t)
        /\ "hash" \notin dtodo[d] => hash[t] = None
        /\ "slots" \notin dtodo[d] => \A s \in slots : owner[s] # t
        /\ "ranked" \notin dtodo[d] => t \notin ranked
        /\ "solvers" \notin dtodo[d] => t \notin solvers
        /\ \A s \in playable : owner[s] = t => "sessions" \in dtodo[d] /\ s \in dfound[d]

ErasedInv ==
    /\ Erases
    /\ \A t \in deleted \ haunted : Forgotten(t) /\ ~AtWork(t)

LEMMA ErasedInit == Init => ErasedInv
  BY RegistryAssumption DEF Init, ErasedInv, Erases

\* A team that a step can write for is not one that must stay erased.
Erased(t) == (BeingDeleted(t) \/ t \in deleted) /\ t \notin haunted

LEMMA Excused ==
    ASSUME FreshInv, ErasedInv, NEW t \in Team, Erased(t)
    PROVE  /\ \A s \in Session : owner[s] = t => todo[s] = {}
           /\ t \in deleted => hash[t] = None /\ \A s \in playable : owner[s] # t
  BY DEF ErasedInv, Erases, Erased, BeingDeleted, AtWork, Forgotten

\* A step that leaves the keys, sessions and requests of erased teams alone, and
\* starts or ends no deletion, keeps them erased.
LEMMA ErasedFrame ==
    ASSUME FreshInv, ErasedInv, deletion' = deletion, deleted' = deleted,
           haunted \subseteq haunted',
           \A t \in Team : Erased(t) /\ t \notin haunted' =>
              /\ hash'[t] = hash[t]
              /\ t \in allTeams' => t \in allTeams
              /\ t \in ranked' => t \in ranked
              /\ t \in solvers' => t \in solvers
              /\ \A s \in slots' : owner'[s] = t => s \in slots /\ owner[s] = t
              /\ \A s \in playable' : owner'[s] = t => s \in playable /\ owner[s] = t
              /\ \A s \in Session : owner'[s] = t => todo'[s] = {}
    PROVE  ErasedInv'
<1>1. deleted \subseteq Team
  BY DEF FreshInv, Typed, TypeOK
<1>2. Erases'
  <2>1. SUFFICES ASSUME NEW d \in Deleter, dteam[d] \in Team \ haunted'
                 PROVE  LET t == dteam[d] IN
                        /\ \A s \in Session : owner'[s] = t => todo'[s] = {}
                        /\ "hash" \notin dtodo[d] => hash'[t] = None
                        /\ "slots" \notin dtodo[d] => \A s \in slots' : owner'[s] # t
                        /\ "ranked" \notin dtodo[d] => t \notin ranked'
                        /\ "solvers" \notin dtodo[d] => t \notin solvers'
                        /\ \A s \in playable' : owner'[s] = t =>
                              "sessions" \in dtodo[d] /\ s \in dfound[d]
    BY DEF Erases, deletion, AtWork
  <2>2. Erased(dteam[d])
    BY <2>1 DEF Erased, BeingDeleted
  <2>3. PICK t \in Team : t = dteam[d] /\ Erased(t) /\ t \notin haunted'
    BY <2>1, <2>2
  <2>4. /\ "hash" \notin dtodo[d] => hash[t] = None
        /\ "slots" \notin dtodo[d] => \A s \in slots : owner[s] # t
        /\ "ranked" \notin dtodo[d] => t \notin ranked
        /\ "solvers" \notin dtodo[d] => t \notin solvers
        /\ \A s \in playable : owner[s] = t =>
              "sessions" \in dtodo[d] /\ s \in dfound[d]
    BY <2>3 DEF ErasedInv, Erases, Erased
  <2>5. /\ hash'[t] = hash[t]
        /\ t \in ranked' => t \in ranked
        /\ t \in solvers' => t \in solvers
        /\ \A s \in slots' : owner'[s] = t => s \in slots /\ owner[s] = t
        /\ \A s \in playable' : owner'[s] = t => s \in playable /\ owner[s] = t
        /\ \A s \in Session : owner'[s] = t => todo'[s] = {}
    BY <2>3
  <2>6. QED
    BY <2>3, <2>4, <2>5
<1>3. \A t \in deleted \ haunted' : Forgotten(t)' /\ ~AtWork(t)'
  BY <1>1 DEF ErasedInv, Erased, Forgotten, AtWork
<1>4. QED
  BY <1>2, <1>3 DEF ErasedInv

LEMMA ErasedSignup ==
    ASSUME FreshInv, ErasedInv, NEW p \in Signer, SignupStep(p)
    PROVE  ErasedInv'
<1>1. UNCHANGED <<boards, sessions, play, deletion, deleted, haunted>>
  BY DEF SignupStep, RegisterTeamName, WriteName, WriteTeamID, WriteTeamHash,
         SignupFails, teamKeys, ghosts
<1>2. ASSUME NEW t \in Team, Erased(t)
      PROVE  hash'[t] = hash[t] /\ (t \in allTeams' => t \in allTeams)
  <2>1. SigningUp(p) => steam[p] # t
    BY <1>2 DEF FreshInv, Fresh, Erased, BeingDeleted
  <2>2. QED
    BY <2>1 DEF SignupStep, RegisterTeamName, WriteName, WriteTeamID,
                WriteTeamHash, SignupFails, Signed, SigningUp, teamKeys, registry,
                FreshInv, Typed, TypeOK
<1>3. QED
  BY <1>1, <1>2, Excused, ErasedFrame DEF boards, sessions, play

LEMMA ErasedTeam ==
    ASSUME FreshInv, ErasedInv, NEW t \in Team, TeamStep(t)
    PROVE  ErasedInv'
<1>1. deletion' = deletion /\ deleted' = deleted /\ allTeams' = allTeams
  BY PlayFrame DEF PlayStep, FreshInv
<1>2. /\ owner' = owner /\ todo' = todo /\ playable' = playable
      /\ ranked' = ranked /\ solvers' = solvers
      /\ slots' \subseteq slots /\ haunted \subseteq haunted'
  BY DEF TeamStep, Login, ResetTeamProgress, SlotsExpire, teamKeys, registry,
         boards, sessions, play, ghosts
<1>3. \A u \in Team : Erased(u) /\ u \notin haunted' => hash'[u] = hash[u]
  BY DEF TeamStep, Login, ResetTeamProgress, SlotsExpire, Touched, Erased,
         teamKeys, registry, FreshInv, Typed, TypeOK
<1>4. QED
  BY <1>1, <1>2, <1>3, Excused, ErasedFrame DEF FreshInv, Typed, TypeOK

\* Who begins a request is not a deleted team, and is excused if it is being
\* deleted.
LEMMA ErasedBegin ==
    ASSUME FreshInv, ErasedInv, NEW s \in Session, NEW t \in Team, NEW commands,
           Begin(s, t, commands), t \notin deleted \ haunted,
           owner'[s] = t, \A r \in Session : r # s => owner'[r] = owner[r],
           owner[s] = t \/ s \notin slots \cup playable
    PROVE  ErasedInv'
<1>1. /\ deletion' = deletion /\ deleted' = deleted /\ allTeams' = allTeams
      /\ hash' = hash /\ ranked' = ranked /\ solvers' = solvers
      /\ slots' = slots /\ playable' = playable /\ haunted \subseteq haunted'
  BY DEF Begin, teamKeys, registry, boards, sessions
<1>2. ~(Erased(t) /\ t \notin haunted')
  BY DEF Begin, Erased
<1>3. \A r \in Session : r # s => todo'[r] = todo[r]
  BY DEF Begin, FreshInv, Typed, TypeOK
<1>4. slots \subseteq Session /\ playable \subseteq Session
  BY DEF FreshInv, Typed, TypeOK
<1>5. ASSUME NEW u \in Team, Erased(u), u \notin haunted'
      PROVE  /\ \A r \in slots : owner'[r] = u => owner[r] = u
             /\ \A r \in playable : owner'[r] = u => owner[r] = u
             /\ \A r \in Session : owner'[r] = u => todo'[r] = {}
  BY <1>2, <1>3, <1>4, <1>5, Excused
<1>6. QED
  BY <1>1, <1>5, ErasedFrame

LEMMA ErasedSession ==
    ASSUME FreshInv, ErasedInv, NEW s \in Session, SessionStep(s)
    PROVE  ErasedInv'
<1>0. /\ slots \subseteq Session /\ playable \subseteq Session
      /\ owner \in [Session -> Team \cup {None}]
      /\ todo \in [Session -> SUBSET PlayCommands]
  BY DEF FreshInv, Typed, TypeOK
<1>1. CASE \E t \in Team : StartSession(s, t)
  <2>1. PICK t \in Team : StartSession(s, t)
    BY <1>1
  <2>2. t \notin deleted \ haunted
    BY <2>1 DEF StartSession, ErasedInv, Forgotten
  <2>3. s \notin slots \cup playable
    BY <2>1 DEF StartSession, FreshInv, Typed
  <2>4. QED
    BY <1>0, <2>1, <2>2, <2>3, ErasedBegin DEF StartSession
<1>2. CASE Request(s)
  <2>1. PICK commands \in Requests : Begin(s, owner[s], commands)
    BY <1>2 DEF Request
  <2>2. owner[s] \in Team /\ owner' = owner
    BY <1>0, <1>2 DEF Request, FreshInv, Typed
  <2>3. owner[s] \notin deleted \ haunted
    BY <1>2, <2>2 DEF Request, ErasedInv, Forgotten
  <2>4. QED
    BY <2>1, <2>2, <2>3, ErasedBegin
<1>3. CASE PlayFails(s) \/ SessionExpires(s)
  <2>1. /\ deletion' = deletion /\ deleted' = deleted /\ haunted' = haunted
        /\ registry' = registry /\ boards' = boards /\ slots' = slots
        /\ owner' = owner /\ playable' \subseteq playable
        /\ \A r \in Session : todo'[r] \subseteq todo[r]
    BY <1>0, <1>3 DEF PlayFails, SessionExpires, play, ghosts
  <2>2. QED
    BY <1>0, <2>1, Excused, ErasedFrame DEF registry, boards
<1>4. CASE \E e \in PlayCommands : PlayCommand(s, e)
  <2>1. PICK e \in PlayCommands : PlayCommand(s, e)
    BY <1>4
  <2>2. PICK t \in Team : t = owner[s]
    BY <1>0, <2>1 DEF PlayCommand, Due, FreshInv, Typed
  <2>3. ~Erased(t)
    BY <2>1, <2>2, Excused DEF PlayCommand, Due
  <2>4. /\ deletion' = deletion /\ deleted' = deleted /\ haunted' = haunted
        /\ allTeams' = allTeams /\ owner' = owner
        /\ \A u \in Team : u # t => /\ hash'[u] = hash[u]
                                    /\ u \in ranked' => u \in ranked
                                    /\ u \in solvers' => u \in solvers
        /\ slots' \subseteq slots \cup {s} /\ playable' \subseteq playable \cup {s}
        /\ \A r \in Session : todo'[r] \subseteq todo[r]
    BY <1>0, <2>1, <2>2 DEF PlayCommand, Touched, ghosts, FreshInv, Typed, TypeOK
  <2>5. QED
    BY <1>0, <2>2, <2>3, <2>4, Excused, ErasedFrame
<1>5. QED
  BY <1>1, <1>2, <1>3, <1>4 DEF SessionStep

LEMMA ErasedDelete ==
    ASSUME FreshInv, GoneInv, ErasedInv, NEW d \in Deleter, DeleteStep(d)
    PROVE  ErasedInv'
<1>0. /\ dteam \in [Deleter -> Team \cup {None}]
      /\ dtodo \in [Deleter -> SUBSET DeleteCommands]
      /\ dfound \in [Deleter -> SUBSET Session]
      /\ hash \in [Team -> Name \cup {None, Nameless}]
      /\ deleted \subseteq Team /\ haunted \subseteq Team
      /\ slots \subseteq Session /\ playable \subseteq Session
      /\ owner' = owner /\ todo' = todo
  BY DEF FreshInv, Typed, TypeOK, DeleteStep, Discover, DeleteCommand, DeleteDone,
         play
<1>1. \A t \in Team : AtWork(t)' <=> AtWork(t)
  BY <1>0 DEF AtWork
<1>2. CASE Discover(d)
  <2>1. PICK t \in Team :
           /\ dteam' = [dteam EXCEPT ![d] = t]
           /\ dfound' = [dfound EXCEPT ![d] = SlotsOf(t)]
           /\ dtodo' = [dtodo EXCEPT ![d] = DeleteCommands]
           /\ haunted' = IF AtWork(t) \/ \E s \in playable \ slots : owner[s] = t
                           THEN haunted \cup {t} ELSE haunted
    BY <1>2 DEF Discover
  <2>2. /\ hash' = hash /\ allTeams' = allTeams /\ ranked' = ranked
        /\ solvers' = solvers /\ slots' = slots /\ playable' = playable
        /\ deleted' = deleted /\ haunted \subseteq haunted'
    BY <1>2, <2>1 DEF Discover, teamKeys, registry, boards, sessions
  <2>3. /\ dteam'[d] = t /\ dfound'[d] = SlotsOf(t) /\ dtodo'[d] = DeleteCommands
        /\ \A f \in Deleter \ {d} :
              dteam'[f] = dteam[f] /\ dfound'[f] = dfound[f] /\ dtodo'[f] = dtodo[f]
    BY <1>0, <2>1
  <2>4. t \notin haunted' => /\ ~AtWork(t)
                             /\ \A s \in playable : owner[s] = t => s \in SlotsOf(t)
    BY <2>1 DEF SlotsOf
  <2>5. Erases'
    <3>1. SUFFICES ASSUME NEW f \in Deleter, dteam'[f] \in Team \ haunted'
                   PROVE  LET u == dteam'[f] IN
                          /\ ~AtWork(u)
                          /\ "hash" \notin dtodo'[f] => hash[u] = None
                          /\ "slots" \notin dtodo'[f] => \A s \in slots : owner[s] # u
                          /\ "ranked" \notin dtodo'[f] => u \notin ranked
                          /\ "solvers" \notin dtodo'[f] => u \notin solvers
                          /\ \A s \in playable : owner[s] = u =>
                                "sessions" \in dtodo'[f] /\ s \in dfound'[f]
      BY <1>0, <1>1, <2>2 DEF Erases
    <3>2. CASE f = d
      BY <2>3, <2>4, <3>1, <3>2, DeletionInOrder
    <3>3. CASE f # d
      BY <2>2, <2>3, <3>1, <3>3 DEF ErasedInv, Erases
    <3>4. QED
      BY <3>2, <3>3
  <2>6. QED
    BY <1>0, <1>1, <2>2, <2>5 DEF ErasedInv, Forgotten
<1>3. CASE \E e \in DeleteCommands : DeleteCommand(d, e)
  <2>1. PICK e \in DeleteCommands : DeleteCommand(d, e)
    BY <1>3
  <2>2. PICK t \in Team : t = dteam[d]
    BY <1>0, <2>1 DEF DeleteCommand, Due, FreshInv, Typed
  <2>3. /\ dteam' = dteam /\ dfound' = dfound /\ deleted' = deleted
        /\ haunted' = haunted /\ dtodo' = [dtodo EXCEPT ![d] = @ \ {e}]
        /\ hash' = IF e = "hash" THEN [hash EXCEPT ![t] = None] ELSE hash
        /\ allTeams' = IF e = "id" THEN allTeams \ {t} ELSE allTeams
        /\ slots' = IF e = "slots" THEN slots \ SlotsOf(t) ELSE slots
        /\ ranked' = IF e = "ranked" THEN ranked \ {t} ELSE ranked
        /\ solvers' = IF e = "solvers" THEN solvers \ {t} ELSE solvers
        /\ playable' = IF e = "sessions" THEN playable \ dfound[d] ELSE playable
    BY <2>1, <2>2 DEF DeleteCommand, ghosts
  <2>4. /\ \A u \in Team : hash[u] = None => hash'[u] = None
        /\ e = "hash" => hash'[t] = None
        /\ allTeams' \subseteq allTeams /\ slots' \subseteq slots
        /\ ranked' \subseteq ranked /\ solvers' \subseteq solvers
        /\ playable' \subseteq playable
        /\ e = "slots" => \A s \in slots' : owner[s] # t
    BY <1>0, <2>3 DEF SlotsOf
  <2>5. Erases'
    <3>1. SUFFICES ASSUME NEW f \in Deleter, dteam[f] \in Team \ haunted
                   PROVE  LET u == dteam[f] IN
                          /\ ~AtWork(u)
                          /\ "hash" \notin dtodo'[f] => hash'[u] = None
                          /\ "slots" \notin dtodo'[f] => \A s \in slots' : owner[s] # u
                          /\ "ranked" \notin dtodo'[f] => u \notin ranked'
                          /\ "solvers" \notin dtodo'[f] => u \notin solvers'
                          /\ \A s \in playable' : owner[s] = u =>
                                "sessions" \in dtodo'[f] /\ s \in dfound[f]
      BY <1>0, <1>1, <2>3 DEF Erases
    <3>2. LET u == dteam[f] IN
          /\ ~AtWork(u)
          /\ "hash" \notin dtodo[f] => hash[u] = None
          /\ "slots" \notin dtodo[f] => \A s \in slots : owner[s] # u
          /\ "ranked" \notin dtodo[f] => u \notin ranked
          /\ "solvers" \notin dtodo[f] => u \notin solvers
          /\ \A s \in playable : owner[s] = u => "sessions" \in dtodo[f] /\ s \in dfound[f]
      BY <3>1 DEF ErasedInv, Erases
    <3>3. dtodo'[f] = IF f = d THEN dtodo[f] \ {e} ELSE dtodo[f]
      BY <1>0, <2>3
    <3>4. CASE f = d
      BY <2>2, <2>3, <2>4, <3>1, <3>2, <3>3, <3>4
    <3>5. CASE f # d
      BY <2>4, <3>1, <3>2, <3>3, <3>5
    <3>6. QED
      BY <3>4, <3>5
  <2>6. QED
    BY <1>0, <1>1, <2>3, <2>4, <2>5 DEF ErasedInv, Forgotten
<1>4. CASE DeleteDone(d)
  <2>1. /\ dteam[d] \in Team /\ dteam[d] # None /\ dtodo[d] = {} /\ dtodo' = dtodo
        /\ teamKeys' = teamKeys /\ haunted' = haunted
        /\ dteam' = [dteam EXCEPT ![d] = None]
        /\ dfound' = [dfound EXCEPT ![d] = {}]
        /\ deleted' = deleted \cup {dteam[d]}
    BY <1>0, <1>4 DEF DeleteDone
  <2>2. dteam[d] \notin allTeams
    BY <2>1 DEF GoneInv, Unlists
  <2>3. dteam[d] \notin haunted => Forgotten(dteam[d]) /\ ~AtWork(dteam[d])
    BY <2>1, <2>2 DEF ErasedInv, Erases, Forgotten
  <2>4. Erases'
    BY <1>0, <1>1, <2>1, RegistryAssumption
       DEF ErasedInv, Erases, teamKeys, registry, boards, sessions
  <2>5. QED
    BY <1>0, <1>1, <2>1, <2>3, <2>4
       DEF ErasedInv, Forgotten, teamKeys, registry, boards, sessions
<1>5. QED
  BY <1>2, <1>3, <1>4 DEF DeleteStep

LEMMA ErasedStep ==
    ASSUME FreshInv, GoneInv, ErasedInv, [Next]_vars
    PROVE  ErasedInv'
<1>1. CASE FlushDB
  <2>1. /\ deletion' = deletion /\ deleted' = deleted /\ haunted' = haunted
        /\ \A t \in Team : hash'[t] = None
        /\ allTeams' = {} /\ ranked' = {} /\ solvers' = {}
        /\ slots' = {} /\ playable' = {} /\ owner' = owner /\ todo' = todo
    BY <1>1 DEF FlushDB, play, ghosts
  <2>2. Erases'
    BY <2>1 DEF ErasedInv, Erases, AtWork, deletion
  <2>3. QED
    BY <2>1, <2>2 DEF ErasedInv, Forgotten, AtWork, FreshInv, Typed, TypeOK
<1>2. CASE Reseed \/ (\E r \in Reader : ReadStep(r)) \/ UNCHANGED vars
  <2>1. UNCHANGED <<teamKeys, play, deletion, deleted, haunted>>
    BY <1>2 DEF Reseed, ReadStep, ReadKeys, Heal, ReadKeysAgain, vars, ghosts
  <2>2. QED
    BY <2>1, Excused, ErasedFrame DEF teamKeys, registry, boards, sessions, play
<1>3. QED
  BY <1>1, <1>2, ErasedSignup, ErasedTeam, ErasedSession, ErasedDelete, StepKinds

\* Nobody logs in as a deleted team again, and no listing shows it, whatever its
\* late requests, resets, further deletions, flushes and faults do.  It leaves
\* nothing in Redis that play or scores would show, for good, unless one of its
\* requests overlapped the deletion, the deletion missed a session that had lost
\* its slot, or a reset was sent for it later.
THEOREM DeletionIsForGood == Spec => []DeletedForGood
<1>1. GoneInv /\ ErasedInv => DeletedForGood
  BY DEF GoneInv, ErasedInv, DeletedForGood
<1>2. FreshInv /\ GoneInv /\ ErasedInv /\ [Next]_vars => ErasedInv'
  BY ErasedStep
<1>3. QED
  BY <1>1, <1>2, ErasedInit, AlwaysFresh, AlwaysGone, PTL DEF Spec

-----------------------------------------------------------------------------
(* The master board is never answered empty *)

\* Before the first flush nothing needs healing; after it the board is seeded
\* from the moment on that a reader has healed it.
BoardInv ==
    /\ BoardNeverNull
    /\ flushes = 0 => seeded /\ \A r \in Reader : rpc[r] = "idle"
    /\ flushes <= 1 => \A r \in Reader : rpc[r] = "reread" => seeded

LEMMA BoardStep ==
    ASSUME TypeOK, BoardInv, [Next]_vars
    PROVE  BoardInv'
<1>1. CASE FlushDB
  BY <1>1 DEF BoardInv, BoardNeverNull, FlushDB, TypeOK
<1>2. CASE Reseed
  BY <1>2 DEF BoardInv, BoardNeverNull, Reseed
<1>3. CASE \E r \in Reader : ReadStep(r)
  <2>1. PICK r \in Reader : ReadStep(r)
    BY <1>3
  <2>2. CASE ReadKeys(r)
    BY <2>2 DEF BoardInv, BoardNeverNull, ReadKeys, Answer, TypeOK
  <2>3. CASE Heal(r)
    BY <2>3 DEF BoardInv, BoardNeverNull, Heal, TypeOK
  <2>4. CASE ReadKeysAgain(r)
    BY <2>4 DEF BoardInv, BoardNeverNull, ReadKeysAgain, Answer, TypeOK
  <2>5. QED
    BY <2>1, <2>2, <2>3, <2>4 DEF ReadStep
<1>4. CASE UNCHANGED <<seeded, rpc, flushes, nullBoard>>
  BY <1>4 DEF BoardInv, BoardNeverNull
<1>5. \/ \E p \in Signer : SignupStep(p)
      \/ \E t \in Team : TeamStep(t)
      \/ \E s \in Session : SessionStep(s)
      \/ \E d \in Deleter : DeleteStep(d)
      \/ UNCHANGED vars
      => UNCHANGED <<seeded, rpc, flushes, nullBoard>>
  BY DEF SignupStep, RegisterTeamName, WriteName, WriteTeamID, WriteTeamHash,
         SignupFails, TeamStep, Login, ResetTeamProgress, SlotsExpire, SessionStep,
         StartSession, Request, Begin, PlayCommand, PlayFails, SessionExpires,
         DeleteStep, Discover, DeleteDone, DeleteCommand, vars, board
<1>6. QED
  BY <1>1, <1>2, <1>3, <1>4, <1>5, StepKinds

\* A flush wipes the master board and seeds it again in two steps: with one
\* flush and any number of readers nobody is answered an empty board.
THEOREM BoardIsNeverNull == Spec => []BoardNeverNull
<1>1. Init => BoardInv
  BY DEF Init, BoardInv, BoardNeverNull
<1>2. TypeOK /\ BoardInv /\ [Next]_vars => BoardInv'
  BY BoardStep
<1>3. BoardInv => BoardNeverNull
  BY DEF BoardInv
<1>4. QED
  BY <1>1, <1>2, <1>3, RegistryTypeCorrect, PTL DEF Spec
==============================================================================
