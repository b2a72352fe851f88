# Guess Who service: TLA+ models, checks and proofs

The service (Go, `src/internal`) runs a guessing game: teams start sessions, ask
questions about a hidden character, guess it, and collect score, milestones and
places on a leaderboard. Every instance of the service is stateless; all state
is in one Redis, and every HTTP request is a sequence of Redis commands, Lua
scripts and pipelines between which any other request may run. What is hard to
get right is therefore *which* commands a handler issues, *in which order*, what
it decided them on, and what is left when it stops half-way. That is what is
modelled here.

## 1. The system

| Component | State | Operations | What makes it correct |
|---|---|---|---|
| Session play (`service/session_service.go`, `domain/session.go`) | `session:<id>` (JSON record: questions, decisions, guesses, pending decryption, verdict) | ask, guess, reveal, decrypt | no lost update, each solve credited once, a result is final, decisions are rolled once, a withheld guess is kept |
| Session start (`StartSession`) | new `session:<id>`, `active_sessions:team:<id>`, `active_session_id`, solved characters | start | playable sessions hold a slot, the limit, fresh targets |
| Lock and team store (`db/redis_store.go`) | `lock:session:<id>`, `team:<id>`, `team:<id>:solved_characters`, `leaderboard`, `masterboard` | SET NX with retries, release script, stats and milestone scripts, score pipeline | mutual exclusion, lock not stolen and always freed, score and leaderboard agree |
| Milestones (`service/milestone_service.go`, `domain/milestone.go`) | `milestones` of the team hash | award if absent | one bonus per milestone, never before the solve it is for |
| Teams (`handler/client_handler.go`) | `team_names_to_ids`, `all_team_ids`, `team:<id>` | signup, login, progress, reset, leaderboard, master board | a team owns its name, the board is never empty |
| Debug (`handler/debug_handler.go`) | all of it | delete team, flush, listings | nobody logs in as a deleted team; nothing of it is left unless a request of it wrote late; a flush leaves a seeded board |
| Chaos (`service/chaos.go`, `handler/chaos_handler.go`) | a switch in memory, the profile in the session | fail a request, open windows | nobody is kept out for longer than a window; a failure changes only its counter |
| Scoring (`service/scoring.go`) | none | score of a solve | clamped at zero; never grows with time, questions or failures |
| Encryption (`service/encryption.go`) | none | ciphers, HKDF witness key, password hash | decoding inverts encoding; hint, encoding and cipher fit each other |
| Boards and catalogs | constants | seeded shuffle, target | a permutation; target is on the board |
| Rate limiter (`middleware/rate_limiter.go`) | token buckets in memory | admit, refill, evict | admissions bounded by capacity and rate, nobody starved by truncation |
| HTTP handlers, errors (`handler/session_handler.go`, `trait_handler.go`, `errors.go`) | none | decode, call, answer | an answer says what was decided, although it is built from a second read |
| Auth, logging, configuration, `main` | none | JWT, log lines, wiring, 60 s timeout | — |

**Interactions.** Handlers call the session service, which calls the store and
the milestone service; the store is the only one to talk to Redis. The session
lock serialises ask, guess, reveal and decrypt *of one session*. Nothing
serialises starts, resets, signups, deletions and flushes, nor two sessions of
one team. `main`'s timeout handler cancels the context of a request after 60 s;
all its later Redis calls then fail, the release of the lock included. The 24 h
TTLs of session records and of the active set and the 5 s TTL of the lock are
the only cleaning up. In front of the handlers, the rate limiter admits or
refuses requests per client and path; inside them the chaos service may fail
ask, guess and reveal. Both keep their state in the process. What comes back to
the player matters too: its plain answers are the material of the witness key
it must derive to decipher a withheld guess in Stage 2.

**Hard behaviour.** Requests of one session while a slow holder's lease ends;
requests cut off between storing a session, crediting it and freeing its slot;
write errors that are ignored; two sessions, or two starts, of a team; stale
reads (the solved characters read before the board is stored, the session read
again for the response after its lock was released); a team deleted or Redis
flushed under requests that are still at work; lost responses, and asks between
a withheld guess and its decryption. `PROJECT.json` lists each
hazard at its line with the properties that cover it.

## 2. The modules

| Module | Stands for |
|---|---|
| `SessionRules` | what each of the four session handlers decides once it has read the record: a set of *outcomes*, each the record to store, the Redis commands to issue (`todo`), the points they move |
| `SessionPlay` | requests (slots) that acquire the lock, read and decide, issue their commands one by one in source order (`Order`), release; faults and TTLs |
| `AtomicPlay` | the abstract promise of the lock: read, decide and store are one step |
| `SessionEnds` | how a started session ends, as the rest of the team sees it: open or closed, a guess withheld or not, and the commands left to the one request that ends it |
| `TeamSessions` | a team starting, ending and resetting: StartSession command by command, without a lock; its sessions end as `SessionEnds` says |
| `TeamRegistry` | signup, deletion, flush and master board, command by command, with what teams do meanwhile and afterwards: login, reset, session requests |
| `Scoring` | what a correct guess is worth |
| `SessionAnswers` | one session seen from its player: requests sent, decided (by `SessionRules`, in one step), answered, received or lost; the player's log of answers |
| `TokenBucket` | the abstract promise of the rate limiter: an ideal, continuously refilled bucket |
| `RateLimiter` | the buckets of the code: refilled lazily by whole tokens, forgotten when idle |
| `AskPath` | `RateLimiter` in front of chaos windows, on one clock, and a client that keeps asking |
| `Ciphers` | the encryption service, and the two ways a ciphertext and its hint reach a player |
| `MC...` | symmetry sets and byte sets for TLC, nothing else |
| `SessionRules_proof`, `SessionPlay_proof`, `SessionRecords_proof` | theorems about what the rules decide, about the lock and credit, and about records and the team's books |
| `TeamSessions_proof`, `TeamRegistry_proof`, `AskPath_proof` | theorems about the module they are named for; the last also about `RateLimiter` |
| `SessionAnswers_proof`, `Ciphers_proof` | theorems about the module they are named for |

`SessionPlay` takes the sessions as already started. `TeamSessions` extends
`SessionEnds` and lets the sessions it has started end by its actions, which is
justified by `EndsInOrder`: `SessionPlay` implements `SessionEnds` (checked in
`play_decrypt`, proved as `EndsAreOrdered`). `TeamRegistry` keeps of a session
request only the commands that touch its team's keys. `SessionAnswers` takes
reading, deciding and storing as one step, which is the theorem `AtomicSessions`.

### SessionRules and SessionPlay

State: the Redis keys above by their names in the code (`session`, `lock`,
`score`, `board`, `solves`, `solvedChars`, `milestones`, `activeID`, `active`)
and per request slot its place (`pc`), session, retries, the record it is going
to store (`copy`) and the commands left (`todo`). Chaos, block and encryption
rolls and the client's input are the choice among outcomes. `Refused` is always
possible: a client can always send an unknown question or a wrong key.

A step is one Redis command or one Lua script. A pipeline
(`IncrementTeamScore`) is two steps, because another client's command may fall
between, but it is sent at once: a request is not cut off inside it, and fails
as a whole. `LostWith` says what else a failed command takes with it: the write
error of AskQuestion returns, `updateTeamStats` returns when its script fails,
every other error is only logged.

Faults: `abort` (the context is cancelled: nothing more reaches Redis and the
lock stays until its TTL), `error` (one command fails), `lease` (the 5 s TTL
ends under a holder that is still at work). A slot is not reused while its old
lock value is in Redis: in the code the value is random.

Abstracted: the amount of a solve (`SolveScore`), question texts and values,
the ciphers. The witness key is the set of questions answered in the clear.
Reading the team's solves for S2 and awarding it are one step. Left out:
`UpdateFastestSolve` (it keeps a minimum of elapsed times), commands that are
applied but reported as failed, and go-redis' retries.

### TeamSessions

`Starter` slots go `read` (SCARD passed, TeamExists is always true here) →
`write` (team data read) → `add` → `clear` (only if all characters were solved
when read) → `point` → `award` → idle. Sessions are `unused`, `open`, `closed` or
`gone` (expired). A session can be played once its ID can be `known`: the team's
progress shows `active_session_id` before the response arrives. `ending[s]` holds
the commands left to the request that ends `s`: a solve has `stats` among them, a
reveal or the last wrong guess does not. In Stage 2 a guess may be `withheld`;
decrypting it does not ask whether the session is still open and a reveal leaves
it withheld, so a revealed session may end once more, as a solve or as a loss
(`session_service.go:639` and `:739`). Stage, fake IDs and trait subsets are
abstracted, and the publication carries no state. `IDsLeft` bounds the session
IDs for TLC. Faults: `abort`, `error`, and `ttl` (the 24 h TTLs; the active set's
is renewed by each SADD and cannot end during a request).

### TeamRegistry

Names, team hashes (by their name field), `all_team_ids`, leaderboard, master
board sets, for several teams; `slots`, the session IDs in the teams' active sets,
and `playable`, the stored sessions that a client can still play or decrypt; slots
of signups, deletions and master-board readers. The commands of a session
request and of a deletion are sets with an order (`PlayOrder`, `DeleteOrder`): a
command is due when none before it is left. Flush and reseed are two steps.

`tokens` are the teams that hold a JWT. It is checked without looking at Redis, so
it outlives its team: `ResetTeamProgress` is its HSET, which makes `team:<id>` anew
when the team is gone. `StartSession` asks for a hash and a free slot, and for no
token. `Requests` are the commands of ask, guess, reveal and decrypt that touch a
team's keys; HSET and HINCRBY recreate a team hash without a name (`Nameless`).
A command may fail, with what it takes along (`LostWith`: after a failed SADD a
start goes on, with a session that is playable and has no slot), or the request
may be cut off (`PlayFails`); records and active sets expire. `Discover` finds the
sessions of a team through its active set only.

Ghosts: teams `issued`, `deleted`, and `haunted`: a request of the team was at
work during its deletion, one of its sessions was playable without a slot then,
or a reset came during the deletion or later; `contested` (names of teams that two
deletions were at work on), `flushes`, `nullBoard`. `DebugLeft` bounds deletions
and flushes together for TLC.

Abstracted: the requests on one session come one after another, as their lock
sees to; the two commands of `IncrementTeamScore` are one step, and so are the two
reads of a login and the two of a start. Left out: the set of solved characters
and the lock keys, which a deletion removes too and nothing here reads, and the
72 hours after which a token ends.

### SessionAnswers

State: the record of `SessionRules` with the two things that one leaves out,
`witness` (`UnencryptedTraitAnswers`) and `challenge` (the plaintext and the score
of a withheld guess); per call whether it was sent or decided, and what was
decided; the player's `log`, which holds the first plain answer received to each
question; the session's age. A value of an enum question is either one the
target has (`hit`) or not, so asking again with another value gets another
answer. A decryption carries the key derived from the log as it was when the
request was sent. HKDF is injective here: keys are equal exactly when the
answers are. `GuessReply` is evaluated in whatever state the second read finds.

Faults: writes of the session that fail (each call site handles the error its
own way), lost responses, contention, injected failures, a record that vanishes.
Observers: `victories` (how often the service said "correct"), `crossed` (calls
that were open together with another one), `unsure` (questions whose asks
crossed or whose response was lost).

### RateLimiter, TokenBucket, AskPath

`bucket` is the map of the code. The mutex makes a request one step; time passes
in ticks, so that fractions of a token exist. Only keys with one capacity and
rate are in an instance, as every path has its own. Cleaning up may happen at any
time, not only every five minutes. `AskPath` adds the chaos switch and window of
the service, and `WindowSeconds`, which takes the profile stored at the start of
the session and falls back on the service only where that is 0. A patient client
is alone on its key and repeats its request each tick until it is answered; the
other kind is any number of requests at any time. The limiter is switched on:
by default the code does not switch it on (`RATE_LIMIT_ENABLED`).

The refinement mapping gives the ideal bucket `credit`: what the stored tokens
and the time since `lastRefill` have earned, in parts of a token, and a full
bucket where there is none.

### Ciphers

One exchange: text, cipher and key are drawn, the service encrypts, the hint of
`/decode` (answers) or the response to a withheld guess (candidate IDs) tells
cipher, key and encoding, and the player does what the hint says. Runes and bytes
are their numbers, hex is a tag. AES opens what it sealed with the same key and
nothing else; nonce and IV travel along. That a witness key is derived alike on
both sides is `LogIsKey` of `SessionAnswers`.

## 3. The runs

| Run | Instance | Shows |
|---|---|---|
| `play` | 2 sessions of a team, 2 requests, Stage 1 with block and encryption rolls, 1 abort | `LockExclusion`, `SolveCreditedOnce`, `OpenSessionsCounted`, `SolveBeforeMilestones`, `ResultFinal`, `DecisionsStable`; and, nothing cut off and no request at work, the books: `ScoreAccounting`, `TeamAgreesWithSessions` |
| `play_decrypt` | 1 session, 2 questions, Stage 2, 1 abort | withheld guesses: `CorrectGuessKept`, `AskedCountedOnce`; `NoLostUpdate` (implements `AtomicPlay`), `EndsInOrder` (implements `SessionEnds`) |
| `play_faults` | every kind of fault, fairness | `LockNotStolen`, `BoardAgrees`, liveness: `RequestsEnd`, `LocksFreed`, `SolveReachesTeam` |
| `team_slots` | 3 sessions, 2 characters, 2 starts at once, limit 2, 1 abort | `PlayableCounted`, `PointerHonest`, `SolvesAddUp` |
| `team_leaks` | 2 sessions, 1 start at a time, limit 1, 1 abort or error, TTLs, fairness | `SlotsBounded`, liveness: `LockoutEnds` |
| `registry` | 2 teams, 1 name, 1 session ID with its requests, failing and cut off, resets, 2 signups, 2 deletions at once or one and a flush, 1 reader | `NameOwned`, `DeletedForGood`, `BoardNeverNull` |
| `ask_path` | 1 key, capacity 2, 2 tokens in 3 ticks, idle limit 3 ticks, 16 ticks, windows of 1 s in 2 s, 2 reconfigurations | `AdmissionBounded`, `IdealBucket` (implements `TokenBucket`), `AnsweredInTime` |
| `answers` | 2 calls, 1 question, 2 candidates, Stage 2, 1 failed write, one step of the clock | `LogIsKey`, `HonestKeyAccepted`, `WonOnce`, `VerdictTold`, `WaitingIsFree` |
| `ciphers` | 5 runes, 4 key bytes, keys of 3 and blocks of 3 bytes, texts up to 4 | `PlayerReads`, `RoundTrip` |

Runs that TLC must find violated, each a disagreement between the code and what
the repository says:

| Run | The repository says | The code does |
|---|---|---|
| `decryption_paid_twice` | full score and a +100 bonus (`docs/decryption-challenge-design.md:478`) | `SubmitDecryption` adds score and bonus directly and again in the stats script |
| `slow_holder` | the script prevents races between concurrent requests (`redis_store.go:309-310`) | the lease is neither renewed nor checked: two requests credit one solve |
| `limit_overrun` | at most 2 concurrent sessions (`docs/security.md:130`) | counting and adding are separate and unlocked |

Each property of a passing run is accompanied by a mutant: a plausible mistake
in one definition that TLC then finds.

**Bounds.** Two requests on one session are enough for every pairwise race on a
record, and the lock's properties are proved for any number. Two sessions show
whatever one session can do to another's team data. Guess limit 2 (the last and
an earlier wrong guess), 2 candidates (right and wrong), 1–2 questions (one to
ask again, one to change the key); the code's thresholds (3 guesses, 5 and 10
questions, 3 solves) are constants, set so that each is crossed within an
instance. `MaxTries` 2 instead of 10 keeps one retry and the give-up. 3 sessions
with limit 2 is the smallest overrun, and 2 sessions with limit 1 the smallest in
which one leaked slot locks a team out; how far n
concurrent starts overrun the limit is proved (`SlotsNeverOverrun`), for that run
has one start at a time. In `registry` one name is what signups race for, and one
session shows each way a session can outlive its team; the theorems are about any
number of names, sessions and teams; with 1 character the solved set runs full
at once, with 2 after two sessions. `MaxFailed`, `MaxFaults`, `IDsLeft`,
`DebugLeft`, `Horizon`, `MaxElapsed`, `MaxBadWrites` and `MaxTriggers` bound
counters for TLC only.

In `ask_path` two tokens in three ticks make every kind of fraction, a bucket
becomes idle just when it is full, and 16 ticks hold two intervals of chaos with
a refill between them. In `answers` two calls are every pair that can cross;
what any number of calls can do is proved. `PriorAsked` 15 and a tick of 600 s
put the score at its two thresholds, where a step of the clock or one question
more changes what it grows by. In `ciphers` the runes are the ends of both
alphabets and a digit, the key bytes the ends of the shift range and of a byte;
texts are shorter than, as long as, and longer than a key and a block.

Deadlock is checked except in `answers` and `ciphers`: a player may have nothing
left to send once the record is gone or the game over, and an exchange ends when
the text was read.

**Fairness.** Weak fairness of each request's own steps: the code runs on
without waiting for anybody, the lock's retries are counted. Weak fairness of
the expiry of a lock whose holder is gone: Redis' TTL. In `TeamSessions`, weak
fairness of the expiry of the active set *only while the team is locked out and
no start is under way*: then no SADD can renew it. Nothing else is fair: no
client has to send a request, no fault has to happen, a flush need not come.
`AnsweredInTime` is a bound and needs no fairness: a waiting client asks in every
tick, and `waited` counts them.

**How far some properties reach.** `SolveCreditedOnce` and its kin hold with
aborts, not with ended leases (`slow_holder`) or ignored write errors: a session
whose write fails can be solved again. `PlayableCounted` and `PointerHonest`
exclude failed commands and TTLs, because StartSession goes on after a failed
SADD. `SolvesAddUp` is about sessions played one after another; with overlap two
sessions may have one target. `NameOwned` assumes that there is no flush and
excepts a name whose team two deletions were at work on at once, and
`BoardNeverNull` assumes one flush; in each case the assumption is needed.

`DeletedForGood` says of every deleted team that nobody logs in as it and that it is
not listed. That nothing else is left and nothing comes back it says of teams
that are not `haunted`, for the code brings a deleted team back in three ways:

- a client resets with its token (`client_handler.go:355`, `redis_store.go:587`): the
  team hash is there again, without a name, so `TeamExists` lets the team start
  sessions and M1 puts it on the leaderboard;
- a session request at work during the deletion goes on writing;
- a session is playable but not in the active set when the deletion looks for the
  team's sessions. The SADD of its start failed (`session_service.go:217`), the
  set expired before the record, the record of the solve was not written before
  the SREM, or a revealed session still has a withheld guess to decrypt.

Deleting such a team again is answered 404, as its hash has no name. Without any
one of the three exceptions TLC finds the property violated.

`EndsInOrder` takes no ended lease: two holders would end a session twice over.
`ResultFinal` begins, in Stage 2, when no guess is withheld any more: a reveal
completes a session whose decryption can still come. `SolveBeforeMilestones`
leaves M5 out in Stage 2, where `SubmitDecryption` awards it before the stats.
`ScoreAccounting` and `TeamAgreesWithSessions` speak of runs in which nothing was
cut off and compare by counting: solves, wrong guesses, reveals and milestones,
each at its price. The latter holds in both stages but for the publication: a
solve by decryption is not published (`session_service.go:763`). `LogIsKey` and
`HonestKeyAccepted` except asks of one question that cross, a lost response and, the latter, a decryption sent while another request
is open: each of them does lead to an honest player being told that its key is
wrong. `VerdictTold` excepts failed writes, and for a wrong guess another
request that overlaps; then a withheld guess may be answered as wrong.
`AnsweredInTime` assumes that there is a window and that the gap between two of
them earns a token (`TimeEnough`): a window as long as the interval starves
everybody.

**Where documents and code differ** and no run is spent on it:

- `redis_store.go:611` ("removes a team and all its associated data") and the
  answer of `debug_handler.go:315`: records of ended sessions, sessions without a
  slot stay, and a reset or a late request makes the team hash anew.
- `docs/decryption-challenge-design.md:302` has the session stay open until the
  decryption is resolved; `Reveal` (`session_service.go:639`) completes it.
- `docs/game_instructions.md:49` says each session targets a different character;
  targets of open sessions are not excluded (`session_service.go:205`).
- `docs/security.md:45` speaks of a limit per endpoint, the buckets are per client
  *and path*, so every session has its own; `docs/api-reference.md:37` and `:110`
  give 10/s and 12/s, the code 1/s and 5/s.
- `docs/chaos-system.md:123` lets only `/ask` fail, the code guess and reveal too;
  the window and interval of its `:52-53` are ignored for a session whose profile
  holds them, which is every session of a process configured with them.
- `docs/game_instructions.md:116-123` and `docs/scoring-milestones.md:48` have other
  bonuses and penalties than `scoring.go`; M5 is given for `/decode` by
  `docs/decryption-challenge-design.md:216`, is "not yet implemented" by
  `docs/scoring-milestones.md:78`, and is awarded for a solve in a session that had an
  encrypted answer (`session_service.go:568`).
- `docs/decryption-challenge-design.md` joins the witness pairs with `|`, the code
  with a newline; an XOR key has 32 bytes, not 8; and the first ask of a session is
  rolled like any other (`:113` and `:434` exempt it).

## 4. The proofs

Checked by TLAPS for all values of the constants that satisfy the modules'
named assumptions (`RulesAssumption`, `PlayAssumption`, `TeamAssumption`,
`RegistryAssumption`, `LimiterAssumption`, `AskAssumption`, `AnswersAssumption`,
`CiphersAssumption`).
They say what the code's constants are (limits and prices are numbers, capacity
and rate positive, the catalog of questions finite) and that model values differ.
"With every fault" means any number of any of them.

| Theorem | Says |
|---|---|
| `TypeCorrect` | `SessionPlay!TypeOK` |
| `MutualExclusion` | `LockExclusion`, if `lease` is not among the faults |
| `AtomicSessions` | `NoLostUpdate`: `SessionPlay` implements `AtomicPlay`, if no `lease` |
| `CreditedOnce` | `SolveCreditedOnce`, if neither `lease` nor `error` |
| `CompletionIsFinal`, `ResultsAreFinal`, `DecisionsAreStable` | the action properties `CompletedStays` (part of `EndsInOrder`, hence of no run), `ResultFinal`, `DecisionsStable`, if no `lease` |
| `QuestionsCounted`, `CorrectGuessesKept` | `AskedCountedOnce`, `CorrectGuessKept`, if no `lease` |
| `LocksAreKept` | the action property `LockNotStolen`, with every fault |
| `PlayableSessionsCounted` | `OpenSessionsCounted`, if neither `lease` nor `error` |
| `MilestonesAfterSolve` | `SolveBeforeMilestones`, if no `error` |
| `BoardFollowsScore` | `BoardAgrees`, with every fault |
| `TeamFollowsSessions` | `TeamAgreesWithSessions`, in both stages |
| `ScoreFollowsSessions` | `ScoreAccounting`, in Stage 1 |
| `EndsAreOrdered` | `EndsInOrder`: `SessionPlay` implements `SessionEnds`, if no `lease` |
| `SessionsTypeCorrect` | `TeamSessions!TypeOK`, with every fault |
| `SlotsNeverOverrun` | `SlotsBounded`: with n starts at once a team holds less than limit + n slots, with every fault |
| `PlayableHoldsSlot`, `PointerIsHonest` | `PlayableCounted`, `PointerHonest` |
| `SolvesAreNew` | `SolvesAddUp` |
| `RegistryTypeCorrect` | `TeamRegistry!TypeOK` |
| `NamesAreOwned` | `NameOwned`, with any number of deletions, signups, resets and session requests |
| `DeletionIsForGood` | `DeletedForGood`, with any number of deletions, signups, resets, session requests, faults and flushes |
| `BoardIsNeverNull` | `BoardNeverNull`, with any number of readers |
| `LimiterTypeCorrect` | `RateLimiter!LimiterTypeOK`: a stored bucket is neither full nor negative |
| `AdmissionBound`, `PathAdmissionBound` | `AdmissionBounded`, for the limiter and for the ask path |
| `ImplementsIdeal`, `PathImplementsIdeal` | `IdealBucket`: `RateLimiter`, and `AskPath`, implement `TokenBucket` |
| `PathTypeCorrect` | `AskPath!TypeOK` |
| `AnswersAreInTime` | `AnsweredInTime`, for every window, interval, rate and capacity |
| `AnswersTypeCorrect` | `SessionAnswers!TypeOK` |
| `WonAtMostOnce` | `WonOnce` |
| `LogIsTheKey` | `LogIsKey` |
| `HonestKeyHolds` | `HonestKeyAccepted` |
| `WaitingCostsNothing` | `WaitingIsFree` |
| `VerdictSurvives` | `VerdictTold` |
| `RoundTripHolds` | `RoundTrip`, for every text, key and size of a block |
| `PlayerReadsText` | `PlayerReads` |

*Mutual exclusion.* `LockInv`: a request past the lock is the value of its
session's lock key. Only that request's release, or a lease that ends under it,
takes it out.

*Atomic sessions.* `CopyInv`: the record a request is going to store is one the
rules allow from the record stored **now**. It is inductive because only a
request with the lock writes the session (`WriterAlone`); a `WriteSession` step is
then a step of `AtomicPlay` and every other step a stutter.

*Credited once.* `CreditInv` strengthens the property by what is still planned:
a request that has yet to issue `stats` works on a session not credited so far
and will have stored it as completed by then (the order of the handlers'
commands, `WriteBeforeStats`), and no planned write reopens a credited session.
The rules' part, that an outcome credits only an open session and keeps a closed
one closed, is proved per handler in `SessionRules_proof`.

*Records.* By `CopyInv` every step leaves a stored record alone or replaces it by
one the rules make of it (`StoredSteps`), so the action properties are facts about
the rules. `QuestionsCounted` is about one record and inductive: an ask counts
exactly when it makes a first decision. `CorrectGuessKept` is not: it must also be
known that the guess withheld is the correct one (`KeptRecord`), or its decryption
would end it as a miss.

*Order of commands.* `SlotInv`: a slot that is free, or that a request is going to
free, belongs to a session that is completed, or that this request completes
before. `AwardInv`: a milestone of a solve that is held or planned comes with a
credit that is there or planned before it. Both rest on the order of each
handler's commands (`WriteBeforeRemove`, `StatsBeforeAwards`), and both survive a
request that is cut off, because what is cut off are the *last* commands.

*Books.* The leaderboard differs from the score by what requests between the two
halves of their pipelines have already added to one of them. `PipelineInv` counts these
requests by amount; it holds with every fault, since a request is never cut off
between the halves. For the team, `TeamInv` says of each solved session that it is
counted, its character stored, its slot freed and its solve published, *or that a
request at work on it is going to do so*; when nobody is at work only the first
is left (`SettledTeam`). For the score there is one difficulty more: a penalty is
booked before the record that shows it is stored. In between, the request is
`Ahead` of its record, and `ScoreInv` counts such requests with the wrong guesses
and reveals. That a stored record then takes exactly one of them back needs
`OpenRecord`: an open session has a guess left and its target was not guessed.
In Stage 2 the score is not what the records say (`decryption_paid_twice`), hence
the restriction.

*Ends.* What `SessionEnds` knows of a session is computed from its record and from
the plan of the one request that is past the lock with something left to store or
to tell the team: `ending[s]` is what is left of that plan (`EndingView`). `EndsInv`
says what a plan means for the record stored now (`PlansEnd`): one that is going to
give back the slot stores a completed record, with nothing withheld if it is a
decryption's; any other lets the session go on. Taking the decision is a step of `Decide`, each command of the end one of `EndStep`, a request
that is cut off is `CutOff`, a command that fails is `Fails`, and all others are
stutters, those of other requests of the session included, because only the
holder of the lock has a plan.

*Slots.* The bound alone is not inductive, since a start that has passed the
check has still to add its session. `SlotInv` counts those starts with the
slots: a start enters the count only when the set is below the limit, moves from
one summand to the other with SADD, and every other step only shrinks both. The
type invariant needs `Targets`: a session that was ever stored has a target, and
only such a session ends, so what a solve adds to the solved set is a character.

*Starting and ending.* `OwnInv`: from its write to its pointer a start has a
session of its own. `HeldInv`: a start adds the slot before it makes the session
known, and a request that ends a session completes the record first, clears the
pointer and gives the slot back last; so, as long as requests are at most cut
off, whatever can be played holds a slot. `SerialInv` describes a team that plays
one session after another: one start or one live session at a time, and a start
that has read *all* solved characters (`FreshTarget`), or will clear the set
before anybody knows its session. So each solve adds a new character.

*Registry.* `FreshInv`: until its hash is written, only its own signup knows a
team. `NameInv`: a signup owns its name from HSETNX on, a deletion until it gives
the name up, after the hash that carries it. With two deletions of one team this
is false of that team's name: the second deletion gives it up when a new team may
have it already. The ghost `contested` holds such names. The damage does not
spread: two deletions of one team were both begun while it had its name
(`DeletionsMeet`), so the name either of them gives up is its own or contested.
`GoneInv` is the unconditional half of a deletion: a team has at most the name its
hash carries (`NamedOnce`), and what a deletion has removed of name, listing and named
hash stays removed, since only the team's own signup writes them (`Unlists`).
`ErasedInv` is the other half, for teams that are not haunted: what a deletion has
removed of hash, slots, boards and sessions stays removed, no request of the team is
at work, and every session that is still playable has been found and is yet to be
removed (`Erases`). It is inductive because the things that could write for the
team again each make it haunted, or need its hash or one of its sessions.
`BoardInv`: before the first flush nothing needs healing, after it a healed board
stays seeded.

*Rate limiter.* The argument is about credit, in parts of a token
(`TicksPerSecond` to the token, so that a tick earns `Rate`). `Credit` of a key never
exceeds a full bucket; an admission costs at least a token (`PaysOneToken`: the
truncation can only lose credit), a refusal means there is less than one
(`RefusedHasNone`), and a clean-up changes no credit because an idle bucket has
filled up by then (`IdleIsFull`). The last is where the assumption
`IdleLimit * Rate >= Capacity * TicksPerSecond` is needed: 10 minutes at the code's
rates earn 600 and 3000 tokens against capacities of 10 and 60. `Books`, admitted
tokens plus credit at most a full bucket plus what was earned, is the
strengthening of `AdmissionBounded`; the same lemmas make every step one of
`TokenBucket`. Every step of `AskPath` is one of the limiter or leaves it alone.

*Waiting client.* `Phase` is the time since the last chaos window began. `WaitInv`
relates it to how long a client has waited: inside a window, at most a token's gap
longer than the window is old; outside, it began to wait when the window was over,
or it has waited through it and has since earned what was earned since
(`Earning`). A client that was refused outside a window is poor (`RefusedIsPoor`),
so it cannot have waited for as long as a token takes. `TimeEnough` makes sure
that the gap between windows is longer than that.

*Answers.* Each property has an invariant of its own. `WonInv`: what the service
has told is within the bound, and strictly so while the session can still be
won (`Winnable`: it is open, or a verdict is withheld). `KeyInv`: for a question
without crossing asks or lost responses, at most one ask is open, what its
response will make of the log is what the record says, and answers are recorded
exactly when the decision not to encrypt is (`Recording`). `HonestInv`: the only open
request of a player has the key that the record demands now. `Owed`: the score
kept with a solve is at least its worth now; each term of the score falls with
time, questions and failures (`TimeMonotone`, `QuestionMonotone`), so the bound
survives every step. `VerdictHeld` says what the record must still show of a
verdict until its response was built.

*Ciphers.* No induction is needed, since every cipher is undone position by
position. A shift and its opposite bring a letter once around its alphabet, and a
shifted letter is a letter of the same case; so decryption counts the same letters
before each position as encryption did and finds the same letter of the keyword.
XOR with the same bit twice is nothing. The last byte of a padded text says how
much was added, also when that is a whole block. The GCM key cut to 16 bytes stays
what it is when cut again. For what the player reads, the pool of Stage 2 is hex
throughout, which is what the response to a withheld guess says.

Every safety property of the passing runs is a theorem, the two refinements of the
session and the one of the limiter included; those that need an assumption on the
faults or on the stage say so in the table. Only model-checked is liveness
(`RequestsEnd`, `LocksFreed`, `SolveReachesTeam`, `LockoutEnds`): the prover
reasons neither about fairness nor about `ENABLED`.

## 5. Not modelled

- *Boards and catalogs*: constant tables and a seeded shuffle; which board a seed
  gives matters to no other part. Any character may be the target.
- *Authentication*: checks a signed token and passes the team ID on; no state.
- *Logging and configuration*, and all of `main` but the routes' limits and the
  cancellation of slow requests.
- *AES, HKDF, bcrypt*: libraries. What they promise (AES opens what it sealed,
  different answers give different keys) is assumed.
- *Handlers that only read*: progress, leaderboard, status, the debug
  listings. Of the error classification only that a request answered with an
  error did nothing, or what its action says; status codes and texts are left out.
- *The minutes of the clean-up loop*: the model may clean up at any time.
- `UpdateFastestSolve`: it keeps a minimum of elapsed times.

## 6. Plan

Done, in this order: the rules and play of a session with its lock; their proofs;
starting and ending; the registry of teams; scoring, the rate limiter and chaos;
the answers and their proofs; the ciphers; the proofs of records and books, of
starting and ending, of the registry with logins, resets and failing requests, of
the waiting client and of the ciphers;
the end of a session as an abstract module that play implements and the team's
sessions use.

Open: the same for the registry, whose session requests are sets of commands
that are read off the handlers and not yet shown to be what `SessionPlay` and
`TeamSessions` issue.
