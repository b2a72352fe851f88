------------------------------- MODULE AskPath -------------------------------
(***************************************************************************)
(* The way of a POST /sessions/{sessionId}/ask request to its answer: the  *)
(* rate limiter of the middleware (RateLimiter) in front of the handler,   *)
(* which the chaos service lets fail during a chaos window.  Both go by    *)
(* the same clock; the clock starts with the session.                      *)
(*                                                                         *)
(* A client that wants an answer repeats its request every tick until it   *)
(* gets one.  `patient` says whether this client is the only one to use    *)
(* its key; if not, requests come at any time and in any number.           *)
(***************************************************************************)
EXTENDS RateLimiter

CONSTANTS
    Ask,                                \* the key of the patient client
    EnvWindow, EnvInterval,             \* CHAOS_WINDOW_SECONDS, 0: not set
    DefaultWindow, DefaultInterval,     \* 90 and 240
    Setting,                            \* seconds an organiser may configure
    MaxTriggers                         \* bound on reconfigurations

ASSUME AskAssumption ==
    /\ Ask \in Key
    /\ EnvWindow \in Nat /\ EnvInterval \in Nat
    /\ DefaultWindow \in Nat \ {0} /\ DefaultInterval \in Nat \ {0}
    /\ Setting \subseteq Nat
    /\ MaxTriggers \in Nat

VARIABLES
    enabled,         \* chaosService.enabled
    window,          \* chaosService.windowSeconds
    interval,        \* chaosService.intervalSeconds
    triggers,        \* bounds TriggerChaos
    patient,         \* the client is alone on its key
    waiting,         \* it wants an answer,
    tried,           \* has asked in this tick,
    waited           \* and has been waiting for that many ticks

chaosVars  == <<enabled, window, interval, triggers>>
clientVars == <<waiting, tried, waited>>
vars == <<limiterVars, chaosVars, clientVars, patient>>

\* NewChaosService replaces values that are not positive.
Init ==
    /\ LimiterInit
    /\ enabled \in BOOLEAN
    /\ window = IF EnvWindow > 0 THEN EnvWindow ELSE DefaultWindow
    /\ interval = IF EnvInterval > 0 THEN EnvInterval ELSE DefaultInterval
    /\ triggers = 0
    /\ patient \in BOOLEAN
    /\ waiting = FALSE /\ tried = FALSE /\ waited = 0

-----------------------------------------------------------------------------
\* TriggerChaos.  The switch and the window are set under the lock one after
\* the other, so two organisers may interleave: two actions.
Switch ==
    /\ triggers < MaxTriggers
    /\ triggers' = triggers + 1
    /\ enabled' \in BOOLEAN
    /\ UNCHANGED <<limiterVars, clientVars, patient, window, interval>>

SetWindowConfig ==
    /\ triggers < MaxTriggers
    /\ triggers' = triggers + 1
    /\ \E w \in Setting, i \in Setting :
          /\ window' = IF w > 0 THEN w ELSE window
          /\ interval' = IF i > 0 THEN i ELSE interval
    /\ UNCHANGED <<limiterVars, clientVars, patient, enabled>>

\* Mutant: the window in force is the one the organiser has set last.
WindowOfService == window

\* The session carries the profile it was given at its start, that is the
\* configuration of the process; only where that is 0 the service's own
\* value is used.
WindowSeconds   == IF EnvWindow = 0 THEN window ELSE EnvWindow
IntervalSeconds == IF EnvInterval = 0 THEN interval ELSE EnvInterval

\* int(elapsed) % int(interval) < window
IsInChaosWindow ==
    /\ enabled
    /\ (now \div TicksPerSecond) % IntervalSeconds < WindowSeconds

-----------------------------------------------------------------------------
\* The client makes up its mind.
WantAnswer ==
    /\ patient /\ ~waiting
    /\ waiting' = TRUE /\ tried' = FALSE /\ waited' = 0
    /\ UNCHANGED <<limiterVars, chaosVars, patient>>

MayTry == patient /\ waiting /\ ~tried

\* 429 from the limiter.
AskRefused ==
    /\ MayTry
    /\ Refuse(Ask)
    /\ tried' = TRUE
    /\ UNCHANGED <<chaosVars, waiting, waited, patient>>

\* The request takes a token and then fails by chaos: 60% of the rolls.
AskFails ==
    /\ MayTry
    /\ IsInChaosWindow
    /\ Admit(Ask)
    /\ tried' = TRUE
    /\ UNCHANGED <<chaosVars, waiting, waited, patient>>

AskAnswered ==
    /\ MayTry
    /\ Admit(Ask)
    /\ waiting' = FALSE /\ tried' = FALSE /\ waited' = 0
    /\ UNCHANGED <<chaosVars, patient>>

\* Requests that use other keys, or the key of a client that is not alone.
OtherRequest(k) ==
    /\ patient => k # Ask
    /\ Admit(k) \/ Refuse(k)
    /\ UNCHANGED <<chaosVars, clientVars, patient>>

Background ==
    /\ Cleanup \/ Observe
    /\ UNCHANGED <<chaosVars, clientVars, patient>>

\* A waiting client does not let a tick pass without asking.
TimePasses ==
    /\ waiting => tried
    /\ Tick
    /\ tried' = FALSE
    /\ waited' = IF waiting THEN waited + 1 ELSE 0
    /\ UNCHANGED <<chaosVars, waiting, patient>>

Next ==
    \/ Switch \/ SetWindowConfig
    \/ WantAnswer \/ AskRefused \/ AskFails \/ AskAnswered
    \/ \E k \in Key : OtherRequest(k)
    \/ Background \/ TimePasses

Spec == Init /\ [][Next]_vars

-----------------------------------------------------------------------------
\* Type invariant.
TypeOK ==
    /\ LimiterTypeOK
    /\ enabled \in BOOLEAN
    /\ window \in Nat \ {0} /\ interval \in Nat \ {0}
    /\ triggers \in 0 .. MaxTriggers
    /\ patient \in BOOLEAN /\ waiting \in BOOLEAN /\ tried \in BOOLEAN
    /\ waited \in Nat

\* Ticks between the tokens, rounded up.
TokenGap == (TicksPerSecond + Rate - 1) \div Rate

\* Between two chaos windows there is time to earn a token.
TimeEnough ==
    EnvWindow > 0 /\ (EnvInterval - EnvWindow) * TicksPerSecond >= TokenGap

\* A client that repeats its request every tick is answered when the chaos
\* window is over and a token was earned: neither the requests the limiter
\* refused, nor the tokens its failed requests have cost, nor an organiser
\* who switches and reconfigures chaos meanwhile keep it waiting longer
\* (allow, ShouldFail, isInChaosWindow).
AnsweredInTime ==
    TimeEnough => waited < EnvWindow * TicksPerSecond + 2 * TokenGap
=============================================================================
