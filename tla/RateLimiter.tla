----------------------------- MODULE RateLimiter -----------------------------
(***************************************************************************)
(* The token buckets of the HTTP middleware (RateLimiter in                *)
(* middleware/rate_limiter.go): one bucket per client and path, made when  *)
(* the first request arrives, refilled by whole tokens when a request      *)
(* arrives, and forgotten by the clean-up loop when it was not refilled    *)
(* for IdleLimit.  The mutex makes every request and every clean-up one    *)
(* step.                                                                   *)
(*                                                                         *)
(* Time is counted in ticks, TicksPerSecond to the second; a request takes *)
(* no time.  `since` and `admitted` are observers: the number of requests  *)
(* admitted since an arbitrary moment.                                     *)
(***************************************************************************)
EXTENDS Integers

CONSTANTS
    Key,             \* client and path
    Capacity,        \* 10 for /sessions/start, 60 for /ask
    Rate,            \* tokens per second: 1 and 5
    TicksPerSecond,  \* resolution of the clock
    IdleLimit,       \* 10 minutes, in ticks
    Horizon,         \* bound on the clock, for TLC only
    None

\* A bucket that may be forgotten would be full: 600 s at 1/s against 10,
\* and at 5/s against 60.
ASSUME LimiterAssumption ==
    /\ Capacity \in Nat \ {0}
    /\ Rate \in Nat \ {0}
    /\ TicksPerSecond \in Nat \ {0}
    /\ IdleLimit \in Nat
    /\ IdleLimit * Rate >= Capacity * TicksPerSecond
    /\ Horizon \in Nat
    /\ None \notin [tokens : Nat, lastRefill : Nat]

VARIABLES
    now,
    bucket,          \* the map of buckets; None: no entry
    verdict,         \* what the last request of a key was told
    since, admitted  \* observers

limiterVars == <<now, bucket, verdict, since, admitted>>

LimiterInit ==
    /\ now = 0
    /\ bucket = [k \in Key |-> None]
    /\ verdict = [k \in Key |-> "none"]
    /\ since = 0
    /\ admitted = [k \in Key |-> 0]

-----------------------------------------------------------------------------
NewBucket == [tokens |-> Capacity, lastRefill |-> now]

Found(k) == IF bucket[k] = None THEN NewBucket ELSE bucket[k]

\* int(elapsed * refillRate): whole tokens only.
TokensToAdd(b) == ((now - b.lastRefill) * Rate) \div TicksPerSecond

\* Mutant: the refill is not capped.
RefilledUncapped(b) ==
    IF TokensToAdd(b) > 0
    THEN [tokens |-> b.tokens + TokensToAdd(b), lastRefill |-> now]
    ELSE b

\* Mutant: lastRefill moves although no whole token was earned.
RefilledAlways(b) ==
    [tokens     |-> IF b.tokens + TokensToAdd(b) > Capacity
                    THEN Capacity ELSE b.tokens + TokensToAdd(b),
     lastRefill |-> now]

\* The fraction of a token earned so far is lost when a token is added, and
\* kept when none is.
Refilled(b) ==
    IF TokensToAdd(b) > 0
    THEN [tokens     |-> IF b.tokens + TokensToAdd(b) > Capacity
                         THEN Capacity ELSE b.tokens + TokensToAdd(b),
          lastRefill |-> now]
    ELSE b

OneTokenLess(b) == [tokens |-> b.tokens - 1, lastRefill |-> b.lastRefill]

Admit(k) ==
    LET b == Refilled(Found(k))
    IN  /\ b.tokens > 0
        /\ bucket' = [bucket EXCEPT ![k] = OneTokenLess(b)]
        /\ verdict' = [verdict EXCEPT ![k] = "admitted"]
        /\ admitted' = [admitted EXCEPT ![k] = @ + 1]
        /\ UNCHANGED <<now, since>>

Refuse(k) ==
    LET b == Refilled(Found(k))
    IN  /\ ~(b.tokens > 0)
        /\ bucket' = [bucket EXCEPT ![k] = b]
        /\ verdict' = [verdict EXCEPT ![k] = "refused"]
        /\ UNCHANGED <<now, since, admitted>>

\* Mutant: every bucket that has not been refilled lately is forgotten.
IdleHalfway(k) ==
    /\ bucket[k] # None
    /\ 2 * (now - bucket[k].lastRefill) > IdleLimit

Idle(k) ==
    /\ bucket[k] # None
    /\ now - bucket[k].lastRefill > IdleLimit

\* One pass of cleanupLoop.  The ticker of the code makes it run every five
\* minutes; here it may run at any time.
Cleanup ==
    /\ \E k \in Key : Idle(k)
    /\ bucket' = [k \in Key |-> IF Idle(k) THEN None ELSE bucket[k]]
    /\ UNCHANGED <<now, verdict, since, admitted>>

Tick ==
    /\ now < Horizon
    /\ now' = now + 1
    /\ UNCHANGED <<bucket, verdict, since, admitted>>

\* Observer: start counting from here.
Observe ==
    /\ since' = now
    /\ admitted' = [k \in Key |-> 0]
    /\ UNCHANGED <<now, bucket, verdict>>

LimiterNext ==
    \/ \E k \in Key : Admit(k) \/ Refuse(k)
    \/ Cleanup \/ Tick \/ Observe

LimiterSpec == LimiterInit /\ [][LimiterNext]_limiterVars

-----------------------------------------------------------------------------
Bucket == [tokens : 0 .. Capacity - 1, lastRefill : 0 .. now]

\* Type invariant.  A stored bucket is never full: whoever fills it takes a
\* token.
LimiterTypeOK ==
    /\ now \in Nat
    /\ bucket \in [Key -> Bucket \cup {None}]
    /\ verdict \in [Key -> {"none", "admitted", "refused"}]
    /\ since \in 0 .. now
    /\ admitted \in [Key -> Nat]

\* Whatever the moments of the requests and of the clean-up, no key gets more
\* requests through in any stretch of time than the capacity and what the
\* rate earns meanwhile: neither cutting off fractions, nor forgetting a
\* bucket and making a full one again, lets more through (allow, cleanupLoop).
AdmissionBounded ==
    \A k \in Key :
        admitted[k] * TicksPerSecond
            <= Capacity * TicksPerSecond + (now - since) * Rate

\* The credit of the ideal bucket that bucket b of the code stands for at t.
CreditAt(b, t) ==
    LET earned == b.tokens * TicksPerSecond + (t - b.lastRefill) * Rate
    IN  IF earned > Capacity * TicksPerSecond
        THEN Capacity * TicksPerSecond ELSE earned

Credit(k) == CreditAt(Found(k), now)

\* The limiter implements the ideal bucket: it never admits what the ideal
\* bucket would refuse, and refuses only what has not earned a whole token,
\* so a client that leaves 1/Rate seconds between its requests is not starved
\* by cut-off fractions however often it was refused (allow, lines 92-109).
Ideal == INSTANCE TokenBucket WITH credit  <- [k \in Key |-> Credit(k)],
                                   verdict <- verdict
IdealBucket == Ideal!Spec
=============================================================================
