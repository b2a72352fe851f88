---------------------------- MODULE AskPath_proof ----------------------------
(***************************************************************************)
(* The rate limiter lets no more through than capacity and rate allow, and *)
(* implements the ideal bucket, for every capacity, rate, resolution of    *)
(* the clock and set of keys, with eviction at any time; the ask path uses *)
(* the limiter only in ways LimiterSpec has; and a client that keeps asking*)
(* is answered in time (PathTypeCorrect, AnswersAreInTime).                *)
(*                                                                         *)
(* The argument is about credit: the credit of the ideal bucket a stored   *)
(* bucket stands for.  A refill moves the fraction of a token from the     *)
(* clock to nowhere, so that a request pays one token and loses less than  *)
(* another (PaysOneToken); a refused one has less than a token and changes *)
(* nothing (RefusedHasNone); an idle bucket is full when it is forgotten   *)
(* (IdleIsFull).  WaitInv adds what a waiting client has earned since the  *)
(* last chaos window began.                                                *)
(***************************************************************************)
EXTENDS AskPath, TLAPS

-----------------------------------------------------------------------------
(* Arithmetic *)

\* What int(x / d) cuts off is less than one.
LEMMA Truncation ==
    ASSUME NEW n \in Nat, NEW d \in Nat \ {0}
    PROVE  /\ n \div d \in Nat
           /\ (n \div d) * d <= n
           /\ n < (n \div d) * d + d
    BY SMT

LEMMA Distributes ==
    ASSUME NEW a \in Int, NEW b \in Int, NEW r \in Int
    PROVE  (a + b) * r = a * r + b * r
    BY SMT

LEMMA TimesMonotone ==
    ASSUME NEW a \in Nat, NEW b \in Nat, NEW r \in Nat, b <= a
    PROVE  b * r <= a * r
    BY SMT

LEMMA ProductNat ==
    ASSUME NEW a \in Nat, NEW b \in Nat
    PROVE  a * b \in Nat
    BY SMT

Full == Capacity * TicksPerSecond

LEMMA FullNat == Full \in Nat /\ Full >= TicksPerSecond
<1>1. Full \in Nat
    BY LimiterAssumption, ProductNat DEF Full
<1>2. 1 * TicksPerSecond <= Capacity * TicksPerSecond
    BY LimiterAssumption, TimesMonotone
<1> QED
    BY <1>1, <1>2, LimiterAssumption DEF Full

-----------------------------------------------------------------------------
(* Buckets and credit *)

AnyBucket(t) == [tokens : 0 .. Capacity, lastRefill : 0 .. t]

\* The parts of a token earned since the last refill.
Earned(b, t) == (t - b.lastRefill) * Rate

LEMMA EarnedNat ==
    ASSUME NEW t \in Nat, NEW b \in AnyBucket(t)
    PROVE  /\ Earned(b, t) \in Nat
           /\ b.lastRefill = t => Earned(b, t) = 0
           /\ Earned(b, t + 1) = Earned(b, t) + Rate
<1>1. t - b.lastRefill \in Nat
    BY DEF AnyBucket
<1>2. Earned(b, t) \in Nat
    BY <1>1, LimiterAssumption, ProductNat DEF Earned
<1>3. b.lastRefill = t => Earned(b, t) = 0
    BY <1>1, LimiterAssumption DEF Earned
<1>4. ((t - b.lastRefill) + 1) * Rate = (t - b.lastRefill) * Rate + 1 * Rate
    BY <1>1, LimiterAssumption, Distributes
<1>5. t + 1 - b.lastRefill = (t - b.lastRefill) + 1
    BY DEF AnyBucket
<1>6. 1 * Rate = Rate
    BY LimiterAssumption
<1>7. Earned(b, t + 1) = Earned(b, t) + Rate
    BY <1>1, <1>4, <1>5, <1>6, LimiterAssumption DEF Earned, AnyBucket
<1> QED
    BY <1>2, <1>3, <1>7

LEMMA TokensToAddNat ==
    ASSUME now \in Nat, NEW b \in AnyBucket(now)
    PROVE  /\ TokensToAdd(b) \in Nat
           /\ TokensToAdd(b) * TicksPerSecond <= Earned(b, now)
           /\ Earned(b, now) < TokensToAdd(b) * TicksPerSecond + TicksPerSecond
<1>1. TokensToAdd(b) = Earned(b, now) \div TicksPerSecond
    BY DEF TokensToAdd, Earned
<1> QED
    BY <1>1, EarnedNat, Truncation, LimiterAssumption

LEMMA CreditIs ==
    ASSUME NEW t \in Nat, NEW b \in AnyBucket(t)
    PROVE  /\ b.tokens * TicksPerSecond \in 0 .. Full
           /\ CreditAt(b, t) =
                IF b.tokens * TicksPerSecond + Earned(b, t) > Full
                THEN Full ELSE b.tokens * TicksPerSecond + Earned(b, t)
           /\ CreditAt(b, t) \in 0 .. Full
<1>1. b.tokens \in Nat /\ b.tokens <= Capacity
    BY LimiterAssumption DEF AnyBucket
<1>2. b.tokens * TicksPerSecond \in Nat
    BY <1>1, LimiterAssumption, ProductNat
<1>3. b.tokens * TicksPerSecond <= Full
    BY <1>1, LimiterAssumption, TimesMonotone DEF Full
<1>4. CreditAt(b, t) = IF b.tokens * TicksPerSecond + Earned(b, t) > Full
                       THEN Full ELSE b.tokens * TicksPerSecond + Earned(b, t)
    BY DEF CreditAt, Earned, Full
<1> QED
    BY <1>2, <1>3, <1>4, EarnedNat, FullNat

\* A new bucket is full.
LEMMA NewIsFull ==
    ASSUME NEW t \in Nat
    PROVE  /\ [tokens |-> Capacity, lastRefill |-> t] \in AnyBucket(t)
           /\ CreditAt([tokens |-> Capacity, lastRefill |-> t], t) = Full
<1> DEFINE b == [tokens |-> Capacity, lastRefill |-> t]
<1>1. b \in AnyBucket(t)
    BY LimiterAssumption DEF AnyBucket
<1>2. Earned(b, t) = 0
    BY <1>1, EarnedNat
<1>3. b.tokens * TicksPerSecond = Full
    BY DEF Full
<1> QED
    BY <1>1, <1>2, <1>3, CreditIs, FullNat

\* One tick earns Rate parts of a token, up to a full bucket.
LEMMA TickEarns ==
    ASSUME NEW t \in Nat, NEW b \in AnyBucket(t)
    PROVE  /\ b \in AnyBucket(t + 1)
           /\ CreditAt(b, t + 1) = IF CreditAt(b, t) + Rate > Full
                                   THEN Full ELSE CreditAt(b, t) + Rate
<1>1. b \in AnyBucket(t + 1)
    BY DEF AnyBucket
<1>2. t + 1 \in Nat
    OBVIOUS
<1>3. Earned(b, t + 1) = Earned(b, t) + Rate /\ Earned(b, t) \in Nat
    BY EarnedNat
<1>4. Rate \in Nat
    BY LimiterAssumption
<1>5. /\ CreditAt(b, t) = IF b.tokens * TicksPerSecond + Earned(b, t) > Full
                          THEN Full ELSE b.tokens * TicksPerSecond + Earned(b, t)
      /\ b.tokens * TicksPerSecond \in 0 .. Full
    BY CreditIs
<1>6. CreditAt(b, t + 1) =
        IF b.tokens * TicksPerSecond + Earned(b, t + 1) > Full
        THEN Full ELSE b.tokens * TicksPerSecond + Earned(b, t + 1)
    BY <1>1, <1>2, CreditIs
<1> QED
    BY <1>1, <1>3, <1>4, <1>5, <1>6, FullNat

-----------------------------------------------------------------------------
(* One request *)

\* A bucket at the moment a request finds it: stored or new.
LEMMA FoundIsBucket ==
    ASSUME LimiterTypeOK, NEW k \in Key
    PROVE  /\ Found(k) \in AnyBucket(now)
           /\ Found(k).tokens = Capacity => Found(k).lastRefill = now
           /\ bucket[k] = None => Found(k).tokens = Capacity
<1>1. CASE bucket[k] = None
    BY <1>1, LimiterAssumption DEF Found, NewBucket, AnyBucket, LimiterTypeOK
<1>2. CASE bucket[k] # None
    <2>1. bucket[k] \in Bucket
        BY <1>2 DEF LimiterTypeOK
    <2>2. Found(k) = bucket[k]
        BY <1>2 DEF Found
    <2> QED
        BY <1>2, <2>1, <2>2, LimiterAssumption DEF Bucket, AnyBucket
<1> QED
    BY <1>1, <1>2

\* An admitted request pays one token of credit and loses less than another.
LEMMA PaysOneToken ==
    ASSUME LimiterTypeOK, NEW k \in Key, Refilled(Found(k)).tokens > 0
    PROVE  LET p == OneTokenLess(Refilled(Found(k)))
           IN  /\ p \in Bucket
               /\ Credit(k) - TicksPerSecond - CreditAt(p, now)
                     \in 0 .. TicksPerSecond - 1
<1> DEFINE f == Found(k)
           b == Refilled(f)
           p == OneTokenLess(b)
           a == TokensToAdd(f)
           e == Earned(f, now)
           D == TicksPerSecond
<1>1. now \in Nat /\ D \in Nat \ {0} /\ Capacity \in Nat \ {0}
    BY LimiterAssumption DEF LimiterTypeOK
<1>2. f \in AnyBucket(now) /\ (f.tokens = Capacity => f.lastRefill = now)
    BY FoundIsBucket
<1>3. f.tokens \in 0 .. Capacity /\ f.lastRefill \in 0 .. now
    BY <1>2 DEF AnyBucket
<1>4. a \in Nat /\ a * D <= e /\ e < a * D + D /\ e \in Nat
    BY <1>1, <1>2, TokensToAddNat, EarnedNat
<1>5. Credit(k) = IF f.tokens * D + e > Full THEN Full ELSE f.tokens * D + e
    BY <1>1, <1>2, CreditIs DEF Credit
<1>6. CASE ~(a > 0)
    <2>1. b = f /\ a * D = 0
        BY <1>1, <1>4, <1>6 DEF Refilled
    <2>2. p = [tokens |-> f.tokens - 1, lastRefill |-> f.lastRefill]
        BY <2>1 DEF OneTokenLess
    <2>3. f.tokens > 0
        BY <2>1
    <2>4. p \in Bucket /\ p \in AnyBucket(now)
        BY <2>2, <2>3, <1>3, <1>1 DEF Bucket, AnyBucket
    <2>5. Earned(p, now) = e
        BY <2>2 DEF Earned
    <2>6. p.tokens * D = f.tokens * D - D
        <3>1. (f.tokens + (-1)) * D = f.tokens * D + (-1) * D
            BY <1>1, <1>3, Distributes
        <3> QED
            BY <3>1, <2>2, <1>1, <1>3
    <2>7. CreditAt(p, now) = IF f.tokens * D - D + e > Full
                             THEN Full ELSE f.tokens * D - D + e
        BY <1>1, <2>4, <2>5, <2>6, CreditIs
    <2>8. f.tokens * D \in 0 .. Full
        BY <1>1, <1>2, CreditIs
    <2>9. CASE f.tokens = Capacity
        <3>1. e = 0
            BY <1>1, <1>2, <2>9, EarnedNat
        <3> QED
            BY <3>1, <2>7, <2>8, <1>5, <1>1, <2>4, FullNat
    <2>10. CASE f.tokens # Capacity
        <3>1. (f.tokens + 1) * D = f.tokens * D + 1 * D
            BY <1>1, <1>3, Distributes
        <3>2. (f.tokens + 1) * D <= Full
            BY <2>10, <1>1, <1>3, TimesMonotone DEF Full
        <3>3. e < D
            BY <2>1, <1>1, <1>4
        <3>4. 1 * D = D
            BY <1>1
        <3>5. f.tokens * D + e <= Full
            BY <3>1, <3>2, <3>3, <3>4, <2>8, <1>1, <1>4, FullNat
        <3> QED
            BY <3>5, <2>7, <2>8, <1>5, <1>1, <1>4, <2>4, FullNat
    <2> QED
        BY <2>9, <2>10
<1>7. CASE a > 0 /\ f.tokens + a > Capacity
    <2>1. b = [tokens |-> Capacity, lastRefill |-> now]
        BY <1>7 DEF Refilled
    <2>2. p = [tokens |-> Capacity - 1, lastRefill |-> now]
        BY <2>1 DEF OneTokenLess
    <2>3. p \in Bucket /\ p \in AnyBucket(now)
        BY <2>2, <1>1 DEF Bucket, AnyBucket
    <2>4. Earned(p, now) = 0
        BY <2>2, <2>3, <1>1, EarnedNat
    <2>5. p.tokens * D = Full - D
        <3>1. (Capacity + (-1)) * D = Capacity * D + (-1) * D
            BY <1>1, Distributes
        <3> QED
            BY <3>1, <2>2, <1>1 DEF Full
    <2>6. CreditAt(p, now) = Full - D
        BY <2>3, <2>4, <2>5, <1>1, CreditIs, FullNat
    <2>7. Credit(k) = Full
        <3>1. (f.tokens + a) * D = f.tokens * D + a * D
            BY <1>1, <1>3, <1>4, Distributes
        <3>2. (Capacity + 1) * D <= (f.tokens + a) * D
            BY <1>7, <1>1, <1>3, <1>4, TimesMonotone
        <3>3. (Capacity + 1) * D = Full + 1 * D
            BY <1>1, Distributes DEF Full
        <3>4. f.tokens * D \in 0 .. Full /\ a * D \in Nat
            BY <1>1, <1>2, <1>4, CreditIs, ProductNat
        <3> QED
            BY <3>1, <3>2, <3>3, <3>4, <1>1, <1>4, <1>5, FullNat
    <2> QED
        BY <2>3, <2>6, <2>7, <1>1, FullNat
<1>8. CASE a > 0 /\ ~(f.tokens + a > Capacity)
    <2>1. b = [tokens |-> f.tokens + a, lastRefill |-> now]
        BY <1>8 DEF Refilled
    <2>2. p = [tokens |-> f.tokens + a - 1, lastRefill |-> now]
        BY <2>1, <1>1, <1>3, <1>4 DEF OneTokenLess
    <2>3. p \in Bucket /\ p \in AnyBucket(now)
        BY <2>2, <1>1, <1>3, <1>4, <1>8 DEF Bucket, AnyBucket
    <2>4. Earned(p, now) = 0
        BY <2>2, <2>3, <1>1, EarnedNat
    <2>5. (f.tokens + a) * D = f.tokens * D + a * D
        BY <1>1, <1>3, <1>4, Distributes
    <2>6. p.tokens * D = f.tokens * D + a * D - D
        <3> DEFINE x == f.tokens + a
        <3>1. x \in Int /\ p.tokens = x + (-1)
            BY <2>2, <1>1, <1>3, <1>4
        <3> HIDE DEF x
        <3>2. (x + (-1)) * D = x * D + (-1) * D
            BY <3>1, <1>1, Distributes
        <3>3. x * D \in Int /\ (-1) * D = -D
            BY <3>1, <1>1
        <3>4. p.tokens * D = x * D - D
            BY <3>1, <3>2, <3>3, <1>1
        <3> QED
            BY <3>1, <3>4, <2>5, <1>1, <1>3, <1>4 DEF x
    <2>7. f.tokens * D \in 0 .. Full /\ a * D \in Nat
        BY <1>1, <1>2, <1>4, CreditIs, ProductNat
    <2>8. (f.tokens + a) * D <= Full
        BY <1>8, <1>1, <1>3, <1>4, TimesMonotone DEF Full
    <2>9. CreditAt(p, now) = f.tokens * D + a * D - D
        BY <2>3, <2>4, <2>5, <2>6, <2>7, <2>8, <1>1, CreditIs, FullNat
    <2> QED
        BY <2>3, <2>5, <2>7, <2>8, <2>9, <1>1, <1>4, <1>5, FullNat
<1> QED
    BY <1>6, <1>7, <1>8

\* A refused request has less than a token of credit and changes nothing.
LEMMA RefusedHasNone ==
    ASSUME LimiterTypeOK, NEW k \in Key, ~(Refilled(Found(k)).tokens > 0)
    PROVE  /\ Refilled(Found(k)) = bucket[k]
           /\ Credit(k) < TicksPerSecond
<1> DEFINE f == Found(k)
           a == TokensToAdd(f)
<1>1. now \in Nat /\ TicksPerSecond \in Nat \ {0} /\ Capacity \in Nat \ {0}
    BY LimiterAssumption DEF LimiterTypeOK
<1>2. f \in AnyBucket(now) /\ (bucket[k] = None => f.tokens = Capacity)
    BY FoundIsBucket
<1>3. f.tokens \in 0 .. Capacity
    BY <1>2 DEF AnyBucket
<1>4. a \in Nat
    BY <1>1, <1>2, TokensToAddNat
<1>5. ~(a > 0)
    BY <1>1, <1>3, <1>4 DEF Refilled
<1>6. Refilled(f) = f /\ f.tokens = 0
    BY <1>3, <1>5 DEF Refilled
<1>7. f = bucket[k]
    BY <1>1, <1>2, <1>6 DEF Found
<1>8. Earned(f, now) < TicksPerSecond /\ Earned(f, now) \in Nat
    <2>1. a * TicksPerSecond = 0
        BY <1>1, <1>4, <1>5
    <2> QED
        BY <2>1, <1>1, <1>2, TokensToAddNat, EarnedNat
<1>9. f.tokens * TicksPerSecond = 0
    BY <1>1, <1>6
<1> QED
    BY <1>1, <1>2, <1>6, <1>7, <1>8, <1>9, CreditIs, FullNat DEF Credit

\* A bucket that is forgotten has the credit of a new one.
LEMMA IdleIsFull ==
    ASSUME LimiterTypeOK, NEW k \in Key, Idle(k)
    PROVE  Credit(k) = Full
<1>1. now \in Nat /\ Rate \in Nat /\ IdleLimit \in Nat
    BY LimiterAssumption DEF LimiterTypeOK
<1>2. Found(k) = bucket[k] /\ Found(k) \in AnyBucket(now)
    BY FoundIsBucket DEF Idle, Found
<1>3. now - Found(k).lastRefill \in Nat /\ IdleLimit <= now - Found(k).lastRefill
    BY <1>1, <1>2 DEF Idle, AnyBucket
<1>4. IdleLimit * Rate <= Earned(Found(k), now)
    BY <1>1, <1>3, TimesMonotone DEF Earned
<1>5. Full <= Earned(Found(k), now)
    BY <1>1, <1>2, <1>4, EarnedNat, FullNat, ProductNat, LimiterAssumption DEF Full
<1> QED
    BY <1>1, <1>2, <1>5, CreditIs, EarnedNat, FullNat DEF Credit

-----------------------------------------------------------------------------
(* What each action does to the credit *)

LEMMA AdmitCredit ==
    ASSUME LimiterTypeOK, NEW k \in Key, Admit(k)
    PROVE  /\ \A j \in Key \ {k} : Credit(j)' = Credit(j)
           /\ Credit(k) - TicksPerSecond - Credit(k)' \in 0 .. TicksPerSecond - 1
           /\ Credit(k)' \in 0 .. Full
           /\ bucket' \in [Key -> Bucket \cup {None}]
<1> DEFINE p == OneTokenLess(Refilled(Found(k)))
<1>1. Refilled(Found(k)).tokens > 0 /\ bucket' = [bucket EXCEPT ![k] = p]
    BY DEF Admit
<1>2. now' = now
    BY DEF Admit
<1>3. p \in Bucket
    BY <1>1, PaysOneToken
<1>4. Credit(k) - TicksPerSecond - CreditAt(p, now) \in 0 .. TicksPerSecond - 1
    BY <1>1, PaysOneToken
<1> HIDE DEF p
<1>5. bucket \in [Key -> Bucket \cup {None}]
    BY DEF LimiterTypeOK
<1>6. bucket' \in [Key -> Bucket \cup {None}]
    BY <1>1, <1>3, <1>5
<1>7. \A j \in Key \ {k} : bucket'[j] = bucket[j]
    BY <1>1, <1>5
<1>8. bucket'[k] = p /\ p # None
    <2>1. p \in [tokens : Nat, lastRefill : Nat]
        BY <1>3, LimiterAssumption DEF Bucket, LimiterTypeOK
    <2> QED
        BY <2>1, <1>1, <1>5, LimiterAssumption
<1>9. Credit(k)' = CreditAt(p, now)
    BY <1>2, <1>8 DEF Credit, Found, CreditAt
<1>10. \A j \in Key \ {k} : Credit(j)' = Credit(j)
    BY <1>2, <1>7 DEF Credit, Found, CreditAt, NewBucket
<1>11. CreditAt(p, now) \in 0 .. Full
    <2>1. p \in AnyBucket(now) /\ now \in Nat
        BY <1>3, LimiterAssumption DEF Bucket, AnyBucket, LimiterTypeOK
    <2> QED
        BY <2>1, CreditIs
<1> QED
    BY <1>4, <1>6, <1>9, <1>10, <1>11

LEMMA RefuseCredit ==
    ASSUME LimiterTypeOK, NEW k \in Key, Refuse(k)
    PROVE  /\ \A j \in Key : Credit(j)' = Credit(j)
           /\ Credit(k) < TicksPerSecond
           /\ bucket' = bucket
<1>1. bucket \in [Key -> Bucket \cup {None}]
    BY DEF LimiterTypeOK
<1>2. bucket' = bucket
    BY <1>1, RefusedHasNone DEF Refuse
<1>3. now' = now
    BY DEF Refuse
<1>4. \A j \in Key : Credit(j)' = Credit(j)
    BY <1>2, <1>3 DEF Credit, Found, CreditAt, NewBucket
<1> QED
    BY <1>2, <1>4, RefusedHasNone DEF Refuse

LEMMA CleanupCredit ==
    ASSUME LimiterTypeOK, Cleanup
    PROVE  /\ \A j \in Key : Credit(j)' = Credit(j)
           /\ bucket' \in [Key -> Bucket \cup {None}]
<1>1. bucket' = [k \in Key |-> IF Idle(k) THEN None ELSE bucket[k]] /\ now' = now
    BY DEF Cleanup
<1>2. bucket' \in [Key -> Bucket \cup {None}]
    BY <1>1 DEF LimiterTypeOK
<1>3. ASSUME NEW j \in Key
      PROVE  Credit(j)' = Credit(j)
    <2>1. CASE Idle(j)
        <3>1. bucket'[j] = None
            BY <1>1, <2>1
        <3>2. Credit(j)' = CreditAt([tokens |-> Capacity, lastRefill |-> now], now)
            BY <1>1, <3>1 DEF Credit, Found, CreditAt, NewBucket
        <3> QED
            BY <2>1, <3>2, NewIsFull, IdleIsFull DEF LimiterTypeOK
    <2>2. CASE ~Idle(j)
        <3>1. bucket'[j] = bucket[j]
            BY <1>1, <2>2
        <3> QED
            BY <1>1, <3>1 DEF Credit, Found, CreditAt, NewBucket
    <2> QED
        BY <2>1, <2>2
<1> QED
    BY <1>2, <1>3

LEMMA TickCredit ==
    ASSUME LimiterTypeOK, Tick
    PROVE  \A j \in Key : Credit(j)' = IF Credit(j) + Rate > Full
                                       THEN Full ELSE Credit(j) + Rate
<1> SUFFICES ASSUME NEW j \in Key
             PROVE  Credit(j)' = IF Credit(j) + Rate > Full
                                 THEN Full ELSE Credit(j) + Rate
    OBVIOUS
<1>1. bucket' = bucket /\ now' = now + 1 /\ now \in Nat
    BY DEF Tick, LimiterTypeOK
<1>2. CASE bucket[j] = None
    <2>1. Credit(j) = Full
        BY <1>1, <1>2, NewIsFull DEF Credit, Found, NewBucket
    <2>2. Credit(j)' = CreditAt([tokens |-> Capacity, lastRefill |-> now + 1], now + 1)
        BY <1>1, <1>2 DEF Credit, Found, CreditAt, NewBucket
    <2>3. Credit(j)' = Full
        BY <1>1, <2>2, NewIsFull
    <2> QED
        BY <2>1, <2>3, FullNat, LimiterAssumption
<1>3. CASE bucket[j] # None
    <2>1. Found(j) \in AnyBucket(now)
        BY FoundIsBucket
    <2>2. Credit(j)' = CreditAt(Found(j), now + 1)
        BY <1>1, <1>3 DEF Credit, Found, CreditAt
    <2> QED
        BY <1>1, <2>1, <2>2, TickEarns DEF Credit
<1> QED
    BY <1>2, <1>3

LEMMA ObserveCredit ==
    ASSUME LimiterTypeOK, UNCHANGED <<now, bucket>>
    PROVE  \A j \in Key : Credit(j)' = Credit(j)
    BY DEF Credit, Found, CreditAt, NewBucket

LEMMA CreditNat ==
    ASSUME LimiterTypeOK, NEW k \in Key
    PROVE  Credit(k) \in 0 .. Full
    BY FoundIsBucket, CreditIs DEF Credit, LimiterTypeOK

-----------------------------------------------------------------------------
(* Type correctness *)

LEMMA LimiterTypeInit == LimiterInit => LimiterTypeOK
    BY DEF LimiterInit, LimiterTypeOK

LEMMA LimiterTypeNext ==
    ASSUME LimiterTypeOK, [LimiterNext]_limiterVars
    PROVE  LimiterTypeOK'
<1> USE DEF LimiterTypeOK
<1>1. ASSUME NEW k \in Key, Admit(k)
      PROVE  LimiterTypeOK'
    <2>1. bucket' \in [Key -> Bucket \cup {None}]
        BY <1>1, AdmitCredit
    <2> QED
        BY <1>1, <2>1 DEF Admit, Bucket
<1>2. ASSUME NEW k \in Key, Refuse(k)
      PROVE  LimiterTypeOK'
    <2>1. bucket' = bucket
        BY <1>2, RefuseCredit
    <2> QED
        BY <1>2, <2>1 DEF Refuse, Bucket
<1>3. CASE Cleanup
    <2>1. bucket' \in [Key -> Bucket \cup {None}]
        BY <1>3, CleanupCredit
    <2> QED
        BY <1>3, <2>1 DEF Cleanup, Bucket
<1>4. CASE Tick
    <2>1. now' \in Nat /\ Bucket \subseteq Bucket'
        BY <1>4 DEF Tick, Bucket
    <2> QED
        BY <1>4, <2>1 DEF Tick
<1>5. CASE Observe
    BY <1>5 DEF Observe, Bucket
<1>6. CASE UNCHANGED limiterVars
    BY <1>6 DEF limiterVars, Bucket
<1> QED
    BY <1>1, <1>2, <1>3, <1>4, <1>5, <1>6 DEF LimiterNext

\* The limiter keeps its declared types; a stored bucket is never full.
THEOREM LimiterTypeCorrect == LimiterSpec => []LimiterTypeOK
<1>1. LimiterInit => LimiterTypeOK
    BY LimiterTypeInit
<1>2. LimiterTypeOK /\ [LimiterNext]_limiterVars => LimiterTypeOK'
    BY LimiterTypeNext
<1> QED
    BY <1>1, <1>2, PTL DEF LimiterSpec

-----------------------------------------------------------------------------
(* The bound *)

\* Inductive: what was admitted, and the credit that is left, was either
\* there at the beginning or earned since.
Books ==
    \A k \in Key : admitted[k] * TicksPerSecond + Credit(k)
                      <= Full + (now - since) * Rate

LEMMA BooksInit == LimiterInit => Books
<1> SUFFICES ASSUME LimiterInit, NEW k \in Key
             PROVE  admitted[k] * TicksPerSecond + Credit(k)
                       <= Full + (now - since) * Rate
    BY DEF Books
<1>1. admitted[k] * TicksPerSecond = 0 /\ (now - since) * Rate = 0
    BY LimiterAssumption DEF LimiterInit
<1>2. Credit(k) \in 0 .. Full
    BY CreditNat, LimiterTypeInit
<1> QED
    BY <1>1, <1>2, FullNat

LEMMA BooksNext ==
    ASSUME LimiterTypeOK, LimiterTypeOK', Books, [LimiterNext]_limiterVars
    PROVE  Books'
<1> SUFFICES ASSUME NEW k \in Key
             PROVE  admitted'[k] * TicksPerSecond + Credit(k)'
                       <= Full + (now' - since') * Rate
    BY DEF Books, Full
<1> DEFINE D == TicksPerSecond
           n == admitted[k]
           span == now - since
<1>1. D \in Nat \ {0} /\ Rate \in Nat \ {0} /\ n \in Nat /\ span \in Nat
    BY LimiterAssumption DEF LimiterTypeOK
<1>2. Credit(k) \in 0 .. Full
    BY CreditNat
<1>3. n * D + Credit(k) <= Full + span * Rate
    BY DEF Books
<1>4. n * D \in Nat /\ span * Rate \in Nat
    BY <1>1, ProductNat
<1> HIDE DEF span, n
<1>5. ASSUME NEW j \in Key, Admit(j)
      PROVE  admitted'[k] * D + Credit(k)' <= Full + (now' - since') * Rate
    <2>1. now' - since' = span
        BY <1>5 DEF Admit, span
    <2>2. CASE j = k
        <3>1. Credit(k) - D - Credit(k)' \in 0 .. D - 1
            BY <1>5, <2>2, AdmitCredit
        <3>2. admitted'[k] = n + 1
            BY <1>5, <2>2 DEF Admit, n, LimiterTypeOK
        <3>3. (n + 1) * D = n * D + 1 * D
            BY <1>1, Distributes
        <3>4. 1 * D = D
            BY <1>1
        <3>5. Credit(k)' \in 0 .. Full
            BY <1>5, <2>2, AdmitCredit
        <3>6. (n + 1) * D + Credit(k)' <= Full + span * Rate
            BY <3>1, <3>3, <3>4, <3>5, <1>1, <1>2, <1>3, <1>4, FullNat
        <3> QED
            BY <2>1, <3>2, <3>6
    <2>3. CASE j # k
        <3>1. Credit(k)' = Credit(k)
            BY <1>5, <2>3, AdmitCredit
        <3>2. admitted'[k] = n
            BY <1>5, <2>3 DEF Admit, n, LimiterTypeOK
        <3> QED
            BY <2>1, <3>1, <3>2, <1>3
    <2> QED
        BY <2>2, <2>3
<1>6. ASSUME NEW j \in Key, Refuse(j)
      PROVE  admitted'[k] * D + Credit(k)' <= Full + (now' - since') * Rate
    <2>1. Credit(k)' = Credit(k)
        BY <1>6, RefuseCredit
    <2>2. admitted'[k] = n /\ now' - since' = span
        BY <1>6 DEF Refuse, n, span
    <2> QED
        BY <2>1, <2>2, <1>3
<1>7. CASE Cleanup
    <2>1. Credit(k)' = Credit(k)
        BY <1>7, CleanupCredit
    <2>2. admitted'[k] = n /\ now' - since' = span
        BY <1>7 DEF Cleanup, n, span
    <2> QED
        BY <2>1, <2>2, <1>3
<1>8. CASE Tick
    <2>1. Credit(k)' = IF Credit(k) + Rate > Full THEN Full ELSE Credit(k) + Rate
        BY <1>8, TickCredit
    <2>2. admitted'[k] = n /\ now' - since' = span + 1
        BY <1>8 DEF Tick, n, span, LimiterTypeOK
    <2>3. (span + 1) * Rate = span * Rate + 1 * Rate
        BY <1>1, Distributes
    <2>4. 1 * Rate = Rate
        BY <1>1
    <2>5. n * D + Credit(k)' <= Full + (span + 1) * Rate
        BY <2>1, <2>3, <2>4, <1>1, <1>2, <1>3, <1>4, FullNat
    <2> QED
        BY <2>2, <2>5
<1>9. CASE Observe
    <2>1. Credit(k)' = Credit(k)
        BY <1>9, ObserveCredit DEF Observe
    <2>2. admitted'[k] = 0 /\ now' - since' = 0
        BY <1>9 DEF Observe, LimiterTypeOK
    <2>3. 0 * D = 0 /\ 0 * Rate = 0
        BY <1>1
    <2>4. 0 * D + Credit(k)' <= Full + 0 * Rate
        BY <2>1, <2>3, <1>2, FullNat
    <2> QED
        BY <2>2, <2>4
<1>10. CASE UNCHANGED limiterVars
    <2>1. Credit(k)' = Credit(k)
        BY <1>10, ObserveCredit DEF limiterVars
    <2>2. admitted'[k] = n /\ now' - since' = span
        BY <1>10 DEF limiterVars, n, span
    <2> QED
        BY <2>1, <2>2, <1>3
<1> QED
    BY <1>5, <1>6, <1>7, <1>8, <1>9, <1>10 DEF LimiterNext

\* No key gets more through in any stretch of time than the capacity and what
\* the rate earns in that time (allow, cleanupLoop).
THEOREM AdmissionBound == LimiterSpec => []AdmissionBounded
<1>1. LimiterInit => Books
    BY BooksInit
<1>2. LimiterTypeOK /\ LimiterTypeOK' /\ Books /\ [LimiterNext]_limiterVars => Books'
    BY BooksNext
<1>3. LimiterTypeOK /\ Books => AdmissionBounded
    <2> SUFFICES ASSUME LimiterTypeOK, Books, NEW k \in Key
                 PROVE  admitted[k] * TicksPerSecond
                           <= Full + (now - since) * Rate
        BY DEF AdmissionBounded, Full
    <2>1. admitted[k] \in Nat /\ now - since \in Nat
        BY DEF LimiterTypeOK
    <2>2. /\ admitted[k] * TicksPerSecond \in Nat
          /\ (now - since) * Rate \in Nat
        BY <2>1, LimiterAssumption, ProductNat
    <2>3. Credit(k) \in 0 .. Full
        BY CreditNat
    <2> QED
        BY <2>2, <2>3, FullNat DEF Books
<1> QED
    BY <1>1, <1>2, <1>3, LimiterTypeCorrect, PTL DEF LimiterSpec

-----------------------------------------------------------------------------
(* Refinement *)

CreditMap == [k \in Key |-> Credit(k)]

LEMMA IdealInit == LimiterInit => Ideal!Init
<1> SUFFICES ASSUME LimiterInit
             PROVE  Ideal!Init
    OBVIOUS
<1>1. \A k \in Key : Credit(k) = Full
    <2> SUFFICES ASSUME NEW k \in Key PROVE Credit(k) = Full
        OBVIOUS
    <2>1. now \in Nat /\ Found(k) = [tokens |-> Capacity, lastRefill |-> now]
        BY DEF LimiterInit, Found, NewBucket
    <2> QED
        BY <2>1, NewIsFull DEF Credit
<1> QED
    BY <1>1 DEF Ideal!Init, Ideal!Full, Full, LimiterInit

LEMMA IdealNext ==
    ASSUME LimiterTypeOK, [LimiterNext]_limiterVars
    PROVE  [Ideal!Next]_<<CreditMap, verdict>>
<1>1. ASSUME NEW k \in Key, Admit(k)
      PROVE  Ideal!Admit(k)
    <2>1. /\ \A j \in Key \ {k} : Credit(j)' = Credit(j)
          /\ Credit(k) - TicksPerSecond - Credit(k)' \in 0 .. TicksPerSecond - 1
          /\ Credit(k)' \in 0 .. Full
        BY <1>1, AdmitCredit
    <2>2. Credit(k) \in 0 .. Full
        BY CreditNat
    <2>3. TicksPerSecond \in Nat /\ Full \in Nat
        BY LimiterAssumption, FullNat
    <2>4. CreditMap[k] >= TicksPerSecond
        BY <2>1, <2>2, <2>3 DEF CreditMap
    <2>5. \E lost \in 0 .. TicksPerSecond - 1 :
             /\ lost <= CreditMap[k] - TicksPerSecond
             /\ CreditMap' = [CreditMap EXCEPT ![k] = @ - TicksPerSecond - lost]
        <3> DEFINE lost == Credit(k) - TicksPerSecond - Credit(k)'
        <3>1. lost \in 0 .. TicksPerSecond - 1
            BY <2>1
        <3>2. lost <= CreditMap[k] - TicksPerSecond
            BY <2>1, <2>2, <2>3 DEF CreditMap
        <3>3. Credit(k)' = Credit(k) - TicksPerSecond - lost
            BY <2>1, <2>2, <2>3
        <3> HIDE DEF lost
        <3>4. CreditMap' = [CreditMap EXCEPT ![k] = @ - TicksPerSecond - lost]
            BY <2>1, <3>3 DEF CreditMap
        <3> QED
            BY <3>1, <3>2, <3>4
    <2>6. verdict' = [verdict EXCEPT ![k] = "admitted"]
        BY <1>1 DEF Admit
    <2> QED
        BY <2>4, <2>5, <2>6 DEF Ideal!Admit, CreditMap
<1>2. ASSUME NEW k \in Key, Refuse(k)
      PROVE  Ideal!Refuse(k)
    <2>1. CreditMap' = CreditMap /\ CreditMap[k] < TicksPerSecond
        BY <1>2, RefuseCredit DEF CreditMap
    <2>2. verdict' = [verdict EXCEPT ![k] = "refused"]
        BY <1>2 DEF Refuse
    <2> QED
        BY <2>1, <2>2 DEF Ideal!Refuse, CreditMap
<1>3. CASE Cleanup
    <2>1. CreditMap' = CreditMap
        BY <1>3, CleanupCredit DEF CreditMap
    <2> QED
        BY <1>3, <2>1 DEF Cleanup
<1>4. CASE Tick
    <2>1. CreditMap' = [k \in Key |-> IF CreditMap[k] + Rate > Full
                                      THEN Full ELSE CreditMap[k] + Rate]
        BY <1>4, TickCredit DEF CreditMap
    <2>2. verdict' = verdict
        BY <1>4 DEF Tick
    <2>3. Ideal!Earn
        BY <2>1, <2>2 DEF Ideal!Earn, Ideal!Full, Full, CreditMap
    <2> QED
        BY <2>3 DEF Ideal!Next
<1>5. CASE Observe
    <2>1. CreditMap' = CreditMap
        BY <1>5, ObserveCredit DEF CreditMap, Observe
    <2> QED
        BY <1>5, <2>1 DEF Observe
<1>6. CASE UNCHANGED limiterVars
    <2>1. CreditMap' = CreditMap
        BY <1>6, ObserveCredit DEF CreditMap, limiterVars
    <2> QED
        BY <1>6, <2>1 DEF limiterVars
<1> QED
    BY <1>1, <1>2, <1>3, <1>4, <1>5, <1>6 DEF LimiterNext, Ideal!Next

\* The limiter is an implementation of the ideal bucket: it admits nothing
\* the ideal bucket would refuse and refuses only when less than a whole
\* token has been earned (allow).
THEOREM ImplementsIdeal == LimiterSpec => IdealBucket
<1>1. LimiterInit => Ideal!Init
    BY IdealInit
<1>2. LimiterTypeOK /\ [LimiterNext]_limiterVars
         => [Ideal!Next]_<<CreditMap, verdict>>
    BY IdealNext
<1> QED
    BY <1>1, <1>2, LimiterTypeCorrect, PTL
       DEF LimiterSpec, IdealBucket, Ideal!Spec, CreditMap

-----------------------------------------------------------------------------
(* The ask path *)

LEMMA PathNext == [Next]_vars => [LimiterNext]_limiterVars
<1> SUFFICES ASSUME [Next]_vars
             PROVE  [LimiterNext]_limiterVars
    OBVIOUS
<1>1. Ask \in Key
    BY AskAssumption
<1>2. CASE Switch \/ SetWindowConfig \/ WantAnswer
    BY <1>2 DEF Switch, SetWindowConfig, WantAnswer
<1>3. CASE AskRefused \/ AskFails \/ AskAnswered
    BY <1>1, <1>3 DEF AskRefused, AskFails, AskAnswered, LimiterNext
<1>4. CASE \E k \in Key : OtherRequest(k)
    BY <1>4 DEF OtherRequest, LimiterNext
<1>5. CASE Background \/ TimePasses
    BY <1>5 DEF Background, TimePasses, LimiterNext
<1>6. CASE UNCHANGED vars
    BY <1>6 DEF vars
<1> QED
    BY <1>2, <1>3, <1>4, <1>5, <1>6 DEF Next

\* The handler, the chaos service and the clients use the limiter only in the
\* ways LimiterSpec has, so what is proved of the limiter holds on the path.
THEOREM PathUsesLimiter == Spec => LimiterSpec
<1>1. Init => LimiterInit
    BY DEF Init
<1>2. [Next]_vars => [LimiterNext]_limiterVars
    BY PathNext
<1> QED
    BY <1>1, <1>2, PTL DEF Spec, LimiterSpec

\* No stretch of time lets more ask requests through than capacity and rate
\* allow, whatever chaos and the clients do (allow).
COROLLARY PathAdmissionBound == Spec => []AdmissionBounded
    BY PathUsesLimiter, AdmissionBound, PTL

\* On the ask path, too, the limiter behaves as the ideal bucket (allow).
COROLLARY PathImplementsIdeal == Spec => IdealBucket
    BY PathUsesLimiter, ImplementsIdeal, PTL

-----------------------------------------------------------------------------
(* Types of the ask path *)

\* The numbers and the switches of the chaos service and of the client.
PathNumbers ==
    /\ window \in Nat \ {0} /\ interval \in Nat \ {0}
    /\ triggers \in 0 .. MaxTriggers /\ waited \in Nat

PathSwitches ==
    /\ enabled \in BOOLEAN /\ patient \in BOOLEAN
    /\ waiting \in BOOLEAN /\ tried \in BOOLEAN

LEMMA NumbersNext ==
    ASSUME PathNumbers, [Next]_vars
    PROVE  PathNumbers'
<1> USE AskAssumption DEF PathNumbers, chaosVars, clientVars
<1>1. CASE Switch
    BY <1>1 DEF Switch
<1>2. CASE SetWindowConfig
    BY <1>2 DEF SetWindowConfig
<1>3. CASE WantAnswer
    BY <1>3 DEF WantAnswer
<1>4. CASE AskRefused \/ AskFails
    BY <1>4 DEF AskRefused, AskFails
<1>5. CASE AskAnswered
    BY <1>5 DEF AskAnswered
<1>6. CASE (\E k \in Key : OtherRequest(k)) \/ Background
    BY <1>6 DEF OtherRequest, Background
<1>7. CASE TimePasses
    BY <1>7 DEF TimePasses
<1>8. CASE UNCHANGED vars
    BY <1>8 DEF vars
<1> QED
    BY <1>1, <1>2, <1>3, <1>4, <1>5, <1>6, <1>7, <1>8 DEF Next

LEMMA SwitchesNext ==
    ASSUME PathSwitches, [Next]_vars
    PROVE  PathSwitches'
<1> USE DEF PathSwitches, chaosVars, clientVars
<1>1. CASE Switch \/ SetWindowConfig
    BY <1>1 DEF Switch, SetWindowConfig
<1>2. CASE WantAnswer
    BY <1>2 DEF WantAnswer
<1>3. CASE AskRefused \/ AskFails
    BY <1>3 DEF AskRefused, AskFails
<1>4. CASE AskAnswered
    BY <1>4 DEF AskAnswered
<1>5. CASE (\E k \in Key : OtherRequest(k)) \/ Background
    BY <1>5 DEF OtherRequest, Background
<1>6. CASE TimePasses
    BY <1>6 DEF TimePasses
<1>7. CASE UNCHANGED vars
    BY <1>7 DEF vars
<1> QED
    BY <1>1, <1>2, <1>3, <1>4, <1>5, <1>6, <1>7 DEF Next

\* The chaos service and the clients keep their declared types, too; window
\* and interval stay positive whatever is configured.
THEOREM PathTypeCorrect == Spec => []TypeOK
<1>1. Init => PathNumbers
    BY AskAssumption DEF Init, PathNumbers
<1>2. Init => PathSwitches
    BY DEF Init, PathSwitches
<1>3. PathNumbers /\ [Next]_vars => PathNumbers'
    BY NumbersNext
<1>4. PathSwitches /\ [Next]_vars => PathSwitches'
    BY SwitchesNext
<1>5. LimiterTypeOK /\ PathNumbers /\ PathSwitches <=> TypeOK
    BY Zenon DEF TypeOK, PathNumbers, PathSwitches
<1> QED
    BY <1>1, <1>2, <1>3, <1>4, <1>5, PathUsesLimiter, LimiterTypeCorrect, PTL
       DEF Spec

-----------------------------------------------------------------------------
(* The clock of the chaos window *)

LEMMA DivMod ==
    ASSUME NEW n \in Nat, NEW d \in Nat \ {0}
    PROVE  /\ n \div d \in Nat /\ n % d \in 0 .. d - 1
           /\ n = (n \div d) * d + (n % d)
    BY SMT

\* Quotient and remainder are what one expects.
LEMMA DivModUnique ==
    ASSUME NEW n \in Nat, NEW d \in Nat \ {0}, NEW q \in Nat,
           NEW r \in 0 .. d - 1, n = q * d + r
    PROVE  n \div d = q /\ n % d = r
<1> DEFINE p == n \div d
           s == n % d
<1>1. p \in Nat /\ s \in 0 .. d - 1 /\ n = p * d + s
    BY DivMod
<1> HIDE DEF p, s
<1>2. q * d \in Nat /\ p * d \in Nat /\ 1 * d = d
    BY <1>1, ProductNat
<1>3. CASE p < q
    <2>1. (p + 1) * d <= q * d
        BY <1>1, <1>3, TimesMonotone
    <2>2. (p + 1) * d = p * d + 1 * d
        BY <1>1, Distributes
    <2> QED
        BY <2>1, <2>2, <1>1, <1>2
<1>4. CASE q < p
    <2>1. (q + 1) * d <= p * d
        BY <1>1, <1>4, TimesMonotone
    <2>2. (q + 1) * d = q * d + 1 * d
        BY Distributes
    <2> QED
        BY <2>1, <2>2, <1>1, <1>2
<1>5. CASE p = q
    BY <1>1, <1>2, <1>5 DEF p, s
<1> QED
    BY <1>1, <1>3, <1>4, <1>5

\* The remainder counts up and starts again.
LEMMA DivModNext ==
    ASSUME NEW n \in Nat, NEW d \in Nat \ {0}
    PROVE  IF n % d = d - 1
           THEN (n + 1) \div d = n \div d + 1 /\ (n + 1) % d = 0
           ELSE (n + 1) \div d = n \div d /\ (n + 1) % d = (n % d) + 1
<1> DEFINE q == n \div d
           r == n % d
<1>1. q \in Nat /\ r \in 0 .. d - 1 /\ n = q * d + r
    BY DivMod
<1> HIDE DEF q, r
<1>2. CASE r = d - 1
    <2>1. (q + 1) * d = q * d + 1 * d /\ 1 * d = d /\ q * d \in Nat
        BY <1>1, Distributes, ProductNat
    <2>2. n + 1 = (q + 1) * d + 0
        BY <2>1, <1>1, <1>2
    <2>3. (n + 1) \div d = q + 1 /\ (n + 1) % d = 0
        BY <2>2, <1>1, DivModUnique
    <2> QED
        BY <2>3, <1>2 DEF q, r
<1>3. CASE r # d - 1
    <2>1. n + 1 = q * d + (r + 1) /\ r + 1 \in 0 .. d - 1
        BY <1>1, <1>3, ProductNat
    <2>2. (n + 1) \div d = q /\ (n + 1) % d = r + 1
        BY <2>1, <1>1, DivModUnique
    <2> QED
        BY <2>2, <1>3 DEF q, r
<1> QED
    BY <1>2, <1>3

\* Ticks since the last chaos window of the session began.
Phase(n) ==
    ((n \div TicksPerSecond) % EnvInterval) * TicksPerSecond + (n % TicksPerSecond)

LEMMA PhaseType ==
    ASSUME NEW n \in Nat, EnvInterval > 0
    PROVE  /\ Phase(n) \in 0 .. EnvInterval * TicksPerSecond - 1
           /\ (n \div TicksPerSecond) % EnvInterval < EnvWindow
                 <=> Phase(n) < EnvWindow * TicksPerSecond
<1> DEFINE D == TicksPerSecond
           s == (n \div D) % EnvInterval
           t == n % D
<1>1. /\ D \in Nat \ {0} /\ EnvInterval \in Nat \ {0} /\ EnvWindow \in Nat
      /\ t \in 0 .. D - 1 /\ s \in 0 .. EnvInterval - 1
    BY LimiterAssumption, AskAssumption, DivMod
<1>2. Phase(n) = s * D + t
    BY DEF Phase
<1> HIDE DEF D, s, t
<1>3. /\ s * D \in Nat /\ EnvWindow * D \in Nat /\ EnvInterval * D \in Nat
      /\ (s + 1) * D = s * D + 1 * D /\ 1 * D = D
    BY <1>1, Distributes, ProductNat
<1>4. (s + 1) * D <= EnvInterval * D
    BY <1>1, TimesMonotone
<1>5. CASE s < EnvWindow
    <2>1. (s + 1) * D <= EnvWindow * D
        BY <1>1, <1>5, TimesMonotone
    <2> QED
        BY <1>1, <1>2, <1>3, <1>4, <1>5, <2>1 DEF s, D
<1>6. CASE ~(s < EnvWindow)
    <2>1. EnvWindow * D <= s * D
        BY <1>1, <1>6, TimesMonotone
    <2> QED
        BY <1>1, <1>2, <1>3, <1>4, <1>6, <2>1 DEF s, D
<1> QED
    BY <1>5, <1>6

LEMMA PhaseNext ==
    ASSUME NEW n \in Nat, EnvInterval > 0
    PROVE  Phase(n + 1) = IF Phase(n) + 1 = EnvInterval * TicksPerSecond
                          THEN 0 ELSE Phase(n) + 1
<1> DEFINE D == TicksPerSecond
           q == n \div D
           s == q % EnvInterval
           t == n % D
<1>0. D \in Nat \ {0} /\ EnvInterval \in Nat \ {0}
    BY LimiterAssumption, AskAssumption
<1>1. /\ D \in Nat \ {0} /\ EnvInterval \in Nat \ {0}
      /\ q \in Nat /\ t \in 0 .. D - 1
    <2> HIDE DEF D
    <2>1. n \div D \in Nat /\ n % D \in 0 .. D - 1
        BY <1>0, DivMod
    <2> QED
        BY <1>0, <2>1
<1>2. s \in 0 .. EnvInterval - 1
    BY <1>1, DivMod
<1>3. Phase(n) = s * D + t
    BY DEF Phase
<1>4. Phase(n + 1) = (((n + 1) \div D) % EnvInterval) * D + ((n + 1) % D)
    BY DEF Phase
<1>5. IF t = D - 1 THEN (n + 1) \div D = q + 1 /\ (n + 1) % D = 0
                   ELSE (n + 1) \div D = q /\ (n + 1) % D = t + 1
    BY <1>1, DivModNext
<1>6. (q + 1) % EnvInterval = IF s = EnvInterval - 1 THEN 0 ELSE s + 1
    BY <1>1, DivModNext
<1> HIDE DEF D, q, s, t
<1>7. /\ s * D \in Nat /\ EnvInterval * D \in Nat
      /\ (s + 1) * D = s * D + 1 * D /\ 1 * D = D /\ 0 * D = 0
    BY <1>1, <1>2, Distributes, ProductNat
<1>8. (s + 1) * D <= EnvInterval * D
    BY <1>1, <1>2, TimesMonotone
<1>9. s # EnvInterval - 1 => (s + 1 + 1) * D <= EnvInterval * D
    BY <1>1, <1>2, TimesMonotone
<1>10. (s + 1 + 1) * D = (s + 1) * D + 1 * D
    BY <1>1, <1>2, Distributes
<1>11. Phase(n + 1) = IF s * D + t + 1 = EnvInterval * D
                      THEN 0 ELSE s * D + t + 1
    <2>1. CASE t # D - 1
        <3>1. Phase(n + 1) = s * D + (t + 1)
            BY <2>1, <1>4, <1>5 DEF s
        <3> QED
            BY <3>1, <2>1, <1>1, <1>2, <1>7, <1>8
    <2>2. CASE t = D - 1 /\ s = EnvInterval - 1
        <3>1. Phase(n + 1) = 0 * D + 0
            BY <2>2, <1>4, <1>5, <1>6
        <3> QED
            BY <3>1, <2>2, <1>1, <1>2, <1>7
    <2>3. CASE t = D - 1 /\ s # EnvInterval - 1
        <3>1. Phase(n + 1) = (s + 1) * D + 0
            BY <2>3, <1>4, <1>5, <1>6
        <3> QED
            BY <3>1, <2>3, <1>1, <1>2, <1>7, <1>9, <1>10
    <2> QED
        BY <2>1, <2>2, <2>3
<1> QED
    BY <1>3, <1>11 DEF D
-----------------------------------------------------------------------------
(* A patient client is answered *)

Window == EnvWindow * TicksPerSecond

\* The client has a token, or what was earned in n ticks.
Earning(n) == Credit(Ask) >= TicksPerSecond \/ Credit(Ask) >= n * Rate

\* It began to wait when the window was over, d ticks ago at most,
BeganAfter(d) == waited <= d /\ waited <= TokenGap /\ Earning(waited)

\* or it has waited through the window, which ended d ticks ago.
BeganBefore(d) ==
    waited <= TokenGap + Window + d /\ d < TokenGap /\ Earning(d + 1)

OnTime ==
    IF Phase(now) < Window
    THEN waited <= TokenGap + Phase(now)
    ELSE BeganAfter(Phase(now) - Window) \/ BeganBefore(Phase(now) - Window)

\* Outside the window a request fails only for want of a token.
RefusedIsPoor ==
    waiting /\ tried /\ ~(Phase(now) < Window) => Credit(Ask) < TicksPerSecond

WaitInv ==
    /\ ~waiting => waited = 0
    /\ waiting => patient
    /\ waiting => OnTime
    /\ RefusedIsPoor

LEMMA GapFacts ==
    /\ TokenGap \in Nat \ {0}
    /\ \A n \in Nat : n * Rate < TicksPerSecond => n < TokenGap
<1>1. TicksPerSecond \in Nat \ {0} /\ Rate \in Nat \ {0}
    BY LimiterAssumption
<1>2. TicksPerSecond + Rate - 1 \in Nat
    BY <1>1
<1>3. /\ TokenGap \in Nat
      /\ TicksPerSecond + Rate - 1 < TokenGap * Rate + Rate
    BY <1>1, <1>2, Truncation DEF TokenGap
<1>4. TokenGap * Rate \in Nat /\ TokenGap * Rate >= TicksPerSecond
    BY <1>1, <1>3, ProductNat
<1>5. TokenGap # 0
    <2>1. 0 * Rate = 0
        BY <1>1
    <2> QED
        BY <2>1, <1>1, <1>4
<1>6. ASSUME NEW n \in Nat, n * Rate < TicksPerSecond
      PROVE  n < TokenGap
    <2>1. CASE TokenGap <= n
        <3>1. TokenGap * Rate <= n * Rate /\ n * Rate \in Nat
            BY <1>1, <1>3, <2>1, TimesMonotone, ProductNat
        <3> QED
            BY <3>1, <1>1, <1>4, <1>6
    <2> QED
        BY <2>1, <1>3
<1> QED
    BY <1>3, <1>5, <1>6

LEMMA QuietFacts ==
    ASSUME TimeEnough
    PROVE  /\ EnvInterval \in Nat /\ EnvInterval > 0
           /\ Window \in Nat \ {0}
           /\ EnvInterval * TicksPerSecond \in Nat
           /\ EnvInterval * TicksPerSecond >= Window + TokenGap
<1>1. /\ EnvInterval \in Nat /\ EnvWindow \in Nat \ {0}
      /\ TicksPerSecond \in Nat \ {0}
    BY LimiterAssumption, AskAssumption DEF TimeEnough
<1>2. /\ EnvInterval * TicksPerSecond \in Nat /\ Window \in Nat
      /\ 1 * TicksPerSecond <= EnvWindow * TicksPerSecond
      /\ 1 * TicksPerSecond = TicksPerSecond
    BY <1>1, ProductNat, TimesMonotone DEF Window
<1>3. EnvInterval * TicksPerSecond
         = (EnvInterval - EnvWindow) * TicksPerSecond + EnvWindow * TicksPerSecond
    <2>1. (EnvInterval - EnvWindow) + EnvWindow = EnvInterval
        BY <1>1
    <2>2. ((EnvInterval - EnvWindow) + EnvWindow) * TicksPerSecond
            = (EnvInterval - EnvWindow) * TicksPerSecond + EnvWindow * TicksPerSecond
        BY <1>1, Distributes
    <2> QED
        BY <2>1, <2>2
<1>4. (EnvInterval - EnvWindow) * TicksPerSecond \in Int
    BY <1>1
<1>5. EnvInterval * TicksPerSecond >= Window + TokenGap
    BY <1>2, <1>3, <1>4, GapFacts DEF Window, TimeEnough
<1>6. EnvInterval # 0
    <2>1. 0 * TicksPerSecond = 0
        BY <1>1
    <2> QED
        BY <2>1, <1>1, <1>2, <1>5, GapFacts
<1> QED
    BY <1>1, <1>2, <1>5, <1>6 DEF Window

\* A tick passes while the client waits.
LEMMA OnTimeTick ==
    ASSUME LimiterTypeOK, TimeEnough, OnTime, waited \in Nat,
           Phase(now) < Window \/ Credit(Ask) < TicksPerSecond,
           Tick, waited' = waited + 1
    PROVE  OnTime'
<1> DEFINE D == TicksPerSecond
           P == EnvInterval * TicksPerSecond
<1>1. /\ D \in Nat \ {0} /\ Rate \in Nat \ {0} /\ Window \in Nat \ {0}
      /\ TokenGap \in Nat \ {0} /\ P \in Nat /\ P >= Window + TokenGap
      /\ Full \in Nat /\ Full >= D
    BY LimiterAssumption, QuietFacts, GapFacts, FullNat
<1>2. PICK p \in Nat : p = Phase(now) /\ p < P
    <2>1. now \in Nat /\ EnvInterval > 0
        BY QuietFacts DEF LimiterTypeOK
    <2>2. Phase(now) \in 0 .. P - 1
        BY <2>1, PhaseType
    <2> HIDE DEF P
    <2> QED
        BY <2>2, <1>1
<1>3. PICK p1 : p1 = Phase(now')
    OBVIOUS
<1>4. p1 = IF p + 1 = P THEN 0 ELSE p + 1
    BY <1>2, <1>3, QuietFacts, PhaseNext DEF LimiterTypeOK, Tick
<1>5. PICK c \in Nat : c = Credit(Ask) /\ c <= Full
    BY <1>1, AskAssumption, CreditNat
<1>6. PICK c1 : c1 = Credit(Ask)'
    OBVIOUS
<1>7. c1 = IF c + Rate > Full THEN Full ELSE c + Rate
    BY <1>5, <1>6, AskAssumption, TickCredit
<1> HIDE DEF D, P
<1>8. c1 \in Nat /\ (c1 >= D \/ c1 = c + Rate)
    BY <1>1, <1>5, <1>7
<1>9. /\ OnTime <=> IF p < Window THEN waited <= TokenGap + p
                    ELSE \/ /\ waited <= p - Window /\ waited <= TokenGap
                            /\ c >= D \/ c >= waited * Rate
                         \/ /\ waited <= TokenGap + Window + (p - Window)
                            /\ p - Window < TokenGap
                            /\ c >= D \/ c >= (p - Window + 1) * Rate
    BY <1>2, <1>5 DEF OnTime, BeganAfter, BeganBefore, Earning, D
<1>10. OnTime' <=> IF p1 < Window THEN waited + 1 <= TokenGap + p1
                   ELSE \/ /\ waited + 1 <= p1 - Window /\ waited + 1 <= TokenGap
                           /\ c1 >= D \/ c1 >= (waited + 1) * Rate
                        \/ /\ waited + 1 <= TokenGap + Window + (p1 - Window)
                           /\ p1 - Window < TokenGap
                           /\ c1 >= D \/ c1 >= (p1 - Window + 1) * Rate
    BY <1>3, <1>6 DEF OnTime, BeganAfter, BeganBefore, Earning, D
<1>11. ASSUME NEW n \in Nat
       PROVE  /\ n * Rate \in Nat /\ (n + 1) * Rate = n * Rate + Rate
              /\ n * Rate < D => n < TokenGap
    <2>1. (n + 1) * Rate = n * Rate + 1 * Rate /\ 1 * Rate = Rate
        BY <1>1, Distributes
    <2> QED
        BY <2>1, <1>1, ProductNat, GapFacts DEF D
<1>12. CASE p < Window
    <2>1. p1 = p + 1
        BY <1>1, <1>2, <1>4, <1>12
    <2>2. CASE p1 < Window
        BY <2>1, <2>2, <1>1, <1>2, <1>9, <1>10, <1>12
    <2>3. CASE ~(p1 < Window)
        <3>1. p1 - Window = 0 /\ waited + 1 <= TokenGap + Window
            BY <2>1, <2>3, <1>1, <1>2, <1>9, <1>12
        <3>2. (p1 - Window + 1) * Rate = Rate
            BY <3>1, <1>1
        <3>3. c1 >= D \/ c1 >= Rate
            BY <1>1, <1>5, <1>8
        <3> QED
            BY <3>1, <3>2, <3>3, <2>3, <1>1, <1>10
    <2> QED
        BY <2>2, <2>3
<1>13. CASE ~(p < Window)
    <2>1. c < D
        BY <1>2, <1>5, <1>13 DEF D
    <2>2. PICK d \in Nat : d = p - Window
        BY <1>1, <1>2, <1>13
    <2>3. CASE waited <= d /\ waited <= TokenGap /\ c >= waited * Rate
        <3>1. waited < TokenGap
            BY <2>1, <2>3, <1>1, <1>5, <1>11
        <3>2. c1 >= D \/ c1 >= (waited + 1) * Rate
            BY <2>3, <1>1, <1>5, <1>8, <1>11
        <3> QED
            BY <3>1, <3>2, <2>2, <2>3, <1>1, <1>2, <1>4, <1>10, <1>13
    <2>4. CASE waited <= TokenGap + Window + d /\ c >= (d + 1) * Rate
        <3>1. d + 1 < TokenGap
            BY <2>1, <2>4, <1>1, <1>5, <1>11
        <3>2. p1 = p + 1
            BY <3>1, <2>2, <1>1, <1>2, <1>4
        <3>3. p1 - Window = d + 1
            BY <3>2, <2>2, <1>1, <1>2
        <3>4. (d + 1 + 1) * Rate = (d + 1) * Rate + Rate /\ (d + 1) * Rate \in Nat
            BY <1>11
        <3>5. c1 >= D \/ c1 >= (d + 1 + 1) * Rate
            BY <3>4, <2>4, <1>1, <1>5, <1>8
        <3> QED
            BY <3>1, <3>2, <3>3, <3>5, <2>2, <2>4, <1>1, <1>2, <1>10, <1>13
    <2> QED
        BY <2>1, <2>2, <2>3, <2>4, <1>1, <1>2, <1>5, <1>9, <1>11, <1>13
<1> QED
    BY <1>12, <1>13
\* A step that leaves the clock, the client's credit and its wait alone.
LEMMA WaitStays ==
    ASSUME WaitInv, now' = now, Credit(Ask)' = Credit(Ask), waited' = waited,
           waiting' = waiting, patient' = patient, tried' = tried
    PROVE  WaitInv'
<1>1. OnTime' <=> OnTime
    BY DEF OnTime, BeganAfter, BeganBefore, Earning
<1>2. RefusedIsPoor' <=> RefusedIsPoor
    BY DEF RefusedIsPoor
<1> QED
    BY <1>1, <1>2 DEF WaitInv

LEMMA WaitNext ==
    ASSUME LimiterTypeOK, PathNumbers, TimeEnough, WaitInv, [Next]_vars
    PROVE  WaitInv'
<1>1. CASE Switch \/ SetWindowConfig
    <2>1. Credit(Ask)' = Credit(Ask)
        BY <1>1, AskAssumption, ObserveCredit DEF Switch, SetWindowConfig, limiterVars
    <2> QED
        BY <1>1, <2>1, WaitStays DEF Switch, SetWindowConfig, limiterVars, clientVars
<1>2. CASE \E k \in Key : OtherRequest(k)
    <2>1. PICK k \in Key : OtherRequest(k)
        BY <1>2
    <2>2. CASE patient
        <3>1. Credit(Ask)' = Credit(Ask)
            BY <2>1, <2>2, AskAssumption, AdmitCredit, RefuseCredit DEF OtherRequest
        <3> QED
            BY <2>1, <3>1, WaitStays DEF OtherRequest, Admit, Refuse, clientVars
    <2>3. CASE ~patient
        <3>1. ~waiting /\ ~waiting' /\ waited' = waited
            BY <2>1, <2>3 DEF OtherRequest, clientVars, WaitInv
        <3> QED
            BY <3>1 DEF WaitInv, RefusedIsPoor
    <2> QED
        BY <2>2, <2>3
<1>3. CASE Background
    <2>1. Credit(Ask)' = Credit(Ask)
        BY <1>3, AskAssumption, CleanupCredit, ObserveCredit DEF Background, Observe
    <2> QED
        BY <1>3, <2>1, WaitStays DEF Background, Cleanup, Observe, clientVars
<1>4. CASE WantAnswer
    <2>1. waited' = 0 /\ now' = now /\ waiting' /\ patient' /\ ~tried'
        BY <1>4 DEF WantAnswer, limiterVars
    <2>2. Credit(Ask)' = Credit(Ask)
        BY <1>4, AskAssumption, ObserveCredit DEF WantAnswer, limiterVars
    <2>3. Phase(now) \in Nat /\ Window \in Nat /\ TokenGap \in Nat
        <3>1. now \in Nat /\ EnvInterval > 0
            BY QuietFacts DEF LimiterTypeOK
        <3>2. EnvInterval * TicksPerSecond \in Nat
            BY QuietFacts
        <3> QED
            BY <3>1, <3>2, PhaseType, QuietFacts, GapFacts
    <2>4. Credit(Ask) \in Nat /\ 0 * Rate = 0
        <3>1. Credit(Ask) \in 0 .. Full
            BY AskAssumption, CreditNat
        <3> QED
            BY <3>1, FullNat, LimiterAssumption
    <2>5. OnTime'
        BY <2>1, <2>2, <2>3, <2>4 DEF OnTime, BeganAfter, Earning
    <2> QED
        BY <2>1, <2>5 DEF WaitInv, RefusedIsPoor
<1>5. CASE AskRefused
    <2>1. Credit(Ask)' = Credit(Ask) /\ Credit(Ask) < TicksPerSecond
        BY <1>5, AskAssumption, RefuseCredit DEF AskRefused
    <2>2. /\ now' = now /\ waited' = waited /\ waiting' = waiting
          /\ patient' = patient
        BY <1>5 DEF AskRefused, Refuse
    <2>3. OnTime' <=> OnTime
        BY <2>1, <2>2 DEF OnTime, BeganAfter, BeganBefore, Earning
    <2> QED
        BY <2>1, <2>2, <2>3 DEF WaitInv, RefusedIsPoor
<1>6. CASE AskFails
    <2>1. now' = now /\ waited' = waited /\ waiting' = waiting /\ patient' = patient
        BY <1>6 DEF AskFails, Admit
    <2>2. Phase(now) < Window
        <3>1. EnvWindow # 0 /\ EnvInterval # 0 /\ EnvInterval > 0
            BY AskAssumption, QuietFacts DEF TimeEnough
        <3>2. (now \div TicksPerSecond) % EnvInterval < EnvWindow
            BY <1>6, <3>1 DEF AskFails, IsInChaosWindow, WindowSeconds, IntervalSeconds
        <3> QED
            BY <3>1, <3>2, PhaseType DEF LimiterTypeOK, Window
    <2>3. OnTime' <=> OnTime
        BY <2>1, <2>2 DEF OnTime
    <2> QED
        BY <2>1, <2>2, <2>3 DEF WaitInv, RefusedIsPoor
<1>7. CASE AskAnswered
    <2>1. ~waiting' /\ waited' = 0
        BY <1>7 DEF AskAnswered
    <2> QED
        BY <2>1 DEF WaitInv, RefusedIsPoor
<1>8. CASE TimePasses
    <2>1. Tick /\ waiting' = waiting /\ patient' = patient /\ ~tried'
        BY <1>8 DEF TimePasses
    <2>2. CASE ~waiting
        <3>1. waited' = 0
            BY <1>8, <2>2 DEF TimePasses
        <3> QED
            BY <2>1, <2>2, <3>1 DEF WaitInv, RefusedIsPoor
    <2>3. CASE waiting
        <3>1. tried /\ waited' = waited + 1
            BY <1>8, <2>3 DEF TimePasses
        <3>2. OnTime /\ (Phase(now) < Window \/ Credit(Ask) < TicksPerSecond)
            BY <2>3, <3>1 DEF WaitInv, RefusedIsPoor
        <3>3. OnTime'
            BY <2>1, <3>1, <3>2, OnTimeTick DEF PathNumbers
        <3> QED
            BY <2>1, <2>3, <3>3 DEF WaitInv, RefusedIsPoor
    <2> QED
        BY <2>2, <2>3
<1>9. CASE UNCHANGED vars
    <2>1. Credit(Ask)' = Credit(Ask)
        BY <1>9, AskAssumption, ObserveCredit DEF vars, limiterVars
    <2> QED
        BY <1>9, <2>1, WaitStays DEF vars, limiterVars, clientVars
<1> QED
    BY <1>1, <1>2, <1>3, <1>4, <1>5, <1>6, <1>7, <1>8, <1>9 DEF Next

LEMMA WaitIsShort ==
    ASSUME LimiterTypeOK, PathNumbers, TimeEnough, WaitInv
    PROVE  waited < EnvWindow * TicksPerSecond + 2 * TokenGap
<1>1. /\ Window \in Nat \ {0} /\ TokenGap \in Nat \ {0} /\ waited \in Nat
      /\ EnvInterval * TicksPerSecond \in Nat
    BY QuietFacts, GapFacts DEF PathNumbers
<1>2. Phase(now) \in Nat
    <2>1. now \in Nat /\ EnvInterval > 0
        BY QuietFacts DEF LimiterTypeOK
    <2> QED
        BY <2>1, <1>1, PhaseType
<1>3. CASE ~waiting
    <2>1. waited = 0
        BY <1>3 DEF WaitInv
    <2> QED
        BY <2>1, <1>1 DEF Window
<1>4. CASE waiting
    <2>1. OnTime
        BY <1>4 DEF WaitInv
    <2> QED
        BY <2>1, <1>1, <1>2 DEF OnTime, BeganAfter, BeganBefore, Window
<1> QED
    BY <1>3, <1>4

\* For every capacity, rate, resolution of the clock and chaos profile that
\* leaves time to earn a token between two windows, a client that repeats its
\* request every tick waits less than one window and two tokens' time.
THEOREM AnswersAreInTime == Spec => []AnsweredInTime
<1>1. Init => WaitInv
    BY DEF Init, WaitInv, RefusedIsPoor
<1>2. Init => PathNumbers
    BY AskAssumption DEF Init, PathNumbers
<1>3. PathNumbers /\ [Next]_vars => PathNumbers'
    BY NumbersNext
<1>4. LimiterTypeOK /\ PathNumbers /\ (TimeEnough => WaitInv) /\ [Next]_vars
         => (TimeEnough => WaitInv)'
    BY WaitNext DEF TimeEnough, TokenGap
<1>5. LimiterTypeOK /\ PathNumbers /\ (TimeEnough => WaitInv) => AnsweredInTime
    BY WaitIsShort DEF AnsweredInTime
<1> QED
    BY <1>1, <1>2, <1>3, <1>4, <1>5, PathUsesLimiter, LimiterTypeCorrect, PTL
       DEF Spec
=============================================================================
