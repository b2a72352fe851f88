----------------------------- MODULE TokenBucket -----------------------------
(***************************************************************************)
(* What the rate limiter of the HTTP middleware promises: an ideal token   *)
(* bucket per key that is refilled continuously.  Credit is counted in     *)
(* parts of a token, TicksPerSecond of them to the token, so that one tick *)
(* of the clock earns Rate parts.  A request is refused exactly when there *)
(* is less than a token, and pays one token when it is admitted.           *)
(*                                                                         *)
(* An implementation may lose less than one token of credit at an          *)
(* admission: this one counts whole tokens.  RateLimiter implements this.  *)
(***************************************************************************)
EXTENDS Integers

CONSTANTS Key, Capacity, Rate, TicksPerSecond

VARIABLES credit, verdict

Full == Capacity * TicksPerSecond

Init ==
    /\ credit = [k \in Key |-> Full]
    /\ verdict = [k \in Key |-> "none"]

Earn ==
    /\ credit' = [k \in Key |-> IF credit[k] + Rate > Full
                                THEN Full ELSE credit[k] + Rate]
    /\ UNCHANGED verdict

Admit(k) ==
    /\ credit[k] >= TicksPerSecond
    /\ \E lost \in 0 .. TicksPerSecond - 1 :
          /\ lost <= credit[k] - TicksPerSecond
          /\ credit' = [credit EXCEPT ![k] = @ - TicksPerSecond - lost]
    /\ verdict' = [verdict EXCEPT ![k] = "admitted"]

Refuse(k) ==
    /\ credit[k] < TicksPerSecond
    /\ verdict' = [verdict EXCEPT ![k] = "refused"]
    /\ UNCHANGED credit

Next == Earn \/ \E k \in Key : Admit(k) \/ Refuse(k)

Spec == Init /\ [][Next]_<<credit, verdict>>
=============================================================================
