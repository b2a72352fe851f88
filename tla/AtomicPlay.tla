----------------------------- MODULE AtomicPlay -----------------------------
(***************************************************************************)
(* What the session lock promises: sessions behave as if every request     *)
(* read, decided and stored its session in one indivisible step.  The      *)
(* rules are parameters: Fresh is the set of records a session may start   *)
(* with, Results(r) the set of records a request may turn r into.          *)
(* SessionPlay, where reading and storing are Redis commands of their own, *)
(* implements this: no stored update is lost or based on an old copy.      *)
(***************************************************************************)
CONSTANTS Session, Fresh, Results(_)

VARIABLE session

Init == session \in [Session -> Fresh]

Play(s) == \E record \in Results(session[s]) :
              session' = [session EXCEPT ![s] = record]

Next == \E s \in Session : Play(s)

Spec == Init /\ [][Next]_session
=============================================================================
