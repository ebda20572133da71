----------------------------- MODULE RateWindow -----------------------------
(***************************************************************************)
(* What a sliding-window rate limiter promises: a request of a key is      *)
(* accepted exactly when fewer than MaxHits requests of that key were      *)
(* accepted in the last Window seconds (both ends included).  Refused      *)
(* requests do not count.  RateLimiter is shown to implement this.         *)
(***************************************************************************)
EXTENDS Integers, Sequences, FiniteSets

CONSTANTS
  Keys,     \* "events:<ip>" and "provision:<ip>"
  Window,   \* _RATE_WINDOW_SECONDS
  MaxHits,  \* _RATE_MAX_HITS
  Horizon   \* bound on the clock

VARIABLES
  clock,     \* time.time()
  accepted,  \* key -> the times at which its requests were accepted
  verdict    \* the answer to the last request since the clock moved

vars == <<clock, accepted, verdict>>

Silence == [key |-> "none", ok |-> FALSE]
Verdict(k, ok) == [key |-> k, ok |-> ok]

Init ==
  /\ clock = 0
  /\ accepted = [k \in Keys |-> <<>>]
  /\ verdict = Silence

InWindow(k) == {i \in 1..Len(accepted[k]) : clock - accepted[k][i] <= Window}

Accept(k) ==
  /\ Cardinality(InWindow(k)) < MaxHits
  /\ accepted' = [accepted EXCEPT ![k] = Append(@, clock)]
  /\ verdict' = Verdict(k, TRUE)
  /\ UNCHANGED clock

Refuse(k) ==
  /\ Cardinality(InWindow(k)) >= MaxHits
  /\ verdict' = Verdict(k, FALSE)
  /\ UNCHANGED <<clock, accepted>>

Tick(t) ==
  /\ t > clock
  /\ clock' = t
  /\ verdict' = Silence
  /\ UNCHANGED accepted

Next == \/ \E k \in Keys : Accept(k) \/ Refuse(k)
        \/ \E t \in 0..Horizon : Tick(t)

Spec == Init /\ [][Next]_vars
=============================================================================
