---------------------------- MODULE RateLimiter ----------------------------
(***************************************************************************)
(* _rate_limited of the thin backend (server/main.py): one deque of hit    *)
(* times per key, trimmed at its head before each decision.  The handlers  *)
(* call it before their first await, so a call is one step.  The clock is  *)
(* assumed not to run backwards; it may jump forwards.                     *)
(***************************************************************************)
EXTENDS Integers, Sequences, FiniteSets

CONSTANTS
  Keys,     \* "events:<ip>" and "provision:<ip>"
  Window,   \* _RATE_WINDOW_SECONDS
  MaxHits,  \* _RATE_MAX_HITS
  Horizon   \* bound on the clock

ASSUME WindowIsNat == Window \in Nat
ASSUME MaxHitsIsPositive == MaxHits \in Nat \ {0}
ASSUME HorizonIsNat == Horizon \in Nat

VARIABLES
  clock,     \* time.time()
  hits,      \* _hits: key -> its bucket
  accepted,  \* history: key -> the times at which its requests were accepted
  verdict    \* the answer to the last request since the clock moved

vars == <<clock, hits, accepted, verdict>>

Silence == [key |-> "none", ok |-> FALSE]
Verdict(k, ok) == [key |-> k, ok |-> ok]

Init ==
  /\ clock = 0
  /\ hits = [k \in Keys |-> <<>>]
  /\ accepted = [k \in Keys |-> <<>>]
  /\ verdict = Silence

-----------------------------------------------------------------------------
StaleOneTooEarly(t) == clock - t >= Window
Stale(t) == clock - t > Window

(* The while loop pops the first n hits of bucket b: stale ones, up to the *)
(* first that is not.                                                      *)
Pops(b, n) ==
  /\ \A i \in 1..n : Stale(b[i])
  /\ n < Len(b) => ~Stale(b[n + 1])
Rest(b, n) == SubSeq(b, n + 1, Len(b))

OneMore(b) == Len(b) > MaxHits
Full(b) == Len(b) >= MaxHits

(* A refused request leaves the trimmed bucket as it is.                   *)
EveryHitCounts(b) == Append(b, clock)
AfterRefusal(b) == b

Request(k) ==
  \E n \in 0..Len(hits[k]) :
    /\ Pops(hits[k], n)
    /\ LET bucket == Rest(hits[k], n) IN
       \/ /\ ~Full(bucket)
          /\ hits' = [hits EXCEPT ![k] = Append(bucket, clock)]
          /\ accepted' = [accepted EXCEPT ![k] = Append(@, clock)]
          /\ verdict' = Verdict(k, TRUE)
       \/ /\ Full(bucket)
          /\ hits' = [hits EXCEPT ![k] = AfterRefusal(bucket)]
          /\ verdict' = Verdict(k, FALSE)
          /\ UNCHANGED accepted
    /\ UNCHANGED clock

Tick(t) ==
  /\ t > clock
  /\ clock' = t
  /\ verdict' = Silence
  /\ UNCHANGED <<hits, accepted>>

Next == (\E k \in Keys : Request(k)) \/ (\E t \in 0..Horizon : Tick(t))

Spec == Init /\ [][Next]_vars

-----------------------------------------------------------------------------
(* Types, and the bound on a bucket's memory (main.py:55): a key never     *)
(* holds more than MaxHits time stamps, however often it is refused.       *)
TypeOK ==
  /\ clock \in 0..Horizon
  /\ hits \in [Keys -> Seq(0..Horizon)]
  /\ accepted \in [Keys -> Seq(0..Horizon)]
  /\ verdict \in {Silence} \cup [key : Keys, ok : BOOLEAN]
  /\ \A k \in Keys : Len(hits[k]) <= MaxHits

(* main.py:42-58, "sliding-window rate limiter": any MaxHits + 1 accepted  *)
(* requests of a key span more than Window seconds, wherever the window    *)
(* is laid, not only at the current time.                                  *)
NoBurst ==
  \A k \in Keys : \A i \in 1..Len(accepted[k]) :
    i + MaxHits <= Len(accepted[k]) =>
      accepted[k][i + MaxHits] - accepted[k][i] > Window

(* The deque that forgets stale hits decides exactly as if every accepted  *)
(* request were remembered and counted (main.py:50-58): nothing is         *)
(* accepted over the limit, and nobody is refused below it.                *)
WindowOf == INSTANCE RateWindow
ImplementsWindow == WindowOf!Spec
=============================================================================
