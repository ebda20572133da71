----------------------------- MODULE KeyCustody -----------------------------
(***************************************************************************)
(* What becomes of the user keys of a running Mini App, without screens,   *)
(* timers, requests or writes (autolock.ts:1-5): every unlock makes a key  *)
(* object of its own, after its login; AutoLock is given it once, intact,  *)
(* and zeroes it only by a lock, for good; the same step drops the access  *)
(* token.  A key that another unlock replaces is never zeroed.             *)
(***************************************************************************)
CONSTANTS Unlocks, None

VARIABLES
  key,    \* unlock -> its key object: unborn, live or wiped
  held,   \* the unlock whose key AutoLock holds, or None
  taken,  \* the unlocks whose key AutoLock was ever given
  token   \* the unlock that obtained the access token, or None

vars == <<key, held, taken, token>>

Init ==
  /\ key = [u \in Unlocks |-> "unborn"]
  /\ held = None
  /\ taken = {}
  /\ token = None

Login(u) ==
  /\ key[u] = "unborn"
  /\ token' = u
  /\ UNCHANGED <<key, held, taken>>

Unwrap(u) ==
  /\ key[u] = "unborn"
  /\ key' = [key EXCEPT ![u] = "live"]
  /\ UNCHANGED <<held, taken, token>>

Take(u) ==
  /\ key[u] = "live"
  /\ u \notin taken
  /\ held' = u
  /\ taken' = taken \cup {u}
  /\ UNCHANGED <<key, token>>

Lock ==
  /\ key' = [u \in Unlocks |-> IF u = held THEN "wiped" ELSE key[u]]
  /\ held' = None
  /\ token' = None
  /\ UNCHANGED taken

Next == Lock \/ \E u \in Unlocks : Login(u) \/ Unwrap(u) \/ Take(u)

Spec == Init /\ [][Next]_vars
=============================================================================
