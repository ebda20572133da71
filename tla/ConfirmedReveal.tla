-------------------------- MODULE ConfirmedReveal ---------------------------
(***************************************************************************)
(* What revealing promises, without widgets, pointer events, keys, timers  *)
(* or decryptions: a reveal displays its secret at most once, after the    *)
(* gates confirmed it; what left the page does not come back to it; a lock *)
(* ends every display and empties the page, where only reveals that an     *)
(* unlock has spared may display until the next unlock.                    *)
(***************************************************************************)
CONSTANT Attempts

VARIABLES
  locked,
  phase,     \* attempt -> new, asking, granted, shown or over
  page,      \* the attempts whose widget is in the page
  confirmed, \* the attempts that the gates confirmed and did not refuse
  spared     \* the attempts whose key no lock will zero any more

vars == <<locked, phase, page, confirmed, spared>>

UnderWay == {"asking", "granted", "shown"}

Init ==
  /\ locked = TRUE
  /\ phase = [a \in Attempts |-> "new"]
  /\ page = {}
  /\ confirmed = {}
  /\ spared = {}

\* An attempt shares the fate of its key.
Ask(a) ==
  /\ phase[a] = "new"
  /\ phase' = [phase EXCEPT ![a] = "asking"]
  /\ page' = page \cup {a}
  /\ spared' \in {spared, spared \cup {a}}
  /\ UNCHANGED <<locked, confirmed>>

Grant(a) ==
  /\ phase[a] = "asking"
  /\ phase' = [phase EXCEPT ![a] = "granted"]
  /\ confirmed' = confirmed \cup {a}
  /\ UNCHANGED <<locked, page, spared>>

Show(a) ==
  /\ phase[a] = "granted"
  /\ a \in page /\ locked => a \in spared
  /\ phase' = [phase EXCEPT ![a] = "shown"]
  /\ UNCHANGED <<locked, page, confirmed, spared>>

\* Refused, failed, or told to hide; several at once when focus is lost.
End(A) ==
  /\ \A a \in A : phase[a] \in UnderWay
  /\ phase' = [a \in Attempts |-> IF a \in A THEN "over" ELSE phase[a]]
  /\ UNCHANGED <<locked, page, confirmed, spared>>

Leave ==
  /\ page' = {}
  /\ UNCHANGED <<locked, phase, confirmed, spared>>

\* A second unlock takes the key of the first one out of the reach of locks.
Unlock ==
  /\ locked' = FALSE
  /\ page' = {}
  /\ spared' \in SUBSET Attempts /\ spared \subseteq spared'
  /\ locked => spared' = spared
  /\ UNCHANGED <<phase, confirmed>>

Lock ==
  /\ locked' = TRUE
  /\ page' = {}
  /\ phase' = [a \in Attempts |-> IF phase[a] = "shown" THEN "over" ELSE phase[a]]
  /\ UNCHANGED <<confirmed, spared>>

Next ==
  \/ \E a \in Attempts : Ask(a) \/ Grant(a) \/ Show(a)
  \/ \E A \in SUBSET Attempts : End(A)
  \/ Leave \/ Unlock \/ Lock

Spec == Init /\ [][Next]_vars
=============================================================================
