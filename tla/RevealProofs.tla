---------------------------- MODULE RevealProofs ----------------------------
(* Theorems about Reveal, for any fields and any number of attempts.       *)
EXTENDS Reveal, TLAPS

USE NoneIsNothingElse DEF keys, Locked

-----------------------------------------------------------------------------
(* Scrubbing keeps every type, and a torn-down field names no attempt.     *)
LEMMA ScrubTypes ==
  ASSUME TypeOK, NEW A \in SUBSET Attempts, Scrub(A),
         \A a \in A : Active(a), owner' = owner
  PROVE  /\ pc' \in [Attempts -> {"idle"} \cup InFlight \cup OnScreen \cup Ended]
         /\ handle' \in [Fields -> Attempts \cup {None}]
         /\ revealNode' \in [Fields -> Attempts \cup {None}]
         /\ placeholderHidden' \in [Fields -> BOOLEAN]
         /\ \A a \in Attempts : pc'[a] = "idle" <=> owner'[a] = None
         /\ \A f \in Fields : handle'[f] # None => owner'[handle'[f]] = f
         /\ \A f \in Fields : revealNode'[f] # None => owner'[revealNode'[f]] = f
  BY DEF TypeOK, Scrub, Scrubbed, TornDown, Active, OnScreen, Ended

(* What stopHoldReveal, the timer and the lock stop is displayed.          *)
LEMMA StoppedIsActive ==
  ASSUME NEW F
  PROVE  /\ Stopped(F) \in SUBSET Attempts
         /\ \A a \in Stopped(F) : Active(a)
  BY DEF Stopped

LEMMA ActiveRevealsAreActive ==
  /\ ActiveReveals \in SUBSET Attempts
  /\ \A a \in ActiveReveals : Active(a)
  BY DEF ActiveReveals, Active

(* The types of Reveal's variables; handles and nodes stay with the widget *)
(* that made them.                                                         *)
LEMMA TypeStep == TypeOK /\ [Next]_vars => TypeOK'
<1> SUFFICES ASSUME TypeOK, [Next]_vars PROVE TypeOK'
  OBVIOUS
<1> USE DEF InFlight, AtGate, Decrypting, Ended
<1>1. ASSUME NEW f \in Fields, NEW a \in Attempts, StartReveal(f, a)
      PROVE  TypeOK'
  BY <1>1 DEF TypeOK, StartReveal
<1>2. ASSUME NEW a \in Attempts, NEW answer \in {"ok", "denied", "unavailable"},
             GateTelegram(a, answer)
      PROVE  TypeOK'
  <2>1. CASE Verify(a)
    BY <1>2, <2>1 DEF TypeOK, GateTelegram, Decided, Verify
  <2>2. CASE Deny(a)
    BY <1>2, <2>2 DEF TypeOK, GateTelegram, Decided, Deny, Store, ShowPlaceholder
  <2>3. CASE /\ pc' = [pc EXCEPT ![a] = "webauthn"]
             /\ UNCHANGED <<handle, revealNode, releaseRequested, placeholderHidden>>
    BY <1>2, <2>3 DEF TypeOK, GateTelegram, Decided
  <2> QED
    BY <1>2, <2>1, <2>2, <2>3 DEF GateTelegram
<1>3. ASSUME NEW a \in Attempts, NEW answer \in {"ok", "denied", "unavailable"},
             GateWebAuthn(a, answer)
      PROVE  TypeOK'
  <2>1. CASE Verify(a)
    BY <1>3, <2>1 DEF TypeOK, GateWebAuthn, DecidedAtLast, Verify
  <2>2. CASE Deny(a)
    BY <1>3, <2>2 DEF TypeOK, GateWebAuthn, DecidedAtLast, Deny, Store, ShowPlaceholder
  <2> QED
    BY <1>3, <2>1, <2>2 DEF GateWebAuthn
<1>4. ASSUME NEW a \in Attempts, MacDone(a)
      PROVE  TypeOK'
  BY <1>4 DEF TypeOK, MacDone, Throw, ghosts
<1>5. ASSUME NEW a \in Attempts, AesDone(a)
      PROVE  TypeOK'
  <2>1. CASE Throw(a)
    BY <1>5, <2>1 DEF TypeOK, AesDone, Throw, ghosts
  <2>2. ASSUME NEW text \in OnScreen, Display(a, text)
        PROVE  TypeOK'
    <3>1. pc[a] # "idle" /\ owner[a] \in Fields
      BY <1>5 DEF TypeOK, AesDone
    <3>2. CASE ReplayRelease(owner[a])
      <4>1. /\ pc' = [pc EXCEPT ![a] = "scrubbed"]
            /\ handle' = [handle EXCEPT ![owner[a]] = None]
            /\ revealNode' = [revealNode EXCEPT ![owner[a]] = None]
            /\ placeholderHidden' = [placeholderHidden EXCEPT ![owner[a]] = FALSE]
            /\ releaseRequested' = [releaseRequested EXCEPT ![owner[a]] = FALSE]
        BY <2>2, <3>2 DEF Display, Store
      <4> QED
        BY <1>5, <3>1, <4>1 DEF TypeOK, AesDone, ghosts
    <3>3. CASE ~ReplayRelease(owner[a])
      BY <1>5, <2>2, <3>1, <3>3 DEF TypeOK, AesDone, Display, Store, OnScreen, ghosts
    <3> QED
      BY <3>2, <3>3
  <2> QED
    BY <1>5, <2>1, <2>2 DEF AesDone, OnScreen
<1>6. ASSUME NEW a \in Attempts, Timeout(a)
      PROVE  TypeOK'
  <2>1. Active(a) /\ owner' = owner /\ Scrub({a}) /\ {a} \in SUBSET Attempts
    BY <1>6 DEF Timeout, Active
  <2> QED
    BY <1>6, <2>1, ScrubTypes DEF TypeOK, Timeout, ghosts
<1>7. ASSUME NEW F \in SUBSET Fields, StopHoldReveal(F)
      PROVE  TypeOK'
  <2>1. Scrub(Stopped(F)) /\ owner' = owner
    BY <1>7 DEF StopHoldReveal
  <2>2. releaseRequested' \in [Fields -> BOOLEAN]
    BY <1>7 DEF StopHoldReveal, TypeOK
  <2> QED
    BY <1>7, <2>1, <2>2, ScrubTypes, StoppedIsActive DEF TypeOK, StopHoldReveal
<1>8. ASSUME NEW S \in SUBSET Fields, NEW k \in Keys, Render(S, k)
      PROVE  TypeOK'
  BY <1>8 DEF TypeOK, Render, Show, NewScreen, Stages, ghosts
<1>9. ASSUME NEW S \in SUBSET Fields, NEW k \in Keys, Unlock(k, S)
      PROVE  TypeOK'
  BY <1>9 DEF TypeOK, Unlock, Show, NewScreen, Stages, ghosts
<1>10. CASE Lock
  <2>1. Scrub(ActiveReveals) /\ owner' = owner
    BY <1>10 DEF Lock
  <2>2. /\ stage' \in [Fields -> Stages]
        /\ keyState' \in [Keys -> {"unborn", "live", "wiped"}]
    BY <1>10 DEF TypeOK, Lock, ScreenAfterLock, NewScreen, Stages
  <2> QED
    BY <1>10, <2>1, <2>2, ScrubTypes, ActiveRevealsAreActive DEF TypeOK, Lock, ghosts
<1>11. CASE UNCHANGED vars
  BY <1>11 DEF TypeOK, vars, code, ghosts
<1> QED
  BY <1>1, <1>2, <1>3, <1>4, <1>5, <1>6, <1>7, <1>8, <1>9, <1>10, <1>11
  DEF Next, Release, FocusLost, FocusListeners, Built

(* Every behaviour of Reveal is well typed.                                *)
THEOREM TypeCorrect == Spec => []TypeOK
<1>1. Init => TypeOK
  BY DEF Init, TypeOK, Stages
<1> QED
  BY <1>1, TypeStep, PTL DEF Spec

-----------------------------------------------------------------------------
(* LockedPageShowsReplacedKeysOnly is not inductive: a decryption that is  *)
(* past its MAC key import would still display.  Behind a lock such a      *)
(* decryption is of an intact key, or belongs to a widget that left the    *)
(* page with the lock, because a widget that enters the page later with a  *)
(* zeroed key never gets past the MAC.                                     *)
PastMacKey == {"macLive", "aesLive", "aesZero"} \cup OnScreen

LockInv ==
  /\ held # None => keyState[held] = "live"
  /\ \A f \in Fields : stage[f] # "unbuilt" =>
                        fieldKey[f] \in Keys /\ keyState[fieldKey[f]] # "unborn"
  /\ \A a \in Attempts : pc[a] # "idle" => stage[owner[a]] # "unbuilt"
  /\ Locked => \A a \in Attempts :
                 pc[a] \in PastMacKey /\ stage[owner[a]] = "mounted" => Intact(a)

(* Scrubbing only ends attempts.                                           *)
LEMMA ScrubEnds ==
  ASSUME NEW A \in SUBSET Attempts, Scrub(A)
  PROVE  \A a \in Attempts : pc'[a] = pc[a] \/ (a \in Scrubbed(A) /\ pc'[a] = "scrubbed")
  BY DEF Scrub

LEMMA LockStep == TypeOK /\ LockInv /\ [Next]_vars => LockInv'
<1> SUFFICES ASSUME TypeOK, LockInv, [Next]_vars PROVE LockInv'
  OBVIOUS
<1> USE DEF InFlight, AtGate, Decrypting, Ended, OnScreen, PastMacKey, Intact
<1>1. ASSUME NEW f \in Fields, NEW a \in Attempts, StartReveal(f, a)
      PROVE  LockInv'
  BY <1>1 DEF TypeOK, LockInv, StartReveal
<1>2. ASSUME NEW a \in Attempts, NEW answer \in {"ok", "denied", "unavailable"},
             GateTelegram(a, answer) \/ GateWebAuthn(a, answer)
      PROVE  LockInv'
  <2>1. /\ UNCHANGED <<keys, owner>>
        /\ pc[a] # "idle" /\ owner[a] \in Fields
    BY <1>2 DEF GateTelegram, GateWebAuthn, TypeOK
  <2>2. \/ Verify(a)
        \/ pc' = [pc EXCEPT ![a] = "denied"]
        \/ pc' = [pc EXCEPT ![a] = "webauthn"]
    BY <1>2 DEF GateTelegram, GateWebAuthn, Deny
  <2> QED
    BY <2>1, <2>2 DEF TypeOK, LockInv, Verify
<1>3. ASSUME NEW a \in Attempts, MacDone(a)
      PROVE  LockInv'
  BY <1>3 DEF TypeOK, LockInv, MacDone, Throw
<1>4. ASSUME NEW a \in Attempts, AesDone(a)
      PROVE  LockInv'
  BY <1>4 DEF TypeOK, LockInv, AesDone, Display, Throw
<1>5. ASSUME NEW A \in SUBSET Attempts, Scrub(A), \A a \in A : Active(a),
             UNCHANGED <<keys, owner>>
      PROVE  LockInv'
  <2>1. \A a \in Attempts : pc'[a] = pc[a] \/ (pc[a] # "idle" /\ pc'[a] = "scrubbed")
    BY <1>5, ScrubEnds DEF Scrubbed, Active
  <2> QED
    BY <1>5, <2>1 DEF TypeOK, LockInv
<1>6. ASSUME NEW a \in Attempts, Timeout(a)
      PROVE  LockInv'
  BY <1>5, <1>6 DEF Timeout, Active
<1>7. ASSUME NEW F \in SUBSET Fields, StopHoldReveal(F)
      PROVE  LockInv'
  BY <1>5, <1>7, StoppedIsActive DEF StopHoldReveal
<1>8. ASSUME NEW S \in SUBSET Fields, NEW k \in Keys, Render(S, k)
      PROVE  LockInv'
  BY <1>8 DEF TypeOK, LockInv, Render, Show, NewScreen, Built
<1>9. ASSUME NEW S \in SUBSET Fields, NEW k \in Keys, Unlock(k, S)
      PROVE  LockInv'
  BY <1>9 DEF TypeOK, LockInv, Unlock, Show, NewScreen, Built
<1>10. CASE Lock
  <2>1. /\ held' = None /\ owner' = owner /\ fieldKey' = fieldKey
        /\ \A f \in Fields : /\ stage'[f] # "mounted"
                             /\ stage'[f] = "unbuilt" <=> stage[f] = "unbuilt"
        /\ \A k \in Keys : keyState[k] # "unborn" => keyState'[k] # "unborn"
    BY <1>10 DEF Lock, ScreenAfterLock, NewScreen, Built, TypeOK, Stages
  <2>2. \A a \in Attempts : pc'[a] # "idle" => pc[a] # "idle"
    BY <1>10, ScrubEnds, ActiveRevealsAreActive DEF Lock, Scrubbed, Active
  <2>3. \A a \in Attempts : pc'[a] # "idle" => owner[a] \in Fields
    BY <2>2 DEF TypeOK
  <2> QED
    BY <2>1, <2>2, <2>3 DEF LockInv
<1>11. CASE UNCHANGED vars
  BY <1>11 DEF LockInv, vars, code
<1> QED
  BY <1>1, <1>2, <1>3, <1>4, <1>6, <1>7, <1>8, <1>9, <1>10, <1>11
  DEF Next, Release, FocusLost, FocusListeners, Built

(* autolock.ts:31-42: what the page of a locked vault displays is of keys  *)
(* that were replaced while they were held, never of one a lock zeroed.    *)
THEOREM LockedPageIsOfReplacedKeys == Spec => []LockedPageShowsReplacedKeysOnly
<1>1. Init => LockInv
  BY DEF Init, LockInv, PastMacKey, OnScreen
<1>2. TypeOK /\ LockInv => LockedPageShowsReplacedKeysOnly
  BY DEF TypeOK, LockInv, LockedPageShowsReplacedKeysOnly, Replaced, PastMacKey,
         Intact, OnScreen
<1> QED
  BY <1>1, <1>2, LockStep, TypeCorrect, PTL DEF Spec

-----------------------------------------------------------------------------
(* A reveal that is alone on its widget and started on one without a       *)
(* handle: while it is in flight the widget has no handle and its node is  *)
(* this reveal's, so a release is remembered; once displayed, the handle   *)
(* and the node are its own, so a release stops it.                        *)
Undisturbed(a) ==
  /\ pc[a] \in InFlight =>
       /\ handle[owner[a]] = None
       /\ revealNode[owner[a]] = a
       /\ a \in released => releaseRequested[owner[a]]
  /\ pc[a] \in OnScreen =>
       /\ handle[owner[a]] = a
       /\ revealNode[owner[a]] = a
       /\ a \notin released

Solitary(a) ==
  pc[a] \in InFlight \cup OnScreen =>
    \A b \in Attempts \ {a} : owner[b] = owner[a] => pc[b] \in Ended

HonourInv ==
  /\ \A a \in released \cup fresh : pc[a] # "idle"
  /\ \A a \in alone : /\ pc[a] # "idle"
                      /\ Solitary(a)
                      /\ a \in fresh => Undisturbed(a)

(* A step of one attempt that only touches its own widget's variables      *)
(* disturbs no other lone attempt: on another widget nothing changes, and  *)
(* on this one the other attempts have ended.                              *)
LEMMA OwnWidgetStep ==
  ASSUME TypeOK, HonourInv, NEW a \in Attempts, NEW x,
         pc[a] \in InFlight \cup OnScreen, x \in InFlight \cup OnScreen \cup Ended,
         pc' = [pc EXCEPT ![a] = x],
         UNCHANGED <<owner, released, alone, fresh>>,
         \A f \in Fields \ {owner[a]} : /\ handle'[f] = handle[f]
                                       /\ revealNode'[f] = revealNode[f]
                                       /\ releaseRequested'[f] = releaseRequested[f],
         a \in alone /\ a \in fresh => Undisturbed(a)'
  PROVE  HonourInv'
<1> USE DEF InFlight, AtGate, Decrypting, Ended, OnScreen
<1>1. \A b \in released' \cup fresh' : pc'[b] # "idle"
  BY DEF TypeOK, HonourInv
<1>2. ASSUME NEW b \in alone
      PROVE  /\ pc'[b] # "idle"
             /\ Solitary(b)'
             /\ b \in fresh => Undisturbed(b)'
  <2>1. b \in Attempts /\ pc[b] # "idle" /\ Solitary(b) /\ owner[b] \in Fields
    BY DEF TypeOK, HonourInv
  <2>2. CASE b = a
    BY <2>1, <2>2 DEF TypeOK, HonourInv, Solitary
  <2>3. CASE b # a /\ owner[b] = owner[a]
    <3>1. pc'[b] \in Ended
      BY <2>1, <2>3 DEF TypeOK, Solitary
    <3> QED
      BY <3>1 DEF Solitary, Undisturbed
  <2>4. CASE b # a /\ owner[b] # owner[a]
    BY <2>1, <2>4 DEF TypeOK, HonourInv, Solitary, Undisturbed
  <2> QED
    BY <2>2, <2>3, <2>4
<1> QED
  BY <1>1, <1>2 DEF HonourInv

(* Stopping displayed attempts: a lone attempt that is displayed is        *)
(* stopped with its widget, one that is in flight shares its widget with   *)
(* none of them.                                                           *)
LEMMA StopStep ==
  ASSUME TypeOK, HonourInv, NEW A \in SUBSET Attempts, \A a \in A : Active(a),
         Scrub(A), UNCHANGED <<owner, alone, fresh>>,
         released \subseteq released', released' \subseteq Attempts,
         \A a \in released' : pc[a] # "idle",
         \A a \in alone \cap fresh :
           /\ pc[a] \in InFlight /\ a \in released' => releaseRequested'[owner[a]]
           /\ pc[a] \in OnScreen /\ a \in released' => a \in A
  PROVE  HonourInv'
<1> USE DEF InFlight, AtGate, Decrypting, Ended, OnScreen
<1>1. \A b \in Attempts :
        \/ pc'[b] = pc[b]
        \/ pc[b] \in OnScreen /\ pc'[b] = "scrubbed" /\ b \in Scrubbed(A)
  BY ScrubEnds DEF Scrubbed, Active
<1>2. ASSUME NEW b \in alone
      PROVE  /\ pc'[b] # "idle"
             /\ Solitary(b)'
             /\ b \in fresh => Undisturbed(b)'
  <2>1. b \in Attempts /\ pc[b] # "idle" /\ Solitary(b) /\ owner[b] \in Fields
    BY DEF TypeOK, HonourInv
  <2>2. pc'[b] # "idle" /\ Solitary(b)'
    BY <1>1, <2>1 DEF Solitary
  <2>3. ASSUME b \in fresh, pc'[b] \in InFlight \cup OnScreen
        PROVE  Undisturbed(b)'
    <3>1. pc'[b] = pc[b] /\ b \notin A
      BY <1>1, <2>1, <2>3 DEF Scrub, Scrubbed
    <3>2. owner[b] \notin TornDown(A)
      BY <2>1, <2>3, <3>1 DEF TornDown, Solitary, Active
    <3> QED
      BY <2>1, <2>3, <3>1, <3>2 DEF Scrub, HonourInv, Undisturbed
  <2> QED
    BY <2>2, <2>3 DEF Undisturbed
<1>3. \A b \in released' \cup fresh' : pc'[b] # "idle"
  BY <1>1 DEF HonourInv, TypeOK
<1> QED
  BY <1>2, <1>3 DEF HonourInv

LEMMA HonourStep == TypeOK /\ HonourInv /\ [Next]_vars => HonourInv'
<1> SUFFICES ASSUME TypeOK, HonourInv, [Next]_vars PROVE HonourInv'
  OBVIOUS
<1> USE DEF InFlight, AtGate, Decrypting, Ended, OnScreen
<1>1. ASSUME NEW f \in Fields, NEW a \in Attempts, StartReveal(f, a)
      PROVE  HonourInv'
  <2>1. \A b \in released' \cup fresh' : pc'[b] # "idle"
    BY <1>1 DEF StartReveal, HonourInv, TypeOK
  <2>2. a \notin released \cup fresh
    BY <1>1 DEF StartReveal, HonourInv
  <2>3. ASSUME NEW b \in alone'
        PROVE  /\ pc'[b] # "idle"
               /\ Solitary(b)'
               /\ b \in fresh' => Undisturbed(b)'
    <3>1. CASE b = a
      <4>1. Busy(f) = {} /\ (b \in fresh' => handle[f] = None)
        BY <1>1, <2>2, <3>1 DEF StartReveal, HonourInv
      <4>2. Solitary(a)'
        BY <1>1, <4>1 DEF TypeOK, StartReveal, Solitary, Busy, Of
      <4> QED
        BY <1>1, <2>2, <3>1, <4>1, <4>2 DEF TypeOK, StartReveal, Undisturbed
    <3>2. CASE b # a
      <4>1. b \in alone /\ b \in Attempts /\ owner[b] # f
        BY <1>1, <3>2 DEF StartReveal, Of, TypeOK
      <4> QED
        BY <1>1, <3>2, <4>1 DEF TypeOK, HonourInv, StartReveal, Solitary, Undisturbed
    <3> QED
      BY <3>1, <3>2
  <2> QED
    BY <2>1, <2>3 DEF HonourInv
<1>2. ASSUME NEW a \in Attempts, NEW answer \in {"ok", "denied", "unavailable"},
             GateTelegram(a, answer) \/ GateWebAuthn(a, answer)
      PROVE  HonourInv'
  <2>1. /\ UNCHANGED <<owner, released, alone, fresh>>
        /\ pc[a] \in InFlight /\ owner[a] \in Fields
    BY <1>2 DEF GateTelegram, GateWebAuthn, TypeOK
  <2>2. CASE Verify(a) \/ (/\ pc' = [pc EXCEPT ![a] = "webauthn"]
                          /\ UNCHANGED <<handle, revealNode, releaseRequested>>)
    BY <2>1, <2>2, OwnWidgetStep DEF Verify, Undisturbed, HonourInv, TypeOK
  <2>3. CASE Deny(a)
    <3>1. pc' = [pc EXCEPT ![a] = "denied"] /\ Undisturbed(a)'
      BY <2>3 DEF Deny, Undisturbed, TypeOK
    <3>2. \A f \in Fields \ {owner[a]} : /\ handle'[f] = handle[f]
                                        /\ revealNode'[f] = revealNode[f]
                                        /\ releaseRequested'[f] = releaseRequested[f]
      BY <2>1, <2>3 DEF Deny, Store, TypeOK
    <3> QED
      BY <2>1, <3>1, <3>2, OwnWidgetStep
  <2> QED
    BY <1>2, <2>2, <2>3 DEF GateTelegram, GateWebAuthn
<1>3. ASSUME NEW a \in Attempts, MacDone(a)
      PROVE  HonourInv'
  <2>1. /\ UNCHANGED <<owner, released, alone, fresh, handle, revealNode, releaseRequested>>
        /\ pc[a] \in InFlight /\ owner[a] \in Fields
    BY <1>3 DEF MacDone, Throw, ghosts, TypeOK
  <2>2. PICK x \in {"threw", "aesLive", "aesZero"} : pc' = [pc EXCEPT ![a] = x]
    BY <1>3 DEF MacDone, Throw
  <2>3. a \in alone /\ a \in fresh => Undisturbed(a)'
    BY <2>1, <2>2 DEF HonourInv, Undisturbed, TypeOK
  <2> QED
    BY <2>1, <2>2, <2>3, OwnWidgetStep
<1>4. ASSUME NEW a \in Attempts, AesDone(a)
      PROVE  HonourInv'
  <2>1. /\ UNCHANGED <<owner, released, alone, fresh>>
        /\ pc[a] \in InFlight /\ owner[a] \in Fields
    BY <1>4 DEF AesDone, ghosts, TypeOK
  <2>2. CASE Throw(a)
    <3>1. pc' = [pc EXCEPT ![a] = "threw"] /\ Undisturbed(a)'
      BY <2>2 DEF Throw, Undisturbed, TypeOK
    <3> QED
      BY <2>1, <2>2, <3>1, OwnWidgetStep DEF Throw
  <2>3. ASSUME NEW text \in {"shown", "garbled"}, Display(a, text)
        PROVE  HonourInv'
    <3>1. PICK x \in {"scrubbed", text} : pc' = [pc EXCEPT ![a] = x]
      BY <2>3 DEF Display
    <3>2. \A f \in Fields \ {owner[a]} : /\ handle'[f] = handle[f]
                                        /\ revealNode'[f] = revealNode[f]
                                        /\ releaseRequested'[f] = releaseRequested[f]
      BY <2>1, <2>3 DEF Display, Store, TypeOK
    <3>3. a \in alone /\ a \in fresh => Undisturbed(a)'
      <4>1. CASE ReplayRelease(owner[a])
        BY <2>3, <4>1 DEF Display, Undisturbed, TypeOK
      <4>2. CASE ~ReplayRelease(owner[a])
        BY <2>1, <2>3, <4>2 DEF Display, Store, Undisturbed, HonourInv, TypeOK, ReplayRelease
      <4> QED
        BY <4>1, <4>2
    <3> QED
      BY <2>1, <3>1, <3>2, <3>3, OwnWidgetStep
  <2> QED
    BY <1>4, <2>2, <2>3 DEF AesDone
<1>5. ASSUME NEW a \in Attempts, Timeout(a)
      PROVE  HonourInv'
  <2>1. Scrub({a}) /\ UNCHANGED <<owner, released, alone, fresh, releaseRequested>>
    BY <1>5 DEF Timeout, ghosts
  <2> QED
    BY <1>5, <2>1, StopStep DEF Timeout, Active, HonourInv, Undisturbed, TypeOK
<1>6. ASSUME NEW F \in SUBSET Fields, StopHoldReveal(F)
      PROVE  HonourInv'
  <2>1. /\ Scrub(Stopped(F)) /\ UNCHANGED <<owner, alone, fresh>>
        /\ released \subseteq released' /\ released' \subseteq Attempts
        /\ \A a \in released' : pc[a] # "idle"
    BY <1>6 DEF StopHoldReveal, HonourInv, TypeOK
  <2>2. ASSUME NEW a \in alone \cap fresh, a \in released'
        PROVE  /\ pc[a] \in InFlight => releaseRequested'[owner[a]]
               /\ pc[a] \in OnScreen => a \in Stopped(F)
    <3>1. a \in Attempts /\ pc[a] # "idle" /\ owner[a] \in Fields /\ Undisturbed(a)
      BY DEF HonourInv, TypeOK
    <3>2. a \in released \/ owner[a] \in F
      BY <1>6, <2>2, <3>1 DEF StopHoldReveal
    <3>3. CASE pc[a] \in InFlight
      BY <1>6, <3>1, <3>2, <3>3 DEF StopHoldReveal, Undisturbed
    <3>4. CASE pc[a] \in OnScreen
      BY <1>6, <3>1, <3>2, <3>4 DEF Undisturbed, Stopped, Active
    <3> QED
      BY <3>3, <3>4
  <2> QED
    BY <2>1, <2>2, StopStep, StoppedIsActive
<1>7. CASE Lock
  <2>1. Scrub(ActiveReveals) /\ UNCHANGED <<owner, released, alone, fresh, releaseRequested>>
    BY <1>7 DEF Lock, ghosts
  <2> QED
    BY <2>1, StopStep, ActiveRevealsAreActive DEF HonourInv, Undisturbed, TypeOK
<1>8. CASE UNCHANGED <<pc, owner, handle, revealNode, releaseRequested, ghosts>>
  BY <1>8 DEF HonourInv, Solitary, Undisturbed, ghosts
<1> QED
  BY <1>1, <1>2, <1>3, <1>4, <1>5, <1>6, <1>7, <1>8
  DEF Next, Release, FocusLost, FocusListeners, Built, Render, Unlock, vars, code

(* ui.ts:61-70: a release of the only reveal of a widget without a handle  *)
(* is honoured at every point between the press and the display.           *)
THEOREM FirstReleaseIsHonoured == Spec => []FirstReleaseHonoured
<1>1. Init => HonourInv
  BY DEF Init, HonourInv
<1>2. HonourInv => FirstReleaseHonoured
  BY DEF HonourInv, Undisturbed, FirstReleaseHonoured
<1> QED
  BY <1>1, <1>2, HonourStep, TypeCorrect, PTL DEF Spec

-----------------------------------------------------------------------------
(* An attempt that has not passed its gate has been answered nothing that  *)
(* decides; one that has passed it was answered "ok" and nothing else.     *)
GateInv ==
  \A a \in Attempts :
    /\ pc[a] \in AtGate \cup {"idle"} => answers[a] = {}
    /\ pc[a] \in Decrypting \cup OnScreen => answers[a] = {"ok"}

LEMMA GateStep == TypeOK /\ GateInv /\ [Next]_vars => GateInv'
<1> SUFFICES ASSUME TypeOK, GateInv, [Next]_vars PROVE GateInv'
  OBVIOUS
<1> USE DEF GateInv, AtGate, Decrypting, OnScreen
<1>1. ASSUME NEW f \in Fields, NEW a \in Attempts, StartReveal(f, a)
      PROVE  GateInv'
  BY <1>1 DEF TypeOK, StartReveal
<1>2. ASSUME NEW a \in Attempts, NEW answer \in {"ok", "denied", "unavailable"},
             GateTelegram(a, answer) \/ GateWebAuthn(a, answer)
      PROVE  GateInv'
  <2>1. CASE GateTelegram(a, answer)
    <3>1. answers[a] = {} /\ answers' = [answers EXCEPT ![a] = Decided(answer)]
      BY <2>1 DEF GateTelegram, TypeOK
    <3>2. \/ answer = "ok" /\ Verify(a)
          \/ answer = "unavailable" /\ pc' = [pc EXCEPT ![a] = "webauthn"]
          \/ pc' = [pc EXCEPT ![a] = "denied"]
      BY <2>1 DEF GateTelegram, FallsBack, Deny
    <3> QED
      BY <3>1, <3>2 DEF TypeOK, Verify, Decided
  <2>2. CASE GateWebAuthn(a, answer)
    <3>1. /\ answers[a] = {}
          /\ answers' = [answers EXCEPT ![a] = DecidedAtLast(answer)]
      BY <2>2 DEF GateWebAuthn, TypeOK
    <3>2. \/ answer = "ok" /\ Verify(a)
          \/ pc' = [pc EXCEPT ![a] = "denied"]
      BY <2>2 DEF GateWebAuthn, Deny
    <3> QED
      BY <3>1, <3>2 DEF TypeOK, Verify, DecidedAtLast
  <2> QED
    BY <1>2, <2>1, <2>2
<1>3. ASSUME NEW a \in Attempts, MacDone(a) \/ AesDone(a)
      PROVE  GateInv'
  BY <1>3 DEF TypeOK, MacDone, AesDone, Display, Throw, ghosts
<1>4. ASSUME NEW A \in SUBSET Attempts, Scrub(A), answers' = answers
      PROVE  GateInv'
  BY <1>4, ScrubEnds DEF TypeOK
<1>5. ASSUME NEW a \in Attempts, Timeout(a)
      PROVE  GateInv'
  BY <1>4, <1>5 DEF Timeout, ghosts
<1>6. ASSUME NEW F \in SUBSET Fields, StopHoldReveal(F)
      PROVE  GateInv'
  BY <1>4, <1>6, StoppedIsActive DEF StopHoldReveal
<1>7. CASE Lock
  BY <1>4, <1>7, ActiveRevealsAreActive DEF Lock, ghosts
<1>8. CASE UNCHANGED <<pc, answers>>
  BY <1>8
<1> QED
  BY <1>1, <1>2, <1>3, <1>5, <1>6, <1>7, <1>8
  DEF Next, Release, FocusLost, FocusListeners, Built, Render, Unlock, vars, code, ghosts

(* biometry.ts: what is decrypted or displayed was confirmed, and never    *)
(* refused before.                                                         *)
THEOREM ConfirmationRequired == Spec => []NoRevealWithoutConfirmation
<1>1. Init => GateInv
  BY DEF Init, GateInv, AtGate, Decrypting, OnScreen
<1>2. GateInv => NoRevealWithoutConfirmation
  BY DEF GateInv, NoRevealWithoutConfirmation
<1> QED
  BY <1>1, <1>2, GateStep, TypeCorrect, PTL DEF Spec

-----------------------------------------------------------------------------
(* PlaceholderComesBack is inductive with the types.  What ends an attempt *)
(* shows the dots of its widget again, except a failed decryption, which   *)
(* leaves its node behind; other widgets keep theirs.                      *)
Reason(a) == pc[a] \in InFlight \cup OnScreen \cup {"threw"}

LEMMA ReasonsStay ==
  ASSUME PlaceholderComesBack, TypeOK,
         \A f \in Fields : placeholderHidden'[f] =>
            /\ placeholderHidden[f] /\ revealNode'[f] = revealNode[f]
            /\ \A a \in Attempts : owner[a] = f /\ Reason(a) => Reason(a)'
  PROVE  PlaceholderComesBack'
  BY DEF PlaceholderComesBack, Reason, TypeOK

LEMMA PlaceholderStep ==
  TypeOK /\ PlaceholderComesBack /\ [Next]_vars => PlaceholderComesBack'
<1> SUFFICES ASSUME TypeOK, PlaceholderComesBack, [Next]_vars
             PROVE  PlaceholderComesBack'
  OBVIOUS
<1> USE DEF InFlight, AtGate, Decrypting, OnScreen, Reason
<1>1. ASSUME NEW f \in Fields, NEW a \in Attempts, StartReveal(f, a)
      PROVE  PlaceholderComesBack'
  BY <1>1 DEF TypeOK, StartReveal, PlaceholderComesBack, Of
<1>2. ASSUME NEW a \in Attempts, NEW answer \in {"ok", "denied", "unavailable"},
             GateTelegram(a, answer) \/ GateWebAuthn(a, answer)
      PROVE  PlaceholderComesBack'
  <2>1. owner' = owner /\ owner[a] \in Fields
    BY <1>2 DEF GateTelegram, GateWebAuthn, TypeOK
  <2>2. CASE Deny(a)
    BY <2>1, <2>2, ReasonsStay DEF Deny, ShowPlaceholder, TypeOK
  <2>3. CASE \/ Verify(a)
             \/ /\ pc' = [pc EXCEPT ![a] = "webauthn"]
                /\ UNCHANGED <<revealNode, placeholderHidden>>
    BY <2>1, <2>3, ReasonsStay DEF Verify, TypeOK
  <2> QED
    BY <1>2, <2>2, <2>3 DEF GateTelegram, GateWebAuthn
<1>3. ASSUME NEW a \in Attempts, MacDone(a) \/ AesDone(a)
      PROVE  PlaceholderComesBack'
  <2>1. owner' = owner /\ owner[a] \in Fields
    BY <1>3 DEF MacDone, AesDone, TypeOK
  <2>2. \/ Reason(a)' /\ UNCHANGED <<revealNode, placeholderHidden>>
        \/ /\ placeholderHidden' = [placeholderHidden EXCEPT ![owner[a]] = FALSE]
           /\ revealNode' = [revealNode EXCEPT ![owner[a]] = None]
    BY <1>3 DEF MacDone, AesDone, Display, Throw, TypeOK
  <2>3. \A b \in Attempts \ {a} : pc'[b] = pc[b]
    BY <1>3 DEF MacDone, AesDone, Display, Throw, TypeOK
  <2> QED
    BY <2>1, <2>2, <2>3, ReasonsStay DEF TypeOK
<1>4. ASSUME NEW A \in SUBSET Attempts, Scrub(A), owner' = owner
      PROVE  PlaceholderComesBack'
  <2>1. \A a \in Attempts : owner[a] \notin TornDown(A) => pc'[a] = pc[a]
    BY <1>4 DEF Scrub, Scrubbed, TornDown
  <2>2. \A f \in Fields : placeholderHidden'[f] =>
                             /\ placeholderHidden[f] /\ f \notin TornDown(A)
                             /\ revealNode'[f] = revealNode[f]
    BY <1>4 DEF Scrub
  <2> QED
    BY <1>4, <2>1, <2>2, ReasonsStay
<1>5. ASSUME NEW a \in Attempts, Timeout(a)
      PROVE  PlaceholderComesBack'
  BY <1>4, <1>5 DEF Timeout
<1>6. ASSUME NEW F \in SUBSET Fields, StopHoldReveal(F)
      PROVE  PlaceholderComesBack'
  BY <1>4, <1>6, StoppedIsActive DEF StopHoldReveal
<1>7. CASE Lock
  BY <1>4, <1>7, ActiveRevealsAreActive DEF Lock
<1>8. CASE UNCHANGED <<pc, owner, revealNode, placeholderHidden>>
  BY <1>8, ReasonsStay
<1> QED
  BY <1>1, <1>2, <1>3, <1>5, <1>6, <1>7, <1>8
  DEF Next, Release, FocusLost, FocusListeners, Built, Render, Unlock, vars, code, ghosts

(* ui.ts:73-113: the dots of a widget stay hidden only for a reveal of it  *)
(* that is under way or failed to decrypt.                                 *)
THEOREM PlaceholderReturns == Spec => []PlaceholderComesBack
<1>1. Init => PlaceholderComesBack
  BY DEF Init, PlaceholderComesBack
<1> QED
  BY <1>1, PlaceholderStep, TypeCorrect, PTL DEF Spec

-----------------------------------------------------------------------------
(* What the abstract reveal sees of an attempt.                            *)
LEMMA PhasesNow ==
  TypeOK => \A a \in Attempts :
    /\ pc[a] = "idle" => Phase(a) = "new"
    /\ pc[a] \in AtGate => Phase(a) = "asking"
    /\ pc[a] \in Decrypting => Phase(a) = "granted"
    /\ pc[a] \in OnScreen => Phase(a) = "shown"
    /\ pc[a] \in Ended => Phase(a) = "over"
  BY DEF TypeOK, Phase, InFlight, AtGate, Decrypting, OnScreen, Ended

LEMMA PhasesLater ==
  ASSUME TypeOK'
  PROVE  \A a \in Attempts :
    /\ pc'[a] = "idle" => Phase(a)' = "new"
    /\ pc'[a] \in AtGate => Phase(a)' = "asking"
    /\ pc'[a] \in Decrypting => Phase(a)' = "granted"
    /\ pc'[a] \in OnScreen => Phase(a)' = "shown"
    /\ pc'[a] \in Ended => Phase(a)' = "over"
  BY DEF TypeOK, Phase, InFlight, AtGate, Decrypting, OnScreen, Ended

(* A step that leaves the page and the answers alone, and only moves one   *)
(* attempt, does to the abstract reveal what it does to that attempt.      *)
LEMMA OneMoves ==
  ASSUME TypeOK, TypeOK', NEW a \in Attempts,
         \A b \in Attempts \ {a} : pc'[b] = pc[b]
  PROVE  [b \in Attempts |-> Phase(b)]'
           = [[b \in Attempts |-> Phase(b)] EXCEPT ![a] = Phase(a)']
<1>1. \A b \in Attempts \ {a} : Phase(b)' = Phase(b)
  BY DEF Phase
<1> QED
  BY <1>1

(* What the abstract reveal sees of the keys and of the page.              *)
LEMMA StayingPut ==
  ASSUME UNCHANGED <<keys, owner>>
  PROVE  Locked' = Locked /\ InPage' = InPage /\ Spared' = Spared
  BY DEF InPage, Mounted, Spared, Replaced

LEMMA OneEnds ==
  ASSUME TypeOK, TypeOK', NEW a \in Attempts, pc[a] \in InFlight \cup OnScreen,
         \A b \in Attempts \ {a} : pc'[b] = pc[b], pc'[a] \in Ended,
         Locked' = Locked, InPage' = InPage, Confirmed' = Confirmed, Spared' = Spared
  PROVE  Promise!End({a})
<1>1. Phase(a) \in Promise!UnderWay /\ Phase(a)' = "over"
  BY PhasesNow, PhasesLater DEF Promise!UnderWay, InFlight
<1>2. \A b \in Attempts \ {a} : Phase(b)' = Phase(b)
  BY DEF Phase
<1> QED
  BY <1>1, <1>2 DEF Promise!End

(* Scrubbing ends attempts that were displayed, in the page or out of it.  *)
LEMMA ScrubbingEnds ==
  ASSUME TypeOK, TypeOK', NEW A \in SUBSET Attempts, Scrub(A),
         \A a \in A : Active(a)
  PROVE  /\ \A a \in Scrubbed(A) : Phase(a) = "shown" /\ Phase(a)' = "over"
         /\ \A a \in Attempts \ Scrubbed(A) : Phase(a)' = Phase(a)
<1>1. \A a \in Scrubbed(A) : a \in Attempts /\ pc[a] \in OnScreen /\ pc'[a] = "scrubbed"
  BY DEF Scrub, Scrubbed, Active
<1>2. \A a \in Attempts \ Scrubbed(A) : pc'[a] = pc[a]
  BY DEF Scrub
<1>3. \A a \in Attempts \ Scrubbed(A) : Phase(a)' = Phase(a)
  BY <1>2 DEF Phase
<1> QED
  BY <1>1, <1>3, PhasesNow, PhasesLater DEF Ended

LEMMA StoppingEnds ==
  ASSUME TypeOK, TypeOK', NEW A \in SUBSET Attempts, Scrub(A),
         \A a \in A : Active(a), UNCHANGED <<keys, owner, answers>>
  PROVE  Promise!End(Scrubbed(A)) /\ Scrubbed(A) \in SUBSET Attempts
<1>1. InPage' = InPage /\ Spared' = Spared /\ Confirmed' = Confirmed
  BY StayingPut DEF Confirmed
<1>2. Scrubbed(A) \in SUBSET Attempts
  BY DEF Scrubbed
<1> QED
  BY <1>1, <1>2, ScrubbingEnds DEF Promise!End, Promise!UnderWay

(* A new screen: the widgets of every attempt leave the page.              *)
LEMMA ScreensTurn ==
  ASSUME TypeOK, LockInv, NEW S \in SUBSET Fields, S \cap Built = {},
         stage' = NewScreen(S), owner' = owner
  PROVE  InPage' = {}
  BY DEF TypeOK, LockInv, InPage, Mounted, NewScreen, Built

(* It builds widgets that no attempt is of: no attempt changes its key.    *)
LEMMA ScreensSpare ==
  ASSUME TypeOK, LockInv, NEW S \in SUBSET Fields, NEW k \in Keys, Show(S, k),
         owner' = owner, Replaced' = Replaced
  PROVE  Spared' = Spared
<1>1. \A a \in Attempts, f \in Fields : owner[a] = f => fieldKey'[f] = fieldKey[f]
  BY DEF Show, TypeOK, LockInv, Built
<1> QED
  BY <1>1 DEF Spared

LEMMA PromiseStep ==
  TypeOK /\ TypeOK' /\ LockInv /\ GateInv /\ [Next]_vars => [Promise!Next]_(Promise!vars)
<1> SUFFICES ASSUME TypeOK, TypeOK', LockInv, GateInv, [Next]_vars
             PROVE  [Promise!Next]_(Promise!vars)
  OBVIOUS
<1>1. ASSUME NEW f \in Fields, NEW a \in Attempts, StartReveal(f, a)
      PROVE  Promise!Ask(a)
  <2>1. pc[a] = "idle" /\ pc'[a] = "telegram" /\ \A b \in Attempts \ {a} : pc'[b] = pc[b]
    BY <1>1 DEF StartReveal, TypeOK
  <2>2. Phase(a) = "new" /\ Phase(a)' = "asking"
    BY <2>1, PhasesNow, PhasesLater DEF AtGate
  <2>3. InPage' = InPage \cup {a}
    BY <1>1 DEF StartReveal, TypeOK, InPage, Mounted
  <2>4. Confirmed' = Confirmed /\ Locked' = Locked
    BY <1>1 DEF StartReveal, Confirmed
  <2>5. Spared' \in {Spared, Spared \cup {a}}
    <3>1. \A b \in Attempts \ {a} : b \in Spared' <=> b \in Spared
      BY <1>1 DEF StartReveal, TypeOK, Spared, Replaced
    <3>2. a \notin Spared
      BY <2>1 DEF TypeOK, Spared
    <3>3. Spared \subseteq Attempts /\ Spared' \subseteq Attempts
      BY DEF Spared
    <3> QED
      BY <3>1, <3>2, <3>3
  <2> QED
    BY <2>1, <2>2, <2>3, <2>4, <2>5, OneMoves DEF Promise!Ask
<1>2. ASSUME NEW a \in Attempts, NEW answer \in {"ok", "denied", "unavailable"},
             GateTelegram(a, answer) \/ GateWebAuthn(a, answer)
      PROVE  Promise!Grant(a) \/ Promise!End({a}) \/ UNCHANGED Promise!vars
  <2>1. /\ pc[a] \in AtGate /\ answers[a] = {}
        /\ UNCHANGED <<keys, owner>>
        /\ \A b \in Attempts \ {a} : answers'[b] = answers[b]
        /\ "ok" \in answers'[a] <=> answer = "ok"
        /\ answer = "ok" => "denied" \notin answers'[a]
    <3>1. pc[a] \in AtGate /\ answers[a] = {} /\ UNCHANGED <<keys, owner>>
      BY <1>2 DEF GateTelegram, GateWebAuthn, AtGate, GateInv
    <3>2. CASE GateTelegram(a, answer)
      <4>1. answers' = [answers EXCEPT ![a] = Decided(answer)]
        BY <3>1, <3>2 DEF GateTelegram, TypeOK
      <4> QED
        BY <3>1, <4>1 DEF Decided, TypeOK
    <3>3. CASE GateWebAuthn(a, answer)
      <4>1. answers' = [answers EXCEPT ![a] = DecidedAtLast(answer)]
        BY <3>1, <3>3 DEF GateWebAuthn, TypeOK
      <4> QED
        BY <3>1, <4>1 DEF DecidedAtLast, TypeOK
    <3> QED
      BY <1>2, <3>2, <3>3
  <2>2. Locked' = Locked /\ InPage' = InPage /\ Spared' = Spared
    BY <2>1, StayingPut
  <2>3. \/ answer = "ok" /\ Verify(a)
        \/ answer = "unavailable" /\ pc' = [pc EXCEPT ![a] = "webauthn"]
        \/ answer # "ok" /\ pc' = [pc EXCEPT ![a] = "denied"]
    BY <1>2 DEF GateTelegram, GateWebAuthn, FallsBack, Deny
  <2>4. \A b \in Attempts \ {a} : pc'[b] = pc[b]
    BY <2>3 DEF Verify, TypeOK
  <2>5. CASE answer = "ok" /\ Verify(a)
    <3>1. Phase(a) = "asking" /\ Phase(a)' = "granted"
      BY <2>1, <2>5, PhasesNow, PhasesLater DEF Verify, TypeOK, Decrypting
    <3>2. Confirmed' = Confirmed \cup {a}
      BY <2>1, <2>5 DEF Confirmed
    <3> QED
      BY <2>1, <2>2, <2>4, <3>1, <3>2, OneMoves DEF Promise!Grant
  <2>6. CASE answer # "ok"
    <3>1. Confirmed' = Confirmed
      BY <2>1, <2>6 DEF Confirmed
    <3>2. CASE pc' = [pc EXCEPT ![a] = "denied"]
      BY <2>1, <2>2, <2>4, <3>1, <3>2, OneEnds DEF TypeOK, InFlight, Ended
    <3>3. CASE pc' = [pc EXCEPT ![a] = "webauthn"]
      <4>1. Phase(a) = "asking" /\ Phase(a)' = "asking"
        BY <2>1, <3>3, PhasesNow, PhasesLater DEF TypeOK, AtGate
      <4>2. \A b \in Attempts : Phase(b)' = Phase(b)
        BY <2>4, <4>1 DEF Phase
      <4> QED
        BY <2>1, <2>2, <3>1, <4>2 DEF Promise!vars
    <3> QED
      BY <2>3, <2>6, <3>2, <3>3
  <2> QED
    BY <2>3, <2>5, <2>6
<1>3. ASSUME NEW a \in Attempts, MacDone(a)
      PROVE  Promise!End({a}) \/ UNCHANGED Promise!vars
  <2>1. /\ pc[a] \in Decrypting
        /\ pc' = [pc EXCEPT ![a] = "threw"] \/ pc' = [pc EXCEPT ![a] = "aesLive"]
             \/ pc' = [pc EXCEPT ![a] = "aesZero"]
        /\ UNCHANGED <<keys, owner>> /\ Confirmed' = Confirmed
    BY <1>3 DEF MacDone, Throw, Decrypting, Confirmed, ghosts
  <2>2. CASE pc' = [pc EXCEPT ![a] = "threw"]
    BY <2>1, <2>2, StayingPut, OneEnds DEF TypeOK, InFlight, Ended
  <2>3. CASE pc' = [pc EXCEPT ![a] = "aesLive"] \/ pc' = [pc EXCEPT ![a] = "aesZero"]
    <3>1. Phase(a) = "granted" /\ Phase(a)' = "granted"
      BY <2>1, <2>3, PhasesNow, PhasesLater DEF TypeOK, Decrypting
    <3>2. \A b \in Attempts \ {a} : pc'[b] = pc[b]
      BY <2>3 DEF TypeOK
    <3>3. \A b \in Attempts : Phase(b)' = Phase(b)
      BY <3>1, <3>2 DEF Phase
    <3> QED
      BY <2>1, <3>3, StayingPut DEF Promise!vars
  <2> QED
    BY <2>1, <2>2, <2>3
<1>4. ASSUME NEW a \in Attempts, AesDone(a)
      PROVE  Promise!End({a}) \/ Promise!Show(a)
  <2>1. /\ pc[a] \in {"aesLive", "aesZero"}
        /\ \/ pc' = [pc EXCEPT ![a] = "threw"] \/ pc' = [pc EXCEPT ![a] = "scrubbed"]
           \/ pc' = [pc EXCEPT ![a] = "shown"] \/ pc' = [pc EXCEPT ![a] = "garbled"]
        /\ UNCHANGED <<keys, owner>> /\ Confirmed' = Confirmed
    BY <1>4 DEF AesDone, Display, Throw, Confirmed, ghosts
  <2>2. \A b \in Attempts \ {a} : pc'[b] = pc[b]
    BY <2>1 DEF TypeOK
  <2>3. CASE pc' = [pc EXCEPT ![a] = "threw"] \/ pc' = [pc EXCEPT ![a] = "scrubbed"]
    BY <2>1, <2>2, <2>3, StayingPut, OneEnds DEF TypeOK, InFlight, Decrypting, Ended
  <2>4. CASE pc' = [pc EXCEPT ![a] = "shown"] \/ pc' = [pc EXCEPT ![a] = "garbled"]
    <3>1. Phase(a) = "granted" /\ Phase(a)' = "shown"
      BY <2>1, <2>4, PhasesNow, PhasesLater DEF TypeOK, Decrypting, OnScreen
    <3>2. a \in InPage /\ Locked => a \in Spared
      BY <2>1 DEF TypeOK, LockInv, PastMacKey, InPage, Mounted, Spared, Replaced, Intact
    <3> QED
      BY <2>1, <2>2, <3>1, <3>2, StayingPut, OneMoves DEF Promise!Show
  <2> QED
    BY <2>1, <2>3, <2>4
<1>5. ASSUME NEW a \in Attempts, Timeout(a)
      PROVE  \E A \in SUBSET Attempts : Promise!End(A)
  BY <1>5, StoppingEnds DEF Timeout, Active, ghosts
<1>6. ASSUME NEW F \in SUBSET Fields, StopHoldReveal(F)
      PROVE  \E A \in SUBSET Attempts : Promise!End(A)
  BY <1>6, StoppedIsActive, StoppingEnds DEF StopHoldReveal
<1>7. ASSUME NEW S \in SUBSET Fields, NEW k \in Keys, Render(S, k)
      PROVE  Promise!Leave
  <2>1. InPage' = {}
    BY <1>7, ScreensTurn DEF Render, Show
  <2>2. Locked' = Locked /\ Confirmed' = Confirmed /\ \A a \in Attempts : Phase(a)' = Phase(a)
    BY <1>7 DEF Render, Confirmed, Phase, ghosts
  <2>3. Spared' = Spared
    BY <1>7, ScreensSpare DEF Render, Replaced
  <2> QED
    BY <2>1, <2>2, <2>3 DEF Promise!Leave
<1>8. ASSUME NEW S \in SUBSET Fields, NEW k \in Keys, Unlock(k, S)
      PROVE  Promise!Unlock
  <2>1. InPage' = {}
    BY <1>8, ScreensTurn DEF Unlock, Show
  <2>2. ~Locked' /\ Confirmed' = Confirmed /\ \A a \in Attempts : Phase(a)' = Phase(a)
    BY <1>8 DEF Unlock, Confirmed, Phase, ghosts
  <2>3. Replaced' = Replaced \cup ({held} \ {None})
    BY <1>8 DEF Unlock, TypeOK, LockInv, Replaced
  <2>4. \A a \in Attempts, f \in Fields :
          owner[a] = f => fieldKey'[f] = fieldKey[f]
    BY <1>8 DEF Unlock, Show, TypeOK, LockInv, Built
  <2>5. owner' = owner
    BY <1>8 DEF Unlock
  <2>6. Spared \subseteq Spared' /\ Spared' \in SUBSET Attempts
    BY <2>3, <2>4, <2>5 DEF Spared, Replaced
  <2>7. Locked => Spared' = Spared
    BY <2>3, <2>4, <2>5 DEF Spared, Replaced
  <2> QED
    BY <2>1, <2>2, <2>6, <2>7 DEF Promise!Unlock
<1>9. CASE Lock
  <2>1. InPage' = {}
    BY <1>9, ScreensTurn DEF Lock, ScreenAfterLock
  <2>2. Locked' /\ Confirmed' = Confirmed
    BY <1>9 DEF Lock, Confirmed, ghosts
  <2>3. Spared' = Spared
    <3>1. Replaced' = Replaced
      BY <1>9 DEF Lock, Replaced, TypeOK
    <3>2. owner' = owner /\ fieldKey' = fieldKey
      BY <1>9 DEF Lock
    <3> QED
      BY <3>1, <3>2 DEF Spared
  <2>4. \A a \in Attempts : Phase(a)' = IF Phase(a) = "shown" THEN "over" ELSE Phase(a)
    <3>1. Scrubbed(ActiveReveals) = {a \in Attempts : pc[a] \in OnScreen}
      BY DEF Scrubbed, ActiveReveals, Active
    <3>2. \A a \in Attempts : Phase(a) = "shown" <=> pc[a] \in OnScreen
      BY PhasesNow DEF TypeOK, InFlight
    <3> QED
      BY <1>9, <3>1, <3>2, ActiveRevealsAreActive, ScrubbingEnds DEF Lock
  <2> QED
    BY <2>1, <2>2, <2>3, <2>4 DEF Promise!Lock, Promise!Next
<1>10. CASE UNCHANGED vars
  BY <1>10, StayingPut DEF vars, code, ghosts, Promise!vars, Confirmed, Phase
<1>11. (\E A \in SUBSET Attempts : Promise!End(A)) => Promise!Next
  BY DEF Promise!Next
<1>12. \A a \in Attempts : Promise!End({a}) => Promise!Next
  BY <1>11
<1> QED
  BY <1>1, <1>2, <1>3, <1>4, <1>5, <1>6, <1>7, <1>8, <1>9, <1>10, <1>11, <1>12
  DEF Next, Release, FocusLost, FocusListeners, Built, Promise!Next

(* biometry.ts, autolock.ts:34, engine.ts: Reveal implements the reveal    *)
(* that only asks, is granted, displays once and ends.                     *)
THEOREM RevealKeepsItsPromise == Spec => ImplementsConfirmedReveal
<1>1. Init => Promise!Init
  <2> SUFFICES ASSUME Init PROVE Promise!Init
    OBVIOUS
  <2>1. \A a \in Attempts : Phase(a) = "new"
    BY DEF Init, Phase, AtGate, Decrypting, OnScreen, Ended
  <2>2. Locked /\ InPage = {} /\ Confirmed = {} /\ Spared = {}
    BY DEF Init, InPage, Mounted, Confirmed, Spared, Replaced
  <2> QED
    BY <2>1, <2>2 DEF Promise!Init
<1>2. Init => LockInv /\ GateInv
  BY DEF Init, LockInv, PastMacKey, OnScreen, GateInv, AtGate, Decrypting
<1> QED
  BY <1>1, <1>2, LockStep, GateStep, PromiseStep, TypeCorrect, PTL
  DEF Spec, ImplementsConfirmedReveal, Promise!Spec
=============================================================================
