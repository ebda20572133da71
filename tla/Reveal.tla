------------------------------- MODULE Reveal -------------------------------
(***************************************************************************)
(* Revealing one secret field of a vault item: the reveal engine           *)
(* (reveal/engine.ts), the press-and-hold widget (reveal/ui.ts), the       *)
(* biometric gate (reveal/biometry.ts), the MAC-then-AES decryption of an  *)
(* EncString (crypto/encstring.ts) and what auto-lock does to all of them  *)
(* (vault/autolock.ts).  JavaScript runs one task at a time, so a step is  *)
(* the code between two awaits, or one event handler.  A key object stays  *)
(* with whatever was given it, also when AutoLock holds another one.       *)
(***************************************************************************)
EXTENDS Naturals, FiniteSets

CONSTANTS
  Fields,            \* the widgets buildRevealField may build
  Attempts,          \* the calls of startHoldReveal
  Keys,              \* the user key objects that unlocks unwrap
  None               \* JavaScript's null

ASSUME NoneIsNothingElse == None \notin Attempts \cup Fields \cup Keys

VARIABLES
  pointerSupported,  \* of this device: hold the button, or tap for 20 s
  keyState,          \* key object -> not unwrapped yet, live, or wiped
  held,              \* AutoLock.userKey
  stage,             \* field -> not built yet, in the page, or removed from it
  fieldKey,          \* field -> the key object its closure holds
  pc,                \* attempt -> the await it is at, or how it ended
  owner,             \* attempt -> the field whose closure runs it
  handle,            \* field -> activeHandle (an attempt stands for its handle)
  revealNode,        \* field -> revealNode
  releaseRequested,  \* field -> releaseRequested
  placeholderHidden, \* field -> placeholder.hidden
  released,          \* history: lone attempts that a call to hide did not end
  alone,             \* history: attempts that never overlapped another one
  fresh,             \* history: attempts started on a field with no handle
  answers            \* history: attempt -> what the gates decided of it

keys == <<keyState, held, stage, fieldKey>>
code == <<pointerSupported, keys, pc, owner, handle, revealNode,
          releaseRequested, placeholderHidden>>
ghosts == <<released, alone, fresh, answers>>
vars == <<code, ghosts>>

Locked == held = None

AtGate == {"telegram", "webauthn"}
\* importKey copies the key bytes when it is called: a stage names the key that
\* was copied, whatever happens to the key object afterwards.
Decrypting == {"macLive", "macZero", "aesLive", "aesZero"}
InFlight == AtGate \cup Decrypting
OnScreen == {"shown", "garbled"}
Ended == {"scrubbed", "denied", "threw"}

Of(f) == {a \in Attempts : owner[a] = f}
Busy(f) == {a \in Of(f) : pc[a] \in InFlight \cup OnScreen}
Built == {f \in Fields : stage[f] # "unbuilt"}
Mounted == {f \in Fields : stage[f] = "mounted"}
Active(a) == a # None /\ pc[a] \in OnScreen

Init ==
  /\ pointerSupported \in BOOLEAN
  /\ keyState = [k \in Keys |-> "unborn"]
  /\ held = None
  /\ stage = [f \in Fields |-> "unbuilt"]
  /\ fieldKey = [f \in Fields |-> None]
  /\ pc = [a \in Attempts |-> "idle"]
  /\ owner = [a \in Attempts |-> None]
  /\ handle = [f \in Fields |-> None]
  /\ revealNode = [f \in Fields |-> None]
  /\ releaseRequested = [f \in Fields |-> FALSE]
  /\ placeholderHidden = [f \in Fields |-> FALSE]
  /\ released = {}
  /\ alone = {}
  /\ fresh = {}
  /\ answers = [a \in Attempts |-> {}]

-----------------------------------------------------------------------------
(* scrub() of the attempts A; onEnd runs teardownVisual on their fields,   *)
(* which also stops whatever handle those fields hold.                     *)
TornDown(A) == {owner[a] : a \in A}
Scrubbed(A) == A \cup {a \in Attempts : /\ Active(a)
                                        /\ owner[a] \in TornDown(A)
                                        /\ handle[owner[a]] = a}

Scrub(A) ==
  /\ pc' = [a \in Attempts |-> IF a \in Scrubbed(A) THEN "scrubbed" ELSE pc[a]]
  /\ handle' = [f \in Fields |-> IF f \in TornDown(A) THEN None ELSE handle[f]]
  /\ revealNode' =
       [f \in Fields |-> IF f \in TornDown(A) THEN None ELSE revealNode[f]]
  /\ placeholderHidden' =
       [f \in Fields |-> placeholderHidden[f] /\ f \notin TornDown(A)]

(* `activeHandle = handle`: the variable belongs to the widget's closure.  *)
SharedStore(f, a) == [g \in Fields |-> a]
Store(f, a) == [handle EXCEPT ![f] = a]

-----------------------------------------------------------------------------
(* pointerdown, or click without pointer events: startHoldReveal up to its *)
(* await.                                                                  *)
MayStart(f) == ~Active(handle[f])

StartReveal(f, a) ==
  /\ stage[f] = "mounted"
  /\ pc[a] = "idle"
  /\ MayStart(f)
  /\ pc' = [pc EXCEPT ![a] = "telegram"]
  /\ owner' = [owner EXCEPT ![a] = f]
  /\ revealNode' = [revealNode EXCEPT ![f] = a]
  /\ releaseRequested' = [releaseRequested EXCEPT ![f] = FALSE]
  /\ placeholderHidden' = [placeholderHidden EXCEPT ![f] = TRUE]
  /\ alone' = (alone \ Of(f)) \cup {b \in {a} : Busy(f) = {}}
  /\ fresh' = fresh \cup {b \in {a} : handle[f] = None}
  /\ UNCHANGED <<pointerSupported, keys, handle, released, answers>>

(* The gate did not answer "ok": onDenied, then an inactive handle.        *)
ForgetPlaceholder(f) == placeholderHidden
ShowPlaceholder(f) == [placeholderHidden EXCEPT ![f] = FALSE]

Deny(a) ==
  /\ pc' = [pc EXCEPT ![a] = "denied"]
  /\ handle' = Store(owner[a], a)
  /\ revealNode' = [revealNode EXCEPT ![owner[a]] = None]
  /\ releaseRequested' = [releaseRequested EXCEPT ![owner[a]] = FALSE]
  /\ placeholderHidden' = ShowPlaceholder(owner[a])

Intact(a) == keyState[fieldKey[owner[a]]] = "live"

(* The gate answered "ok": decryptToBytes runs up to the import of the MAC *)
(* key, which copies whatever the key object holds at that moment.         *)
Verify(a) ==
  /\ pc' = [pc EXCEPT ![a] =
              IF Intact(a) THEN "macLive" ELSE "macZero"]
  /\ UNCHANGED <<handle, revealNode, releaseRequested, placeholderHidden>>

(* What the history keeps of a gate's answer.                              *)
Decided(answer) == {answer} \ {"unavailable"}

(* Telegram's BiometryManager answers; WebAuthn is asked only when it is   *)
(* unavailable.                                                            *)
FallsBackOnAnyRefusal(answer) == answer # "ok"
FallsBack(answer) == answer = "unavailable"

GateTelegram(a, answer) ==
  /\ pc[a] = "telegram"
  /\ answers' = [answers EXCEPT ![a] = @ \cup Decided(answer)]
  /\ \/ answer = "ok" /\ Verify(a)
     \/ /\ FallsBack(answer)
        /\ pc' = [pc EXCEPT ![a] = "webauthn"]
        /\ UNCHANGED <<handle, revealNode, releaseRequested, placeholderHidden>>
     \/ answer # "ok" /\ ~FallsBack(answer) /\ Deny(a)
  /\ UNCHANGED <<pointerSupported, keys, owner, released, alone, fresh>>

(* The WebAuthn fallback: an exception counts as "denied", and so does an  *)
(* "unavailable" of this last gate.                                        *)
DecidedAtLast(answer) == IF answer = "ok" THEN {"ok"} ELSE {"denied"}

GateWebAuthn(a, answer) ==
  /\ pc[a] = "webauthn"
  /\ answers' = [answers EXCEPT ![a] = @ \cup DecidedAtLast(answer)]
  /\ \/ answer = "ok" /\ Verify(a)
     \/ answer # "ok" /\ Deny(a)
  /\ UNCHANGED <<pointerSupported, keys, owner, released, alone, fresh>>

(* decryptToBytes rejects: revealInto rejects with it, and startHoldReveal *)
(* ends at its await and touches nothing else.                             *)
Throw(a) ==
  /\ pc' = [pc EXCEPT ![a] = "threw"]
  /\ UNCHANGED <<handle, revealNode, releaseRequested, placeholderHidden>>

(* The MAC is computed.  The values are ones the user key wrote: it never  *)
(* matches under a zeroed key, nor when the stored value is damaged;       *)
(* otherwise the AES key is copied, and auto-lock may have zeroed it in    *)
(* the meantime.                                                           *)
MacDone(a) ==
  /\ \/ pc[a] \in {"macLive", "macZero"} /\ Throw(a)
     \/ /\ pc[a] = "macLive"
        /\ pc' = [pc EXCEPT ![a] =
                    IF Intact(a) THEN "aesLive" ELSE "aesZero"]
        /\ UNCHANGED <<handle, revealNode, releaseRequested, placeholderHidden>>
  /\ UNCHANGED <<pointerSupported, keys, owner, ghosts>>

(* The text is put in the node and the handle returned; startHoldReveal    *)
(* then stops it at once when a release was requested meanwhile.           *)
ReleaseForgotten(f) == FALSE
ReplayRelease(f) == releaseRequested[f]

Display(a, text) ==
  /\ IF ReplayRelease(owner[a])
       THEN /\ pc' = [pc EXCEPT ![a] = "scrubbed"]
            /\ handle' = Store(owner[a], None)
            /\ revealNode' = [revealNode EXCEPT ![owner[a]] = None]
            /\ placeholderHidden' = [placeholderHidden EXCEPT ![owner[a]] = FALSE]
       ELSE /\ pc' = [pc EXCEPT ![a] = text]
            /\ handle' = Store(owner[a], a)
            /\ UNCHANGED <<revealNode, placeholderHidden>>
  /\ releaseRequested' = [releaseRequested EXCEPT ![owner[a]] = FALSE]

(* AES-CBC ends.  With the zeroed key the padding is nearly always wrong   *)
(* and the call throws; when it happens to fit, garbage is displayed.      *)
AesDone(a) ==
  /\ \/ pc[a] = "aesLive" /\ Display(a, "shown")
     \/ pc[a] = "aesZero" /\ Display(a, "garbled")
     \/ pc[a] = "aesZero" /\ Throw(a)
  /\ UNCHANGED <<pointerSupported, keys, owner, ghosts>>

-----------------------------------------------------------------------------
(* stopHoldReveal of every field of F: an active handle is stopped, an     *)
(* inactive one ignores stop(), none at all means the reveal is in flight. *)
Stopped(F) == {a \in Attempts : /\ owner[a] \in F
                                /\ revealNode[owner[a]] # None
                                /\ handle[owner[a]] = a
                                /\ Active(a)}

StopHoldReveal(F) ==
  /\ Scrub(Stopped(F))
  /\ releaseRequested' = [f \in Fields |->
       releaseRequested[f] \/ (f \in F /\ revealNode[f] # None /\ handle[f] = None)]
  /\ released' = released \cup {a \in alone : /\ owner[a] \in F
                                              /\ pc'[a] \in InFlight \cup OnScreen}
  /\ UNCHANGED <<pointerSupported, keys, owner, alone, fresh, answers>>

(* pointerup, pointerleave or pointercancel on the button of field f.      *)
Release(f) == pointerSupported /\ stage[f] = "mounted" /\ StopHoldReveal({f})

(* window blur or a hidden document.  These listeners are never removed:   *)
(* every widget ever built hears them.                                     *)
FocusListeners == Built
FocusLost == Built # {} /\ StopHoldReveal(FocusListeners)

(* TIMER_MODE's setTimeout(scrub, REVEAL_TIMEOUT_MS), one per reveal.      *)
OnlyCurrentTimes(a) == handle[owner[a]] = a
Timed(a) == TRUE

Timeout(a) ==
  /\ ~pointerSupported
  /\ pc[a] \in OnScreen
  /\ Timed(a)
  /\ Scrub({a})
  /\ UNCHANGED <<pointerSupported, keys, owner, releaseRequested, ghosts>>

-----------------------------------------------------------------------------
(* app.replaceChildren() and the fields S of the new screen, whose widgets *)
(* hold the key object k.                                                  *)
ScreenLeftAlone == stage
NewScreen(S) == [f \in Fields |-> IF f \in S THEN "mounted"
                                  ELSE IF stage[f] = "mounted" THEN "detached"
                                  ELSE stage[f]]

Show(S, k) ==
  /\ S \subseteq Fields \ Built
  /\ stage' = NewScreen(S)
  /\ fieldKey' = [f \in Fields |-> IF f \in S THEN k ELSE fieldKey[f]]

(* renderList or another screen, with a key that some unlock was given.    *)
(* refreshList asks neither whether the vault was locked since it started  *)
(* nor whether its key is still the one that is held.                      *)
Render(S, k) ==
  /\ keyState[k] # "unborn"
  /\ S # {} \/ Mounted # {}
  /\ Show(S, k)
  /\ UNCHANGED <<pointerSupported, keyState, held, pc, owner, handle, revealNode,
                 releaseRequested, placeholderHidden, ghosts>>

(* onUnlocked: hold() the new key, render the list.  When two unlocks were *)
(* in flight the key of the first is replaced, not zeroed.                 *)
Unlock(k, S) ==
  /\ keyState[k] = "unborn"
  /\ keyState' = [keyState EXCEPT ![k] = "live"]
  /\ held' = k
  /\ Show(S, k)
  /\ UNCHANGED <<pointerSupported, pc, owner, handle, revealNode,
                 releaseRequested, placeholderHidden, ghosts>>

(* activeReveals, which revealInto joins only once it displays.            *)
CurrentReveals == {a \in Attempts : pc[a] \in OnScreen /\ handle[owner[a]] = a}
ActiveReveals == {a \in Attempts : pc[a] \in OnScreen}

(* AutoLock.lock(): scrub the active reveals, zero the held key in place,  *)
(* drop the screen (onLock).  A vault may be locked again.                 *)
ScreenAfterLock == NewScreen({})

Lock ==
  /\ Scrub(ActiveReveals)
  /\ keyState' = [k \in Keys |-> IF k = held THEN "wiped" ELSE keyState[k]]
  /\ held' = None
  /\ stage' = ScreenAfterLock
  /\ UNCHANGED <<pointerSupported, fieldKey, owner, releaseRequested, ghosts>>

-----------------------------------------------------------------------------
Next ==
  \/ \E f \in Fields, a \in Attempts : StartReveal(f, a)
  \/ \E a \in Attempts, answer \in {"ok", "denied", "unavailable"} :
       GateTelegram(a, answer) \/ GateWebAuthn(a, answer)
  \/ \E a \in Attempts : MacDone(a) \/ AesDone(a) \/ Timeout(a)
  \/ \E f \in Fields : Release(f)
  \/ FocusLost
  \/ \E S \in SUBSET Fields, k \in Keys : Render(S, k) \/ Unlock(k, S)
  \/ Lock

Spec == Init /\ [][Next]_vars

\* A timer that was set fires while the page lives.
FairSpec == Spec /\ \A a \in Attempts : WF_vars(Timeout(a))
-----------------------------------------------------------------------------
Stages == {"unbuilt", "mounted", "detached"}

(* Types, and which attempts a field's variables may name: activeHandle    *)
(* and revealNode belong to one widget (ui.ts:59-71), so they only ever    *)
(* name an attempt that this widget started.                               *)
TypeOK ==
  /\ pointerSupported \in BOOLEAN
  /\ keyState \in [Keys -> {"unborn", "live", "wiped"}]
  /\ held \in Keys \cup {None}
  /\ stage \in [Fields -> Stages]
  /\ fieldKey \in [Fields -> Keys \cup {None}]
  /\ pc \in [Attempts -> {"idle"} \cup InFlight \cup OnScreen \cup Ended]
  /\ owner \in [Attempts -> Fields \cup {None}]
  /\ handle \in [Fields -> Attempts \cup {None}]
  /\ revealNode \in [Fields -> Attempts \cup {None}]
  /\ releaseRequested \in [Fields -> BOOLEAN]
  /\ placeholderHidden \in [Fields -> BOOLEAN]
  /\ released \subseteq Attempts
  /\ alone \subseteq Attempts
  /\ fresh \subseteq Attempts
  /\ answers \in [Attempts -> SUBSET {"ok", "denied"}]
  /\ \A a \in Attempts : pc[a] = "idle" <=> owner[a] = None
  /\ \A f \in Fields : handle[f] # None => owner[handle[f]] = f
  /\ \A f \in Fields : revealNode[f] # None => owner[revealNode[f]] = f

(* autolock.ts:34 "Any secret currently on screen must disappear the       *)
(* instant we lock", :1-3 "on lock we zero the user key in memory": while  *)
(* the vault is locked, no attempt displays anything in its page.          *)
NoSecretInLockedPage ==
  Locked => \A a \in Attempts :
              pc[a] \in OnScreen => stage[owner[a]] # "mounted"

\* Keys that hold() let go of without zeroing them.
Replaced == {k \in Keys : keyState[k] = "live" /\ k # held}

(* The part of it that autolock.ts:31-42 achieves: however gates,          *)
(* decryptions, unlocks and locks interleave, and although late lists are  *)
(* rendered behind the lock, all that a locked page can display is of keys *)
(* that another unlock replaced; a key that was held when the vault was    *)
(* locked displays nothing there, not even by the decryption under way.    *)
LockedPageShowsReplacedKeysOnly ==
  Locked => \A a \in Attempts :
              pc[a] \in OnScreen /\ stage[owner[a]] = "mounted" =>
                fieldKey[owner[a]] \in Replaced

(* biometry.ts INVARIANT "without a successful verification, there is no   *)
(* reveal": what passed the gate was answered "ok" and never refused.      *)
NoRevealWithoutConfirmation ==
  \A a \in Attempts : pc[a] \in Decrypting \cup OnScreen =>
                        "ok" \in answers[a] /\ "denied" \notin answers[a]

(* ui.ts:61-70, the release replay: a reveal that is alone on its widget,  *)
(* started while the widget held no handle, never stays on screen after a  *)
(* release, wherever between the gate and the display the release fell.    *)
FirstReleaseHonoured ==
  \A a \in released \cap alone \cap fresh : pc[a] \notin OnScreen

(* SECURITY.md "Release-before-gate-resolves is handled, not lost", also   *)
(* when an earlier reveal of the widget was refused: an attempt that never *)
(* overlapped another one of its widget and was told to hide is not on     *)
(* screen.                                                                 *)
ReleaseHonoured ==
  \A a \in released \cap alone : pc[a] \notin OnScreen

(* The dots are hidden only for the node of the latest press, and only     *)
(* while that press is under way or once it failed to decrypt: however     *)
(* presses overlap, fail and are denied, stopped, timed out or scrubbed,   *)
(* any end but a failed decryption gives the dots back, also those that an *)
(* earlier failure left hidden.                                            *)
PlaceholderComesBack ==
  \A f \in Fields : placeholderHidden[f] =>
    /\ revealNode[f] # None
    /\ pc[revealNode[f]] \in InFlight \cup OnScreen \cup {"threw"}

Phase(a) ==
  CASE pc[a] = "idle" -> "new"
    [] pc[a] \in AtGate -> "asking"
    [] pc[a] \in Decrypting -> "granted"
    [] pc[a] \in OnScreen -> "shown"
    [] pc[a] \in Ended -> "over"
InPage == {a \in Attempts : owner[a] \in Mounted}
Confirmed == {a \in Attempts : "ok" \in answers[a] /\ "denied" \notin answers[a]}

Spared == {a \in Attempts : \E f \in Fields : owner[a] = f /\ fieldKey[f] \in Replaced}

Promise == INSTANCE ConfirmedReveal WITH
  locked <- Locked, phase <- [a \in Attempts |-> Phase(a)], page <- InPage,
  confirmed <- Confirmed, spared <- Spared

(* biometry.ts, autolock.ts:34, engine.ts: however gates, decryptions,     *)
(* stops, renders and locks interleave, a reveal asks, is confirmed and    *)
(* displays, each once and in that order; one that ended displays nothing  *)
(* again; a lock ends every display, and only an unlock that finds the     *)
(* vault unlocked lets a reveal display in a locked page later.            *)
ImplementsConfirmedReveal == Promise!Spec

(* SECURITY.md: on devices without pointer events a reveal hides itself    *)
(* after 20 s; every displayed secret, also one that another reveal of the *)
(* same widget has replaced, eventually leaves the screen.                 *)
TimerRevealEnds ==
  \A a \in Attempts :
    ~pointerSupported /\ pc[a] \in OnScreen ~> pc[a] \notin OnScreen
=============================================================================
