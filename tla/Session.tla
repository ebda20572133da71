------------------------------ MODULE Session ------------------------------
(***************************************************************************)
(* The Mini App's session: auto-lock (vault/autolock.ts), the screens of   *)
(* main.ts and the asynchronous operations they start (unlock, refresh,    *)
(* save, change of the master password), the access token of the API       *)
(* client (api/client.ts) and what the server ends up storing.  An         *)
(* operation keeps the key object it was given, whatever happens to the    *)
(* session between two of its awaits.                                      *)
(***************************************************************************)
EXTENDS Naturals, FiniteSets

CONSTANTS
  Unlocks,        \* unlock attempts; one also names its key object and token
  Ops,            \* calls of refreshList, of a form's onSubmit, of a change
  None,           \* JavaScript's null
  HasThinBackend  \* config.hasThinBackend

ASSUME NoneIsNothingElse == None \notin Unlocks \cup Ops
ASSUME UnlocksAreNotOps == Unlocks \cap Ops = {}
ASSUME ThinBackendIsBoolean == HasThinBackend \in BOOLEAN

VARIABLES
  keyState,    \* unlock -> its key object: unborn, live or wiped
  held,        \* AutoLock.userKey
  timer,       \* AutoLock.timer is set
  session,     \* main.ts session is not null
  token,       \* client.accessToken, named by the unlock that obtained it
  screen,      \* what #app shows: kind, key of its closures, pending submit
  provisions,  \* calls of provisionAccount in flight
  unlocking,   \* unlock -> the await it is at, or how it ended
  form,        \* unlock -> the kind of form that submitted it
  op,          \* operation -> its kind, key, await and outgoing request
  revoked,     \* server: tokens that a password change invalidated
  stored,      \* server: the writes it accepted, by what the properties tell apart
  wasHeld,     \* history: the unlocks whose key AutoLock ever held
  away         \* the user stopped interacting

client == <<keyState, held, timer, session, token, screen, provisions,
            unlocking, form, op>>
vars == <<client, revoked, stored, wasHeld, away>>

Forms == {"known", "manual"}
VaultScreens == {"list", "item", "change"}
Screen(kind, key) == [kind |-> kind, key |-> key, by |-> None]
UnlockScreen == IF HasThinBackend THEN Screen("loading", None)
                                  ELSE Screen("manual", None)
NoOp == [kind |-> "none", key |-> None, at |-> "free", token |-> None,
         bytes |-> "intact"]
Pending == {"login", "unwrap", "sync"}
Free == {o \in Ops : op[o].at = "free"}
Wiped(k) == keyState[k] = "wiped"

Init ==
  /\ keyState = [u \in Unlocks |-> "unborn"]
  /\ held = None
  /\ timer = FALSE
  /\ session = FALSE
  /\ token = None
  /\ screen = UnlockScreen
  /\ provisions = IF HasThinBackend THEN 1 ELSE 0
  /\ unlocking = [u \in Unlocks |-> "unused"]
  /\ form = [u \in Unlocks |-> None]
  /\ op = [o \in Ops |-> NoOp]
  /\ revoked = {}
  /\ stored = {}
  /\ wasHeld = {}
  /\ away = FALSE

-----------------------------------------------------------------------------
(* AutoLock.lock() and its onLock: zero the held key in place, then        *)
(* renderUnlock up to its await (clearSession, an empty screen, a new      *)
(* provisioning call).                                                     *)
TokenKept == token
TokenAfterLock == None
WipeHeld == [u \in Unlocks |-> IF u = held THEN "wiped" ELSE keyState[u]]

LockNow ==
  /\ keyState' = WipeHeld
  /\ held' = None
  /\ timer' = FALSE
  /\ session' = FALSE
  /\ token' = TokenAfterLock
  /\ screen' = UnlockScreen
  /\ provisions' = IF HasThinBackend THEN provisions + 1 ELSE provisions

(* The inactivity timer, armed by hold() and touch() and cleared by lock() *)
TimerFires ==
  /\ timer
  /\ LockNow
  /\ UNCHANGED <<unlocking, form, op, revoked, stored, wasHeld, away>>

(* The Lock button of the list, also of a list whose vault is locked.      *)
LockButton ==
  /\ ~away
  /\ screen.kind = "list"
  /\ LockNow
  /\ UNCHANGED <<unlocking, form, op, revoked, stored, wasHeld, away>>

-----------------------------------------------------------------------------
(* renderUnlock after its await: the form of a known account, or the       *)
(* manual one when the thin backend rejected the identity.  Whatever is on *)
(* the screen by then is replaced.                                         *)
ProvisionDone(f) ==
  /\ provisions > 0
  /\ provisions' = provisions - 1
  /\ screen' = Screen(f, None)
  /\ UNCHANGED <<keyState, held, timer, session, token, unlocking, form, op,
                 revoked, stored, wasHeld, away>>

(* The call rejects: nothing handles it, the screen stays.                 *)
ProvisionRejects ==
  /\ provisions > 0
  /\ provisions' = provisions - 1
  /\ UNCHANGED <<keyState, held, timer, session, token, screen, unlocking, form, op,
                 revoked, stored, wasHeld, away>>

(* Submitting an unlock form disables its button, and starts unlock() or   *)
(* registerAndUnlock().                                                    *)
SubmitUnlock(u) ==
  /\ ~away
  /\ unlocking[u] = "unused"
  /\ screen.kind \in Forms /\ screen.by = None
  /\ screen' = [screen EXCEPT !.by = u]
  /\ form' = [form EXCEPT ![u] = screen.kind]
  /\ unlocking' = [unlocking EXCEPT ![u] = "login"]
  /\ UNCHANGED <<keyState, held, timer, session, token, provisions, op,
                 revoked, stored, wasHeld, away>>

(* client.login() stores the token as soon as it is answered.              *)
LoginDone(u) ==
  /\ unlocking[u] = "login"
  /\ token' = u
  /\ unlocking' = [unlocking EXCEPT ![u] = "unwrap"]
  /\ UNCHANGED <<keyState, held, timer, session, screen, provisions, form, op,
                 revoked, stored, wasHeld, away>>

(* decryptUserKey(), then client.sync() with whatever token is set.        *)
Unwrap(u) ==
  /\ unlocking[u] = "unwrap"
  /\ token # None
  /\ keyState' = [keyState EXCEPT ![u] = "live"]
  /\ unlocking' = [unlocking EXCEPT ![u] = "sync"]
  /\ UNCHANGED <<held, timer, session, token, screen, provisions, form, op,
                 revoked, stored, wasHeld, away>>

(* AutoLock.hold() replaces the key and arms the timer; touch() re-arms it. *)
HoldWithoutTouch == timer
ArmedByHold == TRUE
NeverHeld(u) == held
HeldAfter(u) == u

(* The list is decrypted: onUnlocked.                                      *)
UnlockDone(u) ==
  /\ unlocking[u] = "sync"
  /\ unlocking' = [unlocking EXCEPT ![u] = "done"]
  /\ session' = TRUE
  /\ held' = HeldAfter(u)
  /\ timer' = ArmedByHold
  /\ wasHeld' = wasHeld \cup ({held'} \ {None})
  /\ screen' = Screen("list", u)
  /\ UNCHANGED <<keyState, token, provisions, form, op, revoked, stored, away>>

StillDisabled(u) == screen
EnabledAgain(u) == IF screen.by = u THEN [screen EXCEPT !.by = None] ELSE screen

(* Any request or decryption of unlock() fails (wrong password, network,   *)
(* no token for sync): the known-account form is enabled again if it is    *)
(* still there, the manual form is rendered over whatever is there.  A key *)
(* that was already unwrapped stays in memory.                             *)
UnlockFails(u) ==
  /\ unlocking[u] \in Pending
  /\ unlocking' = [unlocking EXCEPT ![u] = "failed"]
  /\ screen' = IF form[u] = "manual" THEN Screen("manual", None)
               ELSE EnabledAgain(u)
  /\ \/ keyState' = keyState
     \/ unlocking[u] = "unwrap" /\ keyState' = [keyState EXCEPT ![u] = "live"]
  /\ UNCHANGED <<held, timer, session, token, provisions, form, op, revoked,
                 stored, wasHeld, away>>

-----------------------------------------------------------------------------
(* renderCreateForm or renderEditForm, with the key of the list.           *)
OpenItem ==
  /\ ~away
  /\ screen.kind = "list"
  /\ screen' = Screen("item", screen.key)
  /\ UNCHANGED <<keyState, held, timer, session, token, provisions, unlocking,
                 form, op, revoked, stored, wasHeld, away>>

(* renderChangePasswordForm returns early without a session.               *)
OpenChange ==
  /\ ~away
  /\ screen.kind = "list"
  /\ session
  /\ screen' = Screen("change", screen.key)
  /\ UNCHANGED <<keyState, held, timer, session, token, provisions, unlocking,
                 form, op, revoked, stored, wasHeld, away>>

(* An operation starts with the key of the screen's closures; "bytes" says *)
(* what the imports copied from it: the intact key, the zeroed one, or     *)
(* (torn) zeros from some await on.                                        *)
Begin(o, kind, at) ==
  op' = [op EXCEPT ![o] =
    [kind |-> kind, key |-> screen.key, at |-> at, token |-> token,
     bytes |-> IF Wiped(screen.key) THEN "zeroed" ELSE "intact"]]

(* Cancel on a form: refreshList, which needs a token to ask for anything. *)
Cancel(o) ==
  /\ ~away
  /\ screen.kind \in {"item", "change"}
  /\ o \in Free /\ token # None
  /\ Begin(o, "refresh", "answer")
  /\ UNCHANGED <<keyState, held, timer, session, token, screen, provisions,
                 unlocking, form, revoked, stored, wasHeld, away>>

(* onSubmit of an item form, or of the change form: encryption starts.     *)
Submit(o) ==
  /\ ~away
  /\ screen.kind \in {"item", "change"} /\ screen.by = None
  /\ o \in Free
  /\ Begin(o, IF screen.kind = "item" THEN "save" ELSE "change", "encrypt")
  /\ screen' = [screen EXCEPT !.by = o]
  /\ UNCHANGED <<keyState, held, timer, session, token, provisions, unlocking,
                 form, revoked, stored, wasHeld, away>>

(* The last key bytes are copied (each import copies what the object holds *)
(* then) and the request leaves with the token of that moment: createItem, *)
(* updateItem, or changeMasterPassword wrapping the user key.              *)
Send(o, bytes) ==
  /\ op[o].at = "encrypt"
  /\ token # None
  /\ \/ bytes = op[o].bytes
     \/ bytes = "torn" /\ op[o].bytes = "intact" /\ Wiped(op[o].key)
  /\ op' = [op EXCEPT ![o].at = "answer", ![o].token = token,
                      ![o].bytes = bytes]
  /\ UNCHANGED <<keyState, held, timer, session, token, screen, provisions,
                 unlocking, form, revoked, stored, wasHeld, away>>

(* What the server keeps of a write it accepts.                            *)
Accepted(o) ==
  stored \cup {[kind |-> op[o].kind, bytes |-> op[o].bytes,
                own |-> op[o].token = op[o].key]}

(* A form that is still there after a failure can be submitted again.      *)
Enabled(o) == IF screen.by = o THEN [screen EXCEPT !.by = None] ELSE screen

(* The server stores the cipher; refreshList then syncs with the token of  *)
(* that moment, or rejects without one.                                    *)
SaveDone(o) ==
  /\ op[o].kind = "save" /\ op[o].at = "answer"
  /\ op[o].token \notin revoked
  /\ stored' = Accepted(o)
  /\ IF token = None
       THEN op' = [op EXCEPT ![o] = NoOp] /\ screen' = Enabled(o)
       ELSE /\ op' = [op EXCEPT ![o].kind = "refresh", ![o].token = token]
            /\ screen' = screen
  /\ UNCHANGED <<keyState, held, timer, session, token, provisions, unlocking,
                 form, revoked, wasHeld, away>>

(* sync() is answered and decrypted: renderList, whatever is on screen and *)
(* whether or not the vault was locked meanwhile.                          *)
RefreshDone(o) ==
  /\ op[o].kind = "refresh" /\ op[o].at = "answer"
  /\ op[o].token \notin revoked
  /\ screen' = Screen("list", op[o].key)
  /\ op' = [op EXCEPT ![o] = NoOp]
  /\ UNCHANGED <<keyState, held, timer, session, token, provisions, unlocking,
                 form, revoked, stored, wasHeld, away>>

(* The server replaces the envelope of the user key and invalidates every  *)
(* token it has issued.                                                    *)
Issued == {u \in Unlocks : unlocking[u] \notin {"unused", "login"}}

ChangeApplied(o) ==
  /\ op[o].kind = "change" /\ op[o].at = "answer"
  /\ op[o].token \notin revoked
  /\ stored' = Accepted(o)
  /\ revoked' = Issued
  /\ op' = [op EXCEPT ![o] = NoOp]

(* The answer arrives: autoLock.lock().                                    *)
ChangeDone(o) ==
  /\ ChangeApplied(o)
  /\ LockNow
  /\ UNCHANGED <<unlocking, form, wasHeld, away>>

(* The answer is lost: the form shows an error and is enabled again.       *)
ChangeAnswerLost(o) ==
  /\ ChangeApplied(o)
  /\ screen' = Enabled(o)
  /\ UNCHANGED <<keyState, held, timer, session, token, provisions, unlocking,
                 form, wasHeld, away>>

(* A request fails, or there is no token to send it with.                  *)
OpFails(o) ==
  /\ op[o].at # "free"
  /\ op' = [op EXCEPT ![o] = NoOp]
  /\ screen' = Enabled(o)
  /\ UNCHANGED <<keyState, held, timer, session, token, provisions, unlocking,
                 form, revoked, stored, wasHeld, away>>

(* The user puts the device down and does not come back.                   *)
Leave ==
  /\ ~away
  /\ away' = TRUE
  /\ UNCHANGED <<client, revoked, stored, wasHeld>>

-----------------------------------------------------------------------------
Bytes == {"intact", "torn", "zeroed"}

Next ==
  \/ TimerFires \/ LockButton \/ OpenItem \/ OpenChange \/ Leave
  \/ ProvisionRejects
  \/ \E f \in Forms : ProvisionDone(f)
  \/ \E u \in Unlocks :
       SubmitUnlock(u) \/ LoginDone(u) \/ Unwrap(u) \/ UnlockDone(u) \/ UnlockFails(u)
  \/ \E o \in Ops :
       \/ Cancel(o) \/ Submit(o) \/ SaveDone(o) \/ RefreshDone(o)
       \/ ChangeDone(o) \/ ChangeAnswerLost(o) \/ OpFails(o)
       \/ \E bytes \in Bytes : Send(o, bytes)

Spec == Init /\ [][Next]_vars

\* Nothing re-arms the timer once the user is gone, so it fires.
FairSpec == Spec /\ WF_vars(away /\ TimerFires)

-----------------------------------------------------------------------------
ScreenType ==
  /\ screen \in [kind : Forms \cup VaultScreens \cup {"loading"},
                 key : Unlocks \cup {None}, by : Unlocks \cup Ops \cup {None}]
  /\ screen.kind \in VaultScreens <=> screen.key # None
  /\ screen.key \in wasHeld \cup {None}

Operation == [kind : {"none", "refresh", "save", "change"},
              key : Unlocks \cup {None}, at : {"free", "encrypt", "answer"},
              token : Unlocks \cup {None}, bytes : Bytes]
OpType ==
  /\ op \in [Ops -> Operation]
  /\ \A o \in Ops : op[o].at # "free" => op[o].kind # "none" /\ op[o].key # None
  /\ \A o \in Ops : op[o].key \in wasHeld \cup {None}

(* Types, and which keys the closures of screens and operations hold: ones *)
(* that AutoLock was given (main.ts:73-75), so that a lock can zero them.  *)
TypeOK ==
  /\ keyState \in [Unlocks -> {"unborn", "live", "wiped"}]
  /\ held \in Unlocks \cup {None}
  /\ timer \in BOOLEAN /\ session \in BOOLEAN /\ away \in BOOLEAN
  /\ token \in Unlocks \cup {None}
  /\ provisions \in Nat
  /\ unlocking \in [Unlocks -> Pending \cup {"unused", "done", "failed"}]
  /\ form \in [Unlocks -> Forms \cup {None}]
  /\ revoked \subseteq Unlocks
  /\ stored \subseteq [kind : {"save", "change"}, bytes : Bytes, own : BOOLEAN]
  /\ wasHeld \subseteq Unlocks
  /\ ScreenType
  /\ OpType

(* autolock.ts:19-47: an unlocked vault is always on a running inactivity  *)
(* timer with an intact key, and a locked one has none, through late       *)
(* unlocks, double unlocks and the lock that ends a password change.       *)
UnlockedIsTimed ==
  /\ timer <=> held # None
  /\ session <=> held # None
  /\ held # None => keyState[held] = "live"

(* main.ts:107-124, edit-ui.ts:195-211: a form whose button is disabled    *)
(* waits for a call that is still under way and that will enable it again  *)
(* or leave the form, so no screen is stuck on its own submit.             *)
SubmitIsAnswered ==
  /\ screen.by \in Unlocks => unlocking[screen.by] \in Pending
  /\ screen.by \in Ops => op[screen.by].at # "free"

(* client.ts:176-181, password-change.ts:26: what the session of a key     *)
(* writes is encrypted (or wraps) the intact key, although lock() may zero *)
(* it at any await of the operation: zeroing the key and dropping the      *)
(* token are one step, and a token is looked up after the last key import. *)
OwnSessionWritesIntact ==
  \A w \in stored : w.own => w.bytes = "intact"

Custody == INSTANCE KeyCustody WITH key <- keyState, taken <- wasHeld

(* autolock.ts:1-5: whatever screens, timers and late answers do, each key *)
(* is held at most once and intact, is zeroed by a lock only and stays so, *)
(* and the lock that zeroes it drops the token in the same step.           *)
ImplementsKeyCustody == Custody!Spec

(* client.ts:176-181 "the caller encrypts with the userKey before this is  *)
(* ever called", password-change.ts:26 "The live, unwrapped user key", in  *)
(* any session: no cipher or envelope the server stores was made with a    *)
(* key that was already zeroed when its form was submitted.                *)
WritesUseUserKey ==
  \A w \in stored : w.bytes # "zeroed"

(* An abandoned vault is locked in the end, for good, whatever unlocks and *)
(* password changes were under way when the user left.                     *)
AbandonedVaultLocks == away ~> [](held = None)
=============================================================================
