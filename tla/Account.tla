------------------------------ MODULE Account -------------------------------
(***************************************************************************)
(* The account of one Telegram user, from the first open of the Mini App   *)
(* on several devices: /api/provision with its table and its invite        *)
(* (server/main.py, provisioning.py, vaultwarden_admin.py), registration   *)
(* with its conflict path (vault/register.ts), unlock, the change of the   *)
(* master password and the export (vault/unlock.ts, password-change.ts,    *)
(* export.ts).  Users share nothing: rows, invitations and accounts are    *)
(* keyed by the Telegram id.                                               *)
(*                                                                         *)
(* Cryptography is symbolic: a password stands for the master key, the     *)
(* stretched key and the hash derived from it (crypto/keys.ts), and an     *)
(* envelope is the user key it wraps and the password it opens with.       *)
(***************************************************************************)
EXTENDS Naturals, FiniteSets

CONSTANTS
  Devices,     \* running copies of the Mini App, each with its own initData
  Passwords,   \* master passwords
  Keys,        \* the user keys that registrations generate
  MaxExports,  \* bound on the exports kept
  MaxLate,     \* bound on the changes of the password that outlive their page
  None

Envelopes == [key : Keys, under : Passwords]

ASSUME NoneIsNothingElse ==
  /\ None \notin Keys \cup Passwords
  /\ None \notin {"new", "existing", "manual"}
  /\ None \notin [hash : Passwords, envelope : Envelopes]
  /\ None \notin [password : Passwords, key : Keys]
ASSUME BoundsAreNumbers == MaxExports \in Nat /\ MaxLate \in Nat

VARIABLES
  provisioned, \* thin backend: the user has a row in the table (SQLite)
  invited,     \* Vaultwarden: a pending invitation for the email
  account,     \* Vaultwarden: None, or the hash's password and the envelope
  tokens,      \* Vaultwarden: devices whose access token it accepts
  completions, \* devices whose /api/provision/complete is in flight
  expired,     \* devices whose initData is older than INITDATA_TTL
  late,        \* changes of the password whose page was locked or closed
  stage,       \* device -> what it waits for or shows
  form,        \* device -> the form it was routed to
  typed,       \* device -> the password of the submit under way
  next,        \* device -> the new password of a change under way
  userKey,     \* device -> the user key it has unwrapped or generated
  envelope,    \* device -> the envelope that belongs to its session
  exports,     \* the export files: envelope, key of the ciphers; history: the
               \* account's password when the server answered
  refused      \* history, until there is an account: the admin API refused
               \* an invite with a 4xx that does not mean it knows the email

server == <<provisioned, invited, account, tokens>>
app == <<stage, form, typed, next, userKey, envelope>>
vars == <<server, completions, expired, late, app, exports, refused>>

Envelope(key, password) == [key |-> key, under |-> password]
(* decryptUserKey: the MAC only matches under the password that wrapped.   *)
Unwrapped(env, password) == IF env.under = password THEN env.key ELSE None

\* Stages in which a submit is under way, and those of an unlocked vault.
InFlight == {"registering", "loggingIn", "unlocking", "syncing"}
Unlocked == {"open", "changing"}
HoldsKey == {"registering", "loggingIn", "syncing"} \cup Unlocked

Init ==
  /\ provisioned = FALSE /\ invited = FALSE /\ account = None
  /\ tokens = {} /\ completions = {} /\ expired = {} /\ late = {}
  /\ stage = [d \in Devices |-> "asking"]
  /\ form = [d \in Devices |-> None]
  /\ typed = [d \in Devices |-> None]
  /\ next = [d \in Devices |-> None]
  /\ userKey = [d \in Devices |-> None]
  /\ envelope = [d \in Devices |-> None]
  /\ exports = {} /\ refused = FALSE

(* renderUnlock: forget the session and ask where to go; also what a page  *)
(* that is loaded again does.                                              *)
AskAgain(d) ==
  /\ stage' = [stage EXCEPT ![d] = "asking"]
  /\ form' = [form EXCEPT ![d] = None]
  /\ typed' = [typed EXCEPT ![d] = None]
  /\ next' = [next EXCEPT ![d] = None]
  /\ userKey' = [userKey EXCEPT ![d] = None]
  /\ envelope' = [envelope EXCEPT ![d] = None]

(* A change of the password that was under way may still be, as nothing     *)
(* aborts it (one from a session that is over, or with a wrong password,   *)
(* fails whenever it arrives); any other request has taken effect by then  *)
(* or never does.                                                          *)
LeftBehind(d) ==
  late' = IF /\ stage[d] = "changing" /\ d \in tokens /\ account.hash = typed[d]
             /\ Cardinality(late) < MaxLate
            THEN late \cup
                   {[by |-> d, old |-> typed[d], new |-> next[d], key |-> userKey[d]]}
            ELSE late

(* The page dies at any await and Telegram opens it with fresh initData.   *)
Reopen(d) ==
  /\ AskAgain(d)
  /\ LeftBehind(d)
  /\ expired' = expired \ {d}
  /\ UNCHANGED <<server, completions, exports, refused>>

(* The app stays open for longer than INITDATA_TTL.                        *)
InitDataExpires(d) ==
  /\ d \notin expired
  /\ expired' = expired \cup {d}
  /\ UNCHANGED <<server, completions, late, app, exports, refused>>

-----------------------------------------------------------------------------
(* /api/provision                                                          *)

ShowForm(d, f) ==
  /\ stage' = [stage EXCEPT ![d] = "form"]
  /\ form' = [form EXCEPT ![d] = f]
  /\ UNCHANGED <<typed, next, userKey, envelope>>

(* A row in the table: "existing".                                         *)
AnswerExisting(d) ==
  /\ stage[d] = "asking"
  /\ d \notin expired
  /\ provisioned
  /\ ShowForm(d, "existing")
  /\ UNCHANGED <<server, completions, expired, late, exports, refused>>

(* No row: the handler goes on to await the admin API.                     *)
StartInvite(d) ==
  /\ stage[d] = "asking"
  /\ d \notin expired
  /\ ~provisioned
  /\ stage' = [stage EXCEPT ![d] = "inviting"]
  /\ UNCHANGED <<server, completions, expired, late, form, typed, next, userKey,
                 envelope, exports, refused>>

(* The invite is created, or refused because Vaultwarden knows the email.  *)
Invited(d) ==
  /\ stage[d] = "inviting"
  /\ invited' = (invited \/ account = None)
  /\ ShowForm(d, "new")
  /\ UNCHANGED <<provisioned, account, tokens, completions, expired, late, exports,
                 refused>>

(* Refused with any other 4xx: invite_user returns as if it had succeeded. *)
InviteRefused(d) ==
  /\ stage[d] = "inviting"
  /\ refused' = (refused \/ account = None)
  /\ ShowForm(d, "new")
  /\ UNCHANGED <<server, completions, expired, late, exports>>

ShownAsNew == "new"
FormAfterError == "manual"

(* The admin login fails, the invite is answered by a 5xx or times out     *)
(* (perhaps after it took effect): the answer is not ok, and the manual    *)
(* form asks for an email.                                                 *)
InviteFails(d) ==
  /\ stage[d] = "inviting"
  /\ invited' \in {invited, invited \/ account = None}
  /\ ShowForm(d, FormAfterError)
  /\ UNCHANGED <<provisioned, account, tokens, completions, expired, late, exports,
                 refused>>

(* 401 (expired), 429, 400: the manual form as well.                       *)
ProvisionRefused(d) ==
  /\ stage[d] = "asking"
  /\ ShowForm(d, "manual")
  /\ UNCHANGED <<server, completions, expired, late, exports, refused>>

(* No answer at all: nobody handles the rejection, "Loading..." stays.     *)
ProvisionRejects(d) ==
  /\ \/ stage[d] = "asking" /\ invited' = invited
     \/ stage[d] = "inviting" /\ invited' \in {invited, invited \/ account = None}
  /\ stage' = [stage EXCEPT ![d] = "stuck"]
  /\ UNCHANGED <<provisioned, account, tokens, completions, expired, late, form,
                 typed, next, userKey, envelope, exports, refused>>

-----------------------------------------------------------------------------
(* Registration and unlock                                                 *)

TellsEarly(d) == completions \cup {d}
CompletionsAtSubmit(d) == completions

\* A random key is none that anything remembers (what was exported or left
\* behind is the account's).
Unheard(key) ==
  /\ \A d \in Devices : userKey[d] # key
  /\ account # None => account.envelope.key # key

(* "Create vault": registerAndUnlock generates a user key and wraps it.    *)
SubmitCreate(d, password, key) ==
  /\ stage[d] = "form" /\ form[d] = "new"
  /\ Unheard(key)
  /\ stage' = [stage EXCEPT ![d] = "registering"]
  /\ typed' = [typed EXCEPT ![d] = password]
  /\ userKey' = [userKey EXCEPT ![d] = key]
  /\ envelope' = [envelope EXCEPT ![d] = Envelope(key, password)]
  /\ completions' = CompletionsAtSubmit(d)
  /\ UNCHANGED <<server, expired, late, form, next, exports, refused>>

(* "Unlock vault", with the routed email or with one typed by hand.        *)
SubmitUnlock(d, password) ==
  /\ stage[d] = "form" /\ form[d] \in {"existing", "manual"}
  /\ stage' = [stage EXCEPT ![d] = "unlocking"]
  /\ typed' = [typed EXCEPT ![d] = password]
  /\ UNCHANGED <<server, completions, expired, late, form, next, userKey, envelope,
                 exports, refused>>

KeepsKey(d) == userKey
DropsKey(d) == [userKey EXCEPT ![d] = None]

(* A failing step: the error is shown, the form can be submitted again and *)
(* what was derived is dropped.                                            *)
BackToForm(d) ==
  /\ stage' = [stage EXCEPT ![d] = "form"]
  /\ typed' = [typed EXCEPT ![d] = None]
  /\ userKey' = DropsKey(d)
  /\ envelope' = [envelope EXCEPT ![d] = None]
  /\ UNCHANGED <<form, next>>

SubmitFails(d) ==
  /\ stage[d] \in InFlight
  /\ BackToForm(d)
  /\ UNCHANGED <<server, completions, expired, late, exports, refused>>

(* The server accepts the registration of an invited email; the answer     *)
(* arrives or is lost.                                                     *)
Registered(d) ==
  /\ stage[d] = "registering"
  /\ account = None /\ invited
  /\ account' = [hash |-> typed[d], envelope |-> envelope[d]]
  /\ invited' = FALSE /\ refused' = FALSE
  /\ \/ stage' = [stage EXCEPT ![d] = "loggingIn"]
        /\ UNCHANGED <<form, typed, next, userKey, envelope>>
     \/ BackToForm(d)
  /\ UNCHANGED <<provisioned, tokens, completions, expired, late, exports>>

TrustsFreshKey(d) ==
  /\ stage' = [stage EXCEPT ![d] = "loggingIn"]
  /\ UNCHANGED <<userKey, envelope>>
(* RegisterConflictError: defer to unlock() and drop the generated key.    *)
AfterConflict(d) ==
  /\ stage' = [stage EXCEPT ![d] = "unlocking"]
  /\ userKey' = [userKey EXCEPT ![d] = None]
  /\ envelope' = [envelope EXCEPT ![d] = None]

(* "already exists", or "not allowed" for an email nobody invited.         *)
RegisterConflict(d) ==
  /\ stage[d] = "registering"
  /\ account # None \/ ~invited
  /\ AfterConflict(d)
  /\ UNCHANGED <<server, completions, expired, late, form, typed, next, exports, refused>>

(* After a fresh registration: log in with the hash, keep the key.         *)
LoginFresh(d) ==
  /\ stage[d] = "loggingIn"
  /\ account # None
  /\ account.hash = typed[d]
  /\ tokens' = tokens \cup {d}
  /\ stage' = [stage EXCEPT ![d] = "syncing"]
  /\ UNCHANGED <<provisioned, invited, account, completions, expired, late, form,
                 typed, next, userKey, envelope, exports, refused>>

(* unlock(): log in, unwrap the envelope the server returns.               *)
Login(d) ==
  /\ stage[d] = "unlocking"
  /\ account # None
  /\ account.hash = typed[d]
  /\ Unwrapped(account.envelope, typed[d]) # None
  /\ tokens' = tokens \cup {d}
  /\ userKey' = [userKey EXCEPT ![d] = Unwrapped(account.envelope, typed[d])]
  /\ envelope' = [envelope EXCEPT ![d] = account.envelope]
  /\ stage' = [stage EXCEPT ![d] = "syncing"]
  /\ UNCHANGED <<provisioned, invited, account, completions, expired, late, form,
                 typed, next, exports, refused>>

(* sync() is answered: onUnlocked; a "new" form also fires the completion. *)
Synced(d) ==
  /\ stage[d] = "syncing"
  /\ d \in tokens
  /\ stage' = [stage EXCEPT ![d] = "open"]
  /\ typed' = [typed EXCEPT ![d] = None]
  /\ completions' = IF form[d] = "new" THEN completions \cup {d} ELSE completions
  /\ UNCHANGED <<server, expired, late, form, next, userKey, envelope, exports,
                 refused>>

(* mark_provisioned: INSERT OR IGNORE.                                     *)
Complete(d) ==
  /\ d \in completions
  /\ d \notin expired
  /\ provisioned' = TRUE
  /\ completions' = completions \ {d}
  /\ UNCHANGED <<invited, account, tokens, expired, late, app, exports, refused>>

(* Lost, or refused because the initData has expired: nobody is told.      *)
CompletionLost(d) ==
  /\ d \in completions
  /\ completions' = completions \ {d}
  /\ UNCHANGED <<server, expired, late, app, exports, refused>>

-----------------------------------------------------------------------------
(* An unlocked vault                                                       *)

Lock(d) ==
  /\ stage[d] \in Unlocked
  /\ AskAgain(d)
  /\ LeftBehind(d)
  /\ UNCHANGED <<server, completions, expired, exports, refused>>

RewrapsAtSubmit(d, new) == [envelope EXCEPT ![d] = Envelope(userKey[d], new)]
EnvelopeAtSubmit(d, new) == envelope

(* The change form: both hashes and the re-wrapped key are computed.       *)
SubmitChange(d, old, new) ==
  /\ stage[d] = "open"
  /\ stage' = [stage EXCEPT ![d] = "changing"]
  /\ typed' = [typed EXCEPT ![d] = old]
  /\ next' = [next EXCEPT ![d] = new]
  /\ envelope' = EnvelopeAtSubmit(d, new)
  /\ UNCHANGED <<server, completions, expired, late, form, userKey, exports,
                 refused>>

BackToVault(d) ==
  /\ stage' = [stage EXCEPT ![d] = "open"]
  /\ typed' = [typed EXCEPT ![d] = None]
  /\ next' = [next EXCEPT ![d] = None]
  /\ UNCHANGED <<form, userKey, envelope>>

ChangeFails(d) ==
  /\ stage[d] = "changing"
  /\ BackToVault(d)
  /\ UNCHANGED <<server, completions, expired, late, exports, refused>>

UnderOldPassword(old, new, key) == Envelope(key, old)
Rewrapped(old, new, key) == Envelope(key, new)

(* The server checks the token and the old hash, replaces hash and         *)
(* envelope and invalidates every session, so that other changes fail.     *)
Replace(old, new, key) ==
  /\ account.hash = old
  /\ account' = [hash |-> new, envelope |-> Rewrapped(old, new, key)]
  /\ tokens' = {}
  /\ late' = {}
  /\ UNCHANGED <<provisioned, invited, completions, expired, exports, refused>>

(* Then the app locks, or shows an error when the answer is lost.          *)
Changed(d) ==
  /\ stage[d] = "changing"
  /\ d \in tokens
  /\ Replace(typed[d], next[d], userKey[d])
  /\ AskAgain(d) \/ BackToVault(d)

(* The request of a page that was locked meanwhile takes effect.  If it is *)
(* there to hear of it, the app locks once more, whatever it shows by then *)
(* (a submit under way goes on); if not, nobody does.                      *)
ChangedLate(c) ==
  /\ Replace(c.old, c.new, c.key)
  /\ \/ stage[c.by] \notin InFlight /\ AskAgain(c.by)
     \/ UNCHANGED app

(* handleExport: a sync of the ciphers beside the session's envelope.      *)
Export(d) ==
  /\ stage[d] \in Unlocked
  /\ d \in tokens
  /\ Cardinality(exports) < MaxExports
  /\ exports' = exports \cup
       {[envelope |-> envelope[d], ciphers |-> account.envelope.key,
         password |-> account.hash]}
  /\ UNCHANGED <<server, completions, expired, late, app, refused>>

-----------------------------------------------------------------------------
Provision(d) ==
  \/ AnswerExisting(d) \/ StartInvite(d) \/ Invited(d) \/ InviteRefused(d)
  \/ InviteFails(d) \/ ProvisionRefused(d) \/ ProvisionRejects(d)

Onboard(d) ==
  \/ \E p \in Passwords, k \in Keys : SubmitCreate(d, p, k)
  \/ \E p \in Passwords : SubmitUnlock(d, p)
  \/ SubmitFails(d) \/ Registered(d) \/ RegisterConflict(d) \/ LoginFresh(d)
  \/ Login(d) \/ Synced(d) \/ Complete(d) \/ CompletionLost(d)

UseVault(d) ==
  \/ \E old, new \in Passwords : SubmitChange(d, old, new)
  \/ Lock(d) \/ ChangeFails(d) \/ Changed(d) \/ Export(d)
  \/ \E c \in late : c.by = d /\ ChangedLate(c)

Next ==
  \E d \in Devices :
    Reopen(d) \/ InitDataExpires(d) \/ Provision(d) \/ Onboard(d) \/ UseVault(d)

Spec == Init /\ [][Next]_vars

-----------------------------------------------------------------------------
Stages == {"asking", "inviting", "stuck", "form"} \cup InFlight \cup Unlocked

ServerType ==
  /\ provisioned \in BOOLEAN /\ invited \in BOOLEAN /\ refused \in BOOLEAN
  /\ account \in [hash : Passwords, envelope : Envelopes] \cup {None}
  /\ tokens \subseteq Devices /\ completions \subseteq Devices
  /\ expired \subseteq Devices
  /\ late \subseteq [by : Devices, old : Passwords, new : Passwords, key : Keys]
  /\ exports \subseteq [envelope : Envelopes, ciphers : Keys, password : Passwords]

AppType ==
  /\ stage \in [Devices -> Stages]
  /\ form \in [Devices -> {"new", "existing", "manual", None}]
  /\ typed \in [Devices -> Passwords \cup {None}]
  /\ next \in [Devices -> Passwords \cup {None}]
  /\ userKey \in [Devices -> Keys \cup {None}]
  /\ envelope \in [Devices -> Envelopes \cup {None}]

(* Types, and that an app keeps a user key exactly while an attempt that   *)
(* has one, or its session, is alive.                                      *)
TypeOK ==
  /\ ServerType
  /\ AppType
  /\ \A d \in Devices : userKey[d] # None <=> stage[d] \in HoldsKey

(* register.ts:47-51, unlock.ts:57: whichever way a device was unlocked    *)
(* (fresh registration, a conflict after a lost answer or a second device, *)
(* or a login), it holds the key the account was created with; a wrong one *)
(* would only show as items named "(no name)" and encrypt new ones.        *)
UnlockedHoldsAccountKey ==
  \A d \in Devices : stage[d] \in Unlocked =>
    account # None /\ userKey[d] = account.envelope.key

(* restoreExport: what an export file gives back for a password.           *)
Restored(e, password) == Unwrapped(e.envelope, password)

(* export.ts:10-12, 24: every export opens offline with the password the   *)
(* account had when it was taken, and with no other, although it carries   *)
(* the envelope the session got at its login and password changes of this  *)
(* or another device fail, succeed or lose their answer meanwhile.         *)
ExportsOpen ==
  \A e \in exports, p \in Passwords :
    Restored(e, p) = IF p = e.password THEN e.ciphers ELSE None

(* main.py:174-182: a user is only routed to "enter your password" when    *)
(* there is an account, so routing never keeps one from registering.       *)
ExistingHasAccount ==
  /\ provisioned => account # None
  /\ \A d \in Devices : form[d] = "existing" => account # None

(* vaultwarden_admin.py:28-31 "registration is now possible for this       *)
(* email": so it is whenever "set a password" is shown, or there is an     *)
(* account to fall back on, unless the admin API refused an invite for     *)
(* another reason than knowing the email.                                  *)
NewIsRegistrable ==
  \A d \in Devices : form[d] = "new" => invited \/ account # None \/ refused

(* The account as its password and what that password unwraps, the devices *)
(* as the keys they hold while unlocked.                                   *)
VaultNow ==
  IF account = None THEN None
  ELSE [password |-> account.hash, key |-> Unwrapped(account.envelope, account.hash)]
KeysOpen == [d \in Devices |-> IF stage[d] \in Unlocked THEN userKey[d] ELSE None]

Changing == {d \in Devices : stage[d] = "changing"} \cup {c.by : c \in late}

Vault == INSTANCE VaultAccount WITH
  vault <- VaultNow, open <- KeysOpen, changing <- Changing

(* password-change.ts:6-9, client.ts:256-262: registration, conflicts,     *)
(* retries and changes that fail or lose their answer implement an account *)
(* created once, whose current password always opens the same user key.    *)
ImplementsVaultAccount == Vault!Spec
=============================================================================
