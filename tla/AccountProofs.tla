--------------------------- MODULE AccountProofs ---------------------------
(* Theorems about Account, for any devices, passwords and keys.            *)
EXTENDS Account, TLAPS

-----------------------------------------------------------------------------
\* An account opens with the password the server checks.
AccountOpens ==
  account # None => account.envelope.under = account.hash

\* Where a device holds the account's key, unlocked or about to be.
Trusted == {"loggingIn", "syncing"} \cup Unlocked
TrustedHoldAccountKey ==
  \A d \in Devices : stage[d] \in Trusted =>
    account # None /\ userKey[d] = account.envelope.key

\* What a submit keeps while it is under way.
SubmitsAreWhole ==
  \A d \in Devices :
    /\ stage[d] \in InFlight \cup {"changing"} => typed[d] \in Passwords
    /\ stage[d] = "changing" => next[d] \in Passwords
    /\ stage[d] \in {"registering", "loggingIn"} =>
         envelope[d] = Envelope(userKey[d], typed[d])

\* A session that the server still accepts has the current envelope.
SessionsAreCurrent ==
  \A d \in tokens : stage[d] \in {"syncing"} \cup Unlocked =>
    envelope[d] = account.envelope

\* A change that outlived its page wraps the account's key.
LateChangesHoldAccountKey ==
  \A c \in late : account # None /\ c.key = account.envelope.key

CompletionsFollowAccounts ==
  completions # {} => account # None

ExportsWereCurrent ==
  \A e \in exports : e.envelope = Envelope(e.ciphers, e.password)

AccountInv ==
  /\ TypeOK
  /\ AccountOpens
  /\ TrustedHoldAccountKey
  /\ SubmitsAreWhole
  /\ SessionsAreCurrent
  /\ LateChangesHoldAccountKey
  /\ CompletionsFollowAccounts
  /\ ExistingHasAccount
  /\ ExportsWereCurrent
  /\ NewIsRegistrable

LEMMA InitInv == Init => AccountInv
<1> SUFFICES ASSUME Init PROVE AccountInv
  OBVIOUS
<1>1. TypeOK
  <2>1. ServerType
    BY DEF Init, ServerType
  <2>2. AppType
    BY DEF Init, AppType, Stages
  <2> QED
    BY <2>1, <2>2 DEF TypeOK, Init, HoldsKey, Unlocked
<1>2. /\ AccountOpens /\ CompletionsFollowAccounts /\ ExistingHasAccount
      /\ LateChangesHoldAccountKey
  BY NoneIsNothingElse DEF Init, AccountOpens, CompletionsFollowAccounts,
     ExistingHasAccount, LateChangesHoldAccountKey
<1>3. TrustedHoldAccountKey /\ SubmitsAreWhole /\ SessionsAreCurrent
  BY DEF Init, TrustedHoldAccountKey, SubmitsAreWhole, SessionsAreCurrent, Trusted,
         InFlight, Unlocked
<1>4. ExportsWereCurrent /\ NewIsRegistrable
  BY NoneIsNothingElse DEF Init, ExportsWereCurrent, NewIsRegistrable
<1> QED
  BY <1>1, <1>2, <1>3, <1>4 DEF AccountInv

(* One step of one device.                                                 *)
LEMMA DeviceStep ==
  ASSUME AccountInv, NEW d \in Devices,
         Reopen(d) \/ InitDataExpires(d) \/ Provision(d) \/ Onboard(d) \/ UseVault(d)
  PROVE  AccountInv'
<1> USE NoneIsNothingElse DEF AccountInv, TypeOK, ServerType, AppType,
          Stages, HoldsKey, Unlocked, InFlight, Trusted, Envelopes, Envelope, AccountOpens,
          TrustedHoldAccountKey, SubmitsAreWhole, SessionsAreCurrent,
          LateChangesHoldAccountKey, CompletionsFollowAccounts, ExistingHasAccount,
          ExportsWereCurrent, NewIsRegistrable, server, app
<1>1. CASE Reopen(d)
  BY <1>1 DEF Reopen, AskAgain, LeftBehind
<1>2. CASE InitDataExpires(d)
  BY <1>2 DEF InitDataExpires
<1>3. CASE AnswerExisting(d)
  BY <1>3 DEF AnswerExisting, ShowForm
<1>4. CASE StartInvite(d)
  BY <1>4 DEF StartInvite
<1>5. CASE Invited(d)
  BY <1>5 DEF Invited, ShowForm
<1>6. CASE InviteRefused(d)
  BY <1>6 DEF InviteRefused, ShowForm
<1>7. CASE InviteFails(d)
  BY <1>7 DEF InviteFails, ShowForm, FormAfterError
<1>8. CASE ProvisionRefused(d)
  BY <1>8 DEF ProvisionRefused, ShowForm
<1>9. CASE ProvisionRejects(d)
  BY <1>9 DEF ProvisionRejects
<1>10. ASSUME NEW p \in Passwords, NEW k \in Keys, SubmitCreate(d, p, k)
      PROVE  AccountInv'
  BY <1>10 DEF SubmitCreate, CompletionsAtSubmit, Unheard
<1>11. ASSUME NEW p \in Passwords, SubmitUnlock(d, p)
      PROVE  AccountInv'
  BY <1>11 DEF SubmitUnlock
<1>12. CASE SubmitFails(d)
  BY <1>12 DEF SubmitFails, BackToForm, DropsKey
<1>13. CASE Registered(d)
  <2> USE <1>13 DEF Registered, BackToForm, DropsKey
  <2>1. account' = [hash |-> typed[d], envelope |-> Envelope(userKey[d], typed[d])]
    OBVIOUS
  <2>2. typed[d] \in Passwords /\ userKey[d] \in Keys
    OBVIOUS
  <2>3. account' \in [hash : Passwords, envelope : Envelopes] /\ account' # None
    BY <2>1, <2>2
  <2>4. TypeOK'
    <3>1. ServerType'
      BY <2>3
    <3>2. CASE /\ stage' = [stage EXCEPT ![d] = "loggingIn"]
             /\ UNCHANGED <<form, typed, next, userKey, envelope>>
      BY <3>1, <3>2
    <3>3. CASE BackToForm(d)
      BY <3>1, <3>3
    <3> QED
      BY <3>2, <3>3
  \* Nobody else can have got as far: there was no account.
  <2>5. \A x \in Devices : stage'[x] \in Trusted => x = d /\ stage'[x] = "loggingIn"
    OBVIOUS
  <2>6. TrustedHoldAccountKey' /\ SubmitsAreWhole' /\ SessionsAreCurrent'
    BY <2>1, <2>2, <2>5
  <2>7. /\ AccountOpens' /\ CompletionsFollowAccounts' /\ ExistingHasAccount'
        /\ LateChangesHoldAccountKey' /\ ExportsWereCurrent' /\ NewIsRegistrable'
    BY <2>1, <2>2
  <2> QED
    BY <2>4, <2>6, <2>7
<1>14. CASE RegisterConflict(d)
  BY <1>14 DEF RegisterConflict, AfterConflict
<1>15. CASE LoginFresh(d)
  BY <1>15 DEF LoginFresh
<1>16. CASE Login(d)
  BY <1>16 DEF Login, Unwrapped
<1>17. CASE Synced(d)
  BY <1>17 DEF Synced
<1>18. CASE Complete(d)
  BY <1>18 DEF Complete
<1>19. CASE CompletionLost(d)
  BY <1>19 DEF CompletionLost
<1>20. ASSUME NEW p \in Passwords, NEW q \in Passwords, SubmitChange(d, p, q)
      PROVE  AccountInv'
  BY <1>20 DEF SubmitChange, EnvelopeAtSubmit
<1>21. CASE Lock(d)
  BY <1>21 DEF Lock, AskAgain, LeftBehind
<1>22. CASE ChangeFails(d)
  BY <1>22 DEF ChangeFails, BackToVault
<1>23. CASE Changed(d)
  <2> USE <1>23 DEF Changed, Replace, Rewrapped
  <2>1. /\ account' = [hash |-> next[d], envelope |-> Envelope(userKey[d], next[d])]
        /\ account # None /\ userKey[d] = account.envelope.key
        /\ userKey[d] \in Keys /\ next[d] \in Passwords
    OBVIOUS
  <2>2. account' # None /\ account'.envelope.key = account.envelope.key
    BY <2>1
  <2>3. CASE AskAgain(d)
    <3> USE <2>3 DEF AskAgain
    <3>1. TypeOK'
      BY <2>1
    <3>2. TrustedHoldAccountKey' /\ SubmitsAreWhole' /\ SessionsAreCurrent'
      BY <2>1, <2>2
    <3>3. /\ AccountOpens' /\ CompletionsFollowAccounts' /\ ExistingHasAccount'
          /\ LateChangesHoldAccountKey' /\ ExportsWereCurrent' /\ NewIsRegistrable'
      BY <2>1, <2>2
    <3> QED
      BY <3>1, <3>2, <3>3
  <2>4. CASE BackToVault(d)
    <3> USE <2>4 DEF BackToVault
    <3>1. TypeOK'
      BY <2>1
    <3>2. TrustedHoldAccountKey' /\ SubmitsAreWhole' /\ SessionsAreCurrent'
      BY <2>1, <2>2
    <3>3. /\ AccountOpens' /\ CompletionsFollowAccounts' /\ ExistingHasAccount'
          /\ LateChangesHoldAccountKey' /\ ExportsWereCurrent' /\ NewIsRegistrable'
      BY <2>1, <2>2
    <3> QED
      BY <3>1, <3>2, <3>3
  <2> QED
    BY <2>3, <2>4
<1>24. ASSUME NEW c \in late, c.by = d, ChangedLate(c)
       PROVE  AccountInv'
  <2> USE <1>24 DEF ChangedLate, Replace, Rewrapped
  <2>1. /\ account' = [hash |-> c.new, envelope |-> Envelope(c.key, c.new)]
        /\ account # None /\ c.key = account.envelope.key
        /\ c.key \in Keys /\ c.new \in Passwords
    OBVIOUS
  <2>2. account' # None /\ account'.envelope.key = account.envelope.key
    BY <2>1
  <2>3. CASE AskAgain(d)
    <3> USE <2>3 DEF AskAgain
    <3>1. TypeOK'
      BY <2>1
    <3>2. TrustedHoldAccountKey' /\ SubmitsAreWhole' /\ SessionsAreCurrent'
      BY <2>1, <2>2
    <3>3. /\ AccountOpens' /\ CompletionsFollowAccounts' /\ ExistingHasAccount'
          /\ LateChangesHoldAccountKey' /\ ExportsWereCurrent' /\ NewIsRegistrable'
      BY <2>1, <2>2
    <3> QED
      BY <3>1, <3>2, <3>3
  <2>4. CASE UNCHANGED app
    <3> USE <2>4
    <3>1. TypeOK'
      BY <2>1
    <3>2. TrustedHoldAccountKey' /\ SubmitsAreWhole' /\ SessionsAreCurrent'
      BY <2>1, <2>2
    <3>3. /\ AccountOpens' /\ CompletionsFollowAccounts' /\ ExistingHasAccount'
          /\ LateChangesHoldAccountKey' /\ ExportsWereCurrent' /\ NewIsRegistrable'
      BY <2>1, <2>2
    <3> QED
      BY <3>1, <3>2, <3>3
  <2> QED
    BY <2>3, <2>4
<1>25. CASE Export(d)
  BY <1>25 DEF Export
<1> QED
  BY <1>1, <1>2, <1>3, <1>4, <1>5, <1>6, <1>7, <1>8, <1>9, <1>10, <1>11, <1>12, <1>13,
     <1>14, <1>15, <1>16, <1>17, <1>18, <1>19, <1>20, <1>21, <1>22, <1>23, <1>24, <1>25
     DEF Provision, Onboard, UseVault

LEMMA InductiveStep == AccountInv /\ [Next]_vars => AccountInv'
<1> SUFFICES ASSUME AccountInv, [Next]_vars PROVE AccountInv'
  OBVIOUS
<1>1. CASE Next
  BY <1>1, DeviceStep DEF Next
<1>2. CASE UNCHANGED vars
  BY <1>2 DEF vars, server, app, AccountInv, TypeOK, ServerType, AppType, AccountOpens,
     TrustedHoldAccountKey, SubmitsAreWhole, SessionsAreCurrent,
     LateChangesHoldAccountKey, CompletionsFollowAccounts, ExistingHasAccount,
     ExportsWereCurrent, NewIsRegistrable
<1> QED
  BY <1>1, <1>2

LEMMA Invariance == Spec => []AccountInv
  BY InitInv, InductiveStep, PTL DEF Spec

-----------------------------------------------------------------------------
(* For any number of devices, passwords and keys: the types, and that an   *)
(* app keeps a key exactly while an attempt or a session is alive          *)
(* (main.ts:67-76, 187-197).                                               *)
THEOREM TypeCorrect == Spec => []TypeOK
<1>1. AccountInv => TypeOK
  BY DEF AccountInv
<1> QED
  BY <1>1, Invariance, PTL

(* register.ts:47-51, unlock.ts:57: whichever way a device was unlocked,   *)
(* it holds the user key of the account.                                   *)
THEOREM UnlockedDevicesAgree == Spec => []UnlockedHoldsAccountKey
<1>1. AccountInv => UnlockedHoldsAccountKey
  BY DEF AccountInv, TrustedHoldAccountKey, Trusted, UnlockedHoldsAccountKey
<1> QED
  BY <1>1, Invariance, PTL

(* export.ts:10-12, 24: an export opens with the password the account had  *)
(* when it was taken, and with no other.                                   *)
THEOREM ExportsOpenWithTheirPassword == Spec => []ExportsOpen
<1>1. AccountInv => ExportsOpen
  <2> SUFFICES ASSUME AccountInv, NEW e \in exports, NEW p \in Passwords
               PROVE  Restored(e, p) = IF p = e.password THEN e.ciphers ELSE None
    BY DEF ExportsOpen
  <2>1. e.envelope = [key |-> e.ciphers, under |-> e.password]
    BY DEF AccountInv, ExportsWereCurrent, Envelope
  <2>2. e.envelope.key = e.ciphers /\ e.envelope.under = e.password
    BY <2>1
  <2> QED
    BY <2>2 DEF Restored, Unwrapped
<1> QED
  BY <1>1, Invariance, PTL

(* main.py:174-182: "existing" is only answered, and only shown, when      *)
(* there is an account.                                                    *)
THEOREM RoutingIsTruthful == Spec => []ExistingHasAccount
<1>1. AccountInv => ExistingHasAccount
  BY DEF AccountInv
<1> QED
  BY <1>1, Invariance, PTL

(* vaultwarden_admin.py:28-31: a device asked to set a password can        *)
(* register, or fall back on the account another one has registered,       *)
(* unless an invite was refused for another reason.                        *)
THEOREM InvitedCanRegister == Spec => []NewIsRegistrable
<1>1. AccountInv => NewIsRegistrable
  BY DEF AccountInv
<1> QED
  BY <1>1, Invariance, PTL

-----------------------------------------------------------------------------
(* The refinement: only a registration, the end of an unlock, a lock, and  *)
(* what becomes of a change of the password show in the abstract account.  *)
LEMMA InitRefines == Init => Vault!Init
<1> SUFFICES ASSUME Init PROVE Vault!Init
  OBVIOUS
<1>1. VaultNow = None
  BY DEF Init, VaultNow
<1>2. KeysOpen = [d \in Devices |-> None]
  BY DEF Init, KeysOpen, Unlocked
<1>3. Changing = {}
  BY DEF Init, Changing
<1> QED
  BY <1>1, <1>2, <1>3 DEF Vault!Init

LEMMA VaultIsOpenable ==
  ASSUME AccountInv, account # None
  PROVE  /\ VaultNow = [password |-> account.hash, key |-> account.envelope.key]
         /\ VaultNow # None
<1>1. account.hash \in Passwords /\ account.envelope \in Envelopes
  BY DEF AccountInv, TypeOK, ServerType
<1>2. Unwrapped(account.envelope, account.hash) = account.envelope.key
  BY DEF AccountInv, AccountOpens, Unwrapped
<1>3. VaultNow = [password |-> account.hash, key |-> account.envelope.key]
  BY <1>2 DEF VaultNow
<1> QED
  <2>1. VaultNow \in [password : Passwords, key : Keys]
    BY <1>1, <1>3 DEF Envelopes
  <2> QED
    BY <1>3, <2>1, NoneIsNothingElse

LEMMA SameVault ==
  ASSUME UNCHANGED account
  PROVE  UNCHANGED VaultNow
  BY DEF VaultNow

LEMMA SameChanges ==
  ASSUME UNCHANGED late,
         \A d \in Devices : stage'[d] = "changing" <=> stage[d] = "changing"
  PROVE  UNCHANGED Changing
  BY DEF Changing

LEMMA LockedKeys ==
  ASSUME AccountInv, NEW d \in Devices, AskAgain(d)
  PROVE  KeysOpen' = [KeysOpen EXCEPT ![d] = None]
  BY DEF AskAgain, KeysOpen, Unlocked, AccountInv, TypeOK, AppType

\* Whether or not a request is left behind, a lock asks for nothing new.
LEMMA LockedChanges ==
  ASSUME AccountInv, NEW d \in Devices, AskAgain(d), LeftBehind(d)
  PROVE  Changing' \in {Changing, Changing \ {d}}
<1>1. \A x \in Devices : stage'[x] = "changing" <=> stage[x] = "changing" /\ x # d
  BY DEF AskAgain, AccountInv, TypeOK, AppType
<1>2. CASE late' = late
  <2>1. CASE \E c \in late : c.by = d
    BY <1>1, <1>2, <2>1 DEF Changing
  <2>2. CASE ~ \E c \in late : c.by = d
    BY <1>1, <1>2, <2>2 DEF Changing
  <2> QED
    BY <2>1, <2>2
<1>3. CASE late' # late
  <2> DEFINE c == [by |-> d, old |-> typed[d], new |-> next[d], key |-> userKey[d]]
  <2>1. late' = late \cup {c} /\ c.by = d /\ stage[d] = "changing"
    BY <1>3 DEF LeftBehind
  <2> HIDE DEF c
  <2>2. Changing' = Changing
    BY <1>1, <2>1 DEF Changing
  <2> QED
    BY <2>2
<1> QED
  BY <1>2, <1>3

LEMMA LockRefines ==
  ASSUME AccountInv, NEW d \in Devices, AskAgain(d), LeftBehind(d), UNCHANGED account
  PROVE  Vault!Lock(d)
  BY LockedKeys, LockedChanges, SameVault DEF Vault!Lock

LEMMA SyncedRefines ==
  ASSUME AccountInv, NEW d \in Devices, Synced(d)
  PROVE  Vault!Unlock(d)
<1>1. account # None /\ userKey[d] = account.envelope.key /\ UNCHANGED account
  BY DEF Synced, server, AccountInv, TrustedHoldAccountKey, Trusted
<1>2. VaultNow # None /\ VaultNow.key = account.envelope.key
  BY <1>1, VaultIsOpenable
<1>3. KeysOpen' = [KeysOpen EXCEPT ![d] = userKey[d]]
  BY DEF Synced, KeysOpen, Unlocked, AccountInv, TypeOK, AppType
<1>4. UNCHANGED VaultNow
  BY <1>1, SameVault
<1>5. UNCHANGED Changing
  BY SameChanges DEF Synced, AccountInv, TypeOK, AppType
<1> QED
  BY <1>1, <1>2, <1>3, <1>4, <1>5 DEF Vault!Unlock

LEMMA RegisteredRefines ==
  ASSUME AccountInv, AccountInv', NEW d \in Devices, Registered(d)
  PROVE  \E p \in Passwords, k \in Keys : Vault!Create(p, k)
<1>1. /\ account = None /\ stage[d] = "registering"
      /\ account' = [hash |-> typed[d], envelope |-> envelope[d]]
  BY DEF Registered
<1>2. /\ envelope[d] = [key |-> userKey[d], under |-> typed[d]]
      /\ typed[d] \in Passwords /\ userKey[d] \in Keys
  BY <1>1 DEF AccountInv, SubmitsAreWhole, Envelope, TypeOK, AppType, InFlight, HoldsKey
<1>3. VaultNow = None
  BY <1>1 DEF VaultNow
<1>4. account' # None
  BY <1>1, <1>2, NoneIsNothingElse DEF Envelopes
<1>5. VaultNow' = [password |-> typed[d], key |-> userKey[d]]
  BY <1>1, <1>2, <1>4 DEF VaultNow, Unwrapped
<1>6. UNCHANGED KeysOpen
  BY DEF Registered, BackToForm, DropsKey, KeysOpen, Unlocked, AccountInv, TypeOK, AppType
<1>7. UNCHANGED Changing
  BY SameChanges DEF Registered, BackToForm, AccountInv, TypeOK, AppType
<1> QED
  BY <1>2, <1>3, <1>5, <1>6, <1>7 DEF Vault!Create

\* The account after a change that some device asked for.
LEMMA ReplaceRefines ==
  ASSUME AccountInv, NEW old, NEW new \in Passwords, NEW key \in Keys,
         account # None, key = account.envelope.key, Replace(old, new, key)
  PROVE  /\ VaultNow # None
         /\ VaultNow' = [password |-> new, key |-> VaultNow.key]
<1>1. account' = [hash |-> new, envelope |-> [key |-> key, under |-> new]]
  BY DEF Replace, Rewrapped, Envelope
<1>2. VaultNow # None /\ VaultNow.key = key
  BY VaultIsOpenable
<1>3. account' # None
  BY <1>1, NoneIsNothingElse DEF Envelopes
<1>4. VaultNow' = [password |-> new, key |-> key]
  BY <1>1, <1>3 DEF VaultNow, Unwrapped
<1> QED
  BY <1>2, <1>4

LEMMA ChangedRefines ==
  ASSUME AccountInv, NEW d \in Devices, Changed(d)
  PROVE  \E p \in Passwords : Vault!Change(d, p)
<1>1. /\ stage[d] = "changing" /\ d \in Changing
      /\ Replace(typed[d], next[d], userKey[d])
  BY DEF Changed, Changing
<1>2. /\ account # None /\ userKey[d] = account.envelope.key
      /\ next[d] \in Passwords /\ userKey[d] \in Keys
  BY <1>1 DEF AccountInv, TrustedHoldAccountKey, Trusted, Unlocked, SubmitsAreWhole,
     TypeOK, AppType, HoldsKey
<1>3. VaultNow # None /\ VaultNow' = [password |-> next[d], key |-> VaultNow.key]
  BY <1>1, <1>2, ReplaceRefines
<1>4. /\ KeysOpen' \in {KeysOpen, [KeysOpen EXCEPT ![d] = None]}
      /\ Changing' \subseteq Changing
  <2>0. late' = {}
    BY <1>1 DEF Replace
  <2>1. CASE AskAgain(d)
    <3>1. \A x \in Devices : stage'[x] = "changing" => stage[x] = "changing"
      BY <2>1 DEF AskAgain, AccountInv, TypeOK, AppType
    <3> QED
      BY <2>0, <2>1, <3>1, LockedKeys DEF Changing
  <2>2. CASE BackToVault(d)
    <3>1. \A x \in Devices : stage'[x] = "changing" => stage[x] = "changing"
      BY <2>2 DEF BackToVault, AccountInv, TypeOK, AppType
    <3>2. UNCHANGED KeysOpen
      BY <2>2, <1>1 DEF BackToVault, KeysOpen, Unlocked, AccountInv, TypeOK, AppType
    <3> QED
      BY <2>0, <3>1, <3>2 DEF Changing
  <2> QED
    BY <2>1, <2>2 DEF Changed
<1> QED
  BY <1>1, <1>2, <1>3, <1>4 DEF Vault!Change

LEMMA ChangedLateRefines ==
  ASSUME AccountInv, NEW c \in late, ChangedLate(c)
  PROVE  \E p \in Passwords : Vault!Change(c.by, p)
<1>1. /\ c.by \in Devices /\ c.by \in Changing
      /\ c.new \in Passwords /\ c.key \in Keys
      /\ account # None /\ c.key = account.envelope.key
  BY DEF AccountInv, TypeOK, ServerType, LateChangesHoldAccountKey, Changing
<1>2. Replace(c.old, c.new, c.key) /\ late' = {}
  BY DEF ChangedLate, Replace
<1>3. VaultNow # None /\ VaultNow' = [password |-> c.new, key |-> VaultNow.key]
  BY <1>1, <1>2, ReplaceRefines
<1>4. /\ KeysOpen' \in {KeysOpen, [KeysOpen EXCEPT ![c.by] = None]}
      /\ Changing' \subseteq Changing
  <2>1. CASE AskAgain(c.by)
    <3>1. \A x \in Devices : stage'[x] = "changing" => stage[x] = "changing"
      BY <1>1, <2>1 DEF AskAgain, AccountInv, TypeOK, AppType
    <3> QED
      BY <1>1, <1>2, <2>1, <3>1, LockedKeys DEF Changing
  <2>2. CASE UNCHANGED app
    BY <1>2, <2>2 DEF app, KeysOpen, Changing
  <2> QED
    BY <2>1, <2>2 DEF ChangedLate
<1> QED
  BY <1>1, <1>3, <1>4 DEF Vault!Change

LEMMA AskedRefines ==
  ASSUME AccountInv, NEW d \in Devices, NEW old \in Passwords, NEW new \in Passwords,
         SubmitChange(d, old, new)
  PROVE  Vault!Ask(d)
<1>1. /\ stage[d] = "open" /\ userKey[d] \in Keys
      /\ UNCHANGED <<account, late, userKey>>
      /\ stage' = [stage EXCEPT ![d] = "changing"]
  BY DEF SubmitChange, server, AccountInv, TypeOK, AppType, HoldsKey, Unlocked
<1>2. KeysOpen[d] # None /\ UNCHANGED KeysOpen
  BY <1>1, NoneIsNothingElse DEF KeysOpen, Unlocked, AccountInv, TypeOK, AppType
<1>3. Changing' = Changing \cup {d}
  BY <1>1 DEF Changing, AccountInv, TypeOK, AppType
<1> QED
  BY <1>1, <1>2, <1>3, SameVault DEF Vault!Ask

LEMMA FailedRefines ==
  ASSUME AccountInv, NEW d \in Devices, ChangeFails(d)
  PROVE  Vault!GiveUp(d) \/ UNCHANGED Vault!vars
<1>1. /\ stage[d] = "changing" /\ UNCHANGED <<account, late, userKey>>
      /\ stage' = [stage EXCEPT ![d] = "open"]
  BY DEF ChangeFails, BackToVault, server
<1>2. UNCHANGED KeysOpen
  BY <1>1 DEF KeysOpen, Unlocked, AccountInv, TypeOK, AppType
<1>3. \A x \in Devices : stage'[x] = "changing" <=> stage[x] = "changing" /\ x # d
  BY <1>1 DEF AccountInv, TypeOK, AppType
<1>4. CASE \E c \in late : c.by = d
  <2>1. UNCHANGED Changing
    BY <1>1, <1>3, <1>4 DEF Changing
  <2> QED
    BY <1>1, <1>2, <2>1, SameVault DEF Vault!vars
<1>5. CASE ~ \E c \in late : c.by = d
  <2>1. Changing' = Changing \ {d}
    BY <1>1, <1>3, <1>5 DEF Changing
  <2> QED
    BY <1>1, <1>2, <2>1, SameVault DEF Vault!GiveUp
<1> QED
  BY <1>4, <1>5

LEMMA StepRefines ==
  AccountInv /\ AccountInv' /\ [Next]_vars => [Vault!Next]_(Vault!vars)
<1> SUFFICES ASSUME AccountInv, AccountInv', [Next]_vars
             PROVE  [Vault!Next]_(Vault!vars)
  OBVIOUS
<1>1. CASE UNCHANGED vars
  BY <1>1 DEF vars, server, app, Vault!vars, VaultNow, KeysOpen, Changing
<1>2. ASSUME NEW d \in Devices,
             Reopen(d) \/ InitDataExpires(d) \/ Provision(d) \/ Onboard(d) \/ UseVault(d)
      PROVE  [Vault!Next]_(Vault!vars)
  <2>1. CASE Reopen(d) \/ Lock(d)
    BY <2>1, LockRefines DEF Reopen, Lock, server, Vault!Next
  <2>2. CASE Synced(d)
    BY <2>2, SyncedRefines DEF Vault!Next
  <2>3. CASE Registered(d)
    BY <2>3, RegisteredRefines DEF Vault!Next
  <2>4. CASE Changed(d)
    BY <2>4, ChangedRefines DEF Vault!Next
  <2>5. CASE \E c \in late : c.by = d /\ ChangedLate(c)
    BY <2>5, ChangedLateRefines DEF Vault!Next
  <2>6. CASE ChangeFails(d) \/ \E old, new \in Passwords : SubmitChange(d, old, new)
    BY <2>6, AskedRefines, FailedRefines DEF Vault!Next
  <2>7. CASE InitDataExpires(d) \/ Complete(d) \/ CompletionLost(d) \/ Export(d)
    BY <2>7 DEF InitDataExpires, Complete, CompletionLost, Export, server, app,
       Vault!vars, VaultNow, KeysOpen, Changing
  <2> DEFINE Rest ==
        \/ Provision(d) \/ SubmitFails(d) \/ RegisterConflict(d) \/ LoginFresh(d)
        \/ Login(d)
        \/ \E p \in Passwords, k \in Keys : SubmitCreate(d, p, k)
        \/ \E p \in Passwords : SubmitUnlock(d, p)
  <2>8. CASE Rest
    <3> USE <2>8 DEF InFlight, Unlocked, AccountInv, TypeOK, AppType
    <3>1. UNCHANGED <<account, late>>
      BY DEF Provision, AnswerExisting, StartInvite, Invited, InviteRefused, InviteFails,
         ProvisionRefused, ProvisionRejects, SubmitFails, RegisterConflict, LoginFresh,
         Login, SubmitCreate, SubmitUnlock, server
    <3>2. /\ UNCHANGED KeysOpen
          /\ \A x \in Devices : stage'[x] = "changing" <=> stage[x] = "changing"
      <4>1. CASE Provision(d)
        BY <4>1 DEF Provision, AnswerExisting, StartInvite, Invited, InviteRefused,
           InviteFails, ProvisionRefused, ProvisionRejects, ShowForm, KeysOpen
      <4>2. CASE SubmitFails(d) \/ RegisterConflict(d) \/ LoginFresh(d) \/ Login(d)
        BY <4>2 DEF SubmitFails, BackToForm, DropsKey, RegisterConflict, AfterConflict,
           LoginFresh, Login, KeysOpen
      <4>3. CASE \/ \E p \in Passwords, k \in Keys : SubmitCreate(d, p, k)
                 \/ \E p \in Passwords : SubmitUnlock(d, p)
        BY <4>3 DEF SubmitCreate, SubmitUnlock, KeysOpen
      <4> QED
        BY <4>1, <4>2, <4>3
    <3> QED
      BY <3>1, <3>2, SameVault, SameChanges DEF Vault!vars
  <2> QED
    BY <1>2, <2>1, <2>2, <2>3, <2>4, <2>5, <2>6, <2>7, <2>8 DEF Onboard, UseVault
<1> QED
  BY <1>1, <1>2 DEF Next

(* password-change.ts:6-9, register.ts:47-51: the account is created once, *)
(* its current password always opens the user key it was created with, and *)
(* the devices that are unlocked hold that key.                            *)
THEOREM AccountImplementsVault == Spec => ImplementsVaultAccount
<1>1. Init => Vault!Init
  BY InitRefines
<1>2. AccountInv /\ AccountInv' /\ [Next]_vars => [Vault!Next]_(Vault!vars)
  BY StepRefines
<1> QED
  BY <1>1, <1>2, Invariance, PTL DEF Spec, ImplementsVaultAccount, Vault!Spec

-----------------------------------------------------------------------------
(* What the abstract account tells of the stored one.                      *)
LEMMA OpenedKey ==
  AccountInv /\ account # None =>
    VaultNow # None /\ VaultNow.key = account.envelope.key /\ VaultNow.key \in Keys
<1> SUFFICES ASSUME AccountInv, account # None
             PROVE  /\ VaultNow # None /\ VaultNow.key = account.envelope.key
                    /\ VaultNow.key \in Keys
  OBVIOUS
<1>1. account.envelope.key \in Keys
  BY DEF AccountInv, TypeOK, ServerType, Envelopes
<1> QED
  BY <1>1, VaultIsOpenable

(* password-change.ts:6-9 "The user key itself never changes": once there  *)
(* is an account there is one for ever, and no registration, conflict,     *)
(* retry or change replaces the user key that its envelope wraps.          *)
THEOREM UserKeyNeverChanges ==
  Spec => [][account # None =>
               account' # None /\ account'.envelope.key = account.envelope.key]_vars
<1>0. (AccountInv /\ account # None => VaultNow.key = account.envelope.key)'
  BY OpenedKey, PTL
<1>1. AccountInv /\ AccountInv' /\ [Next]_vars
        => [account # None =>
              account' # None /\ account'.envelope.key = account.envelope.key]_vars
  <2> SUFFICES ASSUME AccountInv, AccountInv', [Next]_vars, account # None
               PROVE  account' # None /\ account'.envelope.key = account.envelope.key
    OBVIOUS
  <2>1. VaultNow # None /\ VaultNow.key = account.envelope.key /\ VaultNow.key \in Keys
    BY OpenedKey
  <2>2. VaultNow' # None /\ VaultNow'.key = VaultNow.key
    <3>1. CASE UNCHANGED VaultNow
      BY <2>1, <3>1
    <3>2. ASSUME NEW d \in Devices, NEW p \in Passwords, Vault!Change(d, p)
          PROVE  VaultNow' # None /\ VaultNow'.key = VaultNow.key
      <4>1. VaultNow' = [password |-> p, key |-> VaultNow.key]
        BY <3>2 DEF Vault!Change
      <4> QED
        BY <2>1, <4>1, NoneIsNothingElse
    <3> QED
      BY <2>1, <3>1, <3>2, StepRefines
      DEF Vault!Next, Vault!Create, Vault!Unlock, Vault!Ask, Vault!GiveUp, Vault!Lock,
          Vault!vars
  <2>3. account' # None
    BY <2>2 DEF VaultNow
  <2> QED
    BY <2>1, <2>2, <2>3, <1>0
<1> QED
  BY <1>1, Invariance, PTL DEF Spec
=============================================================================
