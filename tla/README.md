# Securitica Vault: formal models, checks and proofs

TLA+ modules of the Telegram Mini App (`src/miniapp`) and of its thin backend
(`src/server`), TLC configurations that check them on small instances, and
TLAPS proofs of what they promise for every value of their constants. Every
definition is translated from the source; `PROJECT.json` maps it to its lines.

## 1. The system

The Mini App is a single-page vault. JavaScript runs one task at a time, so all
its concurrency comes from `await`: between two awaits other handlers run. Key
material is mutable (`Uint8Array`s that auto-lock zeroes in place) and shared by
reference with whatever operation was started with it. That combination is where
the hard behaviour is. The backend is an asyncio process with in-memory and
SQLite state.

| Component | State | Operations | Talks to |
|---|---|---|---|
| Reveal (`reveal/engine.ts`, `ui.ts`, `biometry.ts`, `crypto/encstring.ts`) | `activeReveals`; per widget `activeHandle`, `revealNode`, `releaseRequested`, the hidden placeholder | press, release, loss of focus, gate answers, MAC and AES, 20 s timer, scrub | biometric gates; the key object of the session; auto-lock |
| Session (`main.ts`, `vault/autolock.ts`, `unlock.ts`, `register.ts`, `edit.ts`, `password-change.ts`, `api/client.ts`) | held key, inactivity timer, `session`, access token, the screen and its closures | unlock, lock, list, forms, save, change of password, refresh | Vaultwarden, the thin backend, Reveal |
| Clipboard (`reveal/clipboard.ts`, Copy button) | `pendingClear`; the system clipboard | copy, timer, compare, blank | every application on the device |
| Rate limiter (`server/main.py`) | `_hits`: a deque per key | `_rate_limited` | `/api/events`, `/api/provision` |
| Account (`server/main.py`, `provisioning.py`, `vaultwarden_admin.py`; `register.ts`, `unlock.ts`, `password-change.ts`, `export.ts`, `crypto/keys.ts`) | table of provisioned users; Vaultwarden's invitations and accounts (hash, envelope), its tokens; per device the form, the user key, the session's envelope | provision, invite, register, complete, unlock, change the password, export, restore | Vaultwarden's API and admin API |
| Item records (`edit.ts`, `edit-ui.ts`, `model.ts`) | the ciphers on the server, form fields | create, update, blank means unchanged | Session |
| initData (`server/initdata.py`), generator (`diceware.ts`), events, bot, configuration, build scripts | none, or none that outlives a call | pure functions, stateless handlers | |

What makes each one correct, and what is hard about it:

- **Reveal.** A secret is displayed only after a confirmation, only while the
  button is held (or 20 s), and not in the page of a locked vault (which the
  code achieves for keys that a lock finds held, section 4). Hard: release, denial, focus loss, re-render and lock may fall between any two of
  the gate, the MAC and the AES step, and one widget may have several attempts.
- **Session.** An unlocked vault is on a timer; a locked one keeps no key, no
  token and shows no vault; nothing is written with a zeroed key; no form is
  stuck. Hard: operations outlive the session that started them; late answers
  replace whatever is on screen; two unlocks may be in flight.
- **Clipboard.** The secret leaves, and no other text is destroyed. Hard: read,
  compare and write are separate asynchronous calls on a shared resource.
- **Rate limiter.** Exactly a sliding window, with bounded memory per key. Hard:
  off-by-one at both limits; forgetting must not change an answer.
- **Account.** There is one account per user, created once; its user key never
  changes, whichever device changes the password; every unlocked device holds
  that key; routing never keeps anyone from registering. Hard: a registration
  whose answer is lost is retried, two devices register at once, the completion
  call is fired and forgotten, a page dies between any two steps, an export
  joins an old envelope with new ciphers.
- **Records.** A save changes what its user changed, of the item it was opened
  for. Hard: a blank field sends back what a list captured some time ago, a
  request given up may arrive late, other devices write in between.
- **initData, generator.** Pure functions: nothing is accepted that was not
  signed, or is not fresh; everything signed and fresh is; every word equally
  likely. Hard: limits, repeated keys, pairs that join to a signed text without
  being the signed pairs, masks.

The hazards, each at its line and with the properties that would catch it, are
listed in `PROJECT.json`.

## 2. The modules

| Module | What it is |
|---|---|
| `ConfirmedReveal` | abstract: a reveal asks, is confirmed, displays once and ends; a lock ends every display, and a locked page displays only what an unlock has spared |
| `Reveal`, `MCReveal`, `RevealProofs` | the reveal of secret fields, its instances and theorems, shown to implement `ConfirmedReveal` |
| `KeyCustody` | abstract: a key is held once, zeroed by a lock only, for good, and together with the token |
| `Session`, `MCSession`, `SessionProofs` | the session and what the server stores, shown to implement `KeyCustody` |
| `Clipboard`, `MCClipboard`, `ClipboardProofs` | the Copy button and auto-clear |
| `RateWindow` | abstract: a limiter that remembers every accepted request |
| `RateLimiter`, `MCRateLimiter`, `RateLimiterProofs` | the deque of `_rate_limited`, shown to implement `RateWindow` |
| `VaultAccount` | abstract: an account created once, whose password opens one user key and changes when an unlocked device asked for it |
| `Account`, `MCAccount`, `AccountProofs` | provisioning, registration, unlock, password change and export of one user on several devices, shown to implement `VaultAccount` |
| `Records`, `MCRecords`, `RecordsProofs` | items, their forms and what a save sends, on several devices |
| `InitData`, `Diceware` | `verify_init_data` and `uniformRandomIndex` as operators |
| `DicewareProofs` | facts about powers of two and recursive functions, and what `uniformRandomIndex` promises of every list |
| `Algorithms`, `MCAlgorithms`, `AlgorithmsProofs` | calls both on bounded inputs, states what their answers must be, and proves it |

In every module an action is the code between two awaits, or one whole event
handler, with everything it calls. Definitions written just before the one they
resemble (`SharedStore` before `Store`, `OneMore` before `Full`, ...) are the
plausible mistakes the properties are tested against; nothing else uses them.

### Reveal

An *attempt* is one call of `startHoldReveal`; it also names the
`RevealHandle` and the DOM node the call creates. `pc[a]` is the await it is at:
`telegram` and `webauthn` (the gates), `macLive`/`macZero` and
`aesLive`/`aesZero` (the decryption), then `shown`, `garbled`, `scrubbed`,
`denied` or `threw`. WebCrypto's `importKey` copies the bytes when it is called,
so a decryption copies the MAC key before the first await and the AES key after
it: auto-lock may zero the key object in between. `macZero` says which bytes the
import copied, `keyState[fieldKey[f]]` what the object holds now.

`handle`, `revealNode`, `releaseRequested` and `placeholderHidden` are the
closure variables of `buildRevealField`, one per widget. `Scrub` is `scrub()`
with its `onEnd` (`teardownVisual`), which also stops the handle the widget holds
at that time. `Render` replaces the page (the widgets of the old one stay alive,
and still hear loss of focus: their listeners are never removed). It may do so
behind a lock and with any key object that an unlock ever produced, as
`refreshList` asks neither. `Lock` is `AutoLock.lock()` with
`stopAllActiveReveals`, the zeroing of the held key and `renderUnlock`.

Key objects are `Keys`: `keyState` is what each holds, `held` is AutoLock's.
`Unlock` replaces the held key and leaves the old object as it is, so that the
widgets of the first of two unlocks keep a live key which no lock zeroes any more
(`Replaced`).

The refinement of `ConfirmedReveal` reads an attempt's `Phase` off its `pc`, the
page off the stages of the widgets, what was confirmed off the history of the
gates' answers, and what was spared off `Replaced`. Releases, timers and losses
of focus are all ends there.

Abstracted: the countdown text, the pulse class, the status line.
Assumed: stored values were encrypted under the user key, so their MAC never
matches under a zeroed key (with a zeroed AES key the padding may fit by chance:
`garbled`); the continuation of `revealInto` runs in the turn that displays the
text; several pointers may press one button.

### Session

An *unlock* names one submit of an unlock form, the key object it unwraps and
the token it obtains. `screen` is what `#app` shows: its kind, the key object its
closures keep, and the call its disabled button waits for. `LockNow` is
`lock()` up to the first await of `renderUnlock`: zero the held key, drop
session and token, empty the screen, call `provisionAccount`. The answer,
`ProvisionDone`, replaces whatever the screen shows by then.

An *operation* is one call of `refreshList`, of an item form's `onSubmit` or of
the change of the master password. It keeps the key of the screen that started
it. `bytes` says what its imports copied: the intact key, the zeroed one, or
zeros from some await on (`torn`). `Send` looks up the token when the request
leaves. The server is the set `stored` of the writes it accepted and the set
`revoked` of the tokens a password change invalidated; `own` says whether a
write used the token of the unlock its key came from.

`KeyCustody` keeps `keyState`, `held`, `token` and the history `wasHeld`, and
nothing else: screens, timers, requests and writes are stutters there, and every
way of locking is its one `Lock`.

Abstracted: the contents of items, KDF settings, the export button. A fresh
registration and its conflict path have the awaits of an unlock here. What the
server's rows, envelopes and fields become is left to `Account` and `Records`,
which in turn leave the zeroing of keys to this module.

### Clipboard

A *copy* is one click on a Copy button. `copying` is the await of its handler,
`clearing` the await of `clearIfUnchanged(value)` once its timer fired. Other
applications write the clipboard at any time (`CopyElsewhere`, external). A
clipboard promise settles with its effect. `cancelPendingClear` is never called
by the program and has no action.

### RateLimiter and RateWindow

`Request` is one call of `_rate_limited`: the `while` loop pops the stale prefix
of the bucket (`Pops` determines its length), then the limit decides. The
handlers call it before their first await, so a call is one step. `accepted` is a
history variable: every accepted time, never forgotten. `RateWindow` has no deque:
it counts the accepted requests of the last `Window` seconds.
Assumed: the clock does not step back; it jumps forwards at will.

### Account and VaultAccount

One Telegram user, since rows, invitations and accounts are keyed by the
Telegram id and users share nothing. A *device* is a running Mini App.
`stage[d]` is the await it is at or what it shows: `asking` (`/api/provision`),
`inviting` (its handler awaits the admin API), `form`, `stuck` ("Loading…" after
a rejected request), `registering`, `loggingIn`, `unlocking`, `syncing`, then
`open` and `changing`. The table lookup and what follows it up to the await of
the invite are one step, since the handler runs on one event loop and SQLite is
called synchronously.

Cryptography is symbolic. A password stands for the master key, stretched key
and hash derived from it (`keys.ts`); an envelope is the user key it wraps and
the password it was wrapped under, and opens under no other (`Unwrapped`). Every
registration generates a key that nothing remembers (`Unheard`). `account` holds the
password of the stored hash and the stored envelope apart from each other, so
that a change that mixes them would show.

Requests take effect at the server in the step that also delivers or loses the
answer: the app awaits one request at a time, and a request an app has abandoned
(`Reopen`, `SubmitFails`) took effect before or never does. Two are left running
and have steps of their own: the completion call, and a change of the password,
which nothing aborts when the vault locks or the page dies. It waits in `late`
(`LeftBehind`), may take effect while its device is locked or unlocked again
(`ChangedLate`), and then locks the device once more if its page still lives.
Its bytes are taken to be intact: a lock during the wrapping also drops the
token without which nothing is sent (`OwnSessionWritesIntact`). An unlock reads envelope and token
in one step; its prelogin and its derivation change nothing. A page may be
reloaded at any stage, with fresh initData; initData may also expire under an
open page. Export acts in one step: the envelope is the session's, the ciphers
are those of the account.

Refinement: `VaultAccount` has an account (its password and key), the keys
devices hold while unlocked, and the devices that have asked for another
password. `VaultNow` reads the stored hash and what that password unwraps,
`KeysOpen` the key of every device whose vault is open, `Changing` the changes
under way and those left behind.

External: Vaultwarden accepts a registration only for an invited email
(`register.ts:7-8`), uses the invitation up, checks the token and the old hash
of a change, and invalidates all sessions on one.

### Records

Values are named by their author: `<<e, f>>` is the text that submit `e` typed
into field `f`, `<<i, f>>` what item `i` came with. Encrypting makes an EncString
of the same value, so `BlankKeeps` (the captured EncString) and a re-encrypted
prefill are the same value by different ways; `Garbled` does not decrypt and is
shown as absent. `more` stands for further URIs, which the form neither shows
nor sends. `list[d]` is the snapshot a device's list was rendered with and its
forms' closures keep.

`Submit` computes the body, `Create`/`Update` are the server's, `Saved` the
answer with the `refreshList` that follows it, `SaveFails` an error at any
of them. A request that was given up may still arrive (`orphan`). `dirty` and
`stale` are history: which submits were made from a list older than a write of
their item. Requests are not sent in a locked session: `Refresh` is also the
effect of a lock and an unlock.

The sync of a refresh and the rendering of its answer are one step here, an await
apart in the code. What the user does in between (open a form, submit it) reads
the old list and not the server, and what the server does reads no list, so each
such run has the effect of one in which the list is rendered at once; the later
writes make it stale by `dirty`. What this leaves out is two refreshes of one
device whose answers overtake each other.

Abstracted: whitespace is trimmed (typing only spaces is emptying a field); the
generator panel types into the password field; items are logins; deleting items
is not offered by the app.

### InitData, Diceware and Algorithms

An initData string is the sequence of its pairs as `parse_qsl` decodes them. The
text the hash covers is one string: the pairs `key=value`, sorted and joined by
line breaks. Since a decoded key or value may hold line breaks and equals signs,
that text does not tell where a pair ended nor where its key did. A text is
modelled by the sequence of its lines `name=value`, and a pair by the lines it
is made of and the equals sign that ended its key (`cut`): `auth_date=1` and
`query_id=A\nuser={...}` are two pairs of the same text as the three that
Telegram signs. `Recut` are such pairs, and `MCAlgorithms` takes every run of
lines of two messages, cut at the first or the second equals sign. `Place` is the
order of `sorted`.

So the code accepts strings whose pairs are no signed message's, and what is
stated is what the hash vouches for: the text, not the pairs. A field read from
such a string is the signed one or is missing: no date is refused
(`missing_auth_date`), no user is `user_id = None`, for which every handler
answers 401 (`main.py:110`, `154`, `190`). Repeated keys are all in the text, and
the last is the one read.

HMAC is symbolic, a hash is its key and text; `Hashes` holds those that Telegram
made for the bot, an empty one, and one that `compare_digest` cannot compare: no
other string is the hash of any text. Exceptions that nothing catches (that one,
digits that `int` rejects, a user that is no JSON object) are the answer
`Raised`.

`Ways(size, i)` counts the byte strings that one round of `uniformRandomIndex`
turns into `i`. A byte has `ByteBits` bits, so that lists of up to 20 words need
one, two or three bytes. The loop over the bytes is the recursive function
`Shifted`, `1 << b` is `Pow2`, and the mask keeps the remainder of a division by
it. Integers are unbounded here and 32 bits wide in the code: lists have 7776
words or 10 digits (13 and 4 bits, two bytes at most), so nothing overflows.

## 3. What is checked

Passing runs (each property has a mutant of the code that breaks it):

| Run | Instance | Shows |
|---|---|---|
| `reveal_fields` | 2 widgets, 2 attempts, 2 keys, held or timed; 480 k states | `TypeOK`; `LockedPageShowsReplacedKeysOnly`; `NoRevealWithoutConfirmation`; `FirstReleaseHonoured`; `PlaceholderComesBack`; `ImplementsConfirmedReveal`; `TimerRevealEnds` |
| `session_safety` | 2 unlocks, 2 operations, thin backend; 1.3 M states (symmetry) | `TypeOK`; `UnlockedIsTimed`; `SubmitIsAnswered`; `OwnSessionWritesIntact`; `ImplementsKeyCustody` |
| `session_idle` | 2 unlocks, 1 operation, no thin backend; 8 k states | `AbandonedVaultLocks` |
| `clipboard_clear` | 3 copies, 2 secrets, 1 foreign text; 25 k states | `TypeOK`; `OnlyOvertakenClearsDestroy`; `SecretHasItsClear`; `SecretLeaves` |
| `ratelimiter_window` | 2 keys, window 2, limit 2, 7 seconds; 253 k states | `TypeOK`; `NoBurst`; `ImplementsWindow` |
| `account_vault` | 2 devices, 2 passwords, 3 user keys, 1 export, 1 change left behind; 611 k states (symmetry) | `TypeOK`; `UnlockedHoldsAccountKey`; `ExportsOpen`; `ExistingHasAccount`; `NewIsRegistrable`; `ImplementsVaultAccount` |
| `records_edit` | 2 devices, 1 item and 2 free ids, 2 submits; 751 k states (symmetry) | `TypeOK`; `FieldsStayHome`; `NoSilentDuplicate`; `UntouchedFieldsSurvive` |
| `algorithms_bounded` | up to 4 pairs, or 3 with pairs cut anew, 4 dates around both limits and 2 that are none; lists of 1 to 20 words; 600 k states | `AcceptedIsSignedAndFresh`; `SignedAndFreshIsAccepted`; `DatesOfSignedDataOnly`; `IndexIsUniform` |

Why these bounds are enough:

- A widget's variables are disturbed by one other attempt: two attempts overlap
  on one widget, or one leaves a handle or hidden dots behind for the other; two
  widgets show whether anything leaks between closures, two keys let one be
  replaced and spared while the other is wiped. More of each is what the proofs
  are for.
- Two unlocks are the least that make a second session with a key of the first
  one around; two operations let a late one run beside a new one. The number of
  locks, of provisioning calls and of renders needs no bound: states repeat.
- Three copies let a clear of an old copy, a pending one and a failing one
  overlap. Widths, times and texts matter only up to equality.
- A window of 2 with a limit of 2 has every boundary (as old as the window, one
  second older, one below the limit, at it), and 7 seconds let a bucket fill,
  be refused, expire partly and fill again. Two keys show independence.
- Two devices are the least at which registrations race, a conflict is met and a
  password changes under another session; three keys, one of the account and one
  on each device, let registrations be tried without end, as a key that nobody
  remembers is as good as a new one; two passwords tell a wrong one from the right one; one export
  at a time suffices, since nothing reads an export but its own property.
- Two submits on two devices are the least at which one is stale, one late, or
  one a retry of the other; two free ids let both create. The item comes with a
  field that may not decrypt and with further URIs. A submit types or empties at
  most one field (`MaxTouched`): what it sends for a field does not depend on
  what else was typed. `uri` is treated as `username` is and left out.
- Four pairs are a message of three fields and its hash, in every order; a
  message of two fields with its hash leaves room for one pair more, a key
  repeated before or after the signed one. Three pairs with pieces cut anew are
  every way to hide some fields of a message in another. The dates lie on both
  limits and beyond each.
  Lists of 1 to 20 words at two bits a byte pass a power of two, one less and
  one more, and the border between one, two and three bytes, several times.

The models stop where ids run out (`Attempts`, `Unlocks`, `Ops`, `Copies`,
`Edits`, `Ids`, and the `Keys` of `Reveal`), or at `Horizon`, `MaxExports`,
`MaxLate`, `MaxTouched`, `MaxPairs` and `MaxSize`: these name the only bounds. `Algorithms` answers one call and
stops, hence its `CHECK_DEADLOCK FALSE`. `Session` sets `CHECK_DEADLOCK FALSE`
since a user who left and whose vault is locked leaves nothing to do; the other
instances never stop on their own.

### Fairness

- `TimerRevealEnds`, `SecretLeaves`: timers that are set fire, and the browser
  answers a clear, while the page lives. A page that is closed takes its
  timers with it: a copied secret then stays on the clipboard.
- `AbandonedVaultLocks`: the inactivity timer fires once nobody re-arms it,
  hence fairness on `away /\ TimerFires` only.

No fairness is assumed of users, servers or gates.

## 4. Disagreements with the documentation

Each of these runs ends in a counterexample, and `findings` quotes the sentence.

| Run | Property | What happens |
|---|---|---|
| `reveal_release` | `ReleaseHonoured` | A denied press leaves a dead handle; during the next press of that button a release, or a loss of focus, goes to it and is lost, and the secret stays on screen. |
| `reveal_locked` | `NoSecretInLockedPage` | Two unlocks complete, the second key replaces the first unwiped, the vault locks, a late refresh renders the list of the first key, and a confirmed press there displays its secret in the locked page. |
| `session_write` | `WritesUseUserKey` | A refresh answered after the lock renders the list again; after a second unlock, that list's forms encrypt with (or wrap) the zeroed key and the server accepts it. |
| `clipboard_clobber` | `NeverClobbers` | The clear compares before an await and blanks after it. |

A release is also lost, without any dead handle, when two presses of one button
overlap: the denial of one takes the node that the release of the other looks for
(`ui.ts:105`, `125`), and the one recorded release is spent by whichever press
ends first (`ui.ts:111`, `116-120`). `ReleaseHonoured` leaves overlapping presses
out (`alone`), so that its run shows the first defect and no other.
`FirstReleaseHonoured` is the part of the promise that holds: an attempt alone
on its widget, started with no handle left over.

`LockedPageShowsReplacedKeysOnly` is the part of the other promise that holds: a
key that is held when the vault locks displays nothing behind the lock, whatever
list is rendered there.

Also seen while modelling, with no run of their own. By the actions of `Session`:
a refresh answered after the lock shows a list in a locked app (the first half
of `session_write`'s trace), and a provisioning answer that comes late replaces
whatever form is on screen (`main.ts:205`, `ProvisionDone`). By those of
`Reveal`: a reveal at its gate or decryption is in no registry when auto-lock
fires and puts its text in a removed node afterwards. By those of `Account`: `invite_user` takes every 4xx for success, although the
comment at `vaultwarden_admin.py:48-49` wants authorization problems surfaced
(`InviteRefused`; the user then meets a "not allowed" that is taken for a
conflict, and a login that fails), and an app open for longer than
`INITDATA_TTL` is sent to the manual form after a lock. By those of `Records`:
saving an item erases a field that did not decrypt, and its further URIs
(`Unshowable`); a submit from a stale list undoes other devices' edits
(`stale`). Elsewhere: `README.md:169` rules out listeners that accumulate across
re-renders, while `ui.ts:148-151` adds two per widget and removes none
(`FocusListeners`); a process that restarts forgets its rate limits;
locking neither clears nor cancels a pending clear of the clipboard;
`cancelPendingClear` has no caller; a rejected `provisionAccount` leaves the
screen on "Loading…" (`ProvisionRejects`); `_hits` keeps a key for ever.

## 5. What is proved

By TLAPS, for every value of the constants, from the assumptions the modules
name (`None` is nothing else, unlocks and operations differ, secrets and foreign
texts differ, the limit is positive; of `Records`, which fields an item may come
without or undecryptable; of `Algorithms`, that a signed message has no field
twice, that `sorted` orders its fields totally (`PlacesAreDistinct`), that dates
are integers and that "absent" is no token, value or hash; that nobody but
Telegram makes hashes is the definition of `Hashes`; of `Diceware`, that a byte has bits and that
a rejected round is no index).

| Theorem | Statement | Argument |
|---|---|---|
| `RevealProofs!TypeCorrect` | `[]TypeOK` | inductive as it stands; a handle or node names an attempt of its own widget |
| `RevealProofs!LockedPageIsOfReplacedKeys` | `[]LockedPageShowsReplacedKeysOnly` | `LockInv`: the held key is live, a built widget's key was unwrapped by some unlock, and in a locked page an attempt that copied its MAC key is of a live key, which was therefore replaced: a lock empties the page and wipes the held key in one step, an attempt that verifies with a wiped key copies zeros, and zeros never pass the MAC |
| `RevealProofs!FirstReleaseIsHonoured` | `[]FirstReleaseHonoured` | `HonourInv`: for a lone attempt that started fresh, in flight means no handle and its own node, and told to hide means the flag is set; on screen means its own handle is stored and it was not told to hide; the other attempts of its widget have ended |
| `RevealProofs!ConfirmationRequired` | `[]NoRevealWithoutConfirmation` | `GateInv`: before the gate is passed nothing decisive was answered, after it only "ok" |
| `RevealProofs!RevealKeepsItsPromise` | `Spec => ImplementsConfirmedReveal` | each action asks, grants, shows, ends, leaves the page, locks, unlocks or stutters in `ConfirmedReveal`; `GateInv` says that what is granted was confirmed, `LockInv` that what is shown in a locked page is of a spared key and that a widget that enters the page brings no reveal with it |
| `RevealProofs!PlaceholderReturns` | `[]PlaceholderComesBack` | inductive with the types: what ends the latest attempt of a widget shows its dots, except a failed decryption, and a new press takes them over |
| `SessionProofs!TypeCorrect` | `[]TypeOK` | one lemma per way of building a screen or an operation |
| `SessionProofs!UnlockedVaultIsTimed` | `[]UnlockedIsTimed` | `KeysInv`: a key is unborn until its unlock unwraps it and live until it is held, the held key's unlock is done, and the token never names a wiped key |
| `SessionProofs!OwnWritesAreIntact` | `[]OwnSessionWritesIntact` | `RequestsInv`: bytes that are not intact come from a key that stays wiped, and such a request never left with that key's own token, since zeroing a key and dropping the token are one step |
| `SessionProofs!NoFormIsStuck` | `[]SubmitIsAnswered` | inductive with the types: every step that ends a call also leaves or enables its form |
| `SessionProofs!SessionImplementsCustody` | `Spec => ImplementsKeyCustody` | each action is a login, an unwrapping, a hold, a lock or a stutter of `KeyCustody`, by `KeysInv` and by `TakenOnce`: what AutoLock was given is the key of an unlock that is done |
| `SessionProofs!AbandonedVaultWindsDown` | once `away`, the unlocks under way only become fewer, `held` changes to a key only by the end of one of them, and a locked vault with none left stays locked | step by step from the types: the safety half of `AbandonedVaultLocks` |
| `ClipboardProofs!TypeCorrect`, `ClearsAreChecked`, `EverySecretHasItsClear` | the three invariants | `ClipboardInv`, their conjunction: what compared equal was a secret, so a foreign text came later |
| `RateLimiterProofs!TypeCorrect`, `NoKeyBursts` | `[]TypeOK`, `[]NoBurst` | `LimiterInv`: a bucket is the tail of the log of accepted requests, the log is chronological, what was popped is stale, and `MaxHits` apart means more than `Window` apart |
| `AccountProofs!TypeCorrect`, `UnlockedDevicesAgree`, `ExportsOpenWithTheirPassword`, `RoutingIsTruthful`, `InvitedCanRegister` | the five invariants of `Account` | `AccountInv`: the account's hash opens its envelope; a device that is unlocked, or has registered or logged in, has the account's key; what a registration sends is wrapped under the password that was typed; a session whose token the server accepts has the account's current envelope; a change left behind wraps the account's key; a completion, like a row, follows an account; an export's envelope was the account's when it was taken |
| `AccountProofs!AccountImplementsVault` | `Spec => ImplementsVaultAccount` | each action is a create, an unlock, a lock, an asking, a giving up, a change or a stutter of `VaultAccount`, by `AccountInv`; the interesting ones are `Changed` and `ChangedLate`, whose envelope must wrap the key the account already has |
| `AccountProofs!UserKeyNeverChanges` | an account, once there, stays, and wraps the same user key (action property) | from the refinement: no step of `VaultAccount` changes the key of a vault, and `AccountInv` says that this key is the stored envelope's |
| `RecordsProofs!TypeCorrect`, `ValuesStayHome`, `DuplicatesFollowErrors` | the three invariants of `Records` | `RecordsInv`: a form's item is in its list; what is stored, listed or on its way belongs to its item and field; a list differs from the store only in the items marked dirty; the last submit of a create form is awaited, or was given up |
| `RecordsProofs!SavesTouchOnlyWhatChanged` | `[]`-action property `UntouchedFieldsSurvive` | `RequestsAreCurrent` of `RecordsInv`: a request that is not stale differs from the stored item in touched and unshowable fields only |
| `AlgorithmsProofs!AcceptanceIsVouched`, `DatesAreOfSignedData` | `[]AcceptedIsSignedAndFresh`, `[]DatesOfSignedDataOnly` | `AnswersFit`: an answer is that of its call. A hash that fits is that of a signed message with the same text; each line read from the call is a line of that text, and a message has one line of a name, so a field that is read is the signed one, or none |
| `AlgorithmsProofs!GenuineIsAccepted` | `[]SignedAndFreshIsAccepted` | the bijection between the pairs of the message and of the call carries the order of `Place` along (`SameOrder`), so that each line has the same rank in both texts and the texts are equal (`SameCheckString`) |
| `DicewareProofs!EveryIndexAlike`, `AlgorithmsProofs!NoIndexIsFavoured` | every index of a list of any length is the answer to as many byte strings, and more than half of the rounds answer; `[]IndexIsUniform` | `Shifted` is a bijection from byte strings to the numbers that fit them (`ShiftedDecides`, `ShiftedOnto`), the mask divides those into equal parts (`EqualParts`) since it has no more bits than the bytes have (`BytesHoldTheBits`), and `BitsNeeded` is the least number of bits that covers the list, so that it covers less than twice the list |
| `RateLimiterProofs!DequeImplementsWindow` | `Spec => ImplementsWindow` | the length of the trimmed bucket equals the number of accepted requests in the window (`BucketCountsWindow`); each step maps to an accept, a refusal, a tick or a stutter |

Why strengthenings are needed: `LockedPageShowsReplacedKeysOnly` says nothing of an attempt
that has not displayed yet, `FirstReleaseHonoured` nothing of one still in
flight, `OwnSessionWritesIntact` and `UntouchedFieldsSurvive` nothing of a request
on its way, `NoBurst` nothing of the deque, and `UnlockedHoldsAccountKey` nothing
of a device whose login has only just succeeded. Each invariant supplies that.

The facts about recursion (`Pow2`, `Shifted`) need induction over the numbers,
and the library's theorem for it takes an operator as its parameter, which the
provers cannot instantiate. `DicewareProofs` argues by the least number instead:
a set of numbers that is not empty has a least element (`LeastNatural`, from the
well-foundedness of `<`), so a set that holds 0 and with each number the next is
`Nat` (`Induction`); that the recursive functions exist at all is proved from it
(`Recursion`). Both are about sets and functions, never about operators.

## 6. What is only model-checked, and what is left out

Every invariant, action property and refinement that a passing run checks is
proved as well. What stays with TLC is liveness (`TimerRevealEnds`,
`AbandonedVaultLocks`, `SecretLeaves`): the proof system reaches neither
fairness nor `ENABLED`. Of `AbandonedVaultLocks` the steps are proved
(`AbandonedVaultWindsDown`); what is left to TLC is that a fair timer takes them.

No liveness is stated of `Account` and `Records`: servers and users are assumed
to do nothing, and a rejected provisioning request really leaves a device stuck.

Not modelled, and why:

- the account-event handler and its client: one stateless best-effort request
  whose rate limit is modelled and whose failure nobody reads;
- the bot: stateless handlers behind an allowlist that is read once;
- RSA key pair, configuration, Telegram bridge, entry page: wrappers of browser
  calls; what these can answer is an input of the handlers that are modelled;
- build scripts and deployment files: no run-time behaviour of their own;
- the mathematics of the cryptographic primitives, and the text form of
  EncStrings: a value opens under the key that made it, and under no other;
- joining, capitalising and counting the entropy of a passphrase: wording;
- a clock that steps back, and timers of a page that was closed.

## 7. How the modules divide the system

The Mini App's memory is modelled twice, on purpose. `Session` and `Reveal` know
when key bytes are zeroed between two awaits, and know nothing of what they
encrypt. `Account` and `Records` know what is stored, from several devices over
months, and treat a key as a name. A composition would multiply their states and
say nothing more: they meet in two facts that are properties of one side and
assumptions of the other. `Session` shows that a write made in a key's own
session is intact (`OwnSessionWritesIntact`), which is what `Records` and
`Account` assume of a request; `session_write` is the exception, and names what
breaks when it is not met. `Account` shows that an unlocked device holds the
account's key (`UnlockedHoldsAccountKey`), which `Records` assumes when one
device opens what another encrypted. `InitData` decides what `Account` only
calls fresh or expired, and `RateLimiter` when `ProvisionRefused` is a 429.
