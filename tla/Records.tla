------------------------------ MODULE Records -------------------------------
(***************************************************************************)
(* The login items of one vault, edited in the forms of several devices:   *)
(* the list and its snapshot (main.ts, vault/model.ts), the item form      *)
(* (vault/edit-ui.ts), what a save sends (vault/edit.ts, api/client.ts)    *)
(* and what the server keeps.  A blank password or notes field sends the   *)
(* EncString the list was rendered with; the server compares nothing.      *)
(*                                                                         *)
(* A value is named by who typed it: <<e, f>> is the text that edit e      *)
(* typed into field f, <<i, f>> what item i came with.  Encrypting gives   *)
(* an EncString of the same value; Garbled is one that does not open.      *)
(***************************************************************************)
EXTENDS FiniteSets, Naturals

CONSTANTS
  Devices,
  Ids,         \* cipher ids
  Existing,    \* the items the vault starts with
  Edits,       \* submits of item forms
  Plain,       \* the prefilled optional fields: username, uri
  Absent,      \* the parts an item may come without
  Corrupt,     \* the fields an item may come with undecryptable
  MaxTouched,  \* bound on the fields one submit types into or empties
  Garbled,     \* an EncString that does not decrypt under the user key
  NoName,      \* the text "(no name)"
  None

Prefilled == {"name"} \cup Plain
Fields == Prefilled \cup {"password", "notes"}
\* What a cipher may hold that the form does not show: further URIs.
Parts == Fields \cup {"more"}

ASSUME ExistingAreIds == Existing \subseteq Ids
ASSUME PlainFields == Plain \subseteq {"username", "uri"}
ASSUME AbsentParts == Absent \subseteq Parts \ {"name"}
ASSUME CorruptFields == Corrupt \subseteq Plain \cup {"name"}
ASSUME SpecialValues ==
  /\ Garbled # NoName /\ Garbled # None /\ NoName # None
  /\ None \notin Devices \cup Ids \cup Edits \cup ((Ids \cup Edits) \X Parts)
ASSUME EditsAreNotIds == Edits \cap Ids = {}

VARIABLES
  store,    \* server: id -> None or the cipher, a function on Parts
  list,     \* device -> the items its list was rendered with
  screen,   \* device -> list or form, the item it edits, the submit it awaits
  opened,   \* devices whose form has decrypted the item's notes
  status,   \* edit -> unused, sent, orphan, applied, done or failed
  by,       \* edit -> its device while it awaits the answer, or None
  into,     \* edit -> the item it edits, None to create one
  body,     \* edit -> the cipher it sends
  touched,  \* history: edit -> the fields the user typed into or emptied
  created,  \* history: edit -> the items it created
  retryOf,  \* history: edit -> the earlier submit of the same form
  dirty,    \* history: device -> items written since its list was synced
  stale     \* history: edits whose item was written since their list was synced

edits == <<status, by, into, body, touched, created, retryOf>>
vars == <<store, list, screen, opened, edits, dirty, stale>>

List == [kind |-> "list", item |-> None, wait |-> None, last |-> None]
Form(i) == [kind |-> "form", item |-> i, wait |-> None, last |-> None]
Blank == [f \in Parts |-> None]

(* Items written by any Bitwarden client: some parts may be absent, others *)
(* may not decrypt.                                                        *)
Original(i) ==
  {c \in [Parts -> {<<i, f>> : f \in Parts} \cup {None, Garbled}] :
     \A f \in Parts :
       \/ c[f] = <<i, f>>
       \/ c[f] = Garbled /\ f \in Corrupt
       \/ c[f] = None /\ f \in Absent}

Init ==
  /\ store \in {s \in [Ids -> UNION {Original(i) : i \in Existing} \cup {None}] :
                  \A i \in Ids : IF i \in Existing THEN s[i] \in Original(i)
                                                   ELSE s[i] = None}
  /\ list = [d \in Devices |-> store]
  /\ screen = [d \in Devices |-> List]
  /\ opened = {}
  /\ status = [e \in Edits |-> "unused"]
  /\ by = [e \in Edits |-> None]
  /\ into = [e \in Edits |-> None]
  /\ body = [e \in Edits |-> None]
  /\ touched = [e \in Edits |-> {}]
  /\ created = [e \in Edits |-> {}]
  /\ retryOf = [e \in Edits |-> None]
  /\ dirty = [d \in Devices |-> {}]
  /\ stale = {}

-----------------------------------------------------------------------------
(* sync, decryptVault, renderList: the end of a Cancel, of a save, or of a *)
(* lock and an unlock.                                                     *)
RenderList(d) ==
  /\ list' = [list EXCEPT ![d] = store]
  /\ screen' = [screen EXCEPT ![d] = List]
  /\ opened' = opened \ {d}
  /\ dirty' = [dirty EXCEPT ![d] = {}]

Refresh(d) ==
  /\ RenderList(d)
  /\ UNCHANGED <<store, edits, stale>>

(* "+ Add", and Edit of a row of the list.                                 *)
OpenForm(d, i) ==
  /\ screen[d].kind = "list"
  /\ i # None => list[d][i] # None
  /\ screen' = [screen EXCEPT ![d] = Form(i)]
  /\ UNCHANGED <<store, list, opened, edits, dirty, stale>>

(* "Confirm to edit existing notes": the gate agrees and they decrypt.     *)
UnlockNotes(d) ==
  /\ screen[d].kind = "form" /\ screen[d].item # None
  /\ list[d][screen[d].item]["notes"] # None
  /\ opened' = opened \cup {d}
  /\ UNCHANGED <<store, list, screen, edits, dirty, stale>>

Item(d) == IF screen[d].item = None THEN Blank ELSE list[d][screen[d].item]

\* The notes field is disabled until the gate was passed.
Disabled(d) ==
  IF screen[d].item # None /\ Item(d)["notes"] # None /\ d \notin opened
    THEN {"notes"} ELSE {}

(* safeDecrypt and the form's prefill: what does not decrypt is shown as   *)
(* if it were absent, and a missing name as "(no name)".                   *)
Prefill(d, f) == IF Item(d)[f] = Garbled THEN None ELSE Item(d)[f]

BlankErases(d, f) == None
BlankKeepsNotes(d, f) == Item(d)["notes"]
BlankKeeps(d, f) == Item(d)[f]

(* createItem and updateItem: what each field becomes when the user typed  *)
(* a text into the fields "text" and emptied the fields "blank".           *)
Sent(d, e, text, blank) ==
  [f \in Parts |->
    IF f \in text THEN <<e, f>>
    ELSE IF f \in {"password", "notes"} THEN BlankKeeps(d, f)
    ELSE IF f = "name" /\ (f \in blank \/ Prefill(d, f) = None) THEN NoName
    ELSE IF f = "more" \/ f \in blank THEN None
    ELSE Prefill(d, f)]

ButtonStaysEnabled(d) == screen[d].kind = "form"
MaySubmit(d) == screen[d].kind = "form" /\ screen[d].wait = None

\* What a user may have done to a form: texts typed, prefilled fields emptied.
Typing ==
  {t \in [text : SUBSET Fields, blank : SUBSET Prefilled] :
     /\ t.text \cap t.blank = {}
     /\ Cardinality(t.text \cup t.blank) <= MaxTouched}

(* The form's onSubmit: the button is disabled and the request leaves.     *)
Submit(d, e) ==
  /\ MaySubmit(d)
  /\ status[e] = "unused"
  /\ status' = [status EXCEPT ![e] = "sent"]
  /\ by' = [by EXCEPT ![e] = d]
  /\ into' = [into EXCEPT ![e] = screen[d].item]
  /\ \E t \in Typing :
       /\ t.text \cap Disabled(d) = {}
       /\ body' = [body EXCEPT ![e] = Sent(d, e, t.text, t.blank)]
       /\ touched' = [touched EXCEPT ![e] = t.text \cup t.blank]
  /\ retryOf' = [retryOf EXCEPT ![e] = screen[d].last]
  /\ screen' = [screen EXCEPT ![d] =
                  [@ EXCEPT !.wait = e,
                            !.last = IF screen[d].item = None THEN e ELSE None]]
  /\ stale' = IF screen[d].item \in dirty[d] THEN stale \cup {e} ELSE stale
  /\ UNCHANGED <<store, list, opened, created, dirty>>

-----------------------------------------------------------------------------
(* The server replaces the cipher, or stores a new one.                    *)
Pending == {e \in Edits : status[e] \in {"sent", "orphan"}}

\* The request is gone.
Over(e) ==
  /\ body' = [body EXCEPT ![e] = None]
  /\ touched' = [touched EXCEPT ![e] = {}]

Write(e, i) ==
  /\ store' = [store EXCEPT ![i] = body[e]]
  /\ status' = [status EXCEPT ![e] = IF @ = "sent" THEN "applied" ELSE "failed"]
  /\ Over(e)
  /\ dirty' = [d \in Devices |-> dirty[d] \cup {i}]
  /\ stale' = (stale \cup {x \in Pending : into[x] = i}) \ {e}

(* A request that the app has given up may still arrive (orphan).          *)
Create(e, i) ==
  /\ status[e] \in {"sent", "orphan"}
  /\ into[e] = None
  /\ store[i] = None
  /\ Write(e, i)
  /\ created' = [created EXCEPT ![e] = @ \cup {i}]
  /\ UNCHANGED <<list, screen, opened, by, into, retryOf>>

Update(e) ==
  /\ status[e] \in {"sent", "orphan"}
  /\ into[e] # None
  /\ Write(e, into[e])
  /\ UNCHANGED <<list, screen, opened, by, into, created, retryOf>>

(* The answer arrives and refreshList renders the list over whatever the   *)
(* device shows by then.                                                   *)
Saved(e) ==
  /\ status[e] = "applied"
  /\ status' = [status EXCEPT ![e] = "done"]
  /\ RenderList(by[e])
  /\ by' = [by EXCEPT ![e] = None]
  /\ UNCHANGED <<store, into, body, touched, created, retryOf, stale>>

NeverEnables(e) == screen
(* The form is enabled again if it is still there.                         *)
Enable(e) ==
  IF screen[by[e]].wait = e THEN [screen EXCEPT ![by[e]].wait = None] ELSE screen

(* The request is refused or lost (for good, or to arrive late), or the    *)
(* cipher is stored and its answer, or the refresh after it, fails.        *)
SaveFails(e) ==
  /\ status[e] \in {"sent", "applied"}
  /\ \/ status' = [status EXCEPT ![e] = "failed"] /\ Over(e)
        /\ stale' = stale \ {e}
     \/ status[e] = "sent" /\ status' = [status EXCEPT ![e] = "orphan"]
        /\ UNCHANGED <<body, touched, stale>>
  /\ screen' = Enable(e)
  /\ by' = [by EXCEPT ![e] = None]
  /\ UNCHANGED <<store, list, opened, into, created, retryOf, dirty>>

-----------------------------------------------------------------------------
Next ==
  \/ \E d \in Devices :
       \/ Refresh(d) \/ UnlockNotes(d)
       \/ \E i \in Ids \cup {None} : OpenForm(d, i)
       \/ \E e \in Edits : Submit(d, e)
  \/ \E e \in Edits :
       Update(e) \/ Saved(e) \/ SaveFails(e) \/ \E i \in Ids : Create(e, i)

Spec == Init /\ [][Next]_vars

-----------------------------------------------------------------------------
Values == ((Ids \cup Edits) \X Parts) \cup {Garbled, NoName, None}
Ciphers == [Parts -> Values]

Screens == [kind : {"list", "form"}, item : Ids \cup {None},
            wait : Edits \cup {None}, last : Edits \cup {None}]

VaultType ==
  /\ store \in [Ids -> Ciphers \cup {None}]
  /\ list \in [Devices -> [Ids -> Ciphers \cup {None}]]
  /\ dirty \in [Devices -> SUBSET Ids]

FormType ==
  /\ screen \in [Devices -> Screens]
  /\ opened \subseteq Devices

EditType ==
  /\ status \in [Edits -> {"unused", "sent", "orphan", "applied", "done", "failed"}]
  /\ by \in [Edits -> Devices \cup {None}]
  /\ into \in [Edits -> Ids \cup {None}]
  /\ body \in [Edits -> Ciphers \cup {None}]
  /\ touched \in [Edits -> SUBSET Fields]
  /\ created \in [Edits -> SUBSET Ids]
  /\ retryOf \in [Edits -> Edits \cup {None}]
  /\ stale \subseteq Edits

(* Types, and that a form waits for a submit of its own device only, which *)
(* has not ended.                                                          *)
TypeOK ==
  /\ VaultType
  /\ FormType
  /\ EditType
  /\ \A d \in Devices : (screen[d].wait # None => by[screen[d].wait] = d)

(* Whether a value may be in field f of item i: it came with that field of *)
(* that item, or was typed into that field of a form of that item.         *)
BelongsTo(v, i, f) ==
  \/ v \in {None, Garbled}
  \/ v = NoName /\ f = "name"
  \/ v = <<i, f>>
  \/ \E e \in Edits : v = <<e, f>> /\ (into[e] = i \/ i \in created[e])

(* edit.ts:55-76, main.ts:232-246: a save never mixes two items or two     *)
(* fields, although it writes back what a list captured that other forms,  *)
(* late requests and refreshes have replaced since.                        *)
FieldsStayHome ==
  \A i \in Ids : store[i] # None =>
    \A f \in Parts : BelongsTo(store[i][f], i, f)

\* What a form cannot show as it is, and so cannot keep.
Unshowable(c, f) == f = "more" \/ (f \in Prefilled /\ c[f] = Garbled)

(* edit.ts:50-53, edit-ui.ts:107-137: a save changes only the fields the   *)
(* user typed into or emptied, except what the form could not show and     *)
(* items written by another form since this one's list was synced.         *)
UntouchedFieldsSurvive ==
  [][\A i \in Ids, f \in Parts :
       (store[i] # None /\ store'[i][f] # store[i][f]) =>
         \/ Unshowable(store[i], f)
         \/ \E e \in Edits :
              /\ status[e] # status'[e] /\ into[e] = i
              /\ f \in touched[e] \/ e \in stale]_vars

(* edit-ui.ts:195-211: a form creates a second item only when its earlier  *)
(* submit ended in an error (its own, or of the refresh that follows).     *)
NoSilentDuplicate ==
  \A e \in Edits : (retryOf[e] # None /\ created[e] # {} /\ created[retryOf[e]] # {}) =>
    status[retryOf[e]] = "failed"
=============================================================================
