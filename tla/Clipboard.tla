----------------------------- MODULE Clipboard -----------------------------
(***************************************************************************)
(* The Copy button (reveal/ui.ts) and the clipboard's auto-clear           *)
(* (reveal/clipboard.ts): a clear reads the clipboard, compares, and then  *)
(* writes; the system clipboard belongs to every application, so anything  *)
(* may be copied in between.  A promise of the clipboard API settles with  *)
(* its effect.                                                             *)
(***************************************************************************)
EXTENDS FiniteSets

CONSTANTS
  Copies,   \* clicks on a Copy button
  Secrets,  \* the texts they decrypt
  Foreign,  \* texts the user copies elsewhere
  Empty,    \* the empty text
  None      \* JavaScript's null

ASSUME TextsDiffer == /\ Secrets \cap Foreign = {}
                      /\ Empty \notin Secrets \cup Foreign
ASSUME NoneIsNoCopy == None \notin Copies

VARIABLES
  clipboard,     \* the text on the system clipboard
  copying,       \* click -> the await its handler is at, or how it ended
  text,          \* click -> the text it copies
  pendingClear,  \* the click whose timer pendingClear holds, fired or not
  clearing,      \* click -> where its clearIfUnchanged is, or how it ended
  overtaken      \* history: clears that had compared when the text now on
                 \* the clipboard was copied elsewhere

vars == <<clipboard, copying, text, pendingClear, clearing, overtaken>>

Init ==
  /\ clipboard = Empty
  /\ copying = [c \in Copies |-> "idle"]
  /\ text = [c \in Copies |-> Empty]
  /\ pendingClear = None
  /\ clearing = [c \in Copies |-> "no"]
  /\ overtaken = {}

At(c, where) == copying[c] = where
Advance(c, where) == copying' = [copying EXCEPT ![c] = where]
Clearing(c, where) == clearing' = [clearing EXCEPT ![c] = where]

-----------------------------------------------------------------------------
(* A click asks the biometric gate.                                        *)
Click(c, s) ==
  /\ At(c, "idle")
  /\ text' = [text EXCEPT ![c] = s]
  /\ Advance(c, "gate")
  /\ UNCHANGED <<clipboard, pendingClear, clearing, overtaken>>

(* The gate answers; "denied" and "unavailable" both end the handler.      *)
Answer(c, ok) ==
  /\ At(c, "gate")
  /\ Advance(c, IF ok THEN "decrypting" ELSE "ended")
  /\ UNCHANGED <<clipboard, text, pendingClear, clearing, overtaken>>

(* Decryption ends: writeText is called; the pending timer is left alone   *)
(* until it settles.  (CancelledFirst, SetFirst: what it would be if the   *)
(* old timer were cleared, or the new one set, before the write.)          *)
CancelledFirst(c) == None
SetFirst(c) == c
PendingWhileWriting(c) == pendingClear

StartWrite(c) ==
  /\ At(c, "decrypting")
  /\ Advance(c, "writing")
  /\ pendingClear' = PendingWhileWriting(c)
  /\ UNCHANGED <<clipboard, text, clearing, overtaken>>

(* The text is on the clipboard; the previous timer is cleared and one is  *)
(* set for this text.                                                      *)
Written(c) ==
  /\ At(c, "writing")
  /\ Advance(c, "ended")
  /\ clipboard' = text[c]
  /\ pendingClear' = c
  /\ overtaken' = {}
  /\ UNCHANGED <<text, clearing>>

(* Decryption or writeText rejects: the handler ends there.                *)
CopyFails(c) ==
  /\ copying[c] \in {"decrypting", "writing"}
  /\ Advance(c, "ended")
  /\ UNCHANGED <<clipboard, text, pendingClear, clearing, overtaken>>

-----------------------------------------------------------------------------
(* The timer of pendingClear fires, once: readText is called.              *)
Fire(c) ==
  /\ pendingClear = c
  /\ clearing[c] = "no"
  /\ Clearing(c, "reading")
  /\ UNCHANGED <<clipboard, copying, text, pendingClear, overtaken>>

(* readText settles: writeText("") is called only if the text is still the *)
(* one that was copied.                                                    *)
AnyText(c) == TRUE
Unchanged(c) == clipboard = text[c]

Read(c) ==
  /\ clearing[c] = "reading"
  /\ Clearing(c, IF Unchanged(c) THEN "blanking" ELSE "ended")
  /\ UNCHANGED <<clipboard, copying, text, pendingClear, overtaken>>

(* Reading or writing is refused (no permission, no focus): swallowed.     *)
ClearFails(c) ==
  /\ clearing[c] \in {"reading", "blanking"}
  /\ Clearing(c, "refused")
  /\ UNCHANGED <<clipboard, copying, text, pendingClear, overtaken>>

(* writeText("") lands, on whatever the clipboard holds by then.           *)
Blank(c) ==
  /\ clearing[c] = "blanking"
  /\ Clearing(c, "ended")
  /\ clipboard' = Empty
  /\ overtaken' = {}
  /\ UNCHANGED <<copying, text, pendingClear>>

(* The user copies something elsewhere.                                    *)
CopyElsewhere(x) ==
  /\ clipboard' = x
  /\ overtaken' = {c \in Copies : clearing[c] = "blanking"}
  /\ UNCHANGED <<copying, text, pendingClear, clearing>>

Next ==
  \/ \E c \in Copies :
       \/ \E s \in Secrets : Click(c, s)
       \/ \E ok \in BOOLEAN : Answer(c, ok)
       \/ StartWrite(c) \/ Written(c) \/ CopyFails(c)
       \/ Fire(c) \/ Read(c) \/ Blank(c) \/ ClearFails(c)
  \/ \E x \in Foreign : CopyElsewhere(x)

Spec == Init /\ [][Next]_vars

\* Timers fire and the browser answers a clear while the page lives.
FairSpec == Spec /\ \A c \in Copies : WF_vars(Fire(c) \/ Read(c) \/ Blank(c))

-----------------------------------------------------------------------------
TypeOK ==
  /\ clipboard \in Secrets \cup Foreign \cup {Empty}
  /\ copying \in [Copies -> {"idle", "gate", "decrypting", "writing", "ended"}]
  /\ text \in [Copies -> Secrets \cup {Empty}]
  /\ \A c \in Copies : copying[c] # "idle" => text[c] \in Secrets
  /\ pendingClear \in Copies \cup {None}
  /\ clearing \in [Copies -> {"no", "reading", "blanking", "ended", "refused"}]
  /\ \A c \in Copies : pendingClear = c \/ clearing[c] # "no" => copying[c] = "ended"
  /\ overtaken \subseteq Copies

(* clipboard.ts:4-7 and SECURITY.md:63-66: a clear that is about to blank  *)
(* a text copied elsewhere compared before that text was copied, so the    *)
(* only text it can destroy is one copied between its read and its write,  *)
(* however copies, timers and clears overlap.                              *)
OnlyOvertakenClearsDestroy ==
  \A c \in Copies : clearing[c] = "blanking" /\ clipboard \in Foreign
                      => c \in overtaken

(* clipboard.ts:2-6 and 21-24: the timer slot belongs to the secret on the *)
(* clipboard, and its clear has not ended: neither a copy that fails, nor  *)
(* a later click, nor the clear of an earlier copy leaves a secret behind  *)
(* that nothing will clear (a refused clear aside).                        *)
SecretHasItsClear ==
  clipboard \in Secrets =>
    /\ pendingClear # None
    /\ text[pendingClear] = clipboard
    /\ clearing[pendingClear] # "ended"

(* SECURITY.md "it can't clobber something the user copied from elsewhere  *)
(* in the interim": no step replaces a foreign text by the empty one.      *)
NeverClobbers == [][(clipboard \in Foreign) => (clipboard' # Empty)]_vars

(* clipboard.ts:4-5: a copied secret leaves the clipboard, unless the      *)
(* clear of the last copy is refused, however copies and clears overlap    *)
(* and fail.                                                               *)
SecretLeaves ==
  \A s \in Secrets :
    clipboard = s ~> \/ clipboard # s
                     \/ \E c \in Copies : pendingClear = c /\ clearing[c] = "refused"
=============================================================================
