-------------------------- MODULE ClipboardProofs --------------------------
(* Proofs about Clipboard, for any clicks, secrets and foreign texts.      *)
EXTENDS Clipboard, TLAPS

(* The three invariants need each other: a clear that compared equal       *)
(* compared with a secret (types), so a foreign text overtook it.          *)
ClipboardInv == TypeOK /\ OnlyOvertakenClearsDestroy /\ SecretHasItsClear

LEMMA InitEstablishes == Init => ClipboardInv
BY TextsDiffer, NoneIsNoCopy
DEF Init, ClipboardInv, TypeOK, OnlyOvertakenClearsDestroy, SecretHasItsClear

(* Every handler keeps the types, and a timer or a clear only ever names a *)
(* click whose text has been written.                                      *)
LEMMA StepKeepsTypes == TypeOK /\ [Next]_vars => TypeOK'
<1> SUFFICES ASSUME TypeOK, [Next]_vars PROVE TypeOK'
  OBVIOUS
<1> USE NoneIsNoCopy DEF TypeOK, At, Advance, Clearing
<1>1. ASSUME NEW c \in Copies, NEW s \in Secrets, Click(c, s) PROVE TypeOK'
  BY <1>1 DEF Click
<1>2. ASSUME NEW c \in Copies, NEW ok \in BOOLEAN, Answer(c, ok) PROVE TypeOK'
  BY <1>2 DEF Answer
<1>3. ASSUME NEW c \in Copies, StartWrite(c) PROVE TypeOK'
  BY <1>3 DEF StartWrite, PendingWhileWriting
<1>4. ASSUME NEW c \in Copies, Written(c) PROVE TypeOK'
  BY <1>4 DEF Written
<1>5. ASSUME NEW c \in Copies, CopyFails(c) PROVE TypeOK'
  BY <1>5 DEF CopyFails
<1>6. ASSUME NEW c \in Copies, Fire(c) PROVE TypeOK'
  BY <1>6 DEF Fire
<1>7. ASSUME NEW c \in Copies, Read(c) PROVE TypeOK'
  BY <1>7 DEF Read
<1>8. ASSUME NEW c \in Copies, Blank(c) PROVE TypeOK'
  BY <1>8 DEF Blank
<1>9. ASSUME NEW c \in Copies, ClearFails(c) PROVE TypeOK'
  BY <1>9 DEF ClearFails
<1>10. ASSUME NEW x \in Foreign, CopyElsewhere(x) PROVE TypeOK'
  BY <1>10 DEF CopyElsewhere
<1>11. CASE UNCHANGED vars
  BY <1>11 DEF vars
<1> QED
  BY <1>1, <1>2, <1>3, <1>4, <1>5, <1>6, <1>7, <1>8, <1>9, <1>10, <1>11 DEF Next

(* Only CopyElsewhere puts a foreign text there, and it records who has    *)
(* compared; a comparison made under a foreign text fails.                 *)
LEMMA StepKeepsOvertaken ==
  ASSUME ClipboardInv, [Next]_vars PROVE OnlyOvertakenClearsDestroy'
<1> USE TextsDiffer DEF ClipboardInv, TypeOK, OnlyOvertakenClearsDestroy,
                        At, Advance, Clearing
<1>1. ASSUME NEW c \in Copies, NEW s \in Secrets, Click(c, s)
      PROVE OnlyOvertakenClearsDestroy'
  BY <1>1 DEF Click
<1>2. ASSUME NEW c \in Copies, NEW ok \in BOOLEAN, Answer(c, ok)
      PROVE OnlyOvertakenClearsDestroy'
  BY <1>2 DEF Answer
<1>3. ASSUME NEW c \in Copies, StartWrite(c) \/ CopyFails(c)
      PROVE OnlyOvertakenClearsDestroy'
  BY <1>3 DEF StartWrite, CopyFails
<1>4. ASSUME NEW c \in Copies, Written(c) PROVE OnlyOvertakenClearsDestroy'
  BY <1>4 DEF Written
<1>5. ASSUME NEW c \in Copies, Fire(c) \/ ClearFails(c)
      PROVE OnlyOvertakenClearsDestroy'
  BY <1>5 DEF Fire, ClearFails
<1>6. ASSUME NEW c \in Copies, Read(c) PROVE OnlyOvertakenClearsDestroy'
  <2>1. text[c] \in Secrets
    BY <1>6 DEF Read
  <2> QED
    BY <1>6, <2>1 DEF Read, Unchanged
<1>7. ASSUME NEW c \in Copies, Blank(c) PROVE OnlyOvertakenClearsDestroy'
  BY <1>7 DEF Blank
<1>8. ASSUME NEW x \in Foreign, CopyElsewhere(x) PROVE OnlyOvertakenClearsDestroy'
  BY <1>8 DEF CopyElsewhere
<1>9. CASE UNCHANGED vars
  BY <1>9 DEF vars
<1> QED
  BY <1>1, <1>2, <1>3, <1>4, <1>5, <1>6, <1>7, <1>8, <1>9 DEF Next

(* The slot changes hands only when its new owner's text is written, and a *)
(* clear ends without blanking only if the clipboard holds another text.   *)
LEMMA StepKeepsClear ==
  ASSUME ClipboardInv, [Next]_vars PROVE SecretHasItsClear'
<1> USE TextsDiffer, NoneIsNoCopy
    DEF ClipboardInv, TypeOK, SecretHasItsClear, At, Advance, Clearing
<1>1. ASSUME NEW c \in Copies, NEW s \in Secrets, Click(c, s)
      PROVE SecretHasItsClear'
  BY <1>1 DEF Click
<1>2. ASSUME NEW c \in Copies, NEW ok \in BOOLEAN, Answer(c, ok)
      PROVE SecretHasItsClear'
  BY <1>2 DEF Answer
<1>3. ASSUME NEW c \in Copies, StartWrite(c) \/ CopyFails(c)
      PROVE SecretHasItsClear'
  BY <1>3 DEF StartWrite, PendingWhileWriting, CopyFails
<1>4. ASSUME NEW c \in Copies, Written(c) PROVE SecretHasItsClear'
  BY <1>4 DEF Written
<1>5. ASSUME NEW c \in Copies, Fire(c) \/ ClearFails(c) PROVE SecretHasItsClear'
  BY <1>5 DEF Fire, ClearFails
<1>6. ASSUME NEW c \in Copies, Read(c) PROVE SecretHasItsClear'
  BY <1>6 DEF Read, Unchanged
<1>7. ASSUME NEW c \in Copies, Blank(c) PROVE SecretHasItsClear'
  BY <1>7 DEF Blank
<1>8. ASSUME NEW x \in Foreign, CopyElsewhere(x) PROVE SecretHasItsClear'
  BY <1>8 DEF CopyElsewhere
<1>9. CASE UNCHANGED vars
  BY <1>9 DEF vars
<1> QED
  BY <1>1, <1>2, <1>3, <1>4, <1>5, <1>6, <1>7, <1>8, <1>9 DEF Next

(* ClipboardInv is an invariant of the clipboard and its clears.           *)
THEOREM Invariant == Spec => []ClipboardInv
<1>1. ClipboardInv /\ [Next]_vars => ClipboardInv'
  BY StepKeepsTypes, StepKeepsOvertaken, StepKeepsClear DEF ClipboardInv
<1> QED
  BY InitEstablishes, <1>1, PTL DEF Spec

(* Types; a timer or a clear names a click whose text has been written.    *)
THEOREM TypeCorrect == Spec => []TypeOK
<1>1. ClipboardInv => TypeOK
  BY DEF ClipboardInv
<1> QED
  BY Invariant, <1>1, PTL

(* clearIfUnchanged compares before it blanks: only a text copied between  *)
(* its read and its write can be lost.                                     *)
THEOREM ClearsAreChecked == Spec => []OnlyOvertakenClearsDestroy
<1>1. ClipboardInv => OnlyOvertakenClearsDestroy
  BY DEF ClipboardInv
<1> QED
  BY Invariant, <1>1, PTL

(* copyWithAutoClear hands pendingClear over only once its text is on the  *)
(* clipboard, so that the secret there never lacks a clear.                *)
THEOREM EverySecretHasItsClear == Spec => []SecretHasItsClear
<1>1. ClipboardInv => SecretHasItsClear
  BY DEF ClipboardInv
<1> QED
  BY Invariant, <1>1, PTL
=============================================================================
