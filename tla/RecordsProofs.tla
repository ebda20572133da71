--------------------------- MODULE RecordsProofs ---------------------------
(* Theorems about Records, for any devices, items, fields and edits.       *)
EXTENDS Records, TLAPS

-----------------------------------------------------------------------------
\* A form edits an item that its list shows.
FormsShowItems ==
  \A d \in Devices : (screen[d].kind = "form" /\ screen[d].item # None) =>
    list[d][screen[d].item] # None

\* What the stage of a submit says about the rest of it.
SubmitsAreSound ==
  \A e \in Edits :
    /\ by[e] # None <=> status[e] \in {"sent", "applied"}
    /\ status[e] = "unused" => into[e] = None
    /\ status[e] \in {"sent", "orphan"} => body[e] \in Ciphers
    /\ created[e] # {} => status[e] \in {"applied", "done", "failed"}

\* A cipher that belongs to item i, and one that edit e would create.
HomeCipher(c, i) ==
  c["name"] # None /\ \A f \in Parts : BelongsTo(c[f], i, f)
OwnCipher(c, e) ==
  /\ c["name"] # None
  /\ \A f \in Parts : c[f] \in {None, <<e, f>>} \/ (c[f] = NoName /\ f = "name")

EverythingIsHome ==
  /\ \A i \in Ids : store[i] # None => HomeCipher(store[i], i)
  /\ \A d \in Devices, i \in Ids : list[d][i] # None => HomeCipher(list[d][i], i)
  /\ \A e \in Pending : IF into[e] = None THEN OwnCipher(body[e], e)
                                          ELSE HomeCipher(body[e], into[e])

\* What a list or a request captured is still what the server has, unless it
\* is known to be out of date.
ListsAreCurrent ==
  \A d \in Devices : \A i \in Ids \ dirty[d] : list[d][i] = store[i]
RequestIsCurrent(e, f) ==
  (into[e] # None /\ store[into[e]] # None /\ f \notin touched[e]) =>
     Unshowable(store[into[e]], f) \/ body[e][f] = store[into[e]][f]
RequestsAreCurrent ==
  \A e \in Pending \ stale, f \in Parts : RequestIsCurrent(e, f)

GivenUp == {"failed", "orphan"}
RetriesFollowErrors ==
  /\ \A d \in Devices : screen[d].last # None =>
       screen[d].wait = screen[d].last \/ status[screen[d].last] \in GivenUp
  /\ \A e \in Edits : retryOf[e] # None => status[retryOf[e]] \in GivenUp

RecordsInv ==
  /\ TypeOK
  /\ FormsShowItems
  /\ SubmitsAreSound
  /\ EverythingIsHome
  /\ ListsAreCurrent
  /\ RequestsAreCurrent
  /\ RetriesFollowErrors

LEMMA OriginalIsHome ==
  ASSUME NEW i \in Existing, NEW c \in Original(i)
  PROVE  c \in Ciphers /\ HomeCipher(c, i)
<1> USE SpecialValues, ExistingAreIds, AbsentParts DEF Original
<1>1. c \in [Parts -> {<<i, f>> : f \in Parts} \cup {None, Garbled}]
  OBVIOUS
<1>2. \A f \in Parts : c[f] = <<i, f>> \/ c[f] = Garbled \/ c[f] = None
  OBVIOUS
<1>3. c \in Ciphers
  BY <1>1, <1>2 DEF Ciphers, Values
<1>4. "name" \in Parts /\ "name" \notin Absent
  BY DEF Parts, Fields, Prefilled
<1>5. <<i, "name">> \in (Ids \cup Edits) \X Parts
  BY <1>4
<1>6. c["name"] # None
  BY <1>4, <1>5
<1> QED
  BY <1>2, <1>3, <1>6 DEF HomeCipher, BelongsTo

LEMMA InitInv == Init => RecordsInv
<1> SUFFICES ASSUME Init PROVE RecordsInv
  OBVIOUS
<1>1. \A i \in Ids : store[i] # None => store[i] \in Ciphers /\ HomeCipher(store[i], i)
  BY OriginalIsHome DEF Init
<1>2. store \in [Ids -> Ciphers \cup {None}]
  BY <1>1 DEF Init
<1>3. TypeOK
  BY <1>2 DEF Init, TypeOK, VaultType, FormType, EditType, List, Screens
<1>4. FormsShowItems /\ SubmitsAreSound /\ RetriesFollowErrors
  BY DEF Init, FormsShowItems, SubmitsAreSound, RetriesFollowErrors, List
<1>5. EverythingIsHome
  BY <1>1 DEF Init, EverythingIsHome, Pending
<1>6. ListsAreCurrent /\ RequestsAreCurrent
  BY DEF Init, ListsAreCurrent, RequestsAreCurrent, Pending
<1> QED
  BY <1>3, <1>4, <1>5, <1>6 DEF RecordsInv

-----------------------------------------------------------------------------
(* What a submit sends: a form of item i only ever mixes the captured      *)
(* values of i, field by field, with its own texts.                        *)
LEMMA SentCipher ==
  ASSUME RecordsInv, NEW d \in Devices, NEW e \in Edits, MaySubmit(d),
         NEW text \in SUBSET Fields, NEW blank \in SUBSET Prefilled
  PROVE  LET c == Sent(d, e, text, blank)
         IN  /\ c \in Ciphers /\ c["name"] # None
             /\ \A f \in Parts : \/ c[f] \in {None, <<e, f>>}
                                 \/ c[f] = NoName /\ f = "name"
                                 \/ screen[d].item # None /\ c[f] = Item(d)[f]
             /\ \A f \in Parts \ (text \cup blank) :
                  screen[d].item # None => Unshowable(Item(d), f) \/ c[f] = Item(d)[f]
<1> DEFINE c == Sent(d, e, text, blank)
<1> USE SpecialValues
<1>1. Fields \subseteq Parts /\ Prefilled \subseteq Fields /\ "name" \in Prefilled
  BY DEF Parts, Fields, Prefilled
<1>2. "more" \notin text /\ "password" \notin Prefilled /\ "notes" \notin Prefilled
  BY PlainFields DEF Fields, Prefilled
<1>3. Item(d) \in Ciphers
  <2>1. CASE screen[d].item = None
    BY <2>1 DEF Item, Blank, Ciphers, Values
  <2>2. CASE screen[d].item # None
    BY <2>2 DEF Item, RecordsInv, TypeOK, VaultType, FormType, FormsShowItems, MaySubmit,
       Screens
  <2> QED
    BY <2>1, <2>2
<1>4. screen[d].item # None => Item(d)["name"] # None
  BY DEF Item, RecordsInv, EverythingIsHome, HomeCipher, FormsShowItems, MaySubmit,
     TypeOK, FormType, Screens
<1>5. screen[d].item = None => Item(d) = [f \in Parts |-> None]
  BY DEF Item, Blank
<1>6. ASSUME NEW f \in Parts
      PROVE  c[f] = IF f \in text THEN <<e, f>>
                    ELSE IF f \in {"password", "notes"} THEN Item(d)[f]
                    ELSE IF f = "name" /\ (f \in blank \/ Item(d)[f] \in {None, Garbled})
                      THEN NoName
                    ELSE IF f = "more" \/ f \in blank \/ Item(d)[f] = Garbled THEN None
                    ELSE Item(d)[f]
  BY DEF Sent, BlankKeeps, Prefill
<1>7. \A f \in Parts : <<e, f>> # None /\ <<e, f>> \in Values
  BY DEF Values
<1>8. c["name"] # None
  BY <1>1, <1>6, <1>7
<1>9. \A f \in Parts : c[f] \in Values
  BY <1>3, <1>6, <1>7 DEF Ciphers, Values
<1>10. c \in Ciphers
  BY <1>9 DEF Sent, Ciphers
<1>11. ASSUME NEW f \in Parts
       PROVE  \/ c[f] \in {None, <<e, f>>}
              \/ c[f] = NoName /\ f = "name"
              \/ screen[d].item # None /\ c[f] = Item(d)[f]
  BY <1>5, <1>6
<1>12. ASSUME NEW f \in Parts \ (text \cup blank), screen[d].item # None
       PROVE  Unshowable(Item(d), f) \/ c[f] = Item(d)[f]
  BY <1>4, <1>6, <1>12 DEF Unshowable, Parts, Fields
<1> QED
  BY <1>8, <1>10, <1>11, <1>12

-----------------------------------------------------------------------------
LEMMA TypeStep == RecordsInv /\ [Next]_vars => TypeOK'
<1> SUFFICES ASSUME RecordsInv, [Next]_vars PROVE TypeOK'
  OBVIOUS
<1> USE SpecialValues DEF RecordsInv, TypeOK, VaultType, FormType, EditType, edits, Screens
<1>1. ASSUME NEW d \in Devices, Refresh(d)
      PROVE  TypeOK'
  BY <1>1 DEF Refresh, RenderList, List
<1>2. ASSUME NEW d \in Devices, UnlockNotes(d)
      PROVE  TypeOK'
  BY <1>2 DEF UnlockNotes
<1>3. ASSUME NEW d \in Devices, NEW i \in Ids \cup {None}, OpenForm(d, i)
      PROVE  TypeOK'
  BY <1>3 DEF OpenForm, Form
<1>4. ASSUME NEW d \in Devices, NEW e \in Edits, Submit(d, e)
      PROVE  TypeOK'
  <2> USE <1>4 DEF Submit
  <2>1. EditType'
    <3>1. PICK t \in Typing : /\ body' = [body EXCEPT ![e] = Sent(d, e, t.text, t.blank)]
                              /\ touched' = [touched EXCEPT ![e] = t.text \cup t.blank]
      OBVIOUS
    <3>2. t.text \in SUBSET Fields /\ t.blank \in SUBSET Prefilled
      BY DEF Typing
    <3>3. Sent(d, e, t.text, t.blank) \in Ciphers
      BY <3>2, SentCipher
    <3>4. t.text \cup t.blank \in SUBSET Fields
      BY <3>2 DEF Fields
    <3>5. body' \in [Edits -> Ciphers \cup {None}] /\ touched' \in [Edits -> SUBSET Fields]
      BY <3>1, <3>3, <3>4
    <3> QED
      BY <3>5 DEF MaySubmit
  <2>2. PICK v \in Edits \cup {None} :
          screen' = [screen EXCEPT ![d] = [@ EXCEPT !.wait = e, !.last = v]]
    OBVIOUS
  <2>3. screen' \in [Devices -> Screens] /\ screen'[d].wait = e
    <3> DEFINE shown == [screen[d] EXCEPT !.wait = e, !.last = v]
    <3>1. screen[d] \in Screens
      OBVIOUS
    <3>2. shown \in Screens /\ shown.wait = e
      BY <3>1, <2>2
    <3>3. screen' = [screen EXCEPT ![d] = shown]
      BY <2>2
    <3> HIDE DEF shown
    <3> QED
      BY <3>2, <3>3
  <2>4. FormType' /\ VaultType'
    BY <2>3
  <2>5. \A x \in Devices : screen'[x].wait # None => by'[screen'[x].wait] = x
    <3>1. by[e] = None /\ by'[e] = d
      BY DEF SubmitsAreSound
    <3>2. \A x \in Devices \ {d} : screen'[x] = screen[x]
      BY <2>2
    <3>3. \A w \in Edits \ {e} : by'[w] = by[w]
      OBVIOUS
    <3>4. ASSUME NEW x \in Devices \ {d}, screen[x].wait # None
          PROVE  screen[x].wait \in Edits \ {e} /\ by[screen[x].wait] = x
      BY <3>1, <3>4 DEF Screens
    <3> QED
      BY <2>3, <3>1, <3>2, <3>3, <3>4
  <2> QED
    BY <2>1, <2>4, <2>5
<1>5. ASSUME NEW e \in Edits, NEW i \in Ids, Create(e, i)
      PROVE  TypeOK'
  <2> USE <1>5 DEF Create, Write, Over
  <2>1. body[e] \in Ciphers
    BY DEF SubmitsAreSound
  <2>2. VaultType' /\ FormType'
    BY <2>1
  <2>3. EditType'
    BY DEF Pending
  <2> QED
    BY <2>2, <2>3
<1>6. ASSUME NEW e \in Edits, Update(e)
      PROVE  TypeOK'
  BY <1>6 DEF Update, Write, Over, Pending, SubmitsAreSound
<1>7. ASSUME NEW e \in Edits, Saved(e)
      PROVE  TypeOK'
  BY <1>7 DEF Saved, RenderList, List, SubmitsAreSound
<1>8. ASSUME NEW e \in Edits, SaveFails(e)
      PROVE  TypeOK'
  <2> USE <1>8 DEF SaveFails, Over
  <2>1. EditType' /\ VaultType'
    <3>1. VaultType'
      OBVIOUS
    <3>2. CASE status' = [status EXCEPT ![e] = "failed"] /\ Over(e) /\ stale' = stale \ {e}
      BY <3>1, <3>2
    <3>3. CASE status' = [status EXCEPT ![e] = "orphan"] /\ UNCHANGED <<body, touched, stale>>
      BY <3>1, <3>3
    <3> QED
      BY <3>2, <3>3
  <2>2. by[e] \in Devices /\ by' = [by EXCEPT ![e] = None]
    BY DEF SubmitsAreSound
  <2>3. CASE screen[by[e]].wait = e
    <3>1. screen' = [screen EXCEPT ![by[e]].wait = None]
      BY <2>3 DEF Enable
    <3>2. screen'[by[e]].wait = None /\ \A x \in Devices \ {by[e]} : screen'[x] = screen[x]
      BY <2>2, <3>1
    <3>3. ASSUME NEW x \in Devices \ {by[e]}, screen[x].wait # None
          PROVE  screen[x].wait \in Edits \ {e} /\ by[screen[x].wait] = x
      BY <3>3
    <3>4. \A w \in Edits \ {e} : by'[w] = by[w]
      BY <2>2
    <3>5. \A x \in Devices : screen'[x].wait # None => by'[screen'[x].wait] = x
      BY <3>2, <3>3, <3>4
    <3>6. [screen[by[e]] EXCEPT !.wait = None] \in Screens
      <4>1. screen[by[e]] \in Screens
        BY <2>2
      <4> QED
        BY <4>1
    <3>7. FormType'
      BY <2>2, <3>1, <3>6
    <3> QED
      BY <2>1, <3>5, <3>7
  <2>4. CASE screen[by[e]].wait # e
    <3>1. screen' = screen
      BY <2>4 DEF Enable
    <3>2. ASSUME NEW x \in Devices, screen[x].wait # None
          PROVE  screen[x].wait \in Edits \ {e} /\ by[screen[x].wait] = x
      BY <2>4, <3>2
    <3>3. \A w \in Edits \ {e} : by'[w] = by[w]
      BY <2>2
    <3>4. \A x \in Devices : screen'[x].wait # None => by'[screen'[x].wait] = x
      BY <3>1, <3>2, <3>3
    <3>5. FormType'
      BY <3>1
    <3> QED
      BY <2>1, <3>4, <3>5
  <2> QED
    BY <2>3, <2>4
<1>9. CASE UNCHANGED vars
  BY <1>9 DEF vars
<1> QED
  BY <1>1, <1>2, <1>3, <1>4, <1>5, <1>6, <1>7, <1>8, <1>9 DEF Next

-----------------------------------------------------------------------------
(* What an edit was made in, or created, is never forgotten; so a value    *)
(* that belongs to a field goes on belonging to it.                        *)
LEMMA HistoryGrows ==
  ASSUME RecordsInv, [Next]_vars
  PROVE  \A e \in Edits : /\ created[e] \subseteq created'[e]
                          /\ into[e] # None => into'[e] = into[e]
<1> USE DEF edits, RecordsInv, TypeOK, EditType
<1>1. ASSUME NEW d \in Devices, NEW e \in Edits, Submit(d, e)
      PROVE  created' = created /\ \A x \in Edits : into[x] # None => into'[x] = into[x]
  BY <1>1 DEF Submit, SubmitsAreSound
<1>2. ASSUME NEW e \in Edits, NEW i \in Ids, Create(e, i)
      PROVE  into' = into /\ \A x \in Edits : created[x] \subseteq created'[x]
  BY <1>2 DEF Create
<1>3. ASSUME NEW e \in Edits, Update(e) \/ Saved(e) \/ SaveFails(e)
      PROVE  UNCHANGED <<into, created>>
  BY <1>3 DEF Update, Saved, SaveFails
<1>4. ASSUME NEW d \in Devices,
             Refresh(d) \/ UnlockNotes(d) \/ \E i \in Ids \cup {None} : OpenForm(d, i)
      PROVE  UNCHANGED <<into, created>>
  BY <1>4 DEF Refresh, UnlockNotes, OpenForm
<1>5. CASE UNCHANGED vars
  BY <1>5 DEF vars
<1> QED
  BY <1>1, <1>2, <1>3, <1>4, <1>5 DEF Next

LEMMA HomeStays ==
  ASSUME RecordsInv, [Next]_vars
  PROVE  \A i \in Ids, c \in Ciphers : HomeCipher(c, i) => HomeCipher(c, i)'
<1> SUFFICES ASSUME NEW i \in Ids, NEW c \in Ciphers, HomeCipher(c, i)
             PROVE  HomeCipher(c, i)'
  OBVIOUS
<1>1. \A f \in Parts : BelongsTo(c[f], i, f) => BelongsTo(c[f], i, f)'
  BY HistoryGrows, SpecialValues DEF BelongsTo
<1> QED
  BY <1>1 DEF HomeCipher

LEMMA HomeStep == RecordsInv /\ [Next]_vars => EverythingIsHome'
<1> SUFFICES ASSUME RecordsInv, [Next]_vars PROVE EverythingIsHome'
  OBVIOUS
<1> USE SpecialValues DEF RecordsInv, TypeOK, VaultType, EditType, edits
<1>1. \A i \in Ids, c \in Ciphers : HomeCipher(c, i) => HomeCipher(c, i)'
  BY HomeStays
<1>2. ASSUME UNCHANGED store
      PROVE  \A i \in Ids : store'[i] # None => HomeCipher(store[i], i)'
  BY <1>1, <1>2 DEF EverythingIsHome
<1>3. ASSUME UNCHANGED list
      PROVE  \A d \in Devices, i \in Ids : list'[d][i] # None => HomeCipher(list[d][i], i)'
  <2> SUFFICES ASSUME NEW d \in Devices, NEW i \in Ids, list[d][i] # None
               PROVE  HomeCipher(list[d][i], i)'
    BY <1>3
  <2>1. list[d][i] \in Ciphers /\ HomeCipher(list[d][i], i)
    BY DEF EverythingIsHome
  <2> QED
    BY <1>1, <1>3, <2>1
<1>4. ASSUME NEW P \in SUBSET Pending,
             \A e \in P : body'[e] = body[e] /\ into'[e] = into[e]
      PROVE  \A e \in P : IF into'[e] = None THEN OwnCipher(body[e], e)'
                                             ELSE HomeCipher(body[e], into[e])'
  BY <1>1, <1>4 DEF EverythingIsHome, Pending, SubmitsAreSound, OwnCipher
<1>5. ASSUME NEW d \in Devices, RenderList(d), UNCHANGED store
      PROVE  \A x \in Devices, i \in Ids : list'[x][i] # None => HomeCipher(list[x][i], i)'
  BY <1>1, <1>2, <1>5 DEF RenderList, EverythingIsHome
\* The requests under way, when at most one of them has ended.
<1>6. ASSUME Pending' \subseteq Pending,
             \A x \in Pending' : body'[x] = body[x] /\ into'[x] = into[x]
      PROVE  \A x \in Pending' : IF into'[x] = None THEN OwnCipher(body[x], x)'
                                                    ELSE HomeCipher(body[x], into[x])'
  BY <1>4, <1>6
<1>7. ASSUME NEW d \in Devices, Refresh(d)
      PROVE  EverythingIsHome'
  BY <1>2, <1>5, <1>6, <1>7 DEF Refresh, EverythingIsHome, Pending
<1>8. ASSUME NEW d \in Devices, UnlockNotes(d) \/ \E i \in Ids \cup {None} : OpenForm(d, i)
      PROVE  EverythingIsHome'
  BY <1>2, <1>3, <1>6, <1>8 DEF UnlockNotes, OpenForm, EverythingIsHome, Pending
<1>9. ASSUME NEW e \in Edits, Saved(e)
      PROVE  EverythingIsHome'
  <2>1. by[e] \in Devices
    BY <1>9 DEF Saved, SubmitsAreSound
  <2> QED
    BY <1>2, <1>5, <1>6, <1>9, <2>1 DEF Saved, EverythingIsHome, Pending
<1>10. ASSUME NEW e \in Edits, SaveFails(e)
       PROVE  EverythingIsHome'
  BY <1>2, <1>3, <1>6, <1>10 DEF SaveFails, Over, EverythingIsHome, Pending
<1>11. ASSUME NEW e \in Edits, NEW i \in Ids, Create(e, i)
       PROVE  EverythingIsHome'
  <2> USE <1>11 DEF Create, Write, Over
  <2>1. body[e] \in Ciphers /\ OwnCipher(body[e], e)
    BY DEF EverythingIsHome, SubmitsAreSound, Pending
  <2>2. store' = [store EXCEPT ![i] = body[e]] /\ i \in created'[e]
    OBVIOUS
  <2>3. HomeCipher(store[i], i)'
    BY <2>1, <2>2 DEF OwnCipher, HomeCipher, BelongsTo
  <2>4. \A j \in Ids : store'[j] # None => HomeCipher(store[j], j)'
    BY <1>1, <2>2, <2>3 DEF EverythingIsHome
  <2> QED
    BY <1>3, <1>6, <2>4 DEF EverythingIsHome, Pending
<1>12. ASSUME NEW e \in Edits, Update(e)
       PROVE  EverythingIsHome'
  <2> USE <1>12 DEF Update, Write, Over
  <2>1. into[e] \in Ids /\ body[e] \in Ciphers /\ HomeCipher(body[e], into[e])
    BY DEF EverythingIsHome, SubmitsAreSound, Pending
  <2>2. \A j \in Ids : store'[j] # None => HomeCipher(store[j], j)'
    BY <1>1, <2>1 DEF EverythingIsHome
  <2> QED
    BY <1>3, <1>6, <2>2 DEF EverythingIsHome, Pending
<1>13. ASSUME NEW d \in Devices, NEW e \in Edits, Submit(d, e)
       PROVE  EverythingIsHome'
  <2> USE <1>13 DEF Submit
  <2>1. PICK c \in Ciphers :
          /\ body' = [body EXCEPT ![e] = c] /\ c["name"] # None
          /\ \A f \in Parts : \/ c[f] \in {None, <<e, f>>}
                              \/ c[f] = NoName /\ f = "name"
                              \/ screen[d].item # None /\ c[f] = Item(d)[f]
    <3>1. PICK t \in Typing : body' = [body EXCEPT ![e] = Sent(d, e, t.text, t.blank)]
      OBVIOUS
    <3>2. t.text \in SUBSET Fields /\ t.blank \in SUBSET Prefilled
      BY DEF Typing
    <3>3. MaySubmit(d) /\ RecordsInv
      OBVIOUS
    <3> QED
      BY ONLY <3>1, <3>2, <3>3, SentCipher, d \in Devices, e \in Edits
  <2>2. \A x \in Pending' \ {e} : x \in Pending /\ body'[x] = body[x] /\ into'[x] = into[x]
    BY <2>1 DEF Pending
  <2>3. body'[e] = c
    BY <2>1
  <2>4. \A x \in Pending' \ {e} : IF into'[x] = None THEN OwnCipher(body[x], x)'
                                                    ELSE HomeCipher(body[x], into[x])'
    <3>1. Pending' \ {e} \in SUBSET Pending
      BY <2>2
    <3> QED
      BY <1>4, <2>2, <3>1
  <2>5. /\ \A i \in Ids : store'[i] # None => HomeCipher(store[i], i)'
        /\ \A x \in Devices, i \in Ids : list'[x][i] # None => HomeCipher(list[x][i], i)'
    BY <1>2, <1>3
  <2>6. CASE screen[d].item = None
    <3>1. OwnCipher(c, e)
      BY <2>1, <2>6 DEF OwnCipher
    <3>2. OwnCipher(body[e], e)' /\ into'[e] = None
      BY <2>3, <2>6, <3>1 DEF OwnCipher
    <3> QED
      BY <2>4, <2>5, <3>2 DEF EverythingIsHome
  <2>7. ASSUME NEW i \in Ids, screen[d].item = i, i # None
        PROVE  EverythingIsHome'
    <3>1. Item(d) = list[d][i] /\ Item(d) \in Ciphers /\ HomeCipher(list[d][i], i)
      BY <2>7 DEF MaySubmit, FormsShowItems, EverythingIsHome, Item, FormType, Screens
    <3>2. into'[e] = i
      BY <2>7
    <3>3. HomeCipher(list[d][i], i)' /\ list' = list
      BY <1>1, <3>1
    <3>4. \A f \in Parts : BelongsTo(c[f], i, f)'
      BY <2>1, <3>1, <3>2, <3>3 DEF HomeCipher, BelongsTo
    <3>5. HomeCipher(body[e], into[e])'
      BY <2>1, <2>3, <3>2, <3>4 DEF HomeCipher
    <3> QED
      BY <2>4, <2>5, <2>7, <3>2, <3>5 DEF EverythingIsHome
  <2> QED
    BY <2>6, <2>7 DEF FormType, Screens
<1>14. CASE UNCHANGED vars
  BY <1>2, <1>3, <1>6, <1>14 DEF vars, EverythingIsHome, Pending
<1> QED
  BY <1>7, <1>8, <1>9, <1>10, <1>11, <1>12, <1>13, <1>14 DEF Next

LEMMA SoundStep == RecordsInv /\ [Next]_vars => FormsShowItems' /\ SubmitsAreSound'
<1> SUFFICES ASSUME RecordsInv, [Next]_vars PROVE FormsShowItems' /\ SubmitsAreSound'
  OBVIOUS
<1> USE SpecialValues DEF RecordsInv, TypeOK, VaultType, FormType, EditType, Screens, edits
<1>1. ASSUME NEW d \in Devices,
             Refresh(d) \/ UnlockNotes(d) \/ \E i \in Ids \cup {None} : OpenForm(d, i)
      PROVE  FormsShowItems' /\ SubmitsAreSound'
  <2>1. SubmitsAreSound'
    BY <1>1 DEF Refresh, UnlockNotes, OpenForm, SubmitsAreSound
  <2>2. CASE Refresh(d)
    BY <2>1, <2>2 DEF Refresh, RenderList, List, FormsShowItems
  <2>3. CASE UnlockNotes(d)
    BY <2>1, <2>3 DEF UnlockNotes, FormsShowItems
  <2>4. ASSUME NEW i \in Ids \cup {None}, OpenForm(d, i)
        PROVE  FormsShowItems'
    BY <2>4 DEF OpenForm, Form, FormsShowItems
  <2> QED
    BY <1>1, <2>1, <2>2, <2>3, <2>4
<1>2. ASSUME NEW d \in Devices, NEW e \in Edits, Submit(d, e)
      PROVE  FormsShowItems' /\ SubmitsAreSound'
  <2> USE <1>2 DEF Submit
  <2>1. body'[e] \in Ciphers /\ \A x \in Edits \ {e} : body'[x] = body[x]
    <3>1. PICK t \in Typing : body' = [body EXCEPT ![e] = Sent(d, e, t.text, t.blank)]
      OBVIOUS
    <3>2. t.text \in SUBSET Fields /\ t.blank \in SUBSET Prefilled
      BY DEF Typing
    <3>3. MaySubmit(d) /\ RecordsInv
      OBVIOUS
    <3>4. Sent(d, e, t.text, t.blank) \in Ciphers
      BY ONLY <3>2, <3>3, SentCipher, d \in Devices, e \in Edits
    <3> QED
      BY <3>1, <3>4
  <2>2. SubmitsAreSound'
    BY <2>1 DEF SubmitsAreSound
  <2>3. \A x \in Devices : screen'[x].kind = screen[x].kind /\ screen'[x].item = screen[x].item
    OBVIOUS
  <2>4. FormsShowItems'
    BY <2>3 DEF FormsShowItems
  <2> QED
    BY <2>2, <2>4
<1>3. ASSUME NEW e \in Edits, Update(e) \/ \E i \in Ids : Create(e, i)
      PROVE  FormsShowItems' /\ SubmitsAreSound'
  <2>1. FormsShowItems'
    BY <1>3 DEF Update, Create, FormsShowItems
  <2>2. /\ status' = [status EXCEPT ![e] = IF @ = "sent" THEN "applied" ELSE "failed"]
        /\ status[e] \in {"sent", "orphan"} /\ UNCHANGED <<by, into>>
        /\ \A x \in Edits \ {e} : body'[x] = body[x] /\ created'[x] = created[x]
    BY <1>3 DEF Update, Create, Write, Over
  <2>3. SubmitsAreSound'
    BY <2>2 DEF SubmitsAreSound
  <2> QED
    BY <2>1, <2>3
<1>4. ASSUME NEW e \in Edits, Saved(e)
      PROVE  FormsShowItems' /\ SubmitsAreSound'
  <2>1. SubmitsAreSound'
    BY <1>4 DEF Saved, SubmitsAreSound
  <2>2. by[e] \in Devices
    BY <1>4 DEF Saved, SubmitsAreSound
  <2>3. FormsShowItems'
    BY <1>4, <2>2 DEF Saved, RenderList, List, FormsShowItems
  <2> QED
    BY <2>1, <2>3
<1>5. ASSUME NEW e \in Edits, SaveFails(e)
      PROVE  FormsShowItems' /\ SubmitsAreSound'
  <2>1. SubmitsAreSound'
    BY <1>5 DEF SaveFails, Over, SubmitsAreSound
  <2>2. \A x \in Devices : screen'[x].kind = screen[x].kind /\ screen'[x].item = screen[x].item
    BY <1>5 DEF SaveFails, Enable
  <2>3. FormsShowItems'
    BY <1>5, <2>2 DEF SaveFails, FormsShowItems
  <2> QED
    BY <2>1, <2>3
<1>6. CASE UNCHANGED vars
  BY <1>6 DEF vars, FormsShowItems, SubmitsAreSound
<1> QED
  BY <1>1, <1>2, <1>3, <1>4, <1>5, <1>6 DEF Next

-----------------------------------------------------------------------------
LEMMA SentKeeps ==
  ASSUME RecordsInv, NEW d \in Devices, NEW e \in Edits, MaySubmit(d),
         NEW text \in SUBSET Fields, NEW blank \in SUBSET Prefilled,
         screen[d].item # None
  PROVE  \A f \in Parts \ (text \cup blank) :
           Unshowable(Item(d), f) \/ Sent(d, e, text, blank)[f] = Item(d)[f]
<1>1. LET c == Sent(d, e, text, blank)
      IN  \A f \in Parts \ (text \cup blank) :
            screen[d].item # None => Unshowable(Item(d), f) \/ c[f] = Item(d)[f]
  BY SentCipher
<1> QED
  BY <1>1

LEMMA ListsStep == RecordsInv /\ [Next]_vars => ListsAreCurrent'
<1> SUFFICES ASSUME RecordsInv, [Next]_vars PROVE ListsAreCurrent'
  OBVIOUS
<1> USE DEF RecordsInv, TypeOK, VaultType, EditType, ListsAreCurrent, edits
<1>1. ASSUME NEW d \in Devices, RenderList(d), UNCHANGED store
      PROVE  ListsAreCurrent'
  BY <1>1 DEF RenderList
<1>2. ASSUME NEW d \in Devices, Refresh(d)
      PROVE  ListsAreCurrent'
  BY <1>1, <1>2 DEF Refresh
<1>3. ASSUME NEW e \in Edits, Saved(e)
      PROVE  ListsAreCurrent'
  BY <1>1, <1>3 DEF Saved, SubmitsAreSound
<1>4. ASSUME NEW e \in Edits, NEW i \in Ids, Write(e, i), UNCHANGED list
      PROVE  ListsAreCurrent'
  BY <1>4 DEF Write
<1>5. ASSUME NEW e \in Edits, Update(e) \/ \E i \in Ids : Create(e, i)
      PROVE  ListsAreCurrent'
  <2>1. Update(e) => into[e] \in Ids
    BY DEF Update
  <2> QED
    BY <1>4, <1>5, <2>1 DEF Update, Create
<1>6. ASSUME UNCHANGED <<store, list, dirty>>
      PROVE  ListsAreCurrent'
  BY <1>6
<1>7. ASSUME NEW d \in Devices,
             \/ UnlockNotes(d) \/ \E i \in Ids \cup {None} : OpenForm(d, i)
             \/ \E e \in Edits : Submit(d, e)
      PROVE  ListsAreCurrent'
  BY <1>6, <1>7 DEF UnlockNotes, OpenForm, Submit
<1>8. ASSUME NEW e \in Edits, SaveFails(e)
      PROVE  ListsAreCurrent'
  BY <1>6, <1>8 DEF SaveFails
<1>9. CASE UNCHANGED vars
  BY <1>6, <1>9 DEF vars
<1> QED
  BY <1>2, <1>3, <1>5, <1>7, <1>8, <1>9 DEF Next

LEMMA RequestsStep == RecordsInv /\ [Next]_vars => RequestsAreCurrent'
<1> SUFFICES ASSUME RecordsInv, [Next]_vars PROVE RequestsAreCurrent'
  OBVIOUS
<1> USE SpecialValues DEF RecordsInv, TypeOK, VaultType, FormType, EditType, Screens, edits
\* A request that goes on while its item is not written.
<1>1. ASSUME NEW e \in Pending \ stale, NEW f \in Parts,
             UNCHANGED <<body[e], into[e], touched[e]>>,
             into[e] # None => store'[into[e]] = store[into[e]]
      PROVE  RequestIsCurrent(e, f)'
  <2>1. RequestIsCurrent(e, f)
    BY DEF RequestsAreCurrent
  <2> QED
    BY <1>1, <2>1 DEF RequestIsCurrent, Unshowable
<1>2. ASSUME NEW d \in Devices,
             Refresh(d) \/ UnlockNotes(d) \/ \E i \in Ids \cup {None} : OpenForm(d, i)
      PROVE  RequestsAreCurrent'
  BY <1>1, <1>2 DEF Refresh, UnlockNotes, OpenForm, RequestsAreCurrent, Pending
<1>3. ASSUME NEW e \in Edits, Saved(e)
      PROVE  RequestsAreCurrent'
  BY <1>1, <1>3 DEF Saved, RequestsAreCurrent, Pending
<1>4. ASSUME NEW e \in Edits, SaveFails(e)
      PROVE  RequestsAreCurrent'
  BY <1>1, <1>4 DEF SaveFails, Over, RequestsAreCurrent, Pending
\* A write makes every other request for its item one of a stale form.
<1>5. ASSUME NEW e \in Edits, NEW i \in Ids, Write(e, i), status[e] \in {"sent", "orphan"},
             UNCHANGED into
      PROVE  RequestsAreCurrent'
  <2> SUFFICES ASSUME NEW x \in Pending' \ stale', NEW f \in Parts
               PROVE  RequestIsCurrent(x, f)'
    BY DEF RequestsAreCurrent
  <2>1. x \in Pending \ stale /\ x # e /\ into[x] # i
    BY <1>5 DEF Write, Pending
  <2>2. UNCHANGED <<body[x], into[x], touched[x]>>
    BY <1>5, <2>1 DEF Write, Over, Pending
  <2>3. into[x] # None => store'[into[x]] = store[into[x]]
    BY <1>5, <2>1 DEF Write, Pending
  <2> QED
    BY <1>1, <2>1, <2>2, <2>3
<1>6. ASSUME NEW e \in Edits, Update(e) \/ \E i \in Ids : Create(e, i)
      PROVE  RequestsAreCurrent'
  <2>1. Update(e) => into[e] \in Ids
    BY DEF Update
  <2> QED
    BY <1>5, <1>6, <2>1 DEF Update, Create
<1>7. ASSUME NEW d \in Devices, NEW e \in Edits, Submit(d, e)
      PROVE  RequestsAreCurrent'
  <2> SUFFICES ASSUME NEW x \in Pending' \ stale', NEW f \in Parts
               PROVE  RequestIsCurrent(x, f)'
    BY DEF RequestsAreCurrent
  <2> USE <1>7 DEF Submit
  <2>1. PICK t \in Typing : /\ body' = [body EXCEPT ![e] = Sent(d, e, t.text, t.blank)]
                            /\ touched' = [touched EXCEPT ![e] = t.text \cup t.blank]
    OBVIOUS
  <2>2. CASE x = e /\ screen[d].item # None
    <3>1. screen[d].item \in Ids \ dirty[d] /\ into'[e] = screen[d].item
      BY <2>2
    <3>2. Item(d) = store[screen[d].item]
      BY <2>2, <3>1 DEF Item, ListsAreCurrent
    <3>3. t.text \in SUBSET Fields /\ t.blank \in SUBSET Prefilled
      BY DEF Typing
    <3>4. \A g \in Parts \ (t.text \cup t.blank) :
            Unshowable(Item(d), g) \/ Sent(d, e, t.text, t.blank)[g] = Item(d)[g]
      BY <2>2, <3>3, SentKeeps
    <3>5. body'[e] = Sent(d, e, t.text, t.blank) /\ touched'[e] = t.text \cup t.blank
      BY <2>1
    <3>6. store' = store
      OBVIOUS
    <3> QED
      BY ONLY <2>2, <3>1, <3>2, <3>4, <3>5, <3>6, f \in Parts DEF RequestIsCurrent, Unshowable
  <2>3. CASE x = e /\ screen[d].item = None
    <3>1. into'[x] = None
      BY <2>3
    <3> QED
      BY <3>1 DEF RequestIsCurrent
  <2>4. CASE x # e
    <3>1. x \in Pending \ stale /\ UNCHANGED <<body[x], into[x], touched[x], store>>
      BY <2>1, <2>4 DEF Pending
    <3> QED
      BY <1>1, <3>1
  <2> QED
    BY <2>2, <2>3, <2>4
<1>8. CASE UNCHANGED vars
  BY <1>1, <1>8 DEF vars, RequestsAreCurrent, Pending
<1> QED
  BY <1>2, <1>3, <1>4, <1>6, <1>7, <1>8 DEF Next

LEMMA RetriesStep == RecordsInv /\ [Next]_vars => RetriesFollowErrors'
<1> SUFFICES ASSUME RecordsInv, [Next]_vars PROVE RetriesFollowErrors'
  OBVIOUS
<1> USE SpecialValues DEF RecordsInv, TypeOK, FormType, EditType, Screens, edits, GivenUp
<1>1. ASSUME NEW d \in Devices,
             Refresh(d) \/ UnlockNotes(d) \/ \E i \in Ids \cup {None} : OpenForm(d, i)
      PROVE  RetriesFollowErrors'
  <2>1. CASE Refresh(d)
    BY <2>1 DEF Refresh, RenderList, List, RetriesFollowErrors
  <2>2. CASE UnlockNotes(d)
    BY <2>2 DEF UnlockNotes, RetriesFollowErrors
  <2>3. ASSUME NEW i \in Ids \cup {None}, OpenForm(d, i)
        PROVE  RetriesFollowErrors'
    BY <2>3 DEF OpenForm, Form, RetriesFollowErrors
  <2> QED
    BY <1>1, <2>1, <2>2, <2>3
<1>2. ASSUME NEW d \in Devices, NEW e \in Edits, Submit(d, e)
      PROVE  RetriesFollowErrors'
  <2> USE <1>2 DEF Submit
  <2>1. /\ \A x \in Devices \ {d} : screen'[x] = screen[x]
        /\ screen'[d].wait = e /\ screen'[d].last \in {e, None}
    OBVIOUS
  <2>2. \A x \in Edits : status[x] \in GivenUp => status'[x] \in GivenUp
    OBVIOUS
  <2>3. screen[d].last # None => status[screen[d].last] \in GivenUp
    BY DEF MaySubmit, RetriesFollowErrors
  <2> QED
    BY <2>1, <2>2, <2>3 DEF RetriesFollowErrors
<1>3. ASSUME NEW e \in Edits, Update(e) \/ \E i \in Ids : Create(e, i)
      PROVE  RetriesFollowErrors'
  <2>1. UNCHANGED <<screen, retryOf>>
        /\ \A x \in Edits : status[x] \in GivenUp => status'[x] \in GivenUp
    BY <1>3 DEF Update, Create, Write
  <2> QED
    BY <2>1 DEF RetriesFollowErrors
<1>4. ASSUME NEW e \in Edits, Saved(e)
      PROVE  RetriesFollowErrors'
  <2>1. by[e] \in Devices
    BY <1>4 DEF Saved, SubmitsAreSound
  <2>2. \A x \in Edits : status[x] \in GivenUp => status'[x] \in GivenUp
    BY <1>4 DEF Saved
  <2> QED
    BY <1>4, <2>1, <2>2 DEF Saved, RenderList, List, RetriesFollowErrors
<1>5. ASSUME NEW e \in Edits, SaveFails(e)
      PROVE  RetriesFollowErrors'
  <2>1. status'[e] \in GivenUp /\ \A x \in Edits \ {e} : status'[x] = status[x]
    BY <1>5 DEF SaveFails
  <2>2. by[e] \in Devices /\ retryOf' = retryOf
    BY <1>5 DEF SaveFails, SubmitsAreSound
  <2>3. \A x \in Devices : /\ screen'[x].last = screen[x].last
                           /\ screen'[x].wait = screen[x].wait \/ screen[x].wait = e
    BY <1>5, <2>2 DEF SaveFails, Enable
  <2> QED
    BY <2>1, <2>2, <2>3 DEF RetriesFollowErrors
<1>6. CASE UNCHANGED vars
  BY <1>6 DEF vars, RetriesFollowErrors
<1> QED
  BY <1>1, <1>2, <1>3, <1>4, <1>5, <1>6 DEF Next

LEMMA InductiveStep == RecordsInv /\ [Next]_vars => RecordsInv'
  BY TypeStep, HomeStep, SoundStep, ListsStep, RequestsStep, RetriesStep DEF RecordsInv

LEMMA Invariance == Spec => []RecordsInv
  BY InitInv, InductiveStep, PTL DEF Spec

-----------------------------------------------------------------------------
(* For any devices, items and edits: the types, and that a form waits for  *)
(* a submit of its own device that has not ended (edit-ui.ts:195-211).     *)
THEOREM TypeCorrect == Spec => []TypeOK
<1>1. RecordsInv => TypeOK
  BY DEF RecordsInv
<1> QED
  BY <1>1, Invariance, PTL

(* edit.ts:55-76, main.ts:232-246: no save mixes two items or two fields.  *)
THEOREM ValuesStayHome == Spec => []FieldsStayHome
<1>1. RecordsInv => FieldsStayHome
  BY DEF RecordsInv, EverythingIsHome, HomeCipher, FieldsStayHome
<1> QED
  BY <1>1, Invariance, PTL

(* edit-ui.ts:195-211: a form creates a second item only after an error.   *)
THEOREM DuplicatesFollowErrors == Spec => []NoSilentDuplicate
<1>1. RecordsInv => NoSilentDuplicate
  <2> SUFFICES ASSUME RecordsInv, NEW e \in Edits, retryOf[e] # None,
                      created[retryOf[e]] # {}
               PROVE  status[retryOf[e]] = "failed"
    BY DEF NoSilentDuplicate
  <2>1. retryOf[e] \in Edits /\ status[retryOf[e]] \in GivenUp
    BY DEF RecordsInv, TypeOK, EditType, RetriesFollowErrors
  <2>2. status[retryOf[e]] \in {"applied", "done", "failed"}
    BY <2>1 DEF RecordsInv, SubmitsAreSound
  <2> QED
    BY <2>1, <2>2 DEF GivenUp
<1> QED
  BY <1>1, Invariance, PTL

(* edit.ts:50-53, edit-ui.ts:107-137: a save leaves every field alone that *)
(* the user did not touch, unless the form could not show it or was opened *)
(* from a list that another write has made out of date.                    *)
THEOREM SavesTouchOnlyWhatChanged == Spec => UntouchedFieldsSurvive
<1> DEFINE Kept(i, f) ==
      (store[i] # None /\ store'[i][f] # store[i][f]) =>
        \/ Unshowable(store[i], f)
        \/ \E e \in Edits :
             /\ status[e] # status'[e] /\ into[e] = i
             /\ f \in touched[e] \/ e \in stale
<1>1. ASSUME RecordsInv, Next, NEW i \in Ids, NEW f \in Parts PROVE Kept(i, f)
  <2> USE <1>1
  <2>1. ASSUME store'[i] = store[i] PROVE Kept(i, f)
    BY <2>1
  <2>2. ASSUME NEW e \in Edits, Update(e) PROVE Kept(i, f)
    <3>1. /\ store' = [store EXCEPT ![into[e]] = body[e]] /\ into[e] \in Ids
          /\ status[e] # status'[e] /\ e \in Pending
      BY <2>2 DEF Update, Write, Pending, RecordsInv, TypeOK, EditType
    <3>2. CASE into[e] = i /\ store[i] # None /\ e \notin stale /\ f \notin touched[e]
      <4>1. Unshowable(store[i], f) \/ body[e][f] = store[i][f]
        BY <3>1, <3>2, SpecialValues DEF RecordsInv, RequestsAreCurrent, RequestIsCurrent
      <4>2. store'[i] = body[e]
        BY <3>1, <3>2 DEF RecordsInv, TypeOK, VaultType
      <4> QED
        BY <4>1, <4>2
    <3>3. CASE into[e] = i /\ (e \in stale \/ f \in touched[e])
      BY <3>1, <3>3
    <3>4. CASE into[e] # i
      BY <3>1, <3>4, <2>1
    <3> QED
      BY <3>2, <3>3, <3>4
  <2>3. ASSUME NEW e \in Edits, NEW j \in Ids, Create(e, j) PROVE Kept(i, f)
    BY <2>1, <2>3 DEF Create, Write
  <2>4. ASSUME UNCHANGED store PROVE Kept(i, f)
    BY <2>1, <2>4
  <2> HIDE DEF Kept
  <2>5. ASSUME NEW e \in Edits, Saved(e) \/ SaveFails(e) PROVE Kept(i, f)
    BY <2>4, <2>5 DEF Saved, SaveFails
  <2>6. ASSUME NEW d \in Devices,
               \/ Refresh(d) \/ UnlockNotes(d) \/ \E x \in Ids \cup {None} : OpenForm(d, x)
               \/ \E e \in Edits : Submit(d, e)
        PROVE  Kept(i, f)
    BY <2>4, <2>6 DEF Refresh, UnlockNotes, OpenForm, Submit
  <2> QED
    BY <2>2, <2>3, <2>5, <2>6 DEF Next
<1>2. RecordsInv /\ [Next]_vars => [\A i \in Ids, f \in Parts : Kept(i, f)]_vars
  BY <1>1
<1> QED
  BY <1>2, Invariance, PTL DEF Spec, UntouchedFieldsSurvive
=============================================================================
