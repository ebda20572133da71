--------------------------- MODULE SessionProofs ---------------------------
(* Theorems about Session, for any number of unlocks and operations.       *)
EXTENDS Session, TLAPS

USE NoneIsNothingElse, UnlocksAreNotOps, ThinBackendIsBoolean

-----------------------------------------------------------------------------
(* How a screen and an operation are put together.                         *)
LEMMA ScreenIsTyped ==
  ASSUME NEW kind \in Forms \cup VaultScreens \cup {"loading"},
         NEW key \in Unlocks \cup {None},
         kind \in VaultScreens <=> key # None, key \in wasHeld' \cup {None},
         screen' = Screen(kind, key)
  PROVE  ScreenType'
  BY DEF ScreenType, Screen

LEMMA SameScreenIsTyped ==
  ASSUME ScreenType, wasHeld \subseteq wasHeld', NEW by \in Unlocks \cup Ops \cup {None},
         screen' = screen \/ screen' = [screen EXCEPT !.by = by]
  PROVE  ScreenType'
  BY DEF ScreenType

LEMMA OneOpIsTyped ==
  ASSUME OpType, wasHeld \subseteq wasHeld', NEW o \in Ops, NEW r \in Operation,
         r.at # "free" => r.kind # "none" /\ r.key # None, r.key \in wasHeld' \cup {None},
         op' = [op EXCEPT ![o] = r]
  PROVE  OpType'
  BY DEF OpType

LEMMA NoOpIsTyped ==
  /\ NoOp \in Operation
  /\ NoOp.at = "free" /\ NoOp.key = None /\ NoOp.bytes = "intact"
  BY DEF NoOp, Operation, Bytes

LEMMA BegunOpIsTyped ==
  ASSUME NEW kind \in {"refresh", "save", "change"}, NEW key \in Unlocks \cup {None},
         NEW at \in {"encrypt", "answer"}, NEW t \in Unlocks \cup {None}, NEW b \in Bytes
  PROVE  [kind |-> kind, key |-> key, at |-> at, token |-> t, bytes |-> b] \in Operation
  BY DEF Operation

LEMMA RefreshingOpIsTyped ==
  ASSUME NEW p \in Operation, NEW t \in Unlocks \cup {None}
  PROVE  LET r == [p EXCEPT !.kind = "refresh", !.token = t]
         IN  r \in Operation /\ r.kind # "none" /\ r.key = p.key
  BY DEF Operation

LEMMA FreedOpIsTyped ==
  ASSUME OpType, wasHeld \subseteq wasHeld', NEW o \in Ops, op' = [op EXCEPT ![o] = NoOp]
  PROVE  OpType'
  BY OneOpIsTyped, NoOpIsTyped

LEMMA LockTypes ==
  ASSUME TypeOK, LockNow, wasHeld' = wasHeld
  PROVE  /\ keyState' \in [Unlocks -> {"unborn", "live", "wiped"}]
         /\ held' = None /\ timer' = FALSE /\ session' = FALSE /\ token' = None
         /\ provisions' \in Nat
         /\ ScreenType'
<1>1. ScreenType'
  BY ScreenIsTyped DEF LockNow, UnlockScreen, Forms, VaultScreens
<1> QED
  BY <1>1 DEF TypeOK, LockNow, WipeHeld, TokenAfterLock

(* The types.  A screen only ever takes over the key of an earlier screen, *)
(* of an operation, or of the unlock that is being held.                   *)
LEMMA TypeStep == TypeOK /\ [Next]_vars => TypeOK'
<1> SUFFICES ASSUME TypeOK, [Next]_vars PROVE TypeOK'
  OBVIOUS
<1> USE DEF Forms, VaultScreens, Pending
<1>a. ASSUME OpType, UNCHANGED <<op, wasHeld>>
      PROVE  OpType'
  BY <1>a DEF OpType
<1>b. ASSUME ScreenType, UNCHANGED <<screen, wasHeld>>
      PROVE  ScreenType'
  BY <1>b DEF ScreenType
<1>c. ScreenType /\ OpType
  BY DEF TypeOK
<1>1. CASE TimerFires \/ LockButton
  BY <1>1, <1>a, LockTypes DEF TypeOK, TimerFires, LockButton
<1>2. CASE OpenItem \/ OpenChange
  <2>1. ScreenType'
    BY <1>2, <1>c, ScreenIsTyped DEF OpenItem, OpenChange, ScreenType
  <2> QED
    BY <1>2, <1>a, <2>1 DEF TypeOK, OpenItem, OpenChange
<1>3. CASE Leave \/ ProvisionRejects
  <2>1. ScreenType' /\ OpType'
    BY <1>3, <1>a, <1>b, <1>c DEF Leave, ProvisionRejects, client
  <2>2. CASE Leave
    BY <2>1, <2>2 DEF TypeOK, Leave, client
  <2>3. CASE ProvisionRejects
    BY <2>1, <2>3 DEF TypeOK, ProvisionRejects
  <2> QED
    BY <1>3, <2>2, <2>3
<1>4. ASSUME NEW f \in Forms, ProvisionDone(f)
      PROVE  TypeOK'
  <2>1. ScreenType'
    BY <1>4, ScreenIsTyped DEF ProvisionDone
  <2> QED
    BY <1>4, <1>a, <2>1 DEF TypeOK, ProvisionDone
<1>5. ASSUME NEW u \in Unlocks, SubmitUnlock(u)
      PROVE  TypeOK'
  <2>1. ScreenType'
    BY <1>5, <1>c, SameScreenIsTyped DEF SubmitUnlock
  <2> QED
    BY <1>5, <1>a, <2>1 DEF TypeOK, SubmitUnlock
<1>6. ASSUME NEW u \in Unlocks, LoginDone(u) \/ Unwrap(u)
      PROVE  TypeOK'
  BY <1>6, <1>a, <1>b DEF TypeOK, LoginDone, Unwrap
<1>7. ASSUME NEW u \in Unlocks, UnlockDone(u)
      PROVE  TypeOK'
  <2>1. /\ screen' = Screen("list", u) /\ wasHeld' = wasHeld \cup {u}
        /\ held' = u /\ timer' = TRUE /\ op' = op
    BY <1>7 DEF UnlockDone, HeldAfter, ArmedByHold
  <2>2. ScreenType' /\ OpType'
    BY <1>c, <2>1, ScreenIsTyped DEF OpType
  <2> QED
    BY <1>7, <2>1, <2>2 DEF TypeOK, UnlockDone
<1>8. ASSUME NEW u \in Unlocks, UnlockFails(u)
      PROVE  TypeOK'
  <2>1. ScreenType'
    BY <1>8, <1>c, ScreenIsTyped, SameScreenIsTyped DEF UnlockFails, EnabledAgain
  <2> QED
    BY <1>8, <1>a, <2>1 DEF TypeOK, UnlockFails
<1>9. ASSUME NEW o \in Ops, NEW kind \in {"refresh", "save", "change"},
             NEW at \in {"encrypt", "answer"}, Begin(o, kind, at),
             wasHeld' = wasHeld, screen.key # None
      PROVE  OpType'
  <2> DEFINE copied == IF Wiped(screen.key) THEN "zeroed" ELSE "intact"
             r == [kind |-> kind, key |-> screen.key, at |-> at, token |-> token,
                   bytes |-> copied]
  <2>0. copied \in Bytes
    BY DEF Bytes
  <2> HIDE DEF copied
  <2>1. /\ r \in Operation /\ r.kind # "none" /\ r.key # None
        /\ r.key \in wasHeld' \cup {None}
    BY <1>9, <1>c, <2>0, BegunOpIsTyped DEF ScreenType, TypeOK
  <2>2. op' = [op EXCEPT ![o] = r]
    BY <1>9 DEF Begin, copied
  <2> QED
    BY <1>9, <1>c, <2>1, <2>2, OneOpIsTyped
<1>10. ASSUME NEW o \in Ops, Cancel(o)
       PROVE  TypeOK'
  BY <1>9, <1>10, <1>b DEF TypeOK, ScreenType, Cancel
<1>11. ASSUME NEW o \in Ops, Submit(o)
       PROVE  TypeOK'
  <2>1. OpType'
    BY <1>9, <1>11, <1>c DEF Submit, ScreenType
  <2>2. ScreenType'
    BY <1>11, <1>c, SameScreenIsTyped DEF Submit
  <2> QED
    BY <1>11, <2>1, <2>2 DEF TypeOK, Submit
<1>12. ASSUME NEW o \in Ops, NEW bytes \in Bytes, Send(o, bytes)
       PROVE  TypeOK'
  <2> DEFINE r == [op[o] EXCEPT !.at = "answer", !.token = token, !.bytes = bytes]
  <2>1. op' = [op EXCEPT ![o] = r] /\ op[o].at # "free"
    BY <1>12, <1>c DEF Send, OpType
  <2>2. r \in Operation /\ r.kind = op[o].kind /\ r.key = op[o].key
    <3>1. op[o] \in Operation /\ token \in Unlocks \cup {None} /\ bytes \in Bytes
      BY <1>12, <1>c DEF OpType, TypeOK
    <3> QED
      BY <3>1 DEF Operation
  <2>3. OpType'
    BY <1>12, <1>c, <2>1, <2>2, OneOpIsTyped DEF OpType, Send
  <2> QED
    BY <1>12, <1>b, <2>3 DEF TypeOK, Send
<1>13. ASSUME NEW o \in Ops, op[o].kind \in {"save", "change"}
       PROVE  Accepted(o) \subseteq [kind : {"save", "change"}, bytes : Bytes, own : BOOLEAN]
  <2> DEFINE own == op[o].token = op[o].key
  <2>1. own \in BOOLEAN
    OBVIOUS
  <2> HIDE DEF own
  <2>2. [kind |-> op[o].kind, bytes |-> op[o].bytes, own |-> own]
           \in [kind : {"save", "change"}, bytes : Bytes, own : BOOLEAN]
    BY <1>13, <1>c, <2>1 DEF OpType, Operation
  <2> QED
    BY <2>2 DEF Accepted, TypeOK, own
<1>14. ASSUME NEW o \in Ops, SaveDone(o)
       PROVE  TypeOK'
  <2>1. CASE token = None
    <3>1. OpType' /\ ScreenType'
      BY <1>14, <1>c, <2>1, FreedOpIsTyped, SameScreenIsTyped DEF SaveDone, Enabled
    <3> QED
      BY <1>13, <1>14, <2>1, <3>1 DEF TypeOK, SaveDone
  <2>2. CASE token # None
    <3> DEFINE r == [op[o] EXCEPT !.kind = "refresh", !.token = token]
    <3>1. op' = [op EXCEPT ![o] = r] /\ op[o].at # "free"
      BY <1>14, <1>c, <2>2 DEF SaveDone, OpType
    <3>2. r \in Operation /\ r.kind # "none" /\ r.key = op[o].key
      BY <1>c, RefreshingOpIsTyped DEF OpType, TypeOK
    <3>3. OpType'
      BY <1>14, <1>c, <3>1, <3>2, OneOpIsTyped DEF OpType, SaveDone
    <3>4. screen' = screen /\ stored' = Accepted(o)
      BY <1>14, <2>2 DEF SaveDone
    <3> QED
      BY <1>b, <1>13, <1>14, <3>3, <3>4 DEF TypeOK, SaveDone
  <2> QED
    BY <2>1, <2>2
<1>15. ASSUME NEW o \in Ops, RefreshDone(o)
       PROVE  TypeOK'
  <2>1. OpType'
    BY <1>15, <1>c, FreedOpIsTyped DEF RefreshDone
  <2>2. ScreenType'
    BY <1>15, <1>c, ScreenIsTyped DEF RefreshDone, OpType, Operation
  <2> QED
    BY <1>15, <2>1, <2>2 DEF TypeOK, RefreshDone
<1>16. ASSUME NEW o \in Ops, ChangeApplied(o), wasHeld' = wasHeld
       PROVE  OpType' /\ stored' = Accepted(o) /\ revoked' \subseteq Unlocks
  BY <1>16, <1>c, FreedOpIsTyped DEF ChangeApplied, Issued
<1>17. ASSUME NEW o \in Ops, ChangeDone(o)
       PROVE  TypeOK'
  <2>1. LockNow /\ ChangeApplied(o) /\ UNCHANGED <<unlocking, form, wasHeld, away>>
    BY <1>17 DEF ChangeDone
  <2> QED
    BY <1>13, <1>16, <2>1, LockTypes DEF TypeOK, ChangeApplied
<1>18. ASSUME NEW o \in Ops, ChangeAnswerLost(o)
       PROVE  TypeOK'
  <2>1. ScreenType'
    BY <1>18, <1>c, SameScreenIsTyped DEF ChangeAnswerLost, Enabled
  <2> QED
    BY <1>13, <1>16, <1>18, <2>1 DEF TypeOK, ChangeAnswerLost, ChangeApplied
<1>19. ASSUME NEW o \in Ops, OpFails(o)
       PROVE  TypeOK'
  <2>1. ScreenType' /\ OpType'
    BY <1>19, <1>c, SameScreenIsTyped, FreedOpIsTyped DEF OpFails, Enabled
  <2> QED
    BY <1>19, <2>1 DEF TypeOK, OpFails
<1>20. CASE UNCHANGED vars
  BY <1>20, <1>a, <1>b DEF TypeOK, vars, client
<1> QED
  BY <1>1, <1>2, <1>3, <1>4, <1>5, <1>6, <1>7, <1>8, <1>10, <1>11, <1>12,
     <1>14, <1>15, <1>17, <1>18, <1>19, <1>20
  DEF Next

(* Every behaviour of Session is well typed.                               *)
THEOREM TypeCorrect == Spec => []TypeOK
<1>1. Init => TypeOK
  <2> SUFFICES ASSUME Init PROVE TypeOK
    OBVIOUS
  <2>1. screen = UnlockScreen /\ wasHeld = {}
    BY DEF Init
  <2>2. ScreenType
    BY <2>1 DEF ScreenType, UnlockScreen, Screen, Forms, VaultScreens
  <2>3. OpType
    BY NoOpIsTyped DEF Init, OpType
  <2> QED
    BY <2>2, <2>3 DEF Init, TypeOK, Pending
<1> QED
  BY <1>1, TypeStep, PTL DEF Spec

-----------------------------------------------------------------------------
(* The strengthening.  An unlock's key object is unborn until it is        *)
(* unwrapped and live until it is held; only a held key is ever zeroed,    *)
(* and in the same step the token is dropped.  Hence the token never names *)
(* a zeroed key, whereas bytes copied from a zeroed object belong to a key *)
(* that stays zeroed.                                                      *)
KeysInv ==
  /\ \A u \in Unlocks :
       /\ unlocking[u] \in {"unused", "login", "unwrap"} => keyState[u] = "unborn"
       /\ unlocking[u] = "sync" => keyState[u] = "live"
  /\ held # None => unlocking[held] = "done"
  /\ token # None => ~Wiped(token)

RequestsInv ==
  \A o \in Ops : op[o].bytes # "intact" =>
    /\ op[o].key # None /\ Wiped(op[o].key)
    /\ op[o].at = "answer" => op[o].token # op[o].key

SessionInv ==
  /\ KeysInv
  /\ RequestsInv
  /\ UnlockedIsTimed
  /\ SubmitIsAnswered
  /\ OwnSessionWritesIntact

(* lock() keeps all of it: the held key is zeroed and the token dropped.   *)
LEMMA LockKeeps ==
  ASSUME TypeOK, KeysInv, LockNow, unlocking' = unlocking
  PROVE  /\ KeysInv'
         /\ UnlockedIsTimed'
         /\ screen'.by = None
         /\ \A u \in Unlocks : Wiped(u) => Wiped(u)'
<1> USE DEF Wiped
<1>1. screen'.by = None
  BY DEF LockNow, UnlockScreen, Screen
<1>2. UnlockedIsTimed' /\ \A u \in Unlocks : Wiped(u) => Wiped(u)'
  BY DEF LockNow, UnlockedIsTimed, WipeHeld, TypeOK
<1>3. KeysInv'
  BY DEF LockNow, KeysInv, WipeHeld, TokenAfterLock, TypeOK
<1> QED
  BY <1>1, <1>2, <1>3

LEMMA KeysStep == TypeOK /\ SessionInv /\ [Next]_vars => KeysInv' /\ UnlockedIsTimed'
<1> SUFFICES ASSUME TypeOK, SessionInv, [Next]_vars PROVE KeysInv' /\ UnlockedIsTimed'
  OBVIOUS
<1> USE DEF SessionInv, KeysInv, UnlockedIsTimed, Wiped
<1>1. ASSUME LockNow, unlocking' = unlocking
      PROVE  KeysInv' /\ UnlockedIsTimed'
  BY <1>1, LockKeeps
<1>2. ASSUME UNCHANGED <<keyState, held, timer, session, token, unlocking>>
      PROVE  KeysInv' /\ UnlockedIsTimed'
  BY <1>2
<1>3. ASSUME NEW u \in Unlocks, SubmitUnlock(u)
      PROVE  KeysInv' /\ UnlockedIsTimed'
  BY <1>3 DEF SubmitUnlock, TypeOK, Pending
<1>4. ASSUME NEW u \in Unlocks, LoginDone(u)
      PROVE  KeysInv' /\ UnlockedIsTimed'
  BY <1>4 DEF LoginDone, TypeOK, Pending
<1>5. ASSUME NEW u \in Unlocks, Unwrap(u)
      PROVE  KeysInv' /\ UnlockedIsTimed'
  BY <1>5 DEF Unwrap, TypeOK, Pending
<1>6. ASSUME NEW u \in Unlocks, UnlockDone(u)
      PROVE  KeysInv' /\ UnlockedIsTimed'
  BY <1>6 DEF UnlockDone, HeldAfter, ArmedByHold, TypeOK, Pending
<1>7. ASSUME NEW u \in Unlocks, UnlockFails(u)
      PROVE  KeysInv' /\ UnlockedIsTimed'
  BY <1>7 DEF UnlockFails, TypeOK, Pending
<1> QED
  BY <1>1, <1>2, <1>3, <1>4, <1>5, <1>6, <1>7
  DEF Next, TimerFires, LockButton, OpenItem, OpenChange, Leave, ProvisionRejects,
      ProvisionDone, Cancel, Submit, Send, SaveDone, RefreshDone, ChangeDone,
      ChangeAnswerLost, OpFails, vars, client

(* A zeroed key stays zeroed.                                              *)
LEMMA WipedForGood ==
  TypeOK /\ KeysInv /\ [Next]_vars => \A u \in Unlocks : Wiped(u) => Wiped(u)'
<1> SUFFICES ASSUME TypeOK, KeysInv, [Next]_vars, NEW u \in Unlocks, Wiped(u)
             PROVE  Wiped(u)'
  OBVIOUS
<1> USE DEF Wiped
<1>1. CASE LockNow
  BY <1>1 DEF LockNow, WipeHeld, TypeOK
<1>2. ASSUME NEW v \in Unlocks, Unwrap(v) \/ UnlockFails(v)
      PROVE  Wiped(u)'
  BY <1>2 DEF Unwrap, UnlockFails, KeysInv, TypeOK
<1>3. CASE UNCHANGED keyState
  BY <1>3
<1> QED
  BY <1>1, <1>2, <1>3
  DEF Next, TimerFires, LockButton, OpenItem, OpenChange, Leave, ProvisionRejects,
      ProvisionDone, SubmitUnlock, LoginDone, UnlockDone, Cancel, Submit, Send,
      SaveDone, RefreshDone, ChangeDone, ChangeAnswerLost, OpFails, vars, client

(* One operation changes and keeps the invariant, no key is revived.       *)
LEMMA OneRequest ==
  ASSUME TypeOK, RequestsInv, NEW o \in Ops, NEW r,
         \A u \in Unlocks : Wiped(u) => Wiped(u)',
         r.bytes # "intact" => /\ r.key \in Unlocks /\ Wiped(r.key)
                               /\ r.at = "answer" => r.token # r.key,
         op' = [op EXCEPT ![o] = r]
  PROVE  RequestsInv'
<1> SUFFICES ASSUME NEW p \in Ops, op'[p].bytes # "intact"
             PROVE  /\ op'[p].key # None /\ keyState'[op'[p].key] = "wiped"
                    /\ op'[p].at = "answer" => op'[p].token # op'[p].key
  BY DEF RequestsInv, Wiped
<1> USE DEF Wiped
<1>1. CASE p = o
  <2>1. op'[p] = r
    BY <1>1 DEF TypeOK, OpType
  <2> QED
    BY <2>1
<1>2. CASE p # o
  <2>1. op'[p] = op[p] /\ op[p].key \in Unlocks \cup {None}
    BY <1>2 DEF TypeOK, OpType, Operation
  <2> QED
    BY <2>1 DEF RequestsInv
<1> QED
  BY <1>1, <1>2

LEMMA RequestsStep == TypeOK /\ SessionInv /\ [Next]_vars => RequestsInv'
<1> SUFFICES ASSUME TypeOK, SessionInv, [Next]_vars PROVE RequestsInv'
  OBVIOUS
<1>a. \A u \in Unlocks : Wiped(u) => Wiped(u)'
  BY WipedForGood DEF SessionInv
<1>b. /\ RequestsInv
      /\ token # None => ~Wiped(token)
      /\ \A o \in Ops : op[o] \in Operation
      /\ screen.key \in Unlocks \cup {None}
      /\ screen.kind \in VaultScreens => screen.key # None
  BY DEF SessionInv, KeysInv, TypeOK, OpType, ScreenType
<1>c. ASSUME NEW o \in Ops, op' = [op EXCEPT ![o] = NoOp]
      PROVE  RequestsInv'
  BY <1>a, <1>b, <1>c, NoOpIsTyped, OneRequest
<1>1. CASE UNCHANGED op
  BY <1>1, <1>a, <1>b DEF RequestsInv, Operation
<1>2. ASSUME NEW o \in Ops, NEW kind, NEW at \in {"encrypt", "answer"}, Begin(o, kind, at),
             screen.kind \in VaultScreens, at = "answer" => token # None
      PROVE  RequestsInv'
  <2> DEFINE r == [kind |-> kind, key |-> screen.key, at |-> at, token |-> token,
                   bytes |-> IF Wiped(screen.key) THEN "zeroed" ELSE "intact"]
  <2>1. op' = [op EXCEPT ![o] = r]
    BY <1>2 DEF Begin
  <2>2. r.bytes # "intact" => /\ r.key \in Unlocks /\ Wiped(r.key)
                              /\ r.at = "answer" => r.token # r.key
    BY <1>2, <1>b
  <2> QED
    BY <1>a, <1>b, <2>1, <2>2, OneRequest
<1>3. ASSUME NEW o \in Ops, Cancel(o) \/ Submit(o)
      PROVE  RequestsInv'
  BY <1>2, <1>3 DEF Cancel, Submit, VaultScreens
<1>4. ASSUME NEW o \in Ops, NEW bytes \in Bytes, Send(o, bytes)
      PROVE  RequestsInv'
  <2> DEFINE r == [op[o] EXCEPT !.at = "answer", !.token = token, !.bytes = bytes]
  <2>1. /\ op' = [op EXCEPT ![o] = r] /\ token # None
        /\ bytes = op[o].bytes \/ (bytes = "torn" /\ Wiped(op[o].key))
        /\ op[o].key # None
    BY <1>4 DEF Send, TypeOK, OpType
  <2>2. r.bytes = bytes /\ r.key = op[o].key /\ r.token = token
    BY <1>b DEF Operation
  <2>3. r.bytes # "intact" => r.key \in Unlocks /\ Wiped(r.key)
    BY <1>b, <2>1, <2>2 DEF RequestsInv, Operation
  <2> QED
    BY <1>a, <1>b, <2>1, <2>2, <2>3, OneRequest
<1>5. ASSUME NEW o \in Ops, SaveDone(o)
      PROVE  RequestsInv'
  <2>1. CASE token = None
    BY <1>5, <1>c, <2>1 DEF SaveDone
  <2>2. CASE token # None
    <3> DEFINE r == [op[o] EXCEPT !.kind = "refresh", !.token = token]
    <3>1. op' = [op EXCEPT ![o] = r]
      BY <1>5, <2>2 DEF SaveDone
    <3>2. r.bytes = op[o].bytes /\ r.key = op[o].key /\ r.token = token
      BY <1>b DEF Operation
    <3>3. r.bytes # "intact" => r.key \in Unlocks /\ Wiped(r.key)
      BY <1>b, <3>2 DEF RequestsInv, Operation
    <3> QED
      BY <1>a, <1>b, <2>2, <3>1, <3>2, <3>3, OneRequest
  <2> QED
    BY <2>1, <2>2
<1>6. ASSUME NEW o \in Ops,
             RefreshDone(o) \/ ChangeDone(o) \/ ChangeAnswerLost(o) \/ OpFails(o)
      PROVE  RequestsInv'
  BY <1>c, <1>6 DEF RefreshDone, ChangeDone, ChangeAnswerLost, ChangeApplied, OpFails
<1> QED
  BY <1>1, <1>3, <1>4, <1>5, <1>6
  DEF Next, TimerFires, LockButton, OpenItem, OpenChange, Leave, ProvisionRejects,
      ProvisionDone, SubmitUnlock, LoginDone, Unwrap, UnlockDone, UnlockFails, vars, client

LEMMA WritesStep == TypeOK /\ SessionInv /\ [Next]_vars => OwnSessionWritesIntact'
<1> SUFFICES ASSUME TypeOK, SessionInv, [Next]_vars PROVE OwnSessionWritesIntact'
  OBVIOUS
<1>1. CASE UNCHANGED stored
  BY <1>1 DEF SessionInv, OwnSessionWritesIntact
<1>2. ASSUME NEW o \in Ops, op[o].at = "answer", stored' = Accepted(o)
      PROVE  OwnSessionWritesIntact'
  <2> DEFINE w == [kind |-> op[o].kind, bytes |-> op[o].bytes,
                   own |-> (op[o].token = op[o].key)]
  <2>1. stored' = stored \cup {w}
    BY <1>2 DEF Accepted
  <2>2. w.own => w.bytes = "intact"
    BY <1>2 DEF SessionInv, RequestsInv
  <2> QED
    BY <2>1, <2>2 DEF SessionInv, OwnSessionWritesIntact
<1>3. ASSUME NEW o \in Ops, SaveDone(o) \/ ChangeDone(o) \/ ChangeAnswerLost(o)
      PROVE  OwnSessionWritesIntact'
  BY <1>2, <1>3 DEF SaveDone, ChangeDone, ChangeAnswerLost, ChangeApplied
<1> QED
  BY <1>1, <1>3
  DEF Next, TimerFires, LockButton, OpenItem, OpenChange, Leave, ProvisionRejects,
      ProvisionDone, SubmitUnlock, LoginDone, Unwrap, UnlockDone, UnlockFails, Cancel,
      Submit, Send, RefreshDone, OpFails, vars, client

(* The pending submit of a form is answered before its call ends.          *)
LEMMA SubmitStep == TypeOK /\ SessionInv /\ [Next]_vars => SubmitIsAnswered'
<1> SUFFICES ASSUME TypeOK, SessionInv, [Next]_vars PROVE SubmitIsAnswered'
  OBVIOUS
<1> USE DEF SubmitIsAnswered, Pending
<1>a. SubmitIsAnswered /\ screen.by \in Unlocks \cup Ops \cup {None}
  BY DEF SessionInv, TypeOK, ScreenType
<1>b. ASSUME screen'.by = None
      PROVE  SubmitIsAnswered'
  BY <1>b
<1>c. ASSUME NEW o \in Ops, op' = [op EXCEPT ![o] = NoOp], screen' = Enabled(o),
             unlocking' = unlocking
      PROVE  SubmitIsAnswered'
  <2>1. CASE screen.by = o
    <3>1. screen'.by = None
      BY <1>c, <2>1 DEF Enabled, TypeOK, ScreenType
    <3> QED
      BY <1>b, <3>1
  <2>2. CASE screen.by # o
    <3>1. screen' = screen /\ \A p \in Ops \ {o} : op'[p] = op[p]
      BY <1>c, <2>2 DEF Enabled
    <3> QED
      BY <1>a, <1>c, <2>2, <3>1
  <2> QED
    BY <2>1, <2>2
<1>1. CASE UNCHANGED <<screen, unlocking, op>>
  BY <1>1, <1>a
<1>2. CASE LockNow
  <2>1. screen'.by = None
    BY <1>2 DEF LockNow, UnlockScreen, Screen
  <2> QED
    BY <1>b, <2>1
<1>3. ASSUME NEW kind, NEW key, screen' = Screen(kind, key)
      PROVE  SubmitIsAnswered'
  BY <1>3, <1>b DEF Screen
<1>4. ASSUME NEW u \in Unlocks, SubmitUnlock(u)
      PROVE  SubmitIsAnswered'
  <2>1. screen'.by = u /\ unlocking'[u] = "login"
    BY <1>4 DEF SubmitUnlock, TypeOK, ScreenType
  <2> QED
    BY <2>1
<1>5. ASSUME NEW u \in Unlocks, LoginDone(u) \/ Unwrap(u)
      PROVE  SubmitIsAnswered'
  <2>1. screen' = screen /\ op' = op
    BY <1>5 DEF LoginDone, Unwrap
  <2>2. \A v \in Unlocks : unlocking[v] \in Pending => unlocking'[v] \in Pending
    BY <1>5 DEF LoginDone, Unwrap, TypeOK
  <2> QED
    BY <1>a, <2>1, <2>2
<1>6. ASSUME NEW u \in Unlocks, UnlockDone(u)
      PROVE  SubmitIsAnswered'
  BY <1>3, <1>6 DEF UnlockDone
<1>7. ASSUME NEW u \in Unlocks, UnlockFails(u)
      PROVE  SubmitIsAnswered'
  <2>1. CASE form[u] = "manual"
    BY <1>3, <1>7, <2>1 DEF UnlockFails
  <2>2. CASE form[u] # "manual" /\ screen.by = u
    <3>1. screen'.by = None
      BY <1>7, <2>2 DEF UnlockFails, EnabledAgain, TypeOK, ScreenType
    <3> QED
      BY <1>b, <3>1
  <2>3. CASE form[u] # "manual" /\ screen.by # u
    <3>1. /\ screen' = screen /\ op' = op
          /\ \A v \in Unlocks \ {u} : unlocking'[v] = unlocking[v]
      BY <1>7, <2>3 DEF UnlockFails, EnabledAgain
    <3> QED
      BY <1>a, <2>3, <3>1
  <2> QED
    BY <2>1, <2>2, <2>3
<1>8. ASSUME NEW o \in Ops, Cancel(o)
      PROVE  SubmitIsAnswered'
  <2>1. screen' = screen /\ unlocking' = unlocking
    BY <1>8 DEF Cancel
  <2>2. \A p \in Ops : op[p].at # "free" => op'[p].at # "free"
    BY <1>8 DEF Cancel, Begin, Free, TypeOK, OpType
  <2> QED
    BY <1>a, <2>1, <2>2
<1>9. ASSUME NEW o \in Ops, Submit(o)
      PROVE  SubmitIsAnswered'
  <2>1. screen'.by = o /\ op'[o].at = "encrypt"
    BY <1>9 DEF Submit, Begin, TypeOK, ScreenType, OpType
  <2> QED
    BY <2>1
<1>10. ASSUME NEW o \in Ops, NEW bytes \in Bytes, Send(o, bytes)
       PROVE  SubmitIsAnswered'
  <2>1. screen' = screen /\ unlocking' = unlocking
    BY <1>10 DEF Send
  <2>2. \A p \in Ops : op[p].at # "free" => op'[p].at # "free"
    BY <1>10 DEF Send, TypeOK, OpType, Operation
  <2> QED
    BY <1>a, <2>1, <2>2
<1>11. ASSUME NEW o \in Ops, SaveDone(o)
       PROVE  SubmitIsAnswered'
  <2>1. CASE token = None
    BY <1>11, <1>c, <2>1 DEF SaveDone
  <2>2. CASE token # None
    <3>1. screen' = screen /\ unlocking' = unlocking
      BY <1>11, <2>2 DEF SaveDone
    <3>2. \A p \in Ops : op[p].at # "free" => op'[p].at # "free"
      BY <1>11, <2>2 DEF SaveDone, TypeOK, OpType, Operation
    <3> QED
      BY <1>a, <3>1, <3>2
  <2> QED
    BY <2>1, <2>2
<1>12. ASSUME NEW o \in Ops, RefreshDone(o)
       PROVE  SubmitIsAnswered'
  BY <1>3, <1>12 DEF RefreshDone
<1>13. ASSUME NEW o \in Ops, ChangeAnswerLost(o) \/ OpFails(o)
       PROVE  SubmitIsAnswered'
  BY <1>c, <1>13 DEF ChangeAnswerLost, ChangeApplied, OpFails
<1>14. CASE OpenItem \/ OpenChange \/ \E f \in Forms : ProvisionDone(f)
  BY <1>3, <1>14 DEF OpenItem, OpenChange, ProvisionDone
<1> QED
  BY <1>1, <1>2, <1>4, <1>5, <1>6, <1>7, <1>8, <1>9, <1>10, <1>11, <1>12, <1>13, <1>14
  DEF Next, TimerFires, LockButton, Leave, ProvisionRejects, ChangeDone, vars, client

-----------------------------------------------------------------------------
LEMMA SessionInvariant == Spec => []SessionInv
<1>1. Init => SessionInv
  <2> SUFFICES ASSUME Init PROVE SessionInv
    OBVIOUS
  <2>1. KeysInv /\ UnlockedIsTimed /\ OwnSessionWritesIntact
    BY DEF Init, KeysInv, UnlockedIsTimed, OwnSessionWritesIntact, Wiped
  <2>2. RequestsInv
    BY NoOpIsTyped DEF Init, RequestsInv
  <2>3. SubmitIsAnswered
    BY DEF Init, SubmitIsAnswered, UnlockScreen, Screen
  <2> QED
    BY <2>1, <2>2, <2>3 DEF SessionInv
<1>2. TypeOK /\ SessionInv /\ [Next]_vars => SessionInv'
  BY KeysStep, RequestsStep, SubmitStep, WritesStep DEF SessionInv
<1> QED
  BY <1>1, <1>2, TypeCorrect, PTL DEF Spec

(* autolock.ts:19-47: whenever a key is held the inactivity timer runs and *)
(* the key is intact; whenever none is, no timer and no session is left.   *)
THEOREM UnlockedVaultIsTimed == Spec => []UnlockedIsTimed
<1>1. SessionInv => UnlockedIsTimed
  BY DEF SessionInv
<1> QED
  BY <1>1, SessionInvariant, PTL

(* main.ts:107-124, edit-ui.ts:195-211: no form waits for a finished call. *)
THEOREM NoFormIsStuck == Spec => []SubmitIsAnswered
<1>1. SessionInv => SubmitIsAnswered
  BY DEF SessionInv
<1> QED
  BY <1>1, SessionInvariant, PTL

(* client.ts:176-181, password-change.ts:26: within the session of its key *)
(* no write carries a zeroed key, whatever await a lock falls into.        *)
THEOREM OwnWritesAreIntact == Spec => []OwnSessionWritesIntact
<1>1. SessionInv => OwnSessionWritesIntact
  BY DEF SessionInv
<1> QED
  BY <1>1, SessionInvariant, PTL

-----------------------------------------------------------------------------
(* The refinement of KeyCustody.  What it needs besides KeysInv: a key is  *)
(* only ever given to AutoLock by the end of its own unlock.               *)
TakenOnce == \A u \in wasHeld : unlocking[u] = "done"

LEMMA TakenStep == TypeOK /\ TakenOnce /\ [Next]_vars => TakenOnce'
<1> SUFFICES ASSUME TypeOK, TakenOnce, [Next]_vars PROVE TakenOnce'
  OBVIOUS
<1>1. CASE UNCHANGED <<unlocking, wasHeld>>
  BY <1>1 DEF TakenOnce
<1>2. ASSUME NEW u \in Unlocks, wasHeld' = wasHeld,
             unlocking[u] # "done", NEW at, unlocking' = [unlocking EXCEPT ![u] = at]
      PROVE  TakenOnce'
  BY <1>2 DEF TakenOnce, TypeOK
<1>3. ASSUME NEW u \in Unlocks,
             SubmitUnlock(u) \/ LoginDone(u) \/ Unwrap(u) \/ UnlockFails(u)
      PROVE  TakenOnce'
  BY <1>2, <1>3 DEF SubmitUnlock, LoginDone, Unwrap, UnlockFails, Pending
<1>4. ASSUME NEW u \in Unlocks, UnlockDone(u)
      PROVE  TakenOnce'
  BY <1>4 DEF UnlockDone, HeldAfter, TakenOnce, TypeOK
<1> QED
  BY <1>1, <1>3, <1>4
  DEF Next, TimerFires, LockButton, OpenItem, OpenChange, Leave, ProvisionRejects,
      ProvisionDone, Cancel, Submit, Send, SaveDone, RefreshDone, ChangeDone,
      ChangeAnswerLost, OpFails, vars, client

LEMMA CustodyStep ==
  TypeOK /\ KeysInv /\ TakenOnce /\ [Next]_vars => [Custody!Next]_(Custody!vars)
<1> SUFFICES ASSUME TypeOK, KeysInv, TakenOnce, [Next]_vars
             PROVE  [Custody!Next]_(Custody!vars)
  OBVIOUS
<1>1. CASE UNCHANGED <<keyState, held, wasHeld, token>>
  BY <1>1 DEF Custody!vars
<1>2. CASE LockNow /\ wasHeld' = wasHeld
  <2>1. Custody!Lock
    BY <1>2 DEF LockNow, WipeHeld, TokenAfterLock, Custody!Lock
  <2> QED
    BY <2>1 DEF Custody!Next
<1>3. ASSUME NEW u \in Unlocks, LoginDone(u)
      PROVE  Custody!Login(u)
  BY <1>3 DEF LoginDone, KeysInv, Custody!Login
<1>4. ASSUME NEW u \in Unlocks, unlocking[u] = "unwrap",
             keyState' = [keyState EXCEPT ![u] = "live"], UNCHANGED <<held, wasHeld, token>>
      PROVE  Custody!Unwrap(u)
  BY <1>4 DEF KeysInv, Custody!Unwrap
<1>5. ASSUME NEW u \in Unlocks, UnlockDone(u)
      PROVE  Custody!Take(u)
  <2>1. held' = u /\ wasHeld' = wasHeld \cup {u}
    BY <1>5, NoneIsNothingElse DEF UnlockDone, HeldAfter
  <2> QED
    BY <1>5, <2>1 DEF UnlockDone, KeysInv, TakenOnce, Custody!Take
<1>6. ASSUME NEW u \in Unlocks, Unwrap(u) \/ UnlockFails(u)
      PROVE  UNCHANGED <<keyState, held, wasHeld, token>> \/ Custody!Unwrap(u)
  BY <1>4, <1>6 DEF Unwrap, UnlockFails
<1>7. ASSUME NEW u \in Unlocks,
             LoginDone(u) \/ Unwrap(u) \/ UnlockDone(u) \/ UnlockFails(u)
      PROVE  [Custody!Next]_(Custody!vars)
  BY <1>1, <1>3, <1>5, <1>6, <1>7 DEF Custody!Next
<1> QED
  BY <1>1, <1>2, <1>7
  DEF Next, TimerFires, LockButton, OpenItem, OpenChange, Leave, ProvisionRejects,
      ProvisionDone, SubmitUnlock, Cancel, Submit, Send, SaveDone, RefreshDone,
      ChangeDone, ChangeAnswerLost, OpFails, vars, client

(* autolock.ts:1-5: Session implements KeyCustody, for any number of       *)
(* unlocks and operations: a key is held once, zeroed by a lock only, for  *)
(* good, and together with the token.                                      *)
THEOREM SessionImplementsCustody == Spec => ImplementsKeyCustody
<1>1. Init => Custody!Init /\ TakenOnce
  BY DEF Init, Custody!Init, TakenOnce
<1>2. TypeOK /\ TakenOnce /\ [Next]_vars => TakenOnce'
  BY TakenStep
<1>3. TypeOK /\ KeysInv /\ TakenOnce /\ [Next]_vars => [Custody!Next]_(Custody!vars)
  BY CustodyStep
<1>4. SessionInv => KeysInv
  BY DEF SessionInv
<1> QED
  BY <1>1, <1>2, <1>3, <1>4, SessionInvariant, TypeCorrect, PTL
  DEF Spec, ImplementsKeyCustody, Custody!Spec

-----------------------------------------------------------------------------
(* The safety half of AbandonedVaultLocks: once the user has left, the     *)
(* unlocks still under way only become fewer, and each can give AutoLock a *)
(* key once at most, by ending; with none left, a locked vault stays so.   *)
UnlocksUnderWay == {u \in Unlocks : unlocking[u] \in Pending}
Deserted == away /\ held = None /\ UnlocksUnderWay = {}

WindsDown ==
  away => /\ away'
          /\ UnlocksUnderWay' \subseteq UnlocksUnderWay
          /\ held' \in {held, None} \cup (UnlocksUnderWay \ UnlocksUnderWay')

LEMMA WindingStep == TypeOK /\ [Next]_vars => WindsDown
<1> SUFFICES ASSUME TypeOK, [Next]_vars, away PROVE WindsDown
  BY DEF WindsDown
<1>1. CASE UNCHANGED <<unlocking, away>> /\ held' \in {held, None}
  BY <1>1 DEF WindsDown, UnlocksUnderWay
<1>2. ASSUME NEW u \in Unlocks, unlocking[u] \in Pending,
             NEW at, unlocking' = [unlocking EXCEPT ![u] = at],
             away' = away, held' = held
      PROVE  WindsDown
  BY <1>2 DEF WindsDown, UnlocksUnderWay, TypeOK
<1>3. ASSUME NEW u \in Unlocks, LoginDone(u) \/ Unwrap(u) \/ UnlockFails(u)
      PROVE  WindsDown
  BY <1>2, <1>3 DEF LoginDone, Unwrap, UnlockFails, Pending
<1>4. ASSUME NEW u \in Unlocks, UnlockDone(u)
      PROVE  WindsDown
  BY <1>4 DEF UnlockDone, HeldAfter, WindsDown, UnlocksUnderWay, Pending, TypeOK
<1>5. CASE LockNow /\ UNCHANGED <<unlocking, away>>
  BY <1>1, <1>5 DEF LockNow
<1> QED
  BY <1>1, <1>3, <1>4, <1>5
  DEF Next, TimerFires, LockButton, OpenItem, OpenChange, Leave, ProvisionRejects,
      ProvisionDone, SubmitUnlock, Cancel, Submit, Send, SaveDone, RefreshDone,
      ChangeDone, ChangeAnswerLost, OpFails, vars, client

(* autolock.ts:24-29: a vault whose user has left is reopened only by the  *)
(* unlocks that were under way, once by each; after them a lock is final.  *)
THEOREM AbandonedVaultWindsDown ==
  /\ Spec => [][WindsDown]_vars
  /\ Spec => [](Deserted => [](held = None))
<1>1. TypeOK /\ [Next]_vars => WindsDown
  BY WindingStep
<1>2. TypeOK /\ Deserted /\ [Next]_vars => Deserted'
  BY WindingStep DEF Deserted, WindsDown
<1>3. Deserted => held = None
  BY DEF Deserted
<1> QED
  BY <1>1, <1>2, <1>3, TypeCorrect, PTL DEF Spec
=============================================================================
