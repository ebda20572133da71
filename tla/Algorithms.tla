----------------------------- MODULE Algorithms -----------------------------
(***************************************************************************)
(* The pure functions of InitData and Diceware, called once on any of the  *)
(* bounded inputs, and what their answers must be.                         *)
(***************************************************************************)
EXTENDS InitData, Diceware

CONSTANTS
  Lines,     \* the lines `name=value` that initData strings are made of
  Signed,    \* what Telegram signs for the bot: sequences of lines
  Recut,     \* pairs of several lines, or whose key is no name
  Now,       \* the time of the call
  MaxPairs,  \* bound on the pairs of an initData string
  MaxSize    \* bound on the length of a word list

VARIABLES call, answer
vars == <<call, answer>>

\* The string that Telegram hands to the Mini App, hash aside.
Own(m) == [i \in DOMAIN m |-> Field(m[i])]
Hash == [m \in Signed |-> Hmac(BotToken, CheckString(Own(m)))]

(* A launch has at most one field of each name; hashes are no lines of it. *)
ASSUME SignedMessages ==
  /\ \A line \in Lines : line.name # "hash"
  /\ Signed \subseteq Seq(Lines)
  /\ \A m \in Signed : \A i, j \in DOMAIN m : m[i].name = m[j].name => i = j
  /\ Recut \subseteq [lines : Seq(Lines) \ {<<>>}, cut : Nat \ {0}]

(* sorted() orders the pairs totally.                                      *)
ASSUME PlacesAreDistinct ==
  /\ \A l \in Lines : Place(Field(l)) \in Int
  /\ \A r \in Recut : Place(r) \in Int
  /\ \A k, l \in Lines : Place(Field(k)) = Place(Field(l)) => k = l

(* A date is a number or one of the values that are none; None is absent.  *)
ASSUME NoneIsNothing ==
  /\ Now \in Int /\ {None, Garbled, OddDigits} \cap Int = {}
  /\ \A l \in Lines : /\ l.name = "auth_date" => l.value \in Int \cup {Garbled, OddDigits}
                      /\ l.value # None
  /\ NoObject \notin {None, Garbled}
  /\ OddDigits \notin {None, Garbled}
  /\ None # BotToken /\ \A m \in Signed : Hash[m] \notin {None, NonAscii}

\* No hash but those that Telegram made is the hash of any text.
Hashes == {Hash[m] : m \in Signed} \cup {None, NonAscii}
Pieces == {Field(l) : l \in Lines \cup {Line("hash", h) : h \in Hashes}}

InitStrings == BoundedSeq(Pieces, MaxPairs) \cup BoundedSeq(Pieces \cup Recut, MaxPairs - 1)
\* A server without a token reads nothing of the string.
Calls == [pairs : InitStrings, token : {BotToken}] \cup [pairs : {<<>>}, token : {None}]
           \cup [size : 1..MaxSize]

Init == call \in Calls /\ answer = None

CallVerify ==
  /\ answer = None /\ "pairs" \in DOMAIN call
  /\ answer' = VerifyInitData(call.pairs, call.token, Now)
  /\ UNCHANGED call

CallIndex ==
  /\ answer = None /\ "size" \in DOMAIN call
  /\ answer' = [i \in 0..call.size - 1 |-> Ways(call.size, i)]
  /\ UNCHANGED call

Next == CallVerify \/ CallIndex
Spec == Init /\ [][Next]_vars

-----------------------------------------------------------------------------
Verified == answer # None /\ "pairs" \in DOMAIN call

Fresh(authDate) == authDate \in Now - MaxAge .. Now + Skew

\* The call carries the hash of m, and its pairs have the check string of m.
Vouched(m) ==
  /\ call.token = BotToken
  /\ Get(call.pairs, "hash") = Hash[m]
  /\ CheckString(call.pairs) = CheckString(Own(m))

\* The call is m itself: its pairs in some order, and its hash.
Body(pairs) == {i \in DOMAIN pairs : ~Named(pairs[i], "hash")}
Reordered(own, pairs) ==
  \E f \in Bijection(Body(own), Body(pairs)) :
    \A i \in Body(own) : pairs[f[i]] = own[i]
Genuine(m) ==
  /\ call.token = BotToken
  /\ Get(call.pairs, "hash") = Hash[m]
  /\ Reordered(Own(m), call.pairs)

(* initdata.py:7-12: whatever pairs a string is cut into, repeated or      *)
(* added, it is accepted only with the hash of a message that the bot's    *)
(* token signed, whose own date is from MaxAge seconds ago to Skew ahead;  *)
(* and the user it names is that message's, or none (a string cut anew may *)
(* hide a field, never change one).                                        *)
AcceptedIsSignedAndFresh ==
  (Verified /\ answer.ok) =>
    \E m \in Signed : /\ Vouched(m)
                      /\ Fresh(Get(Own(m), "auth_date"))
                      /\ answer.user \in {UserId(Get(Own(m), "user")), None}

(* The other way: a message that was signed and is fresh is accepted, with *)
(* its user, in whatever order its pairs arrive and wherever its hash is.  *)
SignedAndFreshIsAccepted ==
  Verified =>
    \A m \in Signed :
      Genuine(m) /\ Fresh(Get(Own(m), "auth_date")) /\ Get(Own(m), "user") # NoObject =>
        answer = [ok |-> TRUE, user |-> UserId(Get(Own(m), "user"))]

(* initdata.py:65-77: a string is refused for its date only if its hash is *)
(* right, and as too old or too new only if the signed message is.         *)
DatesOfSignedDataOnly ==
  (Verified /\ ~answer.ok
     /\ answer.reason \in {"missing_auth_date", "expired", "future_auth_date"}) =>
    \E m \in Signed :
      /\ Vouched(m)
      /\ answer.reason = "expired" => TooOld(Get(Own(m), "auth_date"), Now)
      /\ answer.reason = "future_auth_date" => TooNew(Get(Own(m), "auth_date"), Now)

(* diceware.ts:49-67: every index is as likely as every other, and a round *)
(* succeeds with more than one chance in two.                              *)
IndexIsUniform ==
  (answer # None /\ "size" \in DOMAIN call) =>
    \A i \in 0..call.size - 1 :
      /\ answer[i] = answer[0]
      /\ 2 * call.size * answer[i] > Cardinality(Bytes(call.size))
=============================================================================
