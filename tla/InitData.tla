------------------------------ MODULE InitData ------------------------------
(***************************************************************************)
(* verify_init_data (server/initdata.py), which every handler of the thin  *)
(* backend calls first.  An initData string is the sequence of its pairs,  *)
(* as parse_qsl decodes them: a key or a value may then hold a line break  *)
(* or an equals sign.  The check string is one text, which remembers       *)
(* neither where a pair ended nor where its key did; a text is modelled by *)
(* the sequence of its lines `name=value`, a name ending at the first      *)
(* equals sign.  HMAC is symbolic: a hash is the token and the text.       *)
(***************************************************************************)
EXTENDS Integers, Sequences, FiniteSets, SequencesExt

CONSTANTS
  BotToken,
  Garbled,    \* a value that is neither a number nor JSON
  OddDigits,  \* one that isdigit() takes for a number and int() does not
  NoObject,   \* one that is JSON, but no object
  NonAscii,   \* a hash that compare_digest rejects with an exception
  MaxAge,     \* max_age_seconds
  Skew,       \* 300 seconds
  Place(_),   \* where sorted() puts a pair: pairs compare by key, then value
  None        \* an absent or an empty value

ASSUME LimitsAreTimes == MaxAge \in Nat /\ Skew \in Nat

Line(name, value) == [name |-> name, value |-> value]

(* A pair is the lines of the text `key=value`, and the equals sign of it  *)
(* that parse_qsl read as the separator.  Only when that is the first one  *)
(* is the key a name.                                                      *)
Field(line) == [lines |-> <<line>>, cut |-> 1]
Named(pair, key) == pair.cut = 1 /\ pair.lines[1].name = key
ValueOf(pair) == IF Len(pair.lines) = 1 THEN pair.lines[1].value ELSE Garbled

(* dict(pairs).get(key): the last pair with that key.                      *)
Get(pairs, key) ==
  LET at == {i \in DOMAIN pairs : Named(pairs[i], key)}
  IN  IF at = {} THEN None ELSE ValueOf(pairs[CHOOSE i \in at : \A j \in at : j <= i])

(* _build_check_string: the lines of all pairs but the hash, also those of *)
(* a repeated key, in the order of the sorted pairs and within each pair.  *)
CoveredFirsts(pairs) ==
  UNION {{i} \X DOMAIN pairs[i].lines :
           i \in {k \in DOMAIN pairs : /\ ~Named(pairs[k], "hash")
                                       /\ \A j \in 1..k - 1 :
                                            ~Named(pairs[j], pairs[k].lines[1].name)}}
Covered(pairs) ==
  UNION {{i} \X DOMAIN pairs[i].lines :
           i \in {k \in DOMAIN pairs : ~Named(pairs[k], "hash")}}

LineAt(pairs, w) == pairs[w[1]].lines[w[2]]

Before(pairs, v, w) ==
  LET p == Place(pairs[v[1]])
      q == Place(pairs[w[1]])
  IN  \/ p < q
      \/ p = q /\ v[1] < w[1]
      \/ v[1] = w[1] /\ v[2] < w[2]

Earlier(pairs, w) == {v \in Covered(pairs) : Before(pairs, v, w)}

CheckString(pairs) ==
  [n \in 1..Cardinality(Covered(pairs)) |->
     LineAt(pairs,
            CHOOSE w \in Covered(pairs) : Cardinality(Earlier(pairs, w)) = n - 1)]

Hmac(token, text) == <<token, text>>

(* _extract_user_id: the id in the JSON of the user field, if there is one. *)
UserId(user) == IF user \in {None, Garbled, NoObject} THEN None ELSE user.id

LimitIsTooOld(authDate, now) == now - authDate >= MaxAge
TooOld(authDate, now) == now - authDate > MaxAge
TooNew(authDate, now) == authDate - now > Skew

Refused(reason) == [ok |-> FALSE, reason |-> reason]
\* An exception that nothing catches: the handler answers with a 500.
Raised == Refused("raised")

\* The freshness of data whose hash is right, and the user it names.
Judged(authDate, user, now) ==
  IF authDate \in {None, Garbled} THEN Refused("missing_auth_date")
  ELSE IF authDate = OddDigits THEN Raised
  ELSE IF TooOld(authDate, now) THEN Refused("expired")
  ELSE IF TooNew(authDate, now) THEN Refused("future_auth_date")
  ELSE IF user = NoObject THEN Raised
  ELSE [ok |-> TRUE, user |-> UserId(user)]

FreshnessFirst(pairs, token, now) ==
  LET j == Judged(Get(pairs, "auth_date"), Get(pairs, "user"), now)
  IN  IF Get(pairs, "hash") # Hmac(token, CheckString(pairs)) /\ j.ok
        THEN Refused("bad_hash") ELSE j

VerifyInitData(pairs, token, now) ==
  LET hash == Get(pairs, "hash")
  IN  IF token = None THEN Refused("server_misconfigured")
      ELSE IF hash = None THEN Refused("missing_hash")
      ELSE IF hash = NonAscii THEN Raised
      ELSE IF hash # Hmac(token, CheckString(pairs)) THEN Refused("bad_hash")
      ELSE Judged(Get(pairs, "auth_date"), Get(pairs, "user"), now)
=============================================================================
