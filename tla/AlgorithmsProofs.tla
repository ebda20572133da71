-------------------------- MODULE AlgorithmsProofs --------------------------
(***************************************************************************)
(* What verify_init_data accepts, for every set of lines and messages,     *)
(* every length of the initData string, every total order of its pairs and *)
(* all limits; and that every index of a list of any length is as likely   *)
(* as every other (DicewareProofs).                                        *)
(***************************************************************************)
EXTENDS Algorithms, DicewareProofs

-----------------------------------------------------------------------------
(* The fields of a string, as dict reads them.                             *)

LEMMA LastOf ==
  ASSUME NEW n \in Nat, NEW S \in SUBSET (1..n), S # {}
  PROVE  \E i \in S : \A j \in S : j <= i
PROOF
  <1> DEFINE gaps == {k \in Nat : n - k \in S}
  <1>1. PICK i \in S : TRUE
    OBVIOUS
  <1>2. n - i \in gaps
    BY <1>1
  <1>3. PICK m \in gaps : \A k \in gaps : m <= k
    BY <1>2, LeastNatural
  <1>4. \A j \in S : n - j \in gaps
    OBVIOUS
  <1>5. QED
    BY <1>3, <1>4

(* dict(pairs).get(key) is the value of some pair with that key, if there  *)
(* is one, and otherwise nothing.                                          *)
LEMMA GetIsAValue ==
  ASSUME NEW n \in Nat, NEW pairs, DOMAIN pairs = 1..n, NEW key
  PROVE  \/ Get(pairs, key) = None /\ \A i \in DOMAIN pairs : ~Named(pairs[i], key)
         \/ \E i \in DOMAIN pairs :
              Named(pairs[i], key) /\ Get(pairs, key) = ValueOf(pairs[i])
PROOF
  <1> DEFINE at == {i \in DOMAIN pairs : Named(pairs[i], key)}
             last == CHOOSE i \in at : \A j \in at : j <= i
  <1>1. CASE at = {}
    BY <1>1 DEF Get
  <1>2. CASE at # {}
    <2>1. \E i \in at : \A j \in at : j <= i
      <3> HIDE DEF at
      <3>1. at \in SUBSET (1..n)
        BY DEF at
      <3>2. QED
        BY <1>2, <3>1, LastOf
    <2>2. last \in at
      BY <2>1
    <2>3. Get(pairs, key) = ValueOf(pairs[last])
      BY <1>2 DEF Get
    <2>4. QED
      BY <2>2, <2>3
  <1>3. QED
    BY <1>1, <1>2

LEMMA GetOfTheOnlyOne ==
  ASSUME NEW n \in Nat, NEW pairs, DOMAIN pairs = 1..n, NEW key,
         NEW i \in DOMAIN pairs, Named(pairs[i], key),
         \A j \in DOMAIN pairs : Named(pairs[j], key) => j = i
  PROVE  Get(pairs, key) = ValueOf(pairs[i])
BY GetIsAValue

-----------------------------------------------------------------------------
(* The check string: sorting and joining keep every line, and make none.   *)

Orders(R, C) ==
  /\ \A v \in C : <<v, v>> \notin R
  /\ \A u, v, w \in C : <<u, v>> \in R /\ <<v, w>> \in R => <<u, w>> \in R
  /\ \A v, w \in C : v # w => <<v, w>> \in R \/ <<w, v>> \in R

(* Counting what comes earlier numbers a finite, totally ordered set.      *)
LEMMA Ranks ==
  ASSUME NEW C, IsFiniteSet(C), NEW R, Orders(R, C),
         NEW rank, rank = [w \in C |-> Cardinality({v \in C : <<v, w>> \in R})]
  PROVE  /\ Cardinality(C) \in Nat
         /\ rank \in [C -> 0..Cardinality(C) - 1]
         /\ \A v, w \in C : rank[v] = rank[w] => v = w
         /\ \A n \in 0..Cardinality(C) - 1 : \E w \in C : rank[w] = n
PROOF
  <1> DEFINE E(w) == {v \in C : <<v, w>> \in R}
  <1>1. Cardinality(C) \in Nat
    BY FS_CardinalityType
  <1>2. ASSUME NEW w \in C
        PROVE  /\ IsFiniteSet(E(w)) /\ Cardinality(E(w)) \in Nat
               /\ Cardinality(E(w)) <= Cardinality(C) - 1
    <2>1. E(w) \in SUBSET (C \ {w})
      BY DEF Orders
    <2>2. IsFiniteSet(C \ {w}) /\ Cardinality(C \ {w}) = Cardinality(C) - 1
      BY FS_RemoveElement
    <2> HIDE DEF E
    <2>3. IsFiniteSet(E(w)) /\ Cardinality(E(w)) <= Cardinality(C) - 1
      BY <2>1, <2>2, FS_Subset
    <2>4. QED
      BY <2>3, FS_CardinalityType
  <1>3. ASSUME NEW v \in C, NEW w \in C, <<v, w>> \in R
        PROVE  Cardinality(E(v)) < Cardinality(E(w))
    <2>1. E(v) \cup {v} \in SUBSET E(w) /\ v \notin E(v)
      BY <1>3 DEF Orders
    <2> HIDE DEF E
    <2>2. /\ IsFiniteSet(E(v) \cup {v})
          /\ Cardinality(E(v) \cup {v}) = Cardinality(E(v)) + 1
      BY <1>2, <2>1, FS_AddElement
    <2>3. Cardinality(E(v) \cup {v}) <= Cardinality(E(w))
      BY <1>2, <2>1, FS_Subset
    <2>4. QED
      BY <1>2, <2>2, <2>3
  <1>4. \A w \in C : rank[w] = Cardinality(E(w))
    OBVIOUS
  <1>5. rank = [w \in C |-> rank[w]]
    OBVIOUS
  <1> HIDE DEF E
  <1>6. \A w \in C : rank[w] \in 0..Cardinality(C) - 1
    BY <1>1, <1>2, <1>4
  <1>7. rank \in [C -> 0..Cardinality(C) - 1]
    BY <1>5, <1>6
  <1>8. \A v, w \in C : rank[v] = rank[w] => v = w
    <2> SUFFICES ASSUME NEW v \in C, NEW w \in C, v # w
                 PROVE  rank[v] # rank[w]
      OBVIOUS
    <2>1. CASE <<v, w>> \in R
      BY <2>1, <1>2, <1>3, <1>4
    <2>2. CASE <<w, v>> \in R
      BY <2>2, <1>2, <1>3, <1>4
    <2>3. QED
      BY <2>1, <2>2 DEF Orders
  <1>9. rank \in Injection(C, 0..Cardinality(C) - 1)
    BY <1>7, <1>8 DEF Injection, IsInjective
  <1>10. /\ IsFiniteSet(0..Cardinality(C) - 1)
         /\ Cardinality(0..Cardinality(C) - 1) = Cardinality(C)
    <2>1. 0 \in Int /\ Cardinality(C) - 1 \in Int
      BY <1>1
    <2>2. /\ IsFiniteSet(0..Cardinality(C) - 1)
          /\ Cardinality(0..Cardinality(C) - 1)
               = IF 0 > Cardinality(C) - 1 THEN 0 ELSE Cardinality(C) - 1 - 0 + 1
      BY <2>1, FS_Interval
    <2>3. QED
      BY <1>1, <2>2
  <1>11. rank \in Surjection(C, 0..Cardinality(C) - 1)
    BY <1>9, <1>10, FS_Injection
  <1>12. QED
    BY <1>1, <1>7, <1>8, <1>11 DEF Surjection

(* What lemmas about check strings need of a string.                       *)
IsString(pairs) ==
  /\ \E n \in Nat : DOMAIN pairs = 1..n
  /\ \A i \in DOMAIN pairs : \E k \in Nat : DOMAIN pairs[i].lines = 1..k
  /\ \A i \in Body(pairs) : Place(pairs[i]) \in Int

LEMMA CoveredPlaces ==
  ASSUME NEW pairs, NEW w
  PROVE  w \in Covered(pairs) <=>
           \E i \in Body(pairs) : \E j \in DOMAIN pairs[i].lines : w = <<i, j>>
PROOF
  <1> DEFINE family == {{i} \X DOMAIN pairs[i].lines : i \in Body(pairs)}
  <1>1. Covered(pairs) = UNION family
    BY DEF Covered, Body
  <1>2. \A i \in Body(pairs) : {i} \X DOMAIN pairs[i].lines \in family
    OBVIOUS
  <1>3. \A i : w \in {i} \X DOMAIN pairs[i].lines <=>
                 \E j \in DOMAIN pairs[i].lines : w = <<i, j>>
    OBVIOUS
  <1>4. QED
    BY <1>1, <1>2, <1>3

LEMMA CoveredIsFinite ==
  ASSUME NEW pairs, IsString(pairs)
  PROVE  IsFiniteSet(Covered(pairs))
PROOF
  <1> DEFINE f == [i \in Body(pairs) |-> {i} \X DOMAIN pairs[i].lines]
             family == {f[i] : i \in Body(pairs)}
  <1>1. IsFiniteSet(Body(pairs))
    <2>1. PICK n \in Nat : DOMAIN pairs = 1..n
      BY DEF IsString
    <2>2. Body(pairs) \in SUBSET (1..n)
      BY <2>1 DEF Body
    <2>3. IsFiniteSet(1..n)
      BY FS_Interval
    <2>4. QED
      BY <2>2, <2>3, FS_Subset
  <1>2. f \in Surjection(Body(pairs), family)
    BY DEF Surjection
  <1>3. IsFiniteSet(family)
    <2> HIDE DEF f, family
    <2>1. QED
      BY <1>1, <1>2, FS_Surjection
  <1>4. \A T \in family : IsFiniteSet(T)
    <2> SUFFICES ASSUME NEW i \in Body(pairs)
                 PROVE  IsFiniteSet({i} \X DOMAIN pairs[i].lines)
      OBVIOUS
    <2>1. PICK k \in Nat : DOMAIN pairs[i].lines = 1..k
      BY DEF IsString, Body
    <2>2. IsFiniteSet({i})
      BY FS_Singleton
    <2>3. IsFiniteSet(1..k)
      BY FS_Interval
    <2>4. QED
      BY <2>1, <2>2, <2>3, FS_Product
  <1>5. Covered(pairs) = UNION family
    BY DEF Covered, Body
  <1>6. QED
    <2> HIDE DEF f, family
    <2>1. QED
      BY <1>3, <1>4, <1>5, FS_UNION

\* The number of lines before the one at w.
Rank(pairs, w) == Cardinality(Earlier(pairs, w))

LEMMA LinesAreRanked ==
  ASSUME NEW pairs, IsString(pairs)
  PROVE  /\ Cardinality(Covered(pairs)) \in Nat
         /\ \A w \in Covered(pairs) :
              Rank(pairs, w) \in 0..Cardinality(Covered(pairs)) - 1
         /\ \A v, w \in Covered(pairs) : Rank(pairs, v) = Rank(pairs, w) => v = w
         /\ \A n \in 0..Cardinality(Covered(pairs)) - 1 :
              \E w \in Covered(pairs) : Rank(pairs, w) = n
PROOF
  <1> DEFINE C == Covered(pairs)
             R == {x \in C \X C : Before(pairs, x[1], x[2])}
             rank == [w \in C |-> Cardinality({v \in C : <<v, w>> \in R})]
  <1>1. \A v, w \in C : <<v, w>> \in R <=> Before(pairs, v, w)
    OBVIOUS
  <1>2. ASSUME NEW w \in C
        PROVE  /\ w[1] \in Body(pairs) /\ w[1] \in Int /\ w[2] \in Int
               /\ Place(pairs[w[1]]) \in Int
               /\ w = <<w[1], w[2]>>
    <2>1. PICK i \in Body(pairs) : \E j \in DOMAIN pairs[i].lines : w = <<i, j>>
      BY CoveredPlaces
    <2>2. PICK j \in DOMAIN pairs[i].lines : w = <<i, j>>
      BY <2>1
    <2>3. i \in Int /\ j \in Int /\ Place(pairs[i]) \in Int
      BY DEF IsString, Body
    <2>4. QED
      BY <2>2, <2>3
  <1>3. \A w \in C : Rank(pairs, w) = rank[w]
    BY <1>1 DEF Rank, Earlier
  <1>4. IsFiniteSet(C)
    BY CoveredIsFinite
  <1> HIDE DEF C, R, rank
  <1>5. \A v \in C : <<v, v>> \notin R
    BY <1>1, <1>2 DEF Before
  <1>6. \A u, v, w \in C : <<u, v>> \in R /\ <<v, w>> \in R => <<u, w>> \in R
    BY <1>1, <1>2 DEF Before
  <1>7. \A v, w \in C : v # w => <<v, w>> \in R \/ <<w, v>> \in R
    <2> SUFFICES ASSUME NEW v \in C, NEW w \in C, v # w
                 PROVE  Before(pairs, v, w) \/ Before(pairs, w, v)
      BY <1>1
    <2>1. v[1] # w[1] \/ v[2] # w[2]
      BY <1>2
    <2>2. QED
      BY <1>2, <2>1 DEF Before
  <1>8. /\ Cardinality(C) \in Nat
        /\ rank \in [C -> 0..Cardinality(C) - 1]
        /\ \A v, w \in C : rank[v] = rank[w] => v = w
        /\ \A n \in 0..Cardinality(C) - 1 : \E w \in C : rank[w] = n
    <2>1. rank = [w \in C |-> Cardinality({v \in C : <<v, w>> \in R})]
      BY DEF rank
    <2>2. Orders(R, C)
      BY <1>5, <1>6, <1>7 DEF Orders
    <2>3. QED
      BY <1>4, <2>1, <2>2, Ranks
  <1>9. QED
    BY <1>3, <1>8 DEF C

(* Each line of a covered pair is in the check string, after as many lines *)
(* as come before it; and the check string holds no other line.            *)
LEMMA CheckStringLines ==
  ASSUME NEW pairs, IsString(pairs)
  PROVE  /\ DOMAIN CheckString(pairs) = 1..Cardinality(Covered(pairs))
         /\ \A w \in Covered(pairs) :
              /\ Rank(pairs, w) + 1 \in DOMAIN CheckString(pairs)
              /\ CheckString(pairs)[Rank(pairs, w) + 1] = LineAt(pairs, w)
         /\ \A n \in DOMAIN CheckString(pairs) :
              \E w \in Covered(pairs) :
                Rank(pairs, w) + 1 = n /\ CheckString(pairs)[n] = LineAt(pairs, w)
PROOF
  <1> DEFINE C == Covered(pairs)
             at(n) == CHOOSE w \in C : Rank(pairs, w) = n - 1
  <1>1. CheckString(pairs) = [n \in 1..Cardinality(C) |-> LineAt(pairs, at(n))]
    BY DEF CheckString, Rank
  <1>2. \A w \in C : /\ Rank(pairs, w) \in Int
                      /\ Rank(pairs, w) + 1 \in 1..Cardinality(C)
                      /\ (Rank(pairs, w) + 1) - 1 = Rank(pairs, w)
    BY LinesAreRanked
  <1>3. \A w \in C : at(Rank(pairs, w) + 1) = w
    <2> SUFFICES ASSUME NEW w \in C
                 PROVE  (CHOOSE v \in C : Rank(pairs, v) = (Rank(pairs, w) + 1) - 1) = w
      OBVIOUS
    <2>1. \A v \in C : Rank(pairs, v) = (Rank(pairs, w) + 1) - 1 <=> v = w
      BY <1>2, LinesAreRanked
    <2>2. QED
      BY <2>1
  <1>4. \A n \in 1..Cardinality(C) : \E w \in C : Rank(pairs, w) + 1 = n
    <2> SUFFICES ASSUME NEW n \in 1..Cardinality(C)
                 PROVE  \E w \in C : Rank(pairs, w) + 1 = n
      OBVIOUS
    <2>1. n - 1 \in 0..Cardinality(C) - 1
      BY LinesAreRanked
    <2>2. PICK w \in C : Rank(pairs, w) = n - 1
      BY <2>1, LinesAreRanked
    <2>3. QED
      BY <2>2
  <1> HIDE DEF at
  <1>5. \A w \in C : CheckString(pairs)[Rank(pairs, w) + 1] = LineAt(pairs, w)
    BY <1>1, <1>2, <1>3
  <1>6. QED
    BY <1>1, <1>2, <1>4, <1>5

-----------------------------------------------------------------------------
(* Signed messages, and the strings that calls carry.                      *)

LEMMA FieldOfALine ==
  ASSUME NEW line
  PROVE  /\ DOMAIN Field(line).lines = 1..1
         /\ Field(line).lines[1] = line
         /\ ValueOf(Field(line)) = line.value
BY DEF Field, ValueOf

LEMMA NameOfAField ==
  ASSUME NEW line, NEW key
  PROVE  Named(Field(line), key) <=> line.name = key
BY DEF Field, Named

LEMMA OwnString ==
  ASSUME NEW m \in Signed
  PROVE  /\ \E k \in Nat : DOMAIN m = 1..k
         /\ DOMAIN Own(m) = DOMAIN m /\ Body(Own(m)) = DOMAIN m
         /\ \A i \in DOMAIN m : m[i] \in Lines /\ Own(m)[i] = Field(m[i])
         /\ IsString(Own(m))
PROOF
  <1>1. m \in Seq(Lines)
    BY SignedMessages
  <1>2. PICK k \in Nat : DOMAIN m = 1..k
    BY <1>1
  <1>3. \A i \in DOMAIN m : m[i] \in Lines
    BY <1>1
  <1>4. DOMAIN Own(m) = DOMAIN m /\ \A i \in DOMAIN m : Own(m)[i] = Field(m[i])
    BY DEF Own
  <1>5. Body(Own(m)) = DOMAIN m
    <2> SUFFICES ASSUME NEW i \in DOMAIN m
                 PROVE  ~Named(Own(m)[i], "hash")
      BY <1>4 DEF Body
    <2>1. Named(Field(m[i]), "hash") <=> m[i].name = "hash"
      BY NameOfAField
    <2>2. QED
      BY <1>3, <1>4, <2>1, SignedMessages
  <1>6. \A i \in DOMAIN m : DOMAIN Own(m)[i].lines = 1..1 /\ Place(Own(m)[i]) \in Int
    <2> SUFFICES ASSUME NEW i \in DOMAIN m
                 PROVE  DOMAIN Field(m[i]).lines = 1..1 /\ Place(Field(m[i])) \in Int
      BY <1>4
    <2>1. QED
      BY <1>3, FieldOfALine, PlacesAreDistinct
  <1>7. QED
    BY <1>2, <1>3, <1>4, <1>5, <1>6 DEF IsString

(* A message's fields are those its lines name.                            *)
LEMMA OwnFields ==
  ASSUME NEW m \in Signed, NEW i \in DOMAIN m
  PROVE  Get(Own(m), m[i].name) = m[i].value
PROOF
  <1>1. PICK k \in Nat : DOMAIN Own(m) = 1..k
    BY OwnString
  <1>2. i \in DOMAIN Own(m) /\ Named(Own(m)[i], m[i].name)
    BY OwnString, NameOfAField
  <1>3. \A j \in DOMAIN Own(m) : Named(Own(m)[j], m[i].name) => j = i
    BY OwnString, NameOfAField, SignedMessages
  <1>4. Get(Own(m), m[i].name) = ValueOf(Own(m)[i])
    BY <1>1, <1>2, <1>3, GetOfTheOnlyOne
  <1>5. QED
    BY <1>4, OwnString, FieldOfALine

LEMMA OwnCovered ==
  ASSUME NEW m \in Signed, NEW w
  PROVE  w \in Covered(Own(m)) <=> \E i \in DOMAIN m : w = <<i, 1>>
PROOF
  <1>1. ASSUME NEW i \in DOMAIN m
        PROVE  DOMAIN Own(m)[i].lines = {1}
    <2>1. Own(m)[i] = Field(m[i])
      BY OwnString
    <2>2. DOMAIN Own(m)[i].lines = 1..1
      BY <2>1, FieldOfALine
    <2>3. QED
      BY <2>2
  <1>2. QED
    BY <1>1, CoveredPlaces, OwnString

LEMMA OwnLines ==
  ASSUME NEW m \in Signed, NEW i \in DOMAIN m
  PROVE  LineAt(Own(m), <<i, 1>>) = m[i]
BY OwnString, FieldOfALine DEF LineAt

LEMMA CallOfPairs ==
  ASSUME call \in Calls, "pairs" \in DOMAIN call
  PROVE  /\ call.token \in {BotToken, None}
         /\ \E n \in Nat : call.pairs \in [1..n -> Pieces \cup Recut]
         /\ "size" \notin DOMAIN call
PROOF
  <1>1. CASE call \in [pairs : InitStrings, token : {BotToken}]
    <2>1. call.pairs \in InitStrings /\ call.token = BotToken
      BY <1>1
    <2>2. DOMAIN call = {"pairs", "token"}
      BY <1>1
    <2>3. \E n \in Nat : call.pairs \in [1..n -> Pieces \cup Recut]
      <3>1. CASE call.pairs \in BoundedSeq(Pieces, MaxPairs)
        BY <3>1 DEF BoundedSeq, SeqOf
      <3>2. CASE call.pairs \in BoundedSeq(Pieces \cup Recut, MaxPairs - 1)
        BY <3>2 DEF BoundedSeq, SeqOf
      <3>3. QED
        BY <2>1, <3>1, <3>2 DEF InitStrings
    <2>4. QED
      BY <2>1, <2>2, <2>3
  <1>2. CASE call \in [pairs : {<<>>}, token : {None}]
    <2>1. call.pairs \in [1..0 -> Pieces \cup Recut]
      <3>1. call.pairs = <<>> /\ DOMAIN <<>> = 1..0
        BY <1>2
      <3>2. <<>> = [i \in 1..0 |-> <<>>[i]]
        OBVIOUS
      <3>3. QED
        BY <3>1, <3>2
    <2>2. 0 \in Nat /\ call.token = None
      BY <1>2
    <2>3. DOMAIN call = {"pairs", "token"}
      BY <1>2
    <2>4. QED
      BY <2>1, <2>2, <2>3
  <1>3. CASE call \in [size : 1..MaxSize]
    BY <1>3
  <1>4. QED
    BY <1>1, <1>2, <1>3 DEF Calls

(* A pair is a field of one of the lines, a hash that Telegram made or     *)
(* none, or a pair of several lines, whose name is not the hash's.         *)
LEMMA KindsOfPairs ==
  ASSUME NEW p \in Pieces \cup Recut
  PROVE  /\ \E k \in Nat \ {0} : DOMAIN p.lines = 1..k
         /\ ~Named(p, "hash") => Place(p) \in Int
         /\ Named(p, "hash") => ValueOf(p) \in Hashes
         /\ ~Named(p, "hash") => \A j \in DOMAIN p.lines : p.lines[j] \in Lines
         /\ \A key : Named(p, key) =>
              ValueOf(p) = Garbled \/ (p.lines[1].name = key /\ ValueOf(p) = p.lines[1].value)
PROOF
  <1>1. ASSUME NEW l \in Lines, p = Field(l)
        PROVE  /\ ~Named(p, "hash") /\ DOMAIN p.lines = 1..1 /\ p.lines[1] = l
               /\ Place(p) \in Int
    BY <1>1, FieldOfALine, NameOfAField, SignedMessages, PlacesAreDistinct
  <1>2. ASSUME NEW h \in Hashes, p = Field(Line("hash", h))
        PROVE  /\ Named(p, "hash") /\ DOMAIN p.lines = 1..1 /\ ValueOf(p) = h
    BY <1>2, FieldOfALine, NameOfAField DEF Line
  <1>3. ASSUME p \in Recut
        PROVE  /\ ~Named(p, "hash") /\ Place(p) \in Int
               /\ \E k \in Nat \ {0} : DOMAIN p.lines = 1..k
               /\ \A j \in DOMAIN p.lines : p.lines[j] \in Lines
    <2>1. p.lines \in Seq(Lines) /\ p.lines # <<>>
      BY <1>3, SignedMessages
    <2>2. PICK k \in Nat : DOMAIN p.lines = 1..k
      BY <2>1
    <2>3. k # 0
      BY <2>1, <2>2
    <2>4. \A j \in DOMAIN p.lines : p.lines[j] \in Lines
      BY <2>1
    <2>5. 1 \in DOMAIN p.lines
      BY <2>2, <2>3
    <2>6. ~Named(p, "hash")
      BY <2>4, <2>5, SignedMessages DEF Named
    <2>7. QED
      BY <1>3, <2>2, <2>3, <2>4, <2>6, PlacesAreDistinct
  <1>4. \A key : Named(p, key) =>
          ValueOf(p) = Garbled \/ (p.lines[1].name = key /\ ValueOf(p) = p.lines[1].value)
    BY DEF Named, ValueOf
  <1>5. CASE \E l \in Lines : p = Field(l)
    <2>1. PICK l \in Lines : p = Field(l)
      BY <1>5
    <2>2. \A j \in 1..1 : j = 1
      OBVIOUS
    <2>3. 1 \in Nat \ {0}
      OBVIOUS
    <2>4. QED
      BY <1>1, <1>4, <2>1, <2>2, <2>3
  <1>6. CASE \E h \in Hashes : p = Field(Line("hash", h))
    <2>1. 1 \in Nat \ {0}
      OBVIOUS
    <2>2. QED
      BY <1>2, <1>4, <1>6, <2>1
  <1>7. CASE p \in Recut
    BY <1>3, <1>4, <1>7
  <1>8. QED
    BY <1>5, <1>6, <1>7 DEF Pieces

LEMMA CallIsString ==
  ASSUME call \in Calls, "pairs" \in DOMAIN call
  PROVE  /\ \E n \in Nat : DOMAIN call.pairs = 1..n
         /\ \A i \in DOMAIN call.pairs : call.pairs[i] \in Pieces \cup Recut
         /\ IsString(call.pairs)
PROOF
  <1>1. PICK n \in Nat : call.pairs \in [1..n -> Pieces \cup Recut]
    BY CallOfPairs
  <1>2. DOMAIN call.pairs = 1..n
    BY <1>1
  <1>3. \A i \in DOMAIN call.pairs : call.pairs[i] \in Pieces \cup Recut
    BY <1>1
  <1>4. QED
    BY <1>2, <1>3, KindsOfPairs DEF IsString, Body

(* Whatever the pairs are cut into: a field that the code reads from a     *)
(* string with the check string of m, and that is not garbled, is m's.     *)
LEMMA VouchedField ==
  ASSUME call \in Calls, "pairs" \in DOMAIN call, NEW m \in Signed,
         CheckString(call.pairs) = CheckString(Own(m)),
         NEW key, key # "hash", Get(call.pairs, key) \notin {None, Garbled}
  PROVE  Get(Own(m), key) = Get(call.pairs, key)
PROOF
  <1> DEFINE pairs == call.pairs
  <1>1. PICK i \in DOMAIN pairs : Named(pairs[i], key) /\ Get(pairs, key) = ValueOf(pairs[i])
    BY CallIsString, GetIsAValue
  <1>2. pairs[i] \in Pieces \cup Recut
    BY CallIsString
  <1>3. pairs[i].lines[1].name = key /\ ValueOf(pairs[i]) = pairs[i].lines[1].value
    BY <1>1, <1>2, KindsOfPairs
  <1>4. i \in Body(pairs)
    BY <1>3 DEF Body, Named
  <1>5. 1 \in DOMAIN pairs[i].lines
    BY <1>2, KindsOfPairs
  <1>6. <<i, 1>> \in Covered(pairs)
    BY <1>4, <1>5, CoveredPlaces
  <1>7. PICK n \in DOMAIN CheckString(pairs) : CheckString(pairs)[n] = LineAt(pairs, <<i, 1>>)
    BY <1>6, CallIsString, CheckStringLines
  <1>8. CheckString(pairs)[n] = pairs[i].lines[1]
    BY <1>7 DEF LineAt
  <1>9. n \in DOMAIN CheckString(Own(m)) /\ CheckString(Own(m))[n] = pairs[i].lines[1]
    BY <1>8
  <1>10. PICK w \in Covered(Own(m)) : CheckString(Own(m))[n] = LineAt(Own(m), w)
    BY <1>9, OwnString, CheckStringLines
  <1>11. PICK j \in DOMAIN m : w = <<j, 1>>
    BY OwnCovered
  <1>12. m[j] = pairs[i].lines[1]
    BY <1>9, <1>10, <1>11, OwnLines
  <1>13. Get(Own(m), m[j].name) = m[j].value
    BY OwnFields
  <1>14. QED
    BY <1>1, <1>3, <1>12, <1>13

\* The call reached the check of the date.
HashRight ==
  /\ call.token # None /\ Get(call.pairs, "hash") \notin {None, NonAscii}
  /\ Get(call.pairs, "hash") = Hmac(call.token, CheckString(call.pairs))

(* Only messages that Telegram signed have right hashes.                   *)
LEMMA RightHashesAreVouched ==
  ASSUME call \in Calls, "pairs" \in DOMAIN call, HashRight
  PROVE  \E m \in Signed : Vouched(m)
PROOF
  <1>1. PICK i \in DOMAIN call.pairs :
          Named(call.pairs[i], "hash") /\ Get(call.pairs, "hash") = ValueOf(call.pairs[i])
    BY CallIsString, GetIsAValue DEF HashRight
  <1>2. Get(call.pairs, "hash") \in Hashes
    BY <1>1, CallIsString, KindsOfPairs
  <1>3. PICK m \in Signed : Get(call.pairs, "hash") = Hash[m]
    BY <1>2 DEF Hashes, HashRight
  <1>4. Hash[m] = Hmac(BotToken, CheckString(Own(m)))
    BY DEF Hash
  <1>5. call.token = BotToken
    BY CallOfPairs DEF HashRight
  <1>6. CheckString(call.pairs) = CheckString(Own(m))
    BY <1>3, <1>4, <1>5 DEF HashRight, Hmac
  <1>7. QED
    BY <1>3, <1>5, <1>6 DEF Vouched

(* The date of a call, when it has one that can be read, is a time.        *)
LEMMA DateOfCall ==
  ASSUME call \in Calls, "pairs" \in DOMAIN call
  PROVE  Get(call.pairs, "auth_date") \in Int \cup {None, Garbled, OddDigits}
PROOF
  <1> SUFFICES ASSUME Get(call.pairs, "auth_date") \notin {None, Garbled}
               PROVE  Get(call.pairs, "auth_date") \in Int \cup {OddDigits}
    OBVIOUS
  <1>1. PICK i \in DOMAIN call.pairs :
          /\ Named(call.pairs[i], "auth_date")
          /\ Get(call.pairs, "auth_date") = ValueOf(call.pairs[i])
    BY CallIsString, GetIsAValue
  <1>2. call.pairs[i] \in Pieces \cup Recut
    BY CallIsString
  <1>3. /\ call.pairs[i].lines[1].name = "auth_date"
        /\ ValueOf(call.pairs[i]) = call.pairs[i].lines[1].value
    BY <1>1, <1>2, KindsOfPairs
  <1>4. ~Named(call.pairs[i], "hash") /\ 1 \in DOMAIN call.pairs[i].lines
    BY <1>2, <1>3, KindsOfPairs DEF Named
  <1>5. call.pairs[i].lines[1] \in Lines
    BY <1>2, <1>4, KindsOfPairs
  <1>6. QED
    BY <1>1, <1>3, <1>5, NoneIsNothing

-----------------------------------------------------------------------------
(* Both limits are inclusive, and a date that is absent or no number is    *)
(* refused whatever the limits are.                                        *)
LEMMA JudgedWell ==
  ASSUME NEW d \in Int \cup {None, Garbled, OddDigits}, NEW u
  PROVE  LET a == Judged(d, u, Now)
         IN  /\ a.ok \in BOOLEAN
             /\ a.ok => d \in Int /\ Fresh(d) /\ a.user = UserId(u) /\ u # NoObject
             /\ Fresh(d) /\ u # NoObject => a = [ok |-> TRUE, user |-> UserId(u)]
             /\ ~a.ok /\ a.reason = "expired" => d \in Int /\ TooOld(d, Now)
             /\ ~a.ok /\ a.reason = "future_auth_date" => d \in Int /\ TooNew(d, Now)
PROOF
  <1> DEFINE a == Judged(d, u, Now)
  <1>1. CASE d \in {None, Garbled, OddDigits}
    <2>1. d \notin Int /\ ~Fresh(d)
      BY <1>1, NoneIsNothing DEF Fresh
    <2>2. a = Refused("missing_auth_date") \/ a = Refused("raised")
      BY <1>1 DEF Judged, Raised
    <2> HIDE DEF a
    <2>3. CASE a = Refused("missing_auth_date")
      <3>1. a.ok = FALSE /\ a.reason = "missing_auth_date"
        BY <2>3 DEF Refused
      <3>2. QED
        BY <2>1, <3>1 DEF a
    <2>4. CASE a = Refused("raised")
      <3>1. a.ok = FALSE /\ a.reason = "raised"
        BY <2>4 DEF Refused
      <3>2. QED
        BY <2>1, <3>1 DEF a
    <2>5. QED
      BY <2>2, <2>3, <2>4
  <1>2. CASE d \notin {None, Garbled, OddDigits}
    <2>1. d \in Int /\ Now \in Int /\ MaxAge \in Int /\ Skew \in Int
      BY <1>2, NoneIsNothing, LimitsAreTimes
    <2>2. Fresh(d) <=> ~TooOld(d, Now) /\ ~TooNew(d, Now)
      BY <2>1 DEF TooOld, TooNew, Fresh
    <2>3. CASE TooOld(d, Now)
      <3>1. a = Refused("expired")
        BY <1>2, <2>3 DEF Judged
      <3>2. QED
        BY <2>1, <2>2, <2>3, <3>1 DEF Refused
    <2>4. CASE ~TooOld(d, Now) /\ TooNew(d, Now)
      <3>1. a = Refused("future_auth_date")
        BY <1>2, <2>4 DEF Judged
      <3>2. QED
        BY <2>1, <2>2, <2>4, <3>1 DEF Refused
    <2>5. CASE ~TooOld(d, Now) /\ ~TooNew(d, Now) /\ u = NoObject
      <3>1. a = Refused("raised")
        BY <1>2, <2>5 DEF Judged, Raised
      <3>2. QED
        BY <2>5, <3>1 DEF Refused
    <2>6. CASE ~TooOld(d, Now) /\ ~TooNew(d, Now) /\ u # NoObject
      <3>1. a = [ok |-> TRUE, user |-> UserId(u)]
        BY <1>2, <2>6 DEF Judged
      <3>2. QED
        BY <2>1, <2>2, <2>6, <3>1
    <2>7. QED
      BY <2>3, <2>4, <2>5, <2>6
  <1>3. QED
    BY <1>1, <1>2

(* What verify_init_data answers for the call.                             *)
LEMMA AnswerOfCall ==
  ASSUME call \in Calls, "pairs" \in DOMAIN call
  PROVE  LET a == VerifyInitData(call.pairs, call.token, Now)
         IN  /\ HashRight => a = Judged(Get(call.pairs, "auth_date"),
                                        Get(call.pairs, "user"), Now)
             /\ ~HashRight =>
                  /\ ~a.ok
                  /\ a.reason \in {"server_misconfigured", "missing_hash", "bad_hash", "raised"}
BY DEF VerifyInitData, HashRight, Refused, Raised

-----------------------------------------------------------------------------
\* The answer of a checked call is the one the code computes for it.
AnswersFit ==
  /\ call \in Calls
  /\ Verified => answer = VerifyInitData(call.pairs, call.token, Now)
  /\ (answer # None /\ "size" \in DOMAIN call) =>
       answer = [i \in 0..call.size - 1 |-> Ways(call.size, i)]

THEOREM AnswersFitAlways == Spec => []AnswersFit
PROOF
  <1>1. Init => AnswersFit
    BY DEF Init, AnswersFit, Verified
  <1>2. AnswersFit /\ [Next]_vars => AnswersFit'
    <2> SUFFICES ASSUME AnswersFit, [Next]_vars
                 PROVE  AnswersFit'
      OBVIOUS
    <2>1. CASE CallVerify
      BY <2>1, CallOfPairs DEF AnswersFit, CallVerify, Verified
    <2>2. CASE CallIndex
      BY <2>2, CallOfPairs DEF AnswersFit, CallIndex, Verified
    <2>3. CASE UNCHANGED vars
      BY <2>3 DEF AnswersFit, vars, Verified
    <2>4. QED
      BY <2>1, <2>2, <2>3 DEF Next
  <1>3. QED
    BY <1>1, <1>2, PTL DEF Spec

(* AcceptedIsSignedAndFresh, for every value of the constants: however a   *)
(* string is cut into pairs, only a fresh signed message lets it in, and   *)
(* no user but that message's (initdata.py:52-80).                         *)
THEOREM AcceptanceIsVouched == Spec => []AcceptedIsSignedAndFresh
PROOF
  <1>1. AnswersFit => AcceptedIsSignedAndFresh
    <2> SUFFICES ASSUME AnswersFit, Verified, answer.ok
                 PROVE  \E m \in Signed :
                          /\ Vouched(m)
                          /\ Fresh(Get(Own(m), "auth_date"))
                          /\ answer.user \in {UserId(Get(Own(m), "user")), None}
      BY DEF AcceptedIsSignedAndFresh
    <2> DEFINE d == Get(call.pairs, "auth_date")
               u == Get(call.pairs, "user")
    <2>1. call \in Calls /\ "pairs" \in DOMAIN call
      BY DEF AnswersFit, Verified
    <2>2. HashRight /\ answer = Judged(d, u, Now)
      BY <2>1, AnswerOfCall DEF AnswersFit
    <2>3. PICK m \in Signed : Vouched(m)
      BY <2>1, <2>2, RightHashesAreVouched
    <2>4. d \in Int \cup {None, Garbled, OddDigits}
      BY <2>1, DateOfCall
    <2>5. d \notin {None, Garbled} => Get(Own(m), "auth_date") = d
      BY <2>1, <2>3, VouchedField DEF Vouched
    <2>6. u \notin {None, Garbled} => Get(Own(m), "user") = u
      BY <2>1, <2>3, VouchedField DEF Vouched
    <2> HIDE DEF d, u
    <2>7. d \in Int /\ Fresh(d) /\ answer.user = UserId(u)
      BY <2>2, <2>4, JudgedWell
    <2>8. d \notin {None, Garbled}
      BY <2>7, NoneIsNothing
    <2>9. u \in {None, Garbled} => UserId(u) = None
      BY DEF UserId
    <2>10. QED
      BY <2>3, <2>5, <2>6, <2>7, <2>8, <2>9
  <1>2. QED
    BY <1>1, AnswersFitAlways, PTL

(* DatesOfSignedDataOnly, for every value of the constants: the age of     *)
(* unsigned data is never told (initdata.py:65-77).                        *)
THEOREM DatesAreOfSignedData == Spec => []DatesOfSignedDataOnly
PROOF
  <1>1. AnswersFit => DatesOfSignedDataOnly
    <2> SUFFICES ASSUME AnswersFit, Verified, ~answer.ok,
                        answer.reason \in {"missing_auth_date", "expired", "future_auth_date"}
                 PROVE  \E m \in Signed :
                          /\ Vouched(m)
                          /\ answer.reason = "expired" =>
                               TooOld(Get(Own(m), "auth_date"), Now)
                          /\ answer.reason = "future_auth_date" =>
                               TooNew(Get(Own(m), "auth_date"), Now)
      BY DEF DatesOfSignedDataOnly
    <2> DEFINE d == Get(call.pairs, "auth_date")
               u == Get(call.pairs, "user")
    <2>1. call \in Calls /\ "pairs" \in DOMAIN call
      BY DEF AnswersFit, Verified
    <2>2. HashRight /\ answer = Judged(d, u, Now)
      BY <2>1, AnswerOfCall DEF AnswersFit
    <2>3. PICK m \in Signed : Vouched(m)
      BY <2>1, <2>2, RightHashesAreVouched
    <2>4. d \in Int \cup {None, Garbled, OddDigits}
      BY <2>1, DateOfCall
    <2>5. d \notin {None, Garbled} => Get(Own(m), "auth_date") = d
      BY <2>1, <2>3, VouchedField DEF Vouched
    <2> HIDE DEF d, u
    <2>6. /\ answer.reason = "expired" => d \in Int /\ TooOld(d, Now)
          /\ answer.reason = "future_auth_date" => d \in Int /\ TooNew(d, Now)
      BY <2>2, <2>4, JudgedWell
    <2>7. d \in Int => d \notin {None, Garbled}
      BY NoneIsNothing
    <2>8. QED
      BY <2>3, <2>5, <2>6, <2>7
  <1>2. QED
    BY <1>1, AnswersFitAlways, PTL

-----------------------------------------------------------------------------
(* A message in another order: sorting undoes it.                          *)

(* A field of the string is the field of the message that was signed.      *)
LEMMA FieldOfMessage ==
  ASSUME NEW m \in Signed, NEW n \in Nat, NEW pairs, DOMAIN pairs = 1..n,
         Reordered(Own(m), pairs), NEW key, key # "hash"
  PROVE  Get(pairs, key) = Get(Own(m), key)
PROOF
  <1>1. PICK f \in Bijection(Body(Own(m)), Body(pairs)) :
          \A i \in Body(Own(m)) : pairs[f[i]] = Own(m)[i]
    BY DEF Reordered
  <1>2. /\ f \in [DOMAIN m -> Body(pairs)]
        /\ \A l \in Body(pairs) : \E i \in DOMAIN m : f[i] = l
    BY <1>1, OwnString DEF Bijection, Injection, Surjection
  <1>3. \A i \in DOMAIN m : f[i] \in DOMAIN pairs /\ pairs[f[i]] = Field(m[i])
    BY <1>1, <1>2, OwnString DEF Body
  <1>4. \A l \in DOMAIN pairs : Named(pairs[l], key) =>
          \E i \in DOMAIN m : f[i] = l /\ m[i].name = key
    <2> SUFFICES ASSUME NEW l \in DOMAIN pairs, Named(pairs[l], key)
                 PROVE  \E i \in DOMAIN m : f[i] = l /\ m[i].name = key
      OBVIOUS
    <2>1. l \in Body(pairs)
      BY DEF Body, Named
    <2>2. PICK i \in DOMAIN m : f[i] = l
      BY <1>2, <2>1
    <2>3. Named(Field(m[i]), key)
      BY <1>3, <2>2
    <2>4. QED
      BY <2>2, <2>3, NameOfAField
  <1>5. CASE \E i \in DOMAIN m : m[i].name = key
    <2>1. PICK i \in DOMAIN m : m[i].name = key
      BY <1>5
    <2>2. Named(pairs[f[i]], key) /\ ValueOf(pairs[f[i]]) = m[i].value
      BY <1>3, <2>1, NameOfAField, FieldOfALine
    <2>3. \A l \in DOMAIN pairs : Named(pairs[l], key) => l = f[i]
      BY <1>4, <2>1, SignedMessages
    <2>4. Get(pairs, key) = m[i].value
      BY <1>3, <2>2, <2>3, GetOfTheOnlyOne
    <2>5. QED
      BY <2>1, <2>4, OwnFields
  <1>6. CASE \A i \in DOMAIN m : m[i].name # key
    <2>1. Get(pairs, key) = None
      BY <1>4, <1>6, GetIsAValue
    <2>2. \A i \in DOMAIN Own(m) : ~Named(Own(m)[i], key)
      BY <1>6, OwnString, NameOfAField
    <2>3. Get(Own(m), key) = None
      BY <2>2, OwnString, GetIsAValue
    <2>4. QED
      BY <2>1, <2>3
  <1>7. QED
    BY <1>5, <1>6

(* The places of distinct fields differ, so that sorting leaves no choice. *)
LEMMA SameOrder ==
  ASSUME NEW m \in Signed, NEW pairs, NEW f,
         \A i \in DOMAIN m : pairs[f[i]] = Field(m[i]),
         NEW i \in DOMAIN m, NEW j \in DOMAIN m, f[i] \in Int, f[j] \in Int
  PROVE  Before(pairs, <<f[i], 1>>, <<f[j], 1>>) <=> Before(Own(m), <<i, 1>>, <<j, 1>>)
PROOF
  <1> DEFINE p == Place(Field(m[i]))
             q == Place(Field(m[j]))
  <1>1. i \in Int /\ j \in Int /\ m[i] \in Lines /\ m[j] \in Lines
    BY OwnString
  <1>2. p \in Int /\ q \in Int
    BY <1>1, PlacesAreDistinct
  <1>3. Own(m)[i] = Field(m[i]) /\ Own(m)[j] = Field(m[j])
    BY OwnString
  <1>4. Before(pairs, <<f[i], 1>>, <<f[j], 1>>) <=> p < q \/ (p = q /\ f[i] < f[j])
    BY <1>2 DEF Before
  <1>5. Before(Own(m), <<i, 1>>, <<j, 1>>) <=> p < q \/ (p = q /\ i < j)
    BY <1>2, <1>3 DEF Before
  <1>6. p = q => i = j
    <2> SUFFICES ASSUME p = q PROVE i = j
      OBVIOUS
    <2>1. m[i] = m[j]
      BY <1>1, PlacesAreDistinct
    <2>2. QED
      BY <2>1, SignedMessages
  <1> HIDE DEF p, q
  <1>7. QED
    BY <1>1, <1>4, <1>5, <1>6

LEMMA SameCheckString ==
  ASSUME NEW m \in Signed, NEW pairs, IsString(pairs), Reordered(Own(m), pairs)
  PROVE  CheckString(pairs) = CheckString(Own(m))
PROOF
  <1> DEFINE own == Own(m)
             C == Covered(own)
             D == Covered(pairs)
  <1>1. PICK f \in Bijection(Body(own), Body(pairs)) :
          \A i \in Body(own) : pairs[f[i]] = own[i]
    BY DEF Reordered
  <1>2. /\ f \in [DOMAIN m -> Body(pairs)]
        /\ \A i, j \in DOMAIN m : f[i] = f[j] => i = j
        /\ \A l \in Body(pairs) : \E i \in DOMAIN m : f[i] = l
    BY <1>1, OwnString DEF Bijection, Injection, Surjection, IsInjective
  <1>3. \A i \in DOMAIN m : /\ f[i] \in Body(pairs) /\ f[i] \in Int
                            /\ pairs[f[i]] = Field(m[i])
    <2> SUFFICES ASSUME NEW i \in DOMAIN m
                 PROVE  f[i] \in Body(pairs) /\ f[i] \in Int /\ pairs[f[i]] = Field(m[i])
      OBVIOUS
    <2>1. f[i] \in Body(pairs)
      BY <1>2
    <2>2. f[i] \in Int
      BY <2>1 DEF IsString, Body
    <2>3. pairs[f[i]] = Field(m[i])
      BY <1>1, OwnString
    <2>4. QED
      BY <2>1, <2>2, <2>3
  <1> DEFINE g == [w \in C |-> <<f[w[1]], 1>>]
  <1>4. \A w : w \in C <=> \E i \in DOMAIN m : w = <<i, 1>>
    BY OwnCovered
  <1>5. \A w : w \in D <=> \E i \in DOMAIN m : w = <<f[i], 1>>
    <2>1. \A i \in DOMAIN m : DOMAIN pairs[f[i]].lines = 1..1
      BY <1>3, FieldOfALine
    <2>2. \A i \in DOMAIN m : \A j : j \in DOMAIN pairs[f[i]].lines <=> j = 1
      BY <2>1
    <2>3. \A w : w \in D <=> \E l \in Body(pairs) : \E j \in DOMAIN pairs[l].lines : w = <<l, j>>
      BY CoveredPlaces
    <2>4. QED
      BY <1>2, <1>3, <2>2, <2>3
  <1>6. \A i \in DOMAIN m : <<i, 1>> \in C /\ g[<<i, 1>>] = <<f[i], 1>>
    BY <1>4
  <1>7. g = [w \in C |-> g[w]]
    OBVIOUS
  <1> HIDE DEF g
  <1>8. \A w \in C : g[w] \in D
    BY <1>4, <1>5, <1>6
  <1>9. \A v, w \in C : g[v] = g[w] => v = w
    BY <1>2, <1>4, <1>6
  <1>10. \A d \in D : \E w \in C : g[w] = d
    <2> SUFFICES ASSUME NEW d \in D PROVE \E w \in C : g[w] = d
      OBVIOUS
    <2>1. PICK i \in DOMAIN m : d = <<f[i], 1>>
      BY <1>5
    <2>2. <<i, 1>> \in C /\ g[<<i, 1>>] = d
      BY <1>6, <2>1
    <2>3. QED
      BY <2>2
  <1>11. \A v, w \in C : Before(pairs, g[v], g[w]) <=> Before(own, v, w)
    <2> SUFFICES ASSUME NEW i \in DOMAIN m, NEW j \in DOMAIN m
                 PROVE  Before(pairs, <<f[i], 1>>, <<f[j], 1>>) <=>
                          Before(own, <<i, 1>>, <<j, 1>>)
      BY <1>4, <1>6
    <2>1. QED
      BY <1>3, SameOrder
  <1>12. IsFiniteSet(C) /\ IsFiniteSet(D)
    BY OwnString, CoveredIsFinite
  <1>13. Cardinality(D) = Cardinality(C)
    <2>1. g \in Bijection(C, D)
      BY <1>7, <1>8, <1>9, <1>10 DEF Bijection, Injection, Surjection, IsInjective
    <2>2. QED
      BY <1>12, <2>1, FS_Bijection DEF ExistsBijection
  <1>14. ASSUME NEW w \in C
         PROVE  Rank(pairs, g[w]) = Rank(own, w)
    <2> DEFINE A == Earlier(own, w)
               B == Earlier(pairs, g[w])
               h == [v \in A |-> g[v]]
    <2>1. A \in SUBSET C /\ B \in SUBSET D
      BY DEF Earlier
    <2>2. \A v \in C : v \in A <=> g[v] \in B
      BY <1>8, <1>11 DEF Earlier
    <2>3. h \in [A -> B] /\ \A v \in A : h[v] = g[v]
      BY <2>1, <2>2
    <2>4. \A u, v \in A : h[u] = h[v] => u = v
      BY <1>9, <2>1
    <2>5. \A b \in B : \E v \in A : h[v] = b
      BY <1>10, <2>1, <2>2
    <2> HIDE DEF A, B, h
    <2>6. h \in Bijection(A, B)
      BY <2>3, <2>4, <2>5 DEF Bijection, Injection, Surjection, IsInjective
    <2>7. IsFiniteSet(A)
      BY <1>12, <2>1, FS_Subset
    <2>8. Cardinality(B) = Cardinality(A)
      BY <2>6, <2>7, FS_Bijection DEF ExistsBijection
    <2>9. QED
      BY <2>8 DEF Rank, A, B
  <1>15. \A w \in C : LineAt(pairs, g[w]) = LineAt(own, w)
    BY <1>3, <1>4, <1>6, OwnString DEF LineAt
  <1>16. \A n \in DOMAIN CheckString(own) : CheckString(pairs)[n] = CheckString(own)[n]
    <2> SUFFICES ASSUME NEW n \in DOMAIN CheckString(own)
                 PROVE  CheckString(pairs)[n] = CheckString(own)[n]
      OBVIOUS
    <2>1. PICK w \in C : Rank(own, w) + 1 = n /\ CheckString(own)[n] = LineAt(own, w)
      BY OwnString, CheckStringLines
    <2>2. CheckString(pairs)[Rank(pairs, g[w]) + 1] = LineAt(pairs, g[w])
      BY <1>8, CheckStringLines
    <2>3. QED
      BY <1>14, <1>15, <2>1, <2>2
  <1>17. DOMAIN CheckString(pairs) = DOMAIN CheckString(own)
    BY <1>13, OwnString, CheckStringLines
  <1>18. /\ CheckString(pairs) = [n \in DOMAIN CheckString(pairs) |-> CheckString(pairs)[n]]
         /\ CheckString(own) = [n \in DOMAIN CheckString(own) |-> CheckString(own)[n]]
    BY DEF CheckString
  <1>19. QED
    BY <1>16, <1>17, <1>18

(* SignedAndFreshIsAccepted, for every value of the constants: no order of *)
(* the pairs and no place of the hash keeps a fresh message out.           *)
THEOREM GenuineIsAccepted == Spec => []SignedAndFreshIsAccepted
PROOF
  <1>1. AnswersFit => SignedAndFreshIsAccepted
    <2> SUFFICES ASSUME AnswersFit, Verified, NEW m \in Signed, Genuine(m),
                        Fresh(Get(Own(m), "auth_date")), Get(Own(m), "user") # NoObject
                 PROVE  answer = [ok |-> TRUE, user |-> UserId(Get(Own(m), "user"))]
      BY DEF SignedAndFreshIsAccepted
    <2> DEFINE d == Get(call.pairs, "auth_date")
               u == Get(call.pairs, "user")
    <2>1. call \in Calls /\ "pairs" \in DOMAIN call
      BY DEF AnswersFit, Verified
    <2>2. CheckString(call.pairs) = CheckString(Own(m))
      BY <2>1, CallIsString, SameCheckString DEF Genuine
    <2>3. HashRight
      <3>1. Hash[m] = Hmac(BotToken, CheckString(Own(m)))
        BY DEF Hash
      <3>2. Hash[m] \notin {None, NonAscii} /\ None # BotToken
        BY NoneIsNothing
      <3>3. QED
        BY <2>2, <3>1, <3>2 DEF HashRight, Genuine
    <2>4. d = Get(Own(m), "auth_date") /\ u = Get(Own(m), "user")
      BY <2>1, CallIsString, FieldOfMessage DEF Genuine
    <2>5. answer = Judged(d, u, Now)
      BY <2>1, <2>3, AnswerOfCall DEF AnswersFit
    <2>6. d \in Int \cup {None, Garbled, OddDigits}
      BY <2>1, DateOfCall
    <2> HIDE DEF d, u
    <2>7. QED
      BY <2>4, <2>5, <2>6, JudgedWell
  <1>2. QED
    BY <1>1, AnswersFitAlways, PTL

-----------------------------------------------------------------------------
(* IndexIsUniform, for every value of the constants: no list length biases *)
(* the choice of a word (diceware.ts:49-67).                               *)
THEOREM NoIndexIsFavoured == Spec => []IndexIsUniform
PROOF
  <1>1. AnswersFit => IndexIsUniform
    <2> SUFFICES ASSUME AnswersFit, answer # None, "size" \in DOMAIN call,
                        NEW i \in 0..call.size - 1
                 PROVE  /\ answer[i] = answer[0]
                        /\ 2 * call.size * answer[i] > Cardinality(Bytes(call.size))
      BY DEF IndexIsUniform
    <2>1. call.size \in Nat \ {0}
      BY CallOfPairs DEF AnswersFit, Calls
    <2>2. answer[i] = Ways(call.size, i) /\ answer[0] = Ways(call.size, 0)
      BY <2>1 DEF AnswersFit
    <2>3. QED
      BY <2>1, <2>2, EveryIndexAlike
  <1>2. QED
    BY <1>1, AnswersFitAlways, PTL
=============================================================================
