------------------------- MODULE RateLimiterProofs -------------------------
(***************************************************************************)
(* Proofs about RateLimiter: the buckets stay bounded, no window of        *)
(* Window seconds holds more than MaxHits accepted requests, and the deque *)
(* implements the limiter that remembers every accepted request.           *)
(***************************************************************************)
EXTENDS RateLimiter, FiniteSetTheorems, TLAPS

USE WindowIsNat, MaxHitsIsPositive, HorizonIsNat

Times == 0..Horizon

(* A bucket b is the tail of the times log: what was popped is stale at    *)
(* time now, the times never decrease and lie in the past.                 *)
IsTail(b, log) ==
  /\ Len(b) <= Len(log)
  /\ \A i \in 1..Len(b) : b[i] = log[Len(log) - Len(b) + i]

Chronological(log, now) ==
  /\ \A i \in 1..Len(log) : log[i] <= now
  /\ \A i, j \in 1..Len(log) : i <= j => log[i] <= log[j]

PoppedAreStale(b, log, now) ==
  \A i \in 1..(Len(log) - Len(b)) : now - log[i] > Window

Spread(log) ==
  \A i \in 1..Len(log) :
    i + MaxHits <= Len(log) => log[i + MaxHits] - log[i] > Window

Sound(b, log, now) ==
  /\ Len(b) <= MaxHits
  /\ IsTail(b, log)
  /\ Chronological(log, now)
  /\ PoppedAreStale(b, log, now)
  /\ Spread(log)

LimiterInv == TypeOK /\ \A k \in Keys : Sound(hits[k], accepted[k], clock)

-----------------------------------------------------------------------------
(* What popping n hits leaves of a bucket.                                 *)
LEMMA RestOfBucket ==
  ASSUME NEW b \in Seq(Times), NEW n \in 0..Len(b)
  PROVE  /\ Rest(b, n) \in Seq(Times)
         /\ Len(Rest(b, n)) = Len(b) - n
         /\ \A i \in 1..(Len(b) - n) : Rest(b, n)[i] = b[n + i]
  BY DEF Rest, Times

(* After popping, the stale times are the ones popped now or earlier.      *)
LEMMA PopsSplit ==
  ASSUME clock \in Times, NEW b \in Seq(Times), NEW log \in Seq(Times),
         Sound(b, log, clock), NEW n \in 0..Len(b), Pops(b, n)
  PROVE  \A i \in 1..Len(log) :
           clock - log[i] > Window <=> i <= Len(log) - Len(b) + n
<1> DEFINE p == Len(log) - Len(b)
<1>1. Len(b) \in Nat /\ Len(log) \in Nat /\ Len(b) <= Len(log) /\ n \in Nat /\ n <= Len(b)
  BY DEF Sound, IsTail
<1>2. SUFFICES ASSUME NEW i \in 1..Len(log)
               PROVE  clock - log[i] > Window <=> i <= p + n
  OBVIOUS
<1>3. log[i] \in Times
  OBVIOUS
<1>4. CASE i <= p
  <2>1. clock - log[i] > Window
    BY <1>1, <1>4 DEF Sound, PoppedAreStale
  <2> QED
    BY <2>1, <1>1, <1>4
<1>5. CASE i > p /\ i <= p + n
  <2>1. i - p \in 1..n /\ i - p \in 1..Len(b) /\ p + (i - p) = i
    BY <1>1, <1>5
  <2>2. b[i - p] = log[i]
    BY <2>1 DEF Sound, IsTail
  <2>3. clock - b[i - p] > Window
    BY <2>1 DEF Pops, Stale
  <2> QED
    BY <2>2, <2>3, <1>5
<1>6. CASE i > p + n
  <2>1. n < Len(b) /\ n + 1 \in 1..Len(b) /\ p + (n + 1) \in 1..Len(log)
    BY <1>1, <1>6
  <2>2. b[n + 1] = log[p + (n + 1)]
    BY <2>1 DEF Sound, IsTail
  <2>3. ~(clock - b[n + 1] > Window)
    BY <2>1 DEF Pops, Stale
  <2>4. p + (n + 1) <= i
    BY <1>1, <1>6
  <2>5. log[p + (n + 1)] <= log[i]
    BY <2>1, <2>4 DEF Sound, Chronological
  <2>6. log[p + (n + 1)] \in Times
    BY <2>1
  <2>7. ~(clock - log[i] > Window)
    <3> DEFINE x == log[p + (n + 1)]
               y == log[i]
    <3>1. x \in Times /\ y \in Times /\ x <= y /\ ~(clock - x > Window)
      BY <2>2, <2>3, <2>5, <2>6, <1>3
    <3> HIDE DEF x, y
    <3>2. ~(clock - y > Window)
      BY <3>1 DEF Times
    <3> QED
      BY <3>2 DEF y
  <2> QED
    BY <2>7, <1>1, <1>6
<1> QED
  BY <1>1, <1>4, <1>5, <1>6

(* The accepted requests in the window are those left in the bucket.       *)
LEMMA BucketCountsWindow ==
  ASSUME clock \in Times, NEW b \in Seq(Times), NEW log \in Seq(Times),
         Sound(b, log, clock), NEW n \in 0..Len(b), Pops(b, n)
  PROVE  Cardinality({i \in 1..Len(log) : clock - log[i] <= Window}) = Len(Rest(b, n))
<1> DEFINE first == Len(log) - Len(b) + n + 1
<1>1. /\ Len(b) \in Nat /\ Len(log) \in Nat /\ Len(b) <= Len(log)
      /\ n \in Nat /\ n <= Len(b) /\ first \in Int /\ first >= 1
  BY DEF Sound, IsTail
<1>2. \A i \in 1..Len(log) : clock - log[i] <= Window <=> i >= first
  <2>1. SUFFICES ASSUME NEW i \in 1..Len(log)
                 PROVE  clock - log[i] <= Window <=> i >= first
    OBVIOUS
  <2>2. clock - log[i] > Window <=> i <= Len(log) - Len(b) + n
    BY PopsSplit
  <2>3. log[i] \in Times
    OBVIOUS
  <2> QED
    BY <2>2, <2>3, <1>1 DEF Times
<1>3. {i \in 1..Len(log) : clock - log[i] <= Window} = first..Len(log)
  <2> DEFINE W == {i \in 1..Len(log) : clock - log[i] <= Window}
  <2>1. ASSUME NEW i \in W PROVE i \in first..Len(log)
    BY <1>1, <1>2
  <2>2. ASSUME NEW i \in first..Len(log) PROVE i \in W
    BY <1>1, <1>2
  <2> QED
    BY <2>1, <2>2
<1>4. Cardinality(first..Len(log)) =
        IF first > Len(log) THEN 0 ELSE Len(log) - first + 1
  <2>1. first \in Int /\ Len(log) \in Int
    BY <1>1
  <2> HIDE DEF first
  <2> QED
    BY <2>1, FS_Interval, Zenon
<1>5. Len(Rest(b, n)) = Len(b) - n
  BY RestOfBucket
<1>6. (IF first > Len(log) THEN 0 ELSE Len(log) - first + 1) = Len(b) - n
  BY <1>1
<1> QED
  BY <1>3, <1>4, <1>5, <1>6, Zenon

-----------------------------------------------------------------------------
(* A refused request leaves a sound bucket.                                *)
LEMMA RestIsSound ==
  ASSUME clock \in Times, NEW b \in Seq(Times), NEW log \in Seq(Times),
         Sound(b, log, clock), NEW n \in 0..Len(b), Pops(b, n)
  PROVE  Sound(Rest(b, n), log, clock)
<1> DEFINE r == Rest(b, n)
<1>1. /\ r \in Seq(Times) /\ Len(r) = Len(b) - n
      /\ \A i \in 1..(Len(b) - n) : r[i] = b[n + i]
  BY RestOfBucket
<1>2. /\ Len(b) \in Nat /\ Len(log) \in Nat /\ Len(b) <= Len(log)
      /\ n \in Nat /\ n <= Len(b) /\ Len(b) <= MaxHits
  BY DEF Sound, IsTail
<1> HIDE DEF r
<1>3. IsTail(r, log)
  <2>1. \A i \in 1..Len(b) : b[i] = log[Len(log) - Len(b) + i]
    BY DEF Sound, IsTail
  <2>2. SUFFICES ASSUME NEW i \in 1..Len(r)
                 PROVE  r[i] = log[Len(log) - Len(r) + i]
    BY <1>1, <1>2 DEF IsTail
  <2>3. r[i] = b[n + i] /\ n + i \in 1..Len(b)
    BY <1>1, <1>2
  <2>4. Len(log) - Len(b) + (n + i) = Len(log) - Len(r) + i
    BY <1>1, <1>2
  <2> QED
    BY <2>1, <2>3, <2>4
<1>4. PoppedAreStale(r, log, clock)
  <2>1. SUFFICES ASSUME NEW i \in 1..(Len(log) - Len(r))
                 PROVE  clock - log[i] > Window
    BY DEF PoppedAreStale
  <2>2. i \in 1..Len(log) /\ i <= Len(log) - Len(b) + n
    BY <1>1, <1>2
  <2> QED
    BY <2>2, PopsSplit
<1>5. Len(r) <= MaxHits
  BY <1>1, <1>2
<1> QED
  BY <1>3, <1>4, <1>5 DEF Sound, r

(* So does an accepted one: the request MaxHits before it was popped.      *)
LEMMA AcceptIsSound ==
  ASSUME clock \in Times, NEW r \in Seq(Times), NEW log \in Seq(Times),
         Sound(r, log, clock), Len(r) < MaxHits
  PROVE  Sound(Append(r, clock), Append(log, clock), clock)
<1> DEFINE r2 == Append(r, clock)
           log2 == Append(log, clock)
<1>1. /\ Len(r) \in Nat /\ Len(log) \in Nat /\ Len(r) <= Len(log)
      /\ Len(r2) = Len(r) + 1 /\ Len(log2) = Len(log) + 1
      /\ r2[Len(r) + 1] = clock /\ log2[Len(log) + 1] = clock
      /\ \A i \in 1..Len(r) : r2[i] = r[i]
      /\ \A i \in 1..Len(log) : log2[i] = log[i] /\ log[i] \in Times
  BY DEF Sound, IsTail
<1> HIDE DEF r2, log2
<1>2. IsTail(r2, log2)
  <2>1. \A i \in 1..Len(r) : r[i] = log[Len(log) - Len(r) + i]
    BY DEF Sound, IsTail
  <2>2. SUFFICES ASSUME NEW i \in 1..Len(r2)
                 PROVE  r2[i] = log2[Len(log2) - Len(r2) + i]
    BY <1>1 DEF IsTail
  <2>3. Len(log2) - Len(r2) + i = Len(log) - Len(r) + i
    BY <1>1
  <2>4. CASE i = Len(r) + 1
    <3>1. Len(log) - Len(r) + i = Len(log) + 1
      BY <1>1, <2>4
    <3> QED
      BY <1>1, <2>3, <2>4, <3>1
  <2>5. CASE i # Len(r) + 1
    <3>1. i \in 1..Len(r) /\ Len(log) - Len(r) + i \in 1..Len(log)
      BY <1>1, <2>5
    <3> QED
      BY <1>1, <2>1, <2>3, <3>1
  <2> QED
    BY <2>4, <2>5
<1>3. Chronological(log2, clock)
  <2>1. /\ \A i \in 1..Len(log) : log[i] <= clock
        /\ \A i, j \in 1..Len(log) : i <= j => log[i] <= log[j]
    BY DEF Sound, Chronological
  <2>2. \A i \in 1..Len(log2) : i = Len(log) + 1 \/ i \in 1..Len(log)
    BY <1>1
  <2>3. clock <= clock
    BY DEF Times
  <2>4. ASSUME NEW i \in 1..Len(log2) PROVE log2[i] <= clock
    BY <1>1, <2>1, <2>2, <2>3
  <2>5. ASSUME NEW i \in 1..Len(log2), NEW j \in 1..Len(log2), i <= j
        PROVE  log2[i] <= log2[j]
    <3>1. CASE j = Len(log) + 1
      BY <1>1, <2>4, <3>1
    <3>2. CASE j \in 1..Len(log)
      <4>1. i \in 1..Len(log)
        BY <1>1, <2>5, <3>2
      <4> QED
        BY <1>1, <2>1, <2>5, <3>2, <4>1
    <3> QED
      BY <2>2, <3>1, <3>2
  <2> QED
    BY <2>4, <2>5 DEF Chronological
<1>4. PoppedAreStale(r2, log2, clock)
  <2>1. \A i \in 1..(Len(log) - Len(r)) : clock - log[i] > Window
    BY DEF Sound, PoppedAreStale
  <2> QED
    BY <1>1, <2>1 DEF PoppedAreStale
<1>5. Spread(log2)
  <2>1. SUFFICES ASSUME NEW i \in 1..Len(log2), i + MaxHits <= Len(log2)
                 PROVE  log2[i + MaxHits] - log2[i] > Window
    BY DEF Spread
  <2>2. CASE i + MaxHits <= Len(log)
    BY <1>1, <2>2 DEF Sound, Spread
  <2>3. CASE i + MaxHits = Len(log) + 1
    <3>1. i \in 1..(Len(log) - Len(r)) /\ i \in 1..Len(log)
      BY <1>1, <2>3
    <3>2. clock - log[i] > Window
      BY <3>1 DEF Sound, PoppedAreStale
    <3> QED
      BY <1>1, <2>3, <3>1, <3>2
  <2> QED
    BY <1>1, <2>1, <2>2, <2>3
<1>6. Len(r2) <= MaxHits
  BY <1>1
<1> QED
  BY <1>2, <1>3, <1>4, <1>5, <1>6 DEF Sound, r2, log2

(* Time only makes popped hits staler.                                     *)
LEMMA TickIsSound ==
  ASSUME NEW b \in Seq(Times), NEW log \in Seq(Times), NEW now \in Times,
         NEW later \in Times, now < later, Sound(b, log, now)
  PROVE  Sound(b, log, later)
<1>1. \A i \in 1..Len(log) : log[i] \in Times
  OBVIOUS
<1>2. Len(b) \in Nat /\ Len(log) \in Nat /\ Len(b) <= Len(log)
  BY DEF Sound, IsTail
<1>3. Chronological(log, later)
  BY <1>1 DEF Sound, Chronological, Times
<1>4. PoppedAreStale(b, log, later)
  BY <1>1, <1>2 DEF Sound, PoppedAreStale, Times
<1> QED
  BY <1>3, <1>4 DEF Sound

-----------------------------------------------------------------------------
LEMMA InitIsSound == Init => LimiterInv
<1> SUFFICES ASSUME Init PROVE LimiterInv
  OBVIOUS
<1>1. TypeOK
  BY DEF Init, TypeOK
<1>2. \A k \in Keys : hits[k] = <<>> /\ accepted[k] = <<>>
  BY DEF Init
<1>3. Sound(<<>>, <<>>, clock)
  BY DEF Sound, IsTail, Chronological, PoppedAreStale, Spread
<1> QED
  BY <1>1, <1>2, <1>3 DEF LimiterInv

(* The two outcomes of a request of k whose bucket loses n hits.           *)
Accepting(k, n) ==
  /\ ~Full(Rest(hits[k], n))
  /\ hits' = [hits EXCEPT ![k] = Append(Rest(hits[k], n), clock)]
  /\ accepted' = [accepted EXCEPT ![k] = Append(accepted[k], clock)]
  /\ verdict' = Verdict(k, TRUE)
  /\ clock' = clock

Refusing(k, n) ==
  /\ Full(Rest(hits[k], n))
  /\ hits' = [hits EXCEPT ![k] = Rest(hits[k], n)]
  /\ accepted' = accepted
  /\ verdict' = Verdict(k, FALSE)
  /\ clock' = clock

LEMMA RequestCases ==
  ASSUME NEW k \in Keys, Request(k)
  PROVE  \E n \in 0..Len(hits[k]) :
           Pops(hits[k], n) /\ (Accepting(k, n) \/ Refusing(k, n))
  BY DEF Request, Accepting, Refusing, AfterRefusal

(* Before any request: the types of one key's bucket and log.              *)
LEMMA KeyTypes ==
  ASSUME LimiterInv, NEW k \in Keys
  PROVE  /\ clock \in Times
         /\ hits[k] \in Seq(Times) /\ accepted[k] \in Seq(Times)
         /\ Sound(hits[k], accepted[k], clock)
  BY DEF LimiterInv, TypeOK, Times

LEMMA AcceptingStep ==
  ASSUME LimiterInv, NEW k \in Keys, NEW n \in 0..Len(hits[k]),
         Pops(hits[k], n), Accepting(k, n)
  PROVE  LimiterInv'
<1> DEFINE r == Rest(hits[k], n)
<1>1. /\ clock \in Times /\ hits[k] \in Seq(Times) /\ accepted[k] \in Seq(Times)
      /\ Sound(hits[k], accepted[k], clock)
  BY KeyTypes
<1>2. r \in Seq(Times) /\ Sound(r, accepted[k], clock)
  BY <1>1, RestOfBucket, RestIsSound
<1>3. Len(r) < MaxHits
  <2>1. Len(r) \in Nat /\ ~(Len(r) >= MaxHits)
    BY <1>2 DEF Accepting, Full
  <2> QED
    BY <2>1
<1> HIDE DEF r
<1>4. Sound(Append(r, clock), Append(accepted[k], clock), clock)
  BY <1>1, <1>2, <1>3, AcceptIsSound
<1>5. Append(r, clock) \in Seq(Times) /\ Append(accepted[k], clock) \in Seq(Times)
  BY <1>1, <1>2
<1>6. /\ hits \in [Keys -> Seq(Times)] /\ accepted \in [Keys -> Seq(Times)]
      /\ hits' = [hits EXCEPT ![k] = Append(r, clock)]
      /\ accepted' = [accepted EXCEPT ![k] = Append(accepted[k], clock)]
      /\ clock' = clock
  BY DEF LimiterInv, TypeOK, Accepting, Times, r
<1>7. /\ hits' \in [Keys -> Seq(Times)] /\ accepted' \in [Keys -> Seq(Times)]
      /\ hits'[k] = Append(r, clock) /\ accepted'[k] = Append(accepted[k], clock)
      /\ \A j \in Keys : j # k => hits'[j] = hits[j] /\ accepted'[j] = accepted[j]
  BY <1>5, <1>6
<1>8. ASSUME NEW j \in Keys PROVE Sound(hits'[j], accepted'[j], clock')
  <2>1. CASE j = k
    BY <1>4, <1>6, <1>7, <2>1
  <2>2. CASE j # k
    BY <1>6, <1>7, <2>2 DEF LimiterInv
  <2> QED
    BY <2>1, <2>2
<1>9. verdict' \in {Silence} \cup [key : Keys, ok : BOOLEAN]
  BY DEF Accepting, Verdict
<1>10. \A j \in Keys : Len(hits'[j]) <= MaxHits
  BY <1>8 DEF Sound
<1>11. TypeOK'
  BY <1>1, <1>6, <1>7, <1>9, <1>10 DEF TypeOK, Times
<1> QED
  BY <1>8, <1>11 DEF LimiterInv

LEMMA RefusingStep ==
  ASSUME LimiterInv, NEW k \in Keys, NEW n \in 0..Len(hits[k]),
         Pops(hits[k], n), Refusing(k, n)
  PROVE  LimiterInv'
<1> DEFINE r == Rest(hits[k], n)
<1>1. /\ clock \in Times /\ hits[k] \in Seq(Times) /\ accepted[k] \in Seq(Times)
      /\ Sound(hits[k], accepted[k], clock)
  BY KeyTypes
<1>2. r \in Seq(Times) /\ Sound(r, accepted[k], clock)
  BY <1>1, RestOfBucket, RestIsSound
<1> HIDE DEF r
<1>3. /\ hits \in [Keys -> Seq(Times)] /\ accepted \in [Keys -> Seq(Times)]
      /\ hits' = [hits EXCEPT ![k] = r] /\ accepted' = accepted /\ clock' = clock
  BY DEF LimiterInv, TypeOK, Refusing, Times, r
<1>4. /\ hits' \in [Keys -> Seq(Times)] /\ hits'[k] = r
      /\ \A j \in Keys : j # k => hits'[j] = hits[j]
  BY <1>2, <1>3
<1>5. ASSUME NEW j \in Keys PROVE Sound(hits'[j], accepted'[j], clock')
  <2>1. CASE j = k
    BY <1>2, <1>3, <1>4, <2>1
  <2>2. CASE j # k
    BY <1>3, <1>4, <2>2 DEF LimiterInv
  <2> QED
    BY <2>1, <2>2
<1>6. verdict' \in {Silence} \cup [key : Keys, ok : BOOLEAN]
  BY DEF Refusing, Verdict
<1>7. \A j \in Keys : Len(hits'[j]) <= MaxHits
  BY <1>5 DEF Sound
<1>8. TypeOK'
  BY <1>1, <1>3, <1>4, <1>6, <1>7 DEF TypeOK, Times
<1> QED
  BY <1>5, <1>8 DEF LimiterInv

LEMMA TickStep ==
  ASSUME LimiterInv, NEW t \in Times, Tick(t)
  PROVE  LimiterInv'
<1>1. clock \in Times /\ clock' = t /\ clock < t
  BY DEF LimiterInv, TypeOK, Tick, Times
<1>2. hits' = hits /\ accepted' = accepted /\ verdict' = Silence
  BY DEF Tick
<1>3. ASSUME NEW k \in Keys PROVE Sound(hits[k], accepted[k], t)
  <2>1. /\ hits[k] \in Seq(Times) /\ accepted[k] \in Seq(Times)
        /\ Sound(hits[k], accepted[k], clock)
    BY KeyTypes
  <2> QED
    BY <1>1, <2>1, TickIsSound
<1>4. TypeOK'
  BY <1>1, <1>2 DEF LimiterInv, TypeOK, Times
<1> QED
  BY <1>1, <1>2, <1>3, <1>4 DEF LimiterInv

LEMMA LimiterStep == LimiterInv /\ [Next]_vars => LimiterInv'
<1> SUFFICES ASSUME LimiterInv, [Next]_vars PROVE LimiterInv'
  OBVIOUS
<1>1. ASSUME NEW k \in Keys, Request(k) PROVE LimiterInv'
  <2>1. PICK n \in 0..Len(hits[k]) :
          Pops(hits[k], n) /\ (Accepting(k, n) \/ Refusing(k, n))
    BY <1>1, RequestCases
  <2> QED
    BY <2>1, AcceptingStep, RefusingStep
<1>2. ASSUME NEW t \in 0..Horizon, Tick(t) PROVE LimiterInv'
  BY <1>2, TickStep DEF Times
<1>3. CASE UNCHANGED vars
  BY <1>3 DEF vars, LimiterInv, TypeOK
<1> QED
  BY <1>1, <1>2, <1>3 DEF Next

LEMMA LimiterInvariant == Spec => []LimiterInv
<1>1. Init => LimiterInv
  BY InitIsSound
<1>2. LimiterInv /\ [Next]_vars => LimiterInv'
  BY LimiterStep
<1> QED
  BY <1>1, <1>2, PTL DEF Spec

(* main.py:50-58: types, and a bucket never holds more than MaxHits hits.  *)
THEOREM TypeCorrect == Spec => []TypeOK
<1>1. LimiterInv => TypeOK
  BY DEF LimiterInv
<1> QED
  BY <1>1, LimiterInvariant, PTL

(* main.py:42-58: no window of Window seconds, wherever it lies, holds     *)
(* more than MaxHits accepted requests of one key.                         *)
THEOREM NoKeyBursts == Spec => []NoBurst
<1>1. LimiterInv => NoBurst
  BY DEF LimiterInv, NoBurst, Sound, Spread
<1> QED
  BY <1>1, LimiterInvariant, PTL

-----------------------------------------------------------------------------
LEMMA InitRefines == Init => WindowOf!Init
  BY DEF Init, WindowOf!Init, Silence, WindowOf!Silence

(* RateWindow counts with the same Cardinality.                            *)
LEMMA SameCardinality ==
  ASSUME NEW S PROVE WindowOf!Cardinality(S) = Cardinality(S)
  BY Zenon DEF WindowOf!Cardinality, Cardinality

(* A request is decided by the number of accepted ones in the window.      *)
LEMMA RequestRefines ==
  ASSUME LimiterInv, NEW k \in Keys, Request(k)
  PROVE  WindowOf!Accept(k) \/ WindowOf!Refuse(k)
<1>1. /\ clock \in Times /\ hits[k] \in Seq(Times) /\ accepted[k] \in Seq(Times)
      /\ Sound(hits[k], accepted[k], clock)
  BY KeyTypes
<1>2. PICK n \in 0..Len(hits[k]) :
        Pops(hits[k], n) /\ (Accepting(k, n) \/ Refusing(k, n))
  BY RequestCases
<1>3. Cardinality({i \in 1..Len(accepted[k]) : clock - accepted[k][i] <= Window})
        = Len(Rest(hits[k], n))
  BY <1>1, <1>2, BucketCountsWindow
<1>4. WindowOf!Cardinality(WindowOf!InWindow(k)) = Len(Rest(hits[k], n))
  BY <1>3, SameCardinality DEF WindowOf!InWindow
<1>5. Len(Rest(hits[k], n)) \in Nat
  BY <1>1, RestOfBucket
<1> DEFINE left == Len(Rest(hits[k], n))
           inWindow == WindowOf!Cardinality(WindowOf!InWindow(k))
<1>6. CASE Accepting(k, n)
  <2>1. inWindow = left /\ left \in Nat /\ ~(left >= MaxHits)
    BY <1>4, <1>5, <1>6 DEF Accepting, Full
  <2>2. inWindow < MaxHits
    <3> HIDE DEF inWindow, left
    <3> QED
      BY <2>1
  <2> QED
    BY <2>2, <1>6 DEF Accepting, WindowOf!Accept, Verdict, WindowOf!Verdict
<1>7. CASE Refusing(k, n)
  <2>1. inWindow = left /\ left >= MaxHits
    BY <1>4, <1>7 DEF Refusing, Full
  <2>2. inWindow >= MaxHits
    <3> HIDE DEF inWindow, left
    <3> QED
      BY <2>1
  <2> QED
    BY <2>2, <1>7 DEF Refusing, WindowOf!Refuse, Verdict, WindowOf!Verdict
<1> QED
  BY <1>2, <1>6, <1>7

LEMMA StepRefines ==
  LimiterInv /\ [Next]_vars => [WindowOf!Next]_(WindowOf!vars)
<1> SUFFICES ASSUME LimiterInv, [Next]_vars
             PROVE  [WindowOf!Next]_(WindowOf!vars)
  OBVIOUS
<1>1. ASSUME NEW k \in Keys, Request(k) PROVE WindowOf!Next
  BY <1>1, RequestRefines DEF WindowOf!Next
<1>2. ASSUME NEW t \in 0..Horizon, Tick(t) PROVE WindowOf!Next
  <2>1. WindowOf!Tick(t)
    BY <1>2 DEF Tick, WindowOf!Tick, Silence, WindowOf!Silence
  <2> QED
    BY <2>1 DEF WindowOf!Next
<1>3. CASE UNCHANGED vars
  BY <1>3 DEF vars, WindowOf!vars
<1> QED
  BY <1>1, <1>2, <1>3 DEF Next

(* main.py:50-58: the deque decides every request as the limiter that      *)
(* remembers and counts every accepted one.                                *)
THEOREM DequeImplementsWindow == Spec => ImplementsWindow
<1>1. Init => WindowOf!Init
  BY InitRefines
<1>2. LimiterInv /\ [Next]_vars => [WindowOf!Next]_(WindowOf!vars)
  BY StepRefines
<1> QED
  BY <1>1, <1>2, LimiterInvariant, PTL DEF Spec, ImplementsWindow, WindowOf!Spec
=============================================================================
