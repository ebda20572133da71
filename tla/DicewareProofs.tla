--------------------------- MODULE DicewareProofs ---------------------------
(***************************************************************************)
(* uniformRandomIndex picks every index of a list of any length with the   *)
(* same probability, for bytes of any width.  The functions of Diceware    *)
(* are recursive: the least-number principle stands for induction, and     *)
(* Recursion for the existence of what their equations define.             *)
(***************************************************************************)
EXTENDS Diceware, FiniteSetTheorems, WellFoundedInduction, Functions, TLAPS

LEMMA LeastNatural ==
  ASSUME NEW S \in SUBSET Nat, S # {}
  PROVE  \E m \in S : \A k \in S : m <= k
PROOF
  <1> DEFINE less == OpToRel(<, Nat)
  <1>1. IsWellFoundedOn(less, Nat)
    BY NatLessThanWellFounded
  <1>2. \A a, b \in Nat : a < b => <<a, b>> \in less
    BY DEF OpToRel
  <1> HIDE DEF less
  <1>3. PICK m \in S : \A k \in S : <<k, m>> \notin less
    BY <1>1, WFMin
  <1>4. ASSUME NEW k \in S  PROVE  m <= k
    <2>1. k \in Nat /\ m \in Nat
      OBVIOUS
    <2>2. ~(k < m)
      BY <1>2, <1>3, <2>1
    <2>3. QED
      BY <2>1, <2>2
  <1>5. QED
    BY <1>4

(* Induction, for the set of the numbers that have a property.             *)
LEMMA Induction ==
  ASSUME NEW T \in SUBSET Nat, 0 \in T, \A n \in T : n + 1 \in T
  PROVE  T = Nat
PROOF
  <1> SUFFICES ASSUME Nat \ T # {}
               PROVE  FALSE
    OBVIOUS
  <1>1. PICK m \in Nat \ T : \A k \in Nat \ T : m <= k
    BY LeastNatural
  <1>2. m # 0 /\ m - 1 \in Nat
    BY <1>1
  <1>3. m - 1 \in T
    BY <1>1, <1>2
  <1>4. QED
    BY <1>1, <1>2, <1>3

\* g is what the recursion gives up to n.
Fits(g, n, S, first, step) ==
  /\ g \in [0..n -> S] /\ g[0] = first
  /\ \A i \in 0..n - 1 : g[i + 1] = step[<<i, g[i]>>]

LEMMA Extended ==
  ASSUME NEW S, NEW first \in S, NEW step \in [Nat \X S -> S],
         NEW n \in Nat, NEW g, Fits(g, n, S, first, step)
  PROVE  \E h : Fits(h, n + 1, S, first, step)
PROOF
  <1> DEFINE h == [i \in 0..n + 1 |-> IF i = n + 1 THEN step[<<n, g[n]>>] ELSE g[i]]
  <1>1. /\ g \in [0..n -> S] /\ g[0] = first
        /\ \A i \in 0..n - 1 : g[i + 1] = step[<<i, g[i]>>]
    BY DEF Fits
  <1>2. g[n] \in S /\ step[<<n, g[n]>>] \in S
    BY <1>1
  <1>3. h \in [0..n + 1 -> S] /\ h[0] = first
    BY <1>1, <1>2
  <1>4. h[n + 1] = step[<<n, g[n]>>] /\ \A i \in 0..n : h[i] = g[i]
    OBVIOUS
  <1> HIDE DEF h
  <1>5. ASSUME NEW i \in 0..n
        PROVE  h[i + 1] = step[<<i, h[i]>>]
    <2>1. CASE i = n
      <3>1. h[n] = g[n]
        BY <1>4
      <3>2. QED
        BY <1>4, <2>1, <3>1
    <2>2. CASE i # n
      <3>1. i \in 0..n - 1 /\ i + 1 \in 0..n
        BY <2>2
      <3>2. h[i + 1] = g[i + 1] /\ h[i] = g[i]
        BY <1>4, <3>1
      <3>3. g[i + 1] = step[<<i, g[i]>>]
        BY <1>1, <3>1
      <3>4. QED
        BY <3>2, <3>3
    <2>3. QED
      BY <2>1, <2>2
  <1>6. Fits(h, n + 1, S, first, step)
    BY <1>3, <1>5 DEF Fits
  <1>7. QED
    BY <1>6

LEMMA FitsAgree ==
  ASSUME NEW S, NEW first, NEW step, NEW n \in Nat, NEW m \in Nat, n <= m,
         NEW g, Fits(g, n, S, first, step), NEW h, Fits(h, m, S, first, step)
  PROVE  g[n] = h[n]
PROOF
  <1> DEFINE T == {i \in Nat : i <= n => g[i] = h[i]}
  <1>1. 0 \in T
    BY DEF Fits
  <1>2. ASSUME NEW i \in T
        PROVE  i + 1 \in T
    <2>1. CASE i + 1 <= n
      <3>1. i \in 0..n - 1 /\ i \in 0..m - 1 /\ g[i] = h[i]
        BY <2>1
      <3>2. g[i + 1] = step[<<i, g[i]>>]
        BY <3>1 DEF Fits
      <3>3. h[i + 1] = step[<<i, h[i]>>]
        BY <3>1 DEF Fits
      <3>4. QED
        BY <3>1, <3>2, <3>3
    <2>2. QED
      BY <2>1
  <1>3. T \in SUBSET Nat
    OBVIOUS
  <1> HIDE DEF T
  <1>4. T = Nat
    BY <1>1, <1>2, <1>3, Induction
  <1>5. QED
    BY <1>4 DEF T

Obeys(f, first, step) ==
  f[0] = first /\ \A n \in Nat : f[n + 1] = step[<<n, f[n]>>]

(* There is a function with a given value at 0 and a given step from each  *)
(* value to the next.                                                      *)
LEMMA Recursion ==
  ASSUME NEW S, NEW first \in S, NEW step \in [Nat \X S -> S]
  PROVE  \E f \in [Nat -> S] : Obeys(f, first, step)
PROOF
  <1> DEFINE T == {n \in Nat : \E g : Fits(g, n, S, first, step)}
  <1>1. 0 \in T
    <2>1. Fits([i \in 0..0 |-> first], 0, S, first, step)
      BY DEF Fits
    <2>2. QED
      BY <2>1
  <1>2. \A n \in T : n + 1 \in T
    BY Extended
  <1>3. T \in SUBSET Nat
    OBVIOUS
  <1> HIDE DEF T
  <1>4. T = Nat
    BY <1>1, <1>2, <1>3, Induction
  <1>5. \A n \in Nat : \E g : Fits(g, n, S, first, step)
    BY <1>4 DEF T
  <1> DEFINE some == [n \in Nat |-> CHOOSE g : Fits(g, n, S, first, step)]
             f == [n \in Nat |-> some[n][n]]
  <1>6. \A n \in Nat : Fits(some[n], n, S, first, step)
    BY <1>5
  <1> HIDE DEF some
  <1>7. \A n \in Nat : f[n] = some[n][n] /\ some[n][n] \in S
    BY <1>6 DEF Fits
  <1>8. f \in [Nat -> S] /\ f[0] = first
    BY <1>6, <1>7 DEF Fits
  <1>9. ASSUME NEW n \in Nat
        PROVE  f[n + 1] = step[<<n, f[n]>>]
    <2>1. some[n + 1][n + 1] = step[<<n, some[n + 1][n]>>]
      BY <1>6 DEF Fits
    <2>2. some[n][n] = some[n + 1][n]
      BY <1>6, FitsAgree
    <2>3. QED
      BY <1>7, <2>1, <2>2
  <1> HIDE DEF f
  <1>10. QED
    BY <1>8, <1>9 DEF Obeys

-----------------------------------------------------------------------------
(* Powers of two.                                                          *)

LEMMA Powers ==
  /\ Pow2 \in [Nat -> Nat]
  /\ Pow2[0] = 1
  /\ \A b \in Nat : Pow2[b + 1] = 2 * Pow2[b]
PROOF
  <1> DEFINE step == [p \in Nat \X Nat |-> 2 * p[2]]
  <1>1. step \in [Nat \X Nat -> Nat] /\ 1 \in Nat
    OBVIOUS
  <1>2. \A n, v \in Nat : step[<<n, v>>] = 2 * v
    OBVIOUS
  <1> HIDE DEF step
  <1>3. PICK f \in [Nat -> Nat] : Obeys(f, 1, step)
    BY <1>1, Recursion
  <1>4. f[0] = 1 /\ \A n \in Nat : f[n + 1] = 2 * f[n]
    BY <1>2, <1>3 DEF Obeys
  <1>5. \A b \in Nat : f[b] = IF b = 0 THEN 1 ELSE 2 * f[b - 1]
    <2>1. \A b \in Nat : b # 0 => b - 1 \in Nat /\ (b - 1) + 1 = b
      OBVIOUS
    <2>2. \A b \in Nat : b # 0 => f[b] = 2 * f[b - 1]
      BY <1>4, <2>1
    <2>3. QED
      BY <1>4, <2>2
  <1>6. f = [b \in Nat |-> IF b = 0 THEN 1 ELSE 2 * f[b - 1]]
    BY <1>3, <1>5
  <1>7. Pow2 = [b \in Nat |-> IF b = 0 THEN 1 ELSE 2 * Pow2[b - 1]]
    BY <1>6 DEF Pow2
  <1>8. \A b \in Nat : Pow2[b] = IF b = 0 THEN 1 ELSE 2 * Pow2[b - 1]
    BY <1>7
  <1>9. Pow2[0] = 1 /\ \A b \in Nat : Pow2[b + 1] = 2 * Pow2[b]
    <2>1. \A b \in Nat : b + 1 \in Nat /\ b + 1 # 0 /\ (b + 1) - 1 = b
      OBVIOUS
    <2>2. QED
      BY <1>8, <2>1
  <1> DEFINE T == {b \in Nat : Pow2[b] \in Nat}
  <1>10. 0 \in T /\ \A b \in T : b + 1 \in T
    BY <1>9
  <1>11. T \in SUBSET Nat
    OBVIOUS
  <1> HIDE DEF T
  <1>12. T = Nat
    BY <1>10, <1>11, Induction
  <1>13. \A b \in Nat : Pow2[b] \in Nat
    BY <1>12 DEF T
  <1>14. QED
    BY <1>7, <1>9, <1>13

LEMMA PowersGrow == \A b \in Nat : Pow2[b] > b
PROOF
  <1> DEFINE T == {b \in Nat : Pow2[b] > b}
  <1>1. 0 \in T /\ T \in SUBSET Nat
    BY Powers
  <1>2. ASSUME NEW b \in T
        PROVE  b + 1 \in T
    <2>1. b \in Nat /\ Pow2[b] \in Nat /\ Pow2[b] > b /\ Pow2[b + 1] = 2 * Pow2[b]
      BY Powers
    <2>2. QED
      BY <2>1
  <1> HIDE DEF T
  <1>3. T = Nat
    BY <1>1, <1>2, Induction
  <1>4. QED
    BY <1>3 DEF T

LEMMA PowersMultiply == \A a, b \in Nat : Pow2[a + b] = Pow2[a] * Pow2[b]
PROOF
  <1> SUFFICES ASSUME NEW a \in Nat
               PROVE  \A b \in Nat : Pow2[a + b] = Pow2[a] * Pow2[b]
    OBVIOUS
  <1> DEFINE T == {b \in Nat : Pow2[a + b] = Pow2[a] * Pow2[b]}
  <1>1. 0 \in T /\ T \in SUBSET Nat
    BY Powers
  <1>2. ASSUME NEW b \in T
        PROVE  b + 1 \in T
    <2>1. /\ b \in Nat /\ a + b \in Nat /\ Pow2[a] \in Nat /\ Pow2[b] \in Nat
          /\ Pow2[a + b] = Pow2[a] * Pow2[b]
      BY Powers
    <2>2. a + (b + 1) = (a + b) + 1
      BY <2>1
    <2>3. Pow2[a + (b + 1)] = 2 * Pow2[a + b] /\ Pow2[b + 1] = 2 * Pow2[b]
      BY <2>1, <2>2, Powers
    <2>4. 2 * (Pow2[a] * Pow2[b]) = Pow2[a] * (2 * Pow2[b])
      BY <2>1
    <2>5. QED
      BY <2>1, <2>3, <2>4
  <1> HIDE DEF T
  <1>3. T = Nat
    BY <1>1, <1>2, Induction
  <1>4. QED
    BY <1>3 DEF T

(* The mask is wide enough for every index, and no bit wider.              *)
LEMMA BitsNeededFit ==
  ASSUME NEW size \in Nat \ {0}
  PROVE  /\ BitsNeeded(size) \in Nat
         /\ size <= Pow2[BitsNeeded(size)]
         /\ Pow2[BitsNeeded(size)] < 2 * size
PROOF
  <1> DEFINE T == {b \in Nat : Pow2[b] >= size}
             B == BitsNeeded(size)
             Fit(b) == Pow2[b] >= size /\ (b = 0 \/ Pow2[b - 1] < size)
  <1>1. size \in T
    BY Powers, PowersGrow
  <1>2. PICK b \in T : \A c \in T : b <= c
    BY <1>1, LeastNatural
  <1>3. b \in 0..size /\ Fit(b)
    <2>1. b \in Nat /\ b <= size /\ Pow2[b] >= size
      BY <1>1, <1>2
    <2>2. CASE b # 0
      <3>1. b - 1 \in Nat /\ ~(b <= b - 1)
        BY <2>1, <2>2
      <3>2. Pow2[b - 1] \in Nat /\ ~(Pow2[b - 1] >= size)
        BY <1>2, <3>1, Powers
      <3>3. QED
        BY <2>1, <3>2
    <2>3. QED
      BY <2>1, <2>2
  <1>4. B \in 0..size /\ Fit(B)
    <2>1. B = CHOOSE c \in 0..size : Fit(c)
      BY DEF BitsNeeded
    <2>2. QED
      BY <1>3, <2>1
  <1> HIDE DEF B
  <1>5. Pow2[B] < 2 * size
    <2>1. CASE B = 0
      BY <2>1, Powers
    <2>2. CASE B # 0
      <3>1. B - 1 \in Nat /\ (B - 1) + 1 = B
        BY <1>4, <2>2
      <3>2. Pow2[B] = 2 * Pow2[B - 1] /\ Pow2[B - 1] \in Nat
        BY <3>1, Powers
      <3>3. QED
        BY <1>4, <2>2, <3>2
    <2>3. QED
      BY <2>1, <2>2
  <1>6. Pow2[B] \in Nat
    BY <1>4, Powers
  <1>7. QED
    BY <1>4, <1>5, <1>6 DEF B

-----------------------------------------------------------------------------
(* The shifts of the loop: every value that fits is that of exactly one    *)
(* string of bytes.                                                        *)

Base == Pow2[ByteBits]
Strings(n) == [1..n -> 0..Base - 1]

LEMMA BaseIsPositive == Base \in Nat \ {0}
BY BytesHaveBits, Powers, PowersGrow DEF Base

LEMMA ShiftedSteps ==
  ASSUME NEW n \in Nat, NEW bytes \in Strings(n)
  PROVE  /\ Shifted(n, bytes) \in [0..n -> Nat]
         /\ Shifted(n, bytes)[0] = 0
         /\ \A i \in 0..n - 1 :
              Shifted(n, bytes)[i + 1] = Shifted(n, bytes)[i] * Base + bytes[i + 1]
PROOF
  <1> DEFINE byte == [i \in Nat |-> IF i \in 1..n THEN bytes[i] ELSE 0]
             step == [p \in Nat \X Nat |-> p[2] * Base + byte[p[1] + 1]]
  <1>1. byte \in [Nat -> Nat] /\ \A i \in 1..n : byte[i] = bytes[i]
    BY BaseIsPositive DEF Strings
  <1> HIDE DEF byte
  <1>2. step \in [Nat \X Nat -> Nat] /\ 0 \in Nat
    BY <1>1, BaseIsPositive
  <1>3. \A i, v \in Nat : step[<<i, v>>] = v * Base + byte[i + 1]
    OBVIOUS
  <1> HIDE DEF step
  <1>4. PICK f \in [Nat -> Nat] : Obeys(f, 0, step)
    BY <1>2, Recursion
  <1>5. f[0] = 0 /\ \A i \in Nat : f[i + 1] = f[i] * Base + byte[i + 1]
    BY <1>3, <1>4 DEF Obeys
  <1> DEFINE g == [i \in 0..n |-> f[i]]
  <1>6. \A i \in 0..n : g[i] = IF i = 0 THEN 0 ELSE g[i - 1] * Base + bytes[i]
    <2> SUFFICES ASSUME NEW i \in 0..n, i # 0
                 PROVE  g[i] = g[i - 1] * Base + bytes[i]
      BY <1>5
    <2>1. i - 1 \in Nat /\ i - 1 \in 0..n /\ (i - 1) + 1 = i /\ i \in 1..n
      OBVIOUS
    <2>2. f[i] = f[i - 1] * Base + byte[i]
      BY <1>5, <2>1
    <2>3. QED
      BY <1>1, <2>1, <2>2
  <1>7. g = [i \in 0..n |-> IF i = 0 THEN 0 ELSE g[i - 1] * Base + bytes[i]]
    BY <1>6
  <1> HIDE DEF g
  <1> DEFINE v == Shifted(n, bytes)
  <1>8. v = [i \in 0..n |-> IF i = 0 THEN 0 ELSE v[i - 1] * Base + bytes[i]]
    BY <1>7 DEF Shifted, Base
  <1> HIDE DEF v
  <1>9. \A i \in 0..n : v[i] = IF i = 0 THEN 0 ELSE v[i - 1] * Base + bytes[i]
    BY <1>8
  <1>10. v[0] = 0 /\ \A i \in 0..n - 1 : v[i + 1] = v[i] * Base + bytes[i + 1]
    <2>1. 0 \in 0..n /\ \A i \in 0..n - 1 : i + 1 \in 0..n /\ i + 1 # 0 /\ (i + 1) - 1 = i
      OBVIOUS
    <2>2. QED
      BY <1>9, <2>1
  <1> DEFINE T == {i \in Nat : i <= n => v[i] \in Nat}
  <1>11. 0 \in T /\ T \in SUBSET Nat
    BY <1>10
  <1>12. ASSUME NEW i \in T
         PROVE  i + 1 \in T
    <2> SUFFICES ASSUME i + 1 <= n
                 PROVE  v[i + 1] \in Nat
      OBVIOUS
    <2>1. i \in 0..n - 1 /\ i + 1 \in 1..n /\ v[i] \in Nat
      OBVIOUS
    <2>2. v[i + 1] = v[i] * Base + bytes[i + 1] /\ bytes[i + 1] \in Nat
      BY <1>10, <2>1, BaseIsPositive DEF Strings
    <2>3. QED
      BY <2>1, <2>2, BaseIsPositive
  <1> HIDE DEF T
  <1>13. T = Nat
    BY <1>11, <1>12, Induction
  <1>14. \A i \in 0..n : v[i] \in Nat
    BY <1>13 DEF T
  <1>15. v \in [0..n -> Nat]
    BY <1>8, <1>14
  <1>16. QED
    BY <1>10, <1>15 DEF v

LEMMA ShiftedBound ==
  ASSUME NEW n \in Nat, NEW bytes \in Strings(n)
  PROVE  \A i \in 0..n : Shifted(n, bytes)[i] \in 0..Pow2[i * ByteBits] - 1
PROOF
  <1> DEFINE v == Shifted(n, bytes)
  <1>1. /\ v \in [0..n -> Nat] /\ v[0] = 0
        /\ \A i \in 0..n - 1 : v[i + 1] = v[i] * Base + bytes[i + 1]
    BY ShiftedSteps
  <1>2. \A i \in 0..n - 1 : bytes[i + 1] \in 0..Base - 1
    BY DEF Strings
  <1> HIDE DEF v
  <1>3. \A i \in Nat : i * ByteBits \in Nat /\ Pow2[i * ByteBits] \in Nat
    <2>1. \A i \in Nat : i * ByteBits \in Nat
      BY BytesHaveBits
    <2>2. QED
      BY <2>1, Powers
  <1> DEFINE T == {i \in Nat : i <= n => v[i] < Pow2[i * ByteBits]}
  <1>4. 0 \in T /\ T \in SUBSET Nat
    <2>1. Pow2[0 * ByteBits] = 1
      BY BytesHaveBits, Powers
    <2>2. QED
      BY <1>1, <2>1
  <1>5. ASSUME NEW i \in T
        PROVE  i + 1 \in T
    <2> SUFFICES ASSUME i + 1 <= n
                 PROVE  v[i + 1] < Pow2[(i + 1) * ByteBits]
      OBVIOUS
    <2>1. i \in Nat /\ i \in 0..n - 1 /\ v[i] < Pow2[i * ByteBits]
      OBVIOUS
    <2>2. v[i + 1] = v[i] * Base + bytes[i + 1] /\ bytes[i + 1] \in 0..Base - 1 /\ v[i] \in Nat
      BY <1>1, <1>2, <2>1
    <2>3. i * ByteBits \in Nat /\ (i + 1) * ByteBits = i * ByteBits + ByteBits
      BY <2>1, BytesHaveBits
    <2>4. Pow2[(i + 1) * ByteBits] = Pow2[i * ByteBits] * Base /\ Pow2[i * ByteBits] \in Nat
      BY <2>3, BytesHaveBits, Powers, PowersMultiply DEF Base
    <2>5. (v[i] + 1) * Base <= Pow2[i * ByteBits] * Base
      BY <2>1, <2>2, <2>4, BaseIsPositive
    <2>6. (v[i] + 1) * Base = v[i] * Base + Base /\ v[i] * Base \in Nat
      BY <2>2, BaseIsPositive
    <2>7. QED
      BY <2>2, <2>4, <2>5, <2>6, BaseIsPositive
  <1> HIDE DEF T
  <1>6. T = Nat
    BY <1>4, <1>5, Induction
  <1>7. \A i \in 0..n : v[i] < Pow2[i * ByteBits]
    BY <1>6 DEF T
  <1>8. ASSUME NEW i \in 0..n
        PROVE  v[i] \in 0..Pow2[i * ByteBits] - 1
    <2>1. v[i] \in Nat /\ i \in Nat /\ v[i] < Pow2[i * ByteBits]
      BY <1>1, <1>7
    <2>2. Pow2[i * ByteBits] \in Nat
      BY <1>3, <2>1
    <2>3. QED
      BY <2>1, <2>2
  <1>9. QED
    BY <1>8 DEF v

LEMMA SameDigits ==
  ASSUME NEW a \in Nat, NEW b \in Nat, NEW r \in 0..Base - 1, NEW s \in 0..Base - 1,
         a * Base + r = b * Base + s
  PROVE  a = b /\ r = s
PROOF
  <1>1. Base \in Nat \ {0} /\ r \in Nat /\ s \in Nat /\ r < Base /\ s < Base
    BY BaseIsPositive
  <1> HIDE DEF Base
  <1>2. QED
    BY <1>1

(* What the loop has read decides the value and is decided by it.          *)
LEMMA ShiftedDecides ==
  ASSUME NEW n \in Nat, NEW a \in Strings(n), NEW b \in Strings(n)
  PROVE  \A i \in 0..n :
           Shifted(n, a)[i] = Shifted(n, b)[i] <=> \A j \in 1..i : a[j] = b[j]
PROOF
  <1> DEFINE v == Shifted(n, a)
             w == Shifted(n, b)
             T == {i \in Nat : i <= n => (v[i] = w[i] <=> \A j \in 1..i : a[j] = b[j])}
  <1>1. 0 \in T /\ T \in SUBSET Nat
    BY ShiftedSteps
  <1>2. ASSUME NEW i \in T
        PROVE  i + 1 \in T
    <2> SUFFICES ASSUME i + 1 <= n
                 PROVE  v[i + 1] = w[i + 1] <=> \A j \in 1..i + 1 : a[j] = b[j]
      OBVIOUS
    <2>1. /\ i \in 0..n - 1 /\ i + 1 \in 1..n
          /\ v[i] = w[i] <=> \A j \in 1..i : a[j] = b[j]
      OBVIOUS
    <2>2. /\ v[i + 1] = v[i] * Base + a[i + 1]
          /\ w[i + 1] = w[i] * Base + b[i + 1]
          /\ v[i] \in Nat /\ w[i] \in Nat
      BY <2>1, ShiftedSteps
    <2>3. a[i + 1] \in 0..Base - 1 /\ b[i + 1] \in 0..Base - 1
      BY <2>1 DEF Strings
    <2> HIDE DEF v, w
    <2>4. v[i + 1] = w[i + 1] <=> v[i] = w[i] /\ a[i + 1] = b[i + 1]
      BY <2>2, <2>3, SameDigits
    <2>5. 1..i + 1 = (1..i) \cup {i + 1}
      BY <2>1
    <2>6. QED
      BY <2>1, <2>4, <2>5
  <1> HIDE DEF T
  <1>3. T = Nat
    BY <1>1, <1>2, Induction
  <1>4. QED
    BY <1>3 DEF T

LEMMA ShiftedOnto ==
  ASSUME NEW n \in Nat
  PROVE  \A i \in 0..n : \A x \in 0..Pow2[i * ByteBits] - 1 :
           \E bytes \in Strings(n) : Shifted(n, bytes)[i] = x
PROOF
  <1> DEFINE Hits(i) == \A x \in 0..Pow2[i * ByteBits] - 1 :
                          \E bytes \in Strings(n) : Shifted(n, bytes)[i] = x
             T == {i \in Nat : i <= n => Hits(i)}
  <1>1. 0 \in T
    <2>1. Pow2[0 * ByteBits] = 1
      BY BytesHaveBits, Powers
    <2>2. [j \in 1..n |-> 0] \in Strings(n)
      BY BaseIsPositive DEF Strings
    <2>3. Shifted(n, [j \in 1..n |-> 0])[0] = 0
      BY <2>2, ShiftedSteps
    <2>4. QED
      BY <2>1, <2>2, <2>3
  <1>2. ASSUME NEW i \in T
        PROVE  i + 1 \in T
    <2> SUFFICES ASSUME i + 1 <= n, NEW x \in 0..Pow2[(i + 1) * ByteBits] - 1
                 PROVE  \E bytes \in Strings(n) : Shifted(n, bytes)[i + 1] = x
      OBVIOUS
    <2>1. i \in 0..n - 1 /\ i \in 0..n /\ i + 1 \in 1..n /\ Hits(i)
      OBVIOUS
    <2> HIDE DEF Hits
    <2>2. i * ByteBits \in Nat /\ (i + 1) * ByteBits = i * ByteBits + ByteBits
      BY <2>1, BytesHaveBits
    <2> DEFINE P == Pow2[i * ByteBits]
    <2>3. Pow2[(i + 1) * ByteBits] = P * Base /\ P \in Nat
      BY <2>2, BytesHaveBits, Powers, PowersMultiply DEF Base
    <2> DEFINE y == x \div Base
               r == x % Base
    <2>4. x \in Nat /\ x < P * Base
      BY <2>3, BaseIsPositive
    <2> HIDE DEF P
    <2>5. x = y * Base + r /\ r \in 0..Base - 1 /\ y \in Nat
      BY <2>4, BaseIsPositive
    <2> HIDE DEF y, r
    <2>6. y < P
      BY <2>3, <2>4, <2>5, BaseIsPositive
    <2>7. PICK a \in Strings(n) : Shifted(n, a)[i] = y
      <3>1. y \in 0..Pow2[i * ByteBits] - 1
        BY <2>3, <2>5, <2>6 DEF P
      <3>2. QED
        BY <2>1, <3>1 DEF Hits
    <2> DEFINE b == [a EXCEPT ![i + 1] = r]
    <2>8. b \in Strings(n) /\ b[i + 1] = r /\ \A j \in 1..i : b[j] = a[j]
      BY <2>1, <2>5 DEF Strings
    <2> HIDE DEF b
    <2>9. Shifted(n, b)[i] = y
      BY <2>1, <2>7, <2>8, ShiftedDecides
    <2>10. Shifted(n, b)[i + 1] = x
      BY <2>1, <2>5, <2>8, <2>9, ShiftedSteps
    <2>11. QED
      BY <2>8, <2>10
  <1>3. T \in SUBSET Nat
    OBVIOUS
  <1> HIDE DEF T
  <1>4. T = Nat
    BY <1>1, <1>2, <1>3, Induction
  <1>5. QED
    BY <1>4 DEF T

-----------------------------------------------------------------------------
(* Counting the strings.                                                   *)

Value(n, bytes) == Shifted(n, bytes)[n]

LEMMA OneStringPerValue ==
  ASSUME NEW n \in Nat
  PROVE  /\ \A a \in Strings(n) : Value(n, a) \in 0..Pow2[n * ByteBits] - 1
         /\ \A a, b \in Strings(n) : Value(n, a) = Value(n, b) => a = b
         /\ \A x \in 0..Pow2[n * ByteBits] - 1 : \E a \in Strings(n) : Value(n, a) = x
PROOF
  <1>1. n \in 0..n
    OBVIOUS
  <1>2. \A a \in Strings(n) : Value(n, a) \in 0..Pow2[n * ByteBits] - 1
    BY <1>1, ShiftedBound DEF Value
  <1>3. ASSUME NEW a \in Strings(n), NEW b \in Strings(n), Value(n, a) = Value(n, b)
        PROVE  a = b
    <2>1. \A j \in 1..n : a[j] = b[j]
      BY <1>1, <1>3, ShiftedDecides DEF Value
    <2>2. QED
      BY <2>1 DEF Strings
  <1>4. \A x \in 0..Pow2[n * ByteBits] - 1 : \E a \in Strings(n) : Value(n, a) = x
    BY <1>1, ShiftedOnto DEF Value
  <1>5. QED
    BY <1>2, <1>3, <1>4

LEMMA Remainders ==
  ASSUME NEW M \in Nat \ {0}, NEW i \in 0..M - 1
  PROVE  /\ \A q \in Nat : (q * M + i) % M = i
         /\ \A x \in Nat : x % M = i => x = (x \div M) * M + i /\ x \div M \in Nat
         /\ \A p, q \in Nat : p * M + i = q * M + i => p = q
OBVIOUS

\* The strings whose value leaves i when divided by M.
Part(n, M, i) == {b \in Strings(n) : Value(n, b) % M = i}

(* A divisor M of the number of strings splits them into equal parts, one  *)
(* for each remainder of their values.                                     *)
LEMMA EqualParts ==
  ASSUME NEW n \in Nat, NEW M \in Nat \ {0}, NEW Q \in Nat \ {0},
         M * Q = Pow2[n * ByteBits], NEW i \in 0..M - 1
  PROVE  Cardinality(Part(n, M, i)) = Q
PROOF
  <1> DEFINE part == Part(n, M, i)
             g == [q \in 0..Q - 1 |-> CHOOSE b \in Strings(n) : Value(n, b) = q * M + i]
  <1>1. ASSUME NEW q \in 0..Q - 1
        PROVE  q * M + i \in 0..Pow2[n * ByteBits] - 1
    <2>1. q \in Nat /\ q + 1 <= Q /\ (q + 1) * M <= Q * M
      OBVIOUS
    <2>2. (q + 1) * M = q * M + M /\ Q * M = M * Q /\ q * M \in Nat
      BY <2>1
    <2>3. QED
      BY <2>1, <2>2
  <1>2. ASSUME NEW q \in 0..Q - 1
        PROVE  g[q] \in Strings(n) /\ Value(n, g[q]) = q * M + i
    BY <1>1, OneStringPerValue
  <1>3. \A q \in 0..Q - 1 : g[q] \in part
    <2>1. \A q \in 0..Q - 1 : (q * M + i) % M = i
      BY Remainders
    <2>2. QED
      BY <1>2, <2>1 DEF Part
  <1>4. g \in [0..Q - 1 -> part]
    BY <1>3
  <1> HIDE DEF g
  <1>5. ASSUME NEW p \in 0..Q - 1, NEW q \in 0..Q - 1, g[p] = g[q]
        PROVE  p = q
    <2>1. p \in Nat /\ q \in Nat /\ p * M + i = q * M + i
      BY <1>2, <1>5
    <2>2. QED
      BY <2>1, Remainders
  <1>6. ASSUME NEW b \in part
        PROVE  \E q \in 0..Q - 1 : g[q] = b
    <2> DEFINE x == Value(n, b)
               q == x \div M
    <2>1. b \in Strings(n) /\ x % M = i
      BY DEF Part
    <2>2. x \in 0..M * Q - 1 /\ M * Q \in Nat
      BY <2>1, OneStringPerValue
    <2> HIDE DEF x
    <2>3. x \in Nat /\ x < M * Q
      BY <2>2
    <2>4. x = q * M + i /\ q \in Nat
      BY <2>1, <2>3, Remainders
    <2> HIDE DEF q
    <2>5. q < Q
      BY <2>3, <2>4
    <2>6. q \in 0..Q - 1
      BY <2>4, <2>5
    <2>7. g[q] \in Strings(n) /\ Value(n, g[q]) = Value(n, b)
      BY <1>2, <2>4, <2>6 DEF x
    <2>8. QED
      BY <2>1, <2>6, <2>7, OneStringPerValue
  <1> HIDE DEF part
  <1>7. g \in Bijection(0..Q - 1, part)
    BY <1>4, <1>5, <1>6 DEF Bijection, Injection, Surjection, IsInjective
  <1>8. IsFiniteSet(0..Q - 1) /\ Cardinality(0..Q - 1) = Q
    BY FS_Interval
  <1>9. Cardinality(part) = Q
    BY <1>7, <1>8, FS_Bijection DEF ExistsBijection
  <1>10. QED
    BY <1>9 DEF part

LEMMA BytesHoldTheBits ==
  ASSUME NEW size \in Nat \ {0}
  PROVE  /\ BytesNeeded(size) \in Nat
         /\ BytesNeeded(size) * ByteBits - BitsNeeded(size) \in Nat
PROOF
  <1> DEFINE B == BitsNeeded(size)
             x == B + ByteBits - 1
  <1>1. B \in Nat /\ ByteBits \in Nat \ {0}
    BY BitsNeededFit, BytesHaveBits
  <1> HIDE DEF B
  <1>2. x \in Nat /\ x \div ByteBits \in Nat
    BY <1>1
  <1>3. x = (x \div ByteBits) * ByteBits + (x % ByteBits) /\ x % ByteBits \in 0..ByteBits - 1
    BY <1>1, <1>2
  <1>4. (x \div ByteBits) * ByteBits \in Nat
    BY <1>1, <1>2
  <1>5. (x \div ByteBits) * ByteBits >= B
    BY <1>1, <1>3, <1>4
  <1>6. QED
    BY <1>1, <1>2, <1>4, <1>5 DEF BytesNeeded, B

(* Every index is as likely as every other, and a round picks one of them  *)
(* with more than one chance in two: for lists of any length, bytes of any *)
(* width (uniformRandomIndex, diceware.ts:54-67).                          *)
THEOREM EveryIndexAlike ==
  ASSUME NEW size \in Nat \ {0}, NEW i \in 0..size - 1
  PROVE  /\ Ways(size, i) = Ways(size, 0)
         /\ 2 * size * Ways(size, i) > Cardinality(Bytes(size))
PROOF
  <1> DEFINE B == BitsNeeded(size)
             n == BytesNeeded(size)
             M == Pow2[B]
             Q == Pow2[n * ByteBits - B]
  <1>1. B \in Nat /\ size <= M /\ M < 2 * size
    BY BitsNeededFit
  <1>2. n \in Nat /\ n * ByteBits - B \in Nat
    BY BytesHoldTheBits
  <1>3. M \in Nat \ {0} /\ Q \in Nat \ {0} /\ M * Q = Pow2[n * ByteBits]
    <2>1. M \in Nat \ {0} /\ Q \in Nat \ {0}
      BY <1>1, <1>2, Powers, PowersGrow
    <2>2. B + (n * ByteBits - B) = n * ByteBits
      BY <1>1, <1>2, BytesHaveBits
    <2>3. QED
      BY <1>1, <1>2, <2>1, <2>2, PowersMultiply
  <1>4. Bytes(size) = Strings(n)
    BY DEF Bytes, Strings, Base
  <1>5. \A b \in Strings(n) : Masked(size, b) = Value(n, b) % M
    BY DEF Masked, Value
  <1> HIDE DEF B, n, M, Q
  <1>6. \A b \in Strings(n) : Value(n, b) \in Nat
    BY <1>2, <1>3, OneStringPerValue
  <1>7. ASSUME NEW j \in 0..size - 1
        PROVE  Ways(size, j) = Q
    <2>1. j \in 0..M - 1
      BY <1>1, <1>3
    <2>2. ASSUME NEW b \in Strings(n)
          PROVE  Index(size, b) = j <=> Value(n, b) % M = j
      <3>1. Masked(size, b) = Value(n, b) % M /\ Value(n, b) % M \in Nat
        BY <1>3, <1>5, <1>6
      <3>2. Rejected # j
        BY RejectedIsNoIndex
      <3>3. QED
        BY <3>1, <3>2 DEF Index
    <2>3. {b \in Strings(n) : Index(size, b) = j} = Part(n, M, j)
      BY <2>2 DEF Part
    <2>4. Cardinality(Part(n, M, j)) = Q
      BY <1>2, <1>3, <2>1, EqualParts
    <2>5. QED
      BY <1>4, <2>3, <2>4 DEF Ways
  <1>8. Cardinality(Strings(n)) = M * Q
    <2>1. 1 \in Nat \ {0} /\ M * Q \in Nat \ {0} /\ 1 * (M * Q) = Pow2[n * ByteBits] /\ 0 \in 0..1 - 1
      BY <1>3
    <2>2. Cardinality(Part(n, 1, 0)) = M * Q
      BY <1>2, <2>1, EqualParts
    <2>3. Part(n, 1, 0) = Strings(n)
      BY <1>6 DEF Part
    <2>4. QED
      BY <2>2, <2>3
  <1>9. Ways(size, i) = Q /\ Ways(size, 0) = Q
    BY <1>7
  <1>10. 2 * size * Q > M * Q
    BY <1>1, <1>3
  <1>11. QED
    BY <1>4, <1>8, <1>9, <1>10
=============================================================================
