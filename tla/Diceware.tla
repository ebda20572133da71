------------------------------ MODULE Diceware ------------------------------
(***************************************************************************)
(* uniformRandomIndex (generator/diceware.ts), which picks every word and  *)
(* every digit of a generated passphrase.  A byte has ByteBits bits, 8 in  *)
(* the code; fewer make the same borders reachable with few byte strings.  *)
(* Lists of up to 2^24 words need three bytes, so the 32 bits of the shift *)
(* are never exceeded.                                                     *)
(***************************************************************************)
EXTENDS Integers, Sequences, FiniteSets

CONSTANTS ByteBits, Rejected

ASSUME BytesHaveBits == ByteBits \in Nat \ {0}
ASSUME RejectedIsNoIndex == Rejected \notin Nat

\* 1 << b.
Pow2[b \in Nat] == IF b = 0 THEN 1 ELSE 2 * Pow2[b - 1]

BitsRoundedDown(size) ==
  CHOOSE b \in 0..size : Pow2[b] <= size /\ Pow2[b + 1] > size
\* Math.ceil(Math.log2(size)).
BitsNeeded(size) ==
  CHOOSE b \in 0..size : Pow2[b] >= size /\ (b = 0 \/ Pow2[b - 1] < size)

BytesNeeded(size) == (BitsNeeded(size) + ByteBits - 1) \div ByteBits

Bytes(size) == [1..BytesNeeded(size) -> 0..Pow2[ByteBits] - 1]

\* The value of the loop's variable after each of the bytes.
Shifted(n, bytes) ==
  LET value[i \in 0..n] ==
        IF i = 0 THEN 0 ELSE value[i - 1] * Pow2[ByteBits] + bytes[i]
  IN  value

Masked(size, bytes) ==
  Shifted(BytesNeeded(size), bytes)[BytesNeeded(size)] % Pow2[BitsNeeded(size)]

(* One round of the loop: an index, or another round.                      *)
Index(size, bytes) ==
  IF Masked(size, bytes) < size THEN Masked(size, bytes) ELSE Rejected

(* How many of the equally likely byte strings a round turns into i.       *)
Ways(size, i) == Cardinality({bytes \in Bytes(size) : Index(size, bytes) = i})
=============================================================================
