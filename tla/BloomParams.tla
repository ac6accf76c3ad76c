---------------------------- MODULE BloomParams -----------------------------
(***************************************************************************)
(* The filters OptimalParams makes: NewWriter asks it for one of Capacity  *)
(* elements at FalsePositiveRate.                                          *)
(*                                                                         *)
(* numElements is an unsigned integer and -numElements is taken before the *)
(* conversion to floating point: it wraps around to Word - numElements.    *)
(* The product with the (negative) logarithm of the rate is then negative, *)
(* and what its conversion to an unsigned integer gives is up to the       *)
(* build: 0 where the conversion saturates (arm64), half the word on amd64.*)
(***************************************************************************)
EXTENDS Bloom

CONSTANTS
  MaxElements,  \* bound of the model: numbers of elements to ask for
  MaxAlloc      \* longest array of bytes the runtime makes

VARIABLES
  numElements,  \* what the filter is asked for
  panicked      \* whether making its array of bytes panicked

pvars == <<hash, size, hashCount, byteSize, bitSet, added, numElements, panicked>>

(* The smallest integer at or above a / b.                                 *)
CeilDiv(a, b) == -((-a) \div b)

(* At FalsePositiveRate, 0.01: -ln(rate) / ln(2)^2 bits for an element and *)
(* ln(2) times their number positions, in thousandths.                     *)
BitsPerElement == 9585
LnTwo == 693

(* The integers an unsigned conversion may give.                           *)
Unsigned(x) == IF x \in 0..(Word - 1) THEN {x} ELSE {0, Word \div 2}

Negated(n) == (Word - n) % Word

OptimalBits(n) ==
  IF n = 0 THEN {8} ELSE Unsigned(CeilDiv(-(Negated(n) * BitsPerElement), 1000))

OptimalHashes(n, m) ==
  IF n = 0 THEN {1} ELSE Unsigned(CeilDiv(LnTwo * m, 1000 * n))

ParamsInit ==
  /\ hash \in [Items -> {0}]
  /\ numElements \in 0..MaxElements
  /\ \E m \in OptimalBits(numElements) : \E k \in OptimalHashes(numElements, m) :
       NewBloomFilter(m, k)
  /\ panicked = (byteSize > MaxAlloc)
  /\ added = {}

ParamsNext ==
  /\ ~panicked
  /\ Next
  /\ UNCHANGED <<numElements, panicked>>

ParamsSpec == ParamsInit /\ [][ParamsNext]_pvars

(* A filter made for a number of elements has the bits it takes to hold    *)
(* them at FalsePositiveRate.                                              *)
SizedForRate ==
  ~panicked /\ size >= CeilDiv(numElements * BitsPerElement, 1000)
=============================================================================
