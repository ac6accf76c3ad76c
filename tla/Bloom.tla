------------------------------- MODULE Bloom --------------------------------
(***************************************************************************)
(* The Bloom filter of internal/bloom: hashCount positions per item, from  *)
(* one 64-bit hash and the same hash with its halves swapped.              *)
(*                                                                         *)
(* The word of the hash is Half * Half; the code's is 2^32 * 2^32.  The    *)
(* hash function (FNV-1a) and the arguments of NewBloomFilter are chosen   *)
(* freely at the start: what is said here holds for all of them.  Which    *)
(* arguments OptimalParams computes is in BloomParams.                     *)
(***************************************************************************)
EXTENDS Integers

CONSTANTS
  Items,         \* what may be added or looked up
  Half,          \* number of values of half a hash word
  MaxSize,       \* bound of the model: numbers of bits to choose from
  MaxHashCount   \* bound of the model: numbers of positions to choose from

ASSUME HalfIsPositive == Half \in Nat \ {0}
ASSUME BoundsAreNumbers == MaxSize \in Nat /\ MaxHashCount \in Nat

VARIABLES
  hash,        \* the hash function
  size,        \* number of bits
  hashCount,   \* number of positions of an item
  byteSize,    \* length of the array of bytes
  bitSet,      \* the bits that are set, as pairs of a byte and a bit in it
  added        \* history: the items added

blvars == <<hash, size, hashCount, byteSize, bitSet, added>>

Word == Half * Half

-----------------------------------------------------------------------------
(* The hash with its halves swapped.                                       *)
Swapped(h) == (h \div Half) + (h % Half) * Half

Position(x, i) == ((hash[x] + i * Swapped(hash[x])) % Word) % size

(* The bits of an item.                                                    *)
Bits(x) ==
  {<<Position(x, i) \div 8, Position(x, i) % 8>> : i \in 0..(hashCount - 1)}

(* Fault: a bit is toggled, not set.                                       *)
AddToggles(x) ==
  /\ bitSet' = (bitSet \ Bits(x)) \cup (Bits(x) \ bitSet)
  /\ added' = added \cup {x}
  /\ UNCHANGED <<hash, size, hashCount, byteSize>>

Add(x) ==
  /\ bitSet' = bitSet \cup Bits(x)
  /\ added' = added \cup {x}
  /\ UNCHANGED <<hash, size, hashCount, byteSize>>

Check(x) == Bits(x) \subseteq bitSet

-----------------------------------------------------------------------------
(* Fault: the last, partial byte is left out.                              *)
BytesForFloor(m) == m \div 8

BytesFor(m) == (m + 7) \div 8

(* No filter is without bits or positions.                                 *)
NewBloomFilter(m, k) ==
  /\ size = IF m = 0 THEN 8 ELSE m
  /\ hashCount = IF k = 0 THEN 1 ELSE k
  /\ byteSize = BytesFor(size)
  /\ bitSet = {}

Init ==
  /\ hash \in [Items -> 0..(Word - 1)]
  /\ \E m \in 0..MaxSize, k \in 0..MaxHashCount : NewBloomFilter(m, k)
  /\ added = {}

Next == \E x \in Items : Add(x)

Spec == Init /\ [][Next]_blvars

TypeOK ==
  /\ hash \in [Items -> 0..(Word - 1)]
  /\ size \in Nat \ {0}
  /\ hashCount \in Nat \ {0}
  /\ byteSize \in Nat
  /\ bitSet \subseteq Nat \X (0..7)
  /\ added \subseteq Items

-----------------------------------------------------------------------------
(* An item that has been added is found, whatever has been added since:    *)
(* sst.Get, which asks the filter first, misses no key for it.             *)
NoFalseNegative == \A x \in added : Check(x)

(* Add and Check index the array of bytes within its bounds.               *)
InBounds ==
  \A x \in Items : \A b \in Bits(x) : b[1] \in 0..(byteSize - 1)
=============================================================================
