------------------------------ MODULE Roaring -------------------------------
(***************************************************************************)
(* The bitmaps of internal/roaring, which hold the answers of queries and  *)
(* all documents of the index: sets of numbers kept as one container per   *)
(* high half, ascending; a container is a sorted array of low halves while *)
(* it is small and an array of bits when it has more than maxArrayLen.     *)
(*                                                                         *)
(* The bits of a container are the set of the positions that are set.      *)
(* Operations return bitmaps that share nothing with their arguments (the  *)
(* containers they keep are cloned): bitmaps are values here.              *)
(***************************************************************************)
EXTENDS Integers, Sequences, SequencesExt, FiniteSets

CONSTANTS
  Highs,         \* the high halves numbers have
  Lows,          \* the low halves
  MaxArrayLen,   \* longest array of a container
  Magic          \* the first word of an encoded bitmap

ASSUME HalvesAreNumbers == Highs \subseteq Nat /\ Lows \subseteq Nat
ASSUME MaxArrayLenIsPositive == MaxArrayLen \in Nat \ {0}

VARIABLES
  bitmap,   \* two bitmaps: a sequence of containers each, ascending
  holds     \* history: the set each was made to hold

rvars == <<bitmap, holds>>

Regs == {1, 2}

Numbers == Highs \X Lows

-----------------------------------------------------------------------------
(* Containers.                                                             *)
(* The elements in ascending order: before the n-th are n - 1.             *)
Sorted(s) ==
  [n \in 1..Cardinality(s) |-> CHOOSE x \in s : Cardinality({y \in s : y < x}) = n - 1]

ArrayOf(arr) == [kind |-> "array", arr |-> arr, bits |-> {}, count |-> Len(arr)]

ToBits(c) == IF c.kind = "array" THEN ToSet(c.arr) ELSE c.bits

(* Fault: an array of maxArrayLen is made bits already.                    *)
FromBitsEarly(bits) ==
  IF Cardinality(bits) < MaxArrayLen
    THEN ArrayOf(Sorted(bits))
    ELSE [kind |-> "bitmap", arr |-> <<>>, bits |-> bits, count |-> Cardinality(bits)]

FromBits(bits) ==
  IF Cardinality(bits) <= MaxArrayLen
    THEN ArrayOf(Sorted(bits))
    ELSE [kind |-> "bitmap", arr |-> <<>>, bits |-> bits, count |-> Cardinality(bits)]

(* The place of a value in an ascending array: the binary search.          *)
LowerBound(arr, v) == Cardinality({i \in DOMAIN arr : arr[i] < v}) + 1

InArray(arr, v) ==
  LET lo == LowerBound(arr, v) IN lo <= Len(arr) /\ arr[lo] = v

Promoted(c) == [c EXCEPT !.kind = "bitmap", !.bits = ToSet(c.arr), !.arr = <<>>]

AddToArray(c, v) ==
  LET arr   == InsertAt(c.arr, LowerBound(c.arr, v), v)
      grown == [c EXCEPT !.arr = arr, !.count = @ + 1]
  IN  IF InArray(c.arr, v) THEN c
      ELSE IF Len(arr) > MaxArrayLen THEN Promoted(grown)
      ELSE grown

AddToBitmap(c, v) ==
  IF v \in c.bits THEN c ELSE [c EXCEPT !.bits = @ \cup {v}, !.count = @ + 1]

ContainerContains(c, v) ==
  IF c.kind = "array" THEN InArray(c.arr, v) ELSE v \in c.bits

(* Two indices, each within an array or behind it.                         *)
Indices(a, b) == (1..(Len(a) + 1)) \X (1..(Len(b) + 1))

(* Fault: both arrays go on after a mismatch.                              *)
AndArraysSkips(a, b) ==
  LET both[at \in Indices(a, b)] ==
        LET i == at[1]
            j == at[2]
        IN  IF i > Len(a) \/ j > Len(b) THEN <<>>
            ELSE (IF a[i] = b[j] THEN <<a[i]>> ELSE <<>>) \o both[<<i + 1, j + 1>>]
  IN  both[<<1, 1>>]

AndArrays(a, b) ==
  LET both[at \in Indices(a, b)] ==
        LET i == at[1]
            j == at[2]
        IN  IF i > Len(a) \/ j > Len(b) THEN <<>>
            ELSE IF a[i] = b[j] THEN <<a[i]>> \o both[<<i + 1, j + 1>>]
            ELSE IF a[i] < b[j] THEN both[<<i + 1, j>>]
            ELSE both[<<i, j + 1>>]
  IN  both[<<1, 1>>]

AndNotArrays(a, b) ==
  LET rest[at \in Indices(a, b)] ==
        LET i == at[1]
            j == at[2]
        IN  IF i > Len(a) THEN <<>>
            ELSE IF j <= Len(b) /\ b[j] < a[i] THEN rest[<<i, j + 1>>]
            ELSE IF j <= Len(b) /\ b[j] = a[i] THEN rest[<<i + 1, j>>]
            ELSE <<a[i]>> \o rest[<<i + 1, j>>]
  IN  rest[<<1, 1>>]

BothArrays(a, b) == a.kind = "array" /\ b.kind = "array"

OrContainers(a, b) == FromBits(ToBits(a) \cup ToBits(b))

AndContainers(a, b) ==
  IF BothArrays(a, b) THEN ArrayOf(AndArrays(a.arr, b.arr))
  ELSE FromBits(ToBits(a) \cap ToBits(b))

AndNotContainers(a, b) ==
  IF BothArrays(a, b) THEN ArrayOf(AndNotArrays(a.arr, b.arr))
  ELSE FromBits(ToBits(a) \ ToBits(b))

-----------------------------------------------------------------------------
(* Bitmaps: the keys and their containers, side by side.                   *)
Empty == <<>>

HighsOf(bm) == {bm[i].key : i \in DOMAIN bm}

FindIdx(bm, high) == Cardinality({i \in DOMAIN bm : bm[i].key < high}) + 1

Has(bm, high) ==
  LET pos == FindIdx(bm, high) IN pos <= Len(bm) /\ bm[pos].key = high

At(bm, high) == bm[FindIdx(bm, high)].con

Added(bm, x) ==
  LET pos == FindIdx(bm, x[1])
  IN  IF ~Has(bm, x[1])
        THEN InsertAt(bm, pos, [key |-> x[1], con |-> ArrayOf(<<x[2]>>)])
      ELSE [bm EXCEPT ![pos].con =
              IF @.kind = "array" THEN AddToArray(@, x[2]) ELSE AddToBitmap(@, x[2])]

BitmapContains(bm, x) == Has(bm, x[1]) /\ ContainerContains(At(bm, x[1]), x[2])

GetCardinality(bm) ==
  LET n[i \in 0..Len(bm)] == IF i = 0 THEN 0 ELSE n[i - 1] + bm[i].con.count
  IN  n[Len(bm)]

ToArray(bm) ==
  FlattenSeq([i \in DOMAIN bm |->
    LET lows == IF bm[i].con.kind = "array" THEN bm[i].con.arr
                ELSE Sorted(bm[i].con.bits)
    IN  [j \in DOMAIN lows |-> <<bm[i].key, lows[j]>>]])

(* The merge of the keys of two bitmaps: in ascending order, those for     *)
(* which there is a container.                                             *)
ByHighs(highs, con) == [i \in DOMAIN Sorted(highs) |->
                           [key |-> Sorted(highs)[i], con |-> con[Sorted(highs)[i]]]]

Or(a, b) ==
  ByHighs(HighsOf(a) \cup HighsOf(b),
           [h \in HighsOf(a) \cup HighsOf(b) |->
              IF ~Has(b, h) THEN At(a, h)
              ELSE IF ~Has(a, h) THEN At(b, h)
              ELSE OrContainers(At(a, h), At(b, h))])

And(a, b) ==
  LET common == HighsOf(a) \cap HighsOf(b)
      con    == [h \in common |-> AndContainers(At(a, h), At(b, h))]
  IN  ByHighs({h \in common : con[h].count > 0}, con)

AndNot(a, b) ==
  LET con == [h \in HighsOf(a) |->
                IF Has(b, h) THEN AndNotContainers(At(a, h), At(b, h)) ELSE At(a, h)]
  IN  ByHighs({h \in HighsOf(a) : Has(b, h) => con[h].count > 0}, con)

-----------------------------------------------------------------------------
(* The encoding, field by field.  Reading takes the kind of a container    *)
(* and the length of its array from its header, whatever they are.         *)
WriteTo(bm) ==
  <<Magic, Len(bm)>> \o
  FlattenSeq([i \in DOMAIN bm |->
    <<bm[i].key, bm[i].con.kind, bm[i].con.count>>
      \o (IF bm[i].con.kind = "array" THEN bm[i].con.arr ELSE <<bm[i].con.bits>>)])

(* The entry whose header begins at off.                                   *)
IsArray(data, off) == data[off + 1] = "array"

Width(data, off) == IF IsArray(data, off) THEN data[off + 2] ELSE 1

EntryAt(data, off) ==
  [key |-> data[off],
   con |-> [kind  |-> data[off + 1],
            arr   |-> IF IsArray(data, off)
                        THEN [j \in 1..Width(data, off) |-> data[off + 2 + j]] ELSE <<>>,
            bits  |-> IF IsArray(data, off) THEN {} ELSE data[off + 3],
            count |-> data[off + 2]]]

(* What data that ends too early leaves of an entry: no container.         *)
Unread == [key |-> 0, con |-> <<>>]

(* Data that does not begin with the magic word leaves the bitmap as it    *)
(* was, empty.                                                             *)
ReadFrom(data) ==
  LET read[at \in Nat \X (1..(Len(data) + 1))] ==
        LET i    == at[1]
            off  == at[2]
            next == off + 3 + Width(data, off)
        IN  IF i = data[2] THEN <<>>
            ELSE IF off + 2 > Len(data) \/ next \notin (off + 3)..(Len(data) + 1)
              THEN [k \in 1..(data[2] - i) |-> Unread]
            ELSE <<EntryAt(data, off)>> \o read[<<i + 1, next>>]
  IN  IF Len(data) < 2 \/ data[1] # Magic THEN Empty ELSE read[<<0, 3>>]

-----------------------------------------------------------------------------
RInit ==
  /\ bitmap = [r \in Regs |-> Empty]
  /\ holds = [r \in Regs |-> {}]

Becomes(r, bm, set) ==
  /\ bitmap' = [bitmap EXCEPT ![r] = bm]
  /\ holds' = [holds EXCEPT ![r] = set]

AddOne(r, x) == Becomes(r, Added(bitmap[r], x), holds[r] \cup {x})

UnionOf(r)      == Becomes(r, Or(bitmap[1], bitmap[2]), holds[1] \cup holds[2])
IntersectionOf(r) == Becomes(r, And(bitmap[1], bitmap[2]), holds[1] \cap holds[2])
DifferenceOf(r) == Becomes(r, AndNot(bitmap[1], bitmap[2]), holds[1] \ holds[2])

(* Encoded and decoded again.                                              *)
Reload(r) == Becomes(r, ReadFrom(WriteTo(bitmap[r])), holds[r])

RNext ==
  \E r \in Regs :
    \/ \E x \in Numbers : AddOne(r, x)
    \/ UnionOf(r) \/ IntersectionOf(r) \/ DifferenceOf(r) \/ Reload(r)

RSpec == RInit /\ [][RNext]_rvars

-----------------------------------------------------------------------------
(* A bitmap is the set it was made to hold, through any sequence of        *)
(* additions, operations and reloads, whichever forms its containers take: *)
(* by lookup, as an ascending list and by count.                           *)
BitmapIsSet ==
  \A r \in Regs :
    LET arr == ToArray(bitmap[r])
    IN  /\ \A x \in Numbers : BitmapContains(bitmap[r], x) <=> x \in holds[r]
        /\ ToSet(arr) = holds[r]
        /\ \A i, j \in DOMAIN arr : i < j =>
             arr[i][1] < arr[j][1] \/ (arr[i][1] = arr[j][1] /\ arr[i][2] < arr[j][2])
        /\ GetCardinality(bitmap[r]) = Cardinality(holds[r])

(* A set has one representation, however it came about: no empty           *)
(* container, and bits exactly above maxArrayLen.  The operations rely on  *)
(* it: two arrays are never turned into bits, and bits never searched.     *)
Canonical(set) ==
  ByHighs({x[1] : x \in set},
           [h \in {x[1] : x \in set} |-> FromBits({x[2] : x \in {y \in set : y[1] = h}})])

OneFormPerSet == \A r \in Regs : bitmap[r] = Canonical(holds[r])
=============================================================================
