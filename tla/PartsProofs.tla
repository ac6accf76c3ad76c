----------------------------- MODULE PartsProofs ----------------------------
(***************************************************************************)
(* Theorems of the sequential parts, for every value of their bounds: the  *)
(* Bloom filter finds what was added, the loop of runCompaction computes   *)
(* the merge that Compaction states key by key and leaves open what        *)
(* LeaksOnlyWhileOpening says, the postings of a text hold its words'      *)
(* places through encoding and MergeFn and answer its phrases, the bitmaps *)
(* are the sets they were made to hold, in their one form, and the         *)
(* red-black tree is balanced, sorted and counts what was put.             *)
(***************************************************************************)
EXTENDS Bloom, RBTree, Roaring, Phrases, CompactionMerge, TableProofs, PostingProofs

-----------------------------------------------------------------------------
(* The Bloom filter, for every hash function and every size.               *)
LEMMA WordIsPositive == Word \in Nat \ {0}
<1>1. \A n \in Nat \ {0} : n * n \in Nat \ {0}
  OBVIOUS
<1> QED
  BY <1>1, HalfIsPositive DEF Word

(* A position is a bit number of the filter.                               *)
LEMMA PositionInRange ==
  ASSUME TypeOK, NEW x \in Items, NEW i \in Nat
  PROVE  Position(x, i) \in 0..(size - 1)
<1>1. hash[x] \in Nat
  BY WordIsPositive DEF TypeOK
<1>2. Swapped(hash[x]) \in Int
  <2>1. \A a \in Nat, b \in Nat \ {0} : a \div b \in Int /\ a % b \in Int
    OBVIOUS
  <2>2. hash[x] \div Half \in Int /\ hash[x] % Half \in Int
    BY <1>1, <2>1, HalfIsPositive
  <2> QED
    BY <2>2, HalfIsPositive DEF Swapped
<1> DEFINE h == Swapped(hash[x])
           p == hash[x] + i * h
<1>3. p \in Int
  BY <1>1, <1>2
<1>4. \A a \in Int, b \in Nat \ {0} : a % b \in 0..(b - 1)
  OBVIOUS
<1>5. p % Word \in Int
  BY <1>3, <1>4, WordIsPositive
<1>6. (p % Word) % size \in 0..(size - 1)
  BY <1>4, <1>5 DEF TypeOK
<1> QED
  BY <1>6 DEF Position

LEMMA TypeCorrect == Spec => []TypeOK
<1>1. Init => TypeOK
  BY BoundsAreNumbers DEF Init, NewBloomFilter, BytesFor, TypeOK
<1>2. TypeOK /\ [Next]_blvars => TypeOK'
  <2> SUFFICES ASSUME TypeOK, [Next]_blvars
               PROVE  TypeOK'
    OBVIOUS
  <2>1. ASSUME NEW x \in Items, Add(x)
        PROVE  TypeOK'
    <3>1. Bits(x) \subseteq Nat \X (0..7)
      <4>1. \A i \in 0..(hashCount - 1) : Position(x, i) \in Nat
        BY PositionInRange DEF TypeOK
      <4>2. \A n \in Nat : n \div 8 \in Nat /\ n % 8 \in 0..7
        OBVIOUS
      <4> QED
        BY <4>1, <4>2 DEF Bits
    <3> QED
      BY <2>1, <3>1 DEF Add, TypeOK
  <2>2. CASE UNCHANGED blvars
    BY <2>2 DEF TypeOK, blvars
  <2> QED
    BY <2>1, <2>2 DEF Next
<1> QED
  BY <1>1, <1>2, PTL DEF Spec

(* An item that has been added is never missed, whatever the hash, the     *)
(* size, the number of positions and the items added since.                *)
THEOREM NeverFalseNegative == Spec => []NoFalseNegative
<1>1. Init => NoFalseNegative
  BY DEF Init, NoFalseNegative
<1>2. NoFalseNegative /\ [Next]_blvars => NoFalseNegative'
  <2> SUFFICES ASSUME NoFalseNegative, [Next]_blvars
               PROVE  NoFalseNegative'
    OBVIOUS
  <2>1. ASSUME NEW x \in Items, Add(x)
        PROVE  NoFalseNegative'
    <3>1. \A y : Bits(y)' = Bits(y)
      BY <2>1 DEF Add, Bits, Position
    <3> QED
      BY <2>1, <3>1 DEF Add, NoFalseNegative, Check
  <2>2. CASE UNCHANGED blvars
    BY <2>2 DEF NoFalseNegative, Check, Bits, Position, blvars
  <2> QED
    BY <2>1, <2>2 DEF Next
<1> QED
  BY <1>1, <1>2, PTL DEF Spec

(* Neither Add nor Check indexes the array of bytes out of its bounds, for *)
(* sizes that are multiples of eight and for those that are not.           *)
THEOREM AlwaysInBounds == Spec => []InBounds
<1> DEFINE Inv == TypeOK /\ byteSize = BytesFor(size)
<1>1. Spec => [](byteSize = BytesFor(size))
  <2>1. Init => byteSize = BytesFor(size)
    BY DEF Init, NewBloomFilter
  <2>2. byteSize = BytesFor(size) /\ [Next]_blvars => (byteSize = BytesFor(size))'
    BY DEF Next, Add, blvars
  <2> QED
    BY <2>1, <2>2, PTL DEF Spec
<1>2. Inv => InBounds
  <2> SUFFICES ASSUME Inv, NEW x \in Items, NEW b \in Bits(x)
               PROVE  b[1] \in 0..(byteSize - 1)
    BY DEF InBounds
  <2>1. PICK i \in 0..(hashCount - 1) :
          b = <<Position(x, i) \div 8, Position(x, i) % 8>>
    BY DEF Bits
  <2>2. Position(x, i) \in 0..(size - 1)
    BY PositionInRange DEF TypeOK
  <2>3. \A m \in Nat \ {0} : \A p \in 0..(m - 1) : p \div 8 \in 0..((m + 7) \div 8 - 1)
    OBVIOUS
  <2> QED
    BY <2>1, <2>2, <2>3 DEF TypeOK, BytesFor
<1> QED
  BY <1>1, <1>2, TypeCorrect, PTL

-----------------------------------------------------------------------------
(* The compaction loop.                                                    *)
Pairs == [key : Keys, val : Entry \ {Absent}]

MergeTypeOK ==
  /\ files \in [1..Inputs -> [Keys -> Entry]]
  /\ phase \in {"open", "merge", "done", "failed"}
  /\ opened \in 0..Inputs
  /\ iters \in [1..Inputs -> {"none", "open", "closed"}]
  /\ pending \in {NoPending} \cup Pairs
  /\ output \in Seq(Pairs)
  /\ ioFailed \in BOOLEAN

-----------------------------------------------------------------------------
(* How far the merge is.                                                   *)

(* What a compaction gets of table i, what of it is still to come, from    *)
(* the item on the heap on, and what has come.                             *)
Source(i) == CompactionReads(files[i])
Left(i) == {k \in Records(Source(i)) : \E x \in heap : x.fileIdx = i /\ x.key <= k}
Gone(i) == Records(Source(i)) \ Left(i)

(* The tables whose version of the key has come.                           *)
Seen(k) == {i \in 1..Inputs : k \in Gone(i)}

(* The versions of a key in a set of tables, taken together.               *)
Older(H, k) == {j \in H \ {Min(H)} : files[j][k] # Tomb}
Combined(H, k) ==
  IF files[Min(H)][k] # Tomb /\ Merging
    THEN Merge(files[Min(H)][k], UNION {files[j][k] : j \in Older(H, k)})
    ELSE files[Min(H)][k]

(* The heap has one item at most of a table, the next record of a table    *)
(* that is readable.                                                       *)
HeapIsRight ==
  /\ \A x \in heap : /\ x.fileIdx \in 1..Inputs
                     /\ x = Item(x.fileIdx, x.key)
                     /\ x.key \in Records(files[x.fileIdx])
                     /\ ~HeadUnreadable(files[x.fileIdx])
                     /\ Readable(x.key, x.val)
  /\ \A x, y \in heap : x.fileIdx = y.fileIdx => x = y
  /\ \A i \in 1..Inputs : iters[i] = "open" <=> \E x \in heap : x.fileIdx = i

(* While tables are opened, the heap has the first item of each.           *)
Opening ==
  phase = "open" =>
    /\ pending = NoPending /\ output = <<>>
    /\ \A x \in heap : x.fileIdx <= opened
    /\ \A i \in 1..opened : /\ Records(files[i]) # {}
                            /\ Gone(i) = {}

OutputAscends == \A m, n \in 1..Len(output) : m < n => output[m].key < output[n].key

(* In the loop: what has come could be read;                              *)
InputsRead ==
  \A i \in 1..Inputs : /\ Records(files[i]) # {}
                       /\ \A k \in Gone(i) : Readable(k, files[i][k])

NothingCome ==
  pending = NoPending => output = <<>> /\ \A i \in 1..Inputs : Gone(i) = {}

(* the pending record is the greatest key that has come, with the versions *)
(* that have come, nothing less and no newer version is still to come;     *)
PendingIsLast ==
  pending # NoPending =>
    /\ Seen(pending.key) # {}
    /\ pending.val = Combined(Seen(pending.key), pending.key)
    /\ \A i \in 1..Inputs : \A k \in Gone(i) : k <= pending.key
    /\ \A x \in heap : /\ pending.key <= x.key
                       /\ x.key = pending.key => \A i \in Seen(x.key) : i < x.fileIdx

(* what is written is less, with all its versions;                         *)
WrittenIsRight ==
  pending # NoPending =>
    \A n \in 1..Len(output) :
      /\ output[n].key < pending.key
      /\ Seen(output[n].key) # {}
      /\ output[n].val = Combined(Seen(output[n].key), output[n].key)
      /\ output[n].val # Tomb

(* and what is less is written, unless its newest version was a tombstone. *)
AllWritten ==
  pending # NoPending =>
    \A k \in Keys :
      k < pending.key /\ Seen(k) # {} /\ Combined(Seen(k), k) # Tomb =>
        \E n \in 1..Len(output) : output[n].key = k

Halfway ==
  phase = "merge" =>
    InputsRead /\ NothingCome /\ PendingIsLast /\ WrittenIsRight /\ AllWritten

(* Once it has ended.                                                      *)
Ended ==
  /\ phase = "done" => CanCompact(Level)
  /\ phase = "done" =>
       {<<output[n].key, output[n].val>> : n \in DOMAIN output}
         = {<<k, Merged(Level)[k]>> : k \in Records(Merged(Level))}
  /\ phase = "failed" => ioFailed \/ ~CanCompact(Level)

MergeInv ==
  /\ MergeTypeOK
  /\ phase \in {"open", "merge"} => HeapIsRight
  /\ phase = "merge" => opened = Inputs
  /\ Opening
  /\ OutputAscends
  /\ Halfway
  /\ Ended
  /\ LeaksOnlyWhileOpening

-----------------------------------------------------------------------------
(* The versions of a key.                                                  *)

LEMMA CombinedOne ==
  ASSUME NEW i \in Nat, NEW k
  PROVE  Combined({i}, k) = files[i][k]
<1>1. Min({i}) = i
  BY MinIs
<1>2. Older({i}, k) = {}
  BY <1>1 DEF Older
<1>3. UNION {files[j][k] : j \in Older({i}, k)} = {}
  BY <1>2
<1> QED
  BY <1>1, <1>3 DEF Combined, Merge

(* A set of versions that are no tombstones only is no mark.               *)
LEMMA CombinedIsEntry ==
  ASSUME NEW H \in SUBSET Nat, H # {}, NEW k,
         \A j \in H : files[j][k] \in Entry \ {Absent}
  PROVE  /\ Combined(H, k) \in Entry \ {Absent}
         /\ Combined(H, k) = Tomb <=> files[Min(H)][k] = Tomb
<1> DEFINE pieces == UNION {files[j][k] : j \in Older(H, k)}
<1>1. Min(H) \in H
  BY MinOfNats
<1>2. files[Min(H)][k] \in {Tomb} \cup Value
  BY <1>1 DEF Entry
<1>3. \A j \in Older(H, k) : files[j][k] \in SUBSET Data
  BY DEF Older, Entry, Value
<1>4. pieces \in SUBSET Data
  BY <1>3
<1>5. CASE files[Min(H)][k] # Tomb
  <2>1. files[Min(H)][k] \in SUBSET Data /\ files[Min(H)][k] # {}
    BY <1>2, <1>5 DEF Value
  <2>2. files[Min(H)][k] \cup pieces \in Value
    BY <1>4, <2>1 DEF Value
  <2>3. Combined(H, k) \in Value
    BY <1>2, <1>5, <2>2 DEF Combined, Merge
  <2> QED
    BY <1>5, <2>3, EntriesDiffer DEF Value, Entry
<1>6. CASE files[Min(H)][k] = Tomb
  BY <1>6, EntriesDiffer DEF Combined, Entry
<1> QED
  BY <1>5, <1>6

(* One more version, older than the others.                                *)
LEMMA CombinedMore ==
  ASSUME NEW H \in SUBSET Nat, H # {}, NEW i \in Nat, \A j \in H : j < i, NEW k,
         \A j \in H : files[j][k] \in Entry \ {Absent}
  PROVE  Combined(H \cup {i}, k) =
           IF Merging /\ Combined(H, k) # Tomb /\ files[i][k] # Tomb
             THEN Merge(Combined(H, k), files[i][k])
             ELSE Combined(H, k)
<1>1. Min(H) \in H /\ \A j \in H : Min(H) <= j
  BY MinOfNats
<1>2. Min(H \cup {i}) = Min(H)
  <2>1. \A j \in H \cup {i} : Min(H) <= j
    <3>1. Min(H) \in Nat /\ Min(H) < i
      BY <1>1
    <3> QED
      BY <1>1, <3>1
  <2> QED
    BY <1>1, <2>1, MinIs
<1>3. Older(H \cup {i}, k) = IF files[i][k] = Tomb THEN Older(H, k) ELSE Older(H, k) \cup {i}
  BY <1>1, <1>2 DEF Older
<1>4. Combined(H, k) = Tomb <=> files[Min(H)][k] = Tomb
  BY CombinedIsEntry
<1>5. CASE ~Merging \/ files[Min(H)][k] = Tomb
  BY <1>2, <1>4, <1>5 DEF Combined
<1>6. CASE Merging /\ files[Min(H)][k] # Tomb
  <2> DEFINE pieces(G) == UNION {files[j][k] : j \in Older(G, k)}
  <2>1. CASE files[i][k] = Tomb
    BY <1>2, <1>3, <2>1 DEF Combined
  <2>2. CASE files[i][k] # Tomb
    <3>1. pieces(H \cup {i}) = pieces(H) \cup files[i][k]
      BY <1>3, <2>2
    <3>2. Combined(H \cup {i}, k) = files[Min(H)][k] \cup pieces(H \cup {i})
      BY <1>2, <1>6 DEF Combined, Merge
    <3>3. Combined(H, k) = files[Min(H)][k] \cup pieces(H)
      BY <1>6 DEF Combined, Merge
    <3> HIDE DEF pieces
    <3>4. Combined(H \cup {i}, k) = Merge(Combined(H, k), files[i][k])
      BY <3>1, <3>2, <3>3 DEF Merge
    <3> QED
      BY <1>4, <1>6, <2>2, <3>4
  <2> QED
    BY <2>1, <2>2
<1> QED
  BY <1>5, <1>6

-----------------------------------------------------------------------------
(* The heap.                                                               *)

LEMMA TopIsLeast ==
  ASSUME HeapIsRight, heap # {}
  PROVE  /\ Top(heap) \in heap
         /\ \A y \in heap : \/ Top(heap).key < y.key
                            \/ Top(heap).key = y.key /\ Top(heap).fileIdx <= y.fileIdx
<1> DEFINE ks == {x.key : x \in heap}
<1>1. \A x \in heap : x.key \in Nat /\ x.fileIdx \in Nat
  <2> SUFFICES ASSUME NEW x \in heap
               PROVE  x.key \in Nat /\ x.fileIdx \in Nat
    OBVIOUS
  <2>1. x.fileIdx \in 1..Inputs /\ x.key \in Keys
    BY DEF HeapIsRight, Records
  <2>2. x.key \in Nat
    BY <2>1, KeysAreOrdered
  <2>3. \A i \in 1..Inputs : i \in Nat
    BY InputsIsNumber
  <2> QED
    BY <2>1, <2>2, <2>3
<1>2. ks \in SUBSET Nat /\ ks # {}
  BY <1>1
<1>3. Min(ks) \in ks /\ \A k \in ks : Min(ks) <= k
  BY <1>2, MinOfNats
<1> DEFINE is == {x.fileIdx : x \in {y \in heap : y.key = Min(ks)}}
<1>4. is \in SUBSET Nat /\ is # {}
  BY <1>1, <1>3
<1>5. Min(is) \in is /\ \A i \in is : Min(is) <= i
  BY <1>4, MinOfNats
<1>6. PICK x \in heap : x.key = Min(ks) /\ x.fileIdx = Min(is)
  BY <1>5
<1>7. ASSUME NEW y \in heap
      PROVE  x.key < y.key \/ (x.key = y.key /\ x.fileIdx <= y.fileIdx)
  <2>1. x.key <= y.key /\ x.key \in Nat /\ y.key \in Nat
    BY <1>1, <1>3, <1>6
  <2>2. x.key = y.key => y.fileIdx \in is
    BY <1>6
  <2>3. x.key = y.key => x.fileIdx <= y.fileIdx
    BY <1>5, <1>6, <2>2
  <2> QED
    BY <2>1, <2>3
<1>8. \E z \in heap : \A y \in heap : z.key < y.key \/ (z.key = y.key /\ z.fileIdx <= y.fileIdx)
  BY <1>7
<1> QED
  BY <1>8, Zenon DEF Top

(* The greatest item leaves the heap, the next of its table comes.         *)
Popped ==
  /\ files' = files
  /\ LET top  == Top(heap)
         next == After(top.fileIdx, top.key)
     IN  heap' = (heap \ {top}) \cup
                   IF next = {} THEN {} ELSE {Item(top.fileIdx, Min(next))}

LEMMA PoppedGone ==
  ASSUME MergeTypeOK, HeapIsRight, heap # {}, Popped,
         NEW top, top = Top(heap)
  PROVE  /\ \A j \in 1..Inputs :
              Gone(j)' = IF j = top.fileIdx THEN Gone(j) \cup {top.key} ELSE Gone(j)
         /\ top.key \notin Gone(top.fileIdx)
<1> DEFINE i    == top.fileIdx
           next == After(i, top.key)
           R    == Records(files[i])
<1>1. /\ top \in heap /\ i \in 1..Inputs /\ top.key \in R /\ ~HeadUnreadable(files[i])
      /\ \A x \in heap : x.fileIdx = i => x = top
  BY TopIsLeast DEF HeapIsRight
<1>2. \A j : Source(j)' = Source(j)
  BY DEF Popped, Source
<1>3. Source(i) = files[i] /\ R \in SUBSET Nat /\ top.key \in Nat
  BY <1>1, KeysAreOrdered DEF Source, CompactionReads, Records
<1>4. Left(i) = {k \in R : top.key <= k}
  BY <1>1, <1>3 DEF Left
<1>5. next = {k \in R : k > top.key}
  BY DEF After
<1>6. heap' = (heap \ {top}) \cup IF next = {} THEN {} ELSE {Item(i, Min(next))}
  BY DEF Popped
<1>7. Left(i)' = next
  <2>1. Left(i)' = {k \in R : \E x \in heap' : x.fileIdx = i /\ x.key <= k}
    BY <1>2, <1>3 DEF Left
  <2>2. \A x \in heap' : x.fileIdx = i => next # {} /\ x.key = Min(next)
    BY <1>1, <1>6 DEF Item
  <2>3. CASE next = {}
    BY <2>1, <2>2, <2>3
  <2>4. CASE next # {}
    <3>1. Min(next) \in next /\ \A k \in next : Min(next) <= k
      BY <1>3, <1>5, <2>4, MinOfNats
    <3>2. \E x \in heap' : x.fileIdx = i /\ x.key = Min(next)
      <4>1. Item(i, Min(next)) \in heap'
        BY <1>6, <2>4
      <4>2. Item(i, Min(next)).fileIdx = i /\ Item(i, Min(next)).key = Min(next)
        BY DEF Item
      <4> QED
        BY <4>1, <4>2
    <3>3. Left(i)' = {k \in R : Min(next) <= k}
      BY <2>1, <2>2, <3>2
    <3>4. \A k \in R : Min(next) <= k => k > top.key
      BY <1>3, <1>5, <3>1
    <3> QED
      BY <1>5, <3>1, <3>3, <3>4
  <2> QED
    BY <2>3, <2>4
<1>8. ASSUME NEW j \in 1..Inputs, j # i
      PROVE  Left(j)' = Left(j)
  <2>1. \A x : x.fileIdx = j => (x \in heap' <=> x \in heap)
    BY <1>6, <1>8 DEF Item
  <2> QED
    BY <1>2, <2>1 DEF Left
<1>9. Gone(i)' = Gone(i) \cup {top.key} /\ top.key \notin Gone(i)
  BY <1>1, <1>2, <1>3, <1>4, <1>5, <1>7 DEF Gone
<1>10. \A j \in 1..Inputs : j # i => Gone(j)' = Gone(j)
  BY <1>2, <1>8 DEF Gone
<1> QED
  BY <1>9, <1>10

-----------------------------------------------------------------------------
(* One turn of the loop.                                                   *)

LEMMA PairsArePending == \A q \in Pairs : q # NoPending
BY NoPendingIsNone DEF Pairs

LEMMA SeenType ==
  ASSUME MergeTypeOK
  PROVE  \A k : /\ Seen(k) \in SUBSET Nat /\ Seen(k) \subseteq 1..Inputs
                /\ Seen(k) # {} => k \in Keys
                /\ \A j \in Seen(k) : files[j][k] \in Entry \ {Absent}
<1> SUFFICES ASSUME NEW k
             PROVE  /\ Seen(k) \in SUBSET Nat /\ Seen(k) \subseteq 1..Inputs
                    /\ Seen(k) # {} => k \in Keys
                    /\ \A j \in Seen(k) : files[j][k] \in Entry \ {Absent}
  OBVIOUS
<1>1. Seen(k) \subseteq 1..Inputs
  BY DEF Seen
<1>2. Seen(k) \in SUBSET Nat
  BY <1>1, InputsIsNumber
<1>3. ASSUME NEW j \in Seen(k)
      PROVE  k \in Keys /\ files[j][k] \in Entry \ {Absent}
  <2>1. k \in Keys /\ Source(j)[k] # Absent /\ j \in 1..Inputs
    BY DEF Seen, Gone, Records
  <2>2. Source(j)[k] \in {files[j][k], Absent}
    BY <2>1 DEF Source, CompactionReads, NoRecords
  <2>3. files[j] \in [Keys -> Entry]
    BY <2>1 DEF MergeTypeOK
  <2> QED
    BY <2>1, <2>2, <2>3
<1> QED
  BY <1>1, <1>2, <1>3

(* The pending record after the top of the heap has come.                  *)
LEMMA TakeType ==
  ASSUME MergeTypeOK, HeapIsRight, heap # {}
  PROVE  /\ Top(heap).key \in Keys
         /\ Top(heap).val = files[Top(heap).fileIdx][Top(heap).key]
         /\ Top(heap).val \in Entry \ {Absent}
         /\ Take(Top(heap)) \in Pairs
         /\ Take(Top(heap)).key = Top(heap).key
<1> DEFINE top == Top(heap)
<1>1. /\ top \in heap /\ top.fileIdx \in 1..Inputs
      /\ top = Item(top.fileIdx, top.key)
      /\ top.key \in Records(files[top.fileIdx])
  BY TopIsLeast DEF HeapIsRight
<1>2. top.val = files[top.fileIdx][top.key]
  <2>1. Item(top.fileIdx, top.key).val = files[top.fileIdx][top.key]
    BY DEF Item
  <2> QED
    BY <1>1, <2>1
<1>3. top.key \in Keys /\ top.val \in Entry \ {Absent}
  BY <1>1, <1>2 DEF Records, MergeTypeOK
<1> HIDE DEF top
<1>4. CASE ~Repeats(top)
  <2>1. Take(top) = [key |-> top.key, val |-> top.val]
    BY <1>4 DEF Take
  <2> QED
    BY <1>2, <1>3, <2>1 DEF Pairs, top
<1>5. CASE Repeats(top)
  <2>1. pending \in Pairs /\ pending.key = top.key
    BY <1>5 DEF Repeats, MergeTypeOK
  <2>2. CASE Merging /\ pending.val # Tomb /\ top.val # Tomb
    <3>1. Take(top) = [pending EXCEPT !.val = Merge(pending.val, top.val)]
      BY <1>5, <2>2 DEF Take
    <3>2. pending.val \in Value /\ top.val \in Value
      BY <1>3, <2>1, <2>2 DEF Pairs, Entry
    <3>3. Merge(pending.val, top.val) \in Value
      BY <3>2 DEF Merge, Value
    <3>4. Merge(pending.val, top.val) \in Entry \ {Absent}
      BY <3>3, EntriesDiffer DEF Value, Entry
    <3>5. Take(top) \in Pairs /\ Take(top).key = pending.key
      BY <2>1, <3>1, <3>4 DEF Pairs
    <3> QED
      BY <1>2, <1>3, <2>1, <3>5 DEF top
  <2>3. CASE ~(Merging /\ pending.val # Tomb /\ top.val # Tomb)
    <3>1. Take(top) = pending
      BY <1>5, <2>3 DEF Take
    <3> QED
      BY <1>2, <1>3, <2>1, <3>1 DEF top
  <2> QED
    BY <2>2, <2>3
<1> QED
  BY <1>4, <1>5

(* What one item does to what has come.                                    *)
LEMMA PoppedSeen ==
  ASSUME MergeTypeOK, HeapIsRight, heap # {}, Popped, NEW top, top = Top(heap)
  PROVE  /\ \A k : Seen(k)' = IF k = top.key THEN Seen(k) \cup {top.fileIdx} ELSE Seen(k)
         /\ \A H, k : Combined(H, k)' = Combined(H, k)
         /\ \A x \in heap' : /\ x \in heap /\ x # top => x.fileIdx # top.fileIdx
                             /\ x \notin heap \/ x = top => x.key > top.key
                             /\ x.key \in Nat
<1>1. top \in heap /\ top.fileIdx \in 1..Inputs /\ top.key \in Nat
  BY TopIsLeast, KeysAreOrdered DEF HeapIsRight, Records
<1>2. \A k : Seen(k)' = IF k = top.key THEN Seen(k) \cup {top.fileIdx} ELSE Seen(k)
  BY <1>1, PoppedGone DEF Seen
<1>3. \A H, k : Combined(H, k)' = Combined(H, k)
  BY DEF Popped, Combined, Older
<1>4. ASSUME NEW x \in heap'
      PROVE  /\ x \in heap /\ x # top => x.fileIdx # top.fileIdx
             /\ x \notin heap \/ x = top => x.key > top.key
             /\ x.key \in Nat
  <2> DEFINE next == After(top.fileIdx, top.key)
  <2>1. x \in heap /\ x # top => x.fileIdx # top.fileIdx
    BY <1>1 DEF HeapIsRight
  <2>2. ASSUME x \notin heap \/ x = top
        PROVE  x.key > top.key /\ x.key \in Nat
    <3>1. next # {} /\ x = Item(top.fileIdx, Min(next))
      BY <2>2 DEF Popped
    <3>2. next \in SUBSET Nat /\ \A k \in next : k > top.key
      BY KeysAreOrdered DEF After, Records
    <3>3. Min(next) \in next
      BY <3>1, <3>2, MinOfNats
    <3> QED
      BY <3>1, <3>2, <3>3 DEF Item
  <2>3. x \in heap => x.key \in Nat
    BY KeysAreOrdered DEF HeapIsRight, Records
  <2> QED
    BY <2>1, <2>2, <2>3
<1> QED
  BY <1>2, <1>3, <1>4

(* One turn of the loop that does not fail.                                *)
Turn ==
  /\ heap # {}
  /\ Popped
  /\ output' = IF Repeats(Top(heap)) THEN output ELSE Flushed
  /\ pending' = Take(Top(heap))

LEMMA TurnReads ==
  ASSUME MergeTypeOK, HeapIsRight, InputsRead, Turn
  PROVE  InputsRead'
<1> DEFINE top == Top(heap)
<1>1. /\ top \in heap /\ top.val = files[top.fileIdx][top.key]
      /\ Readable(top.key, top.val)
  BY TopIsLeast, TakeType DEF Turn, HeapIsRight
<1>2. \A j \in 1..Inputs :
        Gone(j)' = IF j = top.fileIdx THEN Gone(j) \cup {top.key} ELSE Gone(j)
  BY PoppedGone DEF Turn
<1>3. files' = files
  BY DEF Turn, Popped
<1> QED
  BY <1>1, <1>2, <1>3 DEF InputsRead

(* A key that has come is not above the next one, and it is the next one   *)
(* only if it is the pending one.                                          *)
LEMMA ComeBeforeTop ==
  ASSUME MergeTypeOK, HeapIsRight, NothingCome, PendingIsLast, heap # {},
         NEW j \in 1..Inputs, NEW k \in Gone(j)
  PROVE  /\ pending # NoPending /\ pending.key \in Nat /\ k \in Nat
         /\ k <= pending.key /\ pending.key <= Top(heap).key
<1>1. pending # NoPending
  BY DEF NothingCome
<1>2. pending.key \in Nat /\ k \in Nat
  BY <1>1, KeysAreOrdered DEF MergeTypeOK, Pairs, Gone, Records
<1>3. k <= pending.key /\ pending.key <= Top(heap).key
  BY <1>1, TopIsLeast DEF PendingIsLast
<1> QED
  BY <1>1, <1>2, <1>3

LEMMA TurnPending ==
  ASSUME MergeTypeOK, HeapIsRight, NothingCome, PendingIsLast, Turn
  PROVE  PendingIsLast' /\ pending' # NoPending
<1>0. heap # {} /\ Popped /\ pending' = Take(Top(heap))
  BY DEF Turn
<1>a. PICK top : top = Top(heap)
  OBVIOUS
<1>1. /\ top \in heap /\ top.fileIdx \in 1..Inputs /\ top.key \in Nat
      /\ \A y \in heap : \/ top.key < y.key
                         \/ top.key = y.key /\ top.fileIdx <= y.fileIdx
  BY <1>0, <1>a, TopIsLeast, KeysAreOrdered DEF HeapIsRight, Records
<1>2. /\ pending' \in Pairs /\ pending'.key = top.key
      /\ top.val = files[top.fileIdx][top.key] /\ top.val \in Entry \ {Absent}
  BY <1>0, <1>a, TakeType
<1>3. pending' # NoPending
  BY <1>2, PairsArePending
<1>4. /\ \A k : Seen(k)' = IF k = top.key THEN Seen(k) \cup {top.fileIdx} ELSE Seen(k)
      /\ \A H, k : Combined(H, k)' = Combined(H, k)
      /\ \A x \in heap' : /\ x \in heap /\ x # top => x.fileIdx # top.fileIdx
                          /\ x \notin heap \/ x = top => x.key > top.key
                          /\ x.key \in Nat
  BY <1>0, <1>a, PoppedSeen
<1>5. \A j \in 1..Inputs :
        Gone(j)' = IF j = top.fileIdx THEN Gone(j) \cup {top.key} ELSE Gone(j)
  BY <1>0, <1>a, PoppedGone
<1>6. \A i \in Seen(top.key) : pending # NoPending /\ pending.key = top.key
  <2> SUFFICES ASSUME NEW i \in Seen(top.key)
               PROVE  pending # NoPending /\ pending.key = top.key
    OBVIOUS
  <2>1. i \in 1..Inputs /\ top.key \in Gone(i)
    BY DEF Seen
  <2>2. /\ pending # NoPending /\ pending.key \in Nat
        /\ top.key <= pending.key /\ pending.key <= top.key
    BY <1>0, <1>a, <2>1, ComeBeforeTop
  <2> QED
    BY <1>1, <2>2
<1>7. Seen(top.key)' # {}
  BY <1>4
<1>8. ASSUME NEW i \in 1..Inputs, NEW k \in Gone(i)'
      PROVE  k <= top.key
  <2>1. k = top.key \/ k \in Gone(i)
    BY <1>5
  <2>2. CASE k \in Gone(i)
    <3>1. k <= pending.key /\ pending.key <= top.key /\ pending.key \in Nat /\ k \in Nat
      BY <1>0, <1>a, <2>2, ComeBeforeTop
    <3> QED
      BY <1>1, <3>1
  <2> QED
    BY <1>1, <2>1, <2>2
<1>9. ASSUME NEW x \in heap'
      PROVE  /\ top.key <= x.key
             /\ x.key = top.key => \A i \in Seen(x.key)' : i < x.fileIdx
  <2>1. CASE x \notin heap \/ x = top
    BY <1>1, <1>4, <2>1
  <2>2. CASE x \in heap /\ x # top
    <3>1. x.fileIdx \in 1..Inputs /\ x.key \in Nat
      BY <2>2, KeysAreOrdered DEF HeapIsRight, Records
    <3>2. x.fileIdx \in Nat /\ top.fileIdx \in Nat
      BY <1>1, <3>1, InputsIsNumber
    <3>3. top.key <= x.key
      BY <1>1, <2>2, <3>1
    <3>4. ASSUME x.key = top.key, NEW i \in Seen(x.key)'
          PROVE  i < x.fileIdx
      <4>1. top.fileIdx < x.fileIdx
        <5>1. top.fileIdx <= x.fileIdx /\ top.fileIdx # x.fileIdx
          BY <1>1, <1>4, <2>2, <3>4
        <5> QED
          BY <3>2, <5>1
      <4>2. i = top.fileIdx \/ i \in Seen(x.key)
        BY <1>4, <3>4
      <4>3. i \in Seen(x.key) => i < x.fileIdx
        BY <1>6, <2>2, <3>4 DEF PendingIsLast
      <4> QED
        BY <4>1, <4>2, <4>3
    <3> QED
      BY <3>3, <3>4
  <2> QED
    BY <2>1, <2>2
<1>10. pending'.val = Combined(Seen(top.key)', top.key)
  <2>1. CASE Repeats(top)
    <3>1. pending \in Pairs /\ pending.key = top.key /\ pending # NoPending
      BY <2>1 DEF Repeats, MergeTypeOK
    <3>2. Seen(top.key) # {} /\ pending.val = Combined(Seen(top.key), top.key)
      BY <3>1 DEF PendingIsLast
    <3>3. \A j \in Seen(top.key) : j < top.fileIdx
      BY <1>1, <3>1 DEF PendingIsLast
    <3>4. top.fileIdx \in Nat
      BY <1>1, InputsIsNumber
    <3>5. PICK H : H = Seen(top.key)
      OBVIOUS
    <3>51. H \in SUBSET Nat /\ \A j \in H : files[j][top.key] \in Entry \ {Absent}
      BY <3>5, SeenType
    <3>6. Combined(Seen(top.key) \cup {top.fileIdx}, top.key) =
            IF Merging /\ Combined(Seen(top.key), top.key) # Tomb /\ top.val # Tomb
              THEN Merge(Combined(Seen(top.key), top.key), top.val)
              ELSE Combined(Seen(top.key), top.key)
      <4>1. H # {} /\ \A j \in H : j < top.fileIdx
        BY <3>2, <3>3, <3>5
      <4>2. Combined(H \cup {top.fileIdx}, top.key) =
              IF Merging /\ Combined(H, top.key) # Tomb /\ files[top.fileIdx][top.key] # Tomb
                THEN Merge(Combined(H, top.key), files[top.fileIdx][top.key])
                ELSE Combined(H, top.key)
        BY <3>4, <3>51, <4>1, CombinedMore
      <4> QED
        BY <1>2, <3>5, <4>2
    <3>7. pending'.val = IF Merging /\ pending.val # Tomb /\ top.val # Tomb
                           THEN Merge(pending.val, top.val) ELSE pending.val
      <4>1. pending' = IF Merging /\ pending.val # Tomb /\ top.val # Tomb
                         THEN [pending EXCEPT !.val = Merge(pending.val, top.val)]
                         ELSE pending
        BY <1>0, <1>a, <2>1 DEF Take
      <4>2. [pending EXCEPT !.val = Merge(pending.val, top.val)].val
              = Merge(pending.val, top.val)
        BY <3>1 DEF Pairs
      <4> QED
        BY <4>1, <4>2
    <3> QED
      BY <1>4, <3>2, <3>6, <3>7
  <2>2. CASE ~Repeats(top)
    <3>1. Seen(top.key) = {}
      BY <1>6, <2>2 DEF Repeats
    <3>2. Seen(top.key)' = {top.fileIdx}
      BY <1>4, <3>1
    <3>3. Combined({top.fileIdx}, top.key) = top.val
      <4>1. top.fileIdx \in Nat
        BY <1>1, InputsIsNumber
      <4> QED
        BY <1>2, <4>1, CombinedOne
    <3>4. pending' = [key |-> top.key, val |-> top.val]
      BY <1>0, <1>a, <2>2 DEF Take
    <3> QED
      BY <3>2, <3>3, <3>4
  <2> QED
    BY <2>1, <2>2
<1> QED
  BY <1>2, <1>3, <1>4, <1>7, <1>8, <1>9, <1>10 DEF PendingIsLast

(* What a turn writes.                                                     *)
LEMMA TurnWrites ==
  ASSUME MergeTypeOK, HeapIsRight, NothingCome, PendingIsLast, WrittenIsRight,
         AllWritten, OutputAscends, Turn
  PROVE  WrittenIsRight' /\ AllWritten' /\ OutputAscends' /\ output' \in Seq(Pairs)
<1>0. heap # {} /\ Popped /\ pending' = Take(Top(heap))
  BY DEF Turn
<1>a. PICK top : top = Top(heap)
  OBVIOUS
<1>1. /\ top \in heap /\ top.key \in Nat /\ pending'.key = top.key
  BY <1>0, <1>a, TopIsLeast, TakeType, KeysAreOrdered
<1>2. /\ \A k : Seen(k)' = IF k = top.key THEN Seen(k) \cup {top.fileIdx} ELSE Seen(k)
      /\ \A H, k : Combined(H, k)' = Combined(H, k)
  BY <1>0, <1>a, PoppedSeen
<1>3. output \in Seq(Pairs) /\ Len(output) \in Nat
  BY DEF MergeTypeOK
<1>4. \A n \in 1..Len(output) : output[n].key \in Nat
  <2>1. \A n \in 1..Len(output) : output[n] \in Pairs
    BY <1>3
  <2>2. \A q \in Pairs : q.key \in Nat
    BY KeysAreOrdered DEF Pairs
  <2> QED
    BY <2>1, <2>2
<1> DEFINE Right(q) == /\ Seen(q.key) # {}
                       /\ q.val = Combined(Seen(q.key), q.key)
                       /\ q.val # Tomb
           RightNow(q) == /\ Seen(q.key)' # {}
                          /\ q.val = Combined(Seen(q.key)', q.key)
                          /\ q.val # Tomb
<1>f. PICK out : out = output'
  OBVIOUS
<1>b. ASSUME NEW q, q.key # top.key, Right(q)
      PROVE  RightNow(q)
  BY <1>2, <1>b
<1>c. ASSUME \A n \in 1..Len(out) : out[n].key < top.key /\ RightNow(out[n])
      PROVE  WrittenIsRight'
  <2> SUFFICES ASSUME pending' # NoPending, NEW n \in 1..Len(out)
               PROVE  /\ out[n].key < pending'.key
                      /\ Seen(out[n].key)' # {}
                      /\ out[n].val = Combined(Seen(out[n].key), out[n].key)'
                      /\ out[n].val # Tomb
    BY <1>f DEF WrittenIsRight
  <2>1. out[n].key < top.key /\ RightNow(out[n])
    BY <1>c
  <2> QED
    BY <1>1, <1>2, <2>1
<1>d. pending # NoPending =>
        \A n \in 1..Len(output) : output[n].key < pending.key /\ Right(output[n])
  BY DEF WrittenIsRight
<1>e. pending # NoPending => Seen(pending.key) # {} /\ pending.val = Combined(Seen(pending.key), pending.key)
  BY DEF PendingIsLast
<1> HIDE DEF Right, RightNow
<1>5. pending # NoPending =>
        /\ pending \in Pairs /\ pending.key \in Nat
        /\ pending.key <= top.key
  BY <1>a, <1>1, KeysAreOrdered DEF PendingIsLast, MergeTypeOK, Pairs
<1>6. CASE pending = NoPending
  <2>1. output = <<>> /\ output' = <<>>
    BY <1>a, <1>6 DEF NothingCome, Turn, Repeats, Flushed, Writes
  <2>2. \A k : Seen(k) = {}
    BY <1>6 DEF NothingCome, Seen
  <2>3. \A k \in Keys : Seen(k)' # {} => k = top.key
    BY <1>2, <2>2
  <2>4. AllWritten'
    BY <1>1, <2>3 DEF AllWritten
  <2>5. Len(output') = 0 /\ output' \in Seq(Pairs)
    BY <2>1
  <2>6. WrittenIsRight' /\ OutputAscends'
    BY <2>5 DEF WrittenIsRight, OutputAscends
  <2> QED
    BY <2>4, <2>5, <2>6
<1>7. CASE pending # NoPending /\ (Repeats(top) \/ ~Writes)
  <2>1. output' = output
    BY <1>a, <1>7 DEF Turn, Flushed
  <2>2. WrittenIsRight'
    <3>1. ASSUME NEW n \in 1..Len(output)
          PROVE  output[n].key < top.key /\ RightNow(output[n])
      <4>1. output[n].key < top.key /\ output[n].key # top.key
        BY <1>1, <1>4, <1>5, <1>7, <1>d
      <4> QED
        BY <1>7, <1>b, <1>d, <4>1
    <3> QED
      BY <1>c, <1>f, <2>1, <3>1
  <2>3. AllWritten'
    <3> SUFFICES ASSUME NEW k \in Keys, k < top.key, Seen(k)' # {},
                        Combined(Seen(k)', k) # Tomb
                 PROVE  \E n \in 1..Len(output) : output[n].key = k
      BY <1>1, <1>2, <2>1 DEF AllWritten
    <3>1. k \in Nat /\ k # top.key
      BY <1>1, KeysAreOrdered
    <3>2. Seen(k) # {} /\ Combined(Seen(k), k) # Tomb
      BY <1>2, <3>1
    <3>3. PICK i \in 1..Inputs : k \in Gone(i)
      BY <3>2 DEF Seen
    <3>4. k <= pending.key
      BY <1>7, <3>3 DEF PendingIsLast
    <3>5. k # pending.key
      BY <1>5, <1>7, <3>1, <3>2 DEF Repeats, Writes, PendingIsLast
    <3> QED
      BY <1>5, <1>7, <3>1, <3>2, <3>4, <3>5 DEF AllWritten
  <2> QED
    BY <1>3, <2>1, <2>2, <2>3 DEF OutputAscends
<1>8. CASE pending # NoPending /\ ~Repeats(top) /\ Writes
  <2>0. pending \in Pairs /\ pending.key \in Nat /\ pending.key < top.key /\ pending.key # top.key
    BY <1>1, <1>5, <1>8 DEF Repeats
  <2>1. output' = Append(output, pending)
    BY <1>a, <1>8 DEF Turn, Flushed
  <2>2. /\ Len(output') = Len(output) + 1 /\ output' \in Seq(Pairs)
        /\ \A n \in 1..Len(output) : output'[n] = output[n]
        /\ output'[Len(output) + 1] = pending
    BY <1>3, <2>0, <2>1
  <2>3. \A n \in 1..Len(output) : output[n].key < pending.key
    BY <1>8 DEF WrittenIsRight
  <2>4. WrittenIsRight'
    <3> SUFFICES ASSUME NEW n \in 1..(Len(output) + 1)
                 PROVE  out[n].key < top.key /\ RightNow(out[n])
      BY <1>c, <1>f, <2>2
    <3>1. CASE n \in 1..Len(output)
      <4>1. output[n].key < top.key /\ output[n].key # top.key
        BY <1>1, <1>4, <2>0, <2>3, <3>1
      <4> QED
        BY <1>8, <1>b, <1>d, <1>f, <2>2, <3>1, <4>1
    <3>2. CASE n = Len(output) + 1
      <4>1. Right(pending)
        BY <1>8, <1>e DEF Writes, Right
      <4> QED
        BY <1>b, <1>f, <2>0, <2>2, <3>2, <4>1
    <3> QED
      BY <1>3, <3>1, <3>2
  <2>5. AllWritten'
    <3> SUFFICES ASSUME NEW k \in Keys, k < top.key, Seen(k)' # {},
                        Combined(Seen(k)', k) # Tomb
                 PROVE  \E n \in 1..(Len(output) + 1) : output'[n].key = k
      BY <1>1, <1>2, <2>2 DEF AllWritten
    <3>1. k \in Nat /\ k # top.key
      BY <1>1, KeysAreOrdered
    <3>2. Seen(k) # {} /\ Combined(Seen(k), k) # Tomb
      BY <1>2, <3>1
    <3>3. PICK i \in 1..Inputs : k \in Gone(i)
      BY <3>2 DEF Seen
    <3>4. k <= pending.key
      BY <1>8, <3>3 DEF PendingIsLast
    <3>5. CASE k = pending.key
      BY <1>3, <2>2, <3>5
    <3>6. CASE k # pending.key
      <4>1. PICK n \in 1..Len(output) : output[n].key = k
        BY <1>8, <2>0, <3>1, <3>2, <3>4, <3>6 DEF AllWritten
      <4> QED
        BY <1>3, <2>2, <4>1
    <3> QED
      BY <3>5, <3>6
  <2>6. OutputAscends'
    <3> SUFFICES ASSUME NEW m \in 1..(Len(output) + 1), NEW n \in 1..(Len(output) + 1), m < n
                 PROVE  output'[m].key < output'[n].key
      BY <2>2 DEF OutputAscends
    <3>1. CASE n \in 1..Len(output)
      BY <1>3, <2>2, <3>1 DEF OutputAscends
    <3>2. CASE n = Len(output) + 1
      <4>1. m \in 1..Len(output)
        BY <1>3, <3>2
      <4> QED
        BY <2>2, <2>3, <3>2, <4>1
    <3> QED
      BY <1>3, <3>1, <3>2
  <2> QED
    BY <2>2, <2>4, <2>5, <2>6
<1> QED
  BY <1>6, <1>7, <1>8

-----------------------------------------------------------------------------
(* The end of the loop.                                                    *)

(* The output with the last pending record.                                *)
LEMMA FlushedIsAll ==
  ASSUME MergeTypeOK, NothingCome, PendingIsLast, WrittenIsRight, AllWritten, OutputAscends
  PROVE  /\ Flushed \in Seq(Pairs)
         /\ \A m, n \in 1..Len(Flushed) : m < n => Flushed[m].key < Flushed[n].key
         /\ \A n \in 1..Len(Flushed) :
              /\ Seen(Flushed[n].key) # {}
              /\ Flushed[n].val = Combined(Seen(Flushed[n].key), Flushed[n].key)
              /\ Flushed[n].val # Tomb
         /\ \A k \in Keys :
              Seen(k) # {} /\ Combined(Seen(k), k) # Tomb =>
                \E n \in 1..Len(Flushed) : Flushed[n].key = k
<1>1. output \in Seq(Pairs) /\ Len(output) \in Nat
  BY DEF MergeTypeOK
<1>2. CASE pending = NoPending
  <2>1. Flushed = <<>> /\ \A k : Seen(k) = {}
    BY <1>2 DEF NothingCome, Flushed, Writes, Seen
  <2>2. Len(Flushed) = 0 /\ Flushed \in Seq(Pairs)
    BY <2>1
  <2> QED
    BY <2>1, <2>2
<1>3. CASE pending # NoPending
  <2>1. pending \in Pairs /\ pending.key \in Nat
    BY <1>3, KeysAreOrdered DEF MergeTypeOK, Pairs
  <2>2. \A k \in Keys : Seen(k) # {} => k <= pending.key /\ k \in Nat
    BY <1>3, KeysAreOrdered DEF PendingIsLast, Seen
  <2>3. CASE Writes
    <3>1. Flushed = Append(output, pending)
      BY <2>3 DEF Flushed
    <3>2. /\ Len(Flushed) = Len(output) + 1 /\ Flushed \in Seq(Pairs)
          /\ \A n \in 1..Len(output) : Flushed[n] = output[n]
          /\ Flushed[Len(output) + 1] = pending
      BY <1>1, <2>1, <3>1
    <3> HIDE DEF Flushed
    <3>3. ASSUME NEW m \in 1..Len(Flushed), NEW n \in 1..Len(Flushed), m < n
          PROVE  Flushed[m].key < Flushed[n].key
      <4>1. CASE n \in 1..Len(output)
        BY <1>1, <3>2, <3>3, <4>1 DEF OutputAscends
      <4>2. CASE n = Len(output) + 1
        <5>1. m \in 1..Len(output)
          BY <1>1, <3>3, <4>2
        <5> QED
          BY <1>3, <3>2, <4>2, <5>1 DEF WrittenIsRight
      <4> QED
        BY <1>1, <3>2, <4>1, <4>2
    <3>4. ASSUME NEW n \in 1..Len(Flushed)
          PROVE  /\ Seen(Flushed[n].key) # {}
                 /\ Flushed[n].val = Combined(Seen(Flushed[n].key), Flushed[n].key)
                 /\ Flushed[n].val # Tomb
      <4>1. CASE n \in 1..Len(output)
        BY <1>3, <3>2, <4>1 DEF WrittenIsRight
      <4>2. CASE n = Len(output) + 1
        BY <1>3, <2>3, <3>2, <4>2 DEF PendingIsLast, Writes
      <4> QED
        BY <1>1, <3>2, <4>1, <4>2
    <3>5. ASSUME NEW k \in Keys, Seen(k) # {}, Combined(Seen(k), k) # Tomb
          PROVE  \E n \in 1..Len(Flushed) : Flushed[n].key = k
      <4>1. CASE k = pending.key
        <5>1. Len(output) + 1 \in 1..Len(Flushed)
          BY <1>1, <3>2
        <5> QED
          BY <3>2, <4>1, <5>1
      <4>2. CASE k # pending.key
        <5>1. PICK n \in 1..Len(output) : output[n].key = k
          BY <1>3, <2>1, <2>2, <3>5, <4>2 DEF AllWritten
        <5>2. n \in 1..Len(Flushed)
          BY <1>1, <3>2
        <5> QED
          BY <3>2, <5>1, <5>2
      <4> QED
        BY <4>1, <4>2
    <3> QED
      BY <3>2, <3>3, <3>4, <3>5
  <2>4. CASE ~Writes
    <3>1. Flushed = output /\ pending.val = Tomb
      BY <1>3, <2>4 DEF Flushed, Writes
    <3>2. ASSUME NEW k \in Keys, Seen(k) # {}, Combined(Seen(k), k) # Tomb
          PROVE  \E n \in 1..Len(output) : output[n].key = k
      <4>1. k # pending.key
        BY <1>3, <3>1, <3>2 DEF PendingIsLast
      <4> QED
        BY <1>3, <2>1, <2>2, <3>2, <4>1 DEF AllWritten
    <3> QED
      BY <1>1, <1>3, <3>1, <3>2 DEF WrittenIsRight, OutputAscends
  <2> QED
    BY <2>3, <2>4
<1> QED
  BY <1>2, <1>3

(* With nothing left, what has come is what Compaction reads.              *)
LEMMA AllSeen ==
  ASSUME MergeTypeOK, InputsRead, heap = {}
  PROVE  /\ CanCompact(Level)
         /\ \A k \in Keys :
              Merged(Level)[k] = IF Seen(k) = {} \/ Combined(Seen(k), k) = Tomb
                                   THEN Absent ELSE Combined(Seen(k), k)
<1>1. DOMAIN Level = 1..Inputs /\ \A j \in 1..Inputs : Level[j].data = files[j]
  BY DEF Level, MergeTypeOK
<1>2. \A j \in 1..Inputs : Gone(j) = Records(Source(j))
  BY DEF Gone, Left
<1>3. \A j : \A k \in Records(Source(j)) : Source(j)[k] = files[j][k]
  BY DEF Records, Source, CompactionReads, NoRecords
<1>4. CanCompact(Level)
  <2> SUFFICES ASSUME NEW j \in 1..Inputs
               PROVE  CompactionAccepts(files[j])
    BY <1>1 DEF CanCompact
  <2>1. \A k \in Records(Source(j)) : Readable(k, Source(j)[k])
    BY <1>2, <1>3 DEF InputsRead
  <2> QED
    BY <2>1 DEF CompactionAccepts, AllReadable, InputsRead, Source
<1>5. ASSUME NEW k \in Keys
      PROVE  Merged(Level)[k] = IF Seen(k) = {} \/ Combined(Seen(k), k) = Tomb
                                  THEN Absent ELSE Combined(Seen(k), k)
  <2>1. \A j \in 1..Inputs : Reading(Level, j, k) = Source(j)[k]
    BY <1>1 DEF Reading, Source
  <2>2. Holders(Level, k) = Seen(k)
    BY <1>1, <1>2, <2>1 DEF Holders, Seen, Records
  <2>3. \A j \in Seen(k) : Reading(Level, j, k) = files[j][k]
    BY <1>2, <1>3, <2>1 DEF Seen
  <2>4. Merged(Level)[k] = MergedEntry(Level, k)
    BY DEF Merged
  <2>5. CASE Seen(k) = {}
    BY <2>2, <2>4, <2>5 DEF MergedEntry
  <2>6. CASE Seen(k) # {}
    <3>1. PICK H : H = Seen(k)
      OBVIOUS
    <3>2. /\ H \in SUBSET Nat /\ H # {}
          /\ \A j \in H : files[j][k] \in Entry \ {Absent}
      BY <2>6, <3>1, SeenType
    <3>3. Min(H) \in H
      BY <3>2, MinOfNats
    <3>4. Reading(Level, Min(H), k) = files[Min(H)][k]
      BY <2>3, <3>1, <3>3
    <3>5. Combined(H, k) = Tomb <=> files[Min(H)][k] = Tomb
      BY <3>2, CombinedIsEntry
    <3> DEFINE old == {j \in H \ {Min(H)} : Reading(Level, j, k) # Tomb}
    <3>6. old = Older(H, k)
      BY <2>3, <3>1 DEF Older
    <3>7. {Reading(Level, j, k) : j \in old} = {files[j][k] : j \in Older(H, k)}
      BY <2>3, <3>1, <3>6 DEF Older
    <3> HIDE DEF old
    <3>8. MergedEntry(Level, k) =
            IF files[Min(H)][k] = Tomb THEN Absent
            ELSE IF Merging
                   THEN Merge(files[Min(H)][k], UNION {Reading(Level, j, k) : j \in old})
                   ELSE files[Min(H)][k]
      BY <2>2, <3>1, <3>2, <3>4, Zenon DEF MergedEntry, old
    <3>9. MergedEntry(Level, k) =
            IF Combined(H, k) = Tomb THEN Absent ELSE Combined(H, k)
      BY <3>5, <3>7, <3>8 DEF Combined
    <3> QED
      BY <2>4, <2>6, <3>1, <3>9
  <2> QED
    BY <2>5, <2>6
<1> QED
  BY <1>4, <1>5

(* What the writer has at the end is the table Compaction says.            *)
LEMMA OutputIsMerged ==
  ASSUME MergeTypeOK, InputsRead, NothingCome, PendingIsLast, WrittenIsRight,
         AllWritten, OutputAscends, heap = {}
  PROVE  {<<Flushed[n].key, Flushed[n].val>> : n \in DOMAIN Flushed}
           = {<<k, Merged(Level)[k]>> : k \in Records(Merged(Level))}
<1>1. PICK out : out = Flushed
  OBVIOUS
<1>2. PICK result : result = Merged(Level)
  OBVIOUS
<1>3. out \in Seq(Pairs) /\ DOMAIN out = 1..Len(out)
  BY <1>1, FlushedIsAll
<1>4. \A n \in 1..Len(out) : out[n] \in Pairs
  BY <1>3
<1>5. \A k \in Keys :
        /\ Seen(k) # {} => Combined(Seen(k), k) # Absent
        /\ result[k] = IF Seen(k) = {} \/ Combined(Seen(k), k) = Tomb
                         THEN Absent ELSE Combined(Seen(k), k)
  <2> SUFFICES ASSUME NEW k \in Keys
               PROVE  /\ Seen(k) # {} => Combined(Seen(k), k) # Absent
                      /\ result[k] = IF Seen(k) = {} \/ Combined(Seen(k), k) = Tomb
                                       THEN Absent ELSE Combined(Seen(k), k)
    OBVIOUS
  <2>1. PICK H : H = Seen(k)
    OBVIOUS
  <2>2. /\ H \in SUBSET Nat
        /\ \A j \in H : files[j][k] \in Entry \ {Absent}
    BY <2>1, SeenType
  <2>3. H # {} => Combined(H, k) \in Entry \ {Absent}
    BY <2>2, CombinedIsEntry
  <2> QED
    BY <1>2, <2>1, <2>3, AllSeen
<1>6. ASSUME NEW n \in 1..Len(out)
      PROVE  out[n].key \in Records(result) /\ out[n].val = result[out[n].key]
  <2>1. out[n].key \in Keys
    BY <1>4 DEF Pairs
  <2>2. /\ Seen(out[n].key) # {}
        /\ out[n].val = Combined(Seen(out[n].key), out[n].key)
        /\ out[n].val # Tomb
    BY <1>1, FlushedIsAll
  <2> QED
    BY <1>5, <2>1, <2>2 DEF Records
<1>7. ASSUME NEW k \in Records(result)
      PROVE  \E n \in 1..Len(out) : out[n].key = k
  <2>1. k \in Keys /\ Seen(k) # {} /\ Combined(Seen(k), k) # Tomb
    BY <1>5 DEF Records
  <2> QED
    BY <1>1, <2>1, FlushedIsAll
<1>8. {<<out[n].key, out[n].val>> : n \in DOMAIN out} = {<<k, result[k]>> : k \in Records(result)}
  BY ONLY <1>3, <1>6, <1>7
<1> QED
  BY <1>1, <1>2, <1>8

-----------------------------------------------------------------------------
(* The invariant, action by action.                                        *)

LEMMA OpenInputKeeps ==
  ASSUME MergeInv, OpenInput
  PROVE  MergeInv'
<1>0. PICK i : i = opened + 1
  OBVIOUS
<1>1. /\ MergeTypeOK /\ HeapIsRight /\ Opening /\ OutputAscends
      /\ phase = "open" /\ phase' = "open" /\ opened < Inputs /\ opened \in Nat
      /\ i \in 1..Inputs /\ opened' = i /\ Records(files[i]) # {}
      /\ files' = files /\ pending' = pending /\ output' = output /\ ioFailed' = ioFailed
      /\ Inputs \in Nat
  BY <1>0, InputsIsNumber DEF MergeInv, OpenInput, MergeTypeOK
<1>2. /\ pending = NoPending /\ output = <<>>
      /\ \A x \in heap : x.fileIdx <= opened /\ x.fileIdx # i
      /\ \A j \in 1..opened : Records(files[j]) # {} /\ Gone(j) = {}
  <2>1. \A x \in heap : x.fileIdx \in 1..Inputs /\ x.fileIdx <= opened
    BY <1>1 DEF Opening, HeapIsRight
  <2>2. \A x \in heap : x.fileIdx # i
    BY <1>0, <1>1, <2>1
  <2> QED
    BY <1>1, <2>1, <2>2 DEF Opening
<1>3. iters' \in [1..Inputs -> {"none", "open", "closed"}]
  BY <1>0, <1>1 DEF OpenInput, MergeTypeOK
<1>4. MergeTypeOK'
  <2>1. i \in 0..Inputs
    BY <1>1
  <2> QED
    BY <1>1, <1>3, <2>1 DEF MergeTypeOK
<1>5. \A j : Source(j)' = Source(j)
  BY <1>1 DEF Source
<1>6. ASSUME NEW j \in 1..opened, \A x : x.fileIdx = j => (x \in heap' <=> x \in heap)
      PROVE  Records(files[j]) # {} /\ Gone(j)' = {}
  <2>1. Left(j)' = Left(j)
    BY <1>5, <1>6 DEF Left
  <2> QED
    BY <1>2, <1>5, <2>1 DEF Gone
<1>7. CASE HeadUnreadable(files[i])
  <2>1. heap' = heap /\ iters' = [iters EXCEPT ![i] = "closed"]
    BY <1>1, <1>0, <1>7 DEF OpenInput
  <2>2. HeapIsRight'
    <3>1. \A x \in heap : /\ x.fileIdx \in 1..Inputs
                         /\ x = Item(x.fileIdx, x.key)'
                         /\ x.key \in Records(files[x.fileIdx])
                         /\ ~HeadUnreadable(files[x.fileIdx])
                         /\ Readable(x.key, x.val)
      BY <1>1 DEF HeapIsRight, Item
    <3>2. \A j \in 1..Inputs : iters'[j] = "open" <=> \E x \in heap : x.fileIdx = j
      BY <1>1, <1>2, <2>1 DEF HeapIsRight, MergeTypeOK
    <3> QED
      BY <1>1, <2>1, <3>1, <3>2 DEF HeapIsRight
  <2>3. Gone(i)' = {}
    <3>1. Source(i) = NoRecords
      BY <1>7 DEF Source, CompactionReads
    <3>2. Records(Source(i)) = {}
      BY <3>1 DEF NoRecords, Records
    <3> QED
      BY <1>5, <3>2 DEF Gone
  <2>4. Opening'
    <3>1. \A j \in 1..i : j \in 1..opened \/ j = i
      BY <1>0, <1>1
    <3>2. \A x \in heap : x.fileIdx \in Int
      BY <1>1 DEF HeapIsRight
    <3>3. \A x \in heap : x.fileIdx <= i
      BY <1>0, <1>1, <1>2, <3>2
    <3>4. \A j \in 1..i : Records(files[j]) # {} /\ Gone(j)' = {}
      BY <1>1, <1>6, <2>1, <2>3, <3>1
    <3> QED
      BY <1>1, <1>2, <2>1, <3>3, <3>4 DEF Opening
  <2> QED
    BY <1>1, <1>4, <2>2, <2>4
       DEF MergeInv, OutputAscends, Halfway, Ended, LeaksOnlyWhileOpening
<1>8. CASE ~HeadUnreadable(files[i])
  <2>0. PICK R, k : R = Records(files[i]) /\ k = Min(R)
    OBVIOUS
  <2>1. heap' = heap \cup {Item(i, k)} /\ iters' = [iters EXCEPT ![i] = "open"]
    BY <1>0, <1>1, <1>8, <2>0 DEF OpenInput
  <2>2. R \in SUBSET Nat /\ k \in R /\ \A j \in R : k <= j
    BY <1>1, <2>0, KeysAreOrdered, MinOfNats DEF Records
  <2>3. /\ Item(i, k).fileIdx = i /\ Item(i, k).key = k
        /\ Item(i, k).val = files[i][k] /\ Item(i, k)' = Item(i, k)
    BY <1>1 DEF Item
  <2>4. Readable(k, files[i][k])
    BY <1>8, <2>0, <2>2 DEF HeadUnreadable
  <2>5. HeapIsRight'
    <3>1. \A x \in heap : /\ x.fileIdx \in 1..Inputs
                         /\ x = Item(x.fileIdx, x.key)'
                         /\ x.key \in Records(files[x.fileIdx])
                         /\ ~HeadUnreadable(files[x.fileIdx])
                         /\ Readable(x.key, x.val)
      BY <1>1 DEF HeapIsRight, Item
    <3>2. ASSUME NEW x, x = Item(i, k)
          PROVE  /\ x.fileIdx \in 1..Inputs
                 /\ x = Item(x.fileIdx, x.key)'
                 /\ x.key \in Records(files[x.fileIdx])
                 /\ ~HeadUnreadable(files[x.fileIdx])
                 /\ Readable(x.key, x.val)
      <4>1. x.fileIdx = i /\ x.key = k /\ x.val = files[i][k]
        BY <2>3, <3>2
      <4>2. x = Item(x.fileIdx, x.key)'
        BY <1>1, <3>2, <4>1 DEF Item
      <4> QED
        BY <1>1, <1>8, <2>0, <2>2, <2>4, <4>1, <4>2
    <3>3. \A j \in 1..Inputs : iters'[j] = "open" <=> \E x \in heap' : x.fileIdx = j
      BY <1>1, <1>2, <2>1, <2>3 DEF HeapIsRight, MergeTypeOK
    <3>4. \A x, y \in heap' : x.fileIdx = y.fileIdx => x = y
      BY <1>1, <1>2, <2>1, <2>3 DEF HeapIsRight
    <3>5. \A x \in heap' : x \in heap \/ x = Item(i, k)
      BY <2>1
    <3> QED
      BY <1>1, <3>1, <3>2, <3>3, <3>4, <3>5 DEF HeapIsRight
  <2>6. Gone(i)' = {}
    <3>1. Source(i) = files[i]
      BY <1>8 DEF Source, CompactionReads
    <3>2. Item(i, k) \in heap'
      BY <2>1
    <3>3. \A j \in R : \E x \in heap' : x.fileIdx = i /\ x.key <= j
      BY <2>2, <2>3, <3>2
    <3>4. Left(i)' = R
      BY <1>5, <2>0, <3>1, <3>3 DEF Left
    <3> QED
      BY <1>5, <2>0, <3>1, <3>4 DEF Gone
  <2>7. Opening'
    <3>1. \A j \in 1..i : j \in 1..opened \/ j = i
      BY <1>0, <1>1
    <3>2. \A x \in heap : x.fileIdx \in Int
      BY <1>1 DEF HeapIsRight
    <3>3. \A x \in heap' : x.fileIdx <= i
      <4>1. \A x \in heap : x.fileIdx <= i
        BY <1>0, <1>1, <1>2, <3>2
      <4>2. i <= i
        BY <1>1
      <4> QED
        BY <2>1, <2>3, <4>1, <4>2
    <3>4. \A j \in 1..i : Records(files[j]) # {} /\ Gone(j)' = {}
      <4>1. ASSUME NEW j \in 1..opened
            PROVE  Records(files[j]) # {} /\ Gone(j)' = {}
        <5>1. j # i
          BY <1>0, <1>1
        <5>2. \A x : x.fileIdx = j => (x \in heap' <=> x \in heap)
          BY <2>1, <2>3, <5>1
        <5> QED
          BY <1>6, <5>2
      <4> QED
        BY <1>1, <2>6, <3>1, <4>1
    <3> QED
      BY <1>1, <1>2, <3>3, <3>4 DEF Opening
  <2> QED
    BY <1>1, <1>4, <2>5, <2>7
       DEF MergeInv, OutputAscends, Halfway, Ended, LeaksOnlyWhileOpening
<1> QED
  BY <1>7, <1>8

(* What is on the heap when a step fails is closed.                        *)
LEMMA CloseAllCloses ==
  ASSUME NEW its \in [1..Inputs -> {"none", "open", "closed"}], NEW h,
         \A j \in 1..Inputs : its[j] = "open" => \E x \in h : x.fileIdx = j
  PROVE  /\ CloseAll(its, h) \in [1..Inputs -> {"none", "open", "closed"}]
         /\ \A j \in 1..Inputs : CloseAll(its, h)[j] # "open"
BY DEF CloseAll

(* A table without records is not compacted.                               *)
LEMMA EmptyIsRefused ==
  ASSUME MergeTypeOK, NEW i \in 1..Inputs, Records(files[i]) = {}
  PROVE  ~CanCompact(Level)
<1>1. DOMAIN Level = 1..Inputs /\ Level[i].data = files[i]
  BY DEF Level, MergeTypeOK
<1>2. ~CompactionAccepts(files[i])
  <2>1. CompactionReads(files[i]) \in {files[i], NoRecords}
    BY DEF CompactionReads
  <2> QED
    BY DEF CompactionAccepts
<1> QED
  BY <1>1, <1>2 DEF CanCompact

LEMMA OpenFails ==
  ASSUME MergeInv, OpenInputFails \/ CreateOutputFails
  PROVE  MergeInv'
<1>1. /\ MergeTypeOK /\ HeapIsRight /\ Opening /\ OutputAscends
      /\ phase = "open" /\ phase' = "failed" /\ opened' = opened /\ opened \in 0..Inputs
      /\ files' = files /\ pending' = pending /\ output' = output
      /\ Inputs \in Nat
  BY InputsIsNumber
     DEF MergeInv, OpenInputFails, CreateOutputFails, MergeTypeOK, Fail
<1>2. Level' = Level
  BY <1>1 DEF Level
<1>3. CanCompact(Level)' <=> CanCompact(Level)
  BY <1>2 DEF CanCompact
<1>4. CASE OpenInputFails
  <2>1. /\ iters' = iters /\ opened < Inputs
        /\ ioFailed' \/ Records(files[opened + 1]) = {}
        /\ ioFailed' \in BOOLEAN
    BY <1>1, <1>4 DEF OpenInputFails, MergeTypeOK
  <2>2. ioFailed' \/ Records(files[opened + 1]) = {}
    BY <2>1
  <2>3. Ended'
    <3>1. opened + 1 \in 1..Inputs
      BY <1>1, <2>1
    <3>2. Records(files[opened + 1]) = {} => ~CanCompact(Level)
      BY <1>1, <3>1, EmptyIsRefused
    <3> QED
      BY <1>1, <1>3, <2>2, <3>2 DEF Ended
  <2>4. Open' \subseteq 1..opened
    <3>1. \A j \in 1..Inputs : iters[j] = "open" => j <= opened
      BY <1>1 DEF HeapIsRight, Opening
    <3>2. DOMAIN iters' = 1..Inputs
      BY <1>1, <2>1 DEF MergeTypeOK
    <3> QED
      BY <1>1, <2>1, <3>1, <3>2 DEF Open
  <2>5. LeaksOnlyWhileOpening'
    BY <1>1, <2>1, <2>2, <2>4 DEF LeaksOnlyWhileOpening
  <2>6. MergeTypeOK'
    BY <1>1, <2>1 DEF MergeTypeOK
  <2> QED
    BY <1>1, <2>3, <2>5, <2>6 DEF MergeInv, Opening, OutputAscends, Halfway
<1>5. CASE CreateOutputFails
  <2>1. iters' = CloseAll(iters, heap) /\ ioFailed' = TRUE
    BY <1>5 DEF CreateOutputFails
  <2>2. /\ iters' \in [1..Inputs -> {"none", "open", "closed"}]
        /\ \A j \in 1..Inputs : iters'[j] # "open"
    <3>1. \A j \in 1..Inputs : iters[j] = "open" => \E x \in heap : x.fileIdx = j
      BY <1>1 DEF HeapIsRight
    <3>2. iters \in [1..Inputs -> {"none", "open", "closed"}]
      BY <1>1 DEF MergeTypeOK
    <3> QED
      BY <2>1, <3>1, <3>2, CloseAllCloses
  <2>3. LeaksOnlyWhileOpening'
    BY <2>2 DEF LeaksOnlyWhileOpening, Open
  <2>4. MergeTypeOK'
    BY <1>1, <2>1, <2>2 DEF MergeTypeOK
  <2> QED
    BY <1>1, <2>1, <2>3, <2>4 DEF MergeInv, Opening, OutputAscends, Halfway, Ended
<1> QED
  BY <1>4, <1>5

LEMMA CreateOutputKeeps ==
  ASSUME MergeInv, CreateOutput
  PROVE  MergeInv'
<1>1. /\ MergeTypeOK /\ HeapIsRight /\ Opening /\ OutputAscends
      /\ phase = "open" /\ phase' = "merge" /\ opened = Inputs
      /\ UNCHANGED <<files, opened, iters, heap, pending, output, ioFailed>>
  BY DEF MergeInv, CreateOutput
<1>2. MergeTypeOK' /\ OutputAscends'
  BY <1>1 DEF MergeTypeOK, OutputAscends
<1>3. HeapIsRight'
  BY <1>1 DEF HeapIsRight, Item
<1>4. \A i \in 1..Inputs : Gone(i)' = Gone(i)
  BY <1>1 DEF Gone, Left, Source
<1>5. Halfway'
  BY <1>1, <1>4
     DEF Opening, Halfway, InputsRead, NothingCome, PendingIsLast, WrittenIsRight, AllWritten
<1> QED
  BY <1>1, <1>2, <1>3, <1>5 DEF MergeInv, Opening, Ended, LeaksOnlyWhileOpening

(* A turn of the loop that goes on: the heap stays right, whichever way    *)
(* the iterator of the top went.                                           *)
LEMMA TurnKeepsHeap ==
  ASSUME MergeTypeOK, HeapIsRight, Turn,
         NEW top, top = Top(heap),
         NEW next, next = After(top.fileIdx, top.key),
         next # {} => Readable(Min(next), files[top.fileIdx][Min(next)]),
         iters' = IF next = {} THEN [iters EXCEPT ![top.fileIdx] = "closed"] ELSE iters
  PROVE  HeapIsRight'
<1>1. /\ top \in heap /\ top.fileIdx \in 1..Inputs /\ files' = files
      /\ ~HeadUnreadable(files[top.fileIdx])
      /\ \A x \in heap : x.fileIdx = top.fileIdx => x = top
      /\ iters \in [1..Inputs -> {"none", "open", "closed"}]
      /\ \A i \in 1..Inputs : iters[i] = "open" <=> \E x \in heap : x.fileIdx = i
  BY TopIsLeast DEF Turn, Popped, HeapIsRight, MergeTypeOK
<1>2. PICK i, k : i = top.fileIdx /\ k = Min(next)
  OBVIOUS
<1>3. \A x : Item(x.fileIdx, x.key)' = Item(x.fileIdx, x.key)
  BY <1>1 DEF Item
<1>4. heap' = (heap \ {top}) \cup IF next = {} THEN {} ELSE {Item(i, k)}
  BY <1>2 DEF Turn, Popped
<1>5. /\ Item(i, k).fileIdx = i /\ Item(i, k).key = k /\ Item(i, k).val = files[i][k]
  BY DEF Item
<1>6. next # {} => k \in Records(files[i])
  <2>1. next \in SUBSET Nat /\ next \subseteq Records(files[i])
    BY <1>2, KeysAreOrdered DEF After, Records
  <2> QED
    BY <1>2, <2>1, MinOfNats
<1>7. ASSUME NEW x \in heap'
      PROVE  /\ x.fileIdx \in 1..Inputs
             /\ x = Item(x.fileIdx, x.key)
             /\ x.key \in Records(files[x.fileIdx])
             /\ ~HeadUnreadable(files[x.fileIdx])
             /\ Readable(x.key, x.val)
  <2>1. CASE x \in heap
    BY <2>1 DEF HeapIsRight
  <2>2. CASE x \notin heap
    <3>1. next # {} /\ x = Item(i, k)
      BY <1>4, <2>2
    <3>2. x.fileIdx = i /\ x.key = k /\ x.val = files[i][k]
      BY <1>5, <3>1
    <3> QED
      BY <1>1, <1>2, <1>6, <3>1, <3>2
  <2> QED
    BY <2>1, <2>2
<1>8. \A x, y \in heap' : x.fileIdx = y.fileIdx => x = y
  <2>1. \A x \in heap' : \/ x \in heap /\ x # top /\ x.fileIdx # i
                         \/ x = Item(i, k)
    BY <1>1, <1>2, <1>4
  <2> QED
    BY <1>5, <2>1 DEF HeapIsRight
<1>9. ASSUME NEW j \in 1..Inputs
      PROVE  iters'[j] = "open" <=> \E x \in heap' : x.fileIdx = j
  <2>1. CASE next = {}
    <3>1. heap' = heap \ {top} /\ iters' = [iters EXCEPT ![i] = "closed"]
      BY <1>2, <1>4, <2>1
    <3>2. CASE j = i
      BY <1>1, <1>2, <3>1, <3>2
    <3>3. CASE j # i
      <4>1. \A x : x.fileIdx = j => (x \in heap' <=> x \in heap)
        BY <1>2, <3>1, <3>3
      <4> QED
        BY <1>1, <3>1, <3>3, <4>1
    <3> QED
      BY <3>2, <3>3
  <2>2. CASE next # {}
    <3>1. heap' = (heap \ {top}) \cup {Item(i, k)} /\ iters' = iters
      BY <1>4, <2>2
    <3>2. CASE j = i
      <4>1. Item(i, k) \in heap'
        BY <3>1
      <4>2. iters[i] = "open"
        BY <1>1, <1>2
      <4> QED
        BY <1>5, <3>1, <3>2, <4>1, <4>2
    <3>3. CASE j # i
      <4>1. \A x : x.fileIdx = j => (x \in heap' <=> x \in heap)
        BY <1>2, <1>5, <3>1, <3>3
      <4> QED
        BY <1>1, <3>1, <4>1
    <3> QED
      BY <3>2, <3>3
  <2> QED
    BY <2>1, <2>2
<1> QED
  BY <1>1, <1>3, <1>7, <1>8, <1>9 DEF HeapIsRight

LEMMA MergeItemKeeps ==
  ASSUME MergeInv, MergeItem
  PROVE  MergeInv'
<1>0. /\ MergeTypeOK /\ HeapIsRight /\ OutputAscends
      /\ InputsRead /\ NothingCome /\ PendingIsLast /\ WrittenIsRight /\ AllWritten
      /\ phase = "merge" /\ opened = Inputs /\ heap # {}
      /\ UNCHANGED <<files, opened, writer, ioFailed>>
  BY DEF MergeInv, MergeItem, Halfway
<1>1. PICK top, next, k : /\ top = Top(heap) /\ next = After(top.fileIdx, top.key)
                          /\ k = Min(next)
  OBVIOUS
<1>2. /\ output' = (IF Repeats(top) THEN output ELSE Flushed)
      /\ pending' = Take(top)
  BY <1>1 DEF MergeItem
<1>3. top \in heap /\ top.fileIdx \in 1..Inputs /\ ~HeadUnreadable(files[top.fileIdx])
  BY <1>0, <1>1, TopIsLeast DEF HeapIsRight
<1>4. \/ /\ next = {}
         /\ iters' = [iters EXCEPT ![top.fileIdx] = "closed"]
         /\ heap' = heap \ {top}
         /\ phase' = phase
      \/ /\ next # {}
         /\ Readable(k, files[top.fileIdx][k])
         /\ heap' = (heap \ {top}) \cup {Item(top.fileIdx, k)}
         /\ iters' = iters /\ phase' = phase
      \/ /\ next # {}
         /\ ~Readable(k, files[top.fileIdx][k])
         /\ iters' = CloseAll([iters EXCEPT ![top.fileIdx] = "closed"], heap \ {top})
         /\ heap' = {}
         /\ phase' = "failed"
  BY <1>1 DEF MergeItem, Fail
<1>5. output' \in Seq(Pairs) /\ OutputAscends'
  <2>1. /\ Flushed \in Seq(Pairs)
        /\ \A m, n \in 1..Len(Flushed) : m < n => Flushed[m].key < Flushed[n].key
    BY <1>0, FlushedIsAll
  <2>2. CASE Repeats(top)
    <3>1. output' = output
      BY <1>2, <2>2
    <3> QED
      BY <1>0, <3>1 DEF OutputAscends, MergeTypeOK
  <2>3. CASE ~Repeats(top)
    <3>1. output' = Flushed
      BY <1>2, <2>3
    <3> QED
      BY <2>1, <3>1 DEF OutputAscends
  <2> QED
    BY <2>2, <2>3
<1>6. pending' \in Pairs
  BY <1>0, <1>1, <1>2, TakeType
<1>7. CASE phase' = phase
  <2>1. \/ next = {}
        \/ next # {} /\ Readable(k, files[top.fileIdx][k])
    BY <1>0, <1>4, <1>7
  <2>2. /\ heap' = (heap \ {top}) \cup IF next = {} THEN {} ELSE {Item(top.fileIdx, k)}
        /\ iters' = IF next = {} THEN [iters EXCEPT ![top.fileIdx] = "closed"] ELSE iters
    BY <1>0, <1>4, <1>7
  <2>3. Turn
    BY <1>0, <1>1, <1>2, <2>2 DEF Turn, Popped
  <2>4. HeapIsRight'
    BY <1>0, <1>1, <2>1, <2>2, <2>3, TurnKeepsHeap
  <2>5. InputsRead'
    BY <1>0, <2>3, TurnReads
  <2>6. PendingIsLast' /\ pending' # NoPending
    BY <1>0, <2>3, TurnPending
  <2>7. WrittenIsRight' /\ AllWritten'
    BY <1>0, <2>3, TurnWrites
  <2>8. Halfway'
    BY <2>5, <2>6, <2>7 DEF Halfway, NothingCome
  <2>9. MergeTypeOK'
    <3>1. iters' \in [1..Inputs -> {"none", "open", "closed"}]
      BY <1>0, <2>2 DEF MergeTypeOK
    <3> QED
      BY <1>0, <1>5, <1>6, <1>7, <3>1 DEF MergeTypeOK
  <2> QED
    BY <1>0, <1>5, <1>7, <2>4, <2>8, <2>9
       DEF MergeInv, Opening, Ended, LeaksOnlyWhileOpening
<1>8. CASE phase' # phase
  <2>1. /\ next # {} /\ ~Readable(k, files[top.fileIdx][k])
        /\ iters' = CloseAll([iters EXCEPT ![top.fileIdx] = "closed"], heap \ {top})
        /\ phase' = "failed"
    BY <1>4, <1>8
  <2>2. /\ iters' \in [1..Inputs -> {"none", "open", "closed"}]
        /\ \A j \in 1..Inputs : iters'[j] # "open"
    <3> DEFINE its == [iters EXCEPT ![top.fileIdx] = "closed"]
    <3>1. its \in [1..Inputs -> {"none", "open", "closed"}]
      BY <1>0 DEF MergeTypeOK
    <3>2. \A j \in 1..Inputs : its[j] = "open" => \E x \in heap \ {top} : x.fileIdx = j
      BY <1>0, <1>3 DEF HeapIsRight, MergeTypeOK
    <3> HIDE DEF its
    <3>3. iters' = CloseAll(its, heap \ {top})
      BY <2>1 DEF its
    <3> QED
      BY <3>1, <3>2, <3>3, CloseAllCloses
  <2>3. ~CanCompact(Level)
    <3>1. next \in SUBSET Nat /\ next \subseteq Records(files[top.fileIdx])
      BY <1>1, KeysAreOrdered DEF After, Records
    <3>2. k \in Records(files[top.fileIdx])
      BY <1>1, <2>1, <3>1, MinOfNats
    <3>3. ~CompactionAccepts(files[top.fileIdx])
      BY <1>3, <2>1, <3>2 DEF CompactionAccepts, AllReadable, CompactionReads
    <3>4. DOMAIN Level = 1..Inputs /\ Level[top.fileIdx].data = files[top.fileIdx]
      BY <1>0, <1>3 DEF Level, MergeTypeOK
    <3> QED
      BY <1>3, <3>3, <3>4 DEF CanCompact
  <2>4. Ended'
    <3>1. Level' = Level
      BY <1>0 DEF Level
    <3> QED
      BY <2>1, <2>3, <3>1 DEF Ended, CanCompact
  <2>5. LeaksOnlyWhileOpening'
    BY <2>2 DEF LeaksOnlyWhileOpening, Open
  <2>6. MergeTypeOK'
    BY <1>0, <1>5, <1>6, <2>1, <2>2 DEF MergeTypeOK
  <2> QED
    BY <1>5, <2>1, <2>4, <2>5, <2>6 DEF MergeInv, Opening, Halfway
<1> QED
  BY <1>7, <1>8

LEMMA LoopFails ==
  ASSUME MergeInv, MergeItemFails \/ FinishFails
  PROVE  MergeInv'
<1>1. /\ MergeTypeOK /\ HeapIsRight /\ OutputAscends
      /\ phase = "merge" /\ phase' = "failed" /\ ioFailed' = TRUE
      /\ UNCHANGED <<files, opened, pending, output>>
  BY DEF MergeInv, MergeItemFails, FinishFails, Fail
<1>2. /\ iters' \in [1..Inputs -> {"none", "open", "closed"}]
      /\ \A j \in 1..Inputs : iters'[j] # "open"
  <2>1. /\ iters \in [1..Inputs -> {"none", "open", "closed"}]
        /\ \A j \in 1..Inputs : iters[j] = "open" => \E x \in heap : x.fileIdx = j
    BY <1>1 DEF HeapIsRight, MergeTypeOK
  <2>2. CASE MergeItemFails
    <3>1. iters' = CloseAll(iters, heap)
      BY <2>2 DEF MergeItemFails
    <3> QED
      BY <2>1, <3>1, CloseAllCloses
  <2>3. CASE FinishFails
    BY <2>1, <2>3 DEF FinishFails
  <2> QED
    BY <2>2, <2>3
<1>3. MergeTypeOK'
  BY <1>1, <1>2 DEF MergeTypeOK
<1>4. LeaksOnlyWhileOpening'
  BY <1>2 DEF LeaksOnlyWhileOpening, Open
<1> QED
  BY <1>1, <1>3, <1>4 DEF MergeInv, Opening, OutputAscends, Halfway, Ended

LEMMA FinishKeeps ==
  ASSUME MergeInv, Finish
  PROVE  MergeInv'
<1>1. /\ MergeTypeOK /\ HeapIsRight /\ OutputAscends
      /\ InputsRead /\ NothingCome /\ PendingIsLast /\ WrittenIsRight /\ AllWritten
      /\ heap = {} /\ phase' = "done" /\ output' = Flushed
      /\ UNCHANGED <<files, opened, iters, heap, pending, writer, ioFailed>>
  BY DEF MergeInv, Finish, Halfway
<1>2. /\ Flushed \in Seq(Pairs)
      /\ \A m, n \in 1..Len(Flushed) : m < n => Flushed[m].key < Flushed[n].key
  BY <1>1, FlushedIsAll
<1>3. MergeTypeOK' /\ OutputAscends'
  BY <1>1, <1>2 DEF MergeTypeOK, OutputAscends
<1>4. Ended'
  <2>1. PICK lv : lv = Level
    OBVIOUS
  <2>2. Level' = lv
    BY <1>1, <2>1 DEF Level
  <2>3. /\ CanCompact(lv)
        /\ {<<Flushed[n].key, Flushed[n].val>> : n \in DOMAIN Flushed}
              = {<<k, Merged(lv)[k]>> : k \in Records(Merged(lv))}
    BY <1>1, <2>1, AllSeen, OutputIsMerged
  <2> QED
    BY <1>1, <2>2, <2>3 DEF Ended
<1>5. LeaksOnlyWhileOpening'
  BY <1>1 DEF LeaksOnlyWhileOpening, Open, HeapIsRight, MergeTypeOK
<1> QED
  BY <1>1, <1>3, <1>4, <1>5 DEF MergeInv, Opening, Halfway

-----------------------------------------------------------------------------
LEMMA InitMerge == CInit => MergeInv
<1> SUFFICES ASSUME CInit PROVE MergeInv
  OBVIOUS
<1>1. MergeTypeOK
  <2>1. 0 \in 0..Inputs /\ <<>> \in Seq(Pairs)
    BY InputsIsNumber
  <2>2. [i \in 1..Inputs |-> "none"] \in [1..Inputs -> {"none", "open", "closed"}]
    OBVIOUS
  <2> QED
    BY <2>1, <2>2 DEF CInit, MergeTypeOK
<1>2. HeapIsRight
  BY DEF CInit, HeapIsRight
<1>3. Opening
  BY DEF CInit, Opening
<1>4. OutputAscends
  BY DEF CInit, OutputAscends
<1> QED
  BY <1>1, <1>2, <1>3, <1>4 DEF CInit, MergeInv, Halfway, Ended, LeaksOnlyWhileOpening

LEMMA NextMerge == MergeInv /\ [CNext]_cvars => MergeInv'
<1> SUFFICES ASSUME MergeInv, [CNext]_cvars PROVE MergeInv'
  OBVIOUS
<1>1. CASE OpenInput
  BY <1>1, OpenInputKeeps
<1>2. CASE OpenInputFails \/ CreateOutputFails
  BY <1>2, OpenFails
<1>3. CASE CreateOutput
  BY <1>3, CreateOutputKeeps
<1>4. CASE MergeItem
  BY <1>4, MergeItemKeeps
<1>5. CASE MergeItemFails \/ FinishFails
  BY <1>5, LoopFails
<1>6. CASE Finish
  BY <1>6, FinishKeeps
<1>7. CASE UNCHANGED cvars
  <2>1. UNCHANGED <<files, phase, opened, iters, heap, pending, output, writer, ioFailed>>
    BY <1>7 DEF cvars
  <2>2. /\ MergeTypeOK' <=> MergeTypeOK
        /\ HeapIsRight' <=> HeapIsRight
        /\ OutputAscends' <=> OutputAscends
        /\ LeaksOnlyWhileOpening' <=> LeaksOnlyWhileOpening
    BY <2>1 DEF MergeTypeOK, HeapIsRight, Item, OutputAscends, LeaksOnlyWhileOpening, Open
  <2>3. /\ \A i : Gone(i)' = Gone(i)
        /\ \A k : Seen(k)' = Seen(k)
        /\ \A H, k : Combined(H, k)' = Combined(H, k)
    BY <2>1 DEF Gone, Left, Source, Seen, Combined, Older
  <2>4. Opening' <=> Opening
    BY <2>1, <2>3 DEF Opening
  <2>5. Halfway' <=> Halfway
    <3>1. InputsRead' <=> InputsRead
      BY <2>1, <2>3 DEF InputsRead
    <3>2. NothingCome' <=> NothingCome
      BY <2>1, <2>3 DEF NothingCome
    <3>3. PendingIsLast' <=> PendingIsLast
      BY <2>1, <2>3 DEF PendingIsLast
    <3>4. WrittenIsRight' <=> WrittenIsRight
      BY <2>1, <2>3 DEF WrittenIsRight
    <3>5. AllWritten' <=> AllWritten
      BY <2>1, <2>3 DEF AllWritten
    <3> QED
      BY <2>1, <3>1, <3>2, <3>3, <3>4, <3>5 DEF Halfway
  <2>6. Ended' <=> Ended
    <3>1. Level' = Level
      BY <2>1 DEF Level
    <3>2. /\ CanCompact(Level)' <=> CanCompact(Level)
          /\ Merged(Level)' = Merged(Level)
      BY <3>1 DEF CanCompact, Merged, MergedEntry, Holders, Reading
    <3> QED
      BY <2>1, <3>1, <3>2 DEF Ended
  <2> QED
    BY <2>1, <2>2, <2>4, <2>5, <2>6 DEF MergeInv
<1> QED
  BY <1>1, <1>2, <1>3, <1>4, <1>5, <1>6, <1>7 DEF CNext

(* The invariant that the loop keeps at every step.                        *)
LEMMA MergeInvHolds == CSpec => []MergeInv
BY InitMerge, NextMerge, PTL DEF CSpec

(* runCompaction writes, in ascending order, what Compaction says of the   *)
(* level, and succeeds only on a level that can be compacted; without a    *)
(* failing system call it fails only on others.                            *)
THEOREM MergeComputesMerged == CSpec => []MergeIsMerged
<1>1. MergeInv => MergeIsMerged
  <2> SUFFICES ASSUME MergeInv PROVE MergeIsMerged
    OBVIOUS
  <2>1. DOMAIN output = 1..Len(output)
    BY DEF MergeInv, MergeTypeOK
  <2> QED
    BY <2>1 DEF MergeInv, OutputAscends, Ended, MergeIsMerged
<1> QED
  BY <1>1, MergeInvHolds, PTL

(* runCompaction leaves an iterator open only when a table is refused or   *)
(* cannot be opened, and then only those opened before it.                 *)
THEOREM LeaksAreOfOpening == CSpec => []LeaksOnlyWhileOpening
<1>1. MergeInv => LeaksOnlyWhileOpening
  BY DEF MergeInv
<1> QED
  BY <1>1, MergeInvHolds, PTL

-----------------------------------------------------------------------------
(* The postings of a document.                                             *)

(* The inductive invariant: the list of a stem has its places in the text, *)
(* in order.                                                               *)
PostingsAreOfText ==
  /\ text \in Seq(Words) /\ pos = Len(text)
  /\ lists \in [Words -> Seq(Nat)] /\ older \in [Words -> Seq(Nat)]
  /\ \A t \in Words : /\ Increasing(lists[t]) /\ Increasing(older[t])
                      /\ ToSet(lists[t]) = PositionSet(text, t)

(* What one word adds.                                                     *)
LEMMA PositionsGrow ==
  ASSUME NEW s \in Seq(Words), NEW w \in Words, NEW t \in Words
  PROVE  PositionSet(Append(s, w), t)
           = PositionSet(s, t) \cup (IF w \notin Stops /\ Stem[w] = t THEN {Len(s)} ELSE {})
<1>1. PICK n \in Nat : n = Len(s) /\ DOMAIN s = 1..n
  OBVIOUS
<1>2. PICK r : r = Append(s, w) /\ DOMAIN r = 1..(n + 1) /\ r[n + 1] = w
               /\ \A p \in 1..n : r[p] = s[p]
  <2>1. /\ Append(s, w) \in Seq(Words) /\ DOMAIN Append(s, w) = 1..(n + 1)
        /\ Append(s, w)[n + 1] = w /\ \A p \in 1..n : Append(s, w)[p] = s[p]
    BY <1>1
  <2> QED
    BY <2>1
<1>3. PICK fits : fits = (IF w \notin Stops /\ Stem[w] = t THEN {n + 1} ELSE {})
  OBVIOUS
<1>4. Where(r, t) = Where(s, t) \cup fits
  <2>1. \A p : p \in Where(r, t) <=> p \in 1..(n + 1) /\ r[p] \notin Stops /\ Stem[r[p]] = t
    BY <1>2 DEF Where
  <2>2. \A p : p \in Where(s, t) <=> p \in 1..n /\ s[p] \notin Stops /\ Stem[s[p]] = t
    BY <1>1 DEF Where
  <2>3. \A p : p \in 1..(n + 1) <=> p \in 1..n \/ p = n + 1
    OBVIOUS
  <2>4. n + 1 \notin 1..n
    OBVIOUS
  <2> QED
    BY <1>2, <1>3, <2>1, <2>2, <2>3, <2>4
<1>5. {p - 1 : p \in Where(s, t) \cup fits} = {p - 1 : p \in Where(s, t)} \cup {p - 1 : p \in fits}
  OBVIOUS
<1>6. {p - 1 : p \in fits} = IF w \notin Stops /\ Stem[w] = t THEN {n} ELSE {}
  BY <1>3
<1> QED
  BY <1>1, <1>2, <1>4, <1>5, <1>6 DEF PositionSet

LEMMA PositionsInText ==
  ASSUME NEW s \in Seq(Words), NEW t \in Words, NEW p \in PositionSet(s, t)
  PROVE  p \in Nat /\ p < Len(s)
<1>1. PICK q \in DOMAIN s : p = q - 1
  BY DEF PositionSet, Where
<1> QED
  BY <1>1

LEMMA AppendIncreases ==
  ASSUME NEW s \in Seq(Nat), Increasing(s), NEW p \in Nat, \A q \in ToSet(s) : q < p
  PROVE  /\ Append(s, p) \in Seq(Nat)
         /\ Increasing(Append(s, p))
         /\ ToSet(Append(s, p)) = ToSet(s) \cup {p}
<1>1. PICK n \in Nat : n = Len(s) /\ DOMAIN s = 1..n
  OBVIOUS
<1>2. PICK r : r = Append(s, p) /\ r \in Seq(Nat) /\ DOMAIN r = 1..(n + 1) /\ r[n + 1] = p
               /\ \A i \in 1..n : r[i] = s[i]
  <2>1. /\ Append(s, p) \in Seq(Nat) /\ DOMAIN Append(s, p) = 1..(n + 1)
        /\ Append(s, p)[n + 1] = p /\ \A i \in 1..n : Append(s, p)[i] = s[i]
    BY <1>1
  <2> QED
    BY <2>1
<1>3. \A i \in 1..n : s[i] \in ToSet(s)
  BY <1>1 DEF ToSet
<1>4. \A i : i \in 1..(n + 1) <=> i \in 1..n \/ i = n + 1
  OBVIOUS
<1>5. Increasing(r)
  <2> SUFFICES ASSUME NEW i \in 1..(n + 1), NEW j \in 1..(n + 1), i < j
               PROVE  r[i] < r[j]
    BY <1>2 DEF Increasing
  <2>1. i \in 1..n
    OBVIOUS
  <2>2. CASE j = n + 1
    BY <1>2, <1>3, <2>1, <2>2
  <2>3. CASE j \in 1..n
    BY <1>1, <1>2, <2>1, <2>3 DEF Increasing
  <2> QED
    BY <1>4, <2>2, <2>3
<1>6. ToSet(r) = ToSet(s) \cup {p}
  <2>1. ToSet(r) = {r[i] : i \in 1..(n + 1)} /\ ToSet(s) = {s[i] : i \in 1..n}
    BY <1>1, <1>2 DEF ToSet
  <2> QED
    BY <1>2, <1>4, <2>1
<1> QED
  BY <1>2, <1>5, <1>6

LEMMA TokenKeeps ==
  ASSUME PostingsAreOfText, NEW w \in Words, Token(w)
  PROVE  PostingsAreOfText'
<1> USE DEF PostingsAreOfText
<1>1. /\ text' = Append(text, w) /\ pos' = pos + 1 /\ older' = older
      /\ lists' = IF w \in Stops THEN lists ELSE [lists EXCEPT ![Stem[w]] = Append(@, pos)]
  BY DEF Token
<1>2. text' \in Seq(Words) /\ pos' = Len(text') /\ pos \in Nat
  BY <1>1
<1>3. Stem[w] \in Words
  BY StemsAreWords
<1>4. ASSUME NEW t \in Words
      PROVE  /\ lists'[t] \in Seq(Nat) /\ Increasing(lists'[t])
             /\ ToSet(lists'[t]) = PositionSet(text', t)
  <2>1. PositionSet(text', t)
          = PositionSet(text, t) \cup (IF w \notin Stops /\ Stem[w] = t THEN {pos} ELSE {})
    BY <1>1, PositionsGrow
  <2>2. CASE w \notin Stops /\ Stem[w] = t
    <3>1. lists'[t] = Append(lists[t], pos)
      BY <1>1, <1>3, <2>2
    <3>2. \A q \in ToSet(lists[t]) : q < pos
      BY PositionsInText
    <3>3. /\ Append(lists[t], pos) \in Seq(Nat) /\ Increasing(Append(lists[t], pos))
          /\ ToSet(Append(lists[t], pos)) = ToSet(lists[t]) \cup {pos}
      BY <1>2, <3>2, AppendIncreases
    <3> QED
      BY <2>1, <2>2, <3>1, <3>3
  <2>3. CASE ~(w \notin Stops /\ Stem[w] = t)
    <3>1. lists'[t] = lists[t]
      BY <1>1, <1>3, <2>3
    <3> QED
      BY <2>1, <2>3, <3>1
  <2> QED
    BY <2>2, <2>3
<1>5. lists' \in [Words -> Seq(Nat)]
  <2>1. lists' = [t \in Words |-> lists'[t]]
    BY <1>1
  <2> QED
    BY <1>4, <2>1
<1> QED
  BY <1>1, <1>2, <1>4, <1>5

LEMMA NothingPosted ==
  Increasing(<<>>) /\ ToSet(<<>>) = {} /\ \A t : PositionSet(<<>>, t) = {}
BY DEF PositionSet, Where, Increasing, ToSet

LEMMA AlwaysOfText == PhSpec => []PostingsAreOfText
<1>1. PhInit => PostingsAreOfText
  <2> SUFFICES ASSUME PhInit PROVE PostingsAreOfText
    OBVIOUS
  <2>1. text = <<>> /\ pos = 0 /\ lists = [t \in Words |-> <<>>] /\ older = [t \in Words |-> <<>>]
    BY DEF PhInit, NoLists
  <2>2. <<>> \in Seq(Nat) /\ <<>> \in Seq(Words) /\ Len(<<>>) = 0
    OBVIOUS
  <2> QED
    BY <2>1, <2>2, NothingPosted DEF PostingsAreOfText
<1>2. PostingsAreOfText /\ [PhNext]_phvars => PostingsAreOfText'
  <2> SUFFICES ASSUME PostingsAreOfText, [PhNext]_phvars PROVE PostingsAreOfText'
    OBVIOUS
  <2>1. CASE Again
    <3>1. text' = <<>> /\ pos' = 0 /\ lists' = [t \in Words |-> <<>>] /\ older' = lists
      BY <2>1 DEF Again, NoLists
    <3>2. <<>> \in Seq(Nat) /\ <<>> \in Seq(Words) /\ Len(<<>>) = 0
      OBVIOUS
    <3> QED
      BY <3>1, <3>2, NothingPosted DEF PostingsAreOfText
  <2>2. ASSUME NEW w \in Words, Token(w) PROVE PostingsAreOfText'
    BY <2>2, TokenKeeps
  <2>3. CASE UNCHANGED phvars
    BY <2>3 DEF phvars, PostingsAreOfText, PositionSet, Where
  <2> QED
    BY <2>1, <2>2, <2>3 DEF PhNext
<1> QED
  BY <1>1, <1>2, PTL DEF PhSpec

(* Decoding gives back the posting list that was encoded, whatever order   *)
(* the documents of the map came in.                                       *)
THEOREM AlwaysRoundTrip == PhSpec => []CodecRoundTrip
<1>1. PostingsAreOfText => CodecRoundTrip
  <2> SUFFICES ASSUME PostingsAreOfText, NEW t \in Words,
                      NEW pl, pl = [d \in {0, 1} |-> IF d = 0 THEN lists[t] ELSE older[t]],
                      NEW order \in Orders(pl)
               PROVE  DecodePostingList(Encode(pl, order)) = pl
    BY DEF CodecRoundTrip
  <2>1. lists[t] \in Seq(Nat) /\ older[t] \in Seq(Nat)
    BY DEF PostingsAreOfText
  <2>2. pl \in [{0, 1} -> Seq(Nat)] /\ DOMAIN pl = {0, 1}
    BY <2>1
  <2>3. IsFiniteSet({0, 1}) /\ Cardinality({0, 1}) = 2
    <3>1. IsFiniteSet({0}) /\ Cardinality({0}) = 1
      BY FS_Singleton
    <3>2. 1 \notin {0} /\ {0} \cup {1} = {0, 1}
      OBVIOUS
    <3>3. IsFiniteSet({0} \cup {1}) /\ Cardinality({0} \cup {1}) = 1 + 1
      BY <3>1, <3>2, FS_AddElement
    <3> QED
      BY <3>2, <3>3
  <2>4. order \in [1..2 -> {0, 1}] /\ order[1] # order[2]
    BY <2>2, <2>3 DEF Orders, SetToSeqs
  <2>5. order \in Seq(Nat) /\ ToSet(order) = {0, 1}
    <3>1. 1..2 = {1, 2} /\ DOMAIN order = {1, 2}
      BY <2>4
    <3>2. ToSet(order) = {order[1], order[2]}
      BY <3>1 DEF ToSet
    <3>3. order[1] \in {0, 1} /\ order[2] \in {0, 1}
      BY <2>4
    <3>4. ToSet(order) = {0, 1}
      BY <2>4, <3>2, <3>3
    <3>5. order \in [1..2 -> Nat]
      BY <2>4
    <3>6. order \in Seq(Nat)
      <4>1. 2 \in Nat
        OBVIOUS
      <4>2. order \in UNION {[1..n -> Nat] : n \in Nat}
        BY <3>5, <4>1
      <4> QED
        BY <4>2, Zenon, SeqDef
    <3> QED
      BY <3>4, <3>6
  <2> QED
    BY <2>2, <2>5, DecodeIs
<1> QED
  BY <1>1, AlwaysOfText, PTL

(* The MergeFn makes of the encoded postings of two documents, or of two   *)
(* texts of one, the posting list of both: for each document all its       *)
(* positions once, in order.                                               *)
THEOREM AlwaysUnion == PhSpec => []MergeFnIsUnion
<1>1. PostingsAreOfText => MergeFnIsUnion
  <2> SUFFICES ASSUME PostingsAreOfText, NEW t \in Words, NEW d \in {0, 1},
                      NEW new, new = Posted(0, lists, t),
                      NEW old, old = Posted(d, older, t),
                      NEW out, out = PostingMerge(Encode(new, << 0 >>), Encode(old, << d >>))
               PROVE  /\ DOMAIN out = {0, d}
                      /\ \A e \in {0, d} :
                           /\ ToSet(out[e]) = (IF e = 0 THEN ToSet(lists[t]) ELSE {})
                                              \cup (IF e = d THEN ToSet(older[t]) ELSE {})
                           /\ out[e] = Ascending(ToSet(out[e]))
    BY DEF MergeFnIsUnion
  <2>1. PICK a \in Seq(Nat), b \in Seq(Nat) : /\ a = lists[t] /\ b = older[t]
                                              /\ Increasing(a) /\ Increasing(b)
    BY DEF PostingsAreOfText
  <2>2. new = [e \in {0} |-> a] /\ old = [e \in {d} |-> b]
    BY <2>1 DEF Posted
  <2>3. new \in [{0} -> Seq(Nat)] /\ old \in [{d} -> Seq(Nat)]
    BY <2>2
  <2>4. <<0>> \in Seq(Nat) /\ <<d>> \in Seq(Nat) /\ ToSet(<<0>>) = {0} /\ ToSet(<<d>>) = {d}
    BY DEF ToSet
  <2>5. DecodePostingList(Encode(new, <<0>>)) = new
    BY <2>3, <2>4, DecodeIs
  <2>6. DecodePostingList(Encode(old, <<d>>)) = old
    BY <2>3, <2>4, DecodeIs
  <2>7. out = MergePostingLists(new, old)
    BY <2>5, <2>6 DEF PostingMerge
  <2>8. DOMAIN new = {0} /\ DOMAIN old = {d} /\ new[0] = a /\ old[d] = b
    BY <2>2
  <2>9. out = [e \in {0} \cup {d} |-> IF e \notin {d} THEN new[e]
                                      ELSE IF e \notin {0} THEN old[e]
                                      ELSE MergeSortedUint32(new[e], old[e])]
    BY <2>7, <2>8 DEF MergePostingLists
  <2>10. DOMAIN out = {0, d}
    BY <2>9
  <2>11. a \in Seq(Int) /\ b \in Seq(Int)
    OBVIOUS
  <2>12. ASSUME NEW e \in {0, d}
         PROVE  IsListOf(out[e], (IF e = 0 THEN ToSet(a) ELSE {}) \cup (IF e = d THEN ToSet(b) ELSE {}))
    <3>1. CASE d = 0
      <4>1. e = 0 /\ e = d /\ out[e] = MergeSortedUint32(a, b)
        BY <2>8, <2>9, <3>1
      <4>2. IsListOf(MergeSortedUint32(a, b), ToSet(a) \cup ToSet(b))
        BY <2>1, <2>11, MergeIs
      <4> QED
        BY <4>1, <4>2
    <3>2. CASE d # 0 /\ e = 0
      <4>1. out[e] = a
        BY <2>8, <2>9, <3>2
      <4> QED
        BY <2>1, <2>11, <3>2, <4>1 DEF IsListOf
    <3>3. CASE d # 0 /\ e = d
      <4>1. out[e] = b
        BY <2>8, <2>9, <3>3
      <4> QED
        BY <2>1, <2>11, <3>3, <4>1 DEF IsListOf
    <3> QED
      BY <3>1, <3>2, <3>3
  <2>13. ASSUME NEW e \in {0, d}
         PROVE  out[e] = Ascending(ToSet(out[e]))
    <3>1. out[e] \in Seq(Int) /\ Increasing(out[e])
      BY <2>12 DEF IsListOf
    <3> QED
      BY <3>1, IncreasingIsAscending
  <2> QED
    BY <2>1, <2>10, <2>12, <2>13 DEF IsListOf
<1> QED
  BY <1>1, AlwaysOfText, PTL

(* What PhraseSearch finds in a document with the places of the words.     *)
LEMMA FoundIs ==
  ASSUME PostingsAreOfText, NEW phrase \in Seq(Words),
         \A i \in DOMAIN phrase : Stable(phrase[i]),
         NEW words, NEW kept, NEW m, words = QueryWords(phrase),
         LooksFor(words, phrase, kept, m)
  PROVE  PhraseFound(phrase)
           <=> /\ m # 0
               /\ \E p \in Int : \A n \in 1..m :
                    p - kept[m] + kept[n] \in PositionSet(text, words[n].stemmed)
<1> DEFINE found == [n \in DOMAIN words |-> Lookup(words[n].stemmed)]
<1>1. /\ m \in Nat /\ DOMAIN words = 1..m /\ (words = <<>> <=> m = 0)
      /\ \A n \in 1..m : words[n].gapBefore \in Int
      /\ Gaps(words, kept, m)
  BY DEF LooksFor
<1>2. ASSUME NEW n \in 1..m
      PROVE  /\ words[n].stemmed \in Words
             /\ found[n] = lists[words[n].stemmed]
  <2>1. kept[n] \in DOMAIN phrase /\ phrase[kept[n]] \notin Stops
        /\ words[n].stemmed = Stem[phrase[kept[n]]]
    BY DEF LooksFor, Kept
  <2>2. PICK w \in Words : w = phrase[kept[n]]
    BY <2>1
  <2>3. Stem[w] \in Words
    BY StemsAreWords
  <2>4. Stem[w] \notin Stops /\ Stem[Stem[w]] = Stem[w]
    BY <2>1, <2>2 DEF Stable
  <2>5. found[n] = Lookup(words[n].stemmed)
    BY <1>1
  <2> HIDE DEF found
  <2> QED
    BY <2>1, <2>2, <2>3, <2>4, <2>5 DEF Lookup
<1>3. PICK fs : fs = found
  OBVIOUS
<1> HIDE DEF found
<1>4. ASSUME NEW n \in 1..m
      PROVE  /\ fs[n] \in Seq(Int) /\ Increasing(fs[n])
             /\ ToSet(fs[n]) = PositionSet(text, words[n].stemmed)
             /\ fs[n] # <<>> <=> PositionSet(text, words[n].stemmed) # {}
  <2>1. PICK s \in Seq(Nat) : /\ s = fs[n] /\ Increasing(s)
                              /\ ToSet(s) = PositionSet(text, words[n].stemmed)
    BY <1>2, <1>3 DEF PostingsAreOfText
  <2>2. s # <<>> <=> ToSet(s) # {}
    BY EmptyList
  <2> QED
    BY <2>1, <2>2
<1>5. PhraseLists(fs, words, m) /\ Rising(fs, m)
  BY <1>1, <1>4 DEF PhraseLists, Rising
<1>6. PhraseFound(phrase) <=> /\ words # <<>>
                              /\ \A n \in 1..m : fs[n] # <<>>
                              /\ MatchPhrase(fs, words)
  BY <1>1, <1>3 DEF PhraseFound, found
<1>7. ASSUME m # 0, fs[1] # <<>>
      PROVE  MatchPhrase(fs, words)
               <=> \E p \in Int : \A n \in 1..m : p - kept[m] + kept[n] \in ToSet(fs[n])
  BY <1>1, <1>5, <1>7, MatchIs
<1>8. CASE m = 0
  BY <1>1, <1>6, <1>8
<1>9. CASE m # 0
  <2>1. 1 \in 1..m
    BY <1>1, <1>9
  <2>2. ASSUME NEW p \in Int, \A n \in 1..m : p - kept[m] + kept[n] \in ToSet(fs[n])
        PROVE  \A n \in 1..m : fs[n] # <<>>
    BY <1>4, <2>2
  <2>3. PhraseFound(phrase)
          <=> \E p \in Int : \A n \in 1..m : p - kept[m] + kept[n] \in ToSet(fs[n])
    BY <1>1, <1>6, <1>7, <1>9, <2>1, <2>2
  <2> QED
    BY <1>4, <1>9, <2>3
<1> QED
  BY <1>8, <1>9

(* Where a phrase stands is where its last word has a place.               *)
LEMMA OccursIs ==
  ASSUME NEW s \in Seq(Words), NEW phrase \in Seq(Words),
         NEW words, NEW kept, NEW m, LooksFor(words, phrase, kept, m)
  PROVE  Occurs(s, phrase)
           <=> /\ m # 0
               /\ \E p \in Int : \A n \in 1..m :
                    p - kept[m] + kept[n] \in PositionSet(s, words[n].stemmed)
<1>1. PICK l \in Nat : l = Len(s) /\ DOMAIN s = 1..l
  OBVIOUS
<1>2. PICK q \in Nat : q = Len(phrase) /\ DOMAIN phrase = 1..q
  OBVIOUS
<1>3. /\ m \in Nat
      /\ \A n \in 1..m : kept[n] \in 1..q /\ phrase[kept[n]] \notin Stops
      /\ \A n \in 1..m : words[n].stemmed = Stem[phrase[kept[n]]]
      /\ \A i \in 1..q : phrase[i] \notin Stops => \E n \in 1..m : kept[n] = i
  BY <1>2 DEF LooksFor, Kept
<1>4. \A t : \A x \in Int : x \in PositionSet(s, t) <=> x + 1 \in Where(s, t)
  <2> SUFFICES ASSUME NEW t, NEW x \in Int
               PROVE  x \in PositionSet(s, t) <=> x + 1 \in Where(s, t)
    OBVIOUS
  <2>1. Where(s, t) \subseteq Int
    BY <1>1 DEF Where
  <2>2. ASSUME x + 1 \in Where(s, t) PROVE x \in PositionSet(s, t)
    <3>1. x = (x + 1) - 1
      OBVIOUS
    <3> QED
      BY <2>2, <3>1, Zenon DEF PositionSet
  <2>3. ASSUME x \in PositionSet(s, t) PROVE x + 1 \in Where(s, t)
    <3>1. PICK y \in Where(s, t) : x = y - 1
      BY <2>3 DEF PositionSet
    <3>2. y = x + 1
      BY <2>1, <3>1
    <3> QED
      BY <3>2
  <2> QED
    BY <2>2, <2>3
<1>5. \A t : Where(s, t) \subseteq 1..l
  BY <1>1 DEF Where
<1>6. (\E i \in DOMAIN phrase : phrase[i] \notin Stops) <=> m # 0
  <2>1. m # 0 => 1 \in 1..m
    BY <1>3
  <2> QED
    BY <1>2, <1>3, <2>1
<1> DEFINE Found(at) == \A i \in DOMAIN phrase :
                       phrase[i] \notin Stops =>
                         at + i \in DOMAIN s /\ at + i \in Where(s, Stem[phrase[i]])
           Ends(p) == \A n \in 1..m : p - kept[m] + kept[n] \in PositionSet(s, words[n].stemmed)
<1>7. ASSUME m # 0, NEW at \in Int, NEW p \in Int, at = p - kept[m] + 1
      PROVE  Found(at) <=> Ends(p)
  <2>1. kept[m] \in Int /\ \A n \in 1..m : kept[n] \in Int
    BY <1>3, <1>7
  <2>2. \A n \in 1..m : /\ p - kept[m] + kept[n] \in Int
                        /\ (p - kept[m] + kept[n]) + 1 = at + kept[n]
    BY <1>7, <2>1
  <2>3. \A n \in 1..m : p - kept[m] + kept[n] \in PositionSet(s, words[n].stemmed)
                          <=> at + kept[n] \in Where(s, Stem[phrase[kept[n]]])
    BY <1>3, <1>4, <2>2, Zenon
  <2>4. Ends(p) <=> \A n \in 1..m : at + kept[n] \in Where(s, Stem[phrase[kept[n]]])
    BY <2>3
  <2>5. Found(at) <=> \A i \in 1..q : phrase[i] \notin Stops => at + i \in Where(s, Stem[phrase[i]])
    BY <1>1, <1>2, <1>5
  <2>6. (\A i \in 1..q : phrase[i] \notin Stops => at + i \in Where(s, Stem[phrase[i]]))
          <=> \A n \in 1..m : at + kept[n] \in Where(s, Stem[phrase[kept[n]]])
    BY <1>3, Zenon
  <2> HIDE DEF Found, Ends
  <2> QED
    BY <2>4, <2>5, <2>6
<1>8. Occurs(s, phrase) <=> m # 0 /\ \E at \in (1 - Len(phrase))..Len(s) : Found(at)
  BY <1>6 DEF Occurs
<1>9. ASSUME m # 0
      PROVE  (\E at \in (1 - Len(phrase))..Len(s) : Found(at)) <=> \E p \in Int : Ends(p)
  <2>1. kept[m] \in 1..q /\ kept[m] \in Int /\ m \in 1..m /\ phrase[kept[m]] \notin Stops
    BY <1>3, <1>9
  <2>2. ASSUME NEW at \in (1 - Len(phrase))..Len(s), Found(at)
        PROVE  \E p \in Int : Ends(p)
    <3>1. PICK p \in Int : p = at + kept[m] - 1 /\ at = p - kept[m] + 1 /\ at \in Int
      BY <1>1, <1>2, <2>1
    <3> HIDE DEF Found, Ends
    <3> QED
      BY <1>7, <1>9, <2>2, <3>1
  <2>3. ASSUME NEW p \in Int, Ends(p)
        PROVE  \E at \in (1 - Len(phrase))..Len(s) : Found(at)
    <3>1. PICK at \in Int : at = p - kept[m] + 1
      BY <2>1
    <3>2. Found(at)
      <4> HIDE DEF Found, Ends
      <4> QED
        BY <1>7, <1>9, <2>3, <3>1
    <3>3. at + kept[m] \in 1..l
      BY <1>1, <1>2, <2>1, <3>2
    <3>4. at \in (1 - Len(phrase))..Len(s)
      <4> HIDE DEF Found, Ends
      <4> QED
        BY <1>1, <1>2, <2>1, <3>3
    <3> QED
      BY <3>2, <3>4
  <2> HIDE DEF Found, Ends
  <2> QED
    BY <2>2, <2>3
<1> HIDE DEF Found
<1> QED
  BY <1>8, <1>9

(* A phrase of any length is found in a document exactly if the text has   *)
(* words of its stems at its distances, provided the stems of its words    *)
(* are their own stems.                                                    *)
THEOREM PhrasesAreInText == PhSpec => []PhraseIsInText
<1>1. PostingsAreOfText => PhraseIsInText
  <2> SUFFICES ASSUME PostingsAreOfText, NEW phrase \in PhraseChoices,
                      \A i \in DOMAIN phrase : Stable(phrase[i])
               PROVE  PhraseFound(phrase) <=> Occurs(text, phrase)
    BY DEF PhraseIsInText
  <2>1. phrase \in Seq(Words)
    <3>1. PICK n \in 1..MaxPhrase : phrase \in [1..n -> Words]
      BY DEF PhraseChoices
    <3>2. n \in Nat
      OBVIOUS
    <3> QED
      BY <3>1, <3>2
  <2>2. PICK words : words = QueryWords(phrase)
    OBVIOUS
  <2>3. PICK kept, m : LooksFor(words, phrase, kept, m)
    BY <2>1, <2>2, QueryIs
  <2>4. text \in Seq(Words)
    BY DEF PostingsAreOfText
  <2>5. PhraseFound(phrase)
          <=> /\ m # 0
              /\ \E p \in Int : \A n \in 1..m :
                   p - kept[m] + kept[n] \in PositionSet(text, words[n].stemmed)
    BY <2>1, <2>2, <2>3, FoundIs
  <2>6. Occurs(text, phrase)
          <=> /\ m # 0
              /\ \E p \in Int : \A n \in 1..m :
                   p - kept[m] + kept[n] \in PositionSet(text, words[n].stemmed)
    BY <2>1, <2>3, <2>4, OccursIs
  <2> QED
    BY <2>5, <2>6
<1> QED
  BY <1>1, AlwaysOfText, PTL

-----------------------------------------------------------------------------
(* The bitmaps, for every set of halves and every longest array.           *)
LEMMA SortedIs == \A S : Sorted(S) = Ascending(S)
BY DEF Sorted, Ascending

(* Where the binary search ends in the ascending list of a set.            *)
Ranked(S, v, k) ==
  /\ k \in 1..(Cardinality(S) + 1)
  /\ \A i \in 1..Cardinality(S) : Ascending(S)[i] < v <=> i < k
  /\ v \in S => k <= Cardinality(S) /\ Ascending(S)[k] = v
  /\ k <= Cardinality(S) /\ Ascending(S)[k] = v => v \in S

(* The binary search in an ascending array: the place of a value, and       *)
(* whether the value is there.                                              *)
LEMMA SearchIs ==
  ASSUME NEW S \in SUBSET Int, IsFiniteSet(S), NEW v \in Int
  PROVE  Ranked(S, v, LowerBound(Ascending(S), v))
<1>1. PICK c \in Nat : c = Cardinality(S)
  BY FS_CardinalityType
<1>2. PICK A : A = Ascending(S)
  OBVIOUS
<1>3. /\ DOMAIN A = 1..c /\ ToSet(A) = S
      /\ \A i \in 1..c : A[i] \in S /\ A[i] \in Int /\ Cardinality(Below(S, A[i])) = i - 1
  BY <1>1, <1>2, AscendingIs
<1>4. Below(S, v) \in SUBSET S
  BY DEF Below
<1>5. PICK k \in Nat : k = Cardinality(Below(S, v)) /\ k <= c
  <2>1. IsFiniteSet(Below(S, v)) /\ Cardinality(Below(S, v)) <= c
    BY <1>1, <1>4, FS_Subset
  <2> QED
    BY <2>1, FS_CardinalityType
<1>6. ASSUME NEW i \in 1..c
      PROVE  A[i] < v <=> i <= k
  <2>1. A[i] \in S /\ A[i] \in Int /\ Cardinality(Below(S, A[i])) = i - 1
    BY <1>3
  <2>2. ASSUME A[i] < v
        PROVE  i <= k
    <3>1. Cardinality(Below(S, A[i])) < Cardinality(Below(S, v))
      BY <2>1, <2>2, RanksRise
    <3> QED
      BY <1>5, <2>1, <3>1
  <2>3. ASSUME ~(A[i] < v)
        PROVE  ~(i <= k)
    <3>1. Below(S, v) \in SUBSET Below(S, A[i])
      <4>1. \A y, z \in Int : y < v /\ ~(z < v) => y < z
        OBVIOUS
      <4>2. \A y \in Below(S, v) : y \in S /\ y \in Int /\ y < v
        BY DEF Below
      <4> QED
        BY <2>1, <2>3, <4>1, <4>2 DEF Below
    <3>2. Below(S, A[i]) \in SUBSET S
      BY DEF Below
    <3>3. IsFiniteSet(Below(S, A[i]))
      BY <3>2, FS_Subset
    <3>4. Cardinality(Below(S, v)) <= Cardinality(Below(S, A[i]))
      BY <3>1, <3>3, FS_Subset
    <3> QED
      BY <1>5, <2>1, <3>4
  <2> QED
    BY <2>2, <2>3
<1>7. LowerBound(A, v) = k + 1
  <2>1. {i \in DOMAIN A : A[i] < v} = 1..k
    <3>1. \A i : i \in 1..k <=> i \in 1..c /\ i <= k
      BY <1>5
    <3> QED
      BY <1>3, <1>6, <3>1
  <2>2. Cardinality(1..k) = k
    <3>1. Cardinality(1..k) = IF 1 > k THEN 0 ELSE k - 1 + 1
      BY FS_Interval
    <3> QED
      BY <3>1
  <2> QED
    BY <2>1, <2>2 DEF LowerBound
<1>8. v \in S => k + 1 <= c /\ A[k + 1] = v
  <2> SUFFICES ASSUME v \in S PROVE k + 1 <= c /\ A[k + 1] = v
    OBVIOUS
  <2>1. PICK n \in 1..c : A[n] = v
    BY <1>3 DEF ToSet
  <2>2. k = n - 1
    BY <1>3, <1>5, <2>1
  <2> QED
    BY <2>1, <2>2
<1>9. k + 1 <= c /\ A[k + 1] = v => v \in S
  <2>1. k + 1 <= c => k + 1 \in 1..c
    OBVIOUS
  <2> QED
    BY <1>3, <2>1
<1>10. k + 1 \in 1..(c + 1) /\ \A i \in 1..c : A[i] < v <=> i < k + 1
  BY <1>5, <1>6
<1> QED
  BY <1>1, <1>2, <1>7, <1>8, <1>9, <1>10 DEF Ranked

(* t is s with e put in at p.                                              *)
Inserted(t, s, p, e) ==
  t = [i \in 1..(Len(s) + 1) |-> IF i < p THEN s[i] ELSE IF i = p THEN e ELSE s[i - 1]]

(* Making room for a value and writing it into place.                       *)
LEMMA InsertAtIs ==
  ASSUME NEW X, NEW s \in Seq(X), NEW e \in X, NEW p \in 1..(Len(s) + 1)
  PROVE  InsertAt(s, p, e) \in Seq(X) /\ Inserted(InsertAt(s, p, e), s, p, e)
<1>1. PICK n \in Nat : n = Len(s)
  OBVIOUS
<1>2. PICK a \in Seq(X) : /\ a = SubSeq(s, 1, p - 1) /\ Len(a) = p - 1
                          /\ \A i \in 1..(p - 1) : a[i] = s[i]
  <2>1. SubSeq(s, 1, p - 1) \in Seq(X) /\ Len(SubSeq(s, 1, p - 1)) = p - 1
        /\ \A i \in 1..(p - 1) : SubSeq(s, 1, p - 1)[i] = s[i]
    BY <1>1
  <2> QED
    BY <2>1
<1>3. PICK b \in Seq(X) : /\ b = SubSeq(s, p, Len(s)) /\ Len(b) = n - p + 1
                          /\ \A i \in 1..(n - p + 1) : b[i] = s[p + i - 1]
  <2>1. SubSeq(s, p, n) \in Seq(X) /\ Len(SubSeq(s, p, n)) = n - p + 1
        /\ \A i \in 1..(n - p + 1) : SubSeq(s, p, n)[i] = s[p + i - 1]
    BY <1>1
  <2> QED
    BY <1>1, <2>1
<1>4. PICK m \in Seq(X) : m = a \o << e >> /\ Len(m) = p /\ (\A i \in 1..(p - 1) : m[i] = s[i]) /\ m[p] = e
  <2>1. << e >> \in Seq(X) /\ Len(<< e >>) = 1 /\ << e >>[1] = e
    OBVIOUS
  <2>2. p - 1 \in Nat /\ (p - 1) + 1 = p
    BY <1>1
  <2>3. a \o << e >> \in Seq(X) /\ Len(a \o << e >>) = p
    BY <1>2, <2>1, <2>2
  <2>4. \A i \in 1..Len(a) : (a \o << e >>)[i] = a[i]
    BY <2>1
  <2>5. (a \o << e >>)[Len(a) + 1] = << e >>[1]
    BY <2>1
  <2>6. (\A i \in 1..(p - 1) : (a \o << e >>)[i] = a[i]) /\ (a \o << e >>)[p] = e
    BY <1>2, <2>1, <2>2, <2>4, <2>5
  <2> QED
    BY <1>2, <2>3, <2>6
<1>5. PICK t \in Seq(X) : t = m \o b /\ Len(t) = n + 1
        /\ (\A i \in 1..p : t[i] = m[i]) /\ (\A i \in (p + 1)..(n + 1) : t[i] = b[i - p])
  <2>1. m \o b \in Seq(X) /\ Len(m \o b) = n + 1
    <3>1. m \o b \in Seq(X) /\ Len(m \o b) = Len(m) + Len(b)
      OBVIOUS
    <3>2. p \in Int /\ n \in Int /\ p + (n - p + 1) = n + 1
      BY <1>1
    <3> QED
      BY <1>3, <1>4, <3>1, <3>2
  <2>2. /\ \A i \in 1..Len(m) : (m \o b)[i] = m[i]
        /\ \A i \in 1..Len(b) : (m \o b)[Len(m) + i] = b[i]
    OBVIOUS
  <2>3. ASSUME NEW i \in (p + 1)..(n + 1)
        PROVE  i - p \in 1..Len(b) /\ Len(m) + (i - p) = i
    <3>1. Len(b) = n - p + 1 /\ Len(m) = p /\ p \in 1..(n + 1)
      BY <1>1, <1>3, <1>4
    <3>2. i - p \in 1..(n - p + 1) /\ p + (i - p) = i
      BY <1>1
    <3> QED
      BY <3>1, <3>2
  <2>4. \A i \in (p + 1)..(n + 1) : (m \o b)[i] = b[i - p]
    BY <2>2, <2>3
  <2>5. \A i \in 1..p : (m \o b)[i] = m[i]
    BY <1>4, <2>2
  <2> QED
    BY <2>1, <2>4, <2>5
<1>6. t = InsertAt(s, p, e)
  BY <1>2, <1>3, <1>4, <1>5 DEF InsertAt
<1>7. ASSUME NEW i \in 1..(n + 1)
      PROVE  t[i] = IF i < p THEN s[i] ELSE IF i = p THEN e ELSE s[i - 1]
  <2>1. CASE i < p
    <3>1. i \in 1..p /\ i \in 1..(p - 1)
      BY <2>1
    <3> QED
      BY <1>4, <1>5, <2>1, <3>1
  <2>2. CASE i = p
    <3>1. i \in 1..p /\ ~(i < p)
      BY <2>2
    <3> QED
      BY <1>4, <1>5, <2>2, <3>1
  <2>3. CASE i > p
    <3>1. i \in (p + 1)..(n + 1) /\ i - p \in 1..(n - p + 1) /\ p + (i - p) - 1 = i - 1
          /\ ~(i < p) /\ i # p
      BY <1>1, <2>3
    <3>2. t[i] = b[i - p] /\ b[i - p] = s[i - 1]
      BY <1>3, <1>5, <3>1
    <3> QED
      BY <3>1, <3>2
  <2>4. i < p \/ i = p \/ i > p
    BY <1>1
  <2> QED
    BY <2>1, <2>2, <2>3, <2>4
<1>8. t = [i \in 1..(n + 1) |-> t[i]]
  <2>1. Len(t) = n + 1
    BY <1>5
  <2> QED
    BY <2>1
<1> QED
  BY <1>1, <1>6, <1>7, <1>8 DEF Inserted

(* Inserting at that place makes the ascending list of one element more.   *)
LEMMA InsertSorts ==
  ASSUME NEW S \in SUBSET Int, IsFiniteSet(S), NEW v \in Int, v \notin S
  PROVE  InsertAt(Ascending(S), LowerBound(Ascending(S), v), v) = Ascending(S \cup {v})
<1>1. PICK c \in Nat : c = Cardinality(S)
  BY FS_CardinalityType
<1>2. PICK A \in Seq(Int) : /\ A = Ascending(S) /\ Len(A) = c /\ DOMAIN A = 1..c
                            /\ Increasing(A) /\ ToSet(A) = S
  <2>1. Ascending(S) \in [1..c -> S]
    BY <1>1, AscendingIs
  <2>2. Ascending(S) \in [1..c -> Int]
    BY <2>1
  <2>3. Ascending(S) \in Seq(Int)
    BY <2>2
  <2> QED
    BY <1>1, <2>3, AscendingIs
<1>3. PICK k \in 1..(c + 1) : /\ k = LowerBound(A, v)
                              /\ \A i \in 1..c : A[i] < v <=> i < k
  BY <1>1, <1>2, SearchIs DEF Ranked
<1>4. PICK t \in Seq(Int) : /\ t = InsertAt(A, k, v)
                            /\ t = [i \in 1..(c + 1) |-> IF i < k THEN A[i] ELSE IF i = k THEN v ELSE A[i - 1]]
  <2>1. k \in 1..(Len(A) + 1)
    BY <1>2
  <2>2. InsertAt(A, k, v) \in Seq(Int) /\ Inserted(InsertAt(A, k, v), A, k, v)
    BY <2>1, InsertAtIs, Zenon
  <2> QED
    BY <1>2, <2>2 DEF Inserted
<1>5. DOMAIN t = 1..(c + 1) /\ \A i \in 1..(c + 1) : t[i] = IF i < k THEN A[i] ELSE IF i = k THEN v ELSE A[i - 1]
  BY <1>4
<1>6. \A i \in 1..c : A[i] \in Int /\ A[i] \in S /\ A[i] # v
  BY <1>2 DEF ToSet
<1>7. Increasing(t)
  <2> SUFFICES ASSUME NEW i \in 1..(c + 1), NEW j \in 1..(c + 1), i < j
               PROVE  t[i] < t[j]
    BY <1>5 DEF Increasing
  <2>1. \A p, q \in 1..c : p < q => A[p] < A[q]
    BY <1>2 DEF Increasing
  <2>2. ASSUME NEW p \in 1..c, p >= k
        PROVE  v < A[p]
    <3>1. ~(p < k)
      BY <2>2
    <3>2. ~(A[p] < v) /\ A[p] \in Int /\ A[p] # v
      BY <1>3, <1>6, <3>1
    <3> QED
      BY <3>2
  <2>3. CASE j < k
    <3>1. i \in 1..c /\ j \in 1..c /\ i < k
      BY <1>3, <2>3
    <3> QED
      BY <1>5, <2>1, <2>3, <3>1
  <2>4. CASE j = k
    <3>1. i \in 1..c /\ i < k
      BY <1>3, <2>4
    <3>2. t[i] = A[i] /\ t[j] = v
      BY <1>5, <2>4, <3>1
    <3> QED
      BY <1>3, <3>1, <3>2
  <2>5. CASE j > k
    <3>1. j - 1 \in 1..c /\ j - 1 >= k /\ t[j] = A[j - 1]
      BY <1>3, <1>5, <2>5
    <3>2. CASE i < k
      <4>1. i \in 1..c /\ i < j - 1
        BY <1>3, <3>1, <3>2
      <4> QED
        BY <1>5, <2>1, <3>1, <3>2, <4>1
    <3>3. CASE i = k
      BY <1>5, <2>2, <3>1, <3>3
    <3>4. CASE i > k
      <4>1. i - 1 \in 1..c /\ i - 1 < j - 1 /\ t[i] = A[i - 1]
        BY <1>3, <1>5, <3>4
      <4> QED
        BY <2>1, <3>1, <4>1
    <3> QED
      BY <1>3, <3>2, <3>3, <3>4
  <2> QED
    BY <1>3, <2>3, <2>4, <2>5
<1>8. ToSet(t) = S \cup {v}
  <2>1. \A i \in 1..(c + 1) : t[i] \in S \cup {v}
    <3> SUFFICES ASSUME NEW i \in 1..(c + 1) PROVE t[i] \in S \cup {v}
      OBVIOUS
    <3>1. i < k => i \in 1..c
      BY <1>3
    <3>2. ~(i < k) /\ i # k => i - 1 \in 1..c
      BY <1>3
    <3> QED
      BY <1>5, <1>6, <3>1, <3>2
  <2>2. v \in ToSet(t)
    BY <1>3, <1>5 DEF ToSet
  <2>3. ASSUME NEW x \in S PROVE x \in ToSet(t)
    <3>1. PICK i \in 1..c : A[i] = x
      BY <1>2 DEF ToSet
    <3>2. CASE i < k
      <4>1. i \in 1..(c + 1) /\ t[i] = A[i]
        BY <1>5, <3>2
      <4> QED
        BY <1>5, <3>1, <4>1 DEF ToSet
    <3>3. CASE ~(i < k)
      <4>1. i + 1 \in 1..(c + 1) /\ ~(i + 1 < k) /\ i + 1 # k /\ (i + 1) - 1 = i
        BY <1>3, <3>3
      <4>2. t[i + 1] = A[i]
        BY <1>5, <4>1
      <4> QED
        BY <1>5, <3>1, <4>1, <4>2 DEF ToSet
    <3> QED
      BY <3>2, <3>3
  <2> QED
    BY <1>5, <2>1, <2>2, <2>3 DEF ToSet
<1> QED
  BY <1>2, <1>3, <1>4, <1>7, <1>8, IncreasingIsAscending

(* The indices of the loops over two arrays are those of the loops over     *)
(* two posting lists.                                                       *)
LEMMA IndicesAre == \A a, b : Indices(a, b) = Cursors(a, b)
BY DEF Indices, Cursors

(* The intersection of two arrays is the search for what stands nought     *)
(* behind.                                                                 *)
AndsFrom(out, a, b) ==
  out = [at \in Indices(a, b) |->
           LET i == at[1]
               j == at[2]
           IN  IF i > Len(a) \/ j > Len(b) THEN <<>>
               ELSE IF a[i] = b[j] THEN <<a[i]>> \o out[<<i + 1, j + 1>>]
               ELSE IF a[i] < b[j] THEN out[<<i + 1, j>>]
               ELSE out[<<i, j + 1>>]]

(* andArrays: two ascending arrays give the ascending array of what both    *)
(* have.                                                                    *)
LEMMA AndArraysIs ==
  ASSUME NEW a \in Seq(Int), NEW b \in Seq(Int), Increasing(a), Increasing(b)
  PROVE  IsListOf(AndArrays(a, b), ToSet(a) \cap ToSet(b))
<1>0. PICK la \in Nat, lb \in Nat : la = Len(a) /\ lb = Len(b)
  OBVIOUS
<1>1. PICK f : FindCases(f, a, b, 0)
  <2>1. 0 \in Int
    OBVIOUS
  <2> QED
    BY <2>1, FindUnfolds, Zenon
<1> DEFINE D == Indices(a, b)
           G(g, x) == IF x[1] > Len(a) \/ x[2] > Len(b) THEN <<>>
                      ELSE IF a[x[1]] = b[x[2]] THEN <<a[x[1]]>> \o g[<<x[1] + 1, x[2] + 1>>]
                      ELSE IF a[x[1]] < b[x[2]] THEN g[<<x[1] + 1, x[2]>>]
                      ELSE g[<<x[1], x[2] + 1>>]
           h == [x \in D |-> f[x]]
           P(g) == AndsFrom(g, a, b)
           out == CHOOSE g : P(g)
<1>2. \A x \in D : x[1] \in 1..(la + 1) /\ x[2] \in 1..(lb + 1) /\ x = <<x[1], x[2]>>
  BY <1>0, CursorsAre, IndicesAre
<1>3. \A i \in 1..(la + 1), j \in 1..(lb + 1) : <<i, j>> \in D
  BY <1>0, CursorsAre, IndicesAre
<1>4. ASSUME NEW i \in 1..(la + 1), NEW j \in 1..(lb + 1)
      PROVE  /\ i > la \/ j > lb => f[<<i, j>>] = <<>>
             /\ i <= la /\ j <= lb =>
                  /\ a[i] \in Int /\ b[j] \in Int
                  /\ a[i] = b[j] => f[<<i, j>>] = <<a[i]>> \o f[<<i + 1, j + 1>>]
                  /\ a[i] < b[j] => f[<<i, j>>] = f[<<i + 1, j>>]
                  /\ b[j] < a[i] => f[<<i, j>>] = f[<<i, j + 1>>]
  <2>1. /\ i > la \/ j > lb => f[<<i, j>>] = <<>>
        /\ i <= la /\ j <= lb =>
             /\ b[j] = a[i] + 0 => f[<<i, j>>] = <<b[j]>> \o f[<<i + 1, j + 1>>]
             /\ b[j] < a[i] + 0 => f[<<i, j>>] = f[<<i, j + 1>>]
             /\ b[j] > a[i] + 0 => f[<<i, j>>] = f[<<i + 1, j>>]
    BY <1>0, <1>1 DEF FindCases
  <2>2. i <= la /\ j <= lb => a[i] \in Int /\ b[j] \in Int
    BY <1>0
  <2>3. i <= la /\ j <= lb => a[i] + 0 = a[i] /\ (a[i] < b[j] <=> b[j] > a[i])
    BY <2>2
  <2> QED
    BY <2>1, <2>2, <2>3
<1>5. ASSUME NEW x \in D
      PROVE  h[x] = G(h, x)
  <2>1. PICK i \in 1..(la + 1), j \in 1..(lb + 1) : x = <<i, j>> /\ x[1] = i /\ x[2] = j
    BY <1>2
  <2>2. h[x] = f[<<i, j>>]
    BY <2>1
  <2>3. CASE i > la \/ j > lb
    BY <1>0, <1>4, <2>1, <2>2, <2>3
  <2>4. CASE ~(i > la) /\ ~(j > lb)
    <3>1. i <= la /\ j <= lb
      BY <2>4
    <3>2. /\ <<i + 1, j + 1>> \in D /\ <<i + 1, j>> \in D /\ <<i, j + 1>> \in D
      <4>1. i + 1 \in 1..(la + 1) /\ j + 1 \in 1..(lb + 1)
        BY <3>1
      <4> QED
        BY <1>3, <4>1
    <3>3. /\ h[<<i + 1, j + 1>>] = f[<<i + 1, j + 1>>]
          /\ h[<<i + 1, j>>] = f[<<i + 1, j>>] /\ h[<<i, j + 1>>] = f[<<i, j + 1>>]
      BY <3>2
    <3>4. G(h, x) = IF a[i] = b[j] THEN <<a[i]>> \o f[<<i + 1, j + 1>>]
                    ELSE IF a[i] < b[j] THEN f[<<i + 1, j>>]
                    ELSE f[<<i, j + 1>>]
      <4> HIDE DEF h
      <4> QED
        BY <1>0, <2>1, <2>4, <3>3
    <3>5. a[i] \in Int /\ b[j] \in Int
      BY <1>4, <3>1
    <3>6. a[i] = b[j] \/ (a[i] < b[j] /\ a[i] # b[j]) \/ (b[j] < a[i] /\ a[i] # b[j] /\ ~(a[i] < b[j]))
      BY <3>5
    <3> HIDE DEF h, G
    <3> QED
      BY <1>4, <2>2, <3>1, <3>4, <3>6, Zenon
  <2> QED
    BY <2>3, <2>4
<1>6. P(h)
  <2>1. h = [x \in D |-> G(h, x)]
    <3>1. h = [x \in D |-> h[x]]
      OBVIOUS
    <3> HIDE DEF h, G, D
    <3> QED
      BY <1>5, <3>1
  <2> HIDE DEF h
  <2> QED
    BY <2>1 DEF AndsFrom
<1>7. P(out)
  <2>1. \E g : P(g)
    BY <1>6
  <2> HIDE DEF P
  <2> QED
    BY <2>1, Zenon
<1>8. AndArrays(a, b) = out[<<1, 1>>]
  BY Zenon DEF AndArrays, AndsFrom
<1> HIDE DEF h, out
<1>9. PICK g : g = out
  OBVIOUS
<1>10. g = [x \in D |-> G(g, x)]
  BY <1>7, <1>9 DEF AndsFrom
<1> HIDE DEF P
<1>11. FindCases(g, a, b, 0)
  <2>1. ASSUME NEW i \in 1..(la + 1), NEW j \in 1..(lb + 1)
        PROVE  /\ i > la \/ j > lb => g[<<i, j>>] = <<>>
               /\ i <= la /\ j <= lb =>
                    /\ b[j] = a[i] + 0 => g[<<i, j>>] = <<b[j]>> \o g[<<i + 1, j + 1>>]
                    /\ b[j] < a[i] + 0 => g[<<i, j>>] = g[<<i, j + 1>>]
                    /\ b[j] > a[i] + 0 => g[<<i, j>>] = g[<<i + 1, j>>]
    <3>1. PICK x \in D : x = <<i, j>> /\ x[1] = i /\ x[2] = j
      <4>1. <<i, j>> \in D
        BY <1>3
      <4> QED
        BY <4>1
    <3>2. g[x] = G(g, x)
      <4> HIDE DEF G, D
      <4> QED
        BY <1>10
    <3>3. g[<<i, j>>] = IF i > la \/ j > lb THEN <<>>
                        ELSE IF a[i] = b[j] THEN <<a[i]>> \o g[<<i + 1, j + 1>>]
                        ELSE IF a[i] < b[j] THEN g[<<i + 1, j>>]
                        ELSE g[<<i, j + 1>>]
      BY <1>0, <3>1, <3>2
    <3>4. i <= la /\ j <= lb => a[i] \in Int /\ b[j] \in Int /\ ~(i > la \/ j > lb)
      BY <1>0
    <3>5. ASSUME i <= la, j <= lb
          PROVE  /\ b[j] = a[i] + 0 => a[i] = b[j]
                 /\ b[j] < a[i] + 0 => a[i] # b[j] /\ ~(a[i] < b[j])
                 /\ b[j] > a[i] + 0 => a[i] # b[j] /\ a[i] < b[j]
      <4>1. a[i] \in Int /\ b[j] \in Int
        BY <3>4, <3>5
      <4> QED
        BY <4>1
    <3> HIDE DEF D, G
    <3> QED
      BY <3>3, <3>4, <3>5, Zenon
  <2> QED
    BY <1>0, <2>1, Zenon DEF FindCases
<1>12. IsListOf(g[<<1, 1>>], Behind(ToSet(a), ToSet(b), 0))
  <2>1. 0 \in Int
    OBVIOUS
  <2> QED
    BY <1>11, <2>1, FindCasesAre, Zenon
<1>13. Behind(ToSet(a), ToSet(b), 0) = ToSet(a) \cap ToSet(b)
  <2>1. \A y \in ToSet(b) : y \in Int
    BY DEF ToSet
  <2>2. \A y \in Int : y - 0 = y
    OBVIOUS
  <2> QED
    BY <2>1, <2>2 DEF Behind
<1> QED
  BY <1>8, <1>9, <1>12, <1>13, Zenon

(* The difference of two arrays.                                           *)
RestFrom(out, a, b) ==
  out = [at \in Indices(a, b) |->
           LET i == at[1]
               j == at[2]
           IN  IF i > Len(a) THEN <<>>
               ELSE IF j <= Len(b) /\ b[j] < a[i] THEN out[<<i, j + 1>>]
               ELSE IF j <= Len(b) /\ b[j] = a[i] THEN out[<<i + 1, j>>]
               ELSE <<a[i]>> \o out[<<i + 1, j>>]]

RestCases(out, a, b) ==
  \A i \in 1..(Len(a) + 1), j \in 1..(Len(b) + 1) :
    /\ i > Len(a) => out[<<i, j>>] = <<>>
    /\ i <= Len(a) =>
         /\ j <= Len(b) /\ b[j] < a[i] => out[<<i, j>>] = out[<<i, j + 1>>]
         /\ j <= Len(b) /\ b[j] = a[i] => out[<<i, j>>] = out[<<i + 1, j>>]
         /\ j > Len(b) \/ b[j] > a[i] => out[<<i, j>>] = <<a[i]>> \o out[<<i + 1, j>>]

(* Every step leaves less.                                                 *)
LEMMA RestMoves ==
  ASSUME NEW a \in Seq(Int), NEW b \in Seq(Int),
         NEW i \in 1..Len(a), NEW j \in 1..(Len(b) + 1)
  PROVE  /\ <<i, j>> \in Cursors(a, b) /\ <<i + 1, j>> \in Cursors(a, b)
         /\ CursorsLeft(a, b)[<<i + 1, j>>] < CursorsLeft(a, b)[<<i, j>>]
         /\ j <= Len(b) => /\ <<i, j + 1>> \in Cursors(a, b)
                           /\ CursorsLeft(a, b)[<<i, j + 1>>] < CursorsLeft(a, b)[<<i, j>>]
<1>1. PICK la \in Nat, lb \in Nat : la = Len(a) /\ lb = Len(b)
  OBVIOUS
<1>2. \A p \in 1..(la + 1), q \in 1..(lb + 1) :
        /\ <<p, q>> \in Cursors(a, b)
        /\ CursorsLeft(a, b)[<<p, q>>] = la + lb + 2 - p - q
  BY <1>1, CursorsAre
<1>3. i \in 1..(la + 1) /\ i + 1 \in 1..(la + 1) /\ j \in 1..(lb + 1)
  BY <1>1
<1>4. /\ <<i, j>> \in Cursors(a, b) /\ <<i + 1, j>> \in Cursors(a, b)
      /\ CursorsLeft(a, b)[<<i, j>>] = la + lb + 2 - i - j
      /\ CursorsLeft(a, b)[<<i + 1, j>>] = la + lb + 2 - (i + 1) - j
  BY <1>2, <1>3, Zenon
<1>5. ASSUME j <= lb
      PROVE  /\ <<i, j + 1>> \in Cursors(a, b)
             /\ CursorsLeft(a, b)[<<i, j + 1>>] = la + lb + 2 - i - (j + 1)
  <2>1. j + 1 \in 1..(lb + 1)
    BY <1>3, <1>5
  <2> QED
    BY <1>2, <1>3, <2>1, Zenon
<1>6. /\ la + lb + 2 - (i + 1) - j < la + lb + 2 - i - j
      /\ la + lb + 2 - i - (j + 1) < la + lb + 2 - i - j
  BY <1>3
<1> QED
  BY <1>1, <1>4, <1>5, <1>6, Zenon

(* The loop of andNotArrays is a function that exists.                      *)
LEMMA RestUnfolds ==
  ASSUME NEW a \in Seq(Int), NEW b \in Seq(Int)
  PROVE  \E out : AndNotArrays(a, b) = out[<<1, 1>>] /\ RestCases(out, a, b)
<1> DEFINE D == Cursors(a, b)
           V == Seq(Int)
           Ends == {x \in D : x[1] > Len(a)}
           last == [x \in Ends |-> <<>>]
           less(x) == x[2] <= Len(b) /\ b[x[2]] < a[x[1]]
           same(x) == x[2] <= Len(b) /\ b[x[2]] = a[x[1]]
           next == [x \in D \ Ends |-> IF less(x) THEN <<x[1], x[2] + 1>> ELSE <<x[1] + 1, x[2]>>]
           longer(x, v) == IF less(x) \/ same(x) THEN v ELSE <<a[x[1]]>> \o v
           step == [p \in D \X V |-> longer(p[1], p[2])]
           mu == CursorsLeft(a, b)
<1>1. Len(a) \in Nat /\ Len(b) \in Nat
  OBVIOUS
<1>2. \A x \in D : /\ x[1] \in 1..(Len(a) + 1) /\ x[2] \in 1..(Len(b) + 1)
                   /\ x = <<x[1], x[2]>>
  BY CursorsAre
<1>3. \A x \in D \ Ends : x[1] \in 1..Len(a) /\ x[2] \in 1..(Len(b) + 1) /\ a[x[1]] \in Int
  <2> SUFFICES ASSUME NEW x \in D \ Ends
               PROVE  x[1] \in 1..Len(a) /\ x[2] \in 1..(Len(b) + 1) /\ a[x[1]] \in Int
    OBVIOUS
  <2>1. x[1] \in 1..Len(a) /\ x[2] \in 1..(Len(b) + 1)
    BY <1>1, <1>2
  <2> QED
    BY <2>1
<1>4. last \in [Ends -> V]
  OBVIOUS
<1>5. ASSUME NEW x \in D \ Ends
      PROVE  next[x] \in D /\ mu[next[x]] < mu[x]
  <2>1. x[1] \in 1..Len(a) /\ x[2] \in 1..(Len(b) + 1)
    BY <1>3
  <2>2. x = <<x[1], x[2]>>
    BY <1>2
  <2>3. \/ next[x] = <<x[1] + 1, x[2]>>
        \/ next[x] = <<x[1], x[2] + 1>> /\ x[2] <= Len(b)
    OBVIOUS
  <2> HIDE DEF next, Ends
  <2>4. next[x] \in D /\ mu[next[x]] < mu[<<x[1], x[2]>>]
    BY <2>1, <2>3, RestMoves
  <2> HIDE DEF mu
  <2> QED
    BY <2>2, <2>4
<1>6. \A x \in D \ Ends, v \in V : step[<<x, v>>] = longer(x, v) /\ step[<<x, v>>] \in V
  <2> SUFFICES ASSUME NEW x \in D \ Ends, NEW v \in V
               PROVE  step[<<x, v>>] = longer(x, v) /\ step[<<x, v>>] \in V
    OBVIOUS
  <2>1. a[x[1]] \in Int
    BY <1>3
  <2>2. step[<<x, v>>] = longer(x, v)
    <3> HIDE DEF longer
    <3> QED
      OBVIOUS
  <2>3. <<a[x[1]]>> \o v \in V
    <3>1. PICK y \in Int : y = a[x[1]]
      BY <2>1
    <3>2. << y >> \o v \in V
      OBVIOUS
    <3> QED
      BY <3>1, <3>2
  <2>4. longer(x, v) \in V
    <3> HIDE DEF less, same, V
    <3> QED
      BY <2>3
  <2> HIDE DEF longer, step
  <2> QED
    BY <2>2, <2>4
<1>7. next \in [D \ Ends -> D]
  <2>1. next = [x \in D \ Ends |-> next[x]]
    OBVIOUS
  <2> HIDE DEF next, D, Ends
  <2> QED
    BY <1>5, <2>1
<1>8. PICK f \in [D -> V] : Follows(f, D, Ends, last, next, step)
  <2>1. mu \in [D -> Nat] /\ Len(a) + Len(b) + 1 \in Nat
        /\ \A x \in D : mu[x] < Len(a) + Len(b) + 1
    BY CursorsAre
  <2>2. <<>> \in V /\ Ends \subseteq D
    OBVIOUS
  <2>3. \A x \in D \ Ends, v \in V : step[<<x, v>>] \in V
    BY <1>6
  <2> HIDE DEF D, V, Ends, last, next, step, mu
  <2>4. Descends(D, V, Ends, last, next, step, mu, Len(a) + Len(b) + 1)
    BY <1>4, <1>5, <1>7, <2>1, <2>2, <2>3 DEF Descends
  <2> QED
    BY <2>4, RecursionExists
<1> DEFINE G(g, x) == IF x[1] > Len(a) THEN <<>>
                      ELSE IF x[2] <= Len(b) /\ b[x[2]] < a[x[1]] THEN g[<<x[1], x[2] + 1>>]
                      ELSE IF x[2] <= Len(b) /\ b[x[2]] = a[x[1]] THEN g[<<x[1] + 1, x[2]>>]
                      ELSE <<a[x[1]]>> \o g[<<x[1] + 1, x[2]>>]
<1>9. ASSUME NEW x \in D
      PROVE  f[x] = G(f, x)
  <2>1. CASE x \in Ends
    <3>1. f[x] = last[x]
      BY <1>8, <2>1 DEF Follows
    <3> QED
      BY <2>1, <3>1
  <2>2. CASE x \notin Ends
    <3>1. f[x] = longer(x, f[next[x]])
      <4> HIDE DEF step, longer, next, Ends, D, V
      <4> QED
        BY <1>5, <1>6, <1>8, <2>2 DEF Follows
    <3>2. next[x] = IF less(x) THEN <<x[1], x[2] + 1>> ELSE <<x[1] + 1, x[2]>>
      BY <2>2
    <3>3. ~(x[1] > Len(a))
      BY <2>2
    <3> HIDE DEF next, Ends
    <3> QED
      BY <3>1, <3>2, <3>3, Zenon
  <2> QED
    BY <2>1, <2>2
<1>10. RestFrom(f, a, b)
  <2>1. f = [x \in D |-> G(f, x)]
    <3> HIDE DEF G, D, V
    <3> QED
      BY <1>8, <1>9
  <2> QED
    BY <2>1, IndicesAre DEF RestFrom
<1> HIDE DEF D, V, Ends, last, next, step, mu, G, less, same, longer
<1> DEFINE P(g) == RestFrom(g, a, b)
           out == CHOOSE g : P(g)
<1>11. RestFrom(out, a, b)
  <2>1. \E g : P(g)
    BY <1>10
  <2>2. P(out)
    <3> HIDE DEF P
    <3> QED
      BY <2>1, Zenon
  <2> QED
    BY <2>2
<1>12. AndNotArrays(a, b) = out[<<1, 1>>]
  BY Zenon DEF AndNotArrays, RestFrom
<1> HIDE DEF P, out
<1>13. PICK g : g = out
  OBVIOUS
<1>14. g = [x \in D |-> G(g, x)]
  <2>1. RestFrom(g, a, b)
    BY <1>11, <1>13
  <2> QED
    BY <2>1, IndicesAre DEF RestFrom, G, D
<1>15. \A x \in D : g[x] = G(g, x)
  BY <1>14
<1>16. ASSUME NEW i \in 1..(Len(a) + 1), NEW j \in 1..(Len(b) + 1)
       PROVE  /\ i > Len(a) => g[<<i, j>>] = <<>>
              /\ i <= Len(a) =>
                   /\ j <= Len(b) /\ b[j] < a[i] => g[<<i, j>>] = g[<<i, j + 1>>]
                   /\ j <= Len(b) /\ b[j] = a[i] => g[<<i, j>>] = g[<<i + 1, j>>]
                   /\ j > Len(b) \/ b[j] > a[i] => g[<<i, j>>] = <<a[i]>> \o g[<<i + 1, j>>]
  <2>1. PICK x \in D : x = <<i, j>> /\ x[1] = i /\ x[2] = j
    <3>1. <<i, j>> \in D
      BY CursorsAre DEF D
    <3> QED
      BY <3>1
  <2>2. g[<<i, j>>] = IF i > Len(a) THEN <<>>
                      ELSE IF j <= Len(b) /\ b[j] < a[i] THEN g[<<i, j + 1>>]
                      ELSE IF j <= Len(b) /\ b[j] = a[i] THEN g[<<i + 1, j>>]
                      ELSE <<a[i]>> \o g[<<i + 1, j>>]
    BY <1>15, <2>1 DEF G
  <2>3. ASSUME i <= Len(a)
        PROVE  /\ ~(i > Len(a))
               /\ j <= Len(b) /\ b[j] = a[i] => ~(b[j] < a[i])
               /\ j > Len(b) \/ b[j] > a[i] =>
                    ~(j <= Len(b) /\ b[j] < a[i]) /\ ~(j <= Len(b) /\ b[j] = a[i])
    <3>1. i \in 1..Len(a) /\ a[i] \in Int
      BY <1>1, <2>3
    <3>2. j <= Len(b) => j \in 1..Len(b) /\ b[j] \in Int
      BY <1>1
    <3> QED
      BY <1>1, <3>1, <3>2
  <2> QED
    BY <2>2, <2>3, Zenon
<1>17. RestCases(g, a, b)
  BY <1>16, Zenon DEF RestCases
<1> QED
  BY <1>12, <1>13, <1>17

(* A step of it: s from s1 or s2.                                          *)
LEMMA RestStep ==
  ASSUME NEW h, NEW A1, NEW A, NEW B, NEW s, NEW t,
         Leads(h, A1, A), B \subseteq Int, IsListOf(t, A1 \ B)
  PROVE  /\ h \in B => IsListOf(t, A \ B)
         /\ h \notin B => IsListOf(<<h>> \o t, A \ B)
<1>1. h \in B => A \ B = A1 \ B
  BY DEF Leads
<1>2. h \notin B => A \ B = {h} \cup (A1 \ B)
  BY DEF Leads
<1>3. h \in Int /\ Precedes(h, A1 \ B)
  BY DEF Leads, Precedes
<1>4. h \notin B => IsListOf(<<h>> \o t, A \ B)
  BY <1>2, <1>3, ConsLists, Zenon
<1> QED
  BY <1>1, <1>4, Zenon

(* andNotArrays: two ascending arrays give the ascending array of what      *)
(* only the first has.                                                      *)
LEMMA AndNotArraysIs ==
  ASSUME NEW a \in Seq(Int), NEW b \in Seq(Int), Increasing(a), Increasing(b)
  PROVE  IsListOf(AndNotArrays(a, b), ToSet(a) \ ToSet(b))
<1>1. PICK out : AndNotArrays(a, b) = out[<<1, 1>>] /\ RestCases(out, a, b)
  BY RestUnfolds
<1> DEFINE Good == {x \in Cursors(a, b) : IsListOf(out[x], From(a, x[1]) \ From(b, x[2]))}
<1>2. ASSUME NEW x \in Cursors(a, b),
             \A y \in Cursors(a, b) : CursorsLeft(a, b)[y] < CursorsLeft(a, b)[x] => y \in Good
      PROVE  x \in Good
  <2>1. PICK i \in 1..(Len(a) + 1), j \in 1..(Len(b) + 1) :
          x = <<i, j>> /\ i = x[1] /\ j = x[2]
    BY CursorsAre
  <2>2. /\ Len(a) \in Nat /\ Len(b) \in Nat
        /\ i <= Len(a) => i \in 1..Len(a)
        /\ j <= Len(b) => j \in 1..Len(b)
    OBVIOUS
  <2> SUFFICES IsListOf(out[<<i, j>>], From(a, i) \ From(b, j))
    BY <2>1
  <2>3. CASE i > Len(a)
    <3>1. out[<<i, j>>] = <<>>
      BY <1>1, <2>3 DEF RestCases
    <3>2. From(a, i) \ From(b, j) = {}
      BY <2>3, FromIs
    <3>3. IsListOf(<<>>, {})
      BY DEF IsListOf, Increasing, ToSet
    <3> QED
      BY <3>1, <3>2, <3>3, Zenon
  <2>4. ASSUME i <= Len(a)
        PROVE  IsListOf(out[<<i, j>>], From(a, i) \ From(b, j))
    <3>1. i \in 1..Len(a)
      BY <2>2, <2>4
    <3>2. Leads(a[i], From(a, i + 1), From(a, i))
      <4>1. i + 1 \in 1..(Len(a) + 1)
        BY <2>2, <3>1
      <4>2. /\ a[i] \in Int /\ From(a, i) = {a[i]} \cup From(a, i + 1)
            /\ (\A y \in From(a, i + 1) : a[i] < y) /\ From(a, i + 1) \subseteq Int
        BY <3>1, <4>1, FromIs
      <4> QED
        BY <4>2 DEF Leads, Precedes
    <3>3. From(b, j) \in SUBSET Int
      BY FromIs
    <3>4. IsListOf(out[<<i + 1, j>>], From(a, i + 1) \ From(b, j))
      <4>1. <<i + 1, j>> \in Good
        BY <1>2, <2>1, <3>1, RestMoves
      <4> QED
        BY <4>1
    <3>5. /\ a[i] \in From(b, j) => IsListOf(out[<<i + 1, j>>], From(a, i) \ From(b, j))
          /\ a[i] \notin From(b, j) => IsListOf(<<a[i]>> \o out[<<i + 1, j>>], From(a, i) \ From(b, j))
      BY <3>2, <3>3, <3>4, RestStep
    <3>6. CASE j > Len(b)
      <4>1. out[<<i, j>>] = <<a[i]>> \o out[<<i + 1, j>>]
        BY <1>1, <2>4, <3>6 DEF RestCases
      <4>2. From(b, j) = {}
        BY <3>6, FromIs
      <4> QED
        BY <3>5, <4>1, <4>2
    <3>7. CASE j <= Len(b)
      <4>1. j \in 1..Len(b) /\ j + 1 \in 1..(Len(b) + 1)
        BY <2>2, <3>7
      <4>2. Leads(b[j], From(b, j + 1), From(b, j))
        <5>1. /\ b[j] \in Int /\ From(b, j) = {b[j]} \cup From(b, j + 1)
              /\ (\A y \in From(b, j + 1) : b[j] < y) /\ From(b, j + 1) \subseteq Int
          BY <4>1, FromIs
        <5> QED
          BY <5>1 DEF Leads, Precedes
      <4>3. /\ b[j] < a[i] => out[<<i, j>>] = out[<<i, j + 1>>]
            /\ b[j] = a[i] => out[<<i, j>>] = out[<<i + 1, j>>]
            /\ b[j] > a[i] => out[<<i, j>>] = <<a[i]>> \o out[<<i + 1, j>>]
        BY <1>1, <2>4, <3>7 DEF RestCases
      <4>4. b[j] = a[i] => a[i] \in From(b, j)
        BY <4>2 DEF Leads
      <4>5. b[j] > a[i] => a[i] \notin From(b, j)
        <5>1. \A p, q, r \in Int : p > q /\ p < r => r # q
          OBVIOUS
        <5>2. a[i] \in Int
          BY <3>2 DEF Leads
        <5> QED
          BY <4>2, <5>1, <5>2 DEF Leads, Precedes
      <4>6. b[j] < a[i] => IsListOf(out[<<i, j + 1>>], From(a, i) \ From(b, j))
        <5> SUFFICES ASSUME b[j] < a[i]
                     PROVE  IsListOf(out[<<i, j + 1>>], From(a, i) \ From(b, j))
          OBVIOUS
        <5>1. <<i, j + 1>> \in Good
          BY <1>2, <2>1, <3>1, <3>7, RestMoves
        <5>2. IsListOf(out[<<i, j + 1>>], From(a, i) \ From(b, j + 1))
          BY <5>1
        <5>3. From(a, i) \ From(b, j) = From(a, i) \ From(b, j + 1)
          <6>1. b[j] \notin From(a, i)
            <7>1. \A p, q, r \in Int : p < q /\ (r = q \/ q < r) => r # p
              OBVIOUS
            <7> QED
              BY <3>2, <4>2, <7>1 DEF Leads, Precedes
          <6> QED
            BY <4>2, <6>1 DEF Leads
        <5> QED
          BY <5>2, <5>3
      <4>7. b[j] < a[i] \/ b[j] = a[i] \/ b[j] > a[i]
        BY <3>2, <4>2 DEF Leads
      <4> QED
        BY <3>5, <4>3, <4>4, <4>5, <4>6, <4>7, Zenon
    <3> QED
      BY <2>2, <3>6, <3>7
  <2> QED
    BY <2>2, <2>3, <2>4
<1>3. Cursors(a, b) = Good
  <2>1. CursorsLeft(a, b) \in [Cursors(a, b) -> Nat] /\ Good \in SUBSET Cursors(a, b)
    BY CursorsAre
  <2> HIDE DEF Good
  <2>2. Passes(Cursors(a, b), CursorsLeft(a, b), Good)
    BY <1>2, <2>1 DEF Passes
  <2> QED
    BY <2>2, MeasureInduction, Zenon
<1>4. <<1, 1>> \in Cursors(a, b)
  <2>1. 1 \in 1..(Len(a) + 1) /\ 1 \in 1..(Len(b) + 1)
    OBVIOUS
  <2> QED
    BY <2>1, CursorsAre
<1>5. IsListOf(out[<<1, 1>>], From(a, 1) \ From(b, 1))
  <2>1. PICK x \in Good : x = <<1, 1>>
    BY <1>3, <1>4
  <2>2. x[1] = 1 /\ x[2] = 1 /\ IsListOf(out[x], From(a, x[1]) \ From(b, x[2]))
    BY <2>1
  <2> QED
    BY <2>1, <2>2
<1> QED
  BY <1>1, <1>5, FromIs, Zenon

(* Containers.                                                             *)
AsArray(L) == [kind |-> "array", arr |-> Ascending(L), bits |-> {}, count |-> Cardinality(L)]

AsBits(L) == [kind |-> "bitmap", arr |-> <<>>, bits |-> L, count |-> Cardinality(L)]

Lists(L) == L \in SUBSET Int /\ IsFiniteSet(L)

(* Finite sets of integers make such sets together.                         *)
LEMMA ListsAre ==
  ASSUME NEW A, NEW B, Lists(A), Lists(B)
  PROVE  Lists(A \cup B) /\ Lists(A \cap B) /\ Lists(A \ B)
<1>1. IsFiniteSet(A \cup B)
  BY FS_Union DEF Lists
<1>2. (A \cap B) \in SUBSET A /\ (A \ B) \in SUBSET A
  OBVIOUS
<1>3. IsFiniteSet(A \cap B) /\ IsFiniteSet(A \ B)
  BY <1>2, FS_Subset DEF Lists
<1> QED
  BY <1>1, <1>3 DEF Lists

(* An increasing list is the ascending list of its elements.                *)
LEMMA ListOnly ==
  ASSUME NEW s, NEW A, IsListOf(s, A)
  PROVE  s = Ascending(A) /\ Lists(A)
BY IncreasingIsAscending DEF IsListOf, Lists, ToSet

(* A finite set of integers has an ascending list, as long as it has        *)
(* elements.                                                                *)
LEMMA ListIs ==
  ASSUME NEW L, Lists(L)
  PROVE  /\ Cardinality(L) \in Nat
         /\ IsListOf(Ascending(L), L)
         /\ Len(Ascending(L)) = Cardinality(L)
         /\ DOMAIN Ascending(L) = 1..Cardinality(L)
         /\ \A i \in 1..Cardinality(L) : Ascending(L)[i] \in L
<1>1. L \in SUBSET Int /\ IsFiniteSet(L)
  BY DEF Lists
<1>2. PICK c \in Nat : c = Cardinality(L)
  BY <1>1, FS_CardinalityType
<1>3. Ascending(L) \in [1..c -> L]
  BY <1>1, <1>2, AscendingIs
<1>4. Ascending(L) \in [1..c -> Int]
  BY <1>1, <1>3
<1>5. Ascending(L) \in Seq(Int)
  BY <1>4
<1>6. \A i \in 1..c : Ascending(L)[i] \in L
  BY <1>3
<1> QED
  BY <1>1, <1>2, <1>5, <1>6, AscendingIs DEF IsListOf

(* A container of a set has one of two forms, by its size.                 *)
LEMMA FormIs ==
  ASSUME NEW L, Lists(L)
  PROVE  /\ Cardinality(L) <= MaxArrayLen => FromBits(L) = AsArray(L)
         /\ ~(Cardinality(L) <= MaxArrayLen) => FromBits(L) = AsBits(L)
         /\ FromBits(L).count = Cardinality(L)
         /\ ToBits(FromBits(L)) = L
<1>1. Sorted(L) = Ascending(L)
  BY SortedIs
<1>2. Len(Ascending(L)) = Cardinality(L) /\ ToSet(Ascending(L)) = L
  BY ListIs DEF IsListOf
<1>3. Cardinality(L) <= MaxArrayLen => FromBits(L) = AsArray(L)
  BY <1>1, <1>2 DEF FromBits, AsArray, ArrayOf
<1>4. ~(Cardinality(L) <= MaxArrayLen) => FromBits(L) = AsBits(L)
  BY DEF FromBits, AsBits
<1>5. AsArray(L).count = Cardinality(L) /\ ToBits(AsArray(L)) = L
  BY <1>2 DEF AsArray, ToBits
<1>6. AsBits(L).count = Cardinality(L) /\ ToBits(AsBits(L)) = L
  <2>1. AsBits(L).kind = "bitmap" /\ AsBits(L).bits = L /\ "bitmap" # "array"
    BY DEF AsBits
  <2> QED
    BY <2>1 DEF AsBits, ToBits
<1> QED
  BY <1>3, <1>4, <1>5, <1>6

(* How the fields of a container change.                                   *)
Con(k, a, b, n) == [kind |-> k, arr |-> a, bits |-> b, count |-> n]

Grown(c, arr) == [c EXCEPT !.arr = arr, !.count = @ + 1]

Joined(c, bits) == [c EXCEPT !.bits = bits, !.count = @ + 1]

(* What the two forms of a container are after an addition.                 *)
LEMMA ConChanges ==
  ASSUME NEW k, NEW a, NEW b, NEW n
  PROVE  /\ \A arr : Grown(Con(k, a, b, n), arr) = Con(k, arr, b, n + 1)
         /\ \A bits : Joined(Con(k, a, b, n), bits) = Con(k, a, bits, n + 1)
         /\ Promoted(Con(k, a, b, n)) = Con("bitmap", <<>>, ToSet(a), n)
<1>1. PICK r : r = Con(k, a, b, n)
  OBVIOUS
<1>2. /\ DOMAIN r = {"kind", "arr", "bits", "count"}
      /\ r.kind = k /\ r.arr = a /\ r.bits = b /\ r.count = n
  BY <1>1 DEF Con
<1>3. ASSUME NEW arr
      PROVE  Grown(r, arr) = Con(k, arr, b, n + 1)
  <2>1. PICK g : g = [r EXCEPT !.arr = arr, !.count = @ + 1]
    OBVIOUS
  <2>2. DOMAIN g = DOMAIN r /\ g.kind = k /\ g.arr = arr /\ g.bits = b /\ g.count = n + 1
    BY <1>2, <2>1
  <2>3. g = [x \in DOMAIN r |-> g[x]]
    BY <2>1
  <2>4. g = Con(k, arr, b, n + 1)
    BY <1>2, <2>2, <2>3 DEF Con
  <2> QED
    BY <2>1, <2>4 DEF Grown
<1>4. ASSUME NEW bits
      PROVE  Joined(r, bits) = Con(k, a, bits, n + 1)
  <2>1. PICK g : g = [r EXCEPT !.bits = bits, !.count = @ + 1]
    OBVIOUS
  <2>2. DOMAIN g = DOMAIN r /\ g.kind = k /\ g.arr = a /\ g.bits = bits /\ g.count = n + 1
    BY <1>2, <2>1
  <2>3. g = [x \in DOMAIN r |-> g[x]]
    BY <2>1
  <2>4. g = Con(k, a, bits, n + 1)
    BY <1>2, <2>2, <2>3 DEF Con
  <2> QED
    BY <2>1, <2>4 DEF Joined
<1>5. Promoted(r) = Con("bitmap", <<>>, ToSet(a), n)
  <2>1. PICK g : g = [r EXCEPT !.kind = "bitmap", !.bits = ToSet(a), !.arr = <<>>]
    OBVIOUS
  <2>2. DOMAIN g = DOMAIN r /\ g.kind = "bitmap" /\ g.arr = <<>> /\ g.bits = ToSet(a) /\ g.count = n
    BY <1>2, <2>1
  <2>3. g = [x \in DOMAIN r |-> g[x]]
    BY <2>1
  <2>4. g = Con("bitmap", <<>>, ToSet(a), n)
    BY <1>2, <2>2, <2>3 DEF Con
  <2> QED
    BY <1>2, <2>1, <2>4 DEF Promoted
<1> QED
  BY <1>1, <1>3, <1>4, <1>5

(* What a container is after its promotion.                                 *)
LEMMA ConPromoted ==
  \A k, a, b, n : Promoted(Con(k, a, b, n)) = Con("bitmap", <<>>, ToSet(a), n)
BY ConChanges

AddTo(c, v) == IF c.kind = "array" THEN AddToArray(c, v) ELSE AddToBitmap(c, v)

(* One element more.                                                       *)
LEMMA AddToIs ==
  ASSUME NEW L, Lists(L), NEW v \in Int
  PROVE  /\ AddTo(FromBits(L), v) = FromBits(L \cup {v})
         /\ Lists(L \cup {v})
         /\ ContainerContains(FromBits(L), v) <=> v \in L
<1>1. PICK c \in Nat : c = Cardinality(L)
  BY ListIs
<1>2. L \in SUBSET Int /\ IsFiniteSet(L)
  BY DEF Lists
<1>3. Lists(L \cup {v})
  <2>1. IsFiniteSet(L \cup {v})
    BY <1>2, FS_AddElement
  <2> QED
    BY <1>2, <2>1 DEF Lists
<1>4. v \notin L => Cardinality(L \cup {v}) = c + 1
  BY <1>1, <1>2, FS_AddElement
<1>5. InArray(Ascending(L), v) <=> v \in L
  <2>1. Ranked(L, v, LowerBound(Ascending(L), v))
    BY <1>2, SearchIs
  <2>2. Len(Ascending(L)) = Cardinality(L)
    BY ListIs
  <2> QED
    BY <2>1, <2>2 DEF Ranked, InArray
<1>6. MaxArrayLen \in Nat
  BY MaxArrayLenIsPositive
<1>7. CASE c <= MaxArrayLen
  <2>1. PICK r : r = FromBits(L) /\ r = [kind |-> "array", arr |-> Ascending(L), bits |-> {}, count |-> c]
    BY <1>1, <1>7, FormIs DEF AsArray
  <2>2. r.kind = "array" /\ r.arr = Ascending(L)
    BY <2>1
  <2>3. ContainerContains(r, v) <=> v \in L
    BY <1>5, <2>2 DEF ContainerContains
  <2>4. CASE v \in L
    <3>1. AddToArray(r, v) = r
      BY <1>5, <2>2, <2>4 DEF AddToArray
    <3>2. L \cup {v} = L
      BY <2>4
    <3> QED
      BY <1>3, <2>1, <2>2, <2>3, <3>1, <3>2 DEF AddTo
  <2>5. CASE v \notin L
    <3>1. PICK arr : arr = InsertAt(r.arr, LowerBound(r.arr, v), v) /\ arr = Ascending(L \cup {v})
      BY <1>2, <2>2, <2>5, InsertSorts
    <3>2. Len(arr) = c + 1 /\ ToSet(arr) = L \cup {v}
      BY <1>3, <1>4, <2>5, <3>1, ListIs DEF IsListOf
    <3>3. PICK g : g = Grown(r, arr) /\ g = Con("array", arr, {}, c + 1)
      <4>1. r = Con("array", Ascending(L), {}, c)
        BY <2>1 DEF Con
      <4> QED
        BY <4>1, ConChanges
    <3>4. AddToArray(r, v) = IF Len(arr) > MaxArrayLen THEN Promoted(g) ELSE g
      <4>1. ~InArray(r.arr, v)
        BY <1>5, <2>2, <2>5
      <4>2. AddToArray(r, v)
              = IF InArray(r.arr, v) THEN r
                ELSE IF Len(arr) > MaxArrayLen THEN Promoted(Grown(r, arr)) ELSE Grown(r, arr)
        BY <3>1 DEF AddToArray, Grown
      <4> QED
        BY <3>3, <4>1, <4>2
    <3>5. Promoted(g) = Con("bitmap", <<>>, L \cup {v}, c + 1)
      <4>1. Promoted(Con("array", arr, {}, c + 1)) = Con("bitmap", <<>>, ToSet(arr), c + 1)
        BY ConPromoted
      <4> QED
        BY <3>2, <3>3, <4>1, Zenon
    <3>6. CASE c + 1 <= MaxArrayLen
      <4>1. ~(Len(arr) > MaxArrayLen)
        BY <1>6, <3>2, <3>6
      <4>2. FromBits(L \cup {v}) = AsArray(L \cup {v})
        <5>1. Cardinality(L \cup {v}) <= MaxArrayLen
          BY <1>4, <2>5, <3>6
        <5> QED
          BY <1>3, <5>1, FormIs, Zenon
      <4>3. AsArray(L \cup {v}) = g
        BY <1>4, <2>5, <3>1, <3>3 DEF AsArray, Con
      <4> QED
        BY <1>3, <2>1, <2>2, <2>3, <3>4, <4>1, <4>2, <4>3 DEF AddTo
    <3>7. CASE ~(c + 1 <= MaxArrayLen)
      <4>1. Len(arr) > MaxArrayLen
        BY <1>6, <3>2, <3>7
      <4>2. FromBits(L \cup {v}) = AsBits(L \cup {v})
        <5>1. ~(Cardinality(L \cup {v}) <= MaxArrayLen)
          BY <1>4, <2>5, <3>7
        <5> QED
          BY <1>3, <5>1, FormIs, Zenon
      <4>3. AsBits(L \cup {v}) = Promoted(g)
        BY <1>4, <2>5, <3>5 DEF AsBits, Con
      <4> QED
        BY <1>3, <2>1, <2>2, <2>3, <3>4, <4>1, <4>2, <4>3 DEF AddTo
    <3> QED
      BY <3>6, <3>7
  <2> QED
    BY <2>4, <2>5
<1>8. CASE ~(c <= MaxArrayLen)
  <2>1. PICK r : r = FromBits(L) /\ r = [kind |-> "bitmap", arr |-> <<>>, bits |-> L, count |-> c]
    BY <1>1, <1>8, FormIs DEF AsBits
  <2>2. r.kind # "array" /\ r.bits = L
    BY <2>1
  <2>3. ContainerContains(r, v) <=> v \in L
    BY <2>2 DEF ContainerContains
  <2>4. CASE v \in L
    <3>1. AddToBitmap(r, v) = r
      BY <2>2, <2>4 DEF AddToBitmap
    <3>2. L \cup {v} = L
      BY <2>4
    <3> QED
      BY <1>3, <2>1, <2>2, <2>3, <3>1, <3>2 DEF AddTo
  <2>5. CASE v \notin L
    <3>1. AddToBitmap(r, v) = Con("bitmap", <<>>, L \cup {v}, c + 1)
      <4>1. r = Con("bitmap", <<>>, L, c)
        BY <2>1 DEF Con
      <4>2. Joined(r, L \cup {v}) = Con("bitmap", <<>>, L \cup {v}, c + 1)
        BY <4>1, ConChanges
      <4>3. AddToBitmap(r, v) = Joined(r, L \cup {v})
        BY <2>2, <2>5 DEF AddToBitmap, Joined
      <4> QED
        BY <4>2, <4>3
    <3>2. ~(c + 1 <= MaxArrayLen)
      BY <1>6, <1>8
    <3>3. FromBits(L \cup {v}) = AsBits(L \cup {v})
      <4>1. ~(Cardinality(L \cup {v}) <= MaxArrayLen)
        BY <1>4, <2>5, <3>2
      <4> QED
        BY <1>3, <4>1, FormIs, Zenon
    <3>4. AddToBitmap(r, v) = AsBits(L \cup {v})
      BY <1>4, <2>5, <3>1 DEF AsBits, Con
    <3> QED
      BY <1>3, <2>1, <2>2, <2>3, <3>3, <3>4 DEF AddTo
  <2> QED
    BY <2>4, <2>5
<1> QED
  BY <1>7, <1>8

(* A container of one element.                                             *)
LEMMA SingleIs ==
  ASSUME NEW v \in Int
  PROVE  ArrayOf(<<v>>) = FromBits({v}) /\ Lists({v})
<1>1. IsListOf(<< v >>, {v})
  <2>1. << v >> \in Seq(Int) /\ DOMAIN << v >> = 1..1 /\ << v >>[1] = v
    OBVIOUS
  <2> QED
    BY <2>1 DEF IsListOf, Increasing, ToSet
<1>2. << v >> = Ascending({v}) /\ Lists({v})
  BY <1>1, ListOnly
<1>3. Cardinality({v}) = 1 /\ Len(<< v >>) = 1
  BY FS_Singleton
<1>4. FromBits({v}) = AsArray({v})
  BY <1>2, <1>3, FormIs, MaxArrayLenIsPositive
<1> QED
  BY <1>2, <1>3, <1>4 DEF AsArray, ArrayOf

(* Two arrays are combined as arrays, others as bits: the result is the    *)
(* container of the set in either way.                                     *)
LEMMA ContainersAre ==
  ASSUME NEW A, NEW B, Lists(A), Lists(B)
  PROVE  /\ OrContainers(FromBits(A), FromBits(B)) = FromBits(A \cup B)
         /\ AndContainers(FromBits(A), FromBits(B)) = FromBits(A \cap B)
         /\ AndNotContainers(FromBits(A), FromBits(B)) = FromBits(A \ B)
<1>1. ToBits(FromBits(A)) = A /\ ToBits(FromBits(B)) = B
  BY FormIs
<1>2. OrContainers(FromBits(A), FromBits(B)) = FromBits(A \cup B)
  BY <1>1 DEF OrContainers
<1>3. CASE ~BothArrays(FromBits(A), FromBits(B))
  BY <1>1, <1>2, <1>3 DEF AndContainers, AndNotContainers
<1>4. CASE BothArrays(FromBits(A), FromBits(B))
  <2>1. /\ FromBits(A).arr = Ascending(A) /\ Cardinality(A) <= MaxArrayLen
        /\ FromBits(B).arr = Ascending(B)
    <3>1. ASSUME NEW L, Lists(L), FromBits(L).kind = "array"
          PROVE  FromBits(L).arr = Ascending(L) /\ Cardinality(L) <= MaxArrayLen
      <4>1. AsBits(L).kind = "bitmap" /\ "bitmap" # "array" /\ AsArray(L).arr = Ascending(L)
        BY DEF AsBits, AsArray
      <4> QED
        BY <3>1, <4>1, FormIs
    <3> QED
      BY <1>4, <3>1 DEF BothArrays
  <2>2. /\ IsListOf(Ascending(A), A) /\ IsListOf(Ascending(B), B)
    BY ListIs
  <2>3. /\ IsListOf(AndArrays(Ascending(A), Ascending(B)), A \cap B)
        /\ IsListOf(AndNotArrays(Ascending(A), Ascending(B)), A \ B)
    BY <2>2, AndArraysIs, AndNotArraysIs DEF IsListOf
  <2>4. /\ AndArrays(Ascending(A), Ascending(B)) = Ascending(A \cap B)
        /\ AndNotArrays(Ascending(A), Ascending(B)) = Ascending(A \ B)
    BY <2>3, ListOnly
  <2>5. ASSUME NEW C \in SUBSET A
        PROVE  ArrayOf(Ascending(C)) = FromBits(C)
    <3>1. Lists(C) /\ Cardinality(C) <= Cardinality(A)
      BY FS_Subset DEF Lists
    <3>2. Cardinality(C) <= MaxArrayLen
      <4>1. Cardinality(C) \in Nat /\ Cardinality(A) \in Nat /\ MaxArrayLen \in Nat
        BY <3>1, ListIs, MaxArrayLenIsPositive
      <4> QED
        BY <2>1, <3>1, <4>1
    <3>3. FromBits(C) = AsArray(C) /\ Len(Ascending(C)) = Cardinality(C)
      BY <3>1, <3>2, FormIs, ListIs
    <3> QED
      BY <3>3 DEF AsArray, ArrayOf
  <2>6. /\ ArrayOf(Ascending(A \cap B)) = FromBits(A \cap B)
        /\ ArrayOf(Ascending(A \ B)) = FromBits(A \ B)
    BY <2>5
  <2> QED
    BY <1>2, <1>4, <2>1, <2>4, <2>6 DEF AndContainers, AndNotContainers
<1> QED
  BY <1>3, <1>4

(* The high halves of a set and the low halves under one of them.          *)
HighHalves(S) == {x[1] : x \in S}

LowHalves(S, h) == {x[2] : x \in {y \in S : y[1] = h}}

Containers(S) == [h \in HighHalves(S) |-> FromBits(LowHalves(S, h))]

Held(S) == S \in SUBSET Numbers /\ IsFiniteSet(S)

(* A function has no more values than arguments.                           *)
LEMMA FiniteValues ==
  ASSUME NEW S, IsFiniteSet(S), NEW f, DOMAIN f = S, f = [x \in S |-> f[x]]
  PROVE  IsFiniteSet({f[x] : x \in S})
<1>1. PICK T : T = {f[x] : x \in S}
  OBVIOUS
<1>2. f \in [S -> T]
  BY <1>1
<1>3. \A y \in T : \E x \in S : f[x] = y
  BY <1>1
<1>4. f \in Surjection(S, T)
  BY <1>2, <1>3 DEF Surjection
<1>5. IsFiniteSet(T)
  BY <1>4, FS_Surjection
<1> QED
  BY <1>1, <1>5

(* The halves of the numbers of a finite set are finitely many.             *)
LEMMA HalvesAre ==
  ASSUME NEW S, Held(S)
  PROVE  /\ Lists(HighHalves(S))
         /\ HighHalves(S) \subseteq Highs
         /\ \A h : Lists(LowHalves(S, h)) /\ LowHalves(S, h) \subseteq Lows
         /\ \A h : h \in HighHalves(S) <=> LowHalves(S, h) # {}
         /\ \A h, l : <<h, l>> \in S <=> l \in LowHalves(S, h)
<1>1. \A x \in S : x \in Numbers /\ x[1] \in Highs /\ x[2] \in Lows /\ x = <<x[1], x[2]>>
  BY DEF Held, Numbers
<1>2. IsFiniteSet(S)
  BY DEF Held
<1>3. IsFiniteSet(HighHalves(S))
  <2>1. PICK f : f = [x \in S |-> x[1]]
    OBVIOUS
  <2>2. DOMAIN f = S /\ f = [x \in S |-> f[x]]
    BY <2>1
  <2>3. IsFiniteSet({f[x] : x \in S})
    BY <1>2, <2>2, FiniteValues
  <2>4. {f[x] : x \in S} = HighHalves(S)
    BY <2>1 DEF HighHalves
  <2> QED
    BY <2>3, <2>4
<1>4. HighHalves(S) \subseteq Highs
  BY <1>1 DEF HighHalves
<1>0. Highs \subseteq Int /\ Lows \subseteq Int
  BY HalvesAreNumbers
<1>5. HighHalves(S) \in SUBSET Int
  BY <1>0, <1>4
<1>6. ASSUME NEW h
      PROVE  Lists(LowHalves(S, h)) /\ LowHalves(S, h) \subseteq Lows
  <2>1. PICK T : T = {y \in S : y[1] = h}
    OBVIOUS
  <2>2. IsFiniteSet(T) /\ T \subseteq S
    BY <1>2, <2>1, FS_Subset
  <2>3. IsFiniteSet({x[2] : x \in T})
    <3>1. PICK f : f = [x \in T |-> x[2]]
      OBVIOUS
    <3>2. DOMAIN f = T /\ f = [x \in T |-> f[x]]
      BY <3>1
    <3>3. IsFiniteSet({f[x] : x \in T})
      BY <2>2, <3>2, FiniteValues
    <3>4. {f[x] : x \in T} = {x[2] : x \in T}
      BY <3>1
    <3> QED
      BY <3>3, <3>4
  <2>4. LowHalves(S, h) = {x[2] : x \in T}
    BY <2>1 DEF LowHalves
  <2>5. LowHalves(S, h) \subseteq Lows
    BY <1>1, <2>2, <2>4
  <2> QED
    BY <1>0, <2>3, <2>4, <2>5 DEF Lists
<1>7. \A h : h \in HighHalves(S) <=> LowHalves(S, h) # {}
  BY DEF HighHalves, LowHalves
<1>8. \A h, l : <<h, l>> \in S <=> l \in LowHalves(S, h)
  <2> SUFFICES ASSUME NEW h, NEW l
               PROVE  <<h, l>> \in S <=> l \in LowHalves(S, h)
    OBVIOUS
  <2>1. ASSUME <<h, l>> \in S
        PROVE  l \in LowHalves(S, h)
    <3>1. PICK x \in S : x = <<h, l>> /\ x[1] = h /\ x[2] = l
      BY <2>1
    <3> QED
      BY <3>1 DEF LowHalves
  <2>2. ASSUME l \in LowHalves(S, h)
        PROVE  <<h, l>> \in S
    <3>1. PICK x \in S : x[1] = h /\ x[2] = l
      BY <2>2 DEF LowHalves
    <3> QED
      BY <1>1, <3>1
  <2> QED
    BY <2>1, <2>2
<1> QED
  BY <1>3, <1>4, <1>5, <1>6, <1>7, <1>8 DEF Lists

(* The one form of a set, by its halves.                                    *)
LEMMA CanonicalIs == \A S : Canonical(S) = ByHighs(HighHalves(S), Containers(S))
BY DEF Canonical, HighHalves, LowHalves, Containers

(* Entries in the order of their high halves.                              *)
LEMMA ByHighsAre ==
  ASSUME NEW H, Lists(H), NEW con
  PROVE  /\ Len(ByHighs(H, con)) = Cardinality(H)
         /\ DOMAIN ByHighs(H, con) = 1..Cardinality(H)
         /\ ByHighs(H, con) = [i \in 1..Cardinality(H) |->
                                 [key |-> Ascending(H)[i], con |-> con[Ascending(H)[i]]]]
         /\ \A i \in 1..Cardinality(H) :
              /\ ByHighs(H, con)[i] = [key |-> Ascending(H)[i], con |-> con[Ascending(H)[i]]]
              /\ ByHighs(H, con)[i].key = Ascending(H)[i]
              /\ ByHighs(H, con)[i].con = con[Ascending(H)[i]]
         /\ HighsOf(ByHighs(H, con)) = H
         /\ \A h \in Int : /\ FindIdx(ByHighs(H, con), h) = LowerBound(Ascending(H), h)
                           /\ Has(ByHighs(H, con), h) <=> h \in H
         /\ \A h \in H : At(ByHighs(H, con), h) = con[h]
<1>1. PICK n \in Nat : n = Cardinality(H)
  BY ListIs
<1>2. PICK A : A = Ascending(H)
  OBVIOUS
<1>3. PICK bm : bm = ByHighs(H, con)
  OBVIOUS
<1>4. /\ DOMAIN A = 1..n /\ Len(A) = n /\ ToSet(A) = H
      /\ \A i \in 1..n : A[i] \in H
  BY <1>1, <1>2, ListIs DEF IsListOf
<1>5. bm = [i \in 1..n |-> [key |-> A[i], con |-> con[A[i]]]]
  BY <1>2, <1>3, <1>4, SortedIs DEF ByHighs
<1>6. DOMAIN bm = 1..n /\ Len(bm) = n
  BY <1>5
<1>7. \A i \in 1..n : /\ bm[i] = [key |-> A[i], con |-> con[A[i]]]
                      /\ bm[i].key = A[i] /\ bm[i].con = con[A[i]]
  BY <1>5
<1>8. HighsOf(bm) = H
  <2>1. HighsOf(bm) = {A[i] : i \in 1..n}
    BY <1>6, <1>7 DEF HighsOf
  <2> QED
    BY <1>4, <2>1 DEF ToSet
<1>9. ASSUME NEW h \in Int
      PROVE  /\ FindIdx(bm, h) = LowerBound(A, h)
             /\ Has(bm, h) <=> h \in H
             /\ h \in H => At(bm, h) = con[h]
  <2>1. {i \in DOMAIN bm : bm[i].key < h} = {i \in DOMAIN A : A[i] < h}
    BY <1>4, <1>6, <1>7
  <2>2. FindIdx(bm, h) = LowerBound(A, h)
    BY <2>1 DEF FindIdx, LowerBound
  <2>3. PICK k : k = LowerBound(A, h) /\ Ranked(H, h, k)
    BY <1>2, SearchIs DEF Lists
  <2>4. k \in 1..(n + 1) /\ (k <= n => k \in 1..n)
    BY <1>1, <2>3 DEF Ranked
  <2>5. h \in H <=> k <= n /\ A[k] = h
    BY <1>1, <1>2, <2>3 DEF Ranked
  <2>6. Has(bm, h) <=> k <= n /\ bm[k].key = h
    BY <1>6, <2>2, <2>3 DEF Has
  <2>7. Has(bm, h) <=> h \in H
    BY <1>7, <2>4, <2>5, <2>6
  <2>8. h \in H => At(bm, h) = con[h]
    BY <1>7, <2>2, <2>3, <2>4, <2>5 DEF At
  <2> QED
    BY <2>2, <2>7, <2>8
<1>10. H \subseteq Int
  BY DEF Lists
<1> QED
  BY <1>1, <1>2, <1>3, <1>5, <1>6, <1>7, <1>8, <1>9, <1>10

(* Only the containers of the high halves named matter.                     *)
LEMMA ByHighsSame ==
  ASSUME NEW H, Lists(H), NEW con, NEW con2, \A h \in H : con[h] = con2[h]
  PROVE  ByHighs(H, con) = ByHighs(H, con2)
<1>1. \A i \in 1..Cardinality(H) : con[Ascending(H)[i]] = con2[Ascending(H)[i]]
  BY ListIs
<1> QED
  BY <1>1, ByHighsAre

(* What a bitmap of a set answers.                                         *)
LEMMA CanonicalAnswers ==
  ASSUME NEW S, Held(S)
  PROVE  /\ HighsOf(Canonical(S)) = HighHalves(S)
         /\ \A h \in Int : Has(Canonical(S), h) <=> h \in HighHalves(S)
         /\ \A h \in HighHalves(S) : At(Canonical(S), h) = FromBits(LowHalves(S, h))
<1>1. Lists(HighHalves(S))
  BY HalvesAre
<1>2. \A h \in HighHalves(S) : Containers(S)[h] = FromBits(LowHalves(S, h))
  BY DEF Containers
<1> QED
  BY <1>1, <1>2, ByHighsAre, CanonicalIs

(* The entry at a place is the container of the high half at that place.    *)
LEMMA ByHighsForm ==
  \A H : Lists(H) =>
    \A con : ByHighs(H, con) = [i \in 1..Cardinality(H) |->
                [key |-> Ascending(H)[i], con |-> con[Ascending(H)[i]]]]
BY ByHighsAre

(* The halves of a set with one number more.                               *)
LEMMA HalvesWith ==
  ASSUME NEW S, Held(S), NEW h \in Highs, NEW l \in Lows, NEW S1, S1 = S \cup {<<h, l>>}
  PROVE  /\ Held(S1)
         /\ HighHalves(S1) = HighHalves(S) \cup {h}
         /\ LowHalves(S1, h) = LowHalves(S, h) \cup {l}
         /\ \A g : g # h => LowHalves(S1, g) = LowHalves(S, g)
<1>0. <<h, l>> \in Numbers
  BY DEF Numbers
<1>1. PICK x : x = <<h, l>> /\ x[1] = h /\ x[2] = l /\ x \in Numbers
  BY <1>0
<1>2. Held(S1)
  BY <1>1, FS_AddElement DEF Held
<1>3. S1 = S \cup {x}
  BY <1>1
<1>4. HighHalves(S1) = HighHalves(S) \cup {h}
  BY <1>1, <1>3 DEF HighHalves
<1>5. LowHalves(S1, h) = LowHalves(S, h) \cup {l}
  BY <1>1, <1>3 DEF LowHalves
<1>6. \A g : g # h => LowHalves(S1, g) = LowHalves(S, g)
  BY <1>1, <1>3 DEF LowHalves
<1> QED
  BY <1>2, <1>4, <1>5, <1>6

Changed(bm, k, l) ==
  [bm EXCEPT ![k].con = IF @.kind = "array" THEN AddToArray(@, l) ELSE AddToBitmap(@, l)]

IsOfLength(bm, n) == DOMAIN bm = 1..n /\ bm = [i \in 1..n |-> bm[i]]

IsChanged(r, bm, n, k, e) ==
  /\ IsOfLength(r, n)
  /\ r[k] = e
  /\ \A i \in 1..n : i # k => r[i] = bm[i]

(* A bitmap in which one entry was replaced.                                *)
LEMMA ChangedIs ==
  ASSUME NEW n \in Nat, NEW k \in 1..n, NEW h, NEW c, NEW l,
         NEW bm, IsOfLength(bm, n), bm[k] = [key |-> h, con |-> c]
  PROVE  IsChanged(Changed(bm, k, l), bm, n, k, [key |-> h, con |-> AddTo(c, l)])
<1>0. DOMAIN bm = 1..n /\ bm = [i \in 1..n |-> bm[i]]
  BY DEF IsOfLength
<1>1. PICK r : r = Changed(bm, k, l)
  OBVIOUS
<1>2. PICK e : e = [bm[k] EXCEPT !.con = AddTo(bm[k].con, l)]
  OBVIOUS
<1>3. r = [bm EXCEPT ![k] = e]
  BY <1>0, <1>1, <1>2 DEF Changed, AddTo
<1>4. e = [key |-> h, con |-> AddTo(c, l)]
  <2>1. DOMAIN bm[k] = {"key", "con"} /\ bm[k].key = h /\ bm[k].con = c
    OBVIOUS
  <2>2. DOMAIN e = {"key", "con"} /\ e.key = h /\ e.con = AddTo(c, l) /\ e = [f \in DOMAIN e |-> e[f]]
    BY <1>2, <2>1
  <2> QED
    BY <2>2
<1>5. r = [i \in 1..n |-> r[i]] /\ r[k] = e /\ \A i \in 1..n : i # k => r[i] = bm[i]
  BY <1>0, <1>3
<1> QED
  BY <1>1, <1>4, <1>5 DEF IsChanged, IsOfLength

(* Add: the bitmap of a set becomes that of the set with the number.        *)
LEMMA AddedIs ==
  ASSUME NEW S, Held(S), NEW x \in Numbers
  PROVE  Added(Canonical(S), x) = Canonical(S \cup {x}) /\ Held(S \cup {x})
<1>1. PICK h \in Highs, l \in Lows : h = x[1] /\ l = x[2] /\ x = <<h, l>>
  BY DEF Numbers
<1>2. h \in Int /\ l \in Int
  BY HalvesAreNumbers
<1>3. PICK S1 : S1 = S \cup {x}
  OBVIOUS
<1>4. /\ Held(S1)
      /\ HighHalves(S1) = HighHalves(S) \cup {h}
      /\ LowHalves(S1, h) = LowHalves(S, h) \cup {l}
      /\ \A g : g # h => LowHalves(S1, g) = LowHalves(S, g)
  BY <1>1, <1>3, HalvesWith
<1>5. PICK H : H = HighHalves(S) /\ Lists(H)
  BY HalvesAre
<1>6. PICK n \in Nat : n = Cardinality(H)
  BY <1>5, ListIs
<1>7. PICK A : A = Ascending(H) /\ DOMAIN A = 1..n /\ Len(A) = n /\ (\A i \in 1..n : A[i] \in H) /\ A \in Seq(Int)
  BY <1>5, <1>6, ListIs DEF IsListOf
<1>8. PICK bm : bm = Canonical(S) /\ bm = ByHighs(H, Containers(S))
  BY <1>5, CanonicalIs
<1>9. /\ DOMAIN bm = 1..n /\ Len(bm) = n /\ bm = [i \in 1..n |-> bm[i]]
      /\ \A i \in 1..n : bm[i] = [key |-> A[i], con |-> Containers(S)[A[i]]]
  BY <1>5, <1>6, <1>7, <1>8, ByHighsAre
<1>10. PICK k : k = FindIdx(bm, h) /\ k = LowerBound(A, h) /\ Ranked(H, h, k)
  <2>1. FindIdx(bm, h) = LowerBound(A, h)
    BY <1>2, <1>5, <1>7, <1>8, ByHighsAre
  <2> QED
    BY <1>2, <1>5, <1>7, <2>1, SearchIs DEF Lists
<1>11. k \in 1..(n + 1) /\ (h \in H => k \in 1..n /\ A[k] = h) /\ (Has(bm, h) <=> h \in H)
  <2>1. Has(bm, h) <=> h \in H
    BY <1>2, <1>5, <1>8, ByHighsAre
  <2>2. k \in 1..(n + 1) /\ (h \in H => k <= n /\ A[k] = h)
    BY <1>6, <1>7, <1>10 DEF Ranked
  <2> QED
    BY <2>1, <2>2
<1>12. \A g \in H : Containers(S)[g] = FromBits(LowHalves(S, g))
  BY <1>5 DEF Containers
<1>13. \A g \in H \cup {h} : Containers(S1)[g] = FromBits(LowHalves(S1, g))
  BY <1>4, <1>5 DEF Containers
<1>14. Canonical(S1) = ByHighs(H \cup {h}, Containers(S1)) /\ Lists(H \cup {h})
  <2>1. Canonical(S1) = ByHighs(HighHalves(S1), Containers(S1))
    BY CanonicalIs
  <2>2. Lists(HighHalves(S1))
    BY <1>4, HalvesAre
  <2> QED
    BY <1>4, <1>5, <2>1, <2>2
<1>15. CASE h \in H
  <2>1. H \cup {h} = H
    BY <1>15
  <2>2. PICK r : r = Changed(bm, k, l)
    OBVIOUS
  <2>3. Added(bm, x) = r
    BY <1>1, <1>10, <1>11, <1>15, <2>2 DEF Added, Changed
  <2>4. bm[k] = [key |-> h, con |-> FromBits(LowHalves(S, h))]
    BY <1>9, <1>11, <1>12, <1>15
  <2>5. AddTo(FromBits(LowHalves(S, h)), l) = FromBits(LowHalves(S1, h))
    BY <1>2, <1>4, HalvesAre, AddToIs
  <2>6. /\ r = [i \in 1..n |-> r[i]]
        /\ r[k] = [key |-> h, con |-> FromBits(LowHalves(S1, h))]
        /\ \A i \in 1..n : i # k => r[i] = bm[i]
    <3>1. k \in 1..n
      BY <1>11, <1>15
    <3>2. PICK c : c = FromBits(LowHalves(S, h))
      OBVIOUS
    <3>3. IsOfLength(bm, n) /\ bm[k] = [key |-> h, con |-> c]
      BY <1>9, <2>4, <3>2 DEF IsOfLength
    <3>4. IsChanged(Changed(bm, k, l), bm, n, k, [key |-> h, con |-> AddTo(c, l)])
      BY <1>6, <3>1, <3>3, ChangedIs, Zenon
    <3>5. AddTo(c, l) = FromBits(LowHalves(S1, h))
      BY <2>5, <3>2
    <3> QED
      BY <2>2, <3>4, <3>5 DEF IsChanged, IsOfLength
  <2>7. \A i \in 1..n : i # k => A[i] # h
    <3>1. \A i, j \in 1..n : i < j => A[i] < A[j]
      BY <1>5, <1>7, ListIs DEF IsListOf, Increasing
    <3>2. k \in 1..n /\ A[k] = h
      BY <1>11, <1>15
    <3>3. ASSUME NEW i \in 1..n, i # k
          PROVE  A[i] # h
      <4>1. i < k \/ k < i
        BY <3>2, <3>3
      <4>2. \A y, z \in Int : y < z => y # z
        OBVIOUS
      <4>3. A[i] \in Int
        BY <1>7
      <4> QED
        BY <1>2, <3>1, <3>2, <4>1, <4>2, <4>3
    <3> QED
      BY <3>3
  <2>8. ASSUME NEW i \in 1..n
        PROVE  r[i] = [key |-> A[i], con |-> Containers(S1)[A[i]]]
    <3>1. A[i] \in H
      BY <1>7
    <3>2. CASE i = k
      BY <1>11, <1>13, <1>15, <2>6, <3>2
    <3>3. CASE i # k
      <4>1. r[i] = [key |-> A[i], con |-> Containers(S)[A[i]]]
        BY <1>9, <2>6, <3>3
      <4>2. LowHalves(S1, A[i]) = LowHalves(S, A[i])
        BY <1>4, <2>7, <3>3
      <4>3. Containers(S1)[A[i]] = Containers(S)[A[i]]
        BY <1>12, <1>13, <3>1, <4>2
      <4> QED
        BY <4>1, <4>3
    <3> QED
      BY <3>2, <3>3
  <2>9. r = [i \in 1..n |-> [key |-> A[i], con |-> Containers(S1)[A[i]]]]
    BY <2>6, <2>8
  <2>10. Canonical(S1) = [i \in 1..n |-> [key |-> A[i], con |-> Containers(S1)[A[i]]]]
    <3>1. ByHighs(H, Containers(S1)) = [i \in 1..Cardinality(H) |->
                 [key |-> Ascending(H)[i], con |-> Containers(S1)[Ascending(H)[i]]]]
      BY <1>5, ByHighsForm
    <3> QED
      BY <1>6, <1>7, <1>14, <2>1, <3>1
  <2> QED
    BY <1>3, <1>4, <1>8, <2>3, <2>9, <2>10
<1>16. CASE h \notin H
  <2>1. PICK e : e = [key |-> h, con |-> ArrayOf(<<l>>)]
    OBVIOUS
  <2>2. Added(bm, x) = InsertAt(bm, k, e)
    BY <1>1, <1>10, <1>11, <1>16, <2>1 DEF Added
  <2>3. ArrayOf(<<l>>) = FromBits(LowHalves(S1, h))
    <3>1. LowHalves(S, h) = {}
      BY <1>5, <1>16, HalvesAre
    <3>2. LowHalves(S1, h) = {l}
      BY <1>4, <3>1
    <3> QED
      BY <1>2, <3>2, SingleIs
  <2>4. PICK A1 : A1 = InsertAt(A, k, h) /\ A1 = Ascending(H \cup {h})
    BY <1>2, <1>5, <1>7, <1>10, <1>16, InsertSorts DEF Lists
  <2>5. Inserted(A1, A, k, h)
    BY <1>2, <1>7, <1>11, <2>4, InsertAtIs
  <2>6. PICK r : r = InsertAt(bm, k, e) /\ Inserted(r, bm, k, e)
    <3>1. PICK X : X = {bm[i] : i \in 1..n} \cup {e}
      OBVIOUS
    <3>2. bm \in Seq(X) /\ e \in X
      <4>1. bm \in [1..n -> X]
        BY <1>9, <3>1
      <4> QED
        BY <3>1, <4>1
    <3>3. Inserted(InsertAt(bm, k, e), bm, k, e)
      BY <1>9, <1>11, <3>2, InsertAtIs
    <3> QED
      BY <3>3
  <2>7. /\ r = [i \in 1..(n + 1) |-> IF i < k THEN bm[i] ELSE IF i = k THEN e ELSE bm[i - 1]]
        /\ A1 = [i \in 1..(n + 1) |-> IF i < k THEN A[i] ELSE IF i = k THEN h ELSE A[i - 1]]
    BY <1>7, <1>9, <2>5, <2>6 DEF Inserted
  <2>8. Cardinality(H \cup {h}) = n + 1
    BY <1>5, <1>6, <1>16, FS_AddElement DEF Lists
  <2>9. ASSUME NEW g \in H
        PROVE  Containers(S)[g] = Containers(S1)[g]
    <3>1. g # h
      BY <1>16
    <3>2. LowHalves(S1, g) = LowHalves(S, g)
      BY <1>4, <3>1
    <3> QED
      BY <1>12, <1>13, <3>2
  <2>10. ASSUME NEW i \in 1..(n + 1)
         PROVE  r[i] = [key |-> A1[i], con |-> Containers(S1)[A1[i]]]
    <3>1. CASE i < k
      <4>1. i \in 1..n /\ r[i] = bm[i] /\ A1[i] = A[i]
        BY <1>11, <2>7, <3>1
      <4> QED
        BY <1>7, <1>9, <2>9, <4>1
    <3>2. CASE i = k
      <4>1. r[i] = e /\ A1[i] = h
        BY <1>11, <2>7, <3>2
      <4>2. Containers(S1)[h] = ArrayOf(<<l>>)
        BY <1>13, <2>3
      <4> QED
        BY <2>1, <4>1, <4>2
    <3>3. CASE ~(i < k) /\ i # k
      <4>1. i - 1 \in 1..n
        BY <1>11, <3>3
      <4>2. r[i] = bm[i - 1] /\ A1[i] = A[i - 1]
        BY <2>7, <3>3
      <4> QED
        BY <1>7, <1>9, <2>9, <4>1, <4>2
    <3> QED
      BY <3>1, <3>2, <3>3
  <2>11. r = [i \in 1..(n + 1) |-> [key |-> A1[i], con |-> Containers(S1)[A1[i]]]]
    <3>1. r = [i \in 1..(n + 1) |-> r[i]]
      BY <2>7
    <3> QED
      BY <2>10, <3>1
  <2>12. Canonical(S1) = [i \in 1..(n + 1) |-> [key |-> A1[i], con |-> Containers(S1)[A1[i]]]]
    <3>1. PICK G : G = H \cup {h}
      OBVIOUS
    <3>0. Lists(G)
      BY <1>14, <3>1
    <3>2. ByHighs(G, Containers(S1)) = [i \in 1..Cardinality(G) |->
                 [key |-> Ascending(G)[i], con |-> Containers(S1)[Ascending(G)[i]]]]
      BY <3>0, ByHighsForm, Zenon
    <3> QED
      BY <1>14, <2>4, <2>8, <3>1, <3>2
  <2> QED
    BY <1>3, <1>4, <1>8, <2>2, <2>6, <2>11, <2>12
<1> QED
  BY <1>15, <1>16

(* The halves of two sets together, of what is in both, and of what is in  *)
(* one only.                                                               *)
Together(A, B) ==
  /\ Held(A \cup B)
  /\ \A h : LowHalves(A \cup B, h) = LowHalves(A, h) \cup LowHalves(B, h)
  /\ HighHalves(A \cup B) = HighHalves(A) \cup HighHalves(B)

InBoth(A, B) ==
  /\ Held(A \cap B)
  /\ \A h : LowHalves(A \cap B, h) = LowHalves(A, h) \cap LowHalves(B, h)

InOne(A, B) ==
  /\ Held(A \ B)
  /\ \A h : LowHalves(A \ B, h) = LowHalves(A, h) \ LowHalves(B, h)

(* The halves of a union, an intersection and a difference.                 *)
LEMMA HalvesOf ==
  ASSUME NEW A, NEW B, Held(A), Held(B)
  PROVE  Together(A, B) /\ InBoth(A, B) /\ InOne(A, B)
<1>1. Held(A \cup B) /\ Held(A \cap B) /\ Held(A \ B)
  <2>1. IsFiniteSet(A \cup B)
    BY FS_Union DEF Held
  <2>2. (A \cap B) \in SUBSET A /\ (A \ B) \in SUBSET A
    OBVIOUS
  <2>3. IsFiniteSet(A \cap B) /\ IsFiniteSet(A \ B)
    BY <2>2, FS_Subset DEF Held
  <2> QED
    BY <2>1, <2>3 DEF Held
<1>2. ASSUME NEW h
      PROVE  /\ LowHalves(A \cup B, h) = LowHalves(A, h) \cup LowHalves(B, h)
             /\ LowHalves(A \cap B, h) = LowHalves(A, h) \cap LowHalves(B, h)
             /\ LowHalves(A \ B, h) = LowHalves(A, h) \ LowHalves(B, h)
  <2>1. \A l : /\ <<h, l>> \in A <=> l \in LowHalves(A, h)
               /\ <<h, l>> \in B <=> l \in LowHalves(B, h)
               /\ <<h, l>> \in A \cup B <=> l \in LowHalves(A \cup B, h)
               /\ <<h, l>> \in A \cap B <=> l \in LowHalves(A \cap B, h)
               /\ <<h, l>> \in A \ B <=> l \in LowHalves(A \ B, h)
    BY <1>1, HalvesAre
  <2> QED
    BY <2>1
<1>3. HighHalves(A \cup B) = HighHalves(A) \cup HighHalves(B)
  BY DEF HighHalves
<1> QED
  BY <1>1, <1>2, <1>3 DEF Together, InBoth, InOne

(* Or: the bitmaps of two sets give the bitmap of their union.              *)
LEMMA OrIs ==
  ASSUME NEW A, NEW B, Held(A), Held(B)
  PROVE  Or(Canonical(A), Canonical(B)) = Canonical(A \cup B)
<1>1. /\ Lists(HighHalves(A)) /\ Lists(HighHalves(B))
      /\ \A h : /\ Lists(LowHalves(A, h)) /\ Lists(LowHalves(B, h))
                /\ h \in HighHalves(A) <=> LowHalves(A, h) # {}
                /\ h \in HighHalves(B) <=> LowHalves(B, h) # {}
  BY HalvesAre
<1>2. PICK H : H = HighHalves(A) \cup HighHalves(B) /\ Lists(H) /\ H = HighHalves(A \cup B)
  <2>1. PICK G : G = HighHalves(A) \cup HighHalves(B)
    OBVIOUS
  <2>2. Lists(G)
    BY <1>1, <2>1, ListsAre
  <2>3. Together(A, B)
    BY HalvesOf
  <2> QED
    BY <2>1, <2>2, <2>3 DEF Together
<1>3. PICK con : con = [h \in H |->
              IF ~Has(Canonical(B), h) THEN At(Canonical(A), h)
              ELSE IF ~Has(Canonical(A), h) THEN At(Canonical(B), h)
              ELSE OrContainers(At(Canonical(A), h), At(Canonical(B), h))]
  OBVIOUS
<1>4. Or(Canonical(A), Canonical(B)) = ByHighs(H, con)
  <2>1. HighsOf(Canonical(A)) \cup HighsOf(Canonical(B)) = H
    BY <1>2, CanonicalAnswers
  <2> QED
    BY <1>3, <2>1 DEF Or
<1>5. ASSUME NEW h \in H
      PROVE  con[h] = Containers(A \cup B)[h]
  <2>1. h \in Int
    BY <1>2 DEF Lists
  <2>2. Containers(A \cup B)[h] = FromBits(LowHalves(A, h) \cup LowHalves(B, h))
    <3>1. Together(A, B)
      BY HalvesOf
    <3>2. Containers(A \cup B)[h] = FromBits(LowHalves(A \cup B, h))
      BY <1>2 DEF Containers
    <3> QED
      BY <3>1, <3>2 DEF Together
  <2>3. /\ Has(Canonical(A), h) <=> h \in HighHalves(A)
        /\ Has(Canonical(B), h) <=> h \in HighHalves(B)
        /\ h \in HighHalves(A) => At(Canonical(A), h) = FromBits(LowHalves(A, h))
        /\ h \in HighHalves(B) => At(Canonical(B), h) = FromBits(LowHalves(B, h))
    BY <2>1, CanonicalAnswers
  <2>4. con[h] = IF ~Has(Canonical(B), h) THEN At(Canonical(A), h)
                 ELSE IF ~Has(Canonical(A), h) THEN At(Canonical(B), h)
                 ELSE OrContainers(At(Canonical(A), h), At(Canonical(B), h))
    BY <1>3
  <2>5. CASE h \notin HighHalves(B)
    <3>1. LowHalves(B, h) = {} /\ h \in HighHalves(A)
      BY <1>1, <1>2, <2>5
    <3>2. LowHalves(A, h) \cup LowHalves(B, h) = LowHalves(A, h)
      BY <3>1
    <3> QED
      BY <2>2, <2>3, <2>4, <2>5, <3>1, <3>2
  <2>6. CASE h \in HighHalves(B) /\ h \notin HighHalves(A)
    <3>1. LowHalves(A, h) = {}
      BY <1>1, <2>6
    <3>2. LowHalves(A, h) \cup LowHalves(B, h) = LowHalves(B, h)
      BY <3>1
    <3> QED
      BY <2>2, <2>3, <2>4, <2>6, <3>2
  <2>7. CASE h \in HighHalves(B) /\ h \in HighHalves(A)
    <3>1. OrContainers(FromBits(LowHalves(A, h)), FromBits(LowHalves(B, h)))
            = FromBits(LowHalves(A, h) \cup LowHalves(B, h))
      BY <1>1, ContainersAre
    <3> QED
      BY <2>2, <2>3, <2>4, <2>7, <3>1
  <2> QED
    BY <2>5, <2>6, <2>7
<1>6. ByHighs(H, con) = ByHighs(H, Containers(A \cup B))
  BY <1>2, <1>5, ByHighsSame
<1> QED
  BY <1>2, <1>4, <1>6, CanonicalIs

(* The containers with an element are those that are kept.                 *)
LEMMA CountIs ==
  ASSUME NEW L, Lists(L)
  PROVE  FromBits(L).count > 0 <=> L # {}
<1>1. FromBits(L).count = Cardinality(L) /\ Cardinality(L) \in Nat /\ IsFiniteSet(L)
  BY FormIs, ListIs DEF Lists
<1>2. Cardinality(L) = 0 <=> L = {}
  BY <1>1, FS_EmptySet
<1> QED
  BY <1>1, <1>2

(* And: the bitmaps of two sets give the bitmap of their intersection.      *)
LEMMA AndIs ==
  ASSUME NEW A, NEW B, Held(A), Held(B)
  PROVE  And(Canonical(A), Canonical(B)) = Canonical(A \cap B)
<1>1. /\ Lists(HighHalves(A)) /\ Lists(HighHalves(B))
      /\ \A h : /\ Lists(LowHalves(A, h)) /\ Lists(LowHalves(B, h))
                /\ h \in HighHalves(A) <=> LowHalves(A, h) # {}
                /\ h \in HighHalves(B) <=> LowHalves(B, h) # {}
  BY HalvesAre
<1>2. PICK C : C = HighHalves(A) \cap HighHalves(B) /\ Lists(C)
  BY <1>1, ListsAre
<1>3. PICK con : con = [h \in C |-> AndContainers(At(Canonical(A), h), At(Canonical(B), h))]
  OBVIOUS
<1>4. And(Canonical(A), Canonical(B)) = ByHighs({h \in C : con[h].count > 0}, con)
  <2>1. HighsOf(Canonical(A)) \cap HighsOf(Canonical(B)) = C
    BY <1>2, CanonicalAnswers
  <2> QED
    BY <1>3, <2>1 DEF And
<1>5. Held(A \cap B) /\ \A h : LowHalves(A \cap B, h) = LowHalves(A, h) \cap LowHalves(B, h)
  <2>1. InBoth(A, B)
    BY HalvesOf, Zenon
  <2> QED
    BY <2>1 DEF InBoth
<1>6. ASSUME NEW h \in C
      PROVE  con[h] = FromBits(LowHalves(A \cap B, h))
  <2>1. /\ At(Canonical(A), h) = FromBits(LowHalves(A, h))
        /\ At(Canonical(B), h) = FromBits(LowHalves(B, h))
    BY <1>2, CanonicalAnswers
  <2>2. AndContainers(FromBits(LowHalves(A, h)), FromBits(LowHalves(B, h)))
          = FromBits(LowHalves(A, h) \cap LowHalves(B, h))
    BY <1>1, ContainersAre
  <2> QED
    BY <1>3, <1>5, <2>1, <2>2
<1>7. HighHalves(A \cap B) = {h \in C : con[h].count > 0}
  <2>1. ASSUME NEW h
        PROVE  h \in HighHalves(A \cap B) <=> h \in C /\ con[h].count > 0
    <3>1. h \in HighHalves(A \cap B) <=> LowHalves(A \cap B, h) # {}
      BY <1>5, HalvesAre
    <3>2. LowHalves(A \cap B, h) # {} => h \in C
      BY <1>1, <1>2, <1>5
    <3>3. h \in C => (con[h].count > 0 <=> LowHalves(A \cap B, h) # {})
      BY <1>5, <1>6, CountIs, HalvesAre
    <3> QED
      BY <3>1, <3>2, <3>3, Zenon
  <2> QED
    BY <2>1
<1>8. Lists(HighHalves(A \cap B))
  BY <1>5, HalvesAre
<1>9. \A h \in HighHalves(A \cap B) : con[h] = Containers(A \cap B)[h]
  BY <1>6, <1>7 DEF Containers
<1>10. ByHighs(HighHalves(A \cap B), con) = ByHighs(HighHalves(A \cap B), Containers(A \cap B))
  BY <1>8, <1>9, ByHighsSame
<1> QED
  BY <1>4, <1>7, <1>10, CanonicalIs

(* AndNot: the bitmaps of two sets give the bitmap of their difference.     *)
LEMMA AndNotIs ==
  ASSUME NEW A, NEW B, Held(A), Held(B)
  PROVE  AndNot(Canonical(A), Canonical(B)) = Canonical(A \ B)
<1>1. /\ Lists(HighHalves(A)) /\ Lists(HighHalves(B))
      /\ \A h : /\ Lists(LowHalves(A, h)) /\ Lists(LowHalves(B, h))
                /\ h \in HighHalves(A) <=> LowHalves(A, h) # {}
                /\ h \in HighHalves(B) <=> LowHalves(B, h) # {}
  BY HalvesAre
<1>2. PICK H : H = HighHalves(A) /\ Lists(H) /\ H = HighsOf(Canonical(A))
  BY <1>1, CanonicalAnswers
<1>3. PICK con : con = [h \in H |->
                IF Has(Canonical(B), h)
                  THEN AndNotContainers(At(Canonical(A), h), At(Canonical(B), h))
                  ELSE At(Canonical(A), h)]
  OBVIOUS
<1>4. AndNot(Canonical(A), Canonical(B))
        = ByHighs({h \in H : Has(Canonical(B), h) => con[h].count > 0}, con)
  BY <1>2, <1>3 DEF AndNot
<1>5. Held(A \ B) /\ \A h : LowHalves(A \ B, h) = LowHalves(A, h) \ LowHalves(B, h)
  <2>1. InOne(A, B)
    BY HalvesOf, Zenon
  <2> QED
    BY <2>1 DEF InOne
<1>6. ASSUME NEW h \in H
      PROVE  /\ con[h] = FromBits(LowHalves(A \ B, h))
             /\ Has(Canonical(B), h) <=> h \in HighHalves(B)
  <2>0. h \in Int
    BY <1>2 DEF Lists
  <2>1. /\ At(Canonical(A), h) = FromBits(LowHalves(A, h))
        /\ Has(Canonical(B), h) <=> h \in HighHalves(B)
        /\ h \in HighHalves(B) => At(Canonical(B), h) = FromBits(LowHalves(B, h))
    BY <1>2, <2>0, CanonicalAnswers
  <2>2. AndNotContainers(FromBits(LowHalves(A, h)), FromBits(LowHalves(B, h)))
          = FromBits(LowHalves(A, h) \ LowHalves(B, h))
    BY <1>1, ContainersAre
  <2>3. con[h] = IF Has(Canonical(B), h)
                  THEN AndNotContainers(At(Canonical(A), h), At(Canonical(B), h))
                  ELSE At(Canonical(A), h)
    BY <1>3
  <2>4. h \notin HighHalves(B) => LowHalves(A \ B, h) = LowHalves(A, h)
    BY <1>1, <1>5
  <2> QED
    BY <1>5, <2>1, <2>2, <2>3, <2>4
<1>7. HighHalves(A \ B) = {h \in H : Has(Canonical(B), h) => con[h].count > 0}
  <2>1. ASSUME NEW h
        PROVE  h \in HighHalves(A \ B) <=> h \in H /\ (Has(Canonical(B), h) => con[h].count > 0)
    <3>1. h \in HighHalves(A \ B) <=> LowHalves(A \ B, h) # {}
      BY <1>5, HalvesAre
    <3>2. LowHalves(A \ B, h) # {} => h \in H
      BY <1>1, <1>2, <1>5
    <3>3. h \in H => (con[h].count > 0 <=> LowHalves(A \ B, h) # {})
      BY <1>5, <1>6, CountIs, HalvesAre
    <3>4. h \in H /\ ~Has(Canonical(B), h) => LowHalves(A \ B, h) # {}
      BY <1>1, <1>2, <1>5, <1>6
    <3> QED
      BY <3>1, <3>2, <3>3, <3>4, Zenon
  <2> QED
    BY <2>1
<1>8. Lists(HighHalves(A \ B))
  BY <1>5, HalvesAre
<1>9. \A h \in HighHalves(A \ B) : con[h] = Containers(A \ B)[h]
  BY <1>6, <1>7 DEF Containers
<1>10. ByHighs(HighHalves(A \ B), con) = ByHighs(HighHalves(A \ B), Containers(A \ B))
  BY <1>8, <1>9, ByHighsSame
<1> QED
  BY <1>4, <1>7, <1>10, CanonicalIs

(* What reading yields from an entry on, and where the next entry begins.  *)
NextAt(data, off) == off + 3 + Width(data, off)

Ends(data, i, off) ==
  i = data[2] \/ off + 2 > Len(data) \/ NextAt(data, off) \notin (off + 3)..(Len(data) + 1)

Missing(data, i) == [k \in 1..(data[2] - i) |-> Unread]

Reads(g, data, i, off) ==
  IF i = data[2] THEN <<>>
  ELSE IF off + 2 > Len(data) \/ NextAt(data, off) \notin (off + 3)..(Len(data) + 1)
    THEN Missing(data, i)
  ELSE <<EntryAt(data, off)>> \o g[<<i + 1, NextAt(data, off)>>]

ReadsFrom(g, data) ==
  g = [at \in Nat \X (1..(Len(data) + 1)) |-> Reads(g, data, at[1], at[2])]

(* The reading of an encoding is a function that exists.                    *)
LEMMA ReadUnfolds ==
  ASSUME NEW data, Len(data) \in Nat, Len(data) >= 2, data[1] = Magic, data[2] \in Nat
  PROVE  \E g : /\ ReadFrom(data) = g[<<0, 3>>]
                /\ \A i \in Nat, off \in 1..(Len(data) + 1) :
                     g[<<i, off>>] = Reads(g, data, i, off)
<1> DEFINE D == Nat \X (1..(Len(data) + 1))
           X == {EntryAt(data, off) : off \in 1..(Len(data) + 1)} \cup {Unread}
           V == Seq(X)
           End == {x \in D : Ends(data, x[1], x[2])}
           final(x) == IF x[1] = data[2] THEN <<>> ELSE Missing(data, x[1])
           last == [x \in End |-> final(x)]
           next == [x \in D \ End |-> <<x[1] + 1, NextAt(data, x[2])>>]
           longer(x, v) == <<EntryAt(data, x[2])>> \o v
           step == [p \in D \X V |-> longer(p[1], p[2])]
           mu == [x \in D |-> Len(data) + 1 - x[2]]
<1>1. PICK n \in Nat : n = Len(data)
  OBVIOUS
<1>2. \A x \in D : x[1] \in Nat /\ x[2] \in 1..(n + 1) /\ x = <<x[1], x[2]>>
  BY <1>1
<1>3. ASSUME NEW x \in D \ End
      PROVE  /\ NextAt(data, x[2]) \in 1..(n + 1)
             /\ x[2] < NextAt(data, x[2])
             /\ EntryAt(data, x[2]) \in X
  <2>1. x[2] \in 1..(n + 1) /\ NextAt(data, x[2]) \in (x[2] + 3)..(n + 1)
    BY <1>1, <1>2 DEF Ends
  <2>2. \A y \in (x[2] + 3)..(n + 1) : y \in 1..(n + 1) /\ x[2] < y
    BY <2>1
  <2>3. EntryAt(data, x[2]) \in X
    BY <1>1, <2>1
  <2> HIDE DEF X, D, End
  <2> QED
    BY <2>1, <2>2, <2>3
<1>4. \A x \in End : final(x) \in V
  <2> SUFFICES ASSUME NEW x \in End
               PROVE  final(x) \in V
    OBVIOUS
  <2>1. PICK m \in Int : m = data[2] - x[1]
    BY <1>2
  <2>2. Unread \in X
    OBVIOUS
  <2> HIDE DEF X
  <2>3. [k \in 1..m |-> Unread] \in V
    <3>1. CASE m \in Nat
      <4>1. [k \in 1..m |-> Unread] \in [1..m -> X]
        BY <2>2
      <4> QED
        BY <3>1, <4>1
    <3>2. CASE m \notin Nat
      <4>1. 1..m = {}
        BY <3>2
      <4>2. [k \in 1..m |-> Unread] = <<>>
        BY <4>1
      <4> QED
        BY <4>2
    <3> QED
      BY <3>1, <3>2
  <2>4. Missing(data, x[1]) \in V
    BY <2>1, <2>3 DEF Missing
  <2>5. <<>> \in V
    OBVIOUS
  <2> HIDE DEF V
  <2> QED
    BY <2>4, <2>5
<1>5. last \in [End -> V]
  <2> HIDE DEF V, End, final
  <2> QED
    BY <1>4
<1>6. ASSUME NEW x \in D \ End
      PROVE  /\ <<x[1] + 1, NextAt(data, x[2])>> \in D
             /\ next[x] = <<x[1] + 1, NextAt(data, x[2])>>
  <2>1. x[1] + 1 \in Nat /\ NextAt(data, x[2]) \in 1..(Len(data) + 1)
    BY <1>1, <1>2, <1>3
  <2> HIDE DEF End
  <2> QED
    BY <2>1
<1>7. next \in [D \ End -> D]
  <2> HIDE DEF D, End
  <2> QED
    BY <1>6
<1>8. mu \in [D -> Nat] /\ \A x \in D : mu[x] < n + 1
  BY <1>1, <1>2
<1>9. \A x \in D \ End : mu[next[x]] < mu[x]
  <2> SUFFICES ASSUME NEW x \in D \ End
               PROVE  mu[next[x]] < mu[x]
    OBVIOUS
  <2>1. PICK y \in D : y = next[x] /\ y[2] = NextAt(data, x[2])
    BY <1>6
  <2>2. mu[y] = n + 1 - y[2] /\ mu[x] = n + 1 - x[2]
    BY <1>1
  <2>3. x[2] \in 1..(n + 1) /\ y[2] \in 1..(n + 1) /\ x[2] < y[2]
    BY <1>2, <1>3, <2>1
  <2> HIDE DEF mu, next, D, End
  <2>4. mu[y] < mu[x]
    BY <2>2, <2>3
  <2> QED
    BY <2>1, <2>4
<1>10. ASSUME NEW x \in D \ End, NEW v \in V
       PROVE  step[<<x, v>>] = longer(x, v) /\ step[<<x, v>>] \in V
  <2>1. step[<<x, v>>] = longer(x, v)
    <3> HIDE DEF longer, V, D, End
    <3> QED
      OBVIOUS
  <2>2. PICK e \in X : e = EntryAt(data, x[2])
    BY <1>3
  <2> HIDE DEF X
  <2>3. <<e>> \o v \in V
    OBVIOUS
  <2>4. longer(x, v) \in V
    BY <2>2, <2>3
  <2> HIDE DEF longer, step, V
  <2> QED
    BY <2>1, <2>4
<1>11. PICK f \in [D -> V] : Follows(f, D, End, last, next, step)
  <2>1. <<>> \in V /\ End \subseteq D /\ n + 1 \in Nat
    <3>1. <<>> \in V
      <4> HIDE DEF X
      <4> QED
        OBVIOUS
    <3> HIDE DEF V
    <3> QED
      BY <3>1
  <2>2. \A x \in D \ End, v \in V : step[<<x, v>>] \in V
    BY <1>10
  <2> HIDE DEF D, V, End, last, next, step, mu
  <2>3. Descends(D, V, End, last, next, step, mu, n + 1)
    BY <1>5, <1>7, <1>8, <1>9, <2>1, <2>2 DEF Descends
  <2> QED
    BY <2>3, RecursionExists
<1>12. ASSUME NEW x \in D
       PROVE  f[x] = Reads(f, data, x[1], x[2])
  <2>1. CASE x \in End
    <3>1. f[x] = final(x)
      <4> HIDE DEF final, End, D, V
      <4> QED
        BY <1>11, <2>1 DEF Follows
    <3>2. Ends(data, x[1], x[2])
      BY <2>1
    <3> QED
      BY ONLY <3>1, <3>2 DEF Reads, Ends
  <2>2. CASE x \notin End
    <3>1. f[x] = longer(x, f[next[x]])
      <4> HIDE DEF step, longer, next, End, D, V
      <4>1. x \in D \ End
        BY <2>2
      <4>2. PICK y \in D : y = next[x]
        BY <1>7, <4>1
      <4>3. PICK v \in V : v = f[y]
        BY <1>11, <4>2
      <4>4. f[x] = step[<<x, v>>]
        BY <1>11, <2>2, <4>2, <4>3 DEF Follows
      <4>5. step[<<x, v>>] = longer(x, v)
        BY <1>10, <4>1
      <4> QED
        BY <4>2, <4>3, <4>4, <4>5
    <3>2. next[x] = <<x[1] + 1, NextAt(data, x[2])>>
      BY <1>6, <2>2
    <3>3. ~Ends(data, x[1], x[2])
      BY <2>2
    <3> HIDE DEF next, End
    <3> QED
      BY ONLY <3>1, <3>2, <3>3 DEF Reads, Ends, longer
  <2> QED
    BY <2>1, <2>2
<1>13. ReadsFrom(f, data)
  <2> DEFINE e(x) == Reads(f, data, x[1], x[2])
  <2>1. f = [x \in D |-> e(x)]
    <3> HIDE DEF e, D, V
    <3> QED
      BY <1>11, <1>12 DEF e
  <2> QED
    BY <2>1 DEF ReadsFrom
<1> HIDE DEF D, X, V, End, final, last, next, step, mu, longer
<1> DEFINE P(g) == ReadsFrom(g, data)
           out == CHOOSE g : P(g)
<1>14. ReadsFrom(out, data)
  <2>1. \E g : P(g)
    BY <1>13
  <2>2. P(out)
    <3> HIDE DEF P
    <3> QED
      BY <2>1, Zenon
  <2> QED
    BY <2>2
<1>15. ReadFrom(data) = out[<<0, 3>>]
  <2>1. ~(Len(data) < 2 \/ data[1] # Magic)
    BY <1>1
  <2> QED
    BY <2>1, Zenon DEF ReadFrom, ReadsFrom, Reads, NextAt, Missing
<1> HIDE DEF P, out
<1>16. PICK g : g = out
  OBVIOUS
<1>17. ReadsFrom(g, data)
  BY <1>14, <1>16
<1>18. ASSUME NEW i \in Nat, NEW off \in 1..(Len(data) + 1)
       PROVE  g[<<i, off>>] = Reads(g, data, i, off)
  <2> DEFINE e(x) == Reads(g, data, x[1], x[2])
  <2>1. g = [x \in Nat \X (1..(Len(data) + 1)) |-> e(x)]
    BY <1>17 DEF ReadsFrom
  <2>2. PICK x \in Nat \X (1..(Len(data) + 1)) : x = <<i, off>> /\ x[1] = i /\ x[2] = off
    <3>1. <<i, off>> \in Nat \X (1..(Len(data) + 1))
      OBVIOUS
    <3> QED
      BY <3>1
  <2>3. g[x] = e(x)
    <3> HIDE DEF e
    <3> QED
      BY <2>1
  <2> QED
    BY <2>2, <2>3
<1>19. ReadFrom(data) = g[<<0, 3>>]
  BY <1>15, <1>16
<1> QED
  BY <1>18, <1>19

(* The words of an entry, and what they say of it.                         *)
Fields(e) ==
  <<e.key, e.con.kind, e.con.count>>
    \o (IF e.con.kind = "array" THEN e.con.arr ELSE <<e.con.bits>>)

Wide(e) == IF e.con.kind = "array" THEN e.con.count ELSE 1

Payload(e, j) == IF e.con.kind = "array" THEN e.con.arr[j] ELSE e.con.bits

Form(c) ==
  /\ c = Con(c.kind, c.arr, c.bits, c.count)
  /\ c.kind = "array" => DOMAIN c.arr = 1..c.count /\ c.count \in Nat /\ c.arr \in Seq(Int)
                         /\ c.arr = [j \in 1..c.count |-> c.arr[j]] /\ c.bits = {}
  /\ c.kind # "array" => c.arr = <<>>

BitmapEntry(e) == e = [key |-> e.key, con |-> e.con] /\ Form(e.con)

Says(w, e) ==
  /\ Wide(e) \in Nat
  /\ Len(w) = 3 + Wide(e)
  /\ w[1] = e.key /\ w[2] = e.con.kind /\ w[3] = e.con.count
  /\ \A j \in 1..Wide(e) : w[3 + j] = Payload(e, j)

(* An entry of the bitmap of a set has one of the two forms.                *)
LEMMA FormOf ==
  ASSUME NEW L, Lists(L)
  PROVE  Form(FromBits(L))
<1>1. PICK n \in Nat : n = Cardinality(L)
  BY ListIs
<1>2. PICK A : A = Ascending(L) /\ A \in Seq(Int) /\ DOMAIN A = 1..n
  BY <1>1, ListIs DEF IsListOf
<1>3. A = [j \in 1..n |-> A[j]]
  BY <1>2
<1>4. Form(AsArray(L))
  <2>1. PICK c : c = AsArray(L)
    OBVIOUS
  <2>2. c.kind = "array" /\ c.arr = A /\ c.bits = {} /\ c.count = n
    BY <1>1, <1>2, <2>1 DEF AsArray
  <2>3. c = Con(c.kind, c.arr, c.bits, c.count)
    BY <1>1, <1>2, <2>1, <2>2 DEF AsArray, Con
  <2> QED
    BY <1>2, <1>3, <2>1, <2>2, <2>3 DEF Form
<1>5. Form(AsBits(L))
  <2>1. PICK c : c = AsBits(L)
    OBVIOUS
  <2>2. c.kind = "bitmap" /\ c.arr = <<>> /\ c.bits = L /\ c.count = n /\ "bitmap" # "array"
    BY <1>1, <2>1 DEF AsBits
  <2>3. c = Con(c.kind, c.arr, c.bits, c.count)
    BY <1>1, <2>1, <2>2 DEF AsBits, Con
  <2> QED
    BY <2>1, <2>2, <2>3 DEF Form
<1> QED
  BY <1>4, <1>5, FormIs

(* The fields an entry is written as.                                       *)
LEMMA FieldsAre ==
  ASSUME NEW e, BitmapEntry(e)
  PROVE  /\ Says(Fields(e), e)
         /\ Fields(e) \in Seq(ToSet(Fields(e)))
<1>1. PICK c : c = e.con /\ Form(c)
  BY DEF BitmapEntry
<1>2. PICK h, k, n : h = e.key /\ k = c.kind /\ n = c.count
  OBVIOUS
<1>3. PICK t : t = IF k = "array" THEN c.arr ELSE <<c.bits>>
  OBVIOUS
<1>4. PICK m \in Nat : m = Wide(e) /\ DOMAIN t = 1..m /\ t \in Seq(ToSet(t)) /\ Len(t) = m
                       /\ \A j \in 1..m : t[j] = Payload(e, j)
  <2>1. CASE k = "array"
    <3>1. t = c.arr /\ n \in Nat /\ DOMAIN t = 1..n /\ t = [j \in 1..n |-> t[j]]
      BY <1>1, <1>2, <1>3, <2>1 DEF Form
    <3>2. t \in [1..n -> ToSet(t)]
      BY <3>1 DEF ToSet
    <3>3. t \in Seq(ToSet(t)) /\ Len(t) = n
      BY <3>1, <3>2
    <3>4. Wide(e) = n
      BY <1>1, <1>2, <2>1 DEF Wide
    <3>5. \A j \in 1..n : t[j] = Payload(e, j)
      BY <1>1, <1>2, <2>1, <3>1 DEF Payload
    <3> QED
      BY <3>1, <3>3, <3>4, <3>5
  <2>2. CASE k # "array"
    <3>1. t = << c.bits >> /\ DOMAIN t = 1..1 /\ Len(t) = 1 /\ t[1] = c.bits
      BY <1>3, <2>2
    <3>2. ToSet(t) = {c.bits} /\ t \in Seq({c.bits})
      BY <3>1 DEF ToSet
    <3>3. Wide(e) = 1
      BY <1>1, <1>2, <2>2 DEF Wide
    <3>4. \A j \in 1..1 : t[j] = Payload(e, j)
      BY <1>1, <1>2, <2>2, <3>1 DEF Payload
    <3> QED
      BY <3>1, <3>2, <3>3, <3>4
  <2> QED
    BY <2>1, <2>2
<1>5. PICK X : X = {h, k, n} \cup ToSet(t)
  OBVIOUS
<1>6. PICK s \in Seq(X) : s = <<h, k, n>> /\ Len(s) = 3 /\ s[1] = h /\ s[2] = k /\ s[3] = n
  <2>1. h \in X /\ k \in X /\ n \in X
    BY <1>5
  <2>2. <<h, k, n>> \in Seq(X) /\ Len(<<h, k, n>>) = 3
    BY <2>1
  <2>3. <<h, k, n>>[1] = h /\ <<h, k, n>>[2] = k /\ <<h, k, n>>[3] = n
    OBVIOUS
  <2> QED
    BY <2>2, <2>3
<1>7. t \in Seq(X)
  <2>1. ToSet(t) \subseteq X
    BY <1>5
  <2> QED
    BY <1>4, <2>1
<1>8. PICK w : w = s \o t
  OBVIOUS
<1>9. /\ w \in Seq(X) /\ Len(w) = 3 + m
      /\ w[1] = h /\ w[2] = k /\ w[3] = n
      /\ \A j \in 1..m : w[3 + j] = t[j]
  BY <1>4, <1>6, <1>7, <1>8
<1>10. w = Fields(e)
  BY <1>1, <1>2, <1>3, <1>6, <1>8 DEF Fields
<1>11. w \in Seq(ToSet(w))
  <2>1. DOMAIN w = 1..Len(w) /\ Len(w) \in Nat /\ w = [j \in 1..Len(w) |-> w[j]]
    BY <1>9
  <2>2. w \in [1..Len(w) -> ToSet(w)]
    BY <2>1 DEF ToSet
  <2> QED
    BY <2>1, <2>2
<1>12. Says(w, e)
  BY <1>1, <1>2, <1>4, <1>9 DEF Says
<1> QED
  BY <1>10, <1>11, <1>12

(* Data at off that says what an entry is reads as the entry.              *)
SaysAt(data, off, e) ==
  /\ data[off] = e.key /\ data[off + 1] = e.con.kind /\ data[off + 2] = e.con.count
  /\ \A j \in 1..Wide(e) : data[off + 2 + j] = Payload(e, j)

(* Reading where an entry was written gives the entry.                      *)
LEMMA EntryAtIs ==
  ASSUME NEW data, NEW off \in Nat, NEW e, BitmapEntry(e), Wide(e) \in Nat, SaysAt(data, off, e)
  PROVE  EntryAt(data, off) = e /\ NextAt(data, off) = off + 3 + Wide(e)
<1>1. PICK c : c = e.con /\ Form(c)
  BY DEF BitmapEntry
<1>2. data[off] = e.key /\ data[off + 1] = c.kind /\ data[off + 2] = c.count
  BY <1>1 DEF SaysAt
<1>3. IsArray(data, off) <=> c.kind = "array"
  BY <1>2 DEF IsArray
<1>4. Width(data, off) = Wide(e)
  BY <1>1, <1>2, <1>3 DEF Width, Wide
<1>5. PICK a : a = IF IsArray(data, off)
                     THEN [j \in 1..Width(data, off) |-> data[off + 2 + j]] ELSE <<>>
  OBVIOUS
<1>6. a = c.arr
  <2>1. CASE c.kind = "array"
    <3>1. c.arr = [j \in 1..c.count |-> c.arr[j]] /\ Wide(e) = c.count
      BY <1>1, <2>1 DEF Form, Wide
    <3>2. \A j \in 1..c.count : data[off + 2 + j] = c.arr[j]
      BY <1>1, <2>1, <3>1 DEF SaysAt, Payload
    <3>3. a = [j \in 1..c.count |-> data[off + 2 + j]]
      BY <1>3, <1>4, <1>5, <2>1, <3>1
    <3>4. a = [j \in 1..c.count |-> c.arr[j]]
      BY <3>2, <3>3
    <3> QED
      BY <3>1, <3>4
  <2>2. CASE c.kind # "array"
    BY <1>1, <1>3, <1>5, <2>2 DEF Form
  <2> QED
    BY <2>1, <2>2
<1>7. PICK b : b = IF IsArray(data, off) THEN {} ELSE data[off + 3]
  OBVIOUS
<1>8. b = c.bits
  <2>1. CASE c.kind = "array"
    BY <1>1, <1>3, <1>7, <2>1 DEF Form
  <2>2. CASE c.kind # "array"
    <3>1. Wide(e) = 1
      BY <1>1, <2>2 DEF Wide
    <3>2. data[off + 2 + 1] = c.bits
      BY <1>1, <2>2, <3>1 DEF SaysAt, Payload
    <3>3. off + 2 + 1 = off + 3
      OBVIOUS
    <3> QED
      BY <1>3, <1>7, <2>2, <3>2, <3>3
  <2> QED
    BY <2>1, <2>2
<1>9. EntryAt(data, off) = [key |-> e.key, con |-> Con(c.kind, c.arr, c.bits, c.count)]
  <2>1. EntryAt(data, off) = [key |-> data[off],
                              con |-> Con(data[off + 1], a, b, data[off + 2])]
    BY <1>5, <1>7 DEF EntryAt, Con
  <2> QED
    BY <1>2, <1>6, <1>8, <2>1
<1>10. e = [key |-> e.key, con |-> c] /\ c = Con(c.kind, c.arr, c.bits, c.count)
  BY <1>1 DEF BitmapEntry, Form
<1> QED
  BY <1>4, <1>9, <1>10 DEF NextAt

(* Where the entries of an encoded bitmap are.                             *)
Encoded(data, bm, n, off) ==
  /\ Len(data) \in Nat /\ Len(data) >= 2 /\ data[1] = Magic /\ data[2] = n
  /\ off[0] = 3
  /\ \A k \in 0..n : off[k] \in 1..(Len(data) + 1)
  /\ \A k \in 1..n : /\ Wide(bm[k]) \in Nat
                     /\ off[k] = off[k - 1] + 3 + Wide(bm[k])
                     /\ SaysAt(data, off[k - 1], bm[k])

(* Where the entries lie in an encoding.                                    *)
LEMMA EncodedIs ==
  ASSUME NEW bm, NEW n \in Nat, IsOfLength(bm, n), \A k \in 1..n : BitmapEntry(bm[k])
  PROVE  \E off : Encoded(WriteTo(bm), bm, n, off)
<1>1. DOMAIN bm = 1..n /\ Len(bm) = n
  BY DEF IsOfLength
<1>2. PICK ls : ls = [k \in 1..n |-> Fields(bm[k])]
  OBVIOUS
<1>3. DOMAIN ls = 1..n /\ Len(ls) = n /\ \A k \in 1..n : ls[k] = Fields(bm[k])
  BY <1>2
<1>4. \A k \in 1..n : Says(ls[k], bm[k]) /\ ls[k] \in Seq(ToSet(ls[k]))
  BY <1>3, FieldsAre
<1>5. PICK E : E = UNION {ToSet(ls[k]) : k \in 1..n}
  OBVIOUS
<1>6. ls \in Seq(Seq(E))
  <2>1. ASSUME NEW k \in 1..n
        PROVE  ls[k] \in Seq(E)
    <3>1. ToSet(ls[k]) \subseteq E
      BY <1>5
    <3> QED
      BY <1>4, <3>1
  <2>2. ls \in [1..n -> Seq(E)]
    BY <1>2, <1>3, <2>1
  <2> QED
    BY <2>2
<1>7. WriteTo(bm) = <<Magic, n>> \o FlattenSeq(ls)
  BY <1>1, <1>2 DEF WriteTo, Fields
<1>8. PICK f : Joins(f, ls, E) /\ FlattenSeq(ls) = f[n]
  BY <1>3, <1>6, FlattenJoins, Zenon
<1>9. /\ f[0] = <<>> /\ \A k \in 0..n : f[k] \in Seq(E)
  BY <1>3, <1>8 DEF Joins
<1>10. PICK flat \in Seq(E) : flat = f[n]
  BY <1>9
<1>11. PICK data : data = WriteTo(bm)
  OBVIOUS
<1>12. /\ Len(data) = 2 + Len(flat) /\ Len(flat) \in Nat
       /\ data[1] = Magic /\ data[2] = n
       /\ \A x \in 1..Len(flat) : data[2 + x] = flat[x]
  <2>1. PICK X : X = E \cup {Magic, n}
    OBVIOUS
  <2>2. PICK s \in Seq(X) : s = <<Magic, n>> /\ Len(s) = 2 /\ s[1] = Magic /\ s[2] = n
    <3>1. <<Magic, n>> \in Seq(X) /\ Len(<<Magic, n>>) = 2
      BY <2>1
    <3>2. <<Magic, n>>[1] = Magic /\ <<Magic, n>>[2] = n
      OBVIOUS
    <3> QED
      BY <3>1, <3>2
  <2>3. PICK t \in Seq(X) : t = flat
    <3>1. E \subseteq X
      BY <2>1
    <3> QED
      BY <3>1
  <2>4. data = s \o t
    BY <1>7, <1>8, <1>10, <1>11, <2>2, <2>3
  <2> QED
    BY <2>2, <2>3, <2>4
<1>13. \A k \in 0..n : Len(f[k]) \in Nat
  BY <1>9
<1>14. Len(f[0]) = 0
  BY <1>9
<1>15. ASSUME NEW k \in 1..n
       PROVE  /\ k - 1 \in 0..n /\ k \in 0..n
              /\ Wide(bm[k]) \in Nat
              /\ Len(f[k]) = Len(f[k - 1]) + (3 + Wide(bm[k]))
              /\ Len(f[k]) <= Len(flat)
              /\ flat[Len(f[k - 1]) + 1] = bm[k].key
              /\ flat[Len(f[k - 1]) + 2] = bm[k].con.kind
              /\ flat[Len(f[k - 1]) + 3] = bm[k].con.count
              /\ \A j \in 1..Wide(bm[k]) : flat[Len(f[k - 1]) + (3 + j)] = Payload(bm[k], j)
  <2>1. k - 1 \in 0..n /\ k \in 0..n
    OBVIOUS
  <2>2. Placed(f, ls, k)
    <3>1. k \in 1..Len(ls)
      BY <1>3
    <3> QED
      BY <1>6, <1>8, <3>1, JoinsPlace, Zenon
  <2>3. /\ Len(f[k]) = Len(f[k - 1]) + Len(ls[k])
        /\ Len(f[k]) <= Len(flat)
        /\ \A y \in 1..Len(ls[k]) : flat[Len(f[k - 1]) + y] = ls[k][y]
    BY <1>3, <1>10, <2>2 DEF Placed
  <2>4. PICK m \in Nat : m = Wide(bm[k]) /\ Len(ls[k]) = 3 + m
    BY <1>4 DEF Says
  <2>5. /\ ls[k][1] = bm[k].key /\ ls[k][2] = bm[k].con.kind /\ ls[k][3] = bm[k].con.count
        /\ \A j \in 1..m : ls[k][3 + j] = Payload(bm[k], j)
    BY <1>4, <2>4 DEF Says
  <2>6. /\ 1 \in 1..Len(ls[k]) /\ 2 \in 1..Len(ls[k]) /\ 3 \in 1..Len(ls[k])
        /\ \A j \in 1..m : 3 + j \in 1..Len(ls[k])
    BY <2>4
  <2>7. \A j \in 1..m : flat[Len(f[k - 1]) + (3 + j)] = Payload(bm[k], j)
    BY <2>3, <2>5, <2>6, Zenon
  <2> QED
    BY <2>1, <2>3, <2>4, <2>5, <2>6, <2>7, Zenon
<1>16. PICK off : off = [k \in 0..n |-> 3 + Len(f[k])]
  OBVIOUS
<1>17. \A k \in 0..n : off[k] = 3 + Len(f[k])
  BY <1>16
<1>18. \A k \in 0..n : Len(f[k]) <= Len(flat)
  <2> SUFFICES ASSUME NEW k \in 0..n PROVE Len(f[k]) <= Len(flat)
    OBVIOUS
  <2>1. CASE k = 0
    BY <1>12, <1>14, <2>1
  <2>2. CASE k # 0
    <3>1. k \in 1..n
      BY <2>2
    <3> QED
      BY <1>15, <3>1, Zenon
  <2> QED
    BY <2>1, <2>2
<1>19. \A k \in 0..n : off[k] \in 1..(Len(data) + 1)
  <2>1. \A p, q, r \in Nat : (p <= q /\ r = 2 + q) => 3 + p \in 1..(r + 1)
    OBVIOUS
  <2>2. Len(data) \in Nat
    BY <1>12
  <2> QED
    BY <1>12, <1>13, <1>17, <1>18, <2>1, <2>2, Zenon
<1>20. off[0] = 3
  BY <1>14, <1>17
<1>21. ASSUME NEW k \in 1..n
       PROVE  /\ Wide(bm[k]) \in Nat
              /\ off[k] = off[k - 1] + 3 + Wide(bm[k])
              /\ SaysAt(data, off[k - 1], bm[k])
  <2>1. PICK a \in Nat : a = Len(f[k - 1])
    BY <1>13, <1>15
  <2>2. PICK m \in Nat : m = Wide(bm[k])
    BY <1>15
  <2>3. off[k - 1] = 3 + a /\ off[k] = 3 + (a + (3 + m))
    BY <1>15, <1>17, <2>1, <2>2, Zenon
  <2>4. a + (3 + m) <= Len(flat)
    BY <1>15, <2>1, <2>2
  <2>5. \A j \in 1..m : a + (3 + j) \in 1..Len(flat) /\ 2 + (a + (3 + j)) = (3 + a) + 2 + j
    BY <1>12, <2>4
  <2>6. /\ a + 1 \in 1..Len(flat) /\ 2 + (a + 1) = 3 + a
        /\ a + 2 \in 1..Len(flat) /\ 2 + (a + 2) = (3 + a) + 1
        /\ a + 3 \in 1..Len(flat) /\ 2 + (a + 3) = (3 + a) + 2
    BY <1>12, <2>4
  <2>7. off[k] = off[k - 1] + 3 + m
    BY <2>3
  <2>8. data[3 + a] = bm[k].key /\ data[(3 + a) + 1] = bm[k].con.kind
        /\ data[(3 + a) + 2] = bm[k].con.count
    BY <1>12, <1>15, <2>1, <2>6, Zenon
  <2>9. \A j \in 1..m : data[(3 + a) + 2 + j] = Payload(bm[k], j)
    BY <1>12, <1>15, <2>1, <2>2, <2>5, Zenon
  <2> QED
    BY <2>2, <2>3, <2>7, <2>8, <2>9, Zenon DEF SaysAt
<1>22. Encoded(data, bm, n, off)
  <2>1. Len(data) \in Nat /\ Len(data) >= 2
    BY <1>12
  <2> QED
    BY <1>12, <1>19, <1>20, <1>21, <2>1, Zenon DEF Encoded
<1> QED
  BY <1>11, <1>22

(* The entries of a bitmap behind the k-th.                                *)
EntriesBehind(bm, n, k) == [m \in 1..(n - k) |-> bm[k + m]]

(* The entries behind a place: the next one, and those behind it.           *)
LEMMA BehindIs ==
  ASSUME NEW bm, NEW n \in Nat, NEW k \in 0..(n - 1)
  PROVE  <<bm[k + 1]>> \o EntriesBehind(bm, n, k + 1) = EntriesBehind(bm, n, k)
<1>1. PICK c \in Nat : c = n - (k + 1) /\ n - k = c + 1
  OBVIOUS
<1>2. PICK X : X = {bm[i] : i \in 1..n}
  OBVIOUS
<1>3. PICK e \in X : e = bm[k + 1]
  BY <1>2
<1>4. PICK t : t = EntriesBehind(bm, n, k + 1)
  OBVIOUS
<1>5. t = [m \in 1..c |-> bm[(k + 1) + m]]
  BY <1>1, <1>4 DEF EntriesBehind
<1>6. \A m \in 1..c : bm[(k + 1) + m] \in X
  <2>1. \A m \in 1..c : (k + 1) + m \in 1..n
    BY <1>1
  <2> QED
    BY <1>2, <2>1
<1>7. t \in Seq(X) /\ Len(t) = c
  <2>1. t \in [1..c -> X]
    BY <1>5, <1>6
  <2>2. DOMAIN t = 1..c
    BY <1>5
  <2>3. t \in Seq(X)
    BY <2>1
  <2> QED
    BY <2>2, <2>3
<1>8. PICK r : r = << e >> \o t
  OBVIOUS
<1>9. r \in Seq(X) /\ Len(r) = c + 1 /\ r[1] = e /\ \A m \in 1..c : r[1 + m] = t[m]
  BY <1>7, <1>8
<1>10. ASSUME NEW i \in 1..(c + 1)
       PROVE  r[i] = bm[k + i]
  <2>1. CASE i = 1
    BY <1>3, <1>9, <2>1
  <2>2. CASE i # 1
    <3>1. PICK m \in 1..c : m = i - 1 /\ i = 1 + m /\ (k + 1) + m = k + i
      <4>1. i - 1 \in 1..c /\ i = 1 + (i - 1) /\ (k + 1) + (i - 1) = k + i
        BY <2>2
      <4> QED
        BY <4>1
    <3>2. r[1 + m] = t[m] /\ t[m] = bm[(k + 1) + m]
      BY <1>5, <1>9
    <3> QED
      BY <3>1, <3>2
  <2> QED
    BY <2>1, <2>2
<1>11. r = [i \in 1..(c + 1) |-> r[i]]
  BY <1>9
<1>12. r = [i \in 1..(c + 1) |-> bm[k + i]]
  BY <1>10, <1>11
<1>13. EntriesBehind(bm, n, k) = [i \in 1..(c + 1) |-> bm[k + i]]
  BY <1>1 DEF EntriesBehind
<1> QED
  BY <1>3, <1>4, <1>8, <1>12, <1>13

(* Reading gives back what was written.                                    *)
LEMMA ReadWritten ==
  ASSUME NEW n \in Nat, NEW bm, IsOfLength(bm, n), \A k \in 1..n : BitmapEntry(bm[k])
  PROVE  ReadFrom(WriteTo(bm)) = bm
<1>1. PICK data : data = WriteTo(bm)
  OBVIOUS
<1>2. PICK off : Encoded(data, bm, n, off)
  BY <1>1, EncodedIs
<1>3. /\ Len(data) \in Nat /\ Len(data) >= 2 /\ data[1] = Magic /\ data[2] = n
      /\ off[0] = 3 /\ \A k \in 0..n : off[k] \in 1..(Len(data) + 1)
  BY <1>2 DEF Encoded
<1>4. PICK g : /\ ReadFrom(data) = g[<<0, 3>>]
               /\ \A i \in Nat, o \in 1..(Len(data) + 1) : g[<<i, o>>] = Reads(g, data, i, o)
  BY <1>3, ReadUnfolds
<1> DEFINE D == 0..n
           mu == [k \in D |-> n - k]
           Good == {k \in D : g[<<k, off[k]>>] = EntriesBehind(bm, n, k)}
<1>5. ASSUME NEW k \in D, \A j \in D : mu[j] < mu[k] => j \in Good
      PROVE  k \in Good
  <2>1. g[<<k, off[k]>>] = Reads(g, data, k, off[k])
    BY <1>3, <1>4
  <2>2. CASE k = n
    <3>1. g[<<k, off[k]>>] = <<>>
      BY <1>3, <2>1, <2>2 DEF Reads
    <3>2. 1..(n - k) = {}
      BY <2>2
    <3>3. EntriesBehind(bm, n, k) = <<>>
      BY <3>2 DEF EntriesBehind
    <3> QED
      BY <3>1, <3>3
  <2>3. CASE k # n
    <3>1. PICK i \in 1..n : i = k + 1 /\ i \in D /\ i - 1 = k /\ mu[i] < mu[k]
      <4>1. k + 1 \in 1..n /\ k + 1 \in D /\ (k + 1) - 1 = k
        BY <2>3
      <4>2. mu[k + 1] = n - (k + 1) /\ mu[k] = n - k
        BY <4>1
      <4>3. mu[k + 1] < mu[k]
        <5> HIDE DEF mu
        <5> QED
          BY <4>1, <4>2
      <4> HIDE DEF mu, D
      <4> QED
        BY <4>1, <4>3
    <3>2. g[<<k + 1, off[i]>>] = EntriesBehind(bm, n, k + 1)
      BY <1>5, <3>1
    <3>3. PICK o \in 1..(Len(data) + 1) : o = off[k]
      BY <1>3
    <3>4. PICK m \in Nat : m = Wide(bm[i]) /\ off[i] = o + 3 + m /\ SaysAt(data, o, bm[i])
      <4> HIDE DEF mu, D
      <4> QED
        BY <1>2, <3>1, <3>3 DEF Encoded
    <3>5. EntryAt(data, o) = bm[i] /\ NextAt(data, o) = o + 3 + m
      <4>1. BitmapEntry(bm[i]) /\ o \in Nat
        OBVIOUS
      <4> QED
        BY <3>4, <4>1, EntryAtIs
    <3>6. o + 3 + m \in 1..(Len(data) + 1)
      <4> HIDE DEF mu
      <4> QED
        BY <1>3, <3>1, <3>4
    <3>7. NextAt(data, o) \in (o + 3)..(Len(data) + 1) /\ ~(o + 2 > Len(data))
      BY <1>3, <3>5, <3>6
    <3>8. Reads(g, data, k, o) = <<EntryAt(data, o)>> \o g[<<k + 1, NextAt(data, o)>>]
      <4>1. k # data[2]
        BY <1>3, <2>3
      <4> QED
        BY ONLY <3>7, <4>1 DEF Reads
    <3>9. g[<<k, off[k]>>] = << bm[k + 1] >> \o EntriesBehind(bm, n, k + 1)
      BY <2>1, <3>1, <3>2, <3>3, <3>4, <3>5, <3>8
    <3>10. k \in 0..(n - 1)
      BY <2>3
    <3>11. << bm[k + 1] >> \o EntriesBehind(bm, n, k + 1) = EntriesBehind(bm, n, k)
      BY <3>10, BehindIs
    <3> QED
      BY <3>9, <3>11
  <2> QED
    BY <2>2, <2>3
<1>6. D = Good
  <2>1. mu \in [D -> Nat] /\ Good \subseteq D
    OBVIOUS
  <2>2. \A k \in D : (\A j \in D : mu[j] < mu[k] => j \in Good) => k \in Good
    <3> HIDE DEF D, mu, Good
    <3> QED
      BY <1>5
  <2> HIDE DEF D, mu, Good
  <2>3. Passes(D, mu, Good)
    BY <2>1, <2>2 DEF Passes
  <2> QED
    BY <2>3, MeasureInduction
<1>7. g[<<0, 3>>] = EntriesBehind(bm, n, 0)
  <2>1. 0 \in D
    OBVIOUS
  <2>2. 0 \in Good
    BY <1>6, <2>1
  <2> QED
    BY <1>3, <2>2
<1>8. EntriesBehind(bm, n, 0) = bm
  <2>1. bm = [i \in 1..n |-> bm[i]]
    BY DEF IsOfLength
  <2>2. n - 0 = n /\ \A i \in 1..n : 0 + i = i
    OBVIOUS
  <2> QED
    BY <2>1, <2>2 DEF EntriesBehind
<1> QED
  BY <1>1, <1>4, <1>7, <1>8

(* A bitmap that is encoded and decoded is the same bitmap.                 *)
LEMMA ReloadIs ==
  ASSUME NEW S, Held(S)
  PROVE  ReadFrom(WriteTo(Canonical(S))) = Canonical(S)
<1>1. PICK H : H = HighHalves(S) /\ Lists(H)
  BY HalvesAre
<1>2. PICK n \in Nat : n = Cardinality(H)
  BY <1>1, ListIs
<1>3. PICK A : A = Ascending(H) /\ \A i \in 1..n : A[i] \in H
  BY <1>1, <1>2, ListIs
<1>4. PICK bm : bm = Canonical(S)
  OBVIOUS
<1>5. bm = [i \in 1..n |-> [key |-> A[i], con |-> Containers(S)[A[i]]]]
  <2>1. Canonical(S) = ByHighs(H, Containers(S))
    BY <1>1, CanonicalIs
  <2>2. ByHighs(H, Containers(S)) = [i \in 1..Cardinality(H) |->
               [key |-> Ascending(H)[i], con |-> Containers(S)[Ascending(H)[i]]]]
    <3>1. Lists(H)
      BY <1>1
    <3> QED
      BY <3>1, ByHighsForm, Zenon
  <2> QED
    BY <1>2, <1>3, <1>4, <2>1, <2>2
<1>6. IsOfLength(bm, n)
  BY <1>5 DEF IsOfLength
<1>7. ASSUME NEW k \in 1..n
      PROVE  BitmapEntry(bm[k])
  <2>1. PICK h \in H : h = A[k]
    BY <1>3
  <2>2. PICK L : L = LowHalves(S, h) /\ Lists(L)
    BY HalvesAre
  <2>3. Containers(S)[h] = FromBits(L)
    BY <1>1, <2>2 DEF Containers
  <2>4. bm[k] = [key |-> h, con |-> FromBits(L)]
    BY <1>5, <2>1, <2>3
  <2>5. bm[k].key = h /\ bm[k].con = FromBits(L)
    BY <2>4
  <2>6. Form(FromBits(L))
    BY <2>2, FormOf
  <2> QED
    BY <2>4, <2>5, <2>6 DEF BitmapEntry
<1>8. ReadFrom(WriteTo(bm)) = bm
  BY <1>6, <1>7, ReadWritten
<1> QED
  BY <1>4, <1>8

(* Every bitmap is the representation of what it was made to hold, which   *)
(* is a finite set of numbers.                                             *)
Represented ==
  /\ DOMAIN holds = Regs /\ DOMAIN bitmap = Regs
  /\ \A r \in Regs : Held(holds[r]) /\ bitmap[r] = Canonical(holds[r])

(* The empty bitmap is that of the empty set.                               *)
LEMMA EmptyIs == Canonical({}) = Empty /\ Held({})
<1>1. IsFiniteSet({})
  BY FS_EmptySet
<1>2. Held({})
  BY <1>1 DEF Held
<1>3. HighHalves({}) = {}
  BY DEF HighHalves
<1>4. PICK H : H = {} /\ Lists(H) /\ Cardinality(H) = 0
  BY <1>1, FS_EmptySet DEF Lists
<1>5. Canonical({}) = ByHighs(H, Containers({}))
  BY <1>3, <1>4, CanonicalIs
<1>6. ByHighs(H, Containers({})) = [i \in 1..Cardinality(H) |->
               [key |-> Ascending(H)[i], con |-> Containers({})[Ascending(H)[i]]]]
  <2>1. Lists(H)
    BY <1>4
  <2> QED
    BY <2>1, ByHighsForm, Zenon
<1>7. 1..Cardinality(H) = {}
  BY <1>4
<1>8. ByHighs(H, Containers({})) = <<>>
  <2>1. PICK D : D = 1..Cardinality(H) /\ D = {}
    BY <1>7
  <2>2. ByHighs(H, Containers({})) = [i \in D |->
               [key |-> Ascending(H)[i], con |-> Containers({})[Ascending(H)[i]]]]
    BY <1>6, <2>1
  <2>3. PICK f : f = ByHighs(H, Containers({}))
    OBVIOUS
  <2>4. f = [i \in {} |-> f[i]]
    BY <2>1, <2>2, <2>3
  <2>5. f = <<>>
    BY <2>4
  <2> QED
    BY <2>3, <2>5
<1> QED
  BY <1>2, <1>5, <1>8 DEF Empty

(* A register that is given the bitmap of a set keeps the invariant.        *)
LEMMA BecomesKeeps ==
  ASSUME NEW r \in Regs, NEW S, NEW bm,
         Represented, Becomes(r, bm, S), Held(S), bm = Canonical(S)
  PROVE  Represented'
<1>1. /\ bitmap' = [bitmap EXCEPT ![r] = bm]
      /\ holds' = [holds EXCEPT ![r] = S]
      /\ DOMAIN bitmap = Regs /\ DOMAIN holds = Regs
      /\ \A q \in Regs : Held(holds[q]) /\ bitmap[q] = Canonical(holds[q])
  BY DEF Becomes, Represented
<1>2. /\ DOMAIN bitmap' = Regs /\ DOMAIN holds' = Regs
      /\ bitmap'[r] = bm /\ holds'[r] = S
      /\ \A q \in Regs : q # r => bitmap'[q] = bitmap[q] /\ holds'[q] = holds[q]
  BY <1>1
<1>3. \A q \in Regs : Held(holds'[q]) /\ bitmap'[q] = Canonical(holds'[q])
  BY <1>1, <1>2
<1> QED
  BY <1>2, <1>3 DEF Represented

(* Every operation keeps the invariant.                                     *)
LEMMA RNextKeeps ==
  ASSUME Represented, [RNext]_rvars
  PROVE  Represented'
<1>1. CASE UNCHANGED rvars
  BY <1>1 DEF Represented, rvars
<1>2. CASE RNext
  <2>1. PICK r \in Regs : \/ \E x \in Numbers : AddOne(r, x)
                          \/ UnionOf(r) \/ IntersectionOf(r) \/ DifferenceOf(r) \/ Reload(r)
    BY <1>2 DEF RNext
  <2>2. PICK A, B : /\ A = holds[1] /\ B = holds[2] /\ Held(A) /\ Held(B)
                    /\ bitmap[1] = Canonical(A) /\ bitmap[2] = Canonical(B)
    BY DEF Represented, Regs
  <2>3. PICK S : S = holds[r] /\ Held(S) /\ bitmap[r] = Canonical(S)
    BY DEF Represented
  <2>4. Together(A, B) /\ InBoth(A, B) /\ InOne(A, B)
    BY <2>2, HalvesOf
  <2>5. CASE \E x \in Numbers : AddOne(r, x)
    <3>1. PICK x \in Numbers : AddOne(r, x)
      BY <2>5
    <3>2. Becomes(r, Added(Canonical(S), x), S \cup {x})
      BY <2>3, <3>1 DEF AddOne
    <3>3. Added(Canonical(S), x) = Canonical(S \cup {x}) /\ Held(S \cup {x})
      BY <2>3, AddedIs
    <3> QED
      BY <3>2, <3>3, BecomesKeeps
  <2>6. CASE UnionOf(r)
    <3>1. Becomes(r, Or(Canonical(A), Canonical(B)), A \cup B)
      BY <2>2, <2>6 DEF UnionOf
    <3>2. Or(Canonical(A), Canonical(B)) = Canonical(A \cup B) /\ Held(A \cup B)
      BY <2>2, <2>4, OrIs DEF Together
    <3> QED
      BY <3>1, <3>2, BecomesKeeps
  <2>7. CASE IntersectionOf(r)
    <3>1. Becomes(r, And(Canonical(A), Canonical(B)), A \cap B)
      BY <2>2, <2>7 DEF IntersectionOf
    <3>2. And(Canonical(A), Canonical(B)) = Canonical(A \cap B) /\ Held(A \cap B)
      BY <2>2, <2>4, AndIs DEF InBoth
    <3> QED
      BY <3>1, <3>2, BecomesKeeps
  <2>8. CASE DifferenceOf(r)
    <3>1. Becomes(r, AndNot(Canonical(A), Canonical(B)), A \ B)
      BY <2>2, <2>8 DEF DifferenceOf
    <3>2. AndNot(Canonical(A), Canonical(B)) = Canonical(A \ B) /\ Held(A \ B)
      BY <2>2, <2>4, AndNotIs DEF InOne
    <3> QED
      BY <3>1, <3>2, BecomesKeeps
  <2>9. CASE Reload(r)
    <3>1. Becomes(r, ReadFrom(WriteTo(Canonical(S))), S)
      BY <2>3, <2>9 DEF Reload
    <3>2. ReadFrom(WriteTo(Canonical(S))) = Canonical(S)
      BY <2>3, ReloadIs
    <3> QED
      BY <2>3, <3>1, <3>2, BecomesKeeps
  <2> QED
    BY <2>1, <2>5, <2>6, <2>7, <2>8, <2>9
<1> QED
  BY <1>1, <1>2

(* So it always holds.                                                      *)
LEMMA StaysRepresented == RSpec => []Represented
<1>1. RInit => Represented
  <2> SUFFICES ASSUME RInit PROVE Represented
    OBVIOUS
  <2>1. bitmap = [r \in Regs |-> Empty] /\ holds = [r \in Regs |-> {}]
    BY DEF RInit
  <2>2. /\ DOMAIN bitmap = Regs /\ DOMAIN holds = Regs
        /\ \A r \in Regs : bitmap[r] = Empty /\ holds[r] = {}
    BY <2>1
  <2> QED
    BY <2>2, EmptyIs DEF Represented
<1>2. Represented /\ [RNext]_rvars => Represented'
  BY RNextKeeps
<1> QED
  BY <1>1, <1>2, PTL DEF RSpec

(* However a bitmap came about, by additions, set operations and reloads,  *)
(* it is the one representation of the set it was made to hold: its        *)
(* containers are those with elements, ascending, bits exactly above       *)
(* maxArrayLen.                                                            *)
THEOREM BitmapsHaveOneForm == RSpec => []OneFormPerSet
<1>1. Represented => OneFormPerSet
  BY DEF Represented, OneFormPerSet
<1> QED
  BY <1>1, StaysRepresented, PTL

(* Contains: it finds exactly the numbers of the set.                       *)
LEMMA LookupIs ==
  ASSUME NEW S, Held(S), NEW x \in Numbers
  PROVE  BitmapContains(Canonical(S), x) <=> x \in S
<1>1. PICK h \in Highs, l \in Lows : h = x[1] /\ l = x[2] /\ x = <<h, l>>
  BY DEF Numbers
<1>2. h \in Int /\ l \in Int
  BY HalvesAreNumbers
<1>3. PICK bm : bm = Canonical(S)
  OBVIOUS
<1>4. PICK L : L = LowHalves(S, h) /\ Lists(L)
  BY HalvesAre
<1>5. Has(bm, h) <=> h \in HighHalves(S)
  BY <1>2, <1>3, CanonicalAnswers
<1>6. h \in HighHalves(S) => At(bm, h) = FromBits(L)
  BY <1>3, <1>4, CanonicalAnswers
<1>7. ContainerContains(FromBits(L), l) <=> l \in L
  BY <1>2, <1>4, AddToIs
<1>8. x \in S <=> l \in L
  BY <1>1, <1>4, HalvesAre
<1>9. l \in L => h \in HighHalves(S)
  BY <1>4, HalvesAre
<1>10. BitmapContains(bm, x) <=> Has(bm, h) /\ ContainerContains(At(bm, h), l)
  BY <1>1 DEF BitmapContains
<1> QED
  BY <1>3, <1>5, <1>6, <1>7, <1>8, <1>9, <1>10

(* The numbers under one high half, and their order.                       *)
NumbersUnder(S, h) == [j \in 1..Cardinality(LowHalves(S, h)) |-> <<h, Ascending(LowHalves(S, h))[j]>>]

Lower(x, y) == x[1] < y[1] \/ (x[1] = y[1] /\ x[2] < y[2])

LowToHigh(s) == \A p, q \in DOMAIN s : p < q => Lower(s[p], s[q])

NumbersAre(t, S, h) ==
  /\ t \in Seq(Numbers)
  /\ DOMAIN t = 1..Cardinality(LowHalves(S, h))
  /\ Len(t) = Cardinality(LowHalves(S, h))
  /\ ToSet(t) = {x \in S : x[1] = h}
  /\ LowToHigh(t)

(* The numbers under a high half are its low halves, in order.              *)
LEMMA NumbersUnderAre ==
  ASSUME NEW S, Held(S), NEW h \in Highs
  PROVE  NumbersAre(NumbersUnder(S, h), S, h)
<1>1. PICK L : L = LowHalves(S, h) /\ Lists(L) /\ L \subseteq Lows
  BY HalvesAre
<1>2. PICK m \in Nat : m = Cardinality(L)
  BY <1>1, ListIs
<1>3. PICK A : A = Ascending(L) /\ IsListOf(A, L) /\ DOMAIN A = 1..m /\ \A j \in 1..m : A[j] \in L
  BY <1>1, <1>2, ListIs
<1>4. PICK t : t = NumbersUnder(S, h)
  OBVIOUS
<1>5. t = [j \in 1..m |-> <<h, A[j]>>]
  BY <1>1, <1>2, <1>3, <1>4 DEF NumbersUnder
<1>6. DOMAIN t = 1..m /\ \A j \in 1..m : t[j] = <<h, A[j]>> /\ t[j][1] = h /\ t[j][2] = A[j]
  BY <1>5
<1>7. ASSUME NEW j \in 1..m
      PROVE  t[j] \in Numbers
  <2>1. PICK l \in Lows : l = A[j]
    BY <1>1, <1>3
  <2>2. <<h, l>> \in Numbers
    BY DEF Numbers
  <2> QED
    BY <1>6, <2>1, <2>2
<1>8. t \in Seq(Numbers) /\ Len(t) = m
  <2>1. t = [j \in 1..m |-> t[j]]
    BY <1>5
  <2>2. t \in [1..m -> Numbers]
    BY <1>7, <2>1
  <2>3. t \in Seq(Numbers)
    BY <2>2
  <2> QED
    BY <1>6, <2>3
<1>9. ToSet(t) = {x \in S : x[1] = h}
  <2>1. ASSUME NEW x
        PROVE  x \in ToSet(t) <=> x \in S /\ x[1] = h
    <3>1. x \in ToSet(t) <=> \E j \in 1..m : x = <<h, A[j]>>
      BY <1>6 DEF ToSet
    <3>2. \A l : l \in L <=> \E j \in 1..m : l = A[j]
      BY <1>3 DEF IsListOf, ToSet
    <3>3. \A l : <<h, l>> \in S <=> l \in L
      BY <1>1, HalvesAre
    <3>4. ASSUME x \in ToSet(t)
          PROVE  x \in S /\ x[1] = h
      <4>1. PICK j \in 1..m : x = <<h, A[j]>>
        BY <3>1, <3>4
      <4> QED
        BY <3>2, <3>3, <4>1
    <3>5. ASSUME x \in S, x[1] = h
          PROVE  x \in ToSet(t)
      <4>1. x = <<h, x[2]>>
        BY <3>5 DEF Held, Numbers
      <4>2. PICK l : l = x[2] /\ x = <<h, l>>
        BY <4>1
      <4>3. l \in L
        BY <3>3, <3>5, <4>2
      <4>4. PICK j \in 1..m : l = A[j]
        BY <3>2, <4>3
      <4> QED
        BY <3>1, <4>2, <4>4
    <3> QED
      BY <3>4, <3>5
  <2> QED
    BY <2>1
<1>10. LowToHigh(t)
  <2>1. \A p, q \in 1..m : p < q => A[p] < A[q]
    BY <1>3 DEF IsListOf, Increasing
  <2> QED
    BY <1>6, <2>1 DEF LowToHigh, Lower
<1> QED
  BY <1>1, <1>2, <1>4, <1>6, <1>8, <1>9, <1>10 DEF NumbersAre

(* The containers of a representation, one after the other.                *)
IsRow(e, S, h) ==
  /\ e.key = h
  /\ e.con.count = Cardinality(LowHalves(S, h))
  /\ (IF e.con.kind = "array" THEN e.con.arr ELSE Sorted(e.con.bits)) = Ascending(LowHalves(S, h))

IsTable(bm, A, n, S) ==
  /\ n \in Nat /\ DOMAIN bm = 1..n /\ Len(bm) = n
  /\ DOMAIN A = 1..n
  /\ \A i \in 1..n : A[i] \in Highs /\ IsRow(bm[i], S, A[i])
  /\ \A i, j \in 1..n : i < j => A[i] < A[j]
  /\ \A x \in S : \E i \in 1..n : x[1] = A[i]

(* What ToArray lists of one container.                                     *)
LEMMA RowIs ==
  ASSUME NEW S, Held(S), NEW h, NEW e, e = [key |-> h, con |-> FromBits(LowHalves(S, h))]
  PROVE  IsRow(e, S, h)
<1>1. PICK L : L = LowHalves(S, h) /\ Lists(L)
  BY HalvesAre
<1>2. e.key = h /\ e.con = FromBits(L)
  BY <1>1
<1>3. AsArray(L).kind = "array" /\ AsArray(L).arr = Ascending(L)
  BY DEF AsArray
<1>4. AsBits(L).kind # "array" /\ AsBits(L).bits = L
  <2>1. AsBits(L).kind = "bitmap" /\ "bitmap" # "array"
    BY DEF AsBits
  <2> QED
    BY <2>1 DEF AsBits
<1>5. FromBits(L).count = Cardinality(L) /\ (FromBits(L) = AsArray(L) \/ FromBits(L) = AsBits(L))
  BY <1>1, FormIs
<1>6. Sorted(L) = Ascending(L)
  BY SortedIs
<1> QED
  BY <1>1, <1>2, <1>3, <1>4, <1>5, <1>6 DEF IsRow

(* What ToArray lists, container by container.                              *)
LEMMA TableIs ==
  ASSUME NEW S, Held(S)
  PROVE  \E A, n : IsTable(Canonical(S), A, n, S)
<1>1. PICK H : H = HighHalves(S) /\ Lists(H) /\ H \subseteq Highs
  BY HalvesAre
<1>2. PICK n \in Nat : n = Cardinality(H)
  BY <1>1, ListIs
<1>3. PICK A : A = Ascending(H) /\ IsListOf(A, H) /\ DOMAIN A = 1..n /\ \A i \in 1..n : A[i] \in H
  BY <1>1, <1>2, ListIs
<1>4. PICK bm : bm = Canonical(S)
  OBVIOUS
<1>5. bm = [i \in 1..n |-> [key |-> A[i], con |-> Containers(S)[A[i]]]]
  <2>0. Lists(H)
    BY <1>1
  <2>1. Canonical(S) = ByHighs(H, Containers(S))
    BY <1>1, CanonicalIs
  <2>2. ByHighs(H, Containers(S)) = [i \in 1..Cardinality(H) |->
               [key |-> Ascending(H)[i], con |-> Containers(S)[Ascending(H)[i]]]]
    BY <2>0, ByHighsForm, Zenon
  <2> QED
    BY <1>2, <1>3, <1>4, <2>1, <2>2
<1>6. DOMAIN bm = 1..n /\ Len(bm) = n
  BY <1>5
<1>7. ASSUME NEW i \in 1..n
      PROVE  A[i] \in Highs /\ IsRow(bm[i], S, A[i])
  <2>1. PICK h \in H : h = A[i]
    BY <1>3
  <2>2. Containers(S)[h] = FromBits(LowHalves(S, h))
    BY <1>1 DEF Containers
  <2>3. PICK e : e = bm[i] /\ e = [key |-> h, con |-> FromBits(LowHalves(S, h))]
    BY <1>5, <2>1, <2>2
  <2>4. IsRow(e, S, h)
    BY <2>3, RowIs
  <2> QED
    BY <1>1, <2>1, <2>3, <2>4
<1>8. \A i, j \in 1..n : i < j => A[i] < A[j]
  BY <1>3 DEF IsListOf, Increasing
<1>9. ASSUME NEW x \in S
      PROVE  \E i \in 1..n : x[1] = A[i]
  <2>1. x[1] \in H
    BY <1>1 DEF HighHalves
  <2>2. H = {A[i] : i \in 1..n}
    BY <1>3 DEF IsListOf, ToSet
  <2> QED
    BY <2>1, <2>2
<1> QED
  BY <1>3, <1>4, <1>6, <1>7, <1>8, <1>9 DEF IsTable

(* The numbers under the first i high halves of A.                         *)
UpTo(A, i, S) == {x \in S : \E k \in 1..i : x[1] = A[k]}

RowLists(A, n, S) == [i \in 1..n |-> NumbersUnder(S, A[i])]

(* The list of ToArray, by container and place within it.                   *)
LEMMA ArrayFlat ==
  ASSUME NEW S, Held(S), NEW A, NEW n, NEW bm, IsTable(bm, A, n, S)
  PROVE  ToArray(bm) = FlattenSeq(RowLists(A, n, S))
<1>1. /\ n \in Nat /\ DOMAIN bm = 1..n
      /\ \A i \in 1..n : A[i] \in Highs /\ IsRow(bm[i], S, A[i])
  BY DEF IsTable
<1> DEFINE lows(i) == IF bm[i].con.kind = "array" THEN bm[i].con.arr ELSE Sorted(bm[i].con.bits)
<1>2. ASSUME NEW i \in 1..n
      PROVE  [j \in DOMAIN lows(i) |-> <<bm[i].key, lows(i)[j]>>] = NumbersUnder(S, A[i])
  <2>1. PICK h \in Highs : h = A[i] /\ IsRow(bm[i], S, h)
    BY <1>1
  <2>2. PICK a : a = lows(i) /\ a = Ascending(LowHalves(S, h)) /\ bm[i].key = h
    BY <2>1 DEF IsRow
  <2>3. Lists(LowHalves(S, h))
    BY HalvesAre
  <2>4. DOMAIN a = 1..Cardinality(LowHalves(S, h))
    BY <2>2, <2>3, ListIs
  <2> HIDE DEF lows
  <2>5. [j \in DOMAIN a |-> <<h, a[j]>>] = NumbersUnder(S, h)
    BY <2>2, <2>4 DEF NumbersUnder
  <2> QED
    BY <2>1, <2>2, <2>5
<1>3. ToArray(bm) = FlattenSeq([i \in 1..n |-> [j \in DOMAIN lows(i) |-> <<bm[i].key, lows(i)[j]>>]])
  BY <1>1 DEF ToArray
<1> HIDE DEF lows
<1>4. [i \in 1..n |-> [j \in DOMAIN lows(i) |-> <<bm[i].key, lows(i)[j]>>]] = RowLists(A, n, S)
  BY <1>2 DEF RowLists
<1> QED
  BY <1>3, <1>4

(* The join of the lists of the first i high halves.                       *)
JoinsUpTo(s, A, i, S) ==
  s \in Seq(Numbers) /\ ToSet(s) = UpTo(A, i, S) /\ LowToHigh(s)

(* Lists that ascend, each below the next, ascend together.                 *)
LEMMA JoinOrdered ==
  ASSUME NEW s \in Seq(Numbers), NEW t \in Seq(Numbers), LowToHigh(s), LowToHigh(t),
         \A x \in ToSet(s), y \in ToSet(t) : Lower(x, y)
  PROVE  /\ s \o t \in Seq(Numbers)
         /\ ToSet(s \o t) = ToSet(s) \cup ToSet(t)
         /\ LowToHigh(s \o t)
         /\ Len(s \o t) = Len(s) + Len(t)
<1>1. PICK a \in Nat, b \in Nat : a = Len(s) /\ b = Len(t) /\ DOMAIN s = 1..a /\ DOMAIN t = 1..b
  OBVIOUS
<1>2. PICK r : r = s \o t
  OBVIOUS
<1>3. /\ r \in Seq(Numbers) /\ Len(r) = a + b /\ DOMAIN r = 1..(a + b)
      /\ \A p \in 1..a : r[p] = s[p]
      /\ \A p \in 1..b : r[a + p] = t[p]
  BY <1>1, <1>2
<1>4. ASSUME NEW p \in 1..(a + b)
      PROVE  \/ p \in 1..a /\ r[p] = s[p]
             \/ p - a \in 1..b /\ r[p] = t[p - a]
  <2>1. p \in 1..a \/ (p - a \in 1..b /\ a + (p - a) = p)
    OBVIOUS
  <2> QED
    BY <1>3, <2>1
<1>5. ToSet(r) = ToSet(s) \cup ToSet(t)
  <2>1. \A p \in 1..a : p \in 1..(a + b)
    OBVIOUS
  <2>2. \A p \in 1..b : a + p \in 1..(a + b)
    OBVIOUS
  <2>3. ASSUME NEW x \in ToSet(s) \cup ToSet(t)
        PROVE  x \in ToSet(r)
    <3>1. CASE x \in ToSet(s)
      <4>1. PICK p \in 1..a : x = s[p]
        BY <1>1, <3>1 DEF ToSet
      <4> QED
        BY <1>3, <2>1, <4>1 DEF ToSet
    <3>2. CASE x \in ToSet(t)
      <4>1. PICK p \in 1..b : x = t[p]
        BY <1>1, <3>2 DEF ToSet
      <4>2. a + p \in DOMAIN r /\ r[a + p] = x
        BY <1>3, <2>2, <4>1
      <4> QED
        BY <4>2 DEF ToSet
    <3> QED
      BY <3>1, <3>2
  <2>4. ASSUME NEW x \in ToSet(r)
        PROVE  x \in ToSet(s) \cup ToSet(t)
    <3>1. PICK p \in 1..(a + b) : x = r[p]
      BY <1>3 DEF ToSet
    <3> QED
      BY <1>1, <1>4, <3>1 DEF ToSet
  <2> QED
    BY <2>3, <2>4
<1>6. ASSUME NEW p \in 1..(a + b), NEW q \in 1..(a + b), p < q
      PROVE  Lower(r[p], r[q])
  <2>1. CASE q \in 1..a
    <3>1. p \in 1..a
      BY <1>6, <2>1
    <3> QED
      BY <1>1, <1>3, <1>6, <2>1, <3>1 DEF LowToHigh
  <2>2. CASE p \notin 1..a
    <3>1. p - a \in 1..b /\ q - a \in 1..b /\ p - a < q - a
      BY <1>6, <2>2
    <3>2. r[p] = t[p - a] /\ r[q] = t[q - a]
      <4>1. q \notin 1..a
        BY <1>6, <2>2
      <4> QED
        BY <1>4, <2>2, <4>1
    <3> QED
      BY <1>1, <3>1, <3>2 DEF LowToHigh
  <2>3. CASE p \in 1..a /\ q \notin 1..a
    <3>1. r[p] \in ToSet(s)
      BY <1>1, <1>3, <2>3 DEF ToSet
    <3>2. r[q] \in ToSet(t)
      BY <1>1, <1>4, <2>3 DEF ToSet
    <3> QED
      BY <3>1, <3>2
  <2> QED
    BY <2>1, <2>2, <2>3
<1> QED
  BY <1>1, <1>2, <1>3, <1>5, <1>6 DEF LowToHigh

(* One container more: what it adds to the numbers so far.                  *)
LEMMA PrefixGrows ==
  ASSUME NEW S, Held(S), NEW bm, NEW A, NEW n, IsTable(bm, A, n, S),
         NEW i \in 1..n, NEW s, JoinsUpTo(s, A, i - 1, S), NEW t, NumbersAre(t, S, A[i])
  PROVE  JoinsUpTo(s \o t, A, i, S) /\ Len(s \o t) = Len(s) + Len(t)
<1>1. /\ n \in Nat /\ \A k \in 1..n : A[k] \in Highs
      /\ \A k, j \in 1..n : k < j => A[k] < A[j]
  BY DEF IsTable
<1>2. \A k \in 1..(i - 1) : k \in 1..n /\ k < i
  BY <1>1
<1>3. /\ s \in Seq(Numbers) /\ LowToHigh(s) /\ ToSet(s) = UpTo(A, i - 1, S)
      /\ t \in Seq(Numbers) /\ LowToHigh(t) /\ ToSet(t) = {x \in S : x[1] = A[i]}
  BY DEF JoinsUpTo, NumbersAre
<1>4. ASSUME NEW x \in ToSet(s), NEW y \in ToSet(t)
      PROVE  Lower(x, y)
  <2>1. PICK k \in 1..(i - 1) : x[1] = A[k]
    BY <1>3 DEF UpTo
  <2>2. A[k] < A[i]
    BY <1>1, <1>2
  <2> QED
    BY <1>3, <2>1, <2>2 DEF Lower
<1>5. /\ s \o t \in Seq(Numbers) /\ ToSet(s \o t) = ToSet(s) \cup ToSet(t)
      /\ LowToHigh(s \o t) /\ Len(s \o t) = Len(s) + Len(t)
  BY <1>3, <1>4, JoinOrdered
<1>6. UpTo(A, i - 1, S) \cup {x \in S : x[1] = A[i]} = UpTo(A, i, S)
  <2>1. 1..i = 1..(i - 1) \cup {i}
    BY <1>1
  <2> QED
    BY <2>1 DEF UpTo
<1> QED
  BY <1>3, <1>5, <1>6 DEF JoinsUpTo

(* The sum of the counts of the containers is the length of the joins.     *)
CountSums(m, bm) == m = [i \in 0..Len(bm) |-> IF i = 0 THEN 0 ELSE m[i - 1] + bm[i].con.count]

(* GetCardinality: the counts of the containers added up.                   *)
LEMMA SumIs ==
  ASSUME NEW bm, NEW n \in Nat, Len(bm) = n, NEW len \in [0..n -> Nat], len[0] = 0,
         \A i \in 1..n : len[i] = len[i - 1] + bm[i].con.count
  PROVE  GetCardinality(bm) = len[n]
<1>1. CountSums(len, bm)
  <2>1. ASSUME NEW i \in 0..n
        PROVE  len[i] = IF i = 0 THEN 0 ELSE len[i - 1] + bm[i].con.count
    <3>1. CASE i = 0
      BY <3>1
    <3>2. CASE i # 0
      <4>1. i \in 1..n
        BY <3>2
      <4> QED
        BY <3>2, <4>1
    <3> QED
      BY <3>1, <3>2
  <2> DEFINE e(i) == IF i = 0 THEN 0 ELSE len[i - 1] + bm[i].con.count
  <2>2. len = [i \in 0..n |-> e(i)]
    <3> HIDE DEF e
    <3> QED
      BY <2>1 DEF e
  <2> QED
    BY <2>2 DEF CountSums
<1> DEFINE P(m) == CountSums(m, bm)
           out == CHOOSE m : P(m)
<1>2. CountSums(out, bm)
  <2>1. \E m : P(m)
    BY <1>1
  <2>2. P(out)
    <3> HIDE DEF P
    <3> QED
      BY <2>1, Zenon
  <2> QED
    BY <2>2
<1>3. GetCardinality(bm) = out[Len(bm)]
  BY Zenon DEF GetCardinality, CountSums
<1>4. PICK g : g = out
  OBVIOUS
<1> HIDE DEF P, out
<1>5. CountSums(g, bm) /\ GetCardinality(bm) = g[n]
  BY <1>2, <1>3, <1>4
<1>6. \A i \in 0..n : g[i] = IF i = 0 THEN 0 ELSE g[i - 1] + bm[i].con.count
  <2> DEFINE e(i) == IF i = 0 THEN 0 ELSE g[i - 1] + bm[i].con.count
  <2>1. g = [i \in 0..n |-> e(i)]
    BY <1>5 DEF CountSums
  <2>2. \A i \in 0..n : g[i] = e(i)
    <3> HIDE DEF e
    <3> QED
      BY <2>1
  <2> QED
    BY <2>2
<1> DEFINE D == 0..n
           mu == [i \in D |-> i]
           Good == {i \in D : g[i] = len[i]}
<1>7. ASSUME NEW i \in D, \A j \in D : mu[j] < mu[i] => j \in Good
      PROVE  i \in Good
  <2>1. CASE i = 0
    BY <1>6, <2>1
  <2>2. CASE i # 0
    <3>1. i - 1 \in D /\ mu[i - 1] < mu[i] /\ i \in 1..n
      BY <2>2
    <3>2. g[i - 1] = len[i - 1]
      BY <1>7, <3>1
    <3>3. g[i] = g[i - 1] + bm[i].con.count
      BY <1>6, <2>2
    <3>4. len[i] = len[i - 1] + bm[i].con.count
      BY <3>1
    <3> QED
      BY <3>2, <3>3, <3>4
  <2> QED
    BY <2>1, <2>2
<1>8. D = Good
  <2>1. mu \in [D -> Nat] /\ Good \subseteq D
    OBVIOUS
  <2> HIDE DEF D, mu, Good
  <2>2. Passes(D, mu, Good)
    BY <1>7, <2>1 DEF Passes
  <2> QED
    BY <2>2, MeasureInduction
<1>9. n \in Good
  BY <1>8
<1> QED
  BY <1>5, <1>9

(* What ToArray and GetCardinality return of a set.                        *)
Listed(bm, S) ==
  /\ ToSet(ToArray(bm)) = S
  /\ LowToHigh(ToArray(bm))
  /\ GetCardinality(bm) = Cardinality(S)

(* ToArray: it lists exactly the numbers of the set, ascending.             *)
LEMMA ListedIs ==
  ASSUME NEW S, Held(S)
  PROVE  Listed(Canonical(S), S)
<1>1. PICK bm : bm = Canonical(S)
  OBVIOUS
<1>2. PICK A, n : IsTable(bm, A, n, S)
  BY <1>1, TableIs
<1>3. /\ n \in Nat /\ DOMAIN bm = 1..n /\ Len(bm) = n
      /\ \A i \in 1..n : A[i] \in Highs /\ IsRow(bm[i], S, A[i])
      /\ \A x \in S : \E i \in 1..n : x[1] = A[i]
  BY <1>2 DEF IsTable
<1>4. PICK ls : ls = RowLists(A, n, S)
  OBVIOUS
<1>5. DOMAIN ls = 1..n /\ Len(ls) = n /\ \A i \in 1..n : ls[i] = NumbersUnder(S, A[i])
  BY <1>3, <1>4 DEF RowLists
<1>6. \A i \in 1..n : NumbersAre(ls[i], S, A[i])
  BY <1>3, <1>5, NumbersUnderAre
<1>7. ls \in Seq(Seq(Numbers))
  <2>1. \A i \in 1..n : ls[i] \in Seq(Numbers)
    BY <1>6 DEF NumbersAre
  <2>2. ls = [i \in 1..n |-> ls[i]]
    BY <1>4, <1>5 DEF RowLists
  <2>3. ls \in [1..n -> Seq(Numbers)]
    BY <2>1, <2>2
  <2> QED
    BY <1>3, <2>3
<1>8. PICK f : Joins(f, ls, Numbers) /\ FlattenSeq(ls) = f[n]
  BY <1>5, <1>7, FlattenJoins, Zenon
<1>9. f[0] = <<>> /\ \A i \in 1..n : f[i] = f[i - 1] \o ls[i]
  BY <1>5, <1>8 DEF Joins
<1> DEFINE D == 0..n
           mu == [i \in D |-> i]
           Good == {i \in D : JoinsUpTo(f[i], A, i, S)}
<1>10. ASSUME NEW i \in D, \A j \in D : mu[j] < mu[i] => j \in Good
       PROVE  i \in Good
  <2>1. CASE i = 0
    <3>1. 1..i = {} /\ f[i] = <<>>
      BY <1>9, <2>1
    <3>2. UpTo(A, i, S) = {}
      BY <3>1 DEF UpTo
    <3>3. <<>> \in Seq(Numbers) /\ ToSet(<<>>) = {} /\ LowToHigh(<<>>)
      BY DEF ToSet, LowToHigh
    <3> QED
      BY <3>1, <3>2, <3>3 DEF JoinsUpTo
  <2>2. CASE i # 0
    <3>1. i - 1 \in D /\ mu[i - 1] < mu[i] /\ i \in 1..n
      BY <1>3, <2>2
    <3>2. JoinsUpTo(f[i - 1], A, i - 1, S)
      BY <1>10, <3>1
    <3>3. f[i] = f[i - 1] \o ls[i] /\ NumbersAre(ls[i], S, A[i])
      BY <1>6, <1>9, <3>1
    <3>4. JoinsUpTo(f[i - 1] \o ls[i], A, i, S)
      <4> HIDE DEF D, mu, Good
      <4> QED
        BY <1>2, <3>1, <3>2, <3>3, PrefixGrows
    <3> QED
      BY <3>3, <3>4
  <2> QED
    BY <2>1, <2>2
<1>11. D = Good
  <2>1. mu \in [D -> Nat] /\ Good \subseteq D
    BY <1>3
  <2> HIDE DEF D, mu, Good
  <2>2. Passes(D, mu, Good)
    BY <1>10, <2>1 DEF Passes
  <2> QED
    BY <2>2, MeasureInduction
<1>12. \A i \in 0..n : JoinsUpTo(f[i], A, i, S)
  BY <1>11
<1> HIDE DEF D, mu, Good
<1>13. PICK arr : arr = ToArray(bm) /\ arr = f[n]
  BY <1>2, <1>4, <1>8, ArrayFlat
<1>14. arr \in Seq(Numbers) /\ ToSet(arr) = S /\ LowToHigh(arr)
  <2>1. JoinsUpTo(arr, A, n, S)
    BY <1>3, <1>12, <1>13
  <2>2. UpTo(A, n, S) = S
    BY <1>3 DEF UpTo
  <2> QED
    BY <2>1, <2>2 DEF JoinsUpTo
<1>15. PICK len : len = [i \in 0..n |-> Len(f[i])]
  OBVIOUS
<1>16. len \in [0..n -> Nat] /\ len[0] = 0 /\ len[n] = Len(arr)
  <2>1. \A i \in 0..n : Len(f[i]) \in Nat
    BY <1>12 DEF JoinsUpTo
  <2> QED
    BY <1>3, <1>9, <1>13, <1>15, <2>1
<1>17. ASSUME NEW i \in 1..n
       PROVE  len[i] = len[i - 1] + bm[i].con.count
  <2>1. i - 1 \in 0..n /\ i \in 0..n
    BY <1>3
  <2>2. f[i] = f[i - 1] \o ls[i] /\ NumbersAre(ls[i], S, A[i]) /\ JoinsUpTo(f[i - 1], A, i - 1, S)
    BY <1>6, <1>9, <1>12, <2>1
  <2>3. Len(f[i]) = Len(f[i - 1]) + Len(ls[i])
    BY <1>2, <2>2, PrefixGrows
  <2>4. Len(ls[i]) = bm[i].con.count
    BY <1>3, <2>2 DEF NumbersAre, IsRow
  <2> QED
    BY <1>15, <2>1, <2>3, <2>4
<1>18. GetCardinality(bm) = Len(arr)
  <2>1. GetCardinality(bm) = len[n]
    BY <1>3, <1>16, <1>17, SumIs
  <2> QED
    BY <1>16, <2>1
<1>19. Cardinality(S) = Len(arr)
  <2>1. PICK c \in Nat : c = Len(arr) /\ DOMAIN arr = 1..c
    BY <1>14
  <2>2. \A p, q \in 1..c : p < q => arr[p] # arr[q]
    <3>1. ASSUME NEW p \in 1..c, NEW q \in 1..c, p < q
          PROVE  arr[p] # arr[q]
      <4>1. Lower(arr[p], arr[q])
        BY <1>14, <2>1, <3>1 DEF LowToHigh
      <4>2. PICK x \in Numbers, y \in Numbers : x = arr[p] /\ y = arr[q]
        BY <1>14, <2>1
      <4>3. x[1] \in Int /\ x[2] \in Int
        <5>1. x[1] \in Highs /\ x[2] \in Lows
          BY DEF Numbers
        <5>2. Highs \subseteq Int /\ Lows \subseteq Int
          BY HalvesAreNumbers
        <5> QED
          BY <5>1, <5>2
      <4>4. \A u, v \in Int : u < v => u # v
        OBVIOUS
      <4>5. ~Lower(x, x)
        BY <4>3 DEF Lower
      <4> QED
        BY <4>1, <4>2, <4>5
    <3> QED
      BY <3>1
  <2>3. arr \in Bijection(1..c, S)
    <3>1. S = {arr[p] : p \in 1..c}
      BY <1>14, <2>1 DEF ToSet
    <3>2. arr = [p \in 1..c |-> arr[p]]
      BY <1>14, <2>1
    <3>3. arr \in [1..c -> S]
      BY <3>1, <3>2
    <3>4. arr \in Surjection(1..c, S)
      BY <3>1, <3>3 DEF Surjection
    <3>5. \A p, q \in DOMAIN arr : arr[p] = arr[q] => p = q
      BY <2>1, <2>2
    <3> QED
      BY <3>3, <3>4, <3>5 DEF Bijection, Injection, IsInjective
  <2>4. IsFiniteSet(1..c) /\ Cardinality(1..c) = c
    BY FS_Interval
  <2>5. Cardinality(S) = Cardinality(1..c)
    BY <2>3, <2>4, FS_Bijection DEF ExistsBijection
  <2> QED
    BY <2>1, <2>4, <2>5
<1> QED
  BY <1>1, <1>13, <1>14, <1>18, <1>19 DEF Listed

(* However a bitmap came about, it has exactly the numbers it was made to  *)
(* hold: Contains finds them, ToArray lists them in ascending order and    *)
(* GetCardinality counts them.                                             *)
THEOREM BitmapsAreSets == RSpec => []BitmapIsSet
<1>1. Represented => BitmapIsSet
  <2> SUFFICES ASSUME Represented PROVE BitmapIsSet
    OBVIOUS
  <2>1. ASSUME NEW r \in Regs, NEW arr, arr = ToArray(bitmap[r])
        PROVE  /\ \A x \in Numbers : BitmapContains(bitmap[r], x) <=> x \in holds[r]
               /\ ToSet(arr) = holds[r]
               /\ \A i, j \in DOMAIN arr : i < j =>
                    arr[i][1] < arr[j][1] \/ (arr[i][1] = arr[j][1] /\ arr[i][2] < arr[j][2])
               /\ GetCardinality(bitmap[r]) = Cardinality(holds[r])
    <3>1. PICK S : S = holds[r] /\ Held(S) /\ bitmap[r] = Canonical(S)
      BY DEF Represented
    <3>2. \A x \in Numbers : BitmapContains(Canonical(S), x) <=> x \in S
      BY <3>1, LookupIs
    <3>3. Listed(Canonical(S), S)
      BY <3>1, ListedIs
    <3>4. ToSet(arr) = S /\ LowToHigh(arr) /\ GetCardinality(bitmap[r]) = Cardinality(S)
      BY <2>1, <3>1, <3>3 DEF Listed
    <3> QED
      BY <3>1, <3>2, <3>4 DEF LowToHigh, Lower
  <2> QED
    BY <2>1 DEF BitmapIsSet
<1> QED
  BY <1>1, StaysRepresented, PTL

-----------------------------------------------------------------------------
(* The red-black tree.                                                     *)

(* One level more.                                                         *)
Higher(S) == {Nil} \cup [key : NodeKeys, val : NodeValues, red : BOOLEAN, left : S, right : S]

RisesTo(f, n) == f[0] = {Nil} /\ \A m \in 1..n : f[m] = Higher(f[m - 1])

(* The sets of trees, level by level, are a function that exists.          *)
LEMMA RisesExist == \A n \in Nat : \E f : RisesTo(f, n)
<1> DEFINE Bad == {n \in Nat : ~ \E f : RisesTo(f, n)}
<1> SUFFICES ASSUME Bad # {} PROVE FALSE
  OBVIOUS
<1>1. PICK n \in Bad : \A m \in Bad : n <= m
  BY LeastNat
<1>2. n \in Nat /\ ~ \E f : RisesTo(f, n)
  OBVIOUS
<1>3. CASE n = 0
  <2>1. PICK f : f = [m \in {0} |-> {Nil}]
    OBVIOUS
  <2>2. f[0] = {Nil} /\ 1..n = {}
    BY <1>3, <2>1
  <2> QED
    BY <1>2, <2>2 DEF RisesTo
<1>4. CASE n # 0
  <2>1. n - 1 \in Nat /\ ~(n <= n - 1)
    BY <1>2, <1>4
  <2>2. PICK g : RisesTo(g, n - 1)
    BY <1>1, <2>1
  <2>3. PICK f : f = [m \in 0..n |-> IF m = n THEN Higher(g[n - 1]) ELSE g[m]]
    OBVIOUS
  <2>4. f[0] = {Nil}
    <3>1. 0 \in 0..n /\ 0 # n
      BY <1>2, <1>4
    <3> QED
      BY <2>2, <2>3, <3>1 DEF RisesTo
  <2>5. ASSUME NEW m \in 1..n
        PROVE  f[m] = Higher(f[m - 1])
    <3>1. m \in 0..n /\ m - 1 \in 0..n /\ m - 1 # n
      BY <1>2
    <3>2. f[m - 1] = g[m - 1]
      BY <2>3, <3>1
    <3>3. CASE m = n
      BY <2>3, <3>1, <3>2, <3>3
    <3>4. CASE m # n
      <4>1. m \in 1..(n - 1)
        BY <1>2, <3>4
      <4> QED
        BY <2>2, <2>3, <3>1, <3>2, <3>4, <4>1 DEF RisesTo
    <3> QED
      BY <3>3, <3>4
  <2>6. RisesTo(f, n)
    BY <2>4, <2>5 DEF RisesTo
  <2> QED
    BY <1>2, <2>6
<1> QED
  BY <1>3, <1>4

LEMMA RisesAgree ==
  ASSUME NEW n \in Nat, NEW k \in Nat, NEW f, NEW g, RisesTo(f, n), RisesTo(g, k),
         NEW m \in Nat, m <= n, m <= k
  PROVE  f[m] = g[m]
<1> DEFINE Bad == {i \in Nat : i <= m /\ f[i] # g[i]}
<1> SUFFICES ASSUME Bad # {} PROVE FALSE
  OBVIOUS
<1>1. PICK i \in Bad : \A j \in Bad : i <= j
  BY LeastNat
<1>2. i \in Nat /\ i <= m /\ f[i] # g[i]
  OBVIOUS
<1>3. i # 0
  BY <1>2 DEF RisesTo
<1>4. i - 1 \in Nat /\ i - 1 <= m /\ i - 1 \notin Bad
  BY <1>1, <1>2, <1>3
<1>5. f[i - 1] = g[i - 1]
  BY <1>4
<1>6. i \in 1..n /\ i \in 1..k
  BY <1>2, <1>3
<1>7. f[i] = Higher(f[i - 1]) /\ g[i] = Higher(g[i - 1])
  BY <1>6 DEF RisesTo
<1> QED
  BY <1>2, <1>5, <1>7

AreTrees(f) ==
  f = [n \in Nat |-> IF n = 0 THEN {Nil}
                     ELSE LET lower == f[n - 1]
                          IN  {Nil} \cup [key  : NodeKeys, val : NodeValues, red : BOOLEAN,
                                          left : lower, right : lower]]

LEMMA TreesAre == Trees[0] = {Nil} /\ \A n \in Nat : Trees[n + 1] = Higher(Trees[n])
<1> DEFINE f(n) == CHOOSE f : RisesTo(f, n)
           T == [n \in Nat |-> f(n)[n]]
<1>1. \A n \in Nat : RisesTo(f(n), n)
  BY RisesExist
<1>2. T[0] = {Nil}
  <2>1. T[0] = f(0)[0] /\ RisesTo(f(0), 0)
    BY <1>1
  <2> HIDE DEF f
  <2> QED
    BY <2>1 DEF RisesTo
<1>3. ASSUME NEW n \in Nat, n # 0
      PROVE  T[n] = Higher(T[n - 1])
  <2>1. n - 1 \in Nat /\ n - 1 <= n /\ n \in 1..n
    BY <1>3
  <2>2. RisesTo(f(n), n) /\ RisesTo(f(n - 1), n - 1)
    BY <1>1, <2>1
  <2>3. T[n] = f(n)[n] /\ T[n - 1] = f(n - 1)[n - 1]
    BY <2>1
  <2> HIDE DEF f
  <2>4. f(n)[n - 1] = f(n - 1)[n - 1]
    BY <2>1, <2>2, RisesAgree
  <2>5. f(n)[n] = Higher(f(n)[n - 1])
    BY <2>1, <2>2 DEF RisesTo
  <2> QED
    BY <2>3, <2>4, <2>5
<1>4. AreTrees(T)
  <2>1. \A n \in Nat : n # 0 =>
          T[n] = LET lower == T[n - 1]
                 IN  {Nil} \cup [key  : NodeKeys, val : NodeValues, red : BOOLEAN,
                                 left : lower, right : lower]
    BY <1>3 DEF Higher
  <2>2. T = [n \in Nat |-> T[n]]
    OBVIOUS
  <2> HIDE DEF T
  <2> QED
    BY <1>2, <2>1, <2>2 DEF AreTrees
<1>5. AreTrees(Trees)
  <2>1. Trees = CHOOSE g : AreTrees(g)
    BY DEF Trees, AreTrees
  <2> HIDE DEF T
  <2> QED
    BY <1>4, <2>1, Zenon
<1>6. ASSUME NEW n \in Nat
      PROVE  Trees[n] = IF n = 0 THEN {Nil}
                     ELSE LET lower == Trees[n - 1]
                          IN  {Nil} \cup [key  : NodeKeys, val : NodeValues, red : BOOLEAN,
                                          left : lower, right : lower]
  BY <1>5 DEF AreTrees
<1>7. ASSUME NEW n \in Nat
      PROVE  Trees[n + 1] = Higher(Trees[n])
  <2>1. n + 1 \in Nat /\ n + 1 # 0 /\ (n + 1) - 1 = n
    OBVIOUS
  <2> QED
    BY <1>6, <2>1 DEF Higher
<1> QED
  BY <1>6, <1>7

Node(k, v, red, l, r) == [key |-> k, val |-> v, red |-> red, left |-> l, right |-> r]

(* A node is not Nil, and has its five fields.                             *)
LEMMA NodesAre ==
  \A k, v, red, l, r :
    /\ Node(k, v, red, l, r) # Nil
    /\ Node(k, v, red, l, r).key = k /\ Node(k, v, red, l, r).val = v
    /\ Node(k, v, red, l, r).red = red
    /\ Node(k, v, red, l, r).left = l /\ Node(k, v, red, l, r).right = r
<1>1. ASSUME NEW k, NEW v, NEW red, NEW l, NEW r
      PROVE  Node(k, v, red, l, r) # Nil
  <2>1. "key" \in DOMAIN Node(k, v, red, l, r)
    BY DEF Node
  <2>2. "key" \notin DOMAIN Nil
    BY DEF Nil
  <2> QED
    BY <2>1, <2>2
<1>2. ASSUME NEW k, NEW v, NEW red, NEW l, NEW r
      PROVE  /\ Node(k, v, red, l, r).key = k /\ Node(k, v, red, l, r).val = v
             /\ Node(k, v, red, l, r).red = red
             /\ Node(k, v, red, l, r).left = l /\ Node(k, v, red, l, r).right = r
  BY DEF Node
<1> QED
  BY <1>1, <1>2

(* What is a tree of one level more.                                       *)
LEMMA HigherIs ==
  \A n \in Nat :
    /\ Nil \in Trees[n]
    /\ \A k \in NodeKeys, v \in NodeValues, red \in BOOLEAN, l, r \in Trees[n] :
         Node(k, v, red, l, r) \in Trees[n + 1]
    /\ \A t \in Trees[n + 1] : t # Nil =>
         /\ t.key \in NodeKeys /\ t.val \in NodeValues /\ t.red \in BOOLEAN
         /\ t.left \in Trees[n] /\ t.right \in Trees[n]
         /\ t = Node(t.key, t.val, t.red, t.left, t.right)
<1>1. ASSUME NEW S
      PROVE  /\ Nil \in Higher(S)
             /\ \A k \in NodeKeys, v \in NodeValues, red \in BOOLEAN, l, r \in S :
                  Node(k, v, red, l, r) \in Higher(S)
             /\ \A t \in Higher(S) : t # Nil =>
                  /\ t.key \in NodeKeys /\ t.val \in NodeValues /\ t.red \in BOOLEAN
                  /\ t.left \in S /\ t.right \in S
                  /\ t = Node(t.key, t.val, t.red, t.left, t.right)
  BY DEF Higher, Node
<1>2. ASSUME NEW n \in Nat
      PROVE  Nil \in Trees[n]
  <2>1. CASE n = 0
    BY <2>1, TreesAre
  <2>2. CASE n # 0
    <3>1. n - 1 \in Nat /\ (n - 1) + 1 = n
      BY <2>2
    <3>2. Trees[n] = Higher(Trees[n - 1])
      BY <3>1, TreesAre
    <3> QED
      BY <1>1, <3>2
  <2> QED
    BY <2>1, <2>2
<1> SUFFICES ASSUME NEW n \in Nat
             PROVE
    /\ Nil \in Trees[n]
    /\ \A k \in NodeKeys, v \in NodeValues, red \in BOOLEAN, l, r \in Trees[n] :
         Node(k, v, red, l, r) \in Trees[n + 1]
    /\ \A t \in Trees[n + 1] : t # Nil =>
         /\ t.key \in NodeKeys /\ t.val \in NodeValues /\ t.red \in BOOLEAN
         /\ t.left \in Trees[n] /\ t.right \in Trees[n]
         /\ t = Node(t.key, t.val, t.red, t.left, t.right)
  OBVIOUS
<1>3. PICK S : S = Trees[n]
  OBVIOUS
<1>4. Trees[n + 1] = Higher(S)
  BY <1>3, TreesAre
<1>5. /\ \A k \in NodeKeys, v \in NodeValues, red \in BOOLEAN, l, r \in S :
           Node(k, v, red, l, r) \in Higher(S)
      /\ \A t \in Higher(S) : t # Nil =>
           /\ t.key \in NodeKeys /\ t.val \in NodeValues /\ t.red \in BOOLEAN
           /\ t.left \in S /\ t.right \in S
           /\ t = Node(t.key, t.val, t.red, t.left, t.right)
  BY <1>1
<1> QED
  BY <1>2, <1>3, <1>4, <1>5

(* A tree of a height is one of any greater height.                        *)
LEMMA TreesGrow ==
  \A n \in Nat : \A m \in Nat : n <= m => Trees[n] \subseteq Trees[m]
<1>1. \A n \in Nat : Trees[n] \subseteq Trees[n + 1]
  <2> DEFINE Bad == {n \in Nat : ~(Trees[n] \subseteq Trees[n + 1])}
  <2> SUFFICES ASSUME Bad # {} PROVE FALSE
    OBVIOUS
  <2>1. PICK n \in Bad : \A m \in Bad : n <= m
    BY LeastNat
  <2>2. n \in Nat /\ ~(Trees[n] \subseteq Trees[n + 1])
    OBVIOUS
  <2>3. n # 0
    <3>1. 0 + 1 \in Nat
      OBVIOUS
    <3> QED
      BY <2>2, <3>1, TreesAre, HigherIs
  <2>4. n - 1 \in Nat /\ n - 1 \notin Bad /\ (n - 1) + 1 = n
    BY <2>1, <2>2, <2>3
  <2>5. Trees[n - 1] \subseteq Trees[n]
    BY <2>4
  <2>6. Trees[n] = Higher(Trees[n - 1]) /\ Trees[n + 1] = Higher(Trees[n])
    BY <2>2, <2>4, TreesAre
  <2>7. Higher(Trees[n - 1]) \subseteq Higher(Trees[n])
    BY <2>5 DEF Higher
  <2> QED
    BY <2>2, <2>6, <2>7
<1>2. ASSUME NEW n \in Nat
      PROVE  \A m \in Nat : n <= m => Trees[n] \subseteq Trees[m]
  <2> DEFINE Bad == {m \in Nat : n <= m /\ ~(Trees[n] \subseteq Trees[m])}
  <2> SUFFICES ASSUME Bad # {} PROVE FALSE
    OBVIOUS
  <2>1. PICK m \in Bad : \A j \in Bad : m <= j
    BY LeastNat
  <2>2. m \in Nat /\ n <= m /\ ~(Trees[n] \subseteq Trees[m])
    OBVIOUS
  <2>3. m # n
    BY <2>2
  <2>4. m - 1 \in Nat /\ n <= m - 1 /\ m - 1 \notin Bad /\ (m - 1) + 1 = m
    BY <2>1, <2>2, <2>3
  <2>5. Trees[n] \subseteq Trees[m - 1]
    BY <2>4
  <2>6. Trees[m - 1] \subseteq Trees[m]
    BY <1>1, <2>4
  <2> QED
    BY <2>2, <2>5, <2>6
<1> QED
  BY <1>2

(* The subtrees of a tree.                                                 *)
LEMMA SubtreesAre ==
  \A n \in Nat : \A t \in Trees[n] : t # Nil =>
    /\ n # 0
    /\ t.key \in NodeKeys /\ t.val \in NodeValues /\ t.red \in BOOLEAN
    /\ t.left \in Trees[n - 1] /\ t.right \in Trees[n - 1]
    /\ t.left \in Trees[n] /\ t.right \in Trees[n]
    /\ t = Node(t.key, t.val, t.red, t.left, t.right)
<1> SUFFICES ASSUME NEW n \in Nat, NEW t \in Trees[n], t # Nil
             PROVE  /\ n # 0
                    /\ t.key \in NodeKeys /\ t.val \in NodeValues /\ t.red \in BOOLEAN
                    /\ t.left \in Trees[n - 1] /\ t.right \in Trees[n - 1]
                    /\ t.left \in Trees[n] /\ t.right \in Trees[n]
                    /\ t = Node(t.key, t.val, t.red, t.left, t.right)
  OBVIOUS
<1>1. n # 0
  BY TreesAre
<1>2. n - 1 \in Nat /\ (n - 1) + 1 = n /\ n - 1 <= n
  BY <1>1
<1>3. Trees[n - 1] \subseteq Trees[n]
  BY <1>2, TreesGrow
<1>4. \A m \in Nat : m + 1 = n => \A u \in Trees[n] : u # Nil =>
         /\ u.key \in NodeKeys /\ u.val \in NodeValues /\ u.red \in BOOLEAN
         /\ u.left \in Trees[m] /\ u.right \in Trees[m]
         /\ u = Node(u.key, u.val, u.red, u.left, u.right)
  BY HigherIs
<1> QED
  BY <1>1, <1>2, <1>3, <1>4

(* What is said of a tree by what is said of its subtrees.                 *)
Branches(n, V, v0, step) ==
  /\ n \in Nat /\ v0 \in V
  /\ \A t \in Trees[n] \ {Nil} : \A a, b \in V : step[<<t, a, b>>] \in V

Branched(f, n, v0, step) ==
  /\ f[Nil] = v0
  /\ \A t \in Trees[n] \ {Nil} : f[t] = step[<<t, f[t.left], f[t.right]>>]

LEMMA TreeRecursion ==
  ASSUME NEW n, NEW V, NEW v0, NEW step, Branches(n, V, v0, step)
  PROVE  \E f \in [Trees[n] -> V] : Branched(f, n, v0, step)
<1> DEFINE Bad == {m \in Nat : m <= n /\ ~ \E f \in [Trees[m] -> V] : Branched(f, m, v0, step)}
<1>0. n \in Nat /\ v0 \in V
  BY DEF Branches
<1>1. Bad = {}
  <2> SUFFICES ASSUME Bad # {} PROVE FALSE
    OBVIOUS
  <2>1. PICK m \in Bad : \A j \in Bad : m <= j
    BY LeastNat
  <2>2. m \in Nat /\ m <= n /\ ~ \E f \in [Trees[m] -> V] : Branched(f, m, v0, step)
    OBVIOUS
  <2>3. CASE m = 0
    <3>1. PICK f : f = [t \in Trees[m] |-> v0]
      OBVIOUS
    <3>2. Trees[m] = {Nil}
      BY <2>3, TreesAre
    <3>3. f \in [Trees[m] -> V] /\ f[Nil] = v0 /\ Trees[m] \ {Nil} = {}
      BY <1>0, <3>1, <3>2
    <3>4. Branched(f, m, v0, step)
      BY <3>3 DEF Branched
    <3> QED
      BY <2>2, <3>3, <3>4
  <2>4. CASE m # 0
    <3>1. m - 1 \in Nat /\ m - 1 <= n /\ m - 1 \notin Bad /\ m - 1 <= m
      BY <1>0, <2>1, <2>2, <2>4
    <3>2. PICK g \in [Trees[m - 1] -> V] : Branched(g, m - 1, v0, step)
      BY <3>1
    <3>3. PICK f : f = [t \in Trees[m] |->
                          IF t = Nil THEN v0 ELSE step[<<t, g[t.left], g[t.right]>>]]
      OBVIOUS
    <3>4. /\ Trees[m] \subseteq Trees[n] /\ Trees[m - 1] \subseteq Trees[m]
          /\ Nil \in Trees[m] /\ Nil \in Trees[m - 1]
      BY <1>0, <2>2, <3>1, TreesGrow, HigherIs
    <3>5. \A t \in Trees[m] \ {Nil} : /\ t.left \in Trees[m - 1] /\ t.right \in Trees[m - 1]
                                      /\ g[t.left] \in V /\ g[t.right] \in V
      BY <2>2, SubtreesAre
    <3>6. \A t \in Trees[m] \ {Nil} : step[<<t, g[t.left], g[t.right]>>] \in V
      BY <3>4, <3>5 DEF Branches
    <3>7. f \in [Trees[m] -> V] /\ f[Nil] = v0
      BY <1>0, <3>3, <3>4, <3>6
    <3>8. \A t \in Trees[m - 1] : f[t] = g[t]
      <4> SUFFICES ASSUME NEW t \in Trees[m - 1] PROVE f[t] = g[t]
        OBVIOUS
      <4>1. CASE t = Nil
        BY <3>2, <3>7, <4>1 DEF Branched
      <4>2. CASE t # Nil
        <5>1. f[t] = step[<<t, g[t.left], g[t.right]>>]
          BY <3>3, <3>4, <4>2
        <5> QED
          BY <3>2, <4>2, <5>1 DEF Branched
      <4> QED
        BY <4>1, <4>2
    <3>9. \A t \in Trees[m] \ {Nil} : f[t] = step[<<t, f[t.left], f[t.right]>>]
      BY <3>3, <3>5, <3>8
    <3>10. Branched(f, m, v0, step)
      BY <3>7, <3>9 DEF Branched
    <3> QED
      BY <2>2, <3>7, <3>10
  <2> QED
    BY <2>3, <2>4
<1> QED
  BY <1>0, <1>1

Tree == UNION {Trees[n] : n \in Nat}

KeyValues == NodeKeys \X NodeValues

(* A tree with the pairs it holds, the number of its nodes, and the black  *)
(* nodes on each of its paths.                                             *)
Described == Tree \X (SUBSET KeyValues) \X Nat \X Nat

(* What may be made of x and y by a node above them.                       *)
Apart(P, k, Q) == (\A p \in P : p[1] < k) /\ (\A q \in Q : k < q[1])

Joint(P, k, v, Q) == P \cup {<<k, v>>} \cup Q

Blacks(red, b) == IF red THEN b ELSE b + 1

MayJoin(x, y, k, red) ==
  /\ x[4] = y[4] /\ Apart(x[2], k, y[2])
  /\ ~IsRed(y[1]) /\ (red => ~IsRed(x[1]))

JoinedBy(x, y, k, v, red) ==
  <<Node(k, v, red, x[1], y[1]), Joint(x[2], k, v, y[2]), x[3] + y[3] + 1, Blacks(red, x[4])>>

NoTree == <<Nil, {}, 0, 0>>

ClosedUnder(S) ==
  /\ NoTree \in S
  /\ \A x, y \in S, k \in NodeKeys, v \in NodeValues, red \in BOOLEAN :
       MayJoin(x, y, k, red) => JoinedBy(x, y, k, v, red) \in S

(* The trees as they should be: the least set closed under that.           *)
Proper == {u \in Described : \A S \in SUBSET Described : ClosedUnder(S) => u \in S}

LEMMA ProperLeast ==
  ASSUME NEW S \in SUBSET Described, ClosedUnder(S)
  PROVE  Proper \subseteq S
BY DEF Proper

LEMMA TreeIs ==
  /\ Nil \in Tree
  /\ \A k \in NodeKeys, v \in NodeValues, red \in BOOLEAN, l, r \in Tree :
       Node(k, v, red, l, r) \in Tree
<1>1. Nil \in Tree
  <2>1. Nil \in Trees[0]
    BY HigherIs
  <2> QED
    BY <2>1 DEF Tree
<1>2. ASSUME NEW k \in NodeKeys, NEW v \in NodeValues, NEW red \in BOOLEAN,
             NEW l \in Tree, NEW r \in Tree
      PROVE  Node(k, v, red, l, r) \in Tree
  <2>1. PICK i \in Nat, j \in Nat : l \in Trees[i] /\ r \in Trees[j]
    BY DEF Tree
  <2>2. PICK n \in Nat : i <= n /\ j <= n
    <3>1. CASE i <= j
      BY <3>1
    <3>2. CASE ~(i <= j)
      BY <3>2
    <3> QED
      BY <3>1, <3>2
  <2>3. l \in Trees[n] /\ r \in Trees[n]
    BY <2>1, <2>2, TreesGrow
  <2>4. Node(k, v, red, l, r) \in Trees[n + 1] /\ n + 1 \in Nat
    BY <2>3, HigherIs
  <2> QED
    BY <2>4 DEF Tree
<1> QED
  BY <1>1, <1>2

LEMMA DescribedClosed == ClosedUnder(Described)
<1>1. NoTree \in Described
  BY TreeIs DEF NoTree, Described
<1>2. ASSUME NEW x \in Described, NEW y \in Described, NEW k \in NodeKeys, NEW v \in NodeValues,
             NEW red \in BOOLEAN
      PROVE  JoinedBy(x, y, k, v, red) \in Described
  <2>1. /\ x[1] \in Tree /\ x[2] \in SUBSET KeyValues /\ x[3] \in Nat /\ x[4] \in Nat
        /\ y[1] \in Tree /\ y[2] \in SUBSET KeyValues /\ y[3] \in Nat /\ y[4] \in Nat
    BY DEF Described
  <2>2. Node(k, v, red, x[1], y[1]) \in Tree
    BY <2>1, TreeIs
  <2>3. Joint(x[2], k, v, y[2]) \in SUBSET KeyValues
    <3>1. <<k, v>> \in KeyValues
      BY DEF KeyValues
    <3> QED
      BY <2>1, <3>1 DEF Joint
  <2>4. x[3] + y[3] + 1 \in Nat /\ Blacks(red, x[4]) \in Nat
    BY <2>1 DEF Blacks
  <2> QED
    BY <2>2, <2>3, <2>4 DEF JoinedBy, Described
<1> QED
  BY <1>1, <1>2 DEF ClosedUnder

LEMMA ProperClosed == ClosedUnder(Proper) /\ Proper \in SUBSET Described
<1>1. Proper \in SUBSET Described
  BY DEF Proper
<1>2. NoTree \in Proper
  <2>1. NoTree \in Described
    BY DescribedClosed DEF ClosedUnder
  <2>2. \A S \in SUBSET Described : ClosedUnder(S) => NoTree \in S
    BY DEF ClosedUnder
  <2> QED
    BY <2>1, <2>2 DEF Proper
<1>3. ASSUME NEW x \in Proper, NEW y \in Proper, NEW k \in NodeKeys, NEW v \in NodeValues,
             NEW red \in BOOLEAN, MayJoin(x, y, k, red)
      PROVE  JoinedBy(x, y, k, v, red) \in Proper
  <2>1. x \in Described /\ y \in Described
    BY <1>1
  <2>2. JoinedBy(x, y, k, v, red) \in Described
    BY <1>3, <2>1, DescribedClosed DEF ClosedUnder
  <2>3. ASSUME NEW S \in SUBSET Described, ClosedUnder(S)
        PROVE  JoinedBy(x, y, k, v, red) \in S
    <3>1. x \in S /\ y \in S
      BY <2>3, ProperLeast
    <3> QED
      BY <1>3, <2>3, <3>1 DEF ClosedUnder
  <2> QED
    BY <2>2, <2>3 DEF Proper
<1> QED
  BY <1>1, <1>2, <1>3 DEF ClosedUnder

(* A proper tree is none, or a node above proper trees.                    *)
LEMMA ProperCases ==
  ASSUME NEW u \in Proper
  PROVE  \/ u = NoTree
         \/ \E x, y \in Proper, k \in NodeKeys, v \in NodeValues, red \in BOOLEAN :
              MayJoin(x, y, k, red) /\ u = JoinedBy(x, y, k, v, red)
<1> DEFINE Made(w) == \E x, y \in Proper, k \in NodeKeys, v \in NodeValues, red \in BOOLEAN :
                        MayJoin(x, y, k, red) /\ w = JoinedBy(x, y, k, v, red)
           S == {w \in Proper : w = NoTree \/ Made(w)}
<1>1. S \in SUBSET Described
  BY ProperClosed
<1>2. NoTree \in S
  BY ProperClosed DEF ClosedUnder
<1>3. ASSUME NEW x \in S, NEW y \in S, NEW k \in NodeKeys, NEW v \in NodeValues,
             NEW red \in BOOLEAN, MayJoin(x, y, k, red)
      PROVE  JoinedBy(x, y, k, v, red) \in S
  <2>1. x \in Proper /\ y \in Proper
    OBVIOUS
  <2>2. JoinedBy(x, y, k, v, red) \in Proper
    BY <1>3, <2>1, ProperClosed DEF ClosedUnder
  <2>3. Made(JoinedBy(x, y, k, v, red))
    BY <1>3, <2>1
  <2> HIDE DEF Made
  <2> QED
    BY <2>2, <2>3
<1>4. ClosedUnder(S)
  <2> HIDE DEF S
  <2> QED
    BY <1>2, <1>3 DEF ClosedUnder
<1>5. Proper \subseteq S
  BY <1>1, <1>4, ProperLeast
<1> QED
  BY <1>5

(* Tree t is as it should be, holds the pairs P, has c nodes, and b black  *)
(* ones on each path.                                                      *)
IsProper(t, P, c, b) == <<t, P, c, b>> \in Proper

(* Tree t is a node of a colour above proper trees with b black nodes on   *)
(* each path, but for a red link that may follow a red one on the left.    *)
HangsBy(t, P, c, b, red, k, v, l, P1, c1, r, P2, c2) ==
  /\ k \in NodeKeys /\ v \in NodeValues
  /\ t = Node(k, v, red, l, r)
  /\ IsProper(l, P1, c1, b) /\ IsProper(r, P2, c2, b)
  /\ Apart(P1, k, P2) /\ ~IsRed(r)
  /\ P = Joint(P1, k, v, P2) /\ c = c1 + c2 + 1

Hangs(t, P, c, b, red) ==
  \E k, v, l, P1, c1, r, P2, c2 : HangsBy(t, P, c, b, red, k, v, l, P1, c1, r, P2, c2)

LEMMA ProperType ==
  ASSUME NEW t, NEW P, NEW c, NEW b, IsProper(t, P, c, b)
  PROVE  t \in Tree /\ P \in SUBSET KeyValues /\ c \in Nat /\ b \in Nat
BY ProperClosed DEF IsProper, Described

LEMMA ProperNil == IsProper(Nil, {}, 0, 0)
BY ProperClosed DEF IsProper, ClosedUnder, NoTree

LEMMA ProperNode ==
  ASSUME NEW l, NEW P, NEW c, NEW b, IsProper(l, P, c, b),
         NEW r, NEW Q, NEW d, IsProper(r, Q, d, b),
         NEW k \in NodeKeys, NEW v \in NodeValues, NEW red \in BOOLEAN,
         Apart(P, k, Q), ~IsRed(r), red => ~IsRed(l)
  PROVE  IsProper(Node(k, v, red, l, r), Joint(P, k, v, Q), c + d + 1, Blacks(red, b))
<1>1. PICK x \in Proper, y \in Proper : x = <<l, P, c, b>> /\ y = <<r, Q, d, b>>
  BY DEF IsProper
<1>2. /\ x[1] = l /\ x[2] = P /\ x[3] = c /\ x[4] = b
      /\ y[1] = r /\ y[2] = Q /\ y[3] = d /\ y[4] = b
  BY <1>1
<1>3. MayJoin(x, y, k, red)
  BY <1>2 DEF MayJoin
<1>4. JoinedBy(x, y, k, v, red) \in Proper
  BY <1>3, ProperClosed DEF ClosedUnder
<1>5. JoinedBy(x, y, k, v, red) =
        <<Node(k, v, red, l, r), Joint(P, k, v, Q), c + d + 1, Blacks(red, b)>>
  BY <1>2 DEF JoinedBy
<1> QED
  BY <1>4, <1>5 DEF IsProper

(* A proper tree is none, or a node that hangs above proper trees.         *)
LEMMA ProperIs ==
  ASSUME NEW t, NEW P, NEW c, NEW b, IsProper(t, P, c, b), t # Nil
  PROVE  \E red, b0 : /\ red \in BOOLEAN /\ Hangs(t, P, c, b0, red) /\ b = Blacks(red, b0)
                      /\ t.red = red /\ (red => ~IsRed(t.left))
<1>1. PICK u \in Proper : u = <<t, P, c, b>>
  BY DEF IsProper
<1>2. u # NoTree
  BY <1>1 DEF NoTree
<1>3. PICK x \in Proper, y \in Proper, k \in NodeKeys, v \in NodeValues, red \in BOOLEAN :
        MayJoin(x, y, k, red) /\ u = JoinedBy(x, y, k, v, red)
  BY <1>2, ProperCases
<1>4. /\ x = <<x[1], x[2], x[3], x[4]>> /\ y = <<y[1], y[2], y[3], y[4]>>
  BY ProperClosed DEF Described
<1>5. IsProper(x[1], x[2], x[3], x[4]) /\ IsProper(y[1], y[2], y[3], x[4])
  BY <1>3, <1>4 DEF IsProper, MayJoin
<1>6. /\ t = Node(k, v, red, x[1], y[1]) /\ P = Joint(x[2], k, v, y[2])
      /\ c = x[3] + y[3] + 1 /\ b = Blacks(red, x[4])
  BY <1>1, <1>3 DEF JoinedBy
<1>7. Apart(x[2], k, y[2]) /\ ~IsRed(y[1]) /\ (red => ~IsRed(x[1]))
  BY <1>3 DEF MayJoin
<1>8. Hangs(t, P, c, x[4], red)
  <2>1. HangsBy(t, P, c, x[4], red, k, v, x[1], x[2], x[3], y[1], y[2], y[3])
    BY <1>5, <1>6, <1>7 DEF HangsBy
  <2> QED
    BY <2>1 DEF Hangs
<1>9. t.red = red /\ t.left = x[1]
  BY <1>6, NodesAre
<1> QED
  BY <1>6, <1>7, <1>8, <1>9

LEMMA NilIs ==
  ASSUME NEW P, NEW c, NEW b, IsProper(Nil, P, c, b)
  PROVE  P = {} /\ c = 0 /\ b = 0
<1>1. PICK u \in Proper : u = <<Nil, P, c, b>>
  BY DEF IsProper
<1>2. CASE u = NoTree
  BY <1>1, <1>2 DEF NoTree
<1>3. CASE u # NoTree
  <2>1. PICK x \in Proper, y \in Proper, k \in NodeKeys, v \in NodeValues, red \in BOOLEAN :
          u = JoinedBy(x, y, k, v, red)
    BY <1>3, ProperCases
  <2>2. Nil = Node(k, v, red, x[1], y[1])
    BY <1>1, <2>1 DEF JoinedBy
  <2> QED
    BY <2>2, NodesAre
<1> QED
  BY <1>2, <1>3

(* A node that hangs is proper if no red link follows a red one.           *)
LEMMA HangsProper ==
  ASSUME NEW t, NEW P, NEW c, NEW b, NEW red \in BOOLEAN, Hangs(t, P, c, b, red),
         red => ~IsRed(t.left)
  PROVE  IsProper(t, P, c, Blacks(red, b))
<1>1. PICK k, v, l, P1, c1, r, P2, c2 : HangsBy(t, P, c, b, red, k, v, l, P1, c1, r, P2, c2)
  BY DEF Hangs
<1>2. t.left = l
  BY <1>1, NodesAre DEF HangsBy
<1>3. red => ~IsRed(l)
  BY <1>2
<1> QED
  BY <1>1, <1>3, ProperNode DEF HangsBy

(* A tree is no higher than it has nodes.                                  *)
LEMMA HeightIs ==
  ASSUME NEW t, NEW P, NEW c, NEW b, IsProper(t, P, c, b)
  PROVE  t \in Trees[c]
<1> DEFINE S == {u \in Proper : u[1] \in Trees[u[3]]}
<1>1. S \in SUBSET Described
  BY ProperClosed
<1>2. NoTree \in S
  BY ProperClosed, HigherIs DEF ClosedUnder, NoTree
<1>3. ASSUME NEW x \in S, NEW y \in S, NEW k \in NodeKeys, NEW v \in NodeValues,
             NEW red \in BOOLEAN, MayJoin(x, y, k, red)
      PROVE  JoinedBy(x, y, k, v, red) \in S
  <2>1. /\ x \in Proper /\ y \in Proper /\ x[3] \in Nat /\ y[3] \in Nat
        /\ x[1] \in Trees[x[3]] /\ y[1] \in Trees[y[3]]
    BY <1>1 DEF Described
  <2>2. PICK i \in Nat, j \in Nat : i = x[3] /\ j = y[3]
    BY <2>1
  <2>3. i + j \in Nat /\ i <= i + j /\ j <= i + j
    BY <2>2
  <2>4. x[1] \in Trees[i + j] /\ y[1] \in Trees[i + j]
    BY <2>1, <2>2, <2>3, TreesGrow
  <2>5. Node(k, v, red, x[1], y[1]) \in Trees[i + j + 1]
    BY <2>3, <2>4, HigherIs
  <2>6. JoinedBy(x, y, k, v, red) \in Proper
    BY <1>3, <2>1, ProperClosed DEF ClosedUnder
  <2>7. /\ JoinedBy(x, y, k, v, red)[1] = Node(k, v, red, x[1], y[1])
        /\ JoinedBy(x, y, k, v, red)[3] = i + j + 1
    BY <2>2 DEF JoinedBy
  <2> QED
    BY <2>5, <2>6, <2>7
<1>4. ClosedUnder(S)
  <2> HIDE DEF S
  <2> QED
    BY <1>2, <1>3 DEF ClosedUnder
<1>5. <<t, P, c, b>> \in S
  BY <1>1, <1>4, ProperLeast DEF IsProper
<1> QED
  BY <1>5

(* The colours, as names the provers do not see through.                   *)
Red == TRUE

Black == FALSE

LEMMA ColoursAre ==
  /\ Red \in BOOLEAN /\ Black \in BOOLEAN /\ Red /\ ~Black /\ Red # Black
  /\ \A red \in BOOLEAN : red = Red \/ red = Black
  /\ \A b : Blacks(Red, b) = b /\ Blacks(Black, b) = b + 1
BY DEF Red, Black, Blacks

(* A node with other fields.                                               *)
WithLeft(t, x) == [t EXCEPT !.left = x]
WithRight(t, x) == [t EXCEPT !.right = x]
WithVal(t, x) == [t EXCEPT !.val = x]
WithRed(t, c) == [t EXCEPT !.red = c]
WithLeftRed(t, x, c) == [t EXCEPT !.left = x, !.red = c]
WithRightRed(t, x, c) == [t EXCEPT !.right = x, !.red = c]

LEMMA NodeWith ==
  ASSUME NEW k, NEW v, NEW red, NEW l, NEW r, NEW x, NEW c
  PROVE  /\ WithLeft(Node(k, v, red, l, r), x) = Node(k, v, red, x, r)
         /\ WithRight(Node(k, v, red, l, r), x) = Node(k, v, red, l, x)
         /\ WithVal(Node(k, v, red, l, r), x) = Node(k, x, red, l, r)
         /\ WithRed(Node(k, v, red, l, r), c) = Node(k, v, c, l, r)
         /\ WithLeftRed(Node(k, v, red, l, r), x, c) = Node(k, v, c, x, r)
         /\ WithRightRed(Node(k, v, red, l, r), x, c) = Node(k, v, c, l, x)
<1>1. PICK t : t = Node(k, v, red, l, r)
  OBVIOUS
<1>2. /\ DOMAIN t = {"key", "val", "red", "left", "right"}
      /\ t.key = k /\ t.val = v /\ t.red = red /\ t.left = l /\ t.right = r
  BY <1>1 DEF Node
<1>3. WithLeft(t, x) = Node(k, v, red, x, r)
  <2>1. PICK g : g = [t EXCEPT !.left = x]
    OBVIOUS
  <2>2. DOMAIN g = DOMAIN t /\ g.key = k /\ g.val = v /\ g.red = red /\ g.left = x /\ g.right = r
    BY <1>2, <2>1
  <2>3. g = [f \in DOMAIN t |-> g[f]]
    BY <2>1
  <2> QED
    BY <1>2, <2>1, <2>2, <2>3 DEF Node, WithLeft
<1>4. WithRight(t, x) = Node(k, v, red, l, x)
  <2>1. PICK g : g = [t EXCEPT !.right = x]
    OBVIOUS
  <2>2. DOMAIN g = DOMAIN t /\ g.key = k /\ g.val = v /\ g.red = red /\ g.left = l /\ g.right = x
    BY <1>2, <2>1
  <2>3. g = [f \in DOMAIN t |-> g[f]]
    BY <2>1
  <2> QED
    BY <1>2, <2>1, <2>2, <2>3 DEF Node, WithRight
<1>5. WithVal(t, x) = Node(k, x, red, l, r)
  <2>1. PICK g : g = [t EXCEPT !.val = x]
    OBVIOUS
  <2>2. DOMAIN g = DOMAIN t /\ g.key = k /\ g.val = x /\ g.red = red /\ g.left = l /\ g.right = r
    BY <1>2, <2>1
  <2>3. g = [f \in DOMAIN t |-> g[f]]
    BY <2>1
  <2> QED
    BY <1>2, <2>1, <2>2, <2>3 DEF Node, WithVal
<1>6. WithRed(t, c) = Node(k, v, c, l, r)
  <2>1. PICK g : g = [t EXCEPT !.red = c]
    OBVIOUS
  <2>2. DOMAIN g = DOMAIN t /\ g.key = k /\ g.val = v /\ g.red = c /\ g.left = l /\ g.right = r
    BY <1>2, <2>1
  <2>3. g = [f \in DOMAIN t |-> g[f]]
    BY <2>1
  <2> QED
    BY <1>2, <2>1, <2>2, <2>3 DEF Node, WithRed
<1>7. WithLeftRed(t, x, c) = Node(k, v, c, x, r)
  <2>1. PICK g : g = [t EXCEPT !.left = x, !.red = c]
    OBVIOUS
  <2>2. DOMAIN g = DOMAIN t /\ g.key = k /\ g.val = v /\ g.red = c /\ g.left = x /\ g.right = r
    BY <1>2, <2>1
  <2>3. g = [f \in DOMAIN t |-> g[f]]
    BY <2>1
  <2> QED
    BY <1>2, <2>1, <2>2, <2>3 DEF Node, WithLeftRed
<1>8. WithRightRed(t, x, c) = Node(k, v, c, l, x)
  <2>1. PICK g : g = [t EXCEPT !.right = x, !.red = c]
    OBVIOUS
  <2>2. DOMAIN g = DOMAIN t /\ g.key = k /\ g.val = v /\ g.red = c /\ g.left = l /\ g.right = x
    BY <1>2, <2>1
  <2>3. g = [f \in DOMAIN t |-> g[f]]
    BY <2>1
  <2> QED
    BY <1>2, <2>1, <2>2, <2>3 DEF Node, WithRightRed
<1> QED
  BY <1>1, <1>3, <1>4, <1>5, <1>6, <1>7, <1>8

LEMMA NodeRed ==
  ASSUME NEW k, NEW v, NEW red, NEW l, NEW r, NEW c
  PROVE  WithRed(Node(k, v, red, l, r), c) = Node(k, v, c, l, r)
<1>1. PICK x : x = c
  OBVIOUS
<1>2. /\ WithLeft(Node(k, v, red, l, r), x) = Node(k, v, red, x, r)
      /\ WithRed(Node(k, v, red, l, r), c) = Node(k, v, c, l, r)
  BY NodeWith
<1> QED
  BY <1>2

LEMMA NodeVal ==
  ASSUME NEW k, NEW v, NEW red, NEW l, NEW r, NEW x
  PROVE  WithVal(Node(k, v, red, l, r), x) = Node(k, x, red, l, r)
BY NodeWith

(* The rotations and the flip, on the nodes they take apart.               *)
LEMMA RotatesLeft ==
  ASSUME NEW k, NEW v, NEW red, NEW l, NEW k2, NEW v2, NEW red2, NEW l2, NEW r2
  PROVE  RotateLeft(Node(k, v, red, l, Node(k2, v2, red2, l2, r2)))
           = Node(k2, v2, red, Node(k, v, Red, l, l2), r2)
<1>1. PICK t, u : u = Node(k2, v2, red2, l2, r2) /\ t = Node(k, v, red, l, u)
  OBVIOUS
<1>2. t.right = u /\ t.red = red /\ u.left = l2
  BY <1>1, NodesAre
<1>3. WithRightRed(t, l2, Red) = Node(k, v, Red, l, l2)
  BY <1>1, NodeWith
<1>4. PICK w : w = Node(k, v, Red, l, l2)
  OBVIOUS
<1>5. WithLeftRed(u, w, red) = Node(k2, v2, red, w, r2)
  BY <1>1, NodeWith
<1>6. RotateLeft(t) = WithLeftRed(u, w, red)
  BY <1>2, <1>3, <1>4 DEF RotateLeft, WithLeftRed, WithRightRed, Red
<1> QED
  BY <1>1, <1>4, <1>5, <1>6

LEMMA RotatesRight ==
  ASSUME NEW k, NEW v, NEW red, NEW k2, NEW v2, NEW red2, NEW l2, NEW r2, NEW r
  PROVE  RotateRight(Node(k, v, red, Node(k2, v2, red2, l2, r2), r))
           = Node(k2, v2, red, l2, Node(k, v, Red, r2, r))
<1>1. PICK t, u : u = Node(k2, v2, red2, l2, r2) /\ t = Node(k, v, red, u, r)
  OBVIOUS
<1>2. t.left = u /\ t.red = red /\ u.right = r2
  BY <1>1, NodesAre
<1>3. WithLeftRed(t, r2, Red) = Node(k, v, Red, r2, r)
  BY <1>1, NodeWith
<1>4. PICK w : w = Node(k, v, Red, r2, r)
  OBVIOUS
<1>5. WithRightRed(u, w, red) = Node(k2, v2, red, l2, w)
  BY <1>1, NodeWith
<1>6. RotateRight(t) = WithRightRed(u, w, red)
  BY <1>2, <1>3, <1>4 DEF RotateRight, WithLeftRed, WithRightRed, Red
<1> QED
  BY <1>1, <1>4, <1>5, <1>6

LEMMA Flips ==
  ASSUME NEW k, NEW v, NEW red, NEW k1, NEW v1, NEW red1, NEW l1, NEW r1,
         NEW k2, NEW v2, NEW red2, NEW l2, NEW r2
  PROVE  FlipColors(Node(k, v, red, Node(k1, v1, red1, l1, r1), Node(k2, v2, red2, l2, r2)))
           = Node(k, v, ~red, Node(k1, v1, ~red1, l1, r1), Node(k2, v2, ~red2, l2, r2))
<1>1. PICK t, u, w : /\ u = Node(k1, v1, red1, l1, r1) /\ w = Node(k2, v2, red2, l2, r2)
                     /\ t = Node(k, v, red, u, w)
  OBVIOUS
<1>2. PICK c, c1, c2 : c = ~red /\ c1 = ~red1 /\ c2 = ~red2
  OBVIOUS
<1>3. /\ DOMAIN t = {"key", "val", "red", "left", "right"}
      /\ t.key = k /\ t.val = v /\ t.red = red /\ t.left = u /\ t.right = w
      /\ u.red = red1 /\ w.red = red2
  BY <1>1, NodesAre DEF Node
<1>4. PICK u1, w1 : u1 = WithRed(u, c1) /\ w1 = WithRed(w, c2)
  OBVIOUS
<1>5. PICK g : g = [t EXCEPT !.red = c, !.left.red = c1, !.right.red = c2]
  OBVIOUS
<1>6. /\ DOMAIN g = DOMAIN t /\ g.key = k /\ g.val = v /\ g.red = c
      /\ g.left = u1 /\ g.right = w1
  BY <1>3, <1>4, <1>5 DEF WithRed
<1>7. g = [f \in DOMAIN t |-> g[f]]
  BY <1>5
<1>8. g = Node(k, v, c, u1, w1)
  BY <1>3, <1>6, <1>7 DEF Node
<1>9. u1 = Node(k1, v1, c1, l1, r1) /\ w1 = Node(k2, v2, c2, l2, r2)
  <2>1. WithRed(u, c1) = Node(k1, v1, c1, l1, r1)
    BY <1>1, NodeRed
  <2>2. WithRed(w, c2) = Node(k2, v2, c2, l2, r2)
    BY <1>1, NodeRed
  <2> QED
    BY <1>4, <2>1, <2>2
<1>10. FlipColors(t) = g
  BY <1>2, <1>3, <1>5 DEF FlipColors
<1> QED
  BY <1>1, <1>2, <1>8, <1>9, <1>10

LEMMA RedIs ==
  /\ ~IsRed(Nil)
  /\ \A k, v, l, r, red : IsRed(Node(k, v, red, l, r)) <=> red
<1>1. ASSUME NEW k, NEW v, NEW l, NEW r, NEW red
      PROVE  IsRed(Node(k, v, red, l, r)) <=> red
  <2>1. PICK t : t = Node(k, v, red, l, r)
    OBVIOUS
  <2>2. t # Nil /\ t.red = red
    BY <2>1, NodesAre
  <2> QED
    BY <2>1, <2>2 DEF IsRed
<1> QED
  BY <1>1 DEF IsRed

(* A subtree moved to the other side of a rotation stays in order.         *)
LEMMA JointMoves ==
  ASSUME NEW P \in SUBSET KeyValues, NEW P2 \in SUBSET KeyValues, NEW Q2 \in SUBSET KeyValues,
         NEW k \in NodeKeys, NEW v, NEW k2 \in NodeKeys, NEW v2
  PROVE  /\ Joint(P, k, v, Joint(P2, k2, v2, Q2)) = Joint(Joint(P, k, v, P2), k2, v2, Q2)
         /\ Apart(P, k, Joint(P2, k2, v2, Q2)) /\ Apart(P2, k2, Q2) =>
              Apart(P, k, P2) /\ Apart(Joint(P, k, v, P2), k2, Q2)
         /\ Apart(P, k, P2) /\ Apart(Joint(P, k, v, P2), k2, Q2) =>
              Apart(P, k, Joint(P2, k2, v2, Q2)) /\ Apart(P2, k2, Q2)
<1>1. k \in Nat /\ k2 \in Nat
  BY BytesAreCounted
<1>2. \A p \in KeyValues : p[1] \in Nat
  BY BytesAreCounted DEF KeyValues
<1>3. \A p : p \in P \/ p \in P2 \/ p \in Q2 => p[1] \in Nat
  BY <1>2
<1>4. <<k, v>>[1] = k /\ <<k2, v2>>[1] = k2
  OBVIOUS
<1>5. \A p : /\ p \in Joint(P, k, v, P2) <=> p \in P \/ p = <<k, v>> \/ p \in P2
             /\ p \in Joint(P2, k2, v2, Q2) <=> p \in P2 \/ p = <<k2, v2>> \/ p \in Q2
  BY DEF Joint
<1>6. Joint(P, k, v, Joint(P2, k2, v2, Q2)) = Joint(Joint(P, k, v, P2), k2, v2, Q2)
  BY DEF Joint
<1>7. ASSUME Apart(P, k, Joint(P2, k2, v2, Q2)), Apart(P2, k2, Q2)
      PROVE  Apart(P, k, P2) /\ Apart(Joint(P, k, v, P2), k2, Q2)
  <2>1. /\ \A p \in P : p[1] < k
        /\ \A p \in P2 : k < p[1] /\ p[1] < k2
        /\ \A p \in Q2 : k2 < p[1]
        /\ k < k2
    BY <1>4, <1>5, <1>7 DEF Apart
  <2>2. \A p \in P : p[1] < k2
    BY <1>1, <1>3, <2>1
  <2> QED
    BY <1>4, <1>5, <2>1, <2>2 DEF Apart
<1>8. ASSUME Apart(P, k, P2), Apart(Joint(P, k, v, P2), k2, Q2)
      PROVE  Apart(P, k, Joint(P2, k2, v2, Q2)) /\ Apart(P2, k2, Q2)
  <2>1. /\ \A p \in P : p[1] < k
        /\ \A p \in P2 : k < p[1] /\ p[1] < k2
        /\ \A p \in Q2 : k2 < p[1]
        /\ k < k2
    BY <1>4, <1>5, <1>8 DEF Apart
  <2>2. \A p \in Q2 : k < p[1]
    BY <1>1, <1>3, <2>1
  <2> QED
    BY <1>4, <1>5, <2>1, <2>2 DEF Apart
<1> QED
  BY <1>6, <1>7, <1>8

(* What the repairs come to.                                               *)
LEMMA BalanceIs ==
  \A h :
    /\ ~IsRed(h.right) /\ ~(IsRed(h.left) /\ IsRed(h.left.left)) => Balance(h) = h
    /\ ~IsRed(h.right) /\ IsRed(h.left) /\ IsRed(h.left.left)
         /\ IsRed(RotateRight(h).left) /\ IsRed(RotateRight(h).right)
         => Balance(h) = FlipColors(RotateRight(h))
    /\ IsRed(h.right) /\ ~IsRed(h.left)
         /\ ~IsRed(RotateLeft(h).left.left) /\ ~IsRed(RotateLeft(h).right)
         => Balance(h) = RotateLeft(h)
    /\ IsRed(h.right) /\ IsRed(h.left) /\ ~IsRed(h.left.left) => Balance(h) = FlipColors(h)
BY DEF Balance

(* A proper tree whose root is red: what it hangs above, and that it is    *)
(* proper with a black root.                                               *)
RedRoot(t, P, c, b, k, v, l, P1, c1, r, P2, c2) ==
  /\ HangsBy(t, P, c, b, Red, k, v, l, P1, c1, r, P2, c2)
  /\ ~IsRed(l)
  /\ IsProper(Node(k, v, Black, l, r), P, c, b + 1)

LEMMA RedIsNode ==
  ASSUME NEW t, NEW P, NEW c, NEW b, IsProper(t, P, c, b), IsRed(t)
  PROVE  \E k, v, l, P1, c1, r, P2, c2 : RedRoot(t, P, c, b, k, v, l, P1, c1, r, P2, c2)
<1>1. t # Nil /\ t.red
  BY DEF IsRed
<1>2. PICK red, b0 : /\ red \in BOOLEAN /\ Hangs(t, P, c, b0, red) /\ b = Blacks(red, b0)
                     /\ t.red = red /\ (red => ~IsRed(t.left))
  BY <1>1, ProperIs
<1>3. red = Red /\ b = b0 /\ ~IsRed(t.left)
  BY <1>1, <1>2, ColoursAre
<1>4. PICK k, v, l, P1, c1, r, P2, c2 : HangsBy(t, P, c, b, Red, k, v, l, P1, c1, r, P2, c2)
  BY <1>2, <1>3 DEF Hangs
<1>5. t.left = l
  BY <1>4, NodesAre DEF HangsBy
<1>6. ~IsRed(l)
  BY <1>3, <1>5
<1>7. IsProper(Node(k, v, Black, l, r), P, c, b + 1)
  <2>1. IsProper(Node(k, v, Black, l, r), Joint(P1, k, v, P2), c1 + c2 + 1, Blacks(Black, b))
    BY <1>4, ColoursAre, ProperNode DEF HangsBy
  <2> QED
    BY <1>4, <2>1, ColoursAre DEF HangsBy
<1>8. RedRoot(t, P, c, b, k, v, l, P1, c1, r, P2, c2)
  BY <1>4, <1>6, <1>7 DEF RedRoot
<1> QED
  BY <1>8

(* What the repairs make of a node above repaired subtrees: under a black  *)
(* root a proper tree, and under a red one whose left subtree has become   *)
(* red, one that its parent will repair.                                   *)
Settles(t, P, c, b, red) ==
  /\ ~red => IsProper(t, P, c, b + 1)
  /\ red => Hangs(t, P, c, b, Red)

LEMMA HangsSettles ==
  ASSUME NEW t, NEW P, NEW c, NEW b, NEW red \in BOOLEAN, Hangs(t, P, c, b, red)
  PROVE  Settles(t, P, c, b, red)
<1>1. CASE red = Red
  BY <1>1, ColoursAre DEF Settles
<1>2. CASE red = Black
  <2>1. IsProper(t, P, c, Blacks(red, b))
    BY <1>2, ColoursAre, HangsProper
  <2> QED
    BY <1>2, <2>1, ColoursAre DEF Settles
<1> QED
  BY <1>1, <1>2, ColoursAre

(* A node above proper trees, the right one black, needs no repair.        *)
LEMMA NodeSettles ==
  ASSUME NEW k \in NodeKeys, NEW v \in NodeValues, NEW red \in BOOLEAN,
         NEW l, NEW P, NEW c, NEW b, IsProper(l, P, c, b),
         NEW r, NEW Q, NEW d, IsProper(r, Q, d, b), Apart(P, k, Q), ~IsRed(r)
  PROVE  Settles(Balance(Node(k, v, red, l, r)), Joint(P, k, v, Q), c + d + 1, b, red)
<1>1. PICK h : h = Node(k, v, red, l, r)
  OBVIOUS
<1>2. h.left = l /\ h.right = r
  BY <1>1, NodesAre
<1>3. ~(IsRed(l) /\ IsRed(l.left))
  <2> SUFFICES ASSUME IsRed(l), IsRed(l.left) PROVE FALSE
    OBVIOUS
  <2>1. PICK k1, v1, l1, P1, c1, r1, P2, c2 : RedRoot(l, P, c, b, k1, v1, l1, P1, c1, r1, P2, c2)
    BY RedIsNode
  <2>2. l.left = l1 /\ ~IsRed(l1)
    BY <2>1, NodesAre DEF RedRoot, HangsBy
  <2> QED
    BY <2>2
<1>4. Balance(h) = h
  BY <1>2, <1>3, BalanceIs
<1>5. HangsBy(h, Joint(P, k, v, Q), c + d + 1, b, red, k, v, l, P, c, r, Q, d)
  BY <1>1 DEF HangsBy
<1>6. Hangs(h, Joint(P, k, v, Q), c + d + 1, b, red)
  BY <1>5 DEF Hangs
<1> QED
  BY <1>1, <1>4, <1>6, HangsSettles

(* After an insertion on the left.                                         *)
LEMMA LeftSettles ==
  ASSUME NEW k \in NodeKeys, NEW v \in NodeValues, NEW red \in BOOLEAN,
         NEW l, NEW P, NEW c, NEW b, NEW r, NEW Q, NEW d, IsProper(r, Q, d, b),
         Apart(P, k, Q), ~IsRed(r),
         IsProper(l, P, c, b) \/ (Hangs(l, P, c, b, Red) /\ ~red)
  PROVE  Settles(Balance(Node(k, v, red, l, r)), Joint(P, k, v, Q), c + d + 1, b, red)
<1>1. CASE IsProper(l, P, c, b)
  BY <1>1, NodeSettles
<1>2. CASE Hangs(l, P, c, b, Red) /\ ~red /\ ~IsProper(l, P, c, b)
  <2>1. red = Black
    BY <1>2, ColoursAre
  <2>2. PICK k1, v1, l1, P1, c1, r1, P2, c2 :
          HangsBy(l, P, c, b, Red, k1, v1, l1, P1, c1, r1, P2, c2)
    BY <1>2 DEF Hangs
  <2>3. /\ k1 \in NodeKeys /\ v1 \in NodeValues /\ l = Node(k1, v1, Red, l1, r1)
        /\ IsProper(l1, P1, c1, b) /\ IsProper(r1, P2, c2, b)
        /\ Apart(P1, k1, P2) /\ ~IsRed(r1)
        /\ P = Joint(P1, k1, v1, P2) /\ c = c1 + c2 + 1
    BY <2>2 DEF HangsBy
  <2>4. l.left = l1
    BY <2>3, NodesAre
  <2>5. IsRed(l1)
    <3> SUFFICES ASSUME ~IsRed(l1) PROVE FALSE
      OBVIOUS
    <3>1. IsProper(l, P, c, Blacks(Red, b))
      BY <1>2, <2>4, ColoursAre, HangsProper
    <3> QED
      BY <1>2, <3>1, ColoursAre
  <2>6. PICK k0, v0, l0, P0, c0, r0, Q0, d0 : RedRoot(l1, P1, c1, b, k0, v0, l0, P0, c0, r0, Q0, d0)
    BY <2>3, <2>5, RedIsNode
  <2>7. l1 = Node(k0, v0, Red, l0, r0) /\ IsProper(Node(k0, v0, Black, l0, r0), P1, c1, b + 1)
    BY <2>6 DEF RedRoot, HangsBy
  <2>8. PICK h : h = Node(k, v, Black, l, r)
    OBVIOUS
  <2>9. PICK w : w = Node(k, v, Red, r1, r)
    OBVIOUS
  <2>10. RotateRight(h) = Node(k1, v1, Black, l1, w)
    BY <2>3, <2>8, <2>9, RotatesRight
  <2>11. Balance(h) = FlipColors(RotateRight(h))
    <3>1. h.left = l /\ h.right = r /\ RotateRight(h).left = l1 /\ RotateRight(h).right = w
      BY <2>8, <2>10, NodesAre
    <3>2. IsRed(l) /\ IsRed(w)
      BY <2>3, <2>9, RedIs, ColoursAre
    <3> QED
      BY <2>4, <2>5, <3>1, <3>2, BalanceIs
  <2>12. PICK n, m : n = ~Black /\ m = ~Red
    OBVIOUS
  <2>13. PICK u, w2 : u = Node(k0, v0, m, l0, r0) /\ w2 = Node(k, v, m, r1, r)
    OBVIOUS
  <2>14. FlipColors(RotateRight(h)) = Node(k1, v1, n, u, w2)
    BY <2>7, <2>9, <2>10, <2>12, <2>13, Flips
  <2>15. /\ P1 \in SUBSET KeyValues /\ P2 \in SUBSET KeyValues /\ Q \in SUBSET KeyValues
         /\ c1 \in Nat /\ c2 \in Nat /\ d \in Nat /\ b \in Nat
    BY <2>3, ProperType
  <2>16. Apart(P1, k1, Joint(P2, k, v, Q)) /\ Apart(P2, k, Q)
         /\ Joint(P1, k1, v1, Joint(P2, k, v, Q)) = Joint(P, k, v, Q)
    BY <2>3, <2>15, JointMoves
  <2>17. n = Red /\ m = Black /\ n \in BOOLEAN /\ m \in BOOLEAN
    BY <2>12 DEF Red, Black
  <2>18. IsProper(w2, Joint(P2, k, v, Q), c2 + d + 1, b + 1)
    <3>1. IsProper(w2, Joint(P2, k, v, Q), c2 + d + 1, Blacks(m, b))
      BY <2>3, <2>13, <2>16, <2>17, ProperNode
    <3> QED
      BY <2>17, <3>1, ColoursAre
  <2>19. IsProper(u, P1, c1, b + 1)
    BY <2>7, <2>13, <2>17
  <2>20. ~IsRed(u) /\ ~IsRed(w2)
    BY <2>3, <2>13, <2>17, RedIs, ColoursAre
  <2>21. IsProper(Node(k1, v1, n, u, w2), Joint(P, k, v, Q), c + d + 1, b + 1)
    <3>1. IsProper(Node(k1, v1, n, u, w2), Joint(P1, k1, v1, Joint(P2, k, v, Q)),
                   c1 + (c2 + d + 1) + 1, Blacks(n, b + 1))
      BY <2>3, <2>16, <2>17, <2>18, <2>19, <2>20, ProperNode
    <3>2. c1 + (c2 + d + 1) + 1 = c + d + 1
      BY <2>3, <2>15
    <3> QED
      BY <2>16, <2>17, <3>1, <3>2, ColoursAre
  <2> QED
    BY <2>1, <2>8, <2>11, <2>14, <2>21, ColoursAre DEF Settles
<1> QED
  BY <1>1, <1>2

(* After an insertion on the right.                                        *)
LEMMA RightSettles ==
  ASSUME NEW k \in NodeKeys, NEW v \in NodeValues, NEW red \in BOOLEAN,
         NEW l, NEW P, NEW c, NEW b, IsProper(l, P, c, b),
         NEW r, NEW Q, NEW d, IsProper(r, Q, d, b), Apart(P, k, Q), red => ~IsRed(l)
  PROVE  Settles(Balance(Node(k, v, red, l, r)), Joint(P, k, v, Q), c + d + 1, b, red)
<1>0. PICK h : h = Node(k, v, red, l, r)
  OBVIOUS
<1>1. h.left = l /\ h.right = r
  BY <1>0, NodesAre
<1>2. /\ P \in SUBSET KeyValues /\ c \in Nat /\ d \in Nat /\ b \in Nat
  BY ProperType
<1>3. CASE ~IsRed(r)
  BY <1>3, NodeSettles
<1>4. CASE IsRed(r) /\ ~IsRed(l)
  <2>1. PICK k2, v2, l2, P2, c2, r2, Q2, d2 : RedRoot(r, Q, d, b, k2, v2, l2, P2, c2, r2, Q2, d2)
    BY <1>4, RedIsNode
  <2>2. /\ k2 \in NodeKeys /\ v2 \in NodeValues /\ r = Node(k2, v2, Red, l2, r2)
        /\ IsProper(l2, P2, c2, b) /\ IsProper(r2, Q2, d2, b)
        /\ Apart(P2, k2, Q2) /\ ~IsRed(l2) /\ ~IsRed(r2)
        /\ Q = Joint(P2, k2, v2, Q2) /\ d = c2 + d2 + 1
    BY <2>1 DEF RedRoot, HangsBy
  <2>3. PICK w : w = Node(k, v, Red, l, l2)
    OBVIOUS
  <2>4. RotateLeft(h) = Node(k2, v2, red, w, r2)
    BY <1>0, <2>2, <2>3, RotatesLeft
  <2>5. Balance(h) = RotateLeft(h)
    <3>1. RotateLeft(h).left = w /\ RotateLeft(h).right = r2 /\ w.left = l
      BY <2>3, <2>4, NodesAre
    <3> QED
      BY <1>1, <1>4, <2>2, <3>1, BalanceIs
  <2>6. P2 \in SUBSET KeyValues /\ Q2 \in SUBSET KeyValues /\ c2 \in Nat /\ d2 \in Nat
    BY <2>2, ProperType
  <2>7. /\ Apart(P, k, P2) /\ Apart(Joint(P, k, v, P2), k2, Q2)
        /\ Joint(P, k, v, Q) = Joint(Joint(P, k, v, P2), k2, v2, Q2)
    BY <1>2, <2>2, <2>6, JointMoves
  <2>8. IsProper(w, Joint(P, k, v, P2), c + c2 + 1, b)
    <3>1. IsProper(w, Joint(P, k, v, P2), c + c2 + 1, Blacks(Red, b))
      BY <1>4, <2>2, <2>3, <2>7, ColoursAre, ProperNode
    <3> QED
      BY <3>1, ColoursAre
  <2>9. (c + c2 + 1) + d2 + 1 = c + d + 1
    BY <1>2, <2>2, <2>6
  <2>10. HangsBy(Balance(h), Joint(P, k, v, Q), c + d + 1, b, red,
                 k2, v2, w, Joint(P, k, v, P2), c + c2 + 1, r2, Q2, d2)
    BY <2>2, <2>4, <2>5, <2>7, <2>8, <2>9 DEF HangsBy
  <2>11. Hangs(Balance(h), Joint(P, k, v, Q), c + d + 1, b, red)
    BY <2>10 DEF Hangs
  <2> QED
    BY <1>0, <2>11, HangsSettles
<1>5. CASE IsRed(r) /\ IsRed(l)
  <2>1. PICK k1, v1, l1, P1, c1, r1, Q1, d1 : RedRoot(l, P, c, b, k1, v1, l1, P1, c1, r1, Q1, d1)
    BY <1>5, RedIsNode
  <2>2. PICK k2, v2, l2, P2, c2, r2, Q2, d2 : RedRoot(r, Q, d, b, k2, v2, l2, P2, c2, r2, Q2, d2)
    BY <1>5, RedIsNode
  <2>3. PICK n, m : n = ~Black /\ m = ~Red
    OBVIOUS
  <2>4. n = Red /\ m = Black
    BY <2>3 DEF Red, Black
  <2>5. red = Black
    BY <1>5, ColoursAre
  <2>6. PICK u, w : u = Node(k1, v1, m, l1, r1) /\ w = Node(k2, v2, m, l2, r2)
    OBVIOUS
  <2>7. /\ IsProper(u, P, c, b + 1) /\ l = Node(k1, v1, Red, l1, r1) /\ ~IsRed(l1)
        /\ IsProper(w, Q, d, b + 1) /\ r = Node(k2, v2, Red, l2, r2)
    BY <2>1, <2>2, <2>4, <2>6 DEF RedRoot, HangsBy
  <2>8. FlipColors(h) = Node(k, v, n, u, w)
    BY <1>0, <2>3, <2>5, <2>6, <2>7, Flips
  <2>9. Balance(h) = FlipColors(h)
    <3>1. l.left = l1
      BY <2>7, NodesAre
    <3> QED
      BY <1>1, <1>5, <2>7, <3>1, BalanceIs
  <2>10. ~IsRed(u) /\ ~IsRed(w)
    BY <2>4, <2>6, RedIs, ColoursAre
  <2>11. IsProper(Node(k, v, Red, u, w), Joint(P, k, v, Q), c + d + 1, Blacks(Red, b + 1))
    BY <2>7, <2>10, ColoursAre, ProperNode
  <2>12. IsProper(Balance(h), Joint(P, k, v, Q), c + d + 1, b + 1)
    BY <2>4, <2>8, <2>9, <2>11, ColoursAre
  <2> QED
    BY <1>0, <2>5, <2>12, ColoursAre DEF Settles
<1> QED
  BY <1>3, <1>4, <1>5

LEMMA NodeOfTree ==
  ASSUME NEW t \in Tree, t # Nil
  PROVE  /\ t.key \in NodeKeys /\ t.val \in NodeValues /\ t.red \in BOOLEAN
         /\ t.left \in Tree /\ t.right \in Tree
         /\ t = Node(t.key, t.val, t.red, t.left, t.right)
<1>1. PICK n \in Nat : t \in Trees[n]
  BY DEF Tree
<1>2. /\ t.key \in NodeKeys /\ t.val \in NodeValues /\ t.red \in BOOLEAN
      /\ t.left \in Trees[n] /\ t.right \in Trees[n]
      /\ t = Node(t.key, t.val, t.red, t.left, t.right)
  BY <1>1, SubtreesAre
<1> QED
  BY <1>2 DEF Tree

(* A node of a tree.                                                       *)
IsNode(t) == t \in Tree /\ t # Nil

LEMMA NodeIsNode ==
  ASSUME NEW k \in NodeKeys, NEW v \in NodeValues, NEW red \in BOOLEAN,
         NEW l \in Tree, NEW r \in Tree
  PROVE  IsNode(Node(k, v, red, l, r))
BY TreeIs, NodesAre DEF IsNode

(* Repairs make nodes of nodes, whatever the tree.                         *)
LEMMA BalanceType ==
  ASSUME NEW t, IsNode(t)
  PROVE  IsNode(Balance(t))
<1>1. ASSUME NEW h, IsNode(h), IsRed(h.right)
      PROVE  IsNode(RotateLeft(h))
  <2>1. PICK u : u = h.right /\ IsNode(u)
    BY <1>1, NodeOfTree DEF IsNode, IsRed
  <2>2. h = Node(h.key, h.val, h.red, h.left, u) /\ u = Node(u.key, u.val, u.red, u.left, u.right)
    BY <1>1, <2>1, NodeOfTree DEF IsNode
  <2>3. PICK k, v, red, l, k2, v2, red2, l2, r2 :
          /\ k \in NodeKeys /\ v \in NodeValues /\ red \in BOOLEAN /\ l \in Tree
          /\ k2 \in NodeKeys /\ v2 \in NodeValues /\ red2 \in BOOLEAN /\ l2 \in Tree /\ r2 \in Tree
          /\ h = Node(k, v, red, l, u) /\ u = Node(k2, v2, red2, l2, r2)
    BY <1>1, <2>1, <2>2, NodeOfTree DEF IsNode
  <2>4. RotateLeft(h) = Node(k2, v2, red, Node(k, v, Red, l, l2), r2)
    BY <2>3, RotatesLeft
  <2>5. Node(k, v, Red, l, l2) \in Tree
    BY <2>3, ColoursAre, TreeIs
  <2> QED
    BY <2>3, <2>4, <2>5, NodeIsNode
<1>2. ASSUME NEW h, IsNode(h), IsRed(h.left)
      PROVE  IsNode(RotateRight(h))
  <2>1. PICK u : u = h.left /\ IsNode(u)
    BY <1>2, NodeOfTree DEF IsNode, IsRed
  <2>2. h = Node(h.key, h.val, h.red, u, h.right) /\ u = Node(u.key, u.val, u.red, u.left, u.right)
    BY <1>2, <2>1, NodeOfTree DEF IsNode
  <2>3. PICK k, v, red, r, k2, v2, red2, l2, r2 :
          /\ k \in NodeKeys /\ v \in NodeValues /\ red \in BOOLEAN /\ r \in Tree
          /\ k2 \in NodeKeys /\ v2 \in NodeValues /\ red2 \in BOOLEAN /\ l2 \in Tree /\ r2 \in Tree
          /\ h = Node(k, v, red, u, r) /\ u = Node(k2, v2, red2, l2, r2)
    BY <1>2, <2>1, <2>2, NodeOfTree DEF IsNode
  <2>4. RotateRight(h) = Node(k2, v2, red, l2, Node(k, v, Red, r2, r))
    BY <2>3, RotatesRight
  <2>5. Node(k, v, Red, r2, r) \in Tree
    BY <2>3, ColoursAre, TreeIs
  <2> QED
    BY <2>3, <2>4, <2>5, NodeIsNode
<1>3. ASSUME NEW h, IsNode(h), IsRed(h.left), IsRed(h.right)
      PROVE  IsNode(FlipColors(h))
  <2>1. PICK u, w : u = h.left /\ IsNode(u) /\ w = h.right /\ IsNode(w)
    BY <1>3, NodeOfTree DEF IsNode, IsRed
  <2>2. /\ h = Node(h.key, h.val, h.red, u, w) /\ u = Node(u.key, u.val, u.red, u.left, u.right)
        /\ w = Node(w.key, w.val, w.red, w.left, w.right)
    BY <1>3, <2>1, NodeOfTree DEF IsNode
  <2>3. PICK k, v, red, k1, v1, red1, l1, r1, k2, v2, red2, l2, r2 :
          /\ k \in NodeKeys /\ v \in NodeValues /\ red \in BOOLEAN
          /\ k1 \in NodeKeys /\ v1 \in NodeValues /\ red1 \in BOOLEAN /\ l1 \in Tree /\ r1 \in Tree
          /\ k2 \in NodeKeys /\ v2 \in NodeValues /\ red2 \in BOOLEAN /\ l2 \in Tree /\ r2 \in Tree
          /\ h = Node(k, v, red, u, w) /\ u = Node(k1, v1, red1, l1, r1)
          /\ w = Node(k2, v2, red2, l2, r2)
    BY <1>3, <2>1, <2>2, NodeOfTree DEF IsNode
  <2>4. PICK n, n1, n2 : n = ~red /\ n1 = ~red1 /\ n2 = ~red2
    OBVIOUS
  <2>5. FlipColors(h) = Node(k, v, n, Node(k1, v1, n1, l1, r1), Node(k2, v2, n2, l2, r2))
    BY <2>3, <2>4, Flips
  <2>6. n \in BOOLEAN /\ n1 \in BOOLEAN /\ n2 \in BOOLEAN
    BY <2>4
  <2>7. Node(k1, v1, n1, l1, r1) \in Tree /\ Node(k2, v2, n2, l2, r2) \in Tree
    BY <2>3, <2>6, TreeIs
  <2> QED
    BY <2>3, <2>5, <2>6, <2>7, NodeIsNode
<1>4. PICK a : a = IF IsRed(t.right) /\ ~IsRed(t.left) THEN RotateLeft(t) ELSE t
  OBVIOUS
<1>5. IsNode(a)
  BY <1>1, <1>4
<1>6. PICK d : d = IF IsRed(a.left) /\ IsRed(a.left.left) THEN RotateRight(a) ELSE a
  OBVIOUS
<1>7. IsNode(d)
  BY <1>2, <1>5, <1>6
<1>8. Balance(t) = IF IsRed(d.left) /\ IsRed(d.right) THEN FlipColors(d) ELSE d
  BY <1>4, <1>6 DEF Balance
<1> QED
  BY <1>3, <1>7, <1>8

(* What the insertion into a subtree answers, by the answers for its       *)
(* subtrees.                                                               *)
NewNode(k, v) == [node |-> Node(k, v, Red, Nil, Nil), added |-> TRUE, delta |-> k + v]

Renewed(in, node) == [in EXCEPT !.node = node]

InsertStep(t, k, v, a, b) ==
  IF k = t.key THEN Replaced(t, v)
  ELSE IF k < t.key THEN Renewed(a, Balance(WithLeft(t, a.node)))
  ELSE Renewed(b, Balance(WithRight(t, b.node)))

InsertsInto(in, n, k, v) ==
  in = [h \in Trees[n] |->
         IF h = Nil
           THEN [node  |-> [key |-> k, val |-> v, red |-> TRUE, left |-> Nil, right |-> Nil],
                 added |-> TRUE, delta |-> k + v]
         ELSE IF k = h.key THEN Replaced(h, v)
         ELSE LET sub == in[IF k < h.key THEN h.left ELSE h.right]
              IN  [sub EXCEPT !.node = Balance(
                    IF k < h.key THEN [h EXCEPT !.left = sub.node]
                                 ELSE [h EXCEPT !.right = sub.node])]]

Outcomes == [node : Tree, added : BOOLEAN, delta : Int]

LEMMA InsertStepType ==
  ASSUME NEW t \in Tree, t # Nil, NEW k \in NodeKeys, NEW v \in NodeValues,
         NEW a \in Outcomes, NEW b \in Outcomes
  PROVE  InsertStep(t, k, v, a, b) \in Outcomes
<1>1. /\ t.key \in NodeKeys /\ t.val \in NodeValues /\ t.red \in BOOLEAN
      /\ t.left \in Tree /\ t.right \in Tree
      /\ t = Node(t.key, t.val, t.red, t.left, t.right)
  BY NodeOfTree
<1>2. /\ k \in Int /\ v \in Int /\ t.val \in Int
      /\ \A x \in NodeValues : x \in Int
  BY <1>1, BytesAreCounted
<1>3. ASSUME NEW x \in Tree
      PROVE  /\ WithLeft(t, x) = Node(t.key, t.val, t.red, x, t.right)
             /\ WithRight(t, x) = Node(t.key, t.val, t.red, t.left, x)
  BY <1>1, NodeWith
<1>4. \A x \in Tree : IsNode(WithLeft(t, x)) /\ IsNode(WithRight(t, x))
  BY <1>1, <1>3, NodeIsNode
<1>5. \A x \in Tree : Balance(WithLeft(t, x)) \in Tree /\ Balance(WithRight(t, x)) \in Tree
  BY <1>4, BalanceType DEF IsNode
<1>6. \A o \in Outcomes : o.node \in Tree
  BY DEF Outcomes
<1>7. \A o \in Outcomes, x \in Tree : Renewed(o, x) \in Outcomes
  BY DEF Outcomes, Renewed
<1>8. Replaced(t, v) \in Outcomes
  <2>1. WithVal(t, v) \in Tree
    <3>1. PICK kk, vv, red, l, r :
            /\ kk \in NodeKeys /\ vv \in NodeValues /\ red \in BOOLEAN /\ l \in Tree /\ r \in Tree
            /\ t = Node(kk, vv, red, l, r)
      BY <1>1
    <3>2. WithVal(t, v) = Node(kk, v, red, l, r)
      BY <3>1, NodeVal
    <3> QED
      BY <3>1, <3>2, TreeIs
  <2>2. Replaced(t, v) = [node |-> WithVal(t, v), added |-> FALSE, delta |-> v - t.val]
    BY DEF Replaced, WithVal
  <2> QED
    BY <1>2, <2>1, <2>2 DEF Outcomes
<1> QED
  BY <1>5, <1>6, <1>7, <1>8 DEF InsertStep

(* What holds of no tree, and of a tree when it does of its subtrees,      *)
(* holds of every tree.                                                    *)
LEMMA TreesInduct ==
  ASSUME NEW n \in Nat, NEW G, Nil \in G,
         \A t \in Trees[n] : t # Nil /\ t.left \in G /\ t.right \in G => t \in G
  PROVE  Trees[n] \subseteq G
<1> DEFINE Bad == {m \in Nat : m <= n /\ ~(Trees[m] \subseteq G)}
<1>1. Bad = {}
  <2> SUFFICES ASSUME Bad # {} PROVE FALSE
    OBVIOUS
  <2>1. PICK m \in Bad : \A j \in Bad : m <= j
    BY LeastNat
  <2>2. m \in Nat /\ m <= n
    OBVIOUS
  <2>3. PICK t \in Trees[m] : t \notin G
    OBVIOUS
  <2>4. /\ m # 0 /\ t # Nil
        /\ t.left \in Trees[m - 1] /\ t.right \in Trees[m - 1]
    BY <2>2, <2>3, SubtreesAre
  <2>5. m - 1 \in Nat /\ m - 1 <= n /\ m - 1 \notin Bad
    BY <2>1, <2>2, <2>4
  <2>6. t \in Trees[n]
    BY <2>2, TreesGrow
  <2> QED
    BY <2>3, <2>4, <2>5, <2>6
<1> QED
  BY <1>1

(* The insertion is a function that exists.                                *)
LEMMA InsertUnfolds ==
  ASSUME NEW k \in NodeKeys, NEW v \in NodeValues, NEW n \in Nat, n = treeCount
  PROVE  \E in \in [Trees[n] -> Outcomes] :
           /\ Insert(k, v) = in[root]
           /\ in[Nil] = NewNode(k, v)
           /\ \A t \in Trees[n] : t # Nil =>
                in[t] = InsertStep(t, k, v, in[t.left], in[t.right])
<1> DEFINE V == Outcomes
           step == [p \in (Trees[n] \X V \X V) |-> InsertStep(p[1], k, v, p[2], p[3])]
<1>1. NewNode(k, v) \in V
  <2>1. k \in Int /\ v \in Int
    BY BytesAreCounted
  <2>2. Node(k, v, Red, Nil, Nil) \in Tree
    BY ColoursAre, TreeIs
  <2> QED
    BY <2>1, <2>2 DEF NewNode, Outcomes
<1>2. ASSUME NEW t \in Trees[n] \ {Nil}, NEW a \in V, NEW b \in V
      PROVE  step[<<t, a, b>>] = InsertStep(t, k, v, a, b) /\ step[<<t, a, b>>] \in V
  <2>1. t \in Tree /\ t # Nil
    BY DEF Tree
  <2>2. InsertStep(t, k, v, a, b) \in V
    BY <2>1, InsertStepType
  <2>3. step[<<t, a, b>>] = InsertStep(t, k, v, a, b)
    OBVIOUS
  <2> HIDE DEF step
  <2> QED
    BY <2>2, <2>3
<1>3. Branches(n, V, NewNode(k, v), step)
  <2> HIDE DEF V, step
  <2> QED
    BY <1>1, <1>2 DEF Branches
<1>4. PICK in \in [Trees[n] -> V] : Branched(in, n, NewNode(k, v), step)
  <2> HIDE DEF V, step
  <2> QED
    BY <1>3, TreeRecursion
<1>5. /\ in[Nil] = NewNode(k, v)
      /\ \A t \in Trees[n] : t # Nil => in[t] = InsertStep(t, k, v, in[t.left], in[t.right])
  <2>1. in[Nil] = NewNode(k, v)
    BY <1>4 DEF Branched
  <2>2. ASSUME NEW t \in Trees[n], t # Nil
        PROVE  in[t] = InsertStep(t, k, v, in[t.left], in[t.right])
    <3>1. in[t.left] \in V /\ in[t.right] \in V
      BY <1>4, <2>2, SubtreesAre
    <3>2. in[t] = step[<<t, in[t.left], in[t.right]>>]
      BY <1>4, <2>2 DEF Branched
    <3> HIDE DEF step, V
    <3> QED
      BY <1>2, <2>2, <3>1, <3>2
  <2> QED
    BY <2>1, <2>2
<1> HIDE DEF V, step
<1>6. InsertsInto(in, n, k, v)
  <2>1. \A t \in Trees[n] : t # Nil => in[t] =
          IF k = t.key THEN Replaced(t, v)
          ELSE LET sub == in[IF k < t.key THEN t.left ELSE t.right]
               IN  [sub EXCEPT !.node = Balance(
                     IF k < t.key THEN [t EXCEPT !.left = sub.node]
                                  ELSE [t EXCEPT !.right = sub.node])]
    BY <1>5 DEF InsertStep, Renewed, WithLeft, WithRight
  <2>2. in[Nil] = [node  |-> [key |-> k, val |-> v, red |-> TRUE, left |-> Nil, right |-> Nil],
                   added |-> TRUE, delta |-> k + v]
    BY <1>5 DEF NewNode, Node, Red
  <2>3. in = [t \in Trees[n] |-> in[t]]
    BY <1>4
  <2> QED
    BY <2>1, <2>2, <2>3 DEF InsertsInto
<1>7. PICK f : f = CHOOSE g : InsertsInto(g, n, k, v)
  OBVIOUS
<1>8. InsertsInto(f, n, k, v)
  BY <1>6, <1>7, Zenon
<1>9. Insert(k, v) = f[root]
  BY <1>7 DEF Insert, InsertsInto
<1>10. \A t \in Trees[n] : t # Nil => f[t] = InsertStep(t, k, v, f[t.left], f[t.right])
  <2>1. \A t \in Trees[n] : t # Nil => f[t] =
          IF k = t.key THEN Replaced(t, v)
          ELSE LET sub == f[IF k < t.key THEN t.left ELSE t.right]
               IN  [sub EXCEPT !.node = Balance(
                     IF k < t.key THEN [t EXCEPT !.left = sub.node]
                                  ELSE [t EXCEPT !.right = sub.node])]
    BY <1>8 DEF InsertsInto
  <2> QED
    BY <2>1 DEF InsertStep, Renewed, WithLeft, WithRight
<1>11. f[Nil] = NewNode(k, v)
  <2>1. Nil \in Trees[n]
    BY HigherIs
  <2> QED
    BY <1>8, <2>1 DEF InsertsInto, NewNode, Node, Red
<1>12. Trees[n] \subseteq {t \in Trees[n] : f[t] = in[t]}
  <2> DEFINE G == {t \in Trees[n] : f[t] = in[t]}
  <2>1. Nil \in G
    BY <1>5, <1>11, HigherIs
  <2>2. \A t \in Trees[n] : t # Nil /\ t.left \in G /\ t.right \in G => t \in G
    BY <1>5, <1>10
  <2> HIDE DEF G
  <2>3. Trees[n] \subseteq G
    BY <2>1, <2>2, TreesInduct
  <2> QED
    BY <2>3 DEF G
<1>13. f[root] = in[root]
  <2>1. f = [t \in Trees[n] |-> f[t]] /\ in = [t \in Trees[n] |-> in[t]]
    BY <1>4, <1>8 DEF InsertsInto
  <2>2. f = in
    BY <1>12, <2>1
  <2> QED
    BY <2>2
<1>14. in \in [Trees[n] -> Outcomes]
  BY <1>4 DEF V
<1> QED
  BY <1>5, <1>9, <1>13, <1>14

(* The pairs after value v is put for key k.                               *)
AfterPut(P, k, v) == {p \in P : p[1] # k} \cup {<<k, v>>}

(* An insertion tells whether it added a key, and by how much the bytes    *)
(* grew.                                                                   *)
Tells(o, P, k, v) ==
  /\ (\A p \in P : p[1] # k) => o.added /\ o.delta = k + v
  /\ \A p \in P : p[1] = k => ~o.added /\ o.delta = v - p[2]

Grows(o, c) == IF o.added THEN c + 1 ELSE c

(* What the insertion into a tree of that colour, with those pairs, nodes  *)
(* and black nodes, should answer.                                         *)
InsertedInto(o, red, P, c, b, k, v) ==
  /\ Tells(o, P, k, v)
  /\ ~red => IsProper(o.node, AfterPut(P, k, v), Grows(o, c), b)
  /\ red => Hangs(o.node, AfterPut(P, k, v), Grows(o, c), b, Red)

(* Keys are numbers; what is apart of a key does not hold it.              *)
LEMMA ApartFrom ==
  ASSUME NEW P \in SUBSET KeyValues, NEW Q \in SUBSET KeyValues, NEW k \in NodeKeys,
         Apart(P, k, Q)
  PROVE  /\ \A p \in P : p[1] # k /\ \A i \in NodeKeys : k < i => p[1] # i
         /\ \A p \in Q : p[1] # k /\ \A i \in NodeKeys : i < k => p[1] # i
         /\ \A i \in NodeKeys : k = i \/ k < i \/ i < k
         /\ \A i \in NodeKeys : ~(k = i /\ k < i) /\ ~(k = i /\ i < k) /\ ~(k < i /\ i < k)
<1>1. k \in Int /\ NodeKeys \subseteq Int
  BY BytesAreCounted
<1>2. \A p \in KeyValues : p[1] \in NodeKeys
  BY DEF KeyValues
<1>3. \A p \in P : p[1] \in Int /\ p[1] < k
  BY <1>1, <1>2 DEF Apart
<1>4. \A p \in Q : p[1] \in Int /\ k < p[1]
  BY <1>1, <1>2 DEF Apart
<1>5. \A p \in P : p[1] # k /\ \A i \in NodeKeys : k < i => p[1] # i
  <2> SUFFICES ASSUME NEW p \in P, NEW i \in NodeKeys
               PROVE  p[1] # k /\ (k < i => p[1] # i)
    BY <1>1, <1>3
  <2> QED
    BY <1>1, <1>3
<1>6. \A p \in Q : p[1] # k /\ \A i \in NodeKeys : i < k => p[1] # i
  <2> SUFFICES ASSUME NEW p \in Q, NEW i \in NodeKeys
               PROVE  p[1] # k /\ (i < k => p[1] # i)
    BY <1>1, <1>4
  <2> QED
    BY <1>1, <1>4
<1>7. ASSUME NEW i \in NodeKeys
      PROVE  /\ k = i \/ k < i \/ i < k
             /\ ~(k = i /\ k < i) /\ ~(k = i /\ i < k) /\ ~(k < i /\ i < k)
  BY <1>1
<1> QED
  BY <1>5, <1>6, <1>7

LEMMA AfterPutJoint ==
  ASSUME NEW P \in SUBSET KeyValues, NEW Q \in SUBSET KeyValues,
         NEW k \in NodeKeys, NEW v, NEW k0 \in NodeKeys, NEW v0, Apart(P, k0, Q)
  PROVE  /\ k = k0 => AfterPut(Joint(P, k0, v0, Q), k, v) = Joint(P, k0, v, Q)
         /\ k < k0 => /\ AfterPut(Joint(P, k0, v0, Q), k, v) = Joint(AfterPut(P, k, v), k0, v0, Q)
                      /\ Apart(AfterPut(P, k, v), k0, Q)
         /\ k0 < k => /\ AfterPut(Joint(P, k0, v0, Q), k, v) = Joint(P, k0, v0, AfterPut(Q, k, v))
                      /\ Apart(P, k0, AfterPut(Q, k, v))
<1>2. <<k0, v0>>[1] = k0 /\ <<k, v>>[1] = k
  OBVIOUS
<1>3. k = k0 => AfterPut(Joint(P, k0, v0, Q), k, v) = Joint(P, k0, v, Q)
  <2> SUFFICES ASSUME k = k0
               PROVE  AfterPut(Joint(P, k0, v0, Q), k, v) = Joint(P, k0, v, Q)
    OBVIOUS
  <2>1. (\A p \in P : p[1] # k) /\ (\A p \in Q : p[1] # k)
    BY ApartFrom
  <2> QED
    BY <1>2, <2>1 DEF AfterPut, Joint
<1>4. ASSUME k < k0
      PROVE  /\ AfterPut(Joint(P, k0, v0, Q), k, v) = Joint(AfterPut(P, k, v), k0, v0, Q)
             /\ Apart(AfterPut(P, k, v), k0, Q)
  <2>1. (\A p \in Q : p[1] # k) /\ k # k0
    BY <1>4, ApartFrom
  <2>3. AfterPut(Joint(P, k0, v0, Q), k, v) = Joint(AfterPut(P, k, v), k0, v0, Q)
    BY <1>2, <2>1 DEF AfterPut, Joint
  <2>4. Apart(AfterPut(P, k, v), k0, Q)
    BY <1>2, <1>4 DEF AfterPut, Apart
  <2> QED
    BY <2>3, <2>4
<1>5. ASSUME k0 < k
      PROVE  /\ AfterPut(Joint(P, k0, v0, Q), k, v) = Joint(P, k0, v0, AfterPut(Q, k, v))
             /\ Apart(P, k0, AfterPut(Q, k, v))
  <2>1. (\A p \in P : p[1] # k) /\ k # k0
    BY <1>5, ApartFrom
  <2>3. AfterPut(Joint(P, k0, v0, Q), k, v) = Joint(P, k0, v0, AfterPut(Q, k, v))
    BY <1>2, <2>1 DEF AfterPut, Joint
  <2>4. Apart(P, k0, AfterPut(Q, k, v))
    BY <1>2, <1>5 DEF AfterPut, Apart
  <2> QED
    BY <2>3, <2>4
<1> QED
  BY <1>3, <1>4, <1>5

LEMMA TellsJoint ==
  ASSUME NEW P \in SUBSET KeyValues, NEW Q \in SUBSET KeyValues,
         NEW k \in NodeKeys, NEW v, NEW k0 \in NodeKeys, NEW v0, Apart(P, k0, Q),
         NEW o
  PROVE  /\ k < k0 /\ Tells(o, P, k, v) => Tells(o, Joint(P, k0, v0, Q), k, v)
         /\ k0 < k /\ Tells(o, Q, k, v) => Tells(o, Joint(P, k0, v0, Q), k, v)
<1>1. \A p : p \in Joint(P, k0, v0, Q) <=> p \in P \/ p = <<k0, v0>> \/ p \in Q
  BY DEF Joint
<1>2. <<k0, v0>>[1] = k0
  OBVIOUS
<1>3. ASSUME k < k0, Tells(o, P, k, v)
      PROVE  Tells(o, Joint(P, k0, v0, Q), k, v)
  <2>1. (\A p \in Q : p[1] # k) /\ k # k0
    BY <1>3, ApartFrom
  <2> QED
    BY <1>1, <1>2, <1>3, <2>1 DEF Tells
<1>4. ASSUME k0 < k, Tells(o, Q, k, v)
      PROVE  Tells(o, Joint(P, k0, v0, Q), k, v)
  <2>1. (\A p \in P : p[1] # k) /\ k # k0
    BY <1>4, ApartFrom
  <2> QED
    BY <1>1, <1>2, <1>4, <2>1 DEF Tells
<1> QED
  BY <1>3, <1>4

LEMMA RenewedIs ==
  ASSUME NEW o \in Outcomes, NEW x
  PROVE  /\ Renewed(o, x).node = x
         /\ \A P, k, v : Tells(o, P, k, v) => Tells(Renewed(o, x), P, k, v)
         /\ \A c : Grows(Renewed(o, x), c) = Grows(o, c)
<1>1. /\ Renewed(o, x).node = x /\ Renewed(o, x).added = o.added
      /\ Renewed(o, x).delta = o.delta
  BY DEF Renewed, Outcomes
<1> QED
  BY <1>1 DEF Tells, Grows

LEMMA InsertsLeft ==
  ASSUME NEW k \in NodeKeys, NEW v \in NodeValues, NEW red \in BOOLEAN,
         NEW k0 \in NodeKeys, NEW v0 \in NodeValues,
         NEW l, NEW P, NEW c, NEW b, IsProper(l, P, c, b),
         NEW r, NEW Q, NEW d, IsProper(r, Q, d, b),
         Apart(P, k0, Q), ~IsRed(r), red => ~IsRed(l), k < k0,
         NEW a \in Outcomes, InsertedInto(a, IsRed(l), P, c, b, k, v)
  PROVE  InsertedInto(Renewed(a, Balance(Node(k0, v0, red, a.node, r))), red,
                      Joint(P, k0, v0, Q), c + d + 1, Blacks(red, b), k, v)
<1> DEFINE n == Balance(Node(k0, v0, red, a.node, r))
<1>1. /\ P \in SUBSET KeyValues /\ Q \in SUBSET KeyValues /\ c \in Nat /\ d \in Nat /\ b \in Nat
  BY ProperType
<1>2. IsProper(a.node, AfterPut(P, k, v), Grows(a, c), b)
        \/ (Hangs(a.node, AfterPut(P, k, v), Grows(a, c), b, Red) /\ ~red)
  BY DEF InsertedInto
<1>3. /\ AfterPut(Joint(P, k0, v0, Q), k, v) = Joint(AfterPut(P, k, v), k0, v0, Q)
      /\ Apart(AfterPut(P, k, v), k0, Q)
  BY <1>1, AfterPutJoint
<1>4. Settles(n, AfterPut(Joint(P, k0, v0, Q), k, v), Grows(a, c) + d + 1, b, red)
  BY <1>2, <1>3, LeftSettles
<1>5. Tells(Renewed(a, n), Joint(P, k0, v0, Q), k, v)
  BY <1>1, TellsJoint, RenewedIs DEF InsertedInto
<1>6. Grows(Renewed(a, n), c + d + 1) = Grows(a, c) + d + 1 /\ Renewed(a, n).node = n
  <2>1. Grows(a, c + d + 1) = Grows(a, c) + d + 1
    BY <1>1 DEF Grows
  <2> QED
    BY <2>1, RenewedIs
<1> HIDE DEF n
<1>7. Blacks(red, b) = IF red THEN b ELSE b + 1
  BY DEF Blacks
<1>8. CASE red
  BY <1>4, <1>5, <1>6, <1>7, <1>8 DEF Settles, InsertedInto, n
<1>9. CASE ~red
  BY <1>4, <1>5, <1>6, <1>7, <1>9 DEF Settles, InsertedInto, n
<1> QED
  BY <1>8, <1>9

LEMMA InsertsRight ==
  ASSUME NEW k \in NodeKeys, NEW v \in NodeValues, NEW red \in BOOLEAN,
         NEW k0 \in NodeKeys, NEW v0 \in NodeValues,
         NEW l, NEW P, NEW c, NEW b, IsProper(l, P, c, b),
         NEW r, NEW Q, NEW d, IsProper(r, Q, d, b),
         Apart(P, k0, Q), ~IsRed(r), red => ~IsRed(l), k0 < k,
         NEW a \in Outcomes, InsertedInto(a, IsRed(r), Q, d, b, k, v)
  PROVE  InsertedInto(Renewed(a, Balance(Node(k0, v0, red, l, a.node))), red,
                      Joint(P, k0, v0, Q), c + d + 1, Blacks(red, b), k, v)
<1> DEFINE n == Balance(Node(k0, v0, red, l, a.node))
<1>1. /\ P \in SUBSET KeyValues /\ Q \in SUBSET KeyValues /\ c \in Nat /\ d \in Nat /\ b \in Nat
  BY ProperType
<1>2. IsProper(a.node, AfterPut(Q, k, v), Grows(a, d), b)
  BY DEF InsertedInto
<1>3. /\ AfterPut(Joint(P, k0, v0, Q), k, v) = Joint(P, k0, v0, AfterPut(Q, k, v))
      /\ Apart(P, k0, AfterPut(Q, k, v))
  BY <1>1, AfterPutJoint
<1>4. Settles(n, AfterPut(Joint(P, k0, v0, Q), k, v), c + Grows(a, d) + 1, b, red)
  BY <1>2, <1>3, RightSettles
<1>5. Tells(Renewed(a, n), Joint(P, k0, v0, Q), k, v)
  BY <1>1, TellsJoint, RenewedIs DEF InsertedInto
<1>6. Grows(Renewed(a, n), c + d + 1) = c + Grows(a, d) + 1 /\ Renewed(a, n).node = n
  <2>1. Grows(a, c + d + 1) = c + Grows(a, d) + 1
    BY <1>1 DEF Grows
  <2> QED
    BY <2>1, RenewedIs
<1> HIDE DEF n
<1>7. Blacks(red, b) = IF red THEN b ELSE b + 1
  BY DEF Blacks
<1>8. CASE red
  BY <1>4, <1>5, <1>6, <1>7, <1>8 DEF Settles, InsertedInto, n
<1>9. CASE ~red
  BY <1>4, <1>5, <1>6, <1>7, <1>9 DEF Settles, InsertedInto, n
<1> QED
  BY <1>8, <1>9

LEMMA InsertsHere ==
  ASSUME NEW k \in NodeKeys, NEW v \in NodeValues, NEW red \in BOOLEAN, NEW v0 \in NodeValues,
         NEW l, NEW P, NEW c, NEW b, IsProper(l, P, c, b),
         NEW r, NEW Q, NEW d, IsProper(r, Q, d, b),
         Apart(P, k, Q), ~IsRed(r), red => ~IsRed(l)
  PROVE  InsertedInto(Replaced(Node(k, v0, red, l, r), v), red,
                      Joint(P, k, v0, Q), c + d + 1, Blacks(red, b), k, v)
<1> DEFINE n == Node(k, v, red, l, r)
           o == Replaced(Node(k, v0, red, l, r), v)
<1>1. /\ P \in SUBSET KeyValues /\ Q \in SUBSET KeyValues /\ c \in Nat /\ d \in Nat /\ b \in Nat
  BY ProperType
<1>2. AfterPut(Joint(P, k, v0, Q), k, v) = Joint(P, k, v, Q)
  BY <1>1, AfterPutJoint
<1>3. IsProper(n, AfterPut(Joint(P, k, v0, Q), k, v), c + d + 1, Blacks(red, b))
  BY <1>2, ProperNode
<1>4. HangsBy(n, AfterPut(Joint(P, k, v0, Q), k, v), c + d + 1, b, red, k, v, l, P, c, r, Q, d)
  BY <1>2 DEF HangsBy
<1>5. Hangs(n, AfterPut(Joint(P, k, v0, Q), k, v), c + d + 1, b, red)
  BY <1>4 DEF Hangs
<1>6. o.node = n /\ ~o.added /\ o.delta = v - v0
  <2>1. Node(k, v0, red, l, r).val = v0
    BY NodesAre
  <2>2. WithVal(Node(k, v0, red, l, r), v) = n
    BY NodeVal
  <2> QED
    BY <2>1, <2>2 DEF Replaced, WithVal
<1> HIDE DEF n, o
<1>7. \A p \in Joint(P, k, v0, Q) : p[1] = k => p = <<k, v0>>
  <2>2. \A p \in P \cup Q : p[1] # k
    BY <1>1, ApartFrom
  <2> QED
    BY <2>2 DEF Joint
<1>8. <<k, v0>> \in Joint(P, k, v0, Q) /\ <<k, v0>>[1] = k /\ <<k, v0>>[2] = v0
  BY DEF Joint
<1>9. Tells(o, Joint(P, k, v0, Q), k, v)
  BY <1>6, <1>7, <1>8 DEF Tells
<1>10. Grows(o, c + d + 1) = c + d + 1
  BY <1>6 DEF Grows
<1>11. CASE red
  <2>1. red = Red /\ Blacks(red, b) = b
    BY <1>11 DEF Red, Blacks
  <2> QED
    BY <1>5, <1>6, <1>9, <1>10, <1>11, <2>1 DEF InsertedInto, o
<1>12. CASE ~red
  BY <1>3, <1>6, <1>9, <1>10, <1>12 DEF InsertedInto, o
<1> QED
  BY <1>11, <1>12

LEMMA InsertsNew ==
  ASSUME NEW k \in NodeKeys, NEW v \in NodeValues
  PROVE  InsertedInto(NewNode(k, v), IsRed(Nil), {}, 0, 0, k, v)
<1> DEFINE o == NewNode(k, v)
<1>1. o.node = Node(k, v, Red, Nil, Nil) /\ o.added /\ o.delta = k + v
  BY DEF NewNode
<1>2. Apart({}, k, {}) /\ ~IsRed(Nil) /\ Red \in BOOLEAN /\ Blacks(Red, 0) = 0
  BY RedIs, ColoursAre DEF Apart
<1>3. IsProper(Node(k, v, Red, Nil, Nil), Joint({}, k, v, {}), 0 + 0 + 1, Blacks(Red, 0))
  BY <1>2, ProperNil, ProperNode
<1>4. AfterPut({}, k, v) = Joint({}, k, v, {})
  BY DEF AfterPut, Joint
<1>5. Grows(o, 0) = 1
  BY <1>1 DEF Grows
<1>6. Tells(o, {}, k, v)
  BY <1>1 DEF Tells
<1> HIDE DEF o
<1>7. IsProper(o.node, AfterPut({}, k, v), Grows(o, 0), 0)
  BY <1>1, <1>2, <1>3, <1>4, <1>5
<1> QED
  BY <1>2, <1>6, <1>7 DEF InsertedInto, o

(* What holds of no tree, and of the node above two proper trees when it   *)
(* does of them, holds of every proper tree.                               *)
ClosedWithin(S) ==
  /\ S \subseteq Proper /\ NoTree \in S
  /\ \A x, y \in S, k \in NodeKeys, v \in NodeValues, red \in BOOLEAN :
       MayJoin(x, y, k, red) /\ JoinedBy(x, y, k, v, red) \in Proper
         => JoinedBy(x, y, k, v, red) \in S

LEMMA ProperInduct ==
  ASSUME NEW S, ClosedWithin(S), NEW t, NEW P, NEW c, NEW b, IsProper(t, P, c, b)
  PROVE  <<t, P, c, b>> \in S
<1>1. S \in SUBSET Described
  BY ProperClosed DEF ClosedWithin
<1>2. ClosedUnder(S)
  <2>1. \A x, y \in S, k \in NodeKeys, v \in NodeValues, red \in BOOLEAN :
          MayJoin(x, y, k, red) => JoinedBy(x, y, k, v, red) \in Proper
    BY ProperClosed DEF ClosedWithin, ClosedUnder
  <2> QED
    BY <2>1 DEF ClosedWithin, ClosedUnder
<1>3. Proper \subseteq S
  BY <1>1, <1>2, ProperLeast
<1> QED
  BY <1>3 DEF IsProper

(* A proper tree and the two it joins.                                     *)
LEMMA JoinedAre ==
  ASSUME NEW x \in Proper, NEW y \in Proper, NEW k \in NodeKeys, NEW v \in NodeValues,
         NEW red \in BOOLEAN, MayJoin(x, y, k, red)
  PROVE  \E l, P, c, b, r, Q, d :
           /\ x = <<l, P, c, b>> /\ y = <<r, Q, d, b>>
           /\ IsProper(l, P, c, b) /\ IsProper(r, Q, d, b)
           /\ Apart(P, k, Q) /\ ~IsRed(r) /\ (red => ~IsRed(l))
           /\ JoinedBy(x, y, k, v, red)
                = <<Node(k, v, red, l, r), Joint(P, k, v, Q), c + d + 1, Blacks(red, b)>>
<1>1. /\ x = <<x[1], x[2], x[3], x[4]>> /\ y = <<y[1], y[2], y[3], y[4]>>
  BY ProperClosed DEF Described
<1>2. /\ x[4] = y[4] /\ Apart(x[2], k, y[2])
      /\ ~IsRed(y[1]) /\ (red => ~IsRed(x[1]))
  BY DEF MayJoin
<1>3. IsProper(x[1], x[2], x[3], x[4]) /\ IsProper(y[1], y[2], y[3], x[4])
  BY <1>1, <1>2 DEF IsProper
<1>4. y = <<y[1], y[2], y[3], x[4]>>
  BY <1>1, <1>2
<1> QED
  BY <1>1, <1>2, <1>3, <1>4 DEF JoinedBy

LEMMA InsertIs ==
  ASSUME NEW k \in NodeKeys, NEW v \in NodeValues, NEW n \in Nat, n = treeCount,
         NEW P, NEW c, NEW b, IsProper(root, P, c, b), root \in Trees[n]
  PROVE  /\ InsertedInto(Insert(k, v), IsRed(root), P, c, b, k, v)
         /\ Insert(k, v) \in Outcomes
<1>1. PICK in \in [Trees[n] -> Outcomes] :
        /\ Insert(k, v) = in[root]
        /\ in[Nil] = NewNode(k, v)
        /\ \A t \in Trees[n] : t # Nil =>
             in[t] = InsertStep(t, k, v, in[t.left], in[t.right])
  BY InsertUnfolds
<1> DEFINE S == {u \in Proper : u[1] \in Trees[n] =>
                   InsertedInto(in[u[1]], IsRed(u[1]), u[2], u[3], u[4], k, v)}
<1>2. NoTree \in S
  <2>1. NoTree \in Proper
    BY ProperClosed DEF ClosedUnder
  <2>2. /\ NoTree[1] = Nil /\ NoTree[2] = {} /\ NoTree[3] = 0 /\ NoTree[4] = 0
    BY DEF NoTree
  <2> QED
    BY <1>1, <2>1, <2>2, InsertsNew
<1>3. ASSUME NEW x \in S, NEW y \in S, NEW k0 \in NodeKeys, NEW v0 \in NodeValues,
             NEW red \in BOOLEAN, MayJoin(x, y, k0, red),
             JoinedBy(x, y, k0, v0, red) \in Proper
      PROVE  JoinedBy(x, y, k0, v0, red) \in S
  <2>1. x \in Proper /\ y \in Proper
    OBVIOUS
  <2>2. PICK l, Pl, cl, bl, r, Q, d :
           /\ x = <<l, Pl, cl, bl>> /\ y = <<r, Q, d, bl>>
           /\ IsProper(l, Pl, cl, bl) /\ IsProper(r, Q, d, bl)
           /\ Apart(Pl, k0, Q) /\ ~IsRed(r) /\ (red => ~IsRed(l))
           /\ JoinedBy(x, y, k0, v0, red)
                = <<Node(k0, v0, red, l, r), Joint(Pl, k0, v0, Q), cl + d + 1, Blacks(red, bl)>>
    BY <1>3, <2>1, JoinedAre
  <2>3. /\ l \in Trees[n] => InsertedInto(in[l], IsRed(l), Pl, cl, bl, k, v)
        /\ r \in Trees[n] => InsertedInto(in[r], IsRed(r), Q, d, bl, k, v)
    BY <2>2
  <2>4. PICK t : t = Node(k0, v0, red, l, r)
    OBVIOUS
  <2>5. ASSUME t \in Trees[n]
        PROVE  InsertedInto(in[t], red, Joint(Pl, k0, v0, Q), cl + d + 1, Blacks(red, bl), k, v)
    <3>1. t # Nil /\ t.key = k0 /\ t.left = l /\ t.right = r
      BY <2>4, NodesAre
    <3>2. l \in Trees[n] /\ r \in Trees[n]
      BY <2>5, <3>1, SubtreesAre
    <3>3. in[l] \in Outcomes /\ in[r] \in Outcomes
      BY <1>1, <3>2
    <3>4. in[t] = InsertStep(t, k, v, in[l], in[r])
      BY <1>1, <2>5, <3>1
    <3>5. CASE k = k0
      <4>1. in[t] = Replaced(t, v)
        BY <3>1, <3>4, <3>5 DEF InsertStep
      <4> QED
        BY <2>2, <2>4, <3>5, <4>1, InsertsHere
    <3>6. CASE k < k0
      <4>1. k # k0
        BY <2>2, <3>6, BytesAreCounted
      <4>2. in[t] = Renewed(in[l], Balance(WithLeft(t, in[l].node)))
        BY <3>1, <3>4, <3>6, <4>1 DEF InsertStep
      <4>3. WithLeft(t, in[l].node) = Node(k0, v0, red, in[l].node, r)
        BY <2>4, NodeWith
      <4> QED
        BY <2>2, <2>3, <3>2, <3>3, <3>6, <4>2, <4>3, InsertsLeft
    <3>7. CASE k0 < k
      <4>1. k # k0 /\ ~(k < k0)
        BY <2>2, <3>7, BytesAreCounted
      <4>2. in[t] = Renewed(in[r], Balance(WithRight(t, in[r].node)))
        BY <3>1, <3>4, <4>1 DEF InsertStep
      <4>3. WithRight(t, in[r].node) = Node(k0, v0, red, l, in[r].node)
        BY <2>4, NodeWith
      <4> QED
        BY <2>2, <2>3, <3>2, <3>3, <3>7, <4>2, <4>3, InsertsRight
    <3>8. k = k0 \/ k < k0 \/ k0 < k
      BY BytesAreCounted
    <3> QED
      BY <3>5, <3>6, <3>7, <3>8
  <2>6. IsRed(t) = red
    BY <2>4, RedIs DEF IsRed
  <2>7. PICK u \in Proper : u = JoinedBy(x, y, k0, v0, red)
    BY <1>3
  <2>8. u[1] = t /\ u[2] = Joint(Pl, k0, v0, Q) /\ u[3] = cl + d + 1 /\ u[4] = Blacks(red, bl)
    BY <2>2, <2>4, <2>7
  <2>9. u[1] \in Trees[n] => InsertedInto(in[u[1]], IsRed(u[1]), u[2], u[3], u[4], k, v)
    BY <2>5, <2>6, <2>8
  <2> QED
    BY <2>7, <2>9
<1>4. ClosedWithin(S)
  <2>1. S \subseteq Proper
    OBVIOUS
  <2> HIDE DEF S
  <2> QED
    BY <1>2, <1>3, <2>1 DEF ClosedWithin
<1>5. <<root, P, c, b>> \in S
  <2> HIDE DEF S
  <2> QED
    BY <1>4, ProperInduct
<1>6. InsertedInto(in[root], IsRed(root), P, c, b, k, v)
  BY <1>5
<1> QED
  BY <1>1, <1>6

(* The keys of a map, its pairs, and the bytes of those.                   *)
HeldKeys(m) == {x \in NodeKeys : m[x] # NoValue}

HeldPairs(m) == {<<x, m[x]>> : x \in HeldKeys(m)}

Weight(m, S) == [x \in S |-> x + m[x]]

BytesOf(m, S) == MapThenSumSet(LAMBDA k : k + m[k], S)

Maps == [NodeKeys -> NodeValues \cup {NoValue}]

LEMMA BytesAreTotal ==
  ASSUME NEW m, NEW S
  PROVE  BytesOf(m, S) = Total(Weight(m, S), S)
<1> DEFINE g == Weight(m, S)
           F(h) == [s \in SUBSET S |-> IF s = {} THEN 0
                      ELSE LET x == CHOOSE x \in s : TRUE
                           IN  (x + m[x]) + h[s \ {x}]]
<1>1. BytesOf(m, S) = (CHOOSE h : h = F(h))[S]
  BY Zenon DEF BytesOf, MapThenSumSet, MapThenFoldSet
<1>2. ASSUME NEW h
      PROVE  h = F(h) <=> Sums(h, g, S)
  <2> DEFINE G == [s \in SUBSET S |-> IF s = {} THEN 0
                     ELSE g[CHOOSE x \in s : TRUE] + h[s \ {CHOOSE x \in s : TRUE}]]
  <2>1. ASSUME NEW s \in SUBSET S, s # {}
        PROVE  g[CHOOSE x \in s : TRUE]
                 = (CHOOSE x \in s : TRUE) + m[CHOOSE x \in s : TRUE]
    <3>1. (CHOOSE x \in s : TRUE) \in S
      BY <2>1
    <3> QED
      BY <3>1 DEF Weight
  <2>2. F(h) = G
    BY <2>1
  <2>3. Sums(h, g, S) <=> h = G
    BY Zenon DEF Sums
  <2> QED
    BY <2>2, <2>3
<1> HIDE DEF F, g
<1>3. (CHOOSE h : h = F(h)) = (CHOOSE h : Sums(h, g, S))
  BY <1>2
<1> QED
  BY <1>1, <1>3 DEF Total, g

(* A total in which one summand changes.                                   *)
LEMMA TotalChanges ==
  ASSUME NEW S, IsFiniteSet(S), NEW y \in S,
         NEW g \in [S -> Nat], NEW h \in [S -> Nat], \A x \in S \ {y} : h[x] = g[x]
  PROVE  Total(h, S) = Total(g, S) + h[y] - g[y]
<1>1. PICK R : R = S \ {y}
  OBVIOUS
<1>2. IsFiniteSet(R) /\ y \notin R /\ S = R \cup {y}
  <2>1. IsFiniteSet(R)
    BY <1>1, FS_Subset
  <2> QED
    BY <1>1, <2>1
<1>3. PICK e : e = [x \in R |-> g[x]]
  OBVIOUS
<1>4. e \in [R -> Nat] /\ (\A x \in R : e[x] = g[x]) /\ (\A x \in R : e[x] = h[x])
  BY <1>1, <1>3
<1>5. Total(g, S) = g[y] + Total(e, R) /\ Total(e, R) \in Nat
  BY <1>2, <1>4, TotalNext
<1>6. Total(h, S) = h[y] + Total(e, R)
  BY <1>2, <1>4, TotalNext
<1>7. g[y] \in Nat /\ h[y] \in Nat
  OBVIOUS
<1> QED
  BY <1>5, <1>6, <1>7

LEMMA HeldWeighs ==
  ASSUME NEW m \in Maps, NEW S \in SUBSET HeldKeys(m)
  PROVE  Weight(m, S) \in [S -> Nat]
<1>1. ASSUME NEW x \in S
      PROVE  x + m[x] \in Nat
  <2>1. x \in HeldKeys(m)
    OBVIOUS
  <2>2. x \in NodeKeys /\ m[x] \in NodeValues
    BY <2>1 DEF HeldKeys, Maps
  <2>3. x \in Nat /\ m[x] \in Nat
    BY <2>2, BytesAreCounted
  <2> QED
    BY <2>3
<1> QED
  BY <1>1 DEF Weight

(* The pairs of the map and their bytes after a put.                       *)
Putting(m, k, v) == [m EXCEPT ![k] = v]

LEMMA PuttingIs ==
  ASSUME NEW m \in Maps, NEW k \in NodeKeys, NEW v \in NodeValues
  PROVE  /\ Putting(m, k, v) \in Maps
         /\ Putting(m, k, v)[k] = v
         /\ \A x \in NodeKeys : x # k => Putting(m, k, v)[x] = m[x]
         /\ HeldKeys(Putting(m, k, v)) = HeldKeys(m) \cup {k}
         /\ HeldPairs(Putting(m, k, v)) = AfterPut(HeldPairs(m), k, v)
<1> DEFINE p == Putting(m, k, v)
<1>1. /\ p \in Maps /\ p[k] = v /\ \A x \in NodeKeys : x # k => p[x] = m[x]
  BY DEF Putting, Maps
<1> HIDE DEF p
<1>2. v # NoValue
  BY NoValueIsNone
<1>3. HeldKeys(p) = HeldKeys(m) \cup {k}
  BY <1>1, <1>2 DEF HeldKeys
<1>4. HeldKeys(m) \subseteq NodeKeys
  BY DEF HeldKeys
<1>5. HeldPairs(p) = AfterPut(HeldPairs(m), k, v)
  <2>1. ASSUME NEW q \in HeldPairs(p)
        PROVE  q \in AfterPut(HeldPairs(m), k, v)
    <3>1. PICK x \in HeldKeys(p) : q = <<x, p[x]>>
      BY DEF HeldPairs
    <3>2. CASE x = k
      BY <1>1, <3>1, <3>2 DEF AfterPut
    <3>3. CASE x # k
      <4>1. x \in HeldKeys(m) /\ q = <<x, m[x]>>
        BY <1>1, <1>3, <1>4, <3>1, <3>3
      <4>2. q \in HeldPairs(m) /\ q[1] # k
        BY <3>3, <4>1 DEF HeldPairs
      <4> QED
        BY <4>2 DEF AfterPut
    <3> QED
      BY <3>2, <3>3
  <2>2. ASSUME NEW q \in AfterPut(HeldPairs(m), k, v)
        PROVE  q \in HeldPairs(p)
    <3>1. CASE q = <<k, v>>
      <4>1. k \in HeldKeys(p) /\ q = <<k, p[k]>>
        BY <1>1, <1>3, <3>1
      <4> QED
        BY <4>1 DEF HeldPairs
    <3>2. CASE q \in HeldPairs(m) /\ q[1] # k
      <4>1. PICK x \in HeldKeys(m) : q = <<x, m[x]>>
        BY <3>2 DEF HeldPairs
      <4>2. x # k
        BY <3>2, <4>1
      <4>3. x \in HeldKeys(p) /\ q = <<x, p[x]>>
        BY <1>1, <1>3, <1>4, <4>1, <4>2
      <4> QED
        BY <4>3 DEF HeldPairs
    <3> QED
      BY <3>1, <3>2 DEF AfterPut
  <2> QED
    BY <2>1, <2>2
<1> QED
  BY <1>1, <1>3, <1>5 DEF p

Bytes(m) == Total(Weight(m, HeldKeys(m)), HeldKeys(m))

LEMMA BytesGrow ==
  ASSUME NEW m \in Maps, NEW k \in NodeKeys, NEW v \in NodeValues, IsFiniteSet(HeldKeys(m))
  PROVE  /\ IsFiniteSet(HeldKeys(Putting(m, k, v)))
         /\ k \notin HeldKeys(m) =>
              /\ Cardinality(HeldKeys(Putting(m, k, v))) = Cardinality(HeldKeys(m)) + 1
              /\ Bytes(Putting(m, k, v)) = Bytes(m) + (k + v)
         /\ k \in HeldKeys(m) =>
              /\ Cardinality(HeldKeys(Putting(m, k, v))) = Cardinality(HeldKeys(m))
              /\ Bytes(Putting(m, k, v)) = Bytes(m) + (v - m[k])
<1>1. PICK p, S, T : p = Putting(m, k, v) /\ S = HeldKeys(m) /\ T = HeldKeys(p)
  OBVIOUS
<1>2. /\ p \in Maps /\ p[k] = v /\ T = S \cup {k}
      /\ \A x \in NodeKeys : x # k => p[x] = m[x]
  BY <1>1, PuttingIs
<1>3. S \subseteq NodeKeys
  BY <1>1 DEF HeldKeys
<1>4. Weight(m, S) \in [S -> Nat] /\ Weight(p, T) \in [T -> Nat]
  BY <1>1, <1>2, HeldWeighs
<1>5. IsFiniteSet(S) /\ IsFiniteSet(T)
  BY <1>1, <1>2, FS_AddElement
<1>6. k \in Int /\ v \in Int /\ k + v \in Int
  BY BytesAreCounted
<1>7. ASSUME k \notin S
      PROVE  /\ Cardinality(T) = Cardinality(S) + 1
             /\ Total(Weight(p, T), T) = Total(Weight(m, S), S) + (k + v)
  <2>1. Cardinality(T) = Cardinality(S) + 1
    BY <1>2, <1>5, <1>7, FS_AddElement
  <2>2. \A x \in S : Weight(m, S)[x] = Weight(p, T)[x]
    BY <1>2, <1>3, <1>7 DEF Weight
  <2>3. Total(Weight(p, T), T) = Weight(p, T)[k] + Total(Weight(m, S), S)
          /\ Total(Weight(m, S), S) \in Nat
    <3>1. PICK g, h : g = Weight(p, T) /\ h = Weight(m, S)
      OBVIOUS
    <3>2. g \in [T -> Nat] /\ h \in [S -> Nat] /\ \A x \in S : h[x] = g[x]
      BY <1>4, <2>2, <3>1
    <3>3. Total(g, T) = g[k] + Total(h, S) /\ Total(h, S) \in Nat
      BY <1>2, <1>5, <1>7, <3>2, TotalNext
    <3> QED
      BY <3>1, <3>3
  <2>4. Weight(p, T)[k] = k + v
    BY <1>2 DEF Weight
  <2>5. PICK i, j : i = Total(Weight(m, S), S) /\ j = k + v
    OBVIOUS
  <2>6. i \in Int /\ j \in Int /\ j + i = i + j
    BY <1>6, <2>3, <2>5
  <2> QED
    BY <2>1, <2>3, <2>4, <2>5, <2>6
<1>8. ASSUME k \in S
      PROVE  /\ Cardinality(T) = Cardinality(S)
             /\ Total(Weight(p, T), T) = Total(Weight(m, S), S) + (v - m[k])
  <2>1. T = S
    BY <1>2, <1>8
  <2>2. \A x \in S \ {k} : Weight(p, S)[x] = Weight(m, S)[x]
    BY <1>2, <1>3 DEF Weight
  <2>3. Weight(p, S) \in [S -> Nat]
    BY <1>4, <2>1
  <2>4. Total(Weight(p, S), S) = Total(Weight(m, S), S) + Weight(p, S)[k] - Weight(m, S)[k]
    BY <1>4, <1>5, <1>8, <2>2, <2>3, TotalChanges
  <2>5. Weight(p, S)[k] = k + v /\ Weight(m, S)[k] = k + m[k]
    BY <1>2, <1>8 DEF Weight
  <2>6. m[k] \in Int
    <3>1. k \in HeldKeys(m)
      BY <1>1, <1>8
    <3>2. m[k] \in NodeValues
      BY <3>1 DEF HeldKeys, Maps
    <3>3. \A x \in NodeValues : x \in Int
      BY BytesAreCounted
    <3> QED
      BY <3>2, <3>3
  <2>7. Total(Weight(m, S), S) \in Int
    <3>1. PICK R : R = S \ {k}
      OBVIOUS
    <3>2. IsFiniteSet(R) /\ k \notin R /\ S = R \cup {k}
      <4>1. IsFiniteSet(R)
        BY <1>5, <3>1, FS_Subset
      <4> QED
        BY <1>8, <3>1, <4>1
    <3>3. PICK g, e : g = Weight(m, S) /\ e = [x \in R |-> g[x]]
      OBVIOUS
    <3>4. g \in [S -> Nat] /\ e \in [R -> Nat] /\ \A x \in R : e[x] = g[x]
      BY <1>4, <3>1, <3>3
    <3>5. Total(g, S) = g[k] + Total(e, R) /\ Total(e, R) \in Nat
      BY <3>2, <3>4, TotalNext
    <3>6. g[k] \in Nat
      BY <1>8, <3>4
    <3> QED
      BY <3>3, <3>5, <3>6
  <2>8. PICK i, j : i = Total(Weight(m, S), S) /\ j = m[k]
    OBVIOUS
  <2>9. i \in Int /\ j \in Int /\ i + (k + v) - (k + j) = i + (v - j)
    BY <1>6, <2>6, <2>7, <2>8
  <2> QED
    BY <2>1, <2>4, <2>5, <2>8, <2>9
<1> QED
  BY <1>1, <1>5, <1>7, <1>8 DEF Bytes

(* The memtable is a proper tree of the pairs of the map, and counts them. *)
HoldsTree(t, m, c, s) ==
  /\ m \in Maps /\ IsFiniteSet(HeldKeys(m))
  /\ c = Cardinality(HeldKeys(m)) /\ s = Bytes(m)
  /\ ~IsRed(t) /\ \E b : IsProper(t, HeldPairs(m), c, b)

TreeInv == HoldsTree(root, map, treeCount, treeSize)

LEMMA TreeStarts ==
  ASSUME RBInit
  PROVE  TreeInv
<1>1. PICK m : m = [k \in NodeKeys |-> NoValue]
  OBVIOUS
<1>2. m \in Maps /\ HeldKeys(m) = {}
  BY <1>1 DEF Maps, HeldKeys
<1>3. HeldPairs(m) = {}
  BY <1>2 DEF HeldPairs
<1>4. Cardinality({}) = 0 /\ IsFiniteSet({})
  BY FS_EmptySet
<1>5. Weight(m, {}) \in [{} -> Nat]
  BY DEF Weight
<1>6. Bytes(m) = 0
  BY <1>2, <1>5, TotalOfNone DEF Bytes
<1>7. ~IsRed(Nil) /\ IsProper(Nil, {}, 0, 0)
  BY RedIs, ProperNil
<1>8. HoldsTree(Nil, m, 0, 0)
  BY <1>2, <1>3, <1>4, <1>6, <1>7 DEF HoldsTree
<1> QED
  BY <1>1, <1>8 DEF TreeInv, RBInit

(* The root is made black.                                                 *)
LEMMA Blackened ==
  ASSUME NEW t, NEW P, NEW c, NEW b, IsProper(t, P, c, b), t # Nil
  PROVE  ~IsRed(WithRed(t, Black)) /\ \E d : IsProper(WithRed(t, Black), P, c, d)
<1>1. PICK red, b0 : /\ red \in BOOLEAN /\ Hangs(t, P, c, b0, red)
                     /\ (red => ~IsRed(t.left))
  BY ProperIs
<1>2. PICK k, v, l, P1, c1, r, P2, c2 : HangsBy(t, P, c, b0, red, k, v, l, P1, c1, r, P2, c2)
  BY <1>1 DEF Hangs
<1>3. WithRed(t, Black) = Node(k, v, Black, l, r)
  BY <1>2, NodeRed DEF HangsBy
<1>4. Black \in BOOLEAN /\ ~Black
  BY ColoursAre
<1>5. IsProper(Node(k, v, Black, l, r), P, c, Blacks(Black, b0))
  BY <1>2, <1>4, ProperNode DEF HangsBy
<1>6. ~IsRed(Node(k, v, Black, l, r))
  BY <1>4, RedIs
<1> QED
  BY <1>3, <1>5, <1>6

LEMMA TreeSteps ==
  ASSUME TreeInv, NEW k \in NodeKeys, NEW v \in NodeValues, Put(k, v)
  PROVE  TreeInv'
<1>1. PICK o, m, S : o = Insert(k, v) /\ m = map /\ S = HeldKeys(map)
  OBVIOUS
<1>2. /\ root' = WithRed(o.node, Black)
      /\ treeCount' = IF o.added THEN treeCount + 1 ELSE treeCount
      /\ treeSize' = treeSize + o.delta
      /\ map' = Putting(m, k, v)
  BY <1>1 DEF Put, WithRed, Black, Putting
<1>3. /\ m \in Maps /\ IsFiniteSet(S) /\ S = HeldKeys(m)
      /\ treeCount = Cardinality(S) /\ treeSize = Bytes(m) /\ ~IsRed(root)
  BY <1>1 DEF TreeInv, HoldsTree
<1>4. PICK b : IsProper(root, HeldPairs(m), treeCount, b)
  BY <1>1 DEF TreeInv, HoldsTree
<1>5. PICK n \in Nat : n = treeCount
  BY <1>3, FS_CardinalityType
<1>6. root \in Trees[n]
  BY <1>4, <1>5, HeightIs
<1>7. InsertedInto(o, IsRed(root), HeldPairs(m), treeCount, b, k, v)
  BY <1>1, <1>4, <1>5, <1>6, InsertIs
<1>8. IsProper(o.node, AfterPut(HeldPairs(m), k, v), Grows(o, treeCount), b)
  BY <1>3, <1>7 DEF InsertedInto
<1>9. o.node # Nil
  <2>1. <<k, v>> \in AfterPut(HeldPairs(m), k, v)
    BY DEF AfterPut
  <2> QED
    BY <1>8, <2>1, NilIs
<1>10. PICK d : ~IsRed(root') /\ IsProper(root', AfterPut(HeldPairs(m), k, v), Grows(o, treeCount), d)
  BY <1>2, <1>8, <1>9, Blackened
<1>11. /\ map' \in Maps /\ HeldPairs(map') = AfterPut(HeldPairs(m), k, v)
  BY <1>2, <1>3, PuttingIs
<1>12. treeCount' = Grows(o, treeCount)
  BY <1>2 DEF Grows
<1>13. Tells(o, HeldPairs(m), k, v)
  BY <1>7 DEF InsertedInto
<1>14. /\ IsFiniteSet(HeldKeys(map')) /\ treeCount' = Cardinality(HeldKeys(map'))
       /\ treeSize' = Bytes(map')
  <2>1. CASE k \in S
    <3>1. <<k, m[k]>> \in HeldPairs(m)
      BY <1>3, <2>1 DEF HeldPairs
    <3>2. <<k, m[k]>>[1] = k /\ <<k, m[k]>>[2] = m[k]
      OBVIOUS
    <3>3. ~o.added /\ o.delta = v - m[k]
      BY <1>13, <3>1, <3>2 DEF Tells
    <3>4. /\ IsFiniteSet(HeldKeys(Putting(m, k, v)))
          /\ Cardinality(HeldKeys(Putting(m, k, v))) = Cardinality(S)
          /\ Bytes(Putting(m, k, v)) = Bytes(m) + (v - m[k])
      BY <1>3, <2>1, BytesGrow
    <3> QED
      BY <1>2, <1>3, <3>3, <3>4
  <2>2. CASE k \notin S
    <3>1. \A p \in HeldPairs(m) : p[1] # k
      BY <1>3, <2>2 DEF HeldPairs
    <3>3. o.added /\ o.delta = k + v
      BY <1>13, <3>1 DEF Tells
    <3>4. /\ IsFiniteSet(HeldKeys(Putting(m, k, v)))
          /\ Cardinality(HeldKeys(Putting(m, k, v))) = Cardinality(S) + 1
          /\ Bytes(Putting(m, k, v)) = Bytes(m) + (k + v)
      BY <1>3, <2>2, BytesGrow
    <3> QED
      BY <1>2, <1>3, <3>3, <3>4
  <2> QED
    BY <2>1, <2>2
<1>15. HoldsTree(root', map', treeCount', treeSize')
  BY <1>10, <1>11, <1>12, <1>14 DEF HoldsTree
<1> QED
  BY <1>15 DEF TreeInv

THEOREM TreeIsProper == RBSpec => []TreeInv
<1>1. TreeInv /\ [RBNext]_rbvars => TreeInv'
  <2> SUFFICES ASSUME TreeInv, [RBNext]_rbvars PROVE TreeInv'
    OBVIOUS
  <2>1. CASE RBNext
    BY <2>1, TreeSteps DEF RBNext
  <2>2. CASE UNCHANGED rbvars
    BY <2>2 DEF rbvars, TreeInv
  <2> QED
    BY <2>1, <2>2
<1> QED
  BY <1>1, TreeStarts, PTL DEF RBSpec

THEOREM MemtableIsAccounted == RBSpec => []Accounted
<1>1. TreeInv => Accounted
  <2> SUFFICES ASSUME TreeInv PROVE Accounted
    OBVIOUS
  <2>1. PICK m, S : m = map /\ S = HeldKeys(m)
    OBVIOUS
  <2>2. treeCount = Cardinality(S) /\ treeSize = Total(Weight(m, S), S)
    BY <2>1 DEF TreeInv, HoldsTree, Bytes
  <2>3. treeSize = BytesOf(m, S)
    BY <2>2, BytesAreTotal
  <2>4. treeSize = BytesOf(map, S)
    BY <2>1, <2>3
  <2>5. treeSize = MapThenSumSet(LAMBDA k : k + map[k], S)
    BY <2>4 DEF BytesOf
  <2>6. S = {k \in NodeKeys : map[k] # NoValue}
    BY <2>1 DEF HeldKeys
  <2> QED
    BY <2>2, <2>5, <2>6, Zenon DEF Accounted
<1> QED
  BY <1>1, TreeIsProper, PTL

(* The search, by what it finds in the subtrees.                           *)
GetStep(t, k, a, b) == IF k = t.key THEN t.val ELSE IF k < t.key THEN a ELSE b

Searches(get, n, k) ==
  get = [t \in Trees[n] |->
          IF t = Nil THEN NoValue
          ELSE IF k = t.key THEN t.val
          ELSE get[IF k < t.key THEN t.left ELSE t.right]]

LEMMA SearchOfTree ==
  ASSUME NEW k \in NodeKeys, NEW n \in Nat, n = treeCount
  PROVE  \E get : /\ Get(k) = get[root] /\ get[Nil] = NoValue
                  /\ \A t \in Trees[n] : t # Nil =>
                       get[t] = GetStep(t, k, get[t.left], get[t.right])
<1> DEFINE V == NodeValues \cup {NoValue}
           step == [p \in (Trees[n] \X V \X V) |-> GetStep(p[1], k, p[2], p[3])]
<1>1. ASSUME NEW t \in Trees[n] \ {Nil}, NEW a \in V, NEW b \in V
      PROVE  step[<<t, a, b>>] = GetStep(t, k, a, b) /\ step[<<t, a, b>>] \in V
  <2>1. t.val \in V
    BY SubtreesAre
  <2>2. step[<<t, a, b>>] = GetStep(t, k, a, b)
    OBVIOUS
  <2> HIDE DEF step, V
  <2> QED
    BY <2>1, <2>2 DEF GetStep
<1>2. NoValue \in V
  OBVIOUS
<1> HIDE DEF V, step
<1>3. Branches(n, V, NoValue, step)
  BY <1>1, <1>2 DEF Branches
<1>4. PICK f \in [Trees[n] -> V] : Branched(f, n, NoValue, step)
  BY <1>3, TreeRecursion
<1>5. f[Nil] = NoValue
  BY <1>4 DEF Branched
<1>6. ASSUME NEW t \in Trees[n], t # Nil
      PROVE  f[t] = GetStep(t, k, f[t.left], f[t.right])
  <2>1. f[t.left] \in V /\ f[t.right] \in V
    BY <1>4, <1>6, SubtreesAre
  <2>2. f[t] = step[<<t, f[t.left], f[t.right]>>]
    BY <1>4, <1>6 DEF Branched
  <2> QED
    BY <1>1, <1>6, <2>1, <2>2
<1>7. Searches(f, n, k)
  <2>1. \A t \in Trees[n] : t # Nil => f[t] =
          IF k = t.key THEN t.val ELSE f[IF k < t.key THEN t.left ELSE t.right]
    BY <1>6 DEF GetStep
  <2>2. f = [t \in Trees[n] |-> f[t]]
    BY <1>4
  <2> QED
    BY <1>5, <2>1, <2>2 DEF Searches
<1>8. PICK g : g = CHOOSE h : Searches(h, n, k)
  OBVIOUS
<1>9. Searches(g, n, k)
  BY <1>7, <1>8, Zenon
<1>10. Get(k) = g[root]
  BY <1>8 DEF Get, Searches
<1>11. g[Nil] = NoValue
  <2>1. Nil \in Trees[n]
    BY HigherIs
  <2> QED
    BY <1>9, <2>1 DEF Searches
<1>12. \A t \in Trees[n] : t # Nil => g[t] = GetStep(t, k, g[t.left], g[t.right])
  <2>1. \A t \in Trees[n] : t # Nil => g[t] =
          IF k = t.key THEN t.val ELSE g[IF k < t.key THEN t.left ELSE t.right]
    BY <1>9 DEF Searches
  <2> QED
    BY <2>1 DEF GetStep
<1> QED
  BY <1>10, <1>11, <1>12

(* What a search for k among the pairs P should answer.                    *)
Finds(a, P, k) ==
  /\ \A p \in P : p[1] = k => a = p[2]
  /\ (\A p \in P : p[1] # k) => a = NoValue

LEMMA FindsJoint ==
  ASSUME NEW P \in SUBSET KeyValues, NEW Q \in SUBSET KeyValues,
         NEW k \in NodeKeys, NEW k0 \in NodeKeys, NEW v0, Apart(P, k0, Q), NEW a
  PROVE  /\ k = k0 => Finds(v0, Joint(P, k0, v0, Q), k)
         /\ k < k0 /\ Finds(a, P, k) => Finds(a, Joint(P, k0, v0, Q), k)
         /\ k0 < k /\ Finds(a, Q, k) => Finds(a, Joint(P, k0, v0, Q), k)
<1>1. \A p : p \in Joint(P, k0, v0, Q) <=> p \in P \/ p = <<k0, v0>> \/ p \in Q
  BY DEF Joint
<1>2. <<k0, v0>>[1] = k0 /\ <<k0, v0>>[2] = v0
  OBVIOUS
<1>3. ASSUME k < k0, Finds(a, P, k)
      PROVE  Finds(a, Joint(P, k0, v0, Q), k)
  <2>1. (\A p \in Q : p[1] # k) /\ k # k0
    BY <1>3, ApartFrom
  <2> QED
    BY <1>1, <1>2, <1>3, <2>1 DEF Finds
<1>4. ASSUME k0 < k, Finds(a, Q, k)
      PROVE  Finds(a, Joint(P, k0, v0, Q), k)
  <2>1. (\A p \in P : p[1] # k) /\ k # k0
    BY <1>4, ApartFrom
  <2> QED
    BY <1>1, <1>2, <1>4, <2>1 DEF Finds
<1>5. ASSUME k = k0
      PROVE  Finds(v0, Joint(P, k0, v0, Q), k)
  <2>1. (\A p \in P : p[1] # k) /\ (\A p \in Q : p[1] # k)
    BY <1>5, ApartFrom
  <2> QED
    BY <1>1, <1>2, <1>5, <2>1 DEF Finds
<1> QED
  BY <1>3, <1>4, <1>5

LEMMA GetFinds ==
  ASSUME NEW k \in NodeKeys, NEW n \in Nat, n = treeCount,
         NEW P, NEW c, NEW b, IsProper(root, P, c, b), root \in Trees[n]
  PROVE  Finds(Get(k), P, k)
<1>1. PICK get : /\ Get(k) = get[root] /\ get[Nil] = NoValue
                 /\ \A t \in Trees[n] : t # Nil =>
                      get[t] = GetStep(t, k, get[t.left], get[t.right])
  BY SearchOfTree
<1> DEFINE S == {u \in Proper : u[1] \in Trees[n] => Finds(get[u[1]], u[2], k)}
<1>2. NoTree \in S
  <2>1. NoTree \in Proper
    BY ProperClosed DEF ClosedUnder
  <2>2. NoTree[1] = Nil /\ NoTree[2] = {}
    BY DEF NoTree
  <2> QED
    BY <1>1, <2>1, <2>2 DEF Finds
<1>3. ASSUME NEW x \in S, NEW y \in S, NEW k0 \in NodeKeys, NEW v0 \in NodeValues,
             NEW red \in BOOLEAN, MayJoin(x, y, k0, red),
             JoinedBy(x, y, k0, v0, red) \in Proper
      PROVE  JoinedBy(x, y, k0, v0, red) \in S
  <2>1. x \in Proper /\ y \in Proper
    OBVIOUS
  <2>2. PICK l, Pl, cl, bl, r, Q, d :
           /\ x = <<l, Pl, cl, bl>> /\ y = <<r, Q, d, bl>>
           /\ IsProper(l, Pl, cl, bl) /\ IsProper(r, Q, d, bl)
           /\ Apart(Pl, k0, Q) /\ ~IsRed(r) /\ (red => ~IsRed(l))
           /\ JoinedBy(x, y, k0, v0, red)
                = <<Node(k0, v0, red, l, r), Joint(Pl, k0, v0, Q), cl + d + 1, Blacks(red, bl)>>
    BY <1>3, <2>1, JoinedAre
  <2>3. /\ l \in Trees[n] => Finds(get[l], Pl, k)
        /\ r \in Trees[n] => Finds(get[r], Q, k)
    BY <2>2
  <2>4. PICK t : t = Node(k0, v0, red, l, r)
    OBVIOUS
  <2>5. ASSUME t \in Trees[n]
        PROVE  Finds(get[t], Joint(Pl, k0, v0, Q), k)
    <3>1. t # Nil /\ t.key = k0 /\ t.val = v0 /\ t.left = l /\ t.right = r
      BY <2>4, NodesAre
    <3>2. l \in Trees[n] /\ r \in Trees[n]
      BY <2>5, <3>1, SubtreesAre
    <3>3. Finds(get[l], Pl, k) /\ Finds(get[r], Q, k)
      BY <2>3, <3>2
    <3>4. get[t] = GetStep(t, k, get[l], get[r])
      BY <1>1, <2>5, <3>1
    <3>5. Pl \in SUBSET KeyValues /\ Q \in SUBSET KeyValues
      BY <2>2, ProperType
    <3>6. CASE k = k0
      <4>1. get[t] = v0
        BY <3>1, <3>4, <3>6 DEF GetStep
      <4> QED
        BY <2>2, <3>5, <3>6, <4>1, FindsJoint
    <3>7. CASE k < k0
      <4>1. k # k0
        BY <3>7, BytesAreCounted
      <4>2. get[t] = get[l]
        BY <3>1, <3>4, <3>7, <4>1 DEF GetStep
      <4> QED
        BY <2>2, <3>3, <3>5, <3>7, <4>2, FindsJoint
    <3>8. CASE k0 < k
      <4>1. k # k0 /\ ~(k < k0)
        BY <3>8, BytesAreCounted
      <4>2. get[t] = get[r]
        BY <3>1, <3>4, <4>1 DEF GetStep
      <4> QED
        BY <2>2, <3>3, <3>5, <3>8, <4>2, FindsJoint
    <3>9. k = k0 \/ k < k0 \/ k0 < k
      BY BytesAreCounted
    <3> QED
      BY <3>6, <3>7, <3>8, <3>9
  <2>6. PICK u \in Proper : u = JoinedBy(x, y, k0, v0, red)
    BY <1>3
  <2>7. u[1] = t /\ u[2] = Joint(Pl, k0, v0, Q)
    BY <2>2, <2>4, <2>6
  <2>8. u[1] \in Trees[n] => Finds(get[u[1]], u[2], k)
    BY <2>5, <2>7
  <2> QED
    BY <2>6, <2>8
<1>4. ClosedWithin(S)
  <2>1. S \subseteq Proper
    OBVIOUS
  <2> HIDE DEF S
  <2> QED
    BY <1>2, <1>3, <2>1 DEF ClosedWithin
<1>5. <<root, P, c, b>> \in S
  <2> HIDE DEF S
  <2> QED
    BY <1>4, ProperInduct
<1> QED
  BY <1>1, <1>5

THEOREM GetFindsLastPut == RBSpec => []GetIsWhatWasPut
<1>1. TreeInv => GetIsWhatWasPut
  <2> SUFFICES ASSUME TreeInv, NEW k \in NodeKeys PROVE Get(k) = map[k]
    BY DEF GetIsWhatWasPut
  <2>1. PICK b : IsProper(root, HeldPairs(map), treeCount, b)
    BY DEF TreeInv, HoldsTree
  <2>2. PICK n \in Nat : n = treeCount
    BY <2>1, ProperType
  <2>3. root \in Trees[n]
    BY <2>1, <2>2, HeightIs
  <2>4. Finds(Get(k), HeldPairs(map), k)
    BY <2>1, <2>2, <2>3, GetFinds
  <2>5. CASE map[k] = NoValue
    <3>1. \A p \in HeldPairs(map) : p[1] # k
      BY <2>5 DEF HeldPairs, HeldKeys
    <3> QED
      BY <2>4, <2>5, <3>1 DEF Finds
  <2>6. CASE map[k] # NoValue
    <3>1. <<k, map[k]>> \in HeldPairs(map)
      BY <2>6 DEF HeldPairs, HeldKeys
    <3>2. <<k, map[k]>>[1] = k /\ <<k, map[k]>>[2] = map[k]
      OBVIOUS
    <3> QED
      BY <2>4, <3>1, <3>2 DEF Finds
  <2> QED
    BY <2>5, <2>6
<1> QED
  BY <1>1, TreeIsProper, PTL

(* Where the links lean, and the black nodes on the paths, by what they    *)
(* are of the subtrees.                                                    *)
LeansStep(t, a, b) == ~IsRed(t.right) /\ ~(t.red /\ IsRed(t.left)) /\ a /\ b

Leans(leans, n) ==
  leans = [t \in Trees[n] |->
            t # Nil => /\ ~IsRed(t.right)
                       /\ ~(t.red /\ IsRed(t.left))
                       /\ leans[t.left] /\ leans[t.right]]

LEMMA LeansIs ==
  ASSUME NEW n \in Nat, n = treeCount
  PROVE  \E leans : /\ LeansLeft = leans[root] /\ leans[Nil] = TRUE
                    /\ \A t \in Trees[n] : t # Nil =>
                         leans[t] = LeansStep(t, leans[t.left], leans[t.right])
<1> DEFINE V == BOOLEAN
           step == [p \in (Trees[n] \X V \X V) |-> LeansStep(p[1], p[2], p[3])]
<1>1. ASSUME NEW t \in Trees[n] \ {Nil}, NEW a \in V, NEW b \in V
      PROVE  step[<<t, a, b>>] = LeansStep(t, a, b) /\ step[<<t, a, b>>] \in V
  <2>1. LeansStep(t, a, b) \in V
    BY DEF LeansStep
  <2>2. step[<<t, a, b>>] = LeansStep(t, a, b)
    OBVIOUS
  <2> HIDE DEF step, V
  <2> QED
    BY <2>1, <2>2
<1>2. TRUE \in V
  OBVIOUS
<1>3. PICK yes : yes = TRUE
  OBVIOUS
<1> HIDE DEF V, step
<1>4. Branches(n, V, yes, step)
  BY <1>1, <1>2, <1>3 DEF Branches
<1>5. PICK f \in [Trees[n] -> V] : Branched(f, n, yes, step)
  BY <1>4, TreeRecursion
<1>6. f[Nil] = TRUE
  BY <1>3, <1>5 DEF Branched
<1>7. ASSUME NEW t \in Trees[n], t # Nil
      PROVE  f[t] = LeansStep(t, f[t.left], f[t.right])
  <2>1. f[t.left] \in V /\ f[t.right] \in V
    BY <1>5, <1>7, SubtreesAre
  <2>2. f[t] = step[<<t, f[t.left], f[t.right]>>]
    BY <1>5, <1>7 DEF Branched
  <2> QED
    BY <1>1, <1>7, <2>1, <2>2
<1>8. Leans(f, n)
  <2>1. ASSUME NEW t \in Trees[n]
        PROVE  f[t] = (t # Nil => /\ ~IsRed(t.right)
                                  /\ ~(t.red /\ IsRed(t.left))
                                  /\ f[t.left] /\ f[t.right])
    <3>1. CASE t = Nil
      BY <1>6, <3>1
    <3>2. CASE t # Nil
      BY <1>7, <3>2 DEF LeansStep
    <3> QED
      BY <3>1, <3>2
  <2>2. f = [t \in Trees[n] |-> f[t]]
    BY <1>5
  <2> QED
    BY <2>1, <2>2 DEF Leans
<1>9. PICK g : g = CHOOSE h : Leans(h, n)
  OBVIOUS
<1>10. Leans(g, n)
  BY <1>8, <1>9, Zenon
<1>11. LeansLeft = g[root]
  BY <1>9 DEF LeansLeft, Leans
<1>12. g[Nil] = TRUE
  <2>1. Nil \in Trees[n]
    BY HigherIs
  <2> QED
    BY <1>10, <2>1 DEF Leans
<1>13. \A t \in Trees[n] : t # Nil => g[t] = LeansStep(t, g[t.left], g[t.right])
  <2>1. \A t \in Trees[n] :
          g[t] = (t # Nil => /\ ~IsRed(t.right)
                             /\ ~(t.red /\ IsRed(t.left))
                             /\ g[t.left] /\ g[t.right])
    BY <1>10 DEF Leans
  <2> QED
    BY <2>1 DEF LeansStep
<1> QED
  BY <1>11, <1>12, <1>13

HeightStep(t, a, b) == {IF t.red THEN i ELSE i + 1 : i \in a \cup b}

Heights(heights, n) ==
  heights = [t \in Trees[n] |->
              IF t = Nil THEN {0}
              ELSE {IF t.red THEN i ELSE i + 1 : i \in heights[t.left] \cup heights[t.right]}]

LEMMA HeightsAre ==
  ASSUME NEW n \in Nat, n = treeCount
  PROVE  \E heights : /\ BlackHeights = heights[root] /\ heights[Nil] = {0}
                      /\ \A t \in Trees[n] : t # Nil =>
                           heights[t] = HeightStep(t, heights[t.left], heights[t.right])
<1> DEFINE V == SUBSET Nat
           step == [p \in (Trees[n] \X V \X V) |-> HeightStep(p[1], p[2], p[3])]
<1>1. ASSUME NEW t \in Trees[n] \ {Nil}, NEW a \in V, NEW b \in V
      PROVE  step[<<t, a, b>>] = HeightStep(t, a, b) /\ step[<<t, a, b>>] \in V
  <2>1. HeightStep(t, a, b) \in V
    BY DEF HeightStep
  <2>2. step[<<t, a, b>>] = HeightStep(t, a, b)
    OBVIOUS
  <2> HIDE DEF step, V
  <2> QED
    BY <2>1, <2>2
<1>2. {0} \in V
  OBVIOUS
<1> HIDE DEF V, step
<1>4. Branches(n, V, {0}, step)
  BY <1>1, <1>2 DEF Branches
<1>5. PICK f \in [Trees[n] -> V] : Branched(f, n, {0}, step)
  BY <1>4, TreeRecursion
<1>6. f[Nil] = {0}
  BY <1>5 DEF Branched
<1>7. ASSUME NEW t \in Trees[n], t # Nil
      PROVE  f[t] = HeightStep(t, f[t.left], f[t.right])
  <2>1. f[t.left] \in V /\ f[t.right] \in V
    BY <1>5, <1>7, SubtreesAre
  <2>2. f[t] = step[<<t, f[t.left], f[t.right]>>]
    BY <1>5, <1>7 DEF Branched
  <2> QED
    BY <1>1, <1>7, <2>1, <2>2
<1>8. Heights(f, n)
  <2>1. \A t \in Trees[n] : t # Nil =>
          f[t] = {IF t.red THEN i ELSE i + 1 : i \in f[t.left] \cup f[t.right]}
    BY <1>7 DEF HeightStep
  <2>2. f = [t \in Trees[n] |-> f[t]]
    BY <1>5
  <2> QED
    BY <1>6, <2>1, <2>2 DEF Heights
<1>9. PICK g : g = CHOOSE h : Heights(h, n)
  OBVIOUS
<1>10. Heights(g, n)
  BY <1>8, <1>9, Zenon
<1>11. BlackHeights = g[root]
  BY <1>9 DEF BlackHeights, Heights
<1>12. g[Nil] = {0}
  <2>1. Nil \in Trees[n]
    BY HigherIs
  <2> QED
    BY <1>10, <2>1 DEF Heights
<1>13. \A t \in Trees[n] : t # Nil => g[t] = HeightStep(t, g[t.left], g[t.right])
  BY <1>10 DEF Heights, HeightStep
<1> QED
  BY <1>11, <1>12, <1>13

(* A proper tree leans left, and has b black nodes on each path.           *)
LEMMA ProperBalances ==
  ASSUME NEW n \in Nat, n = treeCount,
         NEW P, NEW c, NEW b, IsProper(root, P, c, b), root \in Trees[n]
  PROVE  LeansLeft /\ BlackHeights = {b}
<1>1. PICK leans : /\ LeansLeft = leans[root] /\ leans[Nil] = TRUE
                   /\ \A t \in Trees[n] : t # Nil =>
                        leans[t] = LeansStep(t, leans[t.left], leans[t.right])
  BY LeansIs
<1>2. PICK heights : /\ BlackHeights = heights[root] /\ heights[Nil] = {0}
                     /\ \A t \in Trees[n] : t # Nil =>
                          heights[t] = HeightStep(t, heights[t.left], heights[t.right])
  BY HeightsAre
<1> DEFINE S == {u \in Proper : u[1] \in Trees[n] => leans[u[1]] /\ heights[u[1]] = {u[4]}}
<1>3. NoTree \in S
  <2>1. NoTree \in Proper
    BY ProperClosed DEF ClosedUnder
  <2>2. NoTree[1] = Nil /\ NoTree[4] = 0
    BY DEF NoTree
  <2> QED
    BY <1>1, <1>2, <2>1, <2>2
<1>4. ASSUME NEW x \in S, NEW y \in S, NEW k0 \in NodeKeys, NEW v0 \in NodeValues,
             NEW red \in BOOLEAN, MayJoin(x, y, k0, red),
             JoinedBy(x, y, k0, v0, red) \in Proper
      PROVE  JoinedBy(x, y, k0, v0, red) \in S
  <2>1. x \in Proper /\ y \in Proper
    OBVIOUS
  <2>2. PICK l, Pl, cl, bl, r, Q, d :
           /\ x = <<l, Pl, cl, bl>> /\ y = <<r, Q, d, bl>>
           /\ IsProper(l, Pl, cl, bl) /\ IsProper(r, Q, d, bl)
           /\ Apart(Pl, k0, Q) /\ ~IsRed(r) /\ (red => ~IsRed(l))
           /\ JoinedBy(x, y, k0, v0, red)
                = <<Node(k0, v0, red, l, r), Joint(Pl, k0, v0, Q), cl + d + 1, Blacks(red, bl)>>
    BY <1>4, <2>1, JoinedAre
  <2>3. /\ l \in Trees[n] => leans[l] /\ heights[l] = {bl}
        /\ r \in Trees[n] => leans[r] /\ heights[r] = {bl}
    BY <2>2
  <2>4. PICK t : t = Node(k0, v0, red, l, r)
    OBVIOUS
  <2>5. ASSUME t \in Trees[n]
        PROVE  leans[t] /\ heights[t] = {Blacks(red, bl)}
    <3>1. t # Nil /\ t.red = red /\ t.left = l /\ t.right = r
      BY <2>4, NodesAre
    <3>2. l \in Trees[n] /\ r \in Trees[n]
      BY <2>5, <3>1, SubtreesAre
    <3>3. leans[l] /\ leans[r] /\ heights[l] = {bl} /\ heights[r] = {bl}
      BY <2>3, <3>2
    <3>4. LeansStep(t, leans[l], leans[r])
      BY <2>2, <3>1, <3>3 DEF LeansStep
    <3>5. leans[t] = LeansStep(t, leans[l], leans[r])
      BY <1>1, <2>5, <3>1
    <3>6. heights[t] = HeightStep(t, {bl}, {bl})
      BY <1>2, <2>5, <3>1, <3>3
    <3>7. HeightStep(t, {bl}, {bl}) = {IF red THEN bl ELSE bl + 1}
      BY <3>1 DEF HeightStep
    <3>8. Blacks(red, bl) = IF red THEN bl ELSE bl + 1
      BY DEF Blacks
    <3> QED
      BY <3>4, <3>5, <3>6, <3>7, <3>8
  <2>6. PICK u \in Proper : u = JoinedBy(x, y, k0, v0, red)
    BY <1>4
  <2>7. u[1] = t /\ u[4] = Blacks(red, bl)
    BY <2>2, <2>4, <2>6
  <2>8. u[1] \in Trees[n] => leans[u[1]] /\ heights[u[1]] = {u[4]}
    BY <2>5, <2>7
  <2> QED
    BY <2>6, <2>8
<1>5. ClosedWithin(S)
  <2>1. S \subseteq Proper
    OBVIOUS
  <2> HIDE DEF S
  <2> QED
    BY <1>3, <1>4, <2>1 DEF ClosedWithin
<1>6. <<root, P, c, b>> \in S
  <2> HIDE DEF S
  <2> QED
    BY <1>5, ProperInduct
<1>7. leans[root] /\ heights[root] = {b}
  BY <1>6
<1> QED
  BY <1>1, <1>2, <1>7

THEOREM TreeStaysBalanced == RBSpec => []Balanced
<1>1. TreeInv => Balanced
  <2> SUFFICES ASSUME TreeInv PROVE Balanced
    OBVIOUS
  <2>1. PICK b : IsProper(root, HeldPairs(map), treeCount, b)
    BY DEF TreeInv, HoldsTree
  <2>2. PICK n \in Nat : n = treeCount
    BY <2>1, ProperType
  <2>3. root \in Trees[n]
    BY <2>1, <2>2, HeightIs
  <2>4. LeansLeft /\ BlackHeights = {b}
    BY <2>1, <2>2, <2>3, ProperBalances
  <2>5. Cardinality({b}) = 1
    BY FS_Singleton
  <2>6. ~IsRed(root)
    BY DEF TreeInv, HoldsTree
  <2> QED
    BY <2>4, <2>5, <2>6 DEF Balanced
<1> QED
  BY <1>1, TreeIsProper, PTL

(* The visits, by the visits of the subtrees.                              *)
VisitStep(t, a, b) == a \o <<<<t.key, t.val>>>> \o b

Visits(visits, n) ==
  visits = [t \in Trees[n] |->
             IF t = Nil THEN <<>>
             ELSE visits[t.left] \o <<<<t.key, t.val>>>> \o visits[t.right]]

PairSeqs == Seq(KeyValues)

LEMMA VisitsAre ==
  ASSUME NEW n \in Nat, n = treeCount
  PROVE  \E visits : /\ InOrder = visits[root] /\ visits[Nil] = <<>>
                     /\ \A t \in Trees[n] : t # Nil =>
                          visits[t] = VisitStep(t, visits[t.left], visits[t.right])
<1> DEFINE V == PairSeqs
           step == [p \in (Trees[n] \X V \X V) |-> VisitStep(p[1], p[2], p[3])]
<1>1. ASSUME NEW t \in Trees[n] \ {Nil}, NEW a \in V, NEW b \in V
      PROVE  step[<<t, a, b>>] = VisitStep(t, a, b) /\ step[<<t, a, b>>] \in V
  <2>1. VisitStep(t, a, b) \in V
    <3>1. t.key \in NodeKeys /\ t.val \in NodeValues
      BY SubtreesAre
    <3>2. PICK p \in KeyValues : p = <<t.key, t.val>>
      BY <3>1 DEF KeyValues
    <3>3. a \in Seq(KeyValues) /\ b \in Seq(KeyValues)
      BY DEF PairSeqs
    <3>4. a \o <<p>> \o b \in Seq(KeyValues)
      BY <3>3
    <3> QED
      BY <3>2, <3>4 DEF VisitStep, PairSeqs
  <2>2. step[<<t, a, b>>] = VisitStep(t, a, b)
    OBVIOUS
  <2> HIDE DEF step, V
  <2> QED
    BY <2>1, <2>2
<1>2. <<>> \in V
  BY DEF PairSeqs
<1> HIDE DEF V, step
<1>4. Branches(n, V, <<>>, step)
  BY <1>1, <1>2 DEF Branches
<1>5. PICK f \in [Trees[n] -> V] : Branched(f, n, <<>>, step)
  BY <1>4, TreeRecursion
<1>6. f[Nil] = <<>>
  BY <1>5 DEF Branched
<1>7. ASSUME NEW t \in Trees[n], t # Nil
      PROVE  f[t] = VisitStep(t, f[t.left], f[t.right])
  <2>1. f[t.left] \in V /\ f[t.right] \in V
    BY <1>5, <1>7, SubtreesAre
  <2>2. f[t] = step[<<t, f[t.left], f[t.right]>>]
    BY <1>5, <1>7 DEF Branched
  <2> QED
    BY <1>1, <1>7, <2>1, <2>2
<1>8. Visits(f, n)
  <2>1. \A t \in Trees[n] : t # Nil =>
          f[t] = f[t.left] \o <<<<t.key, t.val>>>> \o f[t.right]
    BY <1>7 DEF VisitStep
  <2>2. f = [t \in Trees[n] |-> f[t]]
    BY <1>5
  <2> QED
    BY <1>6, <2>1, <2>2 DEF Visits
<1>9. PICK g : g = CHOOSE h : Visits(h, n)
  OBVIOUS
<1>10. Visits(g, n)
  BY <1>8, <1>9, Zenon
<1>11. InOrder = g[root]
  BY <1>9 DEF InOrder, Visits
<1>12. g[Nil] = <<>>
  <2>1. Nil \in Trees[n]
    BY HigherIs
  <2> QED
    BY <1>10, <2>1 DEF Visits
<1>13. \A t \in Trees[n] : t # Nil => g[t] = VisitStep(t, g[t.left], g[t.right])
  BY <1>10 DEF Visits, VisitStep
<1> QED
  BY <1>11, <1>12, <1>13

(* The pairs P in the order of their keys.                                 *)
ListsPairs(s, P) ==
  /\ s \in PairSeqs
  /\ \A i, j \in DOMAIN s : i < j => s[i][1] < s[j][1]
  /\ {s[i] : i \in DOMAIN s} = P

LEMMA ListsJoint ==
  ASSUME NEW P, NEW Q, NEW a, ListsPairs(a, P), NEW b, ListsPairs(b, Q),
         NEW k \in NodeKeys, NEW v \in NodeValues, Apart(P, k, Q)
  PROVE  ListsPairs(a \o <<<<k, v>>>> \o b, Joint(P, k, v, Q))
<1>1. PICK p \in KeyValues : p = <<k, v>>
  BY DEF KeyValues
<1>2. p[1] = k
  BY <1>1
<1>3. a \in Seq(KeyValues) /\ b \in Seq(KeyValues)
  BY DEF ListsPairs, PairSeqs
<1>4. PICK s : s = a \o <<p>> \o b
  OBVIOUS
<1>5. PICK m \in Nat, d \in Nat : m = Len(a) /\ d = Len(b)
  BY <1>3
<1>6. /\ s \in Seq(KeyValues) /\ DOMAIN s = 1..(m + 1 + d)
      /\ DOMAIN a = 1..m /\ DOMAIN b = 1..d
  BY <1>3, <1>4, <1>5
<1>7. /\ \A i \in 1..m : s[i] = a[i]
      /\ s[m + 1] = p
      /\ \A i \in 1..d : s[m + 1 + i] = b[i]
  <2>1. \A i \in 1..m : s[i] = a[i]
    BY <1>3, <1>4, <1>5
  <2>2. s[m + 1] = p
    BY <1>3, <1>4, <1>5
  <2>3. \A i \in 1..d : s[m + 1 + i] = b[i]
    BY <1>3, <1>4, <1>5
  <2> QED
    BY <2>1, <2>2, <2>3
<1>8. /\ \A i \in 1..m : a[i] \in P
      /\ \A i \in 1..d : b[i] \in Q
  BY <1>6 DEF ListsPairs
<1>9. /\ \A q \in P : \E i \in 1..m : q = a[i]
      /\ \A q \in Q : \E i \in 1..d : q = b[i]
  BY <1>6 DEF ListsPairs
<1>10. \A i \in 1..(m + 1 + d) :
         \/ i \in 1..m /\ s[i] \in P
         \/ i = m + 1 /\ s[i] = p
         \/ i - m - 1 \in 1..d /\ s[i] = b[i - m - 1] /\ s[i] \in Q
  <2> SUFFICES ASSUME NEW i \in 1..(m + 1 + d)
               PROVE  \/ i \in 1..m /\ s[i] \in P
                      \/ i = m + 1 /\ s[i] = p
                      \/ i - m - 1 \in 1..d /\ s[i] = b[i - m - 1] /\ s[i] \in Q
    OBVIOUS
  <2>1. CASE i <= m
    <3>1. i \in 1..m
      BY <2>1
    <3> QED
      BY <1>7, <1>8, <3>1
  <2>2. CASE i = m + 1
    BY <1>7, <2>2
  <2>3. CASE m + 1 < i
    <3>1. i - m - 1 \in 1..d /\ m + 1 + (i - m - 1) = i
      BY <2>3
    <3>2. s[m + 1 + (i - m - 1)] = b[i - m - 1]
      BY <1>7, <3>1
    <3> QED
      BY <1>8, <3>1, <3>2
  <2> QED
    BY <2>1, <2>2, <2>3
<1>11. {s[i] : i \in DOMAIN s} = Joint(P, k, v, Q)
  <2>1. ASSUME NEW i \in DOMAIN s
        PROVE  s[i] \in Joint(P, k, v, Q)
    BY <1>1, <1>6, <1>10 DEF Joint
  <2>2. ASSUME NEW q \in Joint(P, k, v, Q)
        PROVE  \E i \in DOMAIN s : q = s[i]
    <3>1. CASE q \in P
      <4>1. PICK i \in 1..m : q = a[i]
        BY <1>9, <3>1
      <4>2. i \in DOMAIN s /\ s[i] = a[i]
        BY <1>6, <1>7
      <4> QED
        BY <4>1, <4>2
    <3>2. CASE q = <<k, v>>
      <4>1. m + 1 \in DOMAIN s
        BY <1>6
      <4> QED
        BY <1>1, <1>7, <3>2, <4>1
    <3>3. CASE q \in Q
      <4>1. PICK i \in 1..d : q = b[i]
        BY <1>9, <3>3
      <4>2. m + 1 + i \in DOMAIN s /\ s[m + 1 + i] = b[i]
        BY <1>6, <1>7
      <4> QED
        BY <4>1, <4>2
    <3> QED
      BY <3>1, <3>2, <3>3 DEF Joint
  <2> QED
    BY <2>1, <2>2
<1>12. /\ k \in Int
       /\ \A q \in P : q[1] \in Int /\ q[1] < k
       /\ \A q \in Q : q[1] \in Int /\ k < q[1]
  <2>1. P \in SUBSET KeyValues /\ Q \in SUBSET KeyValues
    BY <1>3, <1>6, <1>9
  <2>2. \A q \in KeyValues : q[1] \in NodeKeys
    BY DEF KeyValues
  <2>3. \A i \in NodeKeys : i \in Int
    BY BytesAreCounted
  <2> QED
    BY <2>1, <2>2, <2>3 DEF Apart
<1>13. ASSUME NEW i \in DOMAIN s, NEW j \in DOMAIN s, i < j
       PROVE  s[i][1] < s[j][1]
  <2>1. i \in 1..(m + 1 + d) /\ j \in 1..(m + 1 + d)
    BY <1>6
  <2>2. CASE i \in 1..m
    <3>1. s[i] = a[i] /\ s[i] \in P
      BY <1>7, <1>8, <2>2
    <3>2. CASE j \in 1..m
      <4>1. s[j] = a[j]
        BY <1>7, <3>2
      <4>2. a[i][1] < a[j][1]
        BY <1>6, <1>13, <2>2, <3>2 DEF ListsPairs
      <4> QED
        BY <3>1, <4>1, <4>2
    <3>3. CASE j \notin 1..m
      <4>1. s[j] = p \/ s[j] \in Q
        BY <1>10, <2>1, <3>3
      <4> QED
        BY <1>2, <1>12, <3>1, <4>1
    <3> QED
      BY <3>2, <3>3
  <2>3. CASE i = m + 1
    <3>1. s[i] = p
      BY <1>7, <2>3
    <3>2. j \notin 1..m /\ j # m + 1
      BY <1>13, <2>1, <2>3
    <3>3. s[j] \in Q
      BY <1>10, <2>1, <3>2
    <3> QED
      BY <1>2, <1>12, <3>1, <3>3
  <2>4. CASE i - m - 1 \in 1..d
    <3>1. j \notin 1..m /\ j # m + 1
      BY <1>13, <2>1, <2>4
    <3>2. /\ j - m - 1 \in 1..d /\ s[j] = b[j - m - 1]
      BY <1>10, <2>1, <3>1
    <3>3. s[i] = b[i - m - 1]
      <4>1. s[m + 1 + (i - m - 1)] = b[i - m - 1]
        BY <1>7, <2>4
      <4>2. m + 1 + (i - m - 1) = i
        BY <2>1
      <4> QED
        BY <4>1, <4>2
    <3>4. i - m - 1 < j - m - 1
      BY <1>13, <2>1
    <3>5. b[i - m - 1][1] < b[j - m - 1][1]
      BY <1>6, <2>4, <3>2, <3>4 DEF ListsPairs
    <3> QED
      BY <3>2, <3>3, <3>5
  <2> QED
    BY <1>10, <2>1, <2>2, <2>3, <2>4
<1>14. ListsPairs(s, Joint(P, k, v, Q))
  <2>1. s \in PairSeqs
    BY <1>6 DEF PairSeqs
  <2> QED
    BY <1>11, <1>13, <2>1 DEF ListsPairs
<1> QED
  BY <1>1, <1>4, <1>14

LEMMA ProperLists ==
  ASSUME NEW n \in Nat, n = treeCount,
         NEW P, NEW c, NEW b, IsProper(root, P, c, b), root \in Trees[n]
  PROVE  ListsPairs(InOrder, P)
<1>1. PICK visits : /\ InOrder = visits[root] /\ visits[Nil] = <<>>
                    /\ \A t \in Trees[n] : t # Nil =>
                         visits[t] = VisitStep(t, visits[t.left], visits[t.right])
  BY VisitsAre
<1> DEFINE S == {u \in Proper : u[1] \in Trees[n] => ListsPairs(visits[u[1]], u[2])}
<1>2. NoTree \in S
  <2>1. NoTree \in Proper
    BY ProperClosed DEF ClosedUnder
  <2>2. NoTree[1] = Nil /\ NoTree[2] = {}
    BY DEF NoTree
  <2>3. ListsPairs(<<>>, {})
    BY DEF ListsPairs, PairSeqs
  <2> QED
    BY <1>1, <2>1, <2>2, <2>3
<1>3. ASSUME NEW x \in S, NEW y \in S, NEW k0 \in NodeKeys, NEW v0 \in NodeValues,
             NEW red \in BOOLEAN, MayJoin(x, y, k0, red),
             JoinedBy(x, y, k0, v0, red) \in Proper
      PROVE  JoinedBy(x, y, k0, v0, red) \in S
  <2>1. x \in Proper /\ y \in Proper
    OBVIOUS
  <2>2. PICK l, Pl, cl, bl, r, Q, d :
           /\ x = <<l, Pl, cl, bl>> /\ y = <<r, Q, d, bl>>
           /\ IsProper(l, Pl, cl, bl) /\ IsProper(r, Q, d, bl)
           /\ Apart(Pl, k0, Q) /\ ~IsRed(r) /\ (red => ~IsRed(l))
           /\ JoinedBy(x, y, k0, v0, red)
                = <<Node(k0, v0, red, l, r), Joint(Pl, k0, v0, Q), cl + d + 1, Blacks(red, bl)>>
    BY <1>3, <2>1, JoinedAre
  <2>3. /\ l \in Trees[n] => ListsPairs(visits[l], Pl)
        /\ r \in Trees[n] => ListsPairs(visits[r], Q)
    BY <2>2
  <2>4. PICK t : t = Node(k0, v0, red, l, r)
    OBVIOUS
  <2>5. ASSUME t \in Trees[n]
        PROVE  ListsPairs(visits[t], Joint(Pl, k0, v0, Q))
    <3>1. t # Nil /\ t.key = k0 /\ t.val = v0 /\ t.left = l /\ t.right = r
      BY <2>4, NodesAre
    <3>2. l \in Trees[n] /\ r \in Trees[n]
      BY <2>5, <3>1, SubtreesAre
    <3>3. ListsPairs(visits[l], Pl) /\ ListsPairs(visits[r], Q)
      BY <2>3, <3>2
    <3>4. visits[t] = VisitStep(t, visits[l], visits[r])
      BY <1>1, <2>5, <3>1
    <3>5. visits[t] = visits[l] \o <<<<k0, v0>>>> \o visits[r]
      BY <3>1, <3>4 DEF VisitStep
    <3> QED
      BY <2>2, <3>3, <3>5, ListsJoint
  <2>6. PICK u \in Proper : u = JoinedBy(x, y, k0, v0, red)
    BY <1>3
  <2>7. u[1] = t /\ u[2] = Joint(Pl, k0, v0, Q)
    BY <2>2, <2>4, <2>6
  <2>8. u[1] \in Trees[n] => ListsPairs(visits[u[1]], u[2])
    BY <2>5, <2>7
  <2> QED
    BY <2>6, <2>8
<1>4. ClosedWithin(S)
  <2>1. S \subseteq Proper
    OBVIOUS
  <2> HIDE DEF S
  <2> QED
    BY <1>2, <1>3, <2>1 DEF ClosedWithin
<1>5. <<root, P, c, b>> \in S
  <2> HIDE DEF S
  <2> QED
    BY <1>4, ProperInduct
<1> QED
  BY <1>1, <1>5

THEOREM MemtableIsSorted == RBSpec => []InOrderIsWhatWasPut
<1>1. TreeInv => InOrderIsWhatWasPut
  <2> SUFFICES ASSUME TreeInv PROVE InOrderIsWhatWasPut
    OBVIOUS
  <2>1. PICK b : IsProper(root, HeldPairs(map), treeCount, b)
    BY DEF TreeInv, HoldsTree
  <2>2. PICK n \in Nat : n = treeCount
    BY <2>1, ProperType
  <2>3. root \in Trees[n]
    BY <2>1, <2>2, HeightIs
  <2>4. ListsPairs(InOrder, HeldPairs(map))
    BY <2>1, <2>2, <2>3, ProperLists
  <2>5. HeldPairs(map) = {<<k, map[k]>> : k \in {x \in NodeKeys : map[x] # NoValue}}
    BY DEF HeldPairs, HeldKeys
  <2> QED
    BY <2>4, <2>5 DEF InOrderIsWhatWasPut, ListsPairs
<1> QED
  BY <1>1, TreeIsProper, PTL
=============================================================================
