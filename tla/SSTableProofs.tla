--------------------------- MODULE SSTableProofs ----------------------------
(***************************************************************************)
(* The file of SSTable for any keys, values, index step and limits of the  *)
(* readers: what the Writer lays down and notes, and what Get, a range     *)
(* scan and a compaction read of it by offset, is what Tables says.        *)
(***************************************************************************)
EXTENDS SSTable, TableProofs

-----------------------------------------------------------------------------
(* The file.                                                               *)

(* A version of a key, as it is appended.                                  *)
Version == Value \cup {Tomb}

Rec == [at : Nat, key : Keys, val : Version]

Behind(r) == r.at + RecordSize(r.key, r.val)

(* The records of file f lie one behind the other, in the order of their   *)
(* keys, from 0 to end.                                                    *)
Laid(f, end) ==
  /\ f \subseteq Rec /\ IsFiniteSet(f) /\ end \in Nat
  /\ \A q, r \in f : q.key = r.key => q = r
  /\ \A q, r \in f : q.key < r.key => Behind(q) <= r.at
  /\ \A r \in f : /\ Behind(r) <= end
                  /\ Behind(r) = end \/ \E q \in f : q.at = Behind(r)
  /\ f # {} => \E r \in f : r.at = 0
  /\ f = {} => end = 0

(* The table that the records of f amount to.                              *)
Of(f) == [k \in Keys |-> IF \E r \in f : r.key = k
                           THEN (CHOOSE r \in f : r.key = k).val
                           ELSE Absent]

Noters == [minKey : Nat, maxKey : Nat, bloom : SUBSET Keys,
           index : Seq([key : Keys, offset : Nat]), itemCount : Nat, curOffset : Nat]

(* What the Writer x has noted of the records of f.                        *)
Notes(x, f) ==
  /\ x \in Noters
  /\ x.bloom = Records(Of(f))
  /\ x.itemCount = Cardinality(Records(Of(f)))
  /\ x.minKey = MinKey(Of(f))
  /\ x.maxKey = MaxKey(Of(f))
  /\ \A i \in 1..Len(x.index) : /\ x.index[i].key \in Indexed(Of(f))
                                /\ \E r \in f : /\ r.at = x.index[i].offset
                                                /\ r.key = x.index[i].key
  /\ \A k \in Indexed(Of(f)) : \E i \in 1..Len(x.index) : x.index[i].key = k
  /\ \A i, j \in 1..Len(x.index) : i < j => x.index[i].key < x.index[j].key

FileInv ==
  /\ phase \in {"writing", "closed", "failed"}
  /\ phase # "failed" => /\ Laid(file, FileEnd)
                         /\ Notes(w, file)
                         /\ w.curOffset = FileEnd

-----------------------------------------------------------------------------
(* The readers.                                                            *)

Iterators == [pos : Nat, key : Nat, val : Version \cup {Absent}, pending : {FALSE},
              ok : BOOLEAN, err : {FALSE}, eof : {FALSE}]

(* Between two turns of a reader's loop the iterator stands before a       *)
(* record or at the end of the data.                                       *)
Stands ==
  /\ it \in Iterators
  /\ it.pos = w.curOffset \/ \E r \in file : r.at = it.pos

(* The records of f that begin from a on, before b.                        *)
Between(f, a, b) == {r \in f : a <= r.at /\ r.at < b}

(* What the reader has gone over since the record s it started at.         *)
Over(s) == Between(file, s.at, it.pos)

(* The pairs of a list are those of the records of S, in their order.      *)
Lists(got, S) ==
  /\ got \in Seq(Keys \X Version)
  /\ InOrder(got)
  /\ \A i \in 1..Len(got) : \E r \in S : got[i] = <<r.key, r.val>>
  /\ \A r \in S : \E i \in 1..Len(got) : got[i] = <<r.key, r.val>>

(* The record of f a reader for key lo starts at: that of the last index   *)
(* entry at or below lo, or the first.                                     *)
Starts(f, s, lo) ==
  /\ s \in f
  /\ Rank(Of(f), s.key) = StartRank(Of(f), lo)
  /\ s.key <= lo \/ s.at = 0

GetGoesOn ==
  rd.at = "reading" /\ rd.op = "get" =>
    /\ Stands
    /\ rd \in [op : {"get"}, key : Keys, at : {"reading"}, got : {Absent}]
    /\ \E s \in file :
         /\ Starts(file, s, rd.key)
         /\ s.at <= it.pos
         /\ \A r \in Over(s) : Readable(r.key, r.val) /\ r.key < rd.key

PastKeys(hi) == {k \in Keys : Past(k, hi)}

(* What a scan has gone over and got, from s to before pos.                *)
ScanSoFar(f, lo, hi, s, pos, got) ==
  /\ lo \in Nat /\ hi \in Nat \cup {NoEnd} /\ pos \in Nat
  /\ Starts(f, s, lo)
  /\ s.at <= pos
  /\ \A r \in Between(f, s.at, pos) : /\ Readable(r.key, r.val)
                                      /\ r.key >= lo => ~Past(r.key, hi)
  /\ Lists(got, {r \in Between(f, s.at, pos) : r.key >= lo})

Scanners == [op : {"scan"}, lo : Nat, hi : Nat \cup {NoEnd}, at : {"reading"},
             got : Seq(Keys \X Version)]

ScanGoesOn ==
  rd.at = "reading" /\ rd.op = "scan" =>
    /\ Stands
    /\ rd \in Scanners
    /\ ~OutOfRange(Written, rd.lo, PastKeys(rd.hi))
    /\ \E s \in file : ScanSoFar(file, rd.lo, rd.hi, s, it.pos, rd.got)

CompactionGoesOn ==
  rd.at = "reading" /\ rd.op = "compact" =>
    /\ Stands
    /\ rd \in [op : {"compact"}, at : {"reading"}, got : Seq(Keys \X Version)]
    /\ file # {}
    /\ \A r \in Between(file, 0, it.pos) : Readable(r.key, r.val)
    /\ Lists(rd.got, Between(file, 0, it.pos))

ReaderInv ==
  /\ rd.at = "idle" \/ phase = "closed"
  /\ rd.at # "idle" => rd.op \in {"get", "scan", "compact"}
  /\ GetGoesOn
  /\ ScanGoesOn
  /\ CompactionGoesOn
  /\ GetIsRight
  /\ ScanIsRight
  /\ CompactionIsRight

SSInv == FileInv /\ ReaderInv

-----------------------------------------------------------------------------
(* Sizes.                                                                  *)

LEMMA VersionsHaveSize ==
  ASSUME NEW k \in Keys, NEW v \in Version
  PROVE  ValueSize(v) \in Nat /\ RecordSize(k, v) \in Nat /\ RecordSize(k, v) >= 8
<1>1. ValueSize(v) \in Nat
  <2>1. CASE v = Tomb
    BY <2>1 DEF ValueSize
  <2>2. CASE v # Tomb
    <3>1. v \in SUBSET Data
      BY <2>2 DEF Version, Value
    <3> QED
      BY <2>2, <3>1, DataAreFinite, FS_Subset, FS_CardinalityType DEF ValueSize
  <2> QED
    BY <2>1, <2>2
<1>2. k \in Nat
  BY KeysAreOrdered
<1> QED
  BY <1>1, <1>2 DEF RecordSize, HeaderSize

SizeOf(S) == MapThenSumSet(LAMBDA r : RecordSize(r.key, r.val), S)

LEMMA SizeIsTotal ==
  ASSUME NEW S
  PROVE  SizeOf(S) = Total([r \in S |-> RecordSize(r.key, r.val)], S)
<1> DEFINE g == [r \in S |-> RecordSize(r.key, r.val)]
           F(h) == [s \in SUBSET S |-> IF s = {} THEN 0
                      ELSE LET x == CHOOSE x \in s : TRUE
                           IN  RecordSize(x.key, x.val) + h[s \ {x}]]
<1>1. SizeOf(S) = (CHOOSE h : h = F(h))[S]
  BY Zenon DEF SizeOf, MapThenSumSet, MapThenFoldSet
<1>2. ASSUME NEW h
      PROVE  h = F(h) <=> Sums(h, g, S)
  <2> DEFINE G == [s \in SUBSET S |-> IF s = {} THEN 0
                     ELSE g[CHOOSE x \in s : TRUE] + h[s \ {CHOOSE x \in s : TRUE}]]
  <2>1. ASSUME NEW s \in SUBSET S, s # {}
        PROVE  g[CHOOSE x \in s : TRUE]
                 = RecordSize((CHOOSE x \in s : TRUE).key, (CHOOSE x \in s : TRUE).val)
    <3>1. (CHOOSE x \in s : TRUE) \in S
      BY <2>1
    <3> QED
      BY <3>1
  <2>2. F(h) = G
    BY <2>1
  <2>3. Sums(h, g, S) <=> h = G
    BY Zenon DEF Sums
  <2> QED
    BY <2>2, <2>3
<1> HIDE DEF F, g
<1>3. (CHOOSE h : h = F(h)) = (CHOOSE h : Sums(h, g, S))
  BY <1>2
<1> QED
  BY <1>1, <1>3 DEF Total, g

LEMMA SizeNext ==
  ASSUME NEW f, f \subseteq Rec, IsFiniteSet(f), NEW r \in Rec, r \notin f
  PROVE  SizeOf(f \cup {r}) = SizeOf(f) + RecordSize(r.key, r.val) /\ SizeOf(f) \in Nat
<1> DEFINE g == [x \in f \cup {r} |-> RecordSize(x.key, x.val)]
           g0 == [x \in f |-> RecordSize(x.key, x.val)]
<1>0. PICK T : T = f \cup {r}
  OBVIOUS
<1>1. \A x \in f \cup {r} : RecordSize(x.key, x.val) \in Nat
  <2> SUFFICES ASSUME NEW x \in f \cup {r} PROVE RecordSize(x.key, x.val) \in Nat
    OBVIOUS
  <2>1. x.key \in Keys /\ x.val \in Version
    BY DEF Rec
  <2> QED
    BY <2>1, VersionsHaveSize
<1>2. g \in [T -> Nat] /\ g0 \in [f -> Nat] /\ (\A x \in f : g0[x] = g[x])
      /\ g[r] = RecordSize(r.key, r.val)
  BY <1>0, <1>1
<1>3. SizeOf(T) = Total(g, T) /\ SizeOf(f) = Total(g0, f)
  BY <1>0, SizeIsTotal
<1> HIDE DEF g, g0
<1>4. Total(g, T) = g[r] + Total(g0, f) /\ Total(g0, f) \in Nat
  BY <1>0, <1>2, TotalNext
<1>5. RecordSize(r.key, r.val) \in Nat
  BY <1>1
<1> QED
  BY <1>0, <1>2, <1>3, <1>4, <1>5

LEMMA SizeOfNone == SizeOf({}) = 0
<1>1. [r \in {} |-> RecordSize(r.key, r.val)] \in [{} -> Nat]
  OBVIOUS
<1> QED
  BY <1>1, SizeIsTotal, TotalOfNone

-----------------------------------------------------------------------------
(* The table a file amounts to.                                            *)

LEMMA OfIs ==
  ASSUME NEW f, NEW end, Laid(f, end)
  PROVE  /\ Of(f) \in [Keys -> Entry]
         /\ \A r \in f : r.key \in Records(Of(f)) /\ Of(f)[r.key] = r.val
         /\ \A k \in Records(Of(f)) : \E r \in f : r.key = k
         /\ IsFiniteSet(Records(Of(f))) /\ Records(Of(f)) \in SUBSET Nat
<1>0. f \subseteq Rec /\ IsFiniteSet(f) /\ \A q, r \in f : q.key = r.key => q = r
  BY DEF Laid
<1>1. ASSUME NEW r \in f
      PROVE  r.key \in Keys /\ r.val \in Version /\ r.val # Absent /\ Of(f)[r.key] = r.val
  <2>1. r.key \in Keys /\ r.val \in Version
    BY <1>0 DEF Rec
  <2>2. r.val # Absent
    BY <2>1, EntriesDiffer DEF Version, Value
  <2>3. (CHOOSE q \in f : q.key = r.key) = r
    BY <1>0
  <2> QED
    BY <2>1, <2>2, <2>3 DEF Of
<1>2. \A k \in Keys : Of(f)[k] = Absent \/ \E r \in f : r.key = k
  BY DEF Of
<1>3. \A k \in Keys : Of(f)[k] \in Entry
  BY <1>1, <1>2 DEF Entry, Version
<1>4. Of(f) \in [Keys -> Entry]
  <2>1. Of(f) = [k \in Keys |-> Of(f)[k]]
    BY DEF Of
  <2> QED
    BY <1>3, <2>1
<1>5. \A k \in Records(Of(f)) : k \in Keys /\ \E r \in f : r.key = k
  BY <1>2 DEF Records
<1>6. \A r \in f : r.key \in Records(Of(f))
  BY <1>1 DEF Records
<1>7. IsFiniteSet(Records(Of(f)))
  <2> DEFINE K == {r.key : r \in f}
           pick == [r \in f |-> r.key]
  <2>0. pick \in Surjection(f, K)
    <3>1. pick \in [f -> K]
      OBVIOUS
    <3>2. \A k \in K : \E r \in f : pick[r] = k
      OBVIOUS
    <3> QED
      BY <3>1, <3>2 DEF Surjection
  <2>1. IsFiniteSet(K)
    BY <1>0, <2>0, FS_Surjection
  <2>2. Records(Of(f)) = K
    BY <1>5, <1>6
  <2> QED
    BY <2>1, <2>2
<1>8. Records(Of(f)) \in SUBSET Nat
  BY <1>5, KeysAreOrdered
<1> QED
  BY <1>1, <1>4, <1>5, <1>6, <1>7, <1>8

LEMMA RecFields ==
  ASSUME NEW f, NEW end, Laid(f, end), NEW r \in f
  PROVE  /\ r.at \in Nat /\ r.key \in Keys /\ r.key \in Nat /\ r.val \in Version
         /\ Behind(r) \in Nat /\ Behind(r) >= r.at + 8 /\ Behind(r) <= end
         /\ r.at < Behind(r) /\ r.at < end
         /\ Behind(r) = end \/ \E q \in f : q.at = Behind(r)
<1>1. r.at \in Nat /\ r.key \in Keys /\ r.key \in Nat /\ r.val \in Version
  BY KeysAreOrdered DEF Laid, Rec
<1>2. RecordSize(r.key, r.val) \in Nat /\ RecordSize(r.key, r.val) >= 8
  BY <1>1, VersionsHaveSize
<1>3. Behind(r) <= end /\ end \in Nat /\ (Behind(r) = end \/ \E q \in f : q.at = Behind(r))
  BY DEF Laid
<1>4. Behind(r) \in Nat /\ Behind(r) >= r.at + 8
  BY <1>1, <1>2 DEF Behind
<1>5. r.at < Behind(r) /\ r.at < end
  BY <1>1, <1>3, <1>4
<1> QED
  BY <1>1, <1>3, <1>4, <1>5

(* The records are in one order by key, by offset and by rank.             *)
LEMMA OneOrder ==
  ASSUME NEW f, NEW end, Laid(f, end), NEW q \in f, NEW r \in f
  PROVE  /\ q.key < r.key => /\ Behind(q) <= r.at /\ q.at < r.at
                             /\ Rank(Of(f), q.key) < Rank(Of(f), r.key)
         /\ q.at < r.at => q.key < r.key
         /\ q.at = r.at => q = r
         /\ q.at <= r.at <=> q.key <= r.key
         /\ Rank(Of(f), q.key) \in Nat
         /\ q.key <= r.key <=> Rank(Of(f), q.key) <= Rank(Of(f), r.key)
<1>1. /\ q.at \in Nat /\ q.key \in Nat /\ Behind(q) \in Nat /\ q.at < Behind(q)
      /\ r.at \in Nat /\ r.key \in Nat /\ Behind(r) \in Nat /\ r.at < Behind(r)
  BY RecFields
<1>2. /\ q.key = r.key => q = r
      /\ q.key < r.key => Behind(q) <= r.at
      /\ r.key < q.key => Behind(r) <= q.at
  BY DEF Laid
<1>3. /\ q.key < r.key => Rank(Of(f), q.key) < Rank(Of(f), r.key)
      /\ r.key < q.key => Rank(Of(f), r.key) < Rank(Of(f), q.key)
  BY <1>1, OfIs, RankIsStrict
<1>4. Rank(Of(f), q.key) \in Nat /\ Rank(Of(f), r.key) \in Nat
  BY OfIs, RankGrows
<1>5. q.key < r.key => q.at < r.at
  BY <1>1, <1>2
<1>6. r.key < q.key => r.at < q.at
  BY <1>1, <1>2
<1>7. q.key < r.key \/ r.key < q.key \/ q = r
  BY <1>1, <1>2
<1>8. CASE q.key < r.key
  BY <1>1, <1>2, <1>3, <1>4, <1>5, <1>8
<1>9. CASE r.key < q.key
  BY <1>1, <1>2, <1>3, <1>4, <1>6, <1>9
<1>10. CASE q = r
  BY <1>1, <1>4, <1>10
<1> QED
  BY <1>7, <1>8, <1>9, <1>10

-----------------------------------------------------------------------------
(* Writing.                                                                *)

LEMMA LaidNext ==
  ASSUME NEW f, NEW end, Laid(f, end), NEW k \in Keys, NEW v \in Version,
         \A q \in f : q.key < k,
         NEW r, r = [at |-> end, key |-> k, val |-> v], NEW g, g = f \cup {r}
  PROVE  Laid(g, end + RecordSize(k, v)) /\ r \in Rec /\ r \notin f
<1>1. /\ f \subseteq Rec /\ IsFiniteSet(f) /\ end \in Nat
      /\ \A p, q \in f : p.key = q.key => p = q
      /\ \A p, q \in f : p.key < q.key => Behind(p) <= q.at
      /\ f # {} => \E q \in f : q.at = 0
      /\ f = {} => end = 0
  BY DEF Laid
<1>2. RecordSize(k, v) \in Nat /\ RecordSize(k, v) >= 8 /\ k \in Nat
  BY VersionsHaveSize, KeysAreOrdered
<1>3. r \in Rec /\ r.at = end /\ r.key = k /\ r.val = v
  BY <1>1 DEF Rec
<1>4. Behind(r) = end + RecordSize(k, v)
  BY <1>3 DEF Behind
<1>5. \A q \in f : /\ q.key \in Nat /\ q.key < k /\ Behind(q) \in Nat /\ Behind(q) <= end
                   /\ Behind(q) = end \/ \E p \in f : p.at = Behind(q)
  BY RecFields
<1>6. r \notin f
  BY <1>2, <1>3, <1>5
<1>7. g \subseteq Rec /\ IsFiniteSet(g) /\ end + RecordSize(k, v) \in Nat
  BY <1>1, <1>2, <1>3, FS_AddElement
<1>8. \A p, q \in g : p.key = q.key => p = q
  BY <1>1, <1>2, <1>3, <1>5
<1>9. \A p, q \in g : p.key < q.key => Behind(p) <= q.at
  <2> SUFFICES ASSUME NEW p \in g, NEW q \in g, p.key < q.key PROVE Behind(p) <= q.at
    OBVIOUS
  <2>1. CASE p \in f /\ q \in f
    BY <1>1, <2>1
  <2>2. CASE q = r
    BY <1>2, <1>3, <1>5, <2>2
  <2>3. CASE p = r /\ q \in f
    BY <1>2, <1>3, <1>5, <2>3
  <2> QED
    BY <2>1, <2>2, <2>3
<1>10. \A q \in g : /\ Behind(q) <= end + RecordSize(k, v)
                    /\ Behind(q) = end + RecordSize(k, v) \/ \E p \in g : p.at = Behind(q)
  <2> SUFFICES ASSUME NEW q \in g
               PROVE  /\ Behind(q) <= end + RecordSize(k, v)
                      /\ Behind(q) = end + RecordSize(k, v) \/ \E p \in g : p.at = Behind(q)
    OBVIOUS
  <2>1. CASE q = r
    BY <1>1, <1>2, <1>4, <2>1
  <2>2. CASE q \in f
    BY <1>1, <1>2, <1>3, <1>5, <2>2
  <2> QED
    BY <2>1, <2>2
<1>11. \E q \in g : q.at = 0
  BY <1>1, <1>3
<1> QED
  BY <1>3, <1>6, <1>7, <1>8, <1>9, <1>10, <1>11 DEF Laid

LEMMA OfNext ==
  ASSUME NEW f, NEW end, Laid(f, end), NEW k \in Keys, NEW v \in Version,
         \A q \in f : q.key < k,
         NEW r, r = [at |-> end, key |-> k, val |-> v], NEW g, g = f \cup {r}
  PROVE  /\ Records(Of(g)) = Records(Of(f)) \cup {k}
         /\ k \notin Records(Of(f))
         /\ \A j \in Records(Of(f)) : j < k /\ Rank(Of(g), j) = Rank(Of(f), j)
         /\ Rank(Of(g), k) = Cardinality(Records(Of(f)))
<1>1. Laid(g, end + RecordSize(k, v)) /\ r.key = k
  BY LaidNext
<1>2. k \in Nat /\ \A j \in Records(Of(f)) : j \in Nat /\ j < k
  BY OfIs, KeysAreOrdered
<1>3. Records(Of(g)) = Records(Of(f)) \cup {k}
  <2>1. \A q \in g : q.key \in Records(Of(g))
    BY <1>1, OfIs
  <2>2. \A j \in Records(Of(g)) : \E q \in g : q.key = j
    BY <1>1, OfIs
  <2>3. \A q \in f : q.key \in Records(Of(f))
    BY OfIs
  <2>4. \A j \in Records(Of(f)) : \E q \in f : q.key = j
    BY OfIs
  <2>5. \A j \in Records(Of(g)) : j \in Records(Of(f)) \cup {k}
    BY <1>1, <2>2, <2>3
  <2>6. \A j \in Records(Of(f)) \cup {k} : j \in Records(Of(g))
    BY <1>1, <2>1, <2>4
  <2> QED
    BY <2>5, <2>6
<1>4. ASSUME NEW j \in Records(Of(f))
      PROVE  Rank(Of(g), j) = Rank(Of(f), j)
  <2>1. {i \in Records(Of(g)) : i < j} = {i \in Records(Of(f)) : i < j}
    BY <1>2, <1>3
  <2> QED
    BY <2>1 DEF Rank
<1>5. {i \in Records(Of(g)) : i < k} = Records(Of(f))
  <2>1. ~(k < k)
    BY <1>2
  <2> QED
    BY <1>2, <1>3, <2>1, Zenon
<1>6. k \notin Records(Of(f))
  BY <1>2
<1> QED
  BY <1>2, <1>3, <1>4, <1>5, <1>6 DEF Rank

LEMMA BoundsNext ==
  ASSUME NEW f, NEW end, Laid(f, end), NEW k \in Keys, NEW v \in Version,
         \A q \in f : q.key < k,
         NEW r, r = [at |-> end, key |-> k, val |-> v], NEW g, g = f \cup {r}
  PROVE  /\ MinKey(Of(g)) = IF MinKey(Of(f)) = EmptyKey THEN k ELSE MinKey(Of(f))
         /\ MaxKey(Of(g)) = k
         /\ MinKey(Of(f)) \in Nat /\ MaxKey(Of(f)) \in Nat
<1>1. PICK R : R = Records(Of(f))
  OBVIOUS
<1>2. PICK T : T = Records(Of(g))
  OBVIOUS
<1>3. R \in SUBSET Nat /\ IsFiniteSet(R)
  BY <1>1, OfIs
<1>4. T = R \cup {k} /\ k \in Nat /\ \A j \in R : j < k
  BY <1>1, <1>2, OfNext, KeysAreOrdered
<1>5. MaxKey(Of(g)) = k
  <2>1. Max(T) = k
    <3>1. \A j \in T : j <= k
      BY <1>3, <1>4
    <3> QED
      BY <1>3, <1>4, <3>1, MaxIs
  <2> QED
    BY <1>2, <1>4, <2>1 DEF MaxKey
<1>6. MaxKey(Of(f)) \in Nat
  BY <1>1, <1>3, MaxOfFinite DEF MaxKey, EmptyKey
<1>7. PICK R1, T1 : R1 = R \ {EmptyKey} /\ T1 = T \ {EmptyKey}
  OBVIOUS
<1>8. /\ MinKey(Of(f)) = IF R1 = {} THEN EmptyKey ELSE Min(R1)
      /\ MinKey(Of(g)) = IF T1 = {} THEN EmptyKey ELSE Min(T1)
  BY <1>1, <1>2, <1>7 DEF MinKey
<1>9. CASE R1 = {}
  <2>1. MinKey(Of(f)) = EmptyKey
    BY <1>8, <1>9
  <2>2. CASE k = EmptyKey
    <3>1. T1 = {}
      BY <1>4, <1>7, <1>9, <2>2
    <3> QED
      BY <1>5, <1>6, <1>8, <2>1, <2>2, <3>1 DEF EmptyKey
  <2>3. CASE k # EmptyKey
    <3>1. T1 = {k}
      BY <1>4, <1>7, <1>9, <2>3
    <3>2. Min(T1) = k
      BY <1>4, <3>1, MinIs
    <3> QED
      BY <1>5, <1>6, <1>8, <2>1, <3>1, <3>2 DEF EmptyKey
  <2> QED
    BY <2>2, <2>3
<1>10. CASE R1 # {}
  <2>1. R1 \in SUBSET Nat
    BY <1>3, <1>7
  <2>2. PICK m : m = Min(R1)
    OBVIOUS
  <2>3. m \in R1 /\ \A j \in R1 : m <= j
    BY <1>10, <2>1, <2>2, MinOfNats
  <2>4. m \in R /\ m # EmptyKey /\ m \in Nat /\ m < k
    BY <1>3, <1>4, <1>7, <2>3
  <2>5. T1 \in SUBSET Nat /\ m \in T1 /\ \A j \in T1 : m <= j
    <3>1. k # EmptyKey
      BY <1>4, <2>4 DEF EmptyKey
    <3>2. T1 = R1 \cup {k}
      BY <1>4, <1>7, <3>1
    <3> QED
      BY <1>4, <2>1, <2>3, <2>4, <3>2
  <2>6. Min(T1) = m
    BY <2>5, MinIs
  <2> QED
    BY <1>5, <1>6, <1>8, <1>10, <2>2, <2>4, <2>5, <2>6
<1> QED
  BY <1>9, <1>10

(* The index after the record of k, and before it.                         *)
IndexGrows(f, g, k) ==
  Indexed(Of(g)) = IF Cardinality(Records(Of(f))) % IndexStep = 0
                     THEN Indexed(Of(f)) \cup {k} ELSE Indexed(Of(f))

LEMMA IndexedNext ==
  ASSUME NEW f, NEW end, Laid(f, end), NEW k \in Keys, NEW v \in Version,
         \A q \in f : q.key < k,
         NEW r, r = [at |-> end, key |-> k, val |-> v], NEW g, g = f \cup {r}
  PROVE  IndexGrows(f, g, k)
<1>1. PICK R, T : R = Records(Of(f)) /\ T = Records(Of(g))
  OBVIOUS
<1>2. PICK n : n = Cardinality(R)
  OBVIOUS
<1>3. /\ T = R \cup {k} /\ k \notin R /\ Rank(Of(g), k) = n
      /\ \A j \in R : Rank(Of(g), j) = Rank(Of(f), j)
  BY <1>1, <1>2, OfNext
<1>4. /\ Indexed(Of(f)) = {j \in R : Rank(Of(f), j) % IndexStep = 0}
      /\ Indexed(Of(g)) = {j \in T : Rank(Of(g), j) % IndexStep = 0}
  BY <1>1 DEF Indexed
<1>5. \A j \in R : j \in Indexed(Of(g)) <=> j \in Indexed(Of(f))
  BY <1>3, <1>4
<1>6. k \in Indexed(Of(g)) <=> n % IndexStep = 0
  BY <1>3, <1>4
<1>7. Indexed(Of(f)) \subseteq R /\ Indexed(Of(g)) \subseteq R \cup {k}
  BY <1>3, <1>4
<1>8. CASE n % IndexStep = 0
  <2>1. \A j : j \in Indexed(Of(g)) <=> j \in Indexed(Of(f)) \cup {k}
    BY <1>5, <1>6, <1>7, <1>8, Zenon
  <2>2. Indexed(Of(g)) = Indexed(Of(f)) \cup {k}
    BY <2>1
  <2> QED
    BY <1>1, <1>2, <1>8, <2>2 DEF IndexGrows
<1>9. CASE n % IndexStep # 0
  <2>1. \A j : j \in Indexed(Of(g)) <=> j \in Indexed(Of(f))
    BY <1>3, <1>5, <1>6, <1>7, <1>9, Zenon
  <2>2. Indexed(Of(g)) = Indexed(Of(f))
    BY <2>1
  <2> QED
    BY <1>1, <1>2, <1>9, <2>2 DEF IndexGrows
<1> QED
  BY <1>8, <1>9

(* What the Writer notes of a record, and then counts of its size.         *)
LEMMA NotesNext ==
  ASSUME NEW f, NEW end, Laid(f, end), NEW k \in Keys, NEW v \in Version,
         \A q \in f : q.key < k,
         NEW r, r = [at |-> end, key |-> k, val |-> v], NEW g, g = f \cup {r},
         NEW x, Notes(x, f), x.curOffset = end,
         NEW size \in Nat,
         NEW y, y = [Noted(x, k) EXCEPT !.curOffset = x.curOffset + size]
  PROVE  Notes(y, g) /\ y.curOffset = end + size
<1>1. /\ x \in Noters
      /\ x.bloom = Records(Of(f))
      /\ x.itemCount = Cardinality(Records(Of(f)))
      /\ x.minKey = MinKey(Of(f))
      /\ x.maxKey = MaxKey(Of(f))
      /\ \A i \in 1..Len(x.index) : /\ x.index[i].key \in Indexed(Of(f))
                                    /\ \E q \in f : /\ q.at = x.index[i].offset
                                                    /\ q.key = x.index[i].key
      /\ \A j \in Indexed(Of(f)) : \E i \in 1..Len(x.index) : x.index[i].key = j
      /\ \A i, j \in 1..Len(x.index) : i < j => x.index[i].key < x.index[j].key
  BY DEF Notes
<1>2. k \in Nat /\ end \in Nat
  BY KeysAreOrdered DEF Laid
<1>3. /\ x.minKey \in Nat /\ x.maxKey \in Nat /\ x.bloom \in SUBSET Keys
      /\ x.index \in Seq([key : Keys, offset : Nat])
      /\ x.itemCount \in Nat /\ x.curOffset \in Nat
  BY <1>1 DEF Noters
<1>4. PICK e : e = [key |-> k, offset |-> end]
  OBVIOUS
<1>5. e \in [key : Keys, offset : Nat] /\ e.key = k /\ e.offset = end
  BY <1>2, <1>4
<1>6. /\ y \in [minKey : {y.minKey}, maxKey : {k}, bloom : {x.bloom \cup {k}},
                index : {y.index}, itemCount : {x.itemCount + 1}, curOffset : {end + size}]
      /\ y.minKey = IF x.minKey = EmptyKey THEN k ELSE x.minKey
      /\ y.index = IF x.itemCount % IndexStep = 0 THEN Append(x.index, e) ELSE x.index
      /\ y.maxKey = k /\ y.bloom = x.bloom \cup {k} /\ y.itemCount = x.itemCount + 1
      /\ y.curOffset = end + size
  BY <1>1, <1>4 DEF Noted, Noters
<1>7. y.minKey \in Nat
  BY <1>2, <1>3, <1>6
<1>8. y.index \in Seq([key : Keys, offset : Nat])
  <2>1. PICK E : E = [key : Keys, offset : Nat]
    OBVIOUS
  <2>2. x.index \in Seq(E) /\ e \in E
    BY <1>3, <1>5, <2>1
  <2>3. Append(x.index, e) \in Seq(E)
    BY <2>2
  <2>4. y.index = Append(x.index, e) \/ y.index = x.index
    BY <1>6
  <2>5. y.index \in Seq(E)
    BY <2>2, <2>3, <2>4, Zenon
  <2> QED
    BY <2>1, <2>5
<1>9. y \in Noters
  <2>1. y.bloom \in SUBSET Keys
    BY <1>3, <1>6
  <2>2. y.itemCount \in Nat /\ y.curOffset \in Nat /\ y.maxKey \in Nat
    BY <1>2, <1>3, <1>6
  <2>3. y = [minKey |-> y.minKey, maxKey |-> y.maxKey, bloom |-> y.bloom,
             index |-> y.index, itemCount |-> y.itemCount, curOffset |-> y.curOffset]
    BY <1>1 DEF Noted, Noters
  <2> QED
    BY <1>7, <1>8, <2>1, <2>2, <2>3 DEF Noters
<1>10. y.bloom = Records(Of(g)) /\ y.itemCount = Cardinality(Records(Of(g)))
  <2>1. Records(Of(g)) = Records(Of(f)) \cup {k} /\ k \notin Records(Of(f))
    BY OfNext
  <2>2. Cardinality(Records(Of(g))) = Cardinality(Records(Of(f))) + 1
    BY <2>1, OfIs, FS_AddElement
  <2> QED
    BY <1>1, <1>6, <2>1, <2>2
<1>11. y.minKey = MinKey(Of(g)) /\ y.maxKey = MaxKey(Of(g))
  BY <1>1, <1>6, BoundsNext
<1>12. Indexed(Of(g)) = IF x.itemCount % IndexStep = 0
                          THEN Indexed(Of(f)) \cup {k} ELSE Indexed(Of(f))
  <2>1. IndexGrows(f, g, k)
    BY IndexedNext
  <2>2. x.itemCount = Cardinality(Records(Of(f)))
    BY <1>1
  <2> QED
    BY <2>1, <2>2, Zenon DEF IndexGrows
<1>13. r \in g /\ r.at = e.offset /\ r.key = e.key /\ f \subseteq g
  BY <1>5
<1>14. \A i \in 1..Len(x.index) : x.index[i].key < k
  BY <1>1
<1>15. /\ \A i \in 1..Len(y.index) : /\ y.index[i].key \in Indexed(Of(g))
                                     /\ \E q \in g : /\ q.at = y.index[i].offset
                                                     /\ q.key = y.index[i].key
       /\ \A j \in Indexed(Of(g)) : \E i \in 1..Len(y.index) : y.index[i].key = j
       /\ \A i, j \in 1..Len(y.index) : i < j => y.index[i].key < y.index[j].key
  <2>1. CASE x.itemCount % IndexStep = 0
    <3>1. y.index = Append(x.index, e) /\ Indexed(Of(g)) = Indexed(Of(f)) \cup {k}
      BY <1>6, <1>12, <2>1
    <3>2. PICK n : n = Len(x.index)
      OBVIOUS
    <3>3. n \in Nat /\ Len(y.index) = n + 1 /\ y.index[n + 1] = e
          /\ \A i \in 1..n : y.index[i] = x.index[i]
      BY <1>3, <1>5, <3>1, <3>2
    <3>4. \A i \in 1..(n + 1) : i \in 1..n \/ i = n + 1
      BY <3>3
    <3>5. \A i \in 1..(n + 1) : /\ y.index[i].key \in Indexed(Of(g))
                                /\ \E q \in g : /\ q.at = y.index[i].offset
                                                /\ q.key = y.index[i].key
      <4> SUFFICES ASSUME NEW i \in 1..(n + 1)
                   PROVE  /\ y.index[i].key \in Indexed(Of(g))
                          /\ \E q \in g : q.at = y.index[i].offset /\ q.key = y.index[i].key
        OBVIOUS
      <4>1. CASE i \in 1..n
        <5>1. /\ x.index[i].key \in Indexed(Of(f))
              /\ \E q \in f : q.at = x.index[i].offset /\ q.key = x.index[i].key
          BY <1>1, <3>2, <4>1
        <5>2. y.index[i] = x.index[i]
          BY <3>3, <4>1
        <5> QED
          BY <1>13, <3>1, <5>1, <5>2
      <4>2. CASE i = n + 1
        BY <1>5, <1>13, <3>1, <3>3, <4>2
      <4> QED
        BY <3>4, <4>1, <4>2
    <3>6. \A j \in Indexed(Of(g)) : \E i \in 1..(n + 1) : y.index[i].key = j
      <4>1. n + 1 \in 1..(n + 1) /\ \A i \in 1..n : i \in 1..(n + 1)
        BY <3>3
      <4> QED
        BY <1>1, <1>5, <3>1, <3>2, <3>3, <4>1
    <3>7. \A i, j \in 1..(n + 1) : i < j => y.index[i].key < y.index[j].key
      <4> SUFFICES ASSUME NEW i \in 1..(n + 1), NEW j \in 1..(n + 1), i < j
                   PROVE  y.index[i].key < y.index[j].key
        OBVIOUS
      <4>1. i \in 1..n
        BY <3>3
      <4>2. CASE j \in 1..n
        BY <1>1, <3>2, <3>3, <4>1, <4>2
      <4>3. CASE j = n + 1
        BY <1>5, <1>14, <3>2, <3>3, <4>1, <4>3
      <4> QED
        BY <3>4, <4>2, <4>3
    <3> QED
      BY <3>3, <3>5, <3>6, <3>7
  <2>2. CASE x.itemCount % IndexStep # 0
    <3>1. y.index = x.index /\ Indexed(Of(g)) = Indexed(Of(f))
      BY <1>6, <1>12, <2>2
    <3>2. \A i \in 1..Len(x.index) : \E q \in g : /\ q.at = x.index[i].offset
                                                 /\ q.key = x.index[i].key
      <4> TAKE i \in 1..Len(x.index)
      <4>1. PICK q \in f : q.at = x.index[i].offset /\ q.key = x.index[i].key
        BY <1>1
      <4> QED
        BY <1>13, <4>1
    <3>3. \A i \in 1..Len(x.index) : x.index[i].key \in Indexed(Of(f))
      BY <1>1
    <3> QED
      BY ONLY <1>1, <3>1, <3>2, <3>3
  <2> QED
    BY <2>1, <2>2
<1> QED
  BY <1>6, <1>9, <1>10, <1>11, <1>15 DEF Notes

LEMMA EmptyFile ==
  ASSUME NEW x, x = [minKey |-> EmptyKey, maxKey |-> EmptyKey, bloom |-> {},
                     index |-> <<>>, itemCount |-> 0, curOffset |-> 0]
  PROVE  Laid({}, 0) /\ Notes(x, {}) /\ Records(Of({})) = {}
<1>1. Laid({}, 0)
  BY FS_EmptySet DEF Laid
<1>2. Records(Of({})) = {}
  BY DEF Of, Records
<1>3. Indexed(Of({})) = {} /\ MinKey(Of({})) = EmptyKey /\ MaxKey(Of({})) = EmptyKey
  BY <1>2 DEF Indexed, MinKey, MaxKey
<1>4. x \in Noters
  <2>1. x.index \in Seq([key : Keys, offset : Nat])
    OBVIOUS
  <2> QED
    BY <2>1 DEF Noters, EmptyKey
<1>5. Len(x.index) = 0 /\ 1..0 = {}
  OBVIOUS
<1> QED
  BY <1>1, <1>2, <1>3, <1>4, <1>5, FS_EmptySet DEF Notes

LEMMA FileEndIs == FileEnd = SizeOf(file)
BY DEF FileEnd, SizeOf

LEMMA FileStarts == Init => FileInv
<1> SUFFICES ASSUME Init PROVE FileInv
  OBVIOUS
<1>1. Laid({}, 0) /\ Notes(w, {})
  BY EmptyFile DEF Init
<1>2. FileEnd = 0
  BY FileEndIs, SizeOfNone DEF Init
<1>3. phase = "writing" /\ file = {} /\ w.curOffset = 0
  BY DEF Init
<1> QED
  BY <1>1, <1>2, <1>3 DEF FileInv

(* The callers' keys ascend: the new one is above those of the file.       *)
LEMMA AscendingIsAbove ==
  ASSUME NEW f, NEW end, Laid(f, end), NEW x, Notes(x, f), NEW k \in Keys,
         x.itemCount = 0 \/ k > x.maxKey
  PROVE  \A q \in f : q.key < k
<1> SUFFICES ASSUME NEW q \in f PROVE q.key < k
  OBVIOUS
<1>1. PICK R : R = Records(Of(f))
  OBVIOUS
<1>2. q.key \in R /\ IsFiniteSet(R) /\ R \in SUBSET Nat
  BY <1>1, OfIs
<1>3. x.itemCount = Cardinality(R) /\ x.maxKey = MaxKey(Of(f))
  BY <1>1 DEF Notes
<1>4. Cardinality(R) # 0
  BY <1>2, FS_EmptySet
<1>5. x.maxKey = Max(R)
  BY <1>1, <1>2, <1>3 DEF MaxKey
<1>6. q.key <= Max(R) /\ Max(R) \in Nat
  BY <1>2, MaxOfFinite
<1>7. k \in Nat
  BY KeysAreOrdered
<1>8. k > Max(R)
  BY <1>3, <1>4, <1>5
<1>9. q.key \in Nat
  BY <1>2
<1> QED
  BY <1>6, <1>7, <1>8, <1>9

LEMMA FileGoesOn ==
  ASSUME FileInv, [Next]_ssvars
  PROVE  FileInv'
<1>1. ASSUME NEW k \in Keys, NEW v \in Value \cup {Tomb}, AppendBytes(k, v)
      PROVE  FileInv'
  <2>1. PICK f, end, x : f = file /\ end = FileEnd /\ x = w
    OBVIOUS
  <2>2. Laid(f, end) /\ Notes(x, f) /\ x.curOffset = end /\ phase = "writing"
    BY <1>1, <2>1 DEF FileInv, AppendBytes
  <2>3. x.itemCount = 0 \/ k > x.maxKey
    BY <1>1, <2>1 DEF AppendBytes, Ascends
  <2>4. v \in Version
    BY DEF Version
  <2>5. \A q \in f : q.key < k
    BY <2>2, <2>3, AscendingIsAbove
  <2>6. PICK r : r = [at |-> end, key |-> k, val |-> v]
    OBVIOUS
  <2>7. PICK g : g = f \cup {r}
    OBVIOUS
  <2>8. PICK size : size = RecordSize(k, v)
    OBVIOUS
  <2>9. size \in Nat
    BY <2>4, <2>8, VersionsHaveSize
  <2>10. PICK y : y = [Noted(x, k) EXCEPT !.curOffset = x.curOffset + size]
    OBVIOUS
  <2>11. Laid(g, end + size) /\ r \in Rec /\ r \notin f
    BY <2>2, <2>4, <2>5, <2>6, <2>7, <2>8, LaidNext
  <2>12. Notes(y, g) /\ y.curOffset = end + size
    BY <2>2, <2>4, <2>5, <2>6, <2>7, <2>9, <2>10, NotesNext
  <2>13. SizeOf(g) = SizeOf(f) + size
    <3>1. f \subseteq Rec /\ IsFiniteSet(f)
      BY <2>2 DEF Laid
    <3> QED
      BY <2>6, <2>7, <2>8, <2>11, <3>1, SizeNext
  <2>14. file' = g /\ w' = y /\ phase' = "writing"
    BY <1>1, <2>1, <2>2, <2>6, <2>7, <2>8, <2>10 DEF AppendBytes
  <2>15. end = SizeOf(f)
    BY <2>1, FileEndIs
  <2>16. FileEnd' = end + size
    <3>1. FileEnd' = SizeOf(file')
      BY Zenon DEF FileEnd, SizeOf, MapThenSumSet, MapThenFoldSet
    <3> QED
      BY <2>13, <2>14, <2>15, <3>1
  <2> QED
    BY <2>11, <2>12, <2>14, <2>16 DEF FileInv
<1>2. ASSUME NEW k \in Keys, AppendFails(k) PROVE FileInv'
  BY <1>2 DEF AppendFails, FileInv
<1>3. CASE CloseFails
  BY <1>3 DEF CloseFails, FileInv
<1>4. ASSUME file' = file, w' = w,
             phase' = phase \/ (phase = "writing" /\ phase' = "closed")
      PROVE  FileInv'
  <2>1. FileEnd' = FileEnd
    BY <1>4, Zenon DEF FileEnd, MapThenSumSet, MapThenFoldSet
  <2>2. phase' # "failed" => phase # "failed"
    BY <1>4
  <2>3. phase' \in {"writing", "closed", "failed"}
    BY <1>4 DEF FileInv
  <2> QED
    BY <1>4, <2>1, <2>2, <2>3 DEF FileInv
<1>5. CASE Close
  BY <1>4, <1>5 DEF Close
<1>6. ASSUME wvars' = wvars PROVE FileInv'
  BY <1>4, <1>6 DEF wvars
<1>7. ASSUME NEW k \in Keys, GetByBloom(k) \/ GetStart(k) PROVE FileInv'
  BY <1>6, <1>7 DEF GetByBloom, GetStart
<1>8. ASSUME NEW lo, NEW hi,
             ScanSkips(lo, hi) \/ ScanPanics(lo, hi) \/ ScanOpens(lo, hi)
      PROVE  FileInv'
  BY <1>6, <1>8 DEF ScanSkips, ScanPanics, ScanOpens
<1>9. CASE CompactStart \/ GetStep \/ ScanStep \/ CompactStep \/ Return
  BY <1>6, <1>9 DEF CompactStart, GetStep, ScanStep, CompactStep, Return
<1>10. CASE UNCHANGED ssvars
  BY <1>4, <1>10 DEF ssvars
<1> QED
  BY <1>1, <1>2, <1>3, <1>5, <1>7, <1>8, <1>9, <1>10 DEF Next

-----------------------------------------------------------------------------
(* Where a reader starts.                                                  *)

(* The first record of a file, which the index notes.                      *)
LEMMA FirstRecord ==
  ASSUME NEW f, NEW end, Laid(f, end), f # {}
  PROVE  \E s \in f : /\ s.at = 0 /\ Rank(Of(f), s.key) = 0
                      /\ s.key \in Indexed(Of(f))
                      /\ \A q \in f : s.key <= q.key
<1>1. PICK s \in f : s.at = 0
  BY DEF Laid
<1>2. \A q \in f : s.key <= q.key
  <2> TAKE q \in f
  <2>1. s.at <= q.at
    BY <1>1, RecFields
  <2> QED
    BY <2>1, OneOrder
<1>3. {j \in Records(Of(f)) : j < s.key} = {}
  <2> SUFFICES ASSUME NEW j \in Records(Of(f)), j < s.key PROVE FALSE
    OBVIOUS
  <2>1. PICK q \in f : q.key = j
    BY OfIs
  <2>2. s.key <= q.key /\ q.key \in Nat /\ s.key \in Nat
    BY <1>2, RecFields
  <2> QED
    BY <2>1, <2>2
<1>4. Rank(Of(f), s.key) = 0
  BY <1>3, FS_EmptySet DEF Rank
<1>5. 0 % IndexStep = 0
  BY StepIsPositive
<1>6. s.key \in Indexed(Of(f))
  BY <1>4, <1>5, OfIs DEF Indexed
<1> QED
  BY <1>1, <1>2, <1>4, <1>6

(* The entries at or below lo are the first of the index.                  *)
EntriesTo(x, lo) == Cardinality({i \in DOMAIN x.index : x.index[i].key <= lo})

LEMMA FirstEntries ==
  ASSUME NEW f, NEW x, Notes(x, f), NEW lo \in Nat,
         NEW n, n = EntriesTo(x, lo)
  PROVE  /\ n \in 0..Len(x.index) /\ Len(x.index) \in Nat
         /\ \A i \in 1..Len(x.index) : x.index[i].key <= lo <=> i <= n
<1>1. /\ x \in Noters
      /\ \A i, j \in 1..Len(x.index) : i < j => x.index[i].key < x.index[j].key
  BY DEF Notes
<1>2. PICK L, key : L = Len(x.index) /\ key = [i \in 1..Len(x.index) |-> x.index[i].key]
  OBVIOUS
<1>3. L \in Nat /\ DOMAIN x.index = 1..L /\ \A i \in 1..L : x.index[i].key \in Keys
  <2>1. PICK E : E = [key : Keys, offset : Nat]
    OBVIOUS
  <2>2. x.index \in Seq(E)
    BY <1>1, <2>1 DEF Noters
  <2>3. L \in Nat /\ DOMAIN x.index = 1..L /\ \A i \in 1..L : x.index[i] \in E
    BY <1>2, <2>2
  <2>4. \A e \in E : e.key \in Keys
    BY <2>1
  <2> QED
    BY <2>3, <2>4
<1>4. /\ \A i \in 1..L : key[i] \in Nat /\ key[i] = x.index[i].key
      /\ \A i, j \in 1..L : i < j => key[i] < key[j]
  BY <1>1, <1>2, <1>3, KeysAreOrdered
<1>5. PICK B : B = {i \in 1..L : key[i] <= lo}
  OBVIOUS
<1>6. n = Cardinality(B)
  <2>1. B = {i \in DOMAIN x.index : x.index[i].key <= lo}
    BY <1>3, <1>4, <1>5
  <2> QED
    BY <2>1 DEF EntriesTo
<1>7. B \in SUBSET Nat /\ IsFiniteSet(B)
  <2>1. IsFiniteSet(1..L)
    BY <1>3, FS_Interval
  <2>2. B \in SUBSET (1..L)
    BY <1>5
  <2>3. IsFiniteSet(B)
    BY <2>1, <2>2, FS_Subset
  <2>4. B \in SUBSET Nat
    BY <1>5
  <2> QED
    BY <2>3, <2>4
<1>8. n \in 0..L /\ B = 1..n
  <2>1. CASE B = {}
    <3>1. n = 0
      BY <1>6, <2>1, FS_EmptySet
    <3>2. 0 \in 0..L /\ 1..0 = {}
      BY <1>3
    <3> QED
      BY <2>1, <3>1, <3>2
  <2>2. CASE B # {}
    <3>1. PICK m : m = Max(B)
      OBVIOUS
    <3>2. m \in B /\ \A i \in B : i <= m
      BY <1>7, <2>2, <3>1, MaxOfFinite
    <3>3. m \in 1..L /\ key[m] <= lo
      BY <1>5, <3>2
    <3>4. B = 1..m
      <4>1. \A i \in B : i \in 1..m
        BY <1>3, <1>5, <3>2, <3>3
      <4>2. ASSUME NEW i \in 1..m PROVE i \in B
        <5>1. i \in 1..L /\ (i = m \/ i < m)
          BY <1>3, <3>3
        <5>2. i < m => key[i] < key[m]
          BY <1>4, <3>3, <5>1
        <5>3. key[i] <= lo
          BY <1>4, <3>3, <5>1, <5>2
        <5> QED
          BY <1>5, <5>1, <5>3
      <4> QED
        BY <4>1, <4>2
    <3>5. Cardinality(1..m) = m
      BY <3>3, FS_Interval
    <3> QED
      BY <1>6, <3>3, <3>4, <3>5
  <2> QED
    BY <2>1, <2>2
<1>9. ASSUME NEW i \in 1..L PROVE x.index[i].key <= lo <=> i <= n
  <2>1. i \in B <=> x.index[i].key <= lo
    BY <1>4, <1>5
  <2>2. i \in B <=> i <= n
    <3>1. i \in Nat /\ i >= 1 /\ n \in Nat
      BY <1>3, <1>8
    <3>2. i \in 1..n <=> i <= n
      BY <3>1
    <3> QED
      BY <1>8, <3>2
  <2> QED
    BY <2>1, <2>2
<1> QED
  BY <1>2, <1>3, <1>8, <1>9

LEMMA StartIs ==
  ASSUME NEW f, NEW end, Laid(f, end), f # {}, NEW x, Notes(x, f), NEW lo \in Nat,
         NEW n, n = EntriesTo(x, lo),
         NEW m, m = IF n > 0 THEN n ELSE 1
  PROVE  /\ n \in Nat /\ m \in 1..Len(x.index) /\ Len(x.index) \in Nat
         /\ \E s \in f : Starts(f, s, lo) /\ s.at = x.index[m].offset
         /\ n = 0 => \A q \in f : q.key > lo
<1>1. /\ x \in Noters
      /\ \A i \in 1..Len(x.index) : /\ x.index[i].key \in Indexed(Of(f))
                                    /\ \E r \in f : /\ r.at = x.index[i].offset
                                                    /\ r.key = x.index[i].key
      /\ \A k \in Indexed(Of(f)) : \E i \in 1..Len(x.index) : x.index[i].key = k
      /\ \A i, j \in 1..Len(x.index) : i < j => x.index[i].key < x.index[j].key
  BY DEF Notes
<1>2. PICK L : L = Len(x.index)
  OBVIOUS
<1>3. /\ n \in 0..L /\ L \in Nat
      /\ \A i \in 1..L : x.index[i].key <= lo <=> i <= n
  BY <1>2, FirstEntries
<1>0. n \in Nat /\ (n > 0 => m = n) /\ (n = 0 => m = 1)
  BY <1>3
<1>4. PICK s \in f : /\ s.at = 0 /\ Rank(Of(f), s.key) = 0 /\ s.key \in Indexed(Of(f))
                     /\ \A q \in f : s.key <= q.key
  BY FirstRecord
<1>5. PICK a \in 1..L : x.index[a].key = s.key
  BY <1>1, <1>2, <1>4
<1>6. m \in 1..L
  BY <1>3, <1>5
<1>7. PICK r \in f : r.at = x.index[m].offset /\ r.key = x.index[m].key
  BY <1>1, <1>2, <1>6
<1>8. PICK before : before = {k \in Indexed(Of(f)) : k <= lo}
  OBVIOUS
<1>9. StartRank(Of(f), lo) = IF before = {} THEN 0 ELSE Rank(Of(f), Max(before))
  BY <1>8 DEF StartRank
<1>10. \A q \in f : q.key \in Nat
  BY RecFields
<1>11. CASE n = 0
  <2>0. m = 1
    BY <1>0, <1>11
  <2>1. m = 1 /\ \A i \in 1..L : ~(x.index[i].key <= lo)
    <3> SUFFICES ASSUME NEW i \in 1..L PROVE ~(x.index[i].key <= lo)
      BY <2>0
    <3>1. ~(i <= n)
      BY <1>11
    <3> QED
      BY <1>3, <3>1
  <2>2. before = {}
    BY <1>1, <1>2, <1>8, <2>1
  <2>3. r.key = s.key
    <3>1. x.index[1].key <= x.index[a].key
      <4>1. a \in Nat /\ a >= 1 /\ (a = 1 \/ 1 < a)
        BY <1>3, <1>5
      <4>2. 1 < a => x.index[1].key < x.index[a].key
        BY <1>1, <1>2, <1>5, <1>6, <2>1
      <4>3. x.index[1].key \in Nat /\ x.index[a].key \in Nat
        BY <1>5, <1>7, <1>10, <2>1
      <4>4. CASE a = 1
        BY <4>3, <4>4
      <4>5. CASE 1 < a
        BY <4>2, <4>3, <4>5
      <4> QED
        BY <4>1, <4>4, <4>5
    <3>2. r.key <= s.key /\ s.key <= r.key
      BY <1>4, <1>5, <1>7, <2>1, <3>1
    <3> QED
      BY <1>10, <3>2
  <2>4. r = s
    BY <2>3 DEF Laid
  <2>5. Starts(f, r, lo)
    BY <1>4, <1>9, <2>2, <2>4 DEF Starts
  <2>6. ~(s.key <= lo)
    BY <1>5, <2>1
  <2>7. \A q \in f : q.key > lo
    BY <1>4, <1>10, <2>6
  <2> QED
    BY <1>0, <1>2, <1>3, <1>6, <1>7, <2>5, <2>7
<1>12. CASE n > 0
  <2>0. m = n
    BY <1>0, <1>12
  <2>1. m = n /\ x.index[m].key <= lo
    <3>1. m <= n
      BY <1>0, <2>0
    <3> QED
      BY <1>3, <1>6, <2>0, <3>1
  <2>2. r.key \in before
    BY <1>1, <1>2, <1>6, <1>7, <1>8, <2>1
  <2>3. \A k \in before : k <= r.key
    <3> TAKE k \in before
    <3>1. PICK i \in 1..L : x.index[i].key = k
      BY <1>1, <1>2, <1>8
    <3>2. i <= m
      BY <1>3, <1>8, <2>1, <3>1
    <3>3. i < m => x.index[i].key < x.index[m].key
      BY <1>1, <1>2, <1>6, <3>1
    <3>4. k \in Nat /\ r.key \in Nat
      BY <1>8, <1>10, OfIs DEF Indexed
    <3>5. i \in Nat /\ m \in Nat
      BY <1>3, <1>6, <3>1
    <3>6. CASE i = m
      BY <1>7, <3>1, <3>4, <3>6
    <3>7. CASE i < m
      BY <1>7, <3>1, <3>3, <3>4, <3>7
    <3> QED
      BY <3>2, <3>5, <3>6, <3>7
  <2>4. before \in SUBSET Nat
    BY <1>8, OfIs DEF Indexed
  <2>5. Max(before) = r.key
    BY <2>2, <2>3, <2>4, MaxIs
  <2>6. Starts(f, r, lo)
    BY <1>7, <1>9, <2>1, <2>2, <2>5 DEF Starts
  <2> QED
    <3>1. ~(n = 0)
      BY <1>12
    <3>2. \E q \in f : Starts(f, q, lo) /\ q.at = x.index[m].offset
      BY <1>7, <2>6
    <3>3. n \in Nat /\ m \in 1..Len(x.index) /\ Len(x.index) \in Nat
      BY <1>0, <1>2, <1>3, <1>6
    <3> QED
      BY <3>1, <3>2, <3>3, Zenon
<1>13. n = 0 \/ n > 0
  BY <1>0
<1> QED
  BY <1>11, <1>12, <1>13, Zenon

(* A file without records has no index, and a file with records has one.   *)
LEMMA NoFileNoIndex ==
  ASSUME NEW f, NEW end, Laid(f, end), NEW x, Notes(x, f)
  PROVE  /\ f = {} <=> x.index = <<>>
         /\ f = {} <=> end = 0
         /\ f = {} <=> Records(Of(f)) = {}
<1>1. f = {} => Records(Of(f)) = {}
  BY OfIs
<1>2. f # {} => Records(Of(f)) # {}
  BY OfIs
<1>3. f # {} => end # 0
  <2> SUFFICES ASSUME NEW r \in f PROVE end # 0
    OBVIOUS
  <2>1. r.at < end /\ r.at \in Nat
    BY RecFields
  <2> QED
    BY <2>1
<1>4. f = {} => end = 0
  BY DEF Laid
<1>5. f # {} => x.index # <<>>
  <2> SUFFICES ASSUME f # {} PROVE x.index # <<>>
    OBVIOUS
  <2>1. PICK s \in f : s.key \in Indexed(Of(f))
    BY FirstRecord
  <2>2. PICK i \in 1..Len(x.index) : x.index[i].key = s.key
    BY <2>1 DEF Notes
  <2>3. Len(<<>>) = 0 /\ 1..0 = {}
    OBVIOUS
  <2> QED
    BY <2>2, <2>3
<1>6. f = {} => x.index = <<>>
  <2> SUFFICES ASSUME f = {} PROVE x.index = <<>>
    OBVIOUS
  <2>1. Records(Of(f)) = {}
    BY <1>1
  <2>2. ~ \E i \in 1..Len(x.index) : TRUE
    BY <2>1 DEF Notes, Indexed
  <2>3. x.index \in Seq([key : Keys, offset : Nat])
    BY DEF Notes, Noters
  <2> QED
    BY <2>2, <2>3
<1> QED
  BY <1>1, <1>2, <1>3, <1>4, <1>5, <1>6

-----------------------------------------------------------------------------
(* Going over the records.                                                 *)

LEMMA WrittenIs == Written = Of(file)
BY DEF Written, Of

LEMMA BetweenNext ==
  ASSUME NEW f, NEW end, Laid(f, end), NEW r \in f, NEW a \in Nat, a <= r.at
  PROVE  /\ Between(f, a, Behind(r)) = Between(f, a, r.at) \cup {r}
         /\ \A q \in Between(f, a, r.at) : q.key < r.key
         /\ r \notin Between(f, a, r.at)
         /\ a <= Behind(r)
<1>1. /\ r.at \in Nat /\ Behind(r) \in Nat /\ r.at < Behind(r)
      /\ \A q \in f : q.at \in Nat
  BY RecFields
<1>2. ASSUME NEW q \in f
      PROVE  q.at < Behind(r) <=> q.at < r.at \/ q = r
  <2>1. q.at < r.at \/ q = r \/ r.at < q.at
    BY <1>1, OneOrder
  <2>2. r.at < q.at => Behind(r) <= q.at
    BY OneOrder
  <2> QED
    BY <1>1, <2>1, <2>2
<1>3. \A q : q \in Between(f, a, Behind(r)) <=> q \in Between(f, a, r.at) \cup {r}
  BY <1>2 DEF Between
<1>4. \A q \in Between(f, a, r.at) : q.key < r.key
  BY OneOrder DEF Between
<1> QED
  BY <1>1, <1>3, <1>4 DEF Between

(* At the end, everything from a on has been gone over.                    *)
LEMMA BetweenAll ==
  ASSUME NEW f, NEW end, Laid(f, end), NEW a \in Nat
  PROVE  /\ Between(f, a, end) = {q \in f : a <= q.at}
         /\ Between(f, 0, end) = f
         /\ Between(f, a, a) = {}
<1>1. \A q \in f : q.at \in Nat /\ q.at < end /\ 0 <= q.at
  BY RecFields
<1>2. \A q \in f : ~(a <= q.at /\ q.at < a)
  BY <1>1
<1> QED
  BY <1>1, <1>2 DEF Between

LEMMA FromStart ==
  ASSUME NEW f, NEW end, Laid(f, end), NEW lo \in Nat, NEW s, Starts(f, s, lo), NEW q \in f
  PROVE  /\ Rank(Of(f), q.key) >= StartRank(Of(f), lo) <=> s.at <= q.at
         /\ lo <= q.key => s.at <= q.at
         /\ ~(s.at <= q.at) => q.key < lo
<1>1. s \in f /\ Rank(Of(f), s.key) = StartRank(Of(f), lo) /\ (s.key <= lo \/ s.at = 0)
  BY DEF Starts
<1>2. /\ s.at \in Nat /\ q.at \in Nat /\ s.key \in Nat /\ q.key \in Nat
  BY <1>1, RecFields
<1>3. /\ s.at <= q.at <=> s.key <= q.key
      /\ s.key <= q.key <=> Rank(Of(f), s.key) <= Rank(Of(f), q.key)
      /\ Rank(Of(f), s.key) \in Nat /\ Rank(Of(f), q.key) \in Nat
  BY <1>1, OneOrder
<1>4. Rank(Of(f), q.key) >= StartRank(Of(f), lo) <=> s.at <= q.at
  BY <1>1, <1>3
<1>5. ~(s.at <= q.at) => q.key < lo
  BY <1>1, <1>2, <1>3
<1>6. lo <= q.key => s.at <= q.at
  BY <1>2, <1>5
<1> QED
  BY <1>4, <1>5, <1>6

LEMMA ListsNone == Lists(<<>>, {})
<1>1. Len(<<>>) = 0 /\ 1..0 = {} /\ <<>> \in Seq(Keys \X Version) /\ DOMAIN <<>> = {}
  OBVIOUS
<1> QED
  BY <1>1 DEF Lists, InOrder

LEMMA ListsNext ==
  ASSUME NEW got, NEW S, Lists(got, S), NEW r, r.key \in Keys, r.val \in Version,
         \A q \in S : q.key < r.key,
         NEW more, more = Append(got, <<r.key, r.val>>), NEW T, T = S \cup {r}
  PROVE  Lists(more, T)
<1>1. /\ got \in Seq(Keys \X Version)
      /\ \A i, j \in DOMAIN got : i < j => got[i][1] < got[j][1]
      /\ \A i \in 1..Len(got) : \E q \in S : got[i] = <<q.key, q.val>>
      /\ \A q \in S : \E i \in 1..Len(got) : got[i] = <<q.key, q.val>>
  BY DEF Lists, InOrder
<1>2. PICK e, n : e = <<r.key, r.val>> /\ n = Len(got)
  OBVIOUS
<1>3. e \in Keys \X Version /\ e[1] = r.key /\ e[2] = r.val
  BY <1>2
<1>4. /\ more \in Seq(Keys \X Version) /\ n \in Nat /\ Len(more) = n + 1
      /\ more[n + 1] = e /\ \A i \in 1..n : more[i] = got[i]
      /\ DOMAIN more = 1..(n + 1) /\ DOMAIN got = 1..n
  <2>1. PICK P : P = Keys \X Version
    OBVIOUS
  <2> QED
    BY <1>1, <1>2, <1>3, <2>1
<1>5. /\ \A i \in 1..(n + 1) : i \in 1..n \/ i = n + 1
      /\ n + 1 \in 1..(n + 1) /\ \A i \in 1..n : i \in 1..(n + 1)
  BY <1>4
<1>6. \A i \in 1..n : got[i][1] < r.key
  <2> TAKE i \in 1..n
  <2>1. PICK q \in S : got[i] = <<q.key, q.val>>
    BY <1>1, <1>2
  <2> QED
    BY <2>1
<1>7. InOrder(more)
  <2> SUFFICES ASSUME NEW i \in 1..(n + 1), NEW j \in 1..(n + 1), i < j
               PROVE  more[i][1] < more[j][1]
    BY <1>4 DEF InOrder
  <2>1. i \in 1..n
    BY <1>4
  <2>2. CASE j \in 1..n
    BY <1>1, <1>4, <2>1, <2>2
  <2>3. CASE j = n + 1
    BY <1>3, <1>4, <1>6, <2>1, <2>3
  <2> QED
    BY <1>5, <2>2, <2>3
<1>8. \A i \in 1..(n + 1) : \E q \in T : more[i] = <<q.key, q.val>>
  <2> TAKE i \in 1..(n + 1)
  <2>1. CASE i \in 1..n
    <3>1. PICK q \in S : got[i] = <<q.key, q.val>>
      BY <1>1, <1>2, <2>1
    <3> QED
      BY <1>4, <2>1, <3>1
  <2>2. CASE i = n + 1
    BY <1>2, <1>4, <2>2
  <2> QED
    BY <1>5, <2>1, <2>2
<1>9. \A q \in T : \E i \in 1..(n + 1) : more[i] = <<q.key, q.val>>
  <2> TAKE q \in T
  <2>1. CASE q \in S
    <3>1. PICK i \in 1..n : got[i] = <<q.key, q.val>>
      BY <1>1, <1>2, <2>1
    <3> QED
      BY <1>4, <1>5, <3>1
  <2>2. CASE q = r
    BY <1>2, <1>4, <1>5, <2>2
  <2> QED
    BY <2>1, <2>2
<1> QED
  BY <1>4, <1>7, <1>8, <1>9 DEF Lists

(* The pairs as a table.                                                   *)
LEMMA AsTableIs ==
  ASSUME NEW f, NEW end, Laid(f, end), NEW S \in SUBSET f, NEW got, Lists(got, S)
  PROVE  /\ InOrder(got)
         /\ AsTable(got) = [k \in Keys |-> IF \E q \in S : q.key = k THEN Of(f)[k] ELSE Absent]
         /\ got = <<>> <=> S = {}
<1>1. /\ got \in Seq(Keys \X Version)
      /\ InOrder(got)
      /\ \A i \in 1..Len(got) : \E q \in S : got[i] = <<q.key, q.val>>
      /\ \A q \in S : \E i \in 1..Len(got) : got[i] = <<q.key, q.val>>
  BY DEF Lists
<1>2. DOMAIN got = 1..Len(got) /\ Len(got) \in Nat
  BY <1>1
<1>3. \A q \in S : Of(f)[q.key] = q.val
  BY OfIs
<1>4. ASSUME NEW k \in Keys
      PROVE  AsTable(got)[k] = IF \E q \in S : q.key = k THEN Of(f)[k] ELSE Absent
  <2>1. AsTable(got)[k] = IF \E i \in DOMAIN got : got[i][1] = k
                            THEN got[CHOOSE i \in DOMAIN got : got[i][1] = k][2]
                            ELSE Absent
    BY DEF AsTable
  <2>2. CASE \E q \in S : q.key = k
    <3>1. \E i \in DOMAIN got : got[i][1] = k
      <4>1. PICK q \in S : q.key = k
        BY <2>2
      <4>2. PICK i \in 1..Len(got) : got[i] = <<q.key, q.val>>
        BY <1>1
      <4> QED
        BY <1>2, <4>1, <4>2
    <3>2. PICK i \in DOMAIN got : /\ i = CHOOSE j \in DOMAIN got : got[j][1] = k
                                  /\ got[i][1] = k
      BY <3>1
    <3>3. PICK q \in S : got[i] = <<q.key, q.val>>
      BY <1>1, <1>2
    <3>4. q.key = k /\ got[i][2] = Of(f)[k]
      BY <1>3, <3>2, <3>3
    <3> QED
      BY <2>1, <2>2, <3>1, <3>2, <3>4
  <2>3. CASE ~ \E q \in S : q.key = k
    <3>1. ~ \E i \in DOMAIN got : got[i][1] = k
      <4> SUFFICES ASSUME NEW i \in DOMAIN got, got[i][1] = k PROVE FALSE
        OBVIOUS
      <4>1. PICK q \in S : got[i] = <<q.key, q.val>>
        BY <1>1, <1>2
      <4> QED
        BY <2>3, <4>1
    <3> QED
      BY <2>1, <2>3, <3>1
  <2> QED
    BY <2>2, <2>3
<1>5. AsTable(got) = [k \in Keys |-> IF \E q \in S : q.key = k THEN Of(f)[k] ELSE Absent]
  <2>1. AsTable(got) = [k \in Keys |-> AsTable(got)[k]]
    BY DEF AsTable
  <2> QED
    BY <1>4, <2>1
<1>6. got = <<>> => S = {}
  <2>1. Len(<<>>) = 0 /\ 1..0 = {}
    OBVIOUS
  <2> QED
    BY <1>1, <2>1
<1>7. S = {} => got = <<>>
  <2> SUFFICES ASSUME S = {} PROVE got = <<>>
    OBVIOUS
  <2>1. ~ \E i \in 1..Len(got) : TRUE
    BY <1>1
  <2>2. Len(got) = 0
    BY <1>2, <2>1
  <2> QED
    BY <1>1, <2>2
<1> QED
  BY <1>1, <1>5, <1>6, <1>7

(* What NextKey makes of an iterator that stands where a record begins or  *)
(* where the data end.                                                     *)
LEMMA NextKeyIs ==
  ASSUME NEW i \in Iterators, Laid(file, w.curOffset), NEW n, n = NextKey(i)
  PROVE  /\ i.pos = w.curOffset => ~n.ok /\ ~n.err
         /\ \A r \in file : r.at = i.pos =>
              /\ n.ok <=> Readable(r.key, r.val)
              /\ n.ok => /\ n.key = r.key /\ n.val = r.val
                         /\ PastValue(n) \in Iterators
                         /\ PastValue(n).pos = Behind(r)
              /\ ~n.ok => n.err
<1>1. /\ i.pos \in Nat /\ i.key \in Nat /\ i.pending = FALSE
      /\ i.ok \in BOOLEAN /\ i.err = FALSE /\ i.eof = FALSE
  BY DEF Iterators
<1>2. n = ReadHeader(i)
  BY <1>1 DEF NextKey, PastValue
<1>3. i = [pos |-> i.pos, key |-> i.key, val |-> i.val, pending |-> FALSE,
           ok |-> i.ok, err |-> FALSE, eof |-> FALSE]
  BY DEF Iterators
<1>4. ASSUME i.pos = w.curOffset PROVE ~n.ok /\ ~n.err
  <2>1. n = [i EXCEPT !.ok = FALSE, !.eof = TRUE]
    BY <1>2, <1>4 DEF ReadHeader, MetaStart
  <2> QED
    BY <1>3, <2>1
<1>5. ASSUME NEW r \in file, r.at = i.pos
      PROVE  /\ n.ok <=> Readable(r.key, r.val)
             /\ n.ok => /\ n.key = r.key /\ n.val = r.val
                        /\ PastValue(n) \in Iterators
                        /\ PastValue(n).pos = Behind(r)
             /\ ~n.ok => n.err
  <2>1. /\ r.at \in Nat /\ r.key \in Keys /\ r.key \in Nat /\ r.val \in Version
        /\ r.at # w.curOffset /\ Behind(r) \in Nat
    <3>1. r.at < w.curOffset
      BY RecFields
    <3> QED
      BY <3>1, RecFields
  <2>2. \A q \in file : q.at = i.pos => q = r
    BY <1>5, OneOrder
  <2>3. /\ {q \in file : q.at = i.pos} # {}
        /\ (CHOOSE q \in {q \in file : q.at = i.pos} : TRUE) = r
    BY <1>5, <2>2
  <2>4. ValueSize(r.val) \in Nat
    BY <2>1, VersionsHaveSize
  <2>5. r.key \in BadKeys <=> r.key = 0 \/ r.key > MaxKeySize
    BY <2>1, BadKeysAreBad DEF EmptyKey
  <2>6. ReadHeader(i) =
          IF r.key \in BadKeys THEN Failed(i)
          ELSE IF ValueSize(r.val) > MaxValueSize THEN Failed([i EXCEPT !.key = r.key])
          ELSE [i EXCEPT !.pos = i.pos + HeaderSize(r.key), !.key = r.key,
                         !.val = r.val, !.pending = TRUE, !.ok = TRUE]
    BY <1>5, <2>1, <2>3, <2>5 DEF ReadHeader, MetaStart
  <2>7. CASE Readable(r.key, r.val)
    <3>1. r.key \notin BadKeys /\ ~(ValueSize(r.val) > MaxValueSize)
      BY <2>4, <2>7, LimitsAreLengths DEF Readable
    <3>2. n = [i EXCEPT !.pos = i.pos + HeaderSize(r.key), !.key = r.key,
                        !.val = r.val, !.pending = TRUE, !.ok = TRUE]
      BY <1>2, <2>6, <3>1
    <3>3. n = [pos |-> i.pos + HeaderSize(r.key), key |-> r.key, val |-> r.val,
               pending |-> TRUE, ok |-> TRUE, err |-> FALSE, eof |-> FALSE]
      <4>1. PICK p, k, v, o, h : /\ p = i.pos /\ k = r.key /\ v = r.val /\ o = i.ok
                                 /\ h = i.pos + HeaderSize(r.key)
        OBVIOUS
      <4>2. n = [i EXCEPT !.pos = h, !.key = k, !.val = v, !.pending = TRUE, !.ok = TRUE]
        BY ONLY <3>2, <4>1
      <4>3. DOMAIN i = {"pos", "key", "val", "pending", "ok", "err", "eof"}
        BY ONLY <1>3
      <4>4. n = [pos |-> h, key |-> k, val |-> v, pending |-> TRUE, ok |-> TRUE,
                 err |-> i.err, eof |-> i.eof]
        BY ONLY <4>2, <4>3
      <4> QED
        BY ONLY <1>1, <4>1, <4>4
    <3>4. PastValue(n) = [pos |-> i.pos + HeaderSize(r.key) + ValueSize(r.val),
                          key |-> r.key, val |-> r.val,
                          pending |-> FALSE, ok |-> TRUE, err |-> FALSE, eof |-> FALSE]
      <4>1. PICK k, v, h, z : /\ k = r.key /\ v = r.val /\ z = ValueSize(r.val)
                              /\ h = i.pos + HeaderSize(r.key)
        OBVIOUS
      <4>2. n = [pos |-> h, key |-> k, val |-> v, pending |-> TRUE,
                 ok |-> TRUE, err |-> FALSE, eof |-> FALSE]
        BY ONLY <3>3, <4>1
      <4>3. PastValue(n) = [n EXCEPT !.pos = h + z, !.pending = FALSE]
        BY <4>1, <4>2 DEF PastValue
      <4>4. PastValue(n) = [pos |-> h + z, key |-> k, val |-> v, pending |-> FALSE,
                            ok |-> TRUE, err |-> FALSE, eof |-> FALSE]
        BY ONLY <4>2, <4>3
      <4> QED
        BY ONLY <4>1, <4>4
    <3>5. i.pos + HeaderSize(r.key) + ValueSize(r.val) = Behind(r)
      BY <1>5, <2>1, <2>4 DEF Behind, RecordSize, HeaderSize
    <3>6. PastValue(n) \in Iterators
      BY <2>1, <3>4, <3>5 DEF Iterators
    <3> QED
      BY <2>7, <3>3, <3>4, <3>5, <3>6
  <2>8. CASE ~Readable(r.key, r.val)
    <3>1. r.key \in BadKeys \/ ValueSize(r.val) > MaxValueSize
      BY <2>4, <2>8, LimitsAreLengths DEF Readable
    <3>2. n = Failed(i) \/ n = Failed([i EXCEPT !.key = r.key])
      BY <1>2, <2>6, <3>1
    <3>3. ~n.ok /\ n.err
      BY <1>3, <3>2 DEF Failed
    <3> QED
      BY <2>8, <3>3
  <2> QED
    BY <2>7, <2>8
<1> QED
  BY <1>4, <1>5

-----------------------------------------------------------------------------
(* Get.                                                                    *)

(* What a reader finds when the file is closed.                            *)
LEMMA ClosedFile ==
  ASSUME FileInv, phase = "closed"
  PROVE  /\ Laid(file, w.curOffset) /\ Notes(w, file) /\ Written = Of(file)
         /\ w.curOffset \in Nat
BY WrittenIs DEF FileInv, Laid

LEMMA NoRecordNoGet ==
  ASSUME NEW f, NEW k \in Keys, k \notin Records(Of(f))
  PROVE  SSTGet(Of(f), k) = Absent /\ Of(f)[k] = Absent
BY DEF Records, SSTGet

(* A record that cannot be read hides what its block has behind it.        *)
LEMMA HiddenByBlock ==
  ASSUME NEW f, NEW end, Laid(f, end), NEW k \in Keys, NEW s, Starts(f, s, k),
         NEW r \in f, s.at <= r.at, r.key <= k, ~Readable(r.key, r.val)
  PROVE  SSTGet(Of(f), k) = Absent
<1>1. k \in Nat
  BY KeysAreOrdered
<1>2. CASE k \in Records(Of(f))
  <2>1. r.key \in Records(Of(f)) /\ Of(f)[r.key] = r.val /\ IsFiniteSet(Records(Of(f)))
    BY OfIs
  <2>2. Rank(Of(f), r.key) >= StartRank(Of(f), k)
    BY <1>1, FromStart
  <2>3. Block(Of(f), r.key) = Block(Of(f), k)
    BY <1>2, <2>1, <2>2, BlockIsRead
  <2> QED
    BY <2>1, <2>3 DEF SSTGet
<1>3. CASE k \notin Records(Of(f))
  BY <1>3, NoRecordNoGet
<1> QED
  BY <1>2, <1>3

(* A record whose block can be read up to it is found.                     *)
LEMMA FoundInBlock ==
  ASSUME NEW f, NEW end, Laid(f, end), NEW r \in f, NEW s, Starts(f, s, r.key),
         \A q \in f : s.at <= q.at /\ q.key <= r.key => Readable(q.key, q.val)
  PROVE  SSTGet(Of(f), r.key) = r.val
<1>1. /\ r.key \in Records(Of(f)) /\ Of(f)[r.key] = r.val /\ r.key \in Nat
      /\ IsFiniteSet(Records(Of(f)))
  BY OfIs, RecFields
<1>2. ASSUME NEW j \in Records(Of(f)), j <= r.key, Block(Of(f), j) = Block(Of(f), r.key)
      PROVE  Readable(j, Of(f)[j])
  <2>1. Rank(Of(f), j) >= StartRank(Of(f), r.key)
    BY <1>1, <1>2, BlockIsRead
  <2>2. PICK q \in f : q.key = j
    BY OfIs
  <2>3. s.at <= q.at
    BY <1>1, <2>1, <2>2, FromStart
  <2>4. Of(f)[j] = q.val
    BY <2>2, OfIs
  <2> QED
    BY <1>2, <2>2, <2>3, <2>4
<1> QED
  BY <1>1, <1>2 DEF SSTGet

LEMMA GetBegins ==
  ASSUME FileInv, NEW k \in Keys, GetByBloom(k) \/ GetStart(k)
  PROVE  ReaderInv'
<1>1. phase = "closed" /\ phase' = "closed" /\ file' = file /\ w' = w
  BY DEF GetByBloom, GetStart, CanStart, wvars
<1>2. Laid(file, w.curOffset) /\ Notes(w, file) /\ Written = Of(file) /\ Written' = Written
      /\ w.curOffset \in Nat
  <2>1. Written' = Written
    BY <1>1 DEF Written
  <2> QED
    BY <1>1, <2>1, ClosedFile
<1>3. k \in Nat
  BY KeysAreOrdered
<1>4. ASSUME k \notin Records(Of(file)),
             rd' = [op |-> "get", key |-> k, at |-> "done", got |-> Absent]
      PROVE  ReaderInv'
  <2>1. SSTGet(Of(file), k) = Absent
    BY <1>4, NoRecordNoGet
  <2>2. rd'.got = Absent /\ rd'.key = k /\ rd'.at = "done" /\ rd'.op = "get"
    BY <1>4
  <2>3. GetIsRight'
    BY <1>2, <2>1, <2>2 DEF GetIsRight
  <2>4. GetGoesOn' /\ ScanGoesOn' /\ CompactionGoesOn' /\ ScanIsRight' /\ CompactionIsRight'
    BY <2>2 DEF GetGoesOn, ScanGoesOn, CompactionGoesOn, ScanIsRight, CompactionIsRight
  <2> QED
    BY <1>1, <2>2, <2>3, <2>4 DEF ReaderInv
<1>5. CASE GetByBloom(k)
  BY <1>2, <1>4, <1>5 DEF GetByBloom, Notes
<1>6. CASE GetStart(k)
  <2>1. PICK n : n = EntriesTo(w, k)
    OBVIOUS
  <2>2. IndexPos(k) = n
    BY <2>1 DEF IndexPos, EntriesTo
  <2>3. CASE file = {}
    <3>1. w.index = <<>> /\ Records(Of(file)) = {}
      BY <1>2, <2>3, NoFileNoIndex
    <3>2. n = 0
      <4>1. {i \in DOMAIN w.index : w.index[i].key <= k} = {}
        BY <3>1
      <4> QED
        BY <2>1, <4>1, FS_EmptySet DEF EntriesTo
    <3>3. rd' = [op |-> "get", key |-> k, at |-> "done", got |-> Absent]
      BY <1>6, <2>2, <3>2 DEF GetStart
    <3> QED
      BY <1>4, <3>1, <3>3
  <2>4. CASE file # {}
    <3>1. PICK m : m = IF n > 0 THEN n ELSE 1
      OBVIOUS
    <3>2. /\ n \in Nat
          /\ \E s \in file : Starts(file, s, k) /\ s.at = w.index[m].offset
          /\ n = 0 => \A q \in file : q.key > k
      BY <1>2, <1>3, <2>1, <2>4, <3>1, StartIs
    <3>3. PICK s \in file : Starts(file, s, k) /\ s.at = w.index[m].offset
      BY <3>2
    <3>4. s.at \in Nat /\ s.at < w.curOffset
      BY <1>2, RecFields
    <3>5. CASE n = 0
      <4>1. k \notin Records(Of(file))
        <5> SUFFICES ASSUME k \in Records(Of(file)) PROVE FALSE
          OBVIOUS
        <5>1. PICK q \in file : q.key = k
          BY <1>2, OfIs
        <5> QED
          BY <1>3, <3>2, <3>5, <5>1
      <4>2. rd' = [op |-> "get", key |-> k, at |-> "done", got |-> Absent]
        BY <1>6, <2>2, <3>5 DEF GetStart
      <4> QED
        BY <1>4, <4>1, <4>2
    <3>6. CASE n # 0
      <4>1. n > 0 /\ m = n
        BY <3>1, <3>2, <3>6
      <4>2. Opens(w.index[n].offset)
        BY <1>2, <3>3, <3>4, <4>1 DEF Opens, MetaStart
      <4>3. /\ it' = IteratorAt(s.at)
            /\ rd' = [op |-> "get", key |-> k, at |-> "reading", got |-> Absent]
        BY <1>6, <2>2, <3>3, <4>1, <4>2 DEF GetStart
      <4>4. it' \in Iterators /\ it'.pos = s.at
        BY <3>4, <4>3 DEF IteratorAt, NoIterator, Iterators, EmptyKey
      <4>5. Stands'
        BY <1>1, <3>3, <4>4 DEF Stands
      <4>6. Over(s)' = {}
        <5>1. Over(s)' = Between(file, s.at, s.at)
          BY <1>1, <4>4 DEF Over
        <5> QED
          BY <1>2, <3>4, <5>1, BetweenAll
      <4>7. rd'.got = Absent /\ rd'.key = k /\ rd'.at = "reading" /\ rd'.op = "get"
            /\ rd' \in [op : {"get"}, key : Keys, at : {"reading"}, got : {Absent}]
        BY <4>3
      <4>8. GetGoesOn'
        <5>1. Starts(file', s, rd'.key) /\ s \in file' /\ s.at <= it'.pos
          BY <1>1, <3>3, <3>4, <4>4, <4>7
        <5> QED
          BY <4>5, <4>6, <4>7, <5>1 DEF GetGoesOn
      <4>9. GetIsRight' /\ ScanGoesOn' /\ CompactionGoesOn' /\ ScanIsRight' /\ CompactionIsRight'
        BY <4>7 DEF GetIsRight, ScanGoesOn, CompactionGoesOn, ScanIsRight, CompactionIsRight
      <4> QED
        BY <1>1, <4>7, <4>8, <4>9 DEF ReaderInv
    <3> QED
      BY <3>5, <3>6
  <2> QED
    BY <2>3, <2>4
<1> QED
  BY <1>5, <1>6

LEMMA GetSteps ==
  ASSUME FileInv, ReaderInv, GetStep
  PROVE  ReaderInv'
<1>1. /\ rd.at = "reading" /\ rd.op = "get" /\ phase = "closed"
      /\ phase' = "closed" /\ file' = file /\ w' = w
  BY DEF GetStep, Reading, wvars, ReaderInv
<1>2. Laid(file, w.curOffset) /\ Notes(w, file) /\ Written = Of(file) /\ Written' = Written
      /\ w.curOffset \in Nat
  <2>1. Written' = Written
    BY <1>1 DEF Written
  <2> QED
    BY <1>1, <2>1, ClosedFile
<1>3. /\ Stands
      /\ rd \in [op : {"get"}, key : Keys, at : {"reading"}, got : {Absent}]
  BY <1>1 DEF ReaderInv, GetGoesOn
<1>4. PICK s \in file : /\ Starts(file, s, rd.key) /\ s.at <= it.pos
                        /\ \A r \in Over(s) : Readable(r.key, r.val) /\ r.key < rd.key
  BY <1>1 DEF ReaderInv, GetGoesOn
<1>5. PICK k : k = rd.key
  OBVIOUS
<1>6. k \in Keys /\ k \in Nat /\ s.at \in Nat /\ it.pos \in Nat
  BY <1>2, <1>3, <1>5, KeysAreOrdered, RecFields DEF Stands, Iterators
<1>7. PICK n : n = NextKey(it)
  OBVIOUS
<1>8. /\ it.pos = w.curOffset => ~n.ok
      /\ \A r \in file : r.at = it.pos =>
           /\ n.ok <=> Readable(r.key, r.val)
           /\ n.ok => /\ n.key = r.key /\ n.val = r.val
                      /\ PastValue(n) \in Iterators
                      /\ PastValue(n).pos = Behind(r)
  BY <1>2, <1>3, <1>7, NextKeyIs DEF Stands
<1>9. \A q \in file : s.at <= q.at /\ ~(it.pos <= q.at) => Readable(q.key, q.val) /\ q.key < k
  <2> SUFFICES ASSUME NEW q \in file, s.at <= q.at, ~(it.pos <= q.at)
               PROVE  Readable(q.key, q.val) /\ q.key < k
    OBVIOUS
  <2>1. q.at \in Nat
    BY <1>2, RecFields
  <2>2. q \in Over(s)
    BY <1>6, <2>1 DEF Over, Between
  <2> QED
    BY <1>4, <1>5, <2>2
<1>10. ASSUME rd'.at = "done", rd'.op = "get", rd'.key = k, rd'.got = SSTGet(Of(file), k)
       PROVE  ReaderInv'
  <2>1. GetIsRight'
    BY <1>2, <1>10 DEF GetIsRight
  <2>2. GetGoesOn' /\ ScanGoesOn' /\ CompactionGoesOn' /\ ScanIsRight' /\ CompactionIsRight'
    BY <1>10 DEF GetGoesOn, ScanGoesOn, CompactionGoesOn, ScanIsRight, CompactionIsRight
  <2> QED
    BY <1>1, <1>10, <2>1, <2>2 DEF ReaderInv
<1>11. rd.got = Absent
  BY <1>3
<1>12. ASSUME rd' = [rd EXCEPT !.at = "done"], SSTGet(Of(file), k) = Absent
       PROVE  ReaderInv'
  <2>1. rd'.at = "done" /\ rd'.op = "get" /\ rd'.key = k /\ rd'.got = Absent
    BY <1>3, <1>5, <1>12
  <2> QED
    BY <1>10, <1>12, <2>1
<1>13. CASE it.pos = w.curOffset
  <2>1. ~n.ok
    BY <1>8, <1>13
  <2>2. k \notin Records(Of(file))
    <3> SUFFICES ASSUME k \in Records(Of(file)) PROVE FALSE
      OBVIOUS
    <3>1. PICK q \in file : q.key = k
      BY <1>2, OfIs
    <3>2. s.at <= q.at
      BY <1>2, <1>4, <1>5, <1>6, <3>1, FromStart
    <3>3. q.at < it.pos /\ q.at \in Nat
      BY <1>2, <1>13, RecFields
    <3>4. q.key < k
      BY <1>6, <1>9, <3>2, <3>3
    <3> QED
      BY <1>6, <3>1, <3>4
  <2>3. rd' = [rd EXCEPT !.at = "done"]
    BY <1>7, <2>1 DEF GetStep, Ends
  <2> QED
    BY <1>6, <1>12, <2>2, <2>3, NoRecordNoGet
<1>14. ASSUME NEW r \in file, r.at = it.pos
       PROVE  ReaderInv'
  <2>1. /\ r.at \in Nat /\ r.key \in Nat /\ r.key \in Keys /\ r.val \in Version
        /\ Behind(r) \in Nat /\ s.at <= r.at
        /\ Behind(r) = w.curOffset \/ \E q \in file : q.at = Behind(r)
    BY <1>2, <1>4, <1>14, RecFields
  <2>2. /\ n.ok <=> Readable(r.key, r.val)
        /\ n.ok => /\ n.key = r.key /\ n.val = r.val
                   /\ PastValue(n) \in Iterators /\ PastValue(n).pos = Behind(r)
    BY <1>8, <1>14
  <2>3. ASSUME k \in Records(Of(file)) PROVE r.key <= k
    <3>1. PICK q \in file : q.key = k
      BY <1>2, <2>3, OfIs
    <3>2. s.at <= q.at
      BY <1>2, <1>4, <1>5, <1>6, <3>1, FromStart
    <3>3. it.pos <= q.at
      BY <1>6, <1>9, <3>1, <3>2
    <3> QED
      BY <1>2, <1>14, <3>1, <3>3, OneOrder
  <2>4. CASE ~n.ok
    <3>1. rd' = [rd EXCEPT !.at = "done"]
      BY <1>7, <2>4 DEF GetStep, Ends
    <3>2. SSTGet(Of(file), k) = Absent
      <4>1. CASE k \in Records(Of(file))
        BY <1>2, <1>4, <1>5, <1>6, <2>1, <2>2, <2>3, <2>4, <4>1, HiddenByBlock
      <4>2. CASE k \notin Records(Of(file))
        BY <1>6, <4>2, NoRecordNoGet
      <4> QED
        BY <4>1, <4>2
    <3> QED
      BY <1>12, <3>1, <3>2
  <2>5. CASE n.ok /\ r.key = k
    <3>1. n.key = k /\ ~(n.key > k) /\ ~(n.key < k)
      BY <1>6, <2>2, <2>5
    <3>2. rd' = [rd EXCEPT !.at = "done", !.got = n.val]
      BY <1>5, <1>7, <2>5, <3>1 DEF GetStep
    <3>3. \A q \in file : s.at <= q.at /\ q.key <= r.key => Readable(q.key, q.val)
      <4> SUFFICES ASSUME NEW q \in file, s.at <= q.at, q.key <= r.key
                   PROVE  Readable(q.key, q.val)
        OBVIOUS
      <4>1. q.at <= r.at /\ (q.at = r.at => q = r) /\ q.at \in Nat
        BY <1>2, OneOrder, RecFields
      <4>2. CASE q = r
        BY <2>2, <2>5, <4>2
      <4>3. CASE q # r
        <5>1. ~(it.pos <= q.at)
          BY <1>14, <2>1, <4>1, <4>3
        <5> QED
          BY <1>9, <5>1
      <4> QED
        BY <4>2, <4>3
    <3>4. SSTGet(Of(file), k) = r.val
      BY <1>2, <1>4, <1>5, <2>5, <3>3, FoundInBlock
    <3>5. rd'.at = "done" /\ rd'.op = "get" /\ rd'.key = k /\ rd'.got = r.val
      BY <1>3, <1>5, <2>2, <2>5, <3>2
    <3> QED
      BY <1>10, <3>4, <3>5
  <2>6. CASE n.ok /\ r.key > k
    <3>1. ~(n.key = k) /\ n.key > k /\ ~(n.key < k)
      BY <1>6, <2>1, <2>2, <2>6
    <3>2. rd' = [rd EXCEPT !.at = "done"]
      BY <1>5, <1>7, <2>6, <3>1 DEF GetStep, Ends
    <3>3. k \notin Records(Of(file))
      BY <1>6, <2>1, <2>3, <2>6
    <3> QED
      BY <1>6, <1>12, <3>2, <3>3, NoRecordNoGet
  <2>7. CASE n.ok /\ r.key < k
    <3>1. ~(n.key = k) /\ ~(n.key > k) /\ n.key < k
      BY <1>6, <2>1, <2>2, <2>7
    <3>2. it' = PastValue(n) /\ rd' = rd
      BY <1>5, <1>7, <2>7, <3>1 DEF GetStep
    <3>3. it' \in Iterators /\ it'.pos = Behind(r)
      BY <2>2, <2>7, <3>2
    <3>4. Stands'
      BY <1>1, <2>1, <3>3 DEF Stands
    <3>5. Over(s)' = Over(s) \cup {r} /\ s.at <= it'.pos
      <4>1. Over(s)' = Between(file, s.at, Behind(r)) /\ Over(s) = Between(file, s.at, r.at)
        BY <1>1, <1>14, <3>3 DEF Over
      <4> QED
        BY <1>2, <1>6, <2>1, <3>3, <4>1, BetweenNext
    <3>6. \A q \in Over(s)' : Readable(q.key, q.val) /\ q.key < rd'.key
      BY <1>4, <1>5, <2>2, <2>7, <3>2, <3>5
    <3>7. GetGoesOn'
      BY <1>1, <1>3, <1>4, <3>2, <3>4, <3>5, <3>6 DEF GetGoesOn
    <3>8. GetIsRight' /\ ScanGoesOn' /\ CompactionGoesOn' /\ ScanIsRight' /\ CompactionIsRight'
      BY <1>1, <3>2 DEF GetIsRight, ScanGoesOn, CompactionGoesOn, ScanIsRight, CompactionIsRight
    <3> QED
      BY <1>1, <3>2, <3>7, <3>8 DEF ReaderInv
  <2>8. r.key = k \/ r.key > k \/ r.key < k
    BY <1>6, <2>1
  <2> QED
    BY <2>4, <2>5, <2>6, <2>7, <2>8
<1> QED
  BY <1>3, <1>13, <1>14 DEF Stands

-----------------------------------------------------------------------------
(* The range scan of one table.                                            *)

InTheWay(d, lo, hi) == {k \in ScanReads(d, lo, PastKeys(hi)) : ~Readable(k, d[k])}

Asked(d, lo, hi) == [k \in Keys |-> IF k >= lo /\ ~Past(k, hi) THEN d[k] ELSE Absent]

(* What ScanIsRight says of a scan of d that stands at at, with got.       *)
ScanAnswer(d, lo, hi, at, got) ==
  /\ InOrder(got)
  /\ at = "done" =>
       \/ OutOfRange(d, lo, PastKeys(hi)) /\ got = <<>>
       \/ /\ ~OutOfRange(d, lo, PastKeys(hi))
          /\ InTheWay(d, lo, hi) = {} /\ AsTable(got) = Asked(d, lo, hi)
  /\ at = "failed" => InTheWay(d, lo, hi) # {}
  /\ at = "failed" => (got = <<>> <=> InTheWay(d, lo, hi) \cap OpenReads(d, lo) # {})
  /\ at = "panicked" => Records(d) = {}

(* It ends where the data end, or before the first record past its end.    *)
LEMMA ScanEnds ==
  ASSUME NEW f, NEW end, Laid(f, end), NEW lo, NEW hi, NEW s, NEW pos, NEW got,
         ScanSoFar(f, lo, hi, s, pos, got),
         \/ pos = end
         \/ \E r \in f : /\ r.at = pos /\ Readable(r.key, r.val)
                         /\ r.key >= lo /\ Past(r.key, hi)
  PROVE  InTheWay(Of(f), lo, hi) = {} /\ AsTable(got) = Asked(Of(f), lo, hi)
<1>1. /\ lo \in Nat /\ hi \in Nat \cup {NoEnd} /\ pos \in Nat /\ Starts(f, s, lo) /\ s.at <= pos
      /\ \A r \in Between(f, s.at, pos) : /\ Readable(r.key, r.val)
                                          /\ r.key >= lo => ~Past(r.key, hi)
      /\ Lists(got, {r \in Between(f, s.at, pos) : r.key >= lo})
  BY DEF ScanSoFar
<1>2. \A q \in f : q.at \in Nat /\ q.key \in Nat /\ q.key \in Keys /\ q.at < end
  BY RecFields
<1>3. \A q \in f : Of(f)[q.key] = q.val
  BY OfIs
<1>4. ASSUME NEW q \in f, s.at <= q.at, q \notin Between(f, s.at, pos)
      PROVE  \E r \in f : /\ r.at = pos /\ Readable(r.key, r.val)
                          /\ r.key >= lo /\ Past(r.key, hi) /\ r.key <= q.key
                          /\ r.key = q.key => r = q
  <2>1. pos <= q.at
    BY <1>1, <1>2, <1>4 DEF Between
  <2>2. PICK r \in f : /\ r.at = pos /\ Readable(r.key, r.val)
                       /\ r.key >= lo /\ Past(r.key, hi)
    BY <1>1, <1>2, <2>1
  <2>3. r.key <= q.key /\ (r.key = q.key => r = q)
    BY <2>1, <2>2, OneOrder DEF Laid
  <2> QED
    BY <2>2, <2>3
<1>5. ASSUME NEW k \in InTheWay(Of(f), lo, hi) PROVE FALSE
  <2>1. /\ k \in Records(Of(f)) /\ Rank(Of(f), k) >= StartRank(Of(f), lo)
        /\ \A j \in Records(Of(f)) : j < k => ~(j >= lo /\ j \in PastKeys(hi))
        /\ ~Readable(k, Of(f)[k])
    BY <1>5 DEF InTheWay, ScanReads
  <2>2. PICK q \in f : q.key = k
    BY <2>1, OfIs
  <2>3. s.at <= q.at /\ ~Readable(q.key, q.val)
    BY <1>1, <1>3, <2>1, <2>2, FromStart
  <2>4. PICK r \in f : /\ Readable(r.key, r.val) /\ r.key >= lo /\ Past(r.key, hi)
                       /\ r.key <= q.key /\ (r.key = q.key => r = q)
    BY <1>1, <1>4, <2>3
  <2>5. r.key < k /\ r.key \in Records(Of(f)) /\ r.key \in PastKeys(hi)
    BY <1>2, <2>2, <2>3, <2>4, OfIs DEF PastKeys
  <2> QED
    BY <2>1, <2>4, <2>5
<1>6. PICK S : S = {r \in Between(f, s.at, pos) : r.key >= lo}
  OBVIOUS
<1>7. S \in SUBSET f
  BY <1>6 DEF Between
<1>8. AsTable(got) = [k \in Keys |-> IF \E q \in S : q.key = k THEN Of(f)[k] ELSE Absent]
  BY <1>1, <1>6, <1>7, AsTableIs
<1>9. ASSUME NEW k \in Keys
      PROVE  (IF \E q \in S : q.key = k THEN Of(f)[k] ELSE Absent)
               = IF k >= lo /\ ~Past(k, hi) THEN Of(f)[k] ELSE Absent
  <2>0. k \in Nat
    BY KeysAreOrdered
  <2>1. ASSUME NEW q \in S, q.key = k PROVE k >= lo /\ ~Past(k, hi)
    BY <1>1, <1>6, <2>1
  <2>2. ASSUME k >= lo, ~Past(k, hi), Of(f)[k] # Absent PROVE \E q \in S : q.key = k
    <3>1. k \in Records(Of(f))
      BY <2>2 DEF Records
    <3>2. PICK q \in f : q.key = k
      BY <3>1, OfIs
    <3>3. s.at <= q.at
      BY <1>1, <2>0, <2>2, <3>2, FromStart
    <3>4. q \in Between(f, s.at, pos)
      <4> SUFFICES ASSUME q \notin Between(f, s.at, pos) PROVE FALSE
        OBVIOUS
      <4>1. PICK r \in f : r.key >= lo /\ Past(r.key, hi) /\ r.key <= q.key
        BY <1>4, <3>3
      <4>2. hi # NoEnd /\ r.key >= hi /\ hi \in Nat
        BY <1>1, <4>1 DEF Past
      <4>3. q.key >= hi
        BY <1>2, <4>1, <4>2
      <4> QED
        BY <2>2, <3>2, <4>2, <4>3 DEF Past
    <3> QED
      BY <1>6, <2>2, <3>2, <3>4
  <2> QED
    BY <2>1, <2>2
<1>10. AsTable(got) = Asked(Of(f), lo, hi)
  BY <1>8, <1>9 DEF Asked
<1> QED
  BY <1>5, <1>10

(* It fails on a record that is in its way, and as Tables tells apart.     *)
LEMMA ScanFails ==
  ASSUME NEW f, NEW end, Laid(f, end), NEW lo, NEW hi, NEW s, NEW pos, NEW got,
         ScanSoFar(f, lo, hi, s, pos, got),
         NEW r \in f, r.at = pos, ~Readable(r.key, r.val)
  PROVE  /\ InTheWay(Of(f), lo, hi) # {}
         /\ got = <<>> <=> InTheWay(Of(f), lo, hi) \cap OpenReads(Of(f), lo) # {}
<1>1. /\ lo \in Nat /\ hi \in Nat \cup {NoEnd} /\ pos \in Nat /\ Starts(f, s, lo) /\ s.at <= pos
      /\ \A q \in Between(f, s.at, pos) : /\ Readable(q.key, q.val)
                                          /\ q.key >= lo => ~Past(q.key, hi)
      /\ Lists(got, {q \in Between(f, s.at, pos) : q.key >= lo})
  BY DEF ScanSoFar
<1>2. \A q \in f : q.at \in Nat /\ q.key \in Nat /\ q.key \in Keys
  BY RecFields
<1>3. \A q \in f : Of(f)[q.key] = q.val /\ q.key \in Records(Of(f))
  BY OfIs
<1>4. Rank(Of(f), r.key) >= StartRank(Of(f), lo)
  BY <1>1, FromStart
<1>5. ASSUME NEW j \in Records(Of(f)), j < r.key
      PROVE  \E q \in f : q.key = j /\ (j < lo \/ q \in Between(f, s.at, pos))
  <2>1. PICK q \in f : q.key = j
    BY OfIs
  <2>2. q.at < pos
    <3>1. q.key < r.key
      BY <1>5, <2>1
    <3> QED
      BY <3>1, OneOrder
  <2>3. CASE s.at <= q.at
    BY <2>1, <2>2, <2>3 DEF Between
  <2>4. CASE ~(s.at <= q.at)
    BY <1>1, <2>1, <2>4, FromStart
  <2> QED
    BY <2>1, <2>3, <2>4
<1>6. r.key \in InTheWay(Of(f), lo, hi)
  <2>1. \A j \in Records(Of(f)) : j < r.key => ~(j >= lo /\ j \in PastKeys(hi))
    <3> SUFFICES ASSUME NEW j \in Records(Of(f)), j < r.key, j >= lo, j \in PastKeys(hi)
                 PROVE  FALSE
      OBVIOUS
    <3>1. PICK q \in f : q.key = j /\ (j < lo \/ q \in Between(f, s.at, pos))
      BY <1>5
    <3>2. j \in Nat /\ ~(j < lo)
      BY <1>1, <1>2, <3>1
    <3>3. ~Past(j, hi)
      BY <1>1, <3>1, <3>2
    <3> QED
      BY <3>3 DEF PastKeys
  <2> QED
    BY <1>3, <1>4, <2>1 DEF InTheWay, ScanReads
<1>7. PICK S : S = {q \in Between(f, s.at, pos) : q.key >= lo}
  OBVIOUS
<1>8. S \in SUBSET f
  BY <1>7 DEF Between
<1>9. got = <<>> <=> S = {}
  BY <1>1, <1>7, <1>8, AsTableIs
<1>10. ASSUME S = {} PROVE r.key \in OpenReads(Of(f), lo)
  <2>1. ASSUME NEW j \in Records(Of(f)), j < r.key PROVE j < lo
    <3>1. PICK q \in f : q.key = j /\ (j < lo \/ q \in Between(f, s.at, pos))
      BY <1>5, <2>1
    <3>2. CASE q \in Between(f, s.at, pos)
      <4>1. ~(q.key >= lo)
        BY <1>7, <1>10, <3>2
      <4> QED
        BY <1>1, <1>2, <3>1, <4>1
    <3> QED
      BY <3>1, <3>2
  <2> QED
    BY <1>3, <1>4, <2>1 DEF OpenReads
<1>11. ASSUME NEW k \in InTheWay(Of(f), lo, hi), k \in OpenReads(Of(f), lo)
       PROVE  S = {}
  <2>1. /\ k \in Records(Of(f)) /\ Rank(Of(f), k) >= StartRank(Of(f), lo)
        /\ ~Readable(k, Of(f)[k])
        /\ \A j \in Records(Of(f)) : j < k => j < lo
    BY <1>11 DEF InTheWay, ScanReads, OpenReads
  <2>2. PICK p \in f : p.key = k
    BY <2>1, OfIs
  <2>3. s.at <= p.at /\ p \notin Between(f, s.at, pos)
    BY <1>1, <1>3, <2>1, <2>2, FromStart
  <2>4. pos <= p.at
    BY <1>1, <1>2, <2>3 DEF Between
  <2>5. ASSUME NEW q \in S PROVE FALSE
    <3>1. q \in f /\ q.at < pos /\ q.key >= lo
      BY <1>7, <2>5 DEF Between
    <3>2. q.at < p.at
      BY <1>1, <1>2, <2>4, <3>1
    <3>3. q.key < k
      BY <2>2, <3>1, <3>2, OneOrder
    <3>4. q.key < lo
      BY <1>3, <2>1, <3>1, <3>3
    <3> QED
      BY <1>1, <1>2, <3>1, <3>4
  <2> QED
    BY <2>5
<1> QED
  BY <1>6, <1>9, <1>10, <1>11

LEMMA ScanGoesFurther ==
  ASSUME NEW f, NEW end, Laid(f, end), NEW lo, NEW hi, NEW s, NEW pos, NEW got,
         ScanSoFar(f, lo, hi, s, pos, got),
         NEW r \in f, r.at = pos, Readable(r.key, r.val),
         NEW more,
         \/ r.key < lo /\ more = got
         \/ r.key >= lo /\ ~Past(r.key, hi) /\ more = Append(got, <<r.key, r.val>>)
  PROVE  ScanSoFar(f, lo, hi, s, Behind(r), more)
<1>1. /\ lo \in Nat /\ hi \in Nat \cup {NoEnd} /\ pos \in Nat /\ Starts(f, s, lo) /\ s.at <= pos
      /\ \A q \in Between(f, s.at, pos) : /\ Readable(q.key, q.val)
                                          /\ q.key >= lo => ~Past(q.key, hi)
      /\ Lists(got, {q \in Between(f, s.at, pos) : q.key >= lo})
  BY DEF ScanSoFar
<1>2. r.key \in Nat /\ r.key \in Keys /\ r.val \in Version /\ Behind(r) \in Nat
  BY RecFields
<1>3. s.at \in Nat
  BY <1>1, RecFields DEF Starts
<1>4. PICK B : B = Between(f, s.at, pos)
  OBVIOUS
<1>5. /\ Between(f, s.at, Behind(r)) = B \cup {r}
      /\ \A q \in B : q.key < r.key
      /\ s.at <= Behind(r)
  BY <1>1, <1>3, <1>4, BetweenNext
<1>6. \A q \in Between(f, s.at, Behind(r)) : /\ Readable(q.key, q.val)
                                             /\ q.key >= lo => ~Past(q.key, hi)
  <2>1. r.key >= lo => ~Past(r.key, hi)
    BY <1>1, <1>2
  <2> QED
    BY <1>1, <1>4, <1>5, <2>1
<1>7. PICK S, T : /\ S = {q \in B : q.key >= lo}
                  /\ T = {q \in Between(f, s.at, Behind(r)) : q.key >= lo}
  OBVIOUS
<1>8. Lists(more, T)
  <2>1. CASE r.key < lo /\ more = got
    <3>1. ~(r.key >= lo)
      BY <1>1, <1>2, <2>1
    <3>2. T = S
      BY <1>5, <1>7, <3>1
    <3> QED
      BY <1>1, <1>4, <1>7, <2>1, <3>2
  <2>2. CASE r.key >= lo /\ more = Append(got, <<r.key, r.val>>)
    <3>1. T = S \cup {r}
      BY <1>5, <1>7, <2>2
    <3>2. Lists(got, S) /\ \A q \in S : q.key < r.key
      BY <1>1, <1>4, <1>5, <1>7
    <3> QED
      BY <1>2, <2>2, <3>1, <3>2, ListsNext
  <2> QED
    BY <2>1, <2>2
<1> QED
  BY <1>1, <1>2, <1>5, <1>6, <1>7, <1>8 DEF ScanSoFar

LEMMA PastMinKey ==
  ASSUME NEW f, NEW end, Laid(f, end), NEW hi \in (Keys \ {EmptyKey}) \cup {NoEnd}
  PROVE  Past(MinKey(Of(f)), hi) <=> MinKey(Of(f)) \in PastKeys(hi)
<1>1. PICK R : R = Records(Of(f)) \ {EmptyKey}
  OBVIOUS
<1>2. R \in SUBSET Nat /\ R \in SUBSET Keys
  BY <1>1, OfIs, KeysAreOrdered DEF Records
<1>3. CASE R = {}
  <2>1. MinKey(Of(f)) = 0
    BY <1>1, <1>3 DEF MinKey, EmptyKey
  <2>2. ~Past(0, hi)
    BY KeysAreOrdered DEF Past, EmptyKey
  <2> QED
    BY <2>1, <2>2 DEF PastKeys
<1>4. CASE R # {}
  <2>1. MinKey(Of(f)) = Min(R)
    BY <1>1, <1>4 DEF MinKey
  <2>2. Min(R) \in Keys
    BY <1>2, <1>4, MinOfNats
  <2> QED
    BY <2>1, <2>2 DEF PastKeys
<1> QED
  BY <1>3, <1>4

LEMMA ScanBegins ==
  ASSUME FileInv, NEW lo \in Keys \cup {EmptyKey},
         NEW hi \in (Keys \ {EmptyKey}) \cup {NoEnd},
         ScanSkips(lo, hi) \/ ScanPanics(lo, hi) \/ ScanOpens(lo, hi)
  PROVE  ReaderInv'
<1>1. phase = "closed" /\ phase' = "closed" /\ file' = file /\ w' = w
  BY DEF ScanSkips, ScanPanics, ScanOpens, ScanStarts, CanStart, wvars
<1>2. Laid(file, w.curOffset) /\ Notes(w, file) /\ Written = Of(file) /\ Written' = Written
      /\ w.curOffset \in Nat
  <2>1. Written' = Written
    BY <1>1 DEF Written
  <2> QED
    BY <1>1, <2>1, ClosedFile
<1>3. lo \in Nat /\ hi \in Nat \cup {NoEnd}
  BY KeysAreOrdered DEF EmptyKey
<1>4. PICK d : d = Of(file)
  OBVIOUS
<1>5. OutOfRange(d, lo, PastKeys(hi)) <=> Past(w.minKey, hi) \/ w.maxKey < lo
  <2>1. w.minKey = MinKey(d) /\ w.maxKey = MaxKey(d)
    BY <1>2, <1>4 DEF Notes
  <2> QED
    BY <1>2, <1>4, <2>1, PastMinKey DEF OutOfRange
<1>6. ASSUME NEW at, at # "reading", ScanAnswer(d, lo, hi, at, <<>>),
             rd' = Request(lo, hi, at)
      PROVE  ReaderInv'
  <2>1. rd' = [op |-> "scan", lo |-> lo, hi |-> hi, at |-> at, got |-> <<>>]
    BY <1>6 DEF Request
  <2>2. rd'.op = "scan" /\ rd'.lo = lo /\ rd'.hi = hi /\ rd'.got = <<>> /\ rd'.at = at
    BY <2>1
  <2>3. ScanIsRight'
    <3>1. ScanAnswer(Written', rd'.lo, rd'.hi, rd'.at, rd'.got)
      BY <1>2, <1>4, <1>6, <2>2
    <3>2. ScanAnswer(Written', rd'.lo, rd'.hi, rd'.at, rd'.got) => ScanIsRight'
      BY Zenon DEF ScanIsRight, ScanAnswer, InTheWay, PastKeys, Asked
    <3> QED
      BY <3>1, <3>2
  <2>4. GetGoesOn' /\ ScanGoesOn' /\ CompactionGoesOn' /\ GetIsRight' /\ CompactionIsRight'
    BY <1>6, <2>2 DEF GetGoesOn, ScanGoesOn, CompactionGoesOn, GetIsRight, CompactionIsRight
  <2> QED
    BY <1>1, <2>2, <2>3, <2>4 DEF ReaderInv
<1>7. InOrder(<<>>)
  BY ListsNone DEF Lists
<1>8. CASE ScanSkips(lo, hi)
  <2>1. OutOfRange(d, lo, PastKeys(hi))
    BY <1>5, <1>8 DEF ScanSkips
  <2>2. ScanAnswer(d, lo, hi, "done", <<>>)
    BY <1>7, <2>1 DEF ScanAnswer
  <2> QED
    BY <1>6, <1>8, <2>2 DEF ScanSkips
<1>9. CASE ScanPanics(lo, hi)
  <2>1. Records(d) = {}
    BY <1>2, <1>4, <1>9, NoFileNoIndex DEF ScanPanics
  <2>2. ScanAnswer(d, lo, hi, "panicked", <<>>)
    BY <1>7, <2>1 DEF ScanAnswer
  <2> QED
    BY <1>6, <1>9, <2>2 DEF ScanPanics
<1>10. CASE ScanOpens(lo, hi)
  <2>1. file # {}
    BY <1>2, <1>10, NoFileNoIndex DEF ScanOpens
  <2>2. PICK n : n = EntriesTo(w, lo)
    OBVIOUS
  <2>3. IndexPos(lo) = n
    BY <2>2 DEF IndexPos, EntriesTo
  <2>4. PICK m : m = IF n > 0 THEN n ELSE 1
    OBVIOUS
  <2>5. n \in Nat /\ \E s \in file : Starts(file, s, lo) /\ s.at = w.index[m].offset
    BY <1>2, <1>3, <2>1, <2>2, <2>4, StartIs
  <2>6. PICK s \in file : Starts(file, s, lo) /\ s.at = w.index[m].offset
    BY <2>5
  <2>7. Max({n, 1}) = m
    <3>1. PICK S : S = {n, 1}
      OBVIOUS
    <3>2. S \in SUBSET Nat /\ m \in S /\ \A x \in S : x <= m
      BY <2>4, <2>5, <3>1
    <3> QED
      BY <3>1, <3>2, MaxIs
  <2>8. it' = IteratorAt(s.at) /\ rd' = Request(lo, hi, "reading")
    BY <1>10, <2>3, <2>6, <2>7 DEF ScanOpens
  <2>9. s.at \in Nat
    BY <1>2, RecFields
  <2>10. it' \in Iterators /\ it'.pos = s.at
    BY <2>8, <2>9 DEF IteratorAt, NoIterator, Iterators, EmptyKey
  <2>11. Stands'
    BY <1>1, <2>6, <2>10 DEF Stands
  <2>12. rd' = [op |-> "scan", lo |-> lo, hi |-> hi, at |-> "reading", got |-> <<>>]
    BY <2>8 DEF Request
  <2>13. /\ rd'.op = "scan" /\ rd'.lo = lo /\ rd'.hi = hi /\ rd'.got = <<>>
         /\ rd'.at = "reading" /\ rd' \in Scanners
    <3>1. <<>> \in Seq(Keys \X Version)
      BY ListsNone DEF Lists
    <3> QED
      BY <1>3, <2>12, <3>1 DEF Scanners
  <2>14. ~OutOfRange(d, lo, PastKeys(hi))
    <3>1. w.maxKey \in Nat
      BY <1>2 DEF Notes, Noters
    <3>2. ~Past(w.minKey, hi) /\ w.maxKey >= lo
      BY <1>10 DEF ScanOpens
    <3> QED
      BY <1>3, <1>5, <3>1, <3>2
  <2>15. ScanSoFar(file, lo, hi, s, s.at, <<>>)
    <3>1. Between(file, s.at, s.at) = {}
      BY <1>2, <2>9, BetweenAll
    <3>2. {r \in Between(file, s.at, s.at) : r.key >= lo} = {}
      BY <3>1
    <3>3. s.at <= s.at
      BY <2>9
    <3> QED
      BY <1>3, <2>6, <2>9, <3>1, <3>2, <3>3, ListsNone DEF ScanSoFar
  <2>16. ScanGoesOn'
    BY <1>1, <1>2, <1>4, <2>6, <2>10, <2>11, <2>13, <2>14, <2>15 DEF ScanGoesOn
  <2>17. ScanIsRight'
    BY <1>7, <2>13 DEF ScanIsRight
  <2>18. GetGoesOn' /\ CompactionGoesOn' /\ GetIsRight' /\ CompactionIsRight'
    BY <2>13 DEF GetGoesOn, CompactionGoesOn, GetIsRight, CompactionIsRight
  <2> QED
    BY <1>1, <2>13, <2>16, <2>17, <2>18 DEF ReaderInv
<1> QED
  BY <1>8, <1>9, <1>10

LEMMA ScanSteps ==
  ASSUME FileInv, ReaderInv, ScanStep
  PROVE  ReaderInv'
<1>1. /\ rd.at = "reading" /\ rd.op = "scan" /\ phase = "closed"
      /\ phase' = "closed" /\ file' = file /\ w' = w
  BY DEF ScanStep, Reading, wvars, ReaderInv
<1>2. Laid(file, w.curOffset) /\ Written = Of(file) /\ Written' = Written
      /\ w.curOffset \in Nat
  <2>1. Written' = Written
    BY <1>1 DEF Written
  <2> QED
    BY <1>1, <2>1, ClosedFile
<1>3. /\ Stands
      /\ rd \in Scanners
      /\ ~OutOfRange(Written, rd.lo, PastKeys(rd.hi))
  BY <1>1 DEF ReaderInv, ScanGoesOn
<1>4. PICK s \in file : ScanSoFar(file, rd.lo, rd.hi, s, it.pos, rd.got)
  BY <1>1 DEF ReaderInv, ScanGoesOn
<1>5. PICK d, lo, hi, got : d = Of(file) /\ lo = rd.lo /\ hi = rd.hi /\ got = rd.got
  OBVIOUS
<1>6. lo \in Nat /\ it.pos \in Nat /\ got \in Seq(Keys \X Version)
  BY <1>3, <1>5 DEF Stands, Iterators, Scanners
<1>7. PICK n : n = NextKey(it)
  OBVIOUS
<1>8. /\ it.pos = w.curOffset => ~n.ok /\ ~n.err
      /\ \A r \in file : r.at = it.pos =>
           /\ n.ok <=> Readable(r.key, r.val)
           /\ n.ok => /\ n.key = r.key /\ n.val = r.val
                      /\ PastValue(n) \in Iterators
                      /\ PastValue(n).pos = Behind(r)
           /\ ~n.ok => n.err
  BY <1>2, <1>3, <1>7, NextKeyIs DEF Stands
<1>9. InOrder(got)
  BY <1>4, <1>5 DEF ScanSoFar, Lists
<1>10. ASSUME NEW at, at # "reading", ScanAnswer(d, lo, hi, at, got), rd' = [rd EXCEPT !.at = at]
       PROVE  ReaderInv'
  <2>1. /\ rd'.op = "scan" /\ rd'.lo = lo /\ rd'.hi = hi /\ rd'.got = got /\ rd'.at = at
    BY <1>3, <1>5, <1>10 DEF Scanners
  <2>2. ScanIsRight'
    <3>1. ScanAnswer(Written', rd'.lo, rd'.hi, rd'.at, rd'.got)
      BY <1>2, <1>5, <1>10, <2>1
    <3>2. ScanAnswer(Written', rd'.lo, rd'.hi, rd'.at, rd'.got) => ScanIsRight'
      BY Zenon DEF ScanIsRight, ScanAnswer, InTheWay, PastKeys, Asked
    <3> QED
      BY <3>1, <3>2
  <2>3. GetGoesOn' /\ ScanGoesOn' /\ CompactionGoesOn' /\ GetIsRight' /\ CompactionIsRight'
    BY <1>10, <2>1 DEF GetGoesOn, ScanGoesOn, CompactionGoesOn, GetIsRight, CompactionIsRight
  <2> QED
    BY <1>1, <2>1, <2>2, <2>3 DEF ReaderInv
<1>11. ASSUME InTheWay(d, lo, hi) = {}, AsTable(got) = Asked(d, lo, hi)
       PROVE  ScanAnswer(d, lo, hi, "done", got)
  BY <1>2, <1>3, <1>5, <1>9, <1>11 DEF ScanAnswer
<1>12. CASE it.pos = w.curOffset
  <2>1. ~n.ok /\ ~n.err
    BY <1>8, <1>12
  <2>2. rd' = [rd EXCEPT !.at = "done"]
    BY <1>7, <2>1 DEF ScanStep, Ends
  <2>3. InTheWay(d, lo, hi) = {} /\ AsTable(got) = Asked(d, lo, hi)
    BY <1>2, <1>4, <1>5, <1>12, ScanEnds
  <2> QED
    BY <1>10, <1>11, <2>2, <2>3
<1>13. ASSUME NEW r \in file, r.at = it.pos
       PROVE  ReaderInv'
  <2>1. /\ r.key \in Nat /\ r.key \in Keys /\ r.val \in Version
        /\ Behind(r) = w.curOffset \/ \E q \in file : q.at = Behind(r)
    BY <1>2, RecFields
  <2>2. /\ n.ok <=> Readable(r.key, r.val)
        /\ n.ok => /\ n.key = r.key /\ n.val = r.val
                   /\ PastValue(n) \in Iterators /\ PastValue(n).pos = Behind(r)
        /\ ~n.ok => n.err
    BY <1>8, <1>13
  <2>3. CASE ~n.ok
    <3>1. rd' = [rd EXCEPT !.at = "failed"]
      BY <1>7, <2>2, <2>3 DEF ScanStep, Ends
    <3>2. /\ InTheWay(d, lo, hi) # {}
          /\ got = <<>> <=> InTheWay(d, lo, hi) \cap OpenReads(d, lo) # {}
      BY <1>2, <1>4, <1>5, <1>13, <2>2, <2>3, ScanFails
    <3>3. ScanAnswer(d, lo, hi, "failed", got)
      BY <1>9, <3>2 DEF ScanAnswer
    <3> QED
      BY <1>10, <3>1, <3>3
  <2>4. CASE n.ok /\ r.key >= lo /\ Past(r.key, hi)
    <3>1. rd' = [rd EXCEPT !.at = "done"]
      <4>1. n.ok /\ ~(n.key < lo) /\ Past(n.key, hi)
        BY <1>6, <2>1, <2>2, <2>4
      <4> QED
        BY <1>5, <1>7, <4>1 DEF ScanStep, Ends
    <3>2. InTheWay(d, lo, hi) = {} /\ AsTable(got) = Asked(d, lo, hi)
      BY <1>2, <1>4, <1>5, <1>13, <2>2, <2>4, ScanEnds
    <3> QED
      BY <1>10, <1>11, <3>1, <3>2
  <2>5. ASSUME n.ok, it' = PastValue(n), NEW more, rd' = [rd EXCEPT !.got = more],
               \/ r.key < lo /\ more = got
               \/ r.key >= lo /\ ~Past(r.key, hi) /\ more = Append(got, <<r.key, r.val>>)
        PROVE  ReaderInv'
    <3>1. it' \in Iterators /\ it'.pos = Behind(r)
      BY <2>2, <2>5
    <3>2. Stands'
      BY <1>1, <2>1, <3>1 DEF Stands
    <3>3. ScanSoFar(file, lo, hi, s, Behind(r), more)
      BY <1>2, <1>4, <1>5, <1>13, <2>2, <2>5, ScanGoesFurther
    <3>4. Lists(more, {q \in Between(file, s.at, Behind(r)) : q.key >= lo})
      BY <3>3 DEF ScanSoFar
    <3>5. more \in Seq(Keys \X Version) /\ InOrder(more)
      BY <3>4 DEF Lists
    <3>6. /\ rd'.op = "scan" /\ rd'.lo = lo /\ rd'.hi = hi /\ rd'.got = more
          /\ rd'.at = "reading" /\ rd' \in Scanners
      BY <1>3, <1>5, <2>5, <3>5 DEF Scanners
    <3>7. ScanGoesOn'
      BY <1>1, <1>2, <1>3, <1>5, <3>1, <3>2, <3>3, <3>6 DEF ScanGoesOn
    <3>8. ScanIsRight'
      BY <3>5, <3>6 DEF ScanIsRight
    <3>9. GetGoesOn' /\ CompactionGoesOn' /\ GetIsRight' /\ CompactionIsRight'
      BY <3>6 DEF GetGoesOn, CompactionGoesOn, GetIsRight, CompactionIsRight
    <3> QED
      BY <1>1, <3>6, <3>7, <3>8, <3>9 DEF ReaderInv
  <2>6. CASE n.ok /\ r.key < lo
    <3>1. n.ok /\ n.key < lo /\ ~(n.key >= lo)
      BY <1>6, <2>1, <2>2, <2>6
    <3>2. it' = PastValue(n) /\ rd' = rd
      BY <1>5, <1>7, <3>1 DEF ScanStep
    <3>3. rd' = [rd EXCEPT !.got = got]
      BY <1>3, <1>5, <3>2 DEF Scanners
    <3> QED
      BY <2>5, <2>6, <3>2, <3>3
  <2>7. CASE n.ok /\ r.key >= lo /\ ~Past(r.key, hi)
    <3>1. n.ok /\ ~(n.key < lo) /\ ~Past(n.key, hi)
      BY <1>6, <2>1, <2>2, <2>7
    <3>2. it' = PastValue(n) /\ rd' = [rd EXCEPT !.got = Append(@, <<n.key, n.val>>)]
      BY <1>5, <1>7, <3>1 DEF ScanStep
    <3>3. rd' = [rd EXCEPT !.got = Append(got, <<r.key, r.val>>)]
      BY <1>3, <1>5, <2>2, <2>7, <3>2 DEF Scanners
    <3> QED
      BY <2>5, <2>7, <3>2, <3>3
  <2>8. r.key < lo \/ r.key >= lo
    BY <1>6, <2>1
  <2> QED
    BY <2>3, <2>4, <2>6, <2>7, <2>8
<1> QED
  BY <1>3, <1>12, <1>13 DEF Stands

-----------------------------------------------------------------------------
(* The pass of a compaction.                                               *)

CompactAnswer(d, at, got) ==
  /\ InOrder(got)
  /\ at = "done" => CompactionAccepts(d) /\ AsTable(got) = CompactionReads(d)
  /\ at = "failed" => ~CompactionAccepts(d)

LEMMA CompactionEnds ==
  ASSUME NEW f, NEW end, Laid(f, end), f # {}, \A r \in f : Readable(r.key, r.val),
         NEW got, Lists(got, f)
  PROVE  CompactionAccepts(Of(f)) /\ AsTable(got) = CompactionReads(Of(f))
<1>1. \A k \in Records(Of(f)) : Readable(k, Of(f)[k])
  <2> TAKE k \in Records(Of(f))
  <2>1. PICK q \in f : q.key = k
    BY OfIs
  <2> QED
    BY <2>1, OfIs
<1>2. ~HeadUnreadable(Of(f)) /\ CompactionReads(Of(f)) = Of(f)
  BY <1>1 DEF HeadUnreadable, CompactionReads
<1>3. CompactionAccepts(Of(f))
  BY <1>1, <1>2, OfIs DEF CompactionAccepts, AllReadable
<1>4. AsTable(got) = Of(f)
  <2>1. AsTable(got) = [k \in Keys |-> IF \E q \in f : q.key = k THEN Of(f)[k] ELSE Absent]
    BY AsTableIs
  <2>2. \A k \in Keys : (IF \E q \in f : q.key = k THEN Of(f)[k] ELSE Absent) = Of(f)[k]
    BY DEF Of
  <2>3. Of(f) = [k \in Keys |-> Of(f)[k]]
    BY DEF Of
  <2> QED
    BY <2>1, <2>2, <2>3
<1> QED
  BY <1>2, <1>3, <1>4

LEMMA CompactionStops ==
  ASSUME NEW f, NEW end, Laid(f, end), NEW r \in f, ~Readable(r.key, r.val),
         \A q \in Between(f, 0, r.at) : Readable(q.key, q.val),
         NEW got, Lists(got, Between(f, 0, r.at))
  PROVE  /\ got = <<>> => CompactionAccepts(Of(f)) /\ AsTable(got) = CompactionReads(Of(f))
         /\ got # <<>> => ~CompactionAccepts(Of(f))
<1>1. PICK S : S = Between(f, 0, r.at)
  OBVIOUS
<1>2. S \in SUBSET f /\ \A q \in f : q \in S <=> q.at < r.at
  BY <1>1, RecFields DEF Between
<1>3. /\ got = <<>> <=> S = {}
      /\ AsTable(got) = [k \in Keys |-> IF \E q \in S : q.key = k THEN Of(f)[k] ELSE Absent]
  <2>1. Lists(got, S) /\ S \in SUBSET f
    BY <1>1, <1>2
  <2>2. got = <<>> <=> S = {}
    BY <2>1, AsTableIs
  <2>3. AsTable(got) = [k \in Keys |-> IF \E q \in S : q.key = k THEN Of(f)[k] ELSE Absent]
    BY <2>1, AsTableIs
  <2> QED
    BY <2>2, <2>3
<1>4. r.key \in Records(Of(f)) /\ Of(f)[r.key] = r.val
  BY OfIs
<1>5. ASSUME got = <<>>
      PROVE  CompactionAccepts(Of(f)) /\ AsTable(got) = CompactionReads(Of(f))
  <2>1. \A j \in Records(Of(f)) : r.key <= j
    <3> TAKE j \in Records(Of(f))
    <3>1. PICK q \in f : q.key = j
      BY OfIs
    <3>2. ~(q.at < r.at) /\ q.at \in Nat /\ r.at \in Nat
      BY <1>2, <1>3, <1>5, RecFields
    <3>3. r.at <= q.at
      BY <3>2
    <3> QED
      BY <3>1, <3>3, OneOrder
  <2>2. HeadUnreadable(Of(f))
    BY <1>4, <2>1 DEF HeadUnreadable
  <2>3. CompactionReads(Of(f)) = NoRecords
    BY <2>2 DEF CompactionReads
  <2>4. Records(NoRecords) = {}
    BY DEF Records, NoRecords
  <2>5. CompactionAccepts(Of(f))
    BY <1>4, <2>3, <2>4 DEF CompactionAccepts, AllReadable
  <2>6. AsTable(got) = NoRecords
    BY <1>3, <1>5 DEF NoRecords
  <2> QED
    BY <2>3, <2>5, <2>6
<1>6. ASSUME got # <<>> PROVE ~CompactionAccepts(Of(f))
  <2>1. PICK q \in S : TRUE
    BY <1>3, <1>6
  <2>2. ~HeadUnreadable(Of(f))
    <3> SUFFICES ASSUME NEW k \in Records(Of(f)), \A j \in Records(Of(f)) : k <= j,
                        ~Readable(k, Of(f)[k])
                 PROVE  FALSE
      BY DEF HeadUnreadable
    <3>1. PICK p \in f : p.key = k
      BY OfIs
    <3>2. p.key <= q.key
      BY <1>2, <2>1, <3>1, OfIs
    <3>3. p.at <= q.at /\ p.at \in Nat /\ q.at \in Nat /\ r.at \in Nat /\ q.at < r.at
      BY <1>2, <2>1, <3>2, OneOrder, RecFields
    <3>4. p \in S
      BY <1>2, <3>3
    <3> QED
      BY <1>1, <3>1, <3>4, OfIs
  <2>3. CompactionReads(Of(f)) = Of(f)
    BY <2>2 DEF CompactionReads
  <2> QED
    BY <1>4, <2>3 DEF CompactionAccepts, AllReadable
<1> QED
  BY <1>5, <1>6

LEMMA CompactionBegins ==
  ASSUME FileInv, CompactStart
  PROVE  ReaderInv'
<1>1. phase = "closed" /\ phase' = "closed" /\ file' = file /\ w' = w
  BY DEF CompactStart, CanStart, wvars
<1>2. Laid(file, w.curOffset) /\ Notes(w, file) /\ Written = Of(file) /\ Written' = Written
      /\ w.curOffset \in Nat
  <2>1. Written' = Written
    BY <1>1 DEF Written
  <2> QED
    BY <1>1, <2>1, ClosedFile
<1>3. InOrder(<<>>) /\ <<>> \in Seq(Keys \X Version)
  BY ListsNone DEF Lists
<1>4. Opens(0) <=> file # {}
  <2>1. file = {} <=> w.curOffset = 0
    BY <1>2, NoFileNoIndex
  <2> QED
    BY <1>2, <2>1 DEF Opens, MetaStart
<1>5. CASE file = {}
  <2>1. rd' = [op |-> "compact", at |-> "failed", got |-> <<>>]
    BY <1>4, <1>5 DEF CompactStart
  <2>2. rd'.op = "compact" /\ rd'.at = "failed" /\ rd'.got = <<>>
    BY <2>1
  <2>3. ~CompactionAccepts(Written)
    BY <1>2, <1>5, NoFileNoIndex DEF CompactionAccepts
  <2>4. CompactionIsRight'
    BY <1>2, <1>3, <2>2, <2>3 DEF CompactionIsRight
  <2>5. GetGoesOn' /\ ScanGoesOn' /\ CompactionGoesOn' /\ GetIsRight' /\ ScanIsRight'
    BY <2>2 DEF GetGoesOn, ScanGoesOn, CompactionGoesOn, GetIsRight, ScanIsRight
  <2> QED
    BY <1>1, <2>2, <2>4, <2>5 DEF ReaderInv
<1>6. CASE file # {}
  <2>1. it' = IteratorAt(0) /\ rd' = [op |-> "compact", at |-> "reading", got |-> <<>>]
    BY <1>4, <1>6 DEF CompactStart
  <2>2. /\ rd'.op = "compact" /\ rd'.at = "reading" /\ rd'.got = <<>>
        /\ rd' \in [op : {"compact"}, at : {"reading"}, got : Seq(Keys \X Version)]
    BY <1>3, <2>1
  <2>3. it' \in Iterators /\ it'.pos = 0
    BY <2>1 DEF IteratorAt, NoIterator, Iterators, EmptyKey
  <2>4. Stands'
    <3>1. \E r \in file : r.at = 0
      BY <1>2, <1>6 DEF Laid
    <3> QED
      BY <1>1, <2>3, <3>1 DEF Stands
  <2>5. Between(file', 0, it'.pos) = {}
    BY <1>1, <1>2, <2>3, BetweenAll
  <2>6. CompactionGoesOn'
    BY <1>1, <1>6, <2>2, <2>4, <2>5, ListsNone DEF CompactionGoesOn
  <2>7. CompactionIsRight'
    BY <1>3, <2>2 DEF CompactionIsRight
  <2>8. GetGoesOn' /\ ScanGoesOn' /\ GetIsRight' /\ ScanIsRight'
    BY <2>2 DEF GetGoesOn, ScanGoesOn, GetIsRight, ScanIsRight
  <2> QED
    BY <1>1, <2>2, <2>6, <2>7, <2>8 DEF ReaderInv
<1> QED
  BY <1>5, <1>6

LEMMA CompactionSteps ==
  ASSUME FileInv, ReaderInv, CompactStep
  PROVE  ReaderInv'
<1>1. /\ rd.at = "reading" /\ rd.op = "compact" /\ phase = "closed"
      /\ phase' = "closed" /\ file' = file /\ w' = w
  BY DEF CompactStep, Reading, wvars, ReaderInv
<1>2. Laid(file, w.curOffset) /\ Written = Of(file) /\ Written' = Written
      /\ w.curOffset \in Nat
  <2>1. Written' = Written
    BY <1>1 DEF Written
  <2> QED
    BY <1>1, <2>1, ClosedFile
<1>3. /\ Stands
      /\ rd \in [op : {"compact"}, at : {"reading"}, got : Seq(Keys \X Version)]
      /\ file # {}
      /\ \A r \in Between(file, 0, it.pos) : Readable(r.key, r.val)
      /\ Lists(rd.got, Between(file, 0, it.pos))
  BY <1>1 DEF ReaderInv, CompactionGoesOn
<1>4. PICK d, got : d = Of(file) /\ got = rd.got
  OBVIOUS
<1>5. PICK n : n = NextKey(it)
  OBVIOUS
<1>6. /\ it.pos = w.curOffset => ~n.ok /\ ~n.err
      /\ \A r \in file : r.at = it.pos =>
           /\ n.ok <=> Readable(r.key, r.val)
           /\ n.ok => /\ n.key = r.key /\ n.val = r.val
                      /\ PastValue(n) \in Iterators
                      /\ PastValue(n).pos = Behind(r)
           /\ ~n.ok => n.err
  BY <1>2, <1>3, <1>5, NextKeyIs DEF Stands
<1>7. InOrder(got) /\ got \in Seq(Keys \X Version)
  BY <1>3, <1>4 DEF Lists
<1>8. ASSUME NEW at, at # "reading", CompactAnswer(d, at, got), rd' = [rd EXCEPT !.at = at]
      PROVE  ReaderInv'
  <2>1. rd'.op = "compact" /\ rd'.got = got /\ rd'.at = at
    BY <1>3, <1>4, <1>8
  <2>2. CompactionIsRight'
    BY <1>2, <1>4, <1>8, <2>1 DEF CompactionIsRight, CompactAnswer
  <2>3. GetGoesOn' /\ ScanGoesOn' /\ CompactionGoesOn' /\ GetIsRight' /\ ScanIsRight'
    BY <1>8, <2>1 DEF GetGoesOn, ScanGoesOn, CompactionGoesOn, GetIsRight, ScanIsRight
  <2> QED
    BY <1>1, <2>1, <2>2, <2>3 DEF ReaderInv
<1>9. CASE it.pos = w.curOffset
  <2>1. ~n.ok /\ ~n.err
    BY <1>6, <1>9
  <2>2. rd' = [rd EXCEPT !.at = "done"]
    BY <1>5, <2>1 DEF CompactStep, Ends
  <2>3. Between(file, 0, it.pos) = file
    BY <1>2, <1>9, BetweenAll
  <2>4. CompactionAccepts(d) /\ AsTable(got) = CompactionReads(d)
    BY <1>2, <1>3, <1>4, <2>3, CompactionEnds
  <2> QED
    BY <1>7, <1>8, <2>2, <2>4 DEF CompactAnswer
<1>10. ASSUME NEW r \in file, r.at = it.pos
       PROVE  ReaderInv'
  <2>1. /\ r.at \in Nat /\ 0 <= r.at /\ r.key \in Keys /\ r.val \in Version
        /\ Behind(r) = w.curOffset \/ \E q \in file : q.at = Behind(r)
    BY <1>2, RecFields
  <2>2. /\ n.ok <=> Readable(r.key, r.val)
        /\ n.ok => /\ n.key = r.key /\ n.val = r.val
                   /\ PastValue(n) \in Iterators /\ PastValue(n).pos = Behind(r)
        /\ ~n.ok => n.err
    BY <1>6, <1>10
  <2>3. CASE ~n.ok
    <3>1. /\ got = <<>> => CompactionAccepts(d) /\ AsTable(got) = CompactionReads(d)
          /\ got # <<>> => ~CompactionAccepts(d)
      BY <1>2, <1>3, <1>4, <1>10, <2>2, <2>3, CompactionStops
    <3>2. rd' = [rd EXCEPT !.at = IF got # <<>> THEN "failed" ELSE "done"]
      BY <1>4, <1>5, <2>2, <2>3 DEF CompactStep, Ends
    <3>3. CASE got = <<>>
      <4>1. rd' = [rd EXCEPT !.at = "done"]
        BY <3>2, <3>3
      <4> QED
        BY <1>7, <1>8, <3>1, <3>3, <4>1 DEF CompactAnswer
    <3>4. CASE got # <<>>
      <4>1. rd' = [rd EXCEPT !.at = "failed"]
        BY <3>2, <3>4
      <4> QED
        BY <1>7, <1>8, <3>1, <3>4, <4>1 DEF CompactAnswer
    <3> QED
      BY <3>3, <3>4
  <2>4. CASE n.ok
    <3>1. PICK more : more = Append(got, <<r.key, r.val>>)
      OBVIOUS
    <3>2. it' = PastValue(n) /\ rd' = [rd EXCEPT !.got = more]
      <4>1. it' = PastValue(n) /\ rd' = [rd EXCEPT !.got = Append(@, <<n.key, n.val>>)]
        BY <1>5, <2>4 DEF CompactStep
      <4> QED
        BY <1>3, <1>4, <2>2, <2>4, <3>1, <4>1
    <3>3. it' \in Iterators /\ it'.pos = Behind(r)
      BY <2>2, <2>4, <3>2
    <3>4. Stands'
      BY <1>1, <2>1, <3>3 DEF Stands
    <3>5. PICK B, T : B = Between(file, 0, it.pos) /\ T = Between(file, 0, Behind(r))
      OBVIOUS
    <3>6. T = B \cup {r} /\ \A q \in B : q.key < r.key
      BY <1>2, <1>10, <2>1, <3>5, BetweenNext
    <3>7. Lists(more, T)
      <4>1. Lists(got, B)
        BY <1>3, <1>4, <3>5
      <4> QED
        BY <2>1, <3>1, <3>6, <4>1, ListsNext
    <3>8. \A q \in T : Readable(q.key, q.val)
      BY <1>3, <2>2, <2>4, <3>5, <3>6
    <3>9. InOrder(more) /\ more \in Seq(Keys \X Version)
      BY <3>7 DEF Lists
    <3>10. /\ rd'.op = "compact" /\ rd'.at = "reading" /\ rd'.got = more
           /\ rd' \in [op : {"compact"}, at : {"reading"}, got : Seq(Keys \X Version)]
      BY <1>3, <3>2, <3>9
    <3>11. CompactionGoesOn'
      BY <1>1, <1>3, <3>3, <3>4, <3>5, <3>7, <3>8, <3>10 DEF CompactionGoesOn
    <3>12. CompactionIsRight'
      BY <3>9, <3>10 DEF CompactionIsRight
    <3>13. GetGoesOn' /\ ScanGoesOn' /\ GetIsRight' /\ ScanIsRight'
      BY <3>10 DEF GetGoesOn, ScanGoesOn, GetIsRight, ScanIsRight
    <3> QED
      BY <1>1, <3>10, <3>11, <3>12, <3>13 DEF ReaderInv
  <2> QED
    BY <2>3, <2>4
<1> QED
  BY <1>3, <1>9, <1>10 DEF Stands

-----------------------------------------------------------------------------
(* The invariant.                                                          *)

LEMMA ReaderGoesOn ==
  ASSUME SSInv, [Next]_ssvars
  PROVE  ReaderInv'
<1>0. FileInv /\ ReaderInv
  BY DEF SSInv
<1>1. ASSUME rd.at = "idle", rd' = rd PROVE ReaderInv'
  BY <1>1 DEF ReaderInv, GetGoesOn, ScanGoesOn, CompactionGoesOn,
              GetIsRight, ScanIsRight, CompactionIsRight
<1>2. phase = "writing" => rd.at = "idle"
  BY <1>0 DEF ReaderInv
<1>3. ASSUME NEW k \in Keys, NEW v, AppendBytes(k, v) \/ AppendFails(k) PROVE ReaderInv'
  BY <1>1, <1>2, <1>3 DEF AppendBytes, AppendFails
<1>4. CASE Close \/ CloseFails
  BY <1>1, <1>2, <1>4 DEF Close, CloseFails
<1>5. ASSUME NEW k \in Keys, GetByBloom(k) \/ GetStart(k) PROVE ReaderInv'
  BY <1>0, <1>5, GetBegins
<1>6. ASSUME NEW lo \in Keys \cup {EmptyKey}, NEW hi \in (Keys \ {EmptyKey}) \cup {NoEnd},
             ScanSkips(lo, hi) \/ ScanPanics(lo, hi) \/ ScanOpens(lo, hi)
      PROVE  ReaderInv'
  BY <1>0, <1>6, ScanBegins
<1>7. CASE CompactStart
  BY <1>0, <1>7, CompactionBegins
<1>8. CASE GetStep
  BY <1>0, <1>8, GetSteps
<1>9. CASE ScanStep
  BY <1>0, <1>9, ScanSteps
<1>10. CASE CompactStep
  BY <1>0, <1>10, CompactionSteps
<1>11. CASE Return
  <2>1. rd'.at = "idle"
    BY <1>11 DEF Return
  <2> QED
    BY <2>1 DEF ReaderInv, GetGoesOn, ScanGoesOn, CompactionGoesOn,
                GetIsRight, ScanIsRight, CompactionIsRight
<1>12. CASE UNCHANGED ssvars
  <2>1. phase' = phase /\ file' = file /\ w' = w /\ it' = it /\ rd' = rd
    BY <1>12 DEF ssvars
  <2>2. Written' = Written
    BY <2>1 DEF Written
  <2>3. GetGoesOn' = GetGoesOn /\ ScanGoesOn' = ScanGoesOn /\ CompactionGoesOn' = CompactionGoesOn
    BY <2>1, <2>2 DEF GetGoesOn, ScanGoesOn, CompactionGoesOn, Stands, Over
  <2>4. GetIsRight' = GetIsRight /\ ScanIsRight' = ScanIsRight
        /\ CompactionIsRight' = CompactionIsRight
    BY <2>1, <2>2 DEF GetIsRight, ScanIsRight, CompactionIsRight
  <2> QED
    BY <1>0, <2>1, <2>3, <2>4 DEF ReaderInv
<1> QED
  BY <1>3, <1>4, <1>5, <1>6, <1>7, <1>8, <1>9, <1>10, <1>11, <1>12 DEF Next

(* The file is laid down and noted as SSInv says, and every reader has got *)
(* what the records it has gone over amount to.                            *)
LEMMA SSInvHolds == Spec => []SSInv
<1>1. Init => SSInv
  <2> SUFFICES ASSUME Init PROVE SSInv
    OBVIOUS
  <2>1. FileInv
    BY FileStarts
  <2>2. rd.at = "idle"
    BY DEF Init
  <2> QED
    BY <2>1, <2>2 DEF SSInv, ReaderInv, GetGoesOn, ScanGoesOn, CompactionGoesOn,
                      GetIsRight, ScanIsRight, CompactionIsRight
<1>2. SSInv /\ [Next]_ssvars => SSInv'
  BY FileGoesOn, ReaderGoesOn DEF SSInv
<1> QED
  BY <1>1, <1>2, PTL DEF Spec

(* The fields of a closed table (Writer.Close, sstable.Open) bound its     *)
(* records and hold the offset of the first record of every block and of   *)
(* no other, whatever is appended in ascending order.                      *)
THEOREM IndexDescribesFile == Spec => []IndexIsRight
<1>1. SSInv => IndexIsRight
  <2> SUFFICES ASSUME SSInv, phase = "closed"
               PROVE  /\ w.minKey = MinKey(Written) /\ w.maxKey = MaxKey(Written)
                      /\ {e.key : e \in ToSet(w.index)} = Indexed(Written)
                      /\ \A e \in ToSet(w.index) : \E r \in file : /\ r.at = e.offset
                                                                   /\ r.key = e.key
    BY DEF IndexIsRight
  <2>1. Notes(w, file) /\ Written = Of(file)
    BY ClosedFile DEF SSInv
  <2>2. /\ \A i \in 1..Len(w.index) : /\ w.index[i].key \in Indexed(Written)
                                      /\ \E r \in file : /\ r.at = w.index[i].offset
                                                         /\ r.key = w.index[i].key
        /\ \A k \in Indexed(Written) : \E i \in 1..Len(w.index) : w.index[i].key = k
        /\ w.minKey = MinKey(Written) /\ w.maxKey = MaxKey(Written)
        /\ w.index \in Seq([key : Keys, offset : Nat])
    BY <2>1 DEF Notes, Noters
  <2>3. ToSet(w.index) = {w.index[i] : i \in 1..Len(w.index)}
    BY <2>2 DEF ToSet
  <2>4. {e.key : e \in ToSet(w.index)} = Indexed(Written)
    BY <2>2, <2>3
  <2>5. \A e \in ToSet(w.index) : \E r \in file : r.at = e.offset /\ r.key = e.key
    BY <2>2, <2>3
  <2> QED
    BY <2>2, <2>4, <2>5
<1> QED
  BY <1>1, SSInvHolds, PTL

(* SSTable.Get answers the record of the key, or as if it had none when a  *)
(* record of its block at or before it cannot be read.                     *)
THEOREM GetsAreRight == Spec => []GetIsRight
<1>1. SSInv => GetIsRight
  BY DEF SSInv, ReaderInv
<1> QED
  BY <1>1, SSInvHolds, PTL

(* What RangeScan takes from one table is every record in its range, in    *)
(* order; it fails only on a record it has to read, and panics only on a   *)
(* table without any.                                                      *)
THEOREM ScansAreRight == Spec => []ScanIsRight
<1>1. SSInv => ScanIsRight
  BY DEF SSInv, ReaderInv
<1> QED
  BY <1>1, SSInvHolds, PTL

(* The pass of a compaction over a table yields what Tables says of it, or *)
(* fails where Tables says.                                                *)
THEOREM CompactionsAreRight == Spec => []CompactionIsRight
<1>1. SSInv => CompactionIsRight
  BY DEF SSInv, ReaderInv
<1> QED
  BY <1>1, SSInvHolds, PTL
=============================================================================
