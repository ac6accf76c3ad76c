----------------------------- MODULE LsmProofs -----------------------------
(***************************************************************************)
(* Theorems of LsmHistory, for every value of the constants.               *)
(***************************************************************************)
EXTENDS LsmHistory, SequencesExt, TableProofs

Level  == Seq(Table)
Levels == Seq(Level)

-----------------------------------------------------------------------------
(* Lemmas on the operators.                                                *)

(* What Prepend does to a stack of levels: the table becomes the first of  *)
(* its level, the others of that level move one place down.                *)
LEMMA PrependAppends ==
  ASSUME NEW ls \in Levels, NEW t \in Table
  PROVE  LET new == Prepend(ls, Len(ls) + 1, t)
         IN  /\ new \in Levels
             /\ Len(new) = Len(ls) + 1
             /\ \A a \in 1..Len(ls) : new[a] = ls[a]
             /\ new[Len(ls) + 1] = <<t>>
<1>1. Prepend(ls, Len(ls) + 1, t) = Append(ls, <<t>>)
  <2>1. Len(ls) \in Nat
    BY DEF Levels
  <2> QED
    BY <2>1 DEF Prepend
<1>2. <<t>> \in Level
  BY DEF Level
<1> QED
  BY <1>1, <1>2, AppendProperties DEF Levels

LEMMA PrependShifts ==
  ASSUME NEW ls \in Levels, NEW i \in 1..Len(ls), NEW t \in Table
  PROVE  LET new == Prepend(ls, i, t)
         IN  /\ new \in Levels
             /\ Len(new) = Len(ls)
             /\ \A a \in 1..Len(ls) : a # i => new[a] = ls[a]
             /\ Len(new[i]) = Len(ls[i]) + 1
             /\ new[i][1] = t
             /\ \A j \in 1..Len(ls[i]) : new[i][j + 1] = ls[i][j]
<1>1. ls[i] \in Level /\ <<t>> \in Level /\ Len(ls) \in Nat
  BY DEF Levels, Level
<1>2. Prepend(ls, i, t) = [ls EXCEPT ![i] = <<t>> \o ls[i]]
  BY <1>1 DEF Prepend
<1>3. /\ <<t>> \o ls[i] \in Level
      /\ Len(<<t>> \o ls[i]) = Len(ls[i]) + 1
      /\ (<<t>> \o ls[i])[1] = t
      /\ \A j \in 1..Len(ls[i]) : (<<t>> \o ls[i])[j + 1] = ls[i][j]
  BY <1>1, ConcatProperties DEF Level
<1>4. /\ [ls EXCEPT ![i] = <<t>> \o ls[i]] \in Levels
      /\ Len([ls EXCEPT ![i] = <<t>> \o ls[i]]) = Len(ls)
      /\ \A a \in 1..Len(ls) : [ls EXCEPT ![i] = <<t>> \o ls[i]][a]
                                 = IF a = i THEN <<t>> \o ls[i] ELSE ls[a]
  BY <1>3, ExceptSeq DEF Levels
<1> QED
  BY <1>2, <1>3, <1>4

-----------------------------------------------------------------------------
(* Type correctness.                                                       *)

(* What a compaction reads of a table is an entry for every key.           *)
LEMMA ReadingType ==
  ASSUME NEW lv \in Level, NEW j \in DOMAIN lv, NEW k \in Keys
  PROVE  Reading(lv, j, k) \in Entry
<1>1. lv[j] \in Table
  BY DEF Level
<1>2. lv[j].data \in [Keys -> Entry]
  BY <1>1 DEF Table
<1> QED
  BY <1>2 DEF Reading, CompactionReads, NoRecords, Entry

(* The tables that hold a key: their numbers are naturals, so that there   *)
(* is a newest one among them.                                             *)
LEMMA HoldersAreNats ==
  ASSUME NEW lv \in Level, NEW k \in Keys
  PROVE  Holders(lv, k) \subseteq DOMAIN lv /\ Holders(lv, k) \in SUBSET Nat
BY DEF Holders, Level

(* The merge of a level makes a table.                                     *)
LEMMA MergedType ==
  ASSUME NEW lv \in Level
  PROVE  Merged(lv) \in [Keys -> Entry]
<1> SUFFICES ASSUME NEW k \in Keys
             PROVE  MergedEntry(lv, k) \in Entry
  BY DEF Merged
<1> DEFINE hits   == Holders(lv, k)
           newest == Reading(lv, Min(hits), k)
           older  == {j \in hits \ {Min(hits)} : Reading(lv, j, k) # Tomb}
           pieces == UNION {Reading(lv, j, k) : j \in older}
<1>1. CASE hits = {} \/ newest = Tomb
  BY <1>1 DEF MergedEntry, Entry
<1>2. CASE hits # {} /\ newest # Tomb
  <2>1. Min(hits) \in hits /\ hits \subseteq DOMAIN lv
    BY <1>2, HoldersAreNats, MinOfNats
  <2>2. newest \in Value
    BY <1>2, <2>1, ReadingType DEF Holders, Entry
  <2>3. \A j \in older : Reading(lv, j, k) \in SUBSET Data
    BY <2>1, ReadingType DEF Holders, Entry, Value
  <2>4. pieces \in SUBSET Data
    BY <2>3
  <2>5. Merge(newest, pieces) \in Value
    BY <2>2, <2>4 DEF Merge, Value
  <2> QED
    BY <1>2, <2>2, <2>5 DEF MergedEntry, Entry
<1> QED
  BY <1>1, <1>2

(* A Put or Delete leaves a memtable.                                      *)
LEMMA MemPutType ==
  ASSUME NEW m \in [Keys -> Entry], NEW k \in Keys, NEW v \in Value \cup {Tomb}
  PROVE  MemPut(m, k, v) \in [Keys -> Entry]
<1>1. m[k] \notin {Absent, Tomb} /\ v # Tomb => Merge(v, m[k]) \in Value
  BY DEF Merge, Value, Entry
<1> QED
  BY <1>1 DEF MemPut, Entry

LEMMA TreeKeepsType ==
  ASSUME TypeOK,
         \/ \E k \in Keys, v \in Value : Put(k, v)
         \/ \E k \in Keys : Delete(k)
         \/ Maintenance
  PROVE  TypeOK'
<1> USE DEF TypeOK
<1>0. levels \in Levels
  BY DEF Levels, Level
<1>1. CASE (\E k \in Keys, v \in Value : Put(k, v)) \/ (\E k \in Keys : Delete(k))
  <2>1. PICK k \in Keys, v \in Value \cup {Tomb} : Write(k, v)
    BY <1>1 DEF Put, Delete
  <2>2. memTable' \in [Keys -> Entry]
    BY <2>1, MemPutType DEF Write
  <2> QED
    BY <2>1, <2>2 DEF Write
<1>2. CASE Flush
  <2> DEFINE t == [file |-> nextFile, data |-> memTable]
  <2>1. t \in Table
    BY DEF Table
  <2>2. Len(levels) \in Nat
    BY <1>0 DEF Levels
  <2>3. Prepend(levels, 1, t) \in Levels
    <3>1. CASE Len(levels) = 0
      BY <1>0, <2>1, <3>1, PrependAppends
    <3>2. CASE Len(levels) # 0
      <4>1. 1 \in 1..Len(levels)
        BY <2>2, <3>2
      <4> QED
        BY <1>0, <2>1, <4>1, PrependShifts
    <3> QED
      BY <3>1, <3>2
  <2>4. memTable' \in [Keys -> Entry]
    BY <1>2 DEF Flush, NoRecords, Entry
  <2> QED
    BY <1>2, <2>3, <2>4 DEF Flush, Levels, Level
<1>3. CASE Compact
  <2> DEFINE t == [file |-> nextFile, data |-> Merged(levels[level])]
             ls == [levels EXCEPT ![level] = <<>>]
  <2>1. level \in 1..Len(levels) /\ Len(levels) \in Nat
    BY <1>0, <1>3 DEF Compact, IsFull, Levels
  <2>2. levels[level] \in Level /\ <<>> \in Level
    BY <1>0, <2>1 DEF Levels, Level
  <2>3. t \in Table
    BY <2>2, MergedType DEF Table
  <2>4. ls \in Levels /\ Len(ls) = Len(levels)
    BY <1>0, <2>1, <2>2, ExceptSeq DEF Levels
  <2>5. Prepend(ls, level + 1, t) \in Levels
    <3>1. CASE level = Len(levels)
      BY <2>3, <2>4, <3>1, PrependAppends
    <3>2. CASE level # Len(levels)
      <4>1. level + 1 \in 1..Len(levels)
        BY <2>1, <3>2
      <4>2. level + 1 \in 1..Len(ls)
        BY <2>4, <4>1, Zenon
      <4> QED
        BY <2>3, <2>4, <4>2, PrependShifts
    <3> QED
      BY <3>1, <3>2
  <2> QED
    BY <1>3, <2>5 DEF Compact, Levels, Level
<1>4. CASE FlushFails \/ CompactFails \/ CompactDone
  BY <1>4 DEF FlushFails, CompactFails, CompactDone
<1> QED
  BY <1>1, <1>2, <1>3, <1>4 DEF Maintenance

(* Every reachable state is well typed: the memtable and every table are   *)
(* functions from keys to entries, and promised is a store of the client.  *)
THEOREM TypeCorrect == Spec => []HTypeOK
<1>1. HInit => HTypeOK
  <2> SUFFICES ASSUME HInit
               PROVE  HTypeOK
    OBVIOUS
  <2>1. memTable \in [Keys -> Entry] /\ promised \in [Keys -> {Absent} \cup Value]
    BY DEF HInit, Init, NoRecords, Entry, Client!Init
  <2>2. levels \in Levels
    BY DEF HInit, Init, Levels
  <2> QED
    BY <2>1, <2>2 DEF HTypeOK, TypeOK, HInit, Init, Levels, Level
<1>2. HTypeOK /\ [HNext]_hvars => HTypeOK'
  <2> SUFFICES ASSUME HTypeOK, [HNext]_hvars
               PROVE  HTypeOK'
    OBVIOUS
  <2>1. ASSUME NEW k \in Keys, NEW v \in Value, HPut(k, v)
        PROVE  HTypeOK'
    <3>1. promised' \in [Keys -> {Absent} \cup Value]
      BY <2>1 DEF HPut, Client!Put, HTypeOK, Value
    <3> QED
      BY <2>1, <3>1, TreeKeepsType DEF HPut, HTypeOK
  <2>2. ASSUME NEW k \in Keys, HDelete(k)
        PROVE  HTypeOK'
    <3>1. promised' \in [Keys -> {Absent} \cup Value]
      BY <2>2 DEF HDelete, Client!Delete, HTypeOK
    <3> QED
      BY <2>2, <3>1, TreeKeepsType DEF HDelete, HTypeOK
  <2>3. CASE HMaintenance
    BY <2>3, TreeKeepsType DEF HMaintenance, HTypeOK
  <2>4. CASE HGet \/ UNCHANGED hvars
    BY <2>4 DEF HGet, hvars, HTypeOK, TypeOK
  <2> QED
    BY <2>1, <2>2, <2>3, <2>4 DEF HNext
<1> QED
  BY <1>1, <1>2, PTL DEF Spec

-----------------------------------------------------------------------------
(* Where a flush or a compaction carries what each place of the tree       *)
(* holds.  A flush treats the memtable as level 0: the place <<0, 0>> is   *)
(* emptied into the new first place of level 1.                            *)

Places(ls) == UNION {{<<i, j>> : j \in DOMAIN ls[i]} : i \in DOMAIN ls}

(* The levels with level l emptied.                                        *)
Emptied(ls, l) == IF l = 0 THEN ls ELSE [ls EXCEPT ![l] = <<>>]

(* Where the table at place p is once level l has been merged below.       *)
Down(p, l) == IF p[1] = l + 1 THEN <<p[1], p[2] + 1>> ELSE p

LEMMA PlacesAre ==
  ASSUME NEW ls \in Levels
  PROVE  \A p : p \in Places(ls) <=>
                  \E i \in 1..Len(ls) : \E j \in 1..Len(ls[i]) : p = <<i, j>>
<1>1. DOMAIN ls = 1..Len(ls)
  BY DEF Levels
<1>2. \A i \in 1..Len(ls) : DOMAIN ls[i] = 1..Len(ls[i])
  BY DEF Levels, Level
<1> QED
  BY <1>1, <1>2 DEF Places

(* The levels once level l has been emptied and t put first in the next.   *)
LenBelow(ls, l) == IF l = Len(ls) THEN 0 ELSE Len(ls[l + 1])

Shifted(ls, l, t, new) ==
  /\ new \in Levels
  /\ Len(new) = IF l = Len(ls) THEN Len(ls) + 1 ELSE Len(ls)
  /\ \A a \in 1..Len(ls) : a # l /\ a # l + 1 => new[a] = ls[a]
  /\ l # 0 => new[l] = <<>>
  /\ Len(new[l + 1]) = LenBelow(ls, l) + 1
  /\ new[l + 1][1] = t
  /\ \A j \in 1..LenBelow(ls, l) : new[l + 1][j + 1] = ls[l + 1][j]

LEMMA LevelsAfter ==
  ASSUME NEW ls \in Levels, NEW l \in 0..Len(ls), NEW t \in Table
  PROVE  Shifted(ls, l, t, Prepend(Emptied(ls, l), l + 1, t))
<1> DEFINE base == Emptied(ls, l)
           new  == Prepend(base, l + 1, t)
           old  == IF l = Len(ls) THEN 0 ELSE Len(ls[l + 1])
<1>1. Len(ls) \in Nat /\ l \in Nat
  BY DEF Levels
<1>2. /\ base \in Levels
      /\ Len(base) = Len(ls)
      /\ \A a \in 1..Len(ls) : a # l => base[a] = ls[a]
      /\ l # 0 => base[l] = <<>>
  <2>1. CASE l = 0
    BY <1>1, <2>1 DEF Emptied
  <2>2. CASE l # 0
    <3>1. l \in 1..Len(ls) /\ <<>> \in Level
      BY <1>1, <2>2 DEF Level
    <3> QED
      BY <2>2, <3>1, ExceptSeq DEF Emptied, Levels
  <2> QED
    BY <2>1, <2>2
<1> HIDE DEF base
<1>3. /\ new \in Levels
      /\ Len(new) = IF l = Len(ls) THEN Len(ls) + 1 ELSE Len(ls)
      /\ \A a \in 1..Len(ls) : a # l /\ a # l + 1 => new[a] = ls[a]
      /\ l # 0 => new[l] = <<>>
      /\ Len(new[l + 1]) = old + 1
      /\ new[l + 1][1] = t
      /\ \A j \in 1..old : new[l + 1][j + 1] = ls[l + 1][j]
  <2>1. CASE l = Len(ls)
    <3>1. new = Prepend(base, Len(base) + 1, t)
      BY <1>2, <2>1
    <3>2. /\ Prepend(base, Len(base) + 1, t) \in Levels
          /\ Len(Prepend(base, Len(base) + 1, t)) = Len(base) + 1
          /\ \A a \in 1..Len(base) : Prepend(base, Len(base) + 1, t)[a] = base[a]
          /\ Prepend(base, Len(base) + 1, t)[Len(base) + 1] = <<t>>
      BY <1>2, PrependAppends
    <3>3. /\ new \in Levels
          /\ Len(new) = Len(base) + 1
          /\ \A a \in 1..Len(base) : new[a] = base[a]
          /\ new[Len(base) + 1] = <<t>>
      BY <3>1, <3>2
    <3> HIDE DEF new
    <3> QED
      BY <1>1, <1>2, <2>1, <3>3
  <2>2. CASE l # Len(ls)
    <3>1. l + 1 \in 1..Len(ls)
      BY <1>1, <2>2
    <3>2. l + 1 \in 1..Len(base) /\ base[l + 1] = ls[l + 1]
      BY <1>1, <1>2, <3>1
    <3>3. /\ new \in Levels
          /\ Len(new) = Len(base)
          /\ \A a \in 1..Len(base) : a # l + 1 => new[a] = base[a]
          /\ Len(new[l + 1]) = Len(base[l + 1]) + 1
          /\ new[l + 1][1] = t
          /\ \A j \in 1..Len(base[l + 1]) : new[l + 1][j + 1] = base[l + 1][j]
      BY <1>2, <3>2, PrependShifts
    <3> HIDE DEF new
    <3> QED
      BY <1>1, <1>2, <2>2, <3>2, <3>3
  <2> QED
    BY <2>1, <2>2
<1> QED
  BY <1>3 DEF base, Shifted, LenBelow

LEMMA LevelsShift ==
  ASSUME NEW ls \in Levels, NEW l \in 0..Len(ls), NEW t \in Table
  PROVE  LET new == Prepend(Emptied(ls, l), l + 1, t)
         IN  /\ <<l + 1, 1>> \in Places(new) /\ new[l + 1][1] = t
             /\ \A p \in Places(ls) : p[1] # l =>
                  /\ Down(p, l) \in Places(new)
                  /\ new[Down(p, l)[1]][Down(p, l)[2]] = ls[p[1]][p[2]]
             /\ \A q \in Places(new) :
                  \/ q = <<l + 1, 1>>
                  \/ \E p \in Places(ls) : p[1] # l /\ q = Down(p, l)
<1> DEFINE new == Prepend(Emptied(ls, l), l + 1, t)
           old == IF l = Len(ls) THEN 0 ELSE Len(ls[l + 1])
<1>1. Len(ls) \in Nat /\ l \in Nat
  BY DEF Levels
<1>3. /\ new \in Levels
      /\ Len(new) = IF l = Len(ls) THEN Len(ls) + 1 ELSE Len(ls)
      /\ \A a \in 1..Len(ls) : a # l /\ a # l + 1 => new[a] = ls[a]
      /\ l # 0 => new[l] = <<>>
      /\ Len(new[l + 1]) = old + 1
      /\ new[l + 1][1] = t
      /\ \A j \in 1..old : new[l + 1][j + 1] = ls[l + 1][j]
  BY LevelsAfter DEF Shifted, LenBelow
<1> HIDE DEF new
<1>4. l + 1 \in 1..Len(new) /\ 1 \in 1..Len(new[l + 1]) /\ old \in Nat
  <2>1. l # Len(ls) => Len(ls[l + 1]) \in Nat
    BY <1>1 DEF Levels, Level
  <2> QED
    BY <1>1, <1>3, <2>1
<1>5. <<l + 1, 1>> \in Places(new)
  BY <1>3, <1>4, PlacesAre
<1>6. ASSUME NEW p \in Places(ls), p[1] # l
      PROVE  /\ Down(p, l) \in Places(new)
             /\ new[Down(p, l)[1]][Down(p, l)[2]] = ls[p[1]][p[2]]
  <2>1. PICK i \in 1..Len(ls) : \E j \in 1..Len(ls[i]) : p = <<i, j>>
    BY PlacesAre
  <2>2. PICK j \in 1..Len(ls[i]) : p = <<i, j>>
    BY <2>1
  <2>3. CASE i = l + 1
    <3>1. Down(p, l) = <<l + 1, j + 1>> /\ old = Len(ls[i]) /\ Len(ls[i]) \in Nat
      BY <1>1, <2>2, <2>3, <1>4 DEF Down
    <3>2. j + 1 \in 1..Len(new[l + 1]) /\ new[l + 1][j + 1] = ls[i][j]
      BY <1>3, <3>1, <2>3
    <3> QED
      BY <1>3, <1>4, <2>2, <3>1, <3>2, PlacesAre
  <2>4. CASE i # l + 1
    <3>1. Down(p, l) = p /\ new[i] = ls[i] /\ i \in 1..Len(new)
      BY <1>1, <1>3, <1>6, <2>2, <2>4 DEF Down
    <3> QED
      BY <1>3, <2>2, <3>1, PlacesAre
  <2> QED
    BY <2>3, <2>4
<1>7. ASSUME NEW q \in Places(new)
      PROVE  \/ q = <<l + 1, 1>>
             \/ \E p \in Places(ls) : p[1] # l /\ q = Down(p, l)
  <2>1. PICK i \in 1..Len(new) : \E j \in 1..Len(new[i]) : q = <<i, j>>
    BY <1>3, PlacesAre
  <2>2. PICK j \in 1..Len(new[i]) : q = <<i, j>>
    BY <2>1
  <2>3. CASE i = l + 1
    <3>1. j \in 1..(old + 1)
      BY <1>3, <2>3
    <3>2. CASE j = 1
      BY <2>2, <2>3, <3>2
    <3>3. CASE j # 1
      <4>1. j - 1 \in 1..old /\ (j - 1) + 1 = j /\ l # Len(ls)
        BY <1>4, <3>1, <3>3
      <4>2. l + 1 \in 1..Len(ls) /\ j - 1 \in 1..Len(ls[l + 1])
        BY <1>1, <4>1
      <4>3. <<l + 1, j - 1>> \in Places(ls)
        BY <4>2, PlacesAre
      <4>4. Down(<<l + 1, j - 1>>, l) = q /\ l + 1 # l
        BY <1>1, <2>2, <2>3, <4>1 DEF Down
      <4> QED
        BY <4>3, <4>4
    <3> QED
      BY <3>2, <3>3
  <2>4. CASE i # l + 1
    <3>1. i # l
      <4> SUFFICES ASSUME i = l
                   PROVE  FALSE
        OBVIOUS
      <4>1. l # 0 /\ new[i] = <<>>
        BY <1>1, <1>3
      <4> QED
        BY <4>1
    <3>2. i \in 1..Len(ls) /\ new[i] = ls[i]
      BY <1>1, <1>3, <2>4, <3>1
    <3>3. q \in Places(ls) /\ Down(q, l) = q
      BY <2>2, <2>4, <3>2, PlacesAre DEF Down
    <3> QED
      BY <2>2, <3>1, <3>3
  <2> QED
    BY <2>3, <2>4
<1> QED
  BY <1>3, <1>5, <1>6, <1>7, Zenon DEF new

-----------------------------------------------------------------------------
(* The list of the tables of all levels.                                   *)

(* The function FlattenSeq is defined by exists.                           *)
Flattens(f, ls, n) ==
  f = [i \in 1..n |-> IF i = 1 THEN ls[i] ELSE f[i - 1] \o ls[i]]

LEMMA FlattenExists ==
  ASSUME NEW ls
  PROVE  \A n \in Nat : \E f : Flattens(f, ls, n)
<1> DEFINE Bad == {n \in Nat : ~ \E f : Flattens(f, ls, n)}
<1> SUFFICES ASSUME Bad # {} PROVE FALSE
  OBVIOUS
<1> DEFINE n == Min(Bad)
<1>1. n \in Bad /\ n \in Nat /\ \A m \in Bad : n <= m
  BY MinOfNats
<1> HIDE DEF n
<1>2. n # 0
  <2>1. Flattens([i \in 1..0 |-> 0], ls, 0)
    BY DEF Flattens
  <2> QED
    BY <1>1, <2>1
<1>3. n - 1 \in Nat /\ n - 1 \notin Bad
  BY <1>1, <1>2
<1>4. PICK f : Flattens(f, ls, n - 1)
  BY <1>3
<1>5. /\ DOMAIN f = 1..(n - 1)
      /\ \A i \in 1..(n - 1) : f[i] = IF i = 1 THEN ls[i] ELSE f[i - 1] \o ls[i]
  <2>1. DOMAIN [i \in 1..(n - 1) |-> IF i = 1 THEN ls[i] ELSE f[i - 1] \o ls[i]] = 1..(n - 1)
    OBVIOUS
  <2>2. \A i \in 1..(n - 1) :
          [j \in 1..(n - 1) |-> IF j = 1 THEN ls[j] ELSE f[j - 1] \o ls[j]][i]
            = IF i = 1 THEN ls[i] ELSE f[i - 1] \o ls[i]
    OBVIOUS
  <2> QED
    BY <1>4, <2>1, <2>2, Zenon DEF Flattens
<1> DEFINE last == IF n = 1 THEN ls[n] ELSE f[n - 1] \o ls[n]
           g == [i \in 1..n |-> IF i = n THEN last ELSE f[i]]
<1>6. \A i \in 1..n : g[i] = IF i = 1 THEN ls[i] ELSE g[i - 1] \o ls[i]
  <2> SUFFICES ASSUME NEW i \in 1..n
               PROVE  g[i] = IF i = 1 THEN ls[i] ELSE g[i - 1] \o ls[i]
    OBVIOUS
  <2>0. i \in Nat /\ i >= 1 /\ i <= n
    BY <1>1
  <2>1. CASE i = n
    <3>1. n # 1 => n - 1 \in 1..n /\ n - 1 # n
      BY <1>1, <1>2
    <3>2. n # 1 => g[n - 1] = f[n - 1]
      BY <3>1
    <3> QED
      BY <2>1, <3>2
  <2>2. CASE i # n
    <3>1. i \in 1..(n - 1) /\ (i # 1 => i - 1 \in 1..n /\ i - 1 # n)
      BY <1>1, <2>0, <2>2
    <3>2. g[i] = f[i] /\ (i # 1 => g[i - 1] = f[i - 1])
      BY <2>2, <3>1
    <3> QED
      BY <1>5, <3>1, <3>2
  <2> QED
    BY <2>1, <2>2
<1>7. g = [i \in 1..n |-> g[i]]
  OBVIOUS
<1>8. g = [i \in 1..n |-> IF i = 1 THEN ls[i] ELSE g[i - 1] \o ls[i]]
  <2> HIDE DEF g
  <2> QED
    BY <1>6, <1>7, Zenon
<1>9. Flattens(g, ls, n)
  <2> HIDE DEF g
  <2> QED
    BY <1>8 DEF Flattens
<1> QED
  BY <1>1, <1>9

LEMMA FlattenIs ==
  ASSUME NEW ls, Len(ls) \in Nat, Len(ls) # 0
  PROVE  \E f : /\ FlattenSeq(ls) = f[Len(ls)]
               /\ \A i \in 1..Len(ls) : f[i] = IF i = 1 THEN ls[i] ELSE f[i - 1] \o ls[i]
<1> DEFINE f == CHOOSE g : g = [i \in 1..Len(ls) |-> IF i = 1 THEN ls[i] ELSE g[i - 1] \o ls[i]]
<1>1. f = [i \in 1..Len(ls) |-> IF i = 1 THEN ls[i] ELSE f[i - 1] \o ls[i]]
  <2>1. \E g : g = [i \in 1..Len(ls) |-> IF i = 1 THEN ls[i] ELSE g[i - 1] \o ls[i]]
    BY FlattenExists DEF Flattens
  <2> DEFINE P(g) == g = [i \in 1..Len(ls) |-> IF i = 1 THEN ls[i] ELSE g[i - 1] \o ls[i]]
  <2>2. \E g : P(g)
    BY <2>1
  <2> HIDE DEF P
  <2>3. P(CHOOSE g : P(g))
    BY <2>2, Zenon
  <2> QED
    BY <2>3 DEF P
<1>2. FlattenSeq(ls) = f[Len(ls)]
  BY Zenon DEF FlattenSeq
<1> HIDE DEF f
<1>3. \A i \in 1..Len(ls) : f[i] = IF i = 1 THEN ls[i] ELSE f[i - 1] \o ls[i]
  BY <1>1, Zenon
<1> QED
  BY <1>2, <1>3

(* The lists of the tables of the first levels of ls, one after the other. *)
Flat(f, ls) ==
  /\ f[0] = <<>>
  /\ \A i \in 0..Len(ls) : f[i] \in Level
  /\ \A i \in 1..Len(ls) : f[i] = f[i - 1] \o ls[i]

(* Joining lists of tables is associative.                                 *)
LEMMA Associates ==
  \A a, b, c \in Seq(Table) : (a \o b) \o c = a \o (b \o c)
<1> SUFFICES ASSUME NEW a \in Seq(Table), NEW b \in Seq(Table), NEW c \in Seq(Table)
             PROVE  (a \o b) \o c = a \o (b \o c)
  OBVIOUS
<1> QED
  BY ConcatAssociative

(* The list of all tables is built up level by level.                      *)
LEMMA FlatIs ==
  ASSUME NEW ls \in Levels
  PROVE  \E f : Flat(f, ls) /\ FlattenSeq(ls) = f[Len(ls)]
<1>0. Len(ls) \in Nat /\ <<>> \in Level /\ \A i \in 1..Len(ls) : ls[i] \in Level
  BY DEF Levels, Level
<1>1. CASE Len(ls) = 0
  <2>1. ls = <<>> /\ FlattenSeq(ls) = ls
    BY <1>1 DEF Levels, FlattenSeq
  <2> DEFINE f == [i \in 0..0 |-> <<>>]
  <2>2. Flat(f, ls) /\ f[Len(ls)] = <<>>
    BY <1>0, <1>1 DEF Flat
  <2> QED
    BY <2>1, <2>2
<1>2. CASE Len(ls) # 0
  <2>1. PICK g : /\ FlattenSeq(ls) = g[Len(ls)]
                 /\ \A i \in 1..Len(ls) : g[i] = IF i = 1 THEN ls[i] ELSE g[i - 1] \o ls[i]
    BY <1>0, <1>2, FlattenIs
  <2> DEFINE f == [i \in 0..Len(ls) |-> IF i = 0 THEN <<>> ELSE g[i]]
  <2>2. f[0] = <<>> /\ \A i \in 1..Len(ls) : f[i] = g[i]
    BY <1>0
  <2> HIDE DEF f
  <2>3. \A i \in 1..Len(ls) : f[i] = f[i - 1] \o ls[i]
    <3> SUFFICES ASSUME NEW i \in 1..Len(ls) PROVE f[i] = f[i - 1] \o ls[i]
      OBVIOUS
    <3>1. CASE i = 1
      <4>1. <<>> \o ls[i] = ls[i]
        <5>1. ls[i] \in Seq(Table)
          BY <1>0 DEF Level
        <5> QED
          BY <5>1, ConcatSimplifications
      <4>2. i - 1 = 0
        BY <3>1
      <4> QED
        BY <2>1, <2>2, <3>1, <4>1, <4>2
    <3>2. CASE i # 1
      <4>1. i - 1 \in 1..Len(ls)
        BY <1>0, <3>2
      <4> QED
        BY <2>1, <2>2, <3>2, <4>1
    <3> QED
      BY <3>1, <3>2
  <2> DEFINE Bad == {n \in 0..Len(ls) : f[n] \notin Level}
  <2>4. Bad = {}
    <3> SUFFICES ASSUME Bad # {} PROVE FALSE
      OBVIOUS
    <3>1. Bad \in SUBSET Nat
      OBVIOUS
    <3>2. PICK n : n \in Bad /\ \A m \in Bad : n <= m
      BY <3>1, MinOfNats
    <3>3. n \in 1..Len(ls)
      BY <1>0, <2>2, <3>2
    <3>4. f[n - 1] \in Level
      BY <1>0, <3>2, <3>3
    <3>5. f[n] = f[n - 1] \o ls[n] /\ f[n - 1] \in Seq(Table) /\ ls[n] \in Seq(Table)
      BY <1>0, <2>3, <3>3, <3>4 DEF Level
    <3>6. f[n] \in Level
      BY <3>5 DEF Level
    <3> QED
      BY <3>2, <3>6
  <2>5. Len(ls) \in 1..Len(ls)
    BY <1>0, <1>2
  <2> QED
    BY <2>1, <2>2, <2>3, <2>4, <2>5 DEF Flat
<1> QED
  BY <1>1, <1>2

(* Of the tables of all levels those of level l are replaced by t.         *)
Replaces(ls, l, t, new, above, below) ==
  /\ l = 0 => above = <<>>
  /\ FlattenSeq(ls) = (above \o (IF l = 0 THEN <<>> ELSE ls[l])) \o below
  /\ FlattenSeq(new) = (above \o <<t>>) \o below

LEMMA FlatShifts ==
  ASSUME NEW ls \in Levels, NEW l \in 0..Len(ls), NEW t \in Table, NEW new,
         Shifted(ls, l, t, new)
  PROVE  \E above \in Level, below \in Level : Replaces(ls, l, t, new, above, below)
<1>0. /\ Len(ls) \in Nat /\ l \in Nat /\ new \in Levels
      /\ Len(new) = (IF l = Len(ls) THEN Len(ls) + 1 ELSE Len(ls)) /\ Len(new) \in Nat
      /\ \A i \in 1..Len(ls) : ls[i] \in Level
      /\ \A i \in 1..Len(new) : new[i] \in Level
      /\ <<>> \in Level /\ <<t>> \in Level
  BY DEF Levels, Level, Shifted
<1>1. PICK f : Flat(f, ls) /\ FlattenSeq(ls) = f[Len(ls)]
  BY FlatIs
<1>2. PICK g : Flat(g, new) /\ FlattenSeq(new) = g[Len(new)]
  BY <1>0, FlatIs
<1>3. \A i \in 0..Len(ls) : i < l => g[i] = f[i]
  <2> DEFINE Bad == {n \in 0..Len(ls) : n < l /\ g[n] # f[n]}
  <2> SUFFICES ASSUME Bad # {} PROVE FALSE
    OBVIOUS
  <2>1. Bad \in SUBSET Nat
    OBVIOUS
  <2>2. PICK n : n \in Bad /\ \A m \in Bad : n <= m
    BY <2>1, MinOfNats
  <2>3. n \in 1..Len(ls) /\ n < l
    BY <1>0, <1>1, <1>2, <2>2 DEF Flat
  <2>4. n - 1 \in 0..Len(ls) /\ n - 1 < l /\ g[n - 1] = f[n - 1] /\ n \in 1..Len(new)
    BY <1>0, <2>2, <2>3
  <2>5. new[n] = ls[n]
    <3>1. n # l /\ n # l + 1
      BY <1>0, <2>3
    <3> QED
      BY <2>3, <3>1 DEF Shifted
  <2> QED
    BY <1>1, <1>2, <2>2, <2>3, <2>4, <2>5 DEF Flat
<1> DEFINE own == IF l = 0 THEN <<>> ELSE ls[l]
<1>4. PICK above : above = g[l]
  OBVIOUS
<1>5. above \in Level /\ own \in Level /\ (l = 0 => above = <<>>) /\ f[l] = above \o own
  <2>1. above \in Level
    <3>1. l \in 0..Len(new)
      BY <1>0
    <3> QED
      BY <1>2, <1>4, <3>1 DEF Flat
  <2>2. CASE l = 0
    BY <1>0, <1>1, <1>2, <1>4, <2>1, <2>2 DEF Flat
  <2>3. CASE l # 0
    <3>1. l \in 1..Len(ls) /\ l \in 1..Len(new) /\ l - 1 \in 0..Len(ls) /\ l - 1 < l
          /\ l - 1 \in 0..Len(new)
      BY <1>0, <2>3
    <3>2. g[l - 1] = f[l - 1] /\ g[l - 1] \in Level
      BY <1>1, <1>3, <3>1 DEF Flat
    <3>3. g[l] = g[l - 1] \o <<>> /\ f[l] = f[l - 1] \o ls[l]
      BY <1>1, <1>2, <2>3, <3>1 DEF Flat, Shifted
    <3>4. g[l] = g[l - 1]
      BY <3>2, <3>3 DEF Level
    <3> QED
      BY <1>0, <1>4, <2>1, <2>3, <3>1, <3>2, <3>3, <3>4
  <2> QED
    BY <2>2, <2>3
<1> HIDE DEF own
<1>6. l + 1 \in 1..Len(new) /\ g[l + 1] = above \o new[l + 1]
  <2>1. l + 1 \in 1..Len(new) /\ l + 1 - 1 = l
    BY <1>0
  <2>2. PICK n : n = l + 1
    OBVIOUS
  <2>3. n \in 1..Len(new) /\ n - 1 = l
    BY <2>1, <2>2
  <2>4. g[n] = g[n - 1] \o new[n]
    BY <1>2, <2>3 DEF Flat
  <2> QED
    BY <1>4, <2>1, <2>2, <2>3, <2>4
<1>7. CASE l = Len(ls)
  <2>1. new[l + 1] = <<t>>
    <3>1. new[l + 1] \in Seq(Table) /\ Len(new[l + 1]) = 1 /\ new[l + 1][1] = t
      BY <1>0, <1>6, <1>7 DEF Shifted, LenBelow, Level
    <3> QED
      BY <3>1
  <2>2. FlattenSeq(new) = (above \o <<t>>) \o <<>> /\ FlattenSeq(ls) = (above \o own) \o <<>>
    <3>1. above \o <<t>> \in Seq(Table) /\ above \o own \in Seq(Table)
      BY <1>0, <1>5 DEF Level
    <3>2. (above \o <<t>>) \o <<>> = above \o <<t>> /\ (above \o own) \o <<>> = above \o own
      BY <3>1
    <3> QED
      BY <1>0, <1>1, <1>2, <1>5, <1>6, <1>7, <2>1, <3>2
  <2> QED
    BY <1>0, <1>5, <2>2 DEF own, Replaces
<1>8. CASE l # Len(ls)
  <2>0. l + 1 \in 1..Len(ls) /\ Len(new) = Len(ls)
    BY <1>0, <1>8
  <2>1. new[l + 1] = <<t>> \o ls[l + 1]
    <3>1. ls[l + 1] \in Seq(Table) /\ new[l + 1] \in Seq(Table)
          /\ Len(new[l + 1]) = Len(ls[l + 1]) + 1 /\ new[l + 1][1] = t
          /\ \A j \in 1..Len(ls[l + 1]) : new[l + 1][j + 1] = ls[l + 1][j]
      BY <1>0, <1>8, <2>0 DEF Shifted, LenBelow, Level
    <3>2. \A j \in 1..Len(new[l + 1]) :
            new[l + 1][j] = (<<t>> \o ls[l + 1])[j]
      <4> SUFFICES ASSUME NEW j \in 1..Len(new[l + 1])
                   PROVE  new[l + 1][j] = (<<t>> \o ls[l + 1])[j]
        OBVIOUS
      <4>1. CASE j = 1
        BY <3>1, <4>1
      <4>2. CASE j # 1
        <5>1. j - 1 \in 1..Len(ls[l + 1]) /\ j = (j - 1) + 1
          BY <3>1, <4>2
        <5> QED
          BY <3>1, <5>1
      <4> QED
        BY <4>1, <4>2
    <3>3. <<t>> \o ls[l + 1] \in Seq(Table) /\ Len(<<t>> \o ls[l + 1]) = Len(ls[l + 1]) + 1
      BY <3>1
    <3> QED
      BY <3>1, <3>2, <3>3, SeqEqual
  <2> DEFINE Split(n) == \E below \in Level : /\ f[n] = (above \o own) \o below
                                               /\ g[n] = (above \o <<t>>) \o below
             Bad == {n \in 1..Len(ls) : l + 1 <= n /\ ~Split(n)}
  <2> HIDE DEF Split
  <2>2. Bad = {}
    <3> SUFFICES ASSUME Bad # {} PROVE FALSE
      OBVIOUS
    <3>1. Bad \in SUBSET Nat
      OBVIOUS
    <3>2. PICK n : n \in Bad /\ \A m \in Bad : n <= m
      BY <3>1, MinOfNats
    <3>3. n \in 1..Len(ls) /\ n \in Nat /\ l + 1 <= n
      BY <1>0, <3>2
    <3>4. f[n] = f[n - 1] \o ls[n] /\ g[n] = g[n - 1] \o new[n]
      BY <1>1, <1>2, <2>0, <3>3 DEF Flat
    <3>5. CASE n = l + 1
      <4>1. n - 1 = l
        BY <1>0, <3>5
      <4>2. f[n] = (above \o own) \o ls[l + 1] /\ g[n] = above \o (<<t>> \o ls[l + 1])
        BY <1>4, <1>5, <2>1, <3>4, <3>5, <4>1
      <4>3. above \o (<<t>> \o ls[l + 1]) = (above \o <<t>>) \o ls[l + 1]
        <5>1. above \in Seq(Table) /\ <<t>> \in Seq(Table) /\ ls[l + 1] \in Seq(Table)
          BY <1>0, <1>5, <2>0 DEF Level
        <5> QED
          BY <5>1, Associates
      <4>4. ls[l + 1] \in Level
        BY <1>0, <2>0
      <4>5. Split(n)
        BY <4>2, <4>3, <4>4 DEF Split
      <4> QED
        BY <3>2, <4>5
    <3>6. CASE n # l + 1
      <4>1. n - 1 \in 1..Len(ls) /\ l + 1 <= n - 1 /\ n - 1 < n
        BY <1>0, <3>3, <3>6
      <4>2. n - 1 \notin Bad
        <5>1. \A m \in Bad : n <= m
          BY <3>2
        <5> QED
          BY <3>3, <4>1, <5>1
      <4>3. PICK below \in Level : /\ f[n - 1] = (above \o own) \o below
                                   /\ g[n - 1] = (above \o <<t>>) \o below
        BY <4>1, <4>2 DEF Split
      <4>4. n # l /\ n # l + 1
        BY <1>0, <3>3, <3>6
      <4>5. new[n] = ls[n]
        BY <3>3, <4>4 DEF Shifted
      <4>6. above \o own \in Level /\ above \o <<t>> \in Level /\ below \o ls[n] \in Level
        BY <1>0, <1>5, <3>3, <4>3 DEF Level
      <4>7. f[n] = (above \o own) \o (below \o ls[n]) /\ g[n] = (above \o <<t>>) \o (below \o ls[n])
        <5>0. /\ above \o own \in Seq(Table) /\ above \o <<t>> \in Seq(Table)
              /\ below \in Seq(Table) /\ ls[n] \in Seq(Table)
          BY <1>0, <3>3, <4>3, <4>6 DEF Level
        <5>1. ((above \o own) \o below) \o ls[n] = (above \o own) \o (below \o ls[n])
          BY <5>0, Associates
        <5>2. ((above \o <<t>>) \o below) \o ls[n] = (above \o <<t>>) \o (below \o ls[n])
          BY <5>0, Associates
        <5> QED
          BY <3>4, <4>3, <4>5, <5>1, <5>2
      <4>8. Split(n)
        BY <4>6, <4>7 DEF Split
      <4> QED
        BY <3>2, <4>8
    <3> QED
      BY <3>5, <3>6
  <2>3. Len(ls) \in 1..Len(ls) /\ l + 1 <= Len(ls)
    BY <1>0, <1>8
  <2>4. Split(Len(ls))
    BY <2>2, <2>3
  <2> QED
    BY <1>1, <1>2, <1>5, <2>0, <2>4 DEF own, Split, Replaces
<1> QED
  BY <1>7, <1>8

-----------------------------------------------------------------------------
(* What level l gives to the data d that replaces it one level down: d     *)
(* takes the place <<l + 1, 1>>, everything else is carried along.         *)
Moves(l, d) ==
  /\ l \in Nat
  /\ <<l + 1, 1>> \in Slots'
  /\ At(<<l + 1, 1>>)' = d
  /\ \A p \in Slots : p[1] # l => Down(p, l) \in Slots' /\ At(Down(p, l))' = At(p)
  /\ \A q \in Slots' : \/ q = <<l + 1, 1>>
                       \/ q = MemSlot /\ At(q)' = NoRecords
                       \/ \E p \in Slots : p[1] # l /\ q = Down(p, l)

LEMMA SlotsArePairs ==
  ASSUME levels \in Levels
  PROVE  \A p \in Slots : /\ p = <<p[1], p[2]>>
                          /\ p[1] \in Nat /\ p[2] \in Nat
                          /\ p = MemSlot \/ (p \in Places(levels) /\ p[1] # 0)
<1>1. TableSlots = Places(levels)
  BY DEF TableSlots, Places
<1>2. \A p \in Places(levels) :
         \E i \in 1..Len(levels) : \E j \in 1..Len(levels[i]) : p = <<i, j>>
  BY PlacesAre
<1> QED
  BY <1>1, <1>2 DEF Slots, MemSlot

LEMMA FlushMoves ==
  ASSUME levels \in Levels, memTable \in [Keys -> Entry], nextFile \in Nat, Flush
  PROVE  Moves(0, memTable)
<1> DEFINE t == [file |-> nextFile, data |-> memTable]
<1>1. t \in Table /\ t.data = memTable /\ 0 \in 0..Len(levels)
  BY DEF Table, Levels
<1>2. levels' = Prepend(Emptied(levels, 0), 0 + 1, t)
  BY DEF Flush, Emptied
<1>3. /\ <<1, 1>> \in Places(levels') /\ levels'[1][1] = t
      /\ \A p \in Places(levels) : p[1] # 0 =>
           /\ Down(p, 0) \in Places(levels')
           /\ levels'[Down(p, 0)[1]][Down(p, 0)[2]] = levels[p[1]][p[2]]
      /\ \A q \in Places(levels') :
           \/ q = <<1, 1>>
           \/ \E p \in Places(levels) : p[1] # 0 /\ q = Down(p, 0)
  <2> HIDE DEF t
  <2>1. 0 + 1 = 1
    OBVIOUS
  <2> QED
    BY <1>1, <1>2, <2>1, LevelsShift
<1>4. TableSlots = Places(levels) /\ TableSlots' = Places(levels')
  BY DEF TableSlots, Places
<1>5. \A p \in Slots : p[1] # 0 => p \in Places(levels) /\ Down(p, 0) # MemSlot
                                                        /\ p # MemSlot
  BY SlotsArePairs DEF MemSlot, Down
<1>6. At(<<1, 1>>)' = memTable
  BY <1>1, <1>3 DEF At, MemSlot
<1>7. ASSUME NEW p \in Slots, p[1] # 0
      PROVE  Down(p, 0) \in Slots' /\ At(Down(p, 0))' = At(p)
  BY <1>3, <1>4, <1>5, <1>7 DEF At, Slots
<1>8. ASSUME NEW q \in Slots'
      PROVE  \/ q = <<1, 1>>
             \/ q = MemSlot /\ At(q)' = NoRecords
             \/ \E p \in Slots : p[1] # 0 /\ q = Down(p, 0)
  <2>1. q = MemSlot \/ q \in Places(levels')
    BY <1>4 DEF Slots, MemSlot
  <2>2. CASE q = MemSlot
    BY <2>2 DEF At, Flush
  <2>3. CASE q \in Places(levels')
    BY <1>3, <1>4, <2>3 DEF Slots
  <2> QED
    BY <2>1, <2>2, <2>3
<1> QED
  BY <1>3, <1>4, <1>6, <1>7, <1>8 DEF Moves, Slots

LEMMA CompactMoves ==
  ASSUME levels \in Levels, nextFile \in Nat, Compact,
         NEW l \in Nat \ {0}, l = level
  PROVE  Moves(l, Merged(levels[l]))
<1> DEFINE d == Merged(levels[l])
           t == [file |-> nextFile, data |-> d]
<1>1. l \in 1..Len(levels) /\ l \in 0..Len(levels) /\ l \in Nat /\ l # 0
  BY DEF Compact, IsFull, Levels
<1>2. levels[l] \in Level
  BY <1>1 DEF Levels
<1>3. t \in Table /\ t.data = d
  BY <1>2, MergedType DEF Table
<1>4. levels' = Prepend(Emptied(levels, l), l + 1, t)
  BY <1>1 DEF Compact, Emptied
<1>5. /\ <<l + 1, 1>> \in Places(levels') /\ levels'[l + 1][1] = t
      /\ \A p \in Places(levels) : p[1] # l =>
           /\ Down(p, l) \in Places(levels')
           /\ levels'[Down(p, l)[1]][Down(p, l)[2]] = levels[p[1]][p[2]]
      /\ \A q \in Places(levels') :
           \/ q = <<l + 1, 1>>
           \/ \E p \in Places(levels) : p[1] # l /\ q = Down(p, l)
  <2> HIDE DEF t
  <2> QED
    BY <1>1, <1>3, <1>4, LevelsShift
<1>6. TableSlots = Places(levels) /\ TableSlots' = Places(levels')
  BY DEF TableSlots, Places
<1>7. memTable' = memTable
  BY DEF Compact
<1> HIDE DEF d
<1>8. At(<<l + 1, 1>>)' = d /\ <<l + 1, 1>> \in Slots'
  BY <1>1, <1>3, <1>5, <1>6 DEF At, MemSlot, Slots
<1>9. Down(MemSlot, l) = MemSlot /\ MemSlot[1] # l
  BY <1>1 DEF Down, MemSlot
<1>10. ASSUME NEW p \in Slots, p[1] # l
       PROVE  Down(p, l) \in Slots' /\ At(Down(p, l))' = At(p)
  <2>1. CASE p = MemSlot
    BY <1>7, <1>9, <2>1 DEF At, Slots
  <2>2. CASE p # MemSlot
    <3>1. p \in Places(levels) /\ p[1] # 0 /\ p[1] \in Nat
      BY <2>2, SlotsArePairs
    <3>2. Down(p, l) # MemSlot
      BY <1>1, <2>2, <3>1 DEF Down, MemSlot
    <3> QED
      BY <1>5, <1>6, <1>10, <2>2, <3>1, <3>2 DEF At, Slots
  <2> QED
    BY <2>1, <2>2
<1>11. ASSUME NEW q \in Slots'
       PROVE  \/ q = <<l + 1, 1>>
              \/ \E p \in Slots : p[1] # l /\ q = Down(p, l)
  <2>1. q = MemSlot \/ q \in Places(levels')
    BY <1>6 DEF Slots, MemSlot
  <2>2. CASE q = MemSlot
    BY <1>9, <2>2 DEF Slots
  <2>3. CASE q \in Places(levels')
    BY <1>5, <1>6, <2>3 DEF Slots
  <2> QED
    BY <2>1, <2>2, <2>3
<1> QED
  BY <1>1, <1>8, <1>10, <1>11 DEF Moves, d
-----------------------------------------------------------------------------
(* What a merged level says of a key, in terms of its tables.              *)

(* Every record the clients can make is one that readers accept.           *)
Fits == \A k \in Keys, v \in Value \cup {Tomb} : Readable(k, v)

LEMMA ReadsAll ==
  ASSUME Fits, NEW lv \in Level, NEW j \in 1..Len(lv), NEW k \in Keys
  PROVE  /\ Reading(lv, j, k) = lv[j].data[k]
         /\ lv[j].data[k] \in Entry
<1>1. lv[j] \in Table
  BY DEF Level
<1>2. lv[j].data \in [Keys -> Entry]
  BY <1>1 DEF Table
<1>3. ~HeadUnreadable(lv[j].data)
  BY <1>2 DEF HeadUnreadable, Fits, Records, Entry
<1> QED
  BY <1>2, <1>3 DEF Reading, CompactionReads

(* No table of the level has the key: neither has the merge.               *)
LEMMA MergedOfNone ==
  ASSUME Fits, NEW lv \in Level, NEW k \in Keys,
         \A j \in 1..Len(lv) : lv[j].data[k] = Absent
  PROVE  Merged(lv)[k] = Absent
<1>1. Holders(lv, k) = {}
  <2>1. DOMAIN lv = 1..Len(lv)
    BY DEF Level
  <2> QED
    BY <2>1, ReadsAll DEF Holders
<1> QED
  BY <1>1 DEF Merged, MergedEntry

(* The newest version in the level is a value: without MergeFn the merge   *)
(* keeps just that value.                                                  *)
LEMMA MergedOfNewest ==
  ASSUME Fits, ~Merging, NEW lv \in Level, NEW k \in Keys, NEW n \in 1..Len(lv),
         lv[n].data[k] \notin {Absent, Tomb},
         \A j \in 1..Len(lv) : j < n => lv[j].data[k] = Absent
  PROVE  Merged(lv)[k] = lv[n].data[k]
<1>1. DOMAIN lv = 1..Len(lv) /\ Len(lv) \in Nat
  BY DEF Level
<1>2. Holders(lv, k) = {j \in 1..Len(lv) : lv[j].data[k] # Absent}
  BY <1>1, ReadsAll DEF Holders
<1>3. n \in Holders(lv, k) /\ \A j \in Holders(lv, k) : n <= j
  BY <1>1, <1>2
<1>4. Min(Holders(lv, k)) = n
  BY <1>3, HoldersAreNats, MinIs
<1> QED
  BY <1>3, <1>4, ReadsAll DEF Merged, MergedEntry

-----------------------------------------------------------------------------
(* Without MergeFn the last Put wins.                                      *)

(* The strengthening: the version of a key's last Put is in some place,    *)
(* and no newer place has any version of the key.                          *)
HeldAt(p, k) ==
  /\ At(p)[k] = promised[k]
  /\ \A q \in Slots : Newer(q, p) => At(q)[k] = Absent

LastPutHeld == \A k \in Keys : promised[k] # Absent => \E p \in Slots : HeldAt(p, k)

(* What is held is what Get answers: of the places that have the key, the  *)
(* one that holds it is the newest.                                        *)
LEMMA HeldIsGot ==
  ASSUME Fits, HTypeOK, LastPutHeld
  PROVE  LastPutWins
<1> SUFFICES ASSUME NEW k \in Keys, promised[k] # Absent
             PROVE  Get(k) = promised[k]
  BY DEF LastPutWins
<1>1. PICK p \in Slots : HeldAt(p, k)
  BY DEF LastPutHeld
<1>2. levels \in Levels /\ promised[k] \in Value
  BY DEF HTypeOK, TypeOK, Levels, Level
<1>3. ASSUME NEW q \in Slots
      PROVE  Found(q, k) = At(q)[k]
  <2>1. At(q) \in [Keys -> Entry]
    <3>1. CASE q = MemSlot
      BY <3>1 DEF At, HTypeOK, TypeOK
    <3>2. CASE q # MemSlot
      <4>1. q \in Places(levels)
        BY <1>2, <3>2, SlotsArePairs
      <4>2. PICK i \in 1..Len(levels) : \E j \in 1..Len(levels[i]) : q = <<i, j>>
        BY <1>2, <4>1, PlacesAre
      <4>3. levels[q[1]][q[2]] \in Table
        BY <1>2, <4>2 DEF Levels, Level
      <4> QED
        BY <3>2, <4>3 DEF At, Table
    <3> QED
      BY <3>1, <3>2
  <2>2. \A j \in Records(At(q)) : Readable(j, At(q)[j])
    BY <2>1 DEF Records, Entry, Fits
  <2>3. SSTGet(At(q), k) = At(q)[k]
    BY <2>2 DEF SSTGet
  <2> QED
    BY <2>3 DEF Found, At
<1> DEFINE hits   == {q \in Slots : Found(q, k) # Absent}
           newest == CHOOSE q \in hits : \A r \in hits : ~Newer(r, q)
<1>4. p \in hits /\ \A q \in hits : ~Newer(q, p)
  BY <1>1, <1>2, <1>3 DEF HeldAt
<1>5. newest \in hits /\ ~Newer(p, newest) /\ ~Newer(newest, p)
  BY <1>4
<1>6. newest = p
  <2>1. newest = <<newest[1], newest[2]>> /\ p = <<p[1], p[2]>>
    BY <1>2, <1>5, SlotsArePairs
  <2>2. newest[1] \in Nat /\ newest[2] \in Nat /\ p[1] \in Nat /\ p[2] \in Nat
    BY <1>2, <1>5, SlotsArePairs
  <2>3. newest[1] = p[1] /\ newest[2] = p[2]
    BY <1>5, <2>2 DEF Newer
  <2> QED
    BY <2>1, <2>3
<1>7. Found(newest, k) = promised[k] /\ promised[k] # Tomb
  BY <1>1, <1>2, <1>3, <1>6, EntriesDiffer DEF HeldAt, Value
<1> QED
  BY <1>4, <1>7 DEF Get
(* How a place that is moved compares with the others afterwards.          *)
LEMMA DownKeepsOrder ==
  ASSUME levels \in Levels, NEW l \in Nat,
         NEW p \in Slots, NEW q \in Slots, p[1] # l, q[1] # l
  PROVE  /\ Newer(Down(q, l), Down(p, l)) => Newer(q, p)
         /\ Newer(Down(q, l), <<l + 1, 1>>) => q[1] < l
         /\ Newer(<<l + 1, 1>>, Down(p, l)) => p[1] > l
<1>1. p[1] \in Nat /\ p[2] \in Nat /\ q[1] \in Nat /\ q[2] \in Nat
  BY SlotsArePairs
<1>2. \A r \in {p, q} : /\ Down(r, l)[1] = r[1]
                        /\ Down(r, l)[2] = IF r[1] = l + 1 THEN r[2] + 1 ELSE r[2]
  BY DEF Down
<1>3. <<l + 1, 1>>[1] = l + 1 /\ <<l + 1, 1>>[2] = 1
  OBVIOUS
<1>4. CASE q[1] = l + 1
  BY <1>1, <1>2, <1>3, <1>4 DEF Newer
<1>5. CASE q[1] # l + 1
  BY <1>1, <1>2, <1>3, <1>5 DEF Newer
<1> QED
  BY <1>4, <1>5

(* Data that sums up level l may replace it one level down.                *)
LEMMA MovesKeepHeld ==
  ASSUME HTypeOK, LastPutHeld, UNCHANGED promised,
         NEW l, NEW d, Moves(l, d),
         \A k \in Keys : (\A p \in Slots : p[1] = l => At(p)[k] = Absent)
                           => d[k] = Absent,
         \A k \in Keys : \A p \in Slots :
           /\ p[1] = l
           /\ At(p)[k] \notin {Absent, Tomb}
           /\ \A q \in Slots : q[1] = l /\ Newer(q, p) => At(q)[k] = Absent
           => d[k] = At(p)[k]
  PROVE  LastPutHeld'
<1> SUFFICES ASSUME NEW k \in Keys, promised[k] # Absent
             PROVE  \E p \in Slots' : HeldAt(p, k)'
  BY DEF LastPutHeld
<1>1. PICK p \in Slots : HeldAt(p, k)
  BY DEF LastPutHeld
<1>2. levels \in Levels /\ l \in Nat /\ promised[k] \notin {Absent, Tomb}
  BY EntriesDiffer DEF HTypeOK, TypeOK, Levels, Level, Moves, Value
<1>3. p[1] \in Nat /\ \A q \in Slots : q[1] \in Nat
  BY <1>2, SlotsArePairs
<1>4. CASE p[1] = l
  <2>1. At(<<l + 1, 1>>)'[k] = promised[k]
    BY <1>1, <1>2, <1>4 DEF HeldAt, Moves
  <2>2. ASSUME NEW q \in Slots', Newer(q, <<l + 1, 1>>)
        PROVE  At(q)'[k] = Absent
    <3>1. q # <<l + 1, 1>>
      BY <1>2, <2>2 DEF Newer
    <3>2. CASE At(q)' = NoRecords
      BY <3>2 DEF NoRecords
    <3>3. CASE \E r \in Slots : r[1] # l /\ q = Down(r, l)
      <4>1. PICK r \in Slots : r[1] # l /\ q = Down(r, l)
        BY <3>3
      <4>2. r[1] < l
        BY <1>2, <2>2, <4>1, DownKeepsOrder
      <4>3. Newer(r, p)
        BY <1>4, <4>2 DEF Newer
      <4> QED
        BY <1>1, <4>1, <4>3 DEF HeldAt, Moves
    <3> QED
      BY <3>1, <3>2, <3>3 DEF Moves
  <2> QED
    BY <2>1, <2>2 DEF HeldAt, Moves
<1>5. CASE p[1] # l
  <2>1. At(Down(p, l))'[k] = promised[k] /\ Down(p, l) \in Slots'
    BY <1>1, <1>5 DEF HeldAt, Moves
  <2>2. ASSUME NEW q \in Slots', Newer(q, Down(p, l))
        PROVE  At(q)'[k] = Absent
    <3>1. CASE q = <<l + 1, 1>>
      <4>1. p[1] > l
        BY <1>2, <1>5, <2>2, <3>1, DownKeepsOrder
      <4>2. \A r \in Slots : r[1] = l => Newer(r, p)
        BY <1>2, <1>3, <4>1 DEF Newer
      <4>3. d[k] = Absent
        BY <1>1, <4>2 DEF HeldAt
      <4> QED
        BY <3>1, <4>3 DEF Moves
    <3>2. CASE At(q)' = NoRecords
      BY <3>2 DEF NoRecords
    <3>3. CASE \E r \in Slots : r[1] # l /\ q = Down(r, l)
      <4>1. PICK r \in Slots : r[1] # l /\ q = Down(r, l)
        BY <3>3
      <4>2. Newer(r, p)
        BY <1>2, <1>5, <2>2, <4>1, DownKeepsOrder
      <4> QED
        BY <1>1, <4>1, <4>2 DEF HeldAt, Moves
    <3> QED
      BY <3>1, <3>2, <3>3 DEF Moves
  <2> QED
    BY <2>1, <2>2 DEF HeldAt
<1> QED
  BY <1>4, <1>5
(* The places of a level are its tables.                                   *)
LEMMA TableAt ==
  ASSUME levels \in Levels, NEW l \in 1..Len(levels)
  PROVE  /\ \A j \in 1..Len(levels[l]) :
              <<l, j>> \in Slots /\ At(<<l, j>>) = levels[l][j].data
         /\ \A p \in Slots : p[1] = l =>
              p[2] \in 1..Len(levels[l]) /\ At(p) = levels[l][p[2]].data
<1>1. TableSlots = Places(levels) /\ l # 0
  BY DEF TableSlots, Places
<1>2. ASSUME NEW j \in 1..Len(levels[l])
      PROVE  <<l, j>> \in Slots /\ At(<<l, j>>) = levels[l][j].data
  BY <1>1, PlacesAre DEF Slots, At, MemSlot
<1>3. ASSUME NEW p \in Slots, p[1] = l
      PROVE  p[2] \in 1..Len(levels[l]) /\ At(p) = levels[l][p[2]].data
  <2>1. p # MemSlot /\ p \in Places(levels)
    BY <1>1, <1>3 DEF Slots, MemSlot
  <2>2. PICK i \in 1..Len(levels) : \E j \in 1..Len(levels[i]) : p = <<i, j>>
    BY <2>1, PlacesAre
  <2> QED
    BY <1>3, <2>1, <2>2 DEF At
<1> QED
  BY <1>2, <1>3

(* The only place of level 0 is the memtable.                              *)
LEMMA MemIsLevelZero ==
  ASSUME levels \in Levels, NEW p \in Slots, p[1] = 0
  PROVE  p = MemSlot /\ At(p) = memTable
BY SlotsArePairs DEF At

(* A write puts the newest version of its key in the memtable and leaves   *)
(* every other key, and every table, as it was.                            *)
LEMMA WriteKeepsHeld ==
  ASSUME HTypeOK, LastPutHeld, ~Merging,
         NEW k \in Keys, NEW v \in Value \cup {Tomb}, Write(k, v),
         promised' = [promised EXCEPT ![k] = IF v = Tomb THEN Absent ELSE v]
  PROVE  LastPutHeld'
<1>1. Slots' = Slots /\ \A p \in Slots : p # MemSlot => At(p)' = At(p)
  BY DEF Write, Slots, TableSlots, At
<1>2. /\ At(MemSlot)'[k] = v
      /\ \A x \in Keys : x # k => At(MemSlot)'[x] = At(MemSlot)[x]
  BY DEF Write, MemPut, At, HTypeOK, TypeOK
<1>3. levels \in Levels
  BY DEF HTypeOK, TypeOK, Levels, Level
<1> SUFFICES ASSUME NEW x \in Keys, promised'[x] # Absent
             PROVE  \E p \in Slots : HeldAt(p, x)'
  BY <1>1 DEF LastPutHeld
<1>4. CASE x = k
  <2>1. promised'[x] = v
    BY <1>4 DEF HTypeOK
  <2>2. \A q \in Slots : ~Newer(q, MemSlot)
    BY <1>3, SlotsArePairs DEF Newer, MemSlot
  <2> QED
    BY <1>1, <1>2, <1>4, <2>1, <2>2 DEF HeldAt, Slots
<1>5. CASE x # k
  <2>1. promised'[x] = promised[x]
    BY <1>5 DEF HTypeOK
  <2>2. PICK p \in Slots : HeldAt(p, x)
    BY <2>1 DEF LastPutHeld
  <2>3. \A q \in Slots : At(q)'[x] = At(q)[x]
    BY <1>1, <1>2, <1>5
  <2> QED
    BY <1>1, <2>1, <2>2, <2>3 DEF HeldAt
<1> QED
  BY <1>4, <1>5

LEMMA FlushKeepsHeld ==
  ASSUME HTypeOK, LastPutHeld, Flush, UNCHANGED promised
  PROVE  LastPutHeld'
<1>1. levels \in Levels /\ Moves(0, memTable)
  BY FlushMoves DEF HTypeOK, TypeOK, Levels, Level
<1>2. MemSlot \in Slots /\ MemSlot[1] = 0 /\ At(MemSlot) = memTable
  BY DEF Slots, MemSlot, At
<1>3. \A p \in Slots : p[1] = 0 => At(p) = memTable
  BY <1>1, MemIsLevelZero
<1> QED
  BY <1>1, <1>2, <1>3, MovesKeepHeld

LEMMA CompactKeepsHeld ==
  ASSUME Fits, ~Merging, HTypeOK, LastPutHeld, Compact, UNCHANGED promised
  PROVE  LastPutHeld'
<1>0. PICK l : l = level
  OBVIOUS
<1>1. levels \in Levels /\ l \in 1..Len(levels) /\ l \in Nat \ {0}
  BY <1>0 DEF HTypeOK, TypeOK, Levels, Level, Compact, IsFull
<1>2. Moves(l, Merged(levels[l]))
  BY <1>0, <1>1, CompactMoves DEF HTypeOK, TypeOK
<1>3. levels[l] \in Level
  BY <1>1 DEF Levels
<1>4. ASSUME NEW k \in Keys, \A p \in Slots : p[1] = l => At(p)[k] = Absent
      PROVE  Merged(levels[l])[k] = Absent
  <2>1. ASSUME NEW j \in 1..Len(levels[l])
        PROVE  levels[l][j].data[k] = Absent
    <3>1. <<l, j>> \in Slots /\ At(<<l, j>>) = levels[l][j].data
      BY <1>1, TableAt
    <3> QED
      BY <1>4, <3>1
  <2> QED
    BY <1>3, <2>1, MergedOfNone
<1>5. ASSUME NEW k \in Keys, NEW p \in Slots, p[1] = l,
             At(p)[k] \notin {Absent, Tomb},
             \A q \in Slots : q[1] = l /\ Newer(q, p) => At(q)[k] = Absent
      PROVE  Merged(levels[l])[k] = At(p)[k]
  <2>1. p[2] \in 1..Len(levels[l]) /\ At(p) = levels[l][p[2]].data
    BY <1>1, <1>5, TableAt
  <2>2. ASSUME NEW j \in 1..Len(levels[l]), j < p[2]
        PROVE  levels[l][j].data[k] = Absent
    <3>1. <<l, j>> \in Slots /\ At(<<l, j>>) = levels[l][j].data
      BY <1>1, TableAt
    <3>2. Newer(<<l, j>>, p) /\ <<l, j>>[1] = l
      BY <1>5, <2>2 DEF Newer
    <3> QED
      BY <1>5, <3>1, <3>2
  <2> QED
    BY <1>3, <1>5, <2>1, <2>2, MergedOfNewest
<1> QED
  BY <1>2, <1>4, <1>5, MovesKeepHeld

(* In a tree without MergeFn whose records all fit, Get answers every key  *)
(* whose last write was a Put with the value of that Put, at every moment  *)
(* of every run of puts, deletes, flushes and compactions.                 *)
THEOREM LastPutAlwaysWins ==
  ASSUME ~Merging, Fits
  PROVE  Spec => []LastPutWins
<1>1. HInit => LastPutHeld
  BY DEF HInit, Client!Init, LastPutHeld
<1>2. HTypeOK /\ LastPutHeld /\ [HNext]_hvars => LastPutHeld'
  <2> SUFFICES ASSUME HTypeOK, LastPutHeld, [HNext]_hvars
               PROVE  LastPutHeld'
    OBVIOUS
  <2>1. ASSUME NEW k \in Keys, NEW v \in Value, HPut(k, v)
        PROVE  LastPutHeld'
    <3>1. promised' = [promised EXCEPT ![k] = IF v = Tomb THEN Absent ELSE v]
      BY <2>1, EntriesDiffer DEF HPut, Client!Put, Value
    <3> QED
      BY <2>1, <3>1, WriteKeepsHeld DEF HPut, Put
  <2>2. ASSUME NEW k \in Keys, HDelete(k)
        PROVE  LastPutHeld'
    BY <2>2, WriteKeepsHeld DEF HDelete, Delete, Client!Delete
  <2>3. CASE Flush /\ UNCHANGED promised
    BY <2>3, FlushKeepsHeld
  <2>4. CASE Compact /\ UNCHANGED promised
    BY <2>4, CompactKeepsHeld
  <2>5. CASE /\ FlushFails \/ CompactFails \/ CompactDone \/ HGet \/ UNCHANGED hvars
             /\ UNCHANGED promised
    <3>1. UNCHANGED <<memTable, levels, promised>>
      BY <2>5 DEF FlushFails, CompactFails, CompactDone, HGet, hvars
    <3>2. Slots' = Slots /\ \A p \in Slots : At(p)' = At(p)
      BY <3>1 DEF Slots, TableSlots, At
    <3> QED
      BY <3>1, <3>2 DEF LastPutHeld, HeldAt
  <2> QED
    BY <2>1, <2>2, <2>3, <2>4, <2>5 DEF HNext, HMaintenance, Maintenance, HGet, hvars
<1>3. HTypeOK /\ LastPutHeld => LastPutWins
  BY HeldIsGot
<1> QED
  BY <1>1, <1>2, <1>3, TypeCorrect, PTL DEF Spec
-----------------------------------------------------------------------------
(* With a MergeFn no piece is lost.                                        *)

(* The strengthening, piece by piece: some place holds the piece and no    *)
(* newer place holds a tombstone.                                          *)
PieceAt(p, k, x) ==
  /\ At(p)[k] \notin {Absent, Tomb}
  /\ x \in At(p)[k]
  /\ \A q \in Slots : Newer(q, p) => At(q)[k] # Tomb

PiecesHeld ==
  \A k \in Keys : promised[k] # Absent =>
    \A x \in promised[k] : \E p \in Slots : PieceAt(p, k, x)

LEMMA ValuesAreNotMarks == \A v \in Value : v \notin {Absent, Tomb}
BY EntriesDiffer DEF Value

(* The merge of a level has every piece of a table above which the level   *)
(* has no tombstone, and is never a tombstone.                             *)
LEMMA MergedKeepsPieces ==
  ASSUME Fits, Merging, NEW lv \in Level, NEW k \in Keys
  PROVE  /\ Merged(lv)[k] # Tomb
         /\ \A n \in 1..Len(lv) : \A x \in lv[n].data[k] :
              /\ lv[n].data[k] \notin {Absent, Tomb}
              /\ \A j \in 1..Len(lv) : j < n => lv[j].data[k] # Tomb
              => Merged(lv)[k] \notin {Absent, Tomb} /\ x \in Merged(lv)[k]
<1> DEFINE hits   == Holders(lv, k)
           first  == Min(hits)
           newest == Reading(lv, first, k)
           older  == {j \in hits \ {first} : Reading(lv, j, k) # Tomb}
           pieces == UNION {Reading(lv, j, k) : j \in older}
<1>1. DOMAIN lv = 1..Len(lv) /\ Len(lv) \in Nat
  BY DEF Level
<1>2. hits = {j \in 1..Len(lv) : lv[j].data[k] # Absent}
  BY <1>1, ReadsAll DEF Holders
<1>3. hits # {} => first \in hits /\ \A j \in hits : first <= j
  BY HoldersAreNats, MinOfNats
<1>4. Merged(lv)[k] = IF hits = {} \/ newest = Tomb THEN Absent
                      ELSE Merge(newest, pieces)
  BY DEF Merged, MergedEntry
<1>5. \A j \in older : Reading(lv, j, k) \in Value
  BY <1>1, ReadingType, HoldersAreNats DEF Holders, Entry
<1>6. pieces \in SUBSET Data
  BY <1>5 DEF Value
<1>7. hits # {} /\ newest # Tomb =>
        newest \in Value /\ Merge(newest, pieces) \in Value
  <2> SUFFICES ASSUME hits # {}, newest # Tomb
               PROVE  newest \in Value /\ Merge(newest, pieces) \in Value
    OBVIOUS
  <2>1. newest \in Entry /\ newest # Absent
    BY <1>1, <1>3, ReadingType, HoldersAreNats DEF Holders
  <2>2. newest \in Value
    BY <2>1 DEF Entry
  <2> QED
    BY <1>6, <2>2 DEF Merge, Value
<1>8. Merged(lv)[k] # Tomb
  BY <1>4, <1>7, ValuesAreNotMarks, EntriesDiffer
<1>9. ASSUME NEW n \in 1..Len(lv), NEW x \in lv[n].data[k],
             lv[n].data[k] \notin {Absent, Tomb},
             \A j \in 1..Len(lv) : j < n => lv[j].data[k] # Tomb
      PROVE  Merged(lv)[k] \notin {Absent, Tomb} /\ x \in Merged(lv)[k]
  <2>1. n \in hits /\ first \in hits /\ first <= n
    BY <1>2, <1>3, <1>9
  <2>2. Reading(lv, n, k) = lv[n].data[k] /\ newest = lv[first].data[k]
    BY <1>2, <2>1, ReadsAll
  <2>3. newest # Tomb
    <3>1. CASE first = n
      BY <1>9, <2>2, <3>1
    <3>2. CASE first # n
      <4>1. first \in 1..Len(lv) /\ first < n
        BY <1>1, <1>2, <2>1, <3>2
      <4> QED
        BY <1>9, <2>2, <4>1
    <3> QED
      BY <3>1, <3>2
  <2>4. x \in newest \/ x \in pieces
    <3>1. CASE first = n
      BY <2>2, <3>1
    <3>2. CASE first # n
      <4>1. n \in older
        BY <1>9, <2>1, <2>2, <3>2
      <4> QED
        BY <2>2, <4>1
    <3> QED
      BY <3>1, <3>2
  <2>5. Merged(lv)[k] = Merge(newest, pieces) /\ Merge(newest, pieces) \in Value
    BY <1>4, <1>7, <2>1, <2>3
  <2>6. x \in Merge(newest, pieces)
    BY <2>4 DEF Merge
  <2> QED
    BY <2>5, <2>6, ValuesAreNotMarks
<1> QED
  BY <1>8, <1>9

(* Data that keeps the pieces of level l may replace it one level down.    *)
LEMMA MovesKeepPieces ==
  ASSUME HTypeOK, PiecesHeld, UNCHANGED promised,
         NEW l, NEW d, Moves(l, d),
         \A k \in Keys : d[k] = Tomb => \E p \in Slots : p[1] = l /\ At(p)[k] = Tomb,
         \A k \in Keys : \A p \in Slots : \A x \in At(p)[k] :
           /\ p[1] = l
           /\ At(p)[k] \notin {Absent, Tomb}
           /\ \A q \in Slots : q[1] = l /\ Newer(q, p) => At(q)[k] # Tomb
           => d[k] \notin {Absent, Tomb} /\ x \in d[k]
  PROVE  PiecesHeld'
<1> SUFFICES ASSUME NEW k \in Keys, promised[k] # Absent, NEW x \in promised[k]
             PROVE  \E p \in Slots' : PieceAt(p, k, x)'
  BY DEF PiecesHeld
<1>1. PICK p \in Slots : PieceAt(p, k, x)
  BY DEF PiecesHeld
<1>2. levels \in Levels /\ l \in Nat
  BY DEF HTypeOK, TypeOK, Levels, Level, Moves
<1>3. p[1] \in Nat /\ \A q \in Slots : q[1] \in Nat
  BY <1>2, SlotsArePairs
<1>4. NoRecords[k] # Tomb
  BY EntriesDiffer DEF NoRecords
<1>5. CASE p[1] = l
  <2>1. At(<<l + 1, 1>>)'[k] \notin {Absent, Tomb} /\ x \in At(<<l + 1, 1>>)'[k]
    BY <1>1, <1>5 DEF PieceAt, Moves
  <2>2. ASSUME NEW q \in Slots', Newer(q, <<l + 1, 1>>)
        PROVE  At(q)'[k] # Tomb
    <3>1. q # <<l + 1, 1>>
      BY <1>2, <2>2 DEF Newer
    <3>2. CASE At(q)' = NoRecords
      BY <1>4, <3>2
    <3>3. CASE \E r \in Slots : r[1] # l /\ q = Down(r, l)
      <4>1. PICK r \in Slots : r[1] # l /\ q = Down(r, l)
        BY <3>3
      <4>2. r[1] < l
        BY <1>2, <2>2, <4>1, DownKeepsOrder
      <4>3. Newer(r, p)
        BY <1>5, <4>2 DEF Newer
      <4> QED
        BY <1>1, <4>1, <4>3 DEF PieceAt, Moves
    <3> QED
      BY <3>1, <3>2, <3>3 DEF Moves
  <2> QED
    BY <2>1, <2>2 DEF PieceAt, Moves
<1>6. CASE p[1] # l
  <2>1. /\ At(Down(p, l))'[k] = At(p)[k]
        /\ Down(p, l) \in Slots'
    BY <1>6 DEF Moves
  <2>2. ASSUME NEW q \in Slots', Newer(q, Down(p, l))
        PROVE  At(q)'[k] # Tomb
    <3>1. CASE q = <<l + 1, 1>>
      <4>1. p[1] > l
        BY <1>2, <1>6, <2>2, <3>1, DownKeepsOrder
      <4>2. \A r \in Slots : r[1] = l => Newer(r, p)
        BY <1>2, <1>3, <4>1 DEF Newer
      <4>3. d[k] # Tomb
        BY <1>1, <4>2 DEF PieceAt
      <4> QED
        BY <3>1, <4>3 DEF Moves
    <3>2. CASE At(q)' = NoRecords
      BY <1>4, <3>2
    <3>3. CASE \E r \in Slots : r[1] # l /\ q = Down(r, l)
      <4>1. PICK r \in Slots : r[1] # l /\ q = Down(r, l)
        BY <3>3
      <4>2. Newer(r, p)
        BY <1>2, <1>6, <2>2, <4>1, DownKeepsOrder
      <4> QED
        BY <1>1, <4>1, <4>2 DEF PieceAt, Moves
    <3> QED
      BY <3>1, <3>2, <3>3 DEF Moves
  <2> QED
    BY <1>1, <2>1, <2>2 DEF PieceAt
<1> QED
  BY <1>5, <1>6

LEMMA WriteKeepsPieces ==
  ASSUME HTypeOK, PiecesHeld, Merging,
         NEW k \in Keys, NEW v \in Value \cup {Tomb}, Write(k, v),
         promised' = [promised EXCEPT ![k] =
                        IF v = Tomb THEN Absent
                        ELSE IF promised[k] # Absent THEN promised[k] \cup v ELSE v]
  PROVE  PiecesHeld'
<1>1. Slots' = Slots /\ \A p \in Slots : p # MemSlot => At(p)' = At(p)
  BY DEF Write, Slots, TableSlots, At
<1>2. /\ At(MemSlot) = memTable /\ At(MemSlot)' = MemPut(memTable, k, v)
      /\ memTable \in [Keys -> Entry]
  BY DEF Write, At, HTypeOK, TypeOK
<1>3. levels \in Levels
  BY DEF HTypeOK, TypeOK, Levels, Level
<1> SUFFICES ASSUME NEW y \in Keys, promised'[y] # Absent, NEW x \in promised'[y]
             PROVE  \E p \in Slots : PieceAt(p, y, x)'
  BY <1>1 DEF PiecesHeld
<1>4. CASE y = k
  <2>1. v \in Value
    BY <1>4 DEF HTypeOK
  <2>2. /\ v # Tomb
        /\ memTable[k] \notin {Absent, Tomb} => memTable[k] \in Value
    BY <1>2, <2>1, ValuesAreNotMarks DEF Entry
  <2>3. At(MemSlot)'[k] = IF memTable[k] \notin {Absent, Tomb}
                            THEN v \cup memTable[k] ELSE v
    BY <1>2, <2>2 DEF MemPut, Merge
  <2>4. At(MemSlot)'[k] \in Value
    BY <2>1, <2>2, <2>3 DEF Value
  <2>5. \A q \in Slots : ~Newer(q, MemSlot)
    BY <1>3, SlotsArePairs DEF Newer, MemSlot
  <2>6. MemSlot \in Slots
    BY DEF Slots
  <2>7. x \in v \/ (promised[k] # Absent /\ x \in promised[k])
    BY <1>4, <2>2 DEF HTypeOK
  <2>8. CASE x \in At(MemSlot)'[k]
    BY <1>1, <1>4, <2>4, <2>5, <2>6, <2>8, ValuesAreNotMarks DEF PieceAt
  <2>9. CASE x \notin At(MemSlot)'[k]
    <3>1. promised[k] # Absent /\ x \in promised[k]
      BY <2>3, <2>7, <2>9
    <3>2. PICK p \in Slots : PieceAt(p, k, x)
      BY <3>1 DEF PiecesHeld
    <3>3. p # MemSlot
      BY <1>2, <2>3, <2>9, <3>2 DEF PieceAt
    <3>4. \A q \in Slots : Newer(q, p) => At(q)'[k] # Tomb
      BY <1>1, <2>4, <3>2, ValuesAreNotMarks DEF PieceAt
    <3> QED
      BY <1>1, <1>4, <3>2, <3>3, <3>4 DEF PieceAt
  <2> QED
    BY <2>8, <2>9
<1>5. CASE y # k
  <2>1. promised'[y] = promised[y]
    BY <1>5 DEF HTypeOK
  <2>2. PICK p \in Slots : PieceAt(p, y, x)
    BY <2>1 DEF PiecesHeld
  <2>3. \A q \in Slots : At(q)'[y] = At(q)[y]
    BY <1>1, <1>2, <1>5 DEF MemPut
  <2> QED
    BY <1>1, <2>2, <2>3 DEF PieceAt
<1> QED
  BY <1>4, <1>5

LEMMA FlushKeepsPieces ==
  ASSUME HTypeOK, PiecesHeld, Flush, UNCHANGED promised
  PROVE  PiecesHeld'
<1>1. levels \in Levels /\ Moves(0, memTable)
  BY FlushMoves DEF HTypeOK, TypeOK, Levels, Level
<1>2. MemSlot \in Slots /\ MemSlot[1] = 0 /\ At(MemSlot) = memTable
  BY DEF Slots, MemSlot, At
<1>3. \A p \in Slots : p[1] = 0 => At(p) = memTable
  BY <1>1, MemIsLevelZero
<1> QED
  BY <1>1, <1>2, <1>3, MovesKeepPieces

LEMMA CompactKeepsPieces ==
  ASSUME Fits, Merging, HTypeOK, PiecesHeld, Compact, UNCHANGED promised
  PROVE  PiecesHeld'
<1>0. PICK l : l = level
  OBVIOUS
<1>1. levels \in Levels /\ l \in 1..Len(levels) /\ l \in Nat \ {0}
  BY <1>0 DEF HTypeOK, TypeOK, Levels, Level, Compact, IsFull
<1>2. Moves(l, Merged(levels[l]))
  BY <1>0, <1>1, CompactMoves DEF HTypeOK, TypeOK
<1>3. levels[l] \in Level
  BY <1>1 DEF Levels
<1>4. \A k \in Keys : Merged(levels[l])[k] # Tomb
  BY <1>3, MergedKeepsPieces
<1>5. ASSUME NEW k \in Keys, NEW p \in Slots, NEW x \in At(p)[k], p[1] = l,
             At(p)[k] \notin {Absent, Tomb},
             \A q \in Slots : q[1] = l /\ Newer(q, p) => At(q)[k] # Tomb
      PROVE  /\ Merged(levels[l])[k] \notin {Absent, Tomb}
             /\ x \in Merged(levels[l])[k]
  <2>1. p[2] \in 1..Len(levels[l]) /\ At(p) = levels[l][p[2]].data
    BY <1>1, <1>5, TableAt
  <2>2. ASSUME NEW j \in 1..Len(levels[l]), j < p[2]
        PROVE  levels[l][j].data[k] # Tomb
    <3>1. <<l, j>> \in Slots /\ At(<<l, j>>) = levels[l][j].data
      BY <1>1, TableAt
    <3>2. Newer(<<l, j>>, p) /\ <<l, j>>[1] = l
      BY <1>5, <2>2 DEF Newer
    <3> QED
      BY <1>5, <3>1, <3>2
  <2> QED
    BY <1>3, <1>5, <2>1, <2>2, MergedKeepsPieces
<1> QED
  BY <1>2, <1>4, <1>5, MovesKeepPieces

(* What is held piece by piece is in the contents of the tree.             *)
LEMMA PiecesAreContents ==
  ASSUME HTypeOK, PiecesHeld
  PROVE  NoPieceLost
<1> SUFFICES ASSUME NEW k \in Keys, promised[k] # Absent
             PROVE  Contents(k) # Absent /\ promised[k] \subseteq Contents(k)
  BY DEF NoPieceLost
<1> DEFINE live == {p \in Slots : /\ At(p)[k] \notin {Absent, Tomb}
                                  /\ \A q \in Slots : Newer(q, p) => At(q)[k] # Tomb}
<1>1. levels \in Levels /\ promised[k] \in Value
  BY DEF HTypeOK, TypeOK, Levels, Level
<1>2. PICK y : y \in promised[k]
  BY <1>1 DEF Value
<1>3. live # {}
  BY <1>2 DEF PiecesHeld, PieceAt
<1>4. Contents(k) = UNION {At(p)[k] : p \in live}
  BY <1>3 DEF Contents
<1>5. promised[k] \subseteq Contents(k)
  BY <1>4 DEF PiecesHeld, PieceAt
<1>6. ASSUME NEW p \in live
      PROVE  At(p)[k] \in SUBSET Data
  <2>1. CASE p = MemSlot
    BY <2>1 DEF At, HTypeOK, TypeOK, Entry, Value
  <2>2. CASE p # MemSlot
    <3>1. p \in Places(levels)
      BY <1>1, <2>2, SlotsArePairs
    <3>2. PICK i \in 1..Len(levels) : \E j \in 1..Len(levels[i]) : p = <<i, j>>
      BY <1>1, <3>1, PlacesAre
    <3>3. levels[p[1]][p[2]] \in Table
      BY <1>1, <3>2 DEF Levels, Level
    <3> QED
      BY <2>2, <3>3 DEF At, Table, Entry, Value
  <2> QED
    BY <2>1, <2>2
<1>7. Contents(k) \in SUBSET Data
  BY <1>4, <1>6
<1> QED
  BY <1>5, <1>7, EntriesDiffer

(* In a tree with a MergeFn whose records all fit, every piece put for a   *)
(* key since its last deletion stays in the tree, newer than any tombstone *)
(* of the key: no flush and no compaction loses it.                        *)
THEOREM NoPieceEverLost ==
  ASSUME Merging, Fits
  PROVE  Spec => []NoPieceLost
<1>1. HInit => PiecesHeld
  BY DEF HInit, Client!Init, PiecesHeld
<1>2. HTypeOK /\ PiecesHeld /\ [HNext]_hvars => PiecesHeld'
  <2> SUFFICES ASSUME HTypeOK, PiecesHeld, [HNext]_hvars
               PROVE  PiecesHeld'
    OBVIOUS
  <2>1. ASSUME NEW k \in Keys, NEW v \in Value, HPut(k, v)
        PROVE  PiecesHeld'
    <3>1. v # Tomb
      BY ValuesAreNotMarks
    <3> QED
      BY <2>1, <3>1, WriteKeepsPieces DEF HPut, Put, Client!Put
  <2>2. ASSUME NEW k \in Keys, HDelete(k)
        PROVE  PiecesHeld'
    BY <2>2, WriteKeepsPieces DEF HDelete, Delete, Client!Delete
  <2>3. CASE Flush /\ UNCHANGED promised
    BY <2>3, FlushKeepsPieces
  <2>4. CASE Compact /\ UNCHANGED promised
    BY <2>4, CompactKeepsPieces
  <2>5. CASE /\ FlushFails \/ CompactFails \/ CompactDone \/ HGet \/ UNCHANGED hvars
             /\ UNCHANGED promised
    <3>1. UNCHANGED <<memTable, levels, promised>>
      BY <2>5 DEF FlushFails, CompactFails, CompactDone, HGet, hvars
    <3>2. Slots' = Slots /\ \A p \in Slots : At(p)' = At(p)
      BY <3>1 DEF Slots, TableSlots, At
    <3> QED
      BY <3>1, <3>2 DEF PiecesHeld, PieceAt
  <2> QED
    BY <2>1, <2>2, <2>3, <2>4, <2>5 DEF HNext, HMaintenance, Maintenance, HGet, hvars
<1>3. HTypeOK /\ PiecesHeld => NoPieceLost
  BY PiecesAreContents
<1> QED
  BY <1>1, <1>2, <1>3, TypeCorrect, PTL DEF Spec

-----------------------------------------------------------------------------
(* What the cascade of compactions does to the levels: which levels stay   *)
(* full, and where unreadable records are.                                 *)

(* A level after a table has come before its others.                       *)
More(old, new) == /\ Len(new) = Len(old) + 1
                  /\ \A j \in 1..Len(old) : new[j + 1] = old[j]

(* Level l becomes a table with the data d of the level below it.          *)
Sinks(l, d) ==
  /\ l \in Nat
  /\ levels' \in Levels
  /\ l + 1 \in 1..Len(levels')
  /\ levels'[l + 1] # <<>> /\ levels'[l + 1][1].data = d
  /\ \A i \in 1..Len(levels) :
       /\ i \in 1..Len(levels')
       /\ i # l /\ i # l + 1 => levels'[i] = levels[i]
       /\ i = l => levels'[i] = <<>>
       /\ i = l + 1 => More(levels[i], levels'[i])
  /\ \A i \in 1..Len(levels') :
       i \notin 1..Len(levels) => i = l + 1 /\ Len(levels'[i]) = 1

LEMMA LevelsSink ==
  ASSUME levels \in Levels, NEW l \in 0..Len(levels), NEW t \in Table,
         levels' = Prepend(Emptied(levels, l), l + 1, t)
  PROVE  Sinks(l, t.data)
<1> DEFINE old == LenBelow(levels, l)
<1>1. Len(levels) \in Nat /\ l \in Nat
  BY DEF Levels
<1>2. Shifted(levels, l, t, levels')
  BY LevelsAfter
<1>3. l # Len(levels) => l + 1 \in 1..Len(levels) /\ old \in Nat
  BY <1>1 DEF Levels, Level, LenBelow
<1>4. levels'[l + 1] # <<>>
  <2>1. old + 1 # 0
    BY <1>1, <1>3 DEF LenBelow
  <2>2. Len(levels'[l + 1]) = old + 1
    BY <1>2 DEF Shifted
  <2> QED
    BY <2>1, <2>2
<1>5. ASSUME NEW i \in 1..Len(levels)
      PROVE  /\ i \in 1..Len(levels')
             /\ i # l /\ i # l + 1 => levels'[i] = levels[i]
             /\ i = l => levels'[i] = <<>>
             /\ i = l + 1 => More(levels[i], levels'[i])
  <2>1. i = l + 1 => old = Len(levels[i])
    BY <1>1 DEF LenBelow
  <2> HIDE DEF old
  <2> QED
    BY <1>1, <1>2, <2>1 DEF More, Shifted, old
<1>6. ASSUME NEW i \in 1..Len(levels'), i \notin 1..Len(levels)
      PROVE  i = l + 1 /\ Len(levels'[i]) = 1
  <2>1. l = Len(levels) /\ i = l + 1
    BY <1>1, <1>2, <1>6 DEF Shifted
  <2> QED
    BY <1>2, <2>1 DEF Shifted, LenBelow
<1>7. l + 1 \in 1..Len(levels')
  BY <1>1, <1>2 DEF Shifted
<1> QED
  BY <1>1, <1>2, <1>4, <1>5, <1>6, <1>7 DEF Sinks, Shifted

LEMMA FlushSinks ==
  ASSUME HTypeOK, Flush
  PROVE  levels \in Levels /\ Sinks(0, memTable)
<1> DEFINE t == [file |-> nextFile, data |-> memTable]
<1>1. levels \in Levels /\ t \in Table /\ t.data = memTable
  BY DEF HTypeOK, TypeOK, Levels, Level, Table
<1>2. 0 \in 0..Len(levels)
  BY <1>1 DEF Levels
<1>3. levels' = Prepend(Emptied(levels, 0), 0 + 1, t)
  BY DEF Flush, Emptied
<1> HIDE DEF t
<1> QED
  BY <1>1, <1>2, <1>3, LevelsSink

LEMMA CompactSinks ==
  ASSUME HTypeOK, Compact, NEW l, l = level
  PROVE  /\ levels \in Levels /\ l \in 1..Len(levels)
         /\ Sinks(l, Merged(levels[l]))
<1> DEFINE t == [file |-> nextFile, data |-> Merged(levels[l])]
<1>1. levels \in Levels /\ l \in 1..Len(levels)
  BY DEF HTypeOK, TypeOK, Levels, Level, Compact, IsFull
<1>2. levels[l] \in Level
  BY <1>1 DEF Levels
<1>3. t \in Table /\ t.data = Merged(levels[l])
  BY <1>2, MergedType DEF HTypeOK, TypeOK, Table
<1>4. l \in 0..Len(levels) /\ l # 0
  BY <1>1 DEF Levels
<1>5. levels' = Prepend(Emptied(levels, l), l + 1, t)
  BY <1>4 DEF Compact, Emptied
<1> HIDE DEF t
<1> QED
  BY <1>1, <1>3, <1>4, <1>5, LevelsSink

(* A level no compaction can read does not become readable by a table more.*)
LEMMA MoreStaysStuck ==
  ASSUME NEW old \in Level, NEW new \in Level, More(old, new), ~CanCompact(old)
  PROVE  ~CanCompact(new)
<1>1. PICK j \in 1..Len(old) : ~CompactionAccepts(old[j].data)
  BY DEF CanCompact, Level
<1>2. j + 1 \in 1..Len(new) /\ new[j + 1] = old[j] /\ DOMAIN new = 1..Len(new)
  BY DEF More, Level
<1> QED
  BY <1>1, <1>2 DEF CanCompact

-----------------------------------------------------------------------------
(* In every behaviour, a level with a table no compaction can read is      *)
(* never compacted again and never shrinks.                                *)
THEOREM StuckStays == Spec => StuckForever
<1>1. ASSUME HTypeOK, [HNext]_hvars, NEW i \in DOMAIN levels, ~CanCompact(levels[i])
      PROVE  ~CanCompact(levels'[i]) /\ Len(levels'[i]) >= Len(levels[i])
  <2>1. /\ levels \in Levels /\ i \in 1..Len(levels) /\ levels[i] \in Level
        /\ Len(levels[i]) \in Nat
    BY <1>1 DEF HTypeOK, TypeOK, Levels, Level
  <2>2. CASE levels' = levels
    BY <1>1, <2>1, <2>2
  <2>3. ASSUME NEW l, NEW d, Sinks(l, d), i # l
        PROVE  ~CanCompact(levels'[i]) /\ Len(levels'[i]) >= Len(levels[i])
    <3>1. levels'[i] \in Level
      BY <2>1, <2>3 DEF Sinks, Levels
    <3>2. CASE i = l + 1
      <4>1. More(levels[i], levels'[i])
        BY <2>1, <2>3, <3>2 DEF Sinks
      <4>2. ~CanCompact(levels'[i])
        BY <1>1, <2>1, <3>1, <4>1, MoreStaysStuck
      <4> QED
        BY <2>1, <4>1, <4>2 DEF More
    <3>3. CASE i # l + 1
      <4>1. levels'[i] = levels[i]
        BY <2>1, <2>3, <3>3 DEF Sinks
      <4> QED
        BY <1>1, <2>1, <4>1
    <3> QED
      BY <3>2, <3>3
  <2>4. CASE Flush
    <3>1. Sinks(0, memTable) /\ i # 0
      BY <1>1, <2>1, <2>4, FlushSinks
    <3> QED
      BY <2>3, <3>1
  <2>5. CASE Compact
    <3>1. PICK l : l = level
      OBVIOUS
    <3>2. Sinks(l, Merged(levels[l]))
      BY <1>1, <2>5, <3>1, CompactSinks
    <3>3. i # l
      BY <1>1, <2>5, <3>1 DEF Compact
    <3> QED
      BY <2>3, <3>2, <3>3
  <2> QED
    BY <1>1, <2>2, <2>4, <2>5
      DEF HNext, HPut, HDelete, Put, Delete, Write, HGet, HMaintenance, Maintenance,
          FlushFails, CompactFails, CompactDone, hvars
<1>2. HTypeOK /\ [HNext]_hvars =>
        \A i \in DOMAIN levels : ~CanCompact(levels[i]) =>
          ~CanCompact(levels'[i]) /\ Len(levels'[i]) >= Len(levels[i])
  BY <1>1
<1>3. Spec => []HTypeOK
  BY TypeCorrect
<1> QED
  BY <1>2, <1>3, PTL DEF Spec, StuckForever

-----------------------------------------------------------------------------
(* The inductive form of FullOnlyIfStuck: while the cascade runs, the      *)
(* level it is at may be full too.                                         *)
FullIsStuck ==
  \A i \in 1..Len(levels) :
    Len(levels[i]) >= LLimit => ~CanCompact(levels[i]) \/ (pc = "compact" /\ i = level)

LEMMA FullIsStuckIsInductive ==
  ASSUME IOMayFail = FALSE, HTypeOK, FullIsStuck, [HNext]_hvars
  PROVE  FullIsStuck'
<1>1. levels \in Levels /\ Len(levels) \in Nat /\ LLimit \in Nat \ {0}
  BY LimitsAreNumbers DEF HTypeOK, TypeOK, Levels, Level
<1>2. \A i \in 1..Len(levels) : levels[i] \in Level /\ Len(levels[i]) \in Nat
  BY <1>1 DEF Levels, Level
<1>3. ASSUME NEW l \in Nat, NEW d, Sinks(l, d), pc' = "compact", level' = l + 1,
             pc # "compact" \/ level = l
      PROVE  FullIsStuck'
  <2> SUFFICES ASSUME NEW i \in 1..Len(levels'), Len(levels'[i]) >= LLimit, i # l + 1
               PROVE  ~CanCompact(levels'[i])
    BY <1>3 DEF FullIsStuck
  <2>1. i \in 1..Len(levels)
    BY <1>3 DEF Sinks
  <2>2. i # l
    <3> SUFFICES ASSUME i = l PROVE FALSE
      OBVIOUS
    <3>1. levels'[i] = <<>>
      BY <1>3, <2>1 DEF Sinks
    <3> QED
      BY <1>1, <3>1
  <2>3. levels'[i] = levels[i]
    BY <1>3, <2>1, <2>2 DEF Sinks
  <2> QED
    BY <1>3, <2>1, <2>2, <2>3 DEF FullIsStuck
<1>4. CASE Flush
  <2>1. Sinks(0, memTable) /\ pc # "compact" /\ pc' = "compact" /\ level' = 0 + 1
    BY <1>4, FlushSinks DEF Flush
  <2> QED
    BY <1>3, <2>1
<1>5. CASE Compact
  <2>1. PICK l : l = level
    OBVIOUS
  <2>2. Sinks(l, Merged(levels[l])) /\ l \in Nat
    BY <1>5, <2>1, CompactSinks DEF Sinks
  <2>3. pc' = "compact" /\ level' = l + 1
    BY <1>5, <2>1 DEF Compact
  <2> QED
    BY <1>3, <2>1, <2>2, <2>3
<1>6. CASE CompactFails
  <2>1. ~CanCompact(levels[level]) /\ levels' = levels
    BY <1>6 DEF CompactFails
  <2> QED
    BY <2>1 DEF FullIsStuck
<1>7. CASE CompactDone
  <2>1. levels' = levels /\ ~IsFull(level)
    BY <1>7 DEF CompactDone
  <2>2. \A i \in 1..Len(levels) : Len(levels[i]) >= LLimit => i # level
    BY <1>1, <2>1 DEF IsFull
  <2> QED
    BY <2>1, <2>2 DEF FullIsStuck
<1>8. CASE \E k \in Keys, v \in Value \cup {Tomb} : Write(k, v)
  <2>1. pc = "idle" /\ levels' = levels
    BY <1>8 DEF Write
  <2> QED
    BY <2>1 DEF FullIsStuck
<1>9. CASE UNCHANGED hvars
  BY <1>9 DEF hvars, FullIsStuck
<1> QED
  BY <1>4, <1>5, <1>6, <1>7, <1>8, <1>9
    DEF HNext, HPut, HDelete, Put, Delete, HGet, HMaintenance, Maintenance, FlushFails

(* Unless file operations fail, in every behaviour a level is left at      *)
(* LLimit tables or more, when the lock is free, only because a table of   *)
(* it cannot be compacted: the cascade never stops early.                  *)
THEOREM FullOnlyStuck ==
  ASSUME IOMayFail = FALSE
  PROVE  Spec => []FullOnlyIfStuck
<1>1. HInit => FullIsStuck
  BY DEF HInit, Init, FullIsStuck
<1>2. HTypeOK /\ FullIsStuck /\ [HNext]_hvars => FullIsStuck'
  BY FullIsStuckIsInductive
<1>3. HTypeOK /\ FullIsStuck => FullOnlyIfStuck
  <2> SUFFICES ASSUME HTypeOK, FullIsStuck, pc = "idle", NEW i \in DOMAIN levels,
                      Len(levels[i]) >= LLimit
               PROVE  ~CanCompact(levels[i])
    BY DEF FullOnlyIfStuck
  <2>1. i \in 1..Len(levels)
    BY DEF HTypeOK, TypeOK
  <2> QED
    BY <2>1 DEF FullIsStuck
<1>4. Spec => []HTypeOK
  BY TypeCorrect
<1> QED
  BY <1>1, <1>2, <1>3, <1>4, PTL DEF Spec

-----------------------------------------------------------------------------
(* A merge without MergeFn has records of tables it could read, and those  *)
(* it could read are readable to the last.                                 *)
LEMMA MergedIsReadable ==
  ASSUME ~Merging, NEW lv \in Level, CanCompact(lv)
  PROVE  AllReadable(Merged(lv))
<1> SUFFICES ASSUME NEW k \in Keys, Merged(lv)[k] # Absent
             PROVE  Readable(k, Merged(lv)[k])
  BY DEF AllReadable, Records
<1> DEFINE m == Min(Holders(lv, k))
<1>1. Holders(lv, k) # {} /\ Merged(lv)[k] = Reading(lv, m, k)
  BY DEF Merged, MergedEntry
<1>2. m \in DOMAIN lv /\ Reading(lv, m, k) # Absent
  BY <1>1, HoldersAreNats, MinOfNats DEF Holders
<1>3. AllReadable(CompactionReads(lv[m].data))
  BY <1>2 DEF CanCompact, CompactionAccepts
<1> QED
  BY <1>1, <1>2, <1>3 DEF AllReadable, Records, Reading

BelowTop == \A i \in 1..Len(levels) : \A j \in 1..Len(levels[i]) :
              i > 1 => AllReadable(levels[i][j].data)

LEMMA SinksKeepBelowTop ==
  ASSUME levels \in Levels, BelowTop, NEW l, NEW d, Sinks(l, d),
         l # 0 => AllReadable(d)
  PROVE  BelowTop'
<1> SUFFICES ASSUME NEW i \in 1..Len(levels'), NEW j \in 1..Len(levels'[i]), i > 1
             PROVE  AllReadable(levels'[i][j].data)
  BY DEF BelowTop
<1>1. l \in Nat /\ i \in Nat /\ levels'[l + 1][1].data = d
  BY DEF Sinks
<1>2. CASE i \notin 1..Len(levels)
  <2>1. i = l + 1 /\ Len(levels'[i]) = 1
    BY <1>2 DEF Sinks
  <2>2. j = 1
    BY <2>1
  <2>3. l # 0
    BY <1>1, <2>1
  <2> QED
    BY <1>1, <2>1, <2>2, <2>3
<1>3. CASE i \in 1..Len(levels) /\ i = l + 1
  <2>1. More(levels[i], levels'[i]) /\ Len(levels[i]) \in Nat /\ l # 0
    BY <1>3 DEF Sinks, Levels, Level
  <2>2. CASE j = 1
    BY <1>1, <1>3, <2>1, <2>2
  <2>3. CASE j # 1
    <3>1. j - 1 \in 1..Len(levels[i]) /\ (j - 1) + 1 = j
      BY <2>1, <2>3 DEF More
    <3>2. levels'[i][j] = levels[i][j - 1]
      BY <2>1, <3>1 DEF More
    <3> QED
      BY <1>3, <3>1, <3>2 DEF BelowTop
  <2> QED
    BY <2>2, <2>3
<1>4. CASE i \in 1..Len(levels) /\ i # l + 1
  <2>1. i # l
    <3> SUFFICES ASSUME i = l PROVE FALSE
      OBVIOUS
    <3>1. levels'[i] = <<>>
      BY <1>4 DEF Sinks
    <3> QED
      BY <3>1
  <2>2. levels'[i] = levels[i]
    BY <1>4, <2>1 DEF Sinks
  <2> QED
    BY <1>4, <2>2 DEF BelowTop
<1> QED
  BY <1>2, <1>3, <1>4

(* Without a MergeFn, in every behaviour, a record readers refuse is never *)
(* carried below the top level.                                            *)
THEOREM UnreadableOnTop ==
  ASSUME ~Merging
  PROVE  Spec => []UnreadableStaysOnTop
<1>1. HInit => BelowTop
  BY DEF HInit, Init, BelowTop
<1>2. HTypeOK /\ BelowTop /\ [HNext]_hvars => BelowTop'
  <2> SUFFICES ASSUME HTypeOK, BelowTop, [HNext]_hvars PROVE BelowTop'
    OBVIOUS
  <2>1. CASE levels' = levels
    BY <2>1 DEF BelowTop
  <2>2. CASE Flush
    BY <2>2, FlushSinks, SinksKeepBelowTop
  <2>3. CASE Compact
    <3>1. PICK l : l = level
      OBVIOUS
    <3>2. /\ levels \in Levels /\ levels[l] \in Level
          /\ Sinks(l, Merged(levels[l])) /\ CanCompact(levels[l])
      BY <2>3, <3>1, CompactSinks DEF Compact, Levels
    <3>3. AllReadable(Merged(levels[l]))
      BY <3>2, MergedIsReadable
    <3> QED
      BY <3>2, <3>3, SinksKeepBelowTop
  <2> QED
    BY <2>1, <2>2, <2>3
      DEF HNext, HPut, HDelete, Put, Delete, Write, HGet, HMaintenance, Maintenance,
          FlushFails, CompactFails, CompactDone, hvars
<1>3. HTypeOK /\ BelowTop => UnreadableStaysOnTop
  <2> SUFFICES ASSUME HTypeOK, BelowTop, NEW p \in TableSlots, p[1] > 1
               PROVE  AllReadable(At(p))
    BY DEF UnreadableStaysOnTop
  <2>1. levels \in Levels /\ p \in Places(levels)
    BY DEF HTypeOK, TypeOK, Levels, Level, TableSlots, Places
  <2>2. PICK i \in 1..Len(levels) : \E j \in 1..Len(levels[i]) : p = <<i, j>>
    BY <2>1, PlacesAre
  <2>3. p # MemSlot
    BY DEF MemSlot
  <2> QED
    BY <2>2, <2>3 DEF At, BelowTop
<1>4. Spec => []HTypeOK
  BY TypeCorrect
<1> QED
  BY <1>1, <1>2, <1>3, <1>4, PTL DEF Spec
=============================================================================
