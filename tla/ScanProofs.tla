----------------------------- MODULE ScanProofs -----------------------------
(***************************************************************************)
(* A range scan that succeeds answers with what Get would have answered    *)
(* when it took its snapshot, whatever is written, flushed and compacted   *)
(* meanwhile: for any keys, tables, limits and readers' bounds.            *)
(***************************************************************************)
EXTENDS TreeScan, LsmProofs

-----------------------------------------------------------------------------
(* The list of the tables of all levels.                                   *)

(* slot tells of each table of the list tl where it stands in the levels   *)
(* 1 to n: it lists every place once, from the newest to the oldest.       *)
Slotted(tl, ls, n, slot) ==
  /\ tl \in Seq(Table)
  /\ \A m \in 1..Len(tl) :
       /\ slot[m] = <<slot[m][1], slot[m][2]>>
       /\ slot[m][1] \in 1..n
       /\ slot[m][2] \in 1..Len(ls[slot[m][1]])
       /\ tl[m] = ls[slot[m][1]][slot[m][2]]
  /\ \A m, o \in 1..Len(tl) : m < o => Newer(slot[m], slot[o])
  /\ \A i \in 1..n : \A j \in 1..Len(ls[i]) : \E m \in 1..Len(tl) : slot[m] = <<i, j>>

(* One more level.                                                         *)
LEMMA SlotsOfNext ==
  ASSUME NEW ls \in Levels, NEW n \in 0..(Len(ls) - 1), NEW tl, NEW slot,
         Slotted(tl, ls, n, slot)
  PROVE  \E next : Slotted(tl \o ls[n + 1], ls, n + 1, next)
<1> DEFINE lv == ls[n + 1]
           all == tl \o lv
           next == [m \in 1..Len(all) |-> IF m <= Len(tl) THEN slot[m]
                                          ELSE <<n + 1, m - Len(tl)>>]
<1>1. /\ n \in Nat /\ n + 1 \in 1..Len(ls) /\ Len(ls) \in Nat
      /\ lv \in Seq(Table) /\ Len(lv) \in Nat
      /\ tl \in Seq(Table) /\ Len(tl) \in Nat
  <2>1. n \in Nat /\ n + 1 \in 1..Len(ls) /\ Len(ls) \in Nat
    BY DEF Levels
  <2> QED
    BY <2>1 DEF Levels, Level, Slotted
<1>2. /\ all \in Seq(Table) /\ Len(all) = Len(tl) + Len(lv)
      /\ \A m \in 1..Len(all) : all[m] = IF m <= Len(tl) THEN tl[m] ELSE lv[m - Len(tl)]
  BY <1>1
<1> HIDE DEF all, lv
<1>3. ASSUME NEW m \in 1..Len(all)
      PROVE  /\ m <= Len(tl) => m \in 1..Len(tl) /\ next[m] = slot[m]
             /\ m > Len(tl) => /\ next[m] = <<n + 1, m - Len(tl)>>
                               /\ m - Len(tl) \in 1..Len(lv)
             /\ m \in Nat
  BY <1>1, <1>2
<1>4. ASSUME NEW m \in 1..Len(all)
      PROVE  /\ next[m] = <<next[m][1], next[m][2]>>
             /\ next[m][1] \in 1..(n + 1)
             /\ next[m][2] \in 1..Len(ls[next[m][1]])
             /\ all[m] = ls[next[m][1]][next[m][2]]
  <2>1. CASE m <= Len(tl)
    <3>1. next[m] = slot[m] /\ m \in 1..Len(tl)
      BY <1>3, <2>1
    <3>2. slot[m][1] \in 1..(n + 1)
      <4>1. slot[m][1] \in 1..n
        BY <3>1 DEF Slotted
      <4> QED
        BY <1>1, <4>1
    <3> QED
      BY <1>2, <2>1, <3>1, <3>2 DEF Slotted
  <2>2. CASE m > Len(tl)
    <3>1. next[m] = <<n + 1, m - Len(tl)>> /\ m - Len(tl) \in 1..Len(lv)
      BY <1>3, <2>2
    <3>2. all[m] = lv[m - Len(tl)]
      BY <1>1, <1>2, <1>3, <2>2
    <3>3. n + 1 \in 1..(n + 1)
      BY <1>1
    <3> QED
      BY <3>1, <3>2, <3>3 DEF lv
  <2> QED
    BY <1>1, <1>3, <2>1, <2>2
<1>5. ASSUME NEW m \in 1..Len(all), NEW o \in 1..Len(all), m < o
      PROVE  Newer(next[m], next[o])
  <2>1. CASE o <= Len(tl)
    <3>1. m \in 1..Len(tl) /\ o \in 1..Len(tl) /\ next[m] = slot[m] /\ next[o] = slot[o]
      BY <1>1, <1>3, <1>5, <2>1
    <3> QED
      BY <1>5, <3>1 DEF Slotted
  <2>2. CASE o > Len(tl) /\ m <= Len(tl)
    <3>1. next[m] = slot[m] /\ m \in 1..Len(tl) /\ next[o][1] = n + 1
      BY <1>3, <2>2
    <3>2. slot[m][1] \in 1..n
      BY <3>1 DEF Slotted
    <3>3. next[m][1] < next[o][1]
      BY <1>1, <3>1, <3>2
    <3> QED
      BY <3>3 DEF Newer
  <2>3. CASE m > Len(tl)
    <3>1. o > Len(tl)
      BY <1>1, <1>3, <1>5, <2>3
    <3>2. /\ next[m][1] = n + 1 /\ next[m][2] = m - Len(tl)
          /\ next[o][1] = n + 1 /\ next[o][2] = o - Len(tl)
      BY <1>3, <2>3, <3>1
    <3>3. m - Len(tl) < o - Len(tl)
      BY <1>1, <1>3, <1>5
    <3> QED
      BY <3>2, <3>3 DEF Newer
  <2> QED
    BY <1>1, <1>3, <2>1, <2>2, <2>3
<1>6. ASSUME NEW i \in 1..(n + 1), NEW j \in 1..Len(ls[i])
      PROVE  \E m \in 1..Len(all) : next[m] = <<i, j>>
  <2>1. CASE i \in 1..n
    <3>1. PICK m \in 1..Len(tl) : slot[m] = <<i, j>>
      BY <2>1 DEF Slotted
    <3>2. m \in 1..Len(all) /\ m <= Len(tl)
      BY <1>1, <1>2
    <3> QED
      BY <3>1, <3>2
  <2>2. CASE i = n + 1
    <3>1. j \in 1..Len(lv) /\ j \in Nat
      BY <1>1, <2>2 DEF lv
    <3>2. Len(tl) + j \in 1..Len(all) /\ Len(tl) + j > Len(tl) /\ Len(tl) + j - Len(tl) = j
      BY <1>1, <1>2, <3>1
    <3>3. next[Len(tl) + j] = <<n + 1, j>>
      BY <1>3, <3>2
    <3> QED
      BY <2>2, <3>2, <3>3
  <2>3. i \in 1..n \/ i = n + 1
    <3>1. n \in Nat /\ i \in Nat /\ 1 <= i /\ i <= n + 1
      BY <1>1
    <3> QED
      BY ONLY <3>1
  <2> QED
    BY <2>1, <2>2, <2>3
<1> HIDE DEF next
<1>7. Slotted(all, ls, n + 1, next)
  BY <1>2, <1>4, <1>5, <1>6 DEF Slotted
<1> QED
  BY <1>7 DEF all, lv

LEMMA ListIsSlotted ==
  ASSUME NEW ls \in Levels
  PROVE  \E slot : Slotted(TableList(ls), ls, Len(ls), slot)
<1>0. Len(ls) \in Nat
  BY DEF Levels
<1>1. \A slot : Slotted(<<>>, ls, 0, slot)
  BY DEF Slotted
<1>2. CASE Len(ls) = 0
  <2>1. TableList(ls) = ls
    BY <1>2 DEF TableList, FlattenSeq
  <2>2. ls = <<>>
    BY <1>2 DEF Levels
  <2> QED
    BY <1>1, <1>2, <2>1, <2>2
<1>3. CASE Len(ls) # 0
  <2>1. PICK f : /\ FlattenSeq(ls) = f[Len(ls)]
                 /\ \A i \in 1..Len(ls) : f[i] = IF i = 1 THEN ls[i] ELSE f[i - 1] \o ls[i]
    BY <1>0, <1>3, FlattenIs
  <2> DEFINE Bad == {n \in 1..Len(ls) : ~ \E slot : Slotted(f[n], ls, n, slot)}
  <2>2. Bad = {}
    <3> SUFFICES ASSUME Bad # {} PROVE FALSE
      OBVIOUS
    <3>1. Bad \in SUBSET Nat
      BY <1>0
    <3>2. PICK n : n \in Bad /\ \A m \in Bad : n <= m
      BY <3>1, MinOfNats
    <3>3. n \in 1..Len(ls) /\ n \in Nat /\ n - 1 \in 0..(Len(ls) - 1) /\ n - 1 + 1 = n
      BY <1>0, <3>2
    <3>4. CASE n = 1
      <4>1. PICK slot : Slotted(<<>> \o ls[1], ls, 1, slot)
        <5>1. \E slot : Slotted(<<>> \o ls[0 + 1], ls, 0 + 1, slot)
          <6>1. 0 \in 0..(Len(ls) - 1)
            BY <3>3, <3>4
          <6> QED
            BY <1>1, <6>1, SlotsOfNext
        <5>2. 0 + 1 = 1
          OBVIOUS
        <5> QED
          BY <5>1, <5>2
      <4>2. <<>> \o ls[1] = ls[1]
        <5>1. ls[1] \in Seq(Table)
          BY <3>3, <3>4 DEF Levels, Level
        <5> QED
          BY <5>1
      <4> QED
        BY <2>1, <3>2, <3>3, <3>4, <4>1, <4>2
    <3>5. CASE n # 1
      <4>1. n - 1 \in 1..Len(ls) /\ n - 1 \notin Bad
        BY <3>2, <3>3, <3>5
      <4>2. PICK slot : Slotted(f[n - 1], ls, n - 1, slot)
        BY <4>1
      <4>3. \E next : Slotted(f[n - 1] \o ls[n - 1 + 1], ls, n - 1 + 1, next)
        BY <3>3, <4>2, SlotsOfNext
      <4> QED
        BY <2>1, <3>2, <3>3, <3>5, <4>3
    <3> QED
      BY <3>4, <3>5
  <2>3. Len(ls) \in 1..Len(ls)
    BY <1>0, <1>3
  <2> QED
    BY <2>1, <2>2, <2>3 DEF TableList
<1> QED
  BY <1>2, <1>3

-----------------------------------------------------------------------------
(* What Get makes of a list of tables, from the newest to the oldest.      *)
Answers(ds, k, v) ==
  \/ v = Absent /\ \A n \in DOMAIN ds : SSTGet(ds[n], k) = Absent
  \/ v # Absent /\ \E n \in DOMAIN ds :
                     /\ SSTGet(ds[n], k) = v
                     /\ \A m \in DOMAIN ds : m < n => SSTGet(ds[m], k) = Absent

(* The tables a scan has opened and those it has still to open.            *)
Ahead(pushed, todo) ==
  [n \in 1..(Len(pushed) + Len(todo)) |->
     IF n <= Len(pushed) THEN pushed[n] ELSE todo[n - Len(pushed)].data]

(* The newest of the slots that hold something, as Get chooses it.         *)
LEMMA NewestIs ==
  ASSUME NEW k, NEW p \in Slots, Found(p, k) # Absent,
         \A q \in Slots : Found(q, k) # Absent =>
                           ~Newer(q, p) /\ (q = p \/ Newer(p, q))
  PROVE  Get(k) = IF Found(p, k) = Tomb THEN Absent ELSE Found(p, k)
<1> DEFINE hits == {q \in Slots : Found(q, k) # Absent}
           newest == CHOOSE x \in hits : \A q \in hits : ~Newer(q, x)
<1>1. p \in hits /\ \A q \in hits : ~Newer(q, p)
  OBVIOUS
<1>2. newest \in hits /\ \A q \in hits : ~Newer(q, newest)
  BY <1>1, Zenon
<1>3. newest = p
  BY <1>1, <1>2
<1>4. Get(k) = IF hits = {} \/ Found(newest, k) = Tomb THEN Absent ELSE Found(newest, k)
  BY DEF Get
<1> QED
  BY <1>1, <1>3, <1>4

LEMMA GetOfMem ==
  ASSUME TypeOK, NEW k \in Keys, memTable[k] # Absent
  PROVE  Get(k) = IF memTable[k] = Tomb THEN Absent ELSE memTable[k]
<1>1. MemSlot \in Slots /\ Found(MemSlot, k) = memTable[k]
  BY DEF Slots, Found
<1>2. levels \in Levels
  BY DEF TypeOK, Levels, Level
<1>3. ASSUME NEW q \in Slots
      PROVE  ~Newer(q, MemSlot) /\ (q = MemSlot \/ Newer(MemSlot, q))
  <2>1. q[1] \in Nat /\ q[2] \in Nat /\ (q = MemSlot \/ q[1] # 0)
    BY <1>2, SlotsArePairs
  <2>2. MemSlot[1] = 0 /\ MemSlot[2] = 0
    BY DEF MemSlot
  <2> QED
    BY <2>1, <2>2 DEF Newer
<1> QED
  BY <1>1, <1>3, NewestIs

LEMMA GetOfTables ==
  ASSUME TypeOK, NEW k \in Keys, memTable[k] = Absent
  PROVE  \E v : /\ Answers(Ahead(<<>>, TableList(levels)), k, v)
               /\ v \in Entry
               /\ Get(k) = IF v = Tomb THEN Absent ELSE v
<1>1. levels \in Levels
  BY DEF TypeOK, Levels, Level
<1>2. PICK slot : Slotted(TableList(levels), levels, Len(levels), slot)
  BY <1>1, ListIsSlotted
<1>3. PICK tl : tl = TableList(levels)
  OBVIOUS
<1>4. tl \in Seq(Table) /\ Len(tl) \in Nat
  BY <1>2, <1>3 DEF Slotted
<1> DEFINE ds == Ahead(<<>>, tl)
<1>5. DOMAIN ds = 1..Len(tl) /\ \A n \in 1..Len(tl) : ds[n] = tl[n].data
  <2>1. Len(<<>>) = 0 /\ 0 + Len(tl) = Len(tl)
    BY <1>4
  <2>2. \A n \in 1..Len(tl) : ~(n <= 0) /\ n - 0 = n
    BY <1>4
  <2> QED
    BY <2>1, <2>2 DEF Ahead
<1> HIDE DEF ds
<1>6. ASSUME NEW n \in 1..Len(tl)
      PROVE  slot[n] \in Slots /\ Found(slot[n], k) = SSTGet(ds[n], k)
  <2>1. /\ slot[n] = <<slot[n][1], slot[n][2]>>
        /\ slot[n][1] \in 1..Len(levels)
        /\ slot[n][2] \in 1..Len(levels[slot[n][1]])
        /\ tl[n] = levels[slot[n][1]][slot[n][2]]
    BY <1>2, <1>3 DEF Slotted
  <2>2. slot[n] \in Places(levels)
    BY <1>1, <2>1, PlacesAre
  <2>3. slot[n] \in Slots /\ slot[n] # MemSlot
    <3>1. slot[n][1] # 0
      BY <2>1
    <3>2. TableSlots = Places(levels)
      BY DEF TableSlots, Places
    <3> QED
      BY <2>2, <3>1, <3>2 DEF Slots, MemSlot
  <2> QED
    BY <1>5, <2>1, <2>3 DEF Found, At
<1>7. \A q \in Slots : q = MemSlot \/ \E n \in 1..Len(tl) : slot[n] = q
  <2> SUFFICES ASSUME NEW q \in Slots, q # MemSlot
               PROVE  \E n \in 1..Len(tl) : slot[n] = q
    OBVIOUS
  <2>1. q \in Places(levels)
    BY <1>1, SlotsArePairs
  <2>2. PICK i \in 1..Len(levels) : \E j \in 1..Len(levels[i]) : q = <<i, j>>
    BY <1>1, <2>1, PlacesAre
  <2> QED
    BY <1>2, <1>3, <2>2 DEF Slotted
<1>8. Found(MemSlot, k) = Absent
  BY DEF Found
<1> DEFINE hits == {n \in 1..Len(tl) : SSTGet(ds[n], k) # Absent}
<1>9. CASE hits = {}
  <2>1. \A q \in Slots : Found(q, k) = Absent
    BY <1>6, <1>7, <1>8, <1>9
  <2>2. Get(k) = Absent
    BY <2>1 DEF Get
  <2>3. Answers(ds, k, Absent) /\ Absent \in Entry
    BY <1>5, <1>9 DEF Answers, Entry
  <2> QED
    BY <1>3, <2>2, <2>3 DEF ds
<1>10. CASE hits # {}
  <2>1. hits \in SUBSET Nat
    BY <1>4
  <2>2. PICK n \in hits : \A m \in hits : n <= m
    BY <1>10, <2>1, MinOfNats
  <2> DEFINE v == SSTGet(ds[n], k)
  <2>3. Answers(ds, k, v)
    <3>1. \A m \in 1..Len(tl) : m < n => SSTGet(ds[m], k) = Absent
      BY <1>4, <2>1, <2>2
    <3> QED
      BY <1>5, <2>2, <3>1 DEF Answers
  <2>4. ASSUME NEW q \in Slots, Found(q, k) # Absent
        PROVE  ~Newer(q, slot[n]) /\ (q = slot[n] \/ Newer(slot[n], q))
    <3>1. PICK m \in 1..Len(tl) : slot[m] = q
      BY <1>7, <1>8, <2>4
    <3>2. m \in hits /\ n <= m
      BY <1>6, <2>2, <2>4, <3>1
    <3>3. /\ q[1] \in Nat /\ q[2] \in Nat
          /\ slot[n][1] \in Nat /\ slot[n][2] \in Nat
      BY <1>1, <1>6, <2>2, SlotsArePairs
    <3>4. CASE m = n
      BY <3>1, <3>3, <3>4 DEF Newer
    <3>5. CASE m # n
      <4>1. n < m
        BY <1>4, <2>1, <3>2, <3>5
      <4>2. Newer(slot[n], q)
        BY <1>2, <1>3, <2>2, <3>1, <4>1 DEF Slotted
      <4>3. ~Newer(q, slot[n])
        BY <3>3, <4>2 DEF Newer
      <4> QED
        BY <4>2, <4>3
    <3> QED
      BY <3>4, <3>5
  <2>5. slot[n] \in Slots /\ Found(slot[n], k) = v /\ v # Absent
    BY <1>6, <2>2
  <2>6. Get(k) = IF v = Tomb THEN Absent ELSE v
    BY <2>4, <2>5, NewestIs
  <2>7. v \in Entry
    <3>1. tl[n] \in Table
      BY <1>4, <2>2
    <3>2. ds[n] \in [Keys -> Entry]
      BY <1>5, <2>2, <3>1 DEF Table
    <3> QED
      BY <3>2 DEF SSTGet, Entry
  <2> QED
    BY <1>3, <2>3, <2>6, <2>7 DEF ds
<1> QED
  BY <1>9, <1>10

LEMMA GetType ==
  ASSUME TypeOK, NEW k \in Keys
  PROVE  Get(k) \in Entry
<1>1. memTable[k] \in Entry /\ Absent \in Entry
  BY DEF TypeOK, Entry
<1>2. CASE memTable[k] # Absent
  BY <1>1, <1>2, GetOfMem
<1>3. CASE memTable[k] = Absent
  BY <1>1, <1>3, GetOfTables
<1> QED
  BY <1>2, <1>3

-----------------------------------------------------------------------------
(* The invariant of a scan.                                                *)

Scans ==
  [at     : {"open"},
   lo     : Keys \cup {EmptyKey},
   hi     : Keys \cup {NoEnd},
   limit  : Nat \ {0},
   mem    : [Keys -> {Absent} \cup Value],
   todo   : Seq(Table),
   pushed : Seq([Keys -> Entry]),
   before : [Keys -> Entry],
   hidden : SUBSET Keys,
   born   : Nat]

ScanIsOpen ==
  scan.at = "open" =>
    /\ scan \in Scans
    /\ scan.born <= nextFile
    /\ \A k \in Keys : scan.mem[k] # Absent => InRange(k, scan.lo, scan.hi)

(* The snapshot's answer is that of the memtable's pairs or, where they    *)
(* have none, of the tables opened and still to open, whatever has become  *)
(* of the tree.                                                            *)
AnswerAhead ==
  scan.at = "open" =>
    \A k \in Keys : Visible(k) =>
      \/ scan.mem[k] # Absent /\ scan.before[k] = scan.mem[k]
      \/ /\ scan.mem[k] = Absent
         /\ \E v : /\ Answers(Ahead(scan.pushed, scan.todo), k, v)
                   /\ scan.before[k] = IF v = Tomb THEN Absent ELSE v

ScanInv ==
  /\ TypeOK
  /\ ScanIsOpen
  /\ AnswerAhead
  /\ ScanReadsSnapshot
  /\ MissingOnlyAfterCompaction
  /\ PanicsOnlyFromStart

(* A scan that is over, or has not begun.                                  *)
LEMMA NotOpenKeeps ==
  ASSUME TypeOK', scan'.at \in {"idle", "failed"}
  PROVE  ScanInv'
BY DEF ScanInv, ScanIsOpen, AnswerAhead, ScanReadsSnapshot, MissingOnlyAfterCompaction,
       PanicsOnlyFromStart

LEMMA SnapshotKeeps ==
  ASSUME ScanInv, NEW lo \in Keys \cup {EmptyKey}, NEW hi \in Keys \cup {NoEnd},
         NEW limit \in Limits, Snapshot(lo, hi, limit)
  PROVE  ScanInv'
<1>0. TypeOK /\ memTable \in [Keys -> Entry] /\ nextFile \in Nat
  BY DEF ScanInv, TypeOK
<1>1. PICK m, tl, before, hidden :
        /\ m = MemPairs(memTable, lo, hi) /\ tl = TableList(levels)
        /\ before = [k \in Keys |-> IF InRange(k, lo, hi) THEN Get(k) ELSE Absent]
        /\ hidden = {k \in Keys : InRange(k, lo, hi) /\ memTable[k] = Tomb}
  OBVIOUS
<1>2. scan' = [at |-> "open", lo |-> lo, hi |-> hi, limit |-> EffectiveLimit(limit),
               mem |-> m, todo |-> tl, pushed |-> <<>>, before |-> before,
               hidden |-> hidden, born |-> nextFile]
  BY <1>1 DEF Snapshot
<1>3. UNCHANGED <<memTable, levels, pc, level, nextFile>>
  BY DEF Snapshot, tvars
<1>4. TypeOK'
  BY <1>0, <1>3 DEF TypeOK
<1>5. levels \in Levels
  BY <1>0 DEF TypeOK, Levels, Level
<1>6. tl \in Seq(Table)
  BY <1>1, <1>5, ListIsSlotted DEF Slotted
<1>7. EffectiveLimit(limit) \in Nat \ {0}
  BY LimitsAreIntegers DEF EffectiveLimit, DefaultLimit
<1>8. m \in [Keys -> {Absent} \cup Value]
  <2> SUFFICES ASSUME NEW k \in Keys
               PROVE  (IF InRange(k, lo, hi) /\ memTable[k] # Tomb THEN memTable[k] ELSE Absent)
                        \in {Absent} \cup Value
    BY <1>1 DEF MemPairs
  <2>1. memTable[k] \in {Absent, Tomb} \cup Value
    BY <1>0 DEF Entry
  <2> QED
    BY <2>1
<1>9. before \in [Keys -> Entry]
  <2>1. \A k \in Keys : Get(k) \in Entry /\ Absent \in Entry
    BY <1>0, GetType DEF Entry
  <2> QED
    BY <1>1, <2>1
<1>10. scan' \in Scans
  <2>1. hidden \in SUBSET Keys /\ <<>> \in Seq([Keys -> Entry])
    BY <1>1
  <2> QED
    BY <1>0, <1>2, <1>6, <1>7, <1>8, <1>9, <2>1 DEF Scans
<1>11. ScanIsOpen'
  <2>1. \A k \in Keys : m[k] # Absent => InRange(k, lo, hi)
    BY <1>1 DEF MemPairs
  <2>2. /\ scan'.born = nextFile /\ nextFile' = nextFile /\ nextFile <= nextFile
        /\ scan'.mem = m /\ scan'.lo = lo /\ scan'.hi = hi
    BY <1>0, <1>2, <1>3
  <2> QED
    BY <1>10, <2>1, <2>2 DEF ScanIsOpen
<1>12. ASSUME NEW k \in Keys, InRange(k, lo, hi), k \notin hidden
       PROVE  \/ m[k] # Absent /\ before[k] = m[k]
              \/ /\ m[k] = Absent
                 /\ \E v : /\ Answers(Ahead(<<>>, tl), k, v)
                           /\ before[k] = IF v = Tomb THEN Absent ELSE v
  <2>1. memTable[k] # Tomb /\ m[k] = memTable[k] /\ before[k] = Get(k)
    BY <1>1, <1>12 DEF MemPairs
  <2> QED
    BY <1>0, <1>1, <2>1, GetOfMem, GetOfTables
<1>13. AnswerAhead'
  <2> SUFFICES ASSUME NEW k \in Keys, Visible(k)'
               PROVE  \/ m[k] # Absent /\ before[k] = m[k]
                      \/ /\ m[k] = Absent
                         /\ \E v : /\ Answers(Ahead(<<>>, tl), k, v)
                                   /\ before[k] = IF v = Tomb THEN Absent ELSE v
    BY <1>2 DEF AnswerAhead
  <2>1. InRange(k, lo, hi) /\ k \notin hidden
    BY <1>2 DEF Visible
  <2> QED
    BY <1>12, <2>1
<1>14. MissingOnlyAfterCompaction'
  <2>1. PICK slot : Slotted(tl, levels, Len(levels), slot)
    BY <1>1, <1>5, ListIsSlotted
  <2>2. ASSUME NEW i \in DOMAIN tl
        PROVE  \E p \in TableSlots : levels[p[1]][p[2]].file = tl[i].file
    <3>1. i \in 1..Len(tl)
      BY <1>6, <2>2
    <3>2. /\ slot[i] = <<slot[i][1], slot[i][2]>>
          /\ slot[i][1] \in 1..Len(levels)
          /\ slot[i][2] \in 1..Len(levels[slot[i][1]])
          /\ tl[i] = levels[slot[i][1]][slot[i][2]]
      BY <2>1, <3>1 DEF Slotted
    <3>3. slot[i] \in Places(levels)
      BY <1>5, <3>2, PlacesAre
    <3> QED
      BY <3>2, <3>3 DEF TableSlots, Places
  <2>3. TableSlots' = TableSlots
    BY <1>3 DEF TableSlots
  <2> SUFFICES ASSUME NEW i \in DOMAIN tl
               PROVE  OnDisk(tl[i])'
    BY <1>2 DEF MissingOnlyAfterCompaction
  <2> QED
    BY <1>3, <2>2, <2>3 DEF OnDisk
<1>15. scan'.at = "open"
  BY <1>2
<1> QED
  BY <1>4, <1>11, <1>13, <1>14, <1>15 DEF ScanInv, ScanReadsSnapshot, PanicsOnlyFromStart

(* What opening the next table, or passing over it, leaves of the list.    *)
LEMMA AheadNext ==
  ASSUME NEW pushed \in Seq([Keys -> Entry]), NEW todo \in Seq(Table), todo # <<>>
  PROVE  /\ Ahead(Append(pushed, Head(todo).data), Tail(todo)) = Ahead(pushed, todo)
         /\ \A k, v : SSTGet(Head(todo).data, k) = Absent /\ Answers(Ahead(pushed, todo), k, v)
                       => Answers(Ahead(pushed, Tail(todo)), k, v)
<1> DEFINE d == Head(todo).data
           P == Len(pushed)
           T == Len(todo)
           old == Ahead(pushed, todo)
           one == Ahead(Append(pushed, d), Tail(todo))
           less == Ahead(pushed, Tail(todo))
<1>1. /\ P \in Nat /\ T \in Nat /\ T >= 1
      /\ Head(todo) = todo[1] /\ d \in [Keys -> Entry]
      /\ Len(Tail(todo)) = T - 1 /\ \A n \in 1..(T - 1) : Tail(todo)[n] = todo[n + 1]
      /\ Len(Append(pushed, d)) = P + 1
      /\ \A n \in 1..P : Append(pushed, d)[n] = pushed[n]
      /\ Append(pushed, d)[P + 1] = d
  <2>1. T \in Nat /\ T >= 1 /\ Head(todo) = todo[1] /\ Head(todo) \in Table
    OBVIOUS
  <2>2. d \in [Keys -> Entry]
    BY <2>1 DEF Table
  <2>3. Len(Tail(todo)) = T - 1 /\ \A n \in 1..(T - 1) : Tail(todo)[n] = todo[n + 1]
    BY <2>1
  <2> HIDE DEF d
  <2> QED
    BY <2>1, <2>2, <2>3
<1>2. /\ DOMAIN old = 1..(P + T)
      /\ \A n \in 1..P : old[n] = pushed[n]
      /\ old[P + 1] = d
      /\ \A n \in 1..(P + T) : n > P => old[n] = todo[n - P].data
  BY <1>1 DEF Ahead
<1>3. one = old
  <2>1. P + 1 + (T - 1) = P + T
    BY <1>1
  <2>2. one = [n \in 1..(P + T) |-> IF n <= P + 1 THEN Append(pushed, d)[n]
                                    ELSE Tail(todo)[n - (P + 1)].data]
    BY <1>1, <2>1 DEF Ahead
  <2>3. ASSUME NEW n \in 1..(P + T)
        PROVE  (IF n <= P + 1 THEN Append(pushed, d)[n] ELSE Tail(todo)[n - (P + 1)].data) = old[n]
    <3>1. CASE n \in 1..P
      BY <1>1, <1>2, <3>1
    <3>2. CASE n = P + 1
      BY <1>1, <1>2, <3>2
    <3>3. CASE n > P + 1
      <4>1. n - (P + 1) \in 1..(T - 1) /\ n - (P + 1) + 1 = n - P /\ n > P /\ ~(n <= P + 1)
        BY <1>1, <3>3
      <4>2. Tail(todo)[n - (P + 1)] = todo[n - P]
        BY <1>1, <4>1
      <4> QED
        BY <1>2, <4>1, <4>2
    <3> QED
      BY <1>1, <3>1, <3>2, <3>3
  <2>4. old = [n \in 1..(P + T) |-> old[n]]
    BY <1>2 DEF Ahead
  <2> HIDE DEF old, one, d
  <2> QED
    BY <2>2, <2>3, <2>4
<1>4. /\ DOMAIN less = 1..(P + T - 1)
      /\ \A n \in 1..P : less[n] = old[n]
      /\ \A n \in 1..(P + T - 1) : n > P => less[n] = old[n + 1]
  <2>1. P + (T - 1) = P + T - 1
    BY <1>1
  <2>2. less = [n \in 1..(P + T - 1) |-> IF n <= P THEN pushed[n] ELSE Tail(todo)[n - P].data]
    BY <1>1, <2>1 DEF Ahead
  <2>3. \A n \in 1..P : n \in 1..(P + T - 1) /\ n <= P
    BY <1>1
  <2>4. ASSUME NEW n \in 1..(P + T - 1), n > P
        PROVE  less[n] = old[n + 1]
    <3>1. n - P \in 1..(T - 1) /\ n + 1 \in 1..(P + T) /\ n + 1 > P /\ ~(n <= P) /\ n - P + 1 = n + 1 - P
      BY <1>1, <2>4
    <3>2. less[n] = Tail(todo)[n - P].data
      BY <2>2, <3>1
    <3>3. Tail(todo)[n - P] = todo[n + 1 - P]
      BY <1>1, <3>1
    <3> QED
      BY <1>2, <3>1, <3>2, <3>3
  <2> QED
    BY <1>2, <2>2, <2>3, <2>4
<1> HIDE DEF old, one, less, d
<1>5. ASSUME NEW k, NEW v, SSTGet(d, k) = Absent, Answers(old, k, v)
      PROVE  Answers(less, k, v)
  <2>1. CASE v = Absent
    <3>1. \A n \in 1..(P + T) : SSTGet(old[n], k) = Absent
      BY <1>2, <1>5, <2>1 DEF Answers
    <3>2. ASSUME NEW n \in 1..(P + T - 1)
          PROVE  SSTGet(less[n], k) = Absent
      <4>1. n \in 1..(P + T) /\ n + 1 \in 1..(P + T) /\ (n \in 1..P \/ n > P)
        BY <1>1
      <4> QED
        BY <1>4, <3>1, <4>1
    <3> QED
      BY <1>4, <2>1, <3>2 DEF Answers
  <2>2. CASE v # Absent
    <3>1. PICK n \in 1..(P + T) : /\ SSTGet(old[n], k) = v
                                  /\ \A m \in 1..(P + T) : m < n => SSTGet(old[m], k) = Absent
      BY <1>2, <1>5, <2>2 DEF Answers
    <3>2. n # P + 1
      BY <1>2, <1>5, <2>2, <3>1
    <3>3. CASE n <= P
      <4>1. n \in 1..P /\ n \in 1..(P + T - 1)
        BY <1>1, <3>3
      <4>2. \A m \in 1..(P + T - 1) : m < n => m \in 1..P /\ m \in 1..(P + T)
        BY <1>1, <3>3
      <4> QED
        BY <1>4, <2>2, <3>1, <4>1, <4>2 DEF Answers
    <3>4. CASE n > P
      <4>1. n - 1 \in 1..(P + T - 1) /\ n - 1 > P /\ n - 1 + 1 = n
        BY <1>1, <3>2, <3>4
      <4>2. SSTGet(less[n - 1], k) = v
        BY <1>4, <3>1, <4>1
      <4>3. ASSUME NEW m \in 1..(P + T - 1), m < n - 1
            PROVE  SSTGet(less[m], k) = Absent
        <5>1. m \in 1..(P + T) /\ m + 1 \in 1..(P + T) /\ m < n /\ m + 1 < n
              /\ (m \in 1..P \/ m > P)
          BY <1>1, <4>3
        <5> QED
          BY <1>4, <3>1, <5>1
      <4> QED
        BY <1>4, <2>2, <4>1, <4>2, <4>3 DEF Answers
    <3> QED
      BY <1>1, <3>3, <3>4
  <2> QED
    BY <2>1, <2>2
<1> QED
  BY <1>3, <1>5 DEF old, one, less, d

(* A table that is passed over holds nothing the scan may show.            *)
LEMMA SkippedHasNone ==
  ASSUME NEW d, NEW lo \in Nat, NEW hi \in Keys \cup {NoEnd},
         Skipped(d, lo, hi), NEW k \in Keys, InRange(k, lo, hi), k # EmptyKey
  PROVE  d[k] = Absent /\ SSTGet(d, k) = Absent
<1>1. Records(d) \in SUBSET Keys /\ IsFiniteSet(Records(d)) /\ k \in Nat
  BY KeysAreFinite, KeysAreOrdered, FS_Subset DEF Records
<1>2. k \notin Records(d)
  <2> SUFFICES ASSUME k \in Records(d) PROVE FALSE
    OBVIOUS
  <2>1. lo <= k
    BY <1>1 DEF InRange
  <2>2. PICK j \in Records(d) : j <= k /\ j \in PastKeys(hi)
    BY <1>1, <2>1, OutOfRangeHasNone DEF Skipped
  <2>3. j \in Nat /\ hi # NoEnd /\ hi \in Nat /\ hi <= j
    BY <1>1, <2>2, KeysAreOrdered DEF PastKeys, Past
  <2> QED
    BY <1>1, <2>2, <2>3 DEF InRange, Past
<1> QED
  BY <1>2 DEF Records, SSTGet

LEMMA ReadTablesOpen ==
  ASSUME ScanInv, SkipTable \/ OpenTable
  PROVE  ScanInv'
<1>0. PICK s, t, d : s = scan /\ t = Head(scan.todo) /\ d = Head(scan.todo).data
  OBVIOUS
<1>1. /\ s.at = "open" /\ s.todo # <<>> /\ s \in Scans
      /\ TypeOK /\ UNCHANGED <<memTable, levels, pc, level, nextFile>>
      /\ s.born <= nextFile
      /\ \A k \in Keys : s.mem[k] # Absent => InRange(k, s.lo, s.hi)
  BY <1>0 DEF ScanInv, ScanIsOpen, SkipTable, OpenTable, tvars
<1>2. TypeOK'
  BY <1>1 DEF TypeOK
<1>3. /\ s.todo \in Seq(Table) /\ s.pushed \in Seq([Keys -> Entry])
      /\ s.lo \in Nat /\ s.hi \in Keys \cup {NoEnd}
  <2>1. s \in Scans
    BY <1>1
  <2>2. s.todo \in Seq(Table) /\ s.pushed \in Seq([Keys -> Entry])
    BY <2>1, Zenon DEF Scans
  <2>3. s.lo \in Keys \cup {EmptyKey} /\ s.hi \in Keys \cup {NoEnd}
    BY <2>1, Zenon DEF Scans
  <2>4. \A k \in Keys \cup {EmptyKey} : k \in Nat
    BY KeysAreOrdered DEF EmptyKey
  <2> QED
    BY <2>2, <2>3, <2>4, Zenon
<1>4. /\ Tail(s.todo) \in Seq(Table) /\ Head(s.todo) \in Table
      /\ d \in [Keys -> Entry] /\ Append(s.pushed, d) \in Seq([Keys -> Entry])
  <2>1. Tail(s.todo) \in Seq(Table) /\ Head(s.todo) \in Table
    BY <1>1, <1>3
  <2>2. d \in [Keys -> Entry]
    BY <1>0, <2>1 DEF Table
  <2> QED
    BY <1>3, <2>1, <2>2
<1>5. PICK pushed : /\ pushed \in Seq([Keys -> Entry])
                    /\ scan' = [s EXCEPT !.todo = Tail(s.todo), !.pushed = pushed]
                    /\ \/ pushed = s.pushed /\ Skipped(d, s.lo, s.hi)
                       \/ pushed = Append(s.pushed, d)
  <2>1. CASE SkipTable
    <3>1. scan' = [s EXCEPT !.todo = Tail(s.todo)] /\ Skipped(d, s.lo, s.hi)
      BY <1>0, <2>1 DEF SkipTable
    <3>2. [s EXCEPT !.todo = Tail(s.todo)] = [s EXCEPT !.todo = Tail(s.todo), !.pushed = s.pushed]
      BY <1>1 DEF Scans
    <3> QED
      BY <1>3, <3>1, <3>2
  <2>2. CASE OpenTable
    <3>1. scan' = [s EXCEPT !.todo = Tail(s.todo), !.pushed = Append(s.pushed, d)]
      BY <1>0, <2>2 DEF OpenTable
    <3> QED
      BY <1>4, <3>1
  <2> QED
    BY <2>1, <2>2
<1>6. /\ scan' \in Scans
      /\ scan'.at = "open" /\ scan'.todo = Tail(s.todo) /\ scan'.pushed = pushed
      /\ scan'.lo = s.lo /\ scan'.hi = s.hi /\ scan'.mem = s.mem
      /\ scan'.before = s.before /\ scan'.hidden = s.hidden /\ scan'.born = s.born
  BY <1>1, <1>4, <1>5 DEF Scans
<1>7. ScanIsOpen'
  BY <1>1, <1>6 DEF ScanIsOpen
<1>8. AnswerAhead'
  <2> SUFFICES ASSUME NEW k \in Keys, InRange(k, s.lo, s.hi), k # EmptyKey, k \notin s.hidden
               PROVE  \/ s.mem[k] # Absent /\ s.before[k] = s.mem[k]
                      \/ /\ s.mem[k] = Absent
                         /\ \E v : /\ Answers(Ahead(pushed, Tail(s.todo)), k, v)
                                   /\ s.before[k] = IF v = Tomb THEN Absent ELSE v
    BY <1>6 DEF AnswerAhead, Visible
  <2>1. CASE s.mem[k] # Absent
    BY <1>0, <1>1, <2>1 DEF ScanInv, AnswerAhead, Visible
  <2>2. CASE s.mem[k] = Absent
    <3>1. PICK v : /\ Answers(Ahead(s.pushed, s.todo), k, v)
                   /\ s.before[k] = IF v = Tomb THEN Absent ELSE v
      BY <1>0, <1>1, <2>2 DEF ScanInv, AnswerAhead, Visible
    <3>2. CASE pushed = Append(s.pushed, d)
      <4>1. Ahead(Append(s.pushed, d), Tail(s.todo)) = Ahead(s.pushed, s.todo)
        BY <1>0, <1>1, <1>3, AheadNext
      <4> QED
        BY <2>2, <3>1, <3>2, <4>1
    <3>3. CASE pushed = s.pushed /\ Skipped(d, s.lo, s.hi)
      <4>1. SSTGet(d, k) = Absent
        BY <1>3, <3>3, SkippedHasNone
      <4>2. Answers(Ahead(s.pushed, Tail(s.todo)), k, v)
        BY <1>0, <1>1, <1>3, <3>1, <4>1, AheadNext
      <4> QED
        BY <2>2, <3>1, <3>3, <4>2
    <3> QED
      BY <1>5, <3>2, <3>3
  <2> QED
    BY <2>1, <2>2
<1>9. MissingOnlyAfterCompaction'
  <2>1. TableSlots' = TableSlots
    BY <1>1 DEF TableSlots
  <2>2. \A x : OnDisk(x)' <=> OnDisk(x)
    BY <1>1, <2>1 DEF OnDisk
  <2>3. \A i \in DOMAIN Tail(s.todo) : i + 1 \in DOMAIN s.todo /\ Tail(s.todo)[i] = s.todo[i + 1]
    BY <1>1, <1>3
  <2> SUFFICES ASSUME NEW i \in DOMAIN Tail(s.todo)
               PROVE  \/ OnDisk(Tail(s.todo)[i])'
                      \/ \E p \in TableSlots : p[1] > 1 /\ levels[p[1]][p[2]].file >= s.born
    BY <1>1, <1>6, <2>1 DEF MissingOnlyAfterCompaction
  <2>4. \/ OnDisk(s.todo[i + 1])
        \/ \E p \in TableSlots : p[1] > 1 /\ levels[p[1]][p[2]].file >= s.born
    BY <1>0, <1>1, <2>3 DEF ScanInv, MissingOnlyAfterCompaction
  <2> QED
    BY <2>2, <2>3, <2>4
<1> QED
  BY <1>2, <1>6, <1>7, <1>8, <1>9 DEF ScanInv, ScanReadsSnapshot, PanicsOnlyFromStart

(* A table without records stops only a scan from the empty key.           *)
LEMMA OpenPanicsKeeps ==
  ASSUME ScanInv, OpenPanics
  PROVE  ScanInv'
<1>0. PICK s, d : s = scan /\ d = Head(scan.todo).data
  OBVIOUS
<1>1. /\ s \in Scans /\ TypeOK /\ UNCHANGED <<memTable, levels, pc, level, nextFile>>
      /\ ~Skipped(d, s.lo, s.hi) /\ Records(d) = {}
      /\ scan' = [at |-> "panicked", lo |-> s.lo]
  BY <1>0 DEF ScanInv, ScanIsOpen, OpenPanics, tvars
<1>2. MaxKey(d) = EmptyKey
  BY <1>1 DEF MaxKey
<1>3. s.lo \in Nat
  <2>1. s.lo \in Keys \cup {EmptyKey}
    BY <1>1 DEF Scans
  <2>2. EmptyKey \in Nat
    BY DEF EmptyKey
  <2> QED
    BY <2>1, <2>2, KeysAreOrdered, Zenon
<1>4. ~(MaxKey(d) < s.lo)
  BY <1>1 DEF Skipped, OutOfRange
<1>5. s.lo = EmptyKey
  BY <1>2, <1>3, <1>4 DEF EmptyKey
<1>6. TypeOK'
  BY <1>1 DEF TypeOK
<1>7. scan'.at = "panicked" /\ scan'.lo = EmptyKey
  BY <1>1, <1>5
<1> QED
  BY <1>6, <1>7 DEF ScanInv, ScanIsOpen, AnswerAhead, ScanReadsSnapshot,
     MissingOnlyAfterCompaction, PanicsOnlyFromStart

-----------------------------------------------------------------------------
(* The merge.                                                              *)

(* The pairs the merge shows, and their keys.                              *)
Both(mem, ds, lo, hi) ==
  [k \in Keys |-> IF mem[k] # Absent THEN mem[k]
                  ELSE IF InRange(k, lo, hi) /\ NewestOf(ds, k) # Tomb
                         THEN NewestOf(ds, k) ELSE Absent]

Emits(mem, ds, lo, hi) ==
  {k \in Keys \ {EmptyKey} : Both(mem, ds, lo, hi)[k] # Absent}

(* The first limit of them are sent.                                       *)
Cuts(out, both, sent, limit) ==
  /\ Cardinality(sent) <= limit
  /\ \A k \in Keys : k # EmptyKey =>
       \/ out[k] = both[k]
       \/ /\ out[k] = Absent /\ Cardinality(sent) = limit
          /\ \A j \in sent : j < k
  /\ \A k \in sent : k \in Keys /\ both[k] # Absent

LEMMA OutputIs ==
  ASSUME NEW mem, NEW ds, NEW lo, NEW hi, NEW limit \in Nat \ {0},
         NEW out, out = ScanOutput(mem, ds, lo, hi, limit),
         NEW both, both = Both(mem, ds, lo, hi),
         NEW sent, sent = {k \in Keys : out[k] # Absent}
  PROVE  Cuts(out, both, sent, limit)
<1>2. PICK emits : emits = Emits(mem, ds, lo, hi)
  OBVIOUS
<1>4. emits = {k \in Keys \ {EmptyKey} : both[k] # Absent}
  BY <1>2 DEF Emits
<1>5. \A k \in Keys : out[k] = IF k \in Foremost(emits, limit) THEN both[k] ELSE Absent
  BY <1>4 DEF ScanOutput, Both, Foremost
<1>7. Foremost(emits, limit) \subseteq emits
  BY DEF Foremost
<1>8. sent = Foremost(emits, limit)
  BY <1>4, <1>5, <1>7
<1>9. emits \in SUBSET Nat /\ IsFiniteSet(emits)
  <2>1. emits \in SUBSET Keys
    BY <1>4
  <2> QED
    BY <2>1, KeysAreFinite, KeysAreOrdered, FS_Subset
<1>10. /\ Cardinality(sent) <= limit
       /\ \A k \in emits \ sent : Cardinality(sent) = limit /\ \A j \in sent : j < k
  BY <1>8, <1>9, ForemostAre
<1>11. ASSUME NEW k \in Keys, k # EmptyKey
       PROVE  \/ out[k] = both[k]
              \/ /\ out[k] = Absent /\ Cardinality(sent) = limit
                 /\ \A j \in sent : j < k
  <2>1. CASE k \in sent
    BY <1>5, <1>8, <2>1
  <2>2. CASE k \notin emits
    <3>1. both[k] = Absent /\ out[k] = Absent
      BY <1>4, <1>5, <1>7, <1>11, <2>2
    <3> QED
      BY <3>1
  <2>3. CASE k \in emits \ sent
    <3>1. out[k] = Absent
      BY <1>5, <1>8, <2>3
    <3> QED
      BY <1>10, <2>3, <3>1
  <2> QED
    BY <2>1, <2>2, <2>3
<1>12. \A k \in sent : k \in Keys /\ both[k] # Absent
  BY <1>4, <1>7, <1>8
<1> QED
  BY <1>10, <1>11, <1>12 DEF Cuts

(* The merge takes for a key what Get makes of the tables that were open.  *)
LEMMA NewestIsAnswer ==
  ASSUME NEW ds \in Seq([Keys -> Entry]), NEW lo \in Nat, NEW hi \in Keys \cup {NoEnd},
         \A d \in ToSet(ds) : \A k \in InWay(d, lo, hi) : Readable(k, d[k]),
         NEW k \in Keys, InRange(k, lo, hi), NEW v, Answers(ds, k, v)
  PROVE  NewestOf(ds, k) = v
<1>1. DOMAIN ds = 1..Len(ds) /\ Len(ds) \in Nat /\ \A n \in 1..Len(ds) : ds[n] \in [Keys -> Entry]
  OBVIOUS
<1>2. ASSUME NEW n \in 1..Len(ds)
      PROVE  SSTGet(ds[n], k) = ds[n][k]
  <2>1. PICK d : d = ds[n]
    OBVIOUS
  <2>2. \A j \in ScanReads(d, lo, PastKeys(hi)) : Readable(j, d[j])
    <3>1. d \in ToSet(ds)
      BY <1>1, <2>1 DEF ToSet
    <3> QED
      BY <3>1 DEF InWay
  <2>3. CASE d[k] = Absent
    BY <2>1, <2>3 DEF SSTGet
  <2>4. CASE d[k] # Absent
    <3>1. k \in Records(d) /\ Records(d) \in SUBSET Keys
      BY <2>4 DEF Records
    <3>2. IsFiniteSet(Records(d))
      BY <3>1, KeysAreFinite, FS_Subset
    <3>3. lo <= k
      BY KeysAreOrdered DEF InRange
    <3>4. \A j \in Records(d) : j <= k => j \notin PastKeys(hi)
      <4> SUFFICES ASSUME NEW j \in Keys, j <= k, hi # NoEnd, j >= hi PROVE FALSE
        BY <3>1 DEF PastKeys, Past
      <4>1. j \in Nat /\ k \in Nat /\ hi \in Nat
        BY KeysAreOrdered
      <4>2. ~(k >= hi)
        BY DEF InRange, Past
      <4> QED
        BY <4>1, <4>2
    <3> QED
      BY <2>1, <2>2, <3>1, <3>2, <3>3, <3>4, ScannedIsGot
  <2> QED
    BY <2>3, <2>4
<1> DEFINE hits == {n \in DOMAIN ds : ds[n][k] # Absent}
<1>3. NewestOf(ds, k) = IF hits = {} THEN Absent ELSE ds[Min(hits)][k]
  BY DEF NewestOf
<1>4. hits \in SUBSET Nat
  BY <1>1
<1>5. \A n \in hits : n \in 1..Len(ds)
  BY <1>1
<1>6. CASE v = Absent
  <2>1. hits = {}
    BY <1>1, <1>2, <1>6 DEF Answers
  <2> QED
    BY <1>3, <1>6, <2>1
<1>7. CASE v # Absent
  <2>1. PICK n \in 1..Len(ds) : /\ SSTGet(ds[n], k) = v
                                /\ \A m \in 1..Len(ds) : m < n => SSTGet(ds[m], k) = Absent
    BY <1>1, <1>7 DEF Answers
  <2>2. ds[n][k] = v /\ n \in hits
    BY <1>1, <1>2, <1>7, <2>1
  <2>3. \A m \in hits : n <= m
    <3> SUFFICES ASSUME NEW m \in hits, ~(n <= m) PROVE FALSE
      OBVIOUS
    <3>1. m \in 1..Len(ds) /\ m < n
      BY <1>1, <1>5
    <3>2. ds[m][k] = Absent
      BY <1>2, <2>1, <3>1
    <3> QED
      BY <3>2
  <2> HIDE DEF hits
  <2>4. Min(hits) = n
    BY <1>4, <2>2, <2>3, MinIs
  <2> QED
    BY <1>3, <2>2, <2>4
<1> QED
  BY <1>6, <1>7

LEMMA AheadOfNone ==
  ASSUME NEW ds \in Seq([Keys -> Entry])
  PROVE  Ahead(ds, <<>>) = ds
<1>1. Len(ds) \in Nat /\ Len(<<>>) = 0 /\ Len(ds) + 0 = Len(ds) /\ DOMAIN ds = 1..Len(ds)
  OBVIOUS
<1>2. Ahead(ds, <<>>) = [n \in 1..Len(ds) |-> IF n <= Len(ds) THEN ds[n]
                                              ELSE <<>>[n - Len(ds)].data]
  BY <1>1 DEF Ahead
<1>3. \A n \in 1..Len(ds) : n <= Len(ds)
  BY <1>1
<1>4. ds = [n \in 1..Len(ds) |-> ds[n]]
  BY <1>1
<1> QED
  BY <1>2, <1>3, <1>4

LEMMA MergeAllKeeps ==
  ASSUME ScanInv, MergeAll
  PROVE  ScanInv'
<1>0. PICK s, out : s = scan /\ out = ScanOutput(s.mem, s.pushed, s.lo, s.hi, s.limit)
  OBVIOUS
<1>1. /\ s \in Scans /\ TypeOK /\ UNCHANGED <<memTable, levels, pc, level, nextFile>>
      /\ s.at = "open" /\ s.todo = <<>>
      /\ \A d \in ToSet(s.pushed) : \A k \in InWay(d, s.lo, s.hi) : Readable(k, d[k])
      /\ \A k \in Keys : s.mem[k] # Absent => InRange(k, s.lo, s.hi)
      /\ scan' = [at |-> "done", lo |-> s.lo, hi |-> s.hi, limit |-> s.limit,
                  out |-> out, before |-> s.before, hidden |-> s.hidden]
  BY <1>0 DEF ScanInv, ScanIsOpen, MergeAll, tvars
<1>2. /\ s.pushed \in Seq([Keys -> Entry]) /\ s.lo \in Nat
      /\ s.hi \in Keys \cup {NoEnd} /\ s.limit \in Nat \ {0}
  <2>1. /\ s.pushed \in Seq([Keys -> Entry]) /\ s.lo \in Keys \cup {EmptyKey}
        /\ s.hi \in Keys \cup {NoEnd} /\ s.limit \in Nat \ {0}
    BY <1>1 DEF Scans
  <2>2. EmptyKey \in Nat
    BY DEF EmptyKey
  <2>3. s.lo \in Nat
    BY <2>1, <2>2, KeysAreOrdered, Zenon
  <2> QED
    BY <2>1, <2>3
<1>3. PICK both : both = Both(s.mem, s.pushed, s.lo, s.hi)
  OBVIOUS
<1>4. PICK sent : sent = {k \in Keys : out[k] # Absent}
  OBVIOUS
<1>5. Cuts(out, both, sent, s.limit)
  BY <1>0, <1>2, <1>3, <1>4, OutputIs
<1>6. ASSUME NEW k \in Keys, both[k] # Absent
      PROVE  InRange(k, s.lo, s.hi)
  BY <1>1, <1>3, <1>6 DEF Both
<1>7. ASSUME NEW k \in Keys, InRange(k, s.lo, s.hi), k # EmptyKey, k \notin s.hidden
      PROVE  both[k] = s.before[k]
  <2>1. Visible(k)
    BY <1>0, <1>7 DEF Visible
  <2>2. CASE s.mem[k] # Absent
    <3>1. s.before[k] = s.mem[k]
      BY <1>0, <1>1, <2>1, <2>2 DEF ScanInv, AnswerAhead
    <3> QED
      BY <1>3, <2>2, <3>1 DEF Both
  <2>3. CASE s.mem[k] = Absent
    <3>1. PICK v : /\ Answers(Ahead(s.pushed, s.todo), k, v)
                   /\ s.before[k] = IF v = Tomb THEN Absent ELSE v
      BY <1>0, <1>1, <2>1, <2>3 DEF ScanInv, AnswerAhead
    <3>2. Answers(s.pushed, k, v)
      BY <1>1, <1>2, <3>1, AheadOfNone
    <3>3. NewestOf(s.pushed, k) = v
      <4>1. /\ s.pushed \in Seq([Keys -> Entry]) /\ s.lo \in Nat
            /\ s.hi \in Keys \cup {NoEnd}
            /\ \A d \in ToSet(s.pushed) : \A x \in InWay(d, s.lo, s.hi) : Readable(x, d[x])
            /\ k \in Keys /\ InRange(k, s.lo, s.hi) /\ Answers(s.pushed, k, v)
        BY <1>1, <1>2, <1>7, <3>2
      <4> QED
        BY ONLY <4>1, NewestIsAnswer
    <3>4. both[k] = IF v # Tomb THEN v ELSE Absent
      BY <1>3, <1>7, <2>3, <3>3 DEF Both
    <3> QED
      BY <3>1, <3>4
  <2> QED
    BY <2>2, <2>3
<1>8. ScanReadsSnapshot'
  <2> SUFFICES /\ \A k \in sent : InRange(k, s.lo, s.hi)
               /\ Cardinality(sent) <= s.limit
               /\ \A k \in Keys :
                    InRange(k, s.lo, s.hi) /\ k # EmptyKey /\ k \notin s.hidden =>
                      \/ out[k] = s.before[k]
                      \/ /\ out[k] = Absent
                         /\ Cardinality(sent) = s.limit
                         /\ \A j \in sent : j < k
    BY <1>1, <1>4 DEF ScanReadsSnapshot, Visible
  <2> QED
    BY <1>5, <1>6, <1>7 DEF Cuts
<1>9. TypeOK'
  BY <1>1 DEF TypeOK
<1>10. scan'.at = "done"
  BY <1>1
<1> QED
  BY <1>8, <1>9, <1>10 DEF ScanInv, ScanIsOpen, AnswerAhead, MissingOnlyAfterCompaction,
     PanicsOnlyFromStart

-----------------------------------------------------------------------------
(* The steps of the others.                                                *)

(* A table a step takes from the tree was an input of a compaction, whose  *)
(* result is below the top and younger than all there was.                 *)
LEMMA StaysOnDisk ==
  ASSUME TypeOK, Maintenance \/ UNCHANGED levels, NEW born \in Nat, born <= nextFile,
         NEW t,
         \/ OnDisk(t)
         \/ \E p \in TableSlots : p[1] > 1 /\ levels[p[1]][p[2]].file >= born
  PROVE  \/ OnDisk(t)'
         \/ \E p \in TableSlots' : p[1] > 1 /\ levels'[p[1]][p[2]].file >= born
<1>1. levels \in Levels /\ nextFile \in Nat /\ memTable \in [Keys -> Entry]
      /\ level \in Nat \ {0}
  BY DEF TypeOK, Levels, Level
<1>2. TableSlots = Places(levels) /\ TableSlots' = Places(levels')
  BY DEF TableSlots, Places
<1>3. \A p \in Places(levels) : p[1] \in 1..Len(levels) /\ p[2] \in Nat /\ p = <<p[1], p[2]>>
  <2>1. \A i \in 1..Len(levels) : Len(levels[i]) \in Nat
    BY <1>1 DEF Levels, Level
  <2> QED
    BY <1>1, <2>1, PlacesAre
<1>4. CASE UNCHANGED levels
  <2>1. TableSlots' = TableSlots
    BY <1>4 DEF TableSlots
  <2>2. OnDisk(t)' <=> OnDisk(t)
    BY <1>4, <2>1 DEF OnDisk
  <2> QED
    BY <1>4, <2>1, <2>2
<1>5. CASE Flush
  <2> DEFINE f == [file |-> nextFile, data |-> memTable]
  <2>1. f \in Table /\ 0 \in 0..Len(levels) /\ levels' = Prepend(Emptied(levels, 0), 0 + 1, f)
    BY <1>1, <1>5 DEF Flush, Emptied, Table, Levels
  <2> HIDE DEF f
  <2>2. \A p \in Places(levels) : p[1] # 0 =>
           /\ Down(p, 0) \in Places(levels')
           /\ levels'[Down(p, 0)[1]][Down(p, 0)[2]] = levels[p[1]][p[2]]
    <3>1. PICK new : new = Prepend(Emptied(levels, 0), 0 + 1, f)
      OBVIOUS
    <3>2. \A p \in Places(levels) : p[1] # 0 =>
             /\ Down(p, 0) \in Places(new)
             /\ new[Down(p, 0)[1]][Down(p, 0)[2]] = levels[p[1]][p[2]]
      <4>1. levels \in Levels /\ 0 \in 0..Len(levels) /\ f \in Table
        BY <1>1, <2>1
      <4>2. LET lv == Prepend(Emptied(levels, 0), 0 + 1, f)
            IN  \A p \in Places(levels) : p[1] # 0 =>
                  /\ Down(p, 0) \in Places(lv)
                  /\ lv[Down(p, 0)[1]][Down(p, 0)[2]] = levels[p[1]][p[2]]
        BY ONLY <4>1, LevelsShift
      <4> QED
        BY ONLY <3>1, <4>2
    <3> QED
      BY <2>1, <3>1, <3>2
  <2>3. \A p \in Places(levels) : p[1] # 0 /\ Down(p, 0)[1] = p[1]
    BY <1>1, <1>3 DEF Down, Levels
  <2>4. CASE OnDisk(t)
    <3>1. PICK p \in Places(levels) : levels[p[1]][p[2]].file = t.file
      BY <1>2, <2>4 DEF OnDisk
    <3>2. Down(p, 0) \in TableSlots' /\ levels'[Down(p, 0)[1]][Down(p, 0)[2]].file = t.file
      BY <1>2, <2>2, <2>3, <3>1
    <3> QED
      BY <3>2 DEF OnDisk
  <2>5. CASE \E p \in TableSlots : p[1] > 1 /\ levels[p[1]][p[2]].file >= born
    <3>1. PICK p \in Places(levels) : p[1] > 1 /\ levels[p[1]][p[2]].file >= born
      BY <1>2, <2>5
    <3>2. /\ Down(p, 0) \in TableSlots' /\ Down(p, 0)[1] > 1
          /\ levels'[Down(p, 0)[1]][Down(p, 0)[2]].file >= born
      BY <1>2, <2>2, <2>3, <3>1
    <3> QED
      BY <3>2
  <2> QED
    BY <2>4, <2>5
<1>6. CASE Compact
  <2>0. PICK l : l = level
    OBVIOUS
  <2> DEFINE f == [file |-> nextFile, data |-> Merged(levels[l])]
  <2>1. l \in Nat \ {0} /\ l \in 1..Len(levels) /\ l \in 0..Len(levels)
    BY <1>1, <1>6, <2>0 DEF Compact, IsFull, Levels
  <2>2. f \in Table
    <3>1. levels[l] \in Level
      BY <1>1, <2>1 DEF Levels
    <3> QED
      BY <1>1, <3>1, MergedType DEF Table
  <2>3. levels' = Prepend(Emptied(levels, l), l + 1, f)
    BY <1>6, <2>0, <2>1 DEF Compact, Emptied
  <2>4. f.file = nextFile
    OBVIOUS
  <2> HIDE DEF f
  <2>5. <<l + 1, 1>> \in Places(levels') /\ levels'[l + 1][1] = f
    BY <1>1, <2>1, <2>2, <2>3, LevelsShift
  <2>6. l + 1 > 1 /\ nextFile >= born
    BY <1>1, <2>1
  <2> QED
    BY <1>2, <2>4, <2>5, <2>6
<1>7. CASE FlushFails \/ CompactFails \/ CompactDone
  BY <1>4, <1>7 DEF FlushFails, CompactFails, CompactDone
<1> QED
  BY <1>4, <1>5, <1>6, <1>7 DEF Maintenance

LEMMA TreeStepKeeps ==
  ASSUME ScanInv, TreeStep
  PROVE  ScanInv'
<1>1. TypeOK /\ scan' = scan
  BY DEF ScanInv, TreeStep
<1>2. \/ \E k \in Keys, v \in Value : Put(k, v)
      \/ \E k \in Keys : Delete(k)
      \/ Maintenance
  BY DEF TreeStep
<1>3. TypeOK'
  BY <1>1, <1>2, TreeKeepsType
<1>4. Maintenance \/ UNCHANGED levels
  BY <1>2 DEF Put, Delete, Write
<1>5. nextFile \in Nat /\ nextFile' \in Nat /\ nextFile <= nextFile'
  <2>1. nextFile \in Nat
    BY <1>1 DEF TypeOK
  <2>2. nextFile' = nextFile \/ nextFile' = nextFile + 1
    BY <1>2 DEF Put, Delete, Write, Maintenance, Flush, FlushFails, Compact, CompactFails,
       CompactDone
  <2> QED
    BY <2>1, <2>2
<1>6. ScanIsOpen'
  <2> SUFFICES ASSUME scan.at = "open"
               PROVE  /\ scan \in Scans /\ scan.born <= nextFile'
                      /\ \A k \in Keys : scan.mem[k] # Absent => InRange(k, scan.lo, scan.hi)
    BY <1>1 DEF ScanIsOpen
  <2>1. /\ scan \in Scans /\ scan.born <= nextFile
        /\ \A k \in Keys : scan.mem[k] # Absent => InRange(k, scan.lo, scan.hi)
    BY DEF ScanInv, ScanIsOpen
  <2>2. scan.born \in Nat
    BY <2>1 DEF Scans
  <2> QED
    BY <1>5, <2>1, <2>2
<1>7. AnswerAhead' /\ ScanReadsSnapshot' /\ PanicsOnlyFromStart'
  BY <1>1 DEF ScanInv, AnswerAhead, ScanReadsSnapshot, PanicsOnlyFromStart, Visible
<1>8. MissingOnlyAfterCompaction'
  <2> SUFFICES ASSUME scan.at = "open", NEW i \in DOMAIN scan.todo
               PROVE  \/ OnDisk(scan.todo[i])'
                      \/ \E p \in TableSlots' :
                           p[1] > 1 /\ levels'[p[1]][p[2]].file >= scan.born
    BY <1>1 DEF MissingOnlyAfterCompaction, OnDisk
  <2>0. PICK t, born : t = scan.todo[i] /\ born = scan.born
    OBVIOUS
  <2>1. born \in Nat /\ born <= nextFile
    BY <2>0 DEF ScanInv, ScanIsOpen, Scans
  <2>2. \/ OnDisk(t)
        \/ \E p \in TableSlots : p[1] > 1 /\ levels[p[1]][p[2]].file >= born
    BY <2>0 DEF ScanInv, MissingOnlyAfterCompaction
  <2>3. \/ OnDisk(t)'
        \/ \E p \in TableSlots' : p[1] > 1 /\ levels'[p[1]][p[2]].file >= born
    BY <1>1, <1>4, <2>1, <2>2, StaysOnDisk
  <2> QED
    BY <1>1, <2>0, <2>3 DEF OnDisk
<1> QED
  BY <1>3, <1>6, <1>7, <1>8 DEF ScanInv

-----------------------------------------------------------------------------
LEMMA ScanInvHolds == SSpec => []ScanInv
<1>1. SInit => ScanInv
  <2>1. SInit => TypeOK /\ scan.at = "idle"
    <3> SUFFICES ASSUME SInit PROVE TypeOK /\ scan.at = "idle"
      OBVIOUS
    <3>1. NoRecords \in [Keys -> Entry]
      BY DEF NoRecords, Entry
    <3> QED
      BY <3>1 DEF SInit, Init, NoScan, TypeOK
  <2> QED
    BY <2>1 DEF ScanInv, ScanIsOpen, AnswerAhead, ScanReadsSnapshot,
       MissingOnlyAfterCompaction, PanicsOnlyFromStart
<1>2. ScanInv /\ [SNext]_svars => ScanInv'
  <2> SUFFICES ASSUME ScanInv, [SNext]_svars
               PROVE  ScanInv'
    OBVIOUS
  <2>1. CASE TreeStep
    BY <2>1, TreeStepKeeps
  <2>2. ASSUME NEW lo \in Keys \cup {EmptyKey}, NEW hi \in Keys \cup {NoEnd},
               NEW limit \in Limits, Snapshot(lo, hi, limit)
        PROVE  ScanInv'
    BY <2>2, SnapshotKeeps
  <2>3. ASSUME UNCHANGED tvars, scan'.at \in {"idle", "failed"}
        PROVE  ScanInv'
    <3>1. TypeOK'
      BY <2>3 DEF ScanInv, TypeOK, tvars
    <3> QED
      BY <2>3, <3>1, NotOpenKeeps
  <2>4. ASSUME NEW lo, NEW hi, BadRange(lo, hi)
        PROVE  ScanInv'
    BY <2>3, <2>4 DEF BadRange
  <2>5. CASE SkipTable \/ OpenTable
    BY <2>5, ReadTablesOpen
  <2>6. CASE OpenFails \/ MergeFails
    BY <2>3, <2>6 DEF OpenFails, MergeFails
  <2>7. CASE OpenPanics
    BY <2>7, OpenPanicsKeeps
  <2>8. CASE MergeAll
    BY <2>8, MergeAllKeeps
  <2>9. CASE Return
    BY <2>3, <2>9 DEF Return, NoScan
  <2>10. CASE UNCHANGED svars
    BY <2>10 DEF svars, ScanInv, TypeOK, ScanIsOpen, AnswerAhead, ScanReadsSnapshot,
       MissingOnlyAfterCompaction, PanicsOnlyFromStart, Visible, OnDisk, TableSlots
  <2> QED
    BY <2>1, <2>2, <2>4, <2>5, <2>6, <2>7, <2>8, <2>9, <2>10 DEF SNext, ReadTables
<1> QED
  BY <1>1, <1>2, PTL DEF SSpec

(* ScanReadsSnapshot for any tree and any readers' bounds: a RangeScan     *)
(* that succeeds answers, up to its limit, with what Get answered when it  *)
(* held the read lock, although its tables were flushed and compacted away *)
(* while it read them.                                                     *)
THEOREM AnswersOfSnapshot == SSpec => []ScanReadsSnapshot
<1>1. ScanInv => ScanReadsSnapshot
  BY DEF ScanInv
<1> QED
  BY <1>1, ScanInvHolds, PTL

(* MissingOnlyAfterCompaction for any tree: the files of the tables a      *)
(* RangeScan has still to open stay until a compaction has completed.      *)
THEOREM FilesStay == SSpec => []MissingOnlyAfterCompaction
<1>1. ScanInv => MissingOnlyAfterCompaction
  BY DEF ScanInv
<1> QED
  BY <1>1, ScanInvHolds, PTL

(* PanicsOnlyFromStart for any tree: the index expression of RangeScan     *)
(* that meets a table without records panics only in a scan from the       *)
(* empty key.                                                              *)
THEOREM PanicsFromStart == SSpec => []PanicsOnlyFromStart
<1>1. ScanInv => PanicsOnlyFromStart
  BY DEF ScanInv
<1> QED
  BY <1>1, ScanInvHolds, PTL
=============================================================================
