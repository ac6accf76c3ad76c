---------------------------- MODULE StoreProofs -----------------------------
(***************************************************************************)
(* For the keys no client deletes, the LSM tree implements the abstract    *)
(* store, with a MergeFn and without, for any keys, limits and failures.   *)
(*                                                                         *)
(* LsmProofs shows that nothing is lost.  Here is the converse, that no    *)
(* place holds anything for such a key that was not put, and then the two  *)
(* together: the tree holds exactly what the store has.  With a MergeFn it *)
(* is also a sequence of places, as the inverted index takes it to be.     *)
(***************************************************************************)
EXTENDS LsmPlaces, LsmProofs

(* What may stand for a key of which v was put: nothing, or a value made   *)
(* of v.                                                                   *)
MadeOf(e, v) ==
  e # Absent => /\ e \in Value
                /\ v # Absent
                /\ Merging => e \subseteq v

NothingExtra == \A k \in Kept, p \in Slots : MadeOf(At(p)[k], promised[k])

LEMMA AtType ==
  ASSUME HTypeOK, NEW p \in Slots
  PROVE  At(p) \in [Keys -> Entry]
<1>1. levels \in Levels
  BY DEF HTypeOK, TypeOK, Levels, Level
<1>2. CASE p = MemSlot
  BY <1>2 DEF At, HTypeOK, TypeOK
<1>3. CASE p # MemSlot
  <2>1. p \in Places(levels)
    BY <1>1, <1>3, SlotsArePairs
  <2>2. PICK i \in 1..Len(levels) : \E j \in 1..Len(levels[i]) : p = <<i, j>>
    BY <1>1, <2>1, PlacesAre
  <2>3. levels[p[1]][p[2]] \in Table
    BY <1>1, <2>2 DEF Levels, Level
  <2> QED
    BY <1>3, <2>3 DEF At, Table
<1> QED
  BY <1>2, <1>3

(* When every record fits, readers find in a place what it holds.          *)
LEMMA FoundIsAt ==
  ASSUME Fits, HTypeOK, NEW p \in Slots, NEW k \in Keys
  PROVE  Found(p, k) = At(p)[k]
<1>1. \A j \in Records(At(p)) : Readable(j, At(p)[j])
  BY AtType DEF Records, Entry, Fits
<1>2. SSTGet(At(p), k) = At(p)[k]
  BY <1>1 DEF SSTGet
<1> QED
  BY <1>2 DEF Found, At

-----------------------------------------------------------------------------
(* Nothing is added.                                                       *)

(* The merge of a level has a key only if one of its tables has, and       *)
(* nothing that the values of the tables are not made of.                  *)
LEMMA MergedAddsNothing ==
  ASSUME NEW lv \in Level, NEW k \in Keys,
         \A j \in 1..Len(lv) : MadeOf(lv[j].data[k], promised[k])
  PROVE  MadeOf(Merged(lv)[k], promised[k])
<1> DEFINE hits   == Holders(lv, k)
           newest == Reading(lv, Min(hits), k)
           older  == {j \in hits \ {Min(hits)} : Reading(lv, j, k) # Tomb}
           pieces == UNION {Reading(lv, j, k) : j \in older}
<1>1. DOMAIN lv = 1..Len(lv)
  BY DEF Level
<1>2. \A j \in 1..Len(lv) : MadeOf(Reading(lv, j, k), promised[k])
  <2> SUFFICES ASSUME NEW j \in 1..Len(lv)
               PROVE  MadeOf(Reading(lv, j, k), promised[k])
    OBVIOUS
  <2>1. Reading(lv, j, k) \in {Absent, lv[j].data[k]}
    BY DEF Reading, CompactionReads, NoRecords
  <2> QED
    BY <2>1 DEF MadeOf
<1>3. \A j \in hits : /\ j \in 1..Len(lv)
                      /\ Reading(lv, j, k) \in Value
                      /\ promised[k] # Absent
                      /\ Merging => Reading(lv, j, k) \subseteq promised[k]
  BY <1>1, <1>2 DEF Holders, MadeOf
<1>4. Merged(lv)[k] = IF hits = {} \/ newest = Tomb THEN Absent
                      ELSE IF Merging THEN Merge(newest, pieces) ELSE newest
  BY DEF Merged, MergedEntry
<1>5. CASE hits = {} \/ newest = Tomb
  BY <1>4, <1>5 DEF MadeOf
<1>6. CASE hits # {} /\ newest # Tomb
  <2>1. Min(hits) \in hits
    BY <1>6, HoldersAreNats, MinOfNats
  <2>2. /\ newest \in Value
        /\ promised[k] # Absent
        /\ Merging => newest \subseteq promised[k]
    BY <1>3, <2>1
  <2>3. pieces \in SUBSET Data /\ (Merging => pieces \subseteq promised[k])
    BY <1>3 DEF Value
  <2>4. Merge(newest, pieces) \in Value
    BY <2>2, <2>3 DEF Merge, Value
  <2> QED
    BY <1>4, <1>6, <2>2, <2>3, <2>4 DEF Merge, MadeOf
<1> QED
  BY <1>5, <1>6

LEMMA MovesAddNothing ==
  ASSUME NothingExtra, UNCHANGED promised, NEW l, NEW d, Moves(l, d),
         \A k \in Kept : MadeOf(d[k], promised[k])
  PROVE  NothingExtra'
<1> SUFFICES ASSUME NEW k \in Kept, NEW q \in Slots'
             PROVE  MadeOf(At(q)'[k], promised'[k])
  BY DEF NothingExtra
<1>1. At(q)' = d \/ At(q)' = NoRecords \/ \E p \in Slots : At(q)' = At(p)
  BY DEF Moves
<1>2. k \in Keys
  BY DEF Kept
<1>3. MadeOf(At(q)'[k], promised[k])
  BY <1>1, <1>2 DEF NothingExtra, MadeOf, NoRecords
<1> QED
  BY <1>3 DEF MadeOf

LEMMA WriteAddsNothing ==
  ASSUME HTypeOK, NothingExtra, NEW k \in Keys, NEW v \in Value \cup {Tomb}, Write(k, v),
         v = Tomb => k \notin Kept,
         \A x \in Keys \ {k} : promised'[x] = promised[x],
         v # Tomb => promised'[k] = IF Merging /\ promised[k] # Absent
                                      THEN promised[k] \cup v ELSE v
  PROVE  NothingExtra'
<1>1. Slots' = Slots /\ \A p \in Slots : p # MemSlot => At(p)' = At(p)
  BY DEF Write, Slots, TableSlots, At
<1>2. /\ At(MemSlot) = memTable /\ At(MemSlot)' = MemPut(memTable, k, v)
      /\ memTable \in [Keys -> Entry] /\ MemSlot \in Slots
  BY DEF Write, At, HTypeOK, TypeOK, Slots
<1> SUFFICES ASSUME NEW x \in Kept, NEW p \in Slots
             PROVE  MadeOf(At(p)'[x], promised'[x])
  BY <1>1 DEF NothingExtra
<1>3. x \in Keys /\ MadeOf(At(p)[x], promised[x])
  BY DEF Kept, NothingExtra
<1>4. CASE x # k
  <2>1. At(p)'[x] = At(p)[x] /\ promised'[x] = promised[x]
    BY <1>1, <1>2, <1>3, <1>4 DEF MemPut
  <2> QED
    BY <1>3, <2>1 DEF MadeOf
<1>5. CASE x = k
  <2>1. v \in Value /\ v # Tomb /\ v # Absent
    BY <1>5, ValuesAreNotMarks
  <2>2. promised'[k] = IF Merging /\ promised[k] # Absent THEN promised[k] \cup v ELSE v
    BY <2>1
  <2>3. promised'[k] # Absent
    <3>1. promised[k] \in {Absent} \cup Value
      BY DEF HTypeOK
    <3>2. promised'[k] \in SUBSET Data
      BY <2>1, <2>2, <3>1 DEF Value
    <3> QED
      BY <3>2, EntriesDiffer
  <2>4. CASE p # MemSlot
    <3>1. At(p)'[k] = At(p)[k]
      BY <1>1, <2>4
    <3> QED
      BY <1>3, <1>5, <2>2, <2>3, <3>1 DEF MadeOf
  <2>5. CASE p = MemSlot
    <3>1. At(p)'[k] = IF Merging /\ memTable[k] \notin {Absent, Tomb}
                        THEN v \cup memTable[k] ELSE v
      BY <1>2, <2>1, <2>5 DEF MemPut, Merge
    <3>2. memTable[k] # Absent => MadeOf(memTable[k], promised[k])
      BY <1>2, <1>3, <1>5, <2>5
    <3> QED
      BY <1>5, <2>1, <2>2, <2>3, <3>1, <3>2 DEF MadeOf, Value
  <2> QED
    BY <2>4, <2>5
<1> QED
  BY <1>4, <1>5

LEMMA FlushAddsNothing ==
  ASSUME HTypeOK, NothingExtra, Flush, UNCHANGED promised
  PROVE  NothingExtra'
<1>1. Moves(0, memTable)
  BY FlushMoves DEF HTypeOK, TypeOK, Levels, Level
<1>2. MemSlot \in Slots /\ At(MemSlot) = memTable
  BY DEF Slots, At
<1>3. \A k \in Kept : MadeOf(memTable[k], promised[k])
  BY <1>2 DEF NothingExtra
<1> QED
  BY <1>1, <1>3, MovesAddNothing

LEMMA CompactAddsNothing ==
  ASSUME HTypeOK, NothingExtra, Compact, UNCHANGED promised
  PROVE  NothingExtra'
<1>0. PICK l : l = level
  OBVIOUS
<1>1. levels \in Levels /\ l \in 1..Len(levels) /\ l \in Nat \ {0}
  BY <1>0 DEF HTypeOK, TypeOK, Levels, Level, Compact, IsFull
<1>2. Moves(l, Merged(levels[l]))
  BY <1>0, <1>1, CompactMoves DEF HTypeOK, TypeOK
<1>3. levels[l] \in Level
  BY <1>1 DEF Levels
<1>4. ASSUME NEW k \in Kept
      PROVE  MadeOf(Merged(levels[l])[k], promised[k])
  <2>1. k \in Keys
    BY DEF Kept
  <2>2. ASSUME NEW j \in 1..Len(levels[l])
        PROVE  MadeOf(levels[l][j].data[k], promised[k])
    <3>1. <<l, j>> \in Slots /\ At(<<l, j>>) = levels[l][j].data
      BY <1>1, TableAt
    <3> QED
      BY <3>1 DEF NothingExtra
  <2> QED
    BY <1>3, <2>1, <2>2, MergedAddsNothing
<1> QED
  BY <1>2, <1>4, MovesAddNothing

(* No place ever holds, for a key no client deletes, a tombstone or a      *)
(* piece that was not put: neither flushes nor compactions, nor failures   *)
(* of either, make anything up.                                            *)
THEOREM NothingIsMadeUp == Spec => []NothingExtra
<1>1. HInit => NothingExtra
  BY DEF HInit, Init, NothingExtra, MadeOf, Kept, Slots, TableSlots, At, MemSlot, NoRecords
<1>2. HTypeOK /\ NothingExtra /\ [HNext]_hvars => NothingExtra'
  <2> SUFFICES ASSUME HTypeOK, NothingExtra, [HNext]_hvars
               PROVE  NothingExtra'
    OBVIOUS
  <2>1. ASSUME NEW k \in Keys, NEW v \in Value, HPut(k, v)
        PROVE  NothingExtra'
    <3>1. v # Tomb /\ Write(k, v)
      BY <2>1, ValuesAreNotMarks DEF HPut, Put
    <3>2. promised' = [promised EXCEPT ![k] = IF Merging /\ promised[k] # Absent
                                                THEN promised[k] \cup v ELSE v]
      BY <2>1 DEF HPut, Client!Put
    <3>3. promised \in [Keys -> {Absent} \cup Value]
      BY DEF HTypeOK
    <3>4. /\ \A x \in Keys \ {k} : promised'[x] = promised[x]
          /\ promised'[k] = IF Merging /\ promised[k] # Absent
                              THEN promised[k] \cup v ELSE v
      BY <3>2, <3>3
    <3> QED
      BY <3>1, <3>4, WriteAddsNothing
  <2>2. ASSUME NEW k \in Keys, HDelete(k)
        PROVE  NothingExtra'
    <3>1. k \notin Kept /\ Write(k, Tomb)
      BY <2>2 DEF HDelete, Delete, Kept
    <3>2. \A x \in Keys \ {k} : promised'[x] = promised[x]
      BY <2>2 DEF HDelete, Client!Delete, HTypeOK
    <3> QED
      BY <3>1, <3>2, WriteAddsNothing
  <2>3. CASE Flush /\ UNCHANGED promised
    BY <2>3, FlushAddsNothing
  <2>4. CASE Compact /\ UNCHANGED promised
    BY <2>4, CompactAddsNothing
  <2>5. CASE /\ FlushFails \/ CompactFails \/ CompactDone \/ HGet \/ UNCHANGED hvars
             /\ UNCHANGED promised
    <3>1. UNCHANGED <<memTable, levels, promised>>
      BY <2>5 DEF FlushFails, CompactFails, CompactDone, HGet, hvars
    <3>2. Slots' = Slots /\ \A p \in Slots : At(p)' = At(p)
      BY <3>1 DEF Slots, TableSlots, At
    <3> QED
      BY <3>1, <3>2 DEF NothingExtra, MadeOf
  <2> QED
    BY <2>1, <2>2, <2>3, <2>4, <2>5 DEF HNext, HMaintenance, Maintenance, HGet, hvars
<1> QED
  BY <1>1, <1>2, TypeCorrect, PTL DEF Spec

-----------------------------------------------------------------------------
(* Nothing lost and nothing made up: the tree has exactly what the store   *)
(* has.                                                                    *)
Has(k) == IF Merging THEN Contents(k) ELSE Get(k)

Exact == \A k \in Kept : Has(k) = promised[k]

LEMMA MergingIsExact ==
  ASSUME Merging, NoPieceLost, NothingExtra
  PROVE  Exact
<1> SUFFICES ASSUME NEW k \in Kept
             PROVE  Contents(k) = promised[k]
  BY DEF Exact, Has
<1> DEFINE live == {p \in Slots : /\ At(p)[k] \notin {Absent, Tomb}
                                  /\ \A q \in Slots : Newer(q, p) => At(q)[k] # Tomb}
<1>1. Contents(k) = IF live = {} THEN Absent ELSE UNION {At(p)[k] : p \in live}
  BY DEF Contents
<1>2. k \in Keys
  BY DEF Kept
<1>3. \A p \in live : promised[k] # Absent /\ At(p)[k] \subseteq promised[k]
  BY DEF NothingExtra, MadeOf
<1>4. CASE promised[k] = Absent
  BY <1>1, <1>3, <1>4
<1>5. CASE promised[k] # Absent
  <2>1. Contents(k) # Absent /\ promised[k] \subseteq Contents(k)
    BY <1>2, <1>5 DEF NoPieceLost
  <2>2. Contents(k) = UNION {At(p)[k] : p \in live}
    BY <1>1, <2>1
  <2>3. Contents(k) \subseteq promised[k]
    BY <1>3, <2>2
  <2> QED
    BY <2>1, <2>3
<1> QED
  BY <1>4, <1>5

(* A key of which nothing was put is answered with nothing.                *)
LEMMA UnputIsAbsent ==
  ASSUME Fits, HTypeOK, NothingExtra, NEW k \in Kept, promised[k] = Absent
  PROVE  Get(k) = Absent
<1>1. k \in Keys
  BY DEF Kept
<1>2. \A p \in Slots : Found(p, k) = Absent
  BY <1>1, FoundIsAt DEF NothingExtra, MadeOf
<1> QED
  BY <1>2 DEF Get

LEMMA PlainIsExact ==
  ASSUME Fits, ~Merging, HTypeOK, LastPutWins, NothingExtra
  PROVE  Exact
BY UnputIsAbsent DEF Exact, Has, LastPutWins, Kept

LEMMA AlwaysExact ==
  ASSUME Fits
  PROVE  Spec => []Exact
<1>1. CASE Merging
  <2>1. Spec => []NoPieceLost
    BY <1>1, NoPieceEverLost
  <2>2. NoPieceLost /\ NothingExtra => Exact
    BY <1>1, MergingIsExact
  <2> QED
    BY <2>1, <2>2, NothingIsMadeUp, PTL
<1>2. CASE ~Merging
  <2>1. Spec => []LastPutWins
    BY <1>2, LastPutAlwaysWins
  <2>2. HTypeOK /\ LastPutWins /\ NothingExtra => Exact
    BY <1>2, PlainIsExact
  <2> QED
    BY <2>1, <2>2, TypeCorrect, NothingIsMadeUp, PTL
<1> QED
  BY <1>1, <1>2

(* A client's Put of a key no client deletes is the abstract store's Put   *)
(* of it, and no other step shows.                                         *)
LEMMA StepServes ==
  ASSUME HTypeOK, Exact, Exact', [HNext]_hvars
  PROVE  Serves
<1>1. View = [k \in Kept |-> promised[k]] /\ View' = [k \in Kept |-> promised'[k]]
  BY DEF View, Exact, Has
<1>2. promised \in [Keys -> {Absent} \cup Value] /\ Kept \subseteq Keys
  BY DEF HTypeOK, Kept
<1>3. ASSUME NEW k \in Keys, NEW v \in Value, HPut(k, v)
      PROVE  IF k \in Kept THEN Stored!Put(k, v) ELSE View' = View
  <2>1. promised' = [promised EXCEPT ![k] = IF Merging /\ promised[k] # Absent
                                              THEN promised[k] \cup v ELSE v]
    BY <1>3 DEF HPut, Client!Put
  <2>2. CASE k \in Kept
    <3>1. View' = [View EXCEPT ![k] = IF Merging /\ View[k] # Absent
                                        THEN View[k] \cup v ELSE v]
      BY <1>1, <1>2, <2>1, <2>2
    <3> QED
      BY <2>2, <3>1 DEF Stored!Put
  <2>3. CASE k \notin Kept
    BY <1>1, <1>2, <2>1, <2>3
  <2> QED
    BY <2>2, <2>3
<1>4. ASSUME NEW k \in Keys, HDelete(k)
      PROVE  View' = View
  <2>1. k \notin Kept /\ promised' = [promised EXCEPT ![k] = Absent]
    BY <1>4 DEF HDelete, Client!Delete, Kept
  <2> QED
    BY <1>1, <1>2, <2>1
<1>5. ASSUME UNCHANGED promised
      PROVE  View' = View
  BY <1>1, <1>5
<1>6. \A k \in Kept, v \in Value : HPut(k, v) => Stored!Put(k, v)
  BY <1>2, <1>3
<1>7. (\E k \in Kept, v \in Value : HPut(k, v)) \/ View' = View
  BY <1>2, <1>3, <1>4, <1>5 DEF HNext, HMaintenance, HGet, hvars
<1> QED
  BY <1>6, <1>7 DEF Serves

(* A step the tree serves is a step of the abstract store.                 *)
LEMMA ServedIsStoreStep ==
  ASSUME Serves
  PROVE  [Stored!Next]_View
<1>1. CASE UNCHANGED View
  BY <1>1
<1>2. CASE \E k \in Kept, v \in Value : HPut(k, v)
  <2>1. PICK k \in Kept, v \in Value : HPut(k, v)
    BY <1>2
  <2>2. Stored!Put(k, v) /\ v \in Stored!Value
    BY <2>1 DEF Serves, Value, Stored!Value
  <2> QED
    BY <2>2 DEF Stored!Next
<1> QED
  BY <1>1, <1>2 DEF Serves

(* The tree implements the abstract store, with a MergeFn and without,     *)
(* when every record clients write can be read: for the keys no client     *)
(* deletes a client's Put is the abstract Put, and no other step, be it a  *)
(* flush, a compaction or a failure of one, changes what the store has.    *)
THEOREM TreeIsStore ==
  ASSUME Fits
  PROVE  Spec => IsStore
<1>1. HInit /\ Exact => Stored!Init
  BY DEF HInit, Client!Init, Stored!Init, View, Exact, Has, Kept
<1>2. HTypeOK /\ Exact /\ Exact' /\ [HNext]_hvars => [Stored!Next]_View /\ [Serves]_hvars
  BY StepServes, ServedIsStoreStep
<1>3. Spec => []Exact
  BY AlwaysExact
<1> QED
  BY <1>1, <1>2, <1>3, TypeCorrect, PTL DEF Spec, IsStore, Stored!Spec

-----------------------------------------------------------------------------
(* With a MergeFn, Get answers a key no client deletes with all that was   *)
(* put, when one place holds it.                                           *)
LEMMA UnsplitIsWhole ==
  ASSUME Fits, HTypeOK, Exact, NothingExtra
  PROVE  Merging => UnsplitKeyReadsWhole
<1> SUFFICES ASSUME Merging, NEW k \in Kept, NEW p \in Slots,
                    \A q \in Slots \ {p} : At(q)[k] = Absent
             PROVE  Get(k) = promised[k]
  BY DEF UnsplitKeyReadsWhole
<1>1. k \in Keys /\ \A q \in Slots : Found(q, k) = At(q)[k]
  BY FoundIsAt DEF Kept
<1>2. CASE promised[k] = Absent
  BY <1>2, UnputIsAbsent
<1>3. CASE promised[k] # Absent
  <2> DEFINE live == {q \in Slots : /\ At(q)[k] \notin {Absent, Tomb}
                                    /\ \A r \in Slots : Newer(r, q) => At(r)[k] # Tomb}
             hits == {q \in Slots : Found(q, k) # Absent}
  <2>1. Contents(k) = IF live = {} THEN Absent ELSE UNION {At(q)[k] : q \in live}
    BY DEF Contents
  <2>2. Contents(k) = promised[k]
    BY DEF Exact, Has
  <2>3. live = {p}
    BY <1>3, <2>1, <2>2
  <2>4. Contents(k) = At(p)[k] /\ At(p)[k] \notin {Absent, Tomb}
    BY <2>1, <2>3
  <2>5. hits = {p} /\ Found(p, k) = promised[k]
    BY <1>1, <2>2, <2>4
  <2>6. ~Newer(p, p)
    <3>1. p[1] \in Nat /\ p[2] \in Nat
      BY SlotsArePairs DEF HTypeOK, TypeOK, Levels, Level
    <3> QED
      BY <3>1 DEF Newer
  <2>7. (CHOOSE q \in hits : \A r \in hits : ~Newer(r, q)) = p
    BY <2>5, <2>6
  <2> QED
    BY <1>3, <2>2, <2>4, <2>5, <2>7 DEF Get
<1> QED
  BY <1>2, <1>3

(* However many tables and levels there are: Get, which never calls the    *)
(* MergeFn, misses nothing of a key that one place holds.                  *)
THEOREM UnsplitReadsWhole ==
  ASSUME Fits, Merging
  PROVE  Spec => []UnsplitKeyReadsWhole
<1>1. HTypeOK /\ Exact /\ NothingExtra => UnsplitKeyReadsWhole
  BY UnsplitIsWhole
<1>2. Spec => []Exact
  BY AlwaysExact
<1> QED
  BY <1>1, <1>2, TypeCorrect, NothingIsMadeUp, PTL

-----------------------------------------------------------------------------
(* What flushes and compactions do to the answers of Get when every record *)
(* clients write can be read: the one thing that shows is a tombstone that *)
(* is dropped.                                                             *)

(* The newest place with a version of the key.                             *)
First(p, k) == /\ p \in Slots /\ At(p)[k] # Absent
               /\ \A q \in Slots : Newer(q, p) => At(q)[k] = Absent

NoVersion(k) == \A p \in Slots : At(p)[k] = Absent

LEMMA FirstExists ==
  ASSUME HTypeOK, NEW k, ~NoVersion(k)
  PROVE  \E p : First(p, k)
<1> DEFINE hits == {p \in Slots : At(p)[k] # Absent}
           rows == {p[1] : p \in hits}
<1>1. levels \in Levels
  BY DEF HTypeOK, TypeOK, Levels, Level
<1>2. \A p \in hits : p = <<p[1], p[2]>> /\ p[1] \in Nat /\ p[2] \in Nat
  BY <1>1, SlotsArePairs
<1>3. rows \in SUBSET Nat /\ rows # {}
  BY <1>2 DEF NoVersion
<1>4. Min(rows) \in rows /\ \A i \in rows : Min(rows) <= i
  BY <1>3, MinOfNats
<1> DEFINE cols == {p[2] : p \in {q \in hits : q[1] = Min(rows)}}
<1>5. cols \in SUBSET Nat /\ cols # {}
  BY <1>2, <1>4
<1>6. Min(cols) \in cols /\ \A j \in cols : Min(cols) <= j
  BY <1>5, MinOfNats
<1>7. PICK p \in hits : p[1] = Min(rows) /\ p[2] = Min(cols)
  BY <1>6
<1>8. ASSUME NEW q \in hits, Newer(q, p)
      PROVE  FALSE
  <2>1. q[1] \in rows /\ p[1] <= q[1] /\ q[1] \in Nat /\ p[1] \in Nat /\ q[2] \in Nat /\ p[2] \in Nat
    BY <1>2, <1>4, <1>7
  <2>2. q[1] = p[1] /\ q[2] < p[2]
    BY <1>8, <2>1 DEF Newer
  <2>3. q[2] \in cols
    BY <1>7, <2>2
  <2>4. p[2] <= q[2]
    BY <1>6, <1>7, <2>3
  <2> QED
    BY <2>1, <2>2, <2>4
<1> QED
  BY <1>7, <1>8 DEF First

(* What Get answers with.                                                  *)
Answers ==
  \A k \in Keys :
    /\ NoVersion(k) => Get(k) = Absent
    /\ NoVersion(k) \/ \E p \in Slots : First(p, k)
    /\ \A p : First(p, k) => Get(k) = IF At(p)[k] = Tomb THEN Absent ELSE At(p)[k]

LEMMA GetIsFirst ==
  ASSUME Fits, HTypeOK
  PROVE  Answers
<1> SUFFICES ASSUME NEW k \in Keys
             PROVE  /\ NoVersion(k) => Get(k) = Absent
                    /\ NoVersion(k) \/ \E p \in Slots : First(p, k)
                    /\ \A p : First(p, k) =>
                         Get(k) = IF At(p)[k] = Tomb THEN Absent ELSE At(p)[k]
  BY DEF Answers
<1> DEFINE hits   == {q \in Slots : Found(q, k) # Absent}
           newest == CHOOSE q \in hits : \A r \in hits : ~Newer(r, q)
<1>1. \A q \in Slots : Found(q, k) = At(q)[k]
  BY FoundIsAt
<1>2. ASSUME NoVersion(k) PROVE Get(k) = Absent
  <2>1. hits = {}
    BY <1>1, <1>2 DEF NoVersion
  <2> QED
    BY <2>1 DEF Get
<1>3. ASSUME NEW p, First(p, k)
      PROVE  Get(k) = IF At(p)[k] = Tomb THEN Absent ELSE At(p)[k]
  <2>0. levels \in Levels
    BY DEF HTypeOK, TypeOK, Levels, Level
  <2>1. p \in hits /\ \A q \in hits : ~Newer(q, p)
    BY <1>1, <1>3 DEF First
  <2>2. newest \in hits /\ ~Newer(p, newest) /\ ~Newer(newest, p)
    BY <2>1
  <2> HIDE DEF newest
  <2>3. newest = p
    <3>1. newest = <<newest[1], newest[2]>> /\ p = <<p[1], p[2]>>
      BY <2>0, <2>1, <2>2, SlotsArePairs
    <3>2. newest[1] \in Nat /\ newest[2] \in Nat /\ p[1] \in Nat /\ p[2] \in Nat
      BY <2>0, <2>1, <2>2, SlotsArePairs
    <3>3. newest[1] = p[1] /\ newest[2] = p[2]
      BY <2>2, <3>2 DEF Newer
    <3> QED
      BY <3>1, <3>3
  <2>4. Get(k) = IF hits = {} \/ Found(newest, k) = Tomb THEN Absent ELSE Found(newest, k)
    BY DEF Get, newest
  <2> QED
    BY <1>1, <2>1, <2>3, <2>4
<1>4. NoVersion(k) \/ \E p \in Slots : First(p, k)
  BY FirstExists DEF First
<1> QED
  BY <1>2, <1>3, <1>4

-----------------------------------------------------------------------------
(* A merged level answers as its tables did, but for a tombstone.          *)
LEMMA MergedOfTomb ==
  ASSUME Fits, NEW lv \in Level, NEW k \in Keys, NEW n \in 1..Len(lv),
         lv[n].data[k] = Tomb,
         \A j \in 1..Len(lv) : j < n => lv[j].data[k] = Absent
  PROVE  Merged(lv)[k] = Absent
<1>1. DOMAIN lv = 1..Len(lv) /\ Len(lv) \in Nat
  BY DEF Level
<1>2. Holders(lv, k) = {j \in 1..Len(lv) : lv[j].data[k] # Absent}
  BY <1>1, ReadsAll DEF Holders
<1>3. n \in Holders(lv, k) /\ \A j \in Holders(lv, k) : n <= j
  BY <1>1, <1>2, EntriesDiffer
<1>4. Min(Holders(lv, k)) = n
  BY <1>3, HoldersAreNats, MinIs
<1>5. Reading(lv, n, k) = Tomb
  BY ReadsAll
<1> QED
  BY <1>3, <1>4, <1>5 DEF Merged, MergedEntry

LEMMA MergedOfValue ==
  ASSUME Fits, NEW lv \in Level, NEW k \in Keys, NEW n \in 1..Len(lv),
         lv[n].data[k] \notin {Absent, Tomb},
         \A j \in 1..Len(lv) : j < n => lv[j].data[k] = Absent
  PROVE  /\ Merged(lv)[k] \notin {Absent, Tomb}
         /\ ~Merging => Merged(lv)[k] = lv[n].data[k]
<1>1. CASE ~Merging
  BY <1>1, MergedOfNewest
<1>2. CASE Merging
  <2>1. lv[n].data[k] \in Entry
    BY ReadsAll
  <2>2. PICK x : x \in lv[n].data[k]
    BY <2>1 DEF Entry, Value
  <2>3. \A j \in 1..Len(lv) : j < n => lv[j].data[k] # Tomb
    BY EntriesDiffer
  <2> QED
    BY <1>2, <2>2, <2>3, MergedKeepsPieces
<1> QED
  BY <1>1, <1>2, MergingIsBoolean

-----------------------------------------------------------------------------
(* A level is replaced by the data d one level down, where d has no        *)
(* version of a key unless the level had one: a key whose first version is *)
(* not in that level keeps it.                                             *)
LEMMA OthersStayFirst ==
  ASSUME HTypeOK, NEW l, NEW d, Moves(l, d), NEW k \in Keys,
         (\A p \in Slots : p[1] = l => At(p)[k] = Absent) => d[k] = Absent
  PROVE  /\ NoVersion(k) => NoVersion(k)'
         /\ \A p : First(p, k) /\ p[1] # l => /\ First(Down(p, l), k)'
                                              /\ At(Down(p, l))'[k] = At(p)[k]
<1>1. levels \in Levels /\ l \in Nat
  BY DEF HTypeOK, TypeOK, Levels, Level, Moves
<1>2. \A q \in Slots' : \/ q = <<l + 1, 1>> /\ At(q)' = d
                        \/ q = MemSlot /\ At(q)'[k] = Absent
                        \/ \E r \in Slots : /\ r[1] # l /\ q = Down(r, l)
                                            /\ At(q)'[k] = At(r)[k]
  BY DEF Moves, NoRecords
<1>3. ASSUME NoVersion(k) PROVE NoVersion(k)'
  BY <1>2, <1>3 DEF NoVersion
<1>4. ASSUME NEW p, First(p, k), p[1] # l
      PROVE  First(Down(p, l), k)' /\ At(Down(p, l))'[k] = At(p)[k]
  <2>1. p \in Slots /\ Down(p, l) \in Slots' /\ At(Down(p, l))'[k] = At(p)[k]
    BY <1>4 DEF First, Moves
  <2>2. ASSUME NEW q \in Slots', Newer(q, Down(p, l))
        PROVE  At(q)'[k] = Absent
    <3>1. CASE q = <<l + 1, 1>> /\ At(q)' = d
      <4>1. p[1] > l
        BY <1>1, <1>4, <2>1, <2>2, <3>1, DownKeepsOrder
      <4>2. \A r \in Slots : r[1] = l => Newer(r, p)
        BY <4>1 DEF Newer
      <4> QED
        BY <1>4, <3>1, <4>2 DEF First
    <3>2. CASE \E r \in Slots : r[1] # l /\ q = Down(r, l) /\ At(q)'[k] = At(r)[k]
      <4>1. PICK r \in Slots : r[1] # l /\ q = Down(r, l) /\ At(q)'[k] = At(r)[k]
        BY <3>2
      <4>2. Newer(r, p)
        BY <1>1, <1>4, <2>1, <2>2, <4>1, DownKeepsOrder
      <4> QED
        BY <1>4, <4>1, <4>2 DEF First
    <3> QED
      BY <1>2, <3>1, <3>2
  <2> QED
    BY <1>4, <2>1, <2>2 DEF First
<1> QED
  BY <1>3, <1>4

(* A key whose first version is in that level has it in d, if anywhere.    *)
LEMMA MergedIsFirst ==
  ASSUME HTypeOK, NEW l, NEW d, Moves(l, d), NEW k \in Keys,
         NEW p, First(p, k), p[1] = l, d[k] # Absent
  PROVE  First(<<l + 1, 1>>, k)' /\ At(<<l + 1, 1>>)'[k] = d[k]
<1>1. levels \in Levels /\ l \in Nat /\ p \in Slots /\ p = <<p[1], p[2]>>
      /\ p[1] \in Nat /\ p[2] \in Nat
  BY SlotsArePairs DEF HTypeOK, TypeOK, Levels, Level, Moves, First
<1>2. <<l + 1, 1>> \in Slots' /\ At(<<l + 1, 1>>)' = d
  BY DEF Moves
<1>3. ASSUME NEW q \in Slots', Newer(q, <<l + 1, 1>>)
      PROVE  At(q)'[k] = Absent
  <2>1. q # <<l + 1, 1>>
    BY <1>1, <1>3 DEF Newer
  <2>2. CASE q = MemSlot /\ At(q)' = NoRecords
    BY <2>2 DEF NoRecords
  <2>3. CASE \E r \in Slots : r[1] # l /\ q = Down(r, l)
    <3>1. PICK r \in Slots : r[1] # l /\ q = Down(r, l)
      BY <2>3
    <3>2. At(q)' = At(r) /\ r[1] \in Nat
      BY <1>1, <3>1, SlotsArePairs DEF Moves
    <3>3. r[1] < l
      BY <1>1, <1>3, <3>1, DownKeepsOrder
    <3>4. Newer(r, p)
      BY <1>1, <3>2, <3>3 DEF Newer
    <3> QED
      BY <3>1, <3>2, <3>4 DEF First
  <2> QED
    BY <2>1, <2>2, <2>3 DEF Moves
<1> QED
  BY <1>2, <1>3 DEF First

-----------------------------------------------------------------------------
(* The answer for a key does not come back; without a MergeFn it does not  *)
(* change at all.                                                          *)
Same(k) == IF Merging THEN Get(k) = Absent => Get(k)' = Absent
                      ELSE Get(k)' = Get(k)

(* A tombstone is dropped above an older value.                            *)
Uncovers(l, d, k) ==
  /\ d[k] = Absent
  /\ \E p \in Slots : First(p, k) /\ p[1] = l /\ At(p)[k] = Tomb
  /\ \E q \in Slots : q[1] > l /\ At(q)[k] \notin {Absent, Tomb}

LEMMA SinkShows ==
  ASSUME HTypeOK, Answers, Answers', NEW l, NEW d, Moves(l, d), NEW k \in Keys,
         (\A p \in Slots : p[1] = l => At(p)[k] = Absent) => d[k] = Absent,
         \A p \in Slots : First(p, k) /\ p[1] = l =>
           IF At(p)[k] = Tomb THEN d[k] \in {Absent, Tomb}
           ELSE d[k] \notin {Absent, Tomb} /\ (~Merging => d[k] = At(p)[k])
  PROVE  Same(k) \/ Uncovers(l, d, k)
<1>1. levels \in Levels /\ l \in Nat
  BY DEF HTypeOK, TypeOK, Levels, Level, Moves
<1>2. CASE NoVersion(k)
  <2>1. NoVersion(k)'
    BY <1>2, OthersStayFirst
  <2>2. Get(k) = Absent /\ Get(k)' = Absent
    BY <1>2, <2>1 DEF Answers
  <2> QED
    BY <2>2 DEF Same
<1>3. ASSUME NEW p \in Slots, First(p, k), p[1] # l
      PROVE  Same(k)
  <2>1. First(Down(p, l), k)' /\ At(Down(p, l))'[k] = At(p)[k]
    BY <1>3, OthersStayFirst
  <2>2. Get(k) = IF At(p)[k] = Tomb THEN Absent ELSE At(p)[k]
    BY <1>3 DEF Answers
  <2>3. Get(k)' = IF At(Down(p, l))'[k] = Tomb THEN Absent ELSE At(Down(p, l))'[k]
    BY <2>1 DEF Answers
  <2> QED
    BY <2>1, <2>2, <2>3 DEF Same
<1>4. ASSUME NEW p \in Slots, First(p, k), p[1] = l
      PROVE  Same(k) \/ Uncovers(l, d, k)
  <2>1. Get(k) = IF At(p)[k] = Tomb THEN Absent ELSE At(p)[k]
    BY <1>4 DEF Answers
  <2>2. At(p)[k] # Absent
    BY <1>4 DEF First
  <2>3. CASE d[k] # Absent
    <3>1. First(<<l + 1, 1>>, k)' /\ At(<<l + 1, 1>>)'[k] = d[k]
      BY <1>4, <2>3, MergedIsFirst
    <3>2. Get(k)' = IF d[k] = Tomb THEN Absent ELSE d[k]
      BY <3>1 DEF Answers
    <3> QED
      BY <1>4, <2>1, <2>2, <2>3, <3>2 DEF Same
  <2>4. CASE d[k] = Absent
    <3>1. At(p)[k] = Tomb /\ Get(k) = Absent
      BY <1>4, <2>1, <2>4
    <3>2. CASE NoVersion(k)'
      BY <3>1, <3>2 DEF Answers, Same
    <3>3. ASSUME NEW q \in Slots', First(q, k)'
          PROVE  Same(k) \/ Uncovers(l, d, k)
      <4>1. Get(k)' = IF At(q)'[k] = Tomb THEN Absent ELSE At(q)'[k]
        BY <3>3 DEF Answers
      <4>2. CASE At(q)'[k] = Tomb
        BY <3>1, <4>1, <4>2 DEF Same
      <4>3. CASE At(q)'[k] # Tomb
        <5>1. At(q)'[k] # Absent
          BY <3>3 DEF First
        <5>2. PICK r \in Slots : r[1] # l /\ q = Down(r, l) /\ At(q)' = At(r)
          BY <2>4, <5>1 DEF Moves, NoRecords
        <5>3. r[1] > l
          <6>1. ~Newer(r, p)
            BY <1>4, <5>1, <5>2 DEF First
          <6>2. r[1] \in Nat
            BY <1>1, SlotsArePairs
          <6> QED
            BY <1>1, <1>4, <5>2, <6>1, <6>2 DEF Newer
        <5> QED
          BY <1>4, <2>4, <3>1, <4>3, <5>1, <5>2, <5>3 DEF Uncovers
      <4> QED
        BY <4>2, <4>3
    <3> QED
      BY <3>2, <3>3 DEF Answers
  <2> QED
    BY <2>3, <2>4
<1> QED
  BY <1>2, <1>3, <1>4 DEF Answers

LEMMA FlushIsSame ==
  ASSUME HTypeOK, Answers, Answers', Flush, NEW k \in Keys
  PROVE  Same(k)
<1>1. levels \in Levels /\ Moves(0, memTable)
  BY FlushMoves DEF HTypeOK, TypeOK, Levels, Level
<1>2. MemSlot \in Slots /\ MemSlot[1] = 0 /\ At(MemSlot) = memTable
  BY DEF Slots, MemSlot, At
<1>3. \A p \in Slots : p[1] = 0 => At(p) = memTable
  BY <1>1, MemIsLevelZero
<1>4. \A p \in Slots : First(p, k) => At(p)[k] # Absent
  BY DEF First
<1>5. Same(k) \/ Uncovers(0, memTable, k)
  BY <1>1, <1>2, <1>3, <1>4, SinkShows
<1>6. ~Uncovers(0, memTable, k)
  BY <1>3, <1>4 DEF Uncovers
<1> QED
  BY <1>5, <1>6

LEMMA CompactIsSame ==
  ASSUME Fits, HTypeOK, Answers, Answers', Compact, NEW k \in Keys
  PROVE  Same(k) \/ TombDropped(k)
<1>0. PICK l : l = level
  OBVIOUS
<1>1. levels \in Levels /\ l \in 1..Len(levels) /\ l \in Nat \ {0}
  BY <1>0 DEF HTypeOK, TypeOK, Levels, Level, Compact, IsFull
<1> DEFINE d == Merged(levels[l])
<1>2. Moves(l, d)
  BY <1>0, <1>1, CompactMoves DEF HTypeOK, TypeOK
<1>3. levels[l] \in Level
  BY <1>1 DEF Levels
<1>4. /\ \A j \in 1..Len(levels[l]) : <<l, j>> \in Slots /\ At(<<l, j>>) = levels[l][j].data
      /\ \A p \in Slots : p[1] = l => /\ p[2] \in 1..Len(levels[l])
                                      /\ At(p) = levels[l][p[2]].data
  BY <1>1, TableAt
<1>5. (\A p \in Slots : p[1] = l => At(p)[k] = Absent) => d[k] = Absent
  <2> SUFFICES ASSUME \A p \in Slots : p[1] = l => At(p)[k] = Absent
               PROVE  d[k] = Absent
    OBVIOUS
  <2>1. \A j \in 1..Len(levels[l]) : levels[l][j].data[k] = Absent
    BY <1>4
  <2> QED
    BY <1>3, <2>1, MergedOfNone
<1>6. ASSUME NEW p \in Slots, First(p, k), p[1] = l
      PROVE  /\ levels[l][p[2]].data[k] = At(p)[k] /\ At(p)[k] # Absent
             /\ p[2] \in 1..Len(levels[l])
             /\ \A j \in 1..Len(levels[l]) : j < p[2] => levels[l][j].data[k] = Absent
  <2>1. p \in Slots /\ At(p)[k] # Absent /\ \A q \in Slots : Newer(q, p) => At(q)[k] = Absent
    BY <1>6 DEF First
  <2>2. p[2] \in 1..Len(levels[l]) /\ At(p) = levels[l][p[2]].data
    BY <1>4, <1>6, <2>1
  <2>3. ASSUME NEW j \in 1..Len(levels[l]), j < p[2]
        PROVE  levels[l][j].data[k] = Absent
    <3>1. <<l, j>> \in Slots /\ At(<<l, j>>) = levels[l][j].data
      BY <1>4
    <3>2. Newer(<<l, j>>, p)
      BY <1>6, <2>3 DEF Newer
    <3>3. At(<<l, j>>)[k] = Absent
      BY <2>1, <3>1, <3>2
    <3> QED
      BY <3>1, <3>3
  <2> QED
    BY <2>1, <2>2, <2>3
<1>7. ASSUME NEW p \in Slots, First(p, k), p[1] = l
      PROVE  IF At(p)[k] = Tomb THEN d[k] \in {Absent, Tomb}
             ELSE d[k] \notin {Absent, Tomb} /\ (~Merging => d[k] = At(p)[k])
  <2>1. CASE At(p)[k] = Tomb
    BY <1>3, <1>6, <1>7, <2>1, MergedOfTomb
  <2>2. CASE At(p)[k] # Tomb
    BY <1>3, <1>6, <1>7, <2>2, MergedOfValue
  <2> QED
    BY <2>1, <2>2
<1>8. Same(k) \/ Uncovers(l, d, k)
  <2> HIDE DEF d
  <2> QED
    BY <1>2, <1>5, <1>7, SinkShows
<1>9. ASSUME Uncovers(l, d, k)
      PROVE  TombDropped(k)
  <2>1. PICK p \in Slots : First(p, k) /\ p[1] = l /\ At(p)[k] = Tomb
    BY <1>9 DEF Uncovers
  <2>2. PICK q \in Slots : q[1] > l /\ At(q)[k] \notin {Absent, Tomb}
    BY <1>9 DEF Uncovers
  <2>3. q \in TableSlots
    BY <1>1, <2>2 DEF Slots, MemSlot
  <2>4. DOMAIN levels[l] = 1..Len(levels[l])
    BY <1>3 DEF Level
  <2>5. \E j \in DOMAIN levels[l] :
          /\ levels[l][j].data[k] = Tomb
          /\ \A i \in DOMAIN levels[l] : i < j => levels[l][i].data[k] = Absent
    BY <1>6, <2>1, <2>4
  <2> QED
    BY <1>0, <2>2, <2>3, <2>5 DEF TombDropped, Compact
<1> QED
  BY <1>8, <1>9

LEMMA MaintenanceIsSame ==
  ASSUME Fits, HTypeOK, Answers, Answers', Maintenance, NEW k \in Keys
  PROVE  Same(k) \/ TombDropped(k)
<1>1. CASE FlushFails \/ CompactFails \/ CompactDone
  <2>1. memTable' = memTable /\ levels' = levels
    BY <1>1 DEF FlushFails, CompactFails, CompactDone
  <2>2. Get(k)' = Get(k)
    BY <2>1 DEF Get, Slots, TableSlots, Found, At
  <2> QED
    BY <2>2 DEF Same
<1> QED
  BY <1>1, FlushIsSame, CompactIsSame DEF Maintenance

-----------------------------------------------------------------------------
(* What the operations of clients do to the answers.                       *)
LEMMA WriteIsSame ==
  ASSUME HTypeOK, Answers, Answers', NEW x \in Keys, NEW v, Write(x, v),
         NEW k \in Keys, k # x
  PROVE  Get(k)' = Get(k)
<1>1. Slots' = Slots /\ \A p \in Slots : p # MemSlot => At(p)' = At(p)
  BY DEF Write, Slots, TableSlots, At
<1>2. At(MemSlot)'[k] = At(MemSlot)[k]
  BY DEF Write, MemPut, At, HTypeOK, TypeOK
<1>3. \A p \in Slots : At(p)'[k] = At(p)[k]
  BY <1>1, <1>2
<1>4. CASE NoVersion(k)
  <2>1. NoVersion(k)'
    BY <1>1, <1>3, <1>4 DEF NoVersion
  <2> QED
    BY <1>4, <2>1 DEF Answers
<1>5. ASSUME NEW p \in Slots, First(p, k)
      PROVE  Get(k)' = Get(k)
  <2>1. First(p, k)'
    BY <1>1, <1>3, <1>5 DEF First
  <2> QED
    BY <1>3, <1>5, <2>1 DEF Answers
<1> QED
  BY <1>4, <1>5 DEF Answers

LEMMA DeleteShows ==
  ASSUME HTypeOK, Answers', NEW k \in Keys, Delete(k)
  PROVE  Get(k)' = Absent
<1>1. At(MemSlot)'[k] = Tomb /\ MemSlot \in Slots'
  BY DEF Delete, Write, MemPut, At, Slots, HTypeOK, TypeOK
<1>2. \A q \in Slots' : ~Newer(q, MemSlot)
  <2>1. levels \in Levels /\ Slots' = Slots
    BY DEF HTypeOK, TypeOK, Levels, Level, Delete, Write, Slots, TableSlots
  <2>2. \A q \in Slots : q[1] \in Nat /\ q[2] \in Nat
    BY <2>1, SlotsArePairs
  <2> QED
    BY <2>1, <2>2 DEF Newer, MemSlot
<1>3. First(MemSlot, k)'
  BY <1>1, <1>2, EntriesDiffer DEF First
<1> QED
  BY <1>1, <1>3 DEF Answers

LEMMA IdleIsSame ==
  ASSUME UNCHANGED hvars, NEW k
  PROVE  Get(k)' = Get(k)
BY DEF hvars, Get, Slots, TableSlots, Found, At

-----------------------------------------------------------------------------
(* A key whose answer is nothing is answered with something only after a   *)
(* Put of it, or by the compaction that drops its newest tombstone above a *)
(* level that still holds it: no flush, no failure, no other compaction    *)
(* and no write of another key brings a deleted key back.                  *)
THEOREM RevivalNeedsCompaction ==
  ASSUME Fits
  PROVE  Spec => OnlyCompactionRevives
<1>1. HTypeOK => Answers
  BY GetIsFirst
<1>2. HTypeOK /\ Answers /\ Answers' /\ [HNext]_hvars =>
        \A k \in Keys : Get(k) = Absent /\ Get(k)' # Absent =>
          promised'[k] # Absent \/ TombDropped(k)
  <2> SUFFICES ASSUME HTypeOK, Answers, Answers', [HNext]_hvars, NEW k \in Keys,
                      Get(k) = Absent, Get(k)' # Absent
               PROVE  promised'[k] # Absent \/ TombDropped(k)
    OBVIOUS
  <2>1. ASSUME NEW x \in Keys, NEW v \in Value, HPut(x, v)
        PROVE  promised'[k] # Absent
    <3>1. Write(x, v)
      BY <2>1 DEF HPut, Put
    <3>2. k = x
      BY <3>1, WriteIsSame
    <3>3. promised' = [promised EXCEPT ![k] = IF Merging /\ promised[k] # Absent
                                                THEN promised[k] \cup v ELSE v]
      BY <2>1, <3>2 DEF HPut, Client!Put
    <3>4. promised \in [Keys -> {Absent} \cup Value]
      BY DEF HTypeOK
    <3>5. promised'[k] \in SUBSET Data
      BY <3>3, <3>4 DEF Value
    <3> QED
      BY <3>5, EntriesDiffer
  <2>2. ASSUME NEW x \in Keys, HDelete(x)
        PROVE  FALSE
    <3>1. Delete(x)
      BY <2>2 DEF HDelete
    <3>2. k = x
      BY <3>1, WriteIsSame DEF Delete
    <3> QED
      BY <3>1, <3>2, DeleteShows
  <2>3. CASE HGet \/ UNCHANGED hvars
    BY <2>3, IdleIsSame DEF HGet
  <2>4. CASE HMaintenance
    BY <2>4, MaintenanceIsSame DEF HMaintenance, Same
  <2> QED
    BY <2>1, <2>2, <2>3, <2>4 DEF HNext
<1>3. Spec => []HTypeOK
  BY TypeCorrect
<1> QED
  BY <1>1, <1>2, <1>3, PTL DEF Spec, OnlyCompactionRevives

(* Without a MergeFn flushes and compactions change no answer, except for  *)
(* a key whose tombstone is dropped above a level that still holds it.     *)
THEOREM MaintenanceShowsNothing ==
  ASSUME Fits, ~Merging
  PROVE  Spec => MaintenanceInvisible
<1> DEFINE Shown(k) == \/ Get(k)' = Get(k)
                       \/ TombDropped(k)
                       \/ pc = "flush" /\ ~AllReadable(memTable)
                       \/ pc = "compact" /\ \E j \in DOMAIN levels[level] :
                                               HeadUnreadable(levels[level][j].data)
<1>1. HTypeOK => Answers
  BY GetIsFirst
<1>2. HTypeOK /\ Answers /\ Answers' /\ [HNext]_hvars =>
        (pc # "idle" => \A k \in Keys : Shown(k))
  <2> SUFFICES ASSUME HTypeOK, Answers, Answers', [HNext]_hvars, pc # "idle",
                      NEW k \in Keys
               PROVE  Get(k)' = Get(k) \/ TombDropped(k)
    OBVIOUS
  <2>1. CASE HMaintenance
    BY <2>1, MaintenanceIsSame DEF HMaintenance, Same
  <2>2. CASE UNCHANGED hvars
    BY <2>2, IdleIsSame
  <2> QED
    BY <2>1, <2>2 DEF HNext, HPut, HDelete, HGet, Put, Delete, Write
<1>3. Spec => []HTypeOK
  BY TypeCorrect
<1> QED
  BY <1>1, <1>2, <1>3, PTL DEF Spec, MaintenanceInvisible

-----------------------------------------------------------------------------
(* With a MergeFn the tree is a sequence of places.  A flush and a        *)
(* compaction are followed through the list of all tables.                 *)

(* A place of Places: the pieces of each key no client deletes.            *)
Row == [Kept -> SUBSET Data]

(* What a table holds makes a place.                                       *)
LEMMA PiecesType ==
  ASSUME NEW d \in [Keys -> Entry]
  PROVE  PiecesOf(d) \in Row
BY DEF PiecesOf, Row, Kept, Entry, Value

(* A table with the merge of a level has, of a key without a tombstone,    *)
(* all the pieces of its tables.                                           *)
LEMMA MergedIsUnion ==
  ASSUME Fits, Merging, NEW lv \in Level, NEW k \in Kept,
         \A j \in 1..Len(lv) : lv[j].data[k] # Tomb
  PROVE  PiecesOf(Merged(lv))[k] = UNION {PiecesOf(lv[j].data)[k] : j \in 1..Len(lv)}
<1> DEFINE hits   == Holders(lv, k)
           newest == Reading(lv, Min(hits), k)
           older  == {j \in hits \ {Min(hits)} : Reading(lv, j, k) # Tomb}
           pieces == UNION {Reading(lv, j, k) : j \in older}
           all    == UNION {PiecesOf(lv[j].data)[k] : j \in 1..Len(lv)}
<1>1. k \in Keys /\ DOMAIN lv = 1..Len(lv)
  BY DEF Kept, Level
<1>2. hits = {j \in 1..Len(lv) : lv[j].data[k] # Absent}
  BY <1>1, ReadsAll DEF Holders
<1>3. \A j \in hits : /\ Reading(lv, j, k) = lv[j].data[k]
                      /\ Reading(lv, j, k) = PiecesOf(lv[j].data)[k]
  BY <1>1, <1>2, ReadsAll DEF PiecesOf
<1>4. Merged(lv)[k] = IF hits = {} \/ newest = Tomb THEN Absent ELSE Merge(newest, pieces)
  BY <1>1 DEF Merged, MergedEntry
<1>5. ASSUME NEW j \in 1..Len(lv), NEW x \in PiecesOf(lv[j].data)[k]
      PROVE  x \in PiecesOf(Merged(lv))[k]
  <2>1. lv[j].data[k] \notin {Absent, Tomb} /\ x \in lv[j].data[k]
    BY <1>5 DEF PiecesOf
  <2>2. Merged(lv)[k] \notin {Absent, Tomb} /\ x \in Merged(lv)[k]
    BY <1>1, <2>1, MergedKeepsPieces
  <2> QED
    BY <2>2 DEF PiecesOf
<1>6. ASSUME NEW x \in PiecesOf(Merged(lv))[k]
      PROVE  x \in all
  <2>1. Merged(lv)[k] \notin {Absent, Tomb} /\ x \in Merged(lv)[k]
    BY <1>6 DEF PiecesOf
  <2>2. hits # {} /\ x \in newest \cup pieces
    BY <1>4, <2>1 DEF Merge
  <2>3. Min(hits) \in hits
    BY <1>1, <2>2, HoldersAreNats, MinOfNats
  <2>4. PICK j \in hits : x \in Reading(lv, j, k)
    <3>1. CASE x \in newest
      BY <2>3, <3>1
    <3>2. CASE x \in pieces
      BY <3>2
    <3> QED
      BY <2>2, <3>1, <3>2
  <2>5. j \in 1..Len(lv) /\ x \in PiecesOf(lv[j].data)[k]
    BY <1>2, <1>3, <2>4
  <2> QED
    BY <2>5
<1> QED
  BY <1>5, <1>6

(* Rows, place by place.                                                   *)
RowsOf(mem, tables) ==
  <<PiecesOf(mem)>> \o [n \in DOMAIN tables |-> PiecesOf(tables[n].data)]

(* Rows, place by place: the memtable and then the tables in their order.  *)
LEMMA RowsAre ==
  ASSUME NEW mem \in [Keys -> Entry], NEW tables \in Level
  PROVE  /\ RowsOf(mem, tables) \in Seq(Row)
         /\ Len(RowsOf(mem, tables)) = Len(tables) + 1
         /\ RowsOf(mem, tables)[1] = PiecesOf(mem)
         /\ \A n \in 1..Len(tables) : RowsOf(mem, tables)[n + 1] = PiecesOf(tables[n].data)
<1> DEFINE rest == [n \in DOMAIN tables |-> PiecesOf(tables[n].data)]
<1>1. DOMAIN tables = 1..Len(tables) /\ Len(tables) \in Nat
      /\ \A n \in 1..Len(tables) : tables[n] \in Table
  BY DEF Level
<1>2. \A n \in 1..Len(tables) : PiecesOf(tables[n].data) \in Row
  BY <1>1, PiecesType DEF Table
<1>3. rest \in [1..Len(tables) -> Row]
  BY <1>1, <1>2
<1>4. rest \in Seq(Row) /\ Len(rest) = Len(tables)
  BY <1>1, <1>3
<1>5. \A n \in 1..Len(tables) : rest[n] = PiecesOf(tables[n].data)
  BY <1>1
<1> HIDE DEF rest
<1>6. PiecesOf(mem) \in Row
  BY PiecesType
<1>7. /\ <<PiecesOf(mem)>> \o rest \in Seq(Row)
      /\ Len(<<PiecesOf(mem)>> \o rest) = Len(tables) + 1
      /\ (<<PiecesOf(mem)>> \o rest)[1] = PiecesOf(mem)
      /\ \A n \in 1..Len(tables) : (<<PiecesOf(mem)>> \o rest)[n + 1] = rest[n]
  BY <1>1, <1>4, <1>6
<1> QED
  BY <1>5, <1>7 DEF RowsOf, rest

(* A flush puts an empty place in front of the others.                     *)
LEMMA FlushRows ==
  ASSUME NEW mem \in [Keys -> Entry], NEW t \in Table, t.data = mem, NEW below \in Level
  PROVE  RowsOf(NoRecords, <<t>> \o below) = <<PiecesOf(NoRecords)>> \o RowsOf(mem, below)
<1>0. NoRecords \in [Keys -> Entry]
  BY DEF NoRecords, Entry
<1>1. /\ below \in Seq(Table) /\ Len(below) \in Nat
      /\ <<t>> \o below \in Level /\ Len(<<t>> \o below) = Len(below) + 1
      /\ (<<t>> \o below)[1] = t
      /\ \A n \in 1..Len(below) : (<<t>> \o below)[n + 1] = below[n]
  BY DEF Level
<1> DEFINE old == RowsOf(mem, below)
           new == RowsOf(NoRecords, <<t>> \o below)
<1>10. PICK after : after = <<t>> \o below
  OBVIOUS
<1>11. after \in Level /\ Len(after) = Len(below) + 1
  BY <1>1, <1>10
<1>2. /\ old \in Seq(Row) /\ Len(old) = Len(below) + 1 /\ old[1] = PiecesOf(mem)
      /\ \A n \in 1..Len(below) : old[n + 1] = PiecesOf(below[n].data)
  BY RowsAre
<1>3. /\ new \in Seq(Row) /\ Len(new) = Len(below) + 2 /\ new[1] = PiecesOf(NoRecords)
      /\ \A n \in 1..(Len(below) + 1) : new[n + 1] = PiecesOf((<<t>> \o below)[n].data)
  <2>1. /\ RowsOf(NoRecords, after) \in Seq(Row)
        /\ Len(RowsOf(NoRecords, after)) = Len(after) + 1
        /\ RowsOf(NoRecords, after)[1] = PiecesOf(NoRecords)
        /\ \A n \in 1..Len(after) : RowsOf(NoRecords, after)[n + 1] = PiecesOf(after[n].data)
    BY <1>0, <1>11, RowsAre
  <2>2. new = RowsOf(NoRecords, after)
    BY <1>10
  <2> HIDE DEF new
  <2> QED
    BY <1>1, <1>10, <1>11, <2>1, <2>2
<1> HIDE DEF old, new
<1>4. PICK e : e = PiecesOf(NoRecords)
  OBVIOUS
<1>5. e \in Row
  BY <1>0, <1>4, PiecesType
<1>6. /\ <<e>> \o old \in Seq(Row) /\ Len(<<e>> \o old) = Len(below) + 2
      /\ (<<e>> \o old)[1] = e
      /\ \A n \in 1..(Len(below) + 1) : (<<e>> \o old)[n + 1] = old[n]
  BY <1>1, <1>2, <1>5
<1>7. ASSUME NEW n \in 1..(Len(below) + 1)
      PROVE  new[n + 1] = old[n]
  <2>1. CASE n = 1
    BY <1>1, <1>2, <1>3, <2>1
  <2>2. CASE n # 1
    <3>1. n - 1 \in 1..Len(below) /\ n = (n - 1) + 1
      BY <1>1, <2>2
    <3>2. (<<t>> \o below)[n] = below[n - 1] /\ old[n] = PiecesOf(below[n - 1].data)
      BY <1>1, <1>2, <3>1
    <3> QED
      BY <1>3, <3>2
  <2> QED
    BY <2>1, <2>2
<1>8. ASSUME NEW m \in 1..(Len(below) + 2)
      PROVE  new[m] = (<<e>> \o old)[m]
  <2>1. CASE m = 1
    BY <1>3, <1>4, <1>6, <2>1
  <2>2. CASE m # 1
    <3>1. m - 1 \in 1..(Len(below) + 1) /\ m = (m - 1) + 1
      BY <1>1, <2>2
    <3> QED
      BY <1>6, <1>7, <3>1
  <2> QED
    BY <2>1, <2>2
<1>9. new = <<e>> \o old
  BY <1>3, <1>6, <1>8, SeqEqual
<1> QED
  BY <1>4, <1>9 DEF old, new

(* The parts of a list of two stand one behind the other.                  *)
LEMMA TwoParts ==
  ASSUME NEW S, NEW a \in Seq(S), NEW b \in Seq(S)
  PROVE  /\ a \o b \in Seq(S) /\ Len(a \o b) = Len(a) + Len(b)
         /\ \A n \in 1..Len(a) : (a \o b)[n] = a[n]
         /\ \A n \in 1..Len(b) : (a \o b)[Len(a) + n] = b[n]
OBVIOUS

(* The list s has the parts a, b and c.                                    *)
Joins(a, b, c, s) ==
  /\ Len(s) = Len(a) + Len(b) + Len(c)
  /\ \A n \in 1..Len(a) : s[n] = a[n]
  /\ \A n \in 1..Len(b) : s[Len(a) + n] = b[n]
  /\ \A n \in 1..Len(c) : s[Len(a) + Len(b) + n] = c[n]

(* The parts of a list of three stand one behind the other.                *)
LEMMA ThreeParts ==
  ASSUME NEW S, NEW a \in Seq(S), NEW b \in Seq(S), NEW c \in Seq(S)
  PROVE  (a \o b) \o c \in Seq(S) /\ Joins(a, b, c, (a \o b) \o c)
<1>0. a \o b \in Seq(S)
  BY TwoParts
<1>1. PICK ab \in Seq(S) : ab = a \o b
  BY <1>0, Zenon
<1>2. /\ Len(ab) = Len(a) + Len(b)
      /\ \A n \in 1..Len(a) : ab[n] = a[n]
      /\ \A n \in 1..Len(b) : ab[Len(a) + n] = b[n]
  BY <1>1, TwoParts
<1>11. ab \o c \in Seq(S)
  BY TwoParts
<1>3. PICK abc \in Seq(S) : abc = ab \o c
  BY <1>11, Zenon
<1>4. /\ Len(abc) = Len(ab) + Len(c)
      /\ \A n \in 1..Len(ab) : abc[n] = ab[n]
      /\ \A n \in 1..Len(c) : abc[Len(ab) + n] = c[n]
  BY <1>3, TwoParts
<1>5. Len(a) \in Nat /\ Len(b) \in Nat /\ Len(c) \in Nat
  OBVIOUS
<1>6. /\ \A n \in 1..Len(a) : n \in 1..Len(ab)
      /\ \A n \in 1..Len(b) : Len(a) + n \in 1..Len(ab)
  BY <1>2, <1>5
<1>7. \A n \in 1..Len(b) : abc[Len(a) + n] = b[n]
  BY <1>2, <1>4, <1>6
<1>8. \A n \in 1..Len(a) : abc[n] = a[n]
  BY <1>2, <1>4, <1>6
<1>9. Len(abc) = Len(a) + Len(b) + Len(c)
  BY <1>2, <1>4, <1>5
<1>10. \A n \in 1..Len(c) : abc[Len(a) + Len(b) + n] = c[n]
  BY <1>2, <1>4
<1> QED
  BY <1>1, <1>3, <1>7, <1>8, <1>9, <1>10 DEF Joins

(* The end of a list from position j + 1 on.                               *)
LEMMA TailPart ==
  ASSUME NEW S, NEW s \in Seq(S), NEW j \in Nat, j <= Len(s)
  PROVE  /\ SubSeq(s, j + 1, Len(s)) \in Seq(S)
         /\ Len(SubSeq(s, j + 1, Len(s))) = Len(s) - j
         /\ \A n \in 1..(Len(s) - j) : SubSeq(s, j + 1, Len(s))[n] = s[j + n]
<1>1. Len(s) \in Nat /\ j + 1 \in Int /\ Len(s) \in Int
  OBVIOUS
<1>2. \A n \in (j + 1)..Len(s) : s[n] \in S
  BY <1>1
<1>3. PICK m, e : m = j + 1 /\ e = Len(s)
  OBVIOUS
<1>4. /\ SubSeq(s, m, e) \in Seq(S)
      /\ Len(SubSeq(s, m, e)) = IF m <= e THEN e - m + 1 ELSE 0
      /\ \A n \in 1..(e - m + 1) : SubSeq(s, m, e)[n] = s[m + n - 1]
  BY <1>1, <1>2, <1>3, SubSeqProperties
<1>5. e - m + 1 = Len(s) - j /\ (m > e => Len(s) - j = 0)
  BY <1>1, <1>3
<1>6. \A n \in 1..(Len(s) - j) : m + n - 1 = j + n
  BY <1>1, <1>3
<1> QED
  BY <1>1, <1>3, <1>4, <1>5, <1>6

(* The places i to j of rows are one of new.                               *)
Unites(rows, i, j, new) ==
  /\ j \in DOMAIN rows /\ i \in 2..j
  /\ new = (SubSeq(rows, 1, i - 1)
              \o <<[k \in Kept |-> UNION {rows[n][k] : n \in i..j}]>>)
              \o SubSeq(rows, j + 1, Len(rows))

(* When the tables own are replaced by one with all their pieces, the      *)
(* places i to j they are become one.                                      *)
LEMMA CompactRows ==
  ASSUME NEW mem \in [Keys -> Entry], NEW t \in Table,
         NEW above \in Level, NEW own \in Level, NEW below \in Level, Len(own) >= 1,
         \A k \in Kept : PiecesOf(t.data)[k]
                           = UNION {PiecesOf(own[j].data)[k] : j \in 1..Len(own)},
         NEW rows, rows = RowsOf(mem, (above \o own) \o below),
         NEW i, i = Len(above) + 2, NEW j, j = Len(above) + Len(own) + 1
  PROVE  Unites(rows, i, j, RowsOf(mem, (above \o <<t>>) \o below))
<1>0. PICK a, o, b : a = Len(above) /\ o = Len(own) /\ b = Len(below)
  OBVIOUS
<1> DEFINE new == RowsOf(mem, (above \o <<t>>) \o below)
           united == [k \in Kept |-> UNION {rows[n][k] : n \in i..j}]
<1>17. PICK front, back, from, last : /\ from = j + 1 /\ last = Len(rows)
                                      /\ front = SubSeq(rows, 1, i - 1)
                                      /\ back = SubSeq(rows, from, last)
  OBVIOUS
<1>1. /\ above \in Seq(Table) /\ own \in Seq(Table) /\ below \in Seq(Table)
      /\ <<t>> \in Seq(Table) /\ Len(<<t>>) = 1
      /\ a \in Nat /\ o \in Nat /\ b \in Nat /\ o >= 1
      /\ i = a + 2 /\ j = a + o + 1
  BY <1>0 DEF Level
<1> DEFINE tables == (above \o own) \o below
           after  == (above \o <<t>>) \o below
<1>2. /\ tables \in Level /\ Len(tables) = a + o + b
      /\ \A n \in 1..a : tables[n] = above[n]
      /\ \A n \in 1..o : tables[a + n] = own[n]
      /\ \A n \in 1..b : tables[a + o + n] = below[n]
  <2>1. tables \in Seq(Table) /\ Joins(above, own, below, tables)
    BY <1>1, ThreeParts, Zenon
  <2> HIDE DEF tables
  <2> QED
    BY <1>0, <2>1 DEF Level, Joins
<1>3. /\ after \in Level /\ Len(after) = a + 1 + b
      /\ \A n \in 1..a : after[n] = above[n]
      /\ \A n \in 1..1 : after[a + n] = <<t>>[n]
      /\ \A n \in 1..b : after[a + 1 + n] = below[n]
  <2>1. after \in Seq(Table) /\ Joins(above, <<t>>, below, after)
    BY <1>1, ThreeParts, Zenon
  <2> HIDE DEF after
  <2> QED
    BY <1>0, <1>1, <2>1 DEF Level, Joins
<1>16. rows = RowsOf(mem, tables) /\ new = RowsOf(mem, after)
  OBVIOUS
<1> HIDE DEF tables, after, new
<1>4. /\ rows \in Seq(Row) /\ Len(rows) = a + o + b + 1 /\ rows[1] = PiecesOf(mem)
      /\ \A n \in 1..(a + o + b) : rows[n + 1] = PiecesOf(tables[n].data)
  <2>1. /\ RowsOf(mem, tables) \in Seq(Row)
        /\ Len(RowsOf(mem, tables)) = Len(tables) + 1
        /\ RowsOf(mem, tables)[1] = PiecesOf(mem)
        /\ \A n \in 1..Len(tables) : RowsOf(mem, tables)[n + 1] = PiecesOf(tables[n].data)
    BY <1>2, RowsAre, Zenon
  <2> QED
    BY <1>2, <1>16, <2>1
<1>5. /\ new \in Seq(Row) /\ Len(new) = a + 1 + b + 1 /\ new[1] = PiecesOf(mem)
      /\ \A n \in 1..(a + 1 + b) : new[n + 1] = PiecesOf(after[n].data)
  <2>1. /\ RowsOf(mem, after) \in Seq(Row)
        /\ Len(RowsOf(mem, after)) = Len(after) + 1
        /\ RowsOf(mem, after)[1] = PiecesOf(mem)
        /\ \A n \in 1..Len(after) : RowsOf(mem, after)[n + 1] = PiecesOf(after[n].data)
    BY <1>3, RowsAre, Zenon
  <2> QED
    BY <1>3, <1>16, <2>1
<1>6. j \in DOMAIN rows /\ i \in 2..j /\ i \in Nat /\ j \in Nat /\ j <= Len(rows) /\ Len(rows) \in Nat
  BY <1>1, <1>4
<1>7. united = PiecesOf(t.data)
  <2>1. ASSUME NEW k \in Kept
        PROVE  UNION {rows[n][k] : n \in i..j}
                 = UNION {PiecesOf(own[m].data)[k] : m \in 1..o}
    <3>1. ASSUME NEW n \in i..j
          PROVE  \E m \in 1..o : rows[n] = PiecesOf(own[m].data)
      <4>1. n - 1 - a \in 1..o /\ n - 1 \in 1..(a + o + b) /\ n = (n - 1) + 1
            /\ a + (n - 1 - a) = n - 1
        BY <1>1, <1>6
      <4>2. rows[n] = PiecesOf(tables[n - 1].data)
        BY <1>4, <4>1
      <4>3. tables[n - 1] = own[n - 1 - a]
        BY <1>2, <4>1
      <4> QED
        BY <4>1, <4>2, <4>3
    <3>2. ASSUME NEW m \in 1..o
          PROVE  \E n \in i..j : rows[n] = PiecesOf(own[m].data)
      <4>1. a + m + 1 \in i..j /\ a + m \in 1..(a + o + b)
        BY <1>1, <1>6
      <4>2. rows[a + m + 1] = PiecesOf(tables[a + m].data)
        BY <1>4, <4>1
      <4> QED
        BY <1>2, <4>1, <4>2
    <3> DEFINE L == {rows[n][k] : n \in i..j}
               R == {PiecesOf(own[m].data)[k] : m \in 1..o}
    <3>3. L \subseteq R
      BY <3>1
    <3>4. R \subseteq L
      BY <3>2
    <3>5. L = R
      BY <3>3, <3>4
    <3> QED
      BY <3>5
  <2>2. \A k \in Kept : united[k] = PiecesOf(t.data)[k]
    BY <1>0, <2>1
  <2>3. PiecesOf(t.data) = [k \in Kept |-> PiecesOf(t.data)[k]]
    BY DEF PiecesOf
  <2> HIDE DEF united
  <2>4. united = [k \in Kept |-> united[k]]
    BY DEF united
  <2> QED
    BY <2>2, <2>3, <2>4
<1> HIDE DEF united
<1>8. united \in Row
  BY <1>7, PiecesType DEF Table
<1>9. /\ front \in Seq(Row) /\ Len(front) = a + 1
      /\ \A n \in 1..(a + 1) : front[n] = rows[n]
  <2>1. i - 1 = a + 1 /\ a + 1 <= Len(rows) /\ a + 1 \in Nat
    BY <1>1, <1>4
  <2>2. /\ SubSeq(rows, 1, a + 1) \in Seq(Row) /\ Len(SubSeq(rows, 1, a + 1)) = a + 1
        /\ \A n \in 1..(a + 1) : SubSeq(rows, 1, a + 1)[n] = rows[n]
    BY <1>1, <1>4, <2>1
  <2> QED
    BY <1>17, <2>1, <2>2
<1>10. /\ back \in Seq(Row) /\ Len(back) = b
       /\ \A n \in 1..b : back[n] = rows[j + n]
  <2>1. from \in Int /\ last \in Int /\ \A n \in from..last : rows[n] \in Row
    BY <1>4, <1>6, <1>17
  <2>2. /\ SubSeq(rows, from, last) \in Seq(Row)
        /\ Len(SubSeq(rows, from, last)) = IF from <= last THEN last - from + 1 ELSE 0
        /\ \A n \in 1..(last - from + 1) : SubSeq(rows, from, last)[n] = rows[from + n - 1]
    BY ONLY <2>1, SubSeqProperties
  <2>3. /\ back \in Seq(Row)
        /\ Len(back) = IF from <= last THEN last - from + 1 ELSE 0
        /\ \A n \in 1..(last - from + 1) : back[n] = rows[from + n - 1]
    BY ONLY <1>17, <2>2, Zenon
  <2>4. from = j + 1 /\ last = a + o + b + 1 /\ j = a + o + 1
    BY <1>1, <1>4, <1>17
  <2>5. Len(back) = b
    BY ONLY <1>1, <2>3, <2>4
  <2>6. \A n \in 1..b : back[n] = rows[j + n]
    BY ONLY <1>1, <2>3, <2>4
  <2> QED
    BY <2>3, <2>5, <2>6
<1>11. PICK u : u = united
  OBVIOUS
<1>12. /\ (front \o <<u>>) \o back \in Seq(Row)
       /\ Len((front \o <<u>>) \o back) = a + 1 + 1 + b
       /\ \A n \in 1..(a + 1) : ((front \o <<u>>) \o back)[n] = front[n]
       /\ \A n \in 1..1 : ((front \o <<u>>) \o back)[a + 1 + n] = <<u>>[n]
       /\ \A n \in 1..b : ((front \o <<u>>) \o back)[a + 1 + 1 + n] = back[n]
  <2>1. <<u>> \in Seq(Row) /\ Len(<<u>>) = 1
    BY <1>8, <1>11
  <2>2. (front \o <<u>>) \o back \in Seq(Row) /\ Joins(front, <<u>>, back, (front \o <<u>>) \o back)
    BY <1>9, <1>10, <2>1, ThreeParts, Zenon
  <2>3. PICK s : s = (front \o <<u>>) \o back
    OBVIOUS
  <2>4. s \in Seq(Row) /\ Joins(front, <<u>>, back, s)
    BY <2>2, <2>3
  <2>5. /\ s \in Seq(Row)
        /\ Len(s) = a + 1 + 1 + b
        /\ \A n \in 1..(a + 1) : s[n] = front[n]
        /\ \A n \in 1..1 : s[a + 1 + n] = <<u>>[n]
        /\ \A n \in 1..b : s[a + 1 + 1 + n] = back[n]
    BY <1>9, <1>10, <2>1, <2>4 DEF Joins
  <2> QED
    BY <2>3, <2>5, Zenon
<1> DEFINE joined == (front \o <<u>>) \o back
<1> HIDE DEF joined
<1>13. ASSUME NEW m \in 1..(a + 1 + b + 1)
       PROVE  new[m] = joined[m]
  <2>1. CASE m = 1
    <3>1. m \in 1..(a + 1)
      BY <1>1, <2>1
    <3> QED
      BY <1>4, <1>5, <1>9, <1>12, <2>1, <3>1 DEF joined
  <2>2. CASE 1 < m /\ m <= a + 1
    <3>1. m - 1 \in 1..a /\ m \in 1..(a + 1) /\ m = (m - 1) + 1
          /\ m - 1 \in 1..(a + o + b) /\ m - 1 \in 1..(a + 1 + b)
      BY <1>1, <2>2
    <3>2. new[m] = PiecesOf(after[m - 1].data) /\ rows[m] = PiecesOf(tables[m - 1].data)
      BY <1>4, <1>5, <3>1
    <3>3. after[m - 1] = tables[m - 1]
      BY <1>2, <1>3, <3>1
    <3> QED
      BY <1>9, <1>12, <3>1, <3>2, <3>3 DEF joined
  <2>3. CASE m = a + 2
    <3>1. 1 \in 1..1 /\ a + 1 + 1 = m /\ a + 1 \in 1..(a + 1 + b)
      BY <1>1, <2>3
    <3>2. new[a + 1 + 1] = PiecesOf(after[a + 1].data)
      BY <1>5, <3>1
    <3>3. after[a + 1] = t
      BY <1>3, <3>1
    <3>4. joined[a + 1 + 1] = u
      BY <1>12, <3>1 DEF joined
    <3> QED
      BY <1>7, <1>11, <3>1, <3>2, <3>3, <3>4
  <2>4. CASE m > a + 2
    <3>1. PICK n \in 1..b : m = a + 1 + 1 + n
      <4>1. m - a - 2 \in 1..b /\ m = a + 1 + 1 + (m - a - 2)
        BY <1>1, <2>4
      <4> QED
        BY <4>1
    <3>2. a + 1 + n \in 1..(a + 1 + b) /\ a + 1 + n + 1 = m
          /\ a + o + n \in 1..(a + o + b) /\ a + o + n + 1 = j + n
      BY <1>1, <3>1
    <3>3. new[m] = PiecesOf(after[a + 1 + n].data) /\ after[a + 1 + n] = below[n]
      BY <1>3, <1>5, <3>2
    <3>4. rows[j + n] = PiecesOf(tables[a + o + n].data) /\ tables[a + o + n] = below[n]
      BY <1>2, <1>4, <3>2
    <3>5. joined[m] = rows[j + n]
      BY <1>10, <1>12, <3>1 DEF joined
    <3> QED
      BY <3>3, <3>4, <3>5
  <2> QED
    BY <1>1, <2>1, <2>2, <2>3, <2>4
<1>14. joined \in Seq(Row) /\ Len(joined) = a + 1 + b + 1
  <2>1. a + 1 + 1 + b = a + 1 + b + 1
    BY <1>1
  <2> QED
    BY <1>12, <2>1 DEF joined
<1>15. new = joined
  BY <1>5, <1>13, <1>14, SeqEqual
<1> QED
  BY <1>6, <1>11, <1>15, <1>17 DEF new, joined, united, after, tables, Unites

(* An empty memtable makes an empty place.                                 *)
LEMMA EmptyRow == PiecesOf(NoRecords) = Placed!EmptyPlace
BY DEF PiecesOf, NoRecords, Kept, Placed!EmptyPlace

(* A write of the memtable is seen in its place alone.                     *)
LEMMA RowsPut ==
  ASSUME NEW m1 \in [Keys -> Entry], NEW m2 \in [Keys -> Entry], NEW tables \in Level
  PROVE  RowsOf(m2, tables) = [RowsOf(m1, tables) EXCEPT ![1] = PiecesOf(m2)]
<1>1. PICK old, new, r : /\ old = RowsOf(m1, tables) /\ new = RowsOf(m2, tables)
                         /\ r = PiecesOf(m2)
  OBVIOUS
<1>2. /\ old \in Seq(Row) /\ Len(old) = Len(tables) + 1
      /\ \A n \in 1..Len(tables) : old[n + 1] = PiecesOf(tables[n].data)
  BY ONLY <1>1, m1 \in [Keys -> Entry], tables \in Level, RowsAre
<1>3. /\ new \in Seq(Row) /\ Len(new) = Len(tables) + 1 /\ new[1] = r
      /\ \A n \in 1..Len(tables) : new[n + 1] = PiecesOf(tables[n].data)
  BY ONLY <1>1, m2 \in [Keys -> Entry], tables \in Level, RowsAre
<1>4. r \in Row /\ Len(tables) \in Nat
  BY <1>1, PiecesType DEF Level
<1>5. [old EXCEPT ![1] = r] \in Seq(Row) /\ Len([old EXCEPT ![1] = r]) = Len(tables) + 1
  BY <1>2, <1>4
<1>6. ASSUME NEW n \in 1..(Len(tables) + 1)
      PROVE  new[n] = [old EXCEPT ![1] = r][n]
  <2>1. CASE n = 1
    BY <1>2, <1>3, <1>4, <2>1
  <2>2. CASE n # 1
    <3>1. n - 1 \in 1..Len(tables) /\ n = (n - 1) + 1
      BY <1>4, <2>2
    <3>2. new[n] = old[n]
      BY <1>2, <1>3, <3>1
    <3> QED
      BY <1>2, <1>4, <2>2, <3>2
  <2> QED
    BY <2>1, <2>2
<1>7. new = [old EXCEPT ![1] = r]
  BY <1>3, <1>5, <1>6, SeqEqual
<1> QED
  BY <1>1, <1>7

(* A Put adds its pieces to what the memtable holds of the key.            *)
LEMMA RowPut ==
  ASSUME Merging, NEW mem \in [Keys -> Entry], NEW k \in Keys, NEW v \in Value,
         k \in Kept => mem[k] # Tomb
  PROVE  PiecesOf(MemPut(mem, k, v)) =
           IF k \in Kept THEN [PiecesOf(mem) EXCEPT ![k] = @ \cup v] ELSE PiecesOf(mem)
<1>1. v \notin {Absent, Tomb} /\ Kept \subseteq Keys
  BY ValuesAreNotMarks DEF Kept
<1> DEFINE m == MemPut(mem, k, v)
<1>2. \A x \in Keys \ {k} : m[x] = mem[x]
  BY DEF MemPut
<1>3. \A x \in Kept \ {k} : PiecesOf(m)[x] = PiecesOf(mem)[x]
  BY <1>1, <1>2 DEF PiecesOf
<1>4. ASSUME k \in Kept
      PROVE  PiecesOf(m)[k] = PiecesOf(mem)[k] \cup v
  <2>1. CASE mem[k] = Absent
    <3>1. m[k] = v
      BY <2>1 DEF MemPut
    <3> HIDE DEF m
    <3> QED
      BY <1>1, <1>4, <2>1, <3>1 DEF PiecesOf
  <2>2. CASE mem[k] # Absent
    <3>1. m[k] = v \cup mem[k]
      BY <1>1, <1>4, <2>2 DEF MemPut, Merge
    <3>2. mem[k] \in SUBSET Data /\ v \in SUBSET Data
      BY <1>4, <2>2 DEF Entry, Value
    <3>3. v \cup mem[k] \notin {Absent, Tomb}
      BY <3>2, EntriesDiffer
    <3> HIDE DEF m
    <3> QED
      BY <1>4, <2>2, <3>1, <3>3 DEF PiecesOf
  <2> QED
    BY <2>1, <2>2
<1>5. PiecesOf(m) = [x \in Kept |-> PiecesOf(m)[x]] /\ PiecesOf(mem) = [x \in Kept |-> PiecesOf(mem)[x]]
  BY DEF PiecesOf
<1> HIDE DEF m
<1>6. PICK p, q : p = PiecesOf(m) /\ q = PiecesOf(mem)
  OBVIOUS
<1>7. /\ p = [x \in Kept |-> p[x]] /\ q = [x \in Kept |-> q[x]]
      /\ \A x \in Kept \ {k} : p[x] = q[x]
      /\ k \in Kept => p[k] = q[k] \cup v
  BY <1>3, <1>4, <1>5, <1>6
<1>8. CASE k \in Kept
  <2>1. p = [q EXCEPT ![k] = q[k] \cup v]
    BY ONLY <1>7, <1>8
  <2> QED
    BY <1>6, <1>8, <2>1 DEF m
<1>9. CASE k \notin Kept
  <2>1. p = q
    BY ONLY <1>7, <1>9
  <2> QED
    BY <1>6, <1>9, <2>1 DEF m
<1> QED
  BY <1>8, <1>9

(* All tables, in a list.                                                  *)
LEMMA FlatType ==
  ASSUME NEW ls \in Levels
  PROVE  FlattenSeq(ls) \in Level
<1>1. PICK f : Flat(f, ls) /\ FlattenSeq(ls) = f[Len(ls)]
  BY FlatIs
<1>2. Len(ls) \in 0..Len(ls)
  BY DEF Levels
<1> QED
  BY <1>1, <1>2 DEF Flat

(* Of a key no client deletes there are no tombstones.                     *)
LEMMA NoTombs ==
  ASSUME HTypeOK, NothingExtra, NEW k \in Kept
  PROVE  /\ memTable[k] # Tomb
         /\ \A l \in 1..Len(levels) : \A j \in 1..Len(levels[l]) : levels[l][j].data[k] # Tomb
<1>1. \A p \in Slots : At(p)[k] # Tomb
  BY ValuesAreNotMarks, EntriesDiffer DEF NothingExtra, MadeOf
<1>2. MemSlot \in Slots /\ At(MemSlot) = memTable
  BY DEF Slots, At
<1>3. levels \in Levels
  BY DEF HTypeOK, TypeOK, Levels, Level
<1>4. ASSUME NEW l \in 1..Len(levels), NEW j \in 1..Len(levels[l])
      PROVE  levels[l][j].data[k] # Tomb
  <2>1. <<l, j>> \in Slots /\ At(<<l, j>>) = levels[l][j].data
    BY <1>3, TableAt
  <2> QED
    BY <1>1, <2>1
<1> QED
  BY <1>1, <1>2, <1>4

(* A Put adds to the first place, or does not show if clients delete the   *)
(* key.                                                                    *)
LEMMA PutIsPlaced ==
  ASSUME Merging, HTypeOK, NothingExtra, NEW k \in Keys, NEW v \in Value, HPut(k, v)
  PROVE  [Placed!Next]_Rows
<1>1. PICK ls, mem, new, tables : /\ ls = levels /\ mem = memTable /\ new = memTable'
                                  /\ tables = FlattenSeq(ls)
  OBVIOUS
<1>2. ls \in Levels /\ mem \in [Keys -> Entry] /\ new = MemPut(mem, k, v) /\ levels' = ls
  BY <1>1 DEF HTypeOK, TypeOK, Levels, Level, HPut, Put, Write
<1>3. tables \in Level /\ new \in [Keys -> Entry]
  BY <1>1, <1>2, FlatType, MemPutType
<1>4. Rows = RowsOf(mem, tables) /\ Rows' = RowsOf(new, tables)
  BY <1>1, <1>2 DEF Rows, RowsOf
<1>5. Rows' = [Rows EXCEPT ![1] = PiecesOf(new)] /\ Rows[1] = PiecesOf(mem)
  <2>1. RowsOf(new, tables) = [RowsOf(mem, tables) EXCEPT ![1] = PiecesOf(new)]
    BY <1>2, <1>3, RowsPut
  <2>2. RowsOf(mem, tables)[1] = PiecesOf(mem)
    BY <1>2, <1>3, RowsAre
  <2> QED
    BY ONLY <1>4, <2>1, <2>2
<1>6. PiecesOf(new) = IF k \in Kept THEN [PiecesOf(mem) EXCEPT ![k] = @ \cup v] ELSE PiecesOf(mem)
  BY <1>1, <1>2, NoTombs, RowPut
<1>7. CASE k \in Kept
  <2>1. Rows' = [Rows EXCEPT ![1] = [Rows[1] EXCEPT ![k] = @ \cup v]]
    BY <1>5, <1>6, <1>7
  <2>2. Placed!Put(k, v)
    BY <2>1 DEF Placed!Put
  <2>3. v \in (SUBSET Data) \ {{}}
    BY DEF Value
  <2>4. Placed!Next
    BY <1>7, <2>2, <2>3, Zenon DEF Placed!Next
  <2> QED
    BY <2>4
<1>8. CASE k \notin Kept
  <2>1. PICK rows : rows = Rows
    OBVIOUS
  <2>2. rows \in Seq(Row)
    BY <1>2, <1>3, <1>4, <2>1, RowsAre
  <2>3. Rows' = [rows EXCEPT ![1] = rows[1]]
    BY <1>5, <1>6, <1>8, <2>1
  <2>4. Rows' = rows
    BY <2>2, <2>3
  <2> QED
    BY <2>1, <2>4
<1> QED
  BY <1>7, <1>8

(* A Delete does not show.                                                 *)
LEMMA DeleteIsPlaced ==
  ASSUME HTypeOK, NEW k \in Keys, HDelete(k)
  PROVE  Rows' = Rows
<1>1. levels' = levels /\ k \notin Kept
  BY DEF HDelete, Delete, Write, Kept
<1>2. \A x \in Kept : memTable'[x] = memTable[x]
  BY <1>1 DEF HDelete, Delete, Write, MemPut, Kept, HTypeOK, TypeOK
<1>3. PICK old, new : old = memTable /\ new = memTable'
  OBVIOUS
<1>4. PiecesOf(new) = PiecesOf(old)
  BY <1>2, <1>3 DEF PiecesOf
<1> QED
  BY <1>1, <1>3, <1>4 DEF Rows

(* A flush is the flush of Places.                                         *)
LEMMA FlushIsPlaced ==
  ASSUME HTypeOK, Flush
  PROVE  Placed!Flush
<1>1. PICK ls, mem, n, t : /\ ls = levels /\ mem = memTable /\ n = nextFile
                           /\ t = [file |-> n, data |-> mem]
  OBVIOUS
<1>2. /\ ls \in Levels /\ mem \in [Keys -> Entry] /\ n \in Nat /\ t \in Table /\ t.data = mem
      /\ memTable' = NoRecords /\ 0 \in 0..Len(ls)
  BY <1>1 DEF HTypeOK, TypeOK, Levels, Level, Flush, Table
<1>3. PICK new : new = Prepend(Emptied(ls, 0), 0 + 1, t)
  OBVIOUS
<1>4. levels' = new
  BY <1>1, <1>3 DEF Flush, Emptied
<1>5. Shifted(ls, 0, t, new)
  BY <1>2, <1>3, LevelsAfter
<1>6. PICK below \in Level : /\ FlattenSeq(ls) = (<<>> \o <<>>) \o below
                             /\ FlattenSeq(new) = (<<>> \o <<t>>) \o below
  <2>0. PICK l : l = 0
    OBVIOUS
  <2>1. \E above \in Level, below \in Level : Replaces(ls, l, t, new, above, below)
    <3>1. l \in 0..Len(ls) /\ Shifted(ls, l, t, new)
      BY <1>2, <1>5, <2>0
    <3> QED
      BY <1>2, <3>1, FlatShifts, Zenon
  <2> QED
    BY <2>0, <2>1 DEF Replaces
<1>7. FlattenSeq(ls) = below /\ FlattenSeq(new) = <<t>> \o below
  <2>1. below \in Seq(Table) /\ <<t>> \in Seq(Table)
    BY <1>2 DEF Level
  <2> QED
    BY <1>6, <2>1
<1>8. RowsOf(NoRecords, <<t>> \o below) = <<PiecesOf(NoRecords)>> \o RowsOf(mem, below)
  BY <1>2, FlushRows
<1>9. Rows = RowsOf(mem, below) /\ Rows' = RowsOf(NoRecords, <<t>> \o below)
  BY <1>1, <1>2, <1>4, <1>7 DEF Rows, RowsOf
<1> QED
  BY <1>8, <1>9, EmptyRow DEF Placed!Flush

(* A compaction unites the neighbours that are the tables of its level.    *)
LEMMA CompactIsPlaced ==
  ASSUME Fits, Merging, HTypeOK, NothingExtra, Compact
  PROVE  Placed!Next
<1>1. PICK ls, l, mem, n, lv, t, new :
        /\ ls = levels /\ l = level /\ mem = memTable /\ n = nextFile /\ lv = ls[l]
        /\ t = [file |-> n, data |-> Merged(lv)]
        /\ new = Prepend(Emptied(ls, l), l + 1, t)
  OBVIOUS
<1>2. /\ ls \in Levels /\ mem \in [Keys -> Entry] /\ n \in Nat /\ memTable' = mem
      /\ l \in 1..Len(ls) /\ l # 0 /\ l \in 0..Len(ls)
      /\ lv \in Level /\ Len(lv) >= 1
  <2>1. ls \in Levels /\ mem \in [Keys -> Entry] /\ n \in Nat /\ memTable' = mem
    BY <1>1 DEF HTypeOK, TypeOK, Levels, Level, Compact
  <2>2. l \in Nat \ {0} /\ l <= Len(ls) /\ Len(lv) >= LLimit
    BY <1>1 DEF Compact, IsFull, HTypeOK, TypeOK
  <2>3. l \in 1..Len(ls) /\ l # 0 /\ l \in 0..Len(ls)
    BY <2>1, <2>2 DEF Levels
  <2>4. lv \in Level
    BY <1>1, <2>1, <2>3 DEF Levels
  <2>5. Len(lv) >= 1
    BY <2>2, <2>4, LimitsAreNumbers DEF Level
  <2> QED
    BY <2>1, <2>3, <2>4, <2>5
<1>3. t \in Table /\ t.data = Merged(lv)
  BY <1>1, <1>2, MergedType DEF Table
<1>4. levels' = new
  BY <1>1, <1>2 DEF Compact, Emptied
<1>5. Shifted(ls, l, t, new)
  BY <1>1, <1>2, <1>3, LevelsAfter
<1>6. PICK above \in Level, below \in Level :
        /\ FlattenSeq(ls) = (above \o lv) \o below
        /\ FlattenSeq(new) = (above \o <<t>>) \o below
  <2>1. \E above \in Level, below \in Level : Replaces(ls, l, t, new, above, below)
    BY <1>2, <1>3, <1>5, FlatShifts, Zenon
  <2>2. (IF l = 0 THEN <<>> ELSE ls[l]) = lv
    BY <1>1, <1>2
  <2> QED
    BY <2>1, <2>2 DEF Replaces
<1>7. ASSUME NEW k \in Kept
      PROVE  PiecesOf(t.data)[k] = UNION {PiecesOf(lv[j].data)[k] : j \in 1..Len(lv)}
  <2>1. \A j \in 1..Len(lv) : lv[j].data[k] # Tomb
    BY <1>1, <1>2, NoTombs
  <2> QED
    BY <1>2, <1>3, <2>1, MergedIsUnion
<1>8. PICK rows, i, j : /\ rows = RowsOf(mem, (above \o lv) \o below)
                        /\ i = Len(above) + 2 /\ j = Len(above) + Len(lv) + 1
  OBVIOUS
<1>9. Unites(rows, i, j, RowsOf(mem, (above \o <<t>>) \o below))
  BY <1>2, <1>3, <1>7, <1>8, CompactRows, Zenon
<1>10. Rows = rows /\ Rows' = RowsOf(mem, (above \o <<t>>) \o below)
  BY <1>1, <1>2, <1>4, <1>6, <1>8 DEF Rows, RowsOf
<1>11. Placed!Compact(i, j)
  BY <1>9, <1>10 DEF Placed!Compact, Unites
<1> QED
  BY <1>9, <1>10, <1>11 DEF Placed!Next, Placed!Maintenance, Unites

(* Every step is one of Places, or does not show.                          *)
LEMMA StepIsPlaced ==
  ASSUME Fits, Merging, HTypeOK, NothingExtra, [HNext]_hvars
  PROVE  [Placed!Next]_Rows
<1>1. CASE \E k \in Keys, v \in Value : HPut(k, v)
  BY <1>1, PutIsPlaced
<1>2. CASE \E k \in Keys : HDelete(k)
  BY <1>2, DeleteIsPlaced
<1>3. CASE Flush
  BY <1>3, FlushIsPlaced DEF Placed!Next, Placed!Maintenance
<1>4. CASE Compact
  BY <1>4, CompactIsPlaced
<1>5. CASE FlushFails \/ CompactFails \/ CompactDone \/ HGet \/ UNCHANGED hvars
  <2>1. UNCHANGED <<memTable, levels>>
    BY <1>5 DEF FlushFails, CompactFails, CompactDone, HGet, hvars
  <2> QED
    BY <2>1 DEF Rows
<1> QED
  BY <1>1, <1>2, <1>3, <1>4, <1>5 DEF HNext, HMaintenance, Maintenance

(* An empty tree is one empty place.                                       *)
LEMMA InitIsPlaced ==
  ASSUME HInit
  PROVE  Placed!Init
<1>1. levels = <<>> /\ memTable = NoRecords
  BY DEF HInit, Init
<1>2. PICK ls : ls = <<>>
  OBVIOUS
<1>3. ls \in Levels /\ Len(ls) = 0
  BY <1>2 DEF Levels
<1>4. FlattenSeq(ls) = <<>>
  BY <1>3, FlatIs DEF Flat
<1>5. PICK rows : rows = RowsOf(NoRecords, ls)
  OBVIOUS
<1>6. NoRecords \in [Keys -> Entry] /\ ls \in Level
  <2>1. ls \in Level
    BY <1>2 DEF Level
  <2>2. NoRecords \in [Keys -> Entry]
    BY DEF NoRecords, Entry
  <2> QED
    BY <2>1, <2>2
<1>7. rows \in Seq(Row) /\ Len(rows) = 1 /\ rows[1] = PiecesOf(NoRecords)
  <2>1. /\ RowsOf(NoRecords, ls) \in Seq(Row)
        /\ Len(RowsOf(NoRecords, ls)) = Len(ls) + 1
        /\ RowsOf(NoRecords, ls)[1] = PiecesOf(NoRecords)
    BY <1>6, RowsAre, Zenon
  <2> QED
    BY <1>3, <1>5, <2>1
<1>8. rows = <<PiecesOf(NoRecords)>>
  BY <1>7
<1>9. Rows = rows
  BY <1>1, <1>2, <1>4, <1>5 DEF Rows, RowsOf
<1> QED
  BY <1>8, <1>9, EmptyRow DEF Placed!Init

(* For the keys no client deletes, a tree with a MergeFn is a sequence of  *)
(* places: a Put adds pieces to the first, a flush puts an empty one in    *)
(* front, a compaction unites neighbours below it, and nothing else shows. *)
(* The inverted index is built on no more than this.                       *)
THEOREM TreeIsPlaces ==
  ASSUME Fits, Merging
  PROVE  Spec => IsPlaces
<1>1. HInit => Placed!Init
  BY InitIsPlaced
<1>2. HTypeOK /\ NothingExtra /\ [HNext]_hvars => [Placed!Next]_Rows
  BY StepIsPlaced
<1> QED
  BY <1>1, <1>2, TypeCorrect, NothingIsMadeUp, PTL DEF Spec, IsPlaces, Placed!Spec
=============================================================================
