------------------------------ MODULE LsmTree ------------------------------
(***************************************************************************)
(* The LSM tree of internal/lsm: a memtable, levels of immutable SSTables, *)
(* Put / Get / Delete, the flush of a full memtable and the cascade of     *)
(* compactions that follows it.                                            *)
(*                                                                         *)
(* Put holds the tree's write lock from its first read of the memtable to  *)
(* the end of the last compaction it causes.  The lock is held exactly     *)
(* while pc # "idle": the operations of other goroutines (Put, Delete,     *)
(* Get, the snapshot of a RangeScan) need it and wait.  Flush and          *)
(* compaction are steps of their own because the part of RangeScan that    *)
(* reads files runs without the lock, between any two of them (TreeScan).  *)
(*                                                                         *)
(* Data abstractions: see Tables for keys, values and tables, Compaction   *)
(* for the result of a compaction.                                         *)
(*                                                                         *)
(* The operators whose comment begins with "Fault:", here and in the other *)
(* modules, are not part of the model: each is a plausible mistake in the  *)
(* definition that follows it, and makes a property fail.                  *)
(***************************************************************************)
EXTENDS Compaction, Sequences

CONSTANTS
  MemTableSize,  \* size above which a Put flushes the memtable
  LLimit,        \* tables in a level that trigger its compaction
  IOMayFail,     \* TRUE if creating, writing or syncing a file may fail
  MaxFiles       \* bound of the model: files created in a behaviour

ASSUME IOMayFailIsBoolean == IOMayFail \in BOOLEAN
ASSUME LimitsAreNumbers == /\ LLimit \in Nat \ {0}
                           /\ MaxFiles \in Nat

VARIABLES
  memTable,   \* the memtable: the newest version of each key, if it holds one
  levels,     \* the levels from the top; each a sequence of tables, newest first
  pc,         \* what the holder of the write lock does next, "idle" if nobody
  level,      \* the level checkCompaction looks at (the code's levelIdx + 1)
  nextFile    \* number of files created so far; names the next one (UnixNano)

vars == <<memTable, levels, pc, level, nextFile>>

Table == [file : Nat, data : [Keys -> Entry]]

-----------------------------------------------------------------------------
(* The size of the memtable: a key counts one, a value its length.         *)
Size(m) == MapThenSumSet(LAMBDA k : 1 + ValueSize(m[k]), Records(m))

-----------------------------------------------------------------------------
(* Reading.                                                                *)

(* The places that may hold a version of a key: the memtable, then the     *)
(* tables, from the newest to the oldest.                                  *)
MemSlot == <<0, 0>>
TableSlots == UNION {{<<i, j>> : j \in DOMAIN levels[i]} : i \in DOMAIN levels}
Slots == {MemSlot} \cup TableSlots

Newer(p, q) == p[1] < q[1] \/ (p[1] = q[1] /\ p[2] < q[2])

At(p) == IF p = MemSlot THEN memTable ELSE levels[p[1]][p[2]].data

(* What reading slot p for key k yields.                                   *)
Found(p, k) == IF p = MemSlot THEN memTable[k] ELSE SSTGet(At(p), k)

Get(k) ==
  LET hits == {p \in Slots : Found(p, k) # Absent}
      newest == CHOOSE p \in hits : \A q \in hits : ~Newer(q, p)
  IN  IF hits = {} \/ Found(newest, k) = Tomb THEN Absent ELSE Found(newest, k)

-----------------------------------------------------------------------------
(* Writing.                                                                *)

(* Fault: Put overwrites the memtable's version without merging.           *)
MemPutOverwrites(m, k, v) == [m EXCEPT ![k] = v]

(* The memtable after a Put: with a MergeFn, a value is merged with the    *)
(* value the memtable holds, if it holds one.                              *)
MemPut(m, k, v) ==
  [m EXCEPT ![k] = IF Merging /\ m[k] \notin {Absent, Tomb} /\ v # Tomb
                     THEN Merge(v, m[k])
                     ELSE v]

(* Put: the memtable takes the new version; above MemTableSize the caller  *)
(* goes on to flush it, still holding the lock.                            *)
Write(k, v) ==
  /\ pc = "idle"
  /\ nextFile < MaxFiles
  /\ memTable' = MemPut(memTable, k, v)
  /\ pc' = IF Size(memTable') > MemTableSize THEN "flush" ELSE "idle"
  /\ UNCHANGED <<levels, level, nextFile>>

Put(k, v) == v \in Value /\ Write(k, v)

Delete(k) == Write(k, Tomb)

(* Fault: the new table goes behind those of its level.                    *)
PrependOldest(ls, i, t) ==
  IF i > Len(ls) THEN Append(ls, <<t>>) ELSE [ls EXCEPT ![i] = ls[i] \o <<t>>]

(* Fault: the new table replaces those of its level.                       *)
PrependAlone(ls, i, t) ==
  IF i > Len(ls) THEN Append(ls, <<t>>) ELSE [ls EXCEPT ![i] = <<t>>]

(* A table becomes the newest of level i, which may not exist yet.         *)
Prepend(ls, i, t) ==
  IF i > Len(ls) THEN Append(ls, <<t>>) ELSE [ls EXCEPT ![i] = <<t>> \o ls[i]]

Flush ==
  /\ pc = "flush"
  /\ levels' = Prepend(levels, 1, [file |-> nextFile, data |-> memTable])
  /\ memTable' = NoRecords
  /\ nextFile' = nextFile + 1
  /\ pc' = "compact"
  /\ level' = 1

(* Fault: a failed flush drops the memtable.                               *)
FlushFailsForgets ==
  /\ IOMayFail
  /\ pc = "flush"
  /\ memTable' = NoRecords
  /\ pc' = "idle"
  /\ UNCHANGED <<levels, level, nextFile>>

(* The file cannot be created, written or synced: logged, and Put returns  *)
(* with the memtable as it is.  A half-written file is never read.         *)
FlushFails ==
  /\ IOMayFail
  /\ pc = "flush"
  /\ pc' = "idle"
  /\ UNCHANGED <<memTable, levels, level, nextFile>>

-----------------------------------------------------------------------------
(* Compaction.                                                             *)

(* Fault: a level is compacted one table late.                             *)
IsFullLate(i) == i <= Len(levels) /\ Len(levels[i]) > LLimit

IsFull(i) == i <= Len(levels) /\ Len(levels[i]) >= LLimit

(* The inputs leave their level and their files are removed, whatever the  *)
(* levels below still hold for their keys; then the next level is checked. *)
Compact ==
  /\ pc = "compact"
  /\ IsFull(level)
  /\ CanCompact(levels[level])
  /\ levels' = Prepend([levels EXCEPT ![level] = <<>>], level + 1,
                       [file |-> nextFile, data |-> Merged(levels[level])])
  /\ nextFile' = nextFile + 1
  /\ level' = level + 1
  /\ UNCHANGED <<memTable, pc>>

(* Fault: a failed compaction is tried again and again.                    *)
CompactFailsRetries ==
  /\ pc = "compact"
  /\ IsFull(level)
  /\ IOMayFail \/ ~CanCompact(levels[level])
  /\ UNCHANGED <<memTable, levels, pc, level, nextFile>>

(* Fault: a compaction has emptied its level when it fails.                *)
CompactFailsForgets ==
  /\ pc = "compact"
  /\ IsFull(level)
  /\ IOMayFail \/ ~CanCompact(levels[level])
  /\ levels' = [levels EXCEPT ![level] = <<>>]
  /\ pc' = "idle"
  /\ UNCHANGED <<memTable, level, nextFile>>

(* An error leaves the levels as they are and ends the cascade.            *)
CompactFails ==
  /\ pc = "compact"
  /\ IsFull(level)
  /\ IOMayFail \/ ~CanCompact(levels[level])
  /\ pc' = "idle"
  /\ UNCHANGED <<memTable, levels, level, nextFile>>

CompactDone ==
  /\ pc = "compact"
  /\ ~IsFull(level)
  /\ pc' = "idle"
  /\ UNCHANGED <<memTable, levels, level, nextFile>>

-----------------------------------------------------------------------------
Init ==
  /\ memTable = NoRecords
  /\ levels = <<>>
  /\ pc = "idle"
  /\ level = 1
  /\ nextFile = 0

(* The steps of the goroutine that holds the lock after its write.         *)
Maintenance ==
  Flush \/ FlushFails \/ Compact \/ CompactFails \/ CompactDone

TypeOK ==
  /\ memTable \in [Keys -> Entry]
  /\ levels \in Seq(Seq(Table))
  /\ pc \in {"idle", "flush", "compact"}
  /\ level \in Nat \ {0}
  /\ nextFile \in Nat
=============================================================================
