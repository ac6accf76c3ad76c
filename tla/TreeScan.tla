----------------------------- MODULE TreeScan ------------------------------
(***************************************************************************)
(* RangeScan of internal/lsm against the tree of LsmTree: one goroutine    *)
(* scans while others put, delete, flush and compact.                      *)
(*                                                                         *)
(* The scan copies the memtable's pairs and the list of tables under the   *)
(* read lock, then opens the files of those tables one after the other     *)
(* without it: a compaction may have removed a file the scan is about to   *)
(* open, and never harms one it has open.  Scans share nothing with each   *)
(* other, so one is enough.                                                *)
(***************************************************************************)
EXTENDS LsmTree, SequencesExt

CONSTANTS
  NoEnd,       \* the empty end key: the scan has no upper bound
  Limits       \* the limits scans are given; 0 or less stands for DefaultLimit

(* A process has written finitely many keys.                               *)
ASSUME KeysAreFinite == IsFiniteSet(Keys)
ASSUME LimitsAreIntegers == Limits \subseteq Int

DefaultLimit == 100

VARIABLE scan  \* the scan: its request, what it copied, and its answer

tvars == <<memTable, levels, pc, level, nextFile>>
svars == <<memTable, levels, pc, level, nextFile, scan>>

-----------------------------------------------------------------------------
Past(k, hi) == hi # NoEnd /\ k >= hi

PastKeys(hi) == {k \in Keys : Past(k, hi)}

InRange(k, lo, hi) == k >= lo /\ ~Past(k, hi)

EmptyRange(lo, hi) == hi # NoEnd /\ lo >= hi

(* The pairs of the memtable in the range, tombstones left out.            *)
MemPairs(m, lo, hi) ==
  [k \in Keys |-> IF InRange(k, lo, hi) /\ m[k] # Tomb THEN m[k] ELSE Absent]

(* The records a scan reads of a table, readable or not.                   *)
InWay(d, lo, hi) == ScanReads(d, lo, PastKeys(hi))

(* Fault: only a table whose keys are all past the end is passed over.     *)
SkippedPastEnd(d, lo, hi) == Past(MinKey(d), hi)

(* Whether a scan passes over a table.                                     *)
Skipped(d, lo, hi) == OutOfRange(d, lo, PastKeys(hi))

(* Fault: the oldest table wins.                                           *)
NewestOfLast(ds, k) ==
  LET hits == {i \in DOMAIN ds : ds[i][k] # Absent}
  IN  IF hits = {} THEN Absent ELSE ds[Max(hits)][k]

(* The newest version of a key in the tables read, in the order given:     *)
(* the order of the priorities, level by level.                            *)
NewestOf(ds, k) ==
  LET hits == {i \in DOMAIN ds : ds[i][k] # Absent}
  IN  IF hits = {} THEN Absent ELSE ds[Min(hits)][k]

(* The merge of the tables with the memtable's pairs.  The memtable wins;  *)
(* a table's tombstone hides older tables; emit passes over the empty key, *)
(* which equals the initial lastKey; then the limit cuts.                  *)
ScanOutput(mem, ds, lo, hi, limit) ==
  LET disk(k) == IF InRange(k, lo, hi) /\ NewestOf(ds, k) # Tomb
                   THEN NewestOf(ds, k) ELSE Absent
      both    == [k \in Keys |-> IF mem[k] # Absent THEN mem[k] ELSE disk(k)]
      emitted == {k \in Keys \ {EmptyKey} : both[k] # Absent}
  IN  [k \in Keys |-> IF k \in emitted
                         /\ Cardinality({j \in emitted : j < k}) < limit
                        THEN both[k] ELSE Absent]

-----------------------------------------------------------------------------
NoScan == [at |-> "idle"]

(* A file exists as long as its table is in the tree: a compaction removes *)
(* the files of its inputs.                                                *)
OnDisk(t) == \E p \in TableSlots : levels[p[1]][p[2]].file = t.file

(* Fault: the deepest level comes first.                                   *)
TableListFromBelow(ls) == FlattenSeq(Reverse(ls))

(* The tables of all levels, from the newest to the oldest.                *)
TableList(ls) == FlattenSeq(ls)

EffectiveLimit(limit) == IF limit <= 0 THEN DefaultLimit ELSE limit

(* The read-locked part: it waits until no Put holds the lock.  The fields *)
(* before (the answers Get gives at that moment), hidden (the keys whose   *)
(* newest version is a tombstone in the memtable) and born are history.    *)
Snapshot(lo, hi, limit) ==
  /\ scan.at = "idle"
  /\ pc = "idle"
  /\ ~EmptyRange(lo, hi)
  /\ scan' = [at     |-> "open",
              lo     |-> lo,
              hi     |-> hi,
              limit  |-> EffectiveLimit(limit),
              mem    |-> MemPairs(memTable, lo, hi),
              todo   |-> TableList(levels),
              pushed |-> <<>>,
              before |-> [k \in Keys |-> IF InRange(k, lo, hi) THEN Get(k) ELSE Absent],
              hidden |-> {k \in Keys : InRange(k, lo, hi) /\ memTable[k] = Tomb},
              born   |-> nextFile]
  /\ UNCHANGED tvars

(* A request whose start is not below its end is refused.                  *)
BadRange(lo, hi) ==
  /\ scan.at = "idle"
  /\ EmptyRange(lo, hi)
  /\ scan' = [at |-> "failed"]
  /\ UNCHANGED tvars

(* One table: passed over, or opened and read up to its first record at or *)
(* past the start key.                                                     *)
SkipTable ==
  /\ scan.at = "open"
  /\ scan.todo # <<>>
  /\ Skipped(Head(scan.todo).data, scan.lo, scan.hi)
  /\ scan' = [scan EXCEPT !.todo = Tail(scan.todo)]
  /\ UNCHANGED tvars

OpenTable ==
  /\ scan.at = "open"
  /\ scan.todo # <<>>
  /\ LET t == Head(scan.todo)
     IN  /\ ~Skipped(t.data, scan.lo, scan.hi)
         /\ Records(t.data) # {}
         /\ OnDisk(t)
         /\ \A k \in OpenReads(t.data, scan.lo) : Readable(k, t.data[k])
         /\ scan' = [scan EXCEPT !.todo = Tail(scan.todo),
                                 !.pushed = Append(scan.pushed, t.data)]
  /\ UNCHANGED tvars

(* The file is gone, or a record in the way cannot be read: RangeScan      *)
(* returns the error.                                                      *)
OpenFails ==
  /\ scan.at = "open"
  /\ scan.todo # <<>>
  /\ LET t == Head(scan.todo)
     IN  /\ ~Skipped(t.data, scan.lo, scan.hi)
         /\ Records(t.data) # {}
         /\ \/ ~OnDisk(t)
            \/ \E k \in OpenReads(t.data, scan.lo) : ~Readable(k, t.data[k])
  /\ scan' = [at |-> "failed"]
  /\ UNCHANGED tvars

(* sst.Index[0] of a table without records: the index expression panics.   *)
OpenPanics ==
  /\ scan.at = "open"
  /\ scan.todo # <<>>
  /\ LET t == Head(scan.todo)
     IN  /\ ~Skipped(t.data, scan.lo, scan.hi)
         /\ Records(t.data) = {}
  /\ scan' = [at |-> "panicked", lo |-> scan.lo]
  /\ UNCHANGED tvars

(* All tables are open: the merge reads each as far as the range goes.     *)
MergeAll ==
  /\ scan.at = "open"
  /\ scan.todo = <<>>
  /\ \A d \in ToSet(scan.pushed) :
       \A k \in InWay(d, scan.lo, scan.hi) : Readable(k, d[k])
  /\ scan' = [at     |-> "done",
              lo     |-> scan.lo,
              hi     |-> scan.hi,
              limit  |-> scan.limit,
              out    |-> ScanOutput(scan.mem, scan.pushed,
                                    scan.lo, scan.hi, scan.limit),
              before |-> scan.before,
              hidden |-> scan.hidden]
  /\ UNCHANGED tvars

MergeFails ==
  /\ scan.at = "open"
  /\ scan.todo = <<>>
  /\ \E d \in ToSet(scan.pushed) :
       \E k \in InWay(d, scan.lo, scan.hi) : ~Readable(k, d[k])
  /\ scan' = [at |-> "failed"]
  /\ UNCHANGED tvars

(* The caller takes the answer.                                            *)
Return ==
  /\ scan.at \in {"done", "failed"}
  /\ scan' = NoScan
  /\ UNCHANGED tvars
-----------------------------------------------------------------------------
SInit == Init /\ scan = NoScan

(* The other goroutines, as long as the process lives.                     *)
TreeStep ==
  /\ scan.at # "panicked"
  /\ \/ \E k \in Keys, v \in Value : Put(k, v)
     \/ \E k \in Keys : Delete(k)
     \/ Maintenance
  /\ UNCHANGED scan

ReadTables == SkipTable \/ OpenTable \/ OpenFails \/ OpenPanics
              \/ MergeAll \/ MergeFails

SNext ==
  \/ TreeStep
  \/ \E lo \in Keys \cup {EmptyKey}, hi \in Keys \cup {NoEnd} :
       BadRange(lo, hi) \/ \E limit \in Limits : Snapshot(lo, hi, limit)
  \/ ReadTables
  \/ Return

SSpec == SInit /\ [][SNext]_svars

-----------------------------------------------------------------------------
(* A scan that succeeds answers, up to its limit, with what Get would have *)
(* answered for every key of the range at the moment of the snapshot,      *)
(* whatever puts, flushes and compactions have happened since.  Two kinds  *)
(* of keys are left out: the empty key, and keys whose deletion is still   *)
(* in the memtable.                                                        *)
Visible(k) == InRange(k, scan.lo, scan.hi) /\ k # EmptyKey /\ k \notin scan.hidden

ScanReadsSnapshot ==
  scan.at = "done" =>
    LET emitted == {k \in Keys : scan.out[k] # Absent}
    IN  /\ \A k \in emitted : InRange(k, scan.lo, scan.hi)
        /\ Cardinality(emitted) <= scan.limit
        /\ \A k \in Keys : Visible(k) =>
             \/ scan.out[k] = scan.before[k]
             \/ /\ scan.out[k] = Absent
                /\ Cardinality(emitted) = scan.limit
                /\ \A j \in emitted : j < k

(* A key that had been deleted when the scan took its snapshot is not in   *)
(* its answer: the tables' version is older than the memtable's and is     *)
(* skipped.                                                                *)
ScanHidesDeleted ==
  scan.at = "done" =>
    \A k \in Keys : scan.out[k] # Absent => scan.before[k] # Absent

(* A file a scan has still to open is missing only if a compaction has     *)
(* completed since the scan's snapshot: no flush and no failed compaction  *)
(* takes a file from under a reader.                                       *)
MissingOnlyAfterCompaction ==
  scan.at = "open" =>
    \A i \in DOMAIN scan.todo :
      \/ OnDisk(scan.todo[i])
      \/ \E p \in TableSlots :
           p[1] > 1 /\ levels[p[1]][p[2]].file >= scan.born

(* A table without records panics only scans from the empty key: a scan    *)
(* with a start key, such as those of the inverted index, passes over it.  *)
PanicsOnlyFromStart == scan.at = "panicked" => scan.lo = EmptyKey
=============================================================================
