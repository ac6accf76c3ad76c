------------------------------ MODULE SSTable -------------------------------
(***************************************************************************)
(* The file of internal/sstable: the Writer that lays records one behind   *)
(* the other and notes every IndexStep-th in a sparse index, and the       *)
(* readers that go through it by offset: Get, the part of RangeScan that   *)
(* reads one table, and the pass of a compaction.  LsmTree and TreeScan    *)
(* use what Tables says of a reader's answer; here it is checked against   *)
(* the loops of the code.                                                  *)
(*                                                                         *)
(* Key k stands for the string of k equal bytes: its length is k, and 0 is *)
(* the empty string.  A closed file is never written again and iterators   *)
(* share nothing, so one reader at a time is enough.                       *)
(***************************************************************************)
EXTENDS Tables, SequencesExt

CONSTANTS
  MaxKeySize,  \* longest key a reader accepts
  NoEnd        \* the empty end key: no upper bound

(* The limits are lengths, and a value has finitely many bytes.            *)
ASSUME LimitsAreLengths == MaxKeySize \in Nat /\ MaxValueSize \in Nat
ASSUME DataAreFinite == IsFiniteSet(Data)
ASSUME BadKeysAreBad == BadKeys = {k \in Keys : k = EmptyKey \/ k > MaxKeySize}

VARIABLES
  phase,   \* "writing", "closed", or "failed": no reader will see the file
  file,    \* the records in the file: the offset of each, its key and value
  w,       \* the Writer; once closed, the fields of the SSTable
  it,      \* the iterator of the reader
  rd       \* the reader: its request, how it stands, and what it has got

wvars == <<phase, file, w>>
ssvars == <<phase, file, w, it, rd>>

-----------------------------------------------------------------------------
(* Writing.  A record is the length of its key in 4 bytes, the key, the    *)
(* length of its value in 4 bytes, the value.                              *)
HeaderSize(k) == 8 + k
RecordSize(k, v) == HeaderSize(k) + ValueSize(v)

(* Where the next record goes, whatever the Writer has counted.            *)
FileEnd == MapThenSumSet(LAMBDA r : RecordSize(r.key, r.val), file)

(* What AppendBytes notes of a record before it writes it.                 *)
Noted(x, k) ==
  [x EXCEPT !.minKey = IF x.minKey = EmptyKey THEN k ELSE x.minKey,
            !.maxKey = k,
            !.bloom = x.bloom \cup {k},
            !.index = IF x.itemCount % IndexStep = 0
                        THEN Append(x.index, [key |-> k, offset |-> x.curOffset])
                        ELSE x.index,
            !.itemCount = x.itemCount + 1]

(* The callers append in ascending order: the memtable's InOrder, and the  *)
(* merge of a compaction.                                                  *)
Ascends(k) == w.itemCount = 0 \/ k > w.maxKey

(* Fault: the length fields are not counted.                               *)
AppendBytesMiscounts(k, v) ==
  /\ phase = "writing"
  /\ Ascends(k)
  /\ file' = file \cup {[at |-> FileEnd, key |-> k, val |-> v]}
  /\ w' = [Noted(w, k) EXCEPT !.curOffset = w.curOffset + k + ValueSize(v)]
  /\ UNCHANGED <<phase, it, rd>>

AppendBytes(k, v) ==
  /\ phase = "writing"
  /\ Ascends(k)
  /\ file' = file \cup {[at |-> FileEnd, key |-> k, val |-> v]}
  /\ w' = [Noted(w, k) EXCEPT !.curOffset = w.curOffset + RecordSize(k, v)]
  /\ UNCHANGED <<phase, it, rd>>

(* A write fails: the writer is dropped with the record noted, not counted.*)
AppendFails(k) ==
  /\ phase = "writing"
  /\ Ascends(k)
  /\ w' = Noted(w, k)
  /\ phase' = "failed"
  /\ UNCHANGED <<file, it, rd>>

Close ==
  /\ phase = "writing"
  /\ phase' = "closed"
  /\ UNCHANGED <<file, w, it, rd>>

CloseFails ==
  /\ phase = "writing"
  /\ phase' = "failed"
  /\ UNCHANGED <<file, w, it, rd>>

(* The data end where the meta data begin.                                 *)
MetaStart == w.curOffset

-----------------------------------------------------------------------------
(* The iterator: its position, the key it has read, the value that is      *)
(* still to be read or skipped, and whether NextKey returned true.         *)
NoIterator == [pos |-> 0, key |-> EmptyKey, val |-> Absent, pending |-> FALSE,
               ok |-> FALSE, err |-> FALSE, eof |-> FALSE]

IteratorAt(offset) == [NoIterator EXCEPT !.pos = offset]

(* NewIteratorAt refuses a table without data.                             *)
Opens(offset) == MetaStart > 0 /\ offset \in 0..MetaStart

(* ReadValue and SkipValue both end behind the value.                      *)
PastValue(i) ==
  IF i.pending THEN [i EXCEPT !.pos = i.pos + ValueSize(i.val), !.pending = FALSE]
  ELSE i

Failed(i) == [i EXCEPT !.ok = FALSE, !.err = TRUE]

(* Fault: the length of the value is not checked.                          *)
ReadHeaderTrusts(i) ==
  LET here == {r \in file : r.at = i.pos}
      r == CHOOSE x \in here : TRUE
  IN  IF i.pos = MetaStart THEN [i EXCEPT !.ok = FALSE, !.eof = TRUE]
      ELSE IF here = {} \/ r.key = 0 \/ r.key > MaxKeySize THEN Failed(i)
      ELSE [i EXCEPT !.pos = i.pos + HeaderSize(r.key), !.key = r.key,
                     !.val = r.val, !.pending = TRUE, !.ok = TRUE]

(* The lengths and the key at the iterator's position.  Off the start of a *)
(* record there are no lengths to read.                                    *)
ReadHeader(i) ==
  LET here == {r \in file : r.at = i.pos}
      r == CHOOSE x \in here : TRUE
  IN  IF i.pos = MetaStart THEN [i EXCEPT !.ok = FALSE, !.eof = TRUE]
      ELSE IF here = {} \/ r.key = 0 \/ r.key > MaxKeySize THEN Failed(i)
      ELSE IF ValueSize(r.val) > MaxValueSize THEN Failed([i EXCEPT !.key = r.key])
      ELSE [i EXCEPT !.pos = i.pos + HeaderSize(r.key), !.key = r.key,
                     !.val = r.val, !.pending = TRUE, !.ok = TRUE]

NextKey(i) ==
  IF i.err \/ i.eof THEN [i EXCEPT !.ok = FALSE] ELSE ReadHeader(PastValue(i))

-----------------------------------------------------------------------------
(* Readers.  rd.at is "reading" as long as the loop of the reader goes on. *)
Reading == rd.at = "reading"
CanStart == phase = "closed" /\ rd.at = "idle"

Ends(at) == rd' = [rd EXCEPT !.at = at]

(* Fault: only the entries below the key are counted.                      *)
IndexPosBelow(k) == Cardinality({i \in DOMAIN w.index : w.index[i].key < k})

(* sort.Search: the number of index entries at or below the key.           *)
IndexPos(k) == Cardinality({i \in DOMAIN w.index : w.index[i].key <= k})

(* Get: the Bloom filter may answer "maybe" for a key that is not in the   *)
(* table, and answers it for every key that is (Bloom).                    *)
GetByBloom(k) ==
  /\ CanStart
  /\ k \notin w.bloom
  /\ rd' = [op |-> "get", key |-> k, at |-> "done", got |-> Absent]
  /\ UNCHANGED <<wvars, it>>

GetStart(k) ==
  /\ CanStart
  /\ IF IndexPos(k) > 0 /\ Opens(w.index[IndexPos(k)].offset)
       THEN /\ it' = IteratorAt(w.index[IndexPos(k)].offset)
            /\ rd' = [op |-> "get", key |-> k, at |-> "reading", got |-> Absent]
       ELSE /\ rd' = [op |-> "get", key |-> k, at |-> "done", got |-> Absent]
            /\ UNCHANGED it
  /\ UNCHANGED wvars

(* One turn of Get's loop: the key is found, a greater key or the end is   *)
(* met, or the record is skipped.                                          *)
GetStep ==
  /\ Reading /\ rd.op = "get"
  /\ LET n == NextKey(it)
     IN  \/ /\ n.ok /\ n.key = rd.key
            /\ it' = PastValue(n)
            /\ rd' = [rd EXCEPT !.at = "done", !.got = n.val]
         \/ /\ ~n.ok \/ n.key > rd.key
            /\ it' = n
            /\ Ends("done")
         \/ /\ n.ok /\ n.key < rd.key
            /\ it' = PastValue(n)
            /\ UNCHANGED rd
  /\ UNCHANGED wvars

(* The range scan of one table.                                            *)
Past(k, hi) == hi # NoEnd /\ k >= hi

Request(lo, hi, at) == [op |-> "scan", lo |-> lo, hi |-> hi, at |-> at, got |-> <<>>]

ScanStarts(lo, hi) ==
  CanStart /\ (hi # NoEnd => lo < hi)

ScanSkips(lo, hi) ==
  /\ ScanStarts(lo, hi)
  /\ Past(w.minKey, hi) \/ w.maxKey < lo
  /\ rd' = Request(lo, hi, "done")
  /\ UNCHANGED <<wvars, it>>

(* sst.Index[0] of a table without records.                                *)
ScanPanics(lo, hi) ==
  /\ ScanStarts(lo, hi)
  /\ ~Past(w.minKey, hi) /\ w.maxKey >= lo
  /\ w.index = <<>>
  /\ rd' = Request(lo, hi, "panicked")
  /\ UNCHANGED <<wvars, it>>

(* Fault: the scan starts at the first index entry past its start key.     *)
ScanOpensLate(lo, hi) ==
  /\ ScanStarts(lo, hi)
  /\ ~Past(w.minKey, hi) /\ w.maxKey >= lo
  /\ w.index # <<>>
  /\ LET offset == w.index[Min({IndexPos(lo) + 1, Len(w.index)})].offset
     IN  it' = IteratorAt(offset)
  /\ rd' = Request(lo, hi, "reading")
  /\ UNCHANGED wvars

(* A table with an index has data, and every entry's offset is in them:    *)
(* the iterator opens (that the file may be gone is in TreeScan).          *)
ScanOpens(lo, hi) ==
  /\ ScanStarts(lo, hi)
  /\ ~Past(w.minKey, hi) /\ w.maxKey >= lo
  /\ w.index # <<>>
  /\ LET offset == w.index[Max({IndexPos(lo), 1})].offset
     IN  it' = IteratorAt(offset)
  /\ rd' = Request(lo, hi, "reading")
  /\ UNCHANGED wvars

(* One turn of the loops of pushSST and advanceAndPush.                    *)
ScanStep ==
  /\ Reading /\ rd.op = "scan"
  /\ LET n == NextKey(it)
     IN  \/ ~n.ok /\ it' = n /\ Ends(IF n.err THEN "failed" ELSE "done")
         \/ n.ok /\ n.key < rd.lo /\ it' = PastValue(n) /\ UNCHANGED rd
         \/ n.ok /\ n.key >= rd.lo /\ Past(n.key, rd.hi) /\ it' = n /\ Ends("done")
         \/ /\ n.ok /\ n.key >= rd.lo /\ ~Past(n.key, rd.hi)
            /\ it' = PastValue(n)
            /\ rd' = [rd EXCEPT !.got = Append(@, <<n.key, n.val>>)]
  /\ UNCHANGED wvars

(* The pass of a compaction over one of its inputs.                        *)
CompactStart ==
  /\ CanStart
  /\ IF Opens(0)
       THEN /\ it' = IteratorAt(0)
            /\ rd' = [op |-> "compact", at |-> "reading", got |-> <<>>]
       ELSE /\ rd' = [op |-> "compact", at |-> "failed", got |-> <<>>]
            /\ UNCHANGED it
  /\ UNCHANGED wvars

(* The first NextKey that returns false closes the iterator and asks for   *)
(* no error; a later one is asked.                                         *)
CompactStep ==
  /\ Reading /\ rd.op = "compact"
  /\ LET n == NextKey(it)
     IN  \/ /\ ~n.ok
            /\ it' = n
            /\ Ends(IF n.err /\ rd.got # <<>> THEN "failed" ELSE "done")
         \/ /\ n.ok
            /\ it' = PastValue(n)
            /\ rd' = [rd EXCEPT !.got = Append(@, <<n.key, n.val>>)]
  /\ UNCHANGED wvars

(* The reader takes its answer and closes its iterator.                    *)
Return ==
  /\ rd.at \in {"done", "failed"}
  /\ rd' = [at |-> "idle"]
  /\ it' = NoIterator
  /\ UNCHANGED wvars

-----------------------------------------------------------------------------
Init ==
  /\ phase = "writing"
  /\ file = {}
  /\ w = [minKey |-> EmptyKey, maxKey |-> EmptyKey, bloom |-> {},
          index |-> <<>>, itemCount |-> 0, curOffset |-> 0]
  /\ it = NoIterator
  /\ rd = [at |-> "idle"]

Next ==
  \/ \E k \in Keys : \/ \E v \in Value \cup {Tomb} : AppendBytes(k, v)
                     \/ AppendFails(k)
  \/ Close
  \/ CloseFails
  \/ \E k \in Keys : GetByBloom(k) \/ GetStart(k)
  \/ \E lo \in Keys \cup {EmptyKey}, hi \in (Keys \ {EmptyKey}) \cup {NoEnd} :
       ScanSkips(lo, hi) \/ ScanPanics(lo, hi) \/ ScanOpens(lo, hi)
  \/ CompactStart
  \/ GetStep \/ ScanStep \/ CompactStep
  \/ Return

Spec == Init /\ [][Next]_ssvars

-----------------------------------------------------------------------------
(* The table the appends amount to.                                        *)
Written == [k \in Keys |-> IF \E r \in file : r.key = k
                             THEN (CHOOSE r \in file : r.key = k).val
                             ELSE Absent]

(* The readers' answers as a table: the pairs must come in order.          *)
InOrder(s) == \A i, j \in DOMAIN s : i < j => s[i][1] < s[j][1]
AsTable(s) == [k \in Keys |-> IF \E i \in DOMAIN s : s[i][1] = k
                                THEN s[CHOOSE i \in DOMAIN s : s[i][1] = k][2]
                                ELSE Absent]

(* The fields of a closed table describe its records: the keys that bound  *)
(* it, and an index entry with the right offset for the first record of    *)
(* each block and no other.                                                *)
IndexIsRight ==
  phase = "closed" =>
    /\ w.minKey = MinKey(Written) /\ w.maxKey = MaxKey(Written)
    /\ {e.key : e \in ToSet(w.index)} = Indexed(Written)
    /\ \A e \in ToSet(w.index) : \E r \in file : r.at = e.offset /\ r.key = e.key

(* Get answers what Tables says: the record appended for the key, unless a *)
(* record of its block at or before it cannot be read.                     *)
GetIsRight ==
  rd.at = "done" /\ rd.op = "get" => rd.got = SSTGet(Written, rd.key)

(* A range scan that ends well has every record in its range, in order;    *)
(* it fails only on a record Tables says is in its way, and panics only on *)
(* a table without records.                                                *)
ScanIsRight ==
  rd.at # "idle" /\ rd.op = "scan" =>
    LET past  == {k \in Keys : Past(k, rd.hi)}
        inWay == ScanReads(Written, rd.lo, past)
        bad   == {k \in inWay : ~Readable(k, Written[k])}
        asked == [k \in Keys |-> IF k >= rd.lo /\ ~Past(k, rd.hi)
                                   THEN Written[k] ELSE Absent]
        over  == OutOfRange(Written, rd.lo, past)
    IN  /\ InOrder(rd.got)
        /\ rd.at = "done" => \/ over /\ rd.got = <<>>
                             \/ ~over /\ bad = {} /\ AsTable(rd.got) = asked
        /\ rd.at = "failed" => bad # {}
        /\ rd.at = "failed" =>
             (rd.got = <<>> <=> bad \cap OpenReads(Written, rd.lo) # {})
        /\ rd.at = "panicked" => Records(Written) = {}

(* A compaction reads of a table what Tables says, or fails where it says. *)
CompactionIsRight ==
  rd.at # "idle" /\ rd.op = "compact" =>
    /\ InOrder(rd.got)
    /\ rd.at = "done" => /\ CompactionAccepts(Written)
                         /\ AsTable(rd.got) = CompactionReads(Written)
    /\ rd.at = "failed" => ~CompactionAccepts(Written)
=============================================================================
