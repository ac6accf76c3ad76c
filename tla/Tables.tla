------------------------------- MODULE Tables -------------------------------
(***************************************************************************)
(* The contents of an SSTable and what reading them yields.                *)
(*                                                                         *)
(* A value is a set of pieces (the entries of a posting list).  A table is *)
(* a function from keys to entries, Absent where it has no record.  Keys   *)
(* are numbers, ordered as the code orders strings; 0 is the empty string. *)
(* The operators say what the readers of a file make of it; SSTable has    *)
(* the writer and the readers themselves and shows that they do this.      *)
(***************************************************************************)
EXTENDS Integers, FiniteSets, FiniteSetsExt

CONSTANTS
  Keys,          \* the keys, as natural numbers in byte order
  BadKeys,       \* those a reader refuses: empty, or longer than MaxKeySize
  Data,          \* the pieces values are made of
  Tomb,          \* the value Delete writes
  Absent,        \* no record
  MaxValueSize,  \* longest value a reader accepts
  IndexStep      \* records per entry of an SSTable's sparse index

ASSUME KeysAreOrdered == Keys \subseteq Nat
ASSUME EntriesDiffer  == /\ \A v \in SUBSET Data : v # Tomb /\ v # Absent
                         /\ Tomb # Absent
ASSUME StepIsPositive == IndexStep \in Nat \ {0}

(* The empty string, the least key.                                        *)
EmptyKey == 0

Value == (SUBSET Data) \ {{}}
Entry == {Absent, Tomb} \cup Value

NoRecords == [k \in Keys |-> Absent]
Records(d) == {k \in Keys : d[k] # Absent}

(* The length of a value: one for each piece; a tombstone has length one.  *)
ValueSize(v) == IF v = Tomb THEN 1 ELSE Cardinality(v)

(* A record the iterator accepts: NextKey stops with an error on a key of  *)
(* length zero or above MaxKeySize and on a value above MaxValueSize, both *)
(* of which the writer accepts.                                            *)
Readable(k, v) == k \notin BadKeys /\ ValueSize(v) <= MaxValueSize

AllReadable(d) == \A k \in Records(d) : Readable(k, d[k])

HeadUnreadable(d) ==
  \E k \in Records(d) : /\ \A j \in Records(d) : k <= j
                        /\ ~Readable(k, d[k])

(* The fields MinKey and MaxKey of a table.  The writer takes an empty     *)
(* minKey for one not set yet.                                             *)
MinKey(d) == IF Records(d) \ {EmptyKey} = {} THEN EmptyKey
             ELSE Min(Records(d) \ {EmptyKey})
MaxKey(d) == IF Records(d) = {} THEN EmptyKey ELSE Max(Records(d))

(* Where a record stands, from 0, and the block of the sparse index it is  *)
(* in; the first record of each block has an index entry.                  *)
Rank(d, k)  == Cardinality({j \in Records(d) : j < k})
Block(d, k) == Rank(d, k) \div IndexStep
Indexed(d)  == {k \in Records(d) : Rank(d, k) % IndexStep = 0}

-----------------------------------------------------------------------------
(* Fault: a key that has an index entry is looked for before that entry.   *)
SSTGetMissesFirst(d, k) ==
  IF \E j \in Records(d) : j < k /\ Block(d, j) = Block(d, k) THEN d[k] ELSE Absent

(* sst.Get reads the block of the key from its start: a record it cannot   *)
(* read hides every later one of the block.                                *)
SSTGet(d, k) ==
  IF \A j \in Records(d) : j <= k /\ Block(d, j) = Block(d, k) => Readable(j, d[j])
    THEN d[k]
    ELSE Absent

-----------------------------------------------------------------------------
(* Range scans read from the last index entry at or below the start key,   *)
(* or from the first record.                                               *)
StartRank(d, lo) ==
  LET before == {k \in Indexed(d) : k <= lo}
  IN  IF before = {} THEN 0 ELSE Rank(d, Max(before))

(* A scan passes over a table whose keys are all out of its range; past    *)
(* are the keys at or past its end.                                        *)
OutOfRange(d, lo, past) == MinKey(d) \in past \/ MaxKey(d) < lo

(* The records read until one at or past the start key has been found, and *)
(* those read until one at or past the end key has been found.             *)
OpenReads(d, lo) ==
  {k \in Records(d) : /\ Rank(d, k) >= StartRank(d, lo)
                      /\ \A j \in Records(d) : j < k => j < lo}

ScanReads(d, lo, past) ==
  {k \in Records(d) : /\ Rank(d, k) >= StartRank(d, lo)
                      /\ \A j \in Records(d) : j < k => ~(j >= lo /\ j \in past)}

-----------------------------------------------------------------------------
(* A compaction reads a whole table.  One without records is refused.  A   *)
(* table whose first record cannot be read yields nothing and no error:    *)
(* runCompaction takes a first NextKey that fails for an empty file.  Any  *)
(* later record that cannot be read is an error.                           *)
CompactionReads(d) == IF HeadUnreadable(d) THEN NoRecords ELSE d

CompactionAccepts(d) == Records(d) # {} /\ AllReadable(CompactionReads(d))
=============================================================================
