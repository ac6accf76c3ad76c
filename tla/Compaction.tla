----------------------------- MODULE Compaction -----------------------------
(***************************************************************************)
(* The result of a compaction of internal/lsm, key by key, over the        *)
(* contents of the tables of a level, newest first.  LsmTree takes it in   *)
(* one step; CompactionMerge has the heap of iterators that computes it.   *)
(*                                                                         *)
(* The MergeFn is the union of its arguments: that is what postingMergeFn  *)
(* does to the entries of two posting lists (Phrases checks it).           *)
(***************************************************************************)
EXTENDS Tables

CONSTANT Merging   \* TRUE for a tree with a MergeFn (NewWithMerge)

ASSUME MergingIsBoolean == Merging \in BOOLEAN

(* Fault: the MergeFn keeps only what both values have.                    *)
MergeIntersects(newer, older) == newer \cap older

(* The MergeFn.                                                            *)
Merge(newer, older) == newer \cup older

(* Fault: errors of the iterators are ignored.                             *)
CanCompactRegardless(lv) == \A j \in DOMAIN lv : Records(lv[j].data) # {}

CanCompact(lv) == \A j \in DOMAIN lv : CompactionAccepts(lv[j].data)

Reading(lv, j, k) == CompactionReads(lv[j].data)[k]

(* Fault: tombstones are passed over as if they were no versions.          *)
HoldersOfValues(lv, k) == {j \in DOMAIN lv : Reading(lv, j, k) \notin {Absent, Tomb}}

(* The tables of a level that have a version of the key.                   *)
Holders(lv, k) == {j \in DOMAIN lv : Reading(lv, j, k) # Absent}

(* Fault: the MergeFn is not called, the newest version wins.              *)
MergedEntryNewest(lv, k) ==
  LET newest == Reading(lv, Min(Holders(lv, k)), k)
  IN  IF Holders(lv, k) = {} \/ newest = Tomb THEN Absent ELSE newest

(* The k-way merge at one key: the version of the newest table is taken,   *)
(* or with a MergeFn merged with the older ones, tombstones among them     *)
(* passed over; a newest version that is a tombstone is dropped.           *)
MergedEntry(lv, k) ==
  LET hits   == Holders(lv, k)
      newest == Reading(lv, Min(hits), k)
      older  == {j \in hits \ {Min(hits)} : Reading(lv, j, k) # Tomb}
  IN  IF hits = {} \/ newest = Tomb THEN Absent
      ELSE IF Merging THEN Merge(newest, UNION {Reading(lv, j, k) : j \in older})
      ELSE newest

Merged(lv) == [k \in Keys |-> MergedEntry(lv, k)]
=============================================================================
