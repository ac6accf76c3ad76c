----------------------------- MODULE LsmPlaces ------------------------------
(***************************************************************************)
(* LsmTree implements Places, the tree InvertedIndex is built on.          *)
(***************************************************************************)
EXTENDS LsmHistory, SequencesExt

(* The pieces each table has of the keys no client deletes; the memtable,  *)
(* and then the tables level after level.                                  *)
PiecesOf(d) == [k \in Kept |-> IF d[k] \in {Absent, Tomb} THEN {} ELSE d[k]]
Rows == <<PiecesOf(memTable)>>
          \o LET tables == FlattenSeq(levels)
             IN  [n \in DOMAIN tables |-> PiecesOf(tables[n].data)]

Placed == INSTANCE Places WITH Keys <- Kept, places <- Rows

(* For those keys a tree with a MergeFn is a sequence of places: a Put     *)
(* adds to the first, a flush empties it into a new second place, and a    *)
(* compaction unites neighbours, whatever fails.                           *)
IsPlaces == Placed!Spec
=============================================================================
