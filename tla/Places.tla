------------------------------- MODULE Places -------------------------------
(***************************************************************************)
(* What an LSM tree with a MergeFn is to a user that deletes nothing, as   *)
(* the inverted index is: a sequence of places, the memtable and then the  *)
(* tables from the newest to the oldest, that each hold some of the pieces *)
(* put for a key.  LsmPlaces shows that LsmTree implements it;             *)
(* InvertedIndex is built on it.                                           *)
(***************************************************************************)
EXTENDS Naturals, Sequences

CONSTANTS
  Keys,   \* the keys
  Data    \* the pieces values are made of

VARIABLE places   \* for each place, the pieces it holds of each key

EmptyPlace == [k \in Keys |-> {}]

Init == places = <<EmptyPlace>>

(* The value is merged with what the memtable has.                         *)
Put(k, v) == places' = [places EXCEPT ![1][k] = @ \cup v]

Flush == places' = <<EmptyPlace>> \o places

(* Neighbouring tables become one.                                         *)
Compact(i, j) ==
  LET united == [k \in Keys |-> UNION {places[n][k] : n \in i..j}]
  IN  places' = SubSeq(places, 1, i - 1) \o <<united>>
                  \o SubSeq(places, j + 1, Len(places))

Maintenance == Flush \/ \E j \in DOMAIN places : \E i \in 2..j : Compact(i, j)

Next ==
  \/ \E k \in Keys, v \in (SUBSET Data) \ {{}} : Put(k, v)
  \/ Maintenance

Spec == Init /\ [][Next]_places

-----------------------------------------------------------------------------
(* The places that hold a key, and what they hold of it together.          *)
PlacesOf(k) == {i \in DOMAIN places : places[i][k] # {}}
Whole(k) == UNION {places[i][k] : i \in DOMAIN places}

(* What Get and RangeScan answer with: the newest version alone.           *)
Newest(k) ==
  IF PlacesOf(k) = {} THEN {}
  ELSE places[CHOOSE i \in PlacesOf(k) : \A j \in PlacesOf(k) : i <= j][k]
=============================================================================
