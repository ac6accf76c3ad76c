------------------------------ MODULE KVStore ------------------------------
(***************************************************************************)
(* What a client of internal/lsm is promised: a map from keys to values.   *)
(*                                                                         *)
(* A value is a set of pieces (the entries of a posting list).  A tree     *)
(* built by NewWithMerge accumulates: Put adds the pieces it writes to     *)
(* those the key already has.  A tree built by New replaces.  Delete       *)
(* forgets the key.  No flush, no compaction and no file shows here: they  *)
(* are the detail LsmTree adds and that a client must not see.             *)
(***************************************************************************)
CONSTANTS
  Keys,      \* the keys
  Data,      \* the pieces values are made of
  Deletable, \* the keys clients delete
  Absent,    \* what the store answers for a key that has no value
  Merging    \* TRUE for a tree with a MergeFn

VARIABLE store

Value == (SUBSET Data) \ {{}}

Init == store = [k \in Keys |-> Absent]

Put(k, v) ==
  store' = [store EXCEPT ![k] = IF Merging /\ store[k] # Absent
                                  THEN store[k] \cup v
                                  ELSE v]

Delete(k) == store' = [store EXCEPT ![k] = Absent]

Next ==
  \E k \in Keys :
    \/ \E v \in Value : Put(k, v)
    \/ k \in Deletable /\ Delete(k)

Spec == Init /\ [][Next]_store
=============================================================================
