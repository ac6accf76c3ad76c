---------------------------- MODULE LsmHistory -----------------------------
(***************************************************************************)
(* The tree of LsmTree driven by its clients, beside a history variable:   *)
(* promised is the abstract store KVStore taking the same Put and Delete   *)
(* at the same moment.  What the tree answers is then compared with what   *)
(* it was told.                                                            *)
(***************************************************************************)
EXTENDS LsmTree

CONSTANT Deletable    \* the keys clients delete; the inverted index: none

ASSUME DeletableAreKeys == Deletable \subseteq Keys

VARIABLE promised     \* history: what the clients were promised

hvars == <<memTable, levels, pc, level, nextFile, promised>>

Client == INSTANCE KVStore WITH store <- promised

HInit == Init /\ Client!Init

HPut(k, v) == Put(k, v) /\ Client!Put(k, v)

HDelete(k) == k \in Deletable /\ Delete(k) /\ Client!Delete(k)

(* A Get in its read lock: it changes nothing and waits for the writer.    *)
HGet == pc = "idle" /\ UNCHANGED hvars

HMaintenance == Maintenance /\ UNCHANGED promised

HNext ==
  \/ \E k \in Keys, v \in Value : HPut(k, v)
  \/ \E k \in Keys : HDelete(k)
  \/ HGet
  \/ HMaintenance

Spec == HInit /\ [][HNext]_hvars

(* The goroutine that holds the lock keeps running; clients may stop.      *)
FairSpec == Spec /\ WF_hvars(HMaintenance)

HTypeOK == TypeOK /\ promised \in [Keys -> {Absent} \cup Value]

-----------------------------------------------------------------------------
(* All a tree holds for a key: the pieces of every version newer than the  *)
(* newest tombstone.                                                       *)
Contents(k) ==
  LET live == {p \in Slots : /\ At(p)[k] \notin {Absent, Tomb}
                             /\ \A q \in Slots : Newer(q, p) => At(q)[k] # Tomb}
  IN  IF live = {} THEN Absent ELSE UNION {At(p)[k] : p \in live}

(* A tree without MergeFn answers a key whose last write was a Put with    *)
(* the value of that Put, wherever flushes and compactions have carried    *)
(* it.                                                                     *)
LastPutWins ==
  \A k \in Keys : promised[k] # Absent => Get(k) = promised[k]

(* A tree with a MergeFn still holds, newer than any tombstone, every      *)
(* piece put since the key was last deleted: no flush and no compaction    *)
(* loses one or hides it behind a tombstone.                               *)
NoPieceLost ==
  \A k \in Keys : promised[k] # Absent =>
                    Contents(k) # Absent /\ promised[k] \subseteq Contents(k)

(* The keys no client deletes (all those of the inverted index), and the   *)
(* abstract store the tree is for them: one that has no Delete.            *)
Kept == Keys \ Deletable
View == [k \in Kept |-> IF Merging THEN Contents(k) ELSE Get(k)]
Stored == INSTANCE KVStore WITH Keys <- Kept, Deletable <- {}, store <- View

(* A client's Put of a kept key is that very Put of the abstract store.    *)
(* No other step changes a kept key: not a flush, not a compaction, not a  *)
(* failure of either, not a Get, nor a write of another key.               *)
Serves ==
  /\ \A k \in Kept, v \in Value : HPut(k, v) => Stored!Put(k, v)
  /\ (\E k \in Kept, v \in Value : HPut(k, v)) \/ UNCHANGED View

(* For the keys no client deletes the tree is the abstract store, which    *)
(* changes when a client puts, by what the client puts, and never          *)
(* otherwise: flushes and compactions, failed ones included, are           *)
(* invisible.                                                              *)
IsStore == Stored!Spec /\ [][Serves]_hvars

(* Get and RangeScan do not merge: they answer with the newest version     *)
(* alone.  With a MergeFn that is all the tree has been given for the key  *)
(* when one place holds it; a key split over several is read in part,      *)
(* until compactions bring its versions together.                          *)
UnsplitKeyReadsWhole ==
  \A k \in Kept : (\E p \in Slots : \A q \in Slots \ {p} : At(q)[k] = Absent)
                    => Get(k) = promised[k]

(* What the tree was told to forget stays forgotten: the version of the    *)
(* deletion is newer than the others and wins.                             *)
DeletedStaysDeleted ==
  \A k \in Keys : promised[k] = Absent => Get(k) = Absent

(* The one way a key comes back without a Put: compacting a level whose    *)
(* newest version of the key is a tombstone, above a level that still      *)
(* holds the key.                                                          *)
TombDropped(k) ==
  /\ pc = "compact"
  /\ IsFull(level)
  /\ \E j \in DOMAIN levels[level] :
       /\ levels[level][j].data[k] = Tomb
       /\ \A i \in DOMAIN levels[level] : i < j => levels[level][i].data[k] = Absent
  /\ \E p \in TableSlots : p[1] > level /\ At(p)[k] \notin {Absent, Tomb}

OnlyCompactionRevives ==
  [][\A k \in Keys : Get(k) = Absent /\ Get(k)' # Absent =>
       promised'[k] # Absent \/ TombDropped(k)]_hvars

(* When nobody holds the lock, a level has reached LLimit only because it  *)
(* contains a table no compaction can read.                                *)
FullOnlyIfStuck ==
  pc = "idle" => \A i \in DOMAIN levels :
                   Len(levels[i]) >= LLimit => ~CanCompact(levels[i])

(* And such a level is never compacted again: it grows with every          *)
(* compaction of the level above.                                          *)
StuckForever ==
  [][\A i \in DOMAIN levels : ~CanCompact(levels[i]) =>
       ~CanCompact(levels'[i]) /\ Len(levels'[i]) >= Len(levels[i])]_hvars

(* Flushing and compacting a tree without MergeFn changes the answer for a *)
(* key only by dropping a tombstone, by moving a record readers refuse out *)
(* of the memtable, or by discarding a table whose first record they       *)
(* refuse.                                                                 *)
MaintenanceInvisible ==
  [][pc # "idle" => \A k \in Keys :
       \/ Get(k)' = Get(k)
       \/ TombDropped(k)
       \/ pc = "flush" /\ ~AllReadable(memTable)
       \/ pc = "compact" /\ \E j \in DOMAIN levels[level] :
                               HeadUnreadable(levels[level][j].data)]_hvars

(* Without MergeFn a record readers refuse never gets below the top level: *)
(* the compaction that would move it discards its table or fails.          *)
UnreadableStaysOnTop ==
  \A p \in TableSlots : p[1] > 1 => AllReadable(At(p))

(* Every Put that takes the write lock gives it back, at the end of the    *)
(* cascade of compactions or at the first failure.                         *)
LockReleased == pc # "idle" ~> pc = "idle"
=============================================================================
