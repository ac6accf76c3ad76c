-------------------------- MODULE CompactionMerge ---------------------------
(***************************************************************************)
(* runCompaction of internal/lsm step by step: the iterators opened over   *)
(* the tables of a level, the heap that yields their records in the order  *)
(* of keys and, for a key, from the newest table on, the pending record,   *)
(* the writer, and what is left open when a step fails.                    *)
(*                                                                         *)
(* It runs under the tree's write lock from its first step to its last:    *)
(* LsmTree takes it for one step, with the result Compaction says.         *)
(***************************************************************************)
EXTENDS Compaction, Sequences

CONSTANTS
  Inputs,     \* number of tables of the level
  NoPending   \* no pending record

ASSUME InputsIsNumber == Inputs \in Nat
ASSUME NoPendingIsNone ==
  \A k \in Keys, v \in Entry : NoPending # [key |-> k, val |-> v]

VARIABLES
  files,      \* the contents of the tables, newest first
  phase,      \* where runCompaction is; "done" or "failed" when it has returned
  opened,     \* number of tables dealt with in the first loop
  iters,      \* of each table the iterator: "none", "open" or "closed"
  heap,       \* the items of the heap: the next record of each open iterator
  pending,    \* the record not written yet
  output,     \* the records written
  writer,     \* the writer's file: "none" or "open"
  ioFailed    \* history: a system call has failed

cvars == <<files, phase, opened, iters, heap, pending, output, writer, ioFailed>>

Level == [i \in DOMAIN files |-> [data |-> files[i]]]

-----------------------------------------------------------------------------
(* The record of a table after the given one, if there is one.             *)
After(i, k) == {j \in Records(files[i]) : j > k}

Item(i, k) == [key |-> k, val |-> files[i][k], fileIdx |-> i]

(* mergeHeap.Less: by key, then the newest table first.                    *)
Top(h) ==
  CHOOSE x \in h : \A y \in h : x.key < y.key \/ (x.key = y.key /\ x.fileIdx <= y.fileIdx)

(* Fault: the iterators are left to themselves.                            *)
CloseNone(its, h) == its

(* closeAll: what is on the heap, and nothing else.                        *)
CloseAll(its, h) ==
  [i \in DOMAIN its |-> IF \E x \in h : x.fileIdx = i THEN "closed" ELSE its[i]]

Fail == phase' = "failed"

-----------------------------------------------------------------------------
(* The first loop: one table.                                              *)
OpenInput ==
  /\ phase = "open"
  /\ opened < Inputs
  /\ LET i == opened + 1
     IN  /\ Records(files[i]) # {}
         /\ opened' = i
         /\ IF HeadUnreadable(files[i])
              THEN /\ iters' = [iters EXCEPT ![i] = "closed"]
                   /\ UNCHANGED heap
              ELSE /\ iters' = [iters EXCEPT ![i] = "open"]
                   /\ heap' = heap \cup {Item(i, Min(Records(files[i])))}
  /\ UNCHANGED <<files, phase, pending, output, writer, ioFailed>>

(* A table without records is refused, or its file cannot be opened: the   *)
(* iterators opened before it stay open.                                   *)
OpenInputFails ==
  /\ phase = "open"
  /\ opened < Inputs
  /\ \/ Records(files[opened + 1]) = {} /\ UNCHANGED ioFailed
     \/ ioFailed' = TRUE
  /\ Fail
  /\ UNCHANGED <<files, opened, iters, heap, pending, output, writer>>

CreateOutput ==
  /\ phase = "open"
  /\ opened = Inputs
  /\ phase' = "merge"
  /\ writer' = "open"
  /\ UNCHANGED <<files, opened, iters, heap, pending, output, ioFailed>>

CreateOutputFails ==
  /\ phase = "open"
  /\ opened = Inputs
  /\ ioFailed' = TRUE
  /\ iters' = CloseAll(iters, heap)
  /\ heap' = {}
  /\ Fail
  /\ UNCHANGED <<files, opened, pending, output, writer>>

-----------------------------------------------------------------------------
Repeats(top) == pending # NoPending /\ pending.key = top.key

(* flushPending calls the writer.                                          *)
Writes == pending # NoPending /\ pending.val # Tomb

(* Fault: a pending tombstone takes the older value.                       *)
TakeRevives(top) ==
  IF Repeats(top)
    THEN IF Merging /\ top.val # Tomb
           THEN [pending EXCEPT !.val = IF @ = Tomb THEN top.val ELSE Merge(@, top.val)]
           ELSE pending
    ELSE [key |-> top.key, val |-> top.val]

(* The pending record when top comes next.                                 *)
Take(top) ==
  IF Repeats(top)
    THEN IF Merging /\ pending.val # Tomb /\ top.val # Tomb
           THEN [pending EXCEPT !.val = Merge(@, top.val)]
           ELSE pending
    ELSE [key |-> top.key, val |-> top.val]

Flushed == IF Writes THEN Append(output, pending) ELSE output

(* One turn of the loop: the next item joins the pending record or, after  *)
(* that is written, replaces it, and its iterator goes on.                 *)
MergeItem ==
  /\ phase = "merge"
  /\ heap # {}
  /\ LET top  == Top(heap)
         i    == top.fileIdx
         rest == heap \ {top}
         next == After(i, top.key)
         k    == Min(next)
     IN  /\ output' = IF Repeats(top) THEN output ELSE Flushed
         /\ pending' = Take(top)
         /\ \/ /\ next = {}
               /\ iters' = [iters EXCEPT ![i] = "closed"]
               /\ heap' = rest
               /\ UNCHANGED phase
            \/ /\ next # {}
               /\ Readable(k, files[i][k])
               /\ heap' = rest \cup {Item(i, k)}
               /\ UNCHANGED <<iters, phase>>
            \/ /\ next # {}
               /\ ~Readable(k, files[i][k])
               /\ iters' = CloseAll([iters EXCEPT ![i] = "closed"], rest)
               /\ heap' = {}
               /\ Fail
  /\ UNCHANGED <<files, opened, writer, ioFailed>>

(* The pending record cannot be written.                                   *)
MergeItemFails ==
  /\ phase = "merge"
  /\ heap # {}
  /\ ~Repeats(Top(heap))
  /\ Writes
  /\ ioFailed' = TRUE
  /\ iters' = CloseAll(iters, heap)
  /\ heap' = {}
  /\ Fail
  /\ UNCHANGED <<files, opened, pending, output, writer>>

(* The last record is written, the writer becomes the new table, and the   *)
(* inputs are removed.                                                     *)
Finish ==
  /\ phase = "merge"
  /\ heap = {}
  /\ output' = Flushed
  /\ phase' = "done"
  /\ UNCHANGED <<files, opened, iters, heap, pending, writer, ioFailed>>

(* The last record cannot be written, or the file not be synced.           *)
FinishFails ==
  /\ phase = "merge"
  /\ heap = {}
  /\ ioFailed' = TRUE
  /\ Fail
  /\ UNCHANGED <<files, opened, iters, heap, pending, output, writer>>

-----------------------------------------------------------------------------
CInit ==
  /\ files \in [1..Inputs -> [Keys -> Entry]]
  /\ phase = "open"
  /\ opened = 0
  /\ iters = [i \in 1..Inputs |-> "none"]
  /\ heap = {}
  /\ pending = NoPending
  /\ output = <<>>
  /\ writer = "none"
  /\ ioFailed = FALSE

CNext ==
  \/ OpenInput \/ OpenInputFails \/ CreateOutput \/ CreateOutputFails
  \/ MergeItem \/ MergeItemFails \/ Finish \/ FinishFails

CSpec == CInit /\ [][CNext]_cvars

-----------------------------------------------------------------------------
(* The loop computes what Compaction says, key by key, and succeeds only   *)
(* on tables it says can be compacted; unless a system call fails it fails *)
(* only on others.  The records are written in ascending order, which the  *)
(* new table's index and its readers rely on.                              *)
MergeIsMerged ==
  /\ \A i, j \in DOMAIN output : i < j => output[i].key < output[j].key
  /\ phase = "done" =>
       /\ CanCompact(Level)
       /\ {<<output[i].key, output[i].val>> : i \in DOMAIN output}
            = {<<k, Merged(Level)[k]>> : k \in Records(Merged(Level))}
  /\ phase = "failed" => ioFailed \/ ~CanCompact(Level)

(* What runCompaction leaves open: nothing but the new table when it       *)
(* succeeds, only the writer's file when the merge fails.  Iterators stay  *)
(* open only when a table is refused, or its file not opened, after those  *)
(* of newer tables have been: with every flush that comes upon a table     *)
(* without records below another, one more.                                *)
Open == {i \in DOMAIN iters : iters[i] = "open"}

LeaksOnlyWhileOpening ==
  phase \in {"done", "failed"} /\ Open # {} =>
    /\ phase = "failed"
    /\ opened < Inputs
    /\ Open \subseteq 1..opened
    /\ ioFailed \/ Records(files[opened + 1]) = {}
=============================================================================
