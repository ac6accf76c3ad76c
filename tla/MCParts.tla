------------------------------ MODULE MCParts -------------------------------
(***************************************************************************)
(* The sequential parts for TLC, each explored on its own: a behaviour is  *)
(* one of the Bloom filter, of the memtable, of the roaring bitmaps, of    *)
(* text analysis and posting lists, or of one compaction.  The others stay *)
(* as they are initially, with the choices of their initial states made.   *)
(***************************************************************************)
EXTENDS Bloom, RBTree, Roaring, Phrases, CompactionMerge

(* The pieces of values are interchangeable, and so are the filter's items. *)
PartsSymmetry == Permutations(Data) \cup Permutations(Items)

VARIABLE part   \* the part this behaviour is of

MCStem == ("be" :> "be") @@ ("being" :> "be") @@ ("tree" :> "tree") @@ ("trees" :> "tree")

allvars == <<blvars, rbvars, rvars, phvars, cvars, part>>

PartsInit ==
  /\ part \in {"bloom", "rbtree", "roaring", "phrases", "compaction"}
  /\ IF part = "bloom"
       THEN Init
       ELSE /\ hash = [x \in Items |-> 0]
            /\ NewBloomFilter(1, 1)
            /\ added = {}
  /\ RBInit
  /\ RInit
  /\ PhInit
  /\ IF part = "compaction"
       THEN CInit
       ELSE files = [i \in 1..Inputs |-> NoRecords] /\ CInit

PartsNext ==
  \/ part = "bloom" /\ Next /\ UNCHANGED <<rbvars, rvars, phvars, cvars, part>>
  \/ part = "rbtree" /\ RBNext /\ UNCHANGED <<blvars, rvars, phvars, cvars, part>>
  \/ part = "roaring" /\ RNext /\ UNCHANGED <<blvars, rbvars, phvars, cvars, part>>
  \/ part = "phrases" /\ PhNext /\ UNCHANGED <<blvars, rbvars, rvars, cvars, part>>
  \/ part = "compaction" /\ CNext /\ UNCHANGED <<blvars, rbvars, rvars, phvars, part>>

PartsSpec == PartsInit /\ [][PartsNext]_allvars
=============================================================================
