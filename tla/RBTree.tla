------------------------------- MODULE RBTree -------------------------------
(***************************************************************************)
(* The memtable of internal/rbtree: a left-leaning red-black tree with the *)
(* number of its keys and the bytes it holds, which decide when LsmTree    *)
(* flushes.  It is used under the lock of the tree only, so that one       *)
(* operation follows the other.                                            *)
(*                                                                         *)
(* Key k stands for the string of k equal bytes and value v for one of v   *)
(* bytes.  A node is a record; a tree is a node or Nil.  What the code     *)
(* does by recursion is a function over the trees that are no higher than  *)
(* the tree has keys.                                                      *)
(***************************************************************************)
EXTENDS Integers, Sequences, FiniteSets, FiniteSetsExt

CONSTANTS
  NodeKeys,    \* the keys
  NodeValues,  \* the values
  NoValue      \* no value

ASSUME BytesAreCounted == NodeKeys \subseteq Nat /\ NodeValues \subseteq Nat
ASSUME NoValueIsNone == NoValue \notin NodeValues

VARIABLES
  root,        \* the tree
  treeCount,   \* number of keys
  treeSize,    \* sum of the lengths of the keys and values
  map          \* history: the last value put for each key, NoValue if none

rbvars == <<root, treeCount, treeSize, map>>

(* No node.                                                                *)
Nil == [empty |-> TRUE]

(* The trees of height n or less.                                          *)
Trees[n \in Nat] ==
  IF n = 0 THEN {Nil}
  ELSE LET lower == Trees[n - 1]
       IN  {Nil} \cup [key  : NodeKeys, val : NodeValues, red : BOOLEAN,
                       left : lower, right : lower]

IsRed(n) == n # Nil /\ n.red

-----------------------------------------------------------------------------
(* Fault: the new root of the subtree keeps its own colour.                *)
RotateLeftKeepsColour(h) ==
  [h.right EXCEPT !.left = [h EXCEPT !.right = h.right.left, !.red = TRUE]]

RotateLeft(h) ==
  [h.right EXCEPT !.left = [h EXCEPT !.right = h.right.left, !.red = TRUE],
                  !.red  = h.red]

(* Fault: the middle subtree is forgotten.                                 *)
RotateRightDrops(h) ==
  [h.left EXCEPT !.right = [h EXCEPT !.left = Nil, !.red = TRUE],
                 !.red   = h.red]

RotateRight(h) ==
  [h.left EXCEPT !.right = [h EXCEPT !.left = h.left.right, !.red = TRUE],
                 !.red   = h.red]

FlipColors(h) ==
  [h EXCEPT !.red = ~h.red, !.left.red = ~h.left.red, !.right.red = ~h.right.red]

(* The repairs on the way back from an insertion, in the order of the code.*)
Balance(h) ==
  LET a == IF IsRed(h.right) /\ ~IsRed(h.left) THEN RotateLeft(h) ELSE h
      b == IF IsRed(a.left) /\ IsRed(a.left.left) THEN RotateRight(a) ELSE a
  IN  IF IsRed(b.left) /\ IsRed(b.right) THEN FlipColors(b) ELSE b

(* Fault: a replaced value is counted on top of the one it replaces.       *)
ReplacedAdds(h, v) == [node |-> [h EXCEPT !.val = v], added |-> FALSE, delta |-> v]

Replaced(h, v) ==
  [node |-> [h EXCEPT !.val = v], added |-> FALSE, delta |-> v - h.val]

(* Insertion into subtree h: the new subtree, whether a key was added, and *)
(* how many bytes.                                                         *)
Insert(k, v) ==
  LET in[h \in Trees[treeCount]] ==
        IF h = Nil
          THEN [node  |-> [key |-> k, val |-> v, red |-> TRUE, left |-> Nil, right |-> Nil],
                added |-> TRUE, delta |-> k + v]
        ELSE IF k = h.key THEN Replaced(h, v)
        ELSE LET sub == in[IF k < h.key THEN h.left ELSE h.right]
             IN  [sub EXCEPT !.node = Balance(
                   IF k < h.key THEN [h EXCEPT !.left = sub.node]
                                ELSE [h EXCEPT !.right = sub.node])]
  IN  in[root]

Put(k, v) ==
  LET in == Insert(k, v)
  IN  /\ root' = [in.node EXCEPT !.red = FALSE]
      /\ treeCount' = IF in.added THEN treeCount + 1 ELSE treeCount
      /\ treeSize' = treeSize + in.delta
      /\ map' = [map EXCEPT ![k] = v]

(* Fault: an equal key sends the search on to the left.                    *)
GetGoesOn(k) ==
  LET get[n \in Trees[treeCount]] ==
        IF n = Nil THEN NoValue
        ELSE IF k = n.key /\ n.left = Nil THEN n.val
        ELSE get[IF k <= n.key THEN n.left ELSE n.right]
  IN  get[root]

Get(k) ==
  LET get[n \in Trees[treeCount]] ==
        IF n = Nil THEN NoValue
        ELSE IF k = n.key THEN n.val
        ELSE get[IF k < n.key THEN n.left ELSE n.right]
  IN  get[root]

InOrder ==
  LET visits[n \in Trees[treeCount]] ==
        IF n = Nil THEN <<>>
        ELSE visits[n.left] \o <<<<n.key, n.val>>>> \o visits[n.right]
  IN  visits[root]

-----------------------------------------------------------------------------
RBInit ==
  /\ root = Nil
  /\ treeCount = 0
  /\ treeSize = 0
  /\ map = [k \in NodeKeys |-> NoValue]

RBNext == \E k \in NodeKeys, v \in NodeValues : Put(k, v)

RBSpec == RBInit /\ [][RBNext]_rbvars

-----------------------------------------------------------------------------
(* Flushing writes the last value put for every key, each key once, in     *)
(* ascending order: what InOrder visits is what was put.                   *)
InOrderIsWhatWasPut ==
  LET pairs == InOrder
  IN  /\ \A i, j \in DOMAIN pairs : i < j => pairs[i][1] < pairs[j][1]
      /\ {pairs[i] : i \in DOMAIN pairs} = {<<k, map[k]>> : k \in {x \in NodeKeys : map[x] # NoValue}}

(* Get finds what was put last, and nothing for a key never put.           *)
GetIsWhatWasPut == \A k \in NodeKeys : Get(k) = map[k]

(* The tree stays balanced: no red link leans right, none follows another, *)
(* and every path from the root passes the same number of black nodes.     *)
BlackHeights ==
  LET heights[n \in Trees[treeCount]] ==
        IF n = Nil THEN {0}
        ELSE {IF n.red THEN b ELSE b + 1 : b \in heights[n.left] \cup heights[n.right]}
  IN  heights[root]

LeansLeft ==
  LET leans[n \in Trees[treeCount]] ==
        n # Nil => /\ ~IsRed(n.right)
                   /\ ~(n.red /\ IsRed(n.left))
                   /\ leans[n.left] /\ leans[n.right]
  IN  leans[root]

Balanced == ~IsRed(root) /\ LeansLeft /\ Cardinality(BlackHeights) = 1

(* treeCount and treeSize, which decide when the memtable is flushed, are those of *)
(* the pairs it holds, whatever has been replaced.                         *)
Accounted ==
  LET keys == {k \in NodeKeys : map[k] # NoValue}
  IN  /\ treeCount = Cardinality(keys)
      /\ treeSize = MapThenSumSet(LAMBDA k : k + map[k], keys)
=============================================================================
