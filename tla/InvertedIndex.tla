--------------------------- MODULE InvertedIndex ---------------------------
(***************************************************************************)
(* Index and Query of internal/index, run by goroutines of their own over  *)
(* one LSM tree.                                                           *)
(*                                                                         *)
(* Index enters the document, counts its terms in a second critical        *)
(* section, and then puts the postings of one term after another, with no  *)
(* lock but the tree's.  Query evaluates its expression depth first; each  *)
(* word is a RangeScan of its own.                                         *)
(*                                                                         *)
(* The tree is Places: a flush or compaction happens between any two       *)
(* steps, and a range scan is one step that answers with the newest        *)
(* version of each key (TreeScan shows that it does) or fails.  A query is *)
(* a sequence of instructions, the expression in the order evalExpr        *)
(* finishes its nodes; its values are kept on a stack.                     *)
(***************************************************************************)
EXTENDS Statistics

CONSTANTS
  BlockSize,    \* documents of a block
  Covers,       \* per term, the terms whose keys its range scan covers: itself
                \* and those it is a prefix of, in the order of their keys
  Queries,      \* the expressions that are asked
  Writers,      \* the goroutines that call Index
  MaxPlaces,    \* bound of the model: memtable and tables of the tree
  MaxCalls      \* bound of the model: calls of Index

(* The nodes of expressions; each takes the values of its operands.        *)
Instructions ==
  [op : {"term"}, word : Words] \cup [op : {"phrase"}, words : Seq(Words)]
    \cup [op : {"and", "or", "not", "nil"}]

Arity(instr) == CASE instr.op \in {"and", "or"} -> 2
                  [] instr.op = "not" -> 1
                  [] OTHER -> 0

(* There are values for each node, and one is left at the end.             *)
IsExpression(q) ==
  /\ q \in Seq(Instructions)
  /\ \E depth \in [0..Len(q) -> 0..Len(q)] :
       /\ depth[0] = 0 /\ depth[Len(q)] = 1
       /\ \A i \in 1..Len(q) : /\ Arity(q[i]) <= depth[i - 1]
                              /\ depth[i] = depth[i - 1] - Arity(q[i]) + 1

ASSUME QueriesAreExpressions == \A q \in Queries : IsExpression(q)
ASSUME BlocksHaveDocs == BlockSize \in Nat \ {0}
ASSUME TermsCoverThemselves ==
  /\ Covers \in [Words -> Seq(Words)]
  /\ \A t \in Words : Covers[t] # <<>> /\ Covers[t][1] = t

VARIABLES
  allDocs,   \* the bitmap of all documents
  places,    \* the tree
  calls,     \* the call of Index each writer is in, Idle if none
  posted,    \* history: the texts of each document whose Index has returned
  reader     \* the query that is evaluated, NoReader before it

ivars == <<known, tf, df, times, allDocs, places, calls, posted, reader>>

Blocks == {d \div BlockSize : d \in Docs}

(* A key of the tree is a term and a block (blockKey); a piece of a value  *)
(* is a position of a document in its block.                               *)
Tree == INSTANCE Places WITH
          Keys <- Words \X Blocks,
          Data <- {d % BlockSize : d \in Docs}
                    \X UNION {{p - 1 : p \in DOMAIN x} : x \in Texts}

Idle == [stage |-> "idle"]
NoReader == [query |-> <<>>]

IInit ==
  /\ StatInit
  /\ allDocs = {}
  /\ Tree!Init
  /\ calls = [w \in Writers |-> Idle]
  /\ posted = [d \in Docs |-> {}]
  /\ reader = NoReader

-----------------------------------------------------------------------------
(* Index.                                                                  *)
Begun == MapThenSumSet(LAMBDA d : times[d], Docs)
           + Cardinality({w \in Writers : calls[w].stage = "count"})

IndexBegin(w, d, text) ==
  /\ calls[w] = Idle
  /\ Begun < MaxCalls
  /\ allDocs' = allDocs \cup {d}
  /\ calls' = [calls EXCEPT ![w] = [stage |-> "count", doc |-> d, text |-> text]]
  /\ reader' = IF reader = NoReader THEN reader
               ELSE [reader EXCEPT !.unsettled = @ \cup {d}]
  /\ UNCHANGED <<known, tf, df, times, places, posted>>

(* The call goes on with the terms that are left, or returns.              *)
GoOn(w, left) ==
  LET c == calls[w]
  IN  /\ calls' = [calls EXCEPT ![w] =
                     IF left = {} THEN Idle
                     ELSE [stage |-> "put", doc |-> c.doc, text |-> c.text, left |-> left]]
      /\ posted' = IF left = {} THEN [posted EXCEPT ![c.doc] = @ \cup {c.text}] ELSE posted

IndexCount(w) ==
  /\ calls[w].stage = "count"
  /\ Count(calls[w].doc, calls[w].text)
  /\ GoOn(w, Terms(calls[w].text))
  /\ UNCHANGED <<allDocs, places, reader>>

(* The postings of one term, in whatever order the map is ranged over.     *)
IndexPut(w) ==
  /\ calls[w].stage = "put"
  /\ \E t \in calls[w].left :
       /\ Tree!Put(<<t, calls[w].doc \div BlockSize>>,
                   {calls[w].doc % BlockSize} \X PositionSet(calls[w].text, t))
       /\ GoOn(w, calls[w].left \ {t})
  /\ UNCHANGED <<known, tf, df, times, allDocs, reader>>

(* Steps of the tree, within some Put.  An empty memtable is not flushed.  *)
TreeStep ==
  /\ Tree!Maintenance
  /\ places[1] = Tree!EmptyPlace => Len(places') <= Len(places)
  /\ Len(places') <= MaxPlaces
  /\ UNCHANGED <<known, tf, df, times, allDocs, calls, posted, reader>>

-----------------------------------------------------------------------------
(* Lookups.                                                                *)
PostingsOf(t, d) ==
  {x[2] : x \in {y \in Tree!Newest(<<t, d \div BlockSize>>) : y[1] = d % BlockSize}}

(* Fault: only the first block of a term is scanned.                       *)
LookupPostingsFirstBlock(t) ==
  LET hits == {d \in Docs : d < BlockSize /\ \E u \in ToSet(Covers[t]) : PostingsOf(u, d) # {}}
  IN  [d \in hits |->
         FlattenSeq([n \in DOMAIN Covers[t] |-> Ascending(PostingsOf(Covers[t][n], d))])]

(* The scan from the first to the last key of a term: what the newest      *)
(* version of each key has, the lists of a document joined in the order of *)
(* the keys.                                                               *)
LookupPostings(t) ==
  LET hits == {d \in Docs : \E u \in ToSet(Covers[t]) : PostingsOf(u, d) # {}}
  IN  [d \in hits |->
         FlattenSeq([n \in DOMAIN Covers[t] |-> Ascending(PostingsOf(Covers[t][n], d))])]

(* A word that is left out by the analysis has no postings; an error of    *)
(* the scan passes for a term without postings.                            *)
LookupResults(w) ==
  {IF Sought(w) = {} THEN <<>> ELSE LookupPostings(Stem[w])} \cup {<<>>}

(* Of some key of the term's range the newest version is not all there is, *)
(* or the scan has failed.                                                 *)
ReadsInPart(w, result) ==
  /\ Sought(w) # {}
  /\ \/ result # LookupPostings(Stem[w])
     \/ \E u \in ToSet(Covers[Stem[w]]), b \in Blocks : Cardinality(Tree!PlacesOf(<<u, b>>)) > 1

-----------------------------------------------------------------------------
(* Query.                                                                  *)
Instr == reader.query[reader.at]

Evaluating(op) ==
  /\ reader # NoReader
  /\ reader.at <= Len(reader.query)
  /\ Instr.op = op
  /\ UNCHANGED <<known, tf, df, times, allDocs, places, calls, posted>>

(* Goes on to the next instruction, with a value in the place of those of  *)
(* its operands.                                                           *)
Yields(value, lost) ==
  reader' = [reader EXCEPT
               !.at = @ + 1,
               !.lists = <<>>,
               !.lost = @ \cup lost,
               !.stack = Append(SubSeq(@, 1, Len(@) - Arity(Instr)), value)]

Top(n) == reader.stack[Len(reader.stack) - n]

QueryBegin(q) ==
  /\ reader = NoReader
  /\ reader' = [query |-> q, at |-> 1, lists |-> <<>>, stack |-> <<>>, lost |-> {},
                unsettled |-> {calls[w].doc : w \in {v \in Writers : calls[v] # Idle}}]
  /\ UNCHANGED <<known, tf, df, times, allDocs, places, calls, posted>>

Lost(w, result) == IF ReadsInPart(w, result) THEN {reader.at} ELSE {}

EvalTerm ==
  /\ Evaluating("term")
  /\ \E result \in LookupResults(Instr.word) :
       Yields(DOMAIN result, Lost(Instr.word, result))

(* PhraseSearch looks up the stems of its words, one after another.        *)
EvalPhraseWord ==
  /\ Evaluating("phrase")
  /\ LET words == QueryWords(Instr.words)
         n     == Len(reader.lists) + 1
     IN  /\ n <= Len(words)
         /\ \E result \in LookupResults(words[n].stemmed) :
              reader' = [reader EXCEPT !.lists = Append(@, result),
                                       !.lost = @ \cup Lost(words[n].stemmed, result)]

EvalPhraseMatch ==
  /\ Evaluating("phrase")
  /\ LET words == QueryWords(Instr.words)
         lists == reader.lists
         candidates == {d \in Docs : \A n \in DOMAIN lists : d \in DOMAIN lists[n]}
     IN  /\ Len(lists) = Len(words)
         /\ Yields(IF words = <<>> THEN {}
                   ELSE {d \in candidates :
                           MatchPhrase([n \in DOMAIN lists |-> lists[n][d]], words)}, {})

EvalAnd == Evaluating("and") /\ Yields(Top(1) \cap Top(0), {})

EvalOr == Evaluating("or") /\ Yields(Top(1) \cup Top(0), {})

(* The operand has been read by now; the universe is read only here.       *)
EvalNot == Evaluating("not") /\ Yields(allDocs \ Top(0), {})

(* A nil expression has no documents.                                      *)
EvalNil == Evaluating("nil") /\ Yields({}, {})

INext ==
  \/ \E w \in Writers, d \in Docs, text \in Texts : IndexBegin(w, d, text)
  \/ \E w \in Writers : IndexCount(w) \/ IndexPut(w)
  \/ TreeStep
  \/ \E q \in Queries : QueryBegin(q)
  \/ EvalTerm \/ EvalPhraseWord \/ EvalPhraseMatch
  \/ EvalAnd \/ EvalOr \/ EvalNot \/ EvalNil

ISpec == IInit /\ [][INext]_ivars

-----------------------------------------------------------------------------
Answered == reader # NoReader /\ reader.at > Len(reader.query)

(* The documents whose calls of Index had all returned when the query      *)
(* began, none of which was indexed again while it ran.                    *)
Settled == {d \in Docs : posted[d] # {}} \ reader.unsettled

Positions(d, t) == UNION {PositionSet(x, t) : x \in posted[d]}
Found(d, w) ==
  IF w \in Stops THEN {} ELSE UNION {Positions(d, u) : u \in ToSet(Covers[Stem[w]])}

(* The words of a phrase at their distances, in any texts of the document. *)
Follow(d, phrase) ==
  LET kept == {i \in DOMAIN phrase : phrase[i] \notin Stops}
  IN  \E i \in kept : \E p \in Found(d, Stem[phrase[i]]) :
        \A j \in kept : p - i + j \in Found(d, Stem[phrase[j]])

(* No list of the document is joined from those of several terms.          *)
Plain(d, phrase) ==
  \A i \in DOMAIN phrase : phrase[i] \notin Stops =>
    LET covers == Covers[Stem[Stem[phrase[i]]]]
    IN  \A m, n \in DOMAIN covers :
          Positions(d, covers[m]) # {} /\ Positions(d, covers[n]) # {} => m = n

(* The settled documents an instruction should find, all or some of which  *)
(* a lookup that read in part may have missed.                             *)
Hits(instr) ==
  IF instr.op = "term" THEN {d \in Settled : Found(d, instr.word) # {}}
  ELSE {d \in Settled : Follow(d, instr.words)}

Sure(i, instr) ==
  IF i \in reader.lost THEN {}
  ELSE IF instr.op = "term" THEN Hits(instr)
  ELSE {d \in Hits(instr) : Plain(d, instr.words)}

(* The least and the most settled documents each node may answer with.     *)
Judged(s, i) ==
  LET instr == reader.query[i]
      x == s[Len(s)]
      y == s[Len(s) - 1]
  IN  CASE instr.op \in {"term", "phrase"} -> [least |-> Sure(i, instr), most |-> Hits(instr)]
        [] instr.op = "nil" -> [least |-> {}, most |-> {}]
        [] instr.op = "and" -> [least |-> y.least \cap x.least, most |-> y.most \cap x.most]
        [] instr.op = "or"  -> [least |-> y.least \cup x.least, most |-> y.most \cup x.most]
        [] instr.op = "not" -> [least |-> Settled \ x.most, most |-> Settled \ x.least]

Apply(s, i) == Append(SubSeq(s, 1, Len(s) - Arity(reader.query[i])), Judged(s, i))

Expected ==
  LET run[i \in 0..Len(reader.query)] == IF i = 0 THEN <<>> ELSE Apply(run[i - 1], i)
  IN  run[Len(reader.query)][1]

(* A query answers, of the documents whose Index had returned, with just   *)
(* those its expression describes, whatever is indexed, flushed and        *)
(* compacted beside it.  A term means itself and the terms it is a prefix  *)
(* of.  Where a posting list is spread over several places, or a scan has  *)
(* failed, a term may miss documents, and its negation may find too many;  *)
(* and so may a phrase in a document with a longer term beside the term.   *)
AnswerIsBetween ==
  Answered => /\ Expected.least \subseteq Top(0)
              /\ Top(0) \cap Settled \subseteq Expected.most
              /\ Top(0) \subseteq allDocs

(* Once the calls of Index for a document have returned, the tree, the     *)
(* counts and the bitmap agree about it: it is in the bitmap and counted,  *)
(* the tree has a position for each occurrence that is counted, and for no *)
(* other if the document was indexed once.                                 *)
PostingsMatchCounts ==
  \A d \in Docs :
    (posted[d] # {} /\ \A w \in Writers : calls[w] # Idle => calls[w].doc # d) =>
      /\ d \in allDocs \cap known
      /\ \A t \in Words :
           LET held == {x \in Tree!Whole(<<t, d \div BlockSize>>) : x[1] = d % BlockSize}
           IN  /\ tf[d][t] <= Cardinality(held)
               /\ times[d] = 1 => tf[d][t] = Cardinality(held)
=============================================================================
