------------------------------ MODULE Postings ------------------------------
(***************************************************************************)
(* The posting lists of internal/index and the words they are made from:   *)
(* text analysis, the merge of two lists, their encoding, and the matching *)
(* of phrases.  Operators only; Phrases runs them over texts, and          *)
(* InvertedIndex is built on them.                                         *)
(*                                                                         *)
(* A text is a sequence of words (the tokens, in lower case).  A posting   *)
(* list is a function from documents to their positions, a sequence.  The  *)
(* stemmers of the snowball library are a function on words.               *)
(***************************************************************************)
EXTENDS Integers, Sequences, SequencesExt

CONSTANTS
  Words,   \* tokens and stems
  Stops,   \* stop words and tokens shorter than two bytes
  Stem     \* the stem of each word

ASSUME StemsAreWords == Stops \subseteq Words /\ Stem \in [Words -> Words]

(* The elements of a set in ascending order: before the n-th are n - 1.    *)
Ascending(s) ==
  [n \in 1..Cardinality(s) |-> CHOOSE x \in s : Cardinality({y \in s : y < x}) = n - 1]

-----------------------------------------------------------------------------
(* Text analysis.                                                          *)

(* The stems of a text and their positions.  A word that is left out still *)
(* takes a position.                                                       *)
Terms(text) == {Stem[w] : w \in ToSet(text) \ Stops}

Where(text, term) ==
  {p \in DOMAIN text : text[p] \notin Stops /\ Stem[text[p]] = term}

PositionSet(text, term) == {p - 1 : p \in Where(text, term)}

(* What a lookup of one word looks for: its stem, or nothing.              *)
Sought(word) == IF word \in Stops THEN {} ELSE {Stem[word]}

-----------------------------------------------------------------------------
(* Merging.                                                                *)

(* Two indices, each within a list or behind it.                           *)
Cursors(a, b) == (1..(Len(a) + 1)) \X (1..(Len(b) + 1))

(* Fault: what is left of the second list is forgotten.                    *)
MergeSortedUint32Stops(a, b) ==
  LET out[at \in Cursors(a, b)] ==
        LET i == at[1]
            j == at[2]
        IN  IF i > Len(a) \/ j > Len(b) THEN SubSeq(a, i, Len(a))
            ELSE IF a[i] < b[j] THEN <<a[i]>> \o out[<<i + 1, j>>]
            ELSE IF a[i] > b[j] THEN <<b[j]>> \o out[<<i, j + 1>>]
            ELSE <<a[i]>> \o out[<<i + 1, j + 1>>]
  IN  out[<<1, 1>>]

(* Two ascending lists become one; what is in both is taken once.          *)
MergeSortedUint32(a, b) ==
  LET out[at \in Cursors(a, b)] ==
        LET i == at[1]
            j == at[2]
        IN  IF i > Len(a) \/ j > Len(b) THEN SubSeq(a, i, Len(a)) \o SubSeq(b, j, Len(b))
            ELSE IF a[i] < b[j] THEN <<a[i]>> \o out[<<i + 1, j>>]
            ELSE IF a[i] > b[j] THEN <<b[j]>> \o out[<<i, j + 1>>]
            ELSE <<a[i]>> \o out[<<i + 1, j + 1>>]
  IN  out[<<1, 1>>]

MergePostingLists(a, b) ==
  [d \in DOMAIN a \cup DOMAIN b |->
     IF d \notin DOMAIN b THEN a[d]
     ELSE IF d \notin DOMAIN a THEN b[d]
     ELSE MergeSortedUint32(a[d], b[d])]

-----------------------------------------------------------------------------
(* The encoding, in words of 32 bits: the number of documents, then for    *)
(* each, in whatever order the map is ranged over, its number, the number  *)
(* of its positions and the positions.                                     *)
Encode(pl, order) ==
  <<Len(order)>> \o
  FlattenSeq([i \in DOMAIN order |->
                <<order[i], Len(pl[order[i]])>> \o pl[order[i]]])

Orders(pl) == SetToSeqs(DOMAIN pl)

(* A posting list with the entry of one document more, unless it has one.  *)
With(pl, d, positions) ==
  [e \in {d} \cup DOMAIN pl |-> IF e \in DOMAIN pl THEN pl[e] ELSE positions]

(* Fault: the number of positions is not passed over.                      *)
DecodePostingListShort(data) ==
  LET pl[at \in Nat \X Nat] ==
        LET i   == at[1]
            off == at[2]
        IN  IF i = data[1] \/ off + 1 > Len(data) THEN <<>>
            ELSE With(pl[<<i + 1, off + 1 + data[off + 1]>>], data[off],
                      SubSeq(data, off + 2, off + 1 + data[off + 1]))
  IN  IF data = <<>> THEN <<>> ELSE pl[<<0, 2>>]

(* Data that ends too early yields the documents read so far, the last     *)
(* with zeroes for the positions that are missing.  Of two entries of one  *)
(* document the later is kept.                                             *)
DecodePostingList(data) ==
  LET pl[at \in Nat \X (1..(Len(data) + 1))] ==
        LET i   == at[1]
            off == at[2]
            m   == data[off + 1]
            end == IF off + 1 + m > Len(data) THEN Len(data) + 1 ELSE off + 2 + m
        IN  IF i = data[1] \/ off + 1 > Len(data) THEN <<>>
            ELSE With(pl[<<i + 1, end>>], data[off],
                      [j \in 1..m |-> IF off + 1 + j <= Len(data) THEN data[off + 1 + j]
                                                                  ELSE 0])
  IN  IF data = <<>> THEN <<>> ELSE pl[<<0, 2>>]

(* The MergeFn of the tree under the index.                                *)
PostingMerge(newer, older) ==
  MergePostingLists(DecodePostingList(newer), DecodePostingList(older))

-----------------------------------------------------------------------------
(* Phrases.                                                                *)

(* The words that are looked for: the stem of each, and how far behind the *)
(* one before it stands.                                                   *)
QueryWords(phrase) ==
  LET kept == Ascending({i \in DOMAIN phrase : phrase[i] \notin Stops})
  IN  [n \in DOMAIN kept |->
         [stemmed   |-> Stem[phrase[kept[n]]],
          gapBefore |-> IF n = 1 THEN kept[1] ELSE kept[n] - kept[n - 1]]]

(* Fault: a mismatch moves on in both lists.                               *)
FindWithGapSkips(prev, next, gap) ==
  LET found[at \in Cursors(prev, next)] ==
        LET i == at[1]
            j == at[2]
        IN  IF i > Len(prev) \/ j > Len(next) THEN <<>>
            ELSE (IF next[j] = prev[i] + gap THEN <<next[j]>> ELSE <<>>)
                   \o found[<<i + 1, j + 1>>]
  IN  found[<<1, 1>>]

(* The positions in next that stand gap behind one in prev.                *)
FindWithGap(prev, next, gap) ==
  LET found[at \in Cursors(prev, next)] ==
        LET i == at[1]
            j == at[2]
        IN  IF i > Len(prev) \/ j > Len(next) THEN <<>>
            ELSE IF next[j] = prev[i] + gap THEN <<next[j]>> \o found[<<i + 1, j + 1>>]
            ELSE IF next[j] < prev[i] + gap THEN found[<<i, j + 1>>]
            ELSE found[<<i + 1, j>>]
  IN  found[<<1, 1>>]

(* Whether the words of a phrase follow each other in a document: lists    *)
(* has the positions of each of them.                                      *)
MatchPhrase(lists, words) ==
  LET anchors[n \in DOMAIN words] ==
        IF n = 1 THEN lists[1]
        ELSE FindWithGap(anchors[n - 1], lists[n], words[n].gapBefore)
  IN  \A n \in DOMAIN words \ {1} : anchors[n] # <<>>

(* What a phrase asks for: words of the stems of its words at the same     *)
(* distances, its stop words standing for any word.                        *)
Occurs(text, phrase) ==
  /\ \E i \in DOMAIN phrase : phrase[i] \notin Stops
  /\ \E at \in (1 - Len(phrase))..Len(text) :
       \A i \in DOMAIN phrase :
         phrase[i] \notin Stops =>
           at + i \in DOMAIN text /\ at + i \in Where(text, Stem[phrase[i]])

(* A word whose stem a lookup takes for itself.                            *)
Stable(w) == w \notin Stops => Stem[w] \notin Stops /\ Stem[Stem[w]] = Stem[w]
=============================================================================
