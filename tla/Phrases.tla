------------------------------ MODULE Phrases -------------------------------
(***************************************************************************)
(* The operators of Postings over every short text: a document is analysed *)
(* word by word, as AnalyzeWithPositions and Index do, then analysed again *)
(* with another text, whose postings the tree merges with the older ones.  *)
(***************************************************************************)
EXTENDS Postings

CONSTANTS
  MaxWords,    \* bound of the model: words of both texts
  MaxPhrase    \* bound of the model: words of a phrase

VARIABLES
  text,     \* the words read so far of the text
  pos,      \* the position of the next word
  lists,    \* termPositions: the positions of each stem so far
  older,    \* the same of the document's former text
  read      \* the number of words read of both texts; bounds the model

phvars == <<text, pos, lists, older, read>>

NoLists == [t \in Words |-> <<>>]

PhInit ==
  /\ text = <<>>
  /\ pos = 0
  /\ lists = NoLists
  /\ older = NoLists
  /\ read = 0

Token(w) ==
  /\ read < MaxWords
  /\ text' = Append(text, w)
  /\ pos' = pos + 1
  /\ lists' = IF w \in Stops THEN lists
              ELSE [lists EXCEPT ![Stem[w]] = Append(@, pos)]
  /\ read' = read + 1
  /\ UNCHANGED older

(* The document is indexed again, with a new text.                         *)
Again ==
  /\ older = NoLists
  /\ older' = lists
  /\ text' = <<>>
  /\ pos' = 0
  /\ lists' = NoLists
  /\ UNCHANGED read

PhNext == Again \/ \E w \in Words : Token(w)

PhSpec == PhInit /\ [][PhNext]_phvars

-----------------------------------------------------------------------------
(* PhraseSearch in one document: the lists of the stems, stemmed again by  *)
(* LookupPostings.                                                         *)
Lookup(stem) == IF stem \in Stops THEN <<>> ELSE lists[Stem[stem]]

PhraseFound(phrase) ==
  LET words == QueryWords(phrase)
      found == [n \in DOMAIN words |-> Lookup(words[n].stemmed)]
  IN  /\ words # <<>>
      /\ \A n \in DOMAIN words : found[n] # <<>>
      /\ MatchPhrase(found, words)

PhraseChoices == UNION {[1..n -> Words] : n \in 1..MaxPhrase}

(* A phrase is found in a document exactly if its text has words of those  *)
(* stems at those distances, stop words of the phrase standing for any     *)
(* word, provided the stems of the phrase's words are their own stems.     *)
(* A document without text has no postings, and nothing is asked of it.    *)
PhraseIsInText ==
  text # <<>> =>
  \A phrase \in PhraseChoices :
    (\A i \in DOMAIN phrase : Stable(phrase[i])) =>
      (PhraseFound(phrase) <=> Occurs(text, phrase))

(* Merging the encoded postings of two texts of a document, or of two      *)
(* documents, in whatever order the maps are ranged over, gives each       *)
(* document all its positions once and in order: on posting lists the      *)
(* MergeFn is the union LsmTree takes it for.                              *)
Posted(d, ls, t) == [e \in {d} |-> ls[t]]

MergeFnIsUnion ==
  \A t \in Words, d \in {0, 1} :
    LET new == Posted(0, lists, t)
        old == Posted(d, older, t)
        out == PostingMerge(Encode(new, <<0>>), Encode(old, <<d>>))
    IN  /\ DOMAIN out = {0, d}
        /\ \A e \in {0, d} :
             /\ ToSet(out[e]) = (IF e = 0 THEN ToSet(lists[t]) ELSE {})
                                \cup (IF e = d THEN ToSet(older[t]) ELSE {})
             /\ out[e] = Ascending(ToSet(out[e]))

(* Decoding gives back the list that was encoded, in any order.            *)
CodecRoundTrip ==
  \A t \in Words :
    LET pl == [d \in {0, 1} |-> IF d = 0 THEN lists[t] ELSE older[t]]
    IN  \A order \in Orders(pl) : DecodePostingList(Encode(pl, order)) = pl
=============================================================================
