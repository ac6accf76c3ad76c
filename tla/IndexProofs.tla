---------------------------- MODULE IndexProofs -----------------------------
(***************************************************************************)
(* The index for any documents, texts, writers and queries: its counts are *)
(* those of Statistics; once the calls of Index for a document have        *)
(* returned, the tree and the counts agree about it; queries answer with   *)
(* the documents their expressions describe; rankings list the documents   *)
(* they should, and tiered searches the best ones.                         *)
(***************************************************************************)
EXTENDS InvertedIndex, Ranking, PostingProofs

-----------------------------------------------------------------------------
(* The counts.                                                             *)

(* A term occurs finitely often in a text, and at least once if it is one  *)
(* of its terms.                                                           *)
LEMMA Occurrences ==
  ASSUME NEW text \in Texts, NEW t \in Words
  PROVE  /\ Cardinality(Where(text, t)) \in Nat
         /\ t \in Terms(text) => Cardinality(Where(text, t)) > 0
<1>1. text \in Seq(Words)
  BY TextsAreTexts
<1>2. DOMAIN text = 1..Len(text) /\ Len(text) \in Nat
  BY <1>1
<1>3. IsFiniteSet(1..Len(text))
  BY <1>2, FS_Interval
<1>4. Where(text, t) \subseteq 1..Len(text)
  BY <1>2 DEF Where
<1>5. IsFiniteSet(Where(text, t))
  BY <1>3, <1>4, FS_Subset
<1>6. Cardinality(Where(text, t)) \in Nat
  BY <1>5, FS_CardinalityType
<1>7. ASSUME t \in Terms(text) PROVE Cardinality(Where(text, t)) > 0
  <2>1. PICK w \in ToSet(text) \ Stops : t = Stem[w]
    BY <1>7 DEF Terms
  <2>2. PICK p \in DOMAIN text : text[p] = w
    BY <2>1 DEF ToSet
  <2>3. p \in Where(text, t)
    BY <2>1, <2>2 DEF Where
  <2>4. Cardinality(Where(text, t)) # 0
    BY <1>5, <2>3, FS_EmptySet
  <2> QED BY <1>6, <2>4
<1> QED BY <1>6, <1>7

(* The counts stay within their types.                                     *)
LEMMA StatTypes == StatSpec => []StatTypeOK
<1>1. StatInit => StatTypeOK
  BY DEF StatInit, StatTypeOK
<1>2. StatTypeOK /\ [StatNext]_svars => StatTypeOK'
  <2> SUFFICES ASSUME StatTypeOK, [StatNext]_svars PROVE StatTypeOK'
    OBVIOUS
  <2>1. CASE UNCHANGED svars
    BY <2>1 DEF StatTypeOK, svars
  <2>2. ASSUME NEW d \in Docs, NEW text \in Texts, Count(d, text)
        PROVE  StatTypeOK'
    <3>1. TextCounts(d, text) \in [Words -> Nat]
      BY Occurrences DEF TextCounts, StatTypeOK
    <3> QED BY <2>2, <3>1 DEF Count, StatTypeOK
  <2> QED BY <2>1, <2>2 DEF StatNext
<1> QED BY <1>1, <1>2, PTL DEF StatSpec

-----------------------------------------------------------------------------
(* The inductive invariant.  A document is known once it has been counted, *)
(* and one that is not known has no terms: so the first count of a         *)
(* document adds it to the holders of its terms.                           *)
StatInv ==
  /\ StatTypeOK
  /\ \A d \in Docs : (d \in known <=> times[d] # 0)
                     /\ (d \notin known => \A t \in Words : tf[d][t] = 0)
  /\ \A t \in Words : /\ Cardinality(Holding(t)) <= df[t]
                      /\ NothingTwice => df[t] = Cardinality(Holding(t))

LEMMA HoldingIsFinite ==
  ASSUME NEW t \in Words
  PROVE  IsFiniteSet(Holding(t)) /\ Cardinality(Holding(t)) \in Nat
<1>1. Holding(t) \subseteq Docs
  BY DEF Holding
<1>2. IsFiniteSet(Holding(t))
  BY <1>1, DocsAreFinite, FS_Subset
<1> QED BY <1>2, FS_CardinalityType

(* Counting a text adds the document to the holders of its terms, and      *)
(* changes those of no other term.                                         *)
LEMMA CountHolds ==
  ASSUME StatTypeOK, NEW d \in Docs, NEW text \in Texts, Count(d, text),
         NEW t \in Words
  PROVE  Holding(t)' = IF t \in Terms(text) THEN Holding(t) \cup {d} ELSE Holding(t)
<1>1. \A e \in Docs \ {d} : tf'[e] = tf[e]
  BY DEF Count, StatTypeOK
<1>2. tf'[d] = TextCounts(d, text)
  BY DEF Count, StatTypeOK
<1>3. CASE t \in Terms(text)
  <2>1. tf'[d][t] > 0
    BY <1>2, <1>3, Occurrences DEF TextCounts
  <2> QED BY <1>1, <1>3, <2>1 DEF Holding
<1>4. CASE t \notin Terms(text)
  <2>1. tf'[d][t] = tf[d][t]
    BY <1>2, <1>4 DEF TextCounts
  <2> QED BY <1>1, <1>4, <2>1 DEF Holding
<1> QED BY <1>3, <1>4

LEMMA StatInvIsInductive ==
  StatInv /\ StatTypeOK' /\ [StatNext]_svars => StatInv'
<1> SUFFICES ASSUME StatInv, StatTypeOK', [StatNext]_svars PROVE StatInv'
  OBVIOUS
<1>1. CASE UNCHANGED svars
  <2>1. \A t \in Words : Holding(t)' = Holding(t)
    BY <1>1 DEF Holding, svars
  <2> QED BY <1>1, <2>1 DEF StatInv, NothingTwice, svars
<1>2. ASSUME NEW d \in Docs, NEW text \in Texts, Count(d, text)
      PROVE  StatInv'
  <2>1. StatTypeOK
    BY DEF StatInv
  <2>2. \A e \in Docs : times'[e] = IF e = d THEN times[e] + 1 ELSE times[e]
    BY <1>2, <2>1 DEF Count, StatTypeOK
  <2>3. known' = known \cup {d} /\ \A e \in Docs \ {d} : tf'[e] = tf[e]
    BY <1>2, <2>1 DEF Count, StatTypeOK
  <2>4. \A e \in Docs : (e \in known' <=> times'[e] # 0)
                        /\ (e \notin known' => \A t \in Words : tf'[e][t] = 0)
    BY <2>1, <2>2, <2>3 DEF StatInv, StatTypeOK
  <2>5. ASSUME NEW t \in Words
        PROVE  /\ Cardinality(Holding(t)') <= df'[t]
               /\ NothingTwice' => df'[t] = Cardinality(Holding(t)')
    <3>1. /\ Cardinality(Holding(t)) <= df[t]
          /\ NothingTwice => df[t] = Cardinality(Holding(t))
          /\ df[t] \in Nat
          /\ Cardinality(Holding(t)) \in Nat
      BY HoldingIsFinite DEF StatInv, StatTypeOK
    <3>2. df'[t] = df[t] + IF t \in Terms(text) THEN 1 ELSE 0
      BY <1>2 DEF Count
    <3>3. Holding(t)' = IF t \in Terms(text) THEN Holding(t) \cup {d} ELSE Holding(t)
      BY <1>2, <2>1, CountHolds
    <3>4. NothingTwice' => NothingTwice /\ d \notin Holding(t)
      <4> SUFFICES ASSUME NothingTwice' PROVE NothingTwice /\ d \notin Holding(t)
        OBVIOUS
      <4>1. \A e \in Docs : times'[e] <= 1
        BY DEF NothingTwice
      <4>2. times \in [Docs -> Nat]
        BY <2>1 DEF StatTypeOK
      <4>3. NothingTwice
        BY <2>2, <4>1, <4>2 DEF NothingTwice
      <4>4. times[d] = 0
        BY <2>2, <4>1, <4>2
      <4>5. tf[d][t] = 0
        BY <4>4 DEF StatInv
      <4> QED BY <4>3, <4>5 DEF Holding
    <3>5. Cardinality(Holding(t) \cup {d}) = IF d \in Holding(t) THEN Cardinality(Holding(t))
                                             ELSE Cardinality(Holding(t)) + 1
      BY HoldingIsFinite, FS_AddElement
    <3>6. CASE t \in Terms(text)
      BY <3>1, <3>2, <3>3, <3>4, <3>5, <3>6
    <3>7. CASE t \notin Terms(text)
      BY <3>1, <3>2, <3>3, <3>4, <3>7
    <3> QED BY <3>6, <3>7
  <2> QED BY <2>4, <2>5 DEF StatInv
<1> QED BY <1>1, <1>2 DEF StatNext

(* The invariant says what DfCoversDocs does: a document that has a term   *)
(* is known.                                                               *)
LEMMA StatInvSuffices == StatInv => DfCoversDocs
<1> SUFFICES ASSUME StatInv, NEW t \in Words
             PROVE  /\ Cardinality(Holding(t)) <= df[t]
                    /\ NothingTwice => /\ df[t] = Cardinality(Holding(t))
                                       /\ df[t] <= Cardinality(known)
  BY DEF DfCoversDocs
<1>1. Holding(t) \subseteq known /\ known \subseteq Docs
  BY DEF Holding, StatInv, StatTypeOK
<1>2. IsFiniteSet(known)
  BY <1>1, DocsAreFinite, FS_Subset
<1>3. Cardinality(Holding(t)) <= Cardinality(known)
  BY <1>1, <1>2, FS_Subset
<1> QED BY <1>3 DEF StatInv

LEMMA StatInvHolds == StatSpec => []StatInv
<1>1. StatInit => StatInv
  <2> SUFFICES ASSUME StatInit PROVE StatInv
    OBVIOUS
  <2>1. StatTypeOK
    BY DEF StatInit, StatTypeOK
  <2>2. \A t \in Words : Holding(t) = {}
    BY DEF StatInit, Holding
  <2>3. Cardinality({}) = 0
    BY FS_EmptySet
  <2> QED BY <2>1, <2>2, <2>3 DEF StatInit, StatInv
<1>2. StatSpec => []StatTypeOK
  BY StatTypes
<1> QED
  BY <1>1, <1>2, StatInvIsInductive, PTL DEF StatSpec

(* In every behaviour of the counts, a term's frequency is at least the    *)
(* number of documents that have it (so the divisor of n / df is not zero  *)
(* where tfidf divides), and while no document has been indexed twice it   *)
(* is that number and at most the number of documents: no idf is negative. *)
THEOREM FrequenciesCover == StatSpec => []DfCoversDocs
BY StatInvHolds, StatInvSuffices, PTL

-----------------------------------------------------------------------------
(* The tree.                                                               *)
TreeKeys == Words \X Blocks
Cells == Nat \X Nat

PlacesOK == places \in Seq([TreeKeys -> SUBSET Cells]) /\ Len(places) > 0

LEMMA PutAdds ==
  ASSUME PlacesOK, NEW k \in TreeKeys, NEW v \in SUBSET Cells, Tree!Put(k, v)
  PROVE  /\ PlacesOK'
         /\ \A x \in TreeKeys : Tree!Whole(x)' = IF x = k THEN Tree!Whole(x) \cup v
                                                 ELSE Tree!Whole(x)
<1>1. DOMAIN places = 1..Len(places) /\ 1 \in DOMAIN places
  BY DEF PlacesOK
<1>2. places' = [places EXCEPT ![1] = [places[1] EXCEPT ![k] = places[1][k] \cup v]]
  BY DEF Tree!Put
<1>3. places[1] \in [TreeKeys -> SUBSET Cells]
  BY <1>1 DEF PlacesOK
<1>4. [places[1] EXCEPT ![k] = places[1][k] \cup v] \in [TreeKeys -> SUBSET Cells]
  BY <1>3
<1>5. PlacesOK'
  BY <1>1, <1>2, <1>4 DEF PlacesOK
<1>6. /\ DOMAIN places' = DOMAIN places
      /\ \A i \in DOMAIN places, x \in TreeKeys :
           places'[i][x] = IF i = 1 /\ x = k THEN places[i][x] \cup v ELSE places[i][x]
  BY <1>1, <1>2, <1>3
<1>7. ASSUME NEW x \in TreeKeys
      PROVE  Tree!Whole(x)' = IF x = k THEN Tree!Whole(x) \cup v ELSE Tree!Whole(x)
  <2>1. Tree!Whole(x)' = UNION {places'[i][x] : i \in DOMAIN places}
    BY <1>6 DEF Tree!Whole
  <2>2. CASE x = k
    <3>1. ASSUME NEW c
          PROVE  c \in Tree!Whole(x)' <=> c \in Tree!Whole(x) \cup v
      <4>1. c \in Tree!Whole(x)' <=> \E i \in DOMAIN places : c \in places'[i][x]
        BY <2>1
      <4>2. c \in Tree!Whole(x) <=> \E i \in DOMAIN places : c \in places[i][x]
        BY DEF Tree!Whole
      <4>3. \A i \in DOMAIN places :
              places'[i][x] = IF i = 1 THEN places[i][x] \cup v ELSE places[i][x]
        BY <1>6, <2>2
      <4> QED
        BY <1>1, <4>1, <4>2, <4>3
    <3> QED
      BY <2>2, <3>1
  <2>3. CASE x # k
    <3>1. \A i \in DOMAIN places : places'[i][x] = places[i][x]
      BY <1>6, <2>3
    <3> QED
      BY <2>1, <2>3, <3>1 DEF Tree!Whole
  <2> QED
    BY <2>2, <2>3
<1> QED
  BY <1>5, <1>7

LEMMA MaintenanceKeeps ==
  ASSUME PlacesOK, Tree!Maintenance
  PROVE  PlacesOK' /\ \A x \in TreeKeys : Tree!Whole(x)' = Tree!Whole(x)
<1> DEFINE Place == [TreeKeys -> SUBSET Cells]
<1>1. DOMAIN places = 1..Len(places) /\ Len(places) \in Nat
  BY DEF PlacesOK
<1>2. CASE Tree!Flush
  <2>1. Tree!EmptyPlace \in Place /\ \A x \in TreeKeys : Tree!EmptyPlace[x] = {}
    BY DEF Tree!EmptyPlace, TreeKeys
  <2>2. places' = <<Tree!EmptyPlace>> \o places
    BY <1>2 DEF Tree!Flush
  <2>3. /\ DOMAIN places' = 1..(Len(places) + 1)
        /\ places'[1] = Tree!EmptyPlace
        /\ \A i \in 1..Len(places) : places'[i + 1] = places[i]
    BY <1>1, <2>1, <2>2 DEF PlacesOK
  <2>4. PlacesOK'
    BY <2>1, <2>2 DEF PlacesOK
  <2>5. ASSUME NEW x \in TreeKeys
        PROVE  Tree!Whole(x)' = Tree!Whole(x)
    <3>1. \A i \in DOMAIN places' : places'[i][x] = {} \/ \E n \in DOMAIN places : places'[i][x] = places[n][x]
      <4> SUFFICES ASSUME NEW i \in DOMAIN places'
                   PROVE  places'[i][x] = {} \/ \E n \in DOMAIN places : places'[i][x] = places[n][x]
        OBVIOUS
      <4>1. CASE i = 1
        BY <2>1, <2>3, <4>1
      <4>2. CASE i # 1
        <5>1. i - 1 \in 1..Len(places) /\ places'[(i - 1) + 1] = places[i - 1]
          BY <1>1, <2>3, <4>2
        <5> QED
          BY <1>1, <2>3, <5>1
      <4> QED
        BY <4>1, <4>2
    <3>2. \A n \in DOMAIN places : \E i \in DOMAIN places' : places'[i][x] = places[n][x]
      BY <1>1, <2>3
    <3> QED
      BY <3>1, <3>2 DEF Tree!Whole
  <2> QED
    BY <2>4, <2>5
<1>3. ASSUME NEW j \in DOMAIN places, NEW i \in 2..j, Tree!Compact(i, j)
      PROVE  PlacesOK' /\ \A x \in TreeKeys : Tree!Whole(x)' = Tree!Whole(x)
  <2> DEFINE united == [k \in TreeKeys |-> UNION {places[n][k] : n \in i..j}]
  <2>1. places' = SubSeq(places, 1, i - 1) \o <<united>> \o SubSeq(places, j + 1, Len(places))
    BY <1>3 DEF Tree!Compact, TreeKeys
  <2>2. i \in Nat /\ j \in Nat /\ 2 <= i /\ i <= j /\ j <= Len(places)
    BY <1>1
  <2>3. united \in Place
    BY <1>1, <2>2 DEF PlacesOK
  <2> HIDE DEF united
  <2>4. SubSeq(places, 1, i - 1) \in Seq(Place) /\ SubSeq(places, j + 1, Len(places)) \in Seq(Place)
    BY <1>1, <2>2 DEF PlacesOK
  <2>5. /\ Len(SubSeq(places, 1, i - 1)) = i - 1
        /\ \A n \in 1..(i - 1) : SubSeq(places, 1, i - 1)[n] = places[n]
        /\ Len(SubSeq(places, j + 1, Len(places))) = Len(places) - j
        /\ \A n \in 1..(Len(places) - j) : SubSeq(places, j + 1, Len(places))[n] = places[n + j]
    BY <1>1, <2>2 DEF PlacesOK
  <2>6. /\ places' \in Seq(Place)
        /\ Len(places') = Len(places) - j + i
        /\ \A n \in 1..(i - 1) : places'[n] = places[n]
        /\ places'[i] = united
        /\ \A n \in (i + 1)..Len(places') : places'[n] = places[n - i + j]
    BY <1>1, <2>1, <2>2, <2>3, <2>4, <2>5
  <2>7. PlacesOK'
    BY <1>1, <2>2, <2>6 DEF PlacesOK
  <2>8. ASSUME NEW x \in TreeKeys
        PROVE  Tree!Whole(x)' = Tree!Whole(x)
    <3>1. united[x] = UNION {places[n][x] : n \in i..j}
      BY DEF united
    <3>2. DOMAIN places' = 1..Len(places')
      BY <2>6
    <3>3. ASSUME NEW n \in DOMAIN places', NEW c \in places'[n][x]
          PROVE  \E m \in DOMAIN places : c \in places[m][x]
      <4>1. CASE n < i
        BY <1>1, <2>2, <2>6, <3>2, <3>3, <4>1
      <4>2. CASE n = i
        BY <1>1, <2>2, <2>6, <3>1, <3>3, <4>2
      <4>3. CASE n > i
        <5>1. n \in (i + 1)..Len(places') /\ n - i + j \in DOMAIN places
          BY <1>1, <2>2, <2>6, <3>2, <4>3
        <5> QED
          BY <2>6, <3>3, <5>1
      <4> QED
        BY <2>2, <3>2, <4>1, <4>2, <4>3
    <3>4. ASSUME NEW m \in DOMAIN places, NEW c \in places[m][x]
          PROVE  \E n \in DOMAIN places' : c \in places'[n][x]
      <4>1. CASE m < i
        BY <1>1, <2>2, <2>6, <3>2, <3>4, <4>1
      <4>2. CASE m \in i..j
        <5>1. i \in DOMAIN places' /\ c \in united[x]
          BY <1>1, <2>2, <2>6, <3>1, <3>2, <3>4, <4>2
        <5> QED
          BY <2>6, <5>1
      <4>3. CASE m > j
        <5>1. m - j + i \in (i + 1)..Len(places') /\ (m - j + i) - i + j = m
          BY <1>1, <2>2, <2>6, <4>3
        <5>2. places'[m - j + i] = places[(m - j + i) - i + j]
          BY <2>6, <5>1
        <5>3. m - j + i \in DOMAIN places' /\ places'[m - j + i] = places[m]
          BY <2>2, <3>2, <5>1, <5>2
        <5> QED
          BY <3>4, <5>3
      <4> QED
        BY <1>1, <2>2, <4>1, <4>2, <4>3
    <3>5. \A c : c \in Tree!Whole(x)' <=> c \in Tree!Whole(x)
      <4>1. \A c : c \in Tree!Whole(x)' <=> \E n \in DOMAIN places' : c \in places'[n][x]
        BY DEF Tree!Whole
      <4>2. \A c : c \in Tree!Whole(x) <=> \E n \in DOMAIN places : c \in places[n][x]
        BY DEF Tree!Whole
      <4> QED
        BY <3>3, <3>4, <4>1, <4>2
    <3> QED
      BY <3>5
  <2> QED
    BY <2>7, <2>8
<1> QED
  BY <1>2, <1>3 DEF Tree!Maintenance

-----------------------------------------------------------------------------
(* The pieces a document has in the tree of a term, and those a text of    *)
(* it puts there.                                                          *)
KeyOf(d, t) == <<t, d \div BlockSize>>
Held(d, t) == {x \in Tree!Whole(KeyOf(d, t)) : x[1] = d % BlockSize}
Pieces(d, text, t) == {d % BlockSize} \X PositionSet(text, t)

LEMMA KeysAreKeys ==
  ASSUME NEW d \in Docs, NEW t \in Words
  PROVE  KeyOf(d, t) \in TreeKeys /\ d % BlockSize \in Nat /\ d \div BlockSize \in Nat
  BY BlocksHaveDocs, DocsAreFinite DEF KeyOf, TreeKeys, Blocks

(* A document is told from the others by its block and its place there.    *)
LEMMA OneDocument ==
  ASSUME NEW d \in Docs, NEW e \in Docs,
         d \div BlockSize = e \div BlockSize, d % BlockSize = e % BlockSize
  PROVE  d = e
<1>1. d \in Nat /\ e \in Nat /\ BlockSize \in Nat /\ BlockSize > 0
  BY BlocksHaveDocs, DocsAreFinite
<1> QED
  BY <1>1

LEMMA TermsAreWords ==
  ASSUME NEW text \in Texts
  PROVE  /\ Terms(text) \subseteq Words
         /\ \A t \in Words \ Terms(text) : Where(text, t) = {}
<1>1. text \in Seq(Words)
  BY TextsAreTexts
<1>2. \A p \in DOMAIN text : text[p] \in ToSet(text) /\ text[p] \in Words
  BY <1>1 DEF ToSet
<1>3. ToSet(text) \subseteq Words
  BY <1>2 DEF ToSet
<1>4. Terms(text) \subseteq Words
  BY <1>3, StemsAreWords DEF Terms
<1>5. ASSUME NEW t \in Words \ Terms(text), NEW p \in Where(text, t)
      PROVE  FALSE
  <2>1. p \in DOMAIN text /\ text[p] \notin Stops /\ Stem[text[p]] = t
    BY <1>5 DEF Where
  <2>2. t \in Terms(text)
    BY <1>2, <2>1 DEF Terms
  <2> QED
    BY <1>5, <2>2
<1> QED
  BY <1>4, <1>5

(* A text puts as many pieces for a term as the term occurs in it.         *)
LEMMA PiecesCount ==
  ASSUME NEW d \in Docs, NEW text \in Texts, NEW t \in Words
  PROVE  /\ Pieces(d, text, t) \subseteq Cells
         /\ IsFiniteSet(Pieces(d, text, t))
         /\ Cardinality(Pieces(d, text, t)) = Cardinality(Where(text, t))
<1> DEFINE b == d % BlockSize
           f == [p \in Where(text, t) |-> <<b, p - 1>>]
<1>1. text \in Seq(Words)
  BY TextsAreTexts
<1>2. DOMAIN text = 1..Len(text) /\ Len(text) \in Nat
  BY <1>1
<1>3. Where(text, t) \subseteq 1..Len(text)
  BY <1>2 DEF Where
<1>4. IsFiniteSet(Where(text, t))
  <2>1. IsFiniteSet(1..Len(text))
    BY <1>2, FS_Interval
  <2> QED
    BY <1>3, <2>1, FS_Subset
<1>5. \A p \in Where(text, t) : p \in Nat /\ p - 1 \in Nat
  BY <1>2, <1>3
<1>6. PositionSet(text, t) \subseteq Nat
  BY <1>5 DEF PositionSet
<1>7. b \in Nat
  BY KeysAreKeys
<1>8. f \in Bijection(Where(text, t), Pieces(d, text, t))
  <2>1. f \in [Where(text, t) -> Pieces(d, text, t)]
    BY DEF Pieces, PositionSet
  <2>2. \A p, q \in Where(text, t) : f[p] = f[q] => p = q
    BY <1>5
  <2>3. \A x \in Pieces(d, text, t) : \E p \in Where(text, t) : f[p] = x
    BY DEF Pieces, PositionSet
  <2> QED
    BY <2>1, <2>2, <2>3 DEF Bijection, Injection, Surjection, IsInjective
<1>9. /\ IsFiniteSet(Pieces(d, text, t))
      /\ Cardinality(Pieces(d, text, t)) = Cardinality(Where(text, t))
  BY <1>4, <1>8, FS_Bijection DEF ExistsBijection
<1>10. Pieces(d, text, t) \subseteq Cells
  BY <1>6, <1>7 DEF Pieces, Cells
<1> QED
  BY <1>9, <1>10

-----------------------------------------------------------------------------
(* The inductive invariant.                                                *)
Counting == [stage : {"count"}, doc : Docs, text : Texts]
Putting == [stage : {"put"}, doc : Docs, text : Texts, left : SUBSET Words]

IndexTypeOK ==
  /\ StatTypeOK
  /\ allDocs \subseteq Docs
  /\ calls \in [Writers -> {Idle} \cup Counting \cup Putting]
  /\ posted \in [Docs -> SUBSET Texts]
  /\ PlacesOK
  /\ \A k \in TreeKeys : IsFiniteSet(Tree!Whole(k))

PutsFor(w, d) == calls[w].stage = "put" /\ calls[w].doc = d

(* A document is entered before it is counted, and counted before anything *)
(* of it is put.                                                           *)
Entered ==
  /\ \A w \in Writers : calls[w] # Idle => calls[w].doc \in allDocs
  /\ \A w \in Writers, d \in Docs : PutsFor(w, d) => times[d] # 0
  /\ \A d \in Docs : /\ d \in known <=> times[d] # 0
                     /\ times[d] # 0 => d \in allDocs
                     /\ posted[d] # {} => times[d] # 0

Uncounted ==
  \A d \in Docs, t \in Words : times[d] = 0 => tf[d][t] = 0 /\ Held(d, t) = {}

(* All that is known of a document is from one text.                       *)
OnlyText(d, text) ==
  /\ \A w \in Writers : PutsFor(w, d) => calls[w].text = text
  /\ \A t \in Words : /\ tf[d][t] = Cardinality(Where(text, t))
                      /\ Held(d, t) \subseteq Pieces(d, text, t)

CountedOnce == \A d \in Docs : times[d] = 1 => \E text \in Texts : OnlyText(d, text)

(* A count is of a text whose pieces are in the tree or about to be put.   *)
Owed(d, text, t) ==
  \E w \in Writers : PutsFor(w, d) /\ calls[w].text = text /\ t \in calls[w].left

Covered(d, text, t) ==
  /\ tf[d][t] = Cardinality(Where(text, t))
  /\ Pieces(d, text, t) \subseteq Held(d, t) \/ Owed(d, text, t)

CountsAreKept ==
  \A d \in Docs, t \in Words : tf[d][t] > 0 => \E text \in Texts : Covered(d, text, t)

IndexInv == IndexTypeOK /\ Entered /\ Uncounted /\ CountedOnce /\ CountsAreKept

-----------------------------------------------------------------------------
LEMMA CallFields ==
  ASSUME IndexTypeOK, NEW w \in Writers
  PROVE  /\ calls[w] = Idle \/ calls[w] \in Counting \/ calls[w] \in Putting
         /\ calls[w].stage = "count" => calls[w] \in Counting
         /\ calls[w].stage = "put" => calls[w] \in Putting
         /\ calls[w].stage = "idle" <=> calls[w] = Idle
  BY DEF IndexTypeOK, Counting, Putting, Idle

(* What the steps leave alone.                                             *)
LEMMA SameTree ==
  ASSUME places' = places
  PROVE  /\ \A k : Tree!Whole(k)' = Tree!Whole(k)
         /\ \A d, t : Held(d, t)' = Held(d, t)
         /\ PlacesOK' <=> PlacesOK
<1>1. \A k : Tree!Whole(k)' = Tree!Whole(k)
  BY DEF Tree!Whole
<1> QED
  BY <1>1 DEF Held, PlacesOK

LEMMA InitKeeps == IInit => IndexInv
<1> SUFFICES ASSUME IInit PROVE IndexInv
  OBVIOUS
<1>1. /\ known = {} /\ allDocs = {}
      /\ \A d \in Docs : times[d] = 0 /\ posted[d] = {} /\ \A t \in Words : tf[d][t] = 0
      /\ \A w \in Writers : calls[w] = Idle
  BY DEF IInit, StatInit
<1>2. StatTypeOK
  BY DEF IInit, StatInit, StatTypeOK
<1>3. places = <<Tree!EmptyPlace>> /\ Tree!EmptyPlace = [k \in TreeKeys |-> {}]
  BY DEF IInit, Tree!Init, Tree!EmptyPlace, TreeKeys
<1>4. PlacesOK
  <2>1. [k \in TreeKeys |-> {}] \in [TreeKeys -> SUBSET Cells]
    OBVIOUS
  <2> QED
    BY <1>3, <2>1 DEF PlacesOK
<1>5. \A k \in TreeKeys : Tree!Whole(k) = {}
  BY <1>3 DEF Tree!Whole
<1>6. IndexTypeOK
  <2>1. \A k \in TreeKeys : IsFiniteSet(Tree!Whole(k))
    BY <1>5, FS_EmptySet
  <2> QED
    BY <1>1, <1>2, <1>4, <2>1 DEF IndexTypeOK, IInit
<1>7. Entered
  BY <1>1 DEF Entered, PutsFor, Idle
<1>8. Uncounted
  BY <1>1, <1>5, KeysAreKeys DEF Uncounted, Held
<1>9. CountedOnce
  BY <1>1 DEF CountedOnce
<1>10. CountsAreKept
  BY <1>1 DEF CountsAreKept
<1> QED
  BY <1>6, <1>7, <1>8, <1>9, <1>10 DEF IndexInv

(* Flushes and compactions, and the steps of queries.                      *)
LEMMA TreeStepKeeps ==
  ASSUME IndexInv, UNCHANGED <<known, tf, df, times, allDocs, calls, posted>>,
         PlacesOK', \A k \in TreeKeys : Tree!Whole(k)' = Tree!Whole(k)
  PROVE  IndexInv'
<1>1. \A d \in Docs, t \in Words : Held(d, t)' = Held(d, t)
  BY KeysAreKeys DEF Held
<1>2. \A w \in Writers, d \in Docs : PutsFor(w, d)' <=> PutsFor(w, d)
  BY DEF PutsFor
<1>3. IndexTypeOK'
  BY DEF IndexInv, IndexTypeOK, StatTypeOK
<1>4. Entered'
  BY <1>2 DEF IndexInv, Entered
<1>5. Uncounted'
  BY <1>1 DEF IndexInv, Uncounted
<1>6. \A d \in Docs, text \in Texts : OnlyText(d, text) => OnlyText(d, text)'
  BY <1>1, <1>2 DEF OnlyText, Pieces
<1>7. CountedOnce'
  BY <1>6 DEF IndexInv, CountedOnce
<1>8. \A d \in Docs, text \in Texts, t \in Words : Covered(d, text, t) => Covered(d, text, t)'
  BY <1>1, <1>2 DEF Covered, Owed, Pieces
<1>9. CountsAreKept'
  BY <1>8 DEF IndexInv, CountsAreKept
<1> QED
  BY <1>3, <1>4, <1>5, <1>7, <1>9 DEF IndexInv

LEMMA IndexBeginKeeps ==
  ASSUME IndexInv, NEW w \in Writers, NEW d \in Docs, NEW text \in Texts,
         IndexBegin(w, d, text)
  PROVE  IndexInv'
<1>1. /\ calls[w] = Idle
      /\ calls' = [calls EXCEPT ![w] = [stage |-> "count", doc |-> d, text |-> text]]
      /\ allDocs' = allDocs \cup {d}
      /\ UNCHANGED <<known, tf, df, times, places, posted>>
  BY DEF IndexBegin
<1>2. IndexTypeOK
  BY DEF IndexInv
<1>3. /\ calls'[w] = [stage |-> "count", doc |-> d, text |-> text]
      /\ \A v \in Writers \ {w} : calls'[v] = calls[v]
  BY <1>1, <1>2 DEF IndexTypeOK
<1>4. \A k : Tree!Whole(k)' = Tree!Whole(k)
  BY <1>1, SameTree
<1>5. \A e, t : Held(e, t)' = Held(e, t)
  BY <1>1, SameTree
<1>6. \A v \in Writers, e \in Docs : PutsFor(v, e)' <=> v # w /\ PutsFor(v, e)
  BY <1>3 DEF PutsFor
<1>7. \A e \in Docs : ~PutsFor(w, e)
  BY <1>1 DEF PutsFor, Idle
<1>8. IndexTypeOK'
  <2>1. calls'[w] \in Counting
    BY <1>3 DEF Counting
  <2>2. calls' \in [Writers -> {Idle} \cup Counting \cup Putting]
    BY <1>1, <1>2, <2>1 DEF IndexTypeOK
  <2>3. PlacesOK'
    BY <1>1, <1>2, SameTree DEF IndexTypeOK
  <2> QED
    BY <1>1, <1>2, <1>4, <2>2, <2>3 DEF IndexTypeOK, StatTypeOK
<1>9. Entered'
  <2>1. \A v \in Writers : calls'[v] # Idle => calls'[v].doc \in allDocs'
    BY <1>1, <1>3 DEF IndexInv, Entered
  <2> QED
    BY <1>1, <1>6, <2>1 DEF IndexInv, Entered
<1>10. Uncounted'
  BY <1>1, <1>5 DEF IndexInv, Uncounted
<1>11. CountedOnce'
  <2>1. \A e \in Docs, x \in Texts : OnlyText(e, x) => OnlyText(e, x)'
    BY <1>1, <1>3, <1>5, <1>6 DEF OnlyText, Pieces
  <2> QED
    BY <1>1, <2>1 DEF IndexInv, CountedOnce
<1>12. CountsAreKept'
  <2>1. \A e \in Docs, x \in Texts, t \in Words : Owed(e, x, t) => Owed(e, x, t)'
    BY <1>3, <1>6, <1>7 DEF Owed
  <2>2. \A e \in Docs, x \in Texts, t \in Words : Covered(e, x, t) => Covered(e, x, t)'
    BY <1>1, <1>5, <2>1 DEF Covered, Pieces
  <2> QED
    BY <1>1, <2>2 DEF IndexInv, CountsAreKept
<1> QED
  BY <1>8, <1>9, <1>10, <1>11, <1>12 DEF IndexInv

(* The first count of a document is of its only text; a term the text has  *)
(* is about to be put, and one it lacks keeps the text its count is of.    *)
LEMMA IndexCountKeeps ==
  ASSUME IndexInv, NEW w \in Writers, IndexCount(w)
  PROVE  IndexInv'
<1>1. IndexTypeOK
  BY DEF IndexInv
<1>2. PICK d \in Docs, text \in Texts :
        calls[w].stage = "count" /\ calls[w].doc = d /\ calls[w].text = text
  BY <1>1, CallFields DEF IndexCount, Counting
<1> DEFINE after == IF Terms(text) = {} THEN Idle
                    ELSE [stage |-> "put", doc |-> d, text |-> text, left |-> Terms(text)]
<1>3. /\ calls' = [calls EXCEPT ![w] = after]
      /\ posted' = IF Terms(text) = {} THEN [posted EXCEPT ![d] = @ \cup {text}] ELSE posted
      /\ Count(d, text)
      /\ UNCHANGED <<allDocs, places, reader>>
  BY <1>2 DEF IndexCount, GoOn
<1>4. calls'[w] = after /\ \A v \in Writers \ {w} : calls'[v] = calls[v]
  BY <1>1, <1>3 DEF IndexTypeOK
<1>5. /\ known' = known \cup {d}
      /\ tf'[d] = TextCounts(d, text)
      /\ \A e \in Docs \ {d} : tf'[e] = tf[e]
      /\ \A e \in Docs : times'[e] = IF e = d THEN times[e] + 1 ELSE times[e]
  BY <1>1, <1>2, <1>3 DEF Count, IndexTypeOK, StatTypeOK
<1>6. \A k : Tree!Whole(k)' = Tree!Whole(k)
  BY <1>3, SameTree
<1>7. \A e, t : Held(e, t)' = Held(e, t)
  BY <1>3, SameTree
<1>8. Terms(text) \subseteq Words /\ \A t \in Words \ Terms(text) : Where(text, t) = {}
  BY <1>2, TermsAreWords
<1>9. \A e \in Docs : times[e] \in Nat
  BY <1>1 DEF IndexTypeOK, StatTypeOK
<1>10. /\ \A v \in Writers \ {w}, e \in Docs : PutsFor(v, e)' <=> PutsFor(v, e)
       /\ \A e \in Docs : ~PutsFor(w, e)
       /\ \A e \in Docs : PutsFor(w, e)' => e = d /\ calls'[w].text = text
       /\ \A e \in Docs \ {d}, v \in Writers : PutsFor(v, e)' <=> PutsFor(v, e)
  BY <1>2, <1>4 DEF PutsFor, Idle
<1>11. IndexTypeOK'
  <2>1. after \in {Idle} \cup Putting
    BY <1>2, <1>8 DEF Putting
  <2>2. calls' \in [Writers -> {Idle} \cup Counting \cup Putting]
    BY <1>1, <1>3, <2>1 DEF IndexTypeOK
  <2>3. posted' \in [Docs -> SUBSET Texts]
    BY <1>1, <1>2, <1>3 DEF IndexTypeOK
  <2>4. StatTypeOK'
    <3>1. TextCounts(d, text) \in [Words -> Nat]
      BY <1>1, <1>2, Occurrences DEF TextCounts, IndexTypeOK, StatTypeOK
    <3> QED
      BY <1>1, <1>2, <1>3, <3>1 DEF Count, IndexTypeOK, StatTypeOK
  <2>5. PlacesOK'
    BY <1>1, <1>3, SameTree DEF IndexTypeOK
  <2> QED
    BY <1>1, <1>3, <1>6, <2>2, <2>3, <2>4, <2>5 DEF IndexTypeOK
<1>12. Entered'
  <2>1. d \in allDocs
    BY <1>2 DEF IndexInv, Entered, Idle
  <2>2. \A v \in Writers : calls'[v] # Idle => calls'[v].doc \in allDocs'
    BY <1>3, <1>4, <2>1 DEF IndexInv, Entered
  <2>3. \A v \in Writers, e \in Docs : PutsFor(v, e)' => times'[e] # 0
    BY <1>5, <1>9, <1>10 DEF IndexInv, Entered
  <2>4. \A e \in Docs : (e \in known' <=> times'[e] # 0) /\ (times'[e] # 0 => e \in allDocs')
    BY <1>3, <1>5, <1>9, <2>1 DEF IndexInv, Entered
  <2>5. \A e \in Docs \ {d} : posted'[e] = posted[e]
    BY <1>1, <1>3 DEF IndexTypeOK
  <2>6. \A e \in Docs : posted'[e] # {} => times'[e] # 0
    BY <1>5, <1>9, <2>5 DEF IndexInv, Entered
  <2> QED
    BY <2>2, <2>3, <2>4, <2>6 DEF Entered
<1>13. Uncounted'
  BY <1>5, <1>7, <1>9 DEF IndexInv, Uncounted
<1>14. CountedOnce'
  <2> SUFFICES ASSUME NEW e \in Docs, times'[e] = 1
               PROVE  \E x \in Texts : OnlyText(e, x)'
    BY DEF CountedOnce
  <2>1. CASE e = d
    <3>1. times[d] = 0
      BY <1>5, <1>9, <2>1
    <3>2. \A v \in Writers : PutsFor(v, d)' => calls'[v].text = text
      BY <1>2, <1>10, <3>1 DEF IndexInv, Entered
    <3>3. \A t \in Words : tf[d][t] = 0 /\ Held(d, t) = {}
      BY <1>2, <3>1 DEF IndexInv, Uncounted
    <3>4. \A t \in Words : tf'[d][t] = Cardinality(Where(text, t))
      BY <1>5, <1>8, <3>3, FS_EmptySet DEF TextCounts
    <3>5. OnlyText(d, text)'
      BY <1>7, <3>2, <3>3, <3>4 DEF OnlyText
    <3> QED
      BY <1>2, <2>1, <3>5
  <2>2. CASE e # d
    <3>1. PICK x \in Texts : OnlyText(e, x)
      BY <1>5, <2>2 DEF IndexInv, CountedOnce
    <3>2. \A v \in Writers : PutsFor(v, e)' => calls'[v].text = x
      BY <1>4, <1>10, <2>2, <3>1 DEF OnlyText
    <3>3. OnlyText(e, x)'
      BY <1>5, <1>7, <2>2, <3>1, <3>2 DEF OnlyText, Pieces
    <3> QED
      BY <3>3
  <2> QED
    BY <2>1, <2>2
<1>15. CountsAreKept'
  <2>1. \A e \in Docs, x \in Texts, t \in Words : Owed(e, x, t) => Owed(e, x, t)'
    BY <1>4, <1>10 DEF Owed
  <2> SUFFICES ASSUME NEW e \in Docs, NEW t \in Words, tf'[e][t] > 0
               PROVE  \E x \in Texts : Covered(e, x, t)'
    BY DEF CountsAreKept
  <2>2. CASE e = d /\ t \in Terms(text)
    <3>1. tf'[d][t] = Cardinality(Where(text, t))
      BY <1>5, <2>2 DEF TextCounts
    <3>2. PutsFor(w, d)' /\ calls'[w].text = text /\ t \in calls'[w].left
      BY <1>4, <2>2 DEF PutsFor
    <3>3. Owed(d, text, t)'
      BY <3>2 DEF Owed
    <3> QED
      BY <1>2, <2>2, <3>1, <3>3 DEF Covered
  <2>3. CASE ~(e = d /\ t \in Terms(text))
    <3>1. tf'[e][t] = tf[e][t]
      BY <1>5, <2>3 DEF TextCounts
    <3>2. PICK x \in Texts : Covered(e, x, t)
      BY <3>1 DEF IndexInv, CountsAreKept
    <3>3. Covered(e, x, t)'
      BY <1>7, <2>1, <3>1, <3>2 DEF Covered, Pieces
    <3> QED
      BY <3>3
  <2> QED
    BY <2>2, <2>3
<1> QED
  BY <1>11, <1>12, <1>13, <1>14, <1>15 DEF IndexInv

(* A put, by its call: the document has the pieces of the term then, and   *)
(* nothing else in the tree changes.                                       *)
After(d, text, left) ==
  IF left = {} THEN Idle ELSE [stage |-> "put", doc |-> d, text |-> text, left |-> left]

PutStep(w, d, text, left, u) ==
  /\ calls[w] = [stage |-> "put", doc |-> d, text |-> text, left |-> left]
  /\ calls' = [calls EXCEPT ![w] = After(d, text, left \ {u})]
  /\ posted' = IF left \ {u} = {} THEN [posted EXCEPT ![d] = @ \cup {text}] ELSE posted
  /\ UNCHANGED <<known, tf, df, times, allDocs, reader>>
  /\ PlacesOK'
  /\ \A k \in TreeKeys :
       Tree!Whole(k)' = IF k = KeyOf(d, u) THEN Tree!Whole(k) \cup Pieces(d, text, u)
                        ELSE Tree!Whole(k)
  /\ \A e \in Docs, t \in Words :
       Held(e, t)' = IF e = d /\ t = u THEN Held(e, t) \cup Pieces(d, text, u)
                     ELSE Held(e, t)

LEMMA PutIs ==
  ASSUME IndexTypeOK, NEW w \in Writers, IndexPut(w)
  PROVE  \E d \in Docs, text \in Texts, left \in SUBSET Words :
           \E u \in left : PutStep(w, d, text, left, u)
<1>2. PICK d \in Docs, text \in Texts, left \in SUBSET Words :
        calls[w] = [stage |-> "put", doc |-> d, text |-> text, left |-> left]
  BY CallFields DEF IndexPut, Putting
<1>3. PICK u \in left :
        /\ Tree!Put(KeyOf(d, u), Pieces(d, text, u))
        /\ calls' = [calls EXCEPT ![w] =
                       IF left \ {u} = {} THEN Idle
                       ELSE [stage |-> "put", doc |-> d, text |-> text, left |-> left \ {u}]]
        /\ posted' = IF left \ {u} = {} THEN [posted EXCEPT ![d] = @ \cup {text}] ELSE posted
  <2>1. calls[w].doc = d /\ calls[w].text = text /\ calls[w].left = left
    BY <1>2
  <2>2. PICK u \in calls[w].left :
          /\ Tree!Put(<<u, calls[w].doc \div BlockSize>>,
                      {calls[w].doc % BlockSize} \X PositionSet(calls[w].text, u))
          /\ GoOn(w, calls[w].left \ {u})
    BY DEF IndexPut
  <2>3. Tree!Put(KeyOf(d, u), Pieces(d, text, u))
    BY <2>1, <2>2 DEF Tree!Put, KeyOf, Pieces
  <2> QED
    BY <2>1, <2>2, <2>3 DEF GoOn
<1>4. u \in Words
  BY <1>2, <1>3
<1>5. /\ calls' = [calls EXCEPT ![w] = After(d, text, left \ {u})]
      /\ posted' = IF left \ {u} = {} THEN [posted EXCEPT ![d] = @ \cup {text}] ELSE posted
      /\ UNCHANGED <<known, tf, df, times, allDocs, reader>>
  BY <1>3 DEF IndexPut, After
<1>6. /\ KeyOf(d, u) \in TreeKeys
      /\ Pieces(d, text, u) \subseteq Cells
      /\ IsFiniteSet(Pieces(d, text, u))
  BY <1>2, <1>4, KeysAreKeys, PiecesCount
<1>7. /\ PlacesOK'
      /\ \A k \in TreeKeys :
           Tree!Whole(k)' = IF k = KeyOf(d, u) THEN Tree!Whole(k) \cup Pieces(d, text, u)
                            ELSE Tree!Whole(k)
  BY <1>3, <1>6, PutAdds DEF IndexTypeOK
<1>8. ASSUME NEW e \in Docs, NEW t \in Words
      PROVE  Held(e, t)' = IF e = d /\ t = u THEN Held(e, t) \cup Pieces(d, text, u)
                           ELSE Held(e, t)
  <2>1. KeyOf(e, t) \in TreeKeys
    BY KeysAreKeys
  <2>2. Held(e, t)' = {x \in Tree!Whole(KeyOf(e, t))' : x[1] = e % BlockSize}
    BY DEF Held
  <2>3. \A x \in Pieces(d, text, u) : x[1] = d % BlockSize
    BY DEF Pieces
  <2>4. CASE KeyOf(e, t) = KeyOf(d, u)
    <3>1. t = u /\ e \div BlockSize = d \div BlockSize
      BY <2>4 DEF KeyOf
    <3>2. Tree!Whole(KeyOf(e, t))' = Tree!Whole(KeyOf(e, t)) \cup Pieces(d, text, u)
      BY <1>7, <2>1, <2>4
    <3>3. CASE e = d
      BY <2>2, <2>3, <3>1, <3>2, <3>3 DEF Held
    <3>4. CASE e # d
      <4>1. e % BlockSize # d % BlockSize
        BY <1>2, <3>1, <3>4, OneDocument
      <4> QED
        BY <2>2, <2>3, <3>2, <3>4, <4>1 DEF Held
    <3> QED
      BY <3>3, <3>4
  <2>5. CASE KeyOf(e, t) # KeyOf(d, u)
    <3>1. ~(e = d /\ t = u)
      BY <2>5
    <3>2. Tree!Whole(KeyOf(e, t))' = Tree!Whole(KeyOf(e, t))
      BY <1>7, <2>1, <2>5
    <3> QED
      BY <2>2, <3>1, <3>2 DEF Held
  <2> QED
    BY <2>4, <2>5
<1>9. PutStep(w, d, text, left, u)
  BY <1>2, <1>5, <1>7, <1>8 DEF PutStep
<1> QED
  BY <1>9

(* What is put for a document is of the text of the call, and is then in   *)
(* the tree; what the call has left stays owed.                            *)
LEMMA IndexPutKeeps ==
  ASSUME IndexInv, NEW w \in Writers, IndexPut(w)
  PROVE  IndexInv'
<1>1. IndexTypeOK
  BY DEF IndexInv
<1>2. PICK d \in Docs, text \in Texts, left \in SUBSET Words :
        \E u \in left : PutStep(w, d, text, left, u)
  BY <1>1, PutIs
<1>3. PICK u \in left : PutStep(w, d, text, left, u)
  BY <1>2
<1>4. u \in Words /\ calls[w] = [stage |-> "put", doc |-> d, text |-> text, left |-> left]
  BY <1>3 DEF PutStep
<1> DEFINE rest == left \ {u}
           after == After(d, text, rest)
<1>5. /\ calls' = [calls EXCEPT ![w] = after]
      /\ posted' = IF rest = {} THEN [posted EXCEPT ![d] = @ \cup {text}] ELSE posted
      /\ UNCHANGED <<known, tf, df, times, allDocs, reader>>
  BY <1>3 DEF PutStep
<1>6. calls'[w] = after /\ \A v \in Writers \ {w} : calls'[v] = calls[v]
  BY <1>1, <1>5 DEF IndexTypeOK
<1>7. KeyOf(d, u) \in TreeKeys /\ IsFiniteSet(Pieces(d, text, u))
  BY <1>4, KeysAreKeys, PiecesCount
<1>8. /\ PlacesOK'
      /\ \A k \in TreeKeys :
           Tree!Whole(k)' = IF k = KeyOf(d, u) THEN Tree!Whole(k) \cup Pieces(d, text, u)
                            ELSE Tree!Whole(k)
  BY <1>3 DEF PutStep
<1>9. ASSUME NEW e \in Docs, NEW t \in Words
      PROVE  Held(e, t)' = IF e = d /\ t = u THEN Held(e, t) \cup Pieces(d, text, u)
                           ELSE Held(e, t)
  BY <1>3 DEF PutStep
<1>10. /\ \A v \in Writers, e \in Docs : PutsFor(v, e)' => PutsFor(v, e) /\ calls'[v].text = calls[v].text
       /\ PutsFor(w, d)
  BY <1>4, <1>6 DEF PutsFor, Idle, After
<1>11. IndexTypeOK'
  <2>1. after \in {Idle} \cup Putting
    BY <1>2 DEF Putting, After
  <2>2. calls' \in [Writers -> {Idle} \cup Counting \cup Putting]
    BY <1>1, <1>5, <2>1 DEF IndexTypeOK
  <2>3. posted' \in [Docs -> SUBSET Texts]
    BY <1>1, <1>2, <1>5 DEF IndexTypeOK
  <2>4. ASSUME NEW k \in TreeKeys PROVE IsFiniteSet(Tree!Whole(k)')
    <3>1. IsFiniteSet(Tree!Whole(k))
      BY <1>1 DEF IndexTypeOK
    <3>2. IsFiniteSet(Tree!Whole(k) \cup Pieces(d, text, u))
      BY <1>7, <3>1, FS_Union
    <3> QED
      BY <1>8, <3>1, <3>2
  <2> QED
    BY <1>1, <1>5, <1>8, <2>2, <2>3, <2>4 DEF IndexTypeOK, StatTypeOK
<1>12. Entered'
  <2>1. \A v \in Writers : calls'[v] # Idle => calls'[v].doc \in allDocs'
    BY <1>4, <1>5, <1>6 DEF IndexInv, Entered, Idle, After
  <2>2. times[d] # 0
    BY <1>2, <1>10 DEF IndexInv, Entered
  <2>3. \A e \in Docs \ {d} : posted'[e] = posted[e]
    BY <1>1, <1>5 DEF IndexTypeOK
  <2> QED
    BY <1>5, <1>10, <2>1, <2>2, <2>3 DEF IndexInv, Entered
<1>13. Uncounted'
  <2>1. times[d] # 0
    BY <1>2, <1>10 DEF IndexInv, Entered
  <2> QED
    BY <1>5, <1>9, <2>1 DEF IndexInv, Uncounted
<1>14. CountedOnce'
  <2>1. ASSUME NEW e \in Docs, NEW x \in Texts, OnlyText(e, x)
        PROVE  OnlyText(e, x)'
    <3>1. e = d => x = text
      BY <1>4, <1>10, <2>1 DEF OnlyText
    <3>2. \A t \in Words : Held(e, t)' \subseteq Pieces(e, x, t)
      BY <1>9, <2>1, <3>1 DEF OnlyText
    <3>3. \A v \in Writers : PutsFor(v, e)' => calls'[v].text = x
      BY <1>10, <2>1 DEF OnlyText
    <3> QED
      BY <1>5, <2>1, <3>2, <3>3 DEF OnlyText, Pieces
  <2> QED
    BY <1>5, <2>1 DEF IndexInv, CountedOnce
<1>15. CountsAreKept'
  <2>1. ASSUME NEW e \in Docs, NEW x \in Texts, NEW t \in Words, Covered(e, x, t)
        PROVE  Covered(e, x, t)'
    <3>1. Held(e, t) \subseteq Held(e, t)'
      BY <1>9
    <3>2. CASE Pieces(e, x, t) \subseteq Held(e, t)
      BY <1>5, <2>1, <3>1, <3>2 DEF Covered, Pieces
    <3>3. CASE Owed(e, x, t)
      <4>1. PICK v \in Writers : PutsFor(v, e) /\ calls[v].text = x /\ t \in calls[v].left
        BY <3>3 DEF Owed
      <4>2. CASE v # w
        <5>1. PutsFor(v, e)' /\ calls'[v].text = x /\ t \in calls'[v].left
          BY <1>6, <4>1, <4>2 DEF PutsFor
        <5>2. Owed(e, x, t)'
          BY <5>1 DEF Owed
        <5> QED
          BY <1>5, <2>1, <5>2 DEF Covered
      <4>3. CASE v = w /\ t = u
        <5>1. e = d /\ x = text
          BY <1>4, <4>1, <4>3 DEF PutsFor
        <5>2. Pieces(e, x, t) \subseteq Held(e, t)'
          BY <1>9, <4>3, <5>1
        <5> QED
          BY <1>5, <2>1, <5>2 DEF Covered, Pieces
      <4>4. CASE v = w /\ t # u
        <5>1. e = d /\ x = text /\ t \in rest
          BY <1>4, <4>1, <4>4 DEF PutsFor
        <5>2. calls'[w] = [stage |-> "put", doc |-> d, text |-> text, left |-> rest]
          BY <1>6, <5>1 DEF After
        <5>3. PutsFor(w, e)' /\ calls'[w].text = x /\ t \in calls'[w].left
          BY <5>1, <5>2 DEF PutsFor
        <5>4. Owed(e, x, t)'
          BY <5>3 DEF Owed
        <5> QED
          BY <1>5, <2>1, <5>4 DEF Covered
      <4> QED
        BY <4>2, <4>3, <4>4
    <3> QED
      BY <2>1, <3>2, <3>3 DEF Covered
  <2> QED
    BY <1>5, <2>1 DEF IndexInv, CountsAreKept
<1> QED
  BY <1>11, <1>12, <1>13, <1>14, <1>15 DEF IndexInv

(* The steps of queries change nothing but the reader.                     *)
LEMMA QuerySteps ==
  ASSUME INext,
         ~ \E w \in Writers, d \in Docs, text \in Texts : IndexBegin(w, d, text),
         ~ \E w \in Writers : IndexCount(w) \/ IndexPut(w),
         ~ TreeStep
  PROVE  UNCHANGED <<known, tf, df, times, allDocs, places, calls, posted>>
<1>1. ASSUME NEW op, Evaluating(op)
      PROVE  UNCHANGED <<known, tf, df, times, allDocs, places, calls, posted>>
  BY <1>1 DEF Evaluating
<1>2. ASSUME NEW q \in Queries, QueryBegin(q)
      PROVE  UNCHANGED <<known, tf, df, times, allDocs, places, calls, posted>>
  BY <1>2 DEF QueryBegin
<1>3. \/ \E q \in Queries : QueryBegin(q)
      \/ EvalTerm \/ EvalPhraseWord \/ EvalPhraseMatch
      \/ EvalAnd \/ EvalOr \/ EvalNot \/ EvalNil
  BY DEF INext
<1> QED
  BY <1>1, <1>2, <1>3 DEF EvalTerm, EvalPhraseWord, EvalPhraseMatch, EvalAnd, EvalOr, EvalNot, EvalNil

LEMMA IndexInvIsInductive == IndexInv /\ [INext]_ivars => IndexInv'
<1> SUFFICES ASSUME IndexInv, [INext]_ivars PROVE IndexInv'
  OBVIOUS
<1>1. PlacesOK
  BY DEF IndexInv, IndexTypeOK
<1>2. CASE \E w \in Writers, d \in Docs, text \in Texts : IndexBegin(w, d, text)
  BY <1>2, IndexBeginKeeps
<1>3. CASE \E w \in Writers : IndexCount(w) \/ IndexPut(w)
  BY <1>3, IndexCountKeeps, IndexPutKeeps
<1>4. CASE TreeStep
  <2>1. PlacesOK' /\ \A k \in TreeKeys : Tree!Whole(k)' = Tree!Whole(k)
    BY <1>1, <1>4, MaintenanceKeeps DEF TreeStep
  <2> QED
    BY <1>4, <2>1, TreeStepKeeps DEF TreeStep
<1>5. ASSUME UNCHANGED <<known, tf, df, times, allDocs, places, calls, posted>>
      PROVE  IndexInv'
  <2>1. PlacesOK' /\ \A k \in TreeKeys : Tree!Whole(k)' = Tree!Whole(k)
    BY <1>1, <1>5, SameTree
  <2> QED
    BY <1>5, <2>1, TreeStepKeeps
<1>6. CASE UNCHANGED ivars
  BY <1>5, <1>6 DEF ivars
<1> QED
  BY <1>2, <1>3, <1>4, <1>5, <1>6, QuerySteps

LEMMA IndexInvSuffices == IndexInv => PostingsMatchCounts
<1> SUFFICES ASSUME IndexInv, NEW d \in Docs, posted[d] # {},
                    \A w \in Writers : calls[w] # Idle => calls[w].doc # d
             PROVE  /\ d \in allDocs \cap known
                    /\ \A t \in Words :
                         /\ tf[d][t] <= Cardinality(Held(d, t))
                         /\ times[d] = 1 => tf[d][t] = Cardinality(Held(d, t))
  BY DEF PostingsMatchCounts, Held, KeyOf
<1>1. d \in allDocs \cap known
  BY DEF IndexInv, Entered
<1>2. \A w \in Writers : ~PutsFor(w, d)
  BY DEF PutsFor, Idle
<1>3. ASSUME NEW t \in Words
      PROVE  /\ tf[d][t] <= Cardinality(Held(d, t))
             /\ times[d] = 1 => tf[d][t] = Cardinality(Held(d, t))
  <2>1. tf[d][t] \in Nat
    BY DEF IndexInv, IndexTypeOK, StatTypeOK
  <2>2. IsFiniteSet(Held(d, t))
    <3>1. IsFiniteSet(Tree!Whole(KeyOf(d, t)))
      BY KeysAreKeys DEF IndexInv, IndexTypeOK
    <3>2. Held(d, t) \subseteq Tree!Whole(KeyOf(d, t))
      BY DEF Held
    <3> QED
      BY <3>1, <3>2, FS_Subset
  <2>3. Cardinality(Held(d, t)) \in Nat
    BY <2>2, FS_CardinalityType
  <2>4. tf[d][t] <= Cardinality(Held(d, t))
    <3>1. CASE tf[d][t] = 0
      BY <2>3, <3>1
    <3>2. CASE tf[d][t] > 0
      <4>1. PICK text \in Texts : Covered(d, text, t)
        BY <3>2 DEF IndexInv, CountsAreKept
      <4>2. Pieces(d, text, t) \subseteq Held(d, t)
        BY <1>2, <4>1 DEF Covered, Owed
      <4>3. Cardinality(Pieces(d, text, t)) <= Cardinality(Held(d, t))
        BY <2>2, <4>2, FS_Subset
      <4> QED
        BY <4>1, <4>3, PiecesCount DEF Covered
    <3> QED
      BY <2>1, <3>1, <3>2
  <2>5. ASSUME times[d] = 1
        PROVE  Cardinality(Held(d, t)) <= tf[d][t]
    <3>1. PICK text \in Texts : OnlyText(d, text)
      BY <2>5 DEF IndexInv, CountedOnce
    <3>2. Held(d, t) \subseteq Pieces(d, text, t) /\ tf[d][t] = Cardinality(Where(text, t))
      BY <3>1 DEF OnlyText
    <3>3. IsFiniteSet(Pieces(d, text, t)) /\ Cardinality(Pieces(d, text, t)) = tf[d][t]
      BY <3>2, PiecesCount
    <3> QED
      BY <3>2, <3>3, FS_Subset
  <2> QED
    BY <2>1, <2>3, <2>4, <2>5
<1> QED
  BY <1>1, <1>3

(* In every behaviour of the index, whoever indexes what at once and       *)
(* however the tree is flushed and compacted meanwhile: once the calls for *)
(* a document have returned, it is in the bitmap of all documents and      *)
(* counted, the tree has a position for each occurrence that is counted,   *)
(* and no other if the document was indexed once.                          *)
THEOREM PostingsAgree == ISpec => []PostingsMatchCounts
<1>1. ISpec => []IndexInv
  BY InitKeeps, IndexInvIsInductive, PTL DEF ISpec
<1> QED
  BY <1>1, IndexInvSuffices, PTL

-----------------------------------------------------------------------------
(* The index implements Statistics: among its steps, those that change the *)
(* counts count one text of one document, and nothing else touches them;   *)
(* so what is proved of the counts holds beside postings and queries.      *)
THEOREM IndexCountsOnly == ISpec => StatSpec
<1>1. IInit => StatInit
  BY DEF IInit
<1>2. IndexInv /\ [INext]_ivars => [StatNext]_svars
  <2> SUFFICES ASSUME IndexInv, [INext]_ivars PROVE [StatNext]_svars
    OBVIOUS
  <2>1. CASE \E w \in Writers, d \in Docs, text \in Texts : IndexBegin(w, d, text)
    BY <2>1 DEF IndexBegin, svars
  <2>2. ASSUME NEW w \in Writers, IndexCount(w)
        PROVE  StatNext
    <3>1. calls[w].doc \in Docs /\ calls[w].text \in Texts
      BY <2>2, CallFields DEF IndexInv, IndexCount, Counting
    <3> QED
      BY <2>2, <3>1 DEF IndexCount, StatNext
  <2>3. ASSUME NEW w \in Writers, IndexPut(w)
        PROVE  UNCHANGED svars
    BY <2>3 DEF IndexPut, svars
  <2>4. CASE TreeStep
    BY <2>4 DEF TreeStep, svars
  <2>5. CASE UNCHANGED ivars
    BY <2>5 DEF ivars, svars
  <2> QED
    BY <2>1, <2>2, <2>3, <2>4, <2>5, QuerySteps DEF svars
<1>3. ISpec => []IndexInv
  BY InitKeeps, IndexInvIsInductive, PTL DEF ISpec
<1> QED
  BY <1>1, <1>2, <1>3, PTL DEF ISpec, StatSpec

(* In every behaviour of the index, with its postings and queries, a       *)
(* term's frequency covers the documents that have it.                     *)
THEOREM IndexFrequenciesCover == ISpec => []DfCoversDocs
  BY IndexCountsOnly, FrequenciesCover

-----------------------------------------------------------------------------
(* Answers.  What the tree holds is just what has been put; so the list of *)
(* postings of a term tells all or some of the positions in the documents  *)
(* whose calls have returned, and each instruction of a query turns values *)
(* between the bounds of its operands into one between its own.            *)

(* What is in the tree is of the texts whose calls have returned, and what *)
(* the calls in progress have put.                                         *)
Posts(d, t, c) ==
  \/ \E x \in posted[d] : c \in Pieces(d, x, t)
  \/ \E w \in Writers : /\ PutsFor(w, d) /\ t \notin calls[w].left
                        /\ c \in Pieces(d, calls[w].text, t)

HeldIsPosted ==
  \A d \in Docs, t \in Words : \A c : c \in Held(d, t) <=> Posts(d, t, c)

LEMMA HeldFromInit == IInit => HeldIsPosted
<1> SUFFICES ASSUME IInit PROVE HeldIsPosted
  OBVIOUS
<1>1. /\ \A d \in Docs : posted[d] = {}
      /\ \A w \in Writers : calls[w] = Idle
      /\ places = <<Tree!EmptyPlace>> /\ Tree!EmptyPlace = [k \in TreeKeys |-> {}]
  BY DEF IInit, Tree!Init, Tree!EmptyPlace, TreeKeys
<1>2. \A k \in TreeKeys : Tree!Whole(k) = {}
  BY <1>1 DEF Tree!Whole
<1>3. \A d \in Docs, t \in Words : Held(d, t) = {}
  BY <1>2, KeysAreKeys DEF Held
<1>4. \A d \in Docs, w \in Writers : ~PutsFor(w, d)
  BY <1>1 DEF PutsFor, Idle
<1> QED
  BY <1>1, <1>3, <1>4 DEF HeldIsPosted, Posts

(* Where neither the tree nor what is posted changes.                      *)
LEMMA HeldStays ==
  ASSUME HeldIsPosted, UNCHANGED <<posted, calls>>,
         \A k \in TreeKeys : Tree!Whole(k)' = Tree!Whole(k)
  PROVE  HeldIsPosted'
<1>1. \A d \in Docs, t \in Words : Held(d, t)' = Held(d, t)
  BY KeysAreKeys DEF Held
<1>2. \A d \in Docs, t \in Words : \A c : Posts(d, t, c)' <=> Posts(d, t, c)
  BY DEF Posts, PutsFor, Pieces
<1> QED
  BY <1>1, <1>2 DEF HeldIsPosted

(* A call that begins has put nothing, and none that puts is concerned.    *)
LEMMA HeldBegins ==
  ASSUME IndexTypeOK, HeldIsPosted, NEW w \in Writers, NEW d \in Docs, NEW text \in Texts,
         IndexBegin(w, d, text)
  PROVE  HeldIsPosted'
<1>1. /\ calls[w] = Idle
      /\ calls'[w] = [stage |-> "count", doc |-> d, text |-> text]
      /\ \A v \in Writers \ {w} : calls'[v] = calls[v]
      /\ UNCHANGED <<places, posted>>
  BY DEF IndexBegin, IndexTypeOK
<1>2. \A e \in Docs, t \in Words : Held(e, t)' = Held(e, t)
  BY <1>1, SameTree
<1>3. \A v \in Writers, e \in Docs : /\ PutsFor(v, e)' <=> PutsFor(v, e)
                                     /\ PutsFor(v, e) => calls'[v] = calls[v]
  BY <1>1 DEF PutsFor, Idle
<1>4. \A e \in Docs, t \in Words : \A c : Posts(e, t, c)' <=> Posts(e, t, c)
  BY <1>1, <1>3 DEF Posts, Pieces
<1> QED
  BY <1>2, <1>4 DEF HeldIsPosted

(* A call that has only begun to put has put nothing.                      *)
LEMMA HeldCounts ==
  ASSUME IndexTypeOK, HeldIsPosted, NEW w \in Writers, IndexCount(w)
  PROVE  HeldIsPosted'
<1>1. PICK d \in Docs, text \in Texts :
        calls[w].stage = "count" /\ calls[w].doc = d /\ calls[w].text = text
  BY CallFields DEF IndexCount, Counting
<1>2. /\ calls' = [calls EXCEPT ![w] =
                     IF Terms(text) = {} THEN Idle
                     ELSE [stage |-> "put", doc |-> d, text |-> text, left |-> Terms(text)]]
      /\ posted' = IF Terms(text) = {} THEN [posted EXCEPT ![d] = @ \cup {text}] ELSE posted
      /\ UNCHANGED places
  BY <1>1 DEF IndexCount, GoOn
<1>3. \A e \in Docs, t \in Words : Held(e, t)' = Held(e, t)
  BY <1>2, SameTree
<1>4. \A t \in Words \ Terms(text) : Pieces(d, text, t) = {}
  BY <1>1, TermsAreWords DEF Pieces, PositionSet
<1>5. /\ \A v \in Writers \ {w} : calls'[v] = calls[v]
      /\ calls'[w] = IF Terms(text) = {} THEN Idle
                     ELSE [stage |-> "put", doc |-> d, text |-> text, left |-> Terms(text)]
  BY <1>2 DEF IndexTypeOK
<1>6. \A e \in Docs : ~PutsFor(w, e)
  BY <1>1 DEF PutsFor
<1>7. \A e \in Docs : PutsFor(w, e)' => e = d /\ calls'[w].text = text
                                        /\ calls'[w].left = Terms(text)
  BY <1>5 DEF PutsFor, Idle
<1>8. \A v \in Writers \ {w}, e \in Docs : PutsFor(v, e)' <=> PutsFor(v, e)
  BY <1>5 DEF PutsFor
<1>9. \A e \in Docs : \/ posted'[e] = posted[e]
                      \/ e = d /\ Terms(text) = {} /\ posted'[e] = posted[e] \cup {text}
  BY <1>2 DEF IndexTypeOK
<1>10. ASSUME NEW e \in Docs, NEW t \in Words, NEW c
       PROVE  Posts(e, t, c)' <=> Posts(e, t, c)
  <2>1. Posts(e, t, c) => Posts(e, t, c)'
    BY <1>5, <1>6, <1>8, <1>9 DEF Posts, Pieces
  <2>2. ASSUME Posts(e, t, c)' PROVE Posts(e, t, c)
    <3>1. CASE \E x \in posted'[e] : c \in Pieces(e, x, t)
      BY <1>4, <1>9, <3>1 DEF Posts
    <3>2. ASSUME NEW v \in Writers, PutsFor(v, e)', t \notin calls'[v].left,
                 c \in Pieces(e, calls'[v].text, t)
          PROVE  Posts(e, t, c)
      <4>1. v # w
        BY <1>4, <1>7, <3>2
      <4> QED
        BY <1>5, <1>8, <3>2, <4>1 DEF Posts
    <3> QED
      BY <2>2, <3>1, <3>2 DEF Posts, Pieces
  <2> QED
    BY <2>1, <2>2
<1> QED
  BY <1>3, <1>10 DEF HeldIsPosted

(* What a put adds to the tree is what its call has put since.  A call     *)
(* that returns leaves the pieces of its text, all of which it has put.    *)
LEMMA HeldPuts ==
  ASSUME IndexTypeOK, HeldIsPosted, NEW w \in Writers, IndexPut(w)
  PROVE  HeldIsPosted'
<1>1. PICK d \in Docs, text \in Texts, left \in SUBSET Words :
        \E u \in left : PutStep(w, d, text, left, u)
  BY PutIs
<1>2. PICK u \in left : PutStep(w, d, text, left, u)
  BY <1>1
<1>3. calls[w] = [stage |-> "put", doc |-> d, text |-> text, left |-> left]
  BY <1>2 DEF PutStep
<1>4. calls' = [calls EXCEPT ![w] = After(d, text, left \ {u})]
  BY <1>2 DEF PutStep
<1>5. /\ \A v \in Writers \ {w} : calls'[v] = calls[v]
      /\ calls'[w] = After(d, text, left \ {u})
  BY <1>4 DEF IndexTypeOK
<1>6. \A e \in Docs : posted'[e] = IF e = d /\ left \ {u} = {} THEN posted[e] \cup {text}
                                   ELSE posted[e]
  BY <1>2 DEF PutStep, IndexTypeOK
<1>7. \A e \in Docs, t \in Words :
        Held(e, t)' = IF e = d /\ t = u THEN Held(e, t) \cup Pieces(d, text, u) ELSE Held(e, t)
  BY <1>2 DEF PutStep
<1>8. /\ \A e \in Docs : PutsFor(w, e) <=> e = d
      /\ \A e \in Docs : PutsFor(w, e)' <=> e = d /\ left \ {u} # {}
      /\ left \ {u} # {} => calls'[w].text = text /\ calls'[w].left = left \ {u}
      /\ calls[w].text = text /\ calls[w].left = left
      /\ \A v \in Writers \ {w}, e \in Docs : PutsFor(v, e)' <=> PutsFor(v, e)
  BY <1>3, <1>5 DEF PutsFor, After, Idle
<1>9. ASSUME NEW e \in Docs, NEW t \in Words, NEW c, Posts(e, t, c)'
      PROVE  Posts(e, t, c) \/ (e = d /\ t = u /\ c \in Pieces(d, text, u))
  <2> SUFFICES ASSUME ~Posts(e, t, c)
               PROVE  e = d /\ t = u /\ c \in Pieces(d, text, u)
    OBVIOUS
  <2>1. ASSUME e = d, t \notin left \ {u}, c \in Pieces(d, text, t)
        PROVE  t = u
    BY <1>8, <2>1 DEF Posts
  <2>2. ASSUME NEW x \in posted'[e], c \in Pieces(e, x, t)
        PROVE  e = d /\ t = u /\ c \in Pieces(d, text, u)
    <3>1. x \notin posted[e]
      BY <2>2 DEF Posts
    <3>2. e = d /\ left \ {u} = {} /\ x = text
      BY <1>6, <2>2, <3>1
    <3> QED
      BY <2>1, <2>2, <3>2
  <2>3. ASSUME NEW v \in Writers, PutsFor(v, e)', t \notin calls'[v].left,
               c \in Pieces(e, calls'[v].text, t)
        PROVE  e = d /\ t = u /\ c \in Pieces(d, text, u)
    <3>1. v = w
      BY <1>5, <1>8, <2>3 DEF Posts
    <3>2. e = d /\ t \notin left \ {u} /\ c \in Pieces(d, text, t)
      BY <1>8, <2>3, <3>1
    <3> QED
      BY <2>1, <3>2
  <2> QED
    BY <1>9, <2>2, <2>3 DEF Posts, Pieces
<1>10. ASSUME NEW e \in Docs, NEW t \in Words, NEW c,
              Posts(e, t, c) \/ (e = d /\ t = u /\ c \in Pieces(d, text, u))
       PROVE  Posts(e, t, c)'
  <2>1. ASSUME e = d, t \notin left \ {u}, c \in Pieces(d, text, t)
        PROVE  Posts(e, t, c)'
    <3>1. CASE left \ {u} = {}
      BY <1>6, <2>1, <3>1 DEF Posts, Pieces
    <3>2. CASE left \ {u} # {}
      BY <1>8, <2>1, <3>2 DEF Posts, Pieces
    <3> QED
      BY <3>1, <3>2
  <2>2. ASSUME NEW x \in posted[e], c \in Pieces(e, x, t)
        PROVE  Posts(e, t, c)'
    BY <1>6, <2>2 DEF Posts, Pieces
  <2>3. ASSUME NEW v \in Writers, PutsFor(v, e), t \notin calls[v].left,
               c \in Pieces(e, calls[v].text, t)
        PROVE  Posts(e, t, c)'
    <3>1. CASE v = w
      BY <1>8, <2>1, <2>3, <3>1
    <3>2. CASE v # w
      BY <1>5, <1>8, <2>3, <3>2 DEF Posts, Pieces
    <3> QED
      BY <3>1, <3>2
  <2> QED
    BY <1>10, <2>1, <2>2, <2>3 DEF Posts
<1> QED
  BY <1>7, <1>9, <1>10 DEF HeldIsPosted

(* The tree holds nothing else, whatever is flushed and compacted.         *)
LEMMA HeldIsInductive == IndexTypeOK /\ HeldIsPosted /\ [INext]_ivars => HeldIsPosted'
<1> SUFFICES ASSUME IndexTypeOK, HeldIsPosted, [INext]_ivars PROVE HeldIsPosted'
  OBVIOUS
<1>1. CASE \E w \in Writers, d \in Docs, text \in Texts : IndexBegin(w, d, text)
  BY <1>1, HeldBegins
<1>2. CASE \E w \in Writers : IndexCount(w) \/ IndexPut(w)
  BY <1>2, HeldCounts, HeldPuts
<1>3. CASE TreeStep
  <2>1. \A k \in TreeKeys : Tree!Whole(k)' = Tree!Whole(k)
    BY <1>3, MaintenanceKeeps DEF TreeStep, IndexTypeOK
  <2> QED
    BY <1>3, <2>1, HeldStays DEF TreeStep
<1>4. ASSUME UNCHANGED <<places, calls, posted>>
      PROVE  HeldIsPosted'
  BY <1>4, SameTree, HeldStays
<1>5. CASE UNCHANGED ivars
  BY <1>4, <1>5 DEF ivars
<1> QED
  BY <1>1, <1>2, <1>3, <1>4, <1>5, QuerySteps

-----------------------------------------------------------------------------
(* What a lookup finds.                                                    *)

(* The join of ascending lists has the elements of all; if all but one are *)
(* empty, it is ascending.                                                 *)
JoinOf(s, F, n) ==
  /\ s \in Seq(Nat)
  /\ ToSet(s) = UNION {F[k] : k \in 1..n}
  /\ (\A j, k \in 1..n : F[j] # {} /\ F[k] # {} => j = k) => Increasing(s)

LEMMA Concatenated ==
  ASSUME NEW s \in Seq(Nat), NEW t \in Seq(Nat)
  PROVE  /\ ToSet(s \o t) = ToSet(s) \cup ToSet(t)
         /\ ToSet(t) = {} => s \o t = s
         /\ ToSet(s) = {} => s \o t = t
<1>1. PICK m \in Nat, n \in Nat : m = Len(s) /\ n = Len(t) /\ DOMAIN s = 1..m /\ DOMAIN t = 1..n
  OBVIOUS
<1>2. PICK r : r = s \o t
  OBVIOUS
<1>3. /\ r \in Seq(Nat) /\ DOMAIN r = 1..(m + n) /\ Len(r) = m + n
      /\ \A i \in 1..m : r[i] = s[i]
      /\ \A i \in 1..n : r[m + i] = t[i]
  BY <1>1, <1>2
<1>4. \A i \in 1..(m + n) : i \in 1..m \/ (i - m \in 1..n /\ m + (i - m) = i)
  OBVIOUS
<1>5. ToSet(r) \subseteq ToSet(s) \cup ToSet(t)
  <2> SUFFICES ASSUME NEW i \in 1..(m + n) PROVE r[i] \in ToSet(s) \cup ToSet(t)
    BY <1>3 DEF ToSet
  <2>1. CASE i \in 1..m
    BY <1>1, <1>3, <2>1 DEF ToSet
  <2>2. CASE i \notin 1..m
    <3>1. PICK j \in 1..n : i = m + j
      BY <1>4, <2>2
    <3> QED
      BY <1>1, <1>3, <3>1 DEF ToSet
  <2> QED
    BY <2>1, <2>2
<1>6. ToSet(s) \subseteq ToSet(r)
  <2> SUFFICES ASSUME NEW i \in 1..m PROVE s[i] \in ToSet(r)
    BY <1>1 DEF ToSet
  <2>1. i \in 1..(m + n)
    OBVIOUS
  <2> QED
    BY <1>3, <2>1 DEF ToSet
<1>7. ToSet(t) \subseteq ToSet(r)
  <2> SUFFICES ASSUME NEW i \in 1..n PROVE t[i] \in ToSet(r)
    BY <1>1 DEF ToSet
  <2>1. m + i \in 1..(m + n)
    OBVIOUS
  <2> QED
    BY <1>3, <2>1 DEF ToSet
<1>8. ToSet(t) = {} => r = s
  <2>1. ToSet(t) = {} => t = <<>>
    BY EmptyList
  <2> QED
    BY <1>2, <2>1
<1>9. ToSet(s) = {} => r = t
  <2>1. ToSet(s) = {} => s = <<>>
    BY EmptyList
  <2> QED
    BY <1>2, <2>1
<1> QED
  BY <1>2, <1>5, <1>6, <1>7, <1>8, <1>9

LEMMA JoinIs ==
  ASSUME NEW n \in Nat, NEW F \in [1..n -> SUBSET Nat], \A k \in 1..n : IsFiniteSet(F[k])
  PROVE  JoinOf(FlattenSeq([k \in 1..n |-> Ascending(F[k])]), F, n)
<1>1. PICK ls : ls = [k \in 1..n |-> Ascending(F[k])]
  OBVIOUS
<1>2. ASSUME NEW k \in 1..n
      PROVE  ls[k] \in Seq(Nat) /\ ToSet(ls[k]) = F[k] /\ Increasing(ls[k])
  <2>1. F[k] \in SUBSET Int /\ IsFiniteSet(F[k]) /\ F[k] \subseteq Nat
    OBVIOUS
  <2>2. /\ Cardinality(F[k]) \in Nat
        /\ Ascending(F[k]) \in [1..Cardinality(F[k]) -> F[k]]
        /\ ToSet(Ascending(F[k])) = F[k]
        /\ Increasing(Ascending(F[k]))
    BY <2>1, AscendingIs
  <2>3. PICK c \in Nat : c = Cardinality(F[k])
    BY <2>2
  <2>4. Ascending(F[k]) \in [1..c -> Nat]
    BY <2>1, <2>2, <2>3
  <2>5. Ascending(F[k]) \in Seq(Nat)
    BY <2>4
  <2> QED
    BY <1>1, <2>2, <2>5
<1>3. ls \in Seq(Seq(Nat)) /\ Len(ls) = n
  BY <1>1, <1>2
<1>4. PICK f : Joins(f, ls, Nat) /\ FlattenSeq(ls) = f[n]
  BY <1>3, FlattenJoins
<1>5. /\ f[0] = <<>>
      /\ \A i \in 0..n : f[i] \in Seq(Nat)
      /\ \A i \in 1..n : f[i] = f[i - 1] \o ls[i]
  BY <1>3, <1>4 DEF Joins
<1> DEFINE D == 0..n
           mu == [i \in D |-> i]
           Good == {i \in D : JoinOf(f[i], F, i)}
<1>6. ASSUME NEW i \in D, \A j \in D : mu[j] < mu[i] => j \in Good
      PROVE  i \in Good
  <2>1. CASE i = 0
    <3>1. f[i] = <<>> /\ 1..i = {}
      BY <1>5, <2>1
    <3>2. JoinOf(<<>>, F, 0)
      BY DEF JoinOf, ToSet, Increasing
    <3> QED
      BY <2>1, <3>1, <3>2
  <2>2. CASE i # 0
    <3>1. i \in 1..n /\ i - 1 \in D /\ i - 1 < i
      BY <2>2
    <3>2. mu[i - 1] < mu[i]
      BY <3>1
    <3>3. JoinOf(f[i - 1], F, i - 1)
      <4> HIDE DEF mu, D
      <4> QED
        BY <1>6, <3>1, <3>2
    <3>4. PICK s \in Seq(Nat), t \in Seq(Nat) : s = f[i - 1] /\ t = ls[i]
      BY <1>2, <1>5, <3>1
    <3>5. f[i] = s \o t /\ ToSet(t) = F[i] /\ Increasing(t)
      BY <1>2, <1>5, <3>1, <3>4
    <3>6. ToSet(s) = UNION {F[k] : k \in 1..(i - 1)}
      BY <3>3, <3>4 DEF JoinOf
    <3>7. 1..i = 1..(i - 1) \cup {i}
      BY <3>1
    <3>8. ToSet(s \o t) = UNION {F[k] : k \in 1..i}
      <4>1. ToSet(s \o t) = ToSet(s) \cup F[i]
        BY <3>5, Concatenated
      <4>2. UNION {F[k] : k \in 1..i} = (UNION {F[k] : k \in 1..(i - 1)}) \cup F[i]
        BY <3>7
      <4> QED
        BY <3>6, <4>1, <4>2
    <3>9. ASSUME \A j, k \in 1..i : F[j] # {} /\ F[k] # {} => j = k
          PROVE  Increasing(s \o t)
      <4>1. Increasing(s)
        BY <3>3, <3>4, <3>7, <3>9 DEF JoinOf
      <4>2. CASE ToSet(t) = {}
        BY <4>1, <4>2, Concatenated
      <4>3. CASE ToSet(t) # {}
        <5>1. \A k \in 1..(i - 1) : k # i /\ F[k] = {}
          BY <3>1, <3>5, <3>7, <3>9, <4>3
        <5>2. ToSet(s) = {}
          BY <3>6, <5>1
        <5> QED
          BY <3>5, <5>2, Concatenated
      <4> QED
        BY <4>2, <4>3
    <3> QED
      BY <1>5, <3>5, <3>8, <3>9 DEF JoinOf
  <2> QED
    BY <2>1, <2>2
<1>7. D = Good
  <2>1. mu \in [D -> Nat] /\ Good \subseteq D
    OBVIOUS
  <2> HIDE DEF D, mu, Good
  <2>2. Passes(D, mu, Good)
    BY <1>6, <2>1 DEF Passes
  <2> QED
    BY <2>2, MeasureInduction
<1> QED
  BY <1>1, <1>4, <1>7

(* The newest version of a key is some of what the tree has, and all if it *)
(* is in one place.                                                        *)
LEMMA NewestIs ==
  ASSUME PlacesOK, NEW k \in TreeKeys
  PROVE  /\ Tree!Newest(k) \subseteq Tree!Whole(k)
         /\ Cardinality(Tree!PlacesOf(k)) <= 1 => Tree!Newest(k) = Tree!Whole(k)
<1>1. Len(places) \in Nat /\ DOMAIN places = 1..Len(places)
  BY DEF PlacesOK
<1>2. PICK P : P = Tree!PlacesOf(k) /\ P \subseteq DOMAIN places
               /\ \A i \in DOMAIN places : i \notin P => places[i][k] = {}
  BY DEF Tree!PlacesOf
<1>3. P \in SUBSET Nat /\ IsFiniteSet(P)
  <2>1. PICK n \in Nat : n = Len(places)
    BY <1>1
  <2>2. IsFiniteSet(1..n)
    BY FS_Interval
  <2> QED
    BY <1>1, <1>2, <2>1, <2>2, FS_Subset
<1>4. CASE P = {}
  <2>1. Tree!Newest(k) = {}
    BY <1>2, <1>4 DEF Tree!Newest
  <2>2. Tree!Whole(k) = {}
    BY <1>2, <1>4 DEF Tree!Whole
  <2> QED
    BY <2>1, <2>2
<1>5. CASE P # {}
  <2>1. \E i \in P : \A j \in P : i <= j
    BY <1>3, <1>5, LeastNat
  <2>2. PICK i \in P : i = CHOOSE x \in P : \A j \in P : x <= j
    BY <2>1
  <2>3. Tree!Newest(k) = places[i][k]
    BY <1>2, <1>5, <2>2 DEF Tree!Newest
  <2>4. places[i][k] \subseteq Tree!Whole(k)
    BY <1>2 DEF Tree!Whole
  <2>5. ASSUME Cardinality(P) <= 1
        PROVE  places[i][k] = Tree!Whole(k)
    <3>1. Cardinality(P \ {i}) = Cardinality(P) - 1 /\ IsFiniteSet(P \ {i})
      BY <1>3, FS_RemoveElement
    <3>2. Cardinality(P) \in Nat /\ Cardinality(P \ {i}) \in Nat
      BY <1>3, <3>1, FS_CardinalityType
    <3>3. Cardinality(P \ {i}) = 0
      BY <2>5, <3>1, <3>2
    <3>4. P \ {i} = {}
      BY <3>1, <3>3, FS_EmptySet
    <3>5. \A j \in DOMAIN places : j = i \/ places[j][k] = {}
      BY <1>2, <3>4
    <3> QED
      BY <1>2, <3>5 DEF Tree!Whole
  <2> QED
    BY <1>2, <2>3, <2>4, <2>5
<1> QED
  BY <1>4, <1>5

(* A call in progress beside a query is of a document that is not settled. *)
CallsUnsettled ==
  reader # NoReader => \A w \in Writers : calls[w] # Idle => calls[w].doc \in reader.unsettled

(* Of a settled document the tree has just the positions of its texts.     *)
LEMMA SettledPositions ==
  ASSUME HeldIsPosted, CallsUnsettled, reader # NoReader,
         NEW d \in Settled, NEW t \in Words
  PROVE  {c[2] : c \in Held(d, t)} = Positions(d, t)
<1>1. d \in Docs /\ \A w \in Writers : ~PutsFor(w, d)
  <2>1. d \in Docs /\ d \notin reader.unsettled
    BY DEF Settled
  <2>2. \A w \in Writers : PutsFor(w, d) => calls[w] # Idle /\ calls[w].doc = d
    BY DEF PutsFor, Idle
  <2> QED
    BY <2>1, <2>2 DEF CallsUnsettled
<1>2. \A c : c \in Held(d, t) <=> \E x \in posted[d] : c \in Pieces(d, x, t)
  BY <1>1 DEF HeldIsPosted, Posts
<1>3. ASSUME NEW c \in Held(d, t)
      PROVE  c[2] \in Positions(d, t)
  <2>1. PICK x \in posted[d] : c \in Pieces(d, x, t)
    BY <1>2
  <2> QED
    BY <2>1 DEF Pieces, Positions
<1>4. ASSUME NEW p \in Positions(d, t)
      PROVE  \E c \in Held(d, t) : p = c[2]
  <2>1. PICK x \in posted[d] : p \in PositionSet(x, t)
    BY DEF Positions
  <2>2. <<d % BlockSize, p>> \in Pieces(d, x, t)
    BY <2>1 DEF Pieces
  <2>3. <<d % BlockSize, p>> \in Held(d, t) /\ <<d % BlockSize, p>>[2] = p
    BY <1>2, <2>2
  <2> QED
    BY <2>3
<1> QED
  BY <1>3, <1>4

(* The postings of a document that the newest version of a key has.        *)
PlacedOnce(d, t) == Cardinality(Tree!PlacesOf(KeyOf(d, t))) <= 1

LEMMA PostingsAre ==
  ASSUME IndexTypeOK, NEW d \in Docs, NEW t \in Words
  PROVE  /\ PostingsOf(t, d) \in SUBSET Nat
         /\ IsFiniteSet(PostingsOf(t, d))
         /\ PostingsOf(t, d) \subseteq {c[2] : c \in Held(d, t)}
         /\ PlacedOnce(d, t) => PostingsOf(t, d) = {c[2] : c \in Held(d, t)}
<1>1. PICK k \in TreeKeys : k = KeyOf(d, t) /\ k = <<t, d \div BlockSize>>
  BY KeysAreKeys DEF KeyOf
<1>2. PlacesOK /\ IsFiniteSet(Tree!Whole(k))
  BY DEF IndexTypeOK
<1>3. PICK N1, W : N1 = Tree!Newest(k) /\ W = Tree!Whole(k)
  OBVIOUS
<1>4. N1 \subseteq W /\ (PlacedOnce(d, t) => N1 = W)
  BY <1>1, <1>2, <1>3, NewestIs DEF PlacedOnce
<1>5. W \subseteq Cells
  <2>1. \A i \in DOMAIN places : places[i][k] \subseteq Cells
    <3>1. \A i \in DOMAIN places : places[i] \in [TreeKeys -> SUBSET Cells]
      BY <1>2 DEF PlacesOK
    <3> QED
      BY <3>1
  <2> QED
    BY <1>3, <2>1 DEF Tree!Whole
<1>6. PICK b : b = d % BlockSize
  OBVIOUS
<1>7. PICK ys : ys = {y \in N1 : y[1] = b}
  OBVIOUS
<1>8. PostingsOf(t, d) = {x[2] : x \in ys}
  BY <1>1, <1>3, <1>6, <1>7 DEF PostingsOf
<1>9. Held(d, t) = {x \in W : x[1] = b}
  BY <1>1, <1>3, <1>6 DEF Held
<1>10. ys \subseteq Held(d, t) /\ (PlacedOnce(d, t) => ys = Held(d, t))
  BY <1>4, <1>7, <1>9
<1>11. PostingsOf(t, d) \subseteq Nat
  BY <1>4, <1>5, <1>7, <1>8 DEF Cells
<1>12. IsFiniteSet(PostingsOf(t, d))
  <2>1. IsFiniteSet(ys)
    BY <1>2, <1>3, <1>4, <1>7, FS_Subset
  <2>2. PICK f : f = [x \in ys |-> x[2]]
    OBVIOUS
  <2>3. f \in Surjection(ys, PostingsOf(t, d))
    BY <1>8, <2>2 DEF Surjection
  <2> QED
    BY <2>1, <2>3, FS_Surjection
<1> QED
  BY <1>8, <1>10, <1>11, <1>12

(* Only documents that have been entered are in the tree.                  *)
LEMMA HeldInDocs ==
  ASSUME IndexInv, NEW d \in Docs, NEW t \in Words, Held(d, t) # {}
  PROVE  d \in allDocs
  BY DEF IndexInv, Uncounted, Entered

(* What a list of postings of a word tells of the settled documents.       *)
Listings == UNION {[S -> Seq(Nat)] : S \in SUBSET Docs}

OneCover(d, w) ==
  \A m, n \in DOMAIN Covers[Stem[w]] :
    Positions(d, Covers[Stem[w]][m]) # {} /\ Positions(d, Covers[Stem[w]][n]) # {} => m = n

Finds(list, w) ==
  /\ list \in Listings /\ DOMAIN list \subseteq allDocs
  /\ \A d \in DOMAIN list : list[d] # <<>>
  /\ \A d \in DOMAIN list \cap Settled : ToSet(list[d]) \subseteq Found(d, w)

FindsAll(list, w) ==
  \A d \in Settled : Found(d, w) # {} =>
    /\ d \in DOMAIN list /\ ToSet(list[d]) = Found(d, w)
    /\ OneCover(d, w) => Increasing(list[d])

(* The list of a document in a lookup joins those of the terms covered.    *)
LEMMA LookupLists ==
  ASSUME IndexTypeOK, NEW t \in Words, NEW d \in Docs
  PROVE  /\ d \in DOMAIN LookupPostings(t)
              <=> \E k \in 1..Len(Covers[t]) : PostingsOf(Covers[t][k], d) # {}
         /\ d \in DOMAIN LookupPostings(t) =>
              JoinOf(LookupPostings(t)[d], [k \in 1..Len(Covers[t]) |-> PostingsOf(Covers[t][k], d)],
                     Len(Covers[t]))
<1>1. PICK cs \in Seq(Words), n \in Nat : cs = Covers[t] /\ n = Len(cs) /\ DOMAIN cs = 1..n
  BY TermsCoverThemselves
<1>2. PICK F : F = [k \in 1..n |-> PostingsOf(cs[k], d)]
  OBVIOUS
<1>3. \A k \in 1..n : cs[k] \in Words /\ F[k] = PostingsOf(cs[k], d)
  BY <1>1, <1>2
<1>4. \A k \in 1..n : F[k] \in SUBSET Nat /\ IsFiniteSet(F[k])
  BY <1>3, PostingsAre
<1>5. F \in [1..n -> SUBSET Nat]
  BY <1>2, <1>4
<1>6. JoinOf(FlattenSeq([k \in 1..n |-> Ascending(F[k])]), F, n)
  BY <1>4, <1>5, JoinIs
<1>7. [k \in 1..n |-> Ascending(F[k])] = [k \in DOMAIN cs |-> Ascending(PostingsOf(cs[k], d))]
  BY <1>1, <1>3
<1>8. PICK hits : hits = {e \in Docs : \E u \in ToSet(cs) : PostingsOf(u, e) # {}}
  OBVIOUS
<1>9. LookupPostings(t) = [e \in hits |-> FlattenSeq([k \in DOMAIN cs |-> Ascending(PostingsOf(cs[k], e))])]
  BY <1>1, <1>8 DEF LookupPostings
<1>10. d \in hits <=> \E k \in 1..n : PostingsOf(cs[k], d) # {}
  BY <1>1, <1>8 DEF ToSet
<1>11. DOMAIN LookupPostings(t) = hits
  BY <1>9
<1>12. d \in hits => LookupPostings(t)[d] = FlattenSeq([k \in DOMAIN cs |-> Ascending(PostingsOf(cs[k], d))])
  BY <1>9
<1>13. d \in hits => JoinOf(LookupPostings(t)[d], F, n)
  BY <1>6, <1>7, <1>12
<1> QED
  BY <1>1, <1>2, <1>10, <1>11, <1>13

(* A lookup finds nothing that is not in a settled document, and all that  *)
(* is there unless it reads in part.                                       *)
LEMMA LookupIs ==
  ASSUME IndexInv, HeldIsPosted, CallsUnsettled, reader # NoReader,
         NEW w \in Words, NEW result \in LookupResults(w)
  PROVE  /\ Finds(result, w)
         /\ ReadsInPart(w, result) \/ FindsAll(result, w)
<1>1. IndexTypeOK /\ Settled \subseteq Docs
  BY DEF IndexInv, Settled
<1>2. Finds(<<>>, w)
  <2>1. DOMAIN <<>> = {} /\ {} \in SUBSET Docs
    OBVIOUS
  <2>2. <<>> \in [{} -> Seq(Nat)]
    OBVIOUS
  <2>3. <<>> \in Listings
    BY <2>1, <2>2 DEF Listings
  <2> QED
    BY <2>1, <2>3 DEF Finds
<1>3. CASE Sought(w) = {}
  <2>1. \A d \in Settled : Found(d, w) = {}
    BY <1>3 DEF Sought, Found
  <2>2. result = <<>>
    BY <1>3 DEF LookupResults
  <2> QED
    BY <1>2, <2>1, <2>2 DEF FindsAll
<1>4. CASE Sought(w) # {} /\ result = <<>> /\ result # LookupPostings(Stem[w])
  BY <1>2, <1>4 DEF ReadsInPart
<1>5. CASE Sought(w) # {} /\ result = LookupPostings(Stem[w])
  <2>1. PICK t \in Words : t = Stem[w]
    BY StemsAreWords
  <2>2. w \notin Stops
    BY <1>5 DEF Sought
  <2>3. PICK cs \in Seq(Words), n \in Nat : cs = Covers[t] /\ n = Len(cs) /\ DOMAIN cs = 1..n
    BY TermsCoverThemselves
  <2>4. \A k \in 1..n : cs[k] \in Words
    BY <2>3
  <2>5. \A d \in Docs : /\ d \in DOMAIN result <=> \E k \in 1..n : PostingsOf(cs[k], d) # {}
                        /\ d \in DOMAIN result =>
                             JoinOf(result[d], [k \in 1..n |-> PostingsOf(cs[k], d)], n)
    BY <1>1, <1>5, <2>1, <2>3, LookupLists
  <2>6. DOMAIN result \in SUBSET Docs /\ result = [d \in DOMAIN result |-> result[d]]
    BY <1>5 DEF LookupPostings
  <2>7. \A d \in Docs : d \in DOMAIN result =>
                          /\ result[d] \in Seq(Nat)
                          /\ ToSet(result[d]) = UNION {PostingsOf(cs[k], d) : k \in 1..n}
                          /\ (\A j, k \in 1..n : PostingsOf(cs[j], d) # {} /\ PostingsOf(cs[k], d) # {}
                                => j = k) => Increasing(result[d])
    <3> SUFFICES ASSUME NEW d \in Docs, d \in DOMAIN result
                 PROVE  /\ result[d] \in Seq(Nat)
                        /\ ToSet(result[d]) = UNION {PostingsOf(cs[k], d) : k \in 1..n}
                        /\ (\A j, k \in 1..n : PostingsOf(cs[j], d) # {} /\ PostingsOf(cs[k], d) # {}
                              => j = k) => Increasing(result[d])
      OBVIOUS
    <3>1. PICK F : F = [k \in 1..n |-> PostingsOf(cs[k], d)]
      OBVIOUS
    <3>2. JoinOf(result[d], F, n)
      BY <2>5, <3>1
    <3>3. \A k \in 1..n : F[k] = PostingsOf(cs[k], d)
      BY <3>1
    <3> QED
      BY <3>2, <3>3 DEF JoinOf
  <2>8. result \in Listings
    BY <2>6, <2>7 DEF Listings
  <2>9. \A d \in DOMAIN result : d \in allDocs /\ result[d] # <<>>
    <3> SUFFICES ASSUME NEW d \in DOMAIN result PROVE d \in allDocs /\ result[d] # <<>>
      OBVIOUS
    <3>1. PICK k \in 1..n : PostingsOf(cs[k], d) # {} /\ d \in Docs
      BY <2>5, <2>6
    <3>2. Held(d, cs[k]) # {}
      BY <1>1, <2>4, <3>1, PostingsAre
    <3>3. d \in allDocs
      BY <2>4, <3>1, <3>2, HeldInDocs
    <3>4. ToSet(result[d]) # {} /\ result[d] \in Seq(Nat)
      <4>1. UNION {PostingsOf(cs[j], d) : j \in 1..n} # {}
        BY <3>1
      <4>2. ToSet(result[d]) = UNION {PostingsOf(cs[j], d) : j \in 1..n} /\ result[d] \in Seq(Nat)
        BY <2>7, <3>1
      <4> QED
        BY <4>1, <4>2, Zenon
    <3> QED
      BY <3>3, <3>4, EmptyList
  <2>10. \A d \in Settled : Found(d, w) = UNION {Positions(d, cs[k]) : k \in 1..n}
    BY <2>1, <2>2, <2>3 DEF Found, ToSet
  <2>11. \A d \in Settled, k \in 1..n : /\ PostingsOf(cs[k], d) \subseteq Positions(d, cs[k])
                                        /\ PlacedOnce(d, cs[k]) =>
                                             PostingsOf(cs[k], d) = Positions(d, cs[k])
    <3> SUFFICES ASSUME NEW d \in Settled, NEW k \in 1..n
                 PROVE  /\ PostingsOf(cs[k], d) \subseteq Positions(d, cs[k])
                        /\ PlacedOnce(d, cs[k]) => PostingsOf(cs[k], d) = Positions(d, cs[k])
      OBVIOUS
    <3>1. {c[2] : c \in Held(d, cs[k])} = Positions(d, cs[k])
      BY <2>4, SettledPositions
    <3> QED
      BY <1>1, <2>4, <3>1, PostingsAre
  <2>12. Finds(result, w)
    <3>1. \A d \in DOMAIN result \cap Settled : ToSet(result[d]) \subseteq Found(d, w)
      <4> SUFFICES ASSUME NEW d \in Settled, d \in DOMAIN result
                   PROVE  ToSet(result[d]) \subseteq Found(d, w)
        OBVIOUS
      <4>1. ToSet(result[d]) = UNION {PostingsOf(cs[k], d) : k \in 1..n}
        BY <1>1, <2>7
      <4>2. UNION {PostingsOf(cs[k], d) : k \in 1..n} \subseteq UNION {Positions(d, cs[k]) : k \in 1..n}
        BY <2>11
      <4> QED
        BY <2>10, <4>1, <4>2
    <3> QED
      BY <2>8, <2>9, <3>1 DEF Finds
  <2>13. ASSUME ~ReadsInPart(w, result)
         PROVE  FindsAll(result, w)
    <3>1. \A d \in Docs, k \in 1..n : PlacedOnce(d, cs[k])
      <4> SUFFICES ASSUME NEW d \in Docs, NEW k \in 1..n PROVE PlacedOnce(d, cs[k])
        OBVIOUS
      <4>1. d \div BlockSize \in Blocks /\ cs[k] \in ToSet(Covers[Stem[w]])
        BY <2>1, <2>3 DEF Blocks, ToSet
      <4>2. ~(Cardinality(Tree!PlacesOf(<<cs[k], d \div BlockSize>>)) > 1)
        BY <1>5, <2>13, <4>1 DEF ReadsInPart
      <4>3. Cardinality(Tree!PlacesOf(<<cs[k], d \div BlockSize>>)) \in Nat
        <5>1. PICK l \in Nat : l = Len(places) /\ DOMAIN places = 1..l
          BY <1>1 DEF IndexTypeOK, PlacesOK
        <5>2. Tree!PlacesOf(<<cs[k], d \div BlockSize>>) \subseteq 1..l /\ IsFiniteSet(1..l)
          BY <5>1, FS_Interval DEF Tree!PlacesOf
        <5> QED
          BY <5>2, FS_Subset, FS_CardinalityType
      <4> QED
        BY <4>2, <4>3 DEF PlacedOnce, KeyOf
    <3>2. \A d \in Settled, k \in 1..n : PostingsOf(cs[k], d) = Positions(d, cs[k])
      BY <1>1, <2>11, <3>1
    <3> SUFFICES ASSUME NEW d \in Settled, Found(d, w) # {}
                 PROVE  /\ d \in DOMAIN result /\ ToSet(result[d]) = Found(d, w)
                        /\ OneCover(d, w) => Increasing(result[d])
      BY DEF FindsAll
    <3>9. UNION {PostingsOf(cs[k], d) : k \in 1..n} = UNION {Positions(d, cs[k]) : k \in 1..n}
      BY <3>2
    <3>10. Found(d, w) = UNION {PostingsOf(cs[k], d) : k \in 1..n}
      BY <2>10, <3>9
    <3>3. \E k \in 1..n : PostingsOf(cs[k], d) # {}
      BY <3>10
    <3>4. d \in Docs /\ d \in DOMAIN result
      BY <1>1, <2>5, <3>3
    <3>5. ToSet(result[d]) = Found(d, w)
      BY <2>7, <3>10, <3>4, Zenon
    <3>6. ASSUME OneCover(d, w) PROVE Increasing(result[d])
      <4>1. \A j, k \in 1..n : Positions(d, cs[j]) # {} /\ Positions(d, cs[k]) # {} => j = k
        BY <2>1, <2>3, <3>6 DEF OneCover
      <4> QED
        BY <2>7, <3>2, <3>4, <4>1
    <3> QED
      BY <3>4, <3>5, <3>6
  <2> QED
    BY <2>12, <2>13
<1> QED
  BY <1>3, <1>4, <1>5 DEF LookupResults

(* The documents PhraseSearch answers with, from the lists of its words.   *)
Matching(lists, words) ==
  IF words = <<>> THEN {}
  ELSE {d \in {e \in Docs : \A n \in DOMAIN lists : e \in DOMAIN lists[n]} :
          MatchPhrase([n \in DOMAIN lists |-> lists[n][d]], words)}

LEMMA FoundAre ==
  ASSUME IndexTypeOK, NEW d \in Docs, NEW w
  PROVE  Found(d, w) \subseteq Nat
<1>1. ASSUME NEW x \in posted[d], NEW u, NEW p \in PositionSet(x, u)
      PROVE  p \in Nat
  <2>1. x \in Seq(Words)
    BY TextsAreTexts DEF IndexTypeOK
  <2>2. PICK q \in DOMAIN x : p = q - 1
    BY DEF PositionSet, Where
  <2> QED
    BY <2>1, <2>2
<1> QED
  BY <1>1 DEF Found, Positions

(* PhraseSearch answers with documents that have the phrase, and with all  *)
(* of them whose lists are whole and each of one term.                     *)
LEMMA MatchingIs ==
  ASSUME IndexTypeOK, NEW phrase \in Seq(Words),
         NEW words, words = QueryWords(phrase),
         NEW lists \in Seq(Listings), Len(lists) = Len(words),
         \A n \in 1..Len(lists) : Finds(lists[n], words[n].stemmed)
  PROVE  /\ Matching(lists, words) \subseteq allDocs
         /\ \A d \in Matching(lists, words) \cap Settled : Follow(d, phrase)
         /\ (\A n \in 1..Len(lists) : FindsAll(lists[n], words[n].stemmed)) =>
              \A d \in Settled : Follow(d, phrase) /\ Plain(d, phrase) => d \in Matching(lists, words)
<1>1. PICK kept, m : LooksFor(words, phrase, kept, m)
  BY QueryIs
<1>2. /\ m \in Nat /\ DOMAIN words = 1..m /\ Len(words) = m /\ DOMAIN lists = 1..m
      /\ words = <<>> <=> m = 0
      /\ \A n \in 1..m : kept[n] \in Kept(phrase) /\ kept[n] \in Int
      /\ \A i \in Kept(phrase) : \E n \in 1..m : kept[n] = i
      /\ \A n \in 1..m : /\ words[n].stemmed = Stem[phrase[kept[n]]]
                         /\ words[n].gapBefore \in Int
      /\ Gaps(words, kept, m)
  <2>1. m \in Nat /\ DOMAIN words = 1..m /\ Len(words) = m /\ (words = <<>> <=> m = 0)
    BY <1>1 DEF LooksFor
  <2>2. DOMAIN lists = 1..m
    BY <2>1
  <2>3. Gaps(words, kept, m) /\ \A n \in 1..m : kept[n] \in Int
    BY <1>1 DEF LooksFor, Gaps
  <2>4. /\ \A n \in 1..m : kept[n] \in Kept(phrase)
        /\ \A i \in Kept(phrase) : \E n \in 1..m : kept[n] = i
        /\ \A n \in 1..m : /\ words[n].stemmed = Stem[phrase[kept[n]]]
                           /\ words[n].gapBefore \in Int
    BY <1>1 DEF LooksFor
  <2> QED
    BY <2>1, <2>2, <2>3, <2>4
<1>3. \A i \in Kept(phrase) : i \in Int /\ phrase[i] \in Words /\ phrase[i] \notin Stops
  BY DEF Kept
<1>4. CASE m = 0
  <2>1. Kept(phrase) = {} /\ Matching(lists, words) = {}
    BY <1>2, <1>4 DEF Matching
  <2>2. \A d : ~Follow(d, phrase)
    BY <2>1 DEF Follow, Kept
  <2> QED
    BY <2>1, <2>2
<1>5. CASE m # 0
  <2>1. 1 \in 1..m /\ m \in 1..m /\ Settled \subseteq Docs
    BY <1>2, <1>5 DEF Settled
  <2>2. \A d : d \in Matching(lists, words) <=>
                 /\ d \in Docs /\ \A n \in 1..m : d \in DOMAIN lists[n]
                 /\ MatchPhrase([n \in 1..m |-> lists[n][d]], words)
    BY <1>2, <1>5 DEF Matching
  <2>3. \A n \in 1..m : Finds(lists[n], words[n].stemmed)
    BY <1>2
  <2>4. Matching(lists, words) \subseteq allDocs
    BY <2>1, <2>2, <2>3 DEF Finds
  <2>5. ASSUME NEW d \in Docs, \A n \in 1..m : d \in DOMAIN lists[n],
               NEW ls, ls = [n \in 1..m |-> lists[n][d]]
        PROVE  PhraseLists(ls, words, m) /\ ls[1] # <<>>
    <3>1. ASSUME NEW n \in 1..m PROVE lists[n][d] \in Seq(Nat) /\ lists[n][d] # <<>>
      <4>1. lists[n] \in Listings /\ d \in DOMAIN lists[n] /\ lists[n][d] # <<>>
        BY <2>3, <2>5 DEF Finds
      <4> QED
        BY <4>1 DEF Listings
    <3>2. \A n \in 1..m : ls[n] \in Seq(Int) /\ ls[n] # <<>>
      BY <2>5, <3>1
    <3> QED
      BY <1>2, <2>1, <3>2 DEF PhraseLists
  <2>6. ASSUME NEW d \in Settled, d \in Matching(lists, words)
        PROVE  Follow(d, phrase)
    <3>1. d \in Docs /\ \A n \in 1..m : d \in DOMAIN lists[n]
      BY <2>1, <2>2, <2>6
    <3>2. PICK ls : ls = [n \in 1..m |-> lists[n][d]]
      OBVIOUS
    <3>3. PhraseLists(ls, words, m) /\ ls[1] # <<>> /\ MatchPhrase(ls, words)
      BY <2>2, <2>5, <2>6, <3>1, <3>2
    <3>4. PICK p \in Int : \A i \in 1..m : p - kept[m] + kept[i] \in ToSet(ls[i])
      BY <1>2, <1>5, <3>3, MatchWithin
    <3>5. \A i \in 1..m : p - kept[m] + kept[i] \in Found(d, Stem[phrase[kept[i]]])
      <4> SUFFICES ASSUME NEW i \in 1..m
                   PROVE  p - kept[m] + kept[i] \in Found(d, Stem[phrase[kept[i]]])
        OBVIOUS
      <4>1. ToSet(lists[i][d]) \subseteq Found(d, words[i].stemmed)
        BY <2>3, <3>1 DEF Finds
      <4> QED
        BY <1>2, <3>2, <3>4, <4>1
    <3>6. p - kept[m] + kept[m] = p
      BY <1>2, <2>1
    <3>7. p \in Found(d, Stem[phrase[kept[m]]])
      BY <2>1, <3>5, <3>6
    <3>8. \A j \in Kept(phrase) : p - kept[m] + j \in Found(d, Stem[phrase[j]])
      BY <1>2, <3>5
    <3> QED
      BY <1>2, <2>1, <3>7, <3>8 DEF Follow, Kept
  <2>7. ASSUME \A n \in 1..m : FindsAll(lists[n], words[n].stemmed),
               NEW d \in Settled, Follow(d, phrase), Plain(d, phrase)
        PROVE  d \in Matching(lists, words)
    <3>1. PICK i \in Kept(phrase) : \E p \in Found(d, Stem[phrase[i]]) :
                   \A j \in Kept(phrase) : p - i + j \in Found(d, Stem[phrase[j]])
      BY <2>7 DEF Follow, Kept
    <3>2. PICK p \in Found(d, Stem[phrase[i]]) :
                   \A j \in Kept(phrase) : p - i + j \in Found(d, Stem[phrase[j]])
      BY <3>1
    <3>3. i \in Int /\ p \in Int
      BY <1>3, <2>1, FoundAre
    <3>4. PICK q \in Int : q = p - i + kept[m]
      BY <1>2, <2>1, <3>3
    <3>5. \A n \in 1..m : q - kept[m] + kept[n] \in Found(d, words[n].stemmed)
      <4> SUFFICES ASSUME NEW n \in 1..m
                   PROVE  q - kept[m] + kept[n] \in Found(d, words[n].stemmed)
        OBVIOUS
      <4>1. q - kept[m] + kept[n] = p - i + kept[n]
        BY <1>2, <2>1, <3>3, <3>4
      <4> QED
        BY <1>2, <3>2, <4>1
    <3>6. ASSUME NEW n \in 1..m
          PROVE  /\ d \in DOMAIN lists[n] /\ ToSet(lists[n][d]) = Found(d, words[n].stemmed)
                 /\ Increasing(lists[n][d])
      <4>1. OneCover(d, words[n].stemmed)
        <5>1. PICK j \in Kept(phrase) : j = kept[n] /\ words[n].stemmed = Stem[phrase[j]]
          BY <1>2
        <5>2. \A k, l \in DOMAIN Covers[Stem[Stem[phrase[j]]]] :
                Positions(d, Covers[Stem[Stem[phrase[j]]]][k]) # {}
                  /\ Positions(d, Covers[Stem[Stem[phrase[j]]]][l]) # {} => k = l
          BY <2>7, <5>1 DEF Plain, Kept
        <5> QED
          BY <5>1, <5>2 DEF OneCover
      <4>2. Found(d, words[n].stemmed) # {}
        BY <3>5
      <4> QED
        BY <2>7, <4>1, <4>2 DEF FindsAll
    <3>7. PICK ls : ls = [n \in 1..m |-> lists[n][d]]
      OBVIOUS
    <3>8. PhraseLists(ls, words, m) /\ ls[1] # <<>>
      BY <2>1, <2>5, <3>6, <3>7
    <3>9. Rising(ls, m)
      BY <3>6, <3>7 DEF Rising
    <3>10. \A n \in 1..m : q - kept[m] + kept[n] \in ToSet(ls[n])
      BY <3>5, <3>6, <3>7
    <3>11. MatchPhrase(ls, words)
      BY <1>2, <1>5, <3>8, <3>9, <3>10, MatchIs
    <3> QED
      BY <2>1, <2>2, <3>6, <3>7, <3>11
  <2> QED
    BY <1>2, <2>4, <2>6, <2>7
<1> QED
  BY <1>2, <1>4, <1>5

-----------------------------------------------------------------------------
(* The least and the most documents of the nodes of an expression, apart   *)
(* from the variables they are computed from.                              *)
Bounds == [least : SUBSET Docs, most : SUBSET Docs]

JudgedBy(s, instr, su, hi, S) ==
  LET x == s[Len(s)]
      y == s[Len(s) - 1]
  IN  CASE instr.op \in {"term", "phrase"} -> [least |-> su, most |-> hi]
        [] instr.op = "nil" -> [least |-> {}, most |-> {}]
        [] instr.op = "and" -> [least |-> y.least \cap x.least, most |-> y.most \cap x.most]
        [] instr.op = "or"  -> [least |-> y.least \cup x.least, most |-> y.most \cup x.most]
        [] instr.op = "not" -> [least |-> S \ x.most, most |-> S \ x.least]

(* A stack whose topmost values, those of an operation, give way to one.   *)
Replaced(s, instr, v) == Append(SubSeq(s, 1, Len(s) - Arity(instr)), v)

Deep(q, depth) ==
  /\ depth \in [0..Len(q) -> 0..Len(q)]
  /\ depth[0] = 0 /\ depth[Len(q)] = 1
  /\ \A i \in 1..Len(q) : /\ Arity(q[i]) <= depth[i - 1]
                          /\ depth[i] = depth[i - 1] - Arity(q[i]) + 1

(* bs has the bounds on the stack after each of the first n instructions.  *)
RunOf(bs, n, q, su, hi, S, depth) ==
  /\ \A i \in 0..n : bs[i] \in Seq(Bounds) /\ Len(bs[i]) = depth[i]
  /\ bs[0] = <<>>
  /\ \A i \in 1..n : bs[i] = Replaced(bs[i - 1], q[i], JudgedBy(bs[i - 1], q[i], su[i], hi[i], S))

Sets(su, hi, n) == \A i \in 1..n : su[i] \in SUBSET Docs /\ hi[i] \in SUBSET Docs

LEMMA Arities ==
  ASSUME NEW instr \in Instructions
  PROVE  /\ instr.op \in {"term", "phrase", "and", "or", "not", "nil"}
         /\ Arity(instr) \in Nat
         /\ instr.op \in {"term", "phrase", "nil"} => Arity(instr) = 0
         /\ instr.op = "not" => Arity(instr) = 1
         /\ instr.op \in {"and", "or"} => Arity(instr) = 2
  BY DEF Instructions, Arity

Topped(r, s, a, v, T) ==
  /\ r \in Seq(T)
  /\ Len(r) = Len(s) - a + 1
  /\ \A k \in 1..(Len(s) - a) : r[k] = s[k]
  /\ r[Len(s) - a + 1] = v

LEMMA ReplacedIs ==
  ASSUME NEW T, NEW s \in Seq(T), NEW instr, Arity(instr) \in Nat, Arity(instr) <= Len(s), NEW v \in T
  PROVE  Topped(Replaced(s, instr, v), s, Arity(instr), v, T)
<1>1. PICK m \in Nat, a \in Nat : m = Len(s) /\ a = Arity(instr) /\ a <= m
  OBVIOUS
<1>2. PICK r : r = SubSeq(s, 1, m - a)
  OBVIOUS
<1>3. r \in Seq(T) /\ Len(r) = m - a /\ \A k \in 1..(m - a) : r[k] = s[k]
  BY <1>1, <1>2
<1>4. PICK l \in Nat : l = m - a
  BY <1>1
<1>5. /\ Append(r, v) \in Seq(T) /\ Len(Append(r, v)) = l + 1
      /\ \A k \in 1..l : Append(r, v)[k] = s[k]
      /\ Append(r, v)[l + 1] = v
  BY <1>3, <1>4
<1> QED
  BY <1>1, <1>2, <1>4, <1>5 DEF Replaced, Topped

(* The values an operation takes.                                          *)
LEMMA Operands ==
  ASSUME NEW T, NEW s \in Seq(T), NEW instr \in Instructions, Arity(instr) <= Len(s)
  PROVE  /\ instr.op = "not" => Len(s) \in 1..Len(s) /\ s[Len(s)] \in T
         /\ instr.op \in {"and", "or"} =>
              /\ Len(s) \in 1..Len(s) /\ Len(s) - 1 \in 1..Len(s)
              /\ s[Len(s)] \in T /\ s[Len(s) - 1] \in T
<1>1. PICK m \in Nat : m = Len(s) /\ DOMAIN s = 1..m /\ \A k \in 1..m : s[k] \in T
  OBVIOUS
<1>2. instr.op = "not" => m \in 1..m
  BY <1>1, Arities
<1>3. instr.op \in {"and", "or"} => m \in 1..m /\ m - 1 \in 1..m
  BY <1>1, Arities
<1> QED
  BY <1>1, <1>2, <1>3

LEMMA JudgedIsBounds ==
  ASSUME NEW s \in Seq(Bounds), NEW instr \in Instructions, Arity(instr) <= Len(s),
         NEW su \in SUBSET Docs, NEW hi \in SUBSET Docs, NEW S \in SUBSET Docs
  PROVE  JudgedBy(s, instr, su, hi, S) \in Bounds
<1>1. CASE instr.op \in {"term", "phrase"}
  BY <1>1 DEF JudgedBy, Bounds
<1>2. CASE instr.op = "nil"
  BY <1>2 DEF JudgedBy, Bounds
<1>3. CASE instr.op \in {"and", "or"}
  <2>1. PICK x \in Bounds, y \in Bounds : x = s[Len(s)] /\ y = s[Len(s) - 1]
    BY <1>3, Operands
  <2> QED
    BY <1>3, <2>1 DEF JudgedBy, Bounds
<1>4. CASE instr.op = "not"
  <2>1. PICK x \in Bounds : x = s[Len(s)]
    BY <1>4, Operands
  <2> QED
    BY <1>4, <2>1 DEF JudgedBy, Bounds
<1> QED
  BY <1>1, <1>2, <1>3, <1>4, Arities

(* The bounds within fewer documents.                                      *)
Cut(p, S) == [least |-> p.least \cap S, most |-> p.most \cap S]

CutOf(c, b, S) ==
  c \in Seq(Bounds) /\ Len(c) = Len(b) /\ \A k \in 1..Len(b) : c[k] = Cut(b[k], S)

LEMMA JudgedCut ==
  ASSUME NEW S \in SUBSET Docs, NEW S1 \in SUBSET S,
         NEW b \in Seq(Bounds), NEW c, CutOf(c, b, S1),
         NEW instr \in Instructions, Arity(instr) <= Len(b),
         NEW su, NEW hi
  PROVE  JudgedBy(c, instr, su \cap S1, hi \cap S1, S1) = Cut(JudgedBy(b, instr, su, hi, S), S1)
<1>1. Len(c) = Len(b) /\ \A k \in 1..Len(b) : c[k] = Cut(b[k], S1)
  BY DEF CutOf
<1>2. CASE instr.op \in {"term", "phrase"}
  BY <1>2 DEF JudgedBy, Cut
<1>3. CASE instr.op = "nil"
  BY <1>3 DEF JudgedBy, Cut
<1>4. CASE instr.op \in {"and", "or"}
  <2>1. PICK x \in Bounds, y \in Bounds : x = b[Len(b)] /\ y = b[Len(b) - 1]
    BY <1>4, Operands
  <2>2. c[Len(c)] = Cut(x, S1) /\ c[Len(c) - 1] = Cut(y, S1)
    BY <1>1, <1>4, <2>1, Operands
  <2>3. CASE instr.op = "and"
    <3>1. JudgedBy(c, instr, su \cap S1, hi \cap S1, S1)
            = [least |-> Cut(y, S1).least \cap Cut(x, S1).least,
               most |-> Cut(y, S1).most \cap Cut(x, S1).most]
      BY <2>2, <2>3 DEF JudgedBy
    <3>2. JudgedBy(b, instr, su, hi, S)
            = [least |-> y.least \cap x.least, most |-> y.most \cap x.most]
      BY <2>1, <2>3 DEF JudgedBy
    <3>3. /\ Cut(y, S1).least \cap Cut(x, S1).least = (y.least \cap x.least) \cap S1
          /\ Cut(y, S1).most \cap Cut(x, S1).most = (y.most \cap x.most) \cap S1
      BY DEF Cut
    <3>4. Cut(JudgedBy(b, instr, su, hi, S), S1)
            = [least |-> (y.least \cap x.least) \cap S1, most |-> (y.most \cap x.most) \cap S1]
      BY <3>2 DEF Cut
    <3> QED
      BY <3>1, <3>3, <3>4
  <2>4. CASE instr.op = "or"
    <3>1. JudgedBy(c, instr, su \cap S1, hi \cap S1, S1)
            = [least |-> Cut(y, S1).least \cup Cut(x, S1).least,
               most |-> Cut(y, S1).most \cup Cut(x, S1).most]
      BY <2>2, <2>4 DEF JudgedBy
    <3>2. JudgedBy(b, instr, su, hi, S)
            = [least |-> y.least \cup x.least, most |-> y.most \cup x.most]
      BY <2>1, <2>4 DEF JudgedBy
    <3>3. /\ Cut(y, S1).least \cup Cut(x, S1).least = (y.least \cup x.least) \cap S1
          /\ Cut(y, S1).most \cup Cut(x, S1).most = (y.most \cup x.most) \cap S1
      BY DEF Cut
    <3>4. Cut(JudgedBy(b, instr, su, hi, S), S1)
            = [least |-> (y.least \cup x.least) \cap S1, most |-> (y.most \cup x.most) \cap S1]
      BY <3>2 DEF Cut
    <3> QED
      BY <3>1, <3>3, <3>4
  <2> QED
    BY <1>4, <2>3, <2>4
<1>5. CASE instr.op = "not"
  <2>1. PICK x \in Bounds : x = b[Len(b)]
    BY <1>5, Operands
  <2>2. c[Len(c)] = Cut(x, S1)
    BY <1>1, <1>5, <2>1, Operands
  <2>3. S1 \ Cut(x, S1).most = (S \ x.most) \cap S1 /\ S1 \ Cut(x, S1).least = (S \ x.least) \cap S1
    BY DEF Cut
  <2>4. JudgedBy(c, instr, su \cap S1, hi \cap S1, S1)
          = [least |-> S1 \ Cut(x, S1).most, most |-> S1 \ Cut(x, S1).least]
    BY <1>5, <2>2 DEF JudgedBy
  <2>5. JudgedBy(b, instr, su, hi, S) = [least |-> S \ x.most, most |-> S \ x.least]
    BY <1>5, <2>1 DEF JudgedBy
  <2>6. Cut(JudgedBy(b, instr, su, hi, S), S1)
          = [least |-> (S \ x.most) \cap S1, most |-> (S \ x.least) \cap S1]
    BY <2>5 DEF Cut
  <2> QED
    BY <2>3, <2>4, <2>6
<1> QED
  BY <1>2, <1>3, <1>4, <1>5, Arities

LEMMA CutIsBounds ==
  ASSUME NEW p \in Bounds, NEW S
  PROVE  Cut(p, S) \in Bounds
  BY DEF Cut, Bounds

AllCut(su1, hi1, su, hi, n, S) == \A i \in 1..n : su1[i] = su[i] \cap S /\ hi1[i] = hi[i] \cap S

(* Fewer documents: the bounds of a run are cut.                           *)
LEMMA RunCut ==
  ASSUME NEW q \in Seq(Instructions), NEW depth, Deep(q, depth), NEW n \in 0..Len(q),
         NEW S \in SUBSET Docs, NEW su, NEW hi, Sets(su, hi, n),
         NEW bs, RunOf(bs, n, q, su, hi, S, depth),
         NEW S1 \in SUBSET S, NEW su1, NEW hi1, AllCut(su1, hi1, su, hi, n, S1)
  PROVE  \E cs : RunOf(cs, n, q, su1, hi1, S1, depth) /\ CutOf(cs[n], bs[n], S1)
<1>1. PICK cs : cs = [i \in 0..n |-> [k \in 1..Len(bs[i]) |-> Cut(bs[i][k], S1)]]
  OBVIOUS
<1>2. n \in Nat /\ \A i \in 0..n : bs[i] \in Seq(Bounds) /\ Len(bs[i]) = depth[i]
  BY DEF RunOf
<1>3. ASSUME NEW i \in 0..n
      PROVE  CutOf(cs[i], bs[i], S1)
  <2>1. PICK b \in Seq(Bounds), l \in Nat : b = bs[i] /\ l = Len(b) /\ \A k \in 1..l : b[k] \in Bounds
    BY <1>2
  <2>2. PICK c : c = [k \in 1..l |-> Cut(b[k], S1)]
    OBVIOUS
  <2>3. c \in [1..l -> Bounds]
    BY <2>1, <2>2, CutIsBounds
  <2>4. c \in Seq(Bounds) /\ Len(c) = l
    BY <2>3
  <2>5. cs[i] = c
    BY <1>1, <2>1, <2>2
  <2> QED
    BY <2>1, <2>2, <2>4, <2>5 DEF CutOf
<1>4. \A i \in 0..n : cs[i] \in Seq(Bounds) /\ Len(cs[i]) = depth[i]
  BY <1>2, <1>3 DEF CutOf
<1>5. cs[0] = <<>>
  <2>1. Len(cs[0]) = 0 /\ cs[0] \in Seq(Bounds)
    BY <1>2, <1>4 DEF Deep
  <2> QED
    BY <2>1
<1>6. ASSUME NEW i \in 1..n
      PROVE  cs[i] = Replaced(cs[i - 1], q[i], JudgedBy(cs[i - 1], q[i], su1[i], hi1[i], S1))
  <2>1. i - 1 \in 0..n /\ i \in 0..n /\ i \in 1..Len(q)
    BY <1>2
  <2>2. PICK b \in Seq(Bounds), c \in Seq(Bounds) : b = bs[i - 1] /\ c = cs[i - 1] /\ CutOf(c, b, S1)
    BY <1>2, <1>3, <1>4, <2>1
  <2>3. PICK instr \in Instructions : instr = q[i]
    BY <2>1
  <2>4. Arity(instr) \in Nat /\ Arity(instr) <= Len(b) /\ Len(c) = Len(b)
    BY <1>2, <2>1, <2>2, <2>3, Arities DEF Deep, CutOf
  <2>5. PICK j \in Bounds : j = JudgedBy(b, instr, su[i], hi[i], S)
    BY <2>2, <2>4, JudgedIsBounds DEF Sets
  <2>6. JudgedBy(c, instr, su1[i], hi1[i], S1) = Cut(j, S1)
    BY <2>2, <2>4, <2>5, JudgedCut DEF AllCut
  <2>7. bs[i] = Replaced(b, instr, j)
    BY <2>2, <2>3, <2>5 DEF RunOf
  <2>8. PICK r : r = Replaced(c, instr, Cut(j, S1))
    OBVIOUS
  <2>9. PICK l \in Nat : l = Len(b) - Arity(instr)
    BY <2>4
  <2>10. /\ bs[i] \in Seq(Bounds) /\ Len(bs[i]) = l + 1 /\ bs[i][l + 1] = j
         /\ \A k \in 1..l : bs[i][k] = b[k]
    <3>1. PICK a : a = Replaced(b, instr, j)
      OBVIOUS
    <3>2. Topped(a, b, Arity(instr), j, Bounds)
      BY <2>4, <3>1, ReplacedIs
    <3> QED
      BY <2>7, <2>9, <3>1, <3>2 DEF Topped
  <2>11. /\ r \in Seq(Bounds) /\ Len(r) = l + 1 /\ r[l + 1] = Cut(j, S1)
         /\ \A k \in 1..l : r[k] = c[k]
    <3>1. PICK v \in Bounds : v = Cut(j, S1)
      BY CutIsBounds
    <3>2. r = Replaced(c, instr, v) /\ Arity(instr) <= Len(c)
      BY <2>4, <2>8, <3>1
    <3>3. Topped(r, c, Arity(instr), v, Bounds)
      BY <2>4, <3>2, ReplacedIs
    <3> QED
      BY <2>4, <2>9, <3>1, <3>3 DEF Topped
  <2>12. \A k \in 1..l : c[k] = Cut(b[k], S1)
    BY <2>2, <2>4, <2>9 DEF CutOf
  <2>13. \A k \in 1..(l + 1) : r[k] = Cut(bs[i][k], S1)
    <3>1. \A k \in 1..(l + 1) : k = l + 1 \/ k \in 1..l
      OBVIOUS
    <3> QED
      BY <2>10, <2>11, <2>12, <3>1
  <2>14. cs[i] \in Seq(Bounds) /\ Len(cs[i]) = l + 1 /\ \A k \in 1..(l + 1) : cs[i][k] = Cut(bs[i][k], S1)
    BY <1>3, <2>1, <2>10 DEF CutOf
  <2>15. cs[i] = r
    <3>1. PICK a \in Seq(Bounds) : a = cs[i] /\ Len(a) = l + 1 /\ \A k \in 1..(l + 1) : a[k] = Cut(bs[i][k], S1)
      BY <2>14
    <3>2. a \in [1..(l + 1) -> Bounds] /\ r \in [1..(l + 1) -> Bounds]
      BY <2>11, <3>1
    <3>3. \A k \in 1..(l + 1) : a[k] = r[k]
      BY <2>13, <3>1
    <3> QED
      BY <3>1, <3>2, <3>3
  <2> QED
    BY <2>2, <2>3, <2>6, <2>8, <2>15
<1>7. RunOf(cs, n, q, su1, hi1, S1, depth)
  BY <1>4, <1>5, <1>6 DEF RunOf
<1> QED
  BY <1>2, <1>3, <1>7

(* One instruction more.                                                   *)
LEMMA RunGrows ==
  ASSUME NEW q \in Seq(Instructions), NEW depth, Deep(q, depth),
         NEW n \in Nat, n + 1 <= Len(q),
         NEW S \in SUBSET Docs, NEW su, NEW hi, Sets(su, hi, n + 1),
         NEW bs, RunOf(bs, n, q, su, hi, S, depth)
  PROVE  \E cs : /\ RunOf(cs, n + 1, q, su, hi, S, depth)
                 /\ cs[n + 1] = Replaced(bs[n], q[n + 1],
                                  JudgedBy(bs[n], q[n + 1], su[n + 1], hi[n + 1], S))
<1>1. PICK instr \in Instructions, b \in Seq(Bounds) :
        instr = q[n + 1] /\ b = bs[n] /\ Len(b) = depth[n]
  <2>1. n + 1 \in 1..Len(q) /\ n \in 0..n
    OBVIOUS
  <2> QED
    BY <2>1 DEF RunOf
<1>2. n + 1 \in 1..Len(q) /\ (n + 1) - 1 = n
  OBVIOUS
<1>3. Arity(instr) \in Nat /\ Arity(instr) <= Len(b) /\ depth[n + 1] = depth[n] - Arity(instr) + 1
  BY <1>1, <1>2, Arities DEF Deep
<1>4. PICK j \in Bounds : j = JudgedBy(b, instr, su[n + 1], hi[n + 1], S)
  <2>1. n + 1 \in 1..(n + 1)
    OBVIOUS
  <2> QED
    BY <1>3, <2>1, JudgedIsBounds DEF Sets
<1>5. PICK r \in Seq(Bounds) : r = Replaced(b, instr, j) /\ Len(r) = depth[n + 1]
  BY <1>1, <1>3, ReplacedIs DEF Topped
<1>6. PICK cs : cs = [i \in 0..(n + 1) |-> IF i = n + 1 THEN r ELSE bs[i]]
  OBVIOUS
<1>7. cs[n + 1] = r /\ \A i \in 0..n : cs[i] = bs[i]
  <2>1. n + 1 \in 0..(n + 1) /\ \A i \in 0..n : i \in 0..(n + 1) /\ i # n + 1
    OBVIOUS
  <2> QED
    BY <1>6, <2>1
<1>8. \A i \in 0..(n + 1) : i = n + 1 \/ i \in 0..n
  OBVIOUS
<1>9. \A i \in 0..(n + 1) : cs[i] \in Seq(Bounds) /\ Len(cs[i]) = depth[i]
  BY <1>5, <1>7, <1>8 DEF RunOf
<1>10. cs[0] = <<>>
  BY <1>7 DEF RunOf
<1>11. ASSUME NEW i \in 1..(n + 1)
       PROVE  cs[i] = Replaced(cs[i - 1], q[i], JudgedBy(cs[i - 1], q[i], su[i], hi[i], S))
  <2>1. CASE i = n + 1
    <3>1. i - 1 = n /\ cs[i - 1] = b
      BY <1>1, <1>7, <2>1
    <3> QED
      BY <1>1, <1>4, <1>5, <1>7, <2>1, <3>1
  <2>2. CASE i # n + 1
    <3>1. i \in 1..n /\ i \in 0..n /\ i - 1 \in 0..n
      BY <2>2
    <3>2. cs[i] = bs[i] /\ cs[i - 1] = bs[i - 1]
      BY <1>7, <3>1
    <3>3. bs[i] = Replaced(bs[i - 1], q[i], JudgedBy(bs[i - 1], q[i], su[i], hi[i], S))
      BY <3>1 DEF RunOf
    <3> QED
      BY <3>2, <3>3
  <2> QED
    BY <2>1, <2>2
<1>12. RunOf(cs, n + 1, q, su, hi, S, depth)
  BY <1>9, <1>10, <1>11 DEF RunOf
<1> QED
  BY <1>1, <1>4, <1>5, <1>7, <1>12

-----------------------------------------------------------------------------
(* The evaluation of a query: what its instructions have left on the stack *)
(* is between the bounds they have so far.                                 *)
Readers ==
  [query : Queries, at : Nat \ {0}, lists : Seq(Listings), stack : Seq(SUBSET Docs),
   lost : SUBSET Nat, unsettled : SUBSET Docs]

ReaderTypeOK == reader = NoReader \/ reader \in Readers

(* su and hi have the least and the most documents of the first n lookups. *)
Nodes(su, hi, n) ==
  \A i \in 1..n : \A instr : instr = reader.query[i] =>
    su[i] = Sure(i, instr) /\ hi[i] = Hits(instr)

Suits(b, v) == b.least \subseteq v /\ v \cap Settled \subseteq b.most /\ v \subseteq allDocs

Run(n, depth, su, hi, bs) ==
  /\ reader.at = n + 1 /\ n <= Len(reader.query)
  /\ Deep(reader.query, depth)
  /\ Nodes(su, hi, n)
  /\ RunOf(bs, n, reader.query, su, hi, Settled, depth)
  /\ Len(reader.stack) = depth[n]
  /\ \A k \in 1..depth[n] : Suits(bs[n][k], reader.stack[k])

Evaluated == reader # NoReader => \E n \in Nat : \E depth, su, hi, bs : Run(n, depth, su, hi, bs)

(* What a phrase has gathered of the lists of its words.                   *)
Tells(list, w) == Finds(list, w) /\ (reader.at \in reader.lost \/ FindsAll(list, w))

Gathered ==
  reader # NoReader =>
    \A instr : (reader.at <= Len(reader.query) /\ instr = reader.query[reader.at]
                  /\ instr.op = "phrase") =>
      \A k \in 1..Len(reader.lists) : Tells(reader.lists[k], QueryWords(instr.words)[k].stemmed)

Answering == CallsUnsettled /\ ReaderTypeOK /\ Evaluated /\ Gathered

QueryInv == IndexInv /\ HeldIsPosted /\ Answering

-----------------------------------------------------------------------------
(* What the bounds of a lookup depend on: while there are no more settled  *)
(* documents and their texts stay, they only lose documents.               *)
Steady ==
  /\ Settled' \subseteq Settled
  /\ \A d \in Settled' : posted'[d] = posted[d]
  /\ allDocs \subseteq allDocs'

(* The positions of a document that stays settled are those they were.     *)
LEMMA FoundStays ==
  ASSUME Steady, NEW d \in Settled'
  PROVE  /\ \A t : Positions(d, t)' = Positions(d, t)
         /\ \A w : Found(d, w)' = Found(d, w)
         /\ \A phrase : Follow(d, phrase)' <=> Follow(d, phrase)
         /\ \A phrase : Plain(d, phrase)' <=> Plain(d, phrase)
         /\ \A w : OneCover(d, w)' <=> OneCover(d, w)
<1>1. \A t : Positions(d, t)' = Positions(d, t)
  BY DEF Steady, Positions
<1>2. \A w : Found(d, w)' = Found(d, w)
  BY <1>1 DEF Found
<1>3. \A phrase : Follow(d, phrase)' <=> Follow(d, phrase)
  BY <1>2 DEF Follow
<1>4. \A phrase : Plain(d, phrase)' <=> Plain(d, phrase)
  BY <1>1 DEF Plain
<1>5. \A w : OneCover(d, w)' <=> OneCover(d, w)
  BY <1>1 DEF OneCover
<1> QED
  BY <1>1, <1>2, <1>3, <1>4, <1>5

LEMMA BoundsStay ==
  ASSUME Steady, NEW instr
  PROVE  /\ Hits(instr)' = Hits(instr) \cap Settled'
         /\ \A i : (i \in reader'.lost <=> i \in reader.lost) =>
              Sure(i, instr)' = Sure(i, instr) \cap Settled'
<1>1. Settled' \subseteq Settled
  BY DEF Steady
<1>2. Hits(instr)' = Hits(instr) \cap Settled'
  BY <1>1, FoundStays DEF Hits
<1>3. ASSUME NEW i, i \in reader'.lost <=> i \in reader.lost
      PROVE  Sure(i, instr)' = Sure(i, instr) \cap Settled'
  BY <1>1, <1>2, <1>3, FoundStays DEF Sure, Hits
<1> QED
  BY <1>2, <1>3

LEMMA TellsStay ==
  ASSUME Steady, NEW list, NEW w, Tells(list, w),
         reader'.at = reader.at, reader.lost \subseteq reader'.lost
  PROVE  Tells(list, w)'
<1>1. Finds(list, w)'
  BY FoundStays DEF Tells, Finds, Steady
<1>2. FindsAll(list, w) => FindsAll(list, w)'
  BY FoundStays DEF FindsAll, Steady
<1> QED
  BY <1>1, <1>2 DEF Tells

LEMMA BoundsAreSets ==
  ASSUME NEW su, NEW hi, NEW n, Nodes(su, hi, n)
  PROVE  Sets(su, hi, n)
<1>1. \A instr : Hits(instr) \in SUBSET Docs /\ \A i : Sure(i, instr) \in SUBSET Docs
  BY DEF Hits, Sure, Settled
<1> QED
  BY <1>1 DEF Nodes, Sets

(* The state between the first instruction and the last: nothing is        *)
(* pushed.                                                                 *)
LEMMA RunStays ==
  ASSUME Steady, reader.query \in Seq(Instructions), NEW n \in Nat, NEW depth, NEW su, NEW hi, NEW bs,
         Run(n, depth, su, hi, bs),
         reader'.query = reader.query, reader'.at = reader.at, reader'.stack = reader.stack,
         \A i \in 1..n : i \in reader'.lost <=> i \in reader.lost
  PROVE  \E su1, hi1, cs : Run(n, depth, su1, hi1, cs)'
<1>1. PICK q \in Seq(Instructions) : q = reader.query /\ q = reader'.query
  OBVIOUS
<1>2. /\ Deep(q, depth) /\ n \in 0..Len(q) /\ Nodes(su, hi, n)
      /\ RunOf(bs, n, q, su, hi, Settled, depth)
  BY <1>1 DEF Run
<1>3. PICK S, S1 : S \in SUBSET Docs /\ S1 \in SUBSET S /\ S = Settled /\ S1 = Settled'
  BY DEF Settled, Steady
<1>4. PICK su1, hi1 : su1 = [i \in 1..n |-> su[i] \cap S1] /\ hi1 = [i \in 1..n |-> hi[i] \cap S1]
  OBVIOUS
<1>5. \A i \in 1..n : su1[i] = su[i] \cap S1 /\ hi1[i] = hi[i] \cap S1
  BY <1>4
<1>6. Nodes(su1, hi1, n)'
  <2> SUFFICES ASSUME NEW i \in 1..n, NEW instr, instr = q[i]
               PROVE  su1[i] = Sure(i, instr)' /\ hi1[i] = Hits(instr)'
    BY <1>1 DEF Nodes
  <2>1. su[i] = Sure(i, instr) /\ hi[i] = Hits(instr)
    BY <1>1, <1>2 DEF Nodes
  <2> QED
    BY <1>3, <1>5, <2>1, BoundsStay
<1>7. PICK cs : RunOf(cs, n, q, su1, hi1, S1, depth) /\ CutOf(cs[n], bs[n], S1)
  <2>1. Sets(su, hi, n)
    BY <1>2, BoundsAreSets
  <2>2. RunOf(bs, n, q, su, hi, S, depth)
    BY <1>2, <1>3
  <2>3. AllCut(su1, hi1, su, hi, n, S1)
    BY <1>5 DEF AllCut
  <2>4. \E cs : RunOf(cs, n, q, su1, hi1, S1, depth) /\ CutOf(cs[n], bs[n], S1)
    BY <1>2, <1>3, <2>1, <2>2, <2>3, RunCut
  <2> QED
    BY <2>4
<1>8. Len(bs[n]) = depth[n]
  BY <1>2 DEF RunOf
<1>9. ASSUME NEW k \in 1..depth[n]
      PROVE  Suits(cs[n][k], reader.stack[k])'
  <2>1. cs[n][k] = Cut(bs[n][k], S1)
    BY <1>7, <1>8 DEF CutOf
  <2>2. PICK b, c, v : b = bs[n][k] /\ c = cs[n][k] /\ v = reader.stack[k] /\ v = reader'.stack[k]
    OBVIOUS
  <2>3. Suits(b, v)
    BY <2>2 DEF Run
  <2>4. c.least = b.least \cap S1 /\ c.most = b.most \cap S1
    BY <2>1, <2>2 DEF Cut
  <2>5. Suits(c, v)'
    BY <1>3, <2>3, <2>4 DEF Suits, Steady
  <2> QED
    BY <2>2, <2>5 DEF Suits
<1> QED
  BY <1>1, <1>2, <1>3, <1>6, <1>7, <1>9 DEF Run

(* The state before an instruction.                                        *)
AtNode(op, n, instr, depth, su, hi, bs) ==
  /\ reader \in Readers /\ reader # NoReader
  /\ n \in Nat /\ n + 1 <= Len(reader.query) /\ reader.at = n + 1
  /\ reader.query \in Seq(Instructions)
  /\ instr \in Instructions /\ instr = reader.query[n + 1] /\ instr = Instr /\ instr.op = op
  /\ Arity(instr) \in Nat /\ Arity(instr) <= depth[n]
  /\ Run(n, depth, su, hi, bs)
  /\ bs[n] \in Seq(Bounds) /\ Len(bs[n]) = depth[n]

LEMMA Expressions ==
  ASSUME NEW q \in Queries
  PROVE  q \in Seq(Instructions) /\ q # <<>> /\ \E depth : Deep(q, depth)
<1>1. IsExpression(q)
  BY QueriesAreExpressions
<1>2. PICK depth : Deep(q, depth)
  BY <1>1 DEF IsExpression, Deep
<1>3. q # <<>>
  BY <1>2 DEF Deep
<1> QED
  BY <1>1, <1>2, <1>3 DEF IsExpression

LEMMA NodesAre ==
  ASSUME QueryInv, NEW op, Evaluating(op)
  PROVE  \E n, instr, depth, su, hi, bs : AtNode(op, n, instr, depth, su, hi, bs)
<1>1. reader # NoReader /\ reader.at <= Len(reader.query) /\ Instr.op = op
  BY DEF Evaluating
<1>2. reader \in Readers
  BY <1>1 DEF QueryInv, Answering, ReaderTypeOK
<1>3. PICK n \in Nat : \E depth, su, hi, bs : Run(n, depth, su, hi, bs)
  BY <1>1 DEF QueryInv, Answering, Evaluated
<1>4. PICK depth, su, hi, bs : Run(n, depth, su, hi, bs)
  BY <1>3
<1>5. PICK q \in Seq(Instructions) : q = reader.query
  BY <1>2, Expressions DEF Readers
<1>6. reader.at = n + 1 /\ Deep(q, depth) /\ RunOf(bs, n, q, su, hi, Settled, depth)
  BY <1>4, <1>5 DEF Run
<1>7. n + 1 \in 1..Len(q) /\ (n + 1) - 1 = n /\ n \in 0..n
  BY <1>1, <1>5, <1>6
<1>8. PICK instr \in Instructions : instr = q[n + 1]
  BY <1>5, <1>7
<1>9. Arity(instr) \in Nat /\ Arity(instr) <= depth[n]
  BY <1>6, <1>7, <1>8, Arities DEF Deep
<1>10. bs[n] \in Seq(Bounds) /\ Len(bs[n]) = depth[n]
  BY <1>6, <1>7 DEF RunOf
<1>11. instr = Instr
  BY <1>5, <1>6, <1>8 DEF Instr
<1>12. AtNode(op, n, instr, depth, su, hi, bs)
  BY <1>1, <1>2, <1>4, <1>5, <1>6, <1>7, <1>8, <1>9, <1>10, <1>11 DEF AtNode
<1> QED
  BY <1>12

(* A value between the bounds of its node is pushed.                       *)
Judges(n, instr, bs, v) ==
  \A s, h : (s = Sure(n + 1, instr)' /\ h = Hits(instr)) =>
    Suits(JudgedBy(bs[n], instr, s, h, Settled), v)

Pushed(n, instr, v, lost) ==
  /\ lost \subseteq {n + 1}
  /\ Yields(v, lost)
  /\ UNCHANGED <<known, tf, df, times, allDocs, places, calls, posted>>

Moved(q, ls, st, l, u, n, instr, v, lost) ==
  /\ q \in Queries /\ st \in Seq(SUBSET Docs) /\ l \in SUBSET Nat /\ u \in SUBSET Docs
  /\ reader = [query |-> q, at |-> n + 1, lists |-> ls, stack |-> st, lost |-> l, unsettled |-> u]
  /\ reader' = [query |-> q, at |-> n + 2, lists |-> <<>>,
                stack |-> Replaced(st, instr, v), lost |-> l \cup lost, unsettled |-> u]

LEMMA PushedIs ==
  ASSUME NEW op, NEW n, NEW instr, NEW depth, NEW su, NEW hi, NEW bs,
         AtNode(op, n, instr, depth, su, hi, bs), NEW v, NEW lost, Pushed(n, instr, v, lost)
  PROVE  \E q, ls, st, l, u : Moved(q, ls, st, l, u, n, instr, v, lost)
<1>1. PICK q, l, u, ls, st :
        /\ reader = [query |-> q, at |-> n + 1, lists |-> ls, stack |-> st, lost |-> l, unsettled |-> u]
        /\ q \in Queries /\ st \in Seq(SUBSET Docs) /\ l \in SUBSET Nat /\ u \in SUBSET Docs
  BY DEF AtNode, Readers
<1>2. reader' = [query |-> q, at |-> n + 2, lists |-> <<>>,
                 stack |-> Replaced(st, instr, v), lost |-> l \cup lost, unsettled |-> u]
  <2>1. n + 2 = (n + 1) + 1
    BY DEF AtNode
  <2>2. Instr = instr
    BY DEF AtNode
  <2> QED
    BY <1>1, <2>1, <2>2 DEF Pushed, Yields, Replaced
<1>3. Moved(q, ls, st, l, u, n, instr, v, lost)
  BY <1>1, <1>2 DEF Moved
<1> QED
  BY <1>3

(* The evaluation goes on as it should with each value that is pushed.     *)
LEMMA Pushes ==
  ASSUME QueryInv, NEW op, NEW n, NEW instr, NEW depth, NEW su, NEW hi, NEW bs,
         AtNode(op, n, instr, depth, su, hi, bs), NEW v, NEW lost, Pushed(n, instr, v, lost),
         Judges(n, instr, bs, v)
  PROVE  Answering'
<1>0. PICK q, ls, st, l, u : Moved(q, ls, st, l, u, n, instr, v, lost)
  BY PushedIs
<1>1. /\ q \in Seq(Instructions) /\ st \in Seq(SUBSET Docs)
      /\ q = reader.query /\ q = reader'.query /\ q \in Queries
      /\ st = reader.stack /\ reader'.stack = Replaced(st, instr, v)
      /\ reader'.at = n + 2 /\ reader'.lists = <<>>
      /\ reader.lost = l /\ reader'.lost = l \cup lost
      /\ reader.unsettled = u /\ reader'.unsettled = u
      /\ reader # NoReader
  BY <1>0, Expressions DEF Moved, AtNode
<1>2. /\ n \in Nat /\ n + 1 <= Len(q) /\ instr \in Instructions /\ instr = q[n + 1]
      /\ Arity(instr) \in Nat /\ Arity(instr) <= depth[n]
      /\ bs[n] \in Seq(Bounds) /\ Len(bs[n]) = depth[n] /\ Len(st) = depth[n]
      /\ Deep(q, depth) /\ Nodes(su, hi, n) /\ RunOf(bs, n, q, su, hi, Settled, depth)
      /\ \A k \in 1..depth[n] : Suits(bs[n][k], st[k])
  BY <1>1 DEF AtNode, Run
<1>3. Settled' = Settled /\ Steady
  <2>1. Settled' = Settled
    BY <1>1 DEF Settled, Pushed
  <2> QED
    BY <2>1 DEF Steady, Pushed, Settled
<1>4. PICK S \in SUBSET Docs : S = Settled
  BY DEF Settled
<1>5. v \in SUBSET Docs
  BY DEF Judges, Suits, QueryInv, IndexInv, IndexTypeOK
<1>6. ReaderTypeOK'
  <2>1. Topped(Replaced(st, instr, v), st, Arity(instr), v, SUBSET Docs)
    BY <1>1, <1>2, <1>5, ReplacedIs
  <2>2. PICK st1 \in Seq(SUBSET Docs) : st1 = Replaced(st, instr, v)
    BY <1>1, <2>1 DEF Topped
  <2>3. n + 2 \in Nat \ {0} /\ lost \in SUBSET Nat
    BY <1>2 DEF Pushed
  <2>4. PICK l1 \in SUBSET Nat : l1 = l \cup lost
    BY <1>0, <2>3 DEF Moved
  <2>5. <<>> \in Seq(Listings)
    OBVIOUS
  <2>6. reader' = [query |-> q, at |-> n + 2, lists |-> <<>>, stack |-> st1, lost |-> l1, unsettled |-> u]
    BY <1>0, <2>2, <2>4 DEF Moved
  <2>7. q \in Queries /\ u \in SUBSET Docs
    BY <1>0 DEF Moved
  <2>8. reader' \in Readers
    BY <2>3, <2>5, <2>6, <2>7 DEF Readers
  <2> QED
    BY <2>8 DEF ReaderTypeOK
<1>7. CallsUnsettled'
  BY <1>1 DEF CallsUnsettled, Pushed, QueryInv, Answering
<1>8. Gathered'
  BY <1>1 DEF Gathered
<1>9. PICK s, h : s = Sure(n + 1, instr)' /\ h = Hits(instr)
  OBVIOUS
<1>10. PICK su1, hi1 : /\ su1 = [i \in 1..(n + 1) |-> IF i = n + 1 THEN s ELSE su[i]]
                       /\ hi1 = [i \in 1..(n + 1) |-> IF i = n + 1 THEN h ELSE hi[i]]
  OBVIOUS
<1>11. \A i \in 1..(n + 1) : i = n + 1 \/ i \in 1..n
  BY <1>2
<1>12. /\ su1[n + 1] = s /\ hi1[n + 1] = h
       /\ \A i \in 1..n : su1[i] = su[i] /\ hi1[i] = hi[i]
  <2>1. n + 1 \in 1..(n + 1) /\ \A i \in 1..n : i \in 1..(n + 1) /\ i # n + 1
    BY <1>2
  <2> QED
    BY <1>10, <2>1
<1>13. Nodes(su1, hi1, n + 1)'
  <2> SUFFICES ASSUME NEW i \in 1..(n + 1), NEW e, e = q[i]
               PROVE  su1[i] = Sure(i, e)' /\ hi1[i] = Hits(e)'
    BY <1>1 DEF Nodes
  <2>1. \A x : Hits(x)' = Hits(x)
    BY <1>3, BoundsStay DEF Hits
  <2>2. CASE i = n + 1
    BY <1>2, <1>9, <1>12, <2>1, <2>2
  <2>3. CASE i \in 1..n
    <3>1. su[i] = Sure(i, e) /\ hi[i] = Hits(e)
      BY <1>1, <1>2, <2>3 DEF Nodes
    <3>2. i \in reader'.lost <=> i \in reader.lost
      BY <1>1, <1>2, <2>3 DEF Pushed
    <3>3. Sure(i, e)' = Sure(i, e) \cap Settled'
      BY <1>3, <3>2, BoundsStay
    <3>4. Sure(i, e) \subseteq Settled
      BY DEF Sure, Hits
    <3> QED
      BY <1>3, <1>12, <2>1, <2>3, <3>1, <3>3, <3>4
  <2> QED
    BY <1>11, <2>2, <2>3
<1>14. Sets(su1, hi1, n + 1)
  <2>1. Sets(su, hi, n)
    BY <1>2, BoundsAreSets
  <2>2. s \in SUBSET Docs /\ h \in SUBSET Docs
    BY <1>9 DEF Sure, Hits, Settled
  <2> QED
    BY <1>11, <1>12, <2>1, <2>2 DEF Sets
<1>15. RunOf(bs, n, q, su1, hi1, S, depth)
  BY <1>2, <1>4, <1>12 DEF RunOf
<1>16. PICK j : j = JudgedBy(bs[n], instr, s, h, S)
  OBVIOUS
<1>17. PICK cs : RunOf(cs, n + 1, q, su1, hi1, S, depth) /\ cs[n + 1] = Replaced(bs[n], instr, j)
  <2>1. \E cs : /\ RunOf(cs, n + 1, q, su1, hi1, S, depth)
                /\ cs[n + 1] = Replaced(bs[n], q[n + 1],
                                 JudgedBy(bs[n], q[n + 1], su1[n + 1], hi1[n + 1], S))
    BY <1>1, <1>2, <1>14, <1>15, RunGrows
  <2> QED
    BY <1>2, <1>12, <1>16, <2>1
<1>18. Suits(j, v)
  BY <1>4, <1>9, <1>16 DEF Judges
<1>19. \A b, x : Suits(b, x)' <=> Suits(b, x)
  BY <1>3 DEF Suits, Pushed
<1>20. j \in Bounds
  <2>1. s \in SUBSET Docs /\ h \in SUBSET Docs
    BY <1>9 DEF Sure, Hits, Settled
  <2>2. Arity(instr) <= Len(bs[n])
    BY <1>2
  <2> QED
    BY <1>2, <1>16, <2>1, <2>2, JudgedIsBounds
<1>21. PICK l1 \in Nat : l1 = depth[n] - Arity(instr)
  BY <1>2
<1>22. depth[n + 1] = l1 + 1
  <2>1. n + 1 \in 1..Len(q) /\ (n + 1) - 1 = n
    BY <1>1, <1>2
  <2> QED
    BY <1>2, <1>21, <2>1 DEF Deep
<1>23. PICK c, r : c = cs[n + 1] /\ r = reader'.stack
  OBVIOUS
<1>24. Topped(c, bs[n], Arity(instr), j, Bounds)
  BY <1>2, <1>17, <1>20, <1>23, ReplacedIs
<1>25. Topped(r, st, Arity(instr), v, SUBSET Docs)
  BY <1>1, <1>2, <1>5, <1>23, ReplacedIs
<1>26. /\ Len(r) = l1 + 1 /\ c[l1 + 1] = j /\ r[l1 + 1] = v
       /\ \A k \in 1..l1 : c[k] = bs[n][k] /\ r[k] = st[k] /\ k \in 1..depth[n]
  BY <1>2, <1>21, <1>24, <1>25 DEF Topped
<1>27. ASSUME NEW k \in 1..(l1 + 1)
       PROVE  Suits(c[k], r[k])
  <2>1. k = l1 + 1 \/ k \in 1..l1
    OBVIOUS
  <2> QED
    BY <1>2, <1>18, <1>26, <2>1
<1>28. \A k \in 1..depth[n + 1] : Suits(cs[n + 1][k], reader.stack[k])'
  BY <1>19, <1>22, <1>23, <1>27
<1>29. n + 1 \in Nat /\ reader'.at = (n + 1) + 1
  BY <1>1, <1>2
<1>30. Run(n + 1, depth, su1, hi1, cs)'
  BY <1>1, <1>2, <1>3, <1>4, <1>13, <1>17, <1>22, <1>23, <1>26, <1>28, <1>29 DEF Run
<1>31. Evaluated'
  BY <1>29, <1>30 DEF Evaluated
<1> QED
  BY <1>6, <1>7, <1>8, <1>31 DEF Answering

LEMMA PushedStays ==
  ASSUME NEW op, NEW n, NEW instr, NEW depth, NEW su, NEW hi, NEW bs,
         AtNode(op, n, instr, depth, su, hi, bs), NEW v, NEW lost, Pushed(n, instr, v, lost)
  PROVE  /\ Settled' = Settled /\ Steady
         /\ reader'.lost = reader.lost \cup lost
<1>1. PICK q, ls, st, l, u : Moved(q, ls, st, l, u, n, instr, v, lost)
  BY PushedIs
<1>2. reader'.lost = reader.lost \cup lost /\ reader'.unsettled = reader.unsettled
  BY <1>1 DEF Moved
<1>3. Settled' = Settled
  BY <1>2 DEF Settled, Pushed
<1> QED
  BY <1>2, <1>3 DEF Steady, Pushed

(* What a lookup may answer with.                                          *)
LEMMA LookupJudges ==
  ASSUME NEW op, NEW n, NEW instr, NEW depth, NEW su, NEW hi, NEW bs,
         AtNode(op, n, instr, depth, su, hi, bs), op \in {"term", "phrase"},
         NEW v, NEW lost, Pushed(n, instr, v, lost),
         v \subseteq allDocs, v \cap Settled \subseteq Hits(instr),
         n + 1 \notin reader.lost \cup lost =>
           \A d \in Hits(instr) : (op = "term" \/ Plain(d, instr.words)) => d \in v
  PROVE  Judges(n, instr, bs, v)
<1> SUFFICES ASSUME NEW s, NEW h, s = Sure(n + 1, instr)', h = Hits(instr)
             PROVE  Suits(JudgedBy(bs[n], instr, s, h, Settled), v)
  BY DEF Judges
<1>1. instr.op = op
  BY DEF AtNode
<1>2. JudgedBy(bs[n], instr, s, h, Settled) = [least |-> s, most |-> h]
  BY <1>1 DEF JudgedBy
<1>3. /\ Settled' = Settled /\ Steady
      /\ reader'.lost = reader.lost \cup lost
  BY PushedStays
<1>4. Hits(instr)' = Hits(instr)
  BY <1>3, BoundsStay DEF Hits
<1>5. ASSUME NEW d \in s
      PROVE  d \in v
  <2>1. n + 1 \notin reader.lost \cup lost
    BY <1>3 DEF Sure
  <2>2. d \in Hits(instr)
    BY <1>4 DEF Sure
  <2>3. op = "term" \/ Plain(d, instr.words)'
    BY <1>1 DEF Sure
  <2>4. d \in Settled'
    BY <1>3, <2>2 DEF Hits
  <2>5. op = "term" \/ Plain(d, instr.words)
    BY <1>3, <2>3, <2>4, FoundStays
  <2> QED
    BY <2>1, <2>2, <2>5
<1>6. s \subseteq v
  BY <1>5
<1> QED
  BY <1>2, <1>6 DEF Suits

LEMMA LostIs ==
  ASSUME NEW w, NEW result
  PROVE  /\ Lost(w, result) \subseteq {reader.at}
         /\ reader.at \notin Lost(w, result) => ~ReadsInPart(w, result)
  BY DEF Lost

(* The instructions, one by one.                                           *)
LEMMA TermKeeps ==
  ASSUME QueryInv, EvalTerm
  PROVE  Answering'
<1>1. PICK n, instr, depth, su, hi, bs : AtNode("term", n, instr, depth, su, hi, bs)
  BY NodesAre DEF EvalTerm
<1>2. PICK w \in Words : w = instr.word
  BY <1>1 DEF AtNode, Instructions
<1>3. PICK result \in LookupResults(w) : Yields(DOMAIN result, Lost(w, result))
  BY <1>1, <1>2 DEF EvalTerm, AtNode
<1>4. PICK v, lost : v = DOMAIN result /\ lost = Lost(w, result)
  OBVIOUS
<1>5. Pushed(n, instr, v, lost)
  <2>1. lost \subseteq {n + 1}
    BY <1>1, <1>4, LostIs DEF AtNode
  <2>2. UNCHANGED <<known, tf, df, times, allDocs, places, calls, posted>>
    BY DEF EvalTerm, Evaluating
  <2> QED
    BY <1>3, <1>4, <2>1, <2>2 DEF Pushed
<1>6. Finds(result, w) /\ (ReadsInPart(w, result) \/ FindsAll(result, w))
  BY <1>1, LookupIs DEF QueryInv, Answering, AtNode
<1>7. v \subseteq allDocs
  BY <1>4, <1>6 DEF Finds
<1>8. Hits(instr) = {d \in Settled : Found(d, w) # {}}
  BY <1>1, <1>2 DEF Hits, AtNode
<1>9. v \cap Settled \subseteq Hits(instr)
  <2> SUFFICES ASSUME NEW d \in v \cap Settled PROVE Found(d, w) # {}
    BY <1>8
  <2>1. PICK s : s = result[d]
    OBVIOUS
  <2>2. s # <<>> /\ ToSet(s) \subseteq Found(d, w) /\ s \in Seq(Nat)
    BY <1>4, <1>6, <2>1 DEF Finds, Listings
  <2>3. ToSet(s) # {}
    BY <2>2, EmptyList
  <2> QED
    BY <2>2, <2>3
<1>10. n + 1 \notin reader.lost \cup lost => \A d \in Hits(instr) : d \in v
  BY <1>1, <1>4, <1>6, <1>8, LostIs DEF AtNode, FindsAll
<1>11. Judges(n, instr, bs, v)
  BY <1>1, <1>5, <1>7, <1>9, <1>10, LookupJudges
<1> QED
  BY <1>1, <1>5, <1>11, Pushes

LEMMA PhraseMatchKeeps ==
  ASSUME QueryInv, EvalPhraseMatch
  PROVE  Answering'
<1>1. PICK n, instr, depth, su, hi, bs : AtNode("phrase", n, instr, depth, su, hi, bs)
  BY NodesAre DEF EvalPhraseMatch
<1>2. PICK phrase \in Seq(Words) : phrase = instr.words
  BY <1>1 DEF AtNode, Instructions
<1>3. PICK words, lists : words = QueryWords(phrase) /\ lists = reader.lists
  OBVIOUS
<1>4. Len(lists) = Len(words) /\ Yields(Matching(lists, words), {})
  BY <1>1, <1>2, <1>3 DEF EvalPhraseMatch, AtNode, Matching
<1>5. lists \in Seq(Listings)
  BY <1>1, <1>3 DEF AtNode, Readers
<1>6. \A k \in 1..Len(lists) : Tells(lists[k], words[k].stemmed)
  BY <1>1, <1>2, <1>3 DEF AtNode, QueryInv, Answering, Gathered
<1>7. PICK v : v = Matching(lists, words)
  OBVIOUS
<1>8. Pushed(n, instr, v, {})
  BY <1>4, <1>7 DEF Pushed, EvalPhraseMatch, Evaluating
<1>9. IndexTypeOK
  BY DEF QueryInv, IndexInv
<1>10. \A k \in 1..Len(lists) : Finds(lists[k], words[k].stemmed)
  BY <1>6 DEF Tells
<1>11. /\ v \subseteq allDocs
       /\ \A d \in v \cap Settled : Follow(d, phrase)
       /\ (\A k \in 1..Len(lists) : FindsAll(lists[k], words[k].stemmed)) =>
            \A d \in Settled : Follow(d, phrase) /\ Plain(d, phrase) => d \in v
  BY <1>3, <1>4, <1>5, <1>7, <1>9, <1>10, MatchingIs
<1>12. Hits(instr) = {d \in Settled : Follow(d, phrase)}
  BY <1>1, <1>2 DEF Hits, AtNode
<1>13. v \cap Settled \subseteq Hits(instr)
  BY <1>11, <1>12
<1>14. n + 1 \notin reader.lost \cup {} => \A d \in Hits(instr) : Plain(d, phrase) => d \in v
  <2>1. n + 1 \notin reader.lost => \A k \in 1..Len(lists) : FindsAll(lists[k], words[k].stemmed)
    BY <1>1, <1>6 DEF Tells, AtNode
  <2> QED
    BY <1>11, <1>12, <2>1
<1>15. Judges(n, instr, bs, v)
  BY <1>1, <1>2, <1>8, <1>11, <1>13, <1>14, LookupJudges
<1> QED
  BY <1>1, <1>8, <1>15, Pushes

(* What the values of the operands of a node are between.                  *)
LEMMA OperandsSuit ==
  ASSUME NEW op, NEW n, NEW instr, NEW depth, NEW su, NEW hi, NEW bs,
         AtNode(op, n, instr, depth, su, hi, bs)
  PROVE  /\ op = "not" => Suits(bs[n][Len(bs[n])], Top(0))
         /\ op \in {"and", "or"} => /\ Suits(bs[n][Len(bs[n])], Top(0))
                                    /\ Suits(bs[n][Len(bs[n]) - 1], Top(1))
<1>1. PICK m \in Nat, st \in Seq(SUBSET Docs) :
        m = Len(bs[n]) /\ m = Len(st) /\ m = depth[n] /\ st = reader.stack
  BY DEF AtNode, Run, Readers
<1>2. \A k \in 1..m : Suits(bs[n][k], st[k])
  BY <1>1 DEF AtNode, Run
<1>3. op = "not" => m \in 1..m
  BY <1>1, Arities DEF AtNode
<1>4. op \in {"and", "or"} => m \in 1..m /\ m - 1 \in 1..m
  BY <1>1, Arities DEF AtNode
<1>5. Top(0) = st[m] /\ Top(1) = st[m - 1]
  <2>1. Top(0) = st[m - 0] /\ Top(1) = st[m - 1]
    BY ONLY <1>1 DEF Top
  <2>2. m - 0 = m
    OBVIOUS
  <2> QED
    BY <2>1, <2>2
<1> QED
  BY <1>1, <1>2, <1>3, <1>4, <1>5

LEMMA SettledAreEntered ==
  ASSUME IndexInv
  PROVE  Settled \subseteq allDocs
  BY DEF IndexInv, Entered, Settled

LEMMA OperationKeeps ==
  ASSUME QueryInv, EvalAnd \/ EvalOr \/ EvalNot \/ EvalNil
  PROVE  Answering'
<1>1. CASE EvalAnd
  <2>1. PICK n, instr, depth, su, hi, bs : AtNode("and", n, instr, depth, su, hi, bs)
    BY <1>1, NodesAre DEF EvalAnd
  <2>2. PICK v, vx, vy, x, y : /\ vx = Top(0) /\ vy = Top(1) /\ v = vy \cap vx
                               /\ x = bs[n][Len(bs[n])] /\ y = bs[n][Len(bs[n]) - 1]
    OBVIOUS
  <2>3. Pushed(n, instr, v, {})
    BY <1>1, <2>2 DEF EvalAnd, Evaluating, Pushed
  <2>4. Suits(x, vx) /\ Suits(y, vy)
    BY <2>1, <2>2, OperandsSuit
  <2>5. \A s, h : JudgedBy(bs[n], instr, s, h, Settled)
                    = [least |-> y.least \cap x.least, most |-> y.most \cap x.most]
    BY <2>1, <2>2 DEF JudgedBy, AtNode
  <2>6. Suits([least |-> y.least \cap x.least, most |-> y.most \cap x.most], v)
    BY <2>2, <2>4 DEF Suits
  <2>7. Judges(n, instr, bs, v)
    BY <2>5, <2>6 DEF Judges
  <2> QED
    BY <2>1, <2>3, <2>7, Pushes
<1>2. CASE EvalOr
  <2>1. PICK n, instr, depth, su, hi, bs : AtNode("or", n, instr, depth, su, hi, bs)
    BY <1>2, NodesAre DEF EvalOr
  <2>2. PICK v, vx, vy, x, y : /\ vx = Top(0) /\ vy = Top(1) /\ v = vy \cup vx
                               /\ x = bs[n][Len(bs[n])] /\ y = bs[n][Len(bs[n]) - 1]
    OBVIOUS
  <2>3. Pushed(n, instr, v, {})
    BY <1>2, <2>2 DEF EvalOr, Evaluating, Pushed
  <2>4. Suits(x, vx) /\ Suits(y, vy)
    BY <2>1, <2>2, OperandsSuit
  <2>5. \A s, h : JudgedBy(bs[n], instr, s, h, Settled)
                    = [least |-> y.least \cup x.least, most |-> y.most \cup x.most]
    BY <2>1, <2>2 DEF JudgedBy, AtNode
  <2>6. Suits([least |-> y.least \cup x.least, most |-> y.most \cup x.most], v)
    BY <2>2, <2>4 DEF Suits
  <2>7. Judges(n, instr, bs, v)
    BY <2>5, <2>6 DEF Judges
  <2> QED
    BY <2>1, <2>3, <2>7, Pushes
<1>3. CASE EvalNot
  <2>1. PICK n, instr, depth, su, hi, bs : AtNode("not", n, instr, depth, su, hi, bs)
    BY <1>3, NodesAre DEF EvalNot
  <2>2. PICK v, vx, x : vx = Top(0) /\ v = allDocs \ vx /\ x = bs[n][Len(bs[n])]
    OBVIOUS
  <2>3. Pushed(n, instr, v, {})
    BY <1>3, <2>2 DEF EvalNot, Evaluating, Pushed
  <2>4. Suits(x, vx)
    BY <2>1, <2>2, OperandsSuit
  <2>5. \A s, h : JudgedBy(bs[n], instr, s, h, Settled)
                    = [least |-> Settled \ x.most, most |-> Settled \ x.least]
    BY <2>1, <2>2 DEF JudgedBy, AtNode
  <2>6. Settled \subseteq allDocs
    BY SettledAreEntered DEF QueryInv
  <2>7. Suits([least |-> Settled \ x.most, most |-> Settled \ x.least], v)
    BY <2>2, <2>4, <2>6 DEF Suits
  <2>8. Judges(n, instr, bs, v)
    BY <2>5, <2>7 DEF Judges
  <2> QED
    BY <2>1, <2>3, <2>8, Pushes
<1>4. CASE EvalNil
  <2>1. PICK n, instr, depth, su, hi, bs : AtNode("nil", n, instr, depth, su, hi, bs)
    BY <1>4, NodesAre DEF EvalNil
  <2>2. Pushed(n, instr, {}, {})
    BY <1>4 DEF EvalNil, Evaluating, Pushed
  <2>3. \A s, h : JudgedBy(bs[n], instr, s, h, Settled) = [least |-> {}, most |-> {}]
    BY <2>1 DEF JudgedBy, AtNode
  <2>4. Suits([least |-> {}, most |-> {}], {})
    BY DEF Suits
  <2>5. Judges(n, instr, bs, {})
    BY <2>3, <2>4 DEF Judges
  <2> QED
    BY <2>1, <2>2, <2>5, Pushes
<1> QED
  BY <1>1, <1>2, <1>3, <1>4

(* The postings of one more word of a phrase.                              *)
LEMMA PhraseWordKeeps ==
  ASSUME QueryInv, EvalPhraseWord
  PROVE  Answering'
<1>1. PICK n, instr, depth, su, hi, bs : AtNode("phrase", n, instr, depth, su, hi, bs)
  BY NodesAre DEF EvalPhraseWord
<1>2. PICK phrase \in Seq(Words) : phrase = instr.words
  BY <1>1 DEF AtNode, Instructions
<1>3. PICK words, lists, m :
        /\ words = QueryWords(phrase) /\ lists = reader.lists /\ m = Len(lists)
        /\ lists \in Seq(Listings) /\ m \in Nat
  <2>1. reader.lists \in Seq(Listings)
    BY <1>1 DEF AtNode, Readers
  <2>2. Len(reader.lists) \in Nat
    BY <2>1
  <2> QED
    BY <2>1, <2>2
<1>4. m + 1 <= Len(words)
  BY <1>1, <1>2, <1>3 DEF EvalPhraseWord, AtNode
<1>5. PICK w : w = words[m + 1].stemmed
  OBVIOUS
<1>6. PICK result \in LookupResults(w) :
        reader' = [reader EXCEPT !.lists = Append(@, result),
                                 !.lost = @ \cup Lost(w, result)]
  BY <1>1, <1>2, <1>3, <1>5 DEF EvalPhraseWord, AtNode
<1>7. w \in Words
  <2>1. PICK kept, l : LooksFor(words, phrase, kept, l)
    BY <1>3, QueryIs
  <2>2. m + 1 \in 1..l
    BY <1>3, <1>4, <2>1 DEF LooksFor
  <2>3. kept[m + 1] \in Kept(phrase) /\ w = Stem[phrase[kept[m + 1]]]
    BY <1>5, <2>1, <2>2 DEF LooksFor
  <2>4. phrase[kept[m + 1]] \in Words
    BY <2>3 DEF Kept
  <2> QED
    BY <2>3, <2>4, StemsAreWords
<1>8. Finds(result, w) /\ (ReadsInPart(w, result) \/ FindsAll(result, w))
  BY <1>1, <1>7, LookupIs DEF QueryInv, Answering, AtNode
<1>9. PICK l : l = Append(lists, result)
  OBVIOUS
<1>10. result \in Listings
  BY <1>8 DEF Finds
<1>11. /\ l \in Seq(Listings) /\ Len(l) = m + 1 /\ l[m + 1] = result
       /\ \A k \in 1..m : l[k] = lists[k]
  BY <1>3, <1>9, <1>10
<1>12. PICK q, st, lost, u :
         /\ reader = [query |-> q, at |-> n + 1, lists |-> lists, stack |-> st, lost |-> lost, unsettled |-> u]
         /\ q \in Queries /\ st \in Seq(SUBSET Docs) /\ lost \in SUBSET Nat /\ u \in SUBSET Docs
  BY <1>1, <1>3 DEF AtNode, Readers
<1>13. PICK more : more = Lost(w, result) /\ more \subseteq {n + 1}
                   /\ (n + 1 \notin more => ~ReadsInPart(w, result))
  BY <1>1, LostIs DEF AtNode
<1>14. reader' = [query |-> q, at |-> n + 1, lists |-> l, stack |-> st, lost |-> lost \cup more,
                  unsettled |-> u]
  BY <1>6, <1>9, <1>12, <1>13
<1>15. UNCHANGED <<known, tf, df, times, allDocs, places, calls, posted>>
  BY DEF EvalPhraseWord, Evaluating
<1>16. Settled' = Settled /\ Steady
  <2>1. Settled' = Settled
    BY <1>12, <1>14, <1>15 DEF Settled
  <2> QED
    BY <1>15, <2>1 DEF Steady
<1>17. n \in Nat /\ n + 1 \in Nat
  BY <1>1 DEF AtNode
<1>18. ReaderTypeOK'
  <2>1. PICK some \in SUBSET Nat : some = lost \cup more
    BY <1>12, <1>13, <1>17
  <2>2. reader' \in Readers
    BY <1>11, <1>12, <1>14, <1>17, <2>1 DEF Readers
  <2> QED
    BY <2>2 DEF ReaderTypeOK
<1>19. reader # NoReader
  BY <1>1 DEF AtNode
<1>20. CallsUnsettled'
  BY <1>12, <1>14, <1>15, <1>19 DEF CallsUnsettled, QueryInv, Answering
<1>21. Evaluated'
  <2>1. \A i \in 1..n : i \in reader'.lost <=> i \in reader.lost
    BY <1>12, <1>13, <1>14, <1>17
  <2>2. reader.query \in Seq(Instructions) /\ Run(n, depth, su, hi, bs)
    BY <1>1 DEF AtNode
  <2>3. reader'.query = reader.query /\ reader'.at = reader.at /\ reader'.stack = reader.stack
    BY <1>12, <1>14
  <2>4. \E su1, hi1, cs : Run(n, depth, su1, hi1, cs)'
    BY <1>16, <1>17, <2>1, <2>2, <2>3, RunStays
  <2> QED
    BY <1>17, <2>4 DEF Evaluated
<1>22. Gathered'
  <2>1. \A k \in 1..m : Tells(lists[k], words[k].stemmed)
    BY <1>1, <1>2, <1>3 DEF AtNode, QueryInv, Answering, Gathered
  <2>2. reader'.at = reader.at /\ reader.lost \subseteq reader'.lost
    BY <1>12, <1>14
  <2>3. \A k \in 1..m : Tells(lists[k], words[k].stemmed)'
    BY <1>16, <2>1, <2>2, TellsStay
  <2>4. Tells(result, w)'
    <3>1. Finds(result, w)' /\ (FindsAll(result, w) => FindsAll(result, w)')
      BY <1>8, <1>16, FoundStays DEF Finds, FindsAll, Steady
    <3>2. reader'.at \in reader'.lost \/ FindsAll(result, w)
      BY <1>8, <1>13, <1>14
    <3> QED
      BY <3>1, <3>2 DEF Tells
  <2>5. \A k \in 1..(m + 1) : k = m + 1 \/ k \in 1..m
    BY <1>3
  <2>6. \A k \in 1..(m + 1) : Tells(l[k], words[k].stemmed)'
    BY <1>5, <1>11, <2>3, <2>4, <2>5
  <2>7. reader'.lists = l /\ reader'.query[reader'.at] = instr
    BY <1>1, <1>12, <1>14 DEF AtNode
  <2> QED
    BY <1>2, <1>3, <1>11, <2>6, <2>7 DEF Gathered, Tells
<1> QED
  BY <1>18, <1>20, <1>21, <1>22 DEF Answering

(* The steps of Index and of the tree.                                     *)
Goes(w, d) ==
  /\ calls[w] # Idle /\ calls[w].doc = d
  /\ \A e \in Docs \ {d} : posted'[e] = posted[e]
  /\ \A v \in Writers : calls'[v] # Idle => calls[v] # Idle /\ calls'[v].doc = calls[v].doc
  /\ UNCHANGED <<allDocs, reader>>

LEMMA WriterGoes ==
  ASSUME IndexTypeOK, NEW w \in Writers, IndexCount(w) \/ IndexPut(w)
  PROVE  \E d \in Docs : Goes(w, d)
<1>1. CASE IndexCount(w)
  <2>1. PICK d \in Docs, text \in Texts :
          calls[w].stage = "count" /\ calls[w].doc = d /\ calls[w].text = text
    BY <1>1, CallFields DEF IndexCount, Counting
  <2>2. /\ calls' = [calls EXCEPT ![w] = After(d, text, Terms(text))]
        /\ posted' = IF Terms(text) = {} THEN [posted EXCEPT ![d] = @ \cup {text}] ELSE posted
        /\ UNCHANGED <<allDocs, reader>>
    BY <1>1, <2>1 DEF IndexCount, GoOn, After
  <2>3. \A v \in Writers : calls'[v] # Idle => calls[v] # Idle /\ calls'[v].doc = calls[v].doc
    BY <2>1, <2>2 DEF IndexTypeOK, After, Idle
  <2>4. \A e \in Docs \ {d} : posted'[e] = posted[e]
    BY <2>2 DEF IndexTypeOK
  <2> QED
    BY <2>1, <2>2, <2>3, <2>4 DEF Goes, Idle
<1>2. CASE IndexPut(w)
  <2>1. PICK d \in Docs, text \in Texts, left \in SUBSET Words :
          \E u \in left : PutStep(w, d, text, left, u)
    BY <1>2, PutIs
  <2>2. PICK u \in left : PutStep(w, d, text, left, u)
    BY <2>1
  <2>3. \A v \in Writers : calls'[v] # Idle => calls[v] # Idle /\ calls'[v].doc = calls[v].doc
    BY <2>2 DEF IndexTypeOK, After, Idle, PutStep
  <2>4. \A e \in Docs \ {d} : posted'[e] = posted[e]
    BY <2>2 DEF IndexTypeOK, PutStep
  <2> QED
    <3>1. calls[w] = [stage |-> "put", doc |-> d, text |-> text, left |-> left]
      BY <2>2 DEF PutStep
    <3>2. calls[w].stage = "put" /\ calls[w].doc = d /\ Idle.stage = "idle"
      BY <3>1 DEF Idle
    <3>3. calls[w] # Idle
      BY <3>2
    <3>4. UNCHANGED <<allDocs, reader>>
      BY <2>2 DEF PutStep
    <3> QED
      BY <2>3, <2>4, <3>2, <3>3, <3>4 DEF Goes
<1> QED
  BY <1>1, <1>2

(* Beside a query, only documents are unsettled.                           *)
LEMMA BesideQueryKeeps ==
  ASSUME Answering, IndexTypeOK, CallsUnsettled',
         \/ reader' = reader
         \/ reader # NoReader /\ \E d \in Docs : reader' = [reader EXCEPT !.unsettled = @ \cup {d}],
         reader # NoReader => Steady
  PROVE  Answering'
<1>1. CASE reader = NoReader
  <2>1. reader' = NoReader
    BY <1>1
  <2> QED
    BY <2>1 DEF Answering, ReaderTypeOK, Evaluated, Gathered
<1>2. CASE reader # NoReader
  <2>1. PICK q, n1, ls, st, lost, u :
          /\ reader = [query |-> q, at |-> n1, lists |-> ls, stack |-> st, lost |-> lost, unsettled |-> u]
          /\ q \in Queries /\ n1 \in Nat \ {0} /\ ls \in Seq(Listings)
          /\ st \in Seq(SUBSET Docs) /\ lost \in SUBSET Nat /\ u \in SUBSET Docs
    BY <1>2 DEF Answering, ReaderTypeOK, Readers
  <2>2. PICK u1 \in SUBSET Docs :
          reader' = [query |-> q, at |-> n1, lists |-> ls, stack |-> st, lost |-> lost, unsettled |-> u1]
    <3>1. CASE reader' = reader
      BY <2>1, <3>1
    <3>2. ASSUME NEW d \in Docs, reader' = [reader EXCEPT !.unsettled = @ \cup {d}]
          PROVE  \E u1 \in SUBSET Docs :
                   reader' = [query |-> q, at |-> n1, lists |-> ls, stack |-> st, lost |-> lost, unsettled |-> u1]
      <4>1. u \cup {d} \in SUBSET Docs
        BY <2>1
      <4>2. reader' = [query |-> q, at |-> n1, lists |-> ls, stack |-> st, lost |-> lost,
                       unsettled |-> u \cup {d}]
        BY <2>1, <3>2
      <4> QED
        BY <4>1, <4>2
    <3> QED
      BY <3>1, <3>2
  <2>3. ReaderTypeOK'
    <3>1. reader' \in Readers
      BY <2>1, <2>2 DEF Readers
    <3> QED
      BY <3>1 DEF ReaderTypeOK
  <2>4. /\ reader'.query = reader.query /\ reader'.at = reader.at /\ reader'.stack = reader.stack
        /\ reader'.lists = reader.lists /\ reader'.lost = reader.lost
        /\ reader.query \in Queries
    BY <2>1, <2>2
  <2>5. Evaluated'
    <3>1. PICK n \in Nat : \E depth, su, hi, bs : Run(n, depth, su, hi, bs)
      BY <1>2 DEF Answering, Evaluated
    <3>2. PICK depth, su, hi, bs : Run(n, depth, su, hi, bs)
      BY <3>1
    <3>3. reader.query \in Seq(Instructions)
      BY <2>4, Expressions
    <3>4. \E su1, hi1, cs : Run(n, depth, su1, hi1, cs)'
      BY <1>2, <2>4, <3>2, <3>3, RunStays
    <3> QED
      BY <3>4 DEF Evaluated
  <2>6. Gathered'
    <3> SUFFICES ASSUME NEW instr, reader'.at <= Len(reader'.query),
                        instr = reader'.query[reader'.at], instr.op = "phrase",
                        NEW k \in 1..Len(reader'.lists)
                 PROVE  Tells(reader.lists[k], QueryWords(instr.words)[k].stemmed)'
      BY DEF Gathered
    <3>1. PICK list, w : list = reader.lists[k] /\ w = QueryWords(instr.words)[k].stemmed
      OBVIOUS
    <3>2. Tells(list, w)
      BY <1>2, <2>4, <3>1 DEF Answering, Gathered
    <3>3. Tells(list, w)'
      BY <1>2, <2>4, <3>2, TellsStay
    <3>4. reader'.lists[k] = list
      BY <2>4, <3>1
    <3> QED
      BY <3>1, <3>3, <3>4 DEF Tells
  <2> QED
    BY <2>3, <2>5, <2>6 DEF Answering
<1> QED
  BY <1>1, <1>2

LEMMA WritersKeep ==
  ASSUME QueryInv, NEW w \in Writers, IndexCount(w) \/ IndexPut(w)
  PROVE  Answering'
<1>1. Answering /\ IndexTypeOK
  BY DEF QueryInv, IndexInv
<1>2. PICK d \in Docs : Goes(w, d)
  BY <1>1, WriterGoes
<1>3. CallsUnsettled'
  BY <1>1, <1>2 DEF Goes, CallsUnsettled, Answering
<1>4. ASSUME reader # NoReader
      PROVE  Steady
  <2>1. d \in reader.unsettled
    BY <1>1, <1>2, <1>4 DEF Goes, CallsUnsettled, Answering
  <2>2. \A e \in Docs \ reader.unsettled : posted'[e] = posted[e]
    BY <1>2, <2>1 DEF Goes
  <2>3. reader' = reader /\ allDocs' = allDocs
    BY <1>2 DEF Goes
  <2> QED
    BY <2>2, <2>3 DEF Steady, Settled
<1>5. reader' = reader
  BY <1>2 DEF Goes
<1> QED
  BY <1>1, <1>3, <1>4, <1>5, BesideQueryKeeps

LEMMA BeginsKeep ==
  ASSUME QueryInv, NEW w \in Writers, NEW d \in Docs, NEW text \in Texts, IndexBegin(w, d, text)
  PROVE  Answering'
<1>1. Answering /\ IndexTypeOK
  BY DEF QueryInv, IndexInv
<1>2. /\ calls'[w] = [stage |-> "count", doc |-> d, text |-> text]
      /\ \A v \in Writers \ {w} : calls'[v] = calls[v]
      /\ allDocs' = allDocs \cup {d} /\ posted' = posted
      /\ reader' = IF reader = NoReader THEN reader
                   ELSE [reader EXCEPT !.unsettled = @ \cup {d}]
  BY <1>1 DEF IndexBegin, IndexTypeOK
<1>3. reader # NoReader => reader \in Readers
  BY <1>1 DEF Answering, ReaderTypeOK
<1>4. reader # NoReader => reader'.unsettled = reader.unsettled \cup {d}
  BY <1>2, <1>3 DEF Readers
<1>5. CallsUnsettled'
  <2>1. CASE reader = NoReader
    BY <1>2, <2>1 DEF CallsUnsettled
  <2>2. CASE reader # NoReader
    BY <1>1, <1>2, <1>4, <2>2 DEF CallsUnsettled, Answering
  <2> QED
    BY <2>1, <2>2
<1>6. reader # NoReader => Steady
  BY <1>2, <1>4 DEF Steady, Settled
<1>7. \/ reader' = reader
      \/ reader # NoReader /\ \E e \in Docs : reader' = [reader EXCEPT !.unsettled = @ \cup {e}]
  BY <1>2
<1> QED
  BY <1>1, <1>5, <1>6, <1>7, BesideQueryKeeps

LEMMA NothingKeeps ==
  ASSUME QueryInv, UNCHANGED <<allDocs, calls, posted, reader>>
  PROVE  Answering'
<1>1. Answering /\ IndexTypeOK
  BY DEF QueryInv, IndexInv
<1>2. CallsUnsettled'
  BY <1>1 DEF CallsUnsettled, Answering
<1>3. Steady
  BY DEF Steady, Settled
<1> QED
  BY <1>1, <1>2, <1>3, BesideQueryKeeps

LEMMA QueryBegins ==
  ASSUME QueryInv, NEW q \in Queries, QueryBegin(q)
  PROVE  Answering'
<1>1. PICK busy : busy = {calls[w].doc : w \in {v \in Writers : calls[v] # Idle}}
  OBVIOUS
<1>2. reader' = [query |-> q, at |-> 1, lists |-> <<>>, stack |-> <<>>, lost |-> {}, unsettled |-> busy]
  BY <1>1 DEF QueryBegin
<1>3. calls' = calls
  BY DEF QueryBegin
<1>4. busy \in SUBSET Docs
  <2> SUFFICES ASSUME NEW w \in Writers, calls[w] # Idle PROVE calls[w].doc \in Docs
    BY <1>1
  <2> QED
    BY CallFields DEF QueryInv, IndexInv, Counting, Putting
<1>5. ReaderTypeOK'
  <2>1. reader' \in Readers
    BY <1>2, <1>4 DEF Readers
  <2> QED
    BY <2>1 DEF ReaderTypeOK
<1>6. CallsUnsettled'
  BY <1>1, <1>2, <1>3 DEF CallsUnsettled
<1>7. Gathered'
  BY <1>2 DEF Gathered
<1>8. Evaluated'
  <2>1. PICK depth : Deep(q, depth)
    BY Expressions
  <2>2. PICK bs : bs = [i \in 0..0 |-> <<>>]
    OBVIOUS
  <2>3. bs[0] = <<>> /\ <<>> \in Seq(Bounds) /\ Len(<<>>) = 0 /\ depth[0] = 0
    BY <2>1, <2>2 DEF Deep
  <2>4. RunOf(bs, 0, q, <<>>, <<>>, Settled', depth)
    <3>1. \A i \in 0..0 : i = 0
      OBVIOUS
    <3>2. \A i \in 0..0 : bs[i] \in Seq(Bounds) /\ Len(bs[i]) = depth[i]
      BY <2>3, <3>1
    <3>3. 1..0 = {}
      OBVIOUS
    <3> QED
      BY <2>3, <3>2, <3>3 DEF RunOf
  <2>5. Nodes(<<>>, <<>>, 0)'
    BY DEF Nodes
  <2>6. reader'.query = q /\ reader'.at = 0 + 1 /\ reader'.stack = <<>> /\ 0 <= Len(q)
    BY <1>2, Expressions
  <2>7. Run(0, depth, <<>>, <<>>, bs)'
    BY <2>1, <2>3, <2>4, <2>5, <2>6 DEF Run
  <2> QED
    BY <2>7 DEF Evaluated
<1> QED
  BY <1>5, <1>6, <1>7, <1>8 DEF Answering

LEMMA AnsweringFromInit == IInit => Answering
  BY DEF IInit, Answering, CallsUnsettled, ReaderTypeOK, Evaluated, Gathered

(* The inductive invariant of the index with its query.                    *)
LEMMA QueryInvIsInductive == QueryInv /\ [INext]_ivars => QueryInv'
<1> SUFFICES ASSUME QueryInv, [INext]_ivars PROVE QueryInv'
  OBVIOUS
<1>1. IndexInv' /\ HeldIsPosted'
  BY IndexInvIsInductive, HeldIsInductive DEF QueryInv, IndexInv
<1>2. Answering'
  <2>1. CASE \E w \in Writers, d \in Docs, text \in Texts : IndexBegin(w, d, text)
    BY <2>1, BeginsKeep
  <2>2. CASE \E w \in Writers : IndexCount(w) \/ IndexPut(w)
    BY <2>2, WritersKeep
  <2>3. CASE TreeStep
    BY <2>3, NothingKeeps DEF TreeStep
  <2>4. CASE \E q \in Queries : QueryBegin(q)
    BY <2>4, QueryBegins
  <2>5. CASE EvalTerm \/ EvalPhraseWord \/ EvalPhraseMatch
    BY <2>5, TermKeeps, PhraseWordKeeps, PhraseMatchKeeps
  <2>6. CASE EvalAnd \/ EvalOr \/ EvalNot \/ EvalNil
    BY <2>6, OperationKeeps
  <2>7. CASE UNCHANGED ivars
    BY <2>7, NothingKeeps DEF ivars
  <2> QED
    BY <2>1, <2>2, <2>3, <2>4, <2>5, <2>6, <2>7 DEF INext
<1> QED
  BY <1>1, <1>2 DEF QueryInv

(* The run of Expected is the one the invariant keeps.                     *)
RunFrom(f) ==
  [i \in 0..Len(reader.query) |-> IF i = 0 THEN <<>> ELSE Apply(f[i - 1], i)]

LEMMA RunIsExpected ==
  ASSUME NEW n \in Nat, n = Len(reader.query), NEW bs, bs[0] = <<>>,
         \A i \in 1..n : bs[i] = Apply(bs[i - 1], i)
  PROVE  Expected = bs[n][1]
<1> DEFINE P(g) == g = RunFrom(g)
           out == CHOOSE g : P(g)
<1>1. Expected = out[n][1]
  BY DEF Expected, RunFrom
<1>2. PICK cs : cs = [i \in 0..n |-> bs[i]]
  OBVIOUS
<1>3. \A i \in 0..n : cs[i] = bs[i]
  BY <1>2
<1>4. P(cs)
  <2>1. ASSUME NEW i \in 0..n
        PROVE  bs[i] = IF i = 0 THEN <<>> ELSE Apply(cs[i - 1], i)
    <3>1. CASE i = 0
      BY <3>1
    <3>2. CASE i # 0
      <4>1. i \in 1..n /\ i - 1 \in 0..n
        BY <3>2
      <4> QED
        BY <1>3, <3>2, <4>1
    <3> QED
      BY <3>1, <3>2
  <2> QED
    BY <1>2, <2>1 DEF RunFrom
<1>5. PICK g : g = out /\ P(g)
  <2> HIDE DEF P
  <2>1. P(out)
    BY <1>4
  <2> QED
    BY <2>1
<1> HIDE DEF out
<1>6. /\ g[0] = <<>>
      /\ \A i \in 1..n : g[i] = Apply(g[i - 1], i)
  <2>1. \A i \in 0..n : g[i] = IF i = 0 THEN <<>> ELSE Apply(g[i - 1], i)
    BY <1>5 DEF RunFrom
  <2>2. 0 \in 0..n /\ \A i \in 1..n : i \in 0..n /\ i # 0
    OBVIOUS
  <2> QED
    BY <2>1, <2>2
<1> DEFINE D == 0..n
           mu == [i \in D |-> i]
           Good == {i \in D : g[i] = bs[i]}
<1>7. ASSUME NEW i \in D, \A j \in D : mu[j] < mu[i] => j \in Good
      PROVE  i \in Good
  <2>1. CASE i = 0
    BY <1>6, <2>1
  <2>2. CASE i # 0
    <3>1. i \in 1..n /\ i - 1 \in D /\ i - 1 < i
      BY <2>2
    <3>2. mu[i - 1] < mu[i]
      BY <3>1
    <3>3. g[i - 1] = bs[i - 1]
      <4> HIDE DEF mu, D
      <4> QED
        BY <1>7, <3>1, <3>2
    <3>4. g[i] = bs[i]
      BY <1>6, <3>1, <3>3
    <3> QED
      BY <3>4
  <2> QED
    BY <2>1, <2>2
<1>8. D = Good
  <2>1. mu \in [D -> Nat] /\ Good \subseteq D
    OBVIOUS
  <2> HIDE DEF D, mu, Good
  <2>2. Passes(D, mu, Good)
    BY <1>7, <2>1 DEF Passes
  <2> QED
    BY <2>2, MeasureInduction
<1>9. n \in Good
  BY <1>8
<1> QED
  BY <1>1, <1>5, <1>9

LEMMA JudgedIs ==
  ASSUME NEW s, NEW i, NEW instr, instr = reader.query[i]
  PROVE  Judged(s, i) = JudgedBy(s, instr, Sure(i, instr), Hits(instr), Settled)
  BY DEF Judged, JudgedBy

LEMMA QueryInvSuffices == QueryInv => AnswerIsBetween
<1> SUFFICES ASSUME QueryInv, Answered
             PROVE  /\ Expected.least \subseteq Top(0)
                    /\ Top(0) \cap Settled \subseteq Expected.most
                    /\ Top(0) \subseteq allDocs
  BY DEF AnswerIsBetween
<1>1. reader # NoReader /\ reader.at > Len(reader.query)
  BY DEF Answered
<1>2. reader \in Readers
  BY <1>1 DEF QueryInv, Answering, ReaderTypeOK
<1>3. PICK n \in Nat : \E depth, su, hi, bs : Run(n, depth, su, hi, bs)
  BY <1>1 DEF QueryInv, Answering, Evaluated
<1>4. PICK depth, su, hi, bs : Run(n, depth, su, hi, bs)
  BY <1>3
<1>5. PICK q \in Seq(Instructions) : q = reader.query
  BY <1>2, Expressions DEF Readers
<1>6. n = Len(q)
  BY <1>1, <1>4, <1>5 DEF Run
<1>7. depth[n] = 1 /\ Nodes(su, hi, n) /\ RunOf(bs, n, q, su, hi, Settled, depth)
  BY <1>4, <1>5, <1>6 DEF Run, Deep
<1>8. bs[0] = <<>>
  BY <1>7 DEF RunOf
<1>9. ASSUME NEW i \in 1..n
      PROVE  bs[i] = Apply(bs[i - 1], i)
  <2>1. PICK instr, s : instr = q[i] /\ s = bs[i - 1]
    OBVIOUS
  <2>2. su[i] = Sure(i, instr) /\ hi[i] = Hits(instr)
    BY <1>5, <1>7, <2>1 DEF Nodes
  <2>3. bs[i] = Replaced(s, instr, JudgedBy(s, instr, Sure(i, instr), Hits(instr), Settled))
    BY <1>7, <2>1, <2>2 DEF RunOf
  <2>4. JudgedBy(s, instr, Sure(i, instr), Hits(instr), Settled) = Judged(s, i)
    BY <1>5, <2>1, JudgedIs
  <2>5. Replaced(s, instr, Judged(s, i)) = Apply(s, i)
    BY <1>5, <2>1 DEF Replaced, Apply
  <2> QED
    BY <2>1, <2>3, <2>4, <2>5
<1>10. Expected = bs[n][1]
  BY <1>5, <1>6, <1>8, <1>9, RunIsExpected
<1>11. Len(reader.stack) = 1 /\ Suits(bs[n][1], reader.stack[1])
  BY <1>4, <1>7 DEF Run
<1>12. Top(0) = reader.stack[1]
  BY <1>11 DEF Top
<1> QED
  BY <1>10, <1>11, <1>12 DEF Suits

(* In every behaviour of the index, for any documents, texts, terms that   *)
(* are prefixes of others, expressions and writers, a query answers with   *)
(* documents that have been entered, and of the settled ones with no other *)
(* than its expression describes and with all of those whose postings it   *)
(* could read whole, whatever is indexed, flushed and compacted beside it. *)
THEOREM AnswersAreBetween == ISpec => []AnswerIsBetween
<1>1. IInit => QueryInv
  BY InitKeeps, HeldFromInit, AnsweringFromInit DEF QueryInv
<1>2. ISpec => []QueryInv
  BY <1>1, QueryInvIsInductive, PTL DEF ISpec
<1> QED
  BY <1>2, QueryInvSuffices, PTL

-----------------------------------------------------------------------------
(* Rankings.                                                               *)

(* Every count has a logarithm.                                            *)
CountsOK ==
  /\ StatTypeOK
  /\ DfCoversDocs
  /\ \A d \in Docs, t \in Words : tf[d][t] <= Len(Logs)

(* A document has a term that not all documents have.                      *)
Bears(d, t) == tf[d][t] > 0 /\ df[t] < N

LEMMA LogsAreMonotone ==
  \A x, y \in 1..Len(Logs) : /\ Log(x) \in Nat
                             /\ x < y => Log(x) < Log(y)
BY LogsGrow DEF Log

(* The idf of a term that is in some document.                             *)
LEMMA IdfIs ==
  ASSUME CountsOK, NothingTwice, NEW t \in Words, df[t] # 0
  PROVE  /\ Idf(N, df[t]) \in Nat
         /\ Idf(N, df[t]) > 0 <=> df[t] < N
<1>1. IsFiniteSet(known) /\ N \in Nat /\ N <= Cardinality(Docs)
  <2>1. known \subseteq Docs
    BY DEF CountsOK, StatTypeOK
  <2>2. IsFiniteSet(known) /\ Cardinality(known) <= Cardinality(Docs)
    BY <2>1, DocsAreFinite, FS_Subset
  <2> QED
    BY <2>2, FS_CardinalityType DEF N
<1>2. Cardinality(Docs) \in Nat
  BY DocsAreFinite, FS_CardinalityType
<1>3. df[t] \in Nat /\ df[t] <= N
  BY DEF CountsOK, StatTypeOK, DfCoversDocs, N
<1>4. Len(Logs) \in Nat
  BY LogsGrow
<1>5. df[t] \in 1..Len(Logs) /\ N \in 1..Len(Logs)
  BY <1>1, <1>2, <1>3, <1>4, LogsAreThere
<1>6. Log(df[t]) \in Nat /\ Log(N) \in Nat /\ (df[t] < N => Log(df[t]) < Log(N))
  BY <1>5, LogsAreMonotone
<1>7. df[t] = N => Log(df[t]) = Log(N)
  OBVIOUS
<1> QED
  BY <1>1, <1>3, <1>6, <1>7 DEF Idf

LEMMA Products ==
  \A a, b \in Nat : /\ a * b \in Nat
                    /\ a > 0 => (a * b > 0 <=> b > 0)
                    /\ b = 0 => a * b = 0
OBVIOUS

(* A term no document has been counted for is in no document.              *)
LEMMA NoneHolds ==
  ASSUME CountsOK, NEW d \in Docs, NEW t \in Words, df[t] = 0
  PROVE  tf[d][t] = 0
<1>1. Cardinality(Holding(t)) <= 0
  BY DEF CountsOK, DfCoversDocs
<1>2. Holding(t) = {}
  BY <1>1, HoldingIsFinite, FS_EmptySet
<1> QED
  BY <1>2 DEF Holding, CountsOK, StatTypeOK

(* A weight is never negative, and positive just for the terms that tell.  *)
LEMMA TfIdfIs ==
  ASSUME CountsOK, NothingTwice, NEW d \in Docs, NEW t \in Words
  PROVE  /\ TfIdf(d, t) \in Nat
         /\ TfIdf(d, t) > 0 <=> Bears(d, t)
<1>1. tf[d][t] \in Nat /\ tf[d][t] <= Len(Logs) /\ Len(Logs) \in Nat
  BY LogsGrow DEF CountsOK, StatTypeOK
<1>2. CASE tf[d][t] = 0 \/ df[t] = 0
  <2>1. TfIdf(d, t) = 0
    BY <1>2 DEF TfIdf
  <2>2. ~Bears(d, t)
    BY <1>2, NoneHolds DEF Bears
  <2> QED
    BY <2>1, <2>2
<1>3. CASE tf[d][t] # 0 /\ df[t] # 0
  <2>1. Log(tf[d][t]) \in Nat
    BY <1>1, <1>3, LogsAreMonotone
  <2>2. Tf(tf[d][t]) \in Nat /\ Tf(tf[d][t]) > 0
    BY <2>1 DEF Tf
  <2>3. Idf(N, df[t]) \in Nat /\ (Idf(N, df[t]) > 0 <=> df[t] < N)
    BY <1>3, IdfIs
  <2>4. TfIdf(d, t) = Tf(tf[d][t]) * Idf(N, df[t])
    BY <1>3 DEF TfIdf
  <2>5. tf[d][t] > 0
    BY <1>1, <1>3
  <2> HIDE DEF Bears
  <2>6. /\ Tf(tf[d][t]) * Idf(N, df[t]) \in Nat
        /\ Tf(tf[d][t]) * Idf(N, df[t]) > 0 <=> Idf(N, df[t]) > 0
    BY <2>2, <2>3, Products
  <2> QED
    BY <2>3, <2>4, <2>5, <2>6 DEF Bears
<1> QED
  BY <1>2, <1>3

-----------------------------------------------------------------------------
(* Sequences of terms.                                                     *)
LEMMA HeadAndTail ==
  ASSUME NEW s \in Seq(Words), s # <<>>
  PROVE  /\ Head(s) \in Words /\ Head(s) \in ToSet(s)
         /\ Tail(s) \in Seq(Words)
         /\ ToSet(s) = {Head(s)} \cup ToSet(Tail(s))
         /\ Len(s) = 1 <=> Tail(s) = <<>>
<1>1. /\ Len(s) \in Nat /\ Len(s) >= 1 /\ DOMAIN s = 1..Len(s) /\ Head(s) = s[1]
      /\ s[1] \in Words
  OBVIOUS
<1>2. /\ Tail(s) \in Seq(Words) /\ Len(Tail(s)) = Len(s) - 1
      /\ DOMAIN Tail(s) = 1..(Len(s) - 1)
      /\ \A i \in 1..(Len(s) - 1) : Tail(s)[i] = s[i + 1]
  OBVIOUS
<1>3. ToSet(s) \subseteq {Head(s)} \cup ToSet(Tail(s))
  <2> SUFFICES ASSUME NEW i \in 1..Len(s), i # 1
               PROVE  s[i] \in ToSet(Tail(s))
    BY <1>1 DEF ToSet
  <2>1. i - 1 \in 1..(Len(s) - 1) /\ (i - 1) + 1 = i
    BY <1>1
  <2>2. Tail(s)[i - 1] = s[i]
    BY <1>2, <2>1
  <2> QED
    BY <1>2, <2>1, <2>2 DEF ToSet
<1>4. ASSUME NEW i \in 1..(Len(s) - 1)
      PROVE  Tail(s)[i] \in ToSet(s)
  <2>1. i + 1 \in 1..Len(s)
    BY <1>1
  <2> QED
    BY <1>1, <1>2, <2>1 DEF ToSet
<1>5. Head(s) \in ToSet(s)
  <2>1. 1 \in DOMAIN s
    BY <1>1
  <2> QED
    BY <1>1, <2>1 DEF ToSet
<1>6. ToSet(Tail(s)) \subseteq ToSet(s)
  BY <1>2, <1>4 DEF ToSet
<1>7. Len(s) = 1 <=> Tail(s) = <<>>
  <2>1. Tail(s) = <<>> <=> Len(Tail(s)) = 0
    BY <1>2
  <2> QED
    BY <1>1, <1>2, <2>1
<1> QED
  BY <1>1, <1>2, <1>3, <1>5, <1>6, <1>7

LEMMA SetOfSeq ==
  ASSUME NEW s \in Seq(Words)
  PROVE  ToSet(s) \subseteq Words /\ IsFiniteSet(ToSet(s))
<1>1. DOMAIN s = 1..Len(s) /\ Len(s) \in Nat
  OBVIOUS
<1>2. ToSet(s) \subseteq Words
  BY <1>1 DEF ToSet
<1>3. s \in Surjection(1..Len(s), ToSet(s))
  BY <1>1 DEF Surjection, ToSet
<1>4. IsFiniteSet(1..Len(s))
  BY <1>1, FS_Interval
<1> QED
  BY <1>2, <1>3, <1>4, FS_Surjection

(* The orders of a finite set have all its elements.                       *)
LEMMA OrdersAre ==
  ASSUME NEW S \in SUBSET Words, IsFiniteSet(S)
  PROVE  /\ SetToSeqs(S) # {}
         /\ \A s \in SetToSeqs(S) : /\ s \in Seq(Words)
                                    /\ ToSet(s) = S
                                    /\ S # {} => s # <<>>
<1>1. PICK n : n = Cardinality(S)
  OBVIOUS
<1>2. n \in Nat /\ ExistsBijection(1..n, S) /\ IsFiniteSet(1..n) /\ Cardinality(1..n) = n
  BY <1>1, FS_CardinalityType, FS_Interval
<1>3. SetToSeqs(S) = {f \in [1..n -> S] : \A i, j \in 1..n : i # j => f[i] # f[j]}
  BY <1>1 DEF SetToSeqs
<1>4. SetToSeqs(S) # {}
  <2>1. PICK f \in Bijection(1..n, S) : TRUE
    BY <1>2 DEF ExistsBijection
  <2>2. f \in [1..n -> S] /\ \A i, j \in 1..n : f[i] = f[j] => i = j
    BY <2>1 DEF Bijection, Injection, IsInjective
  <2> QED
    BY <1>3, <2>2
<1>5. ASSUME NEW s \in SetToSeqs(S)
      PROVE  s \in Seq(Words) /\ ToSet(s) = S /\ (S # {} => s # <<>>)
  <2>1. s \in [1..n -> S] /\ \A i, j \in 1..n : s[i] = s[j] => i = j
    BY <1>3, <1>5
  <2>2. s \in Injection(1..n, S)
    BY <2>1 DEF Injection, IsInjective
  <2>3. s \in Surjection(1..n, S)
    BY <1>1, <1>2, <2>2, FS_Injection
  <2>4. ToSet(s) = S
    BY <2>1, <2>3 DEF ToSet, Surjection
  <2>5. s \in Seq(Words)
    BY <1>2, <2>1
  <2>6. S # {} => s # <<>>
    BY <2>4 DEF ToSet
  <2> QED
    BY <2>4, <2>5, <2>6
<1> QED
  BY <1>4, <1>5

-----------------------------------------------------------------------------
(* The stems of a search.  The recursive function that drops and stems the *)
(* words exists, and its values are sequences of terms.                    *)
StemsOf(out, words, n) ==
  out = [m \in 0..n |-> IF m = 0 THEN <<>>
                        ELSE IF words[m] \in Stops THEN out[m - 1]
                        ELSE Append(out[m - 1], Stem[words[m]])]

LEMMA StemsExist ==
  ASSUME NEW words
  PROVE  \A n \in Nat : \E out : StemsOf(out, words, n)
<1> DEFINE Bad == {n \in Nat : ~ \E out : StemsOf(out, words, n)}
<1> SUFFICES ASSUME Bad # {} PROVE FALSE
  OBVIOUS
<1>1. PICK n \in Bad : \A m \in Bad : n <= m
  BY LeastNat
<1>2. n # 0
  <2>1. StemsOf([i \in 0..0 |-> <<>>], words, 0)
    <3> DEFINE e == [i \in 0..0 |-> <<>>]
    <3>1. \A m \in 0..0 : m = 0
      OBVIOUS
    <3>2. e = [m \in 0..0 |-> IF m = 0 THEN <<>>
                        ELSE IF words[m] \in Stops THEN e[m - 1]
                        ELSE Append(e[m - 1], Stem[words[m]])]
      BY <3>1
    <3> QED
      BY <3>2 DEF StemsOf
  <2> QED
    BY <1>1, <2>1
<1>3. n \in Nat /\ n - 1 \in Nat /\ n - 1 \notin Bad
  BY <1>1, <1>2
<1>4. PICK f : StemsOf(f, words, n - 1)
  BY <1>3
<1> DEFINE F(g, m) == IF m = 0 THEN <<>>
                      ELSE IF words[m] \in Stops THEN g[m - 1]
                      ELSE Append(g[m - 1], Stem[words[m]])
<1>5. DOMAIN f = 0..(n - 1) /\ \A m \in 0..(n - 1) : f[m] = F(f, m)
  <2>1. f = [m \in 0..(n - 1) |-> F(f, m)]
    BY <1>4 DEF StemsOf
  <2> HIDE DEF F
  <2>2. DOMAIN [m \in 0..(n - 1) |-> F(f, m)] = 0..(n - 1)
    OBVIOUS
  <2>3. \A i \in 0..(n - 1) : [m \in 0..(n - 1) |-> F(f, m)][i] = F(f, i)
    OBVIOUS
  <2> QED
    BY <2>1, <2>2, <2>3, Zenon
<1> DEFINE last == F(f, n)
           g == [m \in 0..n |-> IF m = n THEN last ELSE f[m]]
<1>6. ASSUME NEW m \in 0..n
      PROVE  g[m] = F(g, m)
  <2>1. m \in Nat /\ m <= n
    BY <1>3
  <2>2. m # 0 => m - 1 \in 0..(n - 1) /\ m - 1 \in 0..n /\ m - 1 # n
    BY <1>3, <2>1
  <2>3. m # 0 => g[m - 1] = f[m - 1]
    BY <2>2
  <2>4. F(g, m) = F(f, m)
    BY <2>3
  <2>5. CASE m = n
    BY <2>4, <2>5
  <2>6. CASE m # n
    <3>1. m \in 0..(n - 1)
      BY <1>3, <2>1, <2>6
    <3>2. g[m] = f[m]
      BY <2>6
    <3> HIDE DEF F, g
    <3> QED
      BY <1>5, <2>4, <3>1, <3>2
  <2> QED
    BY <2>5, <2>6
<1>7. StemsOf(g, words, n)
  <2>1. g = [m \in 0..n |-> g[m]]
    OBVIOUS
  <2>2. g = [m \in 0..n |-> F(g, m)]
    <3> HIDE DEF g, F
    <3> QED
      BY <1>6, <2>1
  <2> HIDE DEF g
  <2> QED
    BY <2>2 DEF StemsOf
<1> QED
  BY <1>1, <1>7

LEMMA StemAllIs ==
  ASSUME NEW words \in Seq(Words)
  PROVE  StemAll(words) \in Seq(Words)
<1> DEFINE P(g) == StemsOf(g, words, Len(words))
           out == CHOOSE g : P(g)
<1>0. Len(words) \in Nat /\ \A m \in 1..Len(words) : words[m] \in Words
  OBVIOUS
<1>1. \E g : P(g)
  BY <1>0, StemsExist
<1>2. P(out)
  <2> HIDE DEF P
  <2> QED
    BY <1>1, Zenon
<1>3. StemAll(words) = out[Len(words)]
  BY Zenon DEF StemAll, StemsOf
<1>4. PICK f : f = out
  OBVIOUS
<1> DEFINE F(g, m) == IF m = 0 THEN <<>>
                      ELSE IF words[m] \in Stops THEN g[m - 1]
                      ELSE Append(g[m - 1], Stem[words[m]])
<1>5. \A m \in 0..Len(words) : f[m] = F(f, m)
  <2>1. f = [m \in 0..Len(words) |-> F(f, m)]
    BY <1>2, <1>4 DEF StemsOf
  <2> HIDE DEF F
  <2> QED
    BY <2>1, Zenon
<1> DEFINE Bad == {m \in Nat : m <= Len(words) /\ f[m] \notin Seq(Words)}
<1> HIDE DEF out, P
<1>6. Bad = {}
  <2> SUFFICES ASSUME Bad # {} PROVE FALSE
    OBVIOUS
  <2>1. PICK m \in Bad : \A i \in Bad : m <= i
    BY LeastNat
  <2>2. m \in 0..Len(words)
    BY <1>0, <2>1
  <2>3. f[0] = <<>>
    <3>1. 0 \in 0..Len(words)
      BY <1>0
    <3> QED
      BY <1>5, <3>1, Zenon
  <2>4. m # 0
    <3>1. <<>> \in Seq(Words) /\ f[m] \notin Seq(Words)
      BY <2>1
    <3> QED
      BY <2>3, <3>1, Zenon
  <2>5. m - 1 \in Nat /\ m \in 1..Len(words) /\ m - 1 \notin Bad
    BY <1>0, <2>1, <2>2, <2>4
  <2>6. f[m - 1] \in Seq(Words)
    BY <1>0, <2>5
  <2>7. Stem[words[m]] \in Words
    BY <1>0, <2>5, StemsAreWords
  <2>8. f[m] = f[m - 1] \/ f[m] = Append(f[m - 1], Stem[words[m]])
    <3>1. f[m] = F(f, m)
      BY <1>5, <2>2, Zenon
    <3>2. F(f, m) = f[m - 1] \/ F(f, m) = Append(f[m - 1], Stem[words[m]])
      BY <2>4, Zenon
    <3> QED
      BY <3>1, <3>2, Zenon
  <2>9. f[m] \in Seq(Words)
    <3>1. \A s \in Seq(Words), w \in Words : Append(s, w) \in Seq(Words)
      OBVIOUS
    <3> QED
      BY <2>6, <2>7, <2>8, <3>1, Zenon
  <2> QED
    BY <2>1, <2>9
<1> QED
  BY <1>0, <1>3, <1>4, <1>6

-----------------------------------------------------------------------------
(* The invariant of a ranking in progress.                                 *)
Fields == {"stage", "call", "terms", "beside", "n", "weight", "tier", "todo",
           "doc", "left", "sum", "zero", "results"}

(* The terms that are weighed.                                             *)
Asked == IF search.call.kind = "vsm" THEN DOMAIN search.weight ELSE ToSet(search.terms)

Typed ==
  /\ DOMAIN search = Fields
  /\ search.stage \in {"number", "frequency", "tier", "score", "done"}
  /\ search.call \in Searches
  /\ search.terms \in Seq(Words)
  /\ search.tier \in Nat \ {0}
  /\ search.todo \subseteq Docs
  /\ search.left \in Seq(Words)
  /\ DOMAIN search.weight \subseteq Words /\ IsFiniteSet(DOMAIN search.weight)
  /\ search.zero \in BOOLEAN
  /\ IsFiniteSet(search.results)

(* What the stage says of the other fields.                                *)
Staged ==
  /\ search.stage \in {"number", "frequency"} => search.call.kind = "vsm"
  /\ search.stage = "tier" => search.call.kind = "tiered"
  /\ search.stage \in {"number", "tier"} => search.left = <<>>
  /\ search.stage = "number" => DOMAIN search.weight = {}
  /\ search.stage = "frequency" => ToSet(search.left) \subseteq ToSet(search.terms)
  /\ search.stage = "score" =>
       /\ ToSet(search.left) \subseteq Asked
       /\ search.left # <<>> => search.doc \in Docs
       /\ search.call.kind = "vsm" => DOMAIN search.weight # {}

(* No document has been indexed twice, and the ranking by cosine is not    *)
(* disturbed.                                                              *)
Even == NothingTwice /\ (search.call.kind = "vsm" => "count" \notin search.beside)

Quiet == NothingTwice /\ "count" \notin search.beside

Sums == Even => search.sum \in Nat /\ \A x \in search.results : x.score \in Nat

(* The weights of a query are those of the counts, of all its terms that   *)
(* are in some document.                                                   *)
Weights ==
  (search.call.kind = "vsm" /\ search.stage # "number" /\ Quiet) =>
    /\ search.n = N
    /\ DOMAIN search.weight \subseteq ToSet(search.terms)
    /\ \A t \in DOMAIN search.weight : /\ search.weight[t] \in Nat
                                       /\ search.weight[t] > 0 <=> df[t] < N
    /\ \A t \in ToSet(search.terms) :
         \/ t \in DOMAIN search.weight
         \/ df[t] = 0
         \/ search.stage = "frequency" /\ t \in ToSet(search.left)

(* The documents that should be listed.                                    *)
Matches == {d \in search.call.docs : \E t \in ToSet(search.terms) : Bears(d, t)}

(* The terms of a document that may still make a difference.               *)
Partly(d, left) ==
  /\ d \in search.todo
  /\ search.sum > 0 => \E t \in Asked : Bears(d, t)
  /\ search.sum = 0 => \A t \in Asked : Bears(d, t) => t \in ToSet(left)

(* The documents that have been weighed are listed if they should be; of   *)
(* the one that is weighed the sum tells whether a term has been found.    *)
Scores ==
  (search.call.kind # "tiered" /\ Quiet) =>
    /\ search.todo \subseteq search.call.docs
    /\ \A x \in search.results : x.doc \in Matches /\ x.score \in Nat /\ x.score > 0
    /\ Matches \ search.todo \subseteq ResultDocs
    /\ search.stage = "done" => Matches \subseteq ResultDocs
    /\ search.stage # "score" \/ search.left = <<>> => search.sum = 0
    /\ search.call.kind = "vsm" => (search.zero <=> search.sum = 0)
    /\ search.stage = "score" /\ search.left # <<>> => Partly(search.doc, search.left)

TiersOK == tiers \in [DOMAIN TierSizes -> [Words -> SUBSET Docs]]

SearchOK == search = NoSearch \/ (Typed /\ Staged /\ Sums /\ Weights /\ Scores)

-----------------------------------------------------------------------------
(* Each step keeps the invariant.                                          *)
LEMMA BeginKeeps ==
  ASSUME BeginSearch
  PROVE  SearchOK'
<1>1. PICK call \in Searches, stage \in {"score", "number", "tier"} :
        /\ Begin(call, stage)
        /\ \/ call.kind = "tfidf" /\ stage = "score"
           \/ call.kind = "vsm" /\ stage = "number"
           \/ call.kind = "tiered" /\ stage = "tier"
  BY SearchesAreCalls DEF BeginSearch
<1>2. search' = [stage |-> stage, call |-> call, terms |-> StemAll(call.words),
                beside |-> {}, n |-> 0, weight |-> <<>>, tier |-> 1,
                todo |-> call.docs, doc |-> 0, left |-> <<>>, sum |-> 0,
                zero |-> TRUE, results |-> {}]
  BY <1>1, Zenon DEF Begin
<1>3. /\ DOMAIN search' = Fields
      /\ search'.stage = stage /\ search'.call = call
      /\ search'.terms = StemAll(call.words) /\ search'.weight = <<>>
      /\ search'.tier = 1 /\ search'.todo = call.docs /\ search'.left = <<>>
      /\ search'.sum = 0 /\ search'.zero = TRUE /\ search'.results = {}
  BY <1>2 DEF Fields
<1>4. StemAll(call.words) \in Seq(Words) /\ call.docs \subseteq Docs
  BY SearchesAreCalls, StemAllIs
<1>5. IsFiniteSet({}) /\ DOMAIN <<>> = {} /\ <<>> \in Seq(Words) /\ ToSet(<<>>) = {}
  <2>1. DOMAIN <<>> = {} /\ <<>> \in Seq(Words)
    OBVIOUS
  <2> QED
    BY <2>1, FS_EmptySet DEF ToSet
<1>6. Typed'
  <2>1. DOMAIN search'.weight = {} /\ search'.tier \in Nat \ {0}
    BY <1>3, <1>5
  <2> QED
    BY <1>1, <1>3, <1>4, <1>5, <2>1 DEF Typed
<1>7. Staged'
  BY <1>1, <1>3, <1>5 DEF Staged
<1>8. Sums'
  BY <1>3 DEF Sums
<1>9. Weights'
  BY <1>1, <1>3, <1>5 DEF Weights
<1>10. Scores'
  <2>1. Matches' \subseteq call.docs
    BY <1>3 DEF Matches
  <2> QED
    BY <1>1, <1>3, <2>1 DEF Scores
<1> QED
  BY <1>6, <1>7, <1>8, <1>9, <1>10 DEF SearchOK

(* What happens beside a ranking leaves it as it is, but it is noted.      *)
LEMMA BesideKeeps ==
  ASSUME SearchOK, NEW what, Beside(what), NothingTwice' => NothingTwice,
         what = "count" \/ UNCHANGED <<known, tf, df, times>>
  PROVE  SearchOK'
<1>1. CASE search = NoSearch
  BY <1>1 DEF Beside, SearchOK
<1>2. CASE search # NoSearch
  <2>1. Typed /\ Staged /\ Sums /\ Weights /\ Scores
    BY <1>2 DEF SearchOK
  <2>2. search' = [search EXCEPT !.beside = @ \cup {what}]
    BY <1>2 DEF Beside
  <2>3. /\ DOMAIN search' = Fields
        /\ search'.beside = search.beside \cup {what}
        /\ search'.stage = search.stage /\ search'.call = search.call
        /\ search'.terms = search.terms /\ search'.weight = search.weight
        /\ search'.n = search.n /\ search'.doc = search.doc
        /\ search'.tier = search.tier /\ search'.todo = search.todo
        /\ search'.left = search.left /\ search'.sum = search.sum
        /\ search'.zero = search.zero /\ search'.results = search.results
    BY <2>1, <2>2 DEF Typed, Fields
  <2>4. Asked' = Asked
    BY <2>3 DEF Asked
  <2>5. Typed' /\ Staged'
    BY <2>1, <2>3, <2>4 DEF Typed, Staged
  <2>6. Even' => Even
    BY <2>3 DEF Even
  <2>7. Quiet' => Quiet /\ UNCHANGED <<known, tf, df, times>>
    BY <2>3 DEF Quiet
  <2>8. Sums'
    BY <2>1, <2>3, <2>6 DEF Sums
  <2>9. Weights'
    <3>1. UNCHANGED <<known, df>> => N' = N /\ \A t : df'[t] = df[t]
      BY DEF N
    <3> QED
      BY <2>1, <2>3, <2>7, <3>1 DEF Weights
  <2>10. Scores'
    <3> SUFFICES ASSUME Quiet', search.call.kind # "tiered" PROVE Scores'
      BY <2>3 DEF Scores
    <3>1. Quiet /\ UNCHANGED <<known, tf, df, times>>
      BY <2>7
    <3>2. N' = N
      BY <3>1 DEF N
    <3>3. Matches' = Matches
      BY <2>3, <3>1, <3>2 DEF Matches, Bears
    <3>4. ResultDocs' = ResultDocs
      BY <2>3 DEF ResultDocs
    <3>5. Partly(search.doc, search.left) => Partly(search.doc, search.left)'
      BY <2>3, <2>4, <3>1, <3>2 DEF Partly, Bears
    <3> QED
      BY <2>1, <2>3, <3>1, <3>3, <3>4, <3>5 DEF Scores
  <2> QED
    BY <2>5, <2>8, <2>9, <2>10 DEF SearchOK
<1> QED
  BY <1>1, <1>2

(* A term in no document, or in all of them, decides nothing.              *)
LEMMA NoBearing ==
  ASSUME CountsOK, NothingTwice, NEW d \in Docs, NEW t \in Words, Bears(d, t)
  PROVE  df[t] # 0 /\ df[t] < N
<1>1. tf[d][t] # 0 /\ df[t] < N
  BY DEF Bears, CountsOK, StatTypeOK
<1> QED
  BY <1>1, NoneHolds

LEMMA ReadNumberKeeps ==
  ASSUME CountsOK, SearchOK, ReadNumber
  PROVE  SearchOK'
<1>1. search.stage = "number" /\ UNCHANGED <<known, tf, df, times>>
  BY DEF ReadNumber, InSearch
<1>2. search # NoSearch
  BY <1>1 DEF NoSearch
<1>3. Typed /\ Staged /\ Sums /\ Scores
  BY <1>2 DEF SearchOK
<1>4. PICK stage \in {"done", "frequency"} :
        /\ search' = [search EXCEPT !.n = N, !.left = search.terms, !.stage = stage]
        /\ stage = "done" <=> N = 0
  BY Zenon DEF ReadNumber
<1>5. /\ DOMAIN search' = Fields
      /\ search'.n = N /\ search'.left = search.terms /\ search'.stage = stage
      /\ search'.beside = search.beside /\ search'.call = search.call
      /\ search'.terms = search.terms /\ search'.weight = search.weight
      /\ search'.tier = search.tier /\ search'.todo = search.todo
      /\ search'.sum = search.sum /\ search'.zero = search.zero
      /\ search'.results = search.results
  BY <1>3, <1>4 DEF Typed, Fields
<1>6. search.call.kind = "vsm" /\ DOMAIN search.weight = {}
  BY <1>1, <1>3 DEF Staged
<1>7. Typed' /\ Staged'
  BY <1>3, <1>5, <1>6 DEF Typed, Staged
<1>8. /\ N' = N /\ \A t : df'[t] = df[t]
      /\ Even' <=> Even
      /\ Quiet' <=> Quiet
  BY <1>1, <1>5 DEF N, Even, Quiet, NothingTwice
<1>9. Sums'
  BY <1>3, <1>5, <1>8 DEF Sums
<1>10. Quiet /\ N = 0 => \A t \in Words : df[t] = 0
  BY DEF Quiet, CountsOK, DfCoversDocs, StatTypeOK, N
<1>11. Weights'
  <2>1. ToSet(search.terms) \subseteq Words
    BY <1>3, SetOfSeq DEF Typed
  <2>2. stage # "frequency" => N = 0
    BY <1>4
  <2> QED
    BY <1>5, <1>6, <1>8, <1>10, <2>1, <2>2 DEF Weights
<1>12. Scores'
  <2> SUFFICES ASSUME Quiet PROVE Scores'
    BY <1>8 DEF Scores
  <2>1. Matches' = Matches /\ ResultDocs' = ResultDocs
    BY <1>1, <1>5, <1>8 DEF Matches, ResultDocs, Bears
  <2>2. N = 0 => Matches = {}
    <3> SUFFICES ASSUME N = 0, NEW d \in search.call.docs, NEW t \in ToSet(search.terms)
                 PROVE  ~Bears(d, t)
      BY DEF Matches
    <3>1. t \in Words
      BY <1>3, SetOfSeq DEF Typed
    <3>2. df[t] = 0
      BY <1>10, <3>1
    <3> QED
      BY <3>2 DEF Bears
  <2> QED
    BY <1>1, <1>3, <1>4, <1>5, <1>6, <1>8, <2>1, <2>2 DEF Scores
<1> QED
  BY <1>7, <1>9, <1>11, <1>12 DEF SearchOK

LEMMA ReadFrequencyKeeps ==
  ASSUME CountsOK, SearchOK, ReadFrequency
  PROVE  SearchOK'
<1>1. search.stage = "frequency" /\ UNCHANGED <<known, tf, df, times>> /\ search.left # <<>>
  BY DEF ReadFrequency, InSearch
<1>2. search # NoSearch
  BY <1>1 DEF NoSearch
<1>3. Typed /\ Staged /\ Sums /\ Weights /\ Scores
  BY <1>2 DEF SearchOK
<1>4. PICK t : t = Head(search.left)
  OBVIOUS
<1>5. /\ t \in Words /\ t \in ToSet(search.left)
      /\ Tail(search.left) \in Seq(Words)
      /\ ToSet(search.left) = {t} \cup ToSet(Tail(search.left))
  BY <1>1, <1>3, <1>4, HeadAndTail DEF Typed
<1>6. PICK w : /\ search' = [search EXCEPT !.left = Tail(search.left), !.weight = w]
               /\ w = IF df[t] = 0 THEN search.weight ELSE Weighted(t)
  BY <1>4, Zenon DEF ReadFrequency
<1>7. /\ DOMAIN search' = Fields
      /\ search'.n = search.n /\ search'.left = Tail(search.left)
      /\ search'.stage = search.stage /\ search'.weight = w
      /\ search'.beside = search.beside /\ search'.call = search.call
      /\ search'.terms = search.terms
      /\ search'.tier = search.tier /\ search'.todo = search.todo
      /\ search'.sum = search.sum /\ search'.zero = search.zero
      /\ search'.results = search.results
  BY <1>3, <1>6 DEF Typed, Fields
<1>8. DOMAIN w = IF df[t] = 0 THEN DOMAIN search.weight ELSE DOMAIN search.weight \cup {t}
  BY <1>6 DEF Weighted
<1>9. Typed'
  <2>1. IsFiniteSet(DOMAIN search.weight \cup {t})
    BY <1>3, FS_AddElement DEF Typed
  <2>2. DOMAIN w \subseteq Words /\ IsFiniteSet(DOMAIN w)
    BY <1>3, <1>5, <1>8, <2>1 DEF Typed
  <2> QED
    BY <1>3, <1>5, <1>7, <2>2 DEF Typed
<1>10. Staged'
  BY <1>1, <1>3, <1>5, <1>7 DEF Staged
<1>11. /\ N' = N /\ \A u : df'[u] = df[u]
       /\ Even' <=> Even
       /\ Quiet' <=> Quiet
  BY <1>1, <1>7 DEF N, Even, Quiet, NothingTwice
<1>12. Sums'
  BY <1>3, <1>7, <1>11 DEF Sums
<1>13. Weights'
  <2> SUFFICES ASSUME Quiet, search.call.kind = "vsm" PROVE Weights'
    BY <1>7, <1>11 DEF Weights
  <2>1. /\ search.n = N
        /\ DOMAIN search.weight \subseteq ToSet(search.terms)
        /\ \A u \in DOMAIN search.weight : /\ search.weight[u] \in Nat
                                           /\ search.weight[u] > 0 <=> df[u] < N
        /\ \A u \in ToSet(search.terms) :
             u \in DOMAIN search.weight \/ df[u] = 0 \/ u \in ToSet(search.left)
    BY <1>1, <1>3 DEF Weights
  <2>2. t \in ToSet(search.terms)
    BY <1>1, <1>3, <1>5 DEF Staged
  <2>3. DOMAIN w \subseteq ToSet(search.terms)
    BY <1>8, <2>1, <2>2
  <2>4. ASSUME NEW u \in DOMAIN w
        PROVE  w[u] \in Nat /\ (w[u] > 0 <=> df[u] < N)
    <3>1. CASE df[t] = 0
      BY <1>6, <2>1, <2>4, <3>1
    <3>2. CASE df[t] # 0 /\ u # t
      BY <1>6, <2>1, <2>4, <3>2 DEF Weighted
    <3>3. CASE df[t] # 0 /\ u = t
      <4>1. w[t] = WeightOf(t) + Idf(search.n, df[t])
        BY <1>6, <3>3 DEF Weighted
      <4>2. WeightOf(t) \in Nat /\ (WeightOf(t) > 0 => df[t] < N)
        BY <2>1 DEF WeightOf
      <4>3. Idf(N, df[t]) \in Nat /\ (Idf(N, df[t]) > 0 <=> df[t] < N)
        BY <1>5, <3>3, IdfIs DEF Quiet
      <4>4. w[t] = WeightOf(t) + Idf(N, df[t])
        BY <2>1, <4>1
      <4> HIDE DEF Weighted
      <4> QED
        BY <3>3, <4>2, <4>3, <4>4
    <3> QED
      BY <3>1, <3>2, <3>3
  <2>5. ASSUME NEW u \in ToSet(search.terms)
        PROVE  u \in DOMAIN w \/ df[u] = 0 \/ u \in ToSet(Tail(search.left))
    BY <1>5, <1>8, <2>1, <2>5
  <2> QED
    BY <1>1, <1>7, <1>11, <2>1, <2>3, <2>4, <2>5 DEF Weights
<1>14. Scores'
  <2> SUFFICES ASSUME Quiet PROVE Scores'
    BY <1>11 DEF Scores
  <2>1. Matches' = Matches /\ ResultDocs' = ResultDocs
    BY <1>1, <1>7, <1>11 DEF Matches, ResultDocs, Bears
  <2> QED
    BY <1>1, <1>3, <1>7, <1>11, <2>1 DEF Scores, Staged
<1> QED
  BY <1>9, <1>10, <1>12, <1>13, <1>14 DEF SearchOK

LEMMA WeighQueryKeeps ==
  ASSUME CountsOK, SearchOK, WeighQuery
  PROVE  SearchOK'
<1>1. search.stage = "frequency" /\ UNCHANGED <<known, tf, df, times>> /\ search.left = <<>>
  BY DEF WeighQuery, InSearch
<1>2. search # NoSearch
  BY <1>1 DEF NoSearch
<1>3. Typed /\ Staged /\ Sums /\ Weights /\ Scores
  BY <1>2 DEF SearchOK
<1>4. PICK stage \in {"done", "score"} :
        /\ search' = [search EXCEPT !.stage = stage]
        /\ stage = "done" <=> \A t \in DOMAIN search.weight : search.weight[t] = 0
  BY Zenon DEF WeighQuery
<1>5. /\ DOMAIN search' = Fields
      /\ search'.n = search.n /\ search'.left = search.left
      /\ search'.stage = stage /\ search'.weight = search.weight
      /\ search'.beside = search.beside /\ search'.call = search.call
      /\ search'.terms = search.terms
      /\ search'.tier = search.tier /\ search'.todo = search.todo
      /\ search'.sum = search.sum /\ search'.zero = search.zero
      /\ search'.results = search.results
  BY <1>3, <1>4 DEF Typed, Fields
<1>6. ToSet(search.left) = {}
  BY <1>1 DEF ToSet
<1>7. Typed' /\ Staged'
  <2>1. stage = "score" => DOMAIN search.weight # {}
    BY <1>4
  <2> QED
    BY <1>1, <1>3, <1>5, <1>6, <2>1 DEF Typed, Staged
<1>8. /\ N' = N /\ \A t : df'[t] = df[t]
      /\ Even' <=> Even
      /\ Quiet' <=> Quiet
  BY <1>1, <1>5 DEF N, Even, Quiet, NothingTwice
<1>9. Sums'
  BY <1>3, <1>5, <1>8 DEF Sums
<1>10. search.call.kind = "vsm"
  BY <1>1, <1>3 DEF Staged
<1>11. Weights'
  BY <1>1, <1>3, <1>5, <1>6, <1>8 DEF Weights
<1>12. Scores'
  <2> SUFFICES ASSUME Quiet PROVE Scores'
    BY <1>8 DEF Scores
  <2>1. Matches' = Matches /\ ResultDocs' = ResultDocs
    BY <1>1, <1>5, <1>8 DEF Matches, ResultDocs, Bears
  <2>2. stage = "done" => Matches = {}
    <3> SUFFICES ASSUME stage = "done", NEW d \in search.call.docs,
                        NEW t \in ToSet(search.terms), Bears(d, t)
                 PROVE  FALSE
      BY DEF Matches
    <3>1. t \in Words /\ d \in Docs
      BY <1>3, SetOfSeq, SearchesAreCalls DEF Typed
    <3>2. df[t] # 0 /\ df[t] < N
      BY <3>1, NoBearing DEF Quiet
    <3>3. t \in DOMAIN search.weight
      BY <1>1, <1>3, <1>6, <1>10, <3>2 DEF Weights
    <3>4. search.weight[t] > 0
      BY <1>1, <1>3, <1>10, <3>2, <3>3 DEF Weights
    <3> QED
      BY <1>4, <3>3, <3>4
  <2> QED
    BY <1>1, <1>3, <1>5, <1>8, <2>1, <2>2 DEF Scores
<1> QED
  BY <1>7, <1>9, <1>11, <1>12 DEF SearchOK

LEMMA ReadTierKeeps ==
  ASSUME SearchOK, TiersOK, ReadTier
  PROVE  SearchOK'
<1>1. search.stage = "tier" /\ UNCHANGED <<known, tf, df, times>>
  BY DEF ReadTier, InSearch
<1>2. search # NoSearch
  BY <1>1 DEF NoSearch
<1>3. Typed /\ Staged /\ Sums
  BY <1>2 DEF SearchOK
<1>4. PICK i, stage, todo :
        /\ i = Min({search.tier, Len(TierSizes)})
        /\ stage \in {"score", "tier"}
        /\ todo = Candidates(i) \/ todo = search.todo
        /\ search' = [search EXCEPT !.tier = search.tier + 1, !.stage = stage, !.todo = todo]
  BY Zenon DEF ReadTier
<1>5. /\ DOMAIN search' = Fields
      /\ search'.n = search.n /\ search'.left = search.left
      /\ search'.stage = stage /\ search'.weight = search.weight
      /\ search'.beside = search.beside /\ search'.call = search.call
      /\ search'.terms = search.terms
      /\ search'.tier = search.tier + 1 /\ search'.todo = todo
      /\ search'.sum = search.sum /\ search'.zero = search.zero
      /\ search'.results = search.results
  BY <1>3, <1>4 DEF Typed, Fields
<1>6. i \in DOMAIN TierSizes
  <2>1. search.tier \in Nat \ {0} /\ Len(TierSizes) \in Nat \ {0}
    BY <1>3, TiersAreNested DEF Typed
  <2>2. i \in {search.tier, Len(TierSizes)} /\ i <= search.tier /\ i <= Len(TierSizes)
    <3>1. \E m \in {search.tier, Len(TierSizes)} :
            \A x \in {search.tier, Len(TierSizes)} : m <= x
      BY <2>1
    <3> QED
      BY <1>4, <3>1 DEF Min
  <2> QED
    BY <2>1, <2>2, TiersAreNested
<1>7. todo \subseteq Docs
  <2>1. ToSet(search.terms) \subseteq Words
    BY <1>3, SetOfSeq DEF Typed
  <2>2. Candidates(i) \subseteq Docs
    BY <1>6, <2>1 DEF Candidates, TiersOK
  <2> QED
    BY <1>3, <1>4, <2>2 DEF Typed
<1>8. ToSet(<<>>) = {}
  BY DEF ToSet
<1>9. Typed' /\ Staged'
  <2>1. search'.tier \in Nat \ {0}
    BY <1>3, <1>5 DEF Typed
  <2>2. Typed'
    BY <1>3, <1>4, <1>5, <1>7, <2>1 DEF Typed
  <2>3. search.left = <<>> /\ ToSet(search.left) = {} /\ search.call.kind = "tiered"
    BY <1>1, <1>3, <1>8 DEF Staged
  <2> QED
    BY <1>4, <1>5, <2>2, <2>3 DEF Staged
<1>10. Sums'
  BY <1>1, <1>3, <1>5 DEF Sums, Even, NothingTwice
<1>11. search.call.kind = "tiered"
  BY <1>1, <1>3 DEF Staged
<1> QED
  BY <1>5, <1>9, <1>10, <1>11 DEF SearchOK, Weights, Scores

(* What is asked of a quiet ranking are the terms that may bear.           *)
LEMMA AskedTell ==
  ASSUME CountsOK, Typed, Weights, Quiet, search.stage = "score",
         search.call.kind \in {"tfidf", "vsm"},
         NEW d \in search.call.docs
  PROVE  /\ Asked \subseteq Words
         /\ d \in Matches <=> \E t \in Asked : Bears(d, t)
<1>1. ToSet(search.terms) \subseteq Words /\ d \in Docs
  BY SetOfSeq, SearchesAreCalls DEF Typed
<1>2. CASE search.call.kind = "tfidf"
  BY <1>1, <1>2 DEF Asked, Matches
<1>3. CASE search.call.kind = "vsm"
  <2>1. Asked = DOMAIN search.weight /\ Asked \subseteq ToSet(search.terms)
    BY <1>3 DEF Asked, Weights
  <2>2. ASSUME NEW t \in ToSet(search.terms), Bears(d, t)
        PROVE  t \in Asked
    <3>1. df[t] # 0
      BY <1>1, <2>2, NoBearing DEF Quiet
    <3> QED
      BY <1>3, <2>1, <3>1 DEF Weights
  <2> QED
    BY <1>1, <2>1, <2>2 DEF Matches
<1> QED
  BY <1>2, <1>3

(* What may be weighed next.                                               *)
LEMMA WeighableIs ==
  ASSUME Typed, Staged, search.stage = "score", NEW c \in Weighable
  PROVE  /\ c.doc \in Docs
         /\ c.left \in Seq(Words) /\ c.left # <<>> /\ ToSet(c.left) \subseteq Asked
         /\ \/ c.doc = search.doc /\ c.left = search.left /\ search.left # <<>>
            \/ c.doc \in search.todo /\ ToSet(c.left) = Asked /\ search.left = <<>>
<1>1. CASE search.left # <<>>
  <2>1. c = [doc |-> search.doc, left |-> search.left]
    BY <1>1 DEF Weighable
  <2>2. c.doc = search.doc /\ c.left = search.left
    BY <2>1
  <2> QED
    BY <1>1, <2>2 DEF Typed, Staged
<1>2. CASE search.left = <<>>
  <2>1. PICK d \in search.todo, order \in TermOrders \ {<<>>} :
          c = [doc |-> d, left |-> order]
    BY <1>2 DEF Weighable
  <2>2. c.doc = d /\ c.left = order
    BY <2>1
  <2>3. order \in Seq(Words) /\ ToSet(order) = Asked
    <3>1. CASE search.call.kind = "vsm"
      <4>1. order \in SetToSeqs(DOMAIN search.weight)
        BY <2>1, <3>1 DEF TermOrders
      <4> QED
        BY <3>1, <4>1, OrdersAre DEF Typed, Asked
    <3>2. CASE search.call.kind # "vsm"
      BY <2>1, <3>2 DEF TermOrders, Typed, Asked
    <3> QED
      BY <3>1, <3>2
  <2> QED
    BY <1>2, <2>1, <2>2, <2>3 DEF Typed
<1> QED
  BY <1>1, <1>2

(* The weight a step adds to the sum, and when it is not zero.             *)
Added(d, t) == TfIdf(d, t) * (IF search.call.kind = "vsm" THEN search.weight[t] ELSE 1)

LEMMA AddedIs ==
  ASSUME CountsOK, Typed, Staged, Weights, Even, search.stage = "score",
         NEW d \in Docs, NEW t \in Asked
  PROVE  /\ TfIdf(d, t) \in Nat /\ (TfIdf(d, t) > 0 <=> Bears(d, t))
         /\ Added(d, t) \in Nat
         /\ Added(d, t) > 0 <=> Bears(d, t)
<1>1. t \in Words
  BY SetOfSeq DEF Asked, Typed
<1>2. TfIdf(d, t) \in Nat /\ (TfIdf(d, t) > 0 <=> Bears(d, t))
  BY <1>1, TfIdfIs DEF Even
<1>3. CASE search.call.kind = "vsm"
  <2>1. search.weight[t] \in Nat /\ (search.weight[t] > 0 <=> df[t] < N)
    BY <1>3 DEF Weights, Even, Quiet, Asked
  <2>2. Bears(d, t) => df[t] < N
    BY DEF Bears
  <2>3. Added(d, t) = TfIdf(d, t) * search.weight[t]
    BY <1>3 DEF Added
  <2>4. PICK a, w : a = TfIdf(d, t) /\ w = search.weight[t]
    OBVIOUS
  <2>5. a * w \in Nat /\ (a * w > 0 <=> a > 0 /\ w > 0)
    <3>1. a \in Nat /\ w \in Nat
      BY <1>2, <2>1, <2>4
    <3>2. a = 0 => a * w = 0
      BY <3>1
    <3> QED
      BY <3>1, <3>2, Products
  <2> HIDE DEF Bears
  <2> QED
    BY <1>2, <2>1, <2>2, <2>3, <2>4, <2>5
<1>4. CASE search.call.kind # "vsm"
  <2>1. Added(d, t) = TfIdf(d, t) * 1
    BY <1>4 DEF Added
  <2> HIDE DEF Bears
  <2> QED
    BY <1>2, <2>1
<1> QED
  BY <1>2, <1>3, <1>4

(* A step as it is analysed below: t is weighed, s is the sum it reaches.  *)
Reaches(c, t, s, zero, ranked) ==
  /\ t = Head(c.left)
  /\ s = search.sum + Added(c.doc, t)
  /\ zero = (search.zero /\ TfIdf(c.doc, t) = 0)
  /\ ranked = (Len(c.left) = 1 /\ IF search.call.kind = "vsm" THEN ~zero ELSE s > 0)
  /\ search' = [search EXCEPT
       !.doc  = c.doc,
       !.left = Tail(c.left),
       !.sum  = IF Len(c.left) = 1 THEN 0 ELSE s,
       !.zero = Len(c.left) = 1 \/ zero,
       !.todo = IF Len(c.left) = 1 THEN @ \ {c.doc} ELSE @,
       !.results = @ \cup IF ranked THEN {[doc |-> c.doc, score |-> s]} ELSE {}]

LEMMA WeighReaches ==
  ASSUME Weigh
  PROVE  \E c \in Weighable : \E t, s, zero, ranked : Reaches(c, t, s, zero, ranked)
<1>1. PICK c \in Weighable :
        LET t    == Head(c.left)
            v    == TfIdf(c.doc, t)
            vsm  == search.call.kind = "vsm"
            sum  == search.sum + v * (IF vsm THEN search.weight[t] ELSE 1)
            zero == search.zero /\ v = 0
            last == Len(c.left) = 1
            ranked == last /\ IF vsm THEN ~zero ELSE sum > 0
        IN  search' = [search EXCEPT
                        !.doc  = c.doc,
                        !.left = Tail(c.left),
                        !.sum  = IF last THEN 0 ELSE sum,
                        !.zero = last \/ zero,
                        !.todo = IF last THEN @ \ {c.doc} ELSE @,
                        !.results = @ \cup IF ranked THEN {[doc |-> c.doc, score |-> sum]}
                                           ELSE {}]
  BY Zenon DEF Weigh
<1> DEFINE t == Head(c.left)
           s == search.sum + Added(c.doc, t)
           zero == search.zero /\ TfIdf(c.doc, t) = 0
           ranked == Len(c.left) = 1 /\ IF search.call.kind = "vsm" THEN ~zero ELSE s > 0
<1>2. Reaches(c, t, s, zero, ranked)
  BY <1>1, Zenon DEF Reaches, Added
<1> QED
  BY <1>2, Zenon

LEMMA WeighKeeps ==
  ASSUME CountsOK, SearchOK, Weigh
  PROVE  SearchOK'
<1>1. search.stage = "score" /\ UNCHANGED <<known, tf, df, times>>
  BY DEF Weigh, InSearch
<1>2. search # NoSearch
  BY <1>1 DEF NoSearch
<1>3. Typed /\ Staged /\ Sums /\ Weights /\ Scores
  BY <1>2 DEF SearchOK
<1>4. PICK c \in Weighable : \E t, s, zero, ranked : Reaches(c, t, s, zero, ranked)
  BY WeighReaches
<1>5. PICK t, s, zero, ranked : Reaches(c, t, s, zero, ranked)
  BY <1>4
<1>6. /\ c.doc \in Docs
      /\ c.left \in Seq(Words) /\ c.left # <<>> /\ ToSet(c.left) \subseteq Asked
      /\ \/ c.doc = search.doc /\ c.left = search.left /\ search.left # <<>>
         \/ c.doc \in search.todo /\ ToSet(c.left) = Asked /\ search.left = <<>>
  BY <1>1, <1>3, WeighableIs
<1>7. /\ t \in Asked /\ Tail(c.left) \in Seq(Words)
      /\ ToSet(c.left) = {t} \cup ToSet(Tail(c.left))
      /\ Len(c.left) = 1 <=> Tail(c.left) = <<>>
  <2>1. t = Head(c.left)
    BY <1>5 DEF Reaches
  <2> QED
    BY <1>6, <2>1, HeadAndTail
<1> DEFINE last == Len(c.left) = 1
<1>8. zero \in BOOLEAN /\ ranked \in BOOLEAN
  BY <1>5, Zenon DEF Reaches
<1>9. /\ DOMAIN search' = Fields
      /\ search'.n = search.n /\ search'.left = Tail(c.left)
      /\ search'.stage = search.stage /\ search'.weight = search.weight
      /\ search'.beside = search.beside /\ search'.call = search.call
      /\ search'.terms = search.terms /\ search'.tier = search.tier
      /\ search'.doc = c.doc
      /\ search'.todo = IF last THEN search.todo \ {c.doc} ELSE search.todo
      /\ search'.sum = IF last THEN 0 ELSE s
      /\ search'.zero = (last \/ zero)
      /\ search'.results = search.results \cup IF ranked THEN {[doc |-> c.doc, score |-> s]} ELSE {}
  BY <1>3, <1>5 DEF Typed, Fields, Reaches
<1>10. Asked' = Asked
  BY <1>9 DEF Asked
<1>11. IsFiniteSet(search'.results)
  <2>1. IsFiniteSet({[doc |-> c.doc, score |-> s]}) /\ IsFiniteSet({})
    BY FS_Singleton, FS_EmptySet
  <2>2. IsFiniteSet(search.results)
    BY <1>3 DEF Typed
  <2> QED
    BY <1>9, <2>1, <2>2, FS_Union
<1>12. Typed'
  BY <1>3, <1>6, <1>7, <1>8, <1>9, <1>11 DEF Typed
<1>13. Staged'
  BY <1>1, <1>3, <1>6, <1>7, <1>9, <1>10 DEF Staged
<1>14. /\ N' = N /\ \A u : df'[u] = df[u]
       /\ Even' <=> Even
       /\ Quiet' <=> Quiet
  BY <1>1, <1>9 DEF N, Even, Quiet, NothingTwice
<1>15. s = search.sum + Added(c.doc, t) /\ zero = (search.zero /\ TfIdf(c.doc, t) = 0)
       /\ ranked = (last /\ IF search.call.kind = "vsm" THEN ~zero ELSE s > 0)
  BY <1>5 DEF Reaches
<1>16. Weights'
  BY <1>1, <1>3, <1>9, <1>14 DEF Weights
<1>17. Sums'
  <2> SUFFICES ASSUME Even
               PROVE  search'.sum \in Nat /\ \A x \in search'.results : x.score \in Nat
    BY <1>14 DEF Sums
  <2>1. s \in Nat
    <3>1. Added(c.doc, t) \in Nat
      BY <1>1, <1>3, <1>6, <1>7, AddedIs
    <3>2. search.sum \in Nat
      BY <1>3 DEF Sums
    <3> QED
      BY <1>15, <3>1, <3>2
  <2>2. \A x \in search'.results \ search.results : x.score = s
    BY <1>9
  <2> QED
    BY <1>3, <1>9, <2>1, <2>2 DEF Sums
<1>18. Scores'
  <2> SUFFICES ASSUME Quiet, search.call.kind # "tiered"
               PROVE  Scores'
    BY <1>9, <1>14 DEF Scores
  <2>1. Even /\ search.call.kind \in {"tfidf", "vsm"} /\ c.doc \in search.todo
        /\ search.todo \subseteq search.call.docs
    BY <1>1, <1>3, <1>6, SearchesAreCalls DEF Quiet, Even, Typed, Scores, Partly
  <2>2. /\ TfIdf(c.doc, t) \in Nat /\ (TfIdf(c.doc, t) > 0 <=> Bears(c.doc, t))
        /\ Added(c.doc, t) \in Nat
        /\ Added(c.doc, t) > 0 <=> Bears(c.doc, t)
    BY <1>1, <1>3, <1>6, <1>7, <2>1, AddedIs
  <2>3. search.sum \in Nat /\ s \in Nat
    BY <1>3, <1>15, <2>1, <2>2 DEF Sums
  <2>4. Partly(c.doc, c.left)
    <3>1. CASE search.left # <<>>
      BY <1>1, <1>3, <1>6, <3>1 DEF Scores
    <3>2. CASE search.left = <<>>
      <4>1. search.sum = 0
        BY <1>3, <3>2 DEF Scores
      <4> QED
        BY <1>6, <2>1, <3>2, <4>1 DEF Partly
    <3> QED
      BY <3>1, <3>2
  <2>5. s > 0 => \E u \in Asked : Bears(c.doc, u)
    <3> HIDE DEF Bears
    <3>1. s > 0 => search.sum > 0 \/ Added(c.doc, t) > 0
      BY <1>15, <2>2, <2>3
    <3> QED
      BY <1>7, <2>2, <2>4, <3>1 DEF Partly
  <2>6. s = 0 => \A u \in Asked : Bears(c.doc, u) => u \in ToSet(Tail(c.left))
    <3>1. s = 0 => search.sum = 0 /\ Added(c.doc, t) = 0
      BY <1>15, <2>2, <2>3
    <3>2. s = 0 => ~Bears(c.doc, t)
      BY <2>2, <3>1
    <3> QED
      BY <1>7, <2>4, <3>1, <3>2 DEF Partly
  <2>7. search.call.kind = "vsm" => (zero <=> s = 0)
    <3>1. TfIdf(c.doc, t) = 0 <=> Added(c.doc, t) = 0
      BY <2>2
    <3>2. s = 0 <=> search.sum = 0 /\ Added(c.doc, t) = 0
      BY <1>15, <2>2, <2>3
    <3>3. search.call.kind = "vsm" => (search.zero <=> search.sum = 0)
      BY <1>3 DEF Scores
    <3> QED
      BY <1>15, <3>1, <3>2, <3>3
  <2>8. ranked <=> last /\ s > 0
    <3>1. s > 0 <=> s # 0
      BY <2>3
    <3>2. CASE search.call.kind = "vsm"
      <4>1. ranked = (last /\ ~zero)
        BY <1>15, <3>2, Zenon
      <4> QED
        BY <2>7, <3>1, <3>2, <4>1, Zenon
    <3>3. CASE search.call.kind # "vsm"
      BY <1>15, <3>3, Zenon
    <3> QED
      BY <3>2, <3>3
  <2>9. last => (c.doc \in Matches <=> s > 0)
    <3>1. last => ToSet(Tail(c.left)) = {}
      BY <1>7 DEF ToSet
    <3>2. c.doc \in Matches <=> \E u \in Asked : Bears(c.doc, u)
      BY <1>1, <1>3, <2>1, AskedTell
    <3> QED
      BY <2>3, <2>5, <2>6, <3>1, <3>2
  <2>10. Matches' = Matches
    BY <1>1, <1>9, <1>14 DEF Matches, Bears
  <2>11. \A x \in search'.results : x.doc \in Matches /\ x.score \in Nat /\ x.score > 0
    <3>1. ASSUME NEW x \in search'.results, x \notin search.results
          PROVE  x.doc \in Matches /\ x.score \in Nat /\ x.score > 0
      <4>1. ranked /\ x = [doc |-> c.doc, score |-> s]
        BY <1>9, <3>1
      <4>2. x.doc = c.doc /\ x.score = s
        BY <4>1
      <4> QED
        BY <2>3, <2>8, <2>9, <4>1, <4>2
    <3> QED
      BY <1>3, <3>1 DEF Scores
  <2>12. Matches \ search'.todo \subseteq ResultDocs'
    <3> SUFFICES ASSUME NEW d \in Matches, d \notin search'.todo
                 PROVE  \E x \in search'.results : x.doc = d
      BY DEF ResultDocs
    <3>1. CASE d \in search.todo
      <4>1. d = c.doc /\ last
        BY <1>9, <3>1
      <4>2. [doc |-> c.doc, score |-> s] \in search'.results
        BY <1>9, <2>8, <2>9, <4>1
      <4> QED
        BY <4>1, <4>2
    <3>2. CASE d \notin search.todo
      <4>1. \E x \in search.results : x.doc = d
        BY <1>3, <3>2 DEF Scores, ResultDocs
      <4> QED
        BY <1>9, <4>1
    <3> QED
      BY <3>1, <3>2
  <2>13. Tail(c.left) # <<>> => Partly(search.doc, search.left)'
    <3> SUFFICES ASSUME Tail(c.left) # <<>> PROVE Partly(search.doc, search.left)'
      OBVIOUS
    <3>1. /\ search'.doc = c.doc /\ search'.left = Tail(c.left)
          /\ search'.todo = search.todo /\ search'.sum = s
      BY <1>7, <1>9
    <3>2. \A u : Bears(c.doc, u)' <=> Bears(c.doc, u)
      BY <1>1, <1>14 DEF Bears
    <3>3. Partly(c.doc, Tail(c.left))'
      BY <1>10, <2>1, <2>5, <2>6, <3>1, <3>2 DEF Partly
    <3> QED
      BY <3>1, <3>3 DEF Partly, Bears
  <2> QED
    BY <1>1, <1>7, <1>9, <2>1, <2>7, <2>10, <2>11, <2>12, <2>13 DEF Scores
<1> QED
  BY <1>12, <1>13, <1>16, <1>17, <1>18 DEF SearchOK

LEMMA FinishKeeps ==
  ASSUME CountsOK, SearchOK, Finish
  PROVE  SearchOK'
<1>1. search.stage = "score" /\ UNCHANGED <<known, tf, df, times>> /\ Weighable = {}
  BY DEF Finish, InSearch
<1>2. search # NoSearch
  BY <1>1 DEF NoSearch
<1>3. Typed /\ Staged /\ Sums /\ Weights /\ Scores
  BY <1>2 DEF SearchOK
<1>4. PICK top \in SUBSET search.results :
        /\ search.call.kind # "tiered" => Cardinality(top) = Cardinality(search.results)
        /\ search' = [search EXCEPT !.stage = "done", !.results = top]
  BY Zenon DEF Finish
<1>5. /\ DOMAIN search' = Fields
      /\ search'.n = search.n /\ search'.left = search.left
      /\ search'.stage = "done" /\ search'.weight = search.weight
      /\ search'.beside = search.beside /\ search'.call = search.call
      /\ search'.terms = search.terms
      /\ search'.tier = search.tier /\ search'.todo = search.todo
      /\ search'.sum = search.sum /\ search'.zero = search.zero
      /\ search'.results = top
  BY <1>3, <1>4 DEF Typed, Fields
<1>6. IsFiniteSet(top) /\ (search.call.kind # "tiered" => top = search.results)
  <2>1. IsFiniteSet(search.results)
    BY <1>3 DEF Typed
  <2> QED
    BY <1>4, <2>1, FS_Subset
<1>7. search.left = <<>>
  <2> SUFFICES ASSUME search.left # <<>> PROVE FALSE
    OBVIOUS
  <2>1. Weighable = {[doc |-> search.doc, left |-> search.left]}
    BY DEF Weighable
  <2> QED
    BY <1>1, <2>1
<1>8. Typed' /\ Staged'
  BY <1>3, <1>5, <1>6 DEF Typed, Staged
<1>9. /\ N' = N /\ \A t : df'[t] = df[t]
      /\ Even' <=> Even
      /\ Quiet' <=> Quiet
  BY <1>1, <1>5 DEF N, Even, Quiet, NothingTwice
<1>10. Sums'
  BY <1>3, <1>5, <1>9 DEF Sums
<1>11. Weights'
  BY <1>1, <1>3, <1>5, <1>9 DEF Weights
<1>12. Scores'
  <2> SUFFICES ASSUME Quiet, search.call.kind # "tiered"
               PROVE  Scores'
    BY <1>5, <1>9 DEF Scores
  <2>1. search.call.kind \in {"tfidf", "vsm"}
    BY <1>3, SearchesAreCalls DEF Typed
  <2>2. Matches' = Matches
    BY <1>1, <1>5, <1>9 DEF Matches, Bears
  <2>3. ResultDocs' = ResultDocs
    BY <1>5, <1>6 DEF ResultDocs
  <2>4. Matches \subseteq ResultDocs
    <3>1. CASE search.todo = {}
      BY <1>3, <3>1 DEF Scores
    <3>2. CASE search.todo # {}
      <4>1. TermOrders \ {<<>>} = {}
        <5> SUFFICES ASSUME NEW order \in TermOrders \ {<<>>} PROVE FALSE
          OBVIOUS
        <5>1. PICK d \in search.todo : TRUE
          BY <3>2
        <5>2. [doc |-> d, left |-> order] \in Weighable
          BY <1>7, <5>1 DEF Weighable
        <5> QED
          BY <1>1, <5>2
      <4>2. search.call.kind = "tfidf" /\ search.terms = <<>>
        <5>1. CASE search.call.kind = "vsm"
          <6>1. TermOrders = SetToSeqs(DOMAIN search.weight) /\ DOMAIN search.weight # {}
            BY <1>1, <1>3, <5>1 DEF TermOrders, Staged
          <6>2. \E order \in TermOrders : order # <<>>
            BY <1>3, <6>1, OrdersAre DEF Typed
          <6> QED
            BY <4>1, <6>2
        <5>2. CASE search.call.kind = "tfidf"
          BY <4>1, <5>2 DEF TermOrders
        <5> QED
          BY <2>1, <5>1, <5>2
      <4>3. ToSet(search.terms) = {}
        BY <4>2 DEF ToSet
      <4> QED
        BY <4>3 DEF Matches
    <3> QED
      BY <3>1, <3>2
  <2> QED
    BY <1>3, <1>5, <1>6, <1>7, <2>2, <2>3, <2>4 DEF Scores
<1> QED
  BY <1>8, <1>10, <1>11, <1>12 DEF SearchOK

-----------------------------------------------------------------------------
(* The counts below a ranking.                                             *)
LEMMA RankStepsCount ==
  ASSUME [RkNext]_rkvars
  PROVE  [StatNext]_svars
<1>1. CASE \E d \in Docs, text \in Texts : CountOne(d, text)
  BY <1>1 DEF CountOne, StatNext
<1>2. CASE UNCHANGED rkvars
  BY <1>2 DEF rkvars, svars
<1>3. CASE BuildTieredIndex
  BY <1>3 DEF BuildTieredIndex, svars
<1>4. CASE BeginSearch
  BY <1>4 DEF BeginSearch, Begin, svars
<1>5. CASE ReadNumber \/ ReadFrequency \/ WeighQuery \/ ReadTier \/ Weigh \/ Finish
  BY <1>5 DEF ReadNumber, ReadFrequency, WeighQuery, ReadTier, Weigh, Finish, InSearch, svars
<1> QED
  BY <1>1, <1>2, <1>3, <1>4, <1>5 DEF RkNext

(* Rankings and builds leave the counts alone: what is proved of the       *)
(* counts holds beside them.                                               *)
THEOREM RankCountsOnly == RkSpec => StatSpec
<1>1. RkInit => StatInit
  BY DEF RkInit
<1>2. [RkNext]_rkvars => [StatNext]_svars
  BY RankStepsCount
<1> QED
  BY <1>1, <1>2, PTL DEF RkSpec, StatSpec

FewCounted == \A d \in Docs, t \in Words : tf[d][t] <= Len(Logs)

LEMMA RankCountsOK == RkSpec => []CountsOK
<1>1. RkSpec => [](StatTypeOK /\ DfCoversDocs)
  BY RankCountsOnly, StatTypes, FrequenciesCover, PTL
<1>2. StatInit => FewCounted
  BY LogsGrow DEF StatInit, FewCounted
<1>3. FewCounted /\ StatTypeOK /\ [StatNext]_svars => FewCounted'
  <2> SUFFICES ASSUME FewCounted, StatTypeOK, [StatNext]_svars PROVE FewCounted'
    OBVIOUS
  <2>1. CASE UNCHANGED svars
    BY <2>1 DEF FewCounted, svars
  <2>2. ASSUME NEW d \in Docs, NEW text \in Texts, Count(d, text)
        PROVE  FewCounted'
    <3>1. ASSUME NEW t \in Words
          PROVE  Cardinality(Where(text, t)) <= Len(Logs)
      <4>1. text \in Seq(Words)
        BY TextsAreTexts
      <4>2. DOMAIN text = 1..Len(text) /\ Len(text) \in Nat
        BY <4>1
      <4>3. Where(text, t) \subseteq 1..Len(text)
        BY <4>2 DEF Where
      <4>4. Cardinality(Where(text, t)) <= Cardinality(1..Len(text))
            /\ Cardinality(1..Len(text)) = Len(text)
            /\ Cardinality(Where(text, t)) \in Nat
        <5>0. PICK n \in Nat : n = Len(text)
          BY <4>2
        <5>1. IsFiniteSet(1..Len(text)) /\ Cardinality(1..Len(text)) = Len(text)
          <6>1. IsFiniteSet(1..n) /\ Cardinality(1..n) = IF 1 > n THEN 0 ELSE n - 1 + 1
            BY FS_Interval
          <6>2. (IF 1 > n THEN 0 ELSE n - 1 + 1) = n
            OBVIOUS
          <6> QED
            BY <5>0, <6>1, <6>2
        <5>2. IsFiniteSet(Where(text, t))
              /\ Cardinality(Where(text, t)) <= Cardinality(1..Len(text))
          BY <4>3, <5>1, FS_Subset
        <5> QED
          BY <5>1, <5>2, FS_CardinalityType
      <4>5. Len(text) <= Len(Logs) /\ Len(Logs) \in Nat
        BY LogsAreThere, LogsGrow
      <4> QED
        BY <4>2, <4>4, <4>5
    <3>2. tf' = [tf EXCEPT ![d] = TextCounts(d, text)]
      BY <2>2 DEF Count
    <3>3. \A e \in Docs : tf'[e] = IF e = d THEN TextCounts(d, text) ELSE tf[e]
      BY <3>2 DEF StatTypeOK
    <3>4. \A t \in Words : TextCounts(d, text)[t] <= Len(Logs)
      BY <3>1 DEF TextCounts, FewCounted
    <3> QED
      BY <3>3, <3>4 DEF FewCounted
  <2> QED
    BY <2>1, <2>2 DEF StatNext
<1>4. RkSpec => []FewCounted
  BY <1>1, <1>2, <1>3, RankCountsOnly, PTL DEF StatSpec
<1> QED
  BY <1>1, <1>4, PTL DEF CountsOK, FewCounted

(* Counting a text makes no document one that was indexed once.            *)
LEMMA CountsGrow ==
  ASSUME StatTypeOK, NEW d \in Docs, NEW text \in Texts, Count(d, text), NothingTwice'
  PROVE  NothingTwice
<1>1. \A e \in Docs : times'[e] = IF e = d THEN times[e] + 1 ELSE times[e]
  BY DEF Count, StatTypeOK
<1>2. \A e \in Docs : times'[e] <= 1 /\ times[e] \in Nat
  BY DEF NothingTwice, StatTypeOK
<1> QED
  BY <1>1, <1>2 DEF NothingTwice

-----------------------------------------------------------------------------
(* The tiers list documents.                                               *)
LEMMA BuildKeeps ==
  ASSUME TiersOK, BuildTieredIndex
  PROVE  TiersOK'
<1>1. PICK lists \in Fillings :
        tiers' = [i \in DOMAIN TierSizes |-> [t \in Words |->
                    IF df[t] = 0 THEN tiers[i][t] ELSE lists[t][i]]]
  BY Zenon DEF BuildTieredIndex
<1>2. ASSUME NEW i \in DOMAIN TierSizes, NEW t \in Words, df[t] # 0
      PROVE  lists[t][i] \in SUBSET Docs
  <2>1. lists[t] \in FillingsOf(t)
    BY <1>1, <1>2 DEF Fillings, Picks
  <2>2. PICK s \in RankedBy(t) : lists[t] = Lists(s)
    BY <2>1 DEF FillingsOf
  <2>3. s \in SetToSeqs(Holding(t))
    BY <2>2 DEF RankedBy
  <2>4. s \in [1..Cardinality(Holding(t)) -> Holding(t)]
    BY <2>3 DEF SetToSeqs
  <2>5. Cardinality(Holding(t)) \in Nat /\ Holding(t) \subseteq Docs
    BY HoldingIsFinite DEF Holding
  <2>6. s \in Seq(Docs) /\ Len(s) \in Nat
    BY <2>4, <2>5
  <2>7. TierSizes[i] \in Nat
    BY TiersAreNested
  <2>8. PICK m : m = Min({TierSizes[i], Len(s)})
    OBVIOUS
  <2>9. m \in Nat /\ m <= Len(s)
    <3>1. \E x \in {TierSizes[i], Len(s)} : \A y \in {TierSizes[i], Len(s)} : x <= y
      BY <2>6, <2>7
    <3>2. m \in {TierSizes[i], Len(s)} /\ \A y \in {TierSizes[i], Len(s)} : m <= y
      BY <2>8, <3>1 DEF Min
    <3> QED
      BY <2>6, <2>7, <3>2
  <2>10. SubSeq(s, 1, m) \in Seq(Docs)
    BY <2>6, <2>9
  <2>11. ToSet(SubSeq(s, 1, m)) \subseteq Docs
    BY <2>10 DEF ToSet
  <2>12. lists[t][i] = ToSet(SubSeq(s, 1, m))
    BY <2>2, <2>8 DEF Lists
  <2> QED
    BY <2>11, <2>12
<1> QED
  BY <1>1, <1>2 DEF TiersOK

RkInv == CountsOK /\ TiersOK /\ SearchOK

LEMMA RkStepKeeps ==
  ASSUME CountsOK, TiersOK, SearchOK, [RkNext]_rkvars
  PROVE  TiersOK' /\ SearchOK'
<1>1. ASSUME NEW d \in Docs, NEW text \in Texts, CountOne(d, text)
      PROVE  TiersOK' /\ SearchOK'
  <2>1. NothingTwice' => NothingTwice
    BY <1>1, CountsGrow DEF CountOne, CountsOK
  <2>2. Beside("count") /\ tiers' = tiers
    BY <1>1 DEF CountOne
  <2>3. SearchOK'
    BY <2>1, <2>2, BesideKeeps
  <2> QED
    BY <2>2, <2>3 DEF TiersOK
<1>2. CASE BuildTieredIndex
  <2>1. NothingTwice' => NothingTwice
    BY <1>2 DEF BuildTieredIndex, NothingTwice
  <2>2. Beside("build") /\ UNCHANGED <<known, tf, df, times>>
    BY <1>2 DEF BuildTieredIndex
  <2>3. SearchOK'
    BY <2>1, <2>2, BesideKeeps
  <2> QED
    BY <1>2, <2>3, BuildKeeps
<1>3. CASE BeginSearch
  BY <1>3, BeginKeeps DEF BeginSearch, Begin, TiersOK
<1>4. CASE ReadNumber
  BY <1>4, ReadNumberKeeps DEF ReadNumber, InSearch, TiersOK
<1>5. CASE ReadFrequency
  BY <1>5, ReadFrequencyKeeps DEF ReadFrequency, InSearch, TiersOK
<1>6. CASE WeighQuery
  BY <1>6, WeighQueryKeeps DEF WeighQuery, InSearch, TiersOK
<1>7. CASE ReadTier
  BY <1>7, ReadTierKeeps DEF ReadTier, InSearch, TiersOK
<1>8. CASE Weigh
  BY <1>8, WeighKeeps DEF Weigh, InSearch, TiersOK
<1>9. CASE Finish
  BY <1>9, FinishKeeps DEF Finish, InSearch, TiersOK
<1>10. CASE UNCHANGED rkvars
  <2>1. UNCHANGED <<known, tf, df, times, tiers, search>>
    BY <1>10 DEF rkvars
  <2> QED
    BY <2>1 DEF SearchOK, TiersOK, Typed, Staged, Asked, Sums, Even, Quiet, NothingTwice,
                Weights, N, Scores, Matches, Bears, ResultDocs, Partly
<1> QED
  BY <1>1, <1>2, <1>3, <1>4, <1>5, <1>6, <1>7, <1>8, <1>9, <1>10 DEF RkNext

LEMMA RankingsKeep == RkSpec => []RkInv
<1>1. RkInit => TiersOK /\ SearchOK
  BY DEF RkInit, TiersOK, SearchOK
<1>2. CountsOK /\ TiersOK /\ SearchOK /\ [RkNext]_rkvars => TiersOK' /\ SearchOK'
  BY RkStepKeeps
<1>3. RkSpec => []CountsOK
  BY RankCountsOK
<1> QED
  BY <1>1, <1>2, <1>3, PTL DEF RkSpec, RkInv

(* Whatever is indexed and built beside it, with no document indexed twice *)
(* no ranking comes to a negative weight, sum or score, but RankVSM if a   *)
(* document is counted while it runs.                                      *)
THEOREM ScoresNotNegative == RkSpec => []NoNegativeScore
<1>1. RkInv => NoNegativeScore
  BY DEF RkInv, SearchOK, NoNegativeScore, Sums, Even
<1> QED
  BY <1>1, RankingsKeep, PTL

(* With no document indexed twice, and none counted while it runs, each    *)
(* of RankTFIDF and RankVSM lists just the documents, of those it is       *)
(* given, that have a term of the query that not all documents have, each  *)
(* with a positive score: the two list the same.                           *)
THEOREM RankingsListHits == RkSpec => []RankedAreHits
<1>1. RkInv => RankedAreHits
  <2> SUFFICES ASSUME RkInv, Done({"tfidf", "vsm"}), "count" \notin search.beside, NothingTwice
               PROVE  /\ ResultDocs = {d \in search.call.docs :
                                        \E t \in ToSet(search.terms) : tf[d][t] > 0 /\ df[t] < N}
                      /\ \A x \in search.results : x.score > 0
    BY DEF RankedAreHits
  <2>1. search.stage = "done" /\ search.call.kind # "tiered"
    BY DEF Done
  <2>2. search # NoSearch
    BY <2>1 DEF NoSearch
  <2>3. Scores /\ Quiet
    BY <2>2 DEF RkInv, SearchOK, Quiet
  <2>4. Matches = ResultDocs /\ \A x \in search.results : x.score > 0
    BY <2>1, <2>3 DEF Scores, ResultDocs
  <2> QED
    BY <2>4 DEF Matches, Bears
<1> QED
  BY <1>1, RankingsKeep, PTL

-----------------------------------------------------------------------------
(* The sum that bounds the counts of the model.  The recursive function    *)
(* behind it exists, and its values are the sums over the sets.            *)
SumsOver(sums, f, sets) ==
  sums = [s \in sets |-> IF s = {} THEN 0
                         ELSE LET x == CHOOSE x \in s : TRUE
                              IN  f[x] + sums[s \ {x}]]

Total(f) == (CHOOSE sums : SumsOver(sums, f, SUBSET Docs))[Docs]

UpTo(n) == {s \in SUBSET Docs : Cardinality(s) <= n}

LEMMA OneLess ==
  ASSUME NEW s \in SUBSET Docs
  PROVE  /\ Cardinality(s) \in Nat
         /\ Cardinality(s) = 0 <=> s = {}
         /\ s # {} => LET x == CHOOSE x \in s : TRUE
                      IN  /\ x \in s
                          /\ s \ {x} \in SUBSET Docs
                          /\ Cardinality(s \ {x}) = Cardinality(s) - 1
<1>1. IsFiniteSet(s)
  BY DocsAreFinite, FS_Subset
<1>2. s # {} => (CHOOSE x \in s : TRUE) \in s
  OBVIOUS
<1> QED
  BY <1>1, <1>2, FS_CardinalityType, FS_EmptySet, FS_RemoveElement

LEMMA SumsExist ==
  ASSUME NEW f
  PROVE  \A n \in Nat : \E sums : SumsOver(sums, f, UpTo(n))
<1> DEFINE Bad == {n \in Nat : ~ \E sums : SumsOver(sums, f, UpTo(n))}
           pick(s) == CHOOSE x \in s : TRUE
           F(g, s) == IF s = {} THEN 0 ELSE f[pick(s)] + g[s \ {pick(s)}]
<1> SUFFICES ASSUME Bad # {} PROVE FALSE
  OBVIOUS
<1>1. PICK n \in Bad : \A m \in Bad : n <= m
  BY LeastNat
<1>2. \A s \in SUBSET Docs : /\ Cardinality(s) \in Nat
                             /\ Cardinality(s) = 0 <=> s = {}
                             /\ s # {} => /\ s \ {pick(s)} \in SUBSET Docs
                                          /\ Cardinality(s \ {pick(s)}) = Cardinality(s) - 1
  BY OneLess
<1>3. n # 0
  <2> DEFINE e == [s \in UpTo(0) |-> 0]
  <2>1. \A s \in UpTo(0) : s = {}
    <3> SUFFICES ASSUME NEW s \in SUBSET Docs, Cardinality(s) <= 0 PROVE s = {}
      BY DEF UpTo
    <3>1. Cardinality(s) \in Nat /\ (Cardinality(s) = 0 <=> s = {})
      BY <1>2
    <3> QED
      BY <3>1
  <2>2. SumsOver(e, f, UpTo(0))
    BY <2>1 DEF SumsOver
  <2> QED
    BY <1>1, <2>2
<1>4. n \in Nat /\ n - 1 \in Nat /\ n - 1 \notin Bad
  BY <1>1, <1>3
<1>5. PICK g : SumsOver(g, f, UpTo(n - 1))
  BY <1>4
<1> HIDE DEF pick
<1>6. \A s \in UpTo(n - 1) : g[s] = F(g, s)
  <2>1. g = [s \in UpTo(n - 1) |-> F(g, s)]
    BY <1>5, Zenon DEF SumsOver, pick
  <2> HIDE DEF F
  <2> QED
    BY <2>1, Zenon
<1> DEFINE h == [s \in UpTo(n) |-> F(g, s)]
<1>7. ASSUME NEW s \in UpTo(n)
      PROVE  F(g, s) = F(h, s)
  <2>1. CASE s = {}
    BY <2>1
  <2>2. CASE s # {}
    <3>1. PICK r : r = s \ {pick(s)}
      OBVIOUS
    <3>2. r \in UpTo(n - 1) /\ r \in UpTo(n)
      BY <1>2, <1>4, <2>2, <3>1 DEF UpTo
    <3>3. h[r] = g[r]
      <4>1. h[r] = F(g, r)
        BY <3>2, Zenon
      <4> QED
        BY <1>6, <3>2, <4>1, Zenon
    <3> HIDE DEF h
    <3> QED
      BY <2>2, <3>1, <3>3, Zenon
  <2> QED
    BY <2>1, <2>2
<1>8. SumsOver(h, f, UpTo(n))
  <2>1. h = [s \in UpTo(n) |-> F(h, s)]
    <3> HIDE DEF F
    <3> QED
      BY <1>7, Zenon
  <2> HIDE DEF h
  <2> QED
    BY <2>1, Zenon DEF SumsOver, pick
<1> QED
  BY <1>1, <1>8

LEMMA TotalIs ==
  ASSUME NEW f
  PROVE  \E sums : /\ Total(f) = sums[Docs]
                   /\ \A s \in SUBSET Docs :
                        sums[s] = IF s = {} THEN 0
                                  ELSE LET x == CHOOSE x \in s : TRUE
                                       IN  f[x] + sums[s \ {x}]
<1> DEFINE sums == CHOOSE g : SumsOver(g, f, SUBSET Docs)
<1>1. Cardinality(Docs) \in Nat
  BY DocsAreFinite, FS_CardinalityType
<1>2. UpTo(Cardinality(Docs)) = SUBSET Docs
  BY DocsAreFinite, FS_Subset DEF UpTo
<1>3. \E g : SumsOver(g, f, SUBSET Docs)
  <2>1. \E g : SumsOver(g, f, UpTo(Cardinality(Docs)))
    BY <1>1, SumsExist, Zenon
  <2> QED
    BY <1>2, <2>1, Zenon
<1>4. SumsOver(sums, f, SUBSET Docs)
  BY <1>3, Zenon
<1>5. PICK g : g = sums
  OBVIOUS
<1>6. Total(f) = g[Docs]
  BY <1>5, Zenon DEF Total
<1>7. SumsOver(g, f, SUBSET Docs)
  BY <1>4, <1>5, Zenon
<1> QED
  BY <1>6, <1>7, Zenon DEF SumsOver

(* The bound of CountOne is one of the total.                              *)
LEMMA CountsAreFew ==
  ASSUME NEW d, NEW text, CountOne(d, text)
  PROVE  Total(times) < MaxCounts
BY Zenon DEF CountOne, MapThenSumSet, MapThenFoldSet, Total, SumsOver

(* Lengthened by one in one place, a function has a total greater by one.  *)
LEMMA TotalGrows ==
  ASSUME NEW f \in [Docs -> Nat], NEW d \in Docs
  PROVE  /\ Total(f) \in Nat
         /\ Total([f EXCEPT ![d] = @ + 1]) = Total(f) + 1
         /\ (\A e \in Docs : f[e] = 0) => Total(f) = 0
<1> DEFINE g == [f EXCEPT ![d] = @ + 1]
           pick(s) == CHOOSE x \in s : TRUE
           Is(s, a, b) == /\ a \in Nat
                          /\ b = a + IF d \in s THEN 1 ELSE 0
                          /\ (\A e \in Docs : f[e] = 0) => a = 0
<1>1. PICK a : /\ Total(f) = a[Docs]
               /\ \A s \in SUBSET Docs :
                    a[s] = IF s = {} THEN 0 ELSE f[pick(s)] + a[s \ {pick(s)}]
  BY TotalIs
<1>2. PICK b : /\ Total(g) = b[Docs]
               /\ \A s \in SUBSET Docs :
                    b[s] = IF s = {} THEN 0 ELSE g[pick(s)] + b[s \ {pick(s)}]
  BY TotalIs
<1>3. \A s \in SUBSET Docs : /\ Cardinality(s) \in Nat
                             /\ s # {} => /\ pick(s) \in s
                                          /\ s \ {pick(s)} \in SUBSET Docs
                                          /\ Cardinality(s \ {pick(s)}) = Cardinality(s) - 1
  BY OneLess
<1>4. \A e \in Docs : f[e] \in Nat /\ g[e] = f[e] + IF e = d THEN 1 ELSE 0
  OBVIOUS
<1> DEFINE Bad == {n \in Nat : \E s \in SUBSET Docs : Cardinality(s) = n /\ ~ Is(s, a[s], b[s])}
<1> HIDE DEF pick, g
<1>5. Bad = {}
  <2> SUFFICES ASSUME Bad # {} PROVE FALSE
    OBVIOUS
  <2>1. PICK n \in Bad : \A m \in Bad : n <= m
    BY LeastNat
  <2>2. PICK s \in SUBSET Docs : Cardinality(s) = n /\ ~ Is(s, a[s], b[s])
    BY <2>1
  <2>3. CASE s = {}
    <3>1. a[s] = 0 /\ b[s] = 0 /\ d \notin s
      BY <1>1, <1>2, <2>3
    <3> QED
      BY <2>2, <3>1
  <2>4. CASE s # {}
    <3>1. PICK x, r : x = pick(s) /\ r = s \ {x}
      OBVIOUS
    <3>2. a[s] = f[x] + a[r] /\ b[s] = g[x] + b[r]
      BY <1>1, <1>2, <2>2, <2>4, <3>1, Zenon
    <3>3. x \in s /\ x \in Docs /\ r \in SUBSET Docs /\ Cardinality(r) = n - 1
          /\ n - 1 \in Nat
      BY <1>3, <2>2, <2>4, <3>1
    <3>4. n - 1 \notin Bad
      BY <2>1, <3>3
    <3>5. Is(r, a[r], b[r])
      BY <3>3, <3>4
    <3>6. f[x] \in Nat /\ g[x] = f[x] + IF x = d THEN 1 ELSE 0
      BY <1>4, <3>3
    <3>7. (d \in s) = (x = d \/ d \in r) /\ ~(x = d /\ d \in r)
      BY <3>1, <3>3
    <3>8. Is(s, a[s], b[s])
      BY <3>2, <3>3, <3>5, <3>6, <3>7
    <3> QED
      BY <2>2, <3>8
  <2> QED
    BY <2>3, <2>4
<1>6. Is(Docs, a[Docs], b[Docs])
  <2>1. Docs \in SUBSET Docs /\ Cardinality(Docs) \in Nat
    BY DocsAreFinite, FS_CardinalityType
  <2> QED
    BY <1>5, <2>1
<1>7. Total(g) = Total(f) + 1
  BY <1>1, <1>2, <1>6
<1> QED
  BY <1>1, <1>6, <1>7 DEF g

(* So the frequencies are at most MaxCounts.                               *)
FrequenciesFit ==
  /\ Total(times) \in Nat /\ Total(times) <= MaxCounts
  /\ \A t \in Words : df[t] <= Total(times)

LEMMA FrequenciesStayFit ==
  ASSUME StatTypeOK, FrequenciesFit, [RkNext]_rkvars
  PROVE  FrequenciesFit'
<1>1. CASE UNCHANGED svars
  BY <1>1 DEF svars, FrequenciesFit
<1>2. ASSUME NEW d \in Docs, NEW text \in Texts, CountOne(d, text)
      PROVE  FrequenciesFit'
  <2>1. Total(times) < MaxCounts /\ Count(d, text)
    BY <1>2, CountsAreFew DEF CountOne
  <2>2. times' = [times EXCEPT ![d] = @ + 1] /\ times \in [Docs -> Nat]
    BY <2>1 DEF Count, StatTypeOK
  <2>3. Total(times') = Total(times) + 1 /\ Total(times) \in Nat
    BY <2>2, TotalGrows
  <2>4. MaxCounts \in Nat
    BY LogsAreThere
  <2>5. ASSUME NEW t \in Words
        PROVE  df'[t] <= Total(times')
    <3>1. df[t] \in Nat /\ df[t] <= Total(times)
      BY DEF StatTypeOK, FrequenciesFit
    <3>2. df'[t] = df[t] + IF t \in Terms(text) THEN 1 ELSE 0
      BY <2>1 DEF Count
    <3> QED
      BY <2>3, <3>1, <3>2
  <2>6. Total(times') \in Nat /\ Total(times') <= MaxCounts
    BY <2>1, <2>3, <2>4
  <2>7. Total(times)' = Total(times')
    BY DEF Total
  <2> QED
    BY <2>5, <2>6, <2>7 DEF FrequenciesFit
<1>3. CASE ~ \E d \in Docs, text \in Texts : CountOne(d, text)
  <2>1. UNCHANGED svars
    BY <1>3 DEF RkNext, rkvars, svars, BuildTieredIndex, BeginSearch, Begin, ReadNumber,
                ReadFrequency, WeighQuery, ReadTier, Weigh, Finish, InSearch
  <2> QED
    BY <1>1, <2>1
<1> QED
  BY <1>1, <1>2, <1>3

LEMMA RkFrequenciesFit == RkSpec => []FrequenciesFit
<1>1. RkInit => FrequenciesFit
  <2> SUFFICES ASSUME RkInit PROVE FrequenciesFit
    OBVIOUS
  <2>1. times = [d \in Docs |-> 0] /\ df = [t \in Words |-> 0]
    BY DEF RkInit, StatInit
  <2>2. Total(times) = 0
    <3>1. CASE Docs = {}
      <4>1. PICK sums : Total(times) = sums[Docs] /\ sums[Docs] = 0
        <5>1. Docs \in SUBSET Docs
          OBVIOUS
        <5> QED
          BY <3>1, <5>1, TotalIs
      <4> QED
        BY <4>1
    <3>2. CASE Docs # {}
      BY <2>1, <3>2, TotalGrows
    <3> QED
      BY <3>1, <3>2
  <2>3. MaxCounts \in Nat
    BY LogsAreThere
  <2> QED
    BY <2>1, <2>2, <2>3 DEF FrequenciesFit
<1>2. RkSpec => []StatTypeOK
  BY RankCountsOnly, StatTypes, PTL
<1>3. StatTypeOK /\ FrequenciesFit /\ [RkNext]_rkvars => FrequenciesFit'
  BY FrequenciesStayFit
<1> QED
  BY <1>1, <1>2, <1>3, PTL DEF RkSpec

-----------------------------------------------------------------------------
(* The tiers.                                                              *)

(* The documents that had a term at the last build.                        *)
Built(t) == {d \in built.docs : tf[d][t] > 0}

(* The tiers still tell the order of a term's documents.                   *)
InOrder(t) == (built.fresh \/ NothingTwice) /\ built.df[t] < built.n

(* The documents S include the best for a term, all of them or at least so *)
(* many.                                                                   *)
IsTop(S, t, size) ==
  /\ S \subseteq Built(t)
  /\ S = Built(t) \/ Cardinality(S) >= size
  /\ \A a \in S, b \in Built(t) \ S : tf[a][t] >= tf[b][t]

TiersAreTop ==
  \A t \in Words, i \in DOMAIN TierSizes :
    /\ df[t] = 0 => tiers[i][t] = {}
    /\ InOrder(t) => IsTop(tiers[i][t], t, TierSizes[i])

BuildOK ==
  /\ DOMAIN built = {"n", "df", "docs", "fresh"}
  /\ built.n \in Nat /\ built.df \in [Words -> Nat]
  /\ built.docs \subseteq known
  /\ built.fresh => built.n = N /\ built.df = df /\ built.docs = known
  /\ TiersAreTop

(* A tiered search of one term, undisturbed.                               *)
OneTerm ==
  /\ search # NoSearch
  /\ search.call.kind = "tiered" /\ search.beside = {} /\ Len(search.terms) = 1

(* Documents as they are listed.                                           *)
Listed(S, t) == {[doc |-> d, score |-> TfIdf(d, t)] : d \in {e \in S : TfIdf(e, t) > 0}}

(* What has been collected are the documents of one tier, as far as they   *)
(* have been weighed.                                                      *)
CollectedFrom(i, t) ==
  /\ search.todo \subseteq tiers[i][t]
  /\ search.results = Listed(tiers[i][t] \ search.todo, t)
  /\ Cardinality(tiers[i][t]) >= Enough \/ i = Len(TierSizes)

Collected ==
  OneTerm =>
    /\ search.stage # "done" => search.left = <<>> /\ search.sum = 0
    /\ search.stage = "tier" => search.results = {}
    /\ search.stage = "score" =>
         \E i \in DOMAIN TierSizes : CollectedFrom(i, search.terms[1])

-----------------------------------------------------------------------------
(* Greater counts have greater weights, if the term tells.                 *)
LEMMA GreaterProducts ==
  ASSUME NEW a \in Nat, NEW b \in Nat, NEW c \in Nat, c > 0
  PROVE  a * c >= b * c <=> a >= b
<1>1. ASSUME NEW x \in Nat, NEW y \in Nat, x > y
      PROVE  x * c > y * c
  <2>1. PICK z \in Nat : x = y + z /\ z > 0
    <3>1. x - y \in Nat /\ x = y + (x - y) /\ x - y > 0
      BY <1>1
    <3> QED
      BY <3>1
  <2>2. x * c = y * c + z * c
    BY <2>1
  <2>3. z * c > 0 /\ y * c \in Nat /\ z * c \in Nat
    BY <2>1, Products
  <2> QED
    BY <2>2, <2>3
<1>2. a * c \in Nat /\ b * c \in Nat
  OBVIOUS
<1>3. a > b => a * c > b * c
  BY <1>1
<1>4. b > a => b * c > a * c
  BY <1>1
<1>5. a = b => a * c = b * c
  OBVIOUS
<1> QED
  BY <1>2, <1>3, <1>4, <1>5

(* The idf of any term that is in some document.                           *)
LEMMA AnyIdf ==
  ASSUME StatInv, CountsOK, FrequenciesFit, NEW d \in Docs, NEW t \in Words, tf[d][t] > 0
  PROVE  /\ df[t] # 0
         /\ Idf(N, df[t]) \in Int
         /\ Idf(N, df[t]) > 0 <=> df[t] < N
<1>1. df[t] \in Nat /\ tf[d][t] \in Nat
  BY DEF CountsOK, StatTypeOK
<1>2. df[t] # 0
  BY <1>1, NoneHolds
<1>3. d \in known /\ known \subseteq Docs
  BY <1>1 DEF StatInv, StatTypeOK
<1>4. IsFiniteSet(known) /\ N \in Nat /\ N <= Cardinality(Docs)
  <2>1. IsFiniteSet(known) /\ Cardinality(known) <= Cardinality(Docs)
    BY <1>3, DocsAreFinite, FS_Subset
  <2> QED
    BY <2>1, FS_CardinalityType DEF N
<1>5. N # 0
  BY <1>3, <1>4, FS_EmptySet DEF N
<1>6. Cardinality(Docs) \in Nat /\ Len(Logs) \in Nat /\ MaxCounts \in Nat
  BY DocsAreFinite, FS_CardinalityType, LogsGrow, LogsAreThere
<1>7. df[t] <= Len(Logs)
  BY <1>1, <1>6, LogsAreThere DEF FrequenciesFit
<1>8. df[t] \in 1..Len(Logs) /\ N \in 1..Len(Logs)
  BY <1>1, <1>2, <1>4, <1>5, <1>6, <1>7, LogsAreThere
<1>9. /\ Log(df[t]) \in Nat /\ Log(N) \in Nat
      /\ df[t] < N => Log(df[t]) < Log(N)
      /\ N < df[t] => Log(N) < Log(df[t])
  BY <1>8, LogsAreMonotone
<1>10. df[t] = N => Log(df[t]) = Log(N)
  OBVIOUS
<1> QED
  BY <1>1, <1>2, <1>4, <1>9, <1>10 DEF Idf

(* So a weight is positive just for the terms that tell, and greater for a *)
(* document that has the term more often.                                  *)
LEMMA AnyTfIdf ==
  ASSUME StatInv, CountsOK, FrequenciesFit, NEW d \in Docs, NEW e \in Docs, NEW t \in Words
  PROVE  /\ TfIdf(d, t) \in Int
         /\ TfIdf(d, t) > 0 <=> Bears(d, t)
         /\ Bears(d, t) /\ Bears(e, t) =>
              (TfIdf(d, t) >= TfIdf(e, t) <=> tf[d][t] >= tf[e][t])
<1>1. ASSUME NEW x \in Docs
      PROVE  tf[x][t] \in Nat /\ tf[x][t] <= Len(Logs) /\ Len(Logs) \in Nat
  BY LogsGrow DEF CountsOK, StatTypeOK
<1>2. CASE tf[d][t] = 0
  <2>1. TfIdf(d, t) = 0
    BY <1>2 DEF TfIdf
  <2> QED
    BY <1>2, <2>1 DEF Bears
<1>3. CASE tf[d][t] # 0
  <2>1. tf[d][t] > 0
    BY <1>1, <1>3
  <2>2. PICK c : c = Idf(N, df[t])
    OBVIOUS
  <2>3. df[t] # 0 /\ c \in Int /\ (c > 0 <=> df[t] < N)
    BY <2>1, <2>2, AnyIdf
  <2>4. ASSUME NEW x \in Docs, tf[x][t] # 0
        PROVE  /\ TfIdf(x, t) = Tf(tf[x][t]) * c
               /\ Tf(tf[x][t]) \in Nat /\ Tf(tf[x][t]) > 0
    <3>1. Log(tf[x][t]) \in Nat
      BY <1>1, <2>4, LogsAreMonotone
    <3> QED
      BY <2>2, <2>3, <2>4, <3>1 DEF TfIdf, Tf
  <2>5. PICK a : a = Tf(tf[d][t])
    OBVIOUS
  <2>6. a \in Nat /\ a > 0 /\ TfIdf(d, t) = a * c
    BY <1>3, <2>4, <2>5
  <2>7. a * c \in Int /\ (a * c > 0 <=> c > 0)
    <3>1. c > 0 => a * c > 0
      BY <2>3, <2>6, Products
    <3>2. c <= 0 => a * c <= 0
      <4> SUFFICES ASSUME c <= 0 PROVE a * c <= 0
        OBVIOUS
      <4>1. PICK m \in Nat : c = -m
        <5>1. -c \in Nat /\ c = -(-c)
          BY <2>3
        <5> QED
          BY <5>1
      <4>2. a * m \in Nat /\ a * c = -(a * m)
        BY <2>6, <4>1
      <4> QED
        BY <4>2
    <3> QED
      BY <2>3, <2>6, <3>1, <3>2
  <2>8. TfIdf(d, t) > 0 <=> Bears(d, t)
    BY <2>1, <2>3, <2>6, <2>7 DEF Bears
  <2>9. ASSUME Bears(d, t), Bears(e, t)
        PROVE  TfIdf(d, t) >= TfIdf(e, t) <=> tf[d][t] >= tf[e][t]
    <3>1. c \in Nat /\ c > 0 /\ tf[e][t] # 0
      BY <1>1, <2>3, <2>9 DEF Bears
    <3>2. PICK b : b = Tf(tf[e][t])
      OBVIOUS
    <3>3. b \in Nat /\ TfIdf(e, t) = b * c
      BY <2>4, <3>1, <3>2
    <3>4. TfIdf(d, t) >= TfIdf(e, t) <=> a >= b
      BY <2>6, <3>1, <3>3, GreaterProducts
    <3>5. PICK x, y : x = tf[d][t] /\ y = tf[e][t]
      OBVIOUS
    <3>6. x \in 1..Len(Logs) /\ y \in 1..Len(Logs)
      BY <1>1, <1>3, <3>1, <3>5
    <3>7. /\ Log(x) \in Nat /\ Log(y) \in Nat
          /\ x < y => Log(x) < Log(y)
          /\ y < x => Log(y) < Log(x)
      BY <3>6, LogsAreMonotone
    <3>8. x = y => Log(x) = Log(y)
      OBVIOUS
    <3>9. a = 100 + Log(x) /\ b = 100 + Log(y)
      BY <2>5, <3>2, <3>5 DEF Tf
    <3>10. a >= b <=> x >= y
      BY <3>6, <3>7, <3>8, <3>9
    <3> QED
      BY <3>4, <3>5, <3>10
  <2> QED
    BY <2>6, <2>7, <2>8, <2>9
<1> QED
  BY <1>2, <1>3

-----------------------------------------------------------------------------
(* A build fills the tiers with the best.                                  *)
LEMMA FirstAreBest ==
  ASSUME StatInv, CountsOK, FrequenciesFit, NEW t \in Words, df[t] < N,
         NEW s \in RankedBy(t), NEW i \in DOMAIN TierSizes, NEW S, S = Lists(s)[i]
  PROVE  /\ S \subseteq Holding(t)
         /\ S = Holding(t) \/ Cardinality(S) >= TierSizes[i]
         /\ \A a \in S, b \in Holding(t) \ S : tf[a][t] >= tf[b][t]
<1> DEFINE H == Holding(t)
<1>1. PICK n : n = Cardinality(H)
  OBVIOUS
<1>2. n \in Nat /\ IsFiniteSet(H) /\ H \subseteq Docs
  BY <1>1, HoldingIsFinite DEF Holding
<1>3. s \in SetToSeqs(H) /\ \A x, y \in DOMAIN s : x < y => TfIdf(s[x], t) >= TfIdf(s[y], t)
  BY DEF RankedBy
<1>4. s \in [1..n -> H] /\ \A x, y \in 1..n : x # y => s[x] # s[y]
  BY <1>1, <1>3 DEF SetToSeqs
<1>5. IsFiniteSet(1..n) /\ Cardinality(1..n) = n
  BY <1>2, FS_Interval
<1>6. \A d \in H : \E y \in 1..n : s[y] = d
  <2>1. s \in Injection(1..n, H)
    BY <1>4 DEF Injection, IsInjective
  <2>2. s \in Surjection(1..n, H)
    BY <1>1, <1>2, <1>5, <2>1, FS_Injection
  <2> QED
    BY <2>2 DEF Surjection
<1>7. PICK m : m = Min({TierSizes[i], Len(s)})
  OBVIOUS
<1>8. s \in Seq(H) /\ Len(s) = n
  BY <1>2, <1>4
<1>9. TierSizes[i] \in Nat
  BY TiersAreNested
<1>10. m \in Nat /\ m <= n /\ (m = n \/ m = TierSizes[i])
  <2>1. \E x \in {TierSizes[i], Len(s)} : \A y \in {TierSizes[i], Len(s)} : x <= y
    BY <1>2, <1>8, <1>9
  <2>2. m \in {TierSizes[i], Len(s)} /\ \A y \in {TierSizes[i], Len(s)} : m <= y
    BY <1>7, <2>1 DEF Min
  <2> QED
    BY <1>2, <1>8, <1>9, <2>2
<1>11. S = {s[y] : y \in 1..m}
  <2>1. S = ToSet(SubSeq(s, 1, m))
    BY <1>7 DEF Lists
  <2>2. DOMAIN SubSeq(s, 1, m) = 1..m /\ \A y \in 1..m : SubSeq(s, 1, m)[y] = s[y]
    BY <1>2, <1>8, <1>10
  <2> QED
    BY <2>1, <2>2 DEF ToSet
<1>12. \A y \in 1..m : y \in 1..n
  BY <1>2, <1>10
<1>13. S \subseteq H
  BY <1>4, <1>11, <1>12
<1>14. S = H \/ Cardinality(S) >= TierSizes[i]
  <2>1. CASE m = n
    BY <1>6, <1>11, <1>13, <2>1
  <2>2. CASE m = TierSizes[i]
    <3> DEFINE p == [y \in 1..m |-> s[y]]
    <3>1. p \in Bijection(1..m, S)
      BY <1>4, <1>11, <1>12 DEF Bijection, Injection, Surjection, IsInjective
    <3>2. IsFiniteSet(1..m) /\ Cardinality(1..m) = m
      BY <1>10, FS_Interval
    <3>3. Cardinality(S) = m
      BY <3>1, <3>2, FS_Bijection DEF ExistsBijection
    <3> QED
      BY <1>9, <2>2, <3>3
  <2> QED
    BY <1>10, <2>1, <2>2
<1>15. ASSUME NEW a \in S, NEW b \in H \ S
       PROVE  tf[a][t] >= tf[b][t]
  <2>1. PICK x \in 1..m : a = s[x]
    BY <1>11
  <2>2. PICK y \in 1..n : b = s[y]
    BY <1>6
  <2>3. y \notin 1..m
    BY <1>11, <2>2
  <2>4. x < y /\ x \in DOMAIN s /\ y \in DOMAIN s
    BY <1>2, <1>4, <1>10, <1>12, <2>1, <2>2, <2>3
  <2>5. TfIdf(a, t) >= TfIdf(b, t)
    BY <1>3, <2>1, <2>2, <2>4
  <2>6. a \in Docs /\ b \in Docs /\ Bears(a, t) /\ Bears(b, t)
    BY <1>13 DEF Holding, Bears
  <2> QED
    BY <2>5, <2>6, AnyTfIdf
<1> QED
  BY <1>13, <1>14, <1>15

LEMMA BuildOrders ==
  ASSUME StatInv, CountsOK, FrequenciesFit, BuildOK, BuildTieredIndex
  PROVE  BuildOK'
<1>1. PICK lists \in Fillings :
        tiers' = [i \in DOMAIN TierSizes |-> [t \in Words |->
                    IF df[t] = 0 THEN tiers[i][t] ELSE lists[t][i]]]
  BY Zenon DEF BuildTieredIndex
<1>2. /\ built' = [n |-> N, df |-> df, docs |-> known, fresh |-> TRUE]
      /\ UNCHANGED <<known, tf, df, times>>
  BY Zenon DEF BuildTieredIndex
<1>3. /\ DOMAIN built' = {"n", "df", "docs", "fresh"}
      /\ built'.n = N /\ built'.df = df /\ built'.docs = known /\ built'.fresh
  BY <1>2
<1>4. N' = N /\ N \in Nat
  <2>1. IsFiniteSet(known)
    BY DocsAreFinite, FS_Subset DEF StatInv, StatTypeOK
  <2> QED
    BY <1>2, <2>1, FS_CardinalityType DEF N
<1>5. ASSUME NEW t \in Words
      PROVE  Built(t)' = Holding(t)
  BY <1>2, <1>3 DEF Built, Holding, StatInv, StatTypeOK
<1>6. ASSUME NEW t \in Words, NEW i \in DOMAIN TierSizes
      PROVE  /\ df'[t] = 0 => tiers'[i][t] = {}
             /\ InOrder(t)' => IsTop(tiers[i][t], t, TierSizes[i])'
  <2>1. tiers'[i][t] = IF df[t] = 0 THEN tiers[i][t] ELSE lists[t][i]
    BY <1>1
  <2>2. CASE df[t] = 0
    <3>1. tiers'[i][t] = {}
      BY <2>1, <2>2 DEF BuildOK, TiersAreTop
    <3>2. Holding(t) = {}
      BY <2>2, NoneHolds DEF Holding
    <3> QED
      BY <1>5, <3>1, <3>2 DEF IsTop
  <2>3. CASE df[t] # 0
    <3>1. df'[t] # 0
      BY <1>2, <2>3
    <3> SUFFICES ASSUME InOrder(t)' PROVE IsTop(tiers[i][t], t, TierSizes[i])'
      BY <3>1
    <3>2. df[t] < N
      BY <1>3 DEF InOrder
    <3>3. lists[t] \in FillingsOf(t)
      BY <1>1, <2>3 DEF Fillings, Picks
    <3>4. PICK s \in RankedBy(t) : lists[t] = Lists(s)
      BY <3>3 DEF FillingsOf
    <3>5. PICK S : S = Lists(s)[i]
      OBVIOUS
    <3>6. tiers'[i][t] = S
      BY <2>1, <2>3, <3>4, <3>5
    <3>7. /\ S \subseteq Holding(t)
          /\ S = Holding(t) \/ Cardinality(S) >= TierSizes[i]
          /\ \A a \in S, b \in Holding(t) \ S : tf[a][t] >= tf[b][t]
      BY <3>2, <3>5, FirstAreBest
    <3> QED
      BY <1>2, <1>5, <3>6, <3>7 DEF IsTop
  <2> QED
    BY <2>2, <2>3
<1>7. TiersAreTop'
  BY <1>6 DEF TiersAreTop
<1> QED
  BY <1>2, <1>3, <1>4, <1>7 DEF BuildOK, StatInv, StatTypeOK

(* A count leaves the documents of the build alone, or indexes one of them *)
(* twice.                                                                  *)
LEMMA CountKeepsBuild ==
  ASSUME StatInv, BuildOK, NEW d \in Docs, NEW text \in Texts, CountOne(d, text)
  PROVE  BuildOK'
<1>1. Count(d, text) /\ built' = [built EXCEPT !.fresh = FALSE] /\ tiers' = tiers
  BY DEF CountOne
<1>2. /\ DOMAIN built' = {"n", "df", "docs", "fresh"}
      /\ built'.n = built.n /\ built'.df = built.df /\ built'.docs = built.docs
      /\ built'.fresh = FALSE
  BY <1>1 DEF BuildOK
<1>3. /\ known' = known \cup {d} /\ times' = [times EXCEPT ![d] = @ + 1]
      /\ tf' = [tf EXCEPT ![d] = TextCounts(d, text)]
      /\ df' = [t \in Words |-> df[t] + IF t \in Terms(text) THEN 1 ELSE 0]
  BY <1>1 DEF Count
<1>4. built.docs \subseteq known /\ known \subseteq Docs
  BY DEF BuildOK, StatInv, StatTypeOK
<1>5. ASSUME NEW t \in Words, NEW i \in DOMAIN TierSizes
      PROVE  /\ df'[t] = 0 => tiers'[i][t] = {}
             /\ InOrder(t)' => IsTop(tiers[i][t], t, TierSizes[i])'
  <2>1. df'[t] = 0 => df[t] = 0
    BY <1>3 DEF StatInv, StatTypeOK
  <2>2. ASSUME InOrder(t)'
        PROVE  IsTop(tiers[i][t], t, TierSizes[i])'
    <3>1. NothingTwice' /\ built.df[t] < built.n
      BY <1>2, <2>2 DEF InOrder
    <3>2. NothingTwice
      BY <1>1, <3>1, CountsGrow DEF StatInv
    <3>3. times[d] = 0
      <4>1. times'[d] = times[d] + 1 /\ times'[d] <= 1 /\ times[d] \in Nat
        BY <1>3, <3>1 DEF NothingTwice, StatInv, StatTypeOK
      <4> QED
        BY <4>1
    <3>4. d \notin built.docs
      BY <1>4, <3>3 DEF StatInv
    <3>5. \A e \in built.docs : tf'[e] = tf[e]
      BY <1>3, <1>4, <3>4 DEF StatInv, StatTypeOK
    <3>6. Built(t)' = Built(t)
      BY <1>2, <3>5 DEF Built
    <3>7. IsTop(tiers[i][t], t, TierSizes[i])
      BY <3>1, <3>2 DEF BuildOK, TiersAreTop, InOrder
    <3>8. Built(t) \subseteq built.docs
      BY DEF Built
    <3> QED
      BY <1>1, <3>5, <3>6, <3>7, <3>8 DEF IsTop
  <2> QED
    BY <1>1, <2>1, <2>2 DEF BuildOK, TiersAreTop
<1>6. TiersAreTop'
  BY <1>5 DEF TiersAreTop
<1> QED
  BY <1>2, <1>3, <1>6 DEF BuildOK

-----------------------------------------------------------------------------
(* A tiered search of one term weighs the documents of one tier.           *)
TermOf == search.terms[1]

LEMMA OneTermIs ==
  ASSUME Typed, OneTerm
  PROVE  TermOf \in Words /\ ToSet(search.terms) = {TermOf} /\ search.terms # <<>>
<1>1. search.terms \in Seq(Words) /\ Len(search.terms) = 1
  BY DEF Typed, OneTerm
<1>2. DOMAIN search.terms = {1} /\ search.terms[1] \in Words /\ search.terms # <<>>
  BY <1>1
<1> QED
  BY <1>2 DEF TermOf, ToSet

LEMMA OnlyOne ==
  ASSUME NEW w \in Seq(Words), Len(w) = 1
  PROVE  Head(w) = w[1] /\ Tail(w) = <<>>
<1>1. w # <<>>
  <2>1. 1 \in DOMAIN w
    OBVIOUS
  <2> QED
    BY <2>1
<1>2. Head(w) = w[1]
  OBVIOUS
<1> QED
  BY <1>1, <1>2, HeadAndTail

LEMMA TierTaken ==
  ASSUME SearchOK, Collected, ReadTier
  PROVE  Collected'
<1>1. search.stage = "tier"
  BY DEF ReadTier, InSearch
<1>2. search # NoSearch
  BY <1>1 DEF NoSearch
<1>3. Typed
  BY <1>2 DEF SearchOK
<1>4. PICK i, taken :
        /\ i = Min({search.tier, Len(TierSizes)})
        /\ taken = (search.tier > Len(TierSizes) \/ Cardinality(Candidates(i)) >= Enough)
        /\ search' = [search EXCEPT !.tier = @ + 1,
                                    !.stage = IF taken THEN "score" ELSE "tier",
                                    !.todo = IF taken THEN Candidates(i) ELSE @]
  BY Zenon DEF ReadTier
<1>5. /\ search'.left = search.left /\ search'.sum = search.sum
      /\ search'.beside = search.beside /\ search'.call = search.call
      /\ search'.terms = search.terms /\ search'.results = search.results
      /\ search'.stage = IF taken THEN "score" ELSE "tier"
      /\ search'.todo = IF taken THEN Candidates(i) ELSE search.todo
  BY <1>3, <1>4 DEF Typed, Fields
<1>6. tiers' = tiers
  BY DEF ReadTier, InSearch
<1> SUFFICES ASSUME OneTerm' PROVE /\ search'.left = <<>> /\ search'.sum = 0
                                   /\ search'.results = {}
                                   /\ taken => \E j \in DOMAIN TierSizes :
                                                 CollectedFrom(j, search.terms[1])'
  BY <1>5 DEF Collected
<1>7. OneTerm
  BY <1>2, <1>5 DEF OneTerm
<1>8. search.left = <<>> /\ search.sum = 0 /\ search.results = {}
  BY <1>1, <1>7 DEF Collected
<1>9. ASSUME taken
      PROVE  i \in DOMAIN TierSizes /\ CollectedFrom(i, search.terms[1])'
  <2>1. /\ search.tier \in Nat \ {0} /\ Len(TierSizes) \in Nat \ {0}
        /\ DOMAIN TierSizes = 1..Len(TierSizes)
    BY <1>3, TiersAreNested DEF Typed
  <2>2. /\ i \in {search.tier, Len(TierSizes)} /\ i <= search.tier /\ i <= Len(TierSizes)
    <3>1. \E m \in {search.tier, Len(TierSizes)} :
            \A x \in {search.tier, Len(TierSizes)} : m <= x
      BY <2>1
    <3> QED
      BY <1>4, <3>1 DEF Min
  <2>3. i \in DOMAIN TierSizes /\ (search.tier > Len(TierSizes) => i = Len(TierSizes))
    BY <2>1, <2>2
  <2>4. Candidates(i) = tiers[i][TermOf]
    BY <1>3, <1>7, OneTermIs DEF Candidates
  <2>5. search'.todo = tiers[i][TermOf] /\ search'.results = {}
    BY <1>5, <1>8, <1>9, <2>4
  <2>6. Enough' = Enough
    BY <1>5 DEF Enough
  <2>7. Cardinality(tiers[i][TermOf]) >= Enough \/ i = Len(TierSizes)
    BY <1>4, <1>9, <2>3, <2>4
  <2>8. CollectedFrom(i, TermOf)'
    <3>1. tiers'[i][TermOf'] = tiers[i][TermOf]
      BY <1>5, <1>6 DEF TermOf
    <3>2. (tiers[i][TermOf] \ search.todo)' = {}
      BY <1>5, <2>5, <3>1 DEF TermOf
    <3>3. Listed(tiers[i][TermOf] \ search.todo, TermOf)' = {}
      BY <3>2 DEF Listed
    <3> QED
      BY <2>5, <2>6, <2>7, <3>1, <3>3 DEF CollectedFrom
  <2> QED
    BY <2>3, <2>8 DEF TermOf
<1> QED
  BY <1>5, <1>8, <1>9

LEMMA OneWeighed ==
  ASSUME StatInv, CountsOK, FrequenciesFit, TiersOK, SearchOK, Collected, Weigh
  PROVE  Collected'
<1>1. search.stage = "score" /\ UNCHANGED <<known, tf, df, times, tiers>>
  BY DEF Weigh, InSearch
<1>2. search # NoSearch
  BY <1>1 DEF NoSearch
<1>3. Typed
  BY <1>2 DEF SearchOK
<1>4. PICK c \in Weighable : \E t, s, zero, ranked : Reaches(c, t, s, zero, ranked)
  BY WeighReaches
<1>5. PICK t, s, zero, ranked : Reaches(c, t, s, zero, ranked)
  BY <1>4
<1>6. /\ search'.stage = search.stage /\ search'.beside = search.beside
      /\ search'.call = search.call /\ search'.terms = search.terms
      /\ search'.left = Tail(c.left)
      /\ search'.sum = IF Len(c.left) = 1 THEN 0 ELSE s
      /\ search'.todo = IF Len(c.left) = 1 THEN search.todo \ {c.doc} ELSE search.todo
      /\ search'.results = search.results \cup IF ranked THEN {[doc |-> c.doc, score |-> s]} ELSE {}
  BY <1>3, <1>5 DEF Typed, Fields, Reaches
<1> SUFFICES ASSUME OneTerm'
             PROVE  /\ search'.left = <<>> /\ search'.sum = 0
                    /\ \E i \in DOMAIN TierSizes : CollectedFrom(i, TermOf)'
  BY <1>1, <1>6 DEF Collected, TermOf
<1>7. OneTerm
  BY <1>2, <1>6 DEF OneTerm
<1>8. search.left = <<>> /\ search.sum = 0
  BY <1>1, <1>7 DEF Collected
<1>9. PICK i \in DOMAIN TierSizes : CollectedFrom(i, TermOf)
  BY <1>1, <1>7 DEF Collected, TermOf
<1>10. TermOf \in Words /\ Len(search.terms) = 1 /\ search.terms \in Seq(Words)
  BY <1>3, <1>7, OneTermIs DEF Typed, OneTerm
<1>11. c.doc \in search.todo /\ c.left = search.terms
  <2>1. TermOrders = {search.terms}
    BY <1>7 DEF TermOrders, OneTerm
  <2>2. PICK d \in search.todo : c = [doc |-> d, left |-> search.terms]
    BY <1>8, <2>1 DEF Weighable
  <2> QED
    BY <2>2
<1>12. Head(c.left) = TermOf /\ Tail(c.left) = <<>> /\ Len(c.left) = 1
  BY <1>10, <1>11, OnlyOne DEF TermOf
<1>13. c.doc \in Docs
  BY <1>3, <1>11 DEF Typed
<1>14. TfIdf(c.doc, TermOf) \in Int
  BY <1>10, <1>13, AnyTfIdf
<1>15. s = TfIdf(c.doc, TermOf)
  <2>1. Added(c.doc, TermOf) = TfIdf(c.doc, TermOf) * 1
    BY <1>7 DEF Added, OneTerm
  <2>2. s = search.sum + Added(c.doc, TermOf)
    BY <1>5, <1>12 DEF Reaches
  <2> QED
    BY <1>8, <1>14, <2>1, <2>2
<1>16. ranked = (s > 0)
  BY <1>5, <1>7, <1>12 DEF Reaches, OneTerm
<1>17. /\ search'.todo = search.todo \ {c.doc}
       /\ search'.results = search.results \cup
            IF s > 0 THEN {[doc |-> c.doc, score |-> s]} ELSE {}
  BY <1>6, <1>12, <1>16
<1>18. PICK T : T = tiers[i][TermOf]
  OBVIOUS
<1>19. search.todo \subseteq T /\ search.results = Listed(T \ search.todo, TermOf)
  BY <1>9, <1>18 DEF CollectedFrom
<1>20. T \ search'.todo = (T \ search.todo) \cup {c.doc}
  BY <1>11, <1>17, <1>19
<1>21. Listed(T \ search'.todo, TermOf) = search'.results
  BY <1>15, <1>17, <1>19, <1>20 DEF Listed
<1>22. Listed(T \ search.todo, TermOf)' = Listed(T \ search'.todo, TermOf)
  <2>1. TermOf' = TermOf
    BY <1>6 DEF TermOf
  <2>2. \A d : TfIdf(d, TermOf)' = TfIdf(d, TermOf)
    BY <1>1, <2>1 DEF TfIdf, N, Idf
  <2>3. (T \ search.todo)' = T \ search'.todo
    BY <1>1, <1>18
  <2> QED
    BY <2>2 DEF Listed
<1>23. CollectedFrom(i, TermOf)'
  <2>1. Enough' = Enough /\ (tiers[i][TermOf])' = T
    BY <1>1, <1>6, <1>18 DEF Enough, TermOf
  <2>2. Cardinality(T) >= Enough \/ i = Len(TierSizes)
    BY <1>9, <1>18 DEF CollectedFrom
  <2>3. (search.todo \subseteq T)'
    BY <1>1, <1>17, <1>19
  <2> QED
    BY <1>21, <1>22, <2>1, <2>2, <2>3 DEF CollectedFrom
<1> QED
  BY <1>6, <1>12, <1>23

-----------------------------------------------------------------------------
(* The best of some that include the best of all are the best of all.      *)
LEMMA SmallerOf ==
  ASSUME NEW a \in Nat, NEW b \in Nat
  PROVE  Min({a, b}) = IF a <= b THEN a ELSE b
<1>1. PICK m : m = Min({a, b})
  OBVIOUS
<1>2. \E x \in {a, b} : \A y \in {a, b} : x <= y
  OBVIOUS
<1>3. m \in {a, b} /\ \A y \in {a, b} : m <= y
  BY <1>1, <1>2 DEF Min
<1> QED
  BY <1>1, <1>3

(* A list of documents with their scores, cut to the k best.               *)
CutTo(top, listed, k) ==
  /\ top \subseteq listed
  /\ Cardinality(top) = Min({k, Cardinality(listed)})
  /\ \A x \in top, y \in listed \ top : x.score >= y.score

BestOf(top, all, k, score) ==
  LET docs == {x.doc : x \in top}
  IN  /\ docs \subseteq all
      /\ Cardinality(top) = Min({k, Cardinality(all)})
      /\ \A a \in docs, b \in all \ docs : score[a] >= score[b]

LEMMA BestOfBest ==
  ASSUME NEW all, IsFiniteSet(all), NEW some \in SUBSET all, NEW score \in [all -> Int],
         NEW k \in Nat, some = all \/ Cardinality(some) >= k,
         \A a \in some, b \in all \ some : score[a] >= score[b],
         NEW listed, listed = {[doc |-> d, score |-> score[d]] : d \in some},
         NEW top, CutTo(top, listed, k)
  PROVE  BestOf(top, all, k, score)
<1>1. /\ IsFiniteSet(some) /\ Cardinality(some) \in Nat /\ Cardinality(all) \in Nat
      /\ Cardinality(some) <= Cardinality(all)
  BY FS_Subset, FS_CardinalityType
<1>2. Cardinality(listed) = Cardinality(some)
  <2> DEFINE p == [d \in some |-> [doc |-> d, score |-> score[d]]]
  <2>1. \A d, e \in some : p[d] = p[e] => d = e
    <3> SUFFICES ASSUME NEW d \in some, NEW e \in some, p[d] = p[e] PROVE d = e
      OBVIOUS
    <3>1. p[d].doc = d /\ p[e].doc = e
      OBVIOUS
    <3> QED
      BY <3>1
  <2>2. p \in Bijection(some, listed)
    BY <2>1 DEF Bijection, Injection, Surjection, IsInjective
  <2> QED
    BY <1>1, <2>2, FS_Bijection DEF ExistsBijection
<1>3. Cardinality(top) = Min({k, Cardinality(all)})
  BY <1>1, <1>2, SmallerOf DEF CutTo
<1>4. ASSUME NEW x \in listed
      PROVE  x.doc \in some /\ x.score = score[x.doc]
             /\ x = [doc |-> x.doc, score |-> score[x.doc]]
  <2>1. PICK d \in some : x = [doc |-> d, score |-> score[d]]
    OBVIOUS
  <2>2. x.doc = d /\ x.score = score[d]
    BY <2>1
  <2> QED
    BY <2>1, <2>2
<1> DEFINE docs == {x.doc : x \in top}
<1>5. docs \subseteq some
  BY <1>4 DEF CutTo
<1>6. ASSUME NEW a \in docs, NEW b \in all \ docs
      PROVE  score[a] >= score[b]
  <2>1. PICK x \in top : a = x.doc
    OBVIOUS
  <2>2. CASE b \in some
    <3>1. PICK y : y = [doc |-> b, score |-> score[b]]
      OBVIOUS
    <3>2. y \in listed /\ y.doc = b
      BY <2>2, <3>1
    <3>3. y \notin top
      BY <3>2
    <3>4. x.score >= y.score
      BY <2>1, <3>2, <3>3 DEF CutTo
    <3>5. x.score = score[a] /\ y.score = score[b]
      BY <1>4, <2>1, <3>2 DEF CutTo
    <3> QED
      BY <3>4, <3>5
  <2>3. CASE b \notin some
    BY <1>5, <2>3
  <2> QED
    BY <2>2, <2>3
<1>7. docs \subseteq all
  BY <1>5
<1> QED
  BY <1>3, <1>6, <1>7 DEF BestOf

-----------------------------------------------------------------------------
(* The weighty documents of TieredIsTopK are those of the tiers if the     *)
(* term tells, and none otherwise.                                         *)
Weighty(t) == {d \in built.docs : TfIdf(d, t) > 0}

LEMMA WeightyAre ==
  ASSUME StatInv, CountsOK, FrequenciesFit, BuildOK, NEW t \in Words
  PROVE  Weighty(t) = IF df[t] < N THEN Built(t) ELSE {}
<1>1. built.docs \subseteq Docs
  BY DEF BuildOK, StatInv, StatTypeOK
<1>2. \A d \in built.docs : TfIdf(d, t) > 0 <=> Bears(d, t)
  BY <1>1, AnyTfIdf
<1> QED
  BY <1>2 DEF Weighty, Built, Bears

LEMMA ListedAre ==
  ASSUME StatInv, CountsOK, FrequenciesFit, BuildOK, NEW t \in Words,
         NEW S \in SUBSET Docs
  PROVE  /\ df[t] >= N => Listed(S, t) = {}
         /\ S \subseteq Built(t) /\ df[t] < N =>
              Listed(S, t) = {[doc |-> d, score |-> TfIdf(d, t)] : d \in S}
<1>1. \A d \in S : TfIdf(d, t) > 0 <=> Bears(d, t)
  BY AnyTfIdf
<1>2. df[t] \in Nat /\ N \in Nat
  <2>1. IsFiniteSet(known)
    BY DocsAreFinite, FS_Subset DEF StatInv, StatTypeOK
  <2> QED
    BY <2>1, FS_CardinalityType DEF N, CountsOK, StatTypeOK
<1>3. ASSUME df[t] >= N
      PROVE  Listed(S, t) = {}
  <2>1. \A d \in S : ~ Bears(d, t)
    BY <1>2, <1>3 DEF Bears
  <2> QED
    BY <1>1, <2>1 DEF Listed
<1>4. ASSUME S \subseteq Built(t), df[t] < N
      PROVE  Listed(S, t) = {[doc |-> d, score |-> TfIdf(d, t)] : d \in S}
  <2>1. \A d \in S : Bears(d, t)
    BY <1>4 DEF Bears, Built
  <2>2. {e \in S : TfIdf(e, t) > 0} = S
    BY <1>1, <2>1
  <2> QED
    BY <2>2 DEF Listed
<1> QED
  BY <1>3, <1>4

LEMMA EnoughIs ==
  ASSUME Typed, search.call.k > 0
  PROVE  Enough \in Nat /\ Enough >= search.call.k
<1>1. PICK k, o : k = search.call.k /\ o = search.call.overshoot
  OBVIOUS
<1>2. k \in Nat /\ k > 0 /\ o \in Int
  BY <1>1, SearchesAreCalls DEF Typed
<1>3. PICK f : f = IF o <= 0 THEN 5 ELSE o
  OBVIOUS
<1>4. f \in Nat /\ f > 0
  BY <1>2, <1>3
<1>5. PICK g \in Nat : f = g + 1
  <2>1. f - 1 \in Nat /\ f = (f - 1) + 1
    BY <1>4
  <2> QED
    BY <2>1
<1>6. k * f = k * g + k /\ k * g \in Nat
  BY <1>2, <1>5
<1>7. Enough = k * f
  BY <1>1, <1>3 DEF Enough
<1> QED
  BY <1>1, <1>2, <1>6, <1>7

FoundBest(top, t) == BestOf(top, Weighty(t), search.call.k, [d \in Weighty(t) |-> TfIdf(d, t)])

(* A build tells of a term as TieredIsTopK says.                           *)
UpToDate(t) == built.fresh \/ (NothingTwice /\ built.df[t] < built.n)

LEMMA CutIsBest ==
  ASSUME StatInv, CountsOK, FrequenciesFit, BuildOK, TiersOK, Typed,
         NEW t \in Words, UpToDate(t), NEW i \in DOMAIN TierSizes,
         search.call.k \in 1..TierSizes[Len(TierSizes)],
         Cardinality(tiers[i][t]) >= Enough \/ i = Len(TierSizes),
         NEW top, CutTo(top, Listed(tiers[i][t], t), search.call.k)
  PROVE  FoundBest(top, t)
<1> DEFINE S == tiers[i][t]
           k == search.call.k
<1>1. S \in SUBSET Docs /\ IsFiniteSet(S) /\ Cardinality(S) \in Nat
  <2>1. S \in SUBSET Docs
    BY DEF TiersOK
  <2> QED
    BY <2>1, DocsAreFinite, FS_Subset, FS_CardinalityType
<1>2. /\ Len(TierSizes) \in DOMAIN TierSizes
      /\ TierSizes[Len(TierSizes)] \in Nat /\ TierSizes[i] \in Nat
  BY TiersAreNested
<1>3. k \in Nat /\ k > 0
  BY <1>2
<1>4. df[t] \in Nat /\ N \in Nat
  <2>1. IsFiniteSet(known)
    BY DocsAreFinite, FS_Subset DEF StatInv, StatTypeOK
  <2> QED
    BY <2>1, FS_CardinalityType DEF N, CountsOK, StatTypeOK
<1>5. CASE df[t] < N
  <2>1. InOrder(t)
    BY <1>5 DEF UpToDate, InOrder, BuildOK
  <2>2. IsTop(S, t, TierSizes[i])
    BY <2>1 DEF BuildOK, TiersAreTop
  <2>3. Weighty(t) = Built(t) /\ Built(t) \subseteq Docs
    BY <1>5, WeightyAre DEF Built, BuildOK, StatInv, StatTypeOK
  <2>4. IsFiniteSet(Built(t)) /\ S \in SUBSET Built(t)
    BY <2>2, <2>3, DocsAreFinite, FS_Subset DEF IsTop
  <2>5. PICK score : score = [d \in Built(t) |-> TfIdf(d, t)]
    OBVIOUS
  <2>6. score \in [Built(t) -> Int] /\ \A d \in Built(t) : score[d] = TfIdf(d, t)
    BY <2>3, <2>5, AnyTfIdf
  <2>7. S = Built(t) \/ Cardinality(S) >= k
    <3>1. CASE Cardinality(S) >= Enough
      <4>1. Enough \in Nat /\ Enough >= k
        BY <1>3, EnoughIs
      <4> QED
        BY <1>1, <1>3, <3>1, <4>1
    <3>2. CASE i = Len(TierSizes)
      BY <1>1, <1>2, <1>3, <2>2, <3>2 DEF IsTop
    <3> QED
      BY <3>1, <3>2
  <2>8. ASSUME NEW a \in S, NEW b \in Built(t) \ S
        PROVE  score[a] >= score[b]
    <3>1. a \in Built(t) /\ tf[a][t] >= tf[b][t]
      BY <2>2, <2>4 DEF IsTop
    <3>2. a \in Docs /\ b \in Docs /\ Bears(a, t) /\ Bears(b, t)
      BY <1>5, <2>3, <3>1 DEF Bears, Built
    <3>3. TfIdf(a, t) >= TfIdf(b, t)
      BY <3>1, <3>2, AnyTfIdf
    <3> QED
      BY <2>6, <3>1, <3>3
  <2>9. PICK listed : listed = {[doc |-> d, score |-> score[d]] : d \in S}
    OBVIOUS
  <2>10. Listed(S, t) = listed
    <3>1. Listed(S, t) = {[doc |-> d, score |-> TfIdf(d, t)] : d \in S}
      BY <1>1, <1>5, <2>4, ListedAre
    <3> QED
      BY <2>4, <2>6, <2>9, <3>1
  <2>11. CutTo(top, listed, k)
    BY <2>10, Zenon
  <2>12. BestOf(top, Built(t), k, score)
    <3> HIDE DEF S, k
    <3> QED
      BY <1>3, <2>4, <2>6, <2>7, <2>8, <2>9, <2>11, BestOfBest
  <2> QED
    BY <2>3, <2>5, <2>12 DEF FoundBest
<1>6. CASE ~(df[t] < N)
  <2>1. Listed(S, t) = {} /\ Weighty(t) = {}
    BY <1>1, <1>4, <1>6, ListedAre, WeightyAre
  <2>2. top = {} /\ Cardinality({}) = 0
    BY <2>1, FS_EmptySet DEF CutTo
  <2>3. Min({k, 0}) = 0
    <3>1. Min({k, 0}) = IF k <= 0 THEN k ELSE 0
      <4>1. 0 \in Nat
        OBVIOUS
      <4> HIDE DEF k
      <4> QED
        BY <1>3, <4>1, SmallerOf, Zenon
    <3> QED
      BY <1>3, <3>1
  <2>4. {x.doc : x \in top} = {}
    BY <2>2
  <2>5. PICK score : score = [d \in Weighty(t) |-> TfIdf(d, t)]
    OBVIOUS
  <2>6. BestOf(top, Weighty(t), k, score)
    <3> HIDE DEF k
    <3> QED
      BY <2>1, <2>2, <2>3, <2>4 DEF BestOf
  <2> QED
    BY <2>5, <2>6 DEF FoundBest
<1> QED
  BY <1>5, <1>6

-----------------------------------------------------------------------------
(* What an undisturbed search of one term has found when it is done.       *)
DoneIsBest ==
  (OneTerm /\ search.stage = "done" /\ UpToDate(TermOf)
     /\ search.call.k \in 1..TierSizes[Len(TierSizes)]) =>
    FoundBest(search.results, TermOf)

LEMMA FinishFindsBest ==
  ASSUME StatInv, CountsOK, FrequenciesFit, BuildOK, TiersOK, SearchOK, Collected, Finish
  PROVE  Collected' /\ DoneIsBest'
<1>1. search.stage = "score" /\ UNCHANGED <<known, tf, df, times, tiers, built>>
  BY DEF Finish, InSearch
<1>2. search # NoSearch
  BY <1>1 DEF NoSearch
<1>3. Typed
  BY <1>2 DEF SearchOK
<1>4. PICK cut, top :
        /\ cut = (IF search.call.kind = "tiered" /\ search.call.k > 0
                    THEN Min({search.call.k, Cardinality(search.results)})
                    ELSE Cardinality(search.results))
        /\ top \in SUBSET search.results /\ Cardinality(top) = cut
        /\ \A x \in top, y \in search.results \ top : x.score >= y.score
        /\ search' = [search EXCEPT !.stage = "done", !.results = top]
  BY Zenon DEF Finish
<1>5. /\ search'.stage = "done" /\ search'.results = top
      /\ search'.beside = search.beside /\ search'.call = search.call
      /\ search'.terms = search.terms
  BY <1>3, <1>4 DEF Typed, Fields
<1>6. Collected'
  BY <1>5 DEF Collected
<1>7. DoneIsBest'
  <2> SUFFICES ASSUME OneTerm', UpToDate(TermOf)',
                      search.call.k \in 1..TierSizes[Len(TierSizes)]
               PROVE  FoundBest(search.results, TermOf)'
    BY <1>5 DEF DoneIsBest
  <2>1. OneTerm
    BY <1>2, <1>5 DEF OneTerm
  <2>2. search.left = <<>>
    BY <1>1, <2>1 DEF Collected
  <2>3. PICK i \in DOMAIN TierSizes : CollectedFrom(i, TermOf)
    BY <1>1, <2>1 DEF Collected, TermOf
  <2>4. TermOf \in Words /\ search.terms # <<>>
    BY <1>3, <2>1, OneTermIs
  <2>5. search.todo = {}
    <3> SUFFICES ASSUME NEW d \in search.todo PROVE FALSE
      OBVIOUS
    <3>1. TermOrders = {search.terms}
      BY <2>1 DEF TermOrders, OneTerm
    <3>2. [doc |-> d, left |-> search.terms] \in Weighable
      <4>1. PICK order \in TermOrders \ {<<>>} : order = search.terms
        BY <2>4, <3>1
      <4>2. [doc |-> d, left |-> order] \in Weighable
        BY <2>2 DEF Weighable
      <4> QED
        BY <4>1, <4>2
    <3> QED
      BY <3>2 DEF Finish
  <2>6. PICK S : S = tiers[i][TermOf]
    OBVIOUS
  <2>7. search.results = Listed(S, TermOf)
    <3>1. S \ search.todo = S
      BY <2>5
    <3> QED
      BY <2>3, <2>6, <3>1, Zenon DEF CollectedFrom
  <2>8. CutTo(top, Listed(S, TermOf), search.call.k)
    <3>1. search.call.kind = "tiered" /\ search.call.k > 0
      <4>1. TierSizes[Len(TierSizes)] \in Nat
        BY TiersAreNested
      <4> QED
        BY <2>1, <4>1 DEF OneTerm
    <3>2. cut = Min({search.call.k, Cardinality(search.results)})
      BY <1>4, <3>1, Zenon
    <3> QED
      BY <1>4, <2>7, <3>2, Zenon DEF CutTo
  <2>9. TermOf' = TermOf /\ N' = N
    BY <1>1, <1>5 DEF TermOf, N
  <2>10. UpToDate(TermOf)
    BY <1>1, <2>9 DEF UpToDate, NothingTwice
  <2>11. FoundBest(top, TermOf)
    <3>1. Cardinality(tiers[i][TermOf]) >= Enough \/ i = Len(TierSizes)
      BY <2>3 DEF CollectedFrom
    <3>2. CutTo(top, Listed(tiers[i][TermOf], TermOf), search.call.k)
      BY <2>6, <2>8, Zenon
    <3> QED
      BY <1>3, <2>4, <2>10, <3>1, <3>2, CutIsBest
  <2>12. \A d : TfIdf(d, TermOf)' = TfIdf(d, TermOf)
    BY <1>1, <2>9 DEF TfIdf, N, Idf
  <2>13. Weighty(TermOf)' = Weighty(TermOf)
    BY <1>1, <2>9, <2>12 DEF Weighty
  <2>14. FoundBest(search.results, TermOf)' = FoundBest(top, TermOf)
    BY <1>5, <2>9, <2>12, <2>13 DEF FoundBest, BestOf
  <2> QED
    BY <2>11, <2>14
<1> QED
  BY <1>6, <1>7

(* What happens beside a search leaves nothing to say of it.               *)
LEMMA DisturbedIsOut ==
  ASSUME SearchOK, NEW what, Beside(what)
  PROVE  Collected' /\ DoneIsBest'
<1>1. ~ OneTerm'
  <2>1. CASE search = NoSearch
    <3>1. search' = NoSearch
      BY <2>1 DEF Beside
    <3> QED
      BY <3>1 DEF OneTerm, NoSearch
  <2>2. CASE search # NoSearch
    <3>1. search' = [search EXCEPT !.beside = @ \cup {what}] /\ Typed
      BY <2>2 DEF Beside, SearchOK
    <3>2. search'.beside = search.beside \cup {what}
      BY <3>1 DEF Typed, Fields
    <3> QED
      BY <3>2 DEF OneTerm
  <2> QED
    BY <2>1, <2>2
<1> QED
  BY <1>1 DEF Collected, DoneIsBest

LEMMA CosineIsOut ==
  ASSUME SearchOK, ReadNumber \/ ReadFrequency \/ WeighQuery
  PROVE  Collected' /\ DoneIsBest'
<1>1. search.stage \in {"number", "frequency"}
  BY DEF ReadNumber, ReadFrequency, WeighQuery, InSearch
<1>2. search # NoSearch
  BY <1>1 DEF NoSearch
<1>3. Typed /\ search.call.kind = "vsm"
  BY <1>1, <1>2 DEF SearchOK, Staged
<1>4. search'.call = search.call
  <2>1. CASE ReadNumber
    <3>1. PICK stage : search' = [search EXCEPT !.n = N, !.left = search.terms,
                                                !.stage = stage]
      BY <2>1, Zenon DEF ReadNumber
    <3> QED
      BY <1>3, <3>1 DEF Typed, Fields
  <2>2. CASE ReadFrequency
    <3>1. PICK left, weight : search' = [search EXCEPT !.left = left, !.weight = weight]
      BY <2>2, Zenon DEF ReadFrequency
    <3> QED
      BY <1>3, <3>1 DEF Typed, Fields
  <2>3. CASE WeighQuery
    <3>1. PICK stage : search' = [search EXCEPT !.stage = stage]
      BY <2>3, Zenon DEF WeighQuery
    <3> QED
      BY <1>3, <3>1 DEF Typed, Fields
  <2> QED
    BY <2>1, <2>2, <2>3
<1>5. ~ OneTerm'
  BY <1>3, <1>4 DEF OneTerm
<1> QED
  BY <1>5 DEF Collected, DoneIsBest


LEMMA TopStepKeeps ==
  ASSUME StatInv, RkInv, FrequenciesFit, BuildOK, Collected, DoneIsBest, [RkNext]_rkvars
  PROVE  BuildOK' /\ Collected' /\ DoneIsBest'
<1>0. CountsOK /\ TiersOK /\ SearchOK
  BY DEF RkInv
<1>1. ASSUME NEW d \in Docs, NEW text \in Texts, CountOne(d, text)
      PROVE  BuildOK' /\ Collected' /\ DoneIsBest'
  <2>1. Beside("count")
    BY <1>1 DEF CountOne
  <2> QED
    BY <1>0, <1>1, <2>1, CountKeepsBuild, DisturbedIsOut
<1>2. CASE BuildTieredIndex
  <2>1. Beside("build")
    BY <1>2 DEF BuildTieredIndex
  <2> QED
    BY <1>0, <1>2, <2>1, BuildOrders, DisturbedIsOut
<1>3. ASSUME UNCHANGED <<known, tf, df, times, tiers, built>>
      PROVE  BuildOK'
  BY <1>3 DEF BuildOK, TiersAreTop, InOrder, IsTop, Built, NothingTwice, N
<1>4. CASE BeginSearch
  <2>1. PICK call \in Searches, stage \in {"score", "number", "tier"} :
          /\ Begin(call, stage)
          /\ call.kind = "tiered" => stage = "tier"
    BY <1>4, SearchesAreCalls DEF BeginSearch
  <2>2. search' = [stage |-> stage, call |-> call, terms |-> StemAll(call.words),
                   beside |-> {}, n |-> 0, weight |-> <<>>, tier |-> 1,
                   todo |-> call.docs, doc |-> 0, left |-> <<>>, sum |-> 0,
                   zero |-> TRUE, results |-> {}]
    BY <2>1, Zenon DEF Begin
  <2>3. /\ search'.stage = stage /\ search'.call = call
        /\ search'.left = <<>> /\ search'.sum = 0 /\ search'.results = {}
    BY <2>2
  <2>4. OneTerm' => stage = "tier"
    BY <2>1, <2>3 DEF OneTerm
  <2>5. Collected' /\ DoneIsBest'
    BY <2>3, <2>4 DEF Collected, DoneIsBest
  <2>6. BuildOK'
    BY <1>3, <2>1 DEF Begin
  <2> QED
    BY <2>5, <2>6
<1>5. CASE ReadNumber \/ ReadFrequency \/ WeighQuery
  <2>1. BuildOK'
    BY <1>3, <1>5 DEF ReadNumber, ReadFrequency, WeighQuery, InSearch
  <2> QED
    BY <1>0, <1>5, <2>1, CosineIsOut
<1>6. CASE ReadTier
  <2>1. BuildOK'
    BY <1>3, <1>6 DEF ReadTier, InSearch
  <2>2. Collected'
    BY <1>0, <1>6, TierTaken
  <2>3. search.stage = "tier" /\ search # NoSearch
    BY <1>6 DEF ReadTier, InSearch, NoSearch
  <2>4. search'.stage # "done"
    <3>1. PICK i, taken :
            search' = [search EXCEPT !.tier = @ + 1,
                                     !.stage = IF taken THEN "score" ELSE "tier",
                                     !.todo = IF taken THEN Candidates(i) ELSE @]
      BY <1>6, Zenon DEF ReadTier
    <3>2. search'.stage = IF taken THEN "score" ELSE "tier"
      BY <1>0, <2>3, <3>1 DEF SearchOK, Typed, Fields
    <3> QED
      BY <3>1, <3>2
  <2> QED
    BY <2>1, <2>2, <2>4 DEF DoneIsBest
<1>7. CASE Weigh
  <2>1. BuildOK'
    BY <1>3, <1>7 DEF Weigh, InSearch
  <2>2. Collected'
    BY <1>0, <1>7, OneWeighed
  <2>3. search.stage = "score" /\ search # NoSearch
    BY <1>7 DEF Weigh, InSearch, NoSearch
  <2>4. search'.stage # "done"
    <3>1. PICK c \in Weighable : \E t, s, zero, ranked : Reaches(c, t, s, zero, ranked)
      BY <1>7, WeighReaches
    <3>2. PICK t, s, zero, ranked : Reaches(c, t, s, zero, ranked)
      BY <3>1
    <3>3. search'.stage = search.stage
      BY <1>0, <2>3, <3>2 DEF SearchOK, Typed, Fields, Reaches
    <3> QED
      BY <2>3, <3>3
  <2> QED
    BY <2>1, <2>2, <2>4 DEF DoneIsBest
<1>8. CASE Finish
  <2>1. BuildOK'
    BY <1>3, <1>8 DEF Finish, InSearch
  <2> QED
    BY <1>0, <1>8, <2>1, FinishFindsBest
<1>9. CASE UNCHANGED rkvars
  <2>1. UNCHANGED <<known, tf, df, times, tiers, built, search>>
    BY <1>9 DEF rkvars
  <2>2. BuildOK'
    BY <1>3, <2>1
  <2>3. Collected'
    BY <2>1 DEF Collected, OneTerm, CollectedFrom, Listed, TfIdf, N, Enough
  <2>4. DoneIsBest'
    <3>1. TermOf' = TermOf /\ OneTerm' = OneTerm
      BY <2>1 DEF TermOf, OneTerm
    <3>2. UpToDate(TermOf)' = UpToDate(TermOf)
      BY <2>1, <3>1 DEF UpToDate, NothingTwice
    <3>3. \A d : TfIdf(d, TermOf)' = TfIdf(d, TermOf)
      BY <2>1, <3>1 DEF TfIdf, N, Idf
    <3>4. Weighty(TermOf)' = Weighty(TermOf)
      BY <2>1, <3>1, <3>3 DEF Weighty
    <3>5. FoundBest(search.results, TermOf)' = FoundBest(search.results, TermOf)
      BY <2>1, <3>1, <3>3, <3>4 DEF FoundBest, BestOf
    <3> QED
      BY <2>1, <3>1, <3>2, <3>5 DEF DoneIsBest
  <2> QED
    BY <2>2, <2>3, <2>4
<1> QED
  BY <1>1, <1>2, <1>4, <1>5, <1>6, <1>7, <1>8, <1>9 DEF RkNext

LEMMA TopFromInit == RkInit => BuildOK /\ Collected /\ DoneIsBest
<1> SUFFICES ASSUME RkInit PROVE BuildOK /\ Collected /\ DoneIsBest
  OBVIOUS
<1>1. /\ known = {} /\ df = [t \in Words |-> 0]
      /\ tiers = [i \in DOMAIN TierSizes |-> [t \in Words |-> {}]]
      /\ built = [n |-> 0, df |-> df, docs |-> {}, fresh |-> TRUE]
      /\ search = NoSearch
  BY DEF RkInit, StatInit
<1>2. N = 0
  BY <1>1, FS_EmptySet DEF N
<1>3. \A t \in Words : ~ InOrder(t)
  BY <1>1 DEF InOrder
<1>4. BuildOK
  BY <1>1, <1>2, <1>3 DEF BuildOK, TiersAreTop
<1> QED
  BY <1>1, <1>4 DEF Collected, DoneIsBest, OneTerm

(* A tiered search of one term, with no call of Index and no build beside  *)
(* it, answers with k documents of the greatest weights among those known  *)
(* at the last build, or with all that have one: the tiers, although cut,  *)
(* hold enough of the best.  That holds while nothing has been indexed     *)
(* since the build; and after that if no document has been indexed twice   *)
(* and the term was not in every document then.                            *)
THEOREM TiersAnswerTopK == RkSpec => []TieredIsTopK
<1>1. RkSpec => [](StatInv /\ RkInv /\ FrequenciesFit)
  BY RankCountsOnly, StatInvHolds, RankingsKeep, RkFrequenciesFit, PTL
<1>2. /\ StatInv /\ RkInv /\ FrequenciesFit
      /\ BuildOK /\ Collected /\ DoneIsBest /\ [RkNext]_rkvars
      => BuildOK' /\ Collected' /\ DoneIsBest'
  BY TopStepKeeps
<1>3. RkSpec => []DoneIsBest
  BY <1>1, <1>2, TopFromInit, PTL DEF RkSpec
<1>4. DoneIsBest => TieredIsTopK
  <2> SUFFICES ASSUME DoneIsBest, Done({"tiered"}), search.beside = {},
                      Len(search.terms) = 1,
                      search.call.k \in 1..TierSizes[Len(TierSizes)],
                      UpToDate(TermOf)
               PROVE  /\ ResultDocs \subseteq Weighty(TermOf)
                      /\ Cardinality(search.results)
                           = Min({search.call.k, Cardinality(Weighty(TermOf))})
                      /\ \A a \in ResultDocs, b \in Weighty(TermOf) \ ResultDocs :
                           TfIdf(a, TermOf) >= TfIdf(b, TermOf)
    BY DEF TieredIsTopK, TermOf, UpToDate, Weighty
  <2>1. search.stage = "done" /\ search.call.kind = "tiered"
    BY DEF Done
  <2>2. OneTerm
    BY <2>1 DEF OneTerm, NoSearch
  <2>3. FoundBest(search.results, TermOf)
    BY <2>1, <2>2 DEF DoneIsBest
  <2> QED
    BY <2>3 DEF FoundBest, BestOf, ResultDocs
<1> QED
  BY <1>3, <1>4, PTL
=============================================================================
