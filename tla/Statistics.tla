----------------------------- MODULE Statistics -----------------------------
(***************************************************************************)
(* The counts of internal/index: tf, how often a term is in a document,    *)
(* and df, in how many documents it is.  They are kept under the mutex of  *)
(* the index; Index changes them in one critical section.                  *)
(***************************************************************************)
EXTENDS Postings, FiniteSets

CONSTANTS
  Docs,    \* the documents' numbers
  Texts    \* the texts they may have, sequences of words

ASSUME DocsAreFinite == Docs \subseteq Nat /\ IsFiniteSet(Docs)
ASSUME TextsAreTexts == Texts \subseteq Seq(Words)

VARIABLES
  known,   \* the keys of the map tf
  tf,      \* tf[doc][term]; 0 where the map has no entry
  df,      \* df[term]
  times    \* history: how often each document has been counted

svars == <<known, tf, df, times>>

StatInit ==
  /\ known = {}
  /\ tf = [d \in Docs |-> [t \in Words |-> 0]]
  /\ df = [t \in Words |-> 0]
  /\ times = [d \in Docs |-> 0]

(* Fault: the counts of a document's texts are added up.                   *)
TextCountsAdded(d, text) ==
  [t \in Words |-> tf[d][t] + Cardinality(Where(text, t))]

(* The counts of a document after one more text: a term the text lacks     *)
(* keeps its former count.                                                 *)
TextCounts(d, text) ==
  [t \in Words |-> IF t \in Terms(text) THEN Cardinality(Where(text, t))
                                        ELSE tf[d][t]]

(* Fault: the frequencies of a document that is known already are kept.    *)
CountOnce(d, text) ==
  /\ known' = known \cup {d}
  /\ tf' = [tf EXCEPT ![d] = TextCounts(d, text)]
  /\ df' = IF d \in known THEN df
           ELSE [t \in Words |-> df[t] + IF t \in Terms(text) THEN 1 ELSE 0]
  /\ times' = [times EXCEPT ![d] = @ + 1]

Count(d, text) ==
  /\ known' = known \cup {d}
  /\ tf' = [tf EXCEPT ![d] = TextCounts(d, text)]
  /\ df' = [t \in Words |-> df[t] + IF t \in Terms(text) THEN 1 ELSE 0]
  /\ times' = [times EXCEPT ![d] = @ + 1]

StatNext == \E d \in Docs, text \in Texts : Count(d, text)

StatSpec == StatInit /\ [][StatNext]_svars

StatTypeOK ==
  /\ known \subseteq Docs
  /\ tf \in [Docs -> [Words -> Nat]]
  /\ df \in [Words -> Nat]
  /\ times \in [Docs -> Nat]

-----------------------------------------------------------------------------
(* The documents that have a term, as far as tf knows.                     *)
Holding(t) == {d \in Docs : tf[d][t] > 0}

NothingTwice == \A d \in Docs : times[d] <= 1

(* A term's frequency covers the documents that have it, and is their      *)
(* number as long as no document is indexed twice.  So with no document    *)
(* indexed twice no idf, the log of n / df, is negative; and df, which     *)
(* divides, is never zero for a term that some document has.               *)
DfCoversDocs ==
  \A t \in Words :
    /\ Cardinality(Holding(t)) <= df[t]
    /\ NothingTwice => df[t] = Cardinality(Holding(t)) /\ df[t] <= Cardinality(known)

(* What the comment on the field says: df is the number of documents of a  *)
(* term.                                                                   *)
DfIsDocs == \A t \in Words : df[t] = Cardinality(Holding(t))
=============================================================================
