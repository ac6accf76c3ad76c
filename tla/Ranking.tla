------------------------------ MODULE Ranking ------------------------------
(***************************************************************************)
(* The rankings of internal/index: RankTFIDF, RankVSM and TieredSearch,    *)
(* beside goroutines that count documents and build tiers.  Each weight    *)
(* (tfidf) is computed in a critical section of its own, so that the       *)
(* counts may change between the scores of two documents and between the   *)
(* terms of one.                                                           *)
(*                                                                         *)
(* Logarithms are natural numbers, some multiple of the real ones rounded. *)
(***************************************************************************)
EXTENDS Statistics

CONSTANTS
  TierSizes,   \* the number of documents of a term in each tier
  Searches,    \* the calls: the kind ("tfidf", "vsm" or "tiered"), the words,
               \* the documents of the bitmap, k and overshoot
  Logs,        \* the logarithms of 1, 2, 3, ...
  MaxCounts    \* bound of the model: calls of Index

ASSUME TiersAreNested ==
  /\ TierSizes # <<>>
  /\ TierSizes \in Seq(Nat)
  /\ \A i, j \in DOMAIN TierSizes : i <= j => TierSizes[i] <= TierSizes[j]
ASSUME SearchesAreCalls ==
  \A c \in Searches : /\ c.kind \in {"tfidf", "vsm", "tiered"}
                       /\ c.words \in Seq(Words)
                       /\ c.docs \subseteq Docs
                       /\ c.k \in Int /\ c.overshoot \in Int
ASSUME LogsGrow ==
  /\ Logs \in Seq(Nat)
  /\ \A i, j \in DOMAIN Logs : i < j => Logs[i] < Logs[j]
(* Whatever is counted has a logarithm.                                    *)
ASSUME LogsAreThere ==
  /\ MaxCounts \in 0..Len(Logs)
  /\ Cardinality(Docs) <= Len(Logs)
  /\ \A text \in Texts : Len(text) <= Len(Logs)

VARIABLES
  tiers,     \* per tier and term, the documents of its list; the scores the
             \* code keeps with them are never read
  built,     \* history: of the last BuildTieredIndex, the number of documents, df,
             \* the documents, and whether none has been counted since
  search     \* the ranking in progress, NoSearch before it

rkvars == <<known, tf, df, times, tiers, built, search>>

Log(x) == Logs[x]

(* The stems of the words, without those the analysis leaves out.          *)
StemAll(words) ==
  LET out[n \in 0..Len(words)] ==
        IF n = 0 THEN <<>>
        ELSE IF words[n] \in Stops THEN out[n - 1]
        ELSE Append(out[n - 1], Stem[words[n]])
  IN  out[Len(words)]

NoSearch == [stage |-> "none"]

RkInit ==
  /\ StatInit
  /\ tiers = [i \in DOMAIN TierSizes |-> [t \in Words |-> {}]]
  /\ built = [n |-> 0, df |-> df, docs |-> {}, fresh |-> TRUE]
  /\ search = NoSearch

-----------------------------------------------------------------------------
(* tfidf: (1 + log count) * log (n / df), or 0 where one of them is 0.     *)
N == Cardinality(known)

(* Fault: the one before the logarithm of the count is forgotten.          *)
TfLogOnly(count) == Log(count)

Tf(count) == 100 + Log(count)

Idf(n, f) == Log(n) - Log(f)

(* Fault: the number of documents is that of the last build.              *)
TfIdfStale(d, t) ==
  IF tf[d][t] = 0 \/ df[t] = 0 \/ built.n = 0 THEN 0
  ELSE Tf(tf[d][t]) * Idf(built.n, df[t])

TfIdf(d, t) == IF tf[d][t] = 0 \/ df[t] = 0 THEN 0 ELSE Tf(tf[d][t]) * Idf(N, df[t])

-----------------------------------------------------------------------------
(* BuildTieredIndex, in one critical section: per term, documents by       *)
(* descending score, equal ones in any order, cut to the size of each tier.*)
(* A term whose frequency is zero keeps its lists.                         *)

(* Fault: the lists start with the least scores.                           *)
RankedByLeast(t) ==
  {s \in SetToSeqs(Holding(t)) :
     \A i, j \in DOMAIN s : i < j => TfIdf(s[i], t) <= TfIdf(s[j], t)}

RankedBy(t) ==
  {s \in SetToSeqs(Holding(t)) :
     \A i, j \in DOMAIN s : i < j => TfIdf(s[i], t) >= TfIdf(s[j], t)}

(* The first documents of a sorting, tier by tier.                         *)
Lists(s) ==
  [i \in DOMAIN TierSizes |-> ToSet(SubSeq(s, 1, Min({TierSizes[i], Len(s)})))]

(* The lists sorting the documents of a term may come to.                  *)
FillingsOf(t) == {Lists(s) : s \in RankedBy(t)}

(* The ways to pick one of each, and so lists for every counted term.      *)
Picks(of) ==
  {f \in [DOMAIN of -> UNION {of[t] : t \in DOMAIN of}] : \A t \in DOMAIN of : f[t] \in of[t]}

Fillings == Picks([t \in {u \in Words : df[u] # 0} |-> FillingsOf(t)])

(* A search in progress notes what happens beside it.                      *)
Beside(what) ==
  search' = IF search = NoSearch THEN search
            ELSE [search EXCEPT !.beside = @ \cup {what}]

BuildTieredIndex ==
  /\ \E lists \in Fillings :
       tiers' = [i \in DOMAIN TierSizes |-> [t \in Words |->
                   IF df[t] = 0 THEN tiers[i][t] ELSE lists[t][i]]]
  /\ built' = [n |-> N, df |-> df, docs |-> known, fresh |-> TRUE]
  /\ Beside("build")
  /\ UNCHANGED <<known, tf, df, times>>

(* A document is counted by some Index.                                    *)
CountOne(d, text) ==
  /\ MapThenSumSet(LAMBDA e : times[e], Docs) < MaxCounts
  /\ Count(d, text)
  /\ built' = [built EXCEPT !.fresh = FALSE]
  /\ Beside("count")
  /\ UNCHANGED tiers

-----------------------------------------------------------------------------
(* The searches.                                                           *)
InSearch(stage) ==
  /\ search.stage = stage
  /\ UNCHANGED <<known, tf, df, times, tiers, built>>

Begin(call, stage) ==
  /\ search = NoSearch
  /\ search' = [stage |-> stage, call |-> call, terms |-> StemAll(call.words),
                beside |-> {}, n |-> 0, weight |-> <<>>, tier |-> 1,
                todo |-> call.docs, doc |-> 0, left |-> <<>>, sum |-> 0,
                zero |-> TRUE, results |-> {}]
  /\ UNCHANGED <<known, tf, df, times, tiers, built>>

BeginSearch ==
  \E call \in Searches :
    Begin(call, CASE call.kind = "tfidf" -> "score"
                  [] call.kind = "vsm" -> "number"
                  [] call.kind = "tiered" -> "tier")

(* RankVSM reads the number of documents, and then each frequency, in a    *)
(* critical section of its own.  The weight of a term that is repeated is  *)
(* added up.                                                               *)
ReadNumber ==
  /\ InSearch("number")
  /\ search' = [search EXCEPT !.n = N, !.left = search.terms,
                              !.stage = IF N = 0 THEN "done" ELSE "frequency"]

WeightOf(t) == IF t \in DOMAIN search.weight THEN search.weight[t] ELSE 0

Weighted(t) ==
  [u \in DOMAIN search.weight \cup {t} |->
     IF u = t THEN WeightOf(t) + Idf(search.n, df[t]) ELSE search.weight[u]]

ReadFrequency ==
  /\ InSearch("frequency")
  /\ search.left # <<>>
  /\ LET t == Head(search.left)
     IN  search' = [search EXCEPT
                      !.left = Tail(@),
                      !.weight = IF df[t] = 0 THEN @ ELSE Weighted(t)]

(* A query without weight has no results.                                  *)
WeighQuery ==
  /\ InSearch("frequency")
  /\ search.left = <<>>
  /\ search' = [search EXCEPT
                  !.stage = IF \A t \in DOMAIN search.weight : search.weight[t] = 0
                              THEN "done" ELSE "score"]

(* TieredSearch collects candidates tier by tier, each in a critical       *)
(* section, until there are k * overshoot; after the last it reads that    *)
(* tier once more and takes what there is.                                 *)
Candidates(i) == UNION {tiers[i][t] : t \in ToSet(search.terms)}

Enough == search.call.k * (IF search.call.overshoot <= 0 THEN 5 ELSE search.call.overshoot)

ReadTier ==
  /\ InSearch("tier")
  /\ LET i == Min({search.tier, Len(TierSizes)})
         taken == search.tier > Len(TierSizes) \/ Cardinality(Candidates(i)) >= Enough
     IN  search' = [search EXCEPT !.tier = @ + 1,
                                 !.stage = IF taken THEN "score" ELSE "tier",
                                 !.todo = IF taken THEN Candidates(i) ELSE @]

(* A document's weights, one tfidf after the other: RankVSM ranges over    *)
(* the map of the query's terms.                                           *)
TermOrders == IF search.call.kind = "vsm" THEN SetToSeqs(DOMAIN search.weight)
              ELSE {search.terms}

Weighable ==
  IF search.left # <<>> THEN {[doc |-> search.doc, left |-> search.left]}
  ELSE {[doc |-> d, left |-> order] : d \in search.todo, order \in TermOrders \ {<<>>}}

(* One weight.  After a document's last, it is ranked if its sum is above  *)
(* zero, or for RankVSM, whose cosine has the sign of sum, if it has a     *)
(* weight that is not zero.                                                *)
Weigh ==
  /\ InSearch("score")
  /\ \E c \in Weighable :
       LET t    == Head(c.left)
           v    == TfIdf(c.doc, t)
           vsm  == search.call.kind = "vsm"
           sum  == search.sum + v * (IF vsm THEN search.weight[t] ELSE 1)
           zero == search.zero /\ v = 0
           last == Len(c.left) = 1
           ranked == last /\ IF vsm THEN ~zero ELSE sum > 0
       IN  search' = [search EXCEPT
                       !.doc  = c.doc,
                       !.left = Tail(c.left),
                       !.sum  = IF last THEN 0 ELSE sum,
                       !.zero = last \/ zero,
                       !.todo = IF last THEN @ \ {c.doc} ELSE @,
                       !.results = @ \cup IF ranked THEN {[doc |-> c.doc, score |-> sum]}
                                          ELSE {}]

(* The results are sorted, and TieredSearch cuts them to k if k is above 0.*)
Finish ==
  /\ InSearch("score")
  /\ Weighable = {}
  /\ LET cut == IF search.call.kind = "tiered" /\ search.call.k > 0
                  THEN Min({search.call.k, Cardinality(search.results)})
                  ELSE Cardinality(search.results)
     IN  \E top \in SUBSET search.results :
           /\ Cardinality(top) = cut
           /\ \A x \in top, y \in search.results \ top : x.score >= y.score
           /\ search' = [search EXCEPT !.stage = "done", !.results = top]

RkNext ==
  \/ \E d \in Docs, text \in Texts : CountOne(d, text)
  \/ BuildTieredIndex
  \/ BeginSearch \/ ReadNumber \/ ReadFrequency \/ WeighQuery
  \/ ReadTier \/ Weigh \/ Finish

RkSpec == RkInit /\ [][RkNext]_rkvars

-----------------------------------------------------------------------------
Done(kinds) == search.stage = "done" /\ search.call.kind \in kinds

ResultDocs == {x.doc : x \in search.results}

(* For one term, and with no Index call or build beside it, TieredSearch   *)
(* answers with k documents of the greatest weights among those known at   *)
(* the last build, or with all that have one.  The build may be out of     *)
(* date, as long as no document has been indexed twice and the term was    *)
(* not in every document when its tiers were filled: its documents had     *)
(* equal scores then, and the tiers hold any of them.                      *)
TieredIsTopK ==
  (Done({"tiered"}) /\ search.beside = {} /\ Len(search.terms) = 1
     /\ search.call.k \in 1..TierSizes[Len(TierSizes)]) =>
    LET t == search.terms[1]
        weighty == {d \in built.docs : TfIdf(d, t) > 0}
    IN  built.fresh \/ (NothingTwice /\ built.df[t] < built.n) =>
          /\ ResultDocs \subseteq weighty
          /\ Cardinality(search.results) = Min({search.call.k, Cardinality(weighty)})
          /\ \A a \in ResultDocs, b \in weighty \ ResultDocs : TfIdf(a, t) >= TfIdf(b, t)

(* With no Index call beside it and no document indexed twice, a ranking   *)
(* lists of the documents it is given just those with a term of the query  *)
(* that not all documents have, all with a positive score: both rankings   *)
(* list the same documents.                                                *)
RankedAreHits ==
  (Done({"tfidf", "vsm"}) /\ "count" \notin search.beside /\ NothingTwice) =>
    /\ ResultDocs = {d \in search.call.docs :
                        \E t \in ToSet(search.terms) : tf[d][t] > 0 /\ df[t] < N}
    /\ \A x \in search.results : x.score > 0

(* Each weight is computed from one state of the counts, so with no        *)
(* document indexed twice no sum of weights is ever negative, whatever is  *)
(* indexed meanwhile.  RankVSM alone, which reads its frequencies after    *)
(* the number of documents, may come to a negative cosine, if disturbed.   *)
NoNegativeScore ==
  (search # NoSearch /\ NothingTwice) =>
    \/ search.sum >= 0 /\ \A x \in search.results : x.score >= 0
    \/ search.call.kind = "vsm" /\ "count" \in search.beside
=============================================================================
