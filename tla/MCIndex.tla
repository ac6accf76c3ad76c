------------------------------ MODULE MCIndex ------------------------------
(***************************************************************************)
(* The index for TLC.  A behaviour answers queries, over the tree, or it   *)
(* ranks, for which the counts alone matter, or builds and searches tiers; *)
(* the variables of the other parts stay as they are.                      *)
(***************************************************************************)
EXTENDS InvertedIndex, Ranking

VARIABLE part   \* what this behaviour does

(* "go" is a prefix of "goal", and "the" a stop word.                      *)
MCStem == [w \in Words |-> w]
MCCovers == [w \in Words |-> IF w = "go" THEN <<"go", "goal">> ELSE <<w>>]

MCTexts == {<<"go", "the", "go">>, <<"goal", "go">>, <<"goal">>}

Term(w) == [op |-> "term", word |-> w]
Phrase(ws) == [op |-> "phrase", words |-> ws]
Op(o) == [op |-> o]

MCQueries == {
  <<Term("go"), Op("not")>>,
  <<Term("go"), Term("goal"), Op("not"), Op("and")>>,
  <<Phrase(<<"go", "go">>), Op("nil"), Op("or")>>,
  <<Term("the"), Phrase(<<"go", "the", "go">>), Op("or")>>}

Call(kind, words, k, overshoot) ==
  [kind |-> kind, words |-> words, docs |-> Docs, k |-> k, overshoot |-> overshoot]

MCSearches == {
  Call("tfidf", <<"goal", "the", "go">>, 0, 0),
  Call("vsm", <<"goal", "the", "go">>, 0, 0),
  Call("tiered", <<"go">>, 1, 1),
  Call("tiered", <<"go">>, 2, 0),
  Call("tiered", <<"go", "goal">>, 2, 1)}

MCTiers == <<1, 2, 3>>

(* Hundredths.  log 4 is twice log 2: equal ratios have equal logarithms.  *)
MCLogs == <<0, 69, 110, 138>>

IndexSymmetry == Permutations(Writers)

allvars == <<ivars, tiers, built, search, part>>

IndexInit == IInit /\ RkInit /\ part \in {"queries", "rankings", "tiers"}

IndexNext ==
  \/ part = "queries" /\ INext /\ UNCHANGED <<tiers, built, search, part>>
  \/ /\ part = "rankings"
     /\ RkNext
     /\ built'.docs = {}
     /\ search' # NoSearch => search'.call.kind # "tiered"
     /\ UNCHANGED <<allDocs, places, calls, posted, reader, part>>
  \/ /\ part = "tiers"
     /\ RkNext
     /\ search' # NoSearch => search'.call.kind = "tiered"
     /\ UNCHANGED <<allDocs, places, calls, posted, reader, part>>

IndexSpec == IndexInit /\ [][IndexNext]_allvars

(* A behaviour ends with an answer: what happens later does not change it, *)
(* and happens without it too.                                             *)
NoAnswerYet == ~Answered /\ search.stage # "done"
=============================================================================
