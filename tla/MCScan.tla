------------------------------ MODULE MCScan -------------------------------
(***************************************************************************)
(* TreeScan for TLC: the .cfg files give the constants.                    *)
(***************************************************************************)
EXTENDS TreeScan

(* Pieces are interchangeable: no property of TreeScan names one.          *)
DataSymmetry == Permutations(Data)

(* What others do to the tree once a scan has its answer does not change   *)
(* the answer, and they do it also before the scan begins: behaviours are  *)
(* not followed past an answer.                                            *)
NoAnswerYet == scan.at # "done"
=============================================================================
