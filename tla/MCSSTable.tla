----------------------------- MODULE MCSSTable ------------------------------
(***************************************************************************)
(* SSTable for TLC: the .cfg file gives the constants.                     *)
(***************************************************************************)
EXTENDS SSTable

(* Pieces are interchangeable: no property of SSTable names one.           *)
DataSymmetry == Permutations(Data)
=============================================================================
