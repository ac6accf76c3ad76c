--------------------------- MODULE MCBloomParams ----------------------------
(***************************************************************************)
(* BloomParams for TLC: the .cfg file gives the constants.                 *)
(***************************************************************************)
EXTENDS BloomParams
=============================================================================
