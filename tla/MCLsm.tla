------------------------------- MODULE MCLsm -------------------------------
(***************************************************************************)
(* The tree and its clients for TLC: the .cfg files give the constants.    *)
(***************************************************************************)
EXTENDS LsmPlaces
=============================================================================
