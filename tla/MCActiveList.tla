--------------------------- MODULE MCActiveList ---------------------------
(***************************************************************************)
(* Instances of ActiveList for TLC.                                        *)
(***************************************************************************)
EXTENDS ActiveList

CONSTANTS o1, o2, o3

=============================================================================
