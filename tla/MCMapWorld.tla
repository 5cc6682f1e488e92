------------------------------ MODULE MCMapWorld ------------------------------
(***************************************************************************)
(* The instance of MapLifecycle on which the abstract world is checked, and*)
(* which meets the conditions of the theorems about it.                    *)
(***************************************************************************)
EXTENDS MCMapLifecycle

ASSUME WorldAssumption == Careful /\ PlacedOnce
=============================================================================
