------------------------------- MODULE MCGates ------------------------------
(***************************************************************************)
(* An instance of Gates for TLC: a button b1, held down by a player or by a*)
(* monster and an item together, and a pedestal b2 for players and the key *)
(* i1, on one connection with a gate g1 and an inverted gate g2.           *)
(***************************************************************************)
EXTENDS Gates, FiniteSetsExt

CONSTANTS b1, b2, g1, g2, p1, m1, i1

Weight(S) == MapThenSumSet(LAMBDA x : IF x \in Players THEN 2 ELSE 1, S)

ButtonAndPedestal ==
    [b \in Buttons |-> {S \in SUBSET Things :
                          IF b = b1 THEN Weight(S) >= 2 ELSE S \cap (Players \cup Items) # {}}]
=============================================================================
