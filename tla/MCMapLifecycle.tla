--------------------------- MODULE MCMapLifecycle ---------------------------
(***************************************************************************)
(* Instances of MapLifecycle for TLC: two shared maps a and b, which may be*)
(* in one reset group, and the per-player map h.                           *)
(***************************************************************************)
EXTENDS MapLifecycle

CONSTANTS a, b, h, p1, p2, i1, i2, g

Grouped == [m \in Maps |-> IF m \in {a, b} THEN g ELSE NoGroup]

\* i1 starts on map a, i2 (if any) with player p1.
ItemOnA   == [m \in Maps |-> IF m = a THEN {i1} ELSE {}]
NoItems   == [m \in Maps |-> {}]
NothingCarried == [p \in Players |-> {}]
RestCarried == [p \in Players |-> IF p = p1 THEN Items \ {i1} ELSE {}]
=============================================================================
