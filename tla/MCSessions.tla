----------------------------- MODULE MCSessions -----------------------------
(* Instances of Sessions for TLC. *)
EXTENDS Sessions, TLC

CONSTANTS p1, p2, p3, c1, c2, a1, a2, g1, m1

NoParties  == <<>>
OneParty   == (g1 :> m1)
NoAccounts == <<>>
NoneLinked == [a \in Accounts |-> {}]
Symmetry   ==
    Permutations(Players) \cup Permutations(Chars) \cup Permutations(Accounts)
=============================================================================
