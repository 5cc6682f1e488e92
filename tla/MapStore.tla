------------------------------ MODULE MapStore ------------------------------
(***************************************************************************)
(* What the map code promises its players: a world of maps that are always *)
(* there.  Each map has ordinary content and a set of unique items; leaving*)
(* a map, its being swapped to disk and read back, and a failed attempt to *)
(* do so change nothing.  Ordinary content goes back to the original only  *)
(* in a reset, which takes whole reset groups, never a map with a player on*)
(* it, and never a unique item.                                            *)
(***************************************************************************)
CONSTANTS Maps, PlayerMaps, Players, Items, Group, NoGroup, NoMap,
          Template,  \* Template[m]: unique items m starts with
          Carried    \* Carried[p]: unique items p starts with

VARIABLES reg,   \* reg[m]: "original" or "played"
          uniq,  \* uniq[m]: unique items on m
          loc,   \* loc[p]: where player p is
          inv    \* inv[p]: unique items p carries

worldVars == <<reg, uniq, loc, inv>>

\* Every map starts as its maker left it, and nobody is logged in.
WorldInit ==
    /\ reg = [m \in Maps |-> "original"]
    /\ uniq = Template
    /\ loc = [p \in Players |-> NoMap]
    /\ inv = Carried

Move(p, m) ==
    /\ loc' = [loc EXCEPT ![p] = m]
    /\ UNCHANGED <<reg, uniq, inv>>

TakeItem(p, i) ==
    /\ loc[p] # NoMap /\ i \in uniq[loc[p]]
    /\ uniq' = [uniq EXCEPT ![loc[p]] = @ \ {i}]
    /\ inv' = [inv EXCEPT ![p] = @ \cup {i}]
    /\ UNCHANGED <<reg, loc>>

DropItem(p, i) ==
    /\ loc[p] # NoMap /\ i \in inv[p]
    /\ uniq' = [uniq EXCEPT ![loc[p]] = @ \cup {i}]
    /\ inv' = [inv EXCEPT ![p] = @ \ {i}]
    /\ UNCHANGED <<reg, loc>>

Change(m) ==
    /\ reg' = [reg EXCEPT ![m] = "played"]
    /\ UNCHANGED <<uniq, loc, inv>>

Empty(S) == \A p \in Players : loc[p] \notin S

ClosedUnderGroups(S) ==
    \A m \in S, n \in Maps : Group[m] # NoGroup /\ Group[n] = Group[m] => n \in S

ResetMaps(S) ==
    /\ Empty(S)
    /\ ClosedUnderGroups(S)
    /\ reg' = [m \in Maps |-> IF m \in S THEN "original" ELSE reg[m]]
    /\ UNCHANGED <<uniq, loc, inv>>

\* An orderly restart: everybody leaves, per-player maps and unique items stay,
\* every other map starts again from its original.
Restart ==
    /\ reg' = [m \in Maps |-> IF m \in PlayerMaps THEN reg[m] ELSE "original"]
    /\ loc' = [p \in Players |-> NoMap]
    /\ UNCHANGED <<uniq, inv>>

WorldNext ==
    \/ \E p \in Players, m \in Maps \cup {NoMap} : Move(p, m)
    \/ \E p \in Players, i \in Items : TakeItem(p, i) \/ DropItem(p, i)
    \/ \E m \in Maps : Change(m)
    \/ \E S \in SUBSET (Maps \ PlayerMaps) : ResetMaps(S)
    \/ Restart

World == WorldInit /\ [][WorldNext]_worldVars
=============================================================================
