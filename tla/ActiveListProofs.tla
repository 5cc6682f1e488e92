-------------------------- MODULE ActiveListProofs --------------------------
(***************************************************************************)
(* The list of active objects is sound, for any number of objects, any     *)
(* speeds and any handlers.  The argument is about lists first: each       *)
(* operation keeps a list well linked and changes who is on it as it       *)
(* should.  Well linked includes a ranking along the links, for without it *)
(* a ring beside the list would satisfy every local condition, and moving  *)
(* the marker round a ring of two would tear it.                           *)
(***************************************************************************)
EXTENDS ActiveList, TLAPS

\* LinksAgree, of any list.
Linked(l) ==
    /\ l.head # Null => l.prev[l.head] = Null
    /\ \A n \in Nodes :
          /\ l.next[n] # Null => l.prev[l.next[n]] = n
          /\ l.prev[n] # Null => l.next[l.prev[n]] = n
          /\ Listed(l, n) /\ l.prev[n] = Null => l.head = n

\* The links lead on and on: some ranking of the nodes grows along them.
Ranks(l, rank) ==
    /\ rank \in [Nodes -> Int]
    /\ \A n \in Nodes : l.next[n] # Null => rank[n] < rank[l.next[n]]

Straight(l) == \E rank : Ranks(l, rank)

Sound(l) == l \in Lists /\ Linked(l) /\ Straight(l)

-----------------------------------------------------------------------------
(***************************************************************************)
(* What the operations do to a list, link by link.                         *)
(***************************************************************************)

\* What a list links is a node or nothing.
LEMMA LinkTypes ==
    /\ Marker \in Nodes /\ Null \in Links /\ Null \notin Nodes
    /\ \A o \in Nodes : o \in Links
    /\ \A o \in Links : o # Null => o \in Nodes
    /\ \A l \in Lists :
          l.head \in Links /\ \A o \in Nodes : l.next[o] \in Links /\ l.prev[o] \in Links
BY ActiveAssumption DEF Lists, Links, Nodes

\* Insert puts o in front.
LEMMA InsertLinks ==
    ASSUME NEW l \in Lists, NEW o \in Nodes
    PROVE  /\ Insert(l, o) \in Lists
           /\ Insert(l, o).head = o
           /\ \A n \in Nodes :
                 /\ Insert(l, o).next[n] = IF n = o THEN l.head ELSE l.next[n]
                 /\ Insert(l, o).prev[n] = IF n = l.head THEN o ELSE l.prev[n]
<1>0. o \in Links /\ o # Null /\ Null \in Links /\ l.head \in Links
  BY LinkTypes
<1> DEFINE a == SetNext(l, o, l.head)
           b == SetNext(a, Null, o)
<1>1. /\ a \in Lists /\ a.head = l.head
      /\ \A n \in Nodes :
            /\ a.prev[n] = l.prev[n]
            /\ a.next[n] = IF n = o THEN l.head ELSE l.next[n]
  BY ActiveAssumption, <1>0 DEF SetNext, Lists, Links, Nodes
<1>2. Insert(l, o) = SetPrev(b, l.head, o)
  BY DEF Insert
<1> HIDE DEF a
<1>3. b \in Lists /\ b.head = o /\ \A n \in Nodes :
            /\ b.prev[n] = l.prev[n]
            /\ b.next[n] = a.next[n]
  BY ActiveAssumption, <1>0, <1>1 DEF SetNext, Lists, Links, Nodes
<1> HIDE DEF b
<1> QED BY ActiveAssumption, <1>0, <1>1, <1>2, <1>3 DEF SetPrev, Lists, Links, Nodes

\* Unlink joins the neighbours of o.
LEMMA UnlinkLinks ==
    ASSUME NEW l \in Lists, NEW o \in Nodes
    PROVE  /\ Unlink(l, o) \in Lists
           /\ Unlink(l, o).head = IF l.prev[o] = Null THEN l.next[o] ELSE l.head
           /\ \A n \in Nodes :
                 /\ Unlink(l, o).next[n] =
                       IF n = o THEN Null
                       ELSE IF n = l.prev[o] THEN l.next[o] ELSE l.next[n]
                 /\ Unlink(l, o).prev[n] =
                       IF n = o THEN Null
                       ELSE IF n = l.next[o] THEN l.prev[o] ELSE l.prev[n]
<1>0. o \in Links /\ o # Null /\ Null \in Links /\ l.next[o] \in Links /\ l.prev[o] \in Links
  BY LinkTypes
<1> DEFINE a == SetPrev(l, l.next[o], l.prev[o])
           b == SetNext(a, l.prev[o], l.next[o])
           c == SetNext(b, o, Null)
<1>1. /\ a \in Lists /\ a.head = l.head
      /\ \A n \in Nodes :
            /\ a.next[n] = l.next[n]
            /\ a.prev[n] = IF n = l.next[o] THEN l.prev[o] ELSE l.prev[n]
  BY ActiveAssumption, <1>0 DEF SetPrev, Lists, Links, Nodes
<1>2. Unlink(l, o) = SetPrev(c, o, Null)
  BY DEF Unlink
<1> HIDE DEF a
<1>3. /\ b \in Lists
      /\ b.head = IF l.prev[o] = Null THEN l.next[o] ELSE l.head
      /\ \A n \in Nodes :
            /\ b.prev[n] = a.prev[n]
            /\ b.next[n] = IF n = l.prev[o] THEN l.next[o] ELSE l.next[n]
  BY ActiveAssumption, <1>0, <1>1 DEF SetNext, Lists, Links, Nodes
<1> HIDE DEF b
<1>4. /\ c \in Lists /\ c.head = b.head
      /\ \A n \in Nodes :
            /\ c.prev[n] = b.prev[n]
            /\ c.next[n] = IF n = o THEN Null ELSE b.next[n]
  BY ActiveAssumption, <1>0, <1>3 DEF SetNext, Lists, Links, Nodes
<1> HIDE DEF c
<1>5. /\ Unlink(l, o) \in Lists /\ Unlink(l, o).head = c.head
      /\ \A n \in Nodes :
            /\ Unlink(l, o).next[n] = c.next[n]
            /\ Unlink(l, o).prev[n] = IF n = o THEN Null ELSE c.prev[n]
  BY ActiveAssumption, <1>0, <1>2, <1>4 DEF SetPrev, Lists, Links, Nodes
<1> QED BY <1>0, <1>1, <1>3, <1>4, <1>5

\* InsertMarker is Insert, and clears the link of the marker to the front.
LEMMA InsertMarkerLinks ==
    ASSUME NEW l \in Lists, l.head # Marker
    PROVE  /\ InsertMarker(l) \in Lists
           /\ InsertMarker(l).head = Marker
           /\ \A n \in Nodes :
                 /\ InsertMarker(l).next[n] = IF n = Marker THEN l.head ELSE l.next[n]
                 /\ InsertMarker(l).prev[n] =
                       IF n = Marker THEN Null
                       ELSE IF n = l.head THEN Marker ELSE l.prev[n]
<1> DEFINE a == Insert(l, Marker)
<1>1. /\ a \in Lists /\ a.head = Marker
      /\ \A n \in Nodes :
            /\ a.next[n] = IF n = Marker THEN l.head ELSE l.next[n]
            /\ a.prev[n] = IF n = l.head THEN Marker ELSE l.prev[n]
  BY LinkTypes, InsertLinks
<1>2. InsertMarker(l) = SetPrev(a, Marker, Null)
  BY DEF InsertMarker
<1> HIDE DEF a
<1> QED BY ActiveAssumption, <1>1, <1>2 DEF SetPrev, Lists, Links, Nodes

\* RemoveMarker cuts the list in front of the marker.
LEMMA RemoveMarkerLinks ==
    ASSUME NEW l \in Lists
    PROVE  /\ RemoveMarker(l) \in Lists
           /\ RemoveMarker(l).head = IF l.prev[Marker] = Null THEN Null ELSE l.head
           /\ \A n \in Nodes :
                 /\ RemoveMarker(l).next[n] =
                       IF n = Marker \/ n = l.prev[Marker] THEN Null ELSE l.next[n]
                 /\ RemoveMarker(l).prev[n] = IF n = Marker THEN Null ELSE l.prev[n]
<1>0. Marker \in Links /\ Marker # Null /\ Null \in Links /\ l.prev[Marker] \in Links
  BY LinkTypes
<1> DEFINE a == SetNext(l, l.prev[Marker], Null)
           b == SetNext(a, Marker, Null)
<1>1. /\ a \in Lists
      /\ a.head = IF l.prev[Marker] = Null THEN Null ELSE l.head
      /\ \A n \in Nodes :
            /\ a.prev[n] = l.prev[n]
            /\ a.next[n] = IF n = l.prev[Marker] THEN Null ELSE l.next[n]
  BY ActiveAssumption, <1>0 DEF SetNext, Lists, Links, Nodes
<1>2. RemoveMarker(l) = SetPrev(b, Marker, Null)
  BY DEF RemoveMarker
<1> HIDE DEF a
<1>3. /\ b \in Lists /\ b.head = a.head
      /\ \A n \in Nodes :
            /\ b.prev[n] = l.prev[n]
            /\ b.next[n] = IF n = Marker THEN Null ELSE a.next[n]
  BY ActiveAssumption, <1>0, <1>1 DEF SetNext, Lists, Links, Nodes
<1> HIDE DEF b
<1> QED BY ActiveAssumption, <1>0, <1>1, <1>2, <1>3 DEF SetPrev, Lists, Links, Nodes

\* MoveMarker exchanges the marker and the node behind it.
LEMMA MoveMarkerLinks ==
    ASSUME NEW l \in Lists, NEW o \in Nodes, o # Marker,
           l.next[Marker] = o, l.next[o] \notin {o, Marker}, l.prev[Marker] \notin {o, Marker}
    PROVE  /\ MoveMarker(l) \in Lists
           /\ MoveMarker(l).head = IF l.prev[Marker] = Null THEN o ELSE l.head
           /\ \A n \in Nodes :
                 /\ MoveMarker(l).next[n] =
                       IF n = o THEN Marker
                       ELSE IF n = Marker THEN l.next[o]
                       ELSE IF n = l.prev[Marker] THEN o ELSE l.next[n]
                 /\ MoveMarker(l).prev[n] =
                       IF n = Marker THEN o
                       ELSE IF n = o THEN l.prev[Marker]
                       ELSE IF n = l.next[o] THEN Marker ELSE l.prev[n]
<1>0. /\ o \in Links /\ o # Null /\ Marker \in Links /\ Marker # Null /\ Null \in Links
      /\ l.prev[Marker] \in Links /\ l.next[o] \in Links
  BY LinkTypes
<1> DEFINE a == SetPrev(l, o, l.prev[Marker])
           b == SetNext(a, l.prev[Marker], o)
           c == SetNext(b, Marker, l.next[o])
           d == SetPrev(c, l.next[o], Marker)
           e == SetPrev(d, Marker, o)
<1>1. /\ a \in Lists /\ a.head = l.head
      /\ \A n \in Nodes :
            /\ a.next[n] = l.next[n]
            /\ a.prev[n] = IF n = o THEN l.prev[Marker] ELSE l.prev[n]
  BY ActiveAssumption, <1>0 DEF SetPrev, Lists, Links, Nodes
<1>2. MoveMarker(l) = SetNext(e, o, Marker)
  BY DEF MoveMarker
<1> HIDE DEF a
<1>3. /\ b \in Lists
      /\ b.head = IF l.prev[Marker] = Null THEN o ELSE l.head
      /\ \A n \in Nodes :
            /\ b.prev[n] = a.prev[n]
            /\ b.next[n] = IF n = l.prev[Marker] THEN o ELSE l.next[n]
  BY ActiveAssumption, <1>0, <1>1 DEF SetNext, Lists, Links, Nodes
<1> HIDE DEF b
<1>4. /\ c \in Lists /\ c.head = b.head
      /\ \A n \in Nodes :
            /\ c.prev[n] = b.prev[n]
            /\ c.next[n] = IF n = Marker THEN l.next[o] ELSE b.next[n]
  BY ActiveAssumption, <1>0, <1>3 DEF SetNext, Lists, Links, Nodes
<1> HIDE DEF c
<1>5. /\ d \in Lists /\ d.head = c.head
      /\ \A n \in Nodes :
            /\ d.next[n] = c.next[n]
            /\ d.prev[n] = IF n = l.next[o] THEN Marker ELSE c.prev[n]
  BY ActiveAssumption, <1>0, <1>4 DEF SetPrev, Lists, Links, Nodes
<1> HIDE DEF d
<1>6. /\ e \in Lists /\ e.head = d.head
      /\ \A n \in Nodes :
            /\ e.next[n] = d.next[n]
            /\ e.prev[n] = IF n = Marker THEN o ELSE d.prev[n]
  BY ActiveAssumption, <1>0, <1>5 DEF SetPrev, Lists, Links, Nodes
<1> HIDE DEF e
<1>7. /\ MoveMarker(l) \in Lists /\ MoveMarker(l).head = e.head
      /\ \A n \in Nodes :
            /\ MoveMarker(l).prev[n] = e.prev[n]
            /\ MoveMarker(l).next[n] = IF n = o THEN Marker ELSE e.next[n]
  BY ActiveAssumption, <1>0, <1>2, <1>6 DEF SetNext, Lists, Links, Nodes
<1> QED BY <1>0, <1>1, <1>3, <1>4, <1>5, <1>6, <1>7

-----------------------------------------------------------------------------
(***************************************************************************)
(* The operations keep a list sound, and say who is on it afterwards.      *)
(***************************************************************************)

\* A node is neither its own neighbour nor has one neighbour on both sides.
LEMMA NoRing ==
    ASSUME NEW l, Sound(l), NEW o \in Nodes
    PROVE  /\ l.next[o] # o /\ l.prev[o] # o
           /\ l.next[o] # Null => l.next[o] # l.prev[o]
<1>1. PICK rank : Ranks(l, rank)
  BY DEF Sound, Straight
<1>2. /\ \A n \in Nodes : rank[n] \in Int
      /\ \A n \in Nodes : l.next[n] # Null => l.next[n] \in Nodes /\ rank[n] < rank[l.next[n]]
      /\ \A n \in Nodes : l.prev[n] # Null => l.prev[n] \in Nodes /\ rank[l.prev[n]] < rank[n]
  BY <1>1, LinkTypes DEF Sound, Linked, Ranks
<1> QED BY <1>2, LinkTypes

\* A node that is not on the list is linked to nobody, and nobody to it.
LEMMA Alone ==
    ASSUME NEW l, Sound(l), NEW o \in Nodes, ~Listed(l, o)
    PROVE  /\ l.next[o] = Null /\ l.prev[o] = Null /\ l.head # o
           /\ \A n \in Nodes : l.next[n] # o /\ l.prev[n] # o
BY LinkTypes DEF Sound, Linked, Listed

\* Inserting a node that is not on the list.
LEMMA InsertSound ==
    ASSUME NEW l, Sound(l), NEW o \in Nodes, ~Listed(l, o)
    PROVE  /\ Sound(Insert(l, o))
           /\ \A n \in Nodes : Listed(Insert(l, o), n) <=> n = o \/ Listed(l, n)
<1> DEFINE m == Insert(l, o)
<1>1. /\ m \in Lists /\ m.head = o
      /\ \A n \in Nodes : /\ m.next[n] = IF n = o THEN l.head ELSE l.next[n]
                          /\ m.prev[n] = IF n = l.head THEN o ELSE l.prev[n]
  BY InsertLinks DEF Sound
<1> HIDE DEF m
<1>2. Linked(m)
  BY <1>1, Alone, LinkTypes DEF Linked, Listed, Sound
<1>3. \A n \in Nodes : Listed(m, n) <=> n = o \/ Listed(l, n)
  BY <1>1, Alone, LinkTypes DEF Linked, Listed, Sound
<1>4. Straight(m)
  <2>1. PICK rank : Ranks(l, rank)
    BY DEF Sound, Straight
  <2> DEFINE r == [rank EXCEPT ![o] = IF l.head = Null THEN 0 ELSE rank[l.head] - 1]
  <2>2. Ranks(m, r)
    BY <1>1, <2>1, Alone, LinkTypes DEF Ranks, Sound
  <2> QED BY <2>2 DEF Straight
<1> QED BY <1>1, <1>2, <1>3, <1>4 DEF Sound, m

\* Taking a node off the list.
LEMMA UnlinkSound ==
    ASSUME NEW l, Sound(l), NEW o \in Nodes, Listed(l, o)
    PROVE  /\ Sound(Unlink(l, o))
           /\ \A n \in Nodes : Listed(Unlink(l, o), n) <=> n # o /\ Listed(l, n)
<1> DEFINE m == Unlink(l, o)
<1>1. /\ m \in Lists /\ m.head = IF l.prev[o] = Null THEN l.next[o] ELSE l.head
      /\ \A n \in Nodes :
            /\ m.next[n] = IF n = o THEN Null
                           ELSE IF n = l.prev[o] THEN l.next[o] ELSE l.next[n]
            /\ m.prev[n] = IF n = o THEN Null
                           ELSE IF n = l.next[o] THEN l.prev[o] ELSE l.prev[n]
  BY UnlinkLinks DEF Sound
<1> HIDE DEF m
<1>2. Linked(m)
  BY <1>1, NoRing, LinkTypes DEF Linked, Listed, Sound
<1>3. \A n \in Nodes : Listed(m, n) <=> n # o /\ Listed(l, n)
  BY <1>1, NoRing, LinkTypes DEF Linked, Listed, Sound
<1>4. Straight(m)
  <2>1. PICK rank : Ranks(l, rank)
    BY DEF Sound, Straight
  <2>2. Ranks(m, rank)
    BY <1>1, <2>1, LinkTypes DEF Ranks, Sound, Linked
  <2> QED BY <2>2 DEF Straight
<1> QED BY <1>1, <1>2, <1>3, <1>4 DEF Sound, m

\* Putting the marker in front.
LEMMA InsertMarkerSound ==
    ASSUME NEW l, Sound(l), ~Listed(l, Marker)
    PROVE  /\ Sound(InsertMarker(l))
           /\ \A n \in Nodes : Listed(InsertMarker(l), n) <=> n = Marker \/ Listed(l, n)
<1> DEFINE m == InsertMarker(l)
<1>1. l \in Lists /\ Marker \in Nodes /\ l.head # Marker
  BY Alone, LinkTypes DEF Sound
<1>2. /\ m \in Lists /\ m.head = Marker
      /\ \A n \in Nodes : /\ m.next[n] = IF n = Marker THEN l.head ELSE l.next[n]
                          /\ m.prev[n] = IF n = Marker THEN Null
                                         ELSE IF n = l.head THEN Marker ELSE l.prev[n]
  BY <1>1, InsertMarkerLinks
<1> HIDE DEF m
<1>3. Linked(m)
  BY <1>1, <1>2, Alone, LinkTypes DEF Linked, Listed, Sound
<1>4. \A n \in Nodes : Listed(m, n) <=> n = Marker \/ Listed(l, n)
  BY <1>1, <1>2, Alone, LinkTypes DEF Linked, Listed, Sound
<1>5. Straight(m)
  <2>1. PICK rank : Ranks(l, rank)
    BY DEF Sound, Straight
  <2> DEFINE r == [rank EXCEPT ![Marker] = IF l.head = Null THEN 0 ELSE rank[l.head] - 1]
  <2>2. Ranks(m, r)
    BY <1>1, <1>2, <2>1, Alone, LinkTypes DEF Ranks, Sound
  <2> QED BY <2>2 DEF Straight
<1> QED BY <1>2, <1>3, <1>4, <1>5 DEF Sound, m

\* Taking the marker off, from the end.
LEMMA RemoveMarkerSound ==
    ASSUME NEW l, Sound(l), Listed(l, Marker), l.next[Marker] = Null
    PROVE  /\ Sound(RemoveMarker(l))
           /\ \A n \in Nodes : Listed(RemoveMarker(l), n) <=> n # Marker /\ Listed(l, n)
<1> DEFINE m == RemoveMarker(l)
<1>1. l \in Lists /\ Marker \in Nodes
  BY LinkTypes DEF Sound
<1>2. /\ m \in Lists /\ m.head = IF l.prev[Marker] = Null THEN Null ELSE l.head
      /\ \A n \in Nodes :
            /\ m.next[n] = IF n = Marker \/ n = l.prev[Marker] THEN Null ELSE l.next[n]
            /\ m.prev[n] = IF n = Marker THEN Null ELSE l.prev[n]
  BY <1>1, RemoveMarkerLinks
<1> HIDE DEF m
<1>3. Linked(m)
  BY <1>1, <1>2, NoRing, LinkTypes DEF Linked, Listed, Sound
<1>4. \A n \in Nodes : Listed(m, n) <=> n # Marker /\ Listed(l, n)
  BY <1>1, <1>2, NoRing, LinkTypes DEF Linked, Listed, Sound
<1>5. Straight(m)
  <2>1. PICK rank : Ranks(l, rank)
    BY DEF Sound, Straight
  <2>2. Ranks(m, rank)
    BY <1>1, <1>2, <2>1, LinkTypes DEF Ranks, Sound
  <2> QED BY <2>2 DEF Straight
<1> QED BY <1>2, <1>3, <1>4, <1>5 DEF Sound, m

\* Moving the marker one node on: nobody joins or leaves the list.
LEMMA MoveMarkerSound ==
    ASSUME NEW l, Sound(l), l.next[Marker] # Null
    PROVE  /\ Sound(MoveMarker(l))
           /\ \A n \in Nodes : Listed(MoveMarker(l), n) <=> Listed(l, n)
<1> DEFINE m == MoveMarker(l)
           o == l.next[Marker]
<1>1. /\ l \in Lists /\ Marker \in Nodes /\ o \in Nodes /\ o # Marker
      /\ l.next[o] \notin {o, Marker} /\ l.prev[Marker] \notin {o, Marker}
      /\ l.prev[o] = Marker
  <2>1. l \in Lists /\ Marker \in Nodes /\ o \in Nodes /\ l.prev[o] = Marker
    BY LinkTypes DEF Sound, Linked
  <2>2. /\ o # Marker /\ l.prev[Marker] # Marker /\ l.prev[Marker] # o
        /\ l.next[o] # o /\ l.next[o] # Marker
    BY <2>1, NoRing, LinkTypes
  <2> QED BY <2>1, <2>2
<1>2. /\ m \in Lists /\ m.head = IF l.prev[Marker] = Null THEN o ELSE l.head
      /\ \A n \in Nodes :
            /\ m.next[n] = IF n = o THEN Marker
                           ELSE IF n = Marker THEN l.next[o]
                           ELSE IF n = l.prev[Marker] THEN o ELSE l.next[n]
            /\ m.prev[n] = IF n = Marker THEN o
                           ELSE IF n = o THEN l.prev[Marker]
                           ELSE IF n = l.next[o] THEN Marker ELSE l.prev[n]
  BY <1>1, MoveMarkerLinks
<1> HIDE DEF m
<1>3. Linked(m)
  BY <1>1, <1>2, LinkTypes DEF Linked, Listed, Sound
<1>4. \A n \in Nodes : Listed(m, n) <=> Listed(l, n)
  BY <1>1, <1>2, LinkTypes DEF Linked, Listed, Sound
<1>5. Straight(m)
  <2>1. PICK rank : Ranks(l, rank)
    BY DEF Sound, Straight
  <2> DEFINE r == [rank EXCEPT ![Marker] = rank[o], ![o] = rank[Marker]]
  <2>2. Ranks(m, r)
    BY <1>1, <1>2, <2>1, LinkTypes DEF Ranks, Sound, Linked
  <2> QED BY <2>2 DEF Straight
<1> QED BY <1>2, <1>3, <1>4, <1>5 DEF Sound, m

\* What the speed decides: object_update_speed.
LEMMA UpdateSpeedSound ==
    ASSUME NEW l, Sound(l), NEW o \in Nodes, NEW s
    PROVE  /\ Sound(object_update_speed(l, o, s))
           /\ \A n \in Nodes :
                 Listed(object_update_speed(l, o, s), n) <=>
                     IF n = o THEN Fast(s) ELSE Listed(l, n)
<1>1. CASE Fast(s) /\ Listed(l, o)
  BY <1>1 DEF object_update_speed
<1>2. CASE Fast(s) /\ ~Listed(l, o)
  BY <1>2, InsertSound DEF object_update_speed
<1>3. CASE ~Fast(s)
  BY <1>3, UnlinkSound DEF object_update_speed, object_remove_from_active_list
<1> QED BY <1>1, <1>2, <1>3

-----------------------------------------------------------------------------
(***************************************************************************)
(* The inductive invariant: the list is sound, and the right nodes are on  *)
(* it.                                                                     *)
(***************************************************************************)
Inv == TypeOK /\ LinksAgree /\ OnlyLiveNodesListed /\ Straight(list)

\* The parts of TypeOK that are not about the list.
RestOK ==
    /\ used \subseteq Objects
    /\ speed \in [Objects -> Speeds]
    /\ speed_left \in [Objects -> -Unit..MaxSpeed]
    /\ place \in [Objects -> Places]
    /\ op \in Objects \cup {Null}
    /\ walking \in BOOLEAN

LEMMA InvParts == Inv <=> RestOK /\ Sound(list) /\ OnlyLiveNodesListed
BY DEF Inv, TypeOK, RestOK, Sound, LinksAgree, Linked

\* The list is empty at the start.
LEMMA InitInv == Init => Inv
<1> SUFFICES ASSUME Init PROVE Inv
  OBVIOUS
<1>1. RestOK
  <2>1. 0 \in Speeds /\ 0 \in -Unit..MaxSpeed /\ "nowhere" \in Places
    BY ActiveAssumption DEF Speeds, Places
  <2> QED BY <2>1 DEF Init, RestOK
<1>2. list \in Lists
  BY DEF Init, Lists, Links
<1>3. list.head = Null /\ \A n \in Nodes : list.next[n] = Null /\ list.prev[n] = Null
  BY DEF Init
<1>4. Linked(list) /\ \A n \in Nodes : ~Listed(list, n)
  BY <1>3, LinkTypes DEF Linked, Listed
<1>5. Straight(list)
  <2> DEFINE r == [n \in Nodes |-> 0]
  <2>1. Ranks(list, r)
    BY <1>3 DEF Ranks
  <2> QED BY <2>1 DEF Straight
<1>6. OnlyLiveNodesListed
  BY <1>4, LinkTypes DEF OnlyLiveNodesListed, Init, Nodes
<1> QED BY <1>1, <1>2, <1>4, <1>5, <1>6, InvParts DEF Sound

\* Whatever object_update_speed is called for, an object that is in use stays
\* rightly listed.
LEMMA UpdateSpeedLive ==
    ASSUME OnlyLiveNodesListed, NEW l, Sound(l), \A n \in Nodes : Listed(l, n) <=> Listed(list, n),
           NEW o \in Objects, NEW s, list' = object_update_speed(l, o, s),
           used' \subseteq Objects, \A x \in used : x = o \/ x \in used',
           Fast(s) => o \in used', walking' = walking
    PROVE  Sound(list') /\ OnlyLiveNodesListed'
<1>1. o \in Nodes /\ o # Marker
  BY ActiveAssumption DEF Nodes
<1>2. /\ Sound(list')
      /\ \A n \in Nodes : Listed(list', n) <=> IF n = o THEN Fast(s) ELSE Listed(list, n)
  BY <1>1, UpdateSpeedSound
<1> QED BY <1>1, <1>2, LinkTypes DEF OnlyLiveNodesListed, Nodes

\* Every step keeps the invariant.
LEMMA NextInv == Inv /\ [Next]_vars => Inv'
<1> SUFFICES ASSUME Inv, [Next]_vars PROVE RestOK' /\ Sound(list') /\ OnlyLiveNodesListed'
  BY InvParts DEF Inv, TypeOK, RestOK, Sound, LinksAgree, Linked, OnlyLiveNodesListed, Straight, Ranks, Listed
<1> USE ActiveAssumption
<1>0. RestOK /\ Sound(list) /\ OnlyLiveNodesListed
  BY InvParts
<1>1. ASSUME NEW o \in Objects, object_new(o)
      PROVE  RestOK' /\ Sound(list') /\ OnlyLiveNodesListed'
  <2>1. RestOK'
    BY <1>0, <1>1 DEF object_new, RestOK, Speeds, Places
  <2>2. o \in Nodes /\ ~Listed(list, o)
    BY <1>0, <1>1 DEF OnlyLiveNodesListed, object_new, Nodes
  <2>3. list.next[o] = Null /\ list.prev[o] = Null
    BY <1>0, <2>2, Alone
  <2>4. list' = list
    BY <1>0, <1>1, <2>2, <2>3 DEF object_new, Sound, Lists
  <2> QED BY <1>0, <1>1, <2>1, <2>4 DEF OnlyLiveNodesListed, object_new
<1>2. ASSUME NEW o \in Objects, NEW s \in Speeds, SetSpeed(o, s)
      PROVE  RestOK' /\ Sound(list') /\ OnlyLiveNodesListed'
  <2>1. RestOK'
    BY <1>0, <1>2 DEF SetSpeed, RestOK
  <2> QED BY <1>0, <1>2, <2>1, UpdateSpeedLive DEF SetSpeed, RestOK
<1>3. ASSUME NEW o \in Objects, NEW s \in Speeds, object_copy_no_speed(o, s)
      PROVE  RestOK' /\ Sound(list') /\ OnlyLiveNodesListed'
  BY <1>0, <1>3 DEF object_copy_no_speed, RestOK, OnlyLiveNodesListed
<1>4. ASSUME NEW o \in Objects, NEW q \in Places, Move(o, q)
      PROVE  RestOK' /\ Sound(list') /\ OnlyLiveNodesListed'
  BY <1>0, <1>4 DEF Move, RestOK, OnlyLiveNodesListed
<1>5. ASSUME NEW o \in Objects, Delay(o)
      PROVE  RestOK' /\ Sound(list') /\ OnlyLiveNodesListed'
  BY <1>0, <1>5 DEF Delay, RestOK, OnlyLiveNodesListed
<1>6. ASSUME NEW o \in Objects, object_free(o)
      PROVE  RestOK' /\ Sound(list') /\ OnlyLiveNodesListed'
  <2>1. RestOK'
    BY <1>0, <1>6 DEF object_free, Freed, RestOK, Speeds, Places
  <2>2. ~Fast(0)
    BY DEF Fast
  <2> QED BY <1>0, <1>6, <2>1, <2>2, UpdateSpeedLive DEF object_free, Freed, RestOK
<1>7. ASSUME NEW o \in Objects, LoadStyleObject(o)
      PROVE  RestOK' /\ Sound(list') /\ OnlyLiveNodesListed'
  <2>1. RestOK'
    BY <1>0, <1>7 DEF LoadStyleObject, RestOK, objVars
  <2>2. o \in Nodes /\ o # Marker /\ Listed(list, o)
    BY <1>7 DEF LoadStyleObject, Nodes
  <2>3. /\ Sound(list')
        /\ \A n \in Nodes : Listed(list', n) <=> n # o /\ Listed(list, n)
    BY <1>0, <1>7, <2>2, UnlinkSound DEF LoadStyleObject, object_remove_from_active_list
  <2> QED BY <1>0, <1>7, <2>1, <2>2, <2>3, LinkTypes DEF LoadStyleObject, OnlyLiveNodesListed, Nodes, objVars
<1>8. ASSUME NEW o \in Objects, Visit(o)
      PROVE  RestOK' /\ Sound(list') /\ OnlyLiveNodesListed'
  <2> DEFINE l == MoveMarker(list)
  <2>1. list.next[Marker] # Null
    BY <1>8 DEF Visit
  <2>2. Sound(l) /\ \A n \in Nodes : Listed(l, n) <=> Listed(list, n)
    BY <1>0, <2>1, MoveMarkerSound
  <2>3. ~Fast(0)
    BY DEF Fast
  <2>4. CASE /\ Freed(o) /\ list' = object_update_speed(l, o, 0)
             /\ UNCHANGED <<op, walking>>
    <3>1. RestOK'
      BY <1>0, <2>4 DEF Freed, RestOK, Speeds, Places
    <3> HIDE DEF l
    <3> QED BY <1>0, <2>2, <2>3, <2>4, <3>1, UpdateSpeedLive DEF Freed, RestOK
  <2>5. CASE /\ speed' = [speed EXCEPT ![o] = 0]
             /\ list' = object_update_speed(l, o, 0)
             /\ UNCHANGED <<used, speed_left, place, op, walking>>
    <3>1. RestOK'
      BY <1>0, <2>5 DEF RestOK, Speeds
    <3> HIDE DEF l
    <3> QED BY <1>0, <2>2, <2>3, <2>5, <3>1, UpdateSpeedLive DEF RestOK
  <2>6. CASE /\ speed_left' = [speed_left EXCEPT ![o] = SpeedLeftAfter(o)]
             /\ op' = IF speed_left[o] > 0 THEN o ELSE Null
             /\ list' = l
             /\ UNCHANGED <<used, speed, place, walking>>
    <3>1. speed_left[o] \in -Unit..MaxSpeed /\ speed[o] \in 0..MaxSpeed
      BY <1>0 DEF RestOK, Speeds
    <3>2. SpeedLeftAfter(o) \in -Unit..MaxSpeed
      BY <3>1 DEF SpeedLeftAfter
    <3>3. RestOK'
      BY <1>0, <2>6, <3>2 DEF RestOK
    <3> HIDE DEF l
    <3> QED BY <1>0, <2>2, <2>6, <3>3, LinkTypes DEF OnlyLiveNodesListed, Nodes
  <2> QED BY <1>8, <2>4, <2>5, <2>6 DEF Visit
<1>9. CASE StartPass
  <2>1. RestOK'
    BY <1>0, <1>9 DEF StartPass, RestOK, objVars
  <2>2. ~Listed(list, Marker)
    BY <1>0, <1>9 DEF StartPass, OnlyLiveNodesListed
  <2>3. /\ Sound(list')
        /\ \A n \in Nodes : Listed(list', n) <=> n = Marker \/ Listed(list, n)
    BY <1>0, <1>9, <2>2, InsertMarkerSound DEF StartPass
  <2> QED BY <1>0, <1>9, <2>1, <2>3, LinkTypes DEF StartPass, OnlyLiveNodesListed, Nodes, objVars
<1>10. CASE Return
  BY <1>0, <1>10 DEF Return, RestOK, OnlyLiveNodesListed, objVars
<1>11. CASE EndPass
  <2>1. RestOK'
    BY <1>0, <1>11 DEF EndPass, RestOK, objVars
  <2>2. Listed(list, Marker) /\ list.next[Marker] = Null
    BY <1>0, <1>11 DEF EndPass, OnlyLiveNodesListed
  <2>3. /\ Sound(list')
        /\ \A n \in Nodes : Listed(list', n) <=> n # Marker /\ Listed(list, n)
    BY <1>0, <1>11, <2>2, RemoveMarkerSound DEF EndPass
  <2> QED BY <1>0, <1>11, <2>1, <2>3, LinkTypes DEF EndPass, OnlyLiveNodesListed, Nodes, objVars
<1>12. CASE UNCHANGED vars
  BY <1>0, <1>12 DEF vars, objVars, RestOK, OnlyLiveNodesListed
<1> QED BY <1>1, <1>2, <1>3, <1>4, <1>5, <1>6, <1>7, <1>8, <1>9, <1>10, <1>11, <1>12 DEF Next

LEMMA AlwaysInv == Spec => []Inv
BY InitInv, NextInv, PTL DEF Spec

-----------------------------------------------------------------------------
\* Every variable keeps its type, and no object ever has more to spend than the
\* largest speed, or owes more than one turn.
THEOREM TypeCorrect == Spec => []TypeOK
BY AlwaysInv, PTL DEF Inv

\* Links and back links agree, whatever handlers do to the list: the test of
\* object_update_speed never takes a node that is on the list for one that is
\* not, nor links one twice.
THEOREM LinksAlwaysAgree == Spec => []LinksAgree
BY AlwaysInv, PTL DEF Inv

\* No freed object is ever on the list, and the marker is on it just while
\* process_events runs.
THEOREM FreedObjectsUnlisted == Spec => []OnlyLiveNodesListed
BY AlwaysInv, PTL DEF Inv
=============================================================================
