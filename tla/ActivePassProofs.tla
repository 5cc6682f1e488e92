--------------------------- MODULE ActivePassProofs ---------------------------
(***************************************************************************)
(* A pass of process_events is a pass of ActiveSet, for any number of      *)
(* objects and any handlers: each object that is active when the pass      *)
(* begins is visited once, unless it is taken off the list before its turn,*)
(* and nobody else is.  The sets of ActiveSet are found by following the   *)
(* links, from the head and from the marker; so the argument is about what *)
(* the operations do to the nodes that can be reached from a node, and the *)
(* invariant says that whoever is linked can be reached from the head.     *)
(***************************************************************************)
EXTENDS ActiveListProofs

\* S is closed under the links of l.
Closed(l, S) == \A k \in S : l.next[k] \in S \cup {Null}

\* S holds the node at the end of a link, if there is one.
Holds(S, n) == n = Null \/ n \in S

-----------------------------------------------------------------------------
(***************************************************************************)
(* From(l, n) is the least set that holds n and is closed.                 *)
(***************************************************************************)

LEMMA FromLeast ==
    ASSUME NEW l, NEW n, NEW S \in SUBSET Nodes, Holds(S, n), Closed(l, S)
    PROVE  From(l, n) \subseteq S
BY DEF From, Holds, Closed

LEMMA FromClosed ==
    ASSUME NEW l \in Lists, NEW n \in Links
    PROVE  /\ From(l, n) \in SUBSET Nodes
           /\ Holds(From(l, n), n)
           /\ Closed(l, From(l, n))
<1>1. From(l, n) \in SUBSET Nodes
  BY DEF From
<1>2. Holds(From(l, n), n)
  BY LinkTypes DEF From, Holds
<1>3. ASSUME NEW k \in From(l, n), l.next[k] # Null
      PROVE  l.next[k] \in From(l, n)
  <2>1. k \in Nodes /\ l.next[k] \in Nodes
    BY <1>1, <1>3, LinkTypes
  <2>2. ASSUME NEW S \in SUBSET Nodes, n = Null \/ n \in S,
               \A j \in S : l.next[j] \in S \cup {Null}
        PROVE  l.next[k] \in S
    <3>1. k \in S
      BY <2>2 DEF From
    <3> QED BY <1>3, <2>2, <3>1
  <2> QED BY <2>1, <2>2 DEF From
<1> QED BY <1>1, <1>2, <1>3 DEF Closed

\* Nothing can be reached from the null pointer.
LEMMA FromNull == ASSUME NEW l PROVE From(l, Null) = {}
<1>1. Holds({}, Null) /\ Closed(l, {})
  BY DEF Holds, Closed
<1> QED BY <1>1, FromLeast

\* From a node one reaches the node and what its link leads to.
LEMMA FromStep ==
    ASSUME NEW l \in Lists, NEW n \in Nodes
    PROVE  From(l, n) = {n} \cup From(l, l.next[n])
<1> DEFINE F == From(l, n)
           G == From(l, l.next[n])
<1>1. /\ n \in Links /\ l.next[n] \in Links /\ n # Null
  BY LinkTypes
<1>2. F \in SUBSET Nodes /\ n \in F /\ Closed(l, F)
  BY <1>1, FromClosed DEF Holds
<1>3. G \in SUBSET Nodes /\ Holds(G, l.next[n]) /\ Closed(l, G)
  BY <1>1, FromClosed
<1>4. G \subseteq F
  <2> HIDE DEF F
  <2>1. Holds(F, l.next[n])
    BY <1>2 DEF Closed, Holds
  <2> QED BY <1>2, <2>1, FromLeast
<1>5. F \subseteq {n} \cup G
  <2> HIDE DEF G
  <2>1. {n} \cup G \in SUBSET Nodes /\ Holds({n} \cup G, n) /\ Closed(l, {n} \cup G)
    BY <1>3 DEF Closed, Holds
  <2> QED BY <2>1, FromLeast
<1> QED BY <1>2, <1>4, <1>5

\* The links of a sound list never lead back.
LEMMA NoReturn ==
    ASSUME NEW l, Sound(l), NEW n \in Nodes
    PROVE  n \notin From(l, l.next[n])
<1>1. PICK rank : Ranks(l, rank)
  BY DEF Sound, Straight
<1> DEFINE S == {k \in Nodes : rank[n] < rank[k]}
<1>2. /\ \A k \in Nodes : rank[k] \in Int
      /\ \A k \in Nodes : l.next[k] # Null => l.next[k] \in Nodes /\ rank[k] < rank[l.next[k]]
  BY <1>1, LinkTypes DEF Sound, Ranks
<1>3. Holds(S, l.next[n])
  BY <1>2 DEF Holds
<1>4. Closed(l, S)
  BY <1>2 DEF Closed
<1>5. S \in SUBSET Nodes /\ n \notin S
  BY <1>2
<1> HIDE DEF S
<1> QED BY <1>3, <1>4, <1>5, FromLeast

-----------------------------------------------------------------------------
(***************************************************************************)
(* What the operations do to what can be reached.                          *)
(***************************************************************************)

\* A node o that is linked to nobody is put in front: from elsewhere nothing changes.
LEMMA FromInserted ==
    ASSUME NEW l, Sound(l), NEW o \in Nodes, ~Listed(l, o), NEW m \in Lists,
           \A n \in Nodes : m.next[n] = IF n = o THEN l.head ELSE l.next[n],
           NEW s \in Links, s # o
    PROVE  From(m, s) = From(l, s) /\ o \notin From(l, s)
<1> DEFINE F == From(l, s)
           G == From(m, s)
<1>1. l \in Lists /\ l.next[o] = Null /\ \A n \in Nodes : l.next[n] # o
  BY Alone DEF Sound
<1>2. F \in SUBSET Nodes /\ Holds(F, s) /\ Closed(l, F)
  BY <1>1, FromClosed
<1>3. G \in SUBSET Nodes /\ Holds(G, s) /\ Closed(m, G)
  BY FromClosed
<1>4. o \notin F
  <2> DEFINE S == Nodes \ {o}
  <2>1. S \in SUBSET Nodes /\ Holds(S, s) /\ Closed(l, S)
    BY <1>1, LinkTypes DEF Holds, Closed
  <2> HIDE DEF S
  <2>2. F \subseteq S
    BY <2>1, FromLeast
  <2> QED BY <2>2 DEF S
<1>5. G \subseteq F
  <2> HIDE DEF F
  <2>1. Closed(m, F)
    BY <1>2, <1>4 DEF Closed
  <2> QED BY <1>2, <2>1, FromLeast
<1>6. F \subseteq G
  <2> HIDE DEF G
  <2>1. Closed(l, G)
    BY <1>1, <1>3 DEF Closed
  <2> QED BY <1>3, <2>1, FromLeast
<1> QED BY <1>4, <1>5, <1>6

\* A node o is cut out: it cannot be reached any more, and nothing else changes.  A
\* start s that is o itself becomes the node behind o.
LEMMA FromCut ==
    ASSUME NEW l, Sound(l), NEW o \in Nodes, NEW m \in Lists,
           \A n \in Nodes : m.next[n] = IF n = o THEN Null
                                        ELSE IF n = l.prev[o] THEN l.next[o] ELSE l.next[n],
           NEW s \in Links, NEW t, t = IF s = o THEN l.next[o] ELSE s
    PROVE  From(m, t) = From(l, s) \ {o}
<1> DEFINE p == l.prev[o]
           F == From(l, s)
           G == From(m, t)
           S == (G \ {o}) \cup (IF p \in G \/ s = o THEN {o} ELSE {})
<1>0. l \in Lists /\ l.next[o] \in Links /\ t \in Links
  BY LinkTypes DEF Sound
<1>1. /\ \A n \in Nodes : l.next[n] = o => n = p
      /\ p # Null => p \in Nodes /\ l.next[p] = o
      /\ p # o /\ l.next[o] # o
  BY NoRing, LinkTypes DEF Sound, Linked
<1>2. F \in SUBSET Nodes /\ Holds(F, s) /\ Closed(l, F)
  BY <1>0, FromClosed
<1>3. G \in SUBSET Nodes /\ Holds(G, t) /\ Closed(m, G)
  BY <1>0, FromClosed
<1> HIDE DEF F, G, p
<1>4. G \subseteq F \ {o}
  <2>1. Holds(F \ {o}, t)
    <3>1. CASE s = o
      <4>1. o \in F /\ t = l.next[o]
        BY <1>2, <3>1, LinkTypes DEF Holds
      <4>2. l.next[o] \in F \cup {Null}
        BY <1>2, <4>1 DEF Closed
      <4> QED BY <1>1, <4>1, <4>2 DEF Holds
    <3>2. CASE s # o
      BY <1>2, <3>2 DEF Holds
    <3> QED BY <3>1, <3>2
  <2>2. ASSUME NEW k \in F \ {o} PROVE m.next[k] \in (F \ {o}) \cup {Null}
    <3>1. k \in Nodes /\ k # o /\ l.next[k] \in F \cup {Null}
      BY <1>2 DEF Closed
    <3>2. CASE k = p
      <4>1. o \in F
        BY <1>1, <3>1, <3>2, LinkTypes
      <4>2. m.next[k] = l.next[o] /\ l.next[o] \in F \cup {Null}
        BY <1>2, <3>1, <3>2, <4>1 DEF Closed, p
      <4> QED BY <1>1, <4>2
    <3>3. CASE k # p
      BY <1>1, <3>1, <3>3 DEF p
    <3> QED BY <3>2, <3>3
  <2>3. Closed(m, F \ {o})
    BY <2>2 DEF Closed
  <2> QED BY <1>2, <2>1, <2>3, FromLeast DEF G
<1>5. F \subseteq S
  <2>1. S \in SUBSET Nodes
    BY <1>3
  <2>2. Holds(S, s)
    BY <1>3 DEF Holds
  <2>3. ASSUME NEW k \in S PROVE l.next[k] \in S \cup {Null}
    <3>1. CASE k # o
      <4>1. k \in G /\ k \in Nodes
        BY <1>3, <3>1
      <4>2. CASE l.next[k] = o
        BY <1>1, <4>1, <4>2
      <4>3. CASE l.next[k] # o
        <5>1. k # p
          BY <1>1, <3>1, <4>1, <4>3, LinkTypes
        <5>2. m.next[k] = l.next[k]
          BY <3>1, <4>1, <5>1 DEF p
        <5>3. m.next[k] \in G \cup {Null}
          BY <1>3, <4>1 DEF Closed
        <5> QED BY <4>3, <5>2, <5>3
      <4> QED BY <4>2, <4>3
    <3>2. CASE k = o /\ p \in G
      <4>1. m.next[p] = l.next[o] /\ m.next[p] \in G \cup {Null}
        BY <1>1, <1>3, <3>2 DEF Closed, p
      <4> QED BY <1>1, <3>2, <4>1
    <3>3. CASE k = o /\ s = o
      BY <1>1, <1>3, <3>3 DEF Holds
    <3> QED BY <3>1, <3>2, <3>3
  <2>4. Closed(l, S)
    BY <2>3 DEF Closed
  <2> HIDE DEF S
  <2> QED BY <2>1, <2>2, <2>4, FromLeast DEF F
<1>6. S \ {o} \subseteq G
  OBVIOUS
<1> HIDE DEF S
<1> QED BY <1>4, <1>5, <1>6 DEF F, G

\* The marker changes places with the node o behind it: the same nodes are reached.
LEMMA FromMoved ==
    ASSUME NEW l, Sound(l), NEW o \in Nodes, l.next[Marker] = o, NEW m \in Lists,
           \A n \in Nodes : m.next[n] = IF n = o THEN Marker
                                        ELSE IF n = Marker THEN l.next[o]
                                        ELSE IF n = l.prev[Marker] THEN o ELSE l.next[n],
           NEW s \in Links, s # o, NEW t, t = IF s = Marker THEN o ELSE s
    PROVE  From(m, t) = From(l, s)
<1> DEFINE p == l.prev[Marker]
           F == From(l, s)
           G == From(m, t)
           S == (G \ {o, Marker}) \cup (IF p \in G \/ s = Marker THEN {o, Marker} ELSE {})
<1>0. l \in Lists /\ t \in Links /\ Marker \in Nodes
  BY LinkTypes DEF Sound
<1>1. /\ \A n \in Nodes : l.next[n] = o => n = Marker
      /\ \A n \in Nodes : l.next[n] = Marker => n = p
      /\ p # Null => p \in Nodes /\ l.next[p] = Marker
  BY <1>0, LinkTypes DEF Sound, Linked
<1>a. /\ p # Marker /\ p # o /\ o # Marker /\ l.next[o] # o
      /\ l.next[o] # Marker
  <2>1. p # Marker /\ o # Marker /\ l.next[o] # o /\ p # o
    BY <1>0, NoRing, LinkTypes
  <2>2. l.next[o] # Marker
    BY <1>1, <2>1
  <2> QED BY <2>1, <2>2
<1>2. F \in SUBSET Nodes /\ Holds(F, s) /\ Closed(l, F)
  BY <1>0, FromClosed
<1>3. G \in SUBSET Nodes /\ Holds(G, t) /\ Closed(m, G)
  BY <1>0, FromClosed
<1> HIDE DEF F, G, p
<1>4. o \in F => Marker \in F
  <2> SUFFICES ASSUME Marker \notin F PROVE o \notin F
    OBVIOUS
  <2>1. Holds(F \ {o}, s) /\ Closed(l, F \ {o})
    BY <1>1, <1>2 DEF Holds, Closed
  <2>2. F \subseteq F \ {o}
    BY <1>2, <2>1, FromLeast DEF F
  <2> QED BY <2>2
<1>5. G \subseteq F
  <2>1. Marker \in F => o \in F
    BY <1>0, <1>2, LinkTypes DEF Closed
  <2>2. Holds(F, t)
    BY <1>2, <2>1, LinkTypes DEF Holds
  <2>3. ASSUME NEW k \in F PROVE m.next[k] \in F \cup {Null}
    <3>1. k \in Nodes /\ l.next[k] \in F \cup {Null}
      BY <1>2 DEF Closed
    <3>2. CASE k = o
      BY <1>4, <3>1, <3>2
    <3>3. CASE k = Marker
      <4>1. m.next[k] = l.next[o] /\ o \in F
        BY <1>0, <1>a, <2>1, <3>1, <3>3
      <4> QED BY <1>2, <4>1 DEF Closed
    <3>4. CASE k = p
      <4>1. m.next[k] = o /\ l.next[k] = Marker
        BY <1>1, <1>a, <3>1, <3>4, LinkTypes DEF p
      <4> QED BY <1>0, <2>1, <3>1, <4>1, LinkTypes
    <3>5. CASE k \notin {o, Marker, p}
      BY <3>1, <3>5 DEF p
    <3> QED BY <3>2, <3>3, <3>4, <3>5
  <2>4. Closed(m, F)
    BY <2>3 DEF Closed
  <2> QED BY <1>2, <2>2, <2>4, FromLeast DEF G
<1>6. S \subseteq G
  <2>1. p \in G => o \in G
    BY <1>1, <1>3, <1>a, LinkTypes DEF Closed, p
  <2>2. s = Marker => o \in G
    BY <1>3, LinkTypes DEF Holds
  <2>3. o \in G => Marker \in G
    BY <1>0, <1>3, LinkTypes DEF Closed
  <2> QED BY <2>1, <2>2, <2>3
<1>7. F \subseteq S
  <2>1. S \in SUBSET Nodes
    BY <1>0, <1>3
  <2>2. Holds(S, s)
    BY <1>3 DEF Holds
  <2>3. ASSUME NEW k \in S PROVE l.next[k] \in S \cup {Null}
    <3>1. CASE k \notin {o, Marker}
      <4>1. k \in G /\ k \in Nodes
        BY <1>3, <3>1
      <4>2. CASE l.next[k] = Marker
        BY <1>1, <4>1, <4>2
      <4>3. CASE l.next[k] # Marker
        <5>1. k # p /\ l.next[k] # o
          BY <1>1, <3>1, <4>1, <4>3, LinkTypes
        <5>2. m.next[k] = l.next[k]
          BY <3>1, <4>1, <5>1 DEF p
        <5>3. m.next[k] \in G \cup {Null}
          BY <1>3, <4>1 DEF Closed
        <5> QED BY <4>3, <5>1, <5>2, <5>3
      <4> QED BY <4>2, <4>3
    <3>2. CASE k = Marker
      BY <3>2
    <3>3. CASE k = o
      <4>1. Marker \in S
        BY <1>a, <3>3
      <4>2. m.next[Marker] = l.next[o]
        BY <1>0, <1>a
      <4>3. m.next[Marker] \in G \cup {Null}
        BY <1>3, <1>6, <4>1 DEF Closed
      <4> QED BY <1>a, <3>3, <4>2, <4>3
    <3> QED BY <3>1, <3>2, <3>3
  <2>4. Closed(l, S)
    BY <2>3 DEF Closed
  <2> HIDE DEF S
  <2> QED BY <2>1, <2>2, <2>4, FromLeast DEF F
<1> HIDE DEF S
<1> QED BY <1>5, <1>6, <1>7 DEF F, G

-----------------------------------------------------------------------------
(***************************************************************************)
(* The invariant that finds the sets of ActiveSet: who is listed can be    *)
(* reached from the head.                                                  *)
(***************************************************************************)
Chain(l) == \A n \in Nodes : n \in From(l, l.head) <=> Listed(l, n)

\* Insert and InsertMarker, of a node that is not on the list.
LEMMA InsertedChain ==
    ASSUME NEW l, Sound(l), Chain(l), NEW o \in Nodes, ~Listed(l, o),
           NEW m \in Lists, m.head = o,
           \A n \in Nodes : m.next[n] = IF n = o THEN l.head ELSE l.next[n],
           \A n \in Nodes : Listed(m, n) <=> n = o \/ Listed(l, n)
    PROVE  /\ Chain(m)
           /\ o # Marker => From(m, m.next[Marker]) = From(l, l.next[Marker])
<1>1. /\ l.head \in Links /\ l.head # o
      /\ l.next[Marker] \in Links /\ l.next[Marker] # o
      /\ Marker \in Nodes
  BY Alone, LinkTypes DEF Sound
<1>2. From(m, l.head) = From(l, l.head)
  BY <1>1, FromInserted
<1>3. From(m, m.head) = {o} \cup From(l, l.head)
  BY <1>2, FromStep
<1>4. Chain(m)
  BY <1>3 DEF Chain
<1>5. From(m, l.next[Marker]) = From(l, l.next[Marker])
  BY <1>1, FromInserted
<1> QED BY <1>1, <1>4, <1>5

\* Unlink and RemoveMarker, of a node that is on the list.
LEMMA CutChain ==
    ASSUME NEW l, Sound(l), Chain(l), NEW o \in Nodes, Listed(l, o), NEW m \in Lists,
           m.head = IF l.prev[o] = Null THEN l.next[o] ELSE l.head,
           \A n \in Nodes : m.next[n] = IF n = o THEN Null
                                        ELSE IF n = l.prev[o] THEN l.next[o] ELSE l.next[n],
           \A n \in Nodes : Listed(m, n) <=> n # o /\ Listed(l, n)
    PROVE  /\ Chain(m)
           /\ o # Marker => From(m, m.next[Marker]) = From(l, l.next[Marker]) \ {o}
<1>1. l.head \in Links /\ l.next[Marker] \in Links /\ Marker \in Nodes
  BY LinkTypes DEF Sound
<1>2. /\ l.head = o <=> l.prev[o] = Null
      /\ l.next[Marker] = o <=> l.prev[o] = Marker
  BY <1>1, LinkTypes DEF Sound, Linked
<1>3. From(m, m.head) = From(l, l.head) \ {o}
  <2>1. m.head = IF l.head = o THEN l.next[o] ELSE l.head
    BY <1>2
  <2> QED BY <1>1, <2>1, FromCut
<1>4. Chain(m)
  BY <1>3 DEF Chain
<1>5. ASSUME o # Marker
      PROVE  From(m, m.next[Marker]) = From(l, l.next[Marker]) \ {o}
  <2>1. m.next[Marker] = IF l.next[Marker] = o THEN l.next[o] ELSE l.next[Marker]
    BY <1>1, <1>2, <1>5
  <2> QED BY <1>1, <2>1, FromCut
<1> QED BY <1>4, <1>5

\* What the speed decides, for the chain and for what the pass has ahead of it.
LEMMA UpdateSpeedChain ==
    ASSUME NEW l, Sound(l), Chain(l), NEW o \in Objects, NEW s
    PROVE  LET m == object_update_speed(l, o, s)
           IN  /\ Chain(m)
               /\ From(m, m.next[Marker]) =
                     IF Fast(s) THEN From(l, l.next[Marker]) ELSE From(l, l.next[Marker]) \ {o}
<1> SUFFICES ASSUME NEW m, m = object_update_speed(l, o, s)
             PROVE  /\ Chain(m)
                    /\ From(m, m.next[Marker]) =
                          IF Fast(s) THEN From(l, l.next[Marker])
                          ELSE From(l, l.next[Marker]) \ {o}
  OBVIOUS
<1>1. o \in Nodes /\ o # Marker /\ l \in Lists
  BY ActiveAssumption DEF Nodes, Sound
<1>2. CASE Fast(s) /\ Listed(l, o)
  BY <1>2 DEF object_update_speed
<1>3. CASE Fast(s) /\ ~Listed(l, o)
  <2>1. m = Insert(l, o)
    BY <1>3 DEF object_update_speed
  <2>2. /\ m \in Lists /\ m.head = o
        /\ \A n \in Nodes : m.next[n] = IF n = o THEN l.head ELSE l.next[n]
    BY <1>1, <2>1, InsertLinks
  <2>3. \A n \in Nodes : Listed(m, n) <=> n = o \/ Listed(l, n)
    BY <1>1, <1>3, <2>1, InsertSound
  <2>4. Chain(m) /\ From(m, m.next[Marker]) = From(l, l.next[Marker])
    BY <1>1, <1>3, <2>2, <2>3, InsertedChain
  <2> QED BY <1>3, <2>4
<1>4. CASE ~Fast(s) /\ Listed(l, o)
  <2>1. m = Unlink(l, o)
    BY <1>4 DEF object_update_speed, object_remove_from_active_list
  <2>2. /\ m \in Lists /\ m.head = IF l.prev[o] = Null THEN l.next[o] ELSE l.head
        /\ \A n \in Nodes : m.next[n] = IF n = o THEN Null
                                ELSE IF n = l.prev[o] THEN l.next[o] ELSE l.next[n]
    BY <1>1, <2>1, UnlinkLinks
  <2>3. \A n \in Nodes : Listed(m, n) <=> n # o /\ Listed(l, n)
    BY <1>1, <1>4, <2>1, UnlinkSound
  <2>4. Chain(m) /\ From(m, m.next[Marker]) = From(l, l.next[Marker]) \ {o}
    BY <1>1, <1>4, <2>2, <2>3, CutChain
  <2> QED BY <1>4, <2>4
<1>5. CASE ~Fast(s) /\ ~Listed(l, o)
  <2>1. m = l
    BY <1>5 DEF object_update_speed, object_remove_from_active_list
  <2>2. o \notin From(l, l.next[Marker])
    <3>1. l.next[o] = Null /\ \A n \in Nodes : l.next[n] # o
      BY <1>1, <1>5, Alone
    <3> DEFINE S == Nodes \ {o}
    <3>2. S \in SUBSET Nodes /\ Holds(S, l.next[Marker]) /\ Closed(l, S)
      BY <1>1, <3>1, LinkTypes DEF Holds, Closed
    <3> HIDE DEF S
    <3>3. From(l, l.next[Marker]) \subseteq S
      BY <3>2, FromLeast
    <3> QED BY <3>3 DEF S
  <2> QED BY <1>5, <2>1, <2>2
<1> QED BY <1>2, <1>3, <1>4, <1>5

\* The marker steps over the node behind it: the chain stays, and that node, and
\* no other, is not ahead of the pass any more.
LEMMA MoveMarkerChain ==
    ASSUME NEW l, Sound(l), Chain(l), NEW o \in Nodes, l.next[Marker] = o,
           NEW m, m = MoveMarker(l)
    PROVE  /\ Chain(m)
           /\ o \in From(l, l.next[Marker])
           /\ o \notin From(m, m.next[Marker])
           /\ From(m, m.next[Marker]) = From(l, l.next[Marker]) \ {o}
<1>0. o # Null
  BY LinkTypes
<1>1. /\ l \in Lists /\ Marker \in Nodes /\ o # Marker /\ l.prev[o] = Marker
      /\ l.next[o] \notin {o, Marker} /\ l.prev[Marker] \notin {o, Marker}
  <2>1. l \in Lists /\ Marker \in Nodes /\ l.prev[o] = Marker
    BY <1>0, LinkTypes DEF Sound, Linked
  <2>2. /\ o # Marker /\ l.prev[Marker] # Marker /\ l.prev[Marker] # o
        /\ l.next[o] # o /\ l.next[o] # Marker
    BY <1>0, <2>1, NoRing, LinkTypes
  <2> QED BY <2>1, <2>2
<1>2. /\ m \in Lists /\ m.head = IF l.prev[Marker] = Null THEN o ELSE l.head
      /\ \A n \in Nodes : m.next[n] = IF n = o THEN Marker
                                      ELSE IF n = Marker THEN l.next[o]
                                      ELSE IF n = l.prev[Marker] THEN o ELSE l.next[n]
  BY <1>1, MoveMarkerLinks
<1>3. \A n \in Nodes : Listed(m, n) <=> Listed(l, n)
  BY <1>0, MoveMarkerSound
<1>4. /\ l.head \in Links /\ l.head # o /\ l.next[o] \in Links
      /\ l.head = Marker <=> l.prev[Marker] = Null
  BY <1>0, <1>1, LinkTypes DEF Sound, Linked, Listed
<1>5. From(m, m.head) = From(l, l.head)
  <2>1. m.head = IF l.head = Marker THEN o ELSE l.head
    BY <1>2, <1>4
  <2> QED BY <1>2, <1>4, <2>1, FromMoved
<1>6. Chain(m)
  BY <1>3, <1>5 DEF Chain
<1>7. From(m, l.next[o]) = From(l, l.next[o])
  <2>1. l.next[o] # o /\ l.next[o] = IF l.next[o] = Marker THEN o ELSE l.next[o]
    BY <1>1
  <2> QED BY <1>2, <1>4, <2>1, FromMoved
<1>8. m.next[Marker] = l.next[o]
  BY <1>1, <1>2
<1>9. From(l, o) = {o} \cup From(l, l.next[o]) /\ o \notin From(l, l.next[o])
  BY <1>1, FromStep, NoReturn
<1> QED BY <1>6, <1>7, <1>8, <1>9

-----------------------------------------------------------------------------
(***************************************************************************)
(* The refinement.                                                         *)
(***************************************************************************)
ActiveNow == OnList \ {Marker}
PendingNow == IF walking THEN From(list, list.next[Marker]) ELSE {}

SetStep == Pass!SetNext \/ UNCHANGED <<ActiveNow, PendingNow, walking>>

\* The invariant of the refinement.
PassInv == Inv /\ Chain(list)

\* By the chain, the active objects are those that are listed.
LEMMA ActiveListed ==
    ASSUME Chain(list)
    PROVE  ActiveNow = {o \in Objects : Listed(list, o)}
<1>1. OnList \subseteq Nodes
  BY DEF OnList, From
<1>2. Objects \subseteq Nodes /\ Nodes \ {Marker} = Objects
  BY ActiveAssumption DEF Nodes
<1> QED BY <1>1, <1>2 DEF Chain, ActiveNow, OnList

LEMMA ActiveListedNext ==
    ASSUME Chain(list')
    PROVE  ActiveNow' = {o \in Objects : Listed(list', o)}
<1>1. OnList' \subseteq Nodes
  BY DEF OnList, From
<1>2. Objects \subseteq Nodes /\ Nodes \ {Marker} = Objects
  BY ActiveAssumption DEF Nodes
<1> QED BY <1>1, <1>2 DEF Chain, ActiveNow, OnList

\* A step that calls object_update_speed for o, outside the walk.
LEMMA UpdateSpeedStep ==
    ASSUME Sound(list), Chain(list), NEW o \in Objects, NEW s,
           list' = object_update_speed(list, o, s), walking' = walking
    PROVE  Chain(list') /\ SetStep
<1>0. o \in Nodes
  BY DEF Nodes
<1>1. /\ Chain(list')
      /\ From(list', list'.next[Marker]) =
            IF Fast(s) THEN From(list, list.next[Marker])
            ELSE From(list, list.next[Marker]) \ {o}
  BY UpdateSpeedChain
<1>2. \A n \in Nodes : Listed(list', n) <=> IF n = o THEN Fast(s) ELSE Listed(list, n)
  BY <1>0, UpdateSpeedSound
<1>3. PendingNow' = IF Fast(s) THEN PendingNow ELSE PendingNow \ {o}
  BY <1>1 DEF PendingNow
<1>4. ActiveNow' = IF Fast(s) THEN ActiveNow \cup {o} ELSE ActiveNow \ {o}
  BY <1>1, <1>2, ActiveListed, ActiveListedNext DEF Nodes
<1>5. CASE Fast(s) /\ o \in ActiveNow
  <2>1. ActiveNow' = ActiveNow /\ PendingNow' = PendingNow
    BY <1>3, <1>4, <1>5
  <2> QED BY <1>1, <2>1 DEF SetStep
<1>6. CASE Fast(s) /\ o \notin ActiveNow
  <2>1. o \notin ActiveNow /\ ActiveNow' = ActiveNow \cup {o} /\ PendingNow' = PendingNow
    BY <1>3, <1>4, <1>6
  <2>2. Pass!Activate(o)
    BY <2>1 DEF Pass!Activate, ActiveNow, PendingNow
  <2> QED BY <1>1, <2>2 DEF SetStep, Pass!SetNext
<1>7. CASE ~Fast(s) /\ o \in ActiveNow
  <2>1. ActiveNow' = ActiveNow \ {o} /\ PendingNow' = PendingNow \ {o}
    BY <1>3, <1>4, <1>7
  <2>2. Pass!Deactivate(o)
    BY <1>7, <2>1 DEF Pass!Deactivate, ActiveNow, PendingNow
  <2> QED BY <1>1, <2>2 DEF SetStep, Pass!SetNext
<1>8. CASE ~Fast(s) /\ o \notin ActiveNow
  <2>1. o \notin From(list, list.next[Marker])
    <3>1. ~Listed(list, o)
      BY <1>8, ActiveListed
    <3>2. list' = list
      BY <1>8, <3>1 DEF object_update_speed, object_remove_from_active_list
    <3> QED BY <1>1, <1>8, <3>2
  <2>2. ActiveNow' = ActiveNow /\ PendingNow' = PendingNow
    BY <1>3, <1>4, <1>8, <2>1 DEF PendingNow
  <2> QED BY <1>1, <2>2 DEF SetStep
<1> QED BY <1>5, <1>6, <1>7, <1>8

\* A step that leaves the list alone.
LEMMA ListKept ==
    ASSUME Chain(list), list' = list, walking' = walking
    PROVE  Chain(list') /\ SetStep
BY DEF SetStep, ActiveNow, PendingNow, OnList

\* A pass begins with every active object ahead of it.
LEMMA StartPassStep ==
    ASSUME Inv, Chain(list), StartPass
    PROVE  Chain(list') /\ SetStep
<1>1. /\ Sound(list) /\ ~Listed(list, Marker) /\ ~walking /\ walking'
      /\ list' = InsertMarker(list)
  BY InvParts DEF StartPass, OnlyLiveNodesListed
<1>2. Marker \in Nodes /\ list \in Lists /\ list.head # Marker /\ list.head \in Links
  BY <1>1, Alone, LinkTypes DEF Sound
<1>3. /\ list' \in Lists /\ list'.head = Marker
      /\ \A n \in Nodes : list'.next[n] = IF n = Marker THEN list.head ELSE list.next[n]
  BY <1>1, <1>2, InsertMarkerLinks
<1>4. \A n \in Nodes : Listed(list', n) <=> n = Marker \/ Listed(list, n)
  BY <1>1, InsertMarkerSound
<1>5. Chain(list')
  BY <1>1, <1>2, <1>3, <1>4, InsertedChain
<1>6. From(list', list.head) = From(list, list.head) /\ Marker \notin From(list, list.head)
  BY <1>1, <1>2, <1>3, FromInserted
<1>7. PendingNow' = ActiveNow
  BY <1>1, <1>2, <1>3, <1>6 DEF PendingNow, ActiveNow, OnList
<1>8. ActiveNow' = ActiveNow
  BY <1>4, <1>5, ActiveListed, ActiveListedNext, ActiveAssumption DEF Nodes
<1>9. Pass!Begin
  BY <1>1, <1>7, <1>8 DEF Pass!Begin, ActiveNow, PendingNow
<1> QED BY <1>5, <1>9 DEF SetStep, Pass!SetNext

\* A pass ends when nobody is ahead of it.
LEMMA EndPassStep ==
    ASSUME Inv, Chain(list), EndPass
    PROVE  Chain(list') /\ SetStep
<1>1. /\ Sound(list) /\ Listed(list, Marker) /\ walking /\ ~walking'
      /\ list.next[Marker] = Null /\ list' = RemoveMarker(list)
  BY InvParts DEF EndPass, OnlyLiveNodesListed, TypeOK
<1>2. Marker \in Nodes /\ list \in Lists
  BY <1>1, LinkTypes DEF Sound
<1>3. /\ list' \in Lists
      /\ list'.head = IF list.prev[Marker] = Null THEN list.next[Marker] ELSE list.head
      /\ \A n \in Nodes : list'.next[n] =
            IF n = Marker THEN Null
            ELSE IF n = list.prev[Marker] THEN list.next[Marker] ELSE list.next[n]
  BY <1>1, <1>2, RemoveMarkerLinks
<1>4. \A n \in Nodes : Listed(list', n) <=> n # Marker /\ Listed(list, n)
  BY <1>1, RemoveMarkerSound
<1>5. Chain(list')
  BY <1>1, <1>2, <1>3, <1>4, CutChain
<1>6. PendingNow = {} /\ PendingNow' = {}
  BY <1>1, FromNull DEF PendingNow
<1>7. ActiveNow' = ActiveNow
  BY <1>4, <1>5, ActiveListed, ActiveListedNext, ActiveAssumption DEF Nodes
<1>8. Pass!End
  BY <1>1, <1>6, <1>7 DEF Pass!End, ActiveNow, PendingNow
<1> QED BY <1>5, <1>8 DEF SetStep, Pass!SetNext

\* The pass visits the next object, which may be taken off the list for a stray.
LEMMA VisitStep ==
    ASSUME Inv, Chain(list), NEW o \in Objects, Visit(o)
    PROVE  Chain(list') /\ SetStep
<1> DEFINE l == MoveMarker(list)
<1>1. /\ Sound(list) /\ walking /\ walking' = walking /\ list.next[Marker] = o
      /\ list' = l \/ list' = object_update_speed(l, o, 0)
  BY InvParts DEF Visit
<1>2. o \in Nodes /\ o # Marker /\ list.next[Marker] # Null
  BY <1>1, ActiveAssumption DEF Nodes
<1>3. Sound(l) /\ \A n \in Nodes : Listed(l, n) <=> Listed(list, n)
  BY <1>1, <1>2, MoveMarkerSound
<1>4. /\ Chain(l)
      /\ o \in From(list, list.next[Marker]) /\ o \notin From(l, l.next[Marker])
      /\ From(l, l.next[Marker]) = From(list, list.next[Marker]) \ {o}
  BY <1>1, <1>2, MoveMarkerChain
<1> HIDE DEF l
<1>5. /\ Chain(list')
      /\ From(list', list'.next[Marker]) = From(list, list.next[Marker]) \ {o}
      /\ \/ \A n \in Nodes : Listed(list', n) <=> Listed(list, n)
         \/ \A n \in Nodes : Listed(list', n) <=> n # o /\ Listed(list, n)
  <2>1. CASE list' = l
    BY <1>3, <1>4, <2>1
  <2>2. CASE list' = object_update_speed(l, o, 0)
    <3>1. ~Fast(0)
      BY DEF Fast
    <3>2. /\ Chain(list')
          /\ From(list', list'.next[Marker]) = From(l, l.next[Marker]) \ {o}
      BY <1>3, <1>4, <2>2, <3>1, UpdateSpeedChain
    <3>3. \A n \in Nodes : Listed(list', n) <=> n # o /\ Listed(list, n)
      BY <1>2, <1>3, <2>2, <3>1, UpdateSpeedSound
    <3> QED BY <1>4, <3>2, <3>3
  <2> QED BY <1>1, <2>1, <2>2
<1>6. o \in PendingNow /\ PendingNow' = PendingNow \ {o}
  BY <1>1, <1>4, <1>5 DEF PendingNow
<1>7. ActiveNow' \in {ActiveNow, ActiveNow \ {o}}
  BY <1>5, ActiveListed, ActiveListedNext DEF Nodes
<1>8. Pass!Visit(o)
  BY <1>1, <1>6, <1>7 DEF Pass!Visit, ActiveNow, PendingNow
<1> QED BY <1>5, <1>8 DEF SetStep, Pass!SetNext

\* Every step keeps the chain and is a step of ActiveSet, or none.
LEMMA PassStep ==
    ASSUME Inv, Chain(list), [Next]_vars
    PROVE  Chain(list') /\ SetStep
<1>0. Sound(list) /\ OnlyLiveNodesListed
  BY InvParts
<1>1. ASSUME NEW o \in Objects, object_new(o) PROVE list' = list /\ walking' = walking
  <2>1. o \in Nodes /\ ~Listed(list, o)
    BY <1>0, <1>1 DEF OnlyLiveNodesListed, object_new, Nodes
  <2>2. list.next[o] = Null /\ list.prev[o] = Null
    BY <1>0, <2>1, Alone
  <2> QED BY <1>0, <1>1, <2>1, <2>2 DEF object_new, Sound, Lists
<1>2. ASSUME NEW o \in Objects, NEW s \in Speeds, SetSpeed(o, s)
      PROVE  Chain(list') /\ SetStep
  BY <1>0, <1>2, UpdateSpeedStep DEF SetSpeed
<1>3. ASSUME NEW o \in Objects, object_free(o) PROVE Chain(list') /\ SetStep
  BY <1>0, <1>3, UpdateSpeedStep DEF object_free
<1>4. ASSUME NEW o \in Objects, LoadStyleObject(o) PROVE Chain(list') /\ SetStep
  <2>1. list' = object_update_speed(list, o, 0) /\ walking' = walking
    BY <1>4 DEF LoadStyleObject, object_update_speed, Fast
  <2> QED BY <1>0, <2>1, UpdateSpeedStep
<1>5. ASSUME NEW o \in Objects,
             \/ Delay(o)
             \/ \E s \in Speeds : object_copy_no_speed(o, s)
             \/ \E q \in Places : Move(o, q)
      PROVE  list' = list /\ walking' = walking
  BY <1>5 DEF Delay, object_copy_no_speed, Move
<1>6. CASE Return \/ UNCHANGED vars
  <2>1. list' = list /\ walking' = walking
    BY <1>6 DEF Return, vars
  <2> QED BY <2>1, ListKept
<1> QED
  BY <1>1, <1>2, <1>3, <1>4, <1>5, <1>6, ListKept, StartPassStep, EndPassStep, VisitStep
  DEF Next

\* At the start nobody is listed and nobody can be reached.
LEMMA PassInit == Init => PassInv /\ Pass!SetInit
<1> SUFFICES ASSUME Init PROVE PassInv /\ Pass!SetInit
  OBVIOUS
<1>1. /\ list.head = Null /\ ~walking
      /\ \A n \in Nodes : list.next[n] = Null /\ list.prev[n] = Null
  BY DEF Init
<1>2. From(list, list.head) = {}
  BY <1>1, FromNull
<1>3. Chain(list)
  BY <1>1, <1>2, LinkTypes DEF Chain, Listed
<1>4. Pass!SetInit
  BY <1>1, <1>2 DEF Init, Pass!SetInit, OnList
<1> QED BY <1>3, <1>4, InitInv DEF PassInv

LEMMA AlwaysPassInv == Spec => []PassInv
<1>1. PassInv /\ [Next]_vars => PassInv'
  <2> SUFFICES ASSUME PassInv, [Next]_vars PROVE Inv' /\ Chain(list)'
    BY DEF PassInv
  <2>1. Inv'
    BY NextInv DEF PassInv
  <2>2. Chain(list')
    BY PassStep DEF PassInv
  <2> QED BY <2>1, <2>2 DEF Chain
<1> QED BY <1>1, PassInit, PTL DEF Spec

\* Whatever the handlers do to the list while process_events walks over it, each
\* object that is active when the pass begins is visited once, unless it is taken
\* off the list before its turn, and nobody else is visited.
THEOREM PassesVisitOnce == Spec => RefinesActiveSet
<1>1. PassInv /\ [Next]_vars => [Pass!SetNext]_<<ActiveNow, PendingNow, walking>>
  BY PassStep DEF PassInv, SetStep
<1>2. Spec => [][Pass!SetNext]_<<ActiveNow, PendingNow, walking>>
  BY <1>1, AlwaysPassInv, PTL DEF Spec
<1>3. Spec => Pass!SetInit
  BY PassInit DEF Spec
<1> QED
  BY <1>2, <1>3, PTL DEF RefinesActiveSet, Pass!Passes, Pass!setVars, ActiveNow, PendingNow
=============================================================================
