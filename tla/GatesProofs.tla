---------------------------- MODULE GatesProofs -----------------------------
(***************************************************************************)
(* Theorems about Gates: however many buttons share a connection, whoever  *)
(* steps, steals, throws or is crushed in whatever order, a held button    *)
(* keeps the gates told unless a load has grown unnoticed, a release is    *)
(* told unless a load slipped away, a gate never blocks on top of anything,*)
(* and a gate that came to rest is open or closed.  The last needs         *)
(* NumAnimations >= 5.                                                     *)
(***************************************************************************)
EXTENDS Gates, TLAPS

-----------------------------------------------------------------------------
(***************************************************************************)
(* The inductive invariant.                                                *)
(***************************************************************************)

\* No held button is recorded as up.
HeldDown(where, c) == \A b \in Held(where) : c.down[b]

\* As long as a button is recorded as down, the push has been heard.
DownHeard(c) ==
    \A b \in Buttons : c.down[b] =>
        \A g \in Gates \cap OnPush : c.gate[g].value = Told(g, TRUE)

\* The release has been heard.
Released(c) == \A g \in Gates \cap OnRelease : c.gate[g].value = Told(g, FALSE)

\* A gate that blocks is at least half-way up and is not giving way; one that
\* does not is at most half-way up, or one step above it while it gives way.
GateOK(k) ==
    /\ k.blocks => ~k.food /\ k.wc >= Half
    /\ ~k.blocks => k.wc <= Half + 1
    /\ ~k.blocks /\ ~k.food => k.wc <= Half
    /\ ~k.moving => IF k.value THEN k.wc = 0 /\ ~k.blocks ELSE k.wc = Top /\ k.blocks

\* What keeps a release from having been heard is a held button recorded as down.
ReleasedOrDown(where, c) == Released(c) \/ \E b \in Held(where) : c.down[b]

\* s: a load slipped away; g: one has grown since the last update_button.
ButtonsInv(where, c, s, g) ==
    /\ c \in Conn
    /\ ~g => HeldDown(where, c)
    /\ DownHeard(c)
    /\ ~s => ReleasedOrDown(where, c)

GatesInv(c) == \A g \in Gates : GateOK(c.gate[g])

Clear(where, c) == \A g \in Gates : c.gate[g].blocks => Stack(g, where) = {}

Placed(where) ==
    /\ where \in [Things -> Squares \cup Creatures \cup {Gone}]
    /\ \A c \in Creatures : where[c] \in Squares

IInv ==
    /\ Placed(at)
    /\ slipped \in BOOLEAN /\ grown \in BOOLEAN
    /\ ButtonsInv(at, conn, slipped, grown)
    /\ GatesInv(conn)
    /\ Clear(at, conn)

-----------------------------------------------------------------------------
(***************************************************************************)
(* Loads.                                                                  *)
(***************************************************************************)

\* What is on b in w1 and still is in w2 keeps b down.
LEMMA HeldGrows ==
    ASSUME NEW w1, NEW w2, NEW b \in Buttons, b \in Held(w1),
           \A x \in Things : On(x, b, w1) => On(x, b, w2)
    PROVE  b \in Held(w2)
<1>1. Load(b, w1) \in HoldsDown[b]
  BY DEF Held
<1>2. Load(b, w1) \subseteq Load(b, w2) /\ Load(b, w2) \in SUBSET Things
  BY DEF Load
<1>3. \A S \in HoldsDown[b] : \A T \in SUBSET Things : S \subseteq T => T \in HoldsDown[b]
  BY GatesAssumption
<1>4. Load(b, w2) \in HoldsDown[b]
  BY <1>1, <1>2, <1>3
<1> QED
  BY <1>4 DEF Held

\* The same for all buttons but some.
LEMMA HeldGrowsBut ==
    ASSUME NEW w1, NEW w2, NEW S,
           \A x \in Things : \A b \in Buttons \ S : On(x, b, w1) => On(x, b, w2)
    PROVE  Held(w1) \ S \subseteq Held(w2)
<1> SUFFICES ASSUME NEW b \in Held(w1) \ S
             PROVE  b \in Held(w2)
  OBVIOUS
<1>1. b \in Buttons /\ b \in Held(w1)
  BY DEF Held
<1>2. \A x \in Things : On(x, b, w1) => On(x, b, w2)
  BY <1>1
<1> QED
  BY <1>1, <1>2, HeldGrows

\* The only square x can weigh on is s.
OnlyOn(x, s, w) == \A b \in Buttons : On(x, b, w) => b = s

Put(w, x, s) == [w EXCEPT ![x] = s]

\* On which buttons everything is after a creature was taken off its square, or
\* put on another: what it carries goes with it.
Goes(y, b, x, w) == y = x \/ (w[y] = x /\ b \notin Pedestals)

LEMMA CreatureMoves ==
    ASSUME NEW w, Placed(w), NEW x \in Creatures, NEW s \in Squares
    PROVE  LET w2 == Put(w, x, s)
           IN  /\ Placed(w2)
               /\ \A y \in Things, b \in Buttons :
                    /\ On(y, b, w2) <=> IF Goes(y, b, x, w) THEN b = s ELSE On(y, b, w)
                    /\ Goes(y, b, x, w) => (On(y, b, w) <=> b = w[x])
<1> DEFINE w2 == Put(w, x, s)
<1>1. /\ x \in Things /\ x \notin Squares /\ s \notin Creatures /\ w[x] \notin Creatures
      /\ w2[x] = s /\ \A y \in Things \ {x} : w2[y] = w[y]
  BY GatesAssumption DEF Things, Placed, Put
<1>2. Placed(w2)
  BY <1>1 DEF Put, Placed, Things
<1>3. \A b \in Buttons : b \in Squares /\ b \notin Creatures
  BY GatesAssumption DEF Things, Squares
<1> HIDE DEF w2
<1>4. ASSUME NEW y \in Things, NEW b \in Buttons
      PROVE  /\ On(y, b, w2) <=> IF Goes(y, b, x, w) THEN b = s ELSE On(y, b, w)
             /\ Goes(y, b, x, w) => (On(y, b, w) <=> b = w[x])
  <2>1. CASE y = x
    BY <1>1, <1>3, <2>1 DEF Goes, On
  <2>2. CASE y # x /\ w[y] = x
    <3>1. w2[y] = x
      BY <1>1, <2>2
    <3>2. x # b
      BY <1>1, <1>3
    <3> QED
      BY <1>1, <1>3, <2>2, <3>1, <3>2 DEF Goes, On
  <2>3. CASE y # x /\ w[y] # x
    <3>1. w2[y] = w[y]
      BY <1>1, <2>3
    <3>2. w[y] \in Creatures => w2[w[y]] = w[w[y]]
      BY <1>1, <2>3 DEF Things
    <3>3. ~Goes(y, b, x, w)
      BY <2>3 DEF Goes
    <3> QED
      BY <3>1, <3>2, <3>3 DEF On
  <2> QED
    BY <2>1, <2>2, <2>3
<1> QED
  BY <1>2, <1>4 DEF w2

LEMMA ItemMoves ==
    ASSUME NEW w, Placed(w), NEW i \in Items, NEW s \in Squares \cup Creatures \cup {Gone}
    PROVE  LET w2 == [w EXCEPT ![i] = s]
           IN  /\ Placed(w2)
               /\ \A y \in Things \ {i}, b \in Buttons : On(y, b, w2) <=> On(y, b, w)
               /\ \A b \in Buttons :
                    On(i, b, w2) <=> b = s \/ (b \notin Pedestals /\ s \in Creatures /\ w[s] = b)
<1> DEFINE w2 == [w EXCEPT ![i] = s]
<1>1. i \in Things /\ i \notin Creatures /\ \A c \in Creatures : c \in Things /\ w2[c] = w[c]
  BY GatesAssumption DEF Things, Placed
<1>2. Placed(w2)
  BY <1>1 DEF Placed
<1>3. w2[i] = s /\ \A y \in Things \ {i} : w2[y] = w[y]
  BY <1>1 DEF Placed
<1> HIDE DEF w2
<1>4. \A y \in Things \ {i}, b \in Buttons : On(y, b, w2) <=> On(y, b, w)
  BY <1>1, <1>3 DEF On
<1>5. \A b \in Buttons :
        On(i, b, w2) <=> b = s \/ (b \notin Pedestals /\ s \in Creatures /\ w[s] = b)
  BY <1>1, <1>3 DEF On
<1> QED
  BY <1>2, <1>4, <1>5 DEF w2

-----------------------------------------------------------------------------
(***************************************************************************)
(* update_button.                                                          *)
(***************************************************************************)
LEMMA ConnFields ==
    ASSUME NEW c \in Conn
    PROVE  /\ \A b \in Buttons : c.down[b] \in BOOLEAN
           /\ \A g \in Gates : c.gate[g] \in Gate
  BY DEF Conn

\* trigger_connected, read field by field.
LEMMA TriggerFields ==
    ASSUME NEW c \in Conn, NEW state \in BOOLEAN
    PROVE  LET t == trigger_connected(c, state)
           IN  /\ t \in Conn
               /\ \A b \in Buttons : t.down[b] = IF Hears(b, state) THEN state ELSE c.down[b]
               /\ \A g \in Gates :
                    t.gate[g] = IF Hears(g, state)
                                THEN [c.gate[g] EXCEPT !.value = Told(g, state), !.moving = TRUE]
                                ELSE c.gate[g]
<1> DEFINE t == trigger_connected(c, state)
<1>1. t.down = [b \in Buttons |-> IF Hears(b, state) THEN state ELSE c.down[b]]
  BY DEF trigger_connected
<1>2. t.gate = [g \in Gates |->
                 IF Hears(g, state)
                 THEN [c.gate[g] EXCEPT !.value = Told(g, state), !.moving = TRUE]
                 ELSE c.gate[g]]
  BY DEF trigger_connected
<1>3. t = [down |-> t.down, gate |-> t.gate]
  BY DEF trigger_connected
<1>4. t.down \in [Buttons -> BOOLEAN]
  BY <1>1, ConnFields
<1>5. t.gate \in [Gates -> Gate]
  <2> SUFFICES ASSUME NEW g \in Gates
               PROVE  t.gate[g] \in Gate
    BY <1>2
  <2>1. c.gate[g] \in Gate /\ Told(g, state) \in BOOLEAN
    BY ConnFields DEF Told
  <2> QED
    BY <1>2, <2>1 DEF Gate
<1>6. t \in Conn
  BY <1>3, <1>4, <1>5 DEF Conn
<1> QED
  BY <1>1, <1>2, <1>6

\* What a button is worth when it is updated, and whether that is passed on.
Worth(where) == Held(where) # {}

PassedOn(op, where, c) == Worth(where) # c.down[op]

Weighed(op, where) == [b \in Buttons |-> IF b = op THEN Worth(where) ELSE b \in Held(where)]

\* What a call of update_button leaves: the gates as they were, or told to move.
LEMMA UpdateFields ==
    ASSUME NEW c \in Conn, NEW op \in Buttons, NEW where
    PROVE  /\ update_button(op, where, c) \in Conn
           /\ \A b \in Buttons :
                update_button(op, where, c).down[b] =
                    IF PassedOn(op, where, c) /\ Hears(b, Worth(where)) THEN Worth(where)
                    ELSE Weighed(op, where)[b]
           /\ \A g \in Gates :
                update_button(op, where, c).gate[g] =
                    IF PassedOn(op, where, c) /\ Hears(g, Worth(where))
                    THEN [c.gate[g] EXCEPT !.value = Told(g, Worth(where)), !.moving = TRUE]
                    ELSE c.gate[g]
<1> DEFINE u     == update_button(op, where, c)
           fresh == [c EXCEPT !.down = Weighed(op, where)]
<1>0. Worth(where) \in BOOLEAN
  BY DEF Worth
<1>1. Weighed(op, where) \in [Buttons -> BOOLEAN]
  <2>1. ASSUME NEW b \in Buttons
        PROVE  (IF b = op THEN Worth(where) ELSE b \in Held(where)) \in BOOLEAN
    <3>1. (b \in Held(where)) \in BOOLEAN
      OBVIOUS
    <3> QED
      BY <1>0, <3>1
  <2> QED
    BY <2>1 DEF Weighed
<1>2. fresh \in Conn /\ fresh.down = Weighed(op, where) /\ fresh.gate = c.gate
  BY <1>1 DEF Conn
<1>3. u = IF PassedOn(op, where, c) THEN trigger_connected(fresh, Worth(where)) ELSE fresh
  BY DEF update_button, PassedOn, Worth, Weighed
<1> HIDE DEF fresh, u
<1>4. CASE ~PassedOn(op, where, c)
  <2>1. u = fresh
    BY <1>3, <1>4
  <2> QED
    BY <2>1, <1>2, <1>4 DEF u
<1>5. CASE PassedOn(op, where, c)
  <2>1. u = trigger_connected(fresh, Worth(where))
    BY <1>3, <1>5
  <2>2. /\ u \in Conn
        /\ \A b \in Buttons :
             u.down[b] = IF Hears(b, Worth(where)) THEN Worth(where) ELSE fresh.down[b]
        /\ \A g \in Gates :
             u.gate[g] = IF Hears(g, Worth(where))
                         THEN [fresh.gate[g] EXCEPT !.value = Told(g, Worth(where)), !.moving = TRUE]
                         ELSE fresh.gate[g]
    BY <2>1, <1>0, <1>2, TriggerFields
  <2> QED
    BY <2>2, <1>2, <1>5 DEF u
<1> QED
  BY <1>4, <1>5

\* The buttons' part of the invariant after update_button, for any new table
\* where: it needs only that a release was heard if no change is to be passed on.
LEMMA UpdateButtons ==
    ASSUME NEW c \in Conn, NEW op \in Buttons, NEW where, NEW s \in BOOLEAN, NEW g \in BOOLEAN,
           DownHeard(c),
           ~s /\ Held(where) = {} /\ ~c.down[op] => Released(c)
    PROVE  ButtonsInv(where, update_button(op, where, c), s, g)
<1> DEFINE u     == update_button(op, where, c)
           state == Worth(where)
           pass  == PassedOn(op, where, c)
           same  == ~pass
<1>0. /\ u \in Conn
      /\ \A b \in Buttons : u.down[b] = IF pass /\ Hears(b, state) THEN state
                                         ELSE Weighed(op, where)[b]
      /\ \A h \in Gates :
            u.gate[h] = IF pass /\ Hears(h, state)
                        THEN [c.gate[h] EXCEPT !.value = Told(h, state), !.moving = TRUE]
                        ELSE c.gate[h]
  BY ONLY UpdateFields, c \in Conn, op \in Buttons
<1> HIDE DEF u, state
<1>1. u \in Conn
  BY <1>0
<1>2. \A b \in Buttons : u.down[b] = IF ~same /\ Hears(b, state) THEN state
                                     ELSE Weighed(op, where)[b]
  BY <1>0
<1>3. \A h \in Gates :
        u.gate[h] = IF ~same /\ Hears(h, state)
                    THEN [c.gate[h] EXCEPT !.value = Told(h, state), !.moving = TRUE]
                    ELSE c.gate[h]
  BY <1>0
<1>4. ASSUME NEW h \in Gates
      PROVE  u.gate[h].value = IF ~same /\ Hears(h, state) THEN Told(h, state)
                               ELSE c.gate[h].value
  <2>1. c.gate[h] \in Gate
    BY ConnFields
  <2> QED
    BY <2>1, <1>3 DEF Gate
<1>5. /\ \A b \in Buttons : Weighed(op, where)[b] = IF b = op THEN state ELSE b \in Held(where)
      /\ state \in BOOLEAN /\ c.down[op] \in BOOLEAN /\ Held(where) \subseteq Buttons
      /\ state <=> Held(where) # {}
      /\ same <=> (state <=> c.down[op])
  BY ConnFields DEF Held, Weighed, Worth, PassedOn, state
<1> HIDE DEF pass, same
<1>6. HeldDown(where, u)
  BY <1>2, <1>5 DEF HeldDown
<1>7. DownHeard(u)
  <2> SUFFICES ASSUME NEW b \in Buttons, u.down[b], NEW h \in Gates \cap OnPush
               PROVE  u.gate[h].value = Told(h, TRUE)
    BY DEF DownHeard
  <2>1. state
    BY <1>2, <1>5
  <2>2. CASE same
    BY <2>1, <2>2, <1>4, <1>5 DEF DownHeard
  <2>3. CASE ~same
    BY <2>1, <2>3, <1>4, <1>5 DEF Hears
  <2> QED
    BY <2>2, <2>3
<1>8. ASSUME ~s, Held(where) = {} PROVE Released(u)
  <2> SUFFICES ASSUME NEW h \in Gates \cap OnRelease
               PROVE  u.gate[h].value = Told(h, FALSE)
    BY DEF Released
  <2>1. state = FALSE
    BY <1>5, <1>8
  <2>2. CASE same
    BY <2>1, <2>2, <1>4, <1>5, <1>8 DEF Released
  <2>3. CASE ~same
    BY <2>1, <2>3, <1>4, <1>5 DEF Hears
  <2> QED
    BY <2>2, <2>3
<1>9. ~s => ReleasedOrDown(where, u)
  BY <1>6, <1>8 DEF HeldDown, ReleasedOrDown
<1> QED
  BY <1>1, <1>6, <1>7, <1>9 DEF ButtonsInv, u

\* A gate told to move keeps its animation and what it blocks.
Nudged(k, k2) ==
    /\ k2 \in Gate
    /\ k2.wc = k.wc /\ k2.food = k.food /\ k2.blocks = k.blocks
    /\ k2.moving \/ (k2.moving = k.moving /\ k2.value = k.value)

NudgedGates(c, c2) == \A g \in Gates : Nudged(c.gate[g], c2.gate[g])

LEMMA NudgedOK ==
    ASSUME NEW c \in Conn, NEW c2, NudgedGates(c, c2), GatesInv(c)
    PROVE  GatesInv(c2)
<1> SUFFICES ASSUME NEW g \in Gates
             PROVE  GateOK(c2.gate[g])
  BY DEF GatesInv
<1> DEFINE k  == c.gate[g]
           k2 == c2.gate[g]
<1>1. Nudged(k, k2) /\ GateOK(k)
  BY DEF NudgedGates, GatesInv
<1> HIDE DEF k, k2
<1>2. GateOK(k2)
  BY <1>1 DEF GateOK, Nudged
<1> QED
  BY <1>2 DEF k2

LEMMA NotNudged ==
    ASSUME NEW c \in Conn
    PROVE  NudgedGates(c, c)
  BY ConnFields DEF NudgedGates, Nudged

LEMMA NudgedTwice ==
    ASSUME NEW c1, NEW c2, NEW c3, NudgedGates(c1, c2), NudgedGates(c2, c3)
    PROVE  NudgedGates(c1, c3)
<1> SUFFICES ASSUME NEW g \in Gates
             PROVE  Nudged(c1.gate[g], c3.gate[g])
  BY DEF NudgedGates
<1>1. Nudged(c1.gate[g], c2.gate[g]) /\ Nudged(c2.gate[g], c3.gate[g])
  BY DEF NudgedGates
<1> QED
  BY <1>1 DEF Nudged

LEMMA UpdateNudges ==
    ASSUME NEW c \in Conn, NEW op \in Buttons, NEW where
    PROVE  NudgedGates(c, update_button(op, where, c))
<1> DEFINE u == update_button(op, where, c)
<1> SUFFICES ASSUME NEW g \in Gates
             PROVE  Nudged(c.gate[g], u.gate[g])
  BY DEF NudgedGates
<1>1. c.gate[g] \in Gate
  BY ConnFields
<1>2. \/ u.gate[g] = c.gate[g]
      \/ u.gate[g] = [c.gate[g] EXCEPT !.value = Told(g, Worth(where)), !.moving = TRUE]
  <2>1. u.gate[g] = IF PassedOn(op, where, c) /\ Hears(g, Worth(where))
                    THEN [c.gate[g] EXCEPT !.value = Told(g, Worth(where)), !.moving = TRUE]
                    ELSE c.gate[g]
    BY UpdateFields
  <2> HIDE DEF u
  <2> QED
    BY <2>1
<1>3. Told(g, Worth(where)) \in BOOLEAN
  BY DEF Told
<1> HIDE DEF u
<1>4. CASE u.gate[g] = c.gate[g]
  BY <1>1, <1>4 DEF Nudged
<1>5. CASE u.gate[g] = [c.gate[g] EXCEPT !.value = Told(g, Worth(where)), !.moving = TRUE]
  BY <1>1, <1>3, <1>5 DEF Nudged, Gate
<1> QED
  BY <1>2, <1>4, <1>5

-----------------------------------------------------------------------------
(***************************************************************************)
(* The two halves of a move.                                               *)
(***************************************************************************)

\* Taking a creature off its square keeps the buttons' part.
LEMMA LeftKeeps ==
    ASSUME NEW c, NEW s \in BOOLEAN, NEW g \in BOOLEAN, Placed(at), ButtonsInv(at, c, s, g),
           NEW x \in Creatures
    PROVE  /\ ButtonsInv(Put(at, x, Floor), Left(x, c), s, g /\ at[x] \notin Buttons)
           /\ NudgedGates(c, Left(x, c))
<1> DEFINE l  == Put(at, x, Floor)
           g2 == g /\ at[x] \notin Buttons
<1>0. Floor \in Squares
  BY DEF Squares
<1>1. \A y \in Things, b \in Buttons :
        /\ On(y, b, l) <=> IF Goes(y, b, x, at) THEN b = Floor ELSE On(y, b, at)
        /\ Goes(y, b, x, at) => (On(y, b, at) <=> b = at[x])
  BY <1>0, CreatureMoves
<1>2. Floor \notin Buttons /\ c \in Conn /\ at[x] \in Squares
  BY GatesAssumption DEF ButtonsInv, Placed
<1> HIDE DEF l
<1>3. Held(at) \ {at[x]} \subseteq Held(l)
  <2>1. \A y \in Things : \A b \in Buttons \ {at[x]} : On(y, b, at) => On(y, b, l)
    BY <1>1
  <2> QED
    BY <2>1, HeldGrowsBut
<1>4. CASE at[x] \in Buttons
  <2>1. Left(x, c) = update_button(at[x], l, c)
    BY <1>4 DEF Left, l, Put
  <2>2. ~s /\ Held(l) = {} /\ ~c.down[at[x]] => Released(c)
    BY <1>3 DEF ButtonsInv, ReleasedOrDown
  <2>3. DownHeard(c)
    BY DEF ButtonsInv
  <2>4. ButtonsInv(l, update_button(at[x], l, c), s, g2)
    BY <1>2, <1>4, <2>2, <2>3, UpdateButtons
  <2>5. NudgedGates(c, update_button(at[x], l, c))
    BY <1>2, <1>4, UpdateNudges
  <2> QED
    BY <2>1, <2>4, <2>5 DEF l
<1>5. CASE at[x] \notin Buttons
  <2>1. Left(x, c) = c
    BY <1>5 DEF Left
  <2>2. \A y \in Things : \A b \in Buttons \ {} : On(y, b, l) => On(y, b, at)
    BY <1>1, <1>2
  <2>3. Held(l) \ {} \subseteq Held(at)
    BY <2>2, HeldGrowsBut
  <2>4. Held(at) \subseteq Held(l)
    BY <1>3, <1>5 DEF Held
  <2>5. Held(l) = Held(at)
    BY <2>3, <2>4
  <2>6. ButtonsInv(l, c, s, g2)
    BY <1>5, <2>5 DEF ButtonsInv, HeldDown, ReleasedOrDown
  <2>7. NudgedGates(c, c)
    BY <1>2, NotNudged
  <2> QED
    BY <2>1, <2>6, <2>7 DEF l
<1> QED
  BY <1>4, <1>5

\* What an insertion leaves is sound for the new table, if the held buttons are
\* recorded as down, or one is worked or recorded as grown, and if what kept a
\* release from being heard is still held, or recorded as slipped.
LEMMA LandedKeeps ==
    ASSUME NEW w2, NEW c \in Conn, NEW s \in BOOLEAN, NEW sq, NEW g \in BOOLEAN,
           DownHeard(c),
           sq \notin Buttons /\ ~g => HeldDown(w2, c),
           ~s => ReleasedOrDown(w2, c)
    PROVE  /\ ButtonsInv(w2, Landed(sq, w2, c), s, g)
           /\ NudgedGates(c, Landed(sq, w2, c))
<1>1. CASE sq \in Buttons
  <2>1. Landed(sq, w2, c) = update_button(sq, w2, c)
    BY <1>1 DEF Landed
  <2>2. ~s /\ Held(w2) = {} /\ ~c.down[sq] => Released(c)
    BY DEF ReleasedOrDown
  <2>3. ButtonsInv(w2, update_button(sq, w2, c), s, g)
    BY <1>1, <2>2, UpdateButtons
  <2>4. NudgedGates(c, update_button(sq, w2, c))
    BY <1>1, UpdateNudges
  <2> QED
    BY <2>1, <2>3, <2>4
<1>2. CASE sq \notin Buttons
  <2>1. Landed(sq, w2, c) = c
    BY <1>2 DEF Landed
  <2>2. NudgedGates(c, c)
    BY NotNudged
  <2> QED
    BY <1>2, <2>1, <2>2 DEF ButtonsInv
<1> QED
  BY <1>1, <1>2

\* An item put on a square: only the button it came from can get lighter.
LEMMA ItemLandedKeeps ==
    ASSUME NEW w, Placed(w), NEW c \in Conn, NEW s \in BOOLEAN, NEW g \in BOOLEAN,
           NEW i \in Items, NEW sq \in Squares \cup {Gone},
           DownHeard(c),
           sq \notin Buttons /\ ~g => HeldDown(w, c),
           ~s => ReleasedOrDown(w, c) /\ OnlyOn(i, sq, w)
    PROVE  LET w2 == [w EXCEPT ![i] = sq]
           IN  /\ Placed(w2)
               /\ ButtonsInv(w2, Landed(sq, w2, c), s, g)
               /\ NudgedGates(c, Landed(sq, w2, c))
<1> DEFINE w2 == [w EXCEPT ![i] = sq]
<1>1. sq \notin Creatures
  BY GatesAssumption DEF Things
<1>2. /\ Placed(w2)
      /\ \A y \in Things \ {i}, b \in Buttons : On(y, b, w2) <=> On(y, b, w)
      /\ \A b \in Buttons : On(i, b, w2) <=> b = sq
  <2>1. sq \in Squares \cup Creatures \cup {Gone}
    OBVIOUS
  <2>2. /\ Placed(w2)
        /\ \A y \in Things \ {i}, b \in Buttons : On(y, b, w2) <=> On(y, b, w)
        /\ \A b \in Buttons :
             On(i, b, w2) <=> b = sq \/ (b \notin Pedestals /\ sq \in Creatures /\ w[sq] = b)
    BY <2>1, ItemMoves
  <2> QED
    BY <1>1, <2>2
<1> HIDE DEF w2
<1>3. ASSUME sq \notin Buttons PROVE Held(w2) \subseteq Held(w)
  <2>1. \A y \in Things : \A b \in Buttons \ {} : On(y, b, w2) => On(y, b, w)
    BY <1>2, <1>3
  <2>2. Held(w2) \ {} \subseteq Held(w)
    BY <2>1, HeldGrowsBut
  <2> QED
    BY <2>2
<1>4. ASSUME ~s PROVE Held(w) \subseteq Held(w2)
  <2>1. \A y \in Things : \A b \in Buttons \ {} : On(y, b, w) => On(y, b, w2)
    BY <1>2, <1>4 DEF OnlyOn
  <2>2. Held(w) \ {} \subseteq Held(w2)
    BY <2>1, HeldGrowsBut
  <2> QED
    BY <2>2
<1>5. sq \notin Buttons /\ ~g => HeldDown(w2, c)
  BY <1>3 DEF HeldDown
<1>6. ~s => ReleasedOrDown(w2, c)
  BY <1>4 DEF ReleasedOrDown
<1>7. /\ ButtonsInv(w2, Landed(sq, w2, c), s, g)
      /\ NudgedGates(c, Landed(sq, w2, c))
  BY <1>5, <1>6, LandedKeeps
<1> QED
  BY <1>2, <1>7 DEF w2

-----------------------------------------------------------------------------
(***************************************************************************)
(* Setting a gate.                                                         *)
(***************************************************************************)
LEMMA SetGateFields ==
    ASSUME NEW c \in Conn, NEW g \in Gates, NEW k \in Gate
    PROVE  /\ SetGate(c, g, k) \in Conn
           /\ SetGate(c, g, k).down = c.down
           /\ SetGate(c, g, k).gate[g] = k
           /\ \A h \in Gates \ {g} : SetGate(c, g, k).gate[h] = c.gate[h]
<1>1. c.gate \in [Gates -> Gate] /\ c.down \in [Buttons -> BOOLEAN]
  BY DEF Conn
<1>2. SetGate(c, g, k) = [c EXCEPT !.gate = [c.gate EXCEPT ![g] = k]]
  BY DEF SetGate
<1>3. SetGate(c, g, k) = [down |-> c.down, gate |-> [c.gate EXCEPT ![g] = k]]
  BY <1>2 DEF Conn
<1>4. [c.gate EXCEPT ![g] = k] \in [Gates -> Gate]
  BY <1>1
<1> QED
  BY <1>1, <1>3, <1>4 DEF Conn

\* The buttons' part only looks at what the gates were told.
LEMMA SetGateKeeps ==
    ASSUME NEW where, NEW c, NEW s \in BOOLEAN, NEW gr \in BOOLEAN, ButtonsInv(where, c, s, gr),
           NEW g \in Gates, NEW k \in Gate, k.value = c.gate[g].value
    PROVE  ButtonsInv(where, SetGate(c, g, k), s, gr)
<1> DEFINE c2 == SetGate(c, g, k)
<1>1. c \in Conn
  BY DEF ButtonsInv
<1>2. /\ c2 \in Conn /\ c2.down = c.down
      /\ \A h \in Gates : c2.gate[h].value = c.gate[h].value
  BY <1>1, SetGateFields
<1> HIDE DEF c2
<1>3. (~gr => HeldDown(where, c2)) /\ DownHeard(c2)
  BY <1>2 DEF HeldDown, DownHeard, ButtonsInv
<1>4. ~s => ReleasedOrDown(where, c2)
  BY <1>2 DEF Released, ReleasedOrDown, ButtonsInv
<1>5. ButtonsInv(where, c2, s, gr)
  BY <1>2, <1>3, <1>4 DEF ButtonsInv
<1> QED
  BY <1>5 DEF c2

\* A step of a gate that moves nothing.
LEMMA GateStep ==
    ASSUME IInv, NEW g \in Gates, NEW k \in Gate, k.value = conn.gate[g].value, GateOK(k),
           k.blocks => conn.gate[g].blocks \/ Stack(g, at) = {},
           at' = at, slipped' = slipped, grown' = grown, conn' = SetGate(conn, g, k)
    PROVE  IInv'
<1>1. conn \in Conn
  BY DEF IInv, ButtonsInv
<1>2. /\ conn'.gate[g] = k
      /\ \A h \in Gates \ {g} : conn'.gate[h] = conn.gate[h]
  BY <1>1, SetGateFields
<1>3. ButtonsInv(at', conn', slipped', grown')
  BY SetGateKeeps DEF IInv
<1>4. GatesInv(conn')
  BY <1>2 DEF IInv, GatesInv
<1>5. Clear(at', conn')
  BY <1>2 DEF IInv, Clear
<1> QED
  BY <1>3, <1>4, <1>5 DEF IInv

-----------------------------------------------------------------------------
(***************************************************************************)
(* Creatures and items.                                                    *)
(***************************************************************************)

\* One thing moved, to a square that does not block.
LEMMA OneMoves ==
    ASSUME Placed(at), Clear(at, conn), NEW x \in Things, NEW s,
           s \in Gates => ~conn.gate[s].blocks,
           at' = [at EXCEPT ![x] = s], NudgedGates(conn, conn')
    PROVE  Clear(at', conn')
<1> SUFFICES ASSUME NEW h \in Gates, conn'.gate[h].blocks, NEW y \in Things, at'[y] = h
             PROVE  FALSE
  BY DEF Clear, Stack
<1>1. conn.gate[h].blocks
  BY DEF NudgedGates, Nudged
<1>2. at[y] # h
  BY <1>1 DEF Clear, Stack
<1>3. y = x /\ s = h
  BY <1>2 DEF Placed
<1> QED
  BY <1>1, <1>3

\* What is left of the step once the buttons' part is known.
LEMMA MoveKeeps ==
    ASSUME IInv, NEW x \in Things, NEW s,
           s \in Gates => ~conn.gate[s].blocks,
           at' = [at EXCEPT ![x] = s], Placed(at'), slipped' \in BOOLEAN, grown' \in BOOLEAN,
           ButtonsInv(at', conn', slipped', grown'), NudgedGates(conn, conn')
    PROVE  IInv'
<1>1. conn \in Conn /\ GatesInv(conn) /\ Placed(at) /\ Clear(at, conn)
  BY DEF IInv, ButtonsInv
<1>2. GatesInv(conn')
  BY <1>1, NudgedOK
<1>3. Clear(at', conn')
  BY <1>1, OneMoves
<1> QED
  BY <1>2, <1>3 DEF IInv

LEMMA StepKeeps ==
    ASSUME IInv, NEW x \in Creatures, NEW s \in Squares, Step(x, s)
    PROVE  IInv'
<1> DEFINE l  == Put(at, x, Floor)
           c  == Left(x, conn)
           g1 == grown /\ at[x] \notin Buttons
           g2 == grown'
<1>1. /\ Placed(at) /\ slipped \in BOOLEAN /\ grown \in BOOLEAN
      /\ ButtonsInv(at, conn, slipped, grown)
      /\ at' = [at EXCEPT ![x] = s] /\ slipped' = slipped
      /\ conn' = Landed(s, at', c)
      /\ s \in Gates => ~conn.gate[s].blocks
      /\ x \in Things
  BY DEF IInv, Step, Move, Free, Things
<1>2. ButtonsInv(l, c, slipped, g1) /\ NudgedGates(conn, c)
  BY <1>1, LeftKeeps
<1>3. \A y \in Things, b \in Buttons :
        On(y, b, l) <=> IF Goes(y, b, x, at) THEN b = Floor ELSE On(y, b, at)
  <2>1. Placed(at) /\ Floor \in Squares
    BY <1>1 DEF Squares
  <2> QED
    BY <2>1, CreatureMoves
<1>4. /\ Placed(at')
      /\ \A y \in Things, b \in Buttons :
           On(y, b, at') <=> IF Goes(y, b, x, at) THEN b = s ELSE On(y, b, at)
  <2> DEFINE w == Put(at, x, s)
  <2>1. Placed(at)
    BY <1>1
  <2>2. /\ Placed(w)
        /\ \A y \in Things, b \in Buttons :
             On(y, b, w) <=> IF Goes(y, b, x, at) THEN b = s ELSE On(y, b, at)
    BY <2>1, CreatureMoves
  <2>3. at' = w
    BY <1>1 DEF Put
  <2> HIDE DEF w
  <2> QED
    BY <2>2, <2>3
<1>5. Floor \notin Buttons
  BY GatesAssumption
<1>6. g1 \in BOOLEAN /\ g2 \in BOOLEAN /\ (s \notin Buttons /\ ~g2 => ~g1)
  BY <1>1 DEF Step, Move
<1> DEFINE w2 == at'
<1> HIDE DEF l, c, w2, g1, g2
<1>7. Held(l) \subseteq Held(w2)
  <2>1. \A y \in Things : \A b \in Buttons \ {} : On(y, b, l) => On(y, b, w2)
    BY <1>3, <1>4, <1>5 DEF w2
  <2>2. Held(l) \ {} \subseteq Held(w2)
    BY <2>1, HeldGrowsBut
  <2> QED
    BY <2>2
<1>8. ASSUME s \notin Buttons PROVE Held(w2) \subseteq Held(l)
  <2>1. \A y \in Things : \A b \in Buttons \ {} : On(y, b, w2) => On(y, b, l)
    BY <1>3, <1>4, <1>8 DEF w2
  <2>2. Held(w2) \ {} \subseteq Held(l)
    BY <2>1, HeldGrowsBut
  <2> QED
    BY <2>2
<1>9. ButtonsInv(w2, Landed(s, w2, c), slipped, g2) /\ NudgedGates(c, Landed(s, w2, c))
  <2>1. c \in Conn /\ DownHeard(c)
    BY <1>2 DEF ButtonsInv
  <2>2. s \notin Buttons /\ ~g2 => HeldDown(w2, c)
    BY <1>2, <1>6, <1>8 DEF ButtonsInv, HeldDown
  <2>3. ~slipped => ReleasedOrDown(w2, c)
    BY <1>2, <1>7 DEF ButtonsInv, ReleasedOrDown
  <2> QED
    BY <1>1, <1>6, <2>1, <2>2, <2>3, LandedKeeps
<1>10. ButtonsInv(at', conn', slipped', grown') /\ NudgedGates(c, conn') /\ grown' \in BOOLEAN
  BY <1>1, <1>6, <1>9 DEF w2, g2
<1>11. NudgedGates(conn, conn')
  BY <1>2, <1>10, NudgedTwice
<1> QED
  BY <1>1, <1>4, <1>10, <1>11, MoveKeeps

\* An item that is dropped, thrown or destroyed.
LEMMA ItemMoveKeeps ==
    ASSUME IInv, NEW i \in Items, NEW s \in Squares \cup {Gone},
           s \in Gates => ~conn.gate[s].blocks,
           at' = [at EXCEPT ![i] = s], conn' = Landed(s, at', conn),
           slipped' \in BOOLEAN, slipped => slipped',
           ~slipped' => OnlyOn(i, s, at),
           grown' = (grown /\ s \notin Buttons)
    PROVE  IInv'
<1>1. /\ Placed(at) /\ slipped \in BOOLEAN /\ grown \in BOOLEAN
      /\ ButtonsInv(at, conn, slipped, grown) /\ i \in Things
  BY DEF IInv, Things
<1> DEFINE w2 == [at EXCEPT ![i] = s]
           sl == slipped'
           gr == grown'
<1>2. /\ sl \in BOOLEAN /\ (slipped => sl)
      /\ (~sl => OnlyOn(i, s, at))
      /\ gr \in BOOLEAN /\ (s \notin Buttons /\ ~gr => ~grown)
  BY <1>1
<1> HIDE DEF sl, gr
<1>3. /\ Placed(w2)
      /\ ButtonsInv(w2, Landed(s, w2, conn), sl, gr)
      /\ NudgedGates(conn, Landed(s, w2, conn))
  <2>1. conn \in Conn /\ DownHeard(conn)
    BY <1>1 DEF ButtonsInv
  <2>2. s \notin Buttons /\ ~gr => HeldDown(at, conn)
    BY <1>1, <1>2 DEF ButtonsInv
  <2>3. ~sl => ReleasedOrDown(at, conn) /\ OnlyOn(i, s, at)
    BY <1>1, <1>2 DEF ButtonsInv
  <2> QED
    BY <1>1, <1>2, <2>1, <2>2, <2>3, ItemLandedKeeps
<1>4. /\ Placed(at') /\ ButtonsInv(at', conn', slipped', grown') /\ NudgedGates(conn, conn')
      /\ grown' \in BOOLEAN
  BY <1>2, <1>3 DEF sl, gr
<1> QED
  BY <1>1, <1>4, MoveKeeps

\* A step that is recorded as making nothing lighter, or nothing heavier, does not.
LEMMA HeldUnlessLighter ==
    ASSUME ~Lighter
    PROVE  Held(at) \subseteq Held(at')
<1>1. \A x \in Things : \A b \in Buttons \ {} : On(x, b, at) => On(x, b, at')
  BY DEF Lighter, Load
<1> DEFINE w2 == at'
<1> HIDE DEF w2
<1>2. \A x \in Things : \A b \in Buttons \ {} : On(x, b, at) => On(x, b, w2)
  BY <1>1 DEF w2
<1>3. Held(at) \ {} \subseteq Held(w2)
  BY <1>2, HeldGrowsBut
<1> QED
  BY <1>3 DEF w2

LEMMA HeldUnlessHeavier ==
    ASSUME ~Heavier
    PROVE  Held(at') \subseteq Held(at)
<1>1. \A x \in Things : \A b \in Buttons \ {} : On(x, b, at') => On(x, b, at)
  BY DEF Heavier, Load
<1> DEFINE w2 == at'
<1> HIDE DEF w2
<1>2. \A x \in Things : \A b \in Buttons \ {} : On(x, b, w2) => On(x, b, at)
  BY <1>1 DEF w2
<1>3. Held(w2) \ {} \subseteq Held(at)
  BY <1>2, HeldGrowsBut
<1> QED
  BY <1>3 DEF w2

LEMMA CarriedIsOn ==
    ASSUME Placed(at), NEW c \in Creatures, NEW i \in Items, at[i] = c
    PROVE  OnlyOn(i, at[c], at)
<1>1. \A b \in Buttons : b # c
  BY GatesAssumption DEF Things, Squares
<1> QED
  BY <1>1 DEF On, OnlyOn

\* An item taken into somebody's inventory works no button: what gets lighter or
\* heavier by it is recorded.
LEMMA TakenKeeps ==
    ASSUME IInv, NEW c \in Creatures, NEW i \in Items,
           at' = [at EXCEPT ![i] = c], conn' = conn,
           slipped' = (slipped \/ Lighter), grown' \in BOOLEAN, grown => grown',
           ~grown' => ~Heavier
    PROVE  IInv'
<1>1. /\ Placed(at) /\ slipped \in BOOLEAN /\ ButtonsInv(at, conn, slipped, grown)
      /\ i \in Things /\ conn \in Conn
  BY DEF IInv, Things, ButtonsInv
<1>2. slipped' \in BOOLEAN
  BY <1>1 DEF Lighter
<1>3. Placed(at')
  <2>1. c \in Squares \cup Creatures \cup {Gone}
    OBVIOUS
  <2> QED
    BY <1>1, <2>1, ItemMoves
<1>4. ~slipped' => ~slipped /\ Held(at) \subseteq Held(at')
  BY HeldUnlessLighter
<1>5. ~grown' => ~grown /\ Held(at') \subseteq Held(at)
  BY HeldUnlessHeavier
<1>6. ~grown' => HeldDown(at', conn')
  BY <1>1, <1>5 DEF ButtonsInv, HeldDown
<1>7. ~slipped' => ReleasedOrDown(at', conn')
  BY <1>1, <1>4 DEF ButtonsInv, ReleasedOrDown
<1>8. ButtonsInv(at', conn', slipped', grown')
  BY <1>1, <1>6, <1>7 DEF ButtonsInv
<1>9. NudgedGates(conn, conn')
  BY <1>1, NotNudged
<1>10. c \notin Gates
  BY GatesAssumption DEF Things, Squares
<1> QED
  BY <1>1, <1>2, <1>3, <1>8, <1>9, <1>10, MoveKeeps

\* What is picked up stays on the square, where it weighs as much as before or,
\* on a pedestal, nothing.
LEMMA PickUpKeeps ==
    ASSUME IInv, NEW c \in Creatures, NEW i \in Items, PickUp(c, i)
    PROVE  IInv'
<1>1. /\ Placed(at) /\ at[i] = at[c] /\ at' = [at EXCEPT ![i] = c] /\ conn' = conn
      /\ slipped' = (slipped \/ Lighter) /\ grown' = grown /\ grown \in BOOLEAN
  BY DEF IInv, PickUp
<1>2. c \in Squares \cup Creatures \cup {Gone}
  OBVIOUS
<1>3. /\ \A y \in Things \ {i}, b \in Buttons : On(y, b, at') => On(y, b, at)
      /\ \A b \in Buttons :
           On(i, b, at') <=> b = c \/ (b \notin Pedestals /\ c \in Creatures /\ at[c] = b)
  BY <1>1, <1>2, ItemMoves
<1>4. \A b \in Buttons : b # c
  BY GatesAssumption DEF Things, Squares
<1>5. \A b \in Buttons : On(i, b, at') => On(i, b, at)
  BY <1>1, <1>3, <1>4 DEF On
<1>6. ~Heavier
  BY <1>3, <1>5 DEF Heavier, Load
<1> QED
  BY <1>1, <1>6, TakenKeeps

\* What is stolen is recorded on both sides.
LEMMA StealKeeps ==
    ASSUME IInv, NEW c \in Creatures, NEW v \in Creatures, NEW i \in Items, Steal(c, v, i)
    PROVE  IInv'
<1>1. /\ at' = [at EXCEPT ![i] = c] /\ conn' = conn
      /\ slipped' = (slipped \/ Lighter) /\ grown' = (grown \/ Heavier) /\ grown \in BOOLEAN
  BY DEF IInv, Steal
<1>2. grown' \in BOOLEAN
  BY <1>1 DEF Heavier
<1> QED
  BY <1>1, <1>2, TakenKeeps

LEMMA DropKeeps ==
    ASSUME IInv, NEW c \in Creatures, NEW i \in Items, Drop(c, i)
    PROVE  IInv'
<1>1. /\ Placed(at) /\ Clear(at, conn) /\ slipped \in BOOLEAN
      /\ at[i] = c /\ at[c] \in Squares /\ c \in Things /\ i \notin Creatures
      /\ at' = [at EXCEPT ![i] = at[c]] /\ slipped' = slipped
  BY GatesAssumption DEF IInv, Drop, Move, Placed, Things
<1>2. conn' = Landed(at[c], at', conn) /\ grown' = (grown /\ at[c] \notin Buttons)
  BY <1>1 DEF Drop, Move, Left
<1>3. at[c] \in Gates => ~conn.gate[at[c]].blocks
  BY <1>1 DEF Clear, Stack
<1>4. OnlyOn(i, at[c], at)
  BY <1>1, CarriedIsOn
<1> QED
  BY <1>1, <1>2, <1>3, <1>4, ItemMoveKeeps

LEMMA ThrowKeeps ==
    ASSUME IInv, NEW c \in Creatures, NEW i \in Items, NEW s \in Squares, Throw(c, i, s)
    PROVE  IInv'
<1>1. /\ Placed(at) /\ slipped \in BOOLEAN /\ i \notin Creatures /\ i \in Things
      /\ at' = [at EXCEPT ![i] = s] /\ slipped' = (slipped \/ Lighter)
      /\ s \in Gates => ~conn.gate[s].blocks
  BY GatesAssumption DEF IInv, Throw, Move, Free, Things
<1>2. conn' = Landed(s, at', conn) /\ grown' = (grown /\ s \notin Buttons)
  BY <1>1 DEF Throw, Move, Left
<1>3. slipped' \in BOOLEAN
  BY <1>1 DEF Lighter
<1>4. at'[i] = s /\ s \notin Creatures
  BY <1>1, GatesAssumption DEF Placed, Things
<1>5. ASSUME ~Lighter, NEW b \in Buttons, On(i, b, at) PROVE b = s
  <2>1. On(i, b, at')
    BY <1>1, <1>5 DEF Lighter, Load
  <2> QED
    BY <1>4, <2>1 DEF On
<1>6. ~slipped' => OnlyOn(i, s, at)
  BY <1>1, <1>5 DEF OnlyOn
<1> QED
  BY <1>1, <1>2, <1>3, <1>6, ItemMoveKeeps

LEMMA DestroyKeeps ==
    ASSUME IInv, NEW i \in Items, Destroy(i)
    PROVE  IInv'
<1>1. /\ Placed(at) /\ slipped \in BOOLEAN /\ grown \in BOOLEAN /\ i \in Things
      /\ at' = [at EXCEPT ![i] = Gone] /\ slipped' = (slipped \/ Lighter)
      /\ conn' = conn /\ grown' = grown
      /\ Gone \notin Gates /\ Gone \notin Buttons /\ Gone \notin Creatures
  BY GatesAssumption DEF IInv, Destroy, Squares, Things
<1>2. conn' = Landed(Gone, at', conn) /\ grown' = (grown /\ Gone \notin Buttons)
  BY <1>1 DEF Landed
<1>3. slipped' \in BOOLEAN
  BY <1>1 DEF Lighter
<1>4. at'[i] = Gone
  BY <1>1 DEF Placed
<1>5. ASSUME ~Lighter, NEW b \in Buttons, On(i, b, at) PROVE b = Gone
  <2>1. On(i, b, at')
    BY <1>1, <1>5 DEF Lighter, Load
  <2> QED
    BY <1>1, <1>4, <2>1 DEF On
<1>6. ~slipped' => OnlyOn(i, Gone, at)
  BY <1>1, <1>5 DEF OnlyOn
<1>7. Gone \in Squares \cup {Gone}
  OBVIOUS
<1> QED
  BY <1>1, <1>2, <1>3, <1>6, <1>7, ItemMoveKeeps

LEMMA ReloadKeeps ==
    ASSUME IInv, Reload
    PROVE  IInv'
<1>1. /\ conn \in Conn /\ DownHeard(conn) /\ slipped \in BOOLEAN
      /\ ~slipped /\ Held(at) = {} => Released(conn)
      /\ GatesInv(conn) /\ Placed(at) /\ Clear(at, conn)
      /\ at' = at /\ slipped' = slipped /\ conn' = update_button(FirstLink, at, conn)
      /\ FirstLink \in Buttons /\ grown' = FALSE
  BY GatesAssumption DEF IInv, Reload, ButtonsInv, ReleasedOrDown
<1> DEFINE gr == grown'
<1>0. gr \in BOOLEAN
  BY <1>1
<1> HIDE DEF gr
<1>2. ButtonsInv(at, conn', slipped, gr)
  BY <1>0, <1>1, UpdateButtons
<1>3. NudgedGates(conn, conn')
  BY <1>1, UpdateNudges
<1>4. GatesInv(conn')
  BY <1>1, <1>3, NudgedOK
<1>5. Clear(at, conn')
  BY <1>1, <1>3 DEF Clear, NudgedGates, Nudged
<1> QED
  BY <1>0, <1>1, <1>2, <1>4, <1>5 DEF IInv, gr

-----------------------------------------------------------------------------
(***************************************************************************)
(* gate_type_process.                                                      *)
(***************************************************************************)
LEMMA Heights ==
    /\ NumAnimations \in Nat /\ NumAnimations >= 5
    /\ Half \in Nat /\ Top \in Nat /\ Half + 2 <= Top
  BY GatesAssumption DEF Half, Top

LEMMA GateNow ==
    ASSUME IInv, NEW g \in Gates
    PROVE  /\ conn \in Conn /\ conn.gate[g] \in Gate
           /\ conn.gate[g].wc \in 0..Top
           /\ GateOK(conn.gate[g])
           /\ conn.gate[g].blocks => Stack(g, at) = {}
<1>1. conn \in Conn /\ GateOK(conn.gate[g]) /\ (conn.gate[g].blocks => Stack(g, at) = {})
  BY DEF IInv, ButtonsInv, GatesInv, Clear
<1>2. conn.gate[g] \in Gate
  BY <1>1, ConnFields
<1> QED
  BY <1>1, <1>2 DEF Gate, Top

LEMMA LowerKeeps ==
    ASSUME IInv, NEW g \in Gates, slipped' = slipped, Lower(g)
    PROVE  IInv'
<1> DEFINE k  == conn.gate[g]
           wc == IF k.wc <= 1 THEN 0 ELSE k.wc - 1
           mv == k.wc > 1
           bl == k.blocks /\ wc > Half
           n  == [k EXCEPT !.wc = wc, !.moving = mv, !.blocks = bl]
<1>1. k \in Gate /\ k.wc \in 0..Top /\ GateOK(k) /\ k.value
  BY GateNow DEF Lower
<1>2. at' = at /\ grown' = grown /\ conn' = SetGate(conn, g, n)
  BY DEF Lower
<1> HIDE DEF k
<1>3. wc \in 0..NumAnimations - 1 /\ wc <= k.wc /\ (~mv => wc = 0)
  BY <1>1, Heights DEF Top
<1>4. mv \in BOOLEAN /\ bl \in BOOLEAN /\ (bl <=> k.blocks /\ wc > Half)
  OBVIOUS
<1> HIDE DEF wc, mv, bl
<1>5. /\ n \in Gate /\ n.value = k.value /\ n.wc = wc /\ n.moving = mv
      /\ n.food = k.food /\ n.blocks = bl
  BY <1>1, <1>3, <1>4 DEF Gate
<1> HIDE DEF n
<1>6. k.wc \in Nat /\ wc \in Nat
  BY <1>1, <1>3
<1>7. n.blocks => ~n.food /\ n.wc >= Half
  BY <1>1, <1>4, <1>5, <1>6, Heights DEF GateOK
<1>8. ~n.blocks => n.wc <= Half + 1
  BY <1>1, <1>3, <1>4, <1>5, <1>6, Heights DEF GateOK
<1>9. ~n.blocks /\ ~n.food => n.wc <= Half
  BY <1>1, <1>3, <1>4, <1>5, <1>6, Heights DEF GateOK
<1>10. ~n.moving => n.value /\ n.wc = 0 /\ ~n.blocks
  BY <1>1, <1>3, <1>4, <1>5, <1>6, Heights
<1>11. GateOK(n)
  BY <1>7, <1>8, <1>9, <1>10 DEF GateOK
<1> QED
  BY <1>2, <1>4, <1>5, <1>11, GateStep DEF k

LEMMA StopAtTopKeeps ==
    ASSUME IInv, NEW g \in Gates, slipped' = slipped, StopAtTop(g)
    PROVE  IInv'
<1> DEFINE k == conn.gate[g]
           n == [k EXCEPT !.moving = FALSE]
<1>1. k \in Gate /\ k.wc \in 0..Top /\ GateOK(k) /\ ~k.value /\ k.wc = Top
  BY GateNow DEF StopAtTop, Closed
<1>2. at' = at /\ grown' = grown /\ conn' = SetGate(conn, g, n)
  BY DEF StopAtTop
<1> HIDE DEF k
<1>3. /\ n \in Gate /\ n.value = k.value /\ n.wc = k.wc /\ n.moving = FALSE
      /\ n.food = k.food /\ n.blocks = k.blocks
  BY <1>1 DEF Gate
<1> HIDE DEF n
<1>4. k.blocks
  BY <1>1, Heights DEF GateOK
<1>5. GateOK(n)
  BY <1>1, <1>3, <1>4, Heights DEF GateOK
<1> QED
  BY <1>2, <1>3, <1>4, <1>5, GateStep DEF k

LEMMA GiveWayKeeps ==
    ASSUME IInv, NEW g \in Gates, slipped' = slipped, conn.gate[g].moving, GiveWay(g)
    PROVE  IInv'
<1> DEFINE k  == conn.gate[g]
           wc == IF k.wc <= 1 THEN 0 ELSE k.wc - 1
           fd == k.wc > 1
           n  == [k EXCEPT !.wc = wc, !.food = fd]
<1>1. k \in Gate /\ k.wc \in 0..Top /\ GateOK(k) /\ ~k.value /\ k.food /\ k.moving
  BY GateNow DEF GiveWay
<1>2. at' = at /\ grown' = grown /\ conn' = SetGate(conn, g, n)
  BY DEF GiveWay
<1> HIDE DEF k
<1>3. wc \in 0..NumAnimations - 1 /\ wc <= k.wc /\ (~fd => wc = 0)
  BY <1>1, Heights DEF Top
<1>4. fd \in BOOLEAN
  OBVIOUS
<1> HIDE DEF wc, fd
<1>5. /\ n \in Gate /\ n.value = k.value /\ n.wc = wc /\ n.moving = k.moving
      /\ n.food = fd /\ n.blocks = k.blocks
  BY <1>1, <1>3, <1>4 DEF Gate
<1> HIDE DEF n
<1>6. ~k.blocks /\ k.wc <= Half + 1
  BY <1>1 DEF GateOK
<1>7. k.wc \in Nat /\ wc \in Nat
  BY <1>1, <1>3
<1>8. n.wc <= Half + 1 /\ (~n.food => n.wc <= Half) /\ n.moving /\ ~n.blocks
  BY <1>1, <1>3, <1>5, <1>6, <1>7, Heights
<1>9. GateOK(n)
  BY <1>8 DEF GateOK
<1> QED
  BY <1>2, <1>5, <1>6, <1>9, GateStep DEF k

\* A gate on its way up, one step higher.
LEMMA RaisedFields ==
    ASSUME IInv, NEW g \in Gates
    PROVE  /\ Raised(g) \in Gate
           /\ Raised(g).value = conn.gate[g].value
           /\ Raised(g).moving = conn.gate[g].moving
           /\ Raised(g).food = conn.gate[g].food
           /\ Raised(g).blocks = conn.gate[g].blocks
           /\ Raised(g).wc >= conn.gate[g].wc
           /\ Raised(g).wc <= conn.gate[g].wc + 1
<1> DEFINE k  == conn.gate[g]
           wc == IF k.wc < Top THEN k.wc + 1 ELSE Top
<1>1. k \in Gate /\ k.wc \in 0..Top
  BY GateNow
<1>2. Raised(g) = [k EXCEPT !.wc = wc]
  BY DEF Raised
<1> HIDE DEF k
<1>3. wc \in 0..NumAnimations - 1 /\ wc >= k.wc /\ wc <= k.wc + 1
  BY <1>1, Heights DEF Top
<1> HIDE DEF wc
<1>4. /\ Raised(g) \in Gate /\ Raised(g).value = k.value /\ Raised(g).moving = k.moving
      /\ Raised(g).food = k.food /\ Raised(g).blocks = k.blocks /\ Raised(g).wc = wc
  BY <1>1, <1>2, <1>3 DEF Gate
<1> QED
  BY <1>3, <1>4 DEF k

LEMMA RiseFreelyKeeps ==
    ASSUME IInv, NEW g \in Gates, slipped' = slipped, conn.gate[g].moving, RiseFreely(g)
    PROVE  IInv'
<1> DEFINE k == conn.gate[g]
           n == Raised(g)
<1>1. k \in Gate /\ k.wc \in 0..Top /\ GateOK(k) /\ ~k.food /\ k.moving /\ n.wc < Half
  BY GateNow DEF RiseFreely
<1>2. at' = at /\ grown' = grown /\ conn' = SetGate(conn, g, n)
  BY DEF RiseFreely
<1>3. /\ n \in Gate /\ n.value = k.value /\ n.moving = k.moving
      /\ n.food = k.food /\ n.blocks = k.blocks /\ n.wc >= k.wc
  BY RaisedFields
<1> HIDE DEF k, n
<1>4. n.wc \in Nat
  BY <1>3 DEF Gate
<1>5. GateOK(n) /\ ~k.blocks
  BY <1>1, <1>3, <1>4, Heights DEF GateOK
<1> QED
  BY <1>2, <1>3, <1>5, GateStep DEF k

\* Half-way or further: whatever became of the thing on top, the gate gives way
\* to what is on it now, or blocks.
LEMMA SettledKeeps ==
    ASSUME IInv, NEW g \in Gates, conn.gate[g].moving, ~conn.gate[g].food,
           Raised(g).wc >= Half,
           NEW c2, NudgedGates(SetGate(conn, g, Raised(g)), c2),
           Placed(at'), slipped' \in BOOLEAN, grown' \in BOOLEAN, ButtonsInv(at', c2, slipped', grown'),
           \A h \in Gates : conn.gate[h].blocks => Stack(h, at') = {},
           conn' = Settled(g, at', c2)
    PROVE  IInv'
<1> DEFINE c1 == SetGate(conn, g, Raised(g))
           k  == conn.gate[g]
           k2 == c2.gate[g]
           n  == IF Stack(g, at') = {} THEN [k2 EXCEPT !.blocks = TRUE]
                                       ELSE [k2 EXCEPT !.food = TRUE]
<1>1. conn \in Conn /\ k \in Gate /\ k.wc \in 0..Top /\ GateOK(k) /\ GatesInv(conn) /\ c2 \in Conn
  BY GateNow DEF IInv, ButtonsInv
<1>2. /\ Raised(g) \in Gate /\ Raised(g).moving = k.moving
      /\ Raised(g).food = k.food /\ Raised(g).blocks = k.blocks
      /\ Raised(g).wc <= k.wc + 1
  BY RaisedFields
<1>3. c1 \in Conn /\ c1.gate[g] = Raised(g) /\ \A h \in Gates \ {g} : c1.gate[h] = conn.gate[h]
  BY <1>1, <1>2, SetGateFields
<1>4. k2 \in Gate
  BY <1>1, ConnFields
<1>5. /\ k2.wc = Raised(g).wc /\ k2.food = k.food /\ k2.blocks = k.blocks /\ k2.moving
  BY <1>2, <1>3 DEF NudgedGates, Nudged
<1>6. conn' = SetGate(c2, g, n)
  BY DEF Settled
<1>7. conn.gate[g].blocks => Stack(g, at') = {}
  OBVIOUS
<1>8. k.food = FALSE
  BY <1>1 DEF Gate
<1> DEFINE empty == Stack(g, at') = {}
<1>9. k.blocks => empty
  BY <1>7
<1> HIDE DEF k, k2, c1
<1>10. /\ n \in Gate /\ n.value = k2.value /\ n.wc = k2.wc /\ n.moving = k2.moving
       /\ n.blocks = (k2.blocks \/ empty)
       /\ n.food = (k2.food \/ ~empty)
  <2>1. CASE empty
    BY <1>4, <2>1 DEF Gate
  <2>2. CASE ~empty
    BY <1>4, <2>2 DEF Gate
  <2> QED
    BY <2>1, <2>2
<1> HIDE DEF n, empty
<1>11. GateOK(n)
  <2>1. n.moving /\ n.wc \in Nat /\ n.wc >= Half /\ n.wc <= k.wc + 1
    BY <1>2, <1>5, <1>10 DEF Gate
  <2>2. CASE empty
    BY <1>5, <1>8, <1>10, <2>1, <2>2 DEF GateOK
  <2>3. CASE ~empty
    <3>1. ~k.blocks
      BY <1>9, <2>3
    <3>2. k.wc <= Half
      BY <1>1, <1>8, <3>1 DEF GateOK
    <3>3. n.wc <= Half + 1
      BY <1>1, <2>1, <3>2, Heights
    <3>4. n.food /\ ~n.blocks
      BY <1>5, <1>10, <2>3, <3>1
    <3> QED
      BY <2>1, <3>3, <3>4 DEF GateOK
  <2> QED
    BY <2>2, <2>3
<1>12. conn'.gate[g] = n /\ \A h \in Gates \ {g} : conn'.gate[h] = c2.gate[h]
  BY <1>1, <1>6, <1>10, SetGateFields
<1>13. \A h \in Gates \ {g} : Nudged(conn.gate[h], c2.gate[h])
  BY <1>3 DEF NudgedGates, c1
<1>14. GatesInv(conn')
  <2> SUFFICES ASSUME NEW h \in Gates PROVE GateOK(conn'.gate[h])
    BY DEF GatesInv
  <2>1. CASE h = g
    BY <2>1, <1>11, <1>12
  <2>2. CASE h # g
    <3>1. Nudged(conn.gate[h], conn'.gate[h]) /\ GateOK(conn.gate[h])
      BY <2>2, <1>1, <1>12, <1>13 DEF GatesInv
    <3> QED
      BY <3>1 DEF GateOK, Nudged
  <2> QED
    BY <2>1, <2>2
<1>15. Clear(at', conn')
  <2> SUFFICES ASSUME NEW h \in Gates, conn'.gate[h].blocks PROVE Stack(h, at') = {}
    BY DEF Clear
  <2>1. CASE h = g
    BY <2>1, <1>5, <1>9, <1>10, <1>12 DEF empty
  <2>2. CASE h # g
    BY <2>2, <1>12, <1>13 DEF Nudged
  <2> QED
    BY <2>1, <2>2
<1>16. ButtonsInv(at', conn', slipped', grown')
  <2>1. n.value = c2.gate[g].value
    BY <1>10 DEF k2
  <2> QED
    BY <1>6, <1>10, <2>1, SetGateKeeps
<1> QED
  BY <1>14, <1>15, <1>16 DEF IInv

\* The gate one step higher, before anybody on it is dealt with.
LEMMA RaisedConn ==
    ASSUME IInv, NEW g \in Gates
    PROVE  /\ ButtonsInv(at, SetGate(conn, g, Raised(g)), slipped, grown)
           /\ NudgedGates(SetGate(conn, g, Raised(g)), SetGate(conn, g, Raised(g)))
<1>1. ButtonsInv(at, conn, slipped, grown) /\ slipped \in BOOLEAN /\ grown \in BOOLEAN
  BY DEF IInv
<1>2. Raised(g) \in Gate /\ Raised(g).value = conn.gate[g].value
  BY RaisedFields
<1>3. ButtonsInv(at, SetGate(conn, g, Raised(g)), slipped, grown)
  BY <1>1, <1>2, SetGateKeeps
<1>4. SetGate(conn, g, Raised(g)) \in Conn
  BY <1>3 DEF ButtonsInv
<1> QED
  BY <1>3, <1>4, NotNudged

\* Nothing on top, or something that stays.
LEMMA StayKeeps ==
    ASSUME IInv, NEW g \in Gates, conn.gate[g].moving, ~conn.gate[g].food,
           Raised(g).wc >= Half, at' = at, slipped' = slipped, grown' = grown,
           conn' = Settled(g, at', SetGate(conn, g, Raised(g)))
    PROVE  IInv'
<1>1. /\ Placed(at') /\ slipped' \in BOOLEAN /\ grown' \in BOOLEAN
      /\ \A h \in Gates : conn.gate[h].blocks => Stack(h, at') = {}
  BY DEF IInv, Clear
<1>2. /\ ButtonsInv(at', SetGate(conn, g, Raised(g)), slipped', grown')
      /\ NudgedGates(SetGate(conn, g, Raised(g)), SetGate(conn, g, Raised(g)))
  BY RaisedConn
<1> QED
  BY <1>1, <1>2, SettledKeeps

\* Who is crushed is off the map, and what a monster carried lies in the gate.
AfterDeath(g, x) ==
    [y \in Things |-> IF y = x THEN Floor
                      ELSE IF x \in Monsters /\ at[y] = x THEN g ELSE at[y]]

LEMMA DeathMoves ==
    ASSUME Placed(at), NEW g \in Gates, NEW x \in Creatures, at[x] = g
    PROVE  /\ Placed(AfterDeath(g, x))
           /\ Held(AfterDeath(g, x)) = Held(at)
           /\ \A y \in Things : AfterDeath(g, x)[y] \in {Floor, g, at[y]}
<1> DEFINE w == AfterDeath(g, x)
<1>1. /\ x \in Things /\ x \notin Squares /\ g \in Squares /\ Floor \in Squares
      /\ g \notin Buttons /\ Floor \notin Buttons /\ g \notin Creatures /\ Floor \notin Creatures
  BY GatesAssumption DEF Things, Squares
<1>2. \A y \in Things : w[y] = IF y = x THEN Floor
                               ELSE IF x \in Monsters /\ at[y] = x THEN g ELSE at[y]
  BY DEF AfterDeath
<1>3. w = [y \in Things |-> w[y]]
  BY DEF AfterDeath
<1> HIDE DEF w
<1>4. \A c \in Creatures : c \in Things /\ w[c] \in Squares /\ (c # x => w[c] = at[c])
  BY <1>1, <1>2 DEF Placed, Things
<1>5. \A y \in Things : w[y] \in Squares \cup Creatures \cup {Gone}
  BY <1>1, <1>2 DEF Placed
<1>6. Placed(w)
  BY <1>3, <1>4, <1>5 DEF Placed
<1>7. ASSUME NEW y \in Things, NEW b \in Buttons
      PROVE  On(y, b, w) <=> On(y, b, at)
  <2>0. b # g /\ b # Floor /\ b # x /\ b \notin Creatures
    BY <1>1, GatesAssumption DEF Things, Squares
  <2>1. CASE y = x
    BY <2>0, <2>1, <1>1, <1>2 DEF On
  <2>2. CASE y # x /\ at[y] = x
    <3>1. ~On(y, b, at)
      BY <2>0, <2>2 DEF On
    <3>2. w[y] = g \/ (w[y] = x /\ w[x] = Floor)
      BY <2>2, <1>1, <1>2
    <3>3. ~On(y, b, w)
      BY <3>2, <2>0, <1>1 DEF On
    <3> QED
      BY <3>1, <3>3
  <2>3. CASE y # x /\ at[y] # x
    <3>1. w[y] = at[y]
      BY <2>3, <1>2
    <3>2. at[y] \in Creatures => w[at[y]] = at[at[y]]
      BY <2>3, <1>4
    <3> QED
      BY <3>1, <3>2 DEF On
  <2> QED
    BY <2>1, <2>2, <2>3
<1>8. \A b \in Buttons : Load(b, w) = Load(b, at)
  BY <1>7 DEF Load
<1>9. Held(w) = Held(at)
  BY <1>8 DEF Held
<1>10. \A y \in Things : w[y] \in {Floor, g, at[y]}
  BY <1>2
<1> QED
  BY <1>6, <1>9, <1>10 DEF w

LEMMA CrushKeeps ==
    ASSUME IInv, NEW g \in Gates, conn.gate[g].moving, ~conn.gate[g].food,
           Raised(g).wc >= Half, slipped' = slipped,
           NEW x \in Stack(g, at), NEW dies \in BOOLEAN, Crush(g, x, dies)
    PROVE  IInv'
<1> DEFINE c1 == SetGate(conn, g, Raised(g))
<1>1. conn' = Settled(g, at', c1)
  BY DEF Crush
<1>2. CASE ~dies
  <2>1. at' = at /\ grown' = grown
    BY <1>2 DEF Crush
  <2> QED
    BY <1>1, <2>1, StayKeeps
<1>3. CASE dies
  <2>1. at' = AfterDeath(g, x) /\ x \in Creatures /\ at[x] = g
    BY <1>3 DEF Crush, AfterDeath, Stack
  <2>2. /\ Placed(at) /\ ButtonsInv(at, c1, slipped, grown) /\ NudgedGates(c1, c1)
        /\ slipped' \in BOOLEAN /\ grown' = grown /\ grown' \in BOOLEAN
    BY RaisedConn DEF IInv, Crush
  <2>3. /\ Placed(at') /\ Held(at') = Held(at)
        /\ \A y \in Things : at'[y] \in {Floor, g, at[y]}
    BY <2>1, <2>2, DeathMoves
  <2> DEFINE w == at'
  <2> HIDE DEF c1, w
  <2>4. Held(w) = Held(at)
    BY <2>3 DEF w
  <2>5. ButtonsInv(w, c1, slipped, grown)
    BY <2>2, <2>4 DEF ButtonsInv, HeldDown, ReleasedOrDown
  <2>6. ASSUME NEW h \in Gates, conn.gate[h].blocks PROVE Stack(h, at') = {}
    <3>1. Stack(h, at) = {} /\ h # g /\ h # Floor
      BY <2>6, GatesAssumption DEF IInv, Clear
    <3> QED
      BY <3>1, <2>3 DEF Stack
  <2>7. ButtonsInv(at', c1, slipped', grown')
    BY <2>2, <2>5 DEF w
  <2> QED
    BY <1>1, <2>2, <2>3, <2>6, <2>7, SettledKeeps DEF c1
<1> QED
  BY <1>2, <1>3

LEMMA RollOffKeeps ==
    ASSUME IInv, NEW g \in Gates, conn.gate[g].moving, ~conn.gate[g].food,
           Raised(g).wc >= Half, slipped' = slipped,
           NEW x \in Stack(g, at), NEW s \in Squares, RollOff(g, x, s)
    PROVE  IInv'
<1> DEFINE c1 == SetGate(conn, g, Raised(g))
           w  == [at EXCEPT ![x] = s]
           c2 == Landed(s, w, c1)
           gr == grown'
<1>1. /\ x \in Items /\ at' = w /\ conn' = Settled(g, at', c2)
      /\ s = g \/ (s \in Gates => ~conn.gate[s].blocks)
      /\ grown' = (grown /\ s \notin Buttons)
  BY DEF RollOff, Free
<1>2. /\ Placed(at) /\ ButtonsInv(at, c1, slipped, grown)
      /\ slipped \in BOOLEAN /\ grown \in BOOLEAN
  BY RaisedConn DEF IInv
<1>3. \A b \in Buttons : ~On(x, b, at)
  <2>1. at[x] = g /\ g \notin Creatures /\ g \notin Buttons
    BY GatesAssumption DEF Stack, Things, Squares
  <2> QED
    BY <2>1 DEF On
<1>4. /\ s \in Squares \cup {Gone} /\ gr \in BOOLEAN /\ (s \notin Buttons /\ ~gr => ~grown)
      /\ OnlyOn(x, s, at)
  BY <1>1, <1>2, <1>3 DEF OnlyOn
<1> HIDE DEF c1, gr
<1>5. Placed(w) /\ ButtonsInv(w, c2, slipped, gr) /\ NudgedGates(c1, c2)
  <2>1. c1 \in Conn /\ DownHeard(c1)
    BY <1>2 DEF ButtonsInv
  <2>2. s \notin Buttons /\ ~gr => HeldDown(at, c1)
    BY <1>2, <1>4 DEF ButtonsInv
  <2>3. ~slipped => ReleasedOrDown(at, c1) /\ OnlyOn(x, s, at)
    BY <1>2, <1>4 DEF ButtonsInv
  <2> QED
    BY <1>1, <1>2, <1>4, <2>1, <2>2, <2>3, ItemLandedKeeps
<1>6. ASSUME NEW h \in Gates, conn.gate[h].blocks PROVE Stack(h, at') = {}
  <2>1. Stack(h, at) = {}
    BY <1>6 DEF IInv, Clear
  <2>2. h # g /\ h # s
    BY <1>1, <1>6, <2>1
  <2>3. \A y \in Things : at'[y] = s \/ at'[y] = at[y]
    BY <1>1, <1>2 DEF Placed
  <2> QED
    BY <2>1, <2>2, <2>3 DEF Stack
<1> HIDE DEF c2
<1>7. /\ Placed(at') /\ ButtonsInv(at', c2, slipped', grown')
      /\ slipped' \in BOOLEAN /\ grown' \in BOOLEAN
  BY <1>1, <1>2, <1>4, <1>5 DEF gr
<1> QED
  BY <1>1, <1>5, <1>6, <1>7, SettledKeeps DEF c1

LEMMA GateKeeps ==
    ASSUME IInv, NEW g \in Gates, gate_type_process(g)
    PROVE  IInv'
<1>1. conn.gate[g].moving /\ slipped' = slipped
  BY DEF gate_type_process
<1>2. CASE Lower(g)
  BY <1>1, <1>2, LowerKeeps
<1>3. CASE StopAtTop(g)
  BY <1>1, <1>3, StopAtTopKeeps
<1>4. CASE GiveWay(g)
  BY <1>1, <1>4, GiveWayKeeps
<1>5. CASE RiseFreely(g)
  BY <1>1, <1>5, RiseFreelyKeeps
<1>6. CASE RiseAgainst(g)
  <2>1. ~conn.gate[g].food /\ Raised(g).wc >= Half
    BY <1>6 DEF RiseAgainst
  <2>2. CASE at' = at /\ grown' = grown /\ conn' = Settled(g, at, SetGate(conn, g, Raised(g)))
    <3>1. conn' = Settled(g, at', SetGate(conn, g, Raised(g)))
      BY <2>2
    <3> QED
      BY <1>1, <2>1, <2>2, <3>1, StayKeeps
  <2>3. ASSUME NEW x \in Stack(g, at), NEW dies \in BOOLEAN, Crush(g, x, dies) PROVE IInv'
    BY <1>1, <2>1, <2>3, CrushKeeps
  <2>4. ASSUME NEW x \in Stack(g, at), NEW s \in Squares, RollOff(g, x, s) PROVE IInv'
    BY <1>1, <2>1, <2>4, RollOffKeeps
  <2> QED
    BY <1>6, <2>2, <2>3, <2>4 DEF RiseAgainst
<1> QED
  BY <1>2, <1>3, <1>4, <1>5, <1>6 DEF gate_type_process

-----------------------------------------------------------------------------
(***************************************************************************)
(* The theorems.                                                           *)
(***************************************************************************)
LEMMA OpenOK ==
    ASSUME NEW k, k = [value |-> TRUE, wc |-> 0, moving |-> FALSE, food |-> FALSE, blocks |-> FALSE]
    PROVE  k \in Gate /\ GateOK(k)
<1>1. 0 \in 0..NumAnimations - 1
  BY Heights
<1>2. k \in Gate
  BY <1>1 DEF Gate
<1>3. GateOK(k)
  BY Heights DEF GateOK
<1> QED
  BY <1>2, <1>3

LEMMA ShutOK ==
    ASSUME NEW k, k = [value |-> FALSE, wc |-> Top, moving |-> FALSE, food |-> FALSE, blocks |-> TRUE]
    PROVE  k \in Gate /\ GateOK(k)
<1>1. Top \in 0..NumAnimations - 1
  BY Heights DEF Top
<1>2. k \in Gate
  BY <1>1 DEF Gate
<1>3. GateOK(k)
  BY Heights DEF GateOK
<1> QED
  BY <1>2, <1>3

LEMMA ToldReleased ==
    ASSUME NEW g \in Gates
    PROVE  Told(g, FALSE) = (g \in Inverted)
<1> SUFFICES ASSUME NEW state \in BOOLEAN, ~state
             PROVE  Told(g, state) = (g \in Inverted)
  OBVIOUS
<1>1. Told(g, state) \in BOOLEAN /\ (Told(g, state) <=> g \in Inverted)
  BY DEF Told
<1> QED
  BY <1>1

LEMMA AtRestOK ==
    ASSUME NEW open \in BOOLEAN
    PROVE  AtRest(open) \in Gate /\ AtRest(open).value = open /\ GateOK(AtRest(open))
<1> DEFINE k == AtRest(open)
<1>1. CASE open
  <2>1. k = [value |-> TRUE, wc |-> 0, moving |-> FALSE, food |-> FALSE, blocks |-> FALSE]
    BY <1>1 DEF AtRest
  <2> HIDE DEF k
  <2>2. k \in Gate /\ GateOK(k)
    BY <2>1, OpenOK
  <2>3. k.value = open
    BY <1>1, <2>1
  <2> QED
    BY <2>2, <2>3 DEF k
<1>2. CASE ~open
  <2>1. k = [value |-> FALSE, wc |-> Top, moving |-> FALSE, food |-> FALSE, blocks |-> TRUE]
    BY <1>2 DEF AtRest
  <2> HIDE DEF k
  <2>2. k \in Gate /\ GateOK(k)
    BY <2>1, ShutOK
  <2>3. k.value = open
    BY <1>2, <2>1
  <2> QED
    BY <2>2, <2>3 DEF k
<1> QED
  BY <1>1, <1>2

LEMMA InitIInv ==
    ASSUME Init
    PROVE  IInv
<1> DEFINE k(g) == AtRest(g \in Inverted)
<1>1. /\ at = [x \in Things |-> Floor] /\ slipped = FALSE /\ grown = FALSE
      /\ conn.down = [b \in Buttons |-> FALSE]
      /\ conn.gate = [g \in Gates |-> k(g)]
      /\ conn = [down |-> conn.down, gate |-> conn.gate]
  BY DEF Init
<1>2. Floor \in Squares /\ Floor \notin Creatures /\ Floor \notin Buttons \cup Gates
  BY GatesAssumption DEF Things, Squares
<1>3. Placed(at)
  BY <1>1, <1>2 DEF Placed, Things
<1>4. \A y \in Things, b \in Buttons : ~On(y, b, at)
  BY <1>1, <1>2 DEF On
<1>5. \A b \in Buttons : Load(b, at) = {}
  BY <1>2, <1>4 DEF Load
<1>6. Held(at) = {}
  BY <1>5, GatesAssumption DEF Held
<1>7. ASSUME NEW g \in Gates
      PROVE  k(g) \in Gate /\ k(g).value = Told(g, FALSE) /\ GateOK(k(g))
  <2>1. (g \in Inverted) \in BOOLEAN
    OBVIOUS
  <2>2. Told(g, FALSE) = (g \in Inverted)
    BY ToldReleased
  <2> QED
    BY <2>1, <2>2, AtRestOK
<1> HIDE DEF k
<1>8. \A g \in Gates : conn.gate[g] = k(g)
  BY <1>1
<1>9. conn.down \in [Buttons -> BOOLEAN] /\ conn.gate \in [Gates -> Gate]
  BY <1>1, <1>7
<1>10. conn \in Conn
  BY <1>1, <1>9 DEF Conn
<1>11. HeldDown(at, conn) /\ DownHeard(conn)
  BY <1>1, <1>6 DEF HeldDown, DownHeard
<1>12. Released(conn)
  BY <1>7, <1>8 DEF Released
<1>13. GatesInv(conn)
  BY <1>7, <1>8 DEF GatesInv
<1>14. Clear(at, conn)
  <2>1. \A g \in Gates : Stack(g, at) = {}
    BY <1>1, <1>2 DEF Stack
  <2> QED
    BY <2>1 DEF Clear
<1> QED
  BY <1>1, <1>3, <1>10, <1>11, <1>12, <1>13, <1>14 DEF IInv, ButtonsInv, ReleasedOrDown

LEMMA NextKeeps ==
    ASSUME IInv, [Next]_vars
    PROVE  IInv'
<1>1. CASE UNCHANGED vars
  <2>1. at' = at /\ conn' = conn /\ slipped' = slipped /\ grown' = grown
    BY <1>1 DEF vars
  <2> QED
    BY <2>1 DEF IInv
<1>2. ASSUME NEW c \in Creatures, NEW s \in Squares, Step(c, s) PROVE IInv'
  BY <1>2, StepKeeps
<1>3. ASSUME NEW c \in Creatures, NEW i \in Items, PickUp(c, i) PROVE IInv'
  BY <1>3, PickUpKeeps
<1>4. ASSUME NEW c \in Creatures, NEW i \in Items, Drop(c, i) PROVE IInv'
  BY <1>4, DropKeeps
<1>5. ASSUME NEW c \in Creatures, NEW i \in Items, NEW s \in Squares, Throw(c, i, s) PROVE IInv'
  BY <1>5, ThrowKeeps
<1>6. ASSUME NEW i \in Items, Destroy(i) PROVE IInv'
  BY <1>6, DestroyKeeps
<1>7. ASSUME NEW g \in Gates, gate_type_process(g) PROVE IInv'
  BY <1>7, GateKeeps
<1>8. CASE Reload
  BY <1>8, ReloadKeeps
<1>9. ASSUME NEW c \in Creatures, NEW v \in Creatures, NEW i \in Items, Steal(c, v, i) PROVE IInv'
  BY <1>9, StealKeeps
<1> QED
  BY <1>1, <1>2, <1>3, <1>4, <1>5, <1>6, <1>7, <1>8, <1>9 DEF Next

\* The invariant holds in every reachable state.
THEOREM GatesInvariant == Spec => []IInv
<1>1. Init => IInv
  BY InitIInv
<1>2. IInv /\ [Next]_vars => IInv'
  BY NextKeeps
<1> QED
  BY <1>1, <1>2, PTL DEF Spec

\* Every variable keeps its type: things are on squares, or carried by creatures
\* that are, and the animation of a gate stays in its range.
THEOREM GatesTypeCorrect == Spec => []TypeOK
<1>1. IInv => TypeOK
  BY DEF IInv, TypeOK, Placed, ButtonsInv
<1> QED
  BY <1>1, GatesInvariant, PTL

\* As long as any button of the connection is held down, every gate that hears
\* pushes has been told of it, unless a thief has made a load heavier since
\* update_button was last called: update_button never releases the others' hold,
\* and makes up for what no call of it noticed.
THEOREM HeldButtonsAreHeard == Spec => []HeldButtonsHeard
<1>1. IInv => HeldButtonsHeard
  <2> SUFFICES ASSUME IInv, ~grown, NEW b \in Held(at), NEW g \in Gates \cap OnPush
               PROVE  conn.gate[g].value = Told(g, TRUE)
    BY DEF HeldButtonsHeard
  <2>1. b \in Buttons /\ conn.down[b]
    BY DEF Held, IInv, ButtonsInv, HeldDown
  <2> QED
    BY <2>1 DEF IInv, ButtonsInv, DownHeard
<1> QED
  BY <1>1, GatesInvariant, PTL

\* When no button is held down every gate that hears releases has been told,
\* unless a load once shrank without update_button.
THEOREM ReleasesAreHeard == Spec => []ReleaseHeard
<1>1. IInv => ReleaseHeard
  BY DEF IInv, ButtonsInv, Released, ReleasedOrDown, ReleaseHeard
<1> QED
  BY <1>1, GatesInvariant, PTL

\* A gate never blocks on top of anybody or anything.
THEOREM GatesStayClear == Spec => []NobodyInGate
<1>1. IInv => NobodyInGate
  BY DEF IInv, Clear, NobodyInGate
<1> QED
  BY <1>1, GatesInvariant, PTL

\* A gate at rest is all the way down and open, or all the way up and blocks.
THEOREM GatesAtRestAgree == Spec => []ClosedGateBlocks
<1>1. IInv => ClosedGateBlocks
  BY DEF IInv, GatesInv, GateOK, ClosedGateBlocks
<1> QED
  BY <1>1, GatesInvariant, PTL
=============================================================================
