------------------------------- MODULE Gates --------------------------------
(***************************************************************************)
(* The buttons, pedestals and gates of a map that share one connection     *)
(* value.  Creatures step on and off buttons; items are picked up, stolen, *)
(* dropped, thrown and destroyed; update_button decides what the connection*)
(* is told and process_object moves the gates one step at a time.  The     *)
(* server is a single thread: an action is everything one call does, the   *)
(* buttons it makes things land on included.                               *)
(***************************************************************************)
EXTENDS Integers, FiniteSets

CONSTANTS
    Buttons,     \* objects of type BUTTON and PEDESTAL
    Pedestals,   \* those of type PEDESTAL
    Gates,       \* objects of type GATE, one square each
    Floor,       \* everywhere else, and off the map
    Players,     \* players that walk
    Monsters,    \* monsters that walk
    Items,       \* objects without a move type
    Gone,        \* where an item is that no longer exists
    HoldsDown,   \* HoldsDown[b]: what is enough to hold b down, as sets of things
    Inverted,    \* gates with maxsp set: open when released
    OnPush,      \* objects with FLAG_ACTIVATE_ON_PUSH
    OnRelease,   \* objects with FLAG_ACTIVATE_ON_RELEASE
    FirstLink,   \* the button update_buttons finds first
    NumAnimations

Creatures == Players \cup Monsters
Things    == Creatures \cup Items
Squares   == Buttons \cup Gates \cup {Floor}

\* More on a button never lifts it.  With fewer than 5 animations the half-way
\* marks of the two directions meet at the top (see ClosedGateBlocks).
ASSUME GatesAssumption ==
    /\ Pedestals \subseteq Buttons
    /\ Buttons \cap Gates = {} /\ Floor \notin Buttons \cup Gates
    /\ Gone \notin Squares \cup Creatures
    /\ Things \cap Squares = {} /\ Creatures \cap Items = {}
    /\ HoldsDown \in [Buttons -> SUBSET SUBSET Things]
    /\ \A b \in Buttons : \A S \in HoldsDown[b] :
          \A T \in SUBSET Things : S \subseteq T => T \in HoldsDown[b]
    /\ \A b \in Buttons : {} \notin HoldsDown[b]
    /\ Inverted \subseteq Gates
    /\ OnPush \subseteq Buttons \cup Gates
    /\ OnRelease \subseteq Buttons \cup Gates
    /\ FirstLink \in Buttons
    /\ NumAnimations \in Nat /\ NumAnimations >= 5

VARIABLES
    at,      \* at[x]: the square x is on, or the creature that carries it
    conn,    \* the linked objects: conn.down[b] is the value of a button, conn.gate[g] a gate
    slipped, \* history: did the load of a button ever shrink without update_button?
    grown    \* history: has one grown since update_button was last called?

vars == <<at, conn, slipped, grown>>

\* Value 1 is down (open), 0 up; wc is the animation, 0 all the way down; moving
\* is a speed other than 0; food: going down for a while to let something out;
\* blocks is move_block.
Gate == [value : BOOLEAN, wc : 0..NumAnimations - 1, moving : BOOLEAN,
         food : BOOLEAN, blocks : BOOLEAN]

Conn == [down : [Buttons -> BOOLEAN], gate : [Gates -> Gate]]

Half == NumAnimations \div 2
Top  == NumAnimations - 1

AtRest(open) == [value |-> open, wc |-> IF open THEN 0 ELSE Top, moving |-> FALSE,
                 food |-> FALSE, blocks |-> ~open]

Init ==
    /\ at = [x \in Things |-> Floor]
    /\ conn = [down |-> [b \in Buttons |-> FALSE],
               gate |-> [g \in Gates |-> AtRest(g \in Inverted)]]
    /\ slipped = FALSE /\ grown = FALSE

-----------------------------------------------------------------------------
(***************************************************************************)
(* Buttons.                                                                *)
(***************************************************************************)

\* A carried item weighs on the button its carrier is on; a pedestal looks only
\* at what is on it itself.
On(x, s, where) ==
    \/ where[x] = s
    \/ s \notin Pedestals /\ where[x] \in Creatures /\ where[where[x]] = s

Load(s, where) == {x \in Things : On(x, s, where)}
Held(where)    == {b \in Buttons : Load(b, where) \in HoldsDown[b]}

\* A step makes the load of some button smaller, or larger.
Lighter == \E b \in Buttons : ~(Load(b, at) \subseteq Load(b, at'))
Heavier == \E b \in Buttons : ~(Load(b, at') \subseteq Load(b, at))

Hears(o, state) == IF state THEN o \in OnPush ELSE o \in OnRelease

\* What trigger_connected makes of a gate.
Told(g, state) == state # (g \in Inverted)

trigger_connected(c, state) ==
    [down |-> [b \in Buttons |-> IF Hears(b, state) THEN state ELSE c.down[b]],
     gate |-> [g \in Gates |->
                 IF Hears(g, state)
                 THEN [c.gate[g] EXCEPT !.value = Told(g, state), !.moving = TRUE]
                 ELSE c.gate[g]]]

\* Mutated form: the other buttons of the connection do not hold op down.
UpdateButtonAlone(op, where, c) ==
    LET fresh == [c EXCEPT !.down = [b \in Buttons |-> b \in Held(where)]]
    IN  IF fresh.down[op] = c.down[op] THEN fresh ELSE trigger_connected(fresh, fresh.down[op])

\* Every button is weighed again, op is forced down if any is down, and only a
\* change of op itself is passed on.
update_button(op, where, c) ==
    LET state == Held(where) # {}
        fresh == [c EXCEPT !.down = [b \in Buttons |-> IF b = op THEN state ELSE b \in Held(where)]]
    IN  IF state = c.down[op] THEN fresh ELSE trigger_connected(fresh, state)

\* object_insert_in_map: whatever is put on a button works it.
Landed(s, where, c) == IF s \in Buttons THEN update_button(s, where, c) ELSE c

\* Mutated form: the button is worked while x is still on it.
LeftTooEarly(x, c) ==
    IF x \in Creatures /\ at[x] \in Buttons THEN update_button(at[x], at, c) ELSE c

\* object_remove: only what has a move type works the button it leaves.
Left(x, c) ==
    IF x \in Creatures /\ at[x] \in Buttons
    THEN update_button(at[x], [at EXCEPT ![x] = Floor], c) ELSE c

\* x is removed from where it is and inserted at s.
Move(x, s, c) ==
    /\ at' = [at EXCEPT ![x] = s]
    /\ conn' = Landed(s, at', Left(x, c))
    /\ grown' = (grown /\ s \notin Buttons /\ ~(x \in Creatures /\ at[x] \in Buttons))

Free(s) == s \in Gates => ~conn.gate[s].blocks

-----------------------------------------------------------------------------
(***************************************************************************)
(* Creatures and items.                                                    *)
(***************************************************************************)

Step(c, s) ==
    /\ s # at[c] /\ Free(s)
    /\ Move(c, s, conn)
    /\ slipped' = slipped

\* An item that lay on a pedestal no longer counts once it is carried.
PickUp(c, i) ==
    /\ at[i] = at[c]
    /\ at' = [at EXCEPT ![i] = c]
    /\ slipped' = (slipped \/ Lighter)
    /\ UNCHANGED <<conn, grown>>

\* attempt_steal picks up what a creature on another square carries, and works
\* neither the button under the thief nor the one under the victim.
Steal(c, v, i) ==
    /\ v # c /\ at[i] = v
    /\ at[v] # at[c] \/ at[c] = Floor
    /\ at' = [at EXCEPT ![i] = c]
    /\ slipped' = (slipped \/ Lighter)
    /\ grown' = (grown \/ Heavier)
    /\ conn' = conn

Drop(c, i) ==
    /\ at[i] = c
    /\ Move(i, at[c], conn)
    /\ slipped' = slipped

\* do_throw takes the item from the thrower without touching the button under
\* him; in flight it weighs on nothing.
Throw(c, i, s) ==
    /\ at[i] = c /\ s # at[c] /\ Free(s)
    /\ Move(i, s, conn)
    /\ slipped' = (slipped \/ Lighter)

\* An item is eaten, burnt or used up, on the map or in an inventory.
Destroy(i) ==
    /\ at[i] # Gone
    /\ at' = [at EXCEPT ![i] = Gone]
    /\ slipped' = (slipped \/ Lighter)
    /\ UNCHANGED <<conn, grown>>

\* A per-player map is swapped out while no player is on it and comes back with
\* every object as it was; mapfile_load then has update_buttons update one button
\* of the connection. (load_temporary_map, for other maps, updates none: a stutter.)
Reload ==
    /\ \A p \in Players : at[p] = Floor
    /\ conn' = update_button(FirstLink, at, conn)
    /\ grown' = FALSE
    /\ UNCHANGED <<at, slipped>>

-----------------------------------------------------------------------------
(***************************************************************************)
(* gate_type_process.                                                      *)
(***************************************************************************)
Stack(g, where) == {x \in Things : where[x] = g}

SetGate(c, g, k) == [c EXCEPT !.gate = [@ EXCEPT ![g] = k]]

\* Mutated form: the gate becomes passable one step too early.
LowerEarly(g) ==
    LET k  == conn.gate[g]
        wc == IF k.wc <= 1 THEN 0 ELSE k.wc - 1
    IN  /\ k.value
        /\ UNCHANGED <<at, grown>>
        /\ conn' = SetGate(conn, g,
              [k EXCEPT !.wc = wc, !.moving = k.wc > 1, !.blocks = @ /\ wc > Half + 1])

\* Mutated form: nothing stops the animation at the bottom.
LowerThrough(g) ==
    LET k == conn.gate[g]
    IN  /\ k.value
        /\ UNCHANGED <<at, grown>>
        /\ conn' = SetGate(conn, g,
              [k EXCEPT !.wc = @ - 1, !.moving = k.wc > 1, !.blocks = @ /\ k.wc - 1 > Half])

\* "We're going down."
Lower(g) ==
    LET k  == conn.gate[g]
        wc == IF k.wc <= 1 THEN 0 ELSE k.wc - 1
    IN  /\ k.value
        /\ UNCHANGED <<at, grown>>
        /\ conn' = SetGate(conn, g,
              [k EXCEPT !.wc = wc, !.moving = k.wc > 1, !.blocks = @ /\ wc > Half])

\* At the top with nothing on it: closed.
Closed(g) == conn.gate[g].wc = Top /\ Stack(g, at) = {}

StopAtTop(g) ==
    /\ ~conn.gate[g].value /\ Closed(g)
    /\ UNCHANGED <<at, grown>>
    /\ conn' = SetGate(conn, g, [conn.gate[g] EXCEPT !.moving = FALSE])

\* Mutated form: a gate that gave way does not try again.
GiveWayForGood(g) ==
    LET k == conn.gate[g]
    IN  /\ ~k.value /\ ~Closed(g) /\ k.food
        /\ UNCHANGED <<at, grown>>
        /\ conn' = SetGate(conn, g, [k EXCEPT !.wc = IF k.wc <= 1 THEN 0 ELSE k.wc - 1])

\* "The gate is going temporarily down."
GiveWay(g) ==
    LET k == conn.gate[g]
    IN  /\ ~k.value /\ ~Closed(g) /\ k.food
        /\ UNCHANGED <<at, grown>>
        /\ conn' = SetGate(conn, g,
              [k EXCEPT !.wc = IF k.wc <= 1 THEN 0 ELSE k.wc - 1, !.food = k.wc > 1])

Raised(g) == LET k == conn.gate[g]
             IN  [k EXCEPT !.wc = IF k.wc < Top THEN k.wc + 1 ELSE Top]

RiseFreely(g) ==
    /\ ~conn.gate[g].value /\ ~Closed(g) /\ ~conn.gate[g].food
    /\ Raised(g).wc < Half
    /\ UNCHANGED <<at, grown>>
    /\ conn' = SetGate(conn, g, Raised(g))

\* Mutated form: after the object on top is dealt with, the rest is not looked at.
SettledUnchecked(g, where, c) == SetGate(c, g, [c.gate[g] EXCEPT !.blocks = TRUE])

\* Half-way or further the gate gives way to what is still on it, or blocks.
Settled(g, where, c) ==
    LET k == c.gate[g]
    IN  SetGate(c, g, IF Stack(g, where) = {} THEN [k EXCEPT !.blocks = TRUE]
                      ELSE [k EXCEPT !.food = TRUE])

\* The creature on top is hit and may die; a monster leaves what it carried.
Crush(g, x, dies) ==
    /\ x \in Creatures
    /\ grown' = grown
    /\ at' = IF ~dies THEN at
             ELSE [y \in Things |-> IF y = x THEN Floor
                                    ELSE IF x \in Monsters /\ at[y] = x THEN g ELSE at[y]]
    /\ conn' = Settled(g, at', SetGate(conn, g, Raised(g)))

\* The item on top is put on a free square near by, if there is one; if that is
\* a button, the connection may change under the gate that is moving.
RollOff(g, x, s) ==
    /\ x \in Items
    /\ s = g \/ Free(s)
    /\ at' = [at EXCEPT ![x] = s]
    /\ grown' = (grown /\ s \notin Buttons)
    /\ conn' = Settled(g, at', Landed(s, at', SetGate(conn, g, Raised(g))))

RiseAgainst(g) ==
    /\ ~conn.gate[g].value /\ ~Closed(g) /\ ~conn.gate[g].food
    /\ Raised(g).wc >= Half
    /\ \/ /\ Stack(g, at) = {}
          /\ UNCHANGED <<at, grown>>
          /\ conn' = Settled(g, at, SetGate(conn, g, Raised(g)))
       \/ \E x \in Stack(g, at) :
            \/ \E dies \in BOOLEAN : Crush(g, x, dies)
            \/ \E s \in Squares : RollOff(g, x, s)

gate_type_process(g) ==
    /\ conn.gate[g].moving
    /\ slipped' = slipped
    /\ Lower(g) \/ StopAtTop(g) \/ GiveWay(g) \/ RiseFreely(g) \/ RiseAgainst(g)

-----------------------------------------------------------------------------
Next ==
    \/ \E c \in Creatures, s \in Squares : Step(c, s)
    \/ \E c \in Creatures, i \in Items : PickUp(c, i) \/ Drop(c, i)
    \/ \E c, v \in Creatures, i \in Items : Steal(c, v, i)
    \/ \E c \in Creatures, i \in Items, s \in Squares : Throw(c, i, s)
    \/ \E i \in Items : Destroy(i)
    \/ \E g \in Gates : gate_type_process(g)
    \/ Reload

\* process_events gives every object with a speed its turn.
Spec     == Init /\ [][Next]_vars
FairSpec == Spec /\ \A g \in Gates : WF_vars(gate_type_process(g))

-----------------------------------------------------------------------------
(***************************************************************************)
(* Properties.                                                             *)
(***************************************************************************)
TypeOK ==
    /\ at \in [Things -> Squares \cup Creatures \cup {Gone}]
    /\ \A c \in Creatures : at[c] \in Squares
    /\ conn \in Conn
    /\ slipped \in BOOLEAN /\ grown \in BOOLEAN

\* As long as a button is held down, every gate that hears pushes has been told
\* so, however many buttons share the connection and in whatever order they were
\* stepped on and left: update_button must not release the others' hold.  A load
\* that was thrown off or destroyed does no harm; one that a thief increased by
\* what he took from another square is noticed by the next update_button of any
\* button of the connection, and not before.
HeldButtonsHeard ==
    ~grown /\ Held(at) # {} => \A g \in Gates \cap OnPush : conn.gate[g].value = Told(g, TRUE)

\* "When the button is released, the connection value gets triggered a second
\* time": when no button is held down, every gate that hears releases has been
\* told so.  This needs a load that shrinks only when something steps off: once
\* an item was thrown from a button, destroyed on one, stolen from who stands on
\* it or picked up from a pedestal, the update of another button may forget that
\* the first was down without passing it on.
ReleaseHeard ==
    ~slipped /\ Held(at) = {} =>
        \A g \in Gates \cap OnRelease : conn.gate[g].value = Told(g, FALSE)

\* A gate that blocks has nobody and nothing on its square: whoever is on it when
\* it rises is given way, at whatever height the direction was reversed.
NobodyInGate == \A g \in Gates : conn.gate[g].blocks => Stack(g, at) = {}

\* "For open gates, blocking passage should be unset.  For closed gates it must
\* be set": a gate that came to rest is all the way down and open, or all the way
\* up and blocks, although it is marked blocking half-way up and passable half-way
\* down, and may have been reversed between the two.
ClosedGateBlocks ==
    \A g \in Gates : LET k == conn.gate[g] IN
        ~k.moving => IF k.value THEN k.wc = 0 /\ ~k.blocks ELSE k.wc = Top /\ k.blocks

\* A gate whose value stays gets there: told to open it ends up open, told to
\* close it ends up closed if everything leaves its square.
Opened(g) == conn.gate[g].wc = 0 /\ ~conn.gate[g].blocks
Shut(g)   == conn.gate[g].wc = Top /\ conn.gate[g].blocks

GatesArrive ==
    \A g \in Gates :
        /\ <>[]conn.gate[g].value => <>[]Opened(g)
        /\ <>[](~conn.gate[g].value /\ Stack(g, at) = {}) => <>[]Shut(g)
=============================================================================
