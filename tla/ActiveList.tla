----------------------------- MODULE ActiveList -----------------------------
(***************************************************************************)
(* The list of active objects and the pass of process_events over it.      *)
(* active_objects is a doubly linked list threaded through the objects; the*)
(* pass keeps its place with a marker that is linked into the list like an *)
(* object.  While process_object runs for one object, its handlers may     *)
(* create, free, move, slow down or stop any object, that one included.    *)
(*                                                                         *)
(* Speeds are integers, in units of which Unit make the speed 1.0; an      *)
(* object is Fast when |speed| exceeds MIN_ACTIVE_SPEED, which every speed *)
(* but 0 does here.  Objects are not players: a player's speed_left is     *)
(* spent in do_server, not by the pass.  What a freed object holds is never*)
(* read before object_new clears it, so freeing clears it here.            *)
(***************************************************************************)
EXTENDS Integers

CONSTANTS
    Objects,   \* the slots objects are allocated in
    Marker,    \* the local variable of process_events
    Null,      \* the null pointer
    MaxSpeed,  \* the largest speed an object is given
    Unit,      \* the speed 1.0, and what acting once costs
    Victims    \* objects that may be delayed, and taken from where they are

\* On a map in memory or in an inventory; created and put nowhere yet; taken off
\* a map that has been swapped out since.
Places == {"placed", "nowhere", "swapped"}

ASSUME ActiveAssumption ==
    /\ Marker \notin Objects
    /\ Null \notin Objects \cup {Marker}
    /\ Unit \in Nat \ {0}
    /\ MaxSpeed \in Nat
    /\ Victims \subseteq Objects

VARIABLES
    list,        \* active_objects, and active_next and active_prev of every node
    used,        \* objects in use: not FLAG_FREED
    speed,
    speed_left,
    place,
    op,          \* the object process_object runs for, or Null
    walking      \* process_events is in its loop

objVars == <<used, speed, speed_left, place>>
vars == <<list, objVars, op, walking>>

Nodes == Objects \cup {Marker}
Links == Nodes \cup {Null}
Lists == [head : Links, next : [Nodes -> Links], prev : [Nodes -> Links]]

Speeds == 0..MaxSpeed

Fast(s) == s # 0

-----------------------------------------------------------------------------
(***************************************************************************)
(* Operations on the list.                                                 *)
(***************************************************************************)

\* Mutated form: a node with no neighbours is taken not to be on the list.
ListedByLinks(l, o) == l.next[o] # Null \/ l.prev[o] # Null

\* The test by which the code tells whether a node is on the list.
Listed(l, o) == l.next[o] # Null \/ l.prev[o] # Null \/ l.head = o

\* Set the active_prev of o, if there is an o; its active_next, or, of the node
\* before the first, active_objects.
SetPrev(l, o, p) == IF o = Null THEN l ELSE [l EXCEPT !.prev = [@ EXCEPT ![o] = p]]
SetNext(l, o, n) ==
    IF o = Null THEN [l EXCEPT !.head = n] ELSE [l EXCEPT !.next = [@ EXCEPT ![o] = n]]

\* Mutated form: new objects go behind the marker, where the pass will meet them.
InsertBehindMarker(l, o) ==
    LET p == IF Listed(l, Marker) THEN Marker ELSE Null
        n == IF Listed(l, Marker) THEN l.next[Marker] ELSE l.head
    IN  SetPrev(SetPrev(SetNext(SetNext(l, o, n), p, o), n, o), o, p)

Insert(l, o) == SetPrev(SetNext(SetNext(l, o, l.head), Null, o), l.head, o)

\* Mutated form: the node in front is not told.
UnlinkOneSide(l, o) ==
    LET m == SetPrev(l, l.next[o], l.prev[o])
        k == IF l.prev[o] = Null THEN SetNext(m, Null, l.next[o]) ELSE m
    IN  SetPrev(SetNext(k, o, Null), o, Null)

\* The node in front, or active_objects, skips o; the node behind points past it.
Unlink(l, o) ==
    LET m == SetNext(SetPrev(l, l.next[o], l.prev[o]), l.prev[o], l.next[o])
    IN  SetPrev(SetNext(m, o, Null), o, Null)

object_remove_from_active_list(l, o) == IF Listed(l, o) THEN Unlink(l, o) ELSE l

object_update_speed(l, o, s) ==
    IF ~Fast(s) THEN object_remove_from_active_list(l, o)
    ELSE IF Listed(l, o) THEN l
    ELSE Insert(l, o)

\* The marker changes places with the node o behind it.
MoveMarker(l) ==
    LET o == l.next[Marker]
        a == SetPrev(l, o, l.prev[Marker])
        b == SetNext(a, l.prev[Marker], o)
        c == SetNext(b, Marker, l.next[o])
        d == SetPrev(c, l.next[o], Marker)
    IN  SetNext(SetPrev(d, Marker, o), o, Marker)

InsertMarker(l) == SetPrev(Insert(l, Marker), Marker, Null)

\* The marker is a local variable: its own links die with it.
RemoveMarker(l) ==
    SetPrev(SetNext(SetNext(l, l.prev[Marker], Null), Marker, Null), Marker, Null)

-----------------------------------------------------------------------------
\* o is handed back: not used any more, its speed zero.
Freed(o) ==
    /\ used' = used \ {o}
    /\ speed' = [speed EXCEPT ![o] = 0]
    /\ speed_left' = [speed_left EXCEPT ![o] = 0]
    /\ place' = [place EXCEPT ![o] = "nowhere"]

(***************************************************************************)
(* Handlers.  They run inside process_object, and between two passes.      *)
(***************************************************************************)
HandlersRun == ~walking \/ op # Null

\* object_clear zeroes the links without a look at the list.
object_new(o) ==
    /\ HandlersRun
    /\ o \notin used
    /\ used' = used \cup {o}
    /\ speed' = [speed EXCEPT ![o] = 0]
    /\ speed_left' = [speed_left EXCEPT ![o] = 0]
    /\ place' = [place EXCEPT ![o] = "nowhere"]
    /\ list' = [list EXCEPT !.next[o] = Null, !.prev[o] = Null]
    /\ UNCHANGED <<op, walking>>

\* The speed changes and object_update_speed is called: loading, copying,
\* fixing, doors, timers, spells.
SetSpeed(o, s) ==
    /\ HandlersRun
    /\ o \in used
    /\ s # speed[o] \/ (Fast(s) # Listed(list, o))
    /\ speed' = [speed EXCEPT ![o] = s]
    /\ list' = object_update_speed(list, o, s)
    /\ UNCHANGED <<used, speed_left, place, op, walking>>

\* An object that is not put anywhere yet becomes the copy of another, or of an
\* archetype: it takes the speed as it is, and a speed_left, here 0.
object_copy_no_speed(o, s) ==
    /\ HandlersRun
    /\ o \in used
    /\ place[o] = "nowhere"
    /\ speed' = [speed EXCEPT ![o] = s]
    /\ speed_left' = [speed_left EXCEPT ![o] = 0]
    /\ UNCHANGED <<list, used, place, op, walking>>

\* The objects of a style map, which only serves as a pattern, must not act.
LoadStyleObject(o) ==
    /\ HandlersRun
    /\ o \in used
    /\ place[o] = "placed"
    /\ Listed(list, o)
    /\ list' = object_remove_from_active_list(list, o)
    /\ UNCHANGED <<objVars, op, walking>>

\* Insertion, removal, and the swapping out of the map a removed object was on.
Move(o, q) ==
    /\ HandlersRun
    /\ o \in used
    /\ place[o] # q
    /\ q = "placed" \/ o \in Victims
    /\ place' = [place EXCEPT ![o] = q]
    /\ UNCHANGED <<list, used, speed, speed_left, op, walking>>

\* Paralysis, freezing, the recoil of an attack, a mover in the way.  Every debt
\* is one turn here; the code's vary.
Delay(o) ==
    /\ HandlersRun
    /\ o \in used
    /\ o \in Victims
    /\ speed_left[o] > -Unit
    /\ speed_left' = [speed_left EXCEPT ![o] = -Unit]
    /\ UNCHANGED <<list, used, speed, place, op, walking>>

\* Mutated form: the object is handed back without leaving the list.
ObjectFreeStillActive(o) ==
    /\ HandlersRun
    /\ o \in used
    /\ Freed(o)
    /\ UNCHANGED <<list, op, walking>>

object_free(o) ==
    /\ HandlersRun
    /\ o \in used
    /\ Freed(o)
    /\ list' = object_update_speed(list, o, 0)
    /\ UNCHANGED <<op, walking>>

-----------------------------------------------------------------------------
(***************************************************************************)
(* process_events.                                                         *)
(***************************************************************************)
StartPass ==
    /\ ~walking
    /\ walking' = TRUE
    /\ list' = InsertMarker(list)
    /\ UNCHANGED <<objVars, op>>

\* The checks that log a BUG and take the object off the list: it has no speed,
\* or is nowhere, or its map is gone, in which case it is freed.
Stray(o) == o \notin used \/ place[o] # "placed" \/ speed[o] = 0

\* Mutated form: acting costs nothing.
TurnsAreFree(o) == speed_left[o] + speed[o]

\* Mutated form: an object that has nothing left to spend is not paid.
NeverPaid(o) == IF speed_left[o] > 0 THEN speed_left[o] - Unit ELSE speed_left[o]

\* An object that has something to spend acts and pays for it; another is paid.
SpeedLeftAfter(o) ==
    IF speed_left[o] > 0 THEN speed_left[o] - Unit ELSE speed_left[o] + speed[o]

\* The marker steps over o before o is looked at, so that whatever happens to o
\* the marker still has its place.
Visit(o) ==
    LET l == MoveMarker(list)
    IN  /\ walking
        /\ op = Null
        /\ list.next[Marker] = o
        /\ \/ /\ o \in used /\ place[o] = "swapped"
              /\ Freed(o)
              /\ list' = object_update_speed(l, o, 0)
              /\ UNCHANGED op
           \/ /\ Stray(o) /\ ~(o \in used /\ place[o] = "swapped")
              /\ speed' = [speed EXCEPT ![o] = 0]
              /\ list' = object_update_speed(l, o, 0)
              /\ UNCHANGED <<used, speed_left, place, op>>
           \/ /\ ~Stray(o)
              /\ speed_left' = [speed_left EXCEPT ![o] = SpeedLeftAfter(o)]
              /\ op' = IF speed_left[o] > 0 THEN o ELSE Null
              /\ list' = l
              /\ UNCHANGED <<used, speed, place>>
        /\ UNCHANGED walking

\* process_object returns.  The object may be gone or another one by then; only
\* its casting_time, left out here, is touched, after a look at its tag.
Return ==
    /\ op # Null
    /\ op' = Null
    /\ UNCHANGED <<list, objVars, walking>>

EndPass ==
    /\ walking
    /\ op = Null
    /\ list.next[Marker] = Null
    /\ walking' = FALSE
    /\ list' = RemoveMarker(list)
    /\ UNCHANGED <<objVars, op>>

-----------------------------------------------------------------------------
Init ==
    /\ list = [head |-> Null, next |-> [n \in Nodes |-> Null], prev |-> [n \in Nodes |-> Null]]
    /\ used = {}
    /\ speed = [o \in Objects |-> 0]
    /\ speed_left = [o \in Objects |-> 0]
    /\ place = [o \in Objects |-> "nowhere"]
    /\ op = Null
    /\ walking = FALSE

Next ==
    \/ \E o \in Objects :
          \/ object_new(o) \/ LoadStyleObject(o) \/ Delay(o) \/ object_free(o) \/ Visit(o)
          \/ \E s \in Speeds : SetSpeed(o, s) \/ object_copy_no_speed(o, s)
          \/ \E q \in Places : Move(o, q)
    \/ StartPass
    \/ Return
    \/ EndPass

Spec == Init /\ [][Next]_vars

\* The main loop runs process_events every tick, and process_object returns.
Fairness ==
    /\ WF_vars(StartPass)
    /\ WF_vars(\E o \in Objects : Visit(o))
    /\ WF_vars(Return)
    /\ WF_vars(EndPass)

FairSpec == Spec /\ Fairness

-----------------------------------------------------------------------------
(***************************************************************************)
(* Properties.                                                             *)
(***************************************************************************)

\* Every variable has its type; in particular nobody ever has more to spend than
\* the fastest object is paid in a tick: turns are not saved up.
TypeOK ==
    /\ list \in Lists
    /\ used \subseteq Objects
    /\ speed \in [Objects -> Speeds]
    /\ speed_left \in [Objects -> -Unit..MaxSpeed]
    /\ place \in [Objects -> Places]
    /\ op \in Objects \cup {Null}
    /\ walking \in BOOLEAN

\* Every link is answered by the link back, and only the head has nothing before
\* it: so the test of object_update_speed tells who is on the list.
LinksAgree ==
    /\ list.head # Null => list.prev[list.head] = Null
    /\ \A n \in Nodes :
          /\ list.next[n] # Null => list.prev[list.next[n]] = n
          /\ list.prev[n] # Null => list.next[list.prev[n]] = n
          /\ Listed(list, n) /\ list.prev[n] = Null => list.head = n

\* Freed memory is never on the list, and the marker is on it exactly during a
\* pass: no handler loses the marker, no pass leaves it behind.
OnlyLiveNodesListed ==
    /\ \A o \in Objects : Listed(list, o) => o \in used
    /\ Listed(list, Marker) <=> walking

\* The nodes of l from n on: those in every set that has n and, with a node, the next.
From(l, n) ==
    {m \in Nodes :
        \A S \in SUBSET Nodes :
            (n = Null \/ n \in S) /\ (\A k \in S : l.next[k] \in S \cup {Null}) => m \in S}

OnList == From(list, list.head)

\* A pass visits each object active at its start once, unless it is taken off
\* the list before, and nobody else: objects that are created, stopped and
\* started again, or freed and reused meanwhile wait for the next pass.
Pass == INSTANCE ActiveSet WITH
            active  <- OnList \ {Marker},
            pending <- IF walking THEN From(list, list.next[Marker]) ELSE {}

RefinesActiveSet == Pass!Passes

\* Every pass ends, whatever its handlers create.
PassEnds == walking ~> ~walking

\* An object that stays on the list with a speed, in its place, acts again and
\* again, unless it is delayed for ever.
ActiveObjectsAct ==
    \A o \in Objects :
        <>[](Listed(list, o) /\ Fast(speed[o]) /\ place[o] = "placed") =>
            \/ []<>(op = o)
            \/ []<><<Delay(o)>>_vars
=============================================================================
