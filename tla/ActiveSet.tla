------------------------------ MODULE ActiveSet ------------------------------
(***************************************************************************)
(* What a pass over the active objects promises: it visits, once and in    *)
(* some order, each object that is active when the pass begins and is      *)
(* still active when its turn comes.  Objects that become active during the*)
(* pass, again or for the first time, wait for the next one.               *)
(***************************************************************************)
CONSTANT Objects

VARIABLES active,   \* the active objects
          pending,  \* those this pass has still to visit
          walking   \* is a pass going on?

setVars == <<active, pending, walking>>

SetInit ==
    /\ active = {}
    /\ pending = {}
    /\ walking = FALSE

Begin ==
    /\ ~walking
    /\ walking' = TRUE
    /\ pending' = active
    /\ UNCHANGED active

\* A visit may end with the object taken off the list.
Visit(o) ==
    /\ walking
    /\ o \in pending
    /\ pending' = pending \ {o}
    /\ active' \in {active, active \ {o}}
    /\ UNCHANGED walking

Activate(o) ==
    /\ o \notin active
    /\ active' = active \cup {o}
    /\ UNCHANGED <<pending, walking>>

Deactivate(o) ==
    /\ o \in active
    /\ active' = active \ {o}
    /\ pending' = pending \ {o}
    /\ UNCHANGED walking

End ==
    /\ walking
    /\ pending = {}
    /\ walking' = FALSE
    /\ UNCHANGED <<active, pending>>

SetNext ==
    \/ Begin
    \/ \E o \in Objects : Visit(o) \/ Activate(o) \/ Deactivate(o)
    \/ End

Passes == SetInit /\ [][SetNext]_setVars
=============================================================================
