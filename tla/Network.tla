------------------------------ MODULE Network ------------------------------
(***************************************************************************)
(* The two sides of the network in one process: the main thread reads the  *)
(* packets of a connection while it is in its loop, hands figures to the   *)
(* metaserver thread between two calls of handle_client, and stops it at   *)
(* the end (do_server, do_specials and cleanup of server/server.cpp).      *)
(***************************************************************************)
EXTENDS Framing, Metaserver

vars == <<framing, metaserver>>

Init == FramingInit /\ MetaserverInit

MainNext ==
    \/ main = "loop" /\ ServerStep /\ UNCHANGED metaserver
    \/ ~serving /\ MainStep /\ UNCHANGED framing
ThreadNext == ThreadStep /\ UNCHANGED framing
ClientNext == main # "gone" /\ ClientStep /\ UNCHANGED metaserver

Next == MainNext \/ ThreadNext \/ ClientNext

Spec == Init /\ [][Next]_vars

(* The main thread and the metaserver thread run on; select() reports what *)
(* has arrived until it is read; a mutex that stays free is taken at last, *)
(* though try_lock_for may fail on it; mutex lock() is not starved.        *)
Fairness ==
    /\ WF_vars(MainNext) /\ WF_vars(ThreadNext)
    /\ SF_vars(main = "loop" /\ Read /\ UNCHANGED metaserver)
    /\ SF_vars(main = "loop" /\ handle_client /\ UNCHANGED metaserver)
    /\ SF_vars(metaserver2_build_mime /\ UNCHANGED framing)
    /\ SF_vars(TryLock /\ UNCHANGED framing)

FairSpec == Spec /\ Fairness

\* Every variable of both sides has a value of its type.
TypeOK == FramingTypeOK /\ MetaserverTypeOK

\* What was sent is executed in the end, unless the connection or the server
\* ends before.
PacketsExecuted ==
    \A n \in 1 .. MaxSent :
        Len(sent) = n ~> Len(done) >= n \/ ~up \/ main \notin {"loop", "update", "init"}
=============================================================================
