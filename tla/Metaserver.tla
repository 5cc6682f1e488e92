----------------------------- MODULE Metaserver -----------------------------
(***************************************************************************)
(* The thread that reports to the metaservers (socket/metaserver.cpp) and  *)
(* what the main thread does with it: metaserver2_init starts it,          *)
(* metaserver_update gives it figures under ms2_info_mutex, metaserver2_   *)
(* exit gives up ms2_signal, which the main thread held until then, and    *)
(* joins it.                                                               *)
(***************************************************************************)
EXTENDS Integers

VARIABLES
    main,           \* where the main thread is
    thread,         \* where the metaserver thread is
    signal,         \* who holds ms2_signal
    info,           \* who holds ms2_info_mutex
    figures,        \* metaserver2_updateinfo: the update each field is of
    report,         \* the same of what is in the form that is sent
    notification    \* local_info.notification
metaserver == <<main, thread, signal, info, figures, report, notification>>

Nobody == "nobody"
Updates == {0, 1}                      \* consecutive updates differ
Figures == [players : Updates, bytes : Updates]

MetaserverInit ==
    /\ main = "init" /\ thread = "none"
    /\ signal = Nobody /\ info = Nobody
    /\ figures = [players |-> 0, bytes |-> 0] /\ report = figures
    /\ notification \in BOOLEAN        \* metaserver2_load_config

-----------------------------------------------------------------------------
(* The main thread.                                                        *)
\* Mutated form of metaserver2_init: the signal is not locked first.
Metaserver2InitUnlocked ==
    /\ main = "init" /\ main' = "loop"
    /\ \/ thread' = "start" /\ UNCHANGED notification
       \/ notification' = FALSE /\ UNCHANGED thread
    /\ UNCHANGED <<signal, info, figures, report>>

metaserver2_init ==
    /\ main = "init" /\ main' = "loop"
    /\ signal = Nobody /\ signal' = "main"
    /\ \/ thread' = "start" /\ UNCHANGED notification
       \/ notification' = FALSE /\ UNCHANGED thread          \* system_error
    /\ UNCHANGED <<info, figures, report>>

\* cleanup() before there are sockets, for options that only dump tables.
ExitEarly ==
    /\ main = "init" /\ main' = "exit"
    /\ UNCHANGED <<thread, signal, info, figures, report, notification>>

metaserver_update ==
    /\ main = "loop" /\ info = Nobody
    /\ main' = "update" /\ info' = "main"
    /\ figures' = [figures EXCEPT !.players = 1 - @]
    /\ UNCHANGED <<thread, signal, report, notification>>

UpdateRest ==
    /\ main = "update"
    /\ figures' = [figures EXCEPT !.bytes = figures.players]
    /\ main' = "loop" /\ info' = Nobody
    /\ UNCHANGED <<thread, signal, report, notification>>

cleanup ==
    /\ main = "loop" /\ main' = "exit"
    /\ UNCHANGED <<thread, signal, info, figures, report, notification>>

\* Mutated form of metaserver2_exit: joined without the signal.
Metaserver2ExitJoins ==
    /\ main = "exit" /\ main' = "join"
    /\ UNCHANGED <<thread, signal, info, figures, report, notification>>

metaserver2_exit ==
    /\ main = "exit" /\ main' = "join"
    /\ signal' = Nobody
    /\ UNCHANGED <<thread, info, figures, report, notification>>

\* join returns; a thread that never was is not joinable.
Join ==
    /\ main = "join" /\ thread \in {"none", "ended"}
    /\ main' = "gone"
    /\ UNCHANGED <<thread, signal, info, figures, report, notification>>

MainStep ==
    metaserver2_init \/ ExitEarly \/ metaserver_update \/ UpdateRest \/ cleanup
        \/ metaserver2_exit \/ Join

-----------------------------------------------------------------------------
(* metaserver2_thread.                                                     *)
ThreadGoes(from, to) ==
    /\ thread = from /\ thread' = to /\ UNCHANGED main

StartThread ==
    /\ ThreadGoes("start", "top") \/ ThreadGoes("start", "ended")  \* no curl
    /\ UNCHANGED <<signal, info, figures, report, notification>>

\* metaserver2_updates, without a form when there is no memory for one.
Top ==
    /\ \/ notification /\ ThreadGoes("top", "form")
       \/ ThreadGoes("top", "wait")
    /\ UNCHANGED <<signal, info, figures, report, notification>>

\* Mutated form of metaserver2_build_mime: without the mutex.
BuildMimeUnlocked ==
    /\ ThreadGoes("form", "copy")
    /\ report' = [report EXCEPT !.players = figures.players]
    /\ UNCHANGED <<signal, info, figures, notification>>

\* metaserver2_build_mime: the figures are read one after another.
metaserver2_build_mime ==
    /\ ThreadGoes("form", "copy")
    /\ info = Nobody /\ info' = "thread"
    /\ report' = [report EXCEPT !.players = figures.players]
    /\ UNCHANGED <<signal, figures, notification>>

BuildRest ==
    /\ ThreadGoes("copy", "send")
    /\ report' = [report EXCEPT !.bytes = figures.bytes]
    /\ info' = Nobody
    /\ UNCHANGED <<signal, figures, notification>>

\* curl_easy_perform returns, with an answer, an error or a timeout.
Perform ==
    /\ ThreadGoes("send", "wait")
    /\ UNCHANGED <<signal, info, figures, report, notification>>

\* try_lock_for succeeds ...
TryLock ==
    /\ ThreadGoes("wait", "cleanup")
    /\ signal = Nobody /\ signal' = "thread"
    /\ UNCHANGED <<info, figures, report, notification>>

\* ... or 60 seconds pass (it may fail on a free mutex too); the file is read
\* again if it was modified.
Timeout ==
    /\ ThreadGoes("wait", "top")
    /\ notification' \in BOOLEAN
    /\ UNCHANGED <<signal, info, figures, report>>

EndThread ==
    /\ ThreadGoes("cleanup", "ended")
    /\ signal' = Nobody
    /\ UNCHANGED <<info, figures, report, notification>>

ThreadStep ==
    StartThread \/ Top \/ metaserver2_build_mime \/ BuildRest \/ Perform
        \/ TryLock \/ Timeout \/ EndThread

-----------------------------------------------------------------------------
\* Everything has its type.
MetaserverTypeOK ==
    /\ main \in {"init", "loop", "update", "exit", "join", "gone"}
    /\ thread \in {"none", "start", "top", "form", "copy", "send", "wait", "cleanup", "ended"}
    /\ signal \in {Nobody, "main", "thread"} /\ info \in {Nobody, "main", "thread"}
    /\ figures \in Figures /\ report \in Figures /\ notification \in BOOLEAN

\* The figures of one report are all of one update: the main thread never
\* writes them while the other one copies them.
FiguresWhole == thread = "send" => report.players = report.bytes

\* The thread does not stop before the main thread wants it to, and gives up
\* a mutex only while it holds it.
StopsOnlyAtExit == thread = "cleanup" => main = "join" /\ signal = "thread"

\* The server ends after it was told to, whatever the thread was doing.
ExitEnds == main = "exit" ~> main = "gone"
=============================================================================
