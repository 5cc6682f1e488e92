---------------------------- MODULE MapLifecycle ----------------------------
(***************************************************************************)
(* The life of the maps of a running server: players enter and leave them, *)
(* the tick loop swaps idle maps out (check_active_maps), flush_old_maps   *)
(* resets the expired ones, DMs force swaps and resets, and the process    *)
(* stops, crashes and starts again.  One handler runs at a time: the       *)
(* server is a single thread, so every action is a whole handler.          *)
(***************************************************************************)
EXTENDS MapStorage

CONSTANTS
    SaveErrors,      \* errors a swap may meet, a subset of SaveOutcomes
    StopErrors,      \* errors a save may meet while the server shuts down
    LogErrors,       \* may the write of temp.maps fail?
    RecycleTmpMaps,  \* settings.recycle_tmp_maps
    DMs,             \* players who may use DM commands
    Stops,           \* how the process may end: subset of {"shutdown", "crash"}
    InitialInv       \* InitialInv[p]: unique items p carries to begin with

ASSUME RunAssumption ==
    /\ SaveErrors \subseteq SaveOutcomes
    /\ StopErrors \subseteq SaveOutcomes
    /\ LogErrors \in BOOLEAN
    /\ RecycleTmpMaps \in BOOLEAN
    /\ DMs \subseteq Players
    /\ InitialInv \in [Players -> SUBSET Items]

VARIABLES
    server,  \* "running", "stopped" (by cleanup) or "crashed"
    maps,    \* maps[m]: the structure linked in first_map
    disk,    \* disk[m]: the files of m
    loc,     \* loc[p]: the map p's object is on
    inv,     \* inv[p]: unique items p carries
    saved    \* saved[p]: unique items in p's player file

vars == <<server, maps, disk, loc, inv, saved>>

Outcomes(errors) == {"OK"} \cup errors
LogOutcomes == IF LogErrors THEN BOOLEAN ELSE {TRUE}

On(m)        == {p \in Players : loc[p] = m}
OccupiedBy(l) == {l[p] : p \in Players} \ {NoMap}
Occupied     == OccupiedBy(loc)

TypeOK ==
    /\ server \in {"running", "stopped", "crashed"}
    /\ DOMAIN maps = Maps
    /\ \A m \in Maps : maps[m] \in MapStruct(m)
    /\ DOMAIN disk = Maps
    /\ \A m \in Maps : disk[m] \in MapFiles(m)
    /\ loc \in [Players -> Maps \cup {NoMap}]
    /\ inv \in [Players -> SUBSET Items]
    /\ saved \in [Players -> SUBSET Items]

Init ==
    /\ server = "running"
    /\ maps = [m \in Maps |-> Unlinked]
    /\ disk = [m \in Maps |-> NoFiles]
    /\ loc = [p \in Players |-> NoMap]
    /\ inv = InitialInv
    /\ saved = InitialInv

-----------------------------------------------------------------------------
(***************************************************************************)
(* Players.                                                                *)
(***************************************************************************)

\* enter_map's effect on the timeouts of the two maps, given the map list ms
\* after ready_map_name; a move within one map touches neither.
player_map_change_common(ms, p, old, new) ==
    [m \in Maps |->
        IF m = new /\ old # new THEN [ms[m] EXCEPT !.timeout = 0]
        ELSE IF m = old /\ old # new /\ On(old) = {p}
             THEN [ms[m] EXCEPT !.timeout = MinTimeout]
        ELSE ms[m]]

\* enter_exit, enter_player_maplevel: p arrives on m, from another map or by
\* logging in.
Enter(p, m) ==
    /\ server = "running"
    /\ maps' = player_map_change_common(
                  [maps EXCEPT ![m] = ready_map_name(m, @, disk[m])], p, loc[p], m)
    /\ disk' = [disk EXCEPT ![m] = ReadyFiles(m, maps[m], @)]
    /\ loc' = [loc EXCEPT ![p] = m]
    /\ UNCHANGED <<server, inv, saved>>

\* save_player and leave: p logs out or is disconnected.  The timeout of the map
\* is assigned to itself, so a map left this way keeps timeout 0.
Leave(p) ==
    /\ server = "running"
    /\ loc[p] # NoMap
    /\ loc' = [loc EXCEPT ![p] = NoMap]
    /\ saved' = [saved EXCEPT ![p] = inv[p]]
    /\ UNCHANGED <<server, maps, disk, inv>>

\* save_player while p plays on: a savebed, a damned exit, the autosave.
SavePlayer(p) ==
    /\ server = "running"
    /\ loc[p] # NoMap
    /\ saved[p] # inv[p]
    /\ saved' = [saved EXCEPT ![p] = inv[p]]
    /\ UNCHANGED <<server, maps, disk, loc, inv>>

\* pick_up and drop of a unique item.
PickUp(p, i) ==
    /\ server = "running"
    /\ loc[p] # NoMap
    /\ i \in maps[loc[p]].uniq
    /\ maps' = [maps EXCEPT ![loc[p]].uniq = @ \ {i}]
    /\ inv' = [inv EXCEPT ![p] = @ \cup {i}]
    /\ UNCHANGED <<server, disk, loc, saved>>

Drop(p, i) ==
    /\ server = "running"
    /\ loc[p] # NoMap
    /\ i \in inv[p]
    /\ inv' = [inv EXCEPT ![p] = @ \ {i}]
    /\ maps' = [maps EXCEPT ![loc[p]].uniq = @ \cup {i}]
    /\ UNCHANGED <<server, disk, loc, saved>>

\* Objects change on a map in memory: players, monsters, spells.
Play(m) ==
    /\ server = "running"
    /\ maps[m].in_memory = "IN_MEMORY"
    /\ maps[m].reg = "original"
    /\ maps' = [maps EXCEPT ![m].reg = "played"]
    /\ UNCHANGED <<server, disk, loc, inv, saved>>

\* ready_map_name called for another reason than a player's arrival: a tiled
\* neighbour, a line of sight across maps, a plugin.  A per-player map that has
\* no file is not found.
TouchMap(m) ==
    /\ server = "running"
    /\ m \in PlayerMaps => maps[m].in_memory = "IN_MEMORY" \/ disk[m].home # NoFile
    /\ maps' = [maps EXCEPT ![m] = ready_map_name(m, @, disk[m])]
    /\ disk' = [disk EXCEPT ![m] = ReadyFiles(m, maps[m], @)]
    /\ UNCHANGED <<server, loc, inv, saved>>

-----------------------------------------------------------------------------
(***************************************************************************)
(* The tick loop.                                                          *)
(***************************************************************************)

SecondPasses ==
    /\ server = "running"
    /\ \E m \in Maps : maps[m].ttr > 0
    /\ maps' = [m \in Maps |->
                  [maps[m] EXCEPT !.ttr = IF @ > 0 THEN @ - 1 ELSE 0]]
    /\ UNCHANGED <<server, disk, loc, inv, saved>>

\* Mutated form: write_map_log runs before free_map has marked the map swapped.
SwapDiskLogFirst(m, occupied, err, logOK) ==
    LET d == [disk EXCEPT ![m] = SwapFiles(m, maps[m], @, occupied, err)]
    IN  IF RecycleTmpMaps /\ logOK /\ SwapLogs(m, maps[m], occupied, err)
        THEN [n \in Maps |-> write_map_log(maps[n], d[n])]
        ELSE d

\* The disk after swap_map of m, with temp.maps rewritten when it should be.
SwapDisk(m, occupied, err, logOK) ==
    LET d  == [disk EXCEPT ![m] = SwapFiles(m, maps[m], @, occupied, err)]
        ms == [maps EXCEPT ![m] = swap_map(m, @, occupied, err)]
    IN  IF RecycleTmpMaps /\ logOK /\ SwapLogs(m, maps[m], occupied, err)
        THEN [n \in Maps |-> write_map_log(ms[n], d[n])]
        ELSE d

Due == {m \in Maps : maps[m].in_memory = "IN_MEMORY" /\ maps[m].timeout = 1}

CountDown(s) ==
    IF s.in_memory = "IN_MEMORY" /\ s.timeout > 1 THEN [s EXCEPT !.timeout = @ - 1] ELSE s

\* It is m's turn to be swapped.
SwapDue(m, err, logOK) ==
    /\ maps' = [n \in Maps |->
                  IF n = m THEN swap_map(m, maps[m], m \in Occupied, err)
                  ELSE CountDown(maps[n])]
    /\ disk' = SwapDisk(m, m \in Occupied, err, logOK)
    /\ UNCHANGED <<server, loc, inv, saved>>

\* check_active_maps: every timeout above 1 is decremented and one map whose
\* timeout is 1 is swapped, the first in list order: any of them.
check_active_maps ==
    /\ server = "running"
    /\ \/ /\ Due = {}
          /\ \E m \in Maps : CountDown(maps[m]) # maps[m]
          /\ maps' = [m \in Maps |-> CountDown(maps[m])]
          /\ UNCHANGED <<server, disk, loc, inv, saved>>
       \/ \E m \in Due, err \in Outcomes(SaveErrors), logOK \in LogOutcomes :
            SwapDue(m, err, logOK)

flush_old_maps ==
    /\ server = "running"
    /\ maps' = [m \in Maps |-> FlushStruct(maps, m, Occupied)]
    /\ disk' = [m \in Maps |-> FlushFiles(maps, m, disk[m])]
    /\ UNCHANGED <<server, loc, inv, saved>>

-----------------------------------------------------------------------------
(***************************************************************************)
(* DM commands.                                                            *)
(***************************************************************************)

command_swap(m) ==
    /\ server = "running"
    /\ \E p \in DMs : loc[p] # NoMap
    /\ maps[m].in_memory = "IN_MEMORY"
    /\ maps' = [maps EXCEPT ![m].timeout = 1]
    /\ UNCHANGED <<server, disk, loc, inv, saved>>

\* The process dies: memory is gone, the files stay, and a player comes back
\* with what the player file holds.
ProcessDies(how) ==
    /\ server' = how
    /\ maps' = [m \in Maps |-> Unlinked]
    /\ loc' = [p \in Players |-> NoMap]

\* map_remove_unique_files.
RemoveUnique(m, d) == IF m \in PlayerMaps THEN [d EXCEPT !.home = NoFile]
                      ELSE [d EXCEPT !.v00 = NoFile]

\* The end of command_reset: the map, swapped out as t (or already gone), is
\* given an expired reset time, everything due is flushed, and the DM p who
\* stood on it comes back to a fresh copy.
ResetSucceeds(p, m, full, t, ds) ==
    LET ms   == [maps EXCEPT ![m] = IF t = Unlinked THEN t ELSE [t EXCEPT !.ttr = 0]]
        occ  == OccupiedBy([loc EXCEPT ![p] = IF @ = m THEN NoMap ELSE @])
        ds1  == IF full THEN [ds EXCEPT ![m] = RemoveUnique(m, @)] ELSE ds
        ms2  == [n \in Maps |-> FlushStruct(ms, n, occ)]
        ds2  == [n \in Maps |-> FlushFiles(ms, n, ds1[n])]
    IN  /\ maps' = IF loc[p] = m
                   THEN [ms2 EXCEPT ![m] = [ready_map_name(m, @, ds2[m]) EXCEPT !.timeout = 0]]
                   ELSE ms2
        /\ disk' = IF loc[p] = m THEN [ds2 EXCEPT ![m] = ReadyFiles(m, ms2[m], @)] ELSE ds2
        /\ UNCHANGED <<server, loc, inv, saved>>

\* command_reset by p of map m.  The reset group is taken off before swap_map.
\* It comes back when players are on the map and when the .v00 file cannot be
\* created; after any other failed save it is dropped, and p, if on the map,
\* goes through enter_exit with a freed exit, whose assertion aborts the
\* process.  When swap_map deletes the map instead of saving it, what follows
\* reads freed memory: it may go on as if the map were swapped, or crash.
command_reset(p, m, full, err, logOK) ==
    LET s      == [maps[m] EXCEPT !.reset_group = NoGroup]
        others == On(m) \ {p} # {}
        t      == swap_map(m, s, others, err)
        d      == [disk EXCEPT ![m] = SwapFiles(m, s, @, others, err)]
        logs   == RecycleTmpMaps /\ logOK /\ SwapLogs(m, s, others, err)
        ms     == [maps EXCEPT ![m] = t]
        ds     == IF logs THEN [n \in Maps |-> write_map_log(ms[n], d[n])] ELSE d
        kept   == others \/ (err = "UCREATION" /\ m \notin PlayerMaps)
    IN  /\ server = "running"
        /\ p \in DMs /\ loc[p] # NoMap
        /\ s.in_memory # "unlinked"
        /\ ~(full /\ m \in PlayerMaps /\ loc[p] = m)
        /\ \/ /\ s.in_memory = "SWAPPED"
              /\ ResetSucceeds(p, m, full, s, disk)
           \/ /\ s.in_memory = "IN_MEMORY" /\ t.in_memory # "IN_MEMORY"
              /\ ResetSucceeds(p, m, full, t, ds)
           \/ /\ t.in_memory = "IN_MEMORY"
              /\ kept \/ loc[p] # m
              /\ maps' = IF kept THEN [maps EXCEPT ![m] = [t EXCEPT !.reset_group = maps[m].reset_group]]
                         ELSE ms
              /\ disk' = ds
              /\ UNCHANGED <<server, loc, inv, saved>>
           \/ /\ s.in_memory = "IN_MEMORY"
              /\ t = Unlinked \/ (t.in_memory = "IN_MEMORY" /\ ~kept /\ loc[p] = m)
              /\ ProcessDies("crashed")
              /\ disk' = ds
              /\ inv' = saved
              /\ UNCHANGED saved

-----------------------------------------------------------------------------
(***************************************************************************)
(* Stopping and starting.                                                  *)
(***************************************************************************)

\* Mutated form: only the maps in memory lose their temporary file.
CleanedFilesKeepingSwapped(m, err) ==
    LET s == maps[m]
        d == disk[m]
    IN  IF s.in_memory = "IN_MEMORY" /\ RecycleTmpMaps THEN SwapFiles(m, s, d, FALSE, err)
        ELSE IF s.in_memory = "IN_MEMORY" THEN clean_tmp_map(SavedFiles(m, s, d, err))
        ELSE d

\* Mutated form: maps in memory are not saved when the server does not recycle.
CleanedFilesUnsaved(m, err) ==
    LET s == maps[m]
        d == disk[m]
    IN  IF s.in_memory = "IN_MEMORY" /\ RecycleTmpMaps THEN SwapFiles(m, s, d, FALSE, err)
        ELSE IF s.tmpname THEN clean_tmp_map(d)
        ELSE d

\* clean_tmp_files on one map, when no player is left: a map in memory is
\* swapped (recycling) or saved and its temporary file removed; the temporary
\* file of any other map is removed.
CleanedFiles(m, err) ==
    LET s == maps[m]
        d == disk[m]
    IN  IF s.in_memory = "IN_MEMORY" /\ RecycleTmpMaps THEN SwapFiles(m, s, d, FALSE, err)
        ELSE IF s.in_memory = "IN_MEMORY" THEN clean_tmp_map(SavedFiles(m, s, d, err))
        ELSE IF s.tmpname THEN clean_tmp_map(d)
        ELSE d

\* do_shutdown: save_and_kick_all_players, then clean_tmp_files.  temp.maps is
\* rewritten by the last swap that succeeds, when every map is as it will be.
Shutdown ==
    /\ server = "running"
    /\ "shutdown" \in Stops
    /\ \E err \in [Maps -> Outcomes(StopErrors)], logOK \in LogOutcomes :
         LET ms == [m \in Maps |-> IF RecycleTmpMaps THEN swap_map(m, maps[m], FALSE, err[m])
                                   ELSE maps[m]]
             ds == [m \in Maps |-> CleanedFiles(m, err[m])]
         IN  disk' = IF /\ RecycleTmpMaps /\ logOK
                        /\ \E m \in Maps : SwapLogs(m, maps[m], FALSE, err[m])
                     THEN [m \in Maps |-> write_map_log(ms[m], ds[m])]
                     ELSE ds
    /\ ProcessDies("stopped")
    /\ saved' = [p \in Players |-> IF loc[p] = NoMap THEN saved[p] ELSE inv[p]]
    /\ inv' = saved'

Crash ==
    /\ server = "running"
    /\ "crash" \in Stops
    /\ ProcessDies("crashed")
    /\ inv' = saved
    /\ UNCHANGED <<disk, saved>>

\* The process dies inside swap_map, after the .v00 file is in place and before
\* the temporary file is renamed or listed in temp.maps.
CrashInSwap(m) ==
    /\ server = "running"
    /\ "crash" \in Stops
    /\ m \in Due \ PlayerMaps
    /\ SwapSaves(m, maps[m], m \in Occupied)
    /\ ProcessDies("crashed")
    /\ disk' = [disk EXCEPT ![m] = CommitUnique(m, maps[m], @)]
    /\ inv' = saved
    /\ UNCHANGED saved

\* init: read_map_log.
Boot ==
    /\ server # "running"
    /\ server' = "running"
    /\ maps' = [m \in Maps |-> read_map_log(disk[m])]
    /\ disk' = [m \in Maps |-> BootFiles(disk[m])]
    /\ UNCHANGED <<loc, inv, saved>>

-----------------------------------------------------------------------------
Next ==
    \/ \E p \in Players, m \in Maps : Enter(p, m)
    \/ \E p \in Players : Leave(p) \/ SavePlayer(p)
    \/ \E p \in Players, i \in Items : PickUp(p, i) \/ Drop(p, i)
    \/ \E m \in Maps : Play(m) \/ TouchMap(m)
    \/ SecondPasses
    \/ check_active_maps
    \/ flush_old_maps
    \/ \E m \in Maps : command_swap(m)
    \/ \E p \in DMs, m \in Maps, full \in BOOLEAN, err \in Outcomes(SaveErrors),
          logOK \in LogOutcomes : command_reset(p, m, full, err, logOK)
    \/ Shutdown
    \/ Crash
    \/ \E m \in Maps : CrashInSwap(m)
    \/ Boot

Spec == Init /\ [][Next]_vars

\* The loop of server_main runs check_active_maps every tick and flush_old_maps
\* every 509 ticks; nothing a player does can hold either back.
Fairness == WF_vars(check_active_maps) /\ WF_vars(flush_old_maps)

FairSpec == Spec /\ Fairness

-----------------------------------------------------------------------------
(***************************************************************************)
(* Properties.                                                             *)
(***************************************************************************)

\* The map an arriving player would find at m: what the structure and the files
\* are worth together.  While the server is down, what it would boot with.
View(m) == IF server = "running" THEN ready_map_name(m, maps[m], disk[m])
           ELSE ready_map_name(m, read_map_log(disk[m]), BootFiles(disk[m]))

\* A player is never left on a map that was swapped out, reset or deleted:
\* swap_map, flush_old_maps and command_reset all respect the player list, even
\* when ready_map_name has armed the timeout of an occupied map.
PlayersOnLoadedMaps ==
    \A p \in Players : loc[p] # NoMap =>
        server = "running" /\ maps[loc[p]].in_memory = "IN_MEMORY"

\* While the server runs, a temporary file (the orphans of earlier crashes apart)
\* exists only for a map that is swapped out and knows its name: once the map is
\* back in memory, reset or deleted, the file is gone, so an old state of the map
\* can never be loaded again.
TmpFileOwned ==
    server = "running" =>
        \A m \in Maps : disk[m].tmp # NoFile => HasTmpFile(maps[m], disk[m])

\* Without recycling, a swapped-out shared map always has its temporary file, and
\* a swapped-out per-player map its file under players/: swap_map frees a map
\* only once it is safely written.
SwappedMapBacked ==
    \A m \in Maps : maps[m].in_memory = "SWAPPED" =>
        IF m \in PlayerMaps THEN disk[m].home # NoFile
        ELSE HasTmpFile(maps[m], disk[m])

\* Only a crash orphans temporary files: an orderly stop removes or lists every one
\* of its process, whatever saves failed, were loaded back or reset before, so that
\* the next process finds none it does not know.  What a crash once orphaned stays
\* in the temp dir for good.
OnlyCrashesOrphanFiles ==
    [][\A m \in Maps : ~disk[m].orphan /\ disk'[m].orphan => server = "crashed"]_vars

\* The unique items somebody could find or has: on which maps, in which pockets.
Holders(i) == {m \in Maps : i \in View(m).uniq} \cup {p \in Players : i \in inv[p]}

\* "Unique items exist only one time on a server": however maps are swapped,
\* reset and restarted, no item is ever in two places or in none.
UniqueItemOnce == \A i \in Items : Cardinality(Holders(i)) = 1

\* "all maps in the same group reset at the same time": when the running server
\* resets a map of a group, no other member of the group is left as it was played.
GroupResetsTogether ==
    [][\A m, n \in Maps :
          /\ server = "running" /\ server' = "running"
          /\ Group[m] # NoGroup /\ Group[n] = Group[m]
          /\ View(m).reg = "played" /\ View(m).reg' = "original"
          => View(n).reg' = "original"]_vars

\* A map nobody is on leaves memory in the end, whatever way the last player
\* left and whether or not the timeout was ever set, unless something keeps
\* asking for it or swap_map is called for it again and again and fails.  That
\* other maps are swapped in its place, one in a tick, is no excuse.
SwapFails(m) ==
    /\ server = "running" /\ m \in Due
    /\ \E err \in Outcomes(SaveErrors), logOK \in LogOutcomes : SwapDue(m, err, logOK)
    /\ maps'[m].in_memory = "IN_MEMORY"

AbandonedMapsLeaveMemory ==
    \A m \in Maps :
        <>[](On(m) = {}) =>
            \/ []<>(maps[m].in_memory # "IN_MEMORY")
            \/ []<><<TouchMap(m)>>_vars
            \/ []<><<SwapFails(m)>>_vars

\* recycle_tmp_maps: "you can restart a public server, and not have all the maps
\* reset".  After an orderly stop every file that temp.maps lists exists.
RecycledFilesExist ==
    server = "stopped" =>
        \A m \in Maps : disk[m].entry # NoFile => disk[m].entry.live

\* recycle_tmp_maps: the process may die at any moment, and every map that was
\* swapped out by then comes back from its temporary file as it was, because
\* swap_map lists it in temp.maps as soon as it is free.  (The line may lag behind
\* a reset, never behind a swap.)
SwappedMapsSurviveCrash ==
    [][\A m \in Maps :
          server = "running" /\ server' = "crashed" /\ maps[m].in_memory = "SWAPPED"
          => View(m).reg' = View(m).reg /\ View(m).uniq' = View(m).uniq]_vars

\* The abstract specification, on the world that View shows.
World == INSTANCE MapStore WITH
            reg  <- [m \in Maps |-> View(m).reg],
            uniq <- [m \in Maps |-> View(m).uniq],
            Template <- TemplateItems,
            Carried  <- InitialInv

RefinesMapStore == World!World

(***************************************************************************)
(* The conditions under which the world of MapStore is kept.  The code does*)
(* not enforce them; where one of them fails, content of a map is lost or a*)
(* unique item appears again:                                              *)
(*   - a save fails, if at all, before the objects of the map are freed,   *)
(*     and the saves of a stop do not fail;                                *)
(*   - the process does not crash, and no DM resets maps;                  *)
(*   - a map of fixed reset time is in a group (a swap would delete it, and*)
(*     the unique items on it, without a save);                            *)
(*   - a shared map whose original holds unique items has a unique floor,  *)
(*     so that a save without any leaves an empty .v00 file, not none.     *)
(***************************************************************************)
Careful ==
    /\ ~RecycleTmpMaps
    /\ DMs = {}
    /\ "crash" \notin Stops
    /\ SaveErrors \subseteq {"OK", "RCREATION", "UCREATION"}
    /\ StopErrors \subseteq {"OK"}
    /\ \A m \in FixedReset : Group[m] # NoGroup
    /\ \A m \in Maps \ PlayerMaps : TemplateItems[m] # {} => m \in FloorMaps

\* Item i is on one of the maps, as uniq has them, or with one of the players.
InOnePlace(i, uniq, pockets) ==
    \/ /\ \E m \in Maps : \A n \in Maps : i \in uniq[n] <=> n = m
       /\ \A p \in Players : i \notin pockets[p]
    \/ /\ \A n \in Maps : i \notin uniq[n]
       /\ \E p \in Players : \A q \in Players : i \in pockets[q] <=> q = p

\* At the start each item is on the original of one map, or with one player.
PlacedOnce == \A i \in Items : InOnePlace(i, TemplateItems, InitialInv)
=============================================================================
