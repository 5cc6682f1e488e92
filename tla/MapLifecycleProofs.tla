------------------------- MODULE MapLifecycleProofs -------------------------
(***************************************************************************)
(* What holds of MapLifecycle for every set of maps and players, every     *)
(* timeout and every choice of save errors.                                *)
(***************************************************************************)
EXTENDS MapLifecycle, TLAPS

-----------------------------------------------------------------------------
(***************************************************************************)
(* Types: the operators of MapStorage map structures to structures and     *)
(* files to files.                                                         *)
(***************************************************************************)

\* The structure of a path that is not linked is a structure.
LEMMA UnlinkedType == ASSUME NEW m \in Maps PROVE Unlinked \in MapStruct(m)
  BY TimesAssumption DEF Unlinked, MapStruct, Versions

LEMMA FileFields ==
  ASSUME NEW m \in Maps, NEW d \in MapFiles(m)
  PROVE  /\ d.tmp \in TmpFiles(m) \cup {NoFile}
         /\ d.v00 \in (SUBSET Items) \cup {NoFile}
         /\ d.home \in HomeFiles \cup {NoFile}
         /\ d.entry \in LogLines \cup {NoFile}
  BY DEF MapFiles

LEMMA TimeoutType ==
  ASSUME NEW m \in Maps, NEW s \in MapStruct(m), NEW t \in 0..MinTimeout
  PROVE  /\ [s EXCEPT !.timeout = t] \in MapStruct(m)
         /\ [s EXCEPT !.timeout = t].in_memory = s.in_memory
         /\ [s EXCEPT !.timeout = t].tmpname = s.tmpname
  BY DEF MapStruct

LEMMA FreshType ==
  ASSUME NEW m \in Maps, NEW d \in MapFiles(m)
  PROVE  FreshMap(m, d) \in MapStruct(m)
  BY MapsAssumption, TimesAssumption DEF FreshMap, MapStruct, MapFiles, Versions

LEMMA CleanType ==
  ASSUME NEW m \in Maps, NEW d \in MapFiles(m)
  PROVE  clean_tmp_map(d) \in MapFiles(m)
  BY DEF clean_tmp_map, MapFiles, LogLines

LEMMA ReadyType ==
  ASSUME NEW m \in Maps, NEW s \in MapStruct(m), NEW d \in MapFiles(m)
  PROVE  /\ ready_map_name(m, s, d) \in MapStruct(m)
         /\ ready_map_name(m, s, d).in_memory = "IN_MEMORY"
         /\ ReadyFiles(m, s, d) \in MapFiles(m)
<1>1. CASE s.in_memory = "IN_MEMORY"
  BY <1>1, TimeoutType, TimesAssumption DEF ready_map_name, ReadyFiles, HasTmpFile
<1>2. FreshMap(m, d) \in MapStruct(m) /\ FreshMap(m, d).in_memory = "IN_MEMORY"
  BY FreshType DEF FreshMap
<1>3. ASSUME d.home # NoFile
      PROVE  HomeMap(m, d) \in MapStruct(m) /\ HomeMap(m, d).in_memory = "IN_MEMORY"
  BY <1>2, <1>3, FileFields DEF HomeMap, HomeFiles, MapStruct
<1>4. ASSUME HasTmpFile(s, d)
      PROVE  TmpMap(s, d) \in MapStruct(m) /\ TmpMap(s, d).in_memory = "IN_MEMORY"
  <2>1. d.tmp \in TmpFiles(m)
    BY <1>4, FileFields DEF HasTmpFile
  <2>2. d.tmp.reg \in Versions /\ d.tmp.reset_group \in {Group[m], NoGroup}
    BY <2>1 DEF TmpFiles
  <2> DEFINE group == IF d.tmp.reset_group = NoGroup THEN s.reset_group ELSE d.tmp.reset_group
             items == IF d.v00 = NoFile THEN {} ELSE d.v00
  <2>3. MinTimeout \in 0..MinTimeout
    BY TimesAssumption
  <2>4. items \in SUBSET Items
    BY FileFields
  <2>5. group \in {Group[m], NoGroup}
    BY <2>2 DEF MapStruct
  <2>6. TmpMap(s, d) = [s EXCEPT !.in_memory = "IN_MEMORY", !.timeout = MinTimeout,
                                 !.tmpname = FALSE, !.reset_group = group,
                                 !.reg = d.tmp.reg, !.uniq = items]
    BY DEF TmpMap
  <2> HIDE DEF group, items
  <2> QED
    BY <2>2, <2>3, <2>4, <2>5, <2>6 DEF MapStruct
<1>5. ReadyFiles(m, s, d) \in MapFiles(m)
  BY CleanType DEF ReadyFiles
<1> QED
  BY <1>1, <1>2, <1>3, <1>4, <1>5 DEF ready_map_name

LEMMA SavedType ==
  ASSUME NEW m \in Maps, NEW s \in MapStruct(m), NEW d \in MapFiles(m),
         NEW err \in SaveOutcomes
  PROVE  /\ SavedStruct(m, s, err) \in MapStruct(m)
         /\ SavedFiles(m, s, d, err) \in MapFiles(m)
<1>1. SavedStruct(m, s, err) \in MapStruct(m)
  BY DEF SavedStruct, MapStruct, Versions
<1>2. CommitUnique(m, s, d) \in MapFiles(m)
  BY DEF CommitUnique, MapFiles, MapStruct
<1>3. [reg |-> s.reg, uniq |-> s.uniq] \in HomeFiles
  BY DEF MapStruct, HomeFiles
<1>4. [reg |-> s.reg, reset_group |-> s.reset_group] \in TmpFiles(m)
  BY DEF MapStruct, TmpFiles
<1>5. ASSUME NEW e \in MapFiles(m), NEW x \in TmpFiles(m), NEW y \in HomeFiles
      PROVE  [e EXCEPT !.tmp = x] \in MapFiles(m) /\ [e EXCEPT !.home = y] \in MapFiles(m)
  BY DEF MapFiles
<1>6. [d EXCEPT !.home = d.home] = d
  BY DEF MapFiles
<1>7. ASSUME NEW e \in MapFiles(m) PROVE [e EXCEPT !.tmp = e.tmp] = e
  BY DEF MapFiles
<1> QED
  BY <1>1, <1>2, <1>3, <1>4, <1>5, <1>6, <1>7 DEF SavedFiles

LEMMA SwapType ==
  ASSUME NEW m \in Maps, NEW s \in MapStruct(m), NEW d \in MapFiles(m),
         NEW occupied \in BOOLEAN, NEW err \in SaveOutcomes
  PROVE  /\ swap_map(m, s, occupied, err) \in MapStruct(m)
         /\ SwapFiles(m, s, d, occupied, err) \in MapFiles(m)
<1>1. set_map_reset_time(m, s) \in MapStruct(m)
  BY TimesAssumption DEF set_map_reset_time, MapStruct
<1> DEFINE t == SavedStruct(m, set_map_reset_time(m, s), err)
<1>2. t \in MapStruct(m)
  BY <1>1, SavedType
<1> HIDE DEF t
<1>3. [t EXCEPT !.in_memory = "SWAPPED", !.timeout = 0] \in MapStruct(m)
  <2>1. ASSUME NEW n \in 0..MinTimeout
        PROVE  [t EXCEPT !.in_memory = "SWAPPED", !.timeout = n] \in MapStruct(m)
    BY <1>2 DEF MapStruct
  <2>2. 0 \in 0..MinTimeout
    BY TimesAssumption
  <2> QED
    BY <2>1, <2>2
<1>4. [t EXCEPT !.timeout = RetryTimeout] \in MapStruct(m)
  BY <1>2, TimesAssumption DEF MapStruct
<1>5. [s EXCEPT !.timeout = 0] \in MapStruct(m)
  BY TimesAssumption DEF MapStruct
<1>6. swap_map(m, s, occupied, err) \in MapStruct(m)
  BY <1>3, <1>4, <1>5, UnlinkedType DEF swap_map, t
<1> QED
  BY <1>6, SavedType DEF SwapFiles

LEMMA LogType ==
  ASSUME NEW m \in Maps, NEW s \in MapStruct(m), NEW d \in MapFiles(m)
  PROVE  /\ write_map_log(s, d) \in MapFiles(m)
         /\ read_map_log(d) \in MapStruct(m)
         /\ BootFiles(d) \in MapFiles(m)
<1>1. write_map_log(s, d) \in MapFiles(m)
  BY DEF write_map_log, MapFiles, MapStruct, LogLines
<1>2. ASSUME d.entry # NoFile PROVE d.entry.ttr \in 0..ResetTimeout
  BY <1>2, FileFields DEF LogLines
<1>3. read_map_log(d) \in MapStruct(m)
  BY <1>2, UnlinkedType DEF read_map_log, MapStruct
<1>4. BootFiles(d) \in MapFiles(m)
  BY DEF BootFiles, Orphaned, MapFiles
<1> QED
  BY <1>1, <1>3, <1>4

LEMMA FlushType ==
  ASSUME NEW ms, NEW m \in Maps, ms[m] \in MapStruct(m), NEW occ, NEW d \in MapFiles(m)
  PROVE  /\ FlushStruct(ms, m, occ) \in MapStruct(m)
         /\ FlushFiles(ms, m, d) \in MapFiles(m)
<1>1. MinTimeout \in 0..MinTimeout
  BY TimesAssumption
<1>2. [ms[m] EXCEPT !.timeout = MinTimeout] \in MapStruct(m)
  BY <1>1, TimeoutType
<1> QED
  BY <1>2, UnlinkedType, CleanType DEF FlushStruct, FlushFiles

-----------------------------------------------------------------------------
(***************************************************************************)
(* Type correctness.                                                       *)
(***************************************************************************)

LEMMA OutcomesType ==
  /\ Outcomes(SaveErrors) \subseteq SaveOutcomes
  /\ Outcomes(StopErrors) \subseteq SaveOutcomes
  /\ LogOutcomes \subseteq BOOLEAN
BY RunAssumption DEF Outcomes, SaveOutcomes, LogOutcomes

LEMMA InitType == Init => TypeOK
<1> SUFFICES ASSUME Init PROVE TypeOK
  OBVIOUS
<1>1. \A m \in Maps : NoFiles \in MapFiles(m)
  BY DEF NoFiles, MapFiles
<1> QED
  BY <1>1, UnlinkedType, RunAssumption DEF Init, TypeOK

\* What swap_map of one map and the log that may follow make of all maps.
LEMMA SwapAllType ==
  ASSUME TypeOK, NEW m \in Maps, NEW s \in MapStruct(m), NEW occupied \in BOOLEAN,
         NEW err \in SaveOutcomes, NEW logs \in BOOLEAN
  PROVE  LET d  == [disk EXCEPT ![m] = SwapFiles(m, s, @, occupied, err)]
             ms == [maps EXCEPT ![m] = swap_map(m, s, occupied, err)]
             ds == IF logs THEN [n \in Maps |-> write_map_log(ms[n], d[n])] ELSE d
         IN  /\ DOMAIN ms = Maps /\ \A n \in Maps : ms[n] \in MapStruct(n)
             /\ DOMAIN ds = Maps /\ \A n \in Maps : ds[n] \in MapFiles(n)
<1> DEFINE d  == [disk EXCEPT ![m] = SwapFiles(m, s, @, occupied, err)]
           ms == [maps EXCEPT ![m] = swap_map(m, s, occupied, err)]
           ds == IF logs THEN [n \in Maps |-> write_map_log(ms[n], d[n])] ELSE d
<1>1. DOMAIN ms = Maps /\ \A n \in Maps : ms[n] \in MapStruct(n)
  BY SwapType DEF TypeOK
<1>2. DOMAIN d = Maps /\ \A n \in Maps : d[n] \in MapFiles(n)
  BY SwapType DEF TypeOK
<1> HIDE DEF d, ms
<1>3. DOMAIN ds = Maps /\ \A n \in Maps : ds[n] \in MapFiles(n)
  BY <1>1, <1>2, LogType
<1> QED
  BY <1>1, <1>3 DEF d, ms

LEMMA EnterType ==
  ASSUME TypeOK, NEW p \in Players, NEW m \in Maps, Enter(p, m)
  PROVE  TypeOK'
<1> DEFINE ms == [maps EXCEPT ![m] = ready_map_name(m, @, disk[m])]
<1>1. DOMAIN ms = Maps /\ \A n \in Maps : ms[n] \in MapStruct(n)
  BY ReadyType DEF TypeOK
<1>2. maps' = player_map_change_common(ms, p, loc[p], m)
  BY DEF Enter
<1> HIDE DEF ms
<1>3. 0 \in 0..MinTimeout /\ MinTimeout \in 0..MinTimeout
  BY TimesAssumption
<1>4. \A n \in Maps : /\ [ms[n] EXCEPT !.timeout = 0] \in MapStruct(n)
                      /\ [ms[n] EXCEPT !.timeout = MinTimeout] \in MapStruct(n)
  BY <1>1, <1>3, TimeoutType
<1>5. DOMAIN maps' = Maps /\ \A n \in Maps : maps'[n] \in MapStruct(n)
  BY <1>1, <1>2, <1>4 DEF player_map_change_common
<1>6. DOMAIN disk' = Maps /\ \A n \in Maps : disk'[n] \in MapFiles(n)
  BY ReadyType DEF Enter, TypeOK
<1>7. loc' \in [Players -> Maps \cup {NoMap}]
  BY DEF Enter, TypeOK
<1> QED
  BY <1>5, <1>6, <1>7 DEF Enter, TypeOK

LEMMA CheckActiveType ==
  ASSUME TypeOK, check_active_maps
  PROVE  TypeOK'
<1>1. ASSUME NEW m \in Maps PROVE CountDown(maps[m]) \in MapStruct(m)
  <2>1. maps[m] \in MapStruct(m)
    BY DEF TypeOK
  <2>2. maps[m].timeout > 1 => maps[m].timeout - 1 \in 0..MinTimeout
    BY <2>1, TimesAssumption DEF MapStruct
  <2> QED
    BY <2>1, <2>2, TimeoutType DEF CountDown
<1>2. CASE maps' = [m \in Maps |-> CountDown(maps[m])] /\ disk' = disk
  BY <1>1, <1>2 DEF check_active_maps, SwapDue, TypeOK
<1>3. CASE \E m \in Due, err \in Outcomes(SaveErrors), logOK \in LogOutcomes :
             SwapDue(m, err, logOK)
  <2> PICK m \in Due, err \in Outcomes(SaveErrors), logOK \in LogOutcomes :
             /\ maps' = [n \in Maps |->
                           IF n = m THEN swap_map(m, maps[m], m \in Occupied, err)
                           ELSE CountDown(maps[n])]
             /\ disk' = SwapDisk(m, m \in Occupied, err, logOK)
    BY <1>3 DEF SwapDue
  <2>1. m \in Maps /\ err \in SaveOutcomes /\ logOK \in BOOLEAN /\ (m \in Occupied) \in BOOLEAN
    BY OutcomesType DEF Due
  <2>2. DOMAIN maps' = Maps /\ \A n \in Maps : maps'[n] \in MapStruct(n)
    BY <1>1, <2>1, SwapType DEF TypeOK
  <2>3. DOMAIN disk' = Maps /\ \A n \in Maps : disk'[n] \in MapFiles(n)
    <3> DEFINE logs == RecycleTmpMaps /\ logOK /\ SwapLogs(m, maps[m], m \in Occupied, err)
    <3>1. logs \in BOOLEAN /\ maps[m] \in MapStruct(m)
      BY <2>1 DEF TypeOK
    <3> QED
      BY <2>1, <3>1, SwapAllType DEF SwapDisk
  <2> QED
    BY <2>2, <2>3 DEF check_active_maps, SwapDue, TypeOK
<1> QED
  BY <1>2, <1>3 DEF check_active_maps, SwapDue

LEMMA FlushOldType ==
  ASSUME TypeOK, flush_old_maps
  PROVE  TypeOK'
BY FlushType DEF flush_old_maps, TypeOK

\* The end of command_reset, from files ds that are files.
LEMMA ResetSucceedsType ==
  ASSUME TypeOK, NEW p \in Players, NEW m \in Maps, NEW full \in BOOLEAN,
         NEW t \in MapStruct(m), NEW ds, DOMAIN ds = Maps,
         \A n \in Maps : ds[n] \in MapFiles(n),
         ResetSucceeds(p, m, full, t, ds)
  PROVE  TypeOK'
<1> DEFINE ms  == [maps EXCEPT ![m] = IF t = Unlinked THEN t ELSE [t EXCEPT !.ttr = 0]]
           occ == OccupiedBy([loc EXCEPT ![p] = IF @ = m THEN NoMap ELSE @])
           ds1 == IF full THEN [ds EXCEPT ![m] = RemoveUnique(m, @)] ELSE ds
           ms2 == [n \in Maps |-> FlushStruct(ms, n, occ)]
           ds2 == [n \in Maps |-> FlushFiles(ms, n, ds1[n])]
<1>1. [t EXCEPT !.ttr = 0] \in MapStruct(m)
  BY TimesAssumption DEF MapStruct
<1>2. \A n \in Maps : ms[n] \in MapStruct(n)
  BY <1>1 DEF TypeOK
<1>3. RemoveUnique(m, ds[m]) \in MapFiles(m)
  BY DEF RemoveUnique, MapFiles
<1>4. \A n \in Maps : ds1[n] \in MapFiles(n)
  BY <1>3
<1>5. /\ maps' = IF loc[p] = m
                 THEN [ms2 EXCEPT ![m] = [ready_map_name(m, @, ds2[m]) EXCEPT !.timeout = 0]]
                 ELSE ms2
      /\ disk' = IF loc[p] = m THEN [ds2 EXCEPT ![m] = ReadyFiles(m, ms2[m], @)] ELSE ds2
      /\ UNCHANGED <<server, loc, inv, saved>>
  BY DEF ResetSucceeds
<1> HIDE DEF ms, occ, ds1
<1>6. \A n \in Maps : ms2[n] \in MapStruct(n) /\ ds2[n] \in MapFiles(n)
  BY <1>2, <1>4, FlushType
<1>7. DOMAIN ms2 = Maps /\ DOMAIN ds2 = Maps
  OBVIOUS
<1> HIDE DEF ms2, ds2
<1>8. 0 \in 0..MinTimeout
  BY TimesAssumption
<1>9. /\ [ready_map_name(m, ms2[m], ds2[m]) EXCEPT !.timeout = 0] \in MapStruct(m)
      /\ ReadyFiles(m, ms2[m], ds2[m]) \in MapFiles(m)
  BY <1>6, <1>8, ReadyType, TimeoutType
<1> QED
  BY <1>5, <1>6, <1>7, <1>9 DEF TypeOK

LEMMA CommandResetType ==
  ASSUME TypeOK, NEW p \in DMs, NEW m \in Maps, NEW full \in BOOLEAN,
         NEW err \in Outcomes(SaveErrors), NEW logOK \in LogOutcomes,
         command_reset(p, m, full, err, logOK)
  PROVE  TypeOK'
<1> DEFINE s      == [maps[m] EXCEPT !.reset_group = NoGroup]
           others == On(m) \ {p} # {}
           t      == swap_map(m, s, others, err)
           d      == [disk EXCEPT ![m] = SwapFiles(m, s, @, others, err)]
           logs   == RecycleTmpMaps /\ logOK /\ SwapLogs(m, s, others, err)
           ms     == [maps EXCEPT ![m] = t]
           ds     == IF logs THEN [n \in Maps |-> write_map_log(ms[n], d[n])] ELSE d
           kept   == others \/ (err = "UCREATION" /\ m \notin PlayerMaps)
<1>1. maps[m] \in MapStruct(m) /\ s \in MapStruct(m)
  BY DEF TypeOK, MapStruct
<1>2. err \in SaveOutcomes /\ others \in BOOLEAN /\ logs \in BOOLEAN /\ p \in Players
  BY OutcomesType, RunAssumption
<1>3. \/ s.in_memory = "SWAPPED" /\ ResetSucceeds(p, m, full, s, disk)
      \/ ResetSucceeds(p, m, full, t, ds)
      \/ /\ maps' = IF kept THEN [maps EXCEPT ![m] = [t EXCEPT !.reset_group = maps[m].reset_group]]
                     ELSE ms
         /\ disk' = ds
         /\ UNCHANGED <<server, loc, inv, saved>>
      \/ ProcessDies("crashed") /\ disk' = ds /\ inv' = saved /\ UNCHANGED saved
  BY DEF command_reset
<1> HIDE DEF s, others, logs, kept
<1>4. t \in MapStruct(m)
  <2>1. disk[m] \in MapFiles(m)
    BY DEF TypeOK
  <2> QED
    BY <1>1, <1>2, <2>1, SwapType
<1>5. /\ DOMAIN ms = Maps /\ \A n \in Maps : ms[n] \in MapStruct(n)
      /\ DOMAIN ds = Maps /\ \A n \in Maps : ds[n] \in MapFiles(n)
  BY <1>1, <1>2, SwapAllType
<1> HIDE DEF t, d, ms, ds
<1>6. [t EXCEPT !.reset_group = maps[m].reset_group] \in MapStruct(m)
  BY <1>1, <1>4 DEF MapStruct
<1>7. CASE s.in_memory = "SWAPPED" /\ ResetSucceeds(p, m, full, s, disk)
  BY <1>1, <1>2, <1>7, ResetSucceedsType DEF TypeOK
<1>8. CASE ResetSucceeds(p, m, full, t, ds)
  BY <1>2, <1>4, <1>5, <1>8, ResetSucceedsType
<1>9. CASE /\ maps' = IF kept THEN [maps EXCEPT ![m] = [t EXCEPT !.reset_group = maps[m].reset_group]]
                      ELSE ms
           /\ disk' = ds
           /\ UNCHANGED <<server, loc, inv, saved>>
  BY <1>5, <1>6, <1>9 DEF TypeOK
<1>10. CASE ProcessDies("crashed") /\ disk' = ds /\ inv' = saved /\ UNCHANGED saved
  BY <1>5, <1>10, UnlinkedType DEF ProcessDies, TypeOK
<1> QED
  BY <1>3, <1>7, <1>8, <1>9, <1>10

LEMMA ShutdownType ==
  ASSUME TypeOK, Shutdown
  PROVE  TypeOK'
<1> PICK err \in [Maps -> Outcomes(StopErrors)], logOK \in LogOutcomes :
         LET ms == [m \in Maps |-> IF RecycleTmpMaps THEN swap_map(m, maps[m], FALSE, err[m])
                                   ELSE maps[m]]
             ds == [m \in Maps |-> CleanedFiles(m, err[m])]
         IN  disk' = IF /\ RecycleTmpMaps /\ logOK
                        /\ \E m \in Maps : SwapLogs(m, maps[m], FALSE, err[m])
                     THEN [m \in Maps |-> write_map_log(ms[m], ds[m])]
                     ELSE ds
  BY DEF Shutdown
<1> DEFINE ms == [m \in Maps |-> IF RecycleTmpMaps THEN swap_map(m, maps[m], FALSE, err[m])
                                 ELSE maps[m]]
           ds == [m \in Maps |-> CleanedFiles(m, err[m])]
<1>1. \A m \in Maps : err[m] \in SaveOutcomes
  BY OutcomesType
<1>2. \A m \in Maps : ms[m] \in MapStruct(m)
  BY <1>1, SwapType DEF TypeOK
<1>3. \A m \in Maps : ds[m] \in MapFiles(m)
  BY <1>1, SwapType, SavedType, CleanType DEF CleanedFiles, TypeOK
<1>4. DOMAIN disk' = Maps /\ \A m \in Maps : disk'[m] \in MapFiles(m)
  <2> HIDE DEF ms, ds
  <2>1. \A m \in Maps : write_map_log(ms[m], ds[m]) \in MapFiles(m)
    BY <1>2, <1>3, LogType
  <2> QED
    BY <1>3, <2>1 DEF ms, ds
<1>5. DOMAIN maps' = Maps /\ \A m \in Maps : maps'[m] \in MapStruct(m)
  BY UnlinkedType DEF Shutdown, ProcessDies
<1> QED
  BY <1>4, <1>5 DEF Shutdown, ProcessDies, TypeOK

LEMMA CrashInSwapType ==
  ASSUME TypeOK, NEW m \in Maps, CrashInSwap(m)
  PROVE  TypeOK'
<1>1. CommitUnique(m, maps[m], disk[m]) \in MapFiles(m)
  BY DEF CommitUnique, MapFiles, MapStruct, TypeOK
<1> QED
  BY <1>1, UnlinkedType DEF CrashInSwap, ProcessDies, TypeOK

LEMMA ItemMoveType ==
  ASSUME TypeOK, NEW p \in Players, NEW i \in Items, PickUp(p, i) \/ Drop(p, i)
  PROVE  TypeOK'
<1>1. loc[p] \in Maps
  BY DEF PickUp, Drop, TypeOK
<1>2. /\ [maps[loc[p]] EXCEPT !.uniq = @ \ {i}] \in MapStruct(loc[p])
      /\ [maps[loc[p]] EXCEPT !.uniq = @ \cup {i}] \in MapStruct(loc[p])
  BY <1>1 DEF TypeOK, MapStruct
<1>3. DOMAIN maps' = Maps /\ \A m \in Maps : maps'[m] \in MapStruct(m)
  BY <1>1, <1>2 DEF PickUp, Drop, TypeOK
<1>4. inv' \in [Players -> SUBSET Items]
  <2>1. CASE PickUp(p, i)
    BY <2>1 DEF PickUp, TypeOK
  <2>2. CASE Drop(p, i)
    BY <2>2 DEF Drop, TypeOK
  <2> QED
    BY <2>1, <2>2
<1> QED
  BY <1>3, <1>4 DEF PickUp, Drop, TypeOK

LEMMA StepType == TypeOK /\ [Next]_vars => TypeOK'
<1> SUFFICES ASSUME TypeOK, [Next]_vars PROVE TypeOK'
  OBVIOUS
<1>1. ASSUME NEW p \in Players, NEW m \in Maps, Enter(p, m) PROVE TypeOK'
  BY <1>1, EnterType
<1>2. ASSUME NEW p \in Players, Leave(p) \/ SavePlayer(p) PROVE TypeOK'
  BY <1>2 DEF Leave, SavePlayer, TypeOK
<1>3. ASSUME NEW p \in Players, NEW i \in Items, PickUp(p, i) \/ Drop(p, i) PROVE TypeOK'
  BY <1>3, ItemMoveType
<1>4. ASSUME NEW m \in Maps, Play(m) PROVE TypeOK'
  <2>1. [maps[m] EXCEPT !.reg = "played"] \in MapStruct(m)
    BY DEF TypeOK, MapStruct, Versions
  <2> QED
    BY <1>4, <2>1 DEF Play, TypeOK
<1>5. ASSUME NEW m \in Maps, TouchMap(m) PROVE TypeOK'
  BY <1>5, ReadyType DEF TouchMap, TypeOK
<1>6. CASE SecondPasses
  <2>1. ASSUME NEW m \in Maps
        PROVE  [maps[m] EXCEPT !.ttr = IF @ > 0 THEN @ - 1 ELSE 0] \in MapStruct(m)
    BY TimesAssumption DEF TypeOK, MapStruct
  <2> QED
    BY <1>6, <2>1 DEF SecondPasses, TypeOK
<1>7. CASE check_active_maps
  BY <1>7, CheckActiveType
<1>8. CASE flush_old_maps
  BY <1>8, FlushOldType
<1>9. ASSUME NEW m \in Maps, command_swap(m) PROVE TypeOK'
  <2>1. 1 \in 0..MinTimeout
    BY TimesAssumption
  <2>2. [maps[m] EXCEPT !.timeout = 1] \in MapStruct(m)
    BY <2>1, TimeoutType DEF TypeOK
  <2> QED
    BY <1>9, <2>2 DEF command_swap, TypeOK
<1>10. ASSUME NEW p \in DMs, NEW m \in Maps, NEW full \in BOOLEAN,
              NEW err \in Outcomes(SaveErrors), NEW logOK \in LogOutcomes,
              command_reset(p, m, full, err, logOK)
       PROVE  TypeOK'
  BY <1>10, CommandResetType
<1>11. CASE Shutdown
  BY <1>11, ShutdownType
<1>12. CASE Crash
  BY <1>12, UnlinkedType DEF Crash, ProcessDies, TypeOK
<1>13. ASSUME NEW m \in Maps, CrashInSwap(m) PROVE TypeOK'
  BY <1>13, CrashInSwapType
<1>14. CASE Boot
  BY <1>14, LogType DEF Boot, TypeOK
<1>15. CASE UNCHANGED vars
  BY <1>15 DEF vars, TypeOK
<1> QED
  BY <1>1, <1>2, <1>3, <1>4, <1>5, <1>6, <1>7, <1>8, <1>9, <1>10, <1>11, <1>12, <1>13,
     <1>14, <1>15 DEF Next

\* The structures, files, positions and inventories keep their types.
THEOREM TypeCorrect == Spec => []TypeOK
<1>1. TypeOK /\ [Next]_vars => TypeOK'
  BY StepType
<1> QED
  BY InitType, <1>1, PTL DEF Spec

-----------------------------------------------------------------------------
(***************************************************************************)
(* Players are always on loaded maps.  Inductive together with TypeOK: a   *)
(* map in memory leaves memory only through swap_map, which asks for the   *)
(* players, and a reset or a deletion takes only maps that are swapped.    *)
(***************************************************************************)

LEMMA SwapKeepsOccupied ==
  ASSUME NEW m \in Maps, NEW s \in MapStruct(m), NEW err, s.in_memory = "IN_MEMORY"
  PROVE  swap_map(m, s, TRUE, err).in_memory = "IN_MEMORY"
BY DEF swap_map, MapStruct

LEMMA FlushKeepsLoaded ==
  ASSUME NEW ms, NEW m \in Maps, NEW occ, ms[m] \in MapStruct(m),
         ms[m].in_memory = "IN_MEMORY"
  PROVE  FlushStruct(ms, m, occ).in_memory = "IN_MEMORY"
BY DEF FlushStruct, map_can_reset, map_can_reset_no_group, MapStruct

LEMMA CheckActiveLoaded ==
  ASSUME TypeOK, PlayersOnLoadedMaps, check_active_maps
  PROVE  PlayersOnLoadedMaps'
<1> SUFFICES ASSUME NEW q \in Players, loc[q] # NoMap
             PROVE  maps'[loc[q]].in_memory = "IN_MEMORY"
  BY DEF check_active_maps, SwapDue, PlayersOnLoadedMaps
<1>1. loc[q] \in Maps /\ loc[q] \in Occupied
  BY DEF TypeOK, Occupied, OccupiedBy
<1>2. maps[loc[q]] \in MapStruct(loc[q]) /\ maps[loc[q]].in_memory = "IN_MEMORY"
  BY <1>1 DEF TypeOK, PlayersOnLoadedMaps
<1>3. CountDown(maps[loc[q]]).in_memory = "IN_MEMORY"
  BY <1>2 DEF CountDown, MapStruct
<1>4. \A err : swap_map(loc[q], maps[loc[q]], loc[q] \in Occupied, err).in_memory = "IN_MEMORY"
  BY <1>1, <1>2, SwapKeepsOccupied
<1> QED
  BY <1>1, <1>3, <1>4 DEF check_active_maps, SwapDue

LEMMA EnterLoaded ==
  ASSUME TypeOK, PlayersOnLoadedMaps, NEW p \in Players, NEW m \in Maps, Enter(p, m)
  PROVE  PlayersOnLoadedMaps'
<1> DEFINE ms == [maps EXCEPT ![m] = ready_map_name(m, @, disk[m])]
<1>1. DOMAIN ms = Maps /\ \A n \in Maps : ms[n] \in MapStruct(n)
  BY ReadyType DEF TypeOK
<1>2. ms[m].in_memory = "IN_MEMORY"
  BY ReadyType DEF TypeOK
<1>3. maps' = player_map_change_common(ms, p, loc[p], m) /\ loc' = [loc EXCEPT ![p] = m]
  BY DEF Enter
<1>4. \A q \in Players : loc[q] # NoMap => ms[loc[q]].in_memory = "IN_MEMORY"
  BY <1>2 DEF TypeOK, PlayersOnLoadedMaps
<1> HIDE DEF ms
<1>5. \A n \in Maps : maps'[n].in_memory = ms[n].in_memory
  <2>1. 0 \in 0..MinTimeout /\ MinTimeout \in 0..MinTimeout
    BY TimesAssumption
  <2> QED
    BY <1>1, <1>3, <2>1, TimeoutType DEF player_map_change_common
<1>6. ASSUME NEW q \in Players, loc'[q] # NoMap PROVE maps'[loc'[q]].in_memory = "IN_MEMORY"
  <2>1. CASE q = p
    <3>1. loc'[q] = m
      BY <1>3, <2>1 DEF TypeOK
    <3> QED
      BY <1>2, <1>5, <3>1
  <2>2. CASE q # p
    <3>1. loc'[q] = loc[q] /\ loc[q] \in Maps
      BY <1>3, <1>6, <2>2 DEF TypeOK
    <3> QED
      BY <1>4, <1>5, <1>6, <3>1
  <2> QED
    BY <2>1, <2>2
<1> QED
  BY <1>6 DEF Enter, PlayersOnLoadedMaps

\* The DM who resets the map under their own feet comes back to a loaded copy,
\* and nobody else loses the map they are on.
LEMMA ResetSucceedsLoaded ==
  ASSUME TypeOK, PlayersOnLoadedMaps, NEW p \in Players, NEW m \in Maps,
         NEW full \in BOOLEAN, NEW t \in MapStruct(m), NEW ds, DOMAIN ds = Maps,
         \A n \in Maps : ds[n] \in MapFiles(n),
         On(m) \subseteq {p}, ResetSucceeds(p, m, full, t, ds)
  PROVE  PlayersOnLoadedMaps'
<1> DEFINE ms  == [maps EXCEPT ![m] = IF t = Unlinked THEN t ELSE [t EXCEPT !.ttr = 0]]
           occ == OccupiedBy([loc EXCEPT ![p] = IF @ = m THEN NoMap ELSE @])
           ds1 == IF full THEN [ds EXCEPT ![m] = RemoveUnique(m, @)] ELSE ds
           ms2 == [n \in Maps |-> FlushStruct(ms, n, occ)]
           ds2 == [n \in Maps |-> FlushFiles(ms, n, ds1[n])]
<1>1. [t EXCEPT !.ttr = 0] \in MapStruct(m)
  BY TimesAssumption DEF MapStruct
<1>2. \A n \in Maps : ms[n] \in MapStruct(n)
  BY <1>1 DEF TypeOK
<1>3. \A n \in Maps \ {m} : ms[n] = maps[n]
  BY DEF TypeOK
<1>4. RemoveUnique(m, ds[m]) \in MapFiles(m)
  BY DEF RemoveUnique, MapFiles
<1>5. \A n \in Maps : ds1[n] \in MapFiles(n)
  BY <1>4
<1>6. /\ maps' = IF loc[p] = m
                 THEN [ms2 EXCEPT ![m] = [ready_map_name(m, @, ds2[m]) EXCEPT !.timeout = 0]]
                 ELSE ms2
      /\ UNCHANGED <<server, loc>>
  BY DEF ResetSucceeds
<1> HIDE DEF ms, occ, ds1
<1>7. \A n \in Maps : ms2[n] \in MapStruct(n) /\ ds2[n] \in MapFiles(n)
  BY <1>2, <1>5, FlushType
<1>8. \A n \in Maps : maps[n].in_memory = "IN_MEMORY" /\ n # m
                      => ms2[n].in_memory = "IN_MEMORY"
  BY <1>2, <1>3, FlushKeepsLoaded
<1>9. DOMAIN ms2 = Maps
  OBVIOUS
<1> HIDE DEF ms2, ds2
<1>10. 0 \in 0..MinTimeout
  BY TimesAssumption
<1>11. [ready_map_name(m, ms2[m], ds2[m]) EXCEPT !.timeout = 0].in_memory = "IN_MEMORY"
  BY <1>7, <1>10, ReadyType, TimeoutType
<1>12. ASSUME NEW q \in Players, loc[q] # NoMap
       PROVE  maps'[loc[q]].in_memory = "IN_MEMORY"
  <2>1. loc[q] \in Maps /\ maps[loc[q]].in_memory = "IN_MEMORY"
    BY <1>12 DEF TypeOK, PlayersOnLoadedMaps
  <2>2. loc[q] = m => loc[p] = m
    BY DEF On
  <2> QED
    BY <1>6, <1>8, <1>9, <1>11, <2>1, <2>2
<1> QED
  BY <1>6, <1>12 DEF PlayersOnLoadedMaps

LEMMA CommandResetLoaded ==
  ASSUME TypeOK, PlayersOnLoadedMaps, NEW p \in DMs, NEW m \in Maps, NEW full \in BOOLEAN,
         NEW err \in Outcomes(SaveErrors), NEW logOK \in LogOutcomes,
         command_reset(p, m, full, err, logOK)
  PROVE  PlayersOnLoadedMaps'
<1> DEFINE s      == [maps[m] EXCEPT !.reset_group = NoGroup]
           others == On(m) \ {p} # {}
           t      == swap_map(m, s, others, err)
           d      == [disk EXCEPT ![m] = SwapFiles(m, s, @, others, err)]
           logs   == RecycleTmpMaps /\ logOK /\ SwapLogs(m, s, others, err)
           ms     == [maps EXCEPT ![m] = t]
           ds     == IF logs THEN [n \in Maps |-> write_map_log(ms[n], d[n])] ELSE d
           kept   == others \/ (err = "UCREATION" /\ m \notin PlayerMaps)
<1>1. /\ maps[m] \in MapStruct(m) /\ s \in MapStruct(m)
      /\ s.in_memory = maps[m].in_memory
  BY DEF TypeOK, MapStruct
<1>2. err \in SaveOutcomes /\ others \in BOOLEAN /\ logs \in BOOLEAN /\ p \in Players
  BY OutcomesType, RunAssumption
<1>3. server = "running" /\ loc[p] # NoMap
  BY DEF command_reset
<1>4. \/ s.in_memory = "SWAPPED" /\ ResetSucceeds(p, m, full, s, disk)
      \/ /\ s.in_memory = "IN_MEMORY" /\ t.in_memory # "IN_MEMORY"
         /\ ResetSucceeds(p, m, full, t, ds)
      \/ /\ t.in_memory = "IN_MEMORY"
         /\ maps' = IF kept THEN [maps EXCEPT ![m] = [t EXCEPT !.reset_group = maps[m].reset_group]]
                     ELSE ms
         /\ UNCHANGED <<server, loc, inv, saved>>
      \/ ProcessDies("crashed")
  BY DEF command_reset
<1>5. others => On(m) # {} /\ (s.in_memory = "IN_MEMORY" => t.in_memory = "IN_MEMORY")
  BY <1>1, SwapKeepsOccupied
<1>6. ~others => On(m) \subseteq {p}
  OBVIOUS
<1>7. s.in_memory = "SWAPPED" => On(m) = {}
  BY <1>1, MapsAssumption DEF On, TypeOK, PlayersOnLoadedMaps
<1> HIDE DEF s, others, logs, kept
<1>8. t \in MapStruct(m)
  <2>1. disk[m] \in MapFiles(m)
    BY DEF TypeOK
  <2> QED
    BY <1>1, <1>2, <2>1, SwapType
<1>9. DOMAIN ds = Maps /\ \A n \in Maps : ds[n] \in MapFiles(n)
  BY <1>1, <1>2, SwapAllType
<1> HIDE DEF t, d, ds
<1>10. CASE s.in_memory = "SWAPPED" /\ ResetSucceeds(p, m, full, s, disk)
  BY <1>1, <1>2, <1>7, <1>10, ResetSucceedsLoaded DEF TypeOK
<1>11. CASE /\ s.in_memory = "IN_MEMORY" /\ t.in_memory # "IN_MEMORY"
            /\ ResetSucceeds(p, m, full, t, ds)
  BY <1>2, <1>5, <1>6, <1>8, <1>9, <1>11, ResetSucceedsLoaded
<1>12. CASE /\ t.in_memory = "IN_MEMORY"
            /\ maps' = IF kept THEN [maps EXCEPT ![m] = [t EXCEPT !.reset_group = maps[m].reset_group]]
                        ELSE ms
            /\ UNCHANGED <<server, loc, inv, saved>>
  <2>1. [t EXCEPT !.reset_group = maps[m].reset_group].in_memory = "IN_MEMORY"
    BY <1>8, <1>12 DEF MapStruct
  <2> QED
    BY <1>12, <2>1 DEF PlayersOnLoadedMaps, TypeOK
<1>13. CASE ProcessDies("crashed")
  BY <1>13 DEF ProcessDies, PlayersOnLoadedMaps
<1> QED
  BY <1>4, <1>10, <1>11, <1>12, <1>13

LEMMA StepLoaded == TypeOK /\ PlayersOnLoadedMaps /\ [Next]_vars => PlayersOnLoadedMaps'
<1> SUFFICES ASSUME TypeOK, PlayersOnLoadedMaps, [Next]_vars PROVE PlayersOnLoadedMaps'
  OBVIOUS
<1>1. ASSUME NEW p \in Players, NEW m \in Maps, Enter(p, m) PROVE PlayersOnLoadedMaps'
  BY <1>1, EnterLoaded
<1>2. ASSUME NEW p \in Players, Leave(p) \/ SavePlayer(p) PROVE PlayersOnLoadedMaps'
  BY <1>2 DEF Leave, SavePlayer, TypeOK, PlayersOnLoadedMaps
<1>3. ASSUME NEW p \in Players, NEW i \in Items, PickUp(p, i) \/ Drop(p, i)
      PROVE  PlayersOnLoadedMaps'
  <2>1. loc[p] \in Maps /\ maps[loc[p]] \in MapStruct(loc[p])
    BY <1>3 DEF PickUp, Drop, TypeOK
  <2>2. \A m \in Maps : maps'[m].in_memory = maps[m].in_memory
    BY <1>3, <2>1 DEF PickUp, Drop, TypeOK, MapStruct
  <2> QED
    BY <1>3, <2>2 DEF PickUp, Drop, TypeOK, PlayersOnLoadedMaps
<1>4. ASSUME NEW m \in Maps, Play(m) PROVE PlayersOnLoadedMaps'
  <2>1. \A n \in Maps : maps'[n].in_memory = maps[n].in_memory
    BY <1>4 DEF Play, TypeOK, MapStruct
  <2> QED
    BY <1>4, <2>1 DEF Play, TypeOK, PlayersOnLoadedMaps
<1>5. ASSUME NEW m \in Maps, TouchMap(m) PROVE PlayersOnLoadedMaps'
  BY <1>5, ReadyType DEF TouchMap, TypeOK, PlayersOnLoadedMaps
<1>6. CASE SecondPasses
  <2>1. \A m \in Maps : maps'[m].in_memory = maps[m].in_memory
    BY <1>6 DEF SecondPasses, TypeOK, MapStruct
  <2> QED
    BY <1>6, <2>1 DEF SecondPasses, TypeOK, PlayersOnLoadedMaps
<1>7. CASE check_active_maps
  BY <1>7, CheckActiveLoaded
<1>8. CASE flush_old_maps
  BY <1>8, FlushKeepsLoaded DEF flush_old_maps, TypeOK, PlayersOnLoadedMaps
<1>9. ASSUME NEW m \in Maps, command_swap(m) PROVE PlayersOnLoadedMaps'
  <2>1. \A n \in Maps : maps'[n].in_memory = maps[n].in_memory
    BY <1>9 DEF command_swap, TypeOK, MapStruct
  <2> QED
    BY <1>9, <2>1 DEF command_swap, TypeOK, PlayersOnLoadedMaps
<1>10. ASSUME NEW p \in DMs, NEW m \in Maps, NEW full \in BOOLEAN,
              NEW err \in Outcomes(SaveErrors), NEW logOK \in LogOutcomes,
              command_reset(p, m, full, err, logOK)
       PROVE  PlayersOnLoadedMaps'
  BY <1>10, CommandResetLoaded
<1>11. CASE Shutdown \/ Crash \/ \E m \in Maps : CrashInSwap(m)
  BY <1>11 DEF Shutdown, Crash, CrashInSwap, ProcessDies, PlayersOnLoadedMaps
<1>12. CASE Boot
  BY <1>12 DEF Boot, PlayersOnLoadedMaps
<1>13. CASE UNCHANGED vars
  BY <1>13 DEF vars, PlayersOnLoadedMaps
<1> QED
  BY <1>1, <1>2, <1>3, <1>4, <1>5, <1>6, <1>7, <1>8, <1>9, <1>10, <1>11, <1>12, <1>13
     DEF Next

\* A player is never left on a map that was swapped out, reset or deleted.
THEOREM PlayersStayOnLoadedMaps == Spec => []PlayersOnLoadedMaps
<1>1. Init => PlayersOnLoadedMaps
  BY DEF Init, PlayersOnLoadedMaps
<1>2. TypeOK /\ PlayersOnLoadedMaps /\ [Next]_vars => PlayersOnLoadedMaps'
  BY StepLoaded
<1> QED
  BY <1>1, <1>2, TypeCorrect, PTL DEF Spec

-----------------------------------------------------------------------------
(***************************************************************************)
(* A temporary file always belongs to the swapped-out structure that names *)
(* it.  Two strengthenings make this inductive: a per-player map never has *)
(* a temporary file nor a line of temp.maps, which ready_map_name relies on*)
(* when it reads such a map from its home without looking for one; and a   *)
(* dead process is described by its files alone.                           *)
(***************************************************************************)

Plain(m, s, d) == m \in PlayerMaps => ~s.tmpname /\ d.tmp = NoFile /\ d.entry = NoFile

Owned(m, s, d) == Plain(m, s, d) /\ (d.tmp # NoFile => HasTmpFile(s, d))

OwnedInv ==
    \A m \in Maps : IF server = "running" THEN Owned(m, maps[m], disk[m])
                    ELSE Plain(m, maps[m], disk[m])

LEMMA OwnedTimeout ==
  ASSUME NEW m \in Maps, NEW s \in MapStruct(m), NEW d, NEW n, Owned(m, s, d)
  PROVE  Owned(m, [s EXCEPT !.timeout = n], d)
BY DEF Owned, Plain, HasTmpFile, MapStruct

LEMMA CleanFields ==
  ASSUME NEW m \in Maps, NEW d \in MapFiles(m)
  PROVE  /\ clean_tmp_map(d).tmp = NoFile
         /\ d.entry = NoFile => clean_tmp_map(d).entry = NoFile
BY DEF clean_tmp_map, MapFiles

LEMMA UnlinkedOwned ==
  ASSUME NEW m \in Maps, NEW d \in MapFiles(m), d.tmp = NoFile,
         m \in PlayerMaps => d.entry = NoFile
  PROVE  Owned(m, Unlinked, d)
BY DEF Owned, Plain, Unlinked

LEMMA ReadyOwned ==
  ASSUME NEW m \in Maps, NEW s \in MapStruct(m), NEW d \in MapFiles(m), Owned(m, s, d)
  PROVE  Owned(m, ready_map_name(m, s, d), ReadyFiles(m, s, d))
<1>1. CASE s.in_memory = "IN_MEMORY"
  BY <1>1, OwnedTimeout DEF ready_map_name, ReadyFiles, HasTmpFile
<1>2. CASE s.in_memory # "IN_MEMORY" /\ m \in PlayerMaps
  <2>1. FreshMap(m, d).tmpname = FALSE /\ HomeMap(m, d).tmpname = FALSE
    BY DEF FreshMap, HomeMap
  <2>2. d.tmp = NoFile /\ d.entry = NoFile
    BY <1>2 DEF Owned, Plain
  <2>3. ReadyFiles(m, s, d) = d
    BY <1>2 DEF ReadyFiles
  <2>4. ready_map_name(m, s, d).tmpname = FALSE
    BY <1>2, <2>1 DEF ready_map_name
  <2> QED
    BY <2>2, <2>3, <2>4 DEF Owned, Plain
<1>3. CASE s.in_memory # "IN_MEMORY" /\ m \notin PlayerMaps
  <2>1. ReadyFiles(m, s, d).tmp = NoFile
    BY <1>3, CleanFields DEF ReadyFiles, Owned
  <2> QED
    BY <1>3, <2>1 DEF Owned, Plain
<1> QED
  BY <1>1, <1>2, <1>3

LEMMA SavedTmp ==
  ASSUME NEW m \in Maps, NEW s \in MapStruct(m), NEW d \in MapFiles(m), NEW err \in SaveOutcomes
  PROVE  /\ SavedFiles(m, s, d, err).entry = d.entry
         /\ m \in PlayerMaps => SavedFiles(m, s, d, err).tmp = d.tmp
         /\ ~SaveOK(m, s, err) => SavedFiles(m, s, d, err).tmp = d.tmp
<1>1. CommitUnique(m, s, d) \in MapFiles(m)
  BY DEF CommitUnique, MapFiles, MapStruct
<1>2. CommitUnique(m, s, d).entry = d.entry /\ CommitUnique(m, s, d).tmp = d.tmp
  BY DEF CommitUnique, MapFiles
<1>3. CASE OpenFails(m, err) \/ UniqueFails(m, s, err)
  BY <1>3 DEF SavedFiles
<1>4. CASE ~(OpenFails(m, err) \/ UniqueFails(m, s, err)) /\ m \in PlayerMaps
  BY <1>4 DEF SavedFiles, MapFiles
<1>5. CASE ~(OpenFails(m, err) \/ UniqueFails(m, s, err)) /\ m \notin PlayerMaps
  <2>1. ASSUME NEW e \in MapFiles(m), NEW x
        PROVE  [e EXCEPT !.tmp = x].entry = e.entry /\ [e EXCEPT !.tmp = x].tmp = x
    BY DEF MapFiles
  <2> QED
    BY <1>1, <1>2, <1>5, <2>1 DEF SavedFiles, SaveOK
<1> QED
  BY <1>3, <1>4, <1>5

LEMMA SwapOwned ==
  ASSUME NEW m \in Maps, NEW s \in MapStruct(m), NEW d \in MapFiles(m),
         NEW occupied \in BOOLEAN, NEW err \in SaveOutcomes, Owned(m, s, d)
  PROVE  Owned(m, swap_map(m, s, occupied, err), SwapFiles(m, s, d, occupied, err))
<1> DEFINE r == set_map_reset_time(m, s)
           t == SavedStruct(m, r, err)
           f == SwapFiles(m, s, d, occupied, err)
<1>1. CASE ~SwapSaves(m, s, occupied)
  <2>1. f = d
    BY <1>1 DEF SwapFiles
  <2>2. CASE s.in_memory # "IN_MEMORY"
    BY <2>1, <2>2 DEF swap_map
  <2>3. CASE s.in_memory = "IN_MEMORY" /\ occupied
    BY <2>1, <2>3, OwnedTimeout DEF swap_map
  <2>4. CASE s.in_memory = "IN_MEMORY" /\ ~occupied
    <3>1. swap_map(m, s, occupied, err) = Unlinked
      BY <1>1, <2>4 DEF swap_map, SwapSaves
    <3>2. d.tmp = NoFile /\ (m \in PlayerMaps => d.entry = NoFile)
      BY <2>4 DEF Owned, Plain, HasTmpFile
    <3> QED
      BY <2>1, <3>1, <3>2, UnlinkedOwned
  <2> QED
    BY <2>2, <2>3, <2>4
<1>2. CASE SwapSaves(m, s, occupied)
  <2>1. s.in_memory = "IN_MEMORY" /\ ~occupied /\ ~ResetsAtOnce(m, s)
    BY <1>2 DEF SwapSaves
  <2>2. d.tmp = NoFile /\ (m \in PlayerMaps => d.entry = NoFile)
    BY <2>1 DEF Owned, Plain, HasTmpFile
  <2>3. r \in MapStruct(m)
    BY TimesAssumption DEF set_map_reset_time, MapStruct
  <2>4. t \in MapStruct(m)
    BY <2>3, SavedType
  <2>5. t.tmpname = (m \notin PlayerMaps)
    BY <2>3 DEF SavedStruct, MapStruct
  <2>6. f = SavedFiles(m, s, d, err)
    BY <1>2 DEF SwapFiles
  <2>7. /\ f.entry = d.entry
        /\ m \in PlayerMaps => f.tmp = NoFile
        /\ ~SaveOK(m, s, err) => f.tmp = NoFile
    BY <2>2, <2>6, SavedTmp
  <2>8. swap_map(m, s, occupied, err) =
            IF SaveOK(m, s, err) THEN [t EXCEPT !.in_memory = "SWAPPED", !.timeout = 0]
            ELSE [t EXCEPT !.timeout = RetryTimeout]
    BY <2>1 DEF swap_map
  <2> HIDE DEF r, t, f
  <2>9. CASE SaveOK(m, s, err)
    <3>1. /\ [t EXCEPT !.in_memory = "SWAPPED", !.timeout = 0].in_memory = "SWAPPED"
          /\ [t EXCEPT !.in_memory = "SWAPPED", !.timeout = 0].tmpname = t.tmpname
      BY <2>4 DEF MapStruct
    <3> QED
      BY <2>2, <2>5, <2>7, <2>8, <2>9, <3>1 DEF Owned, Plain, HasTmpFile, f
  <2>10. CASE ~SaveOK(m, s, err)
    <3>1. [t EXCEPT !.timeout = RetryTimeout].tmpname = t.tmpname
      BY <2>4 DEF MapStruct
    <3> QED
      BY <2>2, <2>5, <2>7, <2>8, <2>10, <3>1 DEF Owned, Plain, f
  <2> QED
    BY <2>9, <2>10
<1> QED
  BY <1>1, <1>2

LEMMA LogOwned ==
  ASSUME NEW m \in Maps, NEW s \in MapStruct(m), NEW d \in MapFiles(m)
  PROVE  /\ Owned(m, s, d) => Owned(m, s, write_map_log(s, d))
         /\ Plain(m, s, d) => Plain(m, s, write_map_log(s, d))
         /\ Plain(m, Unlinked, d) => Owned(m, read_map_log(d), BootFiles(d))
<1>1. write_map_log(s, d).tmp = d.tmp
  BY DEF write_map_log, MapFiles
<1>2. ~s.tmpname => write_map_log(s, d).entry = NoFile
  BY DEF write_map_log, MapFiles
<1>3. ASSUME Plain(m, Unlinked, d) PROVE Owned(m, read_map_log(d), BootFiles(d))
  <2>1. CASE d.entry = NoFile
    <3>1. BootFiles(d).tmp = NoFile /\ BootFiles(d).entry = NoFile
      BY <2>1 DEF BootFiles, Orphaned, MapFiles
    <3>2. read_map_log(d) = Unlinked
      BY <2>1 DEF read_map_log
    <3> QED
      BY <3>1, <3>2 DEF Owned, Plain, Unlinked
  <2>2. CASE d.entry # NoFile
    <3>1. m \notin PlayerMaps
      BY <1>3, <2>2 DEF Plain
    <3>2. read_map_log(d).in_memory = "SWAPPED" /\ read_map_log(d).tmpname = TRUE
      BY <2>2 DEF read_map_log, Unlinked
    <3> QED
      BY <3>1, <3>2 DEF Owned, Plain, HasTmpFile
  <2> QED
    BY <2>1, <2>2
<1> QED
  BY <1>1, <1>2, <1>3 DEF Owned, Plain, HasTmpFile

LEMMA FlushOwned ==
  ASSUME NEW ms, NEW m \in Maps, ms[m] \in MapStruct(m), NEW occ, NEW d \in MapFiles(m),
         Owned(m, ms[m], d)
  PROVE  Owned(m, FlushStruct(ms, m, occ), FlushFiles(ms, m, d))
<1>1. CASE m \in PlayerMaps
  <2>1. FlushFiles(ms, m, d) = d /\ d.tmp = NoFile /\ d.entry = NoFile
    BY <1>1 DEF FlushFiles, Owned, Plain
  <2>2. ~FlushStruct(ms, m, occ).tmpname
    BY <1>1 DEF FlushStruct, Unlinked, Owned, Plain, MapStruct
  <2> QED
    BY <2>1, <2>2 DEF Owned, Plain
<1>2. CASE m \notin PlayerMaps /\ map_can_reset(ms, m)
  BY <1>2, CleanFields DEF FlushFiles, Owned, Plain
<1>3. CASE m \notin PlayerMaps /\ ~map_can_reset(ms, m)
  BY <1>3, OwnedTimeout DEF FlushFiles, FlushStruct
<1> QED
  BY <1>1, <1>2, <1>3

\* A structure replaced by one that differs in neither in_memory nor tmpname.
LEMMA OwnedSame ==
  ASSUME NEW m \in Maps, NEW s, NEW r, NEW d,
         r.in_memory = s.in_memory, r.tmpname = s.tmpname
  PROVE  /\ Plain(m, s, d) => Plain(m, r, d)
         /\ Owned(m, s, d) => Owned(m, r, d)
BY DEF Owned, Plain, HasTmpFile

\* The process dies: its files are as plain as they were.
LEMMA DeathOwned ==
  ASSUME NEW how, how # "running", ProcessDies(how),
         \A m \in Maps : m \in PlayerMaps => disk'[m].tmp = NoFile /\ disk'[m].entry = NoFile
  PROVE  OwnedInv'
BY DEF ProcessDies, OwnedInv, Plain, Unlinked

LEMMA EnterOwned ==
  ASSUME TypeOK, OwnedInv, NEW p \in Players, NEW m \in Maps, Enter(p, m)
  PROVE  OwnedInv'
<1> DEFINE ms == [maps EXCEPT ![m] = ready_map_name(m, @, disk[m])]
           ds == [disk EXCEPT ![m] = ReadyFiles(m, maps[m], @)]
<1>1. server = "running" /\ server' = "running"
  BY DEF Enter
<1>2. \A n \in Maps : ms[n] \in MapStruct(n) /\ Owned(n, ms[n], ds[n])
  BY <1>1, ReadyType, ReadyOwned DEF TypeOK, OwnedInv
<1>3. maps' = player_map_change_common(ms, p, loc[p], m) /\ disk' = ds
  BY DEF Enter
<1> HIDE DEF ms, ds
<1>4. \A n \in Maps : Owned(n, maps'[n], ds[n])
  BY <1>2, <1>3, OwnedTimeout DEF player_map_change_common
<1> QED
  BY <1>1, <1>3, <1>4 DEF OwnedInv

LEMMA SwapAllOwned ==
  ASSUME TypeOK, OwnedInv, server = "running", NEW m \in Maps, NEW s \in MapStruct(m),
         s.in_memory = maps[m].in_memory, s.tmpname = maps[m].tmpname,
         NEW occupied \in BOOLEAN, NEW err \in SaveOutcomes, NEW logs \in BOOLEAN
  PROVE  LET d  == [disk EXCEPT ![m] = SwapFiles(m, s, @, occupied, err)]
             ms == [maps EXCEPT ![m] = swap_map(m, s, occupied, err)]
             ds == IF logs THEN [n \in Maps |-> write_map_log(ms[n], d[n])] ELSE d
         IN  \A n \in Maps : Owned(n, ms[n], ds[n])
<1> DEFINE d  == [disk EXCEPT ![m] = SwapFiles(m, s, @, occupied, err)]
           ms == [maps EXCEPT ![m] = swap_map(m, s, occupied, err)]
           ds == IF logs THEN [n \in Maps |-> write_map_log(ms[n], d[n])] ELSE d
<1>1. \A n \in Maps : ms[n] \in MapStruct(n) /\ d[n] \in MapFiles(n)
  BY SwapType DEF TypeOK
<1>2. Owned(m, s, disk[m]) /\ disk[m] \in MapFiles(m)
  BY OwnedSame DEF OwnedInv, TypeOK
<1>3. \A n \in Maps : Owned(n, ms[n], d[n])
  BY <1>2, SwapOwned DEF TypeOK, OwnedInv
<1> HIDE DEF d, ms
<1>4. \A n \in Maps : Owned(n, ms[n], ds[n])
  BY <1>1, <1>3, LogOwned
<1> QED
  BY <1>4 DEF d, ms

LEMMA CheckActiveOwned ==
  ASSUME TypeOK, OwnedInv, check_active_maps
  PROVE  OwnedInv'
<1>1. server = "running" /\ server' = "running"
  BY DEF check_active_maps, SwapDue
<1>2. ASSUME NEW m \in Maps
      PROVE  /\ CountDown(maps[m]).in_memory = maps[m].in_memory
             /\ CountDown(maps[m]).tmpname = maps[m].tmpname
  BY DEF TypeOK, CountDown, MapStruct
<1>3. CASE maps' = [m \in Maps |-> CountDown(maps[m])] /\ disk' = disk
  BY <1>1, <1>2, <1>3, OwnedSame DEF OwnedInv
<1>4. CASE \E m \in Due, err \in Outcomes(SaveErrors), logOK \in LogOutcomes :
             SwapDue(m, err, logOK)
  <2> PICK m \in Due, err \in Outcomes(SaveErrors), logOK \in LogOutcomes :
             /\ maps' = [n \in Maps |->
                           IF n = m THEN swap_map(m, maps[m], m \in Occupied, err)
                           ELSE CountDown(maps[n])]
             /\ disk' = SwapDisk(m, m \in Occupied, err, logOK)
    BY <1>4 DEF SwapDue
  <2> DEFINE ms   == [maps EXCEPT ![m] = swap_map(m, maps[m], m \in Occupied, err)]
             logs == RecycleTmpMaps /\ logOK /\ SwapLogs(m, maps[m], m \in Occupied, err)
  <2>1. /\ m \in Maps /\ err \in SaveOutcomes /\ logs \in BOOLEAN
        /\ (m \in Occupied) \in BOOLEAN /\ maps[m] \in MapStruct(m)
    BY OutcomesType DEF Due, TypeOK
  <2>2. \A n \in Maps : Owned(n, ms[n], disk'[n])
    <3> DEFINE d  == [disk EXCEPT ![m] = SwapFiles(m, maps[m], @, m \in Occupied, err)]
               ds == IF logs THEN [n \in Maps |-> write_map_log(ms[n], d[n])] ELSE d
    <3>1. disk' = ds
      BY DEF SwapDisk
    <3> HIDE DEF logs
    <3>2. \A n \in Maps : Owned(n, ms[n], ds[n])
      BY ONLY <1>1, <2>1, TypeOK, OwnedInv, SwapAllOwned
    <3> HIDE DEF d, ds, ms
    <3> QED
      BY <3>1, <3>2
  <2>3. \A n \in Maps : /\ maps'[n].in_memory = ms[n].in_memory
                        /\ maps'[n].tmpname = ms[n].tmpname
    BY <1>2, <2>1 DEF TypeOK
  <2> HIDE DEF ms
  <2> QED
    BY <1>1, <2>2, <2>3, OwnedSame DEF OwnedInv
<1> QED
  BY <1>3, <1>4 DEF check_active_maps, SwapDue

LEMMA ResetSucceedsOwned ==
  ASSUME TypeOK, server = "running", NEW p \in Players, NEW m \in Maps, NEW full \in BOOLEAN,
         NEW t \in MapStruct(m), NEW ds, DOMAIN ds = Maps,
         \A n \in Maps : ds[n] \in MapFiles(n),
         \A n \in Maps \ {m} : Owned(n, maps[n], ds[n]), Owned(m, t, ds[m]),
         ResetSucceeds(p, m, full, t, ds)
  PROVE  OwnedInv'
<1> DEFINE ms  == [maps EXCEPT ![m] = IF t = Unlinked THEN t ELSE [t EXCEPT !.ttr = 0]]
           occ == OccupiedBy([loc EXCEPT ![p] = IF @ = m THEN NoMap ELSE @])
           ds1 == IF full THEN [ds EXCEPT ![m] = RemoveUnique(m, @)] ELSE ds
           ms2 == [n \in Maps |-> FlushStruct(ms, n, occ)]
           ds2 == [n \in Maps |-> FlushFiles(ms, n, ds1[n])]
<1>1. /\ [t EXCEPT !.ttr = 0] \in MapStruct(m)
      /\ [t EXCEPT !.ttr = 0].in_memory = t.in_memory
      /\ [t EXCEPT !.ttr = 0].tmpname = t.tmpname
  BY TimesAssumption DEF MapStruct
<1>2. \A n \in Maps : ms[n] \in MapStruct(n) /\ Owned(n, ms[n], ds[n])
  <2>1. ms[m] \in MapStruct(m) /\ Owned(m, ms[m], ds[m])
    BY <1>1, OwnedSame DEF TypeOK
  <2>2. \A n \in Maps \ {m} : ms[n] = maps[n] /\ maps[n] \in MapStruct(n)
    BY DEF TypeOK
  <2> QED
    BY <2>1, <2>2
<1>3. /\ RemoveUnique(m, ds[m]) \in MapFiles(m)
      /\ RemoveUnique(m, ds[m]).tmp = ds[m].tmp
      /\ RemoveUnique(m, ds[m]).entry = ds[m].entry
  BY DEF RemoveUnique, MapFiles
<1>4. \A n \in Maps : /\ ds1[n] \in MapFiles(n)
                      /\ ds1[n].tmp = ds[n].tmp /\ ds1[n].entry = ds[n].entry
  BY <1>3
<1>5. /\ maps' = IF loc[p] = m
                 THEN [ms2 EXCEPT ![m] = [ready_map_name(m, @, ds2[m]) EXCEPT !.timeout = 0]]
                 ELSE ms2
      /\ disk' = IF loc[p] = m THEN [ds2 EXCEPT ![m] = ReadyFiles(m, ms2[m], @)] ELSE ds2
      /\ server' = "running"
  BY DEF ResetSucceeds
<1> HIDE DEF ms, occ, ds1
<1>6. \A n \in Maps : Owned(n, ms[n], ds1[n])
  BY <1>2, <1>4 DEF Owned, Plain, HasTmpFile
<1>7. \A n \in Maps : /\ ms2[n] \in MapStruct(n) /\ ds2[n] \in MapFiles(n)
                      /\ Owned(n, ms2[n], ds2[n])
  BY <1>2, <1>4, <1>6, FlushType, FlushOwned
<1>8. DOMAIN ms2 = Maps /\ DOMAIN ds2 = Maps
  OBVIOUS
<1> HIDE DEF ms2, ds2
<1>9. Owned(m, [ready_map_name(m, ms2[m], ds2[m]) EXCEPT !.timeout = 0],
               ReadyFiles(m, ms2[m], ds2[m]))
  BY <1>7, ReadyType, ReadyOwned, OwnedTimeout
<1> QED
  BY <1>5, <1>7, <1>8, <1>9 DEF OwnedInv

LEMMA CommandResetOwned ==
  ASSUME TypeOK, OwnedInv, NEW p \in DMs, NEW m \in Maps, NEW full \in BOOLEAN,
         NEW err \in Outcomes(SaveErrors), NEW logOK \in LogOutcomes,
         command_reset(p, m, full, err, logOK)
  PROVE  OwnedInv'
<1> DEFINE s      == [maps[m] EXCEPT !.reset_group = NoGroup]
           others == On(m) \ {p} # {}
           t      == swap_map(m, s, others, err)
           d      == [disk EXCEPT ![m] = SwapFiles(m, s, @, others, err)]
           logs   == RecycleTmpMaps /\ logOK /\ SwapLogs(m, s, others, err)
           ms     == [maps EXCEPT ![m] = t]
           ds     == IF logs THEN [n \in Maps |-> write_map_log(ms[n], d[n])] ELSE d
           kept   == others \/ (err = "UCREATION" /\ m \notin PlayerMaps)
<1>1. /\ s \in MapStruct(m)
      /\ s.in_memory = maps[m].in_memory /\ s.tmpname = maps[m].tmpname
  BY DEF TypeOK, MapStruct
<1>2. err \in SaveOutcomes /\ others \in BOOLEAN /\ logs \in BOOLEAN /\ p \in Players
  BY OutcomesType, RunAssumption
<1>3. server = "running"
  BY DEF command_reset
<1>4. \/ ResetSucceeds(p, m, full, s, disk)
      \/ ResetSucceeds(p, m, full, t, ds)
      \/ /\ maps' = IF kept THEN [maps EXCEPT ![m] = [t EXCEPT !.reset_group = maps[m].reset_group]]
                     ELSE ms
         /\ disk' = ds
         /\ UNCHANGED <<server, loc, inv, saved>>
      \/ ProcessDies("crashed") /\ disk' = ds
  BY DEF command_reset
<1> HIDE DEF s, others, logs, kept
<1>5. t \in MapStruct(m) /\ disk[m] \in MapFiles(m)
  <2>1. disk[m] \in MapFiles(m)
    BY DEF TypeOK
  <2> QED
    BY <1>1, <1>2, <2>1, SwapType
<1>6. DOMAIN ds = Maps /\ \A n \in Maps : ds[n] \in MapFiles(n)
  BY <1>1, <1>2, SwapAllType
<1>7. \A n \in Maps : Owned(n, ms[n], ds[n])
  BY <1>1, <1>2, <1>3, SwapAllOwned
<1>8. ms[m] = t /\ \A n \in Maps \ {m} : ms[n] = maps[n]
  BY DEF TypeOK
<1>9. Owned(m, s, disk[m])
  BY <1>1, <1>3, OwnedSame DEF OwnedInv
<1> HIDE DEF t, d, ds
<1>10. CASE ResetSucceeds(p, m, full, s, disk)
  BY <1>1, <1>2, <1>3, <1>9, <1>10, ResetSucceedsOwned DEF TypeOK, OwnedInv
<1>11. CASE ResetSucceeds(p, m, full, t, ds)
  BY <1>2, <1>3, <1>5, <1>6, <1>7, <1>8, <1>11, ResetSucceedsOwned
<1>12. CASE /\ maps' = IF kept THEN [maps EXCEPT ![m] = [t EXCEPT !.reset_group = maps[m].reset_group]]
                       ELSE ms
            /\ disk' = ds
            /\ UNCHANGED <<server, loc, inv, saved>>
  <2>1. /\ [t EXCEPT !.reset_group = maps[m].reset_group].in_memory = t.in_memory
        /\ [t EXCEPT !.reset_group = maps[m].reset_group].tmpname = t.tmpname
    BY <1>5 DEF MapStruct
  <2>2. \A n \in Maps : /\ maps'[n].in_memory = ms[n].in_memory
                        /\ maps'[n].tmpname = ms[n].tmpname
    BY <1>12, <2>1 DEF TypeOK
  <2> HIDE DEF ms
  <2>3. \A n \in Maps : Owned(n, maps'[n], ds[n])
    BY <1>7, <2>2, OwnedSame
  <2> QED
    BY <1>3, <1>12, <2>3 DEF OwnedInv
<1>13. CASE ProcessDies("crashed") /\ disk' = ds
  BY <1>7, <1>13, DeathOwned DEF Owned, Plain
<1> QED
  BY <1>4, <1>10, <1>11, <1>12, <1>13

LEMMA ShutdownOwned ==
  ASSUME TypeOK, OwnedInv, Shutdown
  PROVE  OwnedInv'
<1> PICK err \in [Maps -> Outcomes(StopErrors)], logOK \in LogOutcomes :
         LET ms == [m \in Maps |-> IF RecycleTmpMaps THEN swap_map(m, maps[m], FALSE, err[m])
                                   ELSE maps[m]]
             ds == [m \in Maps |-> CleanedFiles(m, err[m])]
         IN  disk' = IF /\ RecycleTmpMaps /\ logOK
                        /\ \E m \in Maps : SwapLogs(m, maps[m], FALSE, err[m])
                     THEN [m \in Maps |-> write_map_log(ms[m], ds[m])]
                     ELSE ds
  BY DEF Shutdown
<1> SUFFICES ASSUME NEW m \in Maps, m \in PlayerMaps
             PROVE  disk'[m].tmp = NoFile /\ disk'[m].entry = NoFile
  BY DeathOwned DEF Shutdown
<1> DEFINE s == IF RecycleTmpMaps THEN swap_map(m, maps[m], FALSE, err[m]) ELSE maps[m]
           d == CleanedFiles(m, err[m])
<1>1. err[m] \in SaveOutcomes /\ maps[m] \in MapStruct(m) /\ disk[m] \in MapFiles(m)
  BY OutcomesType DEF TypeOK
<1>2. Owned(m, maps[m], disk[m])
  BY DEF Shutdown, OwnedInv
<1>3. s \in MapStruct(m) /\ d \in MapFiles(m)
  BY <1>1, SwapType, SavedType, CleanType DEF CleanedFiles
<1>4. ~s.tmpname
  BY <1>1, <1>2, SwapOwned DEF Owned, Plain
<1>5. d.tmp = NoFile /\ d.entry = NoFile
  <2>1. disk[m].tmp = NoFile /\ disk[m].entry = NoFile
    BY <1>2 DEF Owned, Plain
  <2>2. /\ SwapFiles(m, maps[m], disk[m], FALSE, err[m]).tmp = NoFile
        /\ SwapFiles(m, maps[m], disk[m], FALSE, err[m]).entry = NoFile
    BY <1>1, <1>2, SwapOwned DEF Owned, Plain
  <2>3. /\ SavedFiles(m, maps[m], disk[m], err[m]) \in MapFiles(m)
        /\ SavedFiles(m, maps[m], disk[m], err[m]).entry = NoFile
    BY <1>1, <2>1, SavedType, SavedTmp
  <2> QED
    BY <1>1, <2>1, <2>2, <2>3, CleanFields DEF CleanedFiles
<1>6. disk'[m] = d \/ disk'[m] = write_map_log(s, d)
  OBVIOUS
<1> HIDE DEF s, d
<1>7. Plain(m, s, d)
  BY <1>4, <1>5 DEF Plain
<1> QED
  BY <1>3, <1>5, <1>6, <1>7, LogOwned DEF Plain

LEMMA StepOwned == TypeOK /\ OwnedInv /\ [Next]_vars => OwnedInv'
<1> SUFFICES ASSUME TypeOK, OwnedInv, [Next]_vars PROVE OwnedInv'
  OBVIOUS
<1> DEFINE Same == /\ server = "running" /\ server' = "running" /\ disk' = disk
                   /\ \A m \in Maps : /\ maps'[m].in_memory = maps[m].in_memory
                                       /\ maps'[m].tmpname = maps[m].tmpname
<1>0. Same => OwnedInv'
  BY OwnedSame DEF OwnedInv
<1>1. ASSUME NEW p \in Players, NEW m \in Maps, Enter(p, m) PROVE OwnedInv'
  BY <1>1, EnterOwned
<1>2. ASSUME NEW p \in Players, Leave(p) \/ SavePlayer(p) PROVE OwnedInv'
  BY <1>2 DEF Leave, SavePlayer, OwnedInv
<1>3. ASSUME NEW p \in Players, NEW i \in Items, PickUp(p, i) \/ Drop(p, i) PROVE OwnedInv'
  <2>1. loc[p] \in Maps /\ maps[loc[p]] \in MapStruct(loc[p])
    BY <1>3 DEF PickUp, Drop, TypeOK
  <2> QED
    BY <1>0, <1>3, <2>1 DEF PickUp, Drop, TypeOK, MapStruct
<1>4. ASSUME NEW m \in Maps, Play(m) PROVE OwnedInv'
  BY <1>0, <1>4 DEF Play, TypeOK, MapStruct
<1>5. ASSUME NEW m \in Maps, TouchMap(m) PROVE OwnedInv'
  BY <1>5, ReadyOwned DEF TouchMap, TypeOK, OwnedInv
<1>6. CASE SecondPasses
  BY <1>0, <1>6 DEF SecondPasses, TypeOK, MapStruct
<1>7. CASE check_active_maps
  BY <1>7, CheckActiveOwned
<1>8. CASE flush_old_maps
  BY <1>8, FlushOwned DEF flush_old_maps, TypeOK, OwnedInv
<1>9. ASSUME NEW m \in Maps, command_swap(m) PROVE OwnedInv'
  BY <1>0, <1>9 DEF command_swap, TypeOK, MapStruct
<1>10. ASSUME NEW p \in DMs, NEW m \in Maps, NEW full \in BOOLEAN,
              NEW err \in Outcomes(SaveErrors), NEW logOK \in LogOutcomes,
              command_reset(p, m, full, err, logOK)
       PROVE  OwnedInv'
  BY <1>10, CommandResetOwned
<1>11. CASE Shutdown
  BY <1>11, ShutdownOwned
<1>12. CASE Crash
  BY <1>12, DeathOwned DEF Crash, OwnedInv, Owned, Plain
<1>13. ASSUME NEW m \in Maps, CrashInSwap(m) PROVE OwnedInv'
  <2>1. /\ m \notin PlayerMaps /\ server = "running" /\ ProcessDies("crashed")
        /\ \A n \in Maps \ {m} : disk'[n] = disk[n]
    BY <1>13 DEF CrashInSwap, TypeOK
  <2> QED
    BY <2>1, DeathOwned DEF OwnedInv, Owned, Plain
<1>14. CASE Boot
  <2>1. ASSUME NEW m \in Maps PROVE Plain(m, Unlinked, disk[m])
    BY <1>14 DEF Boot, OwnedInv, Plain, Unlinked
  <2> QED
    BY <1>14, <2>1, LogOwned, UnlinkedType DEF Boot, TypeOK, OwnedInv
<1>15. CASE UNCHANGED vars
  BY <1>15 DEF vars, OwnedInv
<1> QED
  BY <1>1, <1>2, <1>3, <1>4, <1>5, <1>6, <1>7, <1>8, <1>9, <1>10, <1>11, <1>12, <1>13,
     <1>14, <1>15 DEF Next

\* No temporary file is left behind by a map that is back in memory, reset or
\* deleted, so an old state of a map can never be loaded again.
THEOREM TmpFilesAreOwned == Spec => []TmpFileOwned
<1>1. Init => OwnedInv
  BY DEF Init, OwnedInv, Owned, Plain, Unlinked, NoFiles
<1>2. TypeOK /\ OwnedInv /\ [Next]_vars => OwnedInv'
  BY StepOwned
<1>3. OwnedInv => TmpFileOwned
  BY DEF OwnedInv, Owned, TmpFileOwned
<1> QED
  BY <1>1, <1>2, <1>3, TypeCorrect, PTL DEF Spec
=============================================================================
