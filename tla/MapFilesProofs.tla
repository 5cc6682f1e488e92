--------------------------- MODULE MapFilesProofs ---------------------------
(***************************************************************************)
(* What the files of the maps are worth, for every set of maps and players *)
(* and every choice of save errors.  Without recycling: whatever is swapped*)
(* out has its file.  With recycling: a crash loses no map that was swapped*)
(* out by then.  Both ways, only a crash orphans temporary files.          *)
(***************************************************************************)
EXTENDS MapLifecycleProofs

-----------------------------------------------------------------------------
(***************************************************************************)
(* The files that a save, a load, a flush and a boot leave.                *)
(***************************************************************************)

\* The invariant behind TmpFilesAreOwned, for the proofs that build on it.
LEMMA AlwaysOwnedInv == Spec => [](TypeOK /\ OwnedInv)
<1>1. Init => OwnedInv
  BY DEF Init, OwnedInv, Owned, Plain, Unlinked, NoFiles
<1>2. TypeOK /\ OwnedInv /\ [Next]_vars => OwnedInv'
  BY StepOwned
<1> QED
  BY <1>1, <1>2, TypeCorrect, PTL DEF Spec

LEMMA CleanKeeps ==
  ASSUME NEW m \in Maps, NEW d \in MapFiles(m)
  PROVE  /\ clean_tmp_map(d).tmp = NoFile
         /\ clean_tmp_map(d).v00 = d.v00
         /\ clean_tmp_map(d).home = d.home
         /\ clean_tmp_map(d).entry = NoFile <=> d.entry = NoFile
         /\ d.entry # NoFile => clean_tmp_map(d).entry.live = FALSE
<1>1. clean_tmp_map(d).entry = IF d.entry = NoFile THEN NoFile ELSE [d.entry EXCEPT !.live = FALSE]
  BY DEF clean_tmp_map, MapFiles
<1>2. clean_tmp_map(d).tmp = NoFile /\ clean_tmp_map(d).v00 = d.v00 /\ clean_tmp_map(d).home = d.home
  BY DEF clean_tmp_map, MapFiles
<1>3. ASSUME d.entry # NoFile
      PROVE  /\ [d.entry EXCEPT !.live = FALSE] \in LogLines
             /\ [d.entry EXCEPT !.live = FALSE].live = FALSE
  BY <1>3, FileFields DEF LogLines
<1> QED
  BY <1>1, <1>2, <1>3, NoFileAssumption

\* What save_map has committed, of a per-player map and of a shared one.
LEMMA SavedFields ==
  ASSUME NEW m \in Maps, NEW s \in MapStruct(m), NEW d \in MapFiles(m), NEW err \in SaveOutcomes
  PROVE  /\ SavedFiles(m, s, d, err).entry = d.entry
         /\ m \in PlayerMaps =>
              /\ SavedFiles(m, s, d, err).tmp = d.tmp
              /\ SavedFiles(m, s, d, err).v00 = d.v00
              /\ SavedFiles(m, s, d, err).home =
                    IF SaveOK(m, s, err) THEN [reg |-> s.reg, uniq |-> s.uniq] ELSE d.home
         /\ m \notin PlayerMaps =>
              /\ SavedFiles(m, s, d, err).home = d.home
              /\ SavedFiles(m, s, d, err).tmp =
                    IF SaveOK(m, s, err) THEN [reg |-> s.reg, reset_group |-> s.reset_group]
                    ELSE d.tmp
              /\ SaveOK(m, s, err) =>
                    SavedFiles(m, s, d, err).v00 =
                        IF HasUniqueData(m, s) THEN s.uniq ELSE NoFile
              /\ OpenFails(m, err) => SavedFiles(m, s, d, err).v00 = d.v00
<1> DEFINE c == CommitUnique(m, s, d)
<1>1. /\ c \in MapFiles(m)
      /\ c.entry = d.entry /\ c.tmp = d.tmp /\ c.home = d.home
      /\ c.v00 = IF HasUniqueData(m, s) THEN s.uniq ELSE NoFile
  BY DEF CommitUnique, MapFiles, MapStruct
<1>2. ASSUME NEW e \in MapFiles(m), NEW x
      PROVE  /\ [e EXCEPT !.tmp = x].tmp = x /\ [e EXCEPT !.tmp = x].entry = e.entry
             /\ [e EXCEPT !.tmp = x].home = e.home /\ [e EXCEPT !.tmp = x].v00 = e.v00
             /\ [e EXCEPT !.home = x].home = x /\ [e EXCEPT !.home = x].entry = e.entry
             /\ [e EXCEPT !.home = x].tmp = e.tmp /\ [e EXCEPT !.home = x].v00 = e.v00
  BY DEF MapFiles
<1> HIDE DEF c
<1>3. CASE OpenFails(m, err) \/ UniqueFails(m, s, err)
  <2>1. ~SaveOK(m, s, err) /\ SavedFiles(m, s, d, err) = d
    BY <1>3 DEF SavedFiles, SaveOK
  <2> QED
    BY <2>1
<1>4. CASE ~(OpenFails(m, err) \/ UniqueFails(m, s, err)) /\ m \in PlayerMaps
  <2>1. SaveOK(m, s, err) <=> err # "CLOSE"
    BY <1>4 DEF SaveOK
  <2>2. SavedFiles(m, s, d, err) =
          [d EXCEPT !.home = IF err = "CLOSE" THEN d.home ELSE [reg |-> s.reg, uniq |-> s.uniq]]
    BY <1>4 DEF SavedFiles
  <2> QED
    BY <1>2, <1>4, <2>1, <2>2
<1>5. CASE ~(OpenFails(m, err) \/ UniqueFails(m, s, err)) /\ m \notin PlayerMaps
  <2>1. SaveOK(m, s, err) <=> err # "CLOSE"
    BY <1>5 DEF SaveOK
  <2>2. SavedFiles(m, s, d, err) =
          [c EXCEPT !.tmp = IF err = "CLOSE" THEN c.tmp
                            ELSE [reg |-> s.reg, reset_group |-> s.reset_group]]
    BY <1>5 DEF SavedFiles, c
  <2> QED
    BY <1>1, <1>2, <1>5, <2>1, <2>2
<1> QED
  BY <1>3, <1>4, <1>5

\* The structure after swap_map: untouched, emptied by players, deleted, swapped
\* out, or still in memory with its retry timeout.
LEMMA SwapFields ==
  ASSUME NEW m \in Maps, NEW s \in MapStruct(m), NEW occupied \in BOOLEAN, NEW err \in SaveOutcomes
  PROVE  LET r == swap_map(m, s, occupied, err)
         IN  /\ ~SwapSaves(m, s, occupied) =>
                   \/ r = s
                   \/ s.in_memory = "IN_MEMORY" /\ r = [s EXCEPT !.timeout = 0]
                   \/ s.in_memory = "IN_MEMORY" /\ ResetsAtOnce(m, s) /\ r = Unlinked
             /\ SwapSaves(m, s, occupied) =>
                   /\ r.in_memory = IF SaveOK(m, s, err) THEN "SWAPPED" ELSE "IN_MEMORY"
                   /\ r.tmpname = (m \notin PlayerMaps)
                   /\ r.reset_group = s.reset_group
                   /\ r.reg \in {s.reg, "empty"}
                   /\ OpenFails(m, err) => r.reg = s.reg /\ r.uniq = s.uniq
<1>1. CASE ~SwapSaves(m, s, occupied)
  BY <1>1 DEF swap_map, SwapSaves
<1>2. CASE SwapSaves(m, s, occupied)
  <2> DEFINE r == set_map_reset_time(m, s)
             t == SavedStruct(m, r, err)
  <2>1. /\ r \in MapStruct(m) /\ r.in_memory = s.in_memory /\ r.reset_group = s.reset_group
        /\ r.reg = s.reg /\ r.uniq = s.uniq
    BY TimesAssumption DEF set_map_reset_time, MapStruct
  <2> HIDE DEF r
  <2>2. /\ t.in_memory = r.in_memory /\ t.reset_group = r.reset_group
        /\ t.tmpname = (m \notin PlayerMaps)
        /\ t.reg \in {r.reg, "empty"}
        /\ OpenFails(m, err) => t.reg = r.reg /\ t.uniq = r.uniq
    <3> DEFINE named == (m \notin PlayerMaps)
               reg   == IF OpenFails(m, err) THEN r.reg ELSE "empty"
               uniq  == IF OpenFails(m, err) THEN r.uniq ELSE {}
    <3>1. t = [r EXCEPT !.tmpname = named, !.reg = reg, !.uniq = uniq]
      BY DEF SavedStruct
    <3>2. named \in BOOLEAN
      OBVIOUS
    <3> HIDE DEF named, reg, uniq, t
    <3>3. t.in_memory = r.in_memory /\ t.reset_group = r.reset_group /\ t.tmpname = named
      BY <2>1, <3>1, <3>2 DEF MapStruct
    <3>4. t.reg = reg /\ t.uniq = uniq
      BY <2>1, <3>1, <3>2 DEF MapStruct
    <3>5. t.tmpname = (m \notin PlayerMaps)
      BY <3>3, Zenon DEF named
    <3>6. /\ t.reg \in {r.reg, "empty"}
          /\ OpenFails(m, err) => t.reg = r.reg /\ t.uniq = r.uniq
      BY <3>4 DEF reg, uniq
    <3> QED
      BY <3>3, <3>5, <3>6, Zenon
  <2>3. t \in MapStruct(m)
    BY <2>1 DEF SavedStruct, MapStruct, Versions
  <2>4. swap_map(m, s, occupied, err) =
            IF SaveOK(m, s, err) THEN [t EXCEPT !.in_memory = "SWAPPED", !.timeout = 0]
            ELSE [t EXCEPT !.timeout = RetryTimeout]
    BY <1>2 DEF swap_map, SwapSaves, r
  <2>5. s.in_memory = "IN_MEMORY"
    BY <1>2 DEF SwapSaves
  <2> HIDE DEF t
  <2>6. CASE SaveOK(m, s, err)
    <3>1. ~OpenFails(m, err)
      BY <2>6 DEF SaveOK
    <3>2. swap_map(m, s, occupied, err) = [t EXCEPT !.in_memory = "SWAPPED", !.timeout = 0]
      BY <2>4, <2>6
    <3> QED
      BY <1>2, <2>1, <2>2, <2>3, <2>6, <3>1, <3>2 DEF MapStruct
  <2>7. CASE ~SaveOK(m, s, err)
    <3>1. swap_map(m, s, occupied, err) = [t EXCEPT !.timeout = RetryTimeout]
      BY <2>4, <2>7
    <3> QED
      BY <1>2, <2>1, <2>2, <2>3, <2>5, <2>7, <3>1 DEF MapStruct
  <2> QED
    BY <2>6, <2>7
<1> QED
  BY <1>1, <1>2

-----------------------------------------------------------------------------
(***************************************************************************)
(* Without recycling.  Nothing is ever written to temp.maps, so a new      *)
(* process starts with no structure at all, and whatever is swapped out was*)
(* swapped out by this process, with a save that worked.  The invariant    *)
(* also says what a dead process leaves: no structure, and after an orderly*)
(* stop no temporary file.                                                 *)
(***************************************************************************)

Backed(m, s, d) ==
    s.in_memory = "SWAPPED" => IF m \in PlayerMaps THEN d.home # NoFile
                               ELSE HasTmpFile(s, d)

Kept(m, s, d) == d.entry = NoFile /\ Backed(m, s, d)

BackedInv ==
    \A m \in Maps :
        /\ Kept(m, maps[m], disk[m])
        /\ server # "running" => maps[m] = Unlinked
        /\ server = "stopped" => disk[m].tmp = NoFile

LEMMA KeptSame ==
  ASSUME NEW m \in Maps, NEW s, NEW r, NEW d, Kept(m, s, d),
         r.in_memory = s.in_memory, r.tmpname = s.tmpname
  PROVE  Kept(m, r, d)
BY DEF Kept, Backed, HasTmpFile

\* A structure that is not swapped out asks nothing of the files.
LEMMA KeptLoaded ==
  ASSUME NEW m \in Maps, NEW s, NEW d, s.in_memory # "SWAPPED", d.entry = NoFile
  PROVE  Kept(m, s, d)
BY DEF Kept, Backed

LEMMA ReadyKept ==
  ASSUME NEW m \in Maps, NEW s \in MapStruct(m), NEW d \in MapFiles(m), d.entry = NoFile
  PROVE  Kept(m, ready_map_name(m, s, d), ReadyFiles(m, s, d))
<1>1. ready_map_name(m, s, d).in_memory = "IN_MEMORY"
  BY ReadyType
<1>2. ReadyFiles(m, s, d).entry = NoFile
  BY CleanKeeps DEF ReadyFiles
<1> QED
  BY <1>1, <1>2, KeptLoaded

LEMMA SwapKept ==
  ASSUME NEW m \in Maps, NEW s \in MapStruct(m), NEW d \in MapFiles(m),
         NEW occupied \in BOOLEAN, NEW err \in SaveOutcomes, Kept(m, s, d)
  PROVE  Kept(m, swap_map(m, s, occupied, err), SwapFiles(m, s, d, occupied, err))
<1> SUFFICES ASSUME NEW r, r = swap_map(m, s, occupied, err),
                    NEW f, f = SwapFiles(m, s, d, occupied, err)
             PROVE  Kept(m, r, f)
  OBVIOUS
<1>1. CASE ~SwapSaves(m, s, occupied)
  <2>1. f = d /\ d.entry = NoFile
    BY <1>1 DEF SwapFiles, Kept
  <2>2. r = s \/ r.in_memory # "SWAPPED"
    <3>1. Unlinked.in_memory = "unlinked"
      BY DEF Unlinked
    <3>2. [s EXCEPT !.timeout = 0].in_memory = s.in_memory
      BY DEF MapStruct
    <3>3. \/ r = s
          \/ s.in_memory = "IN_MEMORY" /\ r = [s EXCEPT !.timeout = 0]
          \/ r = Unlinked
      BY <1>1, SwapFields
    <3> QED
      BY <3>1, <3>2, <3>3
  <2> QED
    BY <2>1, <2>2, KeptLoaded
<1>2. CASE SwapSaves(m, s, occupied)
  <2>1. f = SavedFiles(m, s, d, err)
    BY <1>2 DEF SwapFiles
  <2>2. f.entry = NoFile
    <3>1. SavedFiles(m, s, d, err).entry = d.entry
      BY SavedFields
    <3> QED
      BY <2>1, <3>1 DEF Kept
  <2>3. /\ r.in_memory = IF SaveOK(m, s, err) THEN "SWAPPED" ELSE "IN_MEMORY"
        /\ r.tmpname = (m \notin PlayerMaps)
    BY <1>2, SwapFields
  <2>4. CASE ~SaveOK(m, s, err)
    <3>1. r.in_memory # "SWAPPED"
      BY <2>3, <2>4
    <3> QED
      BY <2>2, <3>1, KeptLoaded
  <2>5. CASE SaveOK(m, s, err)
    <3>1. /\ [reg |-> s.reg, uniq |-> s.uniq] \in HomeFiles
          /\ [reg |-> s.reg, reset_group |-> s.reset_group] \in TmpFiles(m)
      BY DEF MapStruct, HomeFiles, TmpFiles
    <3>2. m \in PlayerMaps => f.home # NoFile
      BY <2>1, <2>5, <3>1, SavedFields, NoFileAssumption
    <3>3. m \notin PlayerMaps => f.tmp # NoFile
      BY <2>1, <2>5, <3>1, SavedFields, NoFileAssumption
    <3>4. r.in_memory = "SWAPPED" /\ (m \notin PlayerMaps => r.tmpname)
      BY <2>3, <2>5
    <3> QED
      BY <2>2, <3>2, <3>3, <3>4 DEF Kept, Backed, HasTmpFile
  <2> QED
    BY <2>4, <2>5
<1> QED
  BY <1>1, <1>2

LEMMA FlushKept ==
  ASSUME NEW ms, NEW m \in Maps, ms[m] \in MapStruct(m), NEW occ, NEW d \in MapFiles(m),
         Kept(m, ms[m], d)
  PROVE  Kept(m, FlushStruct(ms, m, occ), FlushFiles(ms, m, d))
<1>1. Unlinked.in_memory # "SWAPPED"
  BY DEF Unlinked
<1>2. FlushFiles(ms, m, d).entry = NoFile
  BY CleanKeeps DEF FlushFiles, Kept
<1>3. CASE FlushStruct(ms, m, occ) = Unlinked
  BY <1>1, <1>2, <1>3, KeptLoaded
<1>4. CASE FlushStruct(ms, m, occ) # Unlinked
  <2>1. ~map_can_reset(ms, m)
    BY <1>4 DEF FlushStruct
  <2>2. FlushFiles(ms, m, d) = d
    BY <2>1 DEF FlushFiles
  <2>3. \/ FlushStruct(ms, m, occ) = ms[m]
        \/ FlushStruct(ms, m, occ) = [ms[m] EXCEPT !.timeout = MinTimeout]
    BY <1>4 DEF FlushStruct
  <2>4. /\ [ms[m] EXCEPT !.timeout = MinTimeout].in_memory = ms[m].in_memory
        /\ [ms[m] EXCEPT !.timeout = MinTimeout].tmpname = ms[m].tmpname
    BY DEF MapStruct
  <2> QED
    BY <2>2, <2>3, <2>4, KeptSame
<1> QED
  BY <1>3, <1>4

\* A flush deletes a per-player map that is swapped out, whatever its files.
LEMMA FlushDropsPlayerMap ==
  ASSUME NEW ms, NEW m \in PlayerMaps, ms[m] \in MapStruct(m), NEW occ
  PROVE  FlushStruct(ms, m, occ).in_memory # "SWAPPED"
<1>1. m \in Maps
  BY MapsAssumption
<1>2. [ms[m] EXCEPT !.timeout = MinTimeout].in_memory = ms[m].in_memory
  BY DEF MapStruct
<1> QED
  BY <1>1, <1>2 DEF FlushStruct, Unlinked, map_can_reset, map_can_reset_no_group

\* A step of the running server that keeps what is kept, map by map.
LEMMA RunningKept ==
  ASSUME server' = "running", \A m \in Maps : Kept(m, maps'[m], disk'[m])
  PROVE  BackedInv'
BY DEF BackedInv

\* The process dies: no structure is left, and no line was ever written.
LEMMA DeathKept ==
  ASSUME NEW how, ProcessDies(how), \A m \in Maps : disk'[m].entry = NoFile,
         how = "stopped" => \A m \in Maps : disk'[m].tmp = NoFile
  PROVE  BackedInv'
<1>1. server' = how /\ \A m \in Maps : maps'[m] = Unlinked
  BY DEF ProcessDies
<1>2. \A m \in Maps : Kept(m, maps'[m], disk'[m])
  <2>1. Unlinked.in_memory # "SWAPPED"
    BY DEF Unlinked
  <2> QED
    BY <1>1, <2>1, KeptLoaded
<1> QED
  BY <1>1, <1>2 DEF BackedInv

LEMMA EnterKept ==
  ASSUME TypeOK, BackedInv, NEW p \in Players, NEW m \in Maps, Enter(p, m)
  PROVE  BackedInv'
<1> DEFINE ms == [maps EXCEPT ![m] = ready_map_name(m, @, disk[m])]
           ds == [disk EXCEPT ![m] = ReadyFiles(m, maps[m], @)]
<1>1. \A n \in Maps : ms[n] \in MapStruct(n) /\ Kept(n, ms[n], ds[n])
  <2>1. disk[m].entry = NoFile
    BY DEF BackedInv, Kept
  <2>2. ms[m] \in MapStruct(m) /\ Kept(m, ms[m], ds[m])
    BY <2>1, ReadyType, ReadyKept DEF TypeOK
  <2>3. \A n \in Maps \ {m} : ms[n] = maps[n] /\ ds[n] = disk[n]
    BY DEF TypeOK
  <2> HIDE DEF ms, ds
  <2> QED
    BY <2>2, <2>3 DEF TypeOK, BackedInv
<1>2. maps' = player_map_change_common(ms, p, loc[p], m) /\ disk' = ds
  BY DEF Enter
<1> HIDE DEF ms, ds
<1>3. \A n \in Maps : /\ maps'[n].in_memory = ms[n].in_memory
                      /\ maps'[n].tmpname = ms[n].tmpname
  <2>1. 0 \in 0..MinTimeout /\ MinTimeout \in 0..MinTimeout
    BY TimesAssumption
  <2> QED
    BY <1>1, <1>2, <2>1, TimeoutType DEF player_map_change_common
<1>4. \A n \in Maps : Kept(n, maps'[n], disk'[n])
  BY <1>1, <1>2, <1>3, KeptSame
<1> QED
  BY <1>4, RunningKept DEF Enter

LEMMA CheckActiveKept ==
  ASSUME ~RecycleTmpMaps, TypeOK, BackedInv, check_active_maps
  PROVE  BackedInv'
<1>1. server' = "running"
  BY DEF check_active_maps, SwapDue
<1>2. ASSUME NEW m \in Maps
      PROVE  Kept(m, CountDown(maps[m]), disk[m])
  <2>1. /\ CountDown(maps[m]).in_memory = maps[m].in_memory
        /\ CountDown(maps[m]).tmpname = maps[m].tmpname
    BY DEF TypeOK, CountDown, MapStruct
  <2> QED
    BY <2>1, KeptSame DEF BackedInv
<1>3. CASE maps' = [m \in Maps |-> CountDown(maps[m])] /\ disk' = disk
  BY <1>1, <1>2, <1>3, RunningKept
<1>4. CASE \E m \in Due, err \in Outcomes(SaveErrors), logOK \in LogOutcomes :
             SwapDue(m, err, logOK)
  <2> PICK m \in Due, err \in Outcomes(SaveErrors), logOK \in LogOutcomes :
             /\ maps' = [n \in Maps |->
                           IF n = m THEN swap_map(m, maps[m], m \in Occupied, err)
                           ELSE CountDown(maps[n])]
             /\ disk' = SwapDisk(m, m \in Occupied, err, logOK)
    BY <1>4 DEF SwapDue
  <2>1. m \in Maps /\ err \in SaveOutcomes /\ (m \in Occupied) \in BOOLEAN
    BY OutcomesType DEF Due
  <2>2. disk' = [disk EXCEPT ![m] = SwapFiles(m, maps[m], disk[m], m \in Occupied, err)]
    BY DEF SwapDisk
  <2>3. Kept(m, maps'[m], disk'[m])
    <3>1. /\ maps'[m] = swap_map(m, maps[m], m \in Occupied, err)
          /\ disk'[m] = SwapFiles(m, maps[m], disk[m], m \in Occupied, err)
      BY <2>1, <2>2 DEF TypeOK
    <3>2. maps[m] \in MapStruct(m) /\ disk[m] \in MapFiles(m) /\ Kept(m, maps[m], disk[m])
      BY <2>1 DEF TypeOK, BackedInv
    <3>3. Kept(m, swap_map(m, maps[m], m \in Occupied, err),
                  SwapFiles(m, maps[m], disk[m], m \in Occupied, err))
      BY <2>1, <3>2, SwapKept
    <3> QED
      BY <3>1, <3>3
  <2>4. \A n \in Maps \ {m} : Kept(n, maps'[n], disk'[n])
    BY <1>2, <2>1, <2>2 DEF TypeOK
  <2> QED
    BY <1>1, <2>3, <2>4, RunningKept
<1> QED
  BY <1>3, <1>4 DEF check_active_maps, SwapDue

\* The map that is reset need not be kept before the flush: a per-player map
\* may just have lost its file.
LEMMA ResetSucceedsKept ==
  ASSUME TypeOK, server = "running", NEW p \in Players, NEW m \in Maps, NEW full \in BOOLEAN,
         NEW t \in MapStruct(m), NEW ds, DOMAIN ds = Maps,
         \A n \in Maps : ds[n] \in MapFiles(n),
         \A n \in Maps \ {m} : Kept(n, maps[n], ds[n]), Kept(m, t, ds[m]),
         ResetSucceeds(p, m, full, t, ds)
  PROVE  BackedInv'
<1> DEFINE ms  == [maps EXCEPT ![m] = IF t = Unlinked THEN t ELSE [t EXCEPT !.ttr = 0]]
           occ == OccupiedBy([loc EXCEPT ![p] = IF @ = m THEN NoMap ELSE @])
           ds1 == IF full THEN [ds EXCEPT ![m] = RemoveUnique(m, @)] ELSE ds
           ms2 == [n \in Maps |-> FlushStruct(ms, n, occ)]
           ds2 == [n \in Maps |-> FlushFiles(ms, n, ds1[n])]
<1>1. /\ [t EXCEPT !.ttr = 0] \in MapStruct(m)
      /\ [t EXCEPT !.ttr = 0].in_memory = t.in_memory
      /\ [t EXCEPT !.ttr = 0].tmpname = t.tmpname
  BY TimesAssumption DEF MapStruct
<1>2. /\ ms[m] \in MapStruct(m) /\ Kept(m, ms[m], ds[m])
      /\ \A n \in Maps \ {m} : ms[n] = maps[n] /\ maps[n] \in MapStruct(n)
  BY <1>1, KeptSame DEF TypeOK
<1>3. /\ RemoveUnique(m, ds[m]) \in MapFiles(m)
      /\ RemoveUnique(m, ds[m]).entry = ds[m].entry
      /\ RemoveUnique(m, ds[m]).tmp = ds[m].tmp
      /\ m \notin PlayerMaps => RemoveUnique(m, ds[m]).home = ds[m].home
  BY DEF RemoveUnique, MapFiles
<1>4. /\ \A n \in Maps : ds1[n] \in MapFiles(n)
      /\ \A n \in Maps \ {m} : ds1[n] = ds[n]
      /\ ds1[m].entry = NoFile
      /\ m \notin PlayerMaps => Kept(m, ms[m], ds1[m])
  <2>1. ds[m].entry = NoFile
    BY DEF Kept
  <2>2. ds1[m] = ds[m] \/ ds1[m] = RemoveUnique(m, ds[m])
    OBVIOUS
  <2>3. \A n \in Maps \ {m} : ds1[n] = ds[n]
    OBVIOUS
  <2> HIDE DEF ms, ds1
  <2> QED
    BY <1>2, <1>3, <2>1, <2>2, <2>3 DEF Kept, Backed, HasTmpFile
<1>5. /\ maps' = IF loc[p] = m
                 THEN [ms2 EXCEPT ![m] = [ready_map_name(m, @, ds2[m]) EXCEPT !.timeout = 0]]
                 ELSE ms2
      /\ disk' = IF loc[p] = m THEN [ds2 EXCEPT ![m] = ReadyFiles(m, ms2[m], @)] ELSE ds2
      /\ server' = "running"
  BY DEF ResetSucceeds
<1> HIDE DEF ms, occ, ds1
<1>6. \A n \in Maps : ms[n] \in MapStruct(n)
  BY <1>2
<1>7. \A n \in Maps : ms2[n] \in MapStruct(n) /\ ds2[n] \in MapFiles(n)
  BY <1>4, <1>6, FlushType
<1>8. Kept(m, ms2[m], ds2[m])
  <2>1. CASE m \notin PlayerMaps
    BY <1>4, <1>6, <2>1, FlushKept
  <2>2. CASE m \in PlayerMaps
    <3>1. ms2[m].in_memory # "SWAPPED"
      BY <1>6, <2>2, FlushDropsPlayerMap
    <3>2. ds2[m].entry = NoFile
      BY <1>4, CleanKeeps DEF FlushFiles
    <3> HIDE DEF ms2, ds2
    <3> QED
      BY <3>1, <3>2, KeptLoaded
  <2> QED
    BY <2>1, <2>2
<1>9. \A n \in Maps \ {m} : Kept(n, ms2[n], ds2[n])
  BY <1>2, <1>4, <1>6, FlushKept
<1>10. DOMAIN ms2 = Maps /\ DOMAIN ds2 = Maps
  OBVIOUS
<1> HIDE DEF ms2, ds2
<1>11. Kept(m, [ready_map_name(m, ms2[m], ds2[m]) EXCEPT !.timeout = 0],
               ReadyFiles(m, ms2[m], ds2[m]))
  <2>1. 0 \in 0..MinTimeout
    BY TimesAssumption
  <2>2. ds2[m].entry = NoFile
    BY <1>8 DEF Kept
  <2>3. Kept(m, ready_map_name(m, ms2[m], ds2[m]), ReadyFiles(m, ms2[m], ds2[m]))
    BY <1>7, <2>2, ReadyKept
  <2>4. ready_map_name(m, ms2[m], ds2[m]) \in MapStruct(m)
    BY <1>7, ReadyType
  <2>5. /\ [ready_map_name(m, ms2[m], ds2[m]) EXCEPT !.timeout = 0].in_memory
               = ready_map_name(m, ms2[m], ds2[m]).in_memory
        /\ [ready_map_name(m, ms2[m], ds2[m]) EXCEPT !.timeout = 0].tmpname
               = ready_map_name(m, ms2[m], ds2[m]).tmpname
    BY <2>1, <2>4, TimeoutType
  <2> QED
    BY <2>3, <2>5, KeptSame
<1>12. \A n \in Maps : Kept(n, maps'[n], disk'[n])
  BY <1>5, <1>8, <1>9, <1>10, <1>11
<1> QED
  BY <1>5, <1>12, RunningKept

LEMMA CommandResetKept ==
  ASSUME ~RecycleTmpMaps, TypeOK, BackedInv, NEW p \in DMs, NEW m \in Maps,
         NEW full \in BOOLEAN, NEW err \in Outcomes(SaveErrors), NEW logOK \in LogOutcomes,
         command_reset(p, m, full, err, logOK)
  PROVE  BackedInv'
<1> DEFINE s      == [maps[m] EXCEPT !.reset_group = NoGroup]
           others == On(m) \ {p} # {}
           t      == swap_map(m, s, others, err)
           ds     == [disk EXCEPT ![m] = SwapFiles(m, s, @, others, err)]
           kept   == others \/ (err = "UCREATION" /\ m \notin PlayerMaps)
<1>1. /\ s \in MapStruct(m)
      /\ s.in_memory = maps[m].in_memory /\ s.tmpname = maps[m].tmpname
  BY DEF TypeOK, MapStruct
<1>2. err \in SaveOutcomes /\ others \in BOOLEAN /\ p \in Players
  BY OutcomesType, RunAssumption
<1>3. server = "running"
  BY DEF command_reset
<1>4. \/ ResetSucceeds(p, m, full, s, disk)
      \/ ResetSucceeds(p, m, full, t, ds)
      \/ /\ maps' = IF kept THEN [maps EXCEPT ![m] = [t EXCEPT !.reset_group = maps[m].reset_group]]
                     ELSE [maps EXCEPT ![m] = t]
         /\ disk' = ds
         /\ UNCHANGED <<server, loc, inv, saved>>
      \/ ProcessDies("crashed") /\ disk' = ds
  BY DEF command_reset
<1> HIDE DEF s, others, kept
<1>5. t \in MapStruct(m) /\ disk[m] \in MapFiles(m)
  <2>1. disk[m] \in MapFiles(m)
    BY DEF TypeOK
  <2> QED
    BY <1>1, <1>2, <2>1, SwapType
<1>6. DOMAIN ds = Maps /\ \A n \in Maps : ds[n] \in MapFiles(n)
  BY <1>1, <1>2, SwapType DEF TypeOK
<1>7. Kept(m, s, disk[m])
  BY <1>1, KeptSame DEF BackedInv
<1>8. Kept(m, t, ds[m])
  <2>1. ds[m] = SwapFiles(m, s, disk[m], others, err)
    BY DEF TypeOK
  <2> QED
    BY <1>1, <1>2, <1>5, <1>7, <2>1, SwapKept
<1>9. \A n \in Maps \ {m} : Kept(n, maps[n], ds[n])
  BY DEF TypeOK, BackedInv
<1> HIDE DEF t, ds
<1>10. CASE ResetSucceeds(p, m, full, s, disk)
  BY <1>1, <1>2, <1>3, <1>7, <1>10, ResetSucceedsKept DEF TypeOK, BackedInv
<1>11. CASE ResetSucceeds(p, m, full, t, ds)
  BY <1>2, <1>3, <1>5, <1>6, <1>8, <1>9, <1>11, ResetSucceedsKept
<1>12. CASE /\ maps' = IF kept THEN [maps EXCEPT ![m] = [t EXCEPT !.reset_group = maps[m].reset_group]]
                       ELSE [maps EXCEPT ![m] = t]
            /\ disk' = ds
            /\ UNCHANGED <<server, loc, inv, saved>>
  <2>1. /\ [t EXCEPT !.reset_group = maps[m].reset_group].in_memory = t.in_memory
        /\ [t EXCEPT !.reset_group = maps[m].reset_group].tmpname = t.tmpname
    BY <1>5 DEF MapStruct
  <2>2. maps'[m].in_memory = t.in_memory /\ maps'[m].tmpname = t.tmpname
    BY <1>12, <2>1 DEF TypeOK
  <2>3. \A n \in Maps \ {m} : maps'[n] = maps[n]
    BY <1>12 DEF TypeOK
  <2>4. Kept(m, maps'[m], disk'[m])
    BY <1>8, <1>12, <2>2, KeptSame
  <2>5. \A n \in Maps \ {m} : Kept(n, maps'[n], disk'[n])
    BY <1>9, <1>12, <2>3
  <2> QED
    BY <1>3, <1>12, <2>4, <2>5, RunningKept
<1>13. CASE ProcessDies("crashed") /\ disk' = ds
  BY <1>8, <1>9, <1>13, DeathKept DEF Kept
<1> QED
  BY <1>4, <1>10, <1>11, <1>12, <1>13

\* clean_tmp_files unlinks every temporary file there is: one of a map in memory
\* after its save, and one of a swapped map because TmpFileOwned says it is named.
LEMMA ShutdownKept ==
  ASSUME ~RecycleTmpMaps, TypeOK, OwnedInv, BackedInv, Shutdown
  PROVE  BackedInv'
<1> PICK err \in [Maps -> Outcomes(StopErrors)] :
         disk' = [m \in Maps |-> CleanedFiles(m, err[m])]
  BY DEF Shutdown
<1>1. ASSUME NEW m \in Maps
      PROVE  disk'[m].tmp = NoFile /\ disk'[m].entry = NoFile
  <2>1. err[m] \in SaveOutcomes /\ maps[m] \in MapStruct(m) /\ disk[m] \in MapFiles(m)
    BY OutcomesType DEF TypeOK
  <2>2. disk[m].entry = NoFile
    BY DEF BackedInv, Kept
  <2>3. disk[m].tmp # NoFile => HasTmpFile(maps[m], disk[m])
    BY DEF Shutdown, OwnedInv, Owned
  <2>4. /\ SavedFiles(m, maps[m], disk[m], err[m]) \in MapFiles(m)
        /\ SavedFiles(m, maps[m], disk[m], err[m]).entry = NoFile
    BY <2>1, <2>2, SavedType, SavedTmp
  <2>5. \/ disk'[m] = clean_tmp_map(SavedFiles(m, maps[m], disk[m], err[m]))
        \/ disk'[m] = clean_tmp_map(disk[m])
        \/ disk'[m] = disk[m] /\ ~maps[m].tmpname
    BY DEF CleanedFiles
  <2>6. ASSUME NEW e \in MapFiles(m), e.entry = NoFile, disk'[m] = clean_tmp_map(e)
        PROVE  disk'[m].tmp = NoFile /\ disk'[m].entry = NoFile
    BY <2>6, CleanKeeps
  <2>7. disk'[m] = disk[m] /\ ~maps[m].tmpname => disk'[m].tmp = NoFile
    BY <2>3 DEF HasTmpFile
  <2> QED
    BY <2>1, <2>2, <2>4, <2>5, <2>6, <2>7
<1> QED
  BY <1>1, DeathKept DEF Shutdown

LEMMA StepKept ==
  ASSUME ~RecycleTmpMaps, TypeOK, OwnedInv, BackedInv, [Next]_vars
  PROVE  BackedInv'
<1> DEFINE Same == /\ server' = "running" /\ disk' = disk
                   /\ \A m \in Maps : /\ maps'[m].in_memory = maps[m].in_memory
                                       /\ maps'[m].tmpname = maps[m].tmpname
<1>0. Same => BackedInv'
  BY KeptSame, RunningKept DEF BackedInv
<1>1. ASSUME NEW p \in Players, NEW m \in Maps, Enter(p, m) PROVE BackedInv'
  BY <1>1, EnterKept
<1>2. ASSUME NEW p \in Players, Leave(p) \/ SavePlayer(p) PROVE BackedInv'
  BY <1>0, <1>2 DEF Leave, SavePlayer
<1>3. ASSUME NEW p \in Players, NEW i \in Items, PickUp(p, i) \/ Drop(p, i) PROVE BackedInv'
  <2>1. loc[p] \in Maps /\ maps[loc[p]] \in MapStruct(loc[p])
    BY <1>3 DEF PickUp, Drop, TypeOK
  <2> QED
    BY <1>0, <1>3, <2>1 DEF PickUp, Drop, TypeOK, MapStruct
<1>4. ASSUME NEW m \in Maps, Play(m) PROVE BackedInv'
  BY <1>0, <1>4 DEF Play, TypeOK, MapStruct
<1>5. ASSUME NEW m \in Maps, TouchMap(m) PROVE BackedInv'
  <2>1. Kept(m, maps'[m], disk'[m])
    BY <1>5, ReadyKept DEF TouchMap, TypeOK, BackedInv, Kept
  <2>2. \A n \in Maps \ {m} : maps'[n] = maps[n] /\ disk'[n] = disk[n]
    BY <1>5 DEF TouchMap, TypeOK
  <2>3. \A n \in Maps : Kept(n, maps'[n], disk'[n])
    BY <2>1, <2>2 DEF BackedInv
  <2> QED
    BY <1>5, <2>3, RunningKept DEF TouchMap
<1>6. CASE SecondPasses
  BY <1>0, <1>6 DEF SecondPasses, TypeOK, MapStruct
<1>7. CASE check_active_maps
  BY <1>7, CheckActiveKept
<1>8. CASE flush_old_maps
  <2>1. \A m \in Maps : Kept(m, maps'[m], disk'[m])
    BY <1>8, FlushKept DEF flush_old_maps, TypeOK, BackedInv
  <2> QED
    BY <1>8, <2>1, RunningKept DEF flush_old_maps
<1>9. ASSUME NEW m \in Maps, command_swap(m) PROVE BackedInv'
  BY <1>0, <1>9 DEF command_swap, TypeOK, MapStruct
<1>10. ASSUME NEW p \in DMs, NEW m \in Maps, NEW full \in BOOLEAN,
              NEW err \in Outcomes(SaveErrors), NEW logOK \in LogOutcomes,
              command_reset(p, m, full, err, logOK)
       PROVE  BackedInv'
  BY <1>10, CommandResetKept
<1>11. CASE Shutdown
  BY <1>11, ShutdownKept
<1>12. CASE Crash
  BY <1>12, DeathKept DEF Crash, BackedInv, Kept
<1>13. ASSUME NEW m \in Maps, CrashInSwap(m) PROVE BackedInv'
  <2>1. CommitUnique(m, maps[m], disk[m]).entry = disk[m].entry
    BY DEF CommitUnique, TypeOK, MapFiles
  <2>2. \A n \in Maps : disk'[n].entry = NoFile
    BY <1>13, <2>1 DEF CrashInSwap, TypeOK, BackedInv, Kept
  <2> QED
    BY <1>13, <2>2, DeathKept DEF CrashInSwap
<1>14. CASE Boot
  <2>1. ASSUME NEW m \in Maps PROVE Kept(m, maps'[m], disk'[m])
    <3>1. maps'[m] = read_map_log(disk[m]) /\ disk'[m] = BootFiles(disk[m])
      BY <1>14 DEF Boot
    <3>2. disk[m].entry = NoFile /\ disk[m] \in MapFiles(m)
      BY DEF BackedInv, Kept, TypeOK
    <3>3. BootFiles(disk[m]).entry = NoFile
      BY <3>2 DEF BootFiles, Orphaned, MapFiles
    <3>4. maps'[m].in_memory # "SWAPPED"
      BY <3>1, <3>2 DEF read_map_log, Unlinked
    <3> QED
      BY <3>1, <3>3, <3>4, KeptLoaded
  <2> QED
    BY <1>14, <2>1, RunningKept DEF Boot
<1>15. CASE UNCHANGED vars
  BY <1>15 DEF vars, BackedInv
<1> QED
  BY <1>1, <1>2, <1>3, <1>4, <1>5, <1>6, <1>7, <1>8, <1>9, <1>10, <1>11, <1>12, <1>13,
     <1>14, <1>15 DEF Next

LEMMA AlwaysBacked ==
  ASSUME ~RecycleTmpMaps
  PROVE  Spec => [](TypeOK /\ OwnedInv /\ BackedInv)
<1>1. Init => BackedInv
  BY DEF Init, BackedInv, Kept, Backed, Unlinked, NoFiles
<1>2. TypeOK /\ OwnedInv /\ BackedInv /\ [Next]_vars => BackedInv'
  BY StepKept
<1> QED
  BY <1>1, <1>2, AlwaysOwnedInv, PTL DEF Spec

\* Without recycling, whatever is swapped out has its file: swap_map frees a map
\* only once a save of it has worked, and nothing unlinks the file of a map that
\* stays swapped out.
THEOREM SwappedMapsHaveFiles ==
  ASSUME ~RecycleTmpMaps
  PROVE  Spec => []SwappedMapBacked
<1>1. BackedInv => SwappedMapBacked
  BY DEF BackedInv, Kept, Backed, SwappedMapBacked
<1> QED
  BY <1>1, AlwaysBacked, PTL

-----------------------------------------------------------------------------
(***************************************************************************)
(* What a player would find on a map: the ordinary objects and the unique  *)
(* ones that ready_map_name makes of a structure and its files.            *)
(***************************************************************************)

SeenReg(m, s, d)  == ready_map_name(m, s, d).reg
SeenUniq(m, s, d) == ready_map_name(m, s, d).uniq

LEMMA SeenLoaded ==
  ASSUME NEW m \in Maps, NEW s \in MapStruct(m), NEW d, s.in_memory = "IN_MEMORY"
  PROVE  SeenReg(m, s, d) = s.reg /\ SeenUniq(m, s, d) = s.uniq
BY DEF SeenReg, SeenUniq, ready_map_name, MapStruct

LEMMA SeenAtHome ==
  ASSUME NEW m \in PlayerMaps, NEW s, NEW d, s.in_memory # "IN_MEMORY"
  PROVE  /\ SeenReg(m, s, d) = IF d.home = NoFile THEN "original" ELSE d.home.reg
         /\ SeenUniq(m, s, d) = IF d.home = NoFile THEN TemplateItems[m] ELSE d.home.uniq
<1>1. FreshMap(m, d).reg = "original" /\ FreshMap(m, d).uniq = TemplateItems[m]
  BY DEF FreshMap
<1>2. HomeMap(m, d).reg = d.home.reg /\ HomeMap(m, d).uniq = d.home.uniq
  BY DEF HomeMap, FreshMap
<1> QED
  BY <1>1, <1>2 DEF SeenReg, SeenUniq, ready_map_name

LEMMA SeenFresh ==
  ASSUME NEW m \in Maps, m \notin PlayerMaps, NEW s, NEW d, s.in_memory # "IN_MEMORY",
         ~HasTmpFile(s, d)
  PROVE  /\ SeenReg(m, s, d) = "original"
         /\ SeenUniq(m, s, d) = IF d.v00 = NoFile THEN TemplateItems[m] ELSE d.v00
BY DEF SeenReg, SeenUniq, ready_map_name, FreshMap

LEMMA SeenInTmp ==
  ASSUME NEW m \in Maps, m \notin PlayerMaps, NEW s \in MapStruct(m), NEW d, HasTmpFile(s, d)
  PROVE  /\ SeenReg(m, s, d) = d.tmp.reg
         /\ SeenUniq(m, s, d) = IF d.v00 = NoFile THEN {} ELSE d.v00
<1>1. ready_map_name(m, s, d) = TmpMap(s, d)
  BY DEF ready_map_name, HasTmpFile
<1>2. TmpMap(s, d).reg = d.tmp.reg
  BY DEF TmpMap, MapStruct
<1>3. TmpMap(s, d).uniq = IF d.v00 = NoFile THEN {} ELSE d.v00
  BY DEF TmpMap, MapStruct
<1> QED
  BY <1>1, <1>2, <1>3 DEF SeenReg, SeenUniq

-----------------------------------------------------------------------------
(***************************************************************************)
(* With recycling, and a temp.maps that can be written.  A line is live    *)
(* exactly while its file exists, and every shared map that is swapped out *)
(* has a line: swap_map lists it in the step that frees it.  Lines may be  *)
(* left of maps that were loaded or reset since; they are not live.        *)
(***************************************************************************)

Exact(d) == d.entry # NoFile => (d.entry.live <=> d.tmp # NoFile)

Listed(m, s, d) ==
    s.in_memory = "SWAPPED" /\ m \notin PlayerMaps => s.tmpname /\ d.entry # NoFile

LogInv ==
    \A m \in Maps :
        /\ Exact(disk[m])
        /\ server = "running" => Listed(m, maps[m], disk[m])

LEMMA CleanExact ==
  ASSUME NEW m \in Maps, NEW d \in MapFiles(m)
  PROVE  Exact(clean_tmp_map(d))
BY CleanKeeps DEF Exact

LEMMA ReadyListed ==
  ASSUME NEW m \in Maps, NEW s \in MapStruct(m), NEW d \in MapFiles(m), Exact(d)
  PROVE  /\ Exact(ReadyFiles(m, s, d))
         /\ Listed(m, ready_map_name(m, s, d), ReadyFiles(m, s, d))
BY ReadyType, CleanExact DEF ReadyFiles, Listed

\* Two files that agree on what the log says of them.
LEMMA ExactSame ==
  ASSUME NEW d, NEW e, e.tmp = d.tmp, e.entry = d.entry
  PROVE  Exact(d) => Exact(e)
BY DEF Exact

LEMMA ListedSame ==
  ASSUME NEW m, NEW s, NEW r, NEW d, NEW e, Listed(m, s, d),
         r.in_memory = s.in_memory, r.tmpname = s.tmpname, e.entry = d.entry
  PROVE  Listed(m, r, e)
BY DEF Listed

\* A swap that does not reach write_map_log leaves the file and the line alone.
LEMMA QuietSwap ==
  ASSUME NEW m \in Maps, NEW s \in MapStruct(m), NEW d \in MapFiles(m),
         NEW occupied \in BOOLEAN, NEW err \in SaveOutcomes,
         ~SwapLogs(m, s, occupied, err), Exact(d), Listed(m, s, d)
  PROVE  /\ Exact(SwapFiles(m, s, d, occupied, err))
         /\ Listed(m, swap_map(m, s, occupied, err), SwapFiles(m, s, d, occupied, err))
<1> SUFFICES ASSUME NEW r, r = swap_map(m, s, occupied, err),
                    NEW f, f = SwapFiles(m, s, d, occupied, err)
             PROVE  Exact(f) /\ Listed(m, r, f)
  OBVIOUS
<1>1. CASE ~SwapSaves(m, s, occupied)
  <2>1. f = d
    BY <1>1 DEF SwapFiles
  <2>2. \/ r = s
        \/ s.in_memory = "IN_MEMORY" /\ r = [s EXCEPT !.timeout = 0]
        \/ r = Unlinked
    BY <1>1, SwapFields
  <2>3. Unlinked.in_memory # "SWAPPED" /\ [s EXCEPT !.timeout = 0].in_memory = s.in_memory
    BY DEF Unlinked, MapStruct
  <2> QED
    BY <2>1, <2>2, <2>3 DEF Listed
<1>2. CASE SwapSaves(m, s, occupied)
  <2>1. ~SaveOK(m, s, err)
    BY <1>2 DEF SwapLogs
  <2>2. r.in_memory = "IN_MEMORY"
    BY <1>2, <2>1, SwapFields
  <2>3. f.tmp = d.tmp /\ f.entry = d.entry
    BY <1>2, <2>1, SavedTmp DEF SwapFiles
  <2> QED
    BY <2>2, <2>3, ExactSame DEF Listed
<1> QED
  BY <1>1, <1>2

\* swap_map gives a shared map that it swaps out a name for its file.
LEMMA SwapNames ==
  ASSUME NEW m \in Maps, NEW s \in MapStruct(m), NEW occupied \in BOOLEAN,
         NEW err \in SaveOutcomes, m \notin PlayerMaps,
         s.in_memory = "SWAPPED" => s.tmpname,
         swap_map(m, s, occupied, err).in_memory = "SWAPPED"
  PROVE  swap_map(m, s, occupied, err).tmpname
<1> SUFFICES ASSUME NEW r, r = swap_map(m, s, occupied, err)
             PROVE  r.in_memory = "SWAPPED" => r.tmpname
  OBVIOUS
<1>1. CASE ~SwapSaves(m, s, occupied)
  <2>1. \/ r = s
        \/ s.in_memory = "IN_MEMORY" /\ r = [s EXCEPT !.timeout = 0]
        \/ r = Unlinked
    BY <1>1, SwapFields
  <2>2. Unlinked.in_memory # "SWAPPED" /\ [s EXCEPT !.timeout = 0].in_memory = s.in_memory
    BY DEF Unlinked, MapStruct
  <2> QED
    BY <2>1, <2>2
<1>2. CASE SwapSaves(m, s, occupied)
  <2>1. r.tmpname = (m \notin PlayerMaps)
    BY <1>2, SwapFields
  <2> QED
    BY <2>1, Zenon
<1> QED
  BY <1>1, <1>2

\* write_map_log lists every swapped map that has a name, as it is.
LEMMA LogLists ==
  ASSUME NEW m \in Maps, NEW s \in MapStruct(m), NEW d \in MapFiles(m),
         s.in_memory = "SWAPPED" /\ m \notin PlayerMaps => s.tmpname
  PROVE  Exact(write_map_log(s, d)) /\ Listed(m, s, write_map_log(s, d))
<1> DEFINE exists == (d.tmp # NoFile)
           line   == [ttr |-> s.ttr, live |-> exists]
<1>1. exists \in BOOLEAN
  OBVIOUS
<1> HIDE DEF exists
<1>2. line \in LogLines /\ line.live = exists
  BY <1>1 DEF MapStruct, LogLines
<1> HIDE DEF line
<1>3. CASE s.in_memory = "SWAPPED" /\ s.tmpname
  <2>1. write_map_log(s, d) = [d EXCEPT !.entry = line]
    BY <1>3 DEF write_map_log, line, exists
  <2>2. write_map_log(s, d).entry = line /\ write_map_log(s, d).tmp = d.tmp
    BY <2>1 DEF MapFiles
  <2>3. line # NoFile
    BY <1>2, NoFileAssumption
  <2> QED
    BY <1>2, <1>3, <2>2, <2>3 DEF Exact, Listed, exists
<1>4. CASE ~(s.in_memory = "SWAPPED" /\ s.tmpname)
  <2>1. write_map_log(s, d).entry = NoFile
    BY <1>4 DEF write_map_log, MapFiles
  <2> QED
    BY <1>4, <2>1 DEF Exact, Listed
<1> QED
  BY <1>3, <1>4

LEMMA FlushListed ==
  ASSUME NEW ms, NEW m \in Maps, ms[m] \in MapStruct(m), NEW occ, NEW d \in MapFiles(m),
         Exact(d), Listed(m, ms[m], d)
  PROVE  Exact(FlushFiles(ms, m, d)) /\ Listed(m, FlushStruct(ms, m, occ), FlushFiles(ms, m, d))
<1>1. Exact(FlushFiles(ms, m, d))
  BY CleanExact DEF FlushFiles
<1>2. CASE FlushStruct(ms, m, occ) = Unlinked
  <2>1. Unlinked.in_memory # "SWAPPED"
    BY DEF Unlinked
  <2> QED
    BY <1>1, <1>2, <2>1 DEF Listed
<1>3. CASE FlushStruct(ms, m, occ) # Unlinked
  <2>1. FlushFiles(ms, m, d) = d
    BY <1>3 DEF FlushFiles, FlushStruct
  <2>2. \/ FlushStruct(ms, m, occ) = ms[m]
        \/ FlushStruct(ms, m, occ) = [ms[m] EXCEPT !.timeout = MinTimeout]
    BY <1>3 DEF FlushStruct
  <2>3. /\ [ms[m] EXCEPT !.timeout = MinTimeout].in_memory = ms[m].in_memory
        /\ [ms[m] EXCEPT !.timeout = MinTimeout].tmpname = ms[m].tmpname
    BY DEF MapStruct
  <2> QED
    BY <2>1, <2>2, <2>3, ListedSame
<1> QED
  BY <1>1, <1>2, <1>3

LEMMA BootListed ==
  ASSUME NEW m \in Maps, NEW d \in MapFiles(m), Exact(d)
  PROVE  /\ Exact(BootFiles(d)) /\ Listed(m, read_map_log(d), BootFiles(d))
         /\ BootFiles(d).v00 = d.v00 /\ BootFiles(d).home = d.home
         /\ BootFiles(d).entry = d.entry
         /\ d.entry # NoFile => BootFiles(d).tmp = d.tmp
<1>1. /\ BootFiles(d).v00 = d.v00 /\ BootFiles(d).home = d.home /\ BootFiles(d).entry = d.entry
      /\ BootFiles(d).tmp = IF d.entry = NoFile THEN NoFile
                            ELSE IF d.entry.live THEN d.tmp ELSE NoFile
  BY DEF BootFiles, Orphaned, MapFiles
<1>2. d.entry # NoFile => BootFiles(d).tmp = d.tmp
  BY <1>1 DEF Exact
<1>3. Exact(BootFiles(d))
  BY <1>1, <1>2 DEF Exact
<1>4. Listed(m, read_map_log(d), BootFiles(d))
  <2>1. d.entry = NoFile => read_map_log(d).in_memory # "SWAPPED"
    BY DEF read_map_log, Unlinked
  <2>2. d.entry # NoFile => read_map_log(d).tmpname
    BY DEF read_map_log, Unlinked
  <2> QED
    BY <1>1, <2>1, <2>2 DEF Listed
<1> QED
  BY <1>1, <1>2, <1>3, <1>4

\* A step of the running server, and the death of the process.
LEMMA RunningListed ==
  ASSUME server' = "running",
         \A m \in Maps : Exact(disk'[m]) /\ Listed(m, maps'[m], disk'[m])
  PROVE  LogInv'
BY DEF LogInv

LEMMA DeathListed ==
  ASSUME NEW how, how # "running", ProcessDies(how), \A m \in Maps : Exact(disk'[m])
  PROVE  LogInv'
BY DEF ProcessDies, LogInv

\* What swap_map of one map and the log that follows it make of all maps.
LEMMA SwapAllListed ==
  ASSUME RecycleTmpMaps, TypeOK, LogInv, server = "running",
         NEW m \in Maps, NEW s \in MapStruct(m),
         s.in_memory = maps[m].in_memory, s.tmpname = maps[m].tmpname,
         NEW occupied \in BOOLEAN, NEW err \in SaveOutcomes
  PROVE  LET d  == [disk EXCEPT ![m] = SwapFiles(m, s, @, occupied, err)]
             ms == [maps EXCEPT ![m] = swap_map(m, s, occupied, err)]
             ds == IF SwapLogs(m, s, occupied, err)
                   THEN [n \in Maps |-> write_map_log(ms[n], d[n])] ELSE d
         IN  \A n \in Maps : Exact(ds[n]) /\ Listed(n, ms[n], ds[n])
<1> DEFINE d  == [disk EXCEPT ![m] = SwapFiles(m, s, @, occupied, err)]
           ms == [maps EXCEPT ![m] = swap_map(m, s, occupied, err)]
           ds == IF SwapLogs(m, s, occupied, err)
                 THEN [n \in Maps |-> write_map_log(ms[n], d[n])] ELSE d
<1>1. \A n \in Maps : ms[n] \in MapStruct(n) /\ d[n] \in MapFiles(n)
  BY SwapType DEF TypeOK
<1>2. /\ ms[m] = swap_map(m, s, occupied, err)
      /\ d[m] = SwapFiles(m, s, disk[m], occupied, err)
      /\ \A n \in Maps \ {m} : ms[n] = maps[n] /\ d[n] = disk[n]
  BY DEF TypeOK
<1>3. \A n \in Maps : Exact(disk[n]) /\ Listed(n, maps[n], disk[n])
  BY DEF LogInv
<1>4. Listed(m, s, disk[m]) /\ disk[m] \in MapFiles(m)
  BY <1>3, ListedSame DEF TypeOK
<1> HIDE DEF d, ms
<1>5. CASE SwapLogs(m, s, occupied, err)
  <2>1. m \notin PlayerMaps /\ ms[m].in_memory = "SWAPPED" => ms[m].tmpname
    BY <1>2, <1>4, SwapNames DEF Listed
  <2>2. \A n \in Maps : ms[n].in_memory = "SWAPPED" /\ n \notin PlayerMaps => ms[n].tmpname
    BY <1>2, <1>3, <2>1 DEF Listed
  <2>3. \A n \in Maps : ds[n] = write_map_log(ms[n], d[n])
    BY <1>5
  <2> HIDE DEF ds
  <2>4. \A n \in Maps : Exact(ds[n]) /\ Listed(n, ms[n], ds[n])
    BY <1>1, <2>2, <2>3, LogLists
  <2> QED
    BY <2>4 DEF ds, ms, d
<1>6. CASE ~SwapLogs(m, s, occupied, err)
  <2>1. ds = d
    BY <1>6
  <2>2. Exact(d[m]) /\ Listed(m, ms[m], d[m])
    BY <1>2, <1>3, <1>4, <1>6, QuietSwap
  <2>3. \A n \in Maps \ {m} : Exact(d[n]) /\ Listed(n, ms[n], d[n])
    BY <1>2, <1>3
  <2> HIDE DEF ds
  <2>4. \A n \in Maps : Exact(ds[n]) /\ Listed(n, ms[n], ds[n])
    BY <2>1, <2>2, <2>3
  <2> QED
    BY <2>4 DEF ds, ms, d
<1> QED
  BY <1>5, <1>6

LEMMA EnterListed ==
  ASSUME TypeOK, LogInv, NEW p \in Players, NEW m \in Maps, Enter(p, m)
  PROVE  LogInv'
<1> DEFINE ms == [maps EXCEPT ![m] = ready_map_name(m, @, disk[m])]
           ds == [disk EXCEPT ![m] = ReadyFiles(m, maps[m], @)]
<1>1. server = "running" /\ server' = "running"
  BY DEF Enter
<1>2. \A n \in Maps : ms[n] \in MapStruct(n) /\ Exact(ds[n]) /\ Listed(n, ms[n], ds[n])
  BY <1>1, ReadyType, ReadyListed DEF TypeOK, LogInv
<1>3. maps' = player_map_change_common(ms, p, loc[p], m) /\ disk' = ds
  BY DEF Enter
<1> HIDE DEF ms, ds
<1>4. \A n \in Maps : /\ maps'[n].in_memory = ms[n].in_memory
                      /\ maps'[n].tmpname = ms[n].tmpname
  <2>1. 0 \in 0..MinTimeout /\ MinTimeout \in 0..MinTimeout
    BY TimesAssumption
  <2> QED
    BY <1>2, <1>3, <2>1, TimeoutType DEF player_map_change_common
<1>5. \A n \in Maps : Exact(disk'[n]) /\ Listed(n, maps'[n], disk'[n])
  BY <1>2, <1>3, <1>4, ListedSame
<1> QED
  BY <1>1, <1>5, RunningListed

LEMMA CheckActiveListed ==
  ASSUME RecycleTmpMaps, ~LogErrors, TypeOK, LogInv, check_active_maps
  PROVE  LogInv'
<1>1. server = "running" /\ server' = "running"
  BY DEF check_active_maps, SwapDue
<1>2. ASSUME NEW m \in Maps
      PROVE  /\ CountDown(maps[m]).in_memory = maps[m].in_memory
             /\ CountDown(maps[m]).tmpname = maps[m].tmpname
  BY DEF TypeOK, CountDown, MapStruct
<1>3. CASE maps' = [m \in Maps |-> CountDown(maps[m])] /\ disk' = disk
  BY <1>1, <1>2, <1>3, ListedSame, RunningListed DEF LogInv
<1>4. CASE \E m \in Due, err \in Outcomes(SaveErrors), logOK \in LogOutcomes :
             SwapDue(m, err, logOK)
  <2> PICK m \in Due, err \in Outcomes(SaveErrors), logOK \in LogOutcomes :
             /\ maps' = [n \in Maps |->
                           IF n = m THEN swap_map(m, maps[m], m \in Occupied, err)
                           ELSE CountDown(maps[n])]
             /\ disk' = SwapDisk(m, m \in Occupied, err, logOK)
    BY <1>4 DEF SwapDue
  <2> DEFINE ms == [maps EXCEPT ![m] = swap_map(m, maps[m], m \in Occupied, err)]
             d  == [disk EXCEPT ![m] = SwapFiles(m, maps[m], @, m \in Occupied, err)]
             ds == IF SwapLogs(m, maps[m], m \in Occupied, err)
                   THEN [n \in Maps |-> write_map_log(ms[n], d[n])] ELSE d
  <2>1. /\ m \in Maps /\ err \in SaveOutcomes /\ (m \in Occupied) \in BOOLEAN
        /\ maps[m] \in MapStruct(m)
    BY OutcomesType DEF Due, TypeOK
  <2>2. logOK
    BY DEF LogOutcomes
  <2>3. disk' = ds
    BY <2>2 DEF SwapDisk
  <2>4. \A n \in Maps : Exact(ds[n]) /\ Listed(n, ms[n], ds[n])
    BY <1>1, <2>1, SwapAllListed
  <2>5. \A n \in Maps : /\ maps'[n].in_memory = ms[n].in_memory
                        /\ maps'[n].tmpname = ms[n].tmpname
    BY <1>2, <2>1 DEF TypeOK
  <2> HIDE DEF ms, ds
  <2>6. \A n \in Maps : Exact(disk'[n]) /\ Listed(n, maps'[n], disk'[n])
    BY <2>3, <2>4, <2>5, ListedSame
  <2> QED
    BY <1>1, <2>6, RunningListed
<1> QED
  BY <1>3, <1>4 DEF check_active_maps, SwapDue

LEMMA ResetSucceedsListed ==
  ASSUME TypeOK, server = "running", NEW p \in Players, NEW m \in Maps, NEW full \in BOOLEAN,
         NEW t \in MapStruct(m), NEW ds, DOMAIN ds = Maps,
         \A n \in Maps : ds[n] \in MapFiles(n) /\ Exact(ds[n]),
         \A n \in Maps \ {m} : Listed(n, maps[n], ds[n]), Listed(m, t, ds[m]),
         ResetSucceeds(p, m, full, t, ds)
  PROVE  LogInv'
<1> DEFINE ms  == [maps EXCEPT ![m] = IF t = Unlinked THEN t ELSE [t EXCEPT !.ttr = 0]]
           occ == OccupiedBy([loc EXCEPT ![p] = IF @ = m THEN NoMap ELSE @])
           ds1 == IF full THEN [ds EXCEPT ![m] = RemoveUnique(m, @)] ELSE ds
           ms2 == [n \in Maps |-> FlushStruct(ms, n, occ)]
           ds2 == [n \in Maps |-> FlushFiles(ms, n, ds1[n])]
<1>1. /\ [t EXCEPT !.ttr = 0] \in MapStruct(m)
      /\ [t EXCEPT !.ttr = 0].in_memory = t.in_memory
      /\ [t EXCEPT !.ttr = 0].tmpname = t.tmpname
  BY TimesAssumption DEF MapStruct
<1>2. /\ ms[m] \in MapStruct(m) /\ Listed(m, ms[m], ds[m])
      /\ \A n \in Maps \ {m} : ms[n] = maps[n] /\ maps[n] \in MapStruct(n)
  BY <1>1, ListedSame DEF TypeOK
<1>3. /\ RemoveUnique(m, ds[m]) \in MapFiles(m)
      /\ RemoveUnique(m, ds[m]).entry = ds[m].entry
      /\ RemoveUnique(m, ds[m]).tmp = ds[m].tmp
  BY DEF RemoveUnique, MapFiles
<1>4. \A n \in Maps : /\ ds1[n] \in MapFiles(n)
                      /\ ds1[n].tmp = ds[n].tmp /\ ds1[n].entry = ds[n].entry
  BY <1>3
<1>5. /\ maps' = IF loc[p] = m
                 THEN [ms2 EXCEPT ![m] = [ready_map_name(m, @, ds2[m]) EXCEPT !.timeout = 0]]
                 ELSE ms2
      /\ disk' = IF loc[p] = m THEN [ds2 EXCEPT ![m] = ReadyFiles(m, ms2[m], @)] ELSE ds2
      /\ server' = "running"
  BY DEF ResetSucceeds
<1> HIDE DEF ms, occ, ds1
<1>6. \A n \in Maps : /\ ms[n] \in MapStruct(n)
                      /\ Exact(ds1[n]) /\ Listed(n, ms[n], ds1[n])
  BY <1>2, <1>4, ExactSame, ListedSame
<1>7. \A n \in Maps : /\ ms2[n] \in MapStruct(n) /\ ds2[n] \in MapFiles(n)
                      /\ Exact(ds2[n]) /\ Listed(n, ms2[n], ds2[n])
  BY <1>4, <1>6, FlushType, FlushListed
<1>8. DOMAIN ms2 = Maps /\ DOMAIN ds2 = Maps
  OBVIOUS
<1> HIDE DEF ms2, ds2
<1> DEFINE r == ready_map_name(m, ms2[m], ds2[m])
<1>9. Exact(ReadyFiles(m, ms2[m], ds2[m])) /\ r.in_memory = "IN_MEMORY" /\ r \in MapStruct(m)
  BY <1>7, ReadyType, ReadyListed
<1> HIDE DEF r
<1>10. [r EXCEPT !.timeout = 0].in_memory = "IN_MEMORY"
  BY <1>9 DEF MapStruct
<1>11. \A n \in Maps : Exact(disk'[n]) /\ Listed(n, maps'[n], disk'[n])
  <2>1. CASE loc[p] # m
    BY <1>5, <1>7, <2>1
  <2>2. CASE loc[p] = m
    <3>1. maps' = [ms2 EXCEPT ![m] = [r EXCEPT !.timeout = 0]]
      BY <1>5, <2>2 DEF r
    <3>2. Listed(m, maps'[m], disk'[m]) /\ Exact(disk'[m])
      BY <1>5, <1>8, <1>9, <1>10, <2>2, <3>1 DEF Listed
    <3>3. \A n \in Maps \ {m} : maps'[n] = ms2[n] /\ disk'[n] = ds2[n]
      BY <1>5, <1>8, <2>2, <3>1
    <3> QED
      BY <1>7, <3>2, <3>3
  <2> QED
    BY <2>1, <2>2
<1> QED
  BY <1>5, <1>11, RunningListed

LEMMA CommandResetListed ==
  ASSUME RecycleTmpMaps, ~LogErrors, TypeOK, LogInv, NEW p \in DMs, NEW m \in Maps,
         NEW full \in BOOLEAN, NEW err \in Outcomes(SaveErrors), NEW logOK \in LogOutcomes,
         command_reset(p, m, full, err, logOK)
  PROVE  LogInv'
<1> DEFINE s      == [maps[m] EXCEPT !.reset_group = NoGroup]
           others == On(m) \ {p} # {}
           t      == swap_map(m, s, others, err)
           d      == [disk EXCEPT ![m] = SwapFiles(m, s, @, others, err)]
           ms     == [maps EXCEPT ![m] = t]
           ds     == IF SwapLogs(m, s, others, err)
                     THEN [n \in Maps |-> write_map_log(ms[n], d[n])] ELSE d
           kept   == others \/ (err = "UCREATION" /\ m \notin PlayerMaps)
<1>1. /\ s \in MapStruct(m)
      /\ s.in_memory = maps[m].in_memory /\ s.tmpname = maps[m].tmpname
  BY DEF TypeOK, MapStruct
<1>2. err \in SaveOutcomes /\ others \in BOOLEAN /\ p \in Players
  BY OutcomesType, RunAssumption
<1>3. server = "running" /\ logOK
  BY DEF command_reset, LogOutcomes
<1>4. \/ ResetSucceeds(p, m, full, s, disk)
      \/ ResetSucceeds(p, m, full, t, ds)
      \/ /\ maps' = IF kept THEN [maps EXCEPT ![m] = [t EXCEPT !.reset_group = maps[m].reset_group]]
                     ELSE ms
         /\ disk' = ds
         /\ UNCHANGED <<server, loc, inv, saved>>
      \/ ProcessDies("crashed") /\ disk' = ds
  BY <1>3 DEF command_reset
<1> HIDE DEF s, others, kept
<1>5. t \in MapStruct(m)
  <2>1. disk[m] \in MapFiles(m)
    BY DEF TypeOK
  <2> QED
    BY <1>1, <1>2, <2>1, SwapType
<1>6. DOMAIN ds = Maps /\ \A n \in Maps : ds[n] \in MapFiles(n)
  <2>1. SwapLogs(m, s, others, err) \in BOOLEAN
    BY DEF SwapLogs, SwapSaves, SaveOK
  <2> QED
    BY <1>1, <1>2, <2>1, SwapAllType
<1>7. \A n \in Maps : Exact(ds[n]) /\ Listed(n, ms[n], ds[n])
  BY <1>1, <1>2, <1>3, SwapAllListed
<1>8. ms[m] = t /\ \A n \in Maps \ {m} : ms[n] = maps[n]
  BY DEF TypeOK
<1>9. Listed(m, s, disk[m]) /\ \A n \in Maps : Exact(disk[n]) /\ Listed(n, maps[n], disk[n])
  BY <1>1, <1>3, ListedSame DEF LogInv
<1> HIDE DEF t, d, ds
<1>10. CASE ResetSucceeds(p, m, full, s, disk)
  BY <1>1, <1>2, <1>3, <1>9, <1>10, ResetSucceedsListed DEF TypeOK
<1>11. CASE ResetSucceeds(p, m, full, t, ds)
  BY <1>2, <1>3, <1>5, <1>6, <1>7, <1>8, <1>11, ResetSucceedsListed
<1>12. CASE /\ maps' = IF kept THEN [maps EXCEPT ![m] = [t EXCEPT !.reset_group = maps[m].reset_group]]
                       ELSE ms
            /\ disk' = ds
            /\ UNCHANGED <<server, loc, inv, saved>>
  <2>1. /\ [t EXCEPT !.reset_group = maps[m].reset_group].in_memory = t.in_memory
        /\ [t EXCEPT !.reset_group = maps[m].reset_group].tmpname = t.tmpname
    BY <1>5 DEF MapStruct
  <2>2. \A n \in Maps : /\ maps'[n].in_memory = ms[n].in_memory
                        /\ maps'[n].tmpname = ms[n].tmpname
    BY <1>12, <2>1 DEF TypeOK
  <2> HIDE DEF ms
  <2>3. \A n \in Maps : Exact(disk'[n]) /\ Listed(n, maps'[n], disk'[n])
    BY <1>7, <1>12, <2>2, ListedSame
  <2> QED
    BY <1>3, <1>12, <2>3, RunningListed
<1>13. CASE ProcessDies("crashed") /\ disk' = ds
  BY <1>7, <1>13, DeathListed
<1> QED
  BY <1>4, <1>10, <1>11, <1>12, <1>13

\* An orderly stop saves what is in memory and, by clean_tmp_files, removes the
\* file of every map that is swapped out: their lines are dead, not wrong.
LEMMA ShutdownListed ==
  ASSUME RecycleTmpMaps, ~LogErrors, TypeOK, LogInv, Shutdown
  PROVE  LogInv'
<1> PICK err \in [Maps -> Outcomes(StopErrors)], logOK \in LogOutcomes :
         LET ms == [m \in Maps |-> IF RecycleTmpMaps THEN swap_map(m, maps[m], FALSE, err[m])
                                   ELSE maps[m]]
             ds == [m \in Maps |-> CleanedFiles(m, err[m])]
         IN  disk' = IF /\ RecycleTmpMaps /\ logOK
                        /\ \E m \in Maps : SwapLogs(m, maps[m], FALSE, err[m])
                     THEN [m \in Maps |-> write_map_log(ms[m], ds[m])]
                     ELSE ds
  BY DEF Shutdown
<1> SUFFICES ASSUME NEW m \in Maps PROVE Exact(disk'[m])
  BY DeathListed DEF Shutdown
<1> DEFINE none == FALSE
           r == swap_map(m, maps[m], none, err[m])
           f == CleanedFiles(m, err[m])
<1>1. /\ err[m] \in SaveOutcomes /\ maps[m] \in MapStruct(m) /\ disk[m] \in MapFiles(m)
      /\ none \in BOOLEAN
  BY OutcomesType DEF TypeOK
<1>2. Exact(disk[m]) /\ Listed(m, maps[m], disk[m])
  BY DEF Shutdown, LogInv
<1>3. f = IF maps[m].in_memory = "IN_MEMORY" THEN SwapFiles(m, maps[m], disk[m], none, err[m])
          ELSE IF maps[m].tmpname THEN clean_tmp_map(disk[m]) ELSE disk[m]
  BY DEF CleanedFiles
<1>4. logOK
  BY DEF LogOutcomes
<1>5. CASE \E n \in Maps : SwapLogs(n, maps[n], FALSE, err[n])
  <2>1. disk'[m] = write_map_log(r, f)
    BY <1>4, <1>5
  <2>2. r \in MapStruct(m) /\ f \in MapFiles(m)
    BY <1>1, <1>3, SwapType, CleanType
  <2>3. r.in_memory = "SWAPPED" /\ m \notin PlayerMaps => r.tmpname
    <3> HIDE DEF none
    <3> QED
      BY <1>1, <1>2, SwapNames DEF Listed
  <2> HIDE DEF r, f
  <2> QED
    BY <2>1, <2>2, <2>3, LogLists
<1>6. CASE ~\E n \in Maps : SwapLogs(n, maps[n], FALSE, err[n])
  <2>1. disk'[m] = f
    BY <1>6
  <2>2. ~SwapLogs(m, maps[m], none, err[m])
    BY <1>6
  <2> HIDE DEF none
  <2>3. Exact(SwapFiles(m, maps[m], disk[m], none, err[m]))
    BY <1>1, <1>2, <2>2, QuietSwap
  <2>4. Exact(clean_tmp_map(disk[m]))
    BY <1>1, CleanExact
  <2> HIDE DEF f
  <2> QED
    BY <1>2, <1>3, <2>1, <2>3, <2>4
<1> QED
  BY <1>5, <1>6

LEMMA StepListed ==
  ASSUME RecycleTmpMaps, ~LogErrors, TypeOK, LogInv, [Next]_vars
  PROVE  LogInv'
<1> DEFINE Same == /\ server = "running" /\ server' = "running" /\ disk' = disk
                   /\ \A m \in Maps : /\ maps'[m].in_memory = maps[m].in_memory
                                       /\ maps'[m].tmpname = maps[m].tmpname
<1>0. Same => LogInv'
  BY ListedSame, RunningListed DEF LogInv
<1>1. ASSUME NEW p \in Players, NEW m \in Maps, Enter(p, m) PROVE LogInv'
  BY <1>1, EnterListed
<1>2. ASSUME NEW p \in Players, Leave(p) \/ SavePlayer(p) PROVE LogInv'
  BY <1>0, <1>2 DEF Leave, SavePlayer
<1>3. ASSUME NEW p \in Players, NEW i \in Items, PickUp(p, i) \/ Drop(p, i) PROVE LogInv'
  <2>1. loc[p] \in Maps /\ maps[loc[p]] \in MapStruct(loc[p])
    BY <1>3 DEF PickUp, Drop, TypeOK
  <2> QED
    BY <1>0, <1>3, <2>1 DEF PickUp, Drop, TypeOK, MapStruct
<1>4. ASSUME NEW m \in Maps, Play(m) PROVE LogInv'
  BY <1>0, <1>4 DEF Play, TypeOK, MapStruct
<1>5. ASSUME NEW m \in Maps, TouchMap(m) PROVE LogInv'
  BY <1>5, ReadyListed, RunningListed DEF TouchMap, TypeOK, LogInv
<1>6. CASE SecondPasses
  BY <1>0, <1>6 DEF SecondPasses, TypeOK, MapStruct
<1>7. CASE check_active_maps
  BY <1>7, CheckActiveListed
<1>8. CASE flush_old_maps
  BY <1>8, FlushListed, RunningListed DEF flush_old_maps, TypeOK, LogInv
<1>9. ASSUME NEW m \in Maps, command_swap(m) PROVE LogInv'
  BY <1>0, <1>9 DEF command_swap, TypeOK, MapStruct
<1>10. ASSUME NEW p \in DMs, NEW m \in Maps, NEW full \in BOOLEAN,
              NEW err \in Outcomes(SaveErrors), NEW logOK \in LogOutcomes,
              command_reset(p, m, full, err, logOK)
       PROVE  LogInv'
  BY <1>10, CommandResetListed
<1>11. CASE Shutdown
  BY <1>11, ShutdownListed
<1>12. CASE Crash
  BY <1>12, DeathListed DEF Crash, LogInv
<1>13. ASSUME NEW m \in Maps, CrashInSwap(m) PROVE LogInv'
  <2>1. /\ CommitUnique(m, maps[m], disk[m]).entry = disk[m].entry
        /\ CommitUnique(m, maps[m], disk[m]).tmp = disk[m].tmp
    BY DEF CommitUnique, TypeOK, MapFiles
  <2>2. Exact(disk'[m]) /\ \A n \in Maps \ {m} : disk'[n] = disk[n]
    BY <1>13, <2>1, ExactSame DEF CrashInSwap, TypeOK, LogInv
  <2> QED
    BY <1>13, <2>2, DeathListed DEF CrashInSwap, LogInv
<1>14. CASE Boot
  BY <1>14, BootListed, RunningListed DEF Boot, TypeOK, LogInv
<1>15. CASE UNCHANGED vars
  BY <1>15 DEF vars, LogInv
<1> QED
  BY <1>1, <1>2, <1>3, <1>4, <1>5, <1>6, <1>7, <1>8, <1>9, <1>10, <1>11, <1>12, <1>13,
     <1>14, <1>15 DEF Next

LEMMA AlwaysListed ==
  ASSUME RecycleTmpMaps, ~LogErrors
  PROVE  Spec => [](TypeOK /\ OwnedInv /\ LogInv)
<1>1. Init => LogInv
  BY DEF Init, LogInv, Exact, Listed, Unlinked, NoFiles
<1>2. TypeOK /\ LogInv /\ [Next]_vars => LogInv'
  BY StepListed
<1> QED
  BY <1>1, <1>2, AlwaysOwnedInv, PTL DEF Spec

\* What the next process finds in the files e of a map that was swapped out, when
\* they differ from its files d at most in the line that the log has of it.
LEMMA SeenAfterCrash ==
  ASSUME NEW m \in Maps, NEW s \in MapStruct(m), NEW d \in MapFiles(m), NEW e \in MapFiles(m),
         s.in_memory = "SWAPPED", Plain(m, s, e), Listed(m, s, e), Exact(e),
         e.tmp = d.tmp, e.v00 = d.v00, e.home = d.home
  PROVE  /\ SeenReg(m, read_map_log(e), BootFiles(e)) = SeenReg(m, s, d)
         /\ SeenUniq(m, read_map_log(e), BootFiles(e)) = SeenUniq(m, s, d)
<1> SUFFICES ASSUME NEW r, r = read_map_log(e), NEW b, b = BootFiles(e)
             PROVE  SeenReg(m, r, b) = SeenReg(m, s, d) /\ SeenUniq(m, r, b) = SeenUniq(m, s, d)
  OBVIOUS
<1>1. b.v00 = d.v00 /\ b.home = d.home /\ (e.entry # NoFile => b.tmp = d.tmp)
  BY BootListed
<1>2. r \in MapStruct(m) /\ r.in_memory # "IN_MEMORY"
  BY LogType DEF read_map_log, Unlinked
<1>3. s.in_memory # "IN_MEMORY"
  OBVIOUS
<1>4. CASE m \in PlayerMaps
  BY <1>1, <1>2, <1>3, <1>4, SeenAtHome
<1>5. CASE m \notin PlayerMaps
  <2>1. s.tmpname /\ e.entry # NoFile
    BY <1>5 DEF Listed
  <2>2. r.in_memory = "SWAPPED" /\ r.tmpname
    BY <2>1 DEF read_map_log, Unlinked
  <2>3. HasTmpFile(r, b) <=> d.tmp # NoFile
    BY <1>1, <2>1, <2>2 DEF HasTmpFile
  <2>4. HasTmpFile(s, d) <=> d.tmp # NoFile
    BY <2>1 DEF HasTmpFile
  <2>5. b.tmp = d.tmp
    BY <1>1, <2>1
  <2>6. CASE d.tmp = NoFile
    BY <1>1, <1>2, <1>3, <1>5, <2>3, <2>4, <2>6, SeenFresh
  <2>7. CASE d.tmp # NoFile
    <3>1. /\ SeenReg(m, s, d) = d.tmp.reg
          /\ SeenUniq(m, s, d) = IF d.v00 = NoFile THEN {} ELSE d.v00
      BY <1>5, <2>4, <2>7, SeenInTmp
    <3>2. /\ SeenReg(m, r, b) = b.tmp.reg
          /\ SeenUniq(m, r, b) = IF b.v00 = NoFile THEN {} ELSE b.v00
      BY <1>2, <1>5, <2>3, <2>7, SeenInTmp
    <3> QED
      BY <1>1, <2>5, <3>1, <3>2
  <2> QED
    BY <2>6, <2>7
<1> QED
  BY <1>4, <1>5

\* Where a step can leave the server down.
LEMMA HowProcessesEnd ==
  ASSUME [Next]_vars, server' # "running"
  PROVE  \/ UNCHANGED vars
         \/ Shutdown
         \/ Crash
         \/ \E n \in Maps : CrashInSwap(n)
         \/ \E p \in DMs, n \in Maps, full \in BOOLEAN, err \in Outcomes(SaveErrors),
               logOK \in LogOutcomes : command_reset(p, n, full, err, logOK)
<1>1. \A p \in Players, m \in Maps : ~Enter(p, m)
  BY DEF Enter
<1>2. \A p \in Players : ~Leave(p) /\ ~SavePlayer(p)
  BY DEF Leave, SavePlayer
<1>3. \A p \in Players, i \in Items : ~PickUp(p, i) /\ ~Drop(p, i)
  BY DEF PickUp, Drop
<1>4. \A m \in Maps : ~Play(m) /\ ~TouchMap(m) /\ ~command_swap(m)
  BY DEF Play, TouchMap, command_swap
<1>5. ~SecondPasses /\ ~flush_old_maps /\ ~Boot
  BY DEF SecondPasses, flush_old_maps, Boot
<1>6. ~check_active_maps
  BY DEF check_active_maps, SwapDue
<1> QED
  BY <1>1, <1>2, <1>3, <1>4, <1>5, <1>6 DEF Next

\* A crash leaves the files of a map that is swapped out as they are, except that
\* a reset that crashes may have written the log before.
LEMMA CrashKeepsFiles ==
  ASSUME TypeOK, [Next]_vars, server = "running", server' = "crashed",
         NEW m \in Maps, maps[m].in_memory = "SWAPPED"
  PROVE  disk'[m] = disk[m] \/ disk'[m] = write_map_log(maps[m], disk[m])
<1>1. Crash \/ (\E n \in Maps : CrashInSwap(n)) \/
      \E p \in DMs, n \in Maps, full \in BOOLEAN, err \in Outcomes(SaveErrors),
         logOK \in LogOutcomes : command_reset(p, n, full, err, logOK)
  <2>1. ~UNCHANGED vars
    BY DEF vars
  <2>2. ~Shutdown
    BY DEF Shutdown, ProcessDies
  <2> QED
    BY <2>1, <2>2, HowProcessesEnd
<1>2. CASE Crash
  BY <1>2 DEF Crash
<1>3. ASSUME NEW n \in Maps, CrashInSwap(n)
      PROVE  disk'[m] = disk[m]
  <2>1. n # m
    BY <1>3 DEF CrashInSwap, SwapSaves
  <2> QED
    BY <1>3, <2>1 DEF CrashInSwap, TypeOK
<1>4. ASSUME NEW p \in DMs, NEW n \in Maps, NEW full \in BOOLEAN,
             NEW err \in Outcomes(SaveErrors), NEW logOK \in LogOutcomes,
             command_reset(p, n, full, err, logOK)
      PROVE  disk'[m] = disk[m] \/ disk'[m] = write_map_log(maps[m], disk[m])
  <2> DEFINE s      == [maps[n] EXCEPT !.reset_group = NoGroup]
             others == On(n) \ {p} # {}
             t      == swap_map(n, s, others, err)
             d      == [disk EXCEPT ![n] = SwapFiles(n, s, @, others, err)]
             logs   == RecycleTmpMaps /\ logOK /\ SwapLogs(n, s, others, err)
             ms     == [maps EXCEPT ![n] = t]
             ds     == IF logs THEN [k \in Maps |-> write_map_log(ms[k], d[k])] ELSE d
  <2>1. /\ s.in_memory = "IN_MEMORY" /\ disk' = ds
    BY <1>4 DEF command_reset, ResetSucceeds
  <2>2. n # m
    BY <2>1 DEF TypeOK, MapStruct
  <2>3. ms[m] = maps[m] /\ d[m] = disk[m]
    BY <2>2 DEF TypeOK
  <2> HIDE DEF logs, ms, d
  <2> QED
    BY <2>1, <2>3
<1> QED
  BY <1>1, <1>2, <1>3, <1>4

\* With recycling, every map that is swapped out when the process dies, inside a
\* swap or at any other moment, comes back from its file as it was, provided that
\* temp.maps can be written.
THEOREM SwappedMapsOutliveCrashes ==
  ASSUME RecycleTmpMaps, ~LogErrors
  PROVE  Spec => SwappedMapsSurviveCrash
<1> DEFINE Survives == \A m \in Maps :
              server = "running" /\ server' = "crashed" /\ maps[m].in_memory = "SWAPPED"
              => View(m).reg' = View(m).reg /\ View(m).uniq' = View(m).uniq
<1>1. TypeOK /\ TypeOK' /\ OwnedInv /\ LogInv /\ LogInv' /\ [Next]_vars => Survives
  <2> SUFFICES ASSUME TypeOK, TypeOK', OwnedInv, LogInv, LogInv', [Next]_vars, NEW m \in Maps,
                      server = "running", server' = "crashed", maps[m].in_memory = "SWAPPED"
               PROVE  View(m).reg' = View(m).reg /\ View(m).uniq' = View(m).uniq
    OBVIOUS
  <2> DEFINE s == maps[m]
             d == disk[m]
             e == disk'[m]
  <2>1. s \in MapStruct(m) /\ d \in MapFiles(m) /\ e \in MapFiles(m)
    BY DEF TypeOK
  <2>2. e = d \/ e = write_map_log(s, d)
    BY CrashKeepsFiles
  <2>3. Plain(m, s, d) /\ Exact(d) /\ Listed(m, s, d)
    BY DEF OwnedInv, Owned, LogInv
  <2>4. Plain(m, s, e) /\ Exact(e) /\ Listed(m, s, e)
    <3>1. m \notin PlayerMaps => s.tmpname
      BY <2>3 DEF Listed
    <3> HIDE DEF s, d, e
    <3> QED
      BY <2>1, <2>2, <2>3, <3>1, LogOwned, LogLists
  <2>5. e.tmp = d.tmp /\ e.v00 = d.v00 /\ e.home = d.home
    BY <2>1, <2>2 DEF write_map_log, MapFiles
  <2>6. View(m).reg = SeenReg(m, s, d) /\ View(m).uniq = SeenUniq(m, s, d)
    BY DEF View, SeenReg, SeenUniq
  <2>7. /\ View(m).reg' = SeenReg(m, read_map_log(e), BootFiles(e))
        /\ View(m).uniq' = SeenUniq(m, read_map_log(e), BootFiles(e))
    BY DEF View, SeenReg, SeenUniq
  <2>8. s.in_memory = "SWAPPED"
    OBVIOUS
  <2> HIDE DEF s, d, e
  <2>9. /\ SeenReg(m, read_map_log(e), BootFiles(e)) = SeenReg(m, s, d)
        /\ SeenUniq(m, read_map_log(e), BootFiles(e)) = SeenUniq(m, s, d)
    BY <2>1, <2>4, <2>5, <2>8, SeenAfterCrash
  <2> QED
    BY <2>6, <2>7, <2>9
<1>2. Survives => [Survives]_vars
  OBVIOUS
<1> HIDE DEF Survives
<1>3. TypeOK /\ TypeOK' /\ OwnedInv /\ LogInv /\ LogInv' /\ [Next]_vars => [Survives]_vars
  BY <1>1, <1>2
<1>4. Spec => [][Survives]_vars
  BY <1>3, AlwaysListed, PTL DEF Spec
<1> QED
  BY <1>4 DEF SwappedMapsSurviveCrash, Survives
-----------------------------------------------------------------------------
(***************************************************************************)
(* Orphans.  A running process only ever touches the temporary files of its*)
(* own structures, so a file becomes an orphan when a process starts, and  *)
(* never after an orderly stop: clean_tmp_files has removed the file, or   *)
(* the last line written to temp.maps names it.                            *)
(***************************************************************************)

LEMMA CleanOrphan ==
  ASSUME NEW m \in Maps, NEW d \in MapFiles(m)
  PROVE  clean_tmp_map(d).orphan = d.orphan
BY DEF clean_tmp_map, MapFiles

LEMMA FilesKeepOrphan ==
  ASSUME NEW m \in Maps, NEW s \in MapStruct(m), NEW d \in MapFiles(m), NEW err \in SaveOutcomes
  PROVE  /\ clean_tmp_map(d).orphan = d.orphan
         /\ CommitUnique(m, s, d).orphan = d.orphan
         /\ SavedFiles(m, s, d, err).orphan = d.orphan
         /\ write_map_log(s, d).orphan = d.orphan
         /\ RemoveUnique(m, d).orphan = d.orphan
<1>1. /\ clean_tmp_map(d).orphan = d.orphan
      /\ write_map_log(s, d).orphan = d.orphan
      /\ RemoveUnique(m, d).orphan = d.orphan
  BY DEF clean_tmp_map, write_map_log, RemoveUnique, MapFiles
<1>2. CommitUnique(m, s, d) \in MapFiles(m) /\ CommitUnique(m, s, d).orphan = d.orphan
  BY DEF CommitUnique, MapFiles, MapStruct
<1>3. ASSUME NEW e \in MapFiles(m), NEW x
      PROVE  [e EXCEPT !.tmp = x].orphan = e.orphan /\ [e EXCEPT !.home = x].orphan = e.orphan
  BY DEF MapFiles
<1>4. SavedFiles(m, s, d, err).orphan = d.orphan
  BY <1>2, <1>3 DEF SavedFiles
<1> QED
  BY <1>1, <1>2, <1>4

\* No handler of the running server makes or removes an orphan of map n.
Same(n, ds) == ds[n].orphan = disk[n].orphan

LEMMA SwapAllOrphans ==
  ASSUME TypeOK, NEW m \in Maps, NEW s \in MapStruct(m), NEW occupied \in BOOLEAN,
         NEW err \in SaveOutcomes, NEW logs \in BOOLEAN
  PROVE  LET d  == [disk EXCEPT ![m] = SwapFiles(m, s, @, occupied, err)]
             ms == [maps EXCEPT ![m] = swap_map(m, s, occupied, err)]
             ds == IF logs THEN [n \in Maps |-> write_map_log(ms[n], d[n])] ELSE d
         IN  \A n \in Maps : Same(n, ds)
<1> DEFINE d  == [disk EXCEPT ![m] = SwapFiles(m, s, @, occupied, err)]
           ms == [maps EXCEPT ![m] = swap_map(m, s, occupied, err)]
           ds == IF logs THEN [n \in Maps |-> write_map_log(ms[n], d[n])] ELSE d
<1>1. \A n \in Maps : ms[n] \in MapStruct(n) /\ d[n] \in MapFiles(n)
  BY SwapType DEF TypeOK
<1>2. \A n \in Maps : d[n].orphan = disk[n].orphan
  BY FilesKeepOrphan DEF TypeOK, SwapFiles
<1> HIDE DEF d, ms
<1>3. \A n \in Maps : write_map_log(ms[n], d[n]).orphan = d[n].orphan
  BY <1>1, FilesKeepOrphan DEF SaveOutcomes
<1>4. \A n \in Maps : Same(n, ds)
  BY <1>2, <1>3 DEF Same
<1> QED
  BY <1>4 DEF d, ms

LEMMA CheckActiveOrphans ==
  ASSUME TypeOK, check_active_maps, NEW n \in Maps
  PROVE  Same(n, disk')
<1>1. CASE disk' = disk
  BY <1>1 DEF Same
<1>2. CASE \E m \in Due, err \in Outcomes(SaveErrors), logOK \in LogOutcomes :
             SwapDue(m, err, logOK)
  <2> PICK m \in Due, err \in Outcomes(SaveErrors), logOK \in LogOutcomes :
             disk' = SwapDisk(m, m \in Occupied, err, logOK)
    BY <1>2 DEF SwapDue
  <2> DEFINE logs == RecycleTmpMaps /\ logOK /\ SwapLogs(m, maps[m], m \in Occupied, err)
  <2>1. /\ m \in Maps /\ err \in SaveOutcomes /\ logs \in BOOLEAN
        /\ (m \in Occupied) \in BOOLEAN /\ maps[m] \in MapStruct(m)
    BY OutcomesType DEF Due, TypeOK
  <2> QED
    BY <2>1, SwapAllOrphans DEF SwapDisk
<1> QED
  BY <1>1, <1>2 DEF check_active_maps

LEMMA ResetSucceedsOrphans ==
  ASSUME TypeOK, NEW p \in Players, NEW m \in Maps, NEW full \in BOOLEAN,
         NEW t \in MapStruct(m), NEW ds, DOMAIN ds = Maps,
         \A n \in Maps : ds[n] \in MapFiles(n), \A n \in Maps : Same(n, ds),
         ResetSucceeds(p, m, full, t, ds), NEW k \in Maps
  PROVE  Same(k, disk')
<1> DEFINE ms  == [maps EXCEPT ![m] = IF t = Unlinked THEN t ELSE [t EXCEPT !.ttr = 0]]
           occ == OccupiedBy([loc EXCEPT ![p] = IF @ = m THEN NoMap ELSE @])
           ds1 == IF full THEN [ds EXCEPT ![m] = RemoveUnique(m, @)] ELSE ds
           ms2 == [n \in Maps |-> FlushStruct(ms, n, occ)]
           ds2 == [n \in Maps |-> FlushFiles(ms, n, ds1[n])]
<1>1. /\ RemoveUnique(m, ds[m]) \in MapFiles(m)
      /\ RemoveUnique(m, ds[m]).orphan = ds[m].orphan
  BY DEF RemoveUnique, MapFiles
<1>2. \A n \in Maps : ds1[n] \in MapFiles(n) /\ ds1[n].orphan = ds[n].orphan
  BY <1>1
<1>3. disk' = IF loc[p] = m THEN [ds2 EXCEPT ![m] = ReadyFiles(m, ms2[m], @)] ELSE ds2
  BY DEF ResetSucceeds
<1> HIDE DEF ms, occ, ds1
<1>4. \A n \in Maps : ds2[n] \in MapFiles(n) /\ ds2[n].orphan = ds1[n].orphan
  BY <1>2, CleanType, CleanOrphan DEF FlushFiles
<1>5. DOMAIN ds2 = Maps
  OBVIOUS
<1> HIDE DEF ms2, ds2
<1>6. ReadyFiles(m, ms2[m], ds2[m]).orphan = ds2[m].orphan
  BY <1>4, CleanOrphan DEF ReadyFiles
<1>7. disk'[k].orphan = ds2[k].orphan
  BY <1>3, <1>5, <1>6
<1> QED
  BY <1>2, <1>4, <1>7 DEF Same

LEMMA CommandResetOrphans ==
  ASSUME TypeOK, NEW p \in DMs, NEW m \in Maps, NEW full \in BOOLEAN,
         NEW err \in Outcomes(SaveErrors), NEW logOK \in LogOutcomes,
         command_reset(p, m, full, err, logOK), NEW k \in Maps
  PROVE  Same(k, disk')
<1> DEFINE s      == [maps[m] EXCEPT !.reset_group = NoGroup]
           others == On(m) \ {p} # {}
           t      == swap_map(m, s, others, err)
           d      == [disk EXCEPT ![m] = SwapFiles(m, s, @, others, err)]
           logs   == RecycleTmpMaps /\ logOK /\ SwapLogs(m, s, others, err)
           ms     == [maps EXCEPT ![m] = t]
           ds     == IF logs THEN [n \in Maps |-> write_map_log(ms[n], d[n])] ELSE d
<1>1. s \in MapStruct(m) /\ disk[m] \in MapFiles(m)
  BY DEF TypeOK, MapStruct
<1>2. err \in SaveOutcomes /\ others \in BOOLEAN /\ logs \in BOOLEAN /\ p \in Players
  BY OutcomesType, RunAssumption
<1>3. \/ ResetSucceeds(p, m, full, s, disk)
      \/ ResetSucceeds(p, m, full, t, ds)
      \/ disk' = ds
  BY DEF command_reset
<1> HIDE DEF s, others, logs
<1>4. t \in MapStruct(m)
  BY <1>1, <1>2, SwapType
<1>5. DOMAIN ds = Maps /\ \A n \in Maps : ds[n] \in MapFiles(n)
  BY <1>1, <1>2, SwapAllType
<1>6. \A n \in Maps : Same(n, ds)
  BY <1>1, <1>2, SwapAllOrphans
<1> HIDE DEF t, d, ms, ds
<1>7. CASE ResetSucceeds(p, m, full, s, disk)
  <2>1. \A n \in Maps : Same(n, disk)
    BY DEF Same
  <2> QED
    BY <1>1, <1>2, <1>7, <2>1, ResetSucceedsOrphans DEF TypeOK
<1>8. CASE ResetSucceeds(p, m, full, t, ds)
  BY <1>2, <1>4, <1>5, <1>6, <1>8, ResetSucceedsOrphans
<1>9. CASE disk' = ds
  BY <1>6, <1>9
<1> QED
  BY <1>3, <1>7, <1>8, <1>9

LEMMA CleanedOrphan ==
  ASSUME TypeOK, NEW m \in Maps, NEW err \in SaveOutcomes
  PROVE  CleanedFiles(m, err) \in MapFiles(m) /\ CleanedFiles(m, err).orphan = disk[m].orphan
<1>1. maps[m] \in MapStruct(m) /\ disk[m] \in MapFiles(m) /\ FALSE \in BOOLEAN
  BY DEF TypeOK
<1>2. /\ SavedFiles(m, maps[m], disk[m], err) \in MapFiles(m)
      /\ SavedFiles(m, maps[m], disk[m], err).orphan = disk[m].orphan
  BY <1>1, SavedType, FilesKeepOrphan
<1>3. \/ CleanedFiles(m, err) = SavedFiles(m, maps[m], disk[m], err)
      \/ CleanedFiles(m, err) = clean_tmp_map(SavedFiles(m, maps[m], disk[m], err))
      \/ CleanedFiles(m, err) = clean_tmp_map(disk[m])
      \/ CleanedFiles(m, err) = disk[m]
  BY DEF CleanedFiles, SwapFiles
<1> QED
  BY <1>1, <1>2, <1>3, CleanType, CleanOrphan

LEMMA ShutdownOrphans ==
  ASSUME TypeOK, Shutdown, NEW k \in Maps
  PROVE  Same(k, disk')
<1> PICK err \in [Maps -> Outcomes(StopErrors)], logOK \in LogOutcomes :
         LET ms == [m \in Maps |-> IF RecycleTmpMaps THEN swap_map(m, maps[m], FALSE, err[m])
                                   ELSE maps[m]]
             ds == [m \in Maps |-> CleanedFiles(m, err[m])]
         IN  disk' = IF /\ RecycleTmpMaps /\ logOK
                        /\ \E m \in Maps : SwapLogs(m, maps[m], FALSE, err[m])
                     THEN [m \in Maps |-> write_map_log(ms[m], ds[m])]
                     ELSE ds
  BY DEF Shutdown
<1> DEFINE s == IF RecycleTmpMaps THEN swap_map(k, maps[k], FALSE, err[k]) ELSE maps[k]
           f == CleanedFiles(k, err[k])
<1>1. err[k] \in SaveOutcomes /\ maps[k] \in MapStruct(k) /\ disk[k] \in MapFiles(k)
  BY OutcomesType DEF TypeOK
<1>2. s \in MapStruct(k)
  BY <1>1, SwapType
<1>3. f \in MapFiles(k) /\ f.orphan = disk[k].orphan
  BY <1>1, CleanedOrphan
<1>4. disk'[k] = write_map_log(s, f) \/ disk'[k] = f
  OBVIOUS
<1> HIDE DEF s, f
<1>5. write_map_log(s, f).orphan = f.orphan
  BY <1>1, <1>2, <1>3, FilesKeepOrphan
<1> QED
  BY <1>3, <1>4, <1>5 DEF Same

\* Only the start of a process may find orphans.
LEMMA OrphansAtBoot ==
  ASSUME TypeOK, Next, ~Boot, NEW k \in Maps
  PROVE  Same(k, disk')
<1>0. disk' = disk => Same(k, disk')
  BY DEF Same
<1>1. ASSUME NEW s \in MapStruct(k), disk'[k] \in {disk[k], ReadyFiles(k, s, disk[k])}
      PROVE  Same(k, disk')
  BY <1>1, CleanOrphan DEF ReadyFiles, TypeOK, Same
<1>2. ASSUME NEW p \in Players, NEW m \in Maps, Enter(p, m) PROVE Same(k, disk')
  BY <1>1, <1>2 DEF Enter, TypeOK
<1>3. ASSUME NEW m \in Maps, TouchMap(m) PROVE Same(k, disk')
  BY <1>1, <1>3 DEF TouchMap, TypeOK
<1>4. CASE flush_old_maps
  BY <1>4, CleanOrphan DEF flush_old_maps, FlushFiles, TypeOK, Same
<1>5. ASSUME NEW p \in DMs, NEW m \in Maps, NEW full \in BOOLEAN,
             NEW err \in Outcomes(SaveErrors), NEW logOK \in LogOutcomes,
             command_reset(p, m, full, err, logOK)
      PROVE  Same(k, disk')
  BY <1>5, CommandResetOrphans
<1>6. ASSUME NEW m \in Maps, CrashInSwap(m) PROVE Same(k, disk')
  <2>1. CommitUnique(m, maps[m], disk[m]).orphan = disk[m].orphan
    BY DEF CommitUnique, TypeOK, MapFiles
  <2> QED
    BY <1>6, <2>1 DEF CrashInSwap, TypeOK, Same
<1>7. ASSUME NEW p \in Players, Leave(p) \/ SavePlayer(p) PROVE Same(k, disk')
  BY <1>0, <1>7 DEF Leave, SavePlayer
<1>8. ASSUME NEW p \in Players, NEW i \in Items, PickUp(p, i) \/ Drop(p, i) PROVE Same(k, disk')
  BY <1>0, <1>8 DEF PickUp, Drop
<1>9. ASSUME NEW m \in Maps, Play(m) \/ command_swap(m) PROVE Same(k, disk')
  BY <1>0, <1>9 DEF Play, command_swap
<1>10. SecondPasses \/ Crash => Same(k, disk')
  BY <1>0 DEF SecondPasses, Crash
<1> QED
  BY <1>2, <1>3, <1>4, <1>5, <1>6, <1>7, <1>8, <1>9, <1>10, CheckActiveOrphans,
     ShutdownOrphans DEF Next

\* With recycling too, an orderly stop leaves no file without a line.
LeftListed ==
    server = "stopped" => \A m \in Maps : disk[m].tmp # NoFile => disk[m].entry # NoFile

LEMMA ShutdownLeavesListed ==
  ASSUME RecycleTmpMaps, ~LogErrors, TypeOK, OwnedInv, LogInv, Shutdown, NEW m \in Maps
  PROVE  disk'[m].tmp # NoFile => disk'[m].entry # NoFile
<1> PICK err \in [Maps -> Outcomes(StopErrors)], logOK \in LogOutcomes :
         LET ms == [n \in Maps |-> IF RecycleTmpMaps THEN swap_map(n, maps[n], FALSE, err[n])
                                   ELSE maps[n]]
             ds == [n \in Maps |-> CleanedFiles(n, err[n])]
         IN  disk' = IF /\ RecycleTmpMaps /\ logOK
                        /\ \E n \in Maps : SwapLogs(n, maps[n], FALSE, err[n])
                     THEN [n \in Maps |-> write_map_log(ms[n], ds[n])]
                     ELSE ds
  BY DEF Shutdown
<1> DEFINE none == FALSE
           s == maps[m]
           r == swap_map(m, s, none, err[m])
           f == CleanedFiles(m, err[m])
<1>1. /\ err[m] \in SaveOutcomes /\ s \in MapStruct(m) /\ disk[m] \in MapFiles(m)
      /\ none \in BOOLEAN /\ logOK
  BY OutcomesType DEF TypeOK, LogOutcomes
<1>2. f = IF s.in_memory = "IN_MEMORY" THEN SwapFiles(m, s, disk[m], none, err[m])
          ELSE IF s.tmpname THEN clean_tmp_map(disk[m]) ELSE disk[m]
  BY DEF CleanedFiles
<1>3. disk[m].tmp # NoFile => s.in_memory = "SWAPPED" /\ s.tmpname
  BY DEF Shutdown, OwnedInv, Owned, HasTmpFile
<1>4. CASE SwapLogs(m, s, none, err[m])
  <2>1. disk'[m] = write_map_log(r, f) /\ f \in MapFiles(m) /\ r \in MapStruct(m)
    BY <1>1, <1>2, <1>4, SwapType, CleanType
  <2>2. SwapSaves(m, s, none) /\ SaveOK(m, s, err[m])
    BY <1>4 DEF SwapLogs
  <2>3. r.in_memory = "SWAPPED" /\ r.tmpname = (m \notin PlayerMaps)
    BY <1>1, <2>2, SwapFields
  <2>4. f = SavedFiles(m, s, disk[m], err[m])
    BY <1>2, <2>2 DEF SwapFiles, SwapSaves
  <2>5. s.in_memory = "IN_MEMORY"
    BY <2>2 DEF SwapSaves
  <2>6. m \in PlayerMaps => f.tmp = NoFile
    <3>1. disk[m].tmp = NoFile
      BY <1>3, <2>5
    <3>2. m \in PlayerMaps => SavedFiles(m, s, disk[m], err[m]).tmp = disk[m].tmp
      BY <1>1, SavedFields
    <3> QED
      BY <2>4, <3>1, <3>2
  <2> HIDE DEF r, f
  <2>7. write_map_log(r, f).tmp = f.tmp
    BY <2>1 DEF write_map_log, MapFiles
  <2>8. m \notin PlayerMaps => write_map_log(r, f).entry # NoFile
    BY <2>1, <2>3, LogLists DEF Listed
  <2> QED
    BY <2>1, <2>6, <2>7, <2>8
<1>5. CASE ~SwapLogs(m, s, none, err[m])
  <2>1. f.tmp = NoFile
    <3>1. CASE s.in_memory # "IN_MEMORY"
      BY <1>1, <1>2, <1>3, <3>1, CleanKeeps
    <3>2. CASE s.in_memory = "IN_MEMORY"
      <4>1. disk[m].tmp = NoFile
        BY <1>3, <3>2
      <4>2. SwapSaves(m, s, none) => ~SaveOK(m, s, err[m])
        BY <1>5 DEF SwapLogs
      <4>3. SavedFiles(m, s, disk[m], err[m]).tmp = NoFile \/ SaveOK(m, s, err[m])
        BY <1>1, <4>1, SavedFields
      <4>4. f = SwapFiles(m, s, disk[m], none, err[m])
        BY <1>2, <3>2
      <4> QED
        BY <4>1, <4>2, <4>3, <4>4 DEF SwapFiles
    <3> QED
      BY <3>1, <3>2
  <2>2. disk'[m] = f \/ disk'[m] = write_map_log(r, f)
    OBVIOUS
  <2>3. f \in MapFiles(m)
    BY <1>1, <1>2, SwapType, CleanType
  <2> HIDE DEF r, f
  <2>4. write_map_log(r, f).tmp = f.tmp
    BY <2>3 DEF write_map_log, MapFiles
  <2> QED
    BY <2>1, <2>2, <2>4
<1> QED
  BY <1>4, <1>5

LEMMA AlwaysLeftListed ==
  ASSUME RecycleTmpMaps, ~LogErrors
  PROVE  Spec => [](TypeOK /\ LogInv /\ LeftListed)
<1>1. Init => LeftListed
  BY DEF Init, LeftListed
<1>2. TypeOK /\ OwnedInv /\ LogInv /\ LeftListed /\ [Next]_vars => LeftListed'
  <2> SUFFICES ASSUME TypeOK, OwnedInv, LogInv, LeftListed, [Next]_vars, server' = "stopped"
               PROVE  \A m \in Maps : disk'[m].tmp # NoFile => disk'[m].entry # NoFile
    BY DEF LeftListed
  <2>1. Shutdown \/ UNCHANGED vars
    <3>1. \A p \in DMs, n \in Maps, full \in BOOLEAN, err \in Outcomes(SaveErrors),
             logOK \in LogOutcomes : ~command_reset(p, n, full, err, logOK)
      <4>1. \A p, n, full, t, ds : ResetSucceeds(p, n, full, t, ds) => server' = server
        BY DEF ResetSucceeds
      <4>2. ~ProcessDies("crashed")
        BY DEF ProcessDies
      <4> QED
        BY <4>1, <4>2 DEF command_reset
    <3>2. ~Crash /\ \A n \in Maps : ~CrashInSwap(n)
      BY DEF Crash, CrashInSwap, ProcessDies
    <3> QED
      BY <3>1, <3>2, HowProcessesEnd
  <2>2. UNCHANGED vars => \A m \in Maps : disk'[m].tmp # NoFile => disk'[m].entry # NoFile
    BY DEF vars, LeftListed
  <2> QED
    BY <2>1, <2>2, ShutdownLeavesListed
<1> QED
  BY <1>1, <1>2, AlwaysListed, PTL DEF Spec

\* What an orderly stop leaves.
NothingLeft == server = "stopped" => \A m \in Maps : ~Orphaned(disk[m])

\* Only a crash orphans temporary files.  Without recycling, clean_tmp_files removes
\* every file of its process, whatever errors its own saves meet; with recycling, and
\* a temp.maps that can be written, what it does not remove it lists.
THEOREM OnlyCrashesOrphan ==
  ASSUME RecycleTmpMaps => ~LogErrors
  PROVE  Spec => OnlyCrashesOrphanFiles
<1> DEFINE Kind == \A m \in Maps : ~disk[m].orphan /\ disk'[m].orphan => server = "crashed"
<1>1. TypeOK /\ NothingLeft /\ [Next]_vars => [Kind]_vars
  <2> SUFFICES ASSUME TypeOK, NothingLeft, Next, NEW m \in Maps,
                      ~disk[m].orphan, disk'[m].orphan
               PROVE  server = "crashed"
    OBVIOUS
  <2>1. disk[m] \in MapFiles(m)
    BY DEF TypeOK
  <2>2. Boot
    BY OrphansAtBoot DEF Same
  <2>3. disk'[m] = BootFiles(disk[m]) /\ server # "running"
    BY <2>2 DEF Boot
  <2>4. BootFiles(disk[m]).orphan = (disk[m].orphan \/ Orphaned(disk[m]))
    BY <2>1 DEF BootFiles, MapFiles
  <2>5. Orphaned(disk[m])
    BY <2>3, <2>4, Zenon
  <2>6. server # "stopped"
    BY <2>5 DEF NothingLeft
  <2> QED
    BY <2>3, <2>6 DEF TypeOK
<1>2. Spec => [](TypeOK /\ NothingLeft)
  <2>1. CASE ~RecycleTmpMaps
    <3>1. BackedInv => NothingLeft
      BY DEF BackedInv, NothingLeft, Orphaned
    <3> QED
      BY <2>1, <3>1, AlwaysBacked, PTL
  <2>2. CASE RecycleTmpMaps
    <3>1. LogInv /\ LeftListed => NothingLeft
      BY DEF LogInv, Exact, LeftListed, NothingLeft, Orphaned
    <3>2. Spec => [](TypeOK /\ LogInv /\ LeftListed)
      BY <2>2, AlwaysLeftListed
    <3> QED
      BY <3>1, <3>2, PTL
  <2> QED
    BY <2>1, <2>2
<1> HIDE DEF Kind
<1>3. Spec => [][Kind]_vars
  BY <1>1, <1>2, PTL DEF Spec
<1> QED
  BY <1>3 DEF OnlyCrashesOrphanFiles, Kind
=============================================================================
