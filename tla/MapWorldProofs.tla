--------------------------- MODULE MapWorldProofs ---------------------------
(***************************************************************************)
(* What the life of the maps looks like to the players, for every set of   *)
(* maps, players and items: the maps of a reset group reset together, the  *)
(* whole implements the abstract world of MapStore, and a unique item is   *)
(* in one place.                                                           *)
(***************************************************************************)
EXTENDS MapFilesProofs, FiniteSetTheorems

-----------------------------------------------------------------------------
(***************************************************************************)
(* Reset groups.  Without recycling and without DM commands, a structure   *)
(* that is linked carries the reset group of its original file: neither a  *)
(* swap nor a reload loses it.  (temp.maps does not carry the group, and   *)
(* command_reset takes a map out of it.)                                   *)
(***************************************************************************)

InGroup(m, s) == s.in_memory # "unlinked" => s.reset_group = Group[m]

GroupInv == \A m \in Maps : InGroup(m, maps[m])

LEMMA ReadyInGroup ==
  ASSUME NEW m \in Maps, NEW s \in MapStruct(m), NEW d \in MapFiles(m), InGroup(m, s)
  PROVE  InGroup(m, ready_map_name(m, s, d))
<1>1. FreshMap(m, d).reset_group = Group[m]
  BY DEF FreshMap
<1>2. HomeMap(m, d).reset_group = Group[m]
  BY DEF HomeMap, FreshMap
<1>3. HasTmpFile(s, d) => TmpMap(s, d).reset_group = Group[m]
  <2> SUFFICES ASSUME HasTmpFile(s, d) PROVE TmpMap(s, d).reset_group = Group[m]
    OBVIOUS
  <2>1. d.tmp.reset_group \in {Group[m], NoGroup} /\ s.reset_group = Group[m]
    BY FileFields DEF HasTmpFile, TmpFiles, InGroup
  <2>2. TmpMap(s, d).reset_group = IF d.tmp.reset_group = NoGroup THEN s.reset_group
                                   ELSE d.tmp.reset_group
    BY DEF TmpMap, MapStruct
  <2> QED
    BY <2>1, <2>2
<1>4. [s EXCEPT !.timeout = MinTimeout].reset_group = s.reset_group
  BY DEF MapStruct
<1> QED
  BY <1>1, <1>2, <1>3, <1>4 DEF ready_map_name, InGroup

LEMMA SwapInGroup ==
  ASSUME NEW m \in Maps, NEW s \in MapStruct(m), NEW occupied \in BOOLEAN,
         NEW err \in SaveOutcomes, InGroup(m, s)
  PROVE  InGroup(m, swap_map(m, s, occupied, err))
<1> SUFFICES ASSUME NEW r, r = swap_map(m, s, occupied, err) PROVE InGroup(m, r)
  OBVIOUS
<1>1. CASE ~SwapSaves(m, s, occupied)
  <2>1. \/ r = s
        \/ s.in_memory = "IN_MEMORY" /\ r = [s EXCEPT !.timeout = 0]
        \/ r = Unlinked
    BY <1>1, SwapFields
  <2>2. /\ Unlinked.in_memory = "unlinked"
        /\ [s EXCEPT !.timeout = 0].reset_group = s.reset_group
    BY DEF Unlinked, MapStruct
  <2> QED
    BY <2>1, <2>2 DEF InGroup
<1>2. CASE SwapSaves(m, s, occupied)
  <2>1. r.reset_group = s.reset_group
    BY <1>2, SwapFields
  <2>2. s.in_memory = "IN_MEMORY"
    BY <1>2 DEF SwapSaves
  <2> QED
    BY <2>1, <2>2 DEF InGroup
<1> QED
  BY <1>1, <1>2

LEMMA FlushInGroup ==
  ASSUME NEW ms, NEW m \in Maps, ms[m] \in MapStruct(m), NEW occ, InGroup(m, ms[m])
  PROVE  InGroup(m, FlushStruct(ms, m, occ))
<1>1. /\ [ms[m] EXCEPT !.timeout = MinTimeout].reset_group = ms[m].reset_group
      /\ [ms[m] EXCEPT !.timeout = MinTimeout].in_memory = ms[m].in_memory
  BY DEF MapStruct
<1>2. Unlinked.in_memory = "unlinked"
  BY DEF Unlinked
<1>3. \/ FlushStruct(ms, m, occ) = Unlinked
      \/ FlushStruct(ms, m, occ) = ms[m]
      \/ FlushStruct(ms, m, occ) = [ms[m] EXCEPT !.timeout = MinTimeout]
  BY DEF FlushStruct
<1> QED
  BY <1>1, <1>2, <1>3 DEF InGroup

\* A structure that keeps its place and its group.
LEMMA GroupSame ==
  ASSUME NEW m, NEW s, NEW r, InGroup(m, s),
         r.in_memory = s.in_memory, r.reset_group = s.reset_group
  PROVE  InGroup(m, r)
BY DEF InGroup

LEMMA TimeoutFields ==
  ASSUME NEW m \in Maps, NEW s \in MapStruct(m), NEW n
  PROVE  LET r == [s EXCEPT !.timeout = n]
         IN  /\ r.in_memory = s.in_memory /\ r.tmpname = s.tmpname
             /\ r.reset_group = s.reset_group /\ r.reg = s.reg /\ r.uniq = s.uniq
BY DEF MapStruct

LEMMA CountDownFields ==
  ASSUME NEW m \in Maps, NEW s \in MapStruct(m)
  PROVE  LET r == CountDown(s)
         IN  /\ r.in_memory = s.in_memory /\ r.tmpname = s.tmpname
             /\ r.reset_group = s.reset_group /\ r.reg = s.reg /\ r.uniq = s.uniq
BY TimeoutFields DEF CountDown

\* Nobody is a DM: nothing is reset or swapped by command.
LEMMA NoCommands ==
  ASSUME DMs = {}
  PROVE  /\ \A m \in Maps : ~command_swap(m)
         /\ ~\E p \in DMs, m \in Maps, full \in BOOLEAN, err \in Outcomes(SaveErrors),
               logOK \in LogOutcomes : command_reset(p, m, full, err, logOK)
BY DEF command_swap

\* The structures after Enter, up to the timeouts of the two maps.
LEMMA EnterFields ==
  ASSUME TypeOK, NEW p \in Players, NEW m \in Maps, Enter(p, m), NEW n \in Maps
  PROVE  LET s == IF n = m THEN ready_map_name(m, maps[m], disk[m]) ELSE maps[n]
         IN  /\ s \in MapStruct(n)
             /\ maps'[n] \in MapStruct(n)
             /\ maps'[n].in_memory = s.in_memory /\ maps'[n].tmpname = s.tmpname
             /\ maps'[n].reset_group = s.reset_group
             /\ maps'[n].reg = s.reg /\ maps'[n].uniq = s.uniq
<1> DEFINE ms == [maps EXCEPT ![m] = ready_map_name(m, @, disk[m])]
<1>1. ms[n] = IF n = m THEN ready_map_name(m, maps[m], disk[m]) ELSE maps[n]
  BY DEF TypeOK
<1>2. ms[n] \in MapStruct(n)
  BY ReadyType DEF TypeOK
<1>3. maps' = player_map_change_common(ms, p, loc[p], m)
  BY DEF Enter
<1>4. maps'[n] \in MapStruct(n)
  BY EnterType DEF TypeOK
<1> HIDE DEF ms
<1>5. \/ maps'[n] = ms[n]
      \/ maps'[n] = [ms[n] EXCEPT !.timeout = 0]
      \/ maps'[n] = [ms[n] EXCEPT !.timeout = MinTimeout]
  BY <1>3 DEF player_map_change_common
<1>6. ASSUME NEW k, maps'[n] = [ms[n] EXCEPT !.timeout = k]
      PROVE  /\ maps'[n].in_memory = ms[n].in_memory /\ maps'[n].tmpname = ms[n].tmpname
             /\ maps'[n].reset_group = ms[n].reset_group
             /\ maps'[n].reg = ms[n].reg /\ maps'[n].uniq = ms[n].uniq
  BY <1>2, <1>6, TimeoutFields
<1>7. /\ maps'[n].in_memory = ms[n].in_memory /\ maps'[n].tmpname = ms[n].tmpname
      /\ maps'[n].reset_group = ms[n].reset_group
      /\ maps'[n].reg = ms[n].reg /\ maps'[n].uniq = ms[n].uniq
  BY <1>5, <1>6
<1> QED
  BY <1>1, <1>2, <1>4, <1>7

\* What check_active_maps does to one map, without recycling: it counts down or it
\* is the one that is swapped.
LEMMA CheckActiveOne ==
  ASSUME ~RecycleTmpMaps, TypeOK, check_active_maps, NEW n \in Maps
  PROVE  \/ maps'[n] = CountDown(maps[n]) /\ disk'[n] = disk[n]
         \/ \E err \in Outcomes(SaveErrors), occupied \in BOOLEAN :
               /\ maps'[n] = swap_map(n, maps[n], occupied, err)
               /\ disk'[n] = SwapFiles(n, maps[n], disk[n], occupied, err)
<1>1. CASE maps' = [m \in Maps |-> CountDown(maps[m])] /\ disk' = disk
  BY <1>1
<1>2. CASE \E m \in Due, err \in Outcomes(SaveErrors), logOK \in LogOutcomes :
             SwapDue(m, err, logOK)
  <2> PICK m \in Due, err \in Outcomes(SaveErrors), logOK \in LogOutcomes :
             /\ maps' = [k \in Maps |->
                           IF k = m THEN swap_map(m, maps[m], m \in Occupied, err)
                           ELSE CountDown(maps[k])]
             /\ disk' = SwapDisk(m, m \in Occupied, err, logOK)
    BY <1>2 DEF SwapDue
  <2>1. m \in Maps /\ (m \in Occupied) \in BOOLEAN
    BY DEF Due
  <2>2. disk' = [disk EXCEPT ![m] = SwapFiles(m, maps[m], disk[m], m \in Occupied, err)]
    BY DEF SwapDisk
  <2>3. CASE n = m
    <3>1. /\ maps'[n] = swap_map(n, maps[n], n \in Occupied, err)
          /\ disk'[n] = SwapFiles(n, maps[n], disk[n], n \in Occupied, err)
      BY <2>2, <2>3 DEF TypeOK
    <3> QED
      BY <2>1, <2>3, <3>1
  <2>4. CASE n # m
    BY <2>2, <2>4 DEF TypeOK
  <2> QED
    BY <2>3, <2>4
<1> QED
  BY <1>1, <1>2 DEF check_active_maps, SwapDue

LEMMA StepGroup ==
  ASSUME ~RecycleTmpMaps, DMs = {}, TypeOK, BackedInv, GroupInv, [Next]_vars
  PROVE  GroupInv'
<1> SUFFICES ASSUME NEW n \in Maps PROVE InGroup(n, maps'[n])
  BY DEF GroupInv
<1>0. maps[n] \in MapStruct(n) /\ disk[n] \in MapFiles(n) /\ InGroup(n, maps[n])
  BY DEF TypeOK, GroupInv
<1>1. ASSUME maps'[n].in_memory = maps[n].in_memory,
             maps'[n].reset_group = maps[n].reset_group
      PROVE  InGroup(n, maps'[n])
  BY <1>0, <1>1, GroupSame
<1>2. ASSUME NEW p \in Players, NEW m \in Maps, Enter(p, m) PROVE InGroup(n, maps'[n])
  BY <1>0, <1>2, EnterFields, ReadyInGroup, GroupSame
<1>3. ASSUME NEW p \in Players, Leave(p) \/ SavePlayer(p) PROVE InGroup(n, maps'[n])
  BY <1>0, <1>3 DEF Leave, SavePlayer
<1>4. ASSUME NEW p \in Players, NEW i \in Items, PickUp(p, i) \/ Drop(p, i)
      PROVE  InGroup(n, maps'[n])
  <2>1. loc[p] \in Maps /\ maps[loc[p]] \in MapStruct(loc[p])
    BY <1>4 DEF PickUp, Drop, TypeOK
  <2> QED
    BY <1>1, <1>4, <2>1 DEF PickUp, Drop, TypeOK, MapStruct
<1>5. ASSUME NEW m \in Maps, Play(m) PROVE InGroup(n, maps'[n])
  BY <1>1, <1>5 DEF Play, TypeOK, MapStruct
<1>6. ASSUME NEW m \in Maps, TouchMap(m) PROVE InGroup(n, maps'[n])
  BY <1>0, <1>6, ReadyInGroup DEF TouchMap, TypeOK
<1>7. CASE SecondPasses
  BY <1>1, <1>7 DEF SecondPasses, TypeOK, MapStruct
<1>8. CASE check_active_maps
  BY <1>0, <1>1, <1>8, CheckActiveOne, CountDownFields, SwapInGroup, OutcomesType
<1>9. CASE flush_old_maps
  BY <1>0, <1>9, FlushInGroup DEF flush_old_maps
<1>10. CASE Shutdown \/ Crash \/ \E m \in Maps : CrashInSwap(m)
  <2>1. maps'[n] = Unlinked
    BY <1>10 DEF Shutdown, Crash, CrashInSwap, ProcessDies
  <2> QED
    BY <2>1 DEF InGroup, Unlinked
<1>11. CASE Boot
  <2>1. maps'[n] = Unlinked
    BY <1>11 DEF Boot, read_map_log, BackedInv, Kept
  <2> QED
    BY <2>1 DEF InGroup, Unlinked
<1>12. CASE UNCHANGED vars
  BY <1>0, <1>12 DEF vars
<1> QED
  BY <1>2, <1>3, <1>4, <1>5, <1>6, <1>7, <1>8, <1>9, <1>10, <1>11, <1>12, NoCommands DEF Next

LEMMA AlwaysGrouped ==
  ASSUME ~RecycleTmpMaps, DMs = {}
  PROVE  Spec => [](TypeOK /\ OwnedInv /\ BackedInv /\ GroupInv)
<1>1. Init => GroupInv
  BY DEF Init, GroupInv, InGroup, Unlinked
<1>2. TypeOK /\ BackedInv /\ GroupInv /\ [Next]_vars => GroupInv'
  BY StepGroup
<1> QED
  BY <1>1, <1>2, AlwaysBacked, PTL DEF Spec

-----------------------------------------------------------------------------
(***************************************************************************)
(* What a handler does to what a player would find on one map.             *)
(***************************************************************************)

\* The same files and a structure that differs at most in its times and its group.
LEMMA SeenSame ==
  ASSUME NEW m \in Maps, NEW s \in MapStruct(m), NEW r \in MapStruct(m), NEW d,
         r.in_memory = s.in_memory, r.tmpname = s.tmpname, r.reg = s.reg, r.uniq = s.uniq
  PROVE  SeenReg(m, r, d) = SeenReg(m, s, d) /\ SeenUniq(m, r, d) = SeenUniq(m, s, d)
<1>1. HasTmpFile(r, d) <=> HasTmpFile(s, d)
  BY DEF HasTmpFile
<1>2. CASE s.in_memory = "IN_MEMORY"
  BY <1>2, SeenLoaded
<1>3. CASE s.in_memory # "IN_MEMORY" /\ m \in PlayerMaps
  <2>1. r.in_memory # "IN_MEMORY" /\ s.in_memory # "IN_MEMORY"
    BY <1>3
  <2> QED
    BY <1>3, <2>1, SeenAtHome
<1>4. CASE s.in_memory # "IN_MEMORY" /\ m \notin PlayerMaps /\ ~HasTmpFile(s, d)
  <2>1. r.in_memory # "IN_MEMORY" /\ s.in_memory # "IN_MEMORY"
    BY <1>4
  <2> QED
    BY <1>1, <1>4, <2>1, SeenFresh
<1>5. CASE m \notin PlayerMaps /\ HasTmpFile(s, d)
  <2>1. /\ SeenReg(m, s, d) = d.tmp.reg
        /\ SeenUniq(m, s, d) = IF d.v00 = NoFile THEN {} ELSE d.v00
    BY <1>5, SeenInTmp
  <2>2. HasTmpFile(r, d)
    BY <1>1, <1>5
  <2>3. /\ SeenReg(m, r, d) = d.tmp.reg
        /\ SeenUniq(m, r, d) = IF d.v00 = NoFile THEN {} ELSE d.v00
    BY <1>5, <2>2, SeenInTmp
  <2> QED
    BY <2>1, <2>3
<1> QED
  BY <1>2, <1>3, <1>4, <1>5

\* ready_map_name makes a map what it was seen to be; what the files are then
\* no longer matters.
LEMMA SeenReady ==
  ASSUME NEW m \in Maps, NEW s \in MapStruct(m), NEW d \in MapFiles(m),
         NEW r \in MapStruct(m), NEW e,
         r.in_memory = ready_map_name(m, s, d).in_memory,
         r.reg = ready_map_name(m, s, d).reg, r.uniq = ready_map_name(m, s, d).uniq
  PROVE  SeenReg(m, r, e) = SeenReg(m, s, d) /\ SeenUniq(m, r, e) = SeenUniq(m, s, d)
<1>1. r.in_memory = "IN_MEMORY"
  BY ReadyType
<1>2. SeenReg(m, r, e) = r.reg /\ SeenUniq(m, r, e) = r.uniq
  BY <1>1, SeenLoaded
<1> QED
  BY <1>2 DEF SeenReg, SeenUniq

\* A map of a reset group, or of no fixed reset time, is not reset by a swap.
LEMMA NoResetAtOnce ==
  ASSUME NEW m \in Maps, NEW s \in MapStruct(m), s.in_memory = "IN_MEMORY", InGroup(m, s),
         m \in FixedReset => Group[m] # NoGroup
  PROVE  ~ResetsAtOnce(m, s)
<1> SUFFICES ASSUME NEW t, t = set_map_reset_time(m, s) PROVE ~(t.ttr = 0 /\ t.reset_group = NoGroup)
  BY DEF ResetsAtOnce
<1>1. t.reset_group = s.reset_group /\ (m \notin FixedReset => t.ttr = ResetTimeout)
  BY DEF set_map_reset_time, MapStruct
<1>2. m \in FixedReset => s.reset_group # NoGroup
  BY DEF InGroup
<1> QED
  BY <1>1, <1>2, TimesAssumption

\* swap_map changes nothing that is seen, unless a save fails once the objects of
\* the map are freed: then the map is seen empty.
LEMMA SeenSwap ==
  ASSUME NEW m \in Maps, NEW s \in MapStruct(m), NEW d \in MapFiles(m),
         NEW occupied \in BOOLEAN, NEW err \in SaveOutcomes, InGroup(m, s),
         m \in FixedReset => Group[m] # NoGroup
  PROVE  LET r == swap_map(m, s, occupied, err)
             e == SwapFiles(m, s, d, occupied, err)
         IN  /\ SeenReg(m, r, e) \in {SeenReg(m, s, d), "empty"}
             /\ SaveOK(m, s, err) \/ OpenFails(m, err) =>
                  SeenReg(m, r, e) = SeenReg(m, s, d) /\ SeenUniq(m, r, e) = SeenUniq(m, s, d)
<1> SUFFICES ASSUME NEW r, r = swap_map(m, s, occupied, err),
                    NEW e, e = SwapFiles(m, s, d, occupied, err)
             PROVE  /\ SeenReg(m, r, e) \in {SeenReg(m, s, d), "empty"}
                    /\ SaveOK(m, s, err) \/ OpenFails(m, err) =>
                         /\ SeenReg(m, r, e) = SeenReg(m, s, d)
                         /\ SeenUniq(m, r, e) = SeenUniq(m, s, d)
  OBVIOUS
<1>0. r \in MapStruct(m)
  BY SwapType
<1>1. CASE ~SwapSaves(m, s, occupied)
  <2>1. e = d
    BY <1>1 DEF SwapFiles
  <2>2. r = s \/ r = [s EXCEPT !.timeout = 0]
    BY <1>1, SwapFields, NoResetAtOnce
  <2>3. /\ r.in_memory = s.in_memory /\ r.tmpname = s.tmpname
        /\ r.reg = s.reg /\ r.uniq = s.uniq
    BY <2>2 DEF MapStruct
  <2> QED
    BY <1>0, <2>1, <2>3, SeenSame
<1>2. CASE SwapSaves(m, s, occupied)
  <2>1. /\ s.in_memory = "IN_MEMORY"
        /\ e = SavedFiles(m, s, d, err)
    BY <1>2 DEF SwapSaves, SwapFiles
  <2>2. SeenReg(m, s, d) = s.reg /\ SeenUniq(m, s, d) = s.uniq
    BY <2>1, SeenLoaded
  <2>3. /\ r.in_memory = IF SaveOK(m, s, err) THEN "SWAPPED" ELSE "IN_MEMORY"
        /\ r.tmpname = (m \notin PlayerMaps)
        /\ r.reg \in {s.reg, "empty"}
        /\ OpenFails(m, err) => r.reg = s.reg /\ r.uniq = s.uniq
    BY <1>2, SwapFields
  <2>4. CASE ~SaveOK(m, s, err)
    <3>1. SeenReg(m, r, e) = r.reg /\ SeenUniq(m, r, e) = r.uniq
      BY <1>0, <2>3, <2>4, SeenLoaded
    <3> QED
      BY <2>2, <2>3, <2>4, <3>1
  <2>5. CASE SaveOK(m, s, err) /\ m \in PlayerMaps
    <3>1. e.home = [reg |-> s.reg, uniq |-> s.uniq]
      BY <2>1, <2>5, SavedFields
    <3>2. [reg |-> s.reg, uniq |-> s.uniq] \in HomeFiles
      BY DEF HomeFiles, MapStruct
    <3>3. e.home # NoFile /\ e.home.reg = s.reg /\ e.home.uniq = s.uniq
      BY <3>1, <3>2, NoFileAssumption
    <3>4. r.in_memory # "IN_MEMORY"
      BY <2>3, <2>5
    <3>5. SeenReg(m, r, e) = s.reg /\ SeenUniq(m, r, e) = s.uniq
      BY <2>5, <3>3, <3>4, SeenAtHome
    <3> QED
      BY <2>2, <3>5
  <2>6. CASE SaveOK(m, s, err) /\ m \notin PlayerMaps
    <3>1. /\ e.tmp = [reg |-> s.reg, reset_group |-> s.reset_group]
          /\ e.v00 = IF HasUniqueData(m, s) THEN s.uniq ELSE NoFile
      <4>1. SavedFiles(m, s, d, err).tmp = [reg |-> s.reg, reset_group |-> s.reset_group]
        BY <2>6, SavedFields
      <4>2. SavedFiles(m, s, d, err).v00 = IF HasUniqueData(m, s) THEN s.uniq ELSE NoFile
        BY <2>6, SavedFields
      <4> QED
        BY <2>1, <4>1, <4>2
    <3>2. [reg |-> s.reg, reset_group |-> s.reset_group] \in TmpFiles(m)
      BY DEF TmpFiles, MapStruct
    <3>3. e.tmp # NoFile /\ e.tmp.reg = s.reg
      BY <3>1, <3>2, NoFileAssumption
    <3>4. HasTmpFile(r, e)
      BY <2>3, <2>6, <3>3 DEF HasTmpFile
    <3>5. /\ SeenReg(m, r, e) = s.reg
          /\ SeenUniq(m, r, e) = IF e.v00 = NoFile THEN {} ELSE e.v00
      BY <1>0, <2>6, <3>3, <3>4, SeenInTmp
    <3>6. /\ s.uniq \in SUBSET Items
          /\ s.uniq # NoFile
          /\ ~HasUniqueData(m, s) => s.uniq = {}
      BY NoFileAssumption DEF HasUniqueData, MapStruct
    <3>7. SeenUniq(m, r, e) = s.uniq
      BY <3>1, <3>5, <3>6
    <3> QED
      BY <2>2, <3>5, <3>7
  <2> QED
    BY <2>4, <2>5, <2>6
<1> QED
  BY <1>1, <1>2

\* flush_old_maps shows the original of a map that can reset, with the unique items
\* of its .v00 file, and changes nothing else that is seen.
LEMMA SeenFlush ==
  ASSUME NEW ms, NEW m \in Maps, ms[m] \in MapStruct(m), NEW d \in MapFiles(m), NEW occ,
         Plain(m, ms[m], d), Backed(m, ms[m], d)
  PROVE  LET r == FlushStruct(ms, m, occ)
             e == FlushFiles(ms, m, d)
         IN  IF m \notin PlayerMaps /\ map_can_reset(ms, m)
             THEN /\ r = Unlinked /\ e.tmp = NoFile
                  /\ SeenReg(m, r, e) = "original"
                  /\ SeenUniq(m, ms[m], d) = IF d.v00 = NoFile THEN {} ELSE d.v00
                  /\ SeenUniq(m, r, e) = IF d.v00 = NoFile THEN TemplateItems[m] ELSE d.v00
             ELSE /\ SeenReg(m, r, e) = SeenReg(m, ms[m], d)
                  /\ SeenUniq(m, r, e) = SeenUniq(m, ms[m], d)
<1> SUFFICES ASSUME NEW s, s = ms[m],
                    NEW r, r = FlushStruct(ms, m, occ), NEW e, e = FlushFiles(ms, m, d)
             PROVE  IF m \notin PlayerMaps /\ map_can_reset(ms, m)
                    THEN /\ r = Unlinked /\ e.tmp = NoFile
                         /\ SeenReg(m, r, e) = "original"
                         /\ SeenUniq(m, s, d) = IF d.v00 = NoFile THEN {} ELSE d.v00
                         /\ SeenUniq(m, r, e) = IF d.v00 = NoFile THEN TemplateItems[m] ELSE d.v00
                    ELSE /\ SeenReg(m, r, e) = SeenReg(m, s, d)
                         /\ SeenUniq(m, r, e) = SeenUniq(m, s, d)
  OBVIOUS
<1>0. s \in MapStruct(m) /\ r \in MapStruct(m)
  BY FlushType
<1>1. CASE m \notin PlayerMaps /\ map_can_reset(ms, m)
  <2>1. r = Unlinked /\ e = clean_tmp_map(d) /\ s.in_memory = "SWAPPED"
    BY <1>1 DEF FlushStruct, FlushFiles, map_can_reset, map_can_reset_no_group
  <2>2. e.tmp = NoFile /\ e.v00 = d.v00
    BY <2>1, CleanKeeps
  <2>3. HasTmpFile(s, d) /\ r.in_memory # "IN_MEMORY" /\ ~HasTmpFile(r, e)
    BY <1>1, <2>1, <2>2 DEF Backed, HasTmpFile, Unlinked
  <2>4. SeenUniq(m, s, d) = IF d.v00 = NoFile THEN {} ELSE d.v00
    BY <1>0, <1>1, <2>3, SeenInTmp
  <2>5. /\ SeenReg(m, r, e) = "original"
        /\ SeenUniq(m, r, e) = IF e.v00 = NoFile THEN TemplateItems[m] ELSE e.v00
    BY <1>1, <2>3, SeenFresh
  <2> QED
    BY <1>1, <2>1, <2>2, <2>4, <2>5
<1>2. CASE m \in PlayerMaps
  <2>1. e = d
    BY <1>2 DEF FlushFiles
  <2>2. CASE s.in_memory = "SWAPPED"
    <3>1. r.in_memory # "IN_MEMORY" /\ s.in_memory # "IN_MEMORY"
      BY <1>2, <2>2 DEF FlushStruct, Unlinked
    <3> QED
      BY <1>2, <2>1, <3>1, SeenAtHome
  <2>3. CASE s.in_memory # "SWAPPED"
    <3>1. r = s \/ r = [s EXCEPT !.timeout = MinTimeout]
      BY <2>3 DEF FlushStruct, map_can_reset, map_can_reset_no_group
    <3>2. /\ r.in_memory = s.in_memory /\ r.tmpname = s.tmpname
          /\ r.reg = s.reg /\ r.uniq = s.uniq
      BY <1>0, <3>1 DEF MapStruct
    <3> QED
      BY <1>0, <1>2, <2>1, <3>2, SeenSame
  <2> QED
    BY <2>2, <2>3
<1>3. CASE m \notin PlayerMaps /\ ~map_can_reset(ms, m)
  <2>1. e = d
    BY <1>3 DEF FlushFiles
  <2>2. r = s \/ r = [s EXCEPT !.timeout = MinTimeout]
    BY <1>3 DEF FlushStruct
  <2>3. /\ r.in_memory = s.in_memory /\ r.tmpname = s.tmpname
        /\ r.reg = s.reg /\ r.uniq = s.uniq
    BY <1>0, <2>2 DEF MapStruct
  <2> QED
    BY <1>0, <1>3, <2>1, <2>3, SeenSame
<1> QED
  BY <1>1, <1>2, <1>3

-----------------------------------------------------------------------------
(***************************************************************************)
(* What each handler of the running server does to what is seen.           *)
(***************************************************************************)

ShownReg(m)  == SeenReg(m, maps[m], disk[m])
ShownUniq(m) == SeenUniq(m, maps[m], disk[m])

\* Map m looks to the players as it did.
Unseen(m) == ShownReg(m)' = ShownReg(m) /\ ShownUniq(m)' = ShownUniq(m)

LEMMA ViewShown ==
  ASSUME NEW m \in Maps
  PROVE  /\ server = "running" => View(m).reg = ShownReg(m) /\ View(m).uniq = ShownUniq(m)
         /\ server' = "running" => View(m).reg' = ShownReg(m)' /\ View(m).uniq' = ShownUniq(m)'
BY DEF View, ShownReg, ShownUniq, SeenReg, SeenUniq

\* A handler that leaves the files of m alone and of its structure changes at most
\* times and group.
LEMMA UnseenSame ==
  ASSUME TypeOK, TypeOK', NEW m \in Maps, disk'[m] = disk[m],
         maps'[m].in_memory = maps[m].in_memory, maps'[m].tmpname = maps[m].tmpname,
         maps'[m].reg = maps[m].reg, maps'[m].uniq = maps[m].uniq
  PROVE  Unseen(m)
<1>1. maps[m] \in MapStruct(m) /\ maps'[m] \in MapStruct(m)
  BY DEF TypeOK
<1>2. /\ SeenReg(m, maps'[m], disk[m]) = SeenReg(m, maps[m], disk[m])
      /\ SeenUniq(m, maps'[m], disk[m]) = SeenUniq(m, maps[m], disk[m])
  BY <1>1, SeenSame
<1> QED
  BY <1>2 DEF Unseen, ShownReg, ShownUniq

LEMMA EnterUnseen ==
  ASSUME TypeOK, TypeOK', NEW p \in Players, NEW m \in Maps, Enter(p, m), NEW n \in Maps
  PROVE  Unseen(n)
<1>1. CASE n = m
  <2>1. maps[n] \in MapStruct(n) /\ disk[n] \in MapFiles(n) /\ maps'[n] \in MapStruct(n)
    BY DEF TypeOK
  <2>2. /\ maps'[n].in_memory = ready_map_name(n, maps[n], disk[n]).in_memory
        /\ maps'[n].reg = ready_map_name(n, maps[n], disk[n]).reg
        /\ maps'[n].uniq = ready_map_name(n, maps[n], disk[n]).uniq
    BY <1>1, EnterFields
  <2> DEFINE r == maps'[n]
             e == disk'[n]
  <2>3. /\ SeenReg(n, r, e) = SeenReg(n, maps[n], disk[n])
        /\ SeenUniq(n, r, e) = SeenUniq(n, maps[n], disk[n])
    <3> HIDE DEF r, e
    <3>1. /\ r \in MapStruct(n)
          /\ r.in_memory = ready_map_name(n, maps[n], disk[n]).in_memory
          /\ r.reg = ready_map_name(n, maps[n], disk[n]).reg
          /\ r.uniq = ready_map_name(n, maps[n], disk[n]).uniq
      BY <2>1, <2>2 DEF r
    <3> QED
      BY <2>1, <3>1, SeenReady
  <2> QED
    BY <2>3 DEF Unseen, ShownReg, ShownUniq
<1>2. CASE n # m
  <2>1. disk'[n] = disk[n]
    BY <1>2 DEF Enter, TypeOK
  <2>2. /\ maps'[n].in_memory = maps[n].in_memory /\ maps'[n].tmpname = maps[n].tmpname
        /\ maps'[n].reg = maps[n].reg /\ maps'[n].uniq = maps[n].uniq
    BY <1>2, EnterFields
  <2> QED
    BY <2>1, <2>2, UnseenSame
<1> QED
  BY <1>1, <1>2

LEMMA TouchUnseen ==
  ASSUME TypeOK, TypeOK', NEW m \in Maps, TouchMap(m), NEW n \in Maps
  PROVE  Unseen(n)
<1>1. CASE n = m
  <2> DEFINE r == maps'[n]
             e == disk'[n]
  <2>1. /\ maps[n] \in MapStruct(n) /\ disk[n] \in MapFiles(n) /\ r \in MapStruct(n)
        /\ r = ready_map_name(n, maps[n], disk[n])
    BY <1>1 DEF TypeOK, TouchMap
  <2>2. /\ SeenReg(n, r, e) = SeenReg(n, maps[n], disk[n])
        /\ SeenUniq(n, r, e) = SeenUniq(n, maps[n], disk[n])
    <3> HIDE DEF r, e
    <3> QED
      BY <2>1, SeenReady
  <2> QED
    BY <2>2 DEF Unseen, ShownReg, ShownUniq
<1>2. CASE n # m
  BY <1>2, UnseenSame DEF TouchMap, TypeOK
<1> QED
  BY <1>1, <1>2

LEMMA SecondPassesUnseen ==
  ASSUME TypeOK, TypeOK', SecondPasses, NEW n \in Maps
  PROVE  Unseen(n)
<1>1. disk'[n] = disk[n] /\ maps[n] \in MapStruct(n)
  BY DEF SecondPasses, TypeOK
<1>2. maps'[n] = [maps[n] EXCEPT !.ttr = IF maps[n].ttr > 0 THEN maps[n].ttr - 1 ELSE 0]
  BY DEF SecondPasses
<1>3. /\ maps'[n].in_memory = maps[n].in_memory /\ maps'[n].tmpname = maps[n].tmpname
      /\ maps'[n].reg = maps[n].reg /\ maps'[n].uniq = maps[n].uniq
  BY <1>1, <1>2 DEF MapStruct
<1> QED
  BY <1>1, <1>3, UnseenSame

LEMMA CheckActiveSeen ==
  ASSUME ~RecycleTmpMaps, TypeOK, TypeOK', GroupInv, check_active_maps, NEW n \in Maps,
         n \in FixedReset => Group[n] # NoGroup
  PROVE  /\ ShownReg(n)' \in {ShownReg(n), "empty"}
         /\ SaveErrors \subseteq {"OK", "RCREATION", "UCREATION"} => Unseen(n)
<1>1. maps[n] \in MapStruct(n) /\ disk[n] \in MapFiles(n) /\ InGroup(n, maps[n])
  BY DEF TypeOK, GroupInv
<1>2. CASE maps'[n] = CountDown(maps[n]) /\ disk'[n] = disk[n]
  <2>1. /\ maps'[n].in_memory = maps[n].in_memory /\ maps'[n].tmpname = maps[n].tmpname
        /\ maps'[n].reg = maps[n].reg /\ maps'[n].uniq = maps[n].uniq
    BY <1>1, <1>2, CountDownFields
  <2>2. Unseen(n)
    BY <1>2, <2>1, UnseenSame
  <2> QED
    BY <2>2 DEF Unseen
<1>3. ASSUME NEW err \in Outcomes(SaveErrors), NEW occupied \in BOOLEAN,
             maps'[n] = swap_map(n, maps[n], occupied, err),
             disk'[n] = SwapFiles(n, maps[n], disk[n], occupied, err)
      PROVE  /\ ShownReg(n)' \in {ShownReg(n), "empty"}
             /\ SaveErrors \subseteq {"OK", "RCREATION", "UCREATION"} => Unseen(n)
  <2>1. err \in SaveOutcomes
    BY OutcomesType
  <2>2. /\ SeenReg(n, maps'[n], disk'[n]) \in {SeenReg(n, maps[n], disk[n]), "empty"}
        /\ SaveOK(n, maps[n], err) \/ OpenFails(n, err) =>
             /\ SeenReg(n, maps'[n], disk'[n]) = SeenReg(n, maps[n], disk[n])
             /\ SeenUniq(n, maps'[n], disk'[n]) = SeenUniq(n, maps[n], disk[n])
    BY <1>1, <1>3, <2>1, SeenSwap
  <2>3. SaveErrors \subseteq {"OK", "RCREATION", "UCREATION"} =>
            SaveOK(n, maps[n], err) \/ OpenFails(n, err)
    BY DEF Outcomes, SaveOK, OpenFails, UniqueFails
  <2> QED
    BY <2>2, <2>3 DEF Unseen, ShownReg, ShownUniq
<1> QED
  BY <1>2, <1>3, CheckActiveOne

LEMMA PlaySeen ==
  ASSUME TypeOK, TypeOK', NEW m \in Maps, Play(m), NEW n \in Maps
  PROVE  /\ n # m => Unseen(n)
         /\ n = m => ShownReg(n)' = "played" /\ ShownUniq(n)' = ShownUniq(n)
<1>1. CASE n # m
  BY <1>1, UnseenSame DEF Play, TypeOK
<1>2. CASE n = m
  <2>1. /\ maps[n] \in MapStruct(n) /\ maps'[n] \in MapStruct(n)
        /\ maps[n].in_memory = "IN_MEMORY"
        /\ maps'[n] = [maps[n] EXCEPT !.reg = "played"]
    BY <1>2 DEF Play, TypeOK
  <2>2. maps'[n].in_memory = "IN_MEMORY" /\ maps'[n].reg = "played" /\ maps'[n].uniq = maps[n].uniq
    BY <2>1 DEF MapStruct
  <2>3. SeenUniq(n, maps[n], disk[n]) = maps[n].uniq
    BY <2>1, SeenLoaded
  <2>4. SeenReg(n, maps'[n], disk'[n]) = "played" /\ SeenUniq(n, maps'[n], disk'[n]) = maps[n].uniq
    BY <2>1, <2>2, SeenLoaded
  <2> QED
    BY <1>2, <2>3, <2>4 DEF ShownReg, ShownUniq
<1> QED
  BY <1>1, <1>2

\* A unique item moves between p's pockets and the map p is on.
LEMMA ItemSeen ==
  ASSUME TypeOK, TypeOK', PlayersOnLoadedMaps, NEW p \in Players, NEW i \in Items,
         PickUp(p, i) \/ Drop(p, i), NEW n \in Maps
  PROVE  /\ ShownReg(n)' = ShownReg(n)
         /\ n # loc[p] => ShownUniq(n)' = ShownUniq(n)
         /\ n = loc[p] /\ PickUp(p, i) => i \in ShownUniq(n) /\ ShownUniq(n)' = ShownUniq(n) \ {i}
         /\ n = loc[p] /\ ~PickUp(p, i) => ShownUniq(n)' = ShownUniq(n) \cup {i}
<1>1. loc[p] \in Maps /\ maps[loc[p]].in_memory = "IN_MEMORY"
  BY DEF PickUp, Drop, TypeOK, PlayersOnLoadedMaps
<1>2. CASE n # loc[p]
  <2>1. Unseen(n)
    BY <1>1, <1>2, UnseenSame DEF PickUp, Drop, TypeOK
  <2> QED
    BY <1>2, <2>1 DEF Unseen
<1>3. CASE n = loc[p]
  <2>1. /\ maps[n] \in MapStruct(n) /\ maps'[n] \in MapStruct(n)
        /\ maps[n].in_memory = "IN_MEMORY"
    BY <1>1, <1>3 DEF TypeOK
  <2>2. /\ PickUp(p, i) => i \in maps[n].uniq /\ maps'[n] = [maps[n] EXCEPT !.uniq = maps[n].uniq \ {i}]
        /\ ~PickUp(p, i) => maps'[n] = [maps[n] EXCEPT !.uniq = maps[n].uniq \cup {i}]
    BY <1>1, <1>3 DEF PickUp, Drop, TypeOK
  <2>3. ASSUME NEW u, maps'[n] = [maps[n] EXCEPT !.uniq = u]
        PROVE  maps'[n].in_memory = "IN_MEMORY" /\ maps'[n].reg = maps[n].reg /\ maps'[n].uniq = u
    BY <2>1, <2>3 DEF MapStruct
  <2>4. SeenReg(n, maps[n], disk[n]) = maps[n].reg /\ SeenUniq(n, maps[n], disk[n]) = maps[n].uniq
    BY <2>1, SeenLoaded
  <2>5. maps'[n].in_memory = "IN_MEMORY" /\ maps'[n].reg = maps[n].reg
    BY <2>2, <2>3
  <2>6. SeenReg(n, maps'[n], disk'[n]) = maps'[n].reg /\ SeenUniq(n, maps'[n], disk'[n]) = maps'[n].uniq
    BY <2>1, <2>5, SeenLoaded
  <2>7. ShownReg(n)' = ShownReg(n)
    BY <2>4, <2>5, <2>6 DEF ShownReg
  <2>8. PickUp(p, i) => i \in ShownUniq(n) /\ ShownUniq(n)' = ShownUniq(n) \ {i}
    BY <2>2, <2>3, <2>4, <2>6 DEF ShownUniq
  <2>9. ~PickUp(p, i) => ShownUniq(n)' = ShownUniq(n) \cup {i}
    BY <2>2, <2>3, <2>4, <2>6 DEF ShownUniq
  <2> QED
    BY <1>3, <2>7, <2>8, <2>9
<1> QED
  BY <1>2, <1>3

LEMMA FlushSeen ==
  ASSUME TypeOK, OwnedInv, BackedInv, flush_old_maps, NEW n \in Maps
  PROVE  IF n \notin PlayerMaps /\ map_can_reset(maps, n)
         THEN /\ maps'[n] = Unlinked /\ disk'[n].tmp = NoFile
              /\ ShownReg(n)' = "original"
              /\ ShownUniq(n)  = IF disk[n].v00 = NoFile THEN {} ELSE disk[n].v00
              /\ ShownUniq(n)' = IF disk[n].v00 = NoFile THEN TemplateItems[n] ELSE disk[n].v00
         ELSE Unseen(n)
<1>1. /\ maps[n] \in MapStruct(n) /\ disk[n] \in MapFiles(n)
      /\ Plain(n, maps[n], disk[n]) /\ Backed(n, maps[n], disk[n])
  BY DEF TypeOK, OwnedInv, Owned, BackedInv, Kept
<1>2. /\ maps'[n] = FlushStruct(maps, n, Occupied)
      /\ disk'[n] = FlushFiles(maps, n, disk[n])
  BY DEF flush_old_maps
<1>3. IF n \notin PlayerMaps /\ map_can_reset(maps, n)
      THEN /\ maps'[n] = Unlinked /\ disk'[n].tmp = NoFile
           /\ SeenReg(n, maps'[n], disk'[n]) = "original"
           /\ SeenUniq(n, maps[n], disk[n]) = IF disk[n].v00 = NoFile THEN {} ELSE disk[n].v00
           /\ SeenUniq(n, maps'[n], disk'[n]) =
                 IF disk[n].v00 = NoFile THEN TemplateItems[n] ELSE disk[n].v00
      ELSE /\ SeenReg(n, maps'[n], disk'[n]) = SeenReg(n, maps[n], disk[n])
           /\ SeenUniq(n, maps'[n], disk'[n]) = SeenUniq(n, maps[n], disk[n])
  BY <1>1, <1>2, SeenFlush
<1> QED
  BY <1>3 DEF Unseen, ShownReg, ShownUniq

-----------------------------------------------------------------------------
(***************************************************************************)
(* Only flush_old_maps resets a map of a group, and it takes the group as  *)
(* a whole: map_can_reset asks the other members that are linked, and one  *)
(* that is not linked has no temporary file, so it is the original already.*)
(***************************************************************************)

\* Two members of a group, both swapped out or gone, are ready together.
LEMMA GroupReady ==
  ASSUME NEW m \in Maps, NEW n \in Maps, GroupInv, Group[m] # NoGroup, Group[n] = Group[m],
         map_can_reset(maps, m)
  PROVE  map_can_reset(maps, n) \/ maps[n].in_memory = "unlinked"
<1>1. /\ maps[m].in_memory # "unlinked" /\ map_can_reset_no_group(maps[m])
      /\ maps[m].reset_group = Group[m]
  BY DEF map_can_reset, map_can_reset_no_group, GroupInv, InGroup
<1>2. \A k \in Maps : maps[k].reset_group = Group[m] => map_can_reset_no_group(maps[k])
  BY <1>1 DEF map_can_reset
<1>3. CASE maps[n].in_memory # "unlinked"
  BY <1>2, <1>3 DEF map_can_reset, GroupInv, InGroup
<1> QED
  BY <1>3

LEMMA OnlyFlushResets ==
  ASSUME ~RecycleTmpMaps, DMs = {}, TypeOK, TypeOK', PlayersOnLoadedMaps, OwnedInv, BackedInv,
         GroupInv, [Next]_vars, server = "running", server' = "running",
         NEW m \in Maps, Group[m] # NoGroup,
         ShownReg(m) = "played", ShownReg(m)' = "original"
  PROVE  flush_old_maps /\ map_can_reset(maps, m)
<1>1. ~Unseen(m)
  BY DEF Unseen
<1>2. ~(\E p \in Players, k \in Maps : Enter(p, k)) /\ ~(\E k \in Maps : TouchMap(k))
  BY <1>1, EnterUnseen, TouchUnseen
<1>3. ~(\E p \in Players : Leave(p) \/ SavePlayer(p)) /\ ~(UNCHANGED vars)
  BY <1>1, UnseenSame DEF Leave, SavePlayer, vars
<1>4. ~(\E p \in Players, i \in Items : PickUp(p, i) \/ Drop(p, i))
  BY ItemSeen
<1>5. ~(\E k \in Maps : Play(k))
  BY <1>1, PlaySeen
<1>6. ~SecondPasses /\ ~check_active_maps
  BY <1>1, SecondPassesUnseen, CheckActiveSeen
<1>7. ~Shutdown /\ ~Crash /\ ~(\E k \in Maps : CrashInSwap(k)) /\ ~Boot
  BY DEF Shutdown, Crash, CrashInSwap, ProcessDies, Boot
<1>8. flush_old_maps
  BY <1>2, <1>3, <1>4, <1>5, <1>6, <1>7, NoCommands DEF Next
<1> QED
  BY <1>1, <1>8, FlushSeen

\* Without recycling and DM commands, and whatever saves fail and crashes happen,
\* the maps of a reset group reset together: when the running server resets one,
\* every other member is the original after the same handler.
THEOREM GroupsResetTogether ==
  ASSUME ~RecycleTmpMaps, DMs = {}
  PROVE  Spec => GroupResetsTogether
<1> DEFINE Together == \A m, n \in Maps :
              /\ server = "running" /\ server' = "running"
              /\ Group[m] # NoGroup /\ Group[n] = Group[m]
              /\ View(m).reg = "played" /\ View(m).reg' = "original"
              => View(n).reg' = "original"
<1>1. TypeOK /\ TypeOK' /\ PlayersOnLoadedMaps /\ OwnedInv /\ BackedInv /\ GroupInv
      /\ [Next]_vars => Together
  <2> SUFFICES ASSUME TypeOK, TypeOK', PlayersOnLoadedMaps, OwnedInv, BackedInv, GroupInv,
                      [Next]_vars, NEW m \in Maps, NEW n \in Maps,
                      server = "running", server' = "running",
                      Group[m] # NoGroup, Group[n] = Group[m],
                      View(m).reg = "played", View(m).reg' = "original"
               PROVE  View(n).reg' = "original"
    OBVIOUS
  <2>1. ShownReg(m) = "played" /\ ShownReg(m)' = "original"
    BY ViewShown
  <2>2. flush_old_maps /\ map_can_reset(maps, m)
    BY <2>1, OnlyFlushResets
  <2>3. n \notin PlayerMaps
    BY MapsAssumption
  <2>4. CASE map_can_reset(maps, n)
    <3>1. ShownReg(n)' = "original"
      BY <2>2, <2>3, <2>4, FlushSeen
    <3> QED
      BY <3>1, ViewShown
  <2>5. CASE maps[n].in_memory = "unlinked"
    <3>1. ~map_can_reset(maps, n)
      BY <2>5 DEF map_can_reset, map_can_reset_no_group
    <3>2. ShownReg(n)' = ShownReg(n)
      BY <2>2, <3>1, FlushSeen DEF Unseen
    <3>3. SeenReg(n, maps[n], disk[n]) = "original"
      BY <2>3, <2>5, SeenFresh DEF HasTmpFile
    <3> QED
      BY <3>2, <3>3, ViewShown DEF ShownReg
  <2> QED
    BY <2>2, <2>4, <2>5, GroupReady
<1>2. Together => [Together]_vars
  OBVIOUS
<1> HIDE DEF Together
<1>3. TypeOK /\ TypeOK' /\ PlayersOnLoadedMaps /\ OwnedInv /\ BackedInv /\ GroupInv
      /\ [Next]_vars => [Together]_vars
  BY <1>1, <1>2
<1>4. Spec => [][Together]_vars
  BY <1>3, AlwaysGrouped, PlayersStayOnLoadedMaps, PTL DEF Spec
<1> QED
  BY <1>4 DEF GroupResetsTogether, Together

-----------------------------------------------------------------------------
(***************************************************************************)
(* The abstract world, under the conditions that Careful names.            *)
(***************************************************************************)

\* The content of m, in memory and in its files, is whole; and a shared map that is
\* swapped out has a .v00 file whenever its original holds unique items.
Whole(m, s, d) ==
    /\ s.in_memory = "IN_MEMORY" => s.reg # "empty"
    /\ d.tmp # NoFile => d.tmp.reg # "empty"
    /\ d.home # NoFile => d.home.reg # "empty"
    /\ s.in_memory = "SWAPPED" /\ m \notin PlayerMaps /\ d.v00 = NoFile => TemplateItems[m] = {}

WholeInv == \A m \in Maps : Whole(m, maps[m], disk[m])

\* Nobody is logged out with other items than the player file holds.
SavedInv ==
    /\ server # "crashed"
    /\ \A p \in Players : loc[p] = NoMap => saved[p] = inv[p]

LEMMA UnlinkedWhole ==
  ASSUME NEW m, NEW s, NEW d, NEW e, Whole(m, s, d), e.tmp = d.tmp \/ e.tmp = NoFile,
         e.home = d.home
  PROVE  Whole(m, Unlinked, e)
BY DEF Whole, Unlinked

LEMMA ReadyWhole ==
  ASSUME NEW m \in Maps, NEW s \in MapStruct(m), NEW d \in MapFiles(m), Whole(m, s, d)
  PROVE  Whole(m, ready_map_name(m, s, d), ReadyFiles(m, s, d))
<1> SUFFICES ASSUME NEW r, r = ready_map_name(m, s, d), NEW e, e = ReadyFiles(m, s, d)
             PROVE  Whole(m, r, e)
  OBVIOUS
<1>1. r.in_memory = "IN_MEMORY"
  BY ReadyType
<1>2. (e.tmp = d.tmp \/ e.tmp = NoFile) /\ e.home = d.home
  BY CleanKeeps DEF ReadyFiles
<1>3. r.reg # "empty"
  <2>1. r.reg = SeenReg(m, s, d)
    BY DEF SeenReg
  <2>2. CASE s.in_memory = "IN_MEMORY"
    BY <2>1, <2>2, SeenLoaded DEF Whole
  <2>3. CASE s.in_memory # "IN_MEMORY" /\ m \in PlayerMaps
    <3>1. SeenReg(m, s, d) = IF d.home = NoFile THEN "original" ELSE d.home.reg
      BY <2>3, SeenAtHome
    <3> QED
      BY <2>1, <3>1 DEF Whole
  <2>4. CASE s.in_memory # "IN_MEMORY" /\ m \notin PlayerMaps /\ ~HasTmpFile(s, d)
    BY <2>1, <2>4, SeenFresh
  <2>5. CASE m \notin PlayerMaps /\ HasTmpFile(s, d)
    <3>1. SeenReg(m, s, d) = d.tmp.reg
      BY <2>5, SeenInTmp
    <3> QED
      BY <2>1, <2>5, <3>1 DEF Whole, HasTmpFile
  <2> QED
    BY <2>2, <2>3, <2>4, <2>5
<1> QED
  BY <1>1, <1>2, <1>3 DEF Whole

\* A save that works, or that fails before the map is freed, writes whole files.
LEMMA SavedWhole ==
  ASSUME Careful, NEW m \in Maps, NEW s \in MapStruct(m), NEW d \in MapFiles(m),
         NEW err \in {"OK", "RCREATION", "UCREATION"}, Whole(m, s, d),
         s.in_memory = "IN_MEMORY"
  PROVE  LET e == SavedFiles(m, s, d, err)
         IN  /\ e.tmp # NoFile => e.tmp.reg # "empty"
             /\ e.home # NoFile => e.home.reg # "empty"
             /\ SaveOK(m, s, err) /\ m \notin PlayerMaps /\ e.v00 = NoFile => TemplateItems[m] = {}
             /\ SaveOK(m, s, err) /\ m \notin PlayerMaps /\ e.v00 # NoFile => e.v00 = s.uniq
             /\ SaveOK(m, s, err) /\ m \notin PlayerMaps /\ e.v00 = NoFile => s.uniq = {}
<1> SUFFICES ASSUME NEW e, e = SavedFiles(m, s, d, err)
             PROVE  /\ e.tmp # NoFile => e.tmp.reg # "empty"
                    /\ e.home # NoFile => e.home.reg # "empty"
                    /\ SaveOK(m, s, err) /\ m \notin PlayerMaps /\ e.v00 = NoFile =>
                           TemplateItems[m] = {}
                    /\ SaveOK(m, s, err) /\ m \notin PlayerMaps /\ e.v00 # NoFile => e.v00 = s.uniq
                    /\ SaveOK(m, s, err) /\ m \notin PlayerMaps /\ e.v00 = NoFile => s.uniq = {}
  OBVIOUS
<1>1. err \in SaveOutcomes /\ s.reg # "empty"
  BY DEF SaveOutcomes, Whole
<1>2. CASE m \in PlayerMaps
  <2>1. e.tmp = d.tmp
    BY <1>1, <1>2, SavedFields
  <2>2. e.home = IF SaveOK(m, s, err) THEN [reg |-> s.reg, uniq |-> s.uniq] ELSE d.home
    BY <1>1, <1>2, SavedFields
  <2> QED
    BY <1>1, <1>2, <2>1, <2>2 DEF Whole
<1>3. CASE m \notin PlayerMaps
  <2>1. e.home = d.home
    BY <1>1, <1>3, SavedFields
  <2>2. e.tmp = IF SaveOK(m, s, err) THEN [reg |-> s.reg, reset_group |-> s.reset_group]
                ELSE d.tmp
    BY <1>1, <1>3, SavedFields
  <2>3. e.tmp # NoFile => e.tmp.reg # "empty"
    BY <1>1, <2>2 DEF Whole
  <2>4. ASSUME SaveOK(m, s, err)
        PROVE  e.v00 = IF HasUniqueData(m, s) THEN s.uniq ELSE NoFile
    BY <1>1, <1>3, <2>4, SavedFields
  <2>5. s.uniq # NoFile
    BY NoFileAssumption DEF MapStruct
  <2>6. ~HasUniqueData(m, s) => s.uniq = {} /\ TemplateItems[m] = {}
    BY <1>1, <1>3 DEF HasUniqueData, Careful
  <2> QED
    BY <2>1, <2>3, <2>4, <2>5, <2>6 DEF Whole
<1> QED
  BY <1>2, <1>3

LEMMA SwapWhole ==
  ASSUME Careful, NEW m \in Maps, NEW s \in MapStruct(m), NEW d \in MapFiles(m),
         NEW occupied \in BOOLEAN, NEW err \in {"OK", "RCREATION", "UCREATION"}, InGroup(m, s),
         Whole(m, s, d)
  PROVE  Whole(m, swap_map(m, s, occupied, err), SwapFiles(m, s, d, occupied, err))
<1> SUFFICES ASSUME NEW r, r = swap_map(m, s, occupied, err),
                    NEW e, e = SwapFiles(m, s, d, occupied, err)
             PROVE  Whole(m, r, e)
  OBVIOUS
<1>0. err \in SaveOutcomes
  BY DEF SaveOutcomes
<1>1. CASE ~SwapSaves(m, s, occupied)
  <2>1. e = d
    BY <1>1 DEF SwapFiles
  <2>2. r = s \/ r = [s EXCEPT !.timeout = 0]
    BY <1>0, <1>1, SwapFields, NoResetAtOnce DEF Careful
  <2>3. r.in_memory = s.in_memory /\ r.reg = s.reg
    BY <2>2 DEF MapStruct
  <2> QED
    BY <2>1, <2>3 DEF Whole
<1>2. CASE SwapSaves(m, s, occupied)
  <2>1. s.in_memory = "IN_MEMORY" /\ e = SavedFiles(m, s, d, err)
    BY <1>2 DEF SwapSaves, SwapFiles
  <2>2. /\ r.in_memory = IF SaveOK(m, s, err) THEN "SWAPPED" ELSE "IN_MEMORY"
        /\ OpenFails(m, err) => r.reg = s.reg
    BY <1>0, <1>2, SwapFields
  <2>3. SaveOK(m, s, err) \/ OpenFails(m, err)
    BY DEF SaveOK, OpenFails, UniqueFails
  <2>4. /\ e.tmp # NoFile => e.tmp.reg # "empty"
        /\ e.home # NoFile => e.home.reg # "empty"
        /\ SaveOK(m, s, err) /\ m \notin PlayerMaps /\ e.v00 = NoFile => TemplateItems[m] = {}
    BY <2>1, SavedWhole
  <2> QED
    BY <2>1, <2>2, <2>3, <2>4 DEF Whole
<1> QED
  BY <1>1, <1>2

LEMMA FlushWhole ==
  ASSUME NEW ms, NEW m \in Maps, ms[m] \in MapStruct(m), NEW occ, NEW d \in MapFiles(m),
         Whole(m, ms[m], d)
  PROVE  Whole(m, FlushStruct(ms, m, occ), FlushFiles(ms, m, d))
<1> SUFFICES ASSUME NEW r, r = FlushStruct(ms, m, occ), NEW e, e = FlushFiles(ms, m, d)
             PROVE  Whole(m, r, e)
  OBVIOUS
<1>1. e.home = d.home /\ (e = d \/ e.tmp = NoFile)
  BY CleanKeeps DEF FlushFiles
<1>2. CASE r = Unlinked
  BY <1>1, <1>2, UnlinkedWhole
<1>3. CASE r # Unlinked
  <2>1. e = d
    BY <1>3 DEF FlushStruct, FlushFiles
  <2>2. r = ms[m] \/ r = [ms[m] EXCEPT !.timeout = MinTimeout]
    BY <1>3 DEF FlushStruct
  <2>3. r.in_memory = ms[m].in_memory /\ r.reg = ms[m].reg
    BY <2>2 DEF MapStruct
  <2> QED
    BY <2>1, <2>3 DEF Whole
<1> QED
  BY <1>2, <1>3

\* What clean_tmp_files leaves of one map, without recycling.
LEMMA StopFiles ==
  ASSUME Careful, TypeOK, Shutdown
  PROVE  \A m \in Maps : disk'[m] = CleanedFiles(m, "OK")
<1> PICK err \in [Maps -> Outcomes(StopErrors)] :
         disk' = [m \in Maps |-> CleanedFiles(m, err[m])]
  BY DEF Shutdown, Careful
<1>1. \A m \in Maps : err[m] = "OK"
  BY DEF Outcomes, Careful
<1> QED
  BY <1>1

LEMMA StopFields ==
  ASSUME Careful, TypeOK, Shutdown, NEW m \in Maps
  PROVE  LET e == IF maps[m].in_memory = "IN_MEMORY" THEN SavedFiles(m, maps[m], disk[m], "OK")
                  ELSE disk[m]
         IN  /\ e \in MapFiles(m)
             /\ disk'[m].tmp = e.tmp \/ disk'[m].tmp = NoFile
             /\ disk'[m].v00 = e.v00 /\ disk'[m].home = e.home
<1> SUFFICES ASSUME NEW e, e = IF maps[m].in_memory = "IN_MEMORY"
                               THEN SavedFiles(m, maps[m], disk[m], "OK") ELSE disk[m]
             PROVE  /\ e \in MapFiles(m)
                    /\ disk'[m].tmp = e.tmp \/ disk'[m].tmp = NoFile
                    /\ disk'[m].v00 = e.v00 /\ disk'[m].home = e.home
  OBVIOUS
<1>1. maps[m] \in MapStruct(m) /\ disk[m] \in MapFiles(m) /\ "OK" \in SaveOutcomes
  BY DEF TypeOK, SaveOutcomes
<1>2. e \in MapFiles(m)
  BY <1>1, SavedType
<1>3. disk'[m] = clean_tmp_map(e) \/ disk'[m] = e
  BY StopFiles DEF CleanedFiles, Careful
<1> QED
  BY <1>2, <1>3, CleanKeeps

LEMMA StopWhole ==
  ASSUME Careful, TypeOK, WholeInv, Shutdown, NEW m \in Maps
  PROVE  Whole(m, maps'[m], disk'[m])
<1>1. /\ maps[m] \in MapStruct(m) /\ disk[m] \in MapFiles(m) /\ Whole(m, maps[m], disk[m])
      /\ maps'[m] = Unlinked
  BY DEF TypeOK, WholeInv, Shutdown, ProcessDies
<1>2. CASE maps[m].in_memory = "IN_MEMORY"
  <2> DEFINE e == SavedFiles(m, maps[m], disk[m], "OK")
  <2>1. /\ disk'[m].tmp = e.tmp \/ disk'[m].tmp = NoFile
        /\ disk'[m].home = e.home
    BY <1>2, StopFields
  <2>2. (e.tmp # NoFile => e.tmp.reg # "empty") /\ (e.home # NoFile => e.home.reg # "empty")
    BY <1>1, <1>2, SavedWhole
  <2> HIDE DEF e
  <2> QED
    BY <1>1, <2>1, <2>2 DEF Whole, Unlinked
<1>3. CASE maps[m].in_memory # "IN_MEMORY"
  <2>1. /\ disk'[m].tmp = disk[m].tmp \/ disk'[m].tmp = NoFile
        /\ disk'[m].home = disk[m].home
    BY <1>3, StopFields
  <2> QED
    BY <1>1, <2>1, UnlinkedWhole
<1> QED
  BY <1>2, <1>3

LEMMA StepWhole ==
  ASSUME Careful, TypeOK, OwnedInv, BackedInv, GroupInv, WholeInv, [Next]_vars
  PROVE  WholeInv'
<1> SUFFICES ASSUME NEW n \in Maps PROVE Whole(n, maps'[n], disk'[n])
  BY DEF WholeInv
<1>0. /\ maps[n] \in MapStruct(n) /\ disk[n] \in MapFiles(n)
      /\ InGroup(n, maps[n]) /\ Whole(n, maps[n], disk[n])
  BY DEF TypeOK, GroupInv, WholeInv
<1>1. ASSUME NEW s \in MapStruct(n), NEW r, NEW d, Whole(n, s, d),
             r.in_memory = s.in_memory, r.reg = s.reg
      PROVE  Whole(n, r, d)
  BY <1>1 DEF Whole
<1>2. ASSUME NEW p \in Players, NEW m \in Maps, Enter(p, m) PROVE Whole(n, maps'[n], disk'[n])
  <2>1. CASE n = m
    <3> DEFINE s == ready_map_name(n, maps[n], disk[n])
    <3>1. Whole(n, s, ReadyFiles(n, maps[n], disk[n])) /\ s \in MapStruct(n)
      BY <1>0, ReadyWhole, ReadyType
    <3>2. disk'[n] = ReadyFiles(n, maps[n], disk[n])
      BY <1>2, <2>1 DEF Enter, TypeOK
    <3>3. maps'[n].in_memory = s.in_memory /\ maps'[n].reg = s.reg
      BY <1>2, <2>1, EnterFields
    <3> HIDE DEF s
    <3> QED
      BY <1>1, <3>1, <3>2, <3>3
  <2>2. CASE n # m
    <3>1. disk'[n] = disk[n]
      BY <1>2, <2>2 DEF Enter, TypeOK
    <3>2. maps'[n].in_memory = maps[n].in_memory /\ maps'[n].reg = maps[n].reg
      BY <1>2, <2>2, EnterFields
    <3> QED
      BY <1>0, <1>1, <3>1, <3>2
  <2> QED
    BY <2>1, <2>2
<1>3. ASSUME NEW p \in Players, Leave(p) \/ SavePlayer(p) PROVE Whole(n, maps'[n], disk'[n])
  BY <1>0, <1>3 DEF Leave, SavePlayer
<1>4. ASSUME NEW p \in Players, NEW i \in Items, PickUp(p, i) \/ Drop(p, i)
      PROVE  Whole(n, maps'[n], disk'[n])
  <2>1. loc[p] \in Maps /\ maps[loc[p]] \in MapStruct(loc[p]) /\ disk' = disk
    BY <1>4 DEF PickUp, Drop, TypeOK
  <2>2. maps'[n].in_memory = maps[n].in_memory /\ maps'[n].reg = maps[n].reg
    BY <1>4, <2>1 DEF PickUp, Drop, TypeOK, MapStruct
  <2> QED
    BY <1>0, <1>1, <2>1, <2>2
<1>5. ASSUME NEW m \in Maps, Play(m) PROVE Whole(n, maps'[n], disk'[n])
  <2>1. disk' = disk /\ maps'[n].in_memory = maps[n].in_memory
    BY <1>5 DEF Play, TypeOK, MapStruct
  <2>2. maps'[n].reg = maps[n].reg \/ maps'[n].reg = "played"
    BY <1>5 DEF Play, TypeOK, MapStruct
  <2> QED
    BY <1>0, <2>1, <2>2 DEF Whole
<1>6. ASSUME NEW m \in Maps, TouchMap(m) PROVE Whole(n, maps'[n], disk'[n])
  BY <1>0, <1>6, ReadyWhole DEF TouchMap, TypeOK
<1>7. CASE SecondPasses
  <2>1. disk' = disk /\ maps'[n].in_memory = maps[n].in_memory /\ maps'[n].reg = maps[n].reg
    BY <1>7 DEF SecondPasses, TypeOK, MapStruct
  <2> QED
    BY <1>0, <1>1, <2>1
<1>8. CASE check_active_maps
  <2>1. CASE maps'[n] = CountDown(maps[n]) /\ disk'[n] = disk[n]
    <3>1. maps'[n].in_memory = maps[n].in_memory /\ maps'[n].reg = maps[n].reg
      BY <1>0, <2>1, CountDownFields
    <3> QED
      BY <1>0, <1>1, <2>1, <3>1
  <2>2. ASSUME NEW err \in Outcomes(SaveErrors), NEW occupied \in BOOLEAN,
               maps'[n] = swap_map(n, maps[n], occupied, err),
               disk'[n] = SwapFiles(n, maps[n], disk[n], occupied, err)
        PROVE  Whole(n, maps'[n], disk'[n])
    <3>1. err \in {"OK", "RCREATION", "UCREATION"}
      BY DEF Outcomes, Careful
    <3> QED
      BY <1>0, <2>2, <3>1, SwapWhole
  <2>3. ~RecycleTmpMaps
    BY DEF Careful
  <2> QED
    BY <1>8, <2>1, <2>2, <2>3, CheckActiveOne
<1>9. CASE flush_old_maps
  BY <1>0, <1>9, FlushWhole DEF flush_old_maps
<1>10. CASE Shutdown
  BY <1>10, StopWhole
<1>11. ~Crash /\ ~(\E m \in Maps : CrashInSwap(m))
  BY DEF Crash, CrashInSwap, Careful
<1>12. CASE Boot
  <2>1. maps'[n] = Unlinked
    BY <1>12 DEF Boot, read_map_log, BackedInv, Kept
  <2>2. disk'[n].tmp = NoFile /\ disk'[n].home = disk[n].home
    BY <1>0, <1>12 DEF Boot, BootFiles, Orphaned, BackedInv, Kept, MapFiles
  <2> QED
    BY <1>0, <2>1, <2>2, UnlinkedWhole
<1>13. CASE UNCHANGED vars
  BY <1>0, <1>13 DEF vars
<1>14. DMs = {}
  BY DEF Careful
<1> QED
  BY <1>2, <1>3, <1>4, <1>5, <1>6, <1>7, <1>8, <1>9, <1>10, <1>11, <1>12, <1>13, <1>14,
     NoCommands DEF Next

LEMMA StepSaved ==
  ASSUME Careful, TypeOK, SavedInv, [Next]_vars
  PROVE  SavedInv'
<1>1. ASSUME NEW p \in Players, NEW m \in Maps, Enter(p, m) PROVE SavedInv'
  BY <1>1, MapsAssumption DEF Enter, TypeOK, SavedInv
<1>2. ASSUME NEW p \in Players, Leave(p) \/ SavePlayer(p) PROVE SavedInv'
  BY <1>2 DEF Leave, SavePlayer, TypeOK, SavedInv
<1>3. ASSUME NEW p \in Players, NEW i \in Items, PickUp(p, i) \/ Drop(p, i) PROVE SavedInv'
  BY <1>3 DEF PickUp, Drop, TypeOK, SavedInv
<1>4. ASSUME NEW m \in Maps, Play(m) \/ TouchMap(m) PROVE SavedInv'
  BY <1>4 DEF Play, TouchMap, SavedInv
<1>5. CASE SecondPasses \/ check_active_maps \/ flush_old_maps
  BY <1>5 DEF SecondPasses, check_active_maps, SwapDue, flush_old_maps, SavedInv
<1>6. CASE Shutdown
  BY <1>6 DEF Shutdown, ProcessDies, SavedInv
<1>7. ~Crash /\ ~(\E m \in Maps : CrashInSwap(m))
  BY DEF Crash, CrashInSwap, Careful
<1>8. CASE Boot
  BY <1>8 DEF Boot, SavedInv
<1>9. CASE UNCHANGED vars
  BY <1>9 DEF vars, SavedInv
<1>10. DMs = {}
  BY DEF Careful
<1> QED
  BY <1>1, <1>2, <1>3, <1>4, <1>5, <1>6, <1>7, <1>8, <1>9, <1>10, NoCommands DEF Next

LEMMA AlwaysWhole ==
  ASSUME Careful
  PROVE  Spec => [](TypeOK /\ OwnedInv /\ BackedInv /\ GroupInv /\ WholeInv /\ SavedInv)
<1>1. Init => WholeInv /\ SavedInv
  BY DEF Init, WholeInv, Whole, Unlinked, NoFiles, SavedInv
<1>2. TypeOK /\ OwnedInv /\ BackedInv /\ GroupInv /\ WholeInv /\ [Next]_vars => WholeInv'
  BY StepWhole
<1>3. TypeOK /\ SavedInv /\ [Next]_vars => SavedInv'
  BY StepSaved
<1>4. Spec => [](TypeOK /\ OwnedInv /\ BackedInv /\ GroupInv)
  BY AlwaysGrouped DEF Careful
<1> QED
  BY <1>1, <1>2, <1>3, <1>4, PTL DEF Spec

-----------------------------------------------------------------------------
(***************************************************************************)
(* The refinement: each handler is a step of the abstract world, or shows  *)
(* nothing.                                                                *)
(***************************************************************************)

WorldReg  == [m \in Maps |-> View(m).reg]
WorldUniq == [m \in Maps |-> View(m).uniq]

WorldStep == [World!WorldNext]_<<WorldReg, WorldUniq, loc, inv>>

LEMMA ShownWorld ==
  ASSUME server = "running", server' = "running"
  PROVE  /\ WorldReg = [m \in Maps |-> ShownReg(m)]
         /\ WorldUniq = [m \in Maps |-> ShownUniq(m)]
         /\ WorldReg' = [m \in Maps |-> ShownReg(m)']
         /\ WorldUniq' = [m \in Maps |-> ShownUniq(m)']
BY ViewShown DEF WorldReg, WorldUniq

LEMMA WorldUnseen ==
  ASSUME server = "running", server' = "running", \A m \in Maps : Unseen(m)
  PROVE  WorldReg' = WorldReg /\ WorldUniq' = WorldUniq
BY ShownWorld DEF Unseen

LEMMA EnterWorld ==
  ASSUME TypeOK, TypeOK', NEW p \in Players, NEW m \in Maps, Enter(p, m)
  PROVE  WorldStep
<1>1. server = "running" /\ server' = "running" /\ loc' = [loc EXCEPT ![p] = m] /\ inv' = inv
  BY DEF Enter
<1>2. WorldReg' = WorldReg /\ WorldUniq' = WorldUniq
  BY <1>1, EnterUnseen, WorldUnseen
<1>3. World!Move(p, m)
  BY <1>1, <1>2 DEF World!Move, WorldReg, WorldUniq
<1> QED
  BY <1>3 DEF WorldStep, World!WorldNext

LEMMA LeaveWorld ==
  ASSUME TypeOK, TypeOK', NEW p \in Players, Leave(p)
  PROVE  WorldStep
<1>1. /\ server = "running" /\ server' = "running"
      /\ loc' = [loc EXCEPT ![p] = NoMap] /\ inv' = inv
  BY DEF Leave
<1>2. \A m \in Maps : Unseen(m)
  BY UnseenSame DEF Leave
<1>3. WorldReg' = WorldReg /\ WorldUniq' = WorldUniq
  BY <1>1, <1>2, WorldUnseen
<1>4. World!Move(p, NoMap)
  BY <1>1, <1>3 DEF World!Move, WorldReg, WorldUniq
<1> QED
  BY <1>4 DEF WorldStep, World!WorldNext

LEMMA PlayWorld ==
  ASSUME TypeOK, TypeOK', NEW m \in Maps, Play(m)
  PROVE  WorldStep
<1>1. server = "running" /\ server' = "running" /\ loc' = loc /\ inv' = inv
  BY DEF Play
<1>2. WorldUniq' = WorldUniq
  BY <1>1, PlaySeen, ShownWorld DEF Unseen
<1>3. WorldReg' = [WorldReg EXCEPT ![m] = "played"]
  BY <1>1, PlaySeen, ShownWorld DEF Unseen
<1>4. World!Change(m)
  BY <1>1, <1>2, <1>3 DEF World!Change, WorldReg, WorldUniq
<1> QED
  BY <1>4 DEF WorldStep, World!WorldNext

LEMMA ItemWorld ==
  ASSUME TypeOK, TypeOK', PlayersOnLoadedMaps, NEW p \in Players, NEW i \in Items,
         PickUp(p, i) \/ Drop(p, i)
  PROVE  WorldStep
<1>1. /\ server = "running" /\ server' = "running" /\ loc' = loc
      /\ loc[p] # NoMap /\ loc[p] \in Maps
  BY DEF PickUp, Drop, TypeOK
<1>2. WorldReg' = WorldReg
  BY <1>1, ItemSeen, ShownWorld
<1>3. CASE PickUp(p, i)
  <2>1. inv' = [inv EXCEPT ![p] = @ \cup {i}]
    BY <1>3 DEF PickUp
  <2>2. WorldUniq' = [WorldUniq EXCEPT ![loc[p]] = @ \ {i}] /\ i \in WorldUniq[loc[p]]
    BY <1>1, <1>3, ItemSeen, ShownWorld
  <2>3. World!TakeItem(p, i)
    BY <1>1, <1>2, <2>1, <2>2 DEF World!TakeItem, WorldReg, WorldUniq
  <2> QED
    BY <2>3 DEF WorldStep, World!WorldNext
<1>4. CASE ~PickUp(p, i)
  <2>1. i \in inv[p] /\ inv' = [inv EXCEPT ![p] = @ \ {i}]
    BY <1>4 DEF Drop
  <2>2. WorldUniq' = [WorldUniq EXCEPT ![loc[p]] = @ \cup {i}]
    BY <1>1, <1>4, ItemSeen, ShownWorld
  <2>3. World!DropItem(p, i)
    BY <1>1, <1>2, <2>1, <2>2 DEF World!DropItem, WorldReg, WorldUniq
  <2> QED
    BY <2>3 DEF WorldStep, World!WorldNext
<1> QED
  BY <1>3, <1>4

\* The maps that flush_old_maps shows as their original afterwards: the ones that can
\* reset, and the members of their groups that are not linked.
Resetting ==
    {m \in Maps \ PlayerMaps :
        \/ map_can_reset(maps, m)
        \/ /\ maps[m].in_memory = "unlinked" /\ Group[m] # NoGroup
           /\ \E k \in Maps : map_can_reset(maps, k) /\ Group[k] = Group[m]}

LEMMA FlushWorld ==
  ASSUME TypeOK, TypeOK', PlayersOnLoadedMaps, OwnedInv, BackedInv, GroupInv, WholeInv,
         flush_old_maps
  PROVE  WorldStep
<1>1. server = "running" /\ server' = "running" /\ loc' = loc /\ inv' = inv
  BY DEF flush_old_maps
<1>2. ASSUME NEW m \in Resetting
      PROVE  m \in Maps /\ maps[m].in_memory # "IN_MEMORY" /\ ShownReg(m)' = "original"
  <2>1. m \in Maps /\ m \notin PlayerMaps
    BY DEF Resetting
  <2>2. CASE map_can_reset(maps, m)
    BY <2>1, <2>2, FlushSeen DEF map_can_reset, map_can_reset_no_group
  <2>3. CASE maps[m].in_memory = "unlinked"
    <3>1. ~map_can_reset(maps, m)
      BY <2>3 DEF map_can_reset, map_can_reset_no_group
    <3>2. ShownReg(m)' = ShownReg(m)
      BY <2>1, <3>1, FlushSeen DEF Unseen
    <3>3. SeenReg(m, maps[m], disk[m]) = "original"
      BY <2>1, <2>3, SeenFresh DEF HasTmpFile
    <3> QED
      BY <2>1, <2>3, <3>2, <3>3 DEF ShownReg
  <2> QED
    BY <2>2, <2>3 DEF Resetting
<1>3. ASSUME NEW m \in Maps, m \notin Resetting
      PROVE  ShownReg(m)' = ShownReg(m)
  <2>1. ~(m \notin PlayerMaps /\ map_can_reset(maps, m))
    BY <1>3 DEF Resetting
  <2> QED
    BY <2>1, FlushSeen DEF Unseen
<1>4. ASSUME NEW m \in Maps PROVE ShownUniq(m)' = ShownUniq(m)
  <2>1. CASE m \notin PlayerMaps /\ map_can_reset(maps, m)
    <3>1. maps[m].in_memory = "SWAPPED"
      BY <2>1 DEF map_can_reset, map_can_reset_no_group
    <3>2. disk[m].v00 = NoFile => TemplateItems[m] = {}
      BY <2>1, <3>1 DEF WholeInv, Whole
    <3> QED
      BY <2>1, <3>2, FlushSeen
  <2>2. CASE ~(m \notin PlayerMaps /\ map_can_reset(maps, m))
    BY <2>2, FlushSeen DEF Unseen
  <2> QED
    BY <2>1, <2>2
<1>5. \A p \in Players : loc[p] \notin Resetting
  <2> SUFFICES ASSUME NEW p \in Players, loc[p] \in Resetting PROVE FALSE
    OBVIOUS
  <2>1. loc[p] # NoMap /\ maps[loc[p]].in_memory # "IN_MEMORY"
    BY <1>2, MapsAssumption
  <2> QED
    BY <2>1 DEF PlayersOnLoadedMaps
<1>6. ASSUME NEW m \in Resetting, NEW n \in Maps, Group[m] # NoGroup, Group[n] = Group[m]
      PROVE  n \in Resetting
  <2>1. PICK k \in Maps : map_can_reset(maps, k) /\ Group[k] = Group[m]
    BY <1>2, <1>6 DEF Resetting
  <2>2. n \notin PlayerMaps
    BY <1>6, MapsAssumption
  <2>3. map_can_reset(maps, n) \/ maps[n].in_memory = "unlinked"
    BY <1>6, <2>1, GroupReady
  <2> QED
    BY <1>6, <2>1, <2>2, <2>3 DEF Resetting
<1>7. WorldUniq' = WorldUniq
  BY <1>1, <1>4, ShownWorld
<1>8. WorldReg' = [m \in Maps |-> IF m \in Resetting THEN "original" ELSE WorldReg[m]]
  BY <1>1, <1>2, <1>3, ShownWorld
<1>9. World!ResetMaps(Resetting)
  BY <1>1, <1>5, <1>6, <1>7, <1>8
     DEF World!ResetMaps, World!Empty, World!ClosedUnderGroups, WorldReg, WorldUniq
<1>10. Resetting \in SUBSET (Maps \ PlayerMaps)
  BY DEF Resetting
<1> QED
  BY <1>9, <1>10 DEF WorldStep, World!WorldNext

\* The next process has no structure and no temporary file of a map that temp.maps
\* does not list: it finds the original, or the file under players/.
LEMMA SeenAtBoot ==
  ASSUME NEW m \in Maps, NEW e \in MapFiles(m), e.entry = NoFile
  PROVE  LET r == read_map_log(e)
             b == BootFiles(e)
         IN  IF m \in PlayerMaps
             THEN /\ SeenReg(m, r, b) = IF e.home = NoFile THEN "original" ELSE e.home.reg
                  /\ SeenUniq(m, r, b) = IF e.home = NoFile THEN TemplateItems[m] ELSE e.home.uniq
             ELSE /\ SeenReg(m, r, b) = "original"
                  /\ SeenUniq(m, r, b) = IF e.v00 = NoFile THEN TemplateItems[m] ELSE e.v00
<1> SUFFICES ASSUME NEW r, r = read_map_log(e), NEW b, b = BootFiles(e)
             PROVE  IF m \in PlayerMaps
                    THEN /\ SeenReg(m, r, b) = IF e.home = NoFile THEN "original" ELSE e.home.reg
                         /\ SeenUniq(m, r, b) =
                              IF e.home = NoFile THEN TemplateItems[m] ELSE e.home.uniq
                    ELSE /\ SeenReg(m, r, b) = "original"
                         /\ SeenUniq(m, r, b) =
                              IF e.v00 = NoFile THEN TemplateItems[m] ELSE e.v00
  OBVIOUS
<1>1. r.in_memory = "unlinked"
  BY DEF read_map_log, Unlinked
<1>2. b.home = e.home /\ b.v00 = e.v00
  BY DEF BootFiles, Orphaned, MapFiles
<1>3. r.in_memory # "IN_MEMORY" /\ ~HasTmpFile(r, b)
  BY <1>1 DEF HasTmpFile
<1>4. CASE m \in PlayerMaps
  BY <1>2, <1>3, <1>4, SeenAtHome
<1>5. CASE m \notin PlayerMaps
  BY <1>2, <1>3, <1>5, SeenFresh
<1> QED
  BY <1>4, <1>5

\* An orderly stop keeps the per-player maps and every unique item; shared maps
\* start again from their original.
LEMMA StopSeen ==
  ASSUME Careful, TypeOK, TypeOK', OwnedInv, BackedInv, BackedInv', WholeInv, Shutdown,
         NEW m \in Maps
  PROVE  /\ View(m).reg' = IF m \in PlayerMaps THEN ShownReg(m) ELSE "original"
         /\ View(m).uniq' = ShownUniq(m)
<1> DEFINE s == maps[m]
           d == disk[m]
           e == disk'[m]
<1>1. s \in MapStruct(m) /\ d \in MapFiles(m) /\ e \in MapFiles(m) /\ e.entry = NoFile
  BY DEF TypeOK, BackedInv, Kept
<1>2. Whole(m, s, d) /\ Plain(m, s, d) /\ Backed(m, s, d)
  BY DEF WholeInv, OwnedInv, Owned, BackedInv, Kept, Shutdown
<1>3. /\ View(m).reg' = SeenReg(m, read_map_log(e), BootFiles(e))
      /\ View(m).uniq' = SeenUniq(m, read_map_log(e), BootFiles(e))
  BY DEF View, SeenReg, SeenUniq, Shutdown, ProcessDies
<1>4. ShownReg(m) = SeenReg(m, s, d) /\ ShownUniq(m) = SeenUniq(m, s, d)
  BY DEF ShownReg, ShownUniq
<1>5. LET f == IF s.in_memory = "IN_MEMORY" THEN SavedFiles(m, s, d, "OK") ELSE d
      IN  e.v00 = f.v00 /\ e.home = f.home
  BY StopFields
<1> HIDE DEF s, d, e
<1>6. "OK" \in SaveOutcomes /\ SaveOK(m, s, "OK")
  BY DEF SaveOutcomes, SaveOK, OpenFails, UniqueFails
<1>7. CASE m \in PlayerMaps
  <2>1. /\ SeenReg(m, read_map_log(e), BootFiles(e)) =
              IF e.home = NoFile THEN "original" ELSE e.home.reg
        /\ SeenUniq(m, read_map_log(e), BootFiles(e)) =
              IF e.home = NoFile THEN TemplateItems[m] ELSE e.home.uniq
    BY <1>1, <1>7, SeenAtBoot
  <2>2. CASE s.in_memory = "IN_MEMORY"
    <3>1. e.home = [reg |-> s.reg, uniq |-> s.uniq]
      BY <1>1, <1>5, <1>6, <1>7, <2>2, SavedFields
    <3>2. [reg |-> s.reg, uniq |-> s.uniq] \in HomeFiles
      BY <1>1 DEF HomeFiles, MapStruct
    <3>3. e.home # NoFile /\ e.home.reg = s.reg /\ e.home.uniq = s.uniq
      BY <3>1, <3>2, NoFileAssumption
    <3>4. SeenReg(m, s, d) = s.reg /\ SeenUniq(m, s, d) = s.uniq
      BY <1>1, <2>2, SeenLoaded
    <3> QED
      BY <1>3, <1>4, <1>7, <2>1, <3>3, <3>4
  <2>3. CASE s.in_memory # "IN_MEMORY"
    <3>1. e.home = d.home
      BY <1>5, <2>3
    <3>2. /\ SeenReg(m, s, d) = IF d.home = NoFile THEN "original" ELSE d.home.reg
          /\ SeenUniq(m, s, d) = IF d.home = NoFile THEN TemplateItems[m] ELSE d.home.uniq
      BY <1>7, <2>3, SeenAtHome
    <3> QED
      BY <1>3, <1>4, <1>7, <2>1, <3>1, <3>2
  <2> QED
    BY <2>2, <2>3
<1>8. CASE m \notin PlayerMaps
  <2>1. /\ SeenReg(m, read_map_log(e), BootFiles(e)) = "original"
        /\ SeenUniq(m, read_map_log(e), BootFiles(e)) =
              IF e.v00 = NoFile THEN TemplateItems[m] ELSE e.v00
    BY <1>1, <1>8, SeenAtBoot
  <2>2. CASE s.in_memory = "IN_MEMORY"
    <3> DEFINE f == SavedFiles(m, s, d, "OK")
    <3>1. e.v00 = f.v00
      BY <1>5, <2>2
    <3>2. /\ f.v00 = NoFile => TemplateItems[m] = {}
          /\ f.v00 # NoFile => f.v00 = s.uniq
          /\ f.v00 = NoFile => s.uniq = {}
      BY <1>1, <1>2, <1>6, <1>8, <2>2, SavedWhole
    <3>3. SeenUniq(m, s, d) = s.uniq
      BY <1>1, <2>2, SeenLoaded
    <3> HIDE DEF f
    <3> QED
      BY <1>3, <1>4, <1>8, <2>1, <3>1, <3>2, <3>3
  <2>3. CASE s.in_memory = "SWAPPED"
    <3>1. e.v00 = d.v00
      BY <1>5, <2>3
    <3>2. HasTmpFile(s, d)
      BY <1>2, <1>8, <2>3 DEF Backed
    <3>3. SeenUniq(m, s, d) = IF d.v00 = NoFile THEN {} ELSE d.v00
      BY <1>1, <1>8, <3>2, SeenInTmp
    <3>4. d.v00 = NoFile => TemplateItems[m] = {}
      BY <1>2, <1>8, <2>3 DEF Whole
    <3> QED
      BY <1>3, <1>4, <1>8, <2>1, <3>1, <3>3, <3>4
  <2>4. CASE s.in_memory = "unlinked"
    <3>1. e.v00 = d.v00
      BY <1>5, <2>4
    <3>2. s.in_memory # "IN_MEMORY" /\ ~HasTmpFile(s, d)
      BY <2>4 DEF HasTmpFile
    <3>3. SeenUniq(m, s, d) = IF d.v00 = NoFile THEN TemplateItems[m] ELSE d.v00
      BY <1>8, <3>2, SeenFresh
    <3> QED
      BY <1>3, <1>4, <1>8, <2>1, <3>1, <3>3
  <2> QED
    BY <1>1, <2>2, <2>3, <2>4 DEF MapStruct
<1> QED
  BY <1>7, <1>8

LEMMA ShutdownWorld ==
  ASSUME Careful, TypeOK, TypeOK', OwnedInv, BackedInv, BackedInv', WholeInv, SavedInv, Shutdown
  PROVE  WorldStep
<1>1. server = "running" /\ loc' = [p \in Players |-> NoMap]
  BY DEF Shutdown, ProcessDies
<1>2. inv' = inv
  BY DEF Shutdown, SavedInv, TypeOK
<1>3. /\ WorldReg = [m \in Maps |-> ShownReg(m)]
      /\ WorldUniq = [m \in Maps |-> ShownUniq(m)]
  BY <1>1, ViewShown DEF WorldReg, WorldUniq
<1>4. WorldReg' = [m \in Maps |-> IF m \in PlayerMaps THEN WorldReg[m] ELSE "original"]
  BY <1>3, StopSeen DEF WorldReg
<1>5. WorldUniq' = WorldUniq
  BY <1>3, StopSeen DEF WorldUniq
<1>6. World!Restart
  BY <1>1, <1>2, <1>4, <1>5 DEF World!Restart, WorldReg, WorldUniq
<1> QED
  BY <1>6 DEF WorldStep, World!WorldNext

LEMMA BootWorld ==
  ASSUME TypeOK, TypeOK', Boot
  PROVE  WorldStep
<1>1. server # "running" /\ server' = "running" /\ loc' = loc /\ inv' = inv
  BY DEF Boot
<1>2. ASSUME NEW m \in Maps
      PROVE  maps'[m] = read_map_log(disk[m]) /\ disk'[m] = BootFiles(disk[m])
  BY DEF Boot
<1>3. ASSUME NEW m \in Maps
      PROVE  View(m).reg' = View(m).reg /\ View(m).uniq' = View(m).uniq
  <2> DEFINE r == read_map_log(disk[m])
             b == BootFiles(disk[m])
  <2>1. r.in_memory # "IN_MEMORY" /\ r \in MapStruct(m)
    BY LogType DEF read_map_log, Unlinked, TypeOK
  <2>2. View(m).reg = ready_map_name(m, r, b).reg /\ View(m).uniq = ready_map_name(m, r, b).uniq
    BY <1>1 DEF View
  <2>3. /\ View(m).reg' = ready_map_name(m, maps'[m], disk'[m]).reg
        /\ View(m).uniq' = ready_map_name(m, maps'[m], disk'[m]).uniq
    BY <1>1 DEF View
  <2> QED
    BY <1>2, <2>2, <2>3
<1>4. WorldReg' = WorldReg /\ WorldUniq' = WorldUniq
  BY <1>3 DEF WorldReg, WorldUniq
<1> QED
  BY <1>1, <1>4 DEF WorldStep

LEMMA StepWorld ==
  ASSUME Careful, TypeOK, TypeOK', PlayersOnLoadedMaps, OwnedInv, BackedInv, BackedInv',
         GroupInv, WholeInv, SavedInv, [Next]_vars
  PROVE  WorldStep
<1>1. ASSUME server = "running", server' = "running", \A m \in Maps : Unseen(m),
             loc' = loc, inv' = inv
      PROVE  WorldStep
  BY <1>1, WorldUnseen DEF WorldStep
<1>2. ASSUME NEW p \in Players, NEW m \in Maps, Enter(p, m) PROVE WorldStep
  BY <1>2, EnterWorld
<1>3. ASSUME NEW p \in Players, Leave(p) PROVE WorldStep
  BY <1>3, LeaveWorld
<1>4. ASSUME NEW p \in Players, SavePlayer(p) PROVE WorldStep
  BY <1>1, <1>4, UnseenSame DEF SavePlayer
<1>5. ASSUME NEW p \in Players, NEW i \in Items, PickUp(p, i) \/ Drop(p, i) PROVE WorldStep
  BY <1>5, ItemWorld
<1>6. ASSUME NEW m \in Maps, Play(m) PROVE WorldStep
  BY <1>6, PlayWorld
<1>7. ASSUME NEW m \in Maps, TouchMap(m) PROVE WorldStep
  <2>1. \A n \in Maps : Unseen(n)
    BY <1>7, TouchUnseen
  <2> QED
    BY <1>1, <1>7, <2>1 DEF TouchMap
<1>8. CASE SecondPasses
  <2>1. \A n \in Maps : Unseen(n)
    BY <1>8, SecondPassesUnseen
  <2> QED
    BY <1>1, <1>8, <2>1 DEF SecondPasses
<1>9. CASE check_active_maps
  <2>1. \A n \in Maps : Unseen(n)
    BY <1>9, CheckActiveSeen DEF Careful
  <2> QED
    BY <1>1, <1>9, <2>1 DEF check_active_maps, SwapDue
<1>10. CASE flush_old_maps
  BY <1>10, FlushWorld
<1>11. CASE Shutdown
  BY <1>11, ShutdownWorld
<1>12. ~Crash /\ ~(\E m \in Maps : CrashInSwap(m))
  BY DEF Crash, CrashInSwap, Careful
<1>13. CASE Boot
  BY <1>13, BootWorld
<1>14. CASE UNCHANGED vars
  <2>1. WorldReg' = WorldReg /\ WorldUniq' = WorldUniq /\ loc' = loc /\ inv' = inv
    BY <1>14 DEF vars, WorldReg, WorldUniq, View
  <2> QED
    BY <2>1 DEF WorldStep
<1>15. DMs = {}
  BY DEF Careful
<1> QED
  BY <1>2, <1>3, <1>4, <1>5, <1>6, <1>7, <1>8, <1>9, <1>10, <1>11, <1>12, <1>13, <1>14,
     <1>15, NoCommands DEF Next

\* Every map is at first what its maker wrote.
LEMMA InitWorld == Init => World!WorldInit
<1> SUFFICES ASSUME Init PROVE World!WorldInit
  OBVIOUS
<1>1. ASSUME NEW m \in Maps
      PROVE  View(m).reg = "original" /\ View(m).uniq = TemplateItems[m]
  <2>1. maps[m] = Unlinked /\ disk[m] = NoFiles /\ server = "running"
    BY DEF Init
  <2>2. Unlinked.in_memory = "unlinked" /\ NoFiles.home = NoFile /\ NoFiles.v00 = NoFile
    BY DEF Unlinked, NoFiles
  <2>3. SeenReg(m, Unlinked, NoFiles) = "original" /\ SeenUniq(m, Unlinked, NoFiles) = TemplateItems[m]
    BY <2>2, SeenAtHome, SeenFresh DEF HasTmpFile
  <2> QED
    BY <2>1, <2>3, ViewShown DEF ShownReg, ShownUniq
<1>2. WorldReg = [m \in Maps |-> "original"]
  BY <1>1 DEF WorldReg
<1>3. WorldUniq = TemplateItems
  BY <1>1, MapsAssumption DEF WorldUniq
<1> QED
  BY <1>2, <1>3 DEF Init, World!WorldInit, WorldReg, WorldUniq

\* However maps are swapped out, read back, reset and restarted, the players see the
\* world of MapStore: a map changes only by what is done on it or by a reset of its
\* whole group while nobody is there, and a unique item only moves with a player.
THEOREM MapsAreAWorld ==
  ASSUME Careful
  PROVE  Spec => RefinesMapStore
<1>1. Init => World!WorldInit
  BY InitWorld
<1>2. TypeOK /\ TypeOK' /\ PlayersOnLoadedMaps /\ OwnedInv /\ BackedInv /\ BackedInv' /\ GroupInv
      /\ WholeInv /\ SavedInv /\ [Next]_vars
      => [World!WorldNext]_<<WorldReg, WorldUniq, loc, inv>>
  BY StepWorld DEF WorldStep
<1>3. Spec => [][World!WorldNext]_<<WorldReg, WorldUniq, loc, inv>>
  BY <1>2, AlwaysWhole, PlayersStayOnLoadedMaps, PTL DEF Spec
<1>4. Spec => World!WorldInit
  BY <1>1 DEF Spec
<1> QED
  BY <1>3, <1>4, PTL DEF RefinesMapStore, World!World, World!worldVars, WorldReg, WorldUniq

-----------------------------------------------------------------------------
(***************************************************************************)
(* Unique items.  In the abstract world an item only moves between a map   *)
(* and the pockets of a player who is on it; so an item that starts in one *)
(* place stays in one place.                                               *)
(***************************************************************************)

OnceInv == \A i \in Items : InOnePlace(i, WorldUniq, inv)

LEMMA TakenOnce ==
  ASSUME TypeOK, OnceInv, NEW p \in Players, NEW i \in Items, loc[p] \in Maps,
         i \in WorldUniq[loc[p]], WorldUniq' = [WorldUniq EXCEPT ![loc[p]] = @ \ {i}],
         inv' = [inv EXCEPT ![p] = @ \cup {i}]
  PROVE  OnceInv'
<1> SUFFICES ASSUME NEW j \in Items PROVE InOnePlace(j, WorldUniq', inv')
  BY DEF OnceInv
<1>0. InOnePlace(j, WorldUniq, inv) /\ DOMAIN WorldUniq = Maps /\ DOMAIN inv = Players
  BY DEF OnceInv, WorldUniq, TypeOK
<1>1. CASE j # i
  <2>1. \A n \in Maps : j \in WorldUniq'[n] <=> j \in WorldUniq[n]
    BY <1>0, <1>1
  <2>2. \A q \in Players : j \in inv'[q] <=> j \in inv[q]
    BY <1>0, <1>1
  <2> QED
    BY <1>0, <2>1, <2>2 DEF InOnePlace
<1>2. CASE j = i
  <2>1. /\ \A n \in Maps : i \in WorldUniq[n] <=> n = loc[p]
        /\ \A q \in Players : i \notin inv[q]
    BY <1>0, <1>2 DEF InOnePlace
  <2>2. \A n \in Maps : i \notin WorldUniq'[n]
    BY <1>0, <2>1
  <2>3. \A q \in Players : i \in inv'[q] <=> q = p
    BY <1>0, <2>1
  <2> QED
    BY <1>2, <2>2, <2>3 DEF InOnePlace
<1> QED
  BY <1>1, <1>2

LEMMA DroppedOnce ==
  ASSUME TypeOK, OnceInv, NEW p \in Players, NEW i \in Items, loc[p] \in Maps,
         i \in inv[p], WorldUniq' = [WorldUniq EXCEPT ![loc[p]] = @ \cup {i}],
         inv' = [inv EXCEPT ![p] = @ \ {i}]
  PROVE  OnceInv'
<1> SUFFICES ASSUME NEW j \in Items PROVE InOnePlace(j, WorldUniq', inv')
  BY DEF OnceInv
<1>0. InOnePlace(j, WorldUniq, inv) /\ DOMAIN WorldUniq = Maps /\ DOMAIN inv = Players
  BY DEF OnceInv, WorldUniq, TypeOK
<1>1. CASE j # i
  <2>1. \A n \in Maps : j \in WorldUniq'[n] <=> j \in WorldUniq[n]
    BY <1>0, <1>1
  <2>2. \A q \in Players : j \in inv'[q] <=> j \in inv[q]
    BY <1>0, <1>1
  <2> QED
    BY <1>0, <2>1, <2>2 DEF InOnePlace
<1>2. CASE j = i
  <2>1. /\ \A n \in Maps : i \notin WorldUniq[n]
        /\ \A q \in Players : i \in inv[q] <=> q = p
    BY <1>0, <1>2 DEF InOnePlace
  <2>2. \A n \in Maps : i \in WorldUniq'[n] <=> n = loc[p]
    BY <1>0, <2>1
  <2>3. \A q \in Players : i \notin inv'[q]
    BY <1>0, <2>1
  <2> QED
    BY <1>2, <2>2, <2>3 DEF InOnePlace
<1> QED
  BY <1>1, <1>2

LEMMA StepOnce ==
  ASSUME TypeOK, OnceInv, WorldStep
  PROVE  OnceInv'
<1>1. CASE WorldUniq' = WorldUniq /\ inv' = inv
  BY <1>1 DEF OnceInv
<1>2. ASSUME NEW p \in Players, NEW m, World!Move(p, m) PROVE OnceInv'
  BY <1>1, <1>2 DEF World!Move, WorldUniq
<1>3. ASSUME NEW p \in Players, NEW i \in Items, World!TakeItem(p, i) PROVE OnceInv'
  <2>1. /\ loc[p] \in Maps /\ i \in WorldUniq[loc[p]]
        /\ WorldUniq' = [WorldUniq EXCEPT ![loc[p]] = @ \ {i}]
        /\ inv' = [inv EXCEPT ![p] = @ \cup {i}]
    BY <1>3 DEF World!TakeItem, WorldUniq, TypeOK
  <2> QED
    BY <2>1, TakenOnce
<1>4. ASSUME NEW p \in Players, NEW i \in Items, World!DropItem(p, i) PROVE OnceInv'
  <2>1. /\ loc[p] \in Maps /\ i \in inv[p]
        /\ WorldUniq' = [WorldUniq EXCEPT ![loc[p]] = @ \cup {i}]
        /\ inv' = [inv EXCEPT ![p] = @ \ {i}]
    BY <1>4 DEF World!DropItem, WorldUniq, TypeOK
  <2> QED
    BY <2>1, DroppedOnce
<1>5. ASSUME NEW m \in Maps, World!Change(m) PROVE OnceInv'
  BY <1>1, <1>5 DEF World!Change, WorldUniq
<1>6. ASSUME NEW S, World!ResetMaps(S) PROVE OnceInv'
  BY <1>1, <1>6 DEF World!ResetMaps, WorldUniq
<1>7. CASE World!Restart
  BY <1>1, <1>7 DEF World!Restart, WorldUniq
<1>8. WorldStep <=> World!WorldNext \/ UNCHANGED <<WorldReg, WorldUniq, loc, inv>>
  BY DEF WorldStep
<1> QED
  BY <1>1, <1>2, <1>3, <1>4, <1>5, <1>6, <1>7, <1>8 DEF World!WorldNext

\* A unique item that starts in one place is always in one place, however often the
\* maps are swapped, reset and restarted around it.
THEOREM UniqueItemsStayUnique ==
  ASSUME Careful, PlacedOnce
  PROVE  Spec => []UniqueItemOnce
<1>1. Init => OnceInv
  <2> SUFFICES ASSUME Init PROVE OnceInv
    OBVIOUS
  <2>1. WorldUniq = TemplateItems /\ inv = InitialInv
    BY InitWorld DEF World!WorldInit, WorldUniq
  <2> QED
    BY <2>1 DEF OnceInv, PlacedOnce
<1>2. TypeOK /\ OnceInv /\ WorldStep => OnceInv'
  BY StepOnce
<1>3. TypeOK /\ TypeOK' /\ PlayersOnLoadedMaps /\ OwnedInv /\ BackedInv /\ BackedInv' /\ GroupInv
      /\ WholeInv /\ SavedInv /\ [Next]_vars => WorldStep
  BY StepWorld
<1>4. OnceInv => UniqueItemOnce
  <2> SUFFICES ASSUME OnceInv, NEW i \in Items PROVE Cardinality(Holders(i)) = 1
    BY DEF UniqueItemOnce
  <2>1. \A m \in Maps : i \in View(m).uniq <=> i \in WorldUniq[m]
    BY DEF WorldUniq
  <2>2. \E x : Holders(i) = {x}
    <3>1. InOnePlace(i, WorldUniq, inv)
      BY DEF OnceInv
    <3>2. CASE /\ \E m \in Maps : \A n \in Maps : i \in WorldUniq[n] <=> n = m
               /\ \A p \in Players : i \notin inv[p]
      <4> PICK m \in Maps : \A n \in Maps : i \in WorldUniq[n] <=> n = m
        BY <3>2
      <4>1. Holders(i) = {m}
        BY <2>1, <3>2 DEF Holders
      <4> QED
        BY <4>1
    <3>3. CASE /\ \A n \in Maps : i \notin WorldUniq[n]
               /\ \E p \in Players : \A q \in Players : i \in inv[q] <=> q = p
      <4> PICK p \in Players : \A q \in Players : i \in inv[q] <=> q = p
        BY <3>3
      <4>1. Holders(i) = {p}
        BY <2>1, <3>3 DEF Holders
      <4> QED
        BY <4>1
    <3> QED
      BY <3>1, <3>2, <3>3 DEF InOnePlace
  <2> QED
    BY <2>2, FS_Singleton
<1> QED
  BY <1>1, <1>2, <1>3, <1>4, AlwaysWhole, PlayersStayOnLoadedMaps, PTL DEF Spec
=============================================================================
