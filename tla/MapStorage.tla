----------------------------- MODULE MapStorage -----------------------------
(***************************************************************************)
(* One map of the Crossfire server and the files that back it: what        *)
(* save_map, free_map, delete_map, ready_map_name, swap_map, the reset     *)
(* test of flush_old_maps and the temp.maps log do to the structure and to *)
(* the disk.  Everything here is a function of its arguments; the module   *)
(* MapLifecycle turns these functions into actions.                        *)
(*                                                                         *)
(* Data are abstracted to what the properties tell apart.  A map's         *)
(* ordinary objects are "original" (as the map maker wrote them), "played" *)
(* (changed since) or "empty" (freed); its unique objects are a set of     *)
(* items.  Reset times are kept as seconds left, saturating at 0: temp.maps*)
(* stores them in that form too, so a restart needs no absolute clock.     *)
(***************************************************************************)
EXTENDS Naturals, FiniteSets

CONSTANTS
    Maps,            \* map paths
    PlayerMaps,      \* the '~' paths: per-player unique maps
    Players,
    Items,           \* objects carrying FLAG_UNIQUE
    Group,           \* Group[m]: reset_group in the header of m's original file
    NoGroup,
    FixedReset,      \* maps whose header says fixed_resettime
    FloorMaps,       \* maps with a unique floor tile
    TemplateItems,   \* TemplateItems[m]: unique items in m's original file
    MinTimeout,      \* MAP_MINTIMEOUT, in ticks
    RetryTimeout,    \* 60 + rndm(0, 30), in ticks
    ResetTimeout,    \* reset_timeout after set_map_reset_time, in seconds
    NoFile,          \* a file, or a line of temp.maps, that does not exist
    NoMap            \* not on any map

ASSUME MapsAssumption ==
    /\ PlayerMaps \subseteq Maps
    /\ NoMap \notin Maps
    /\ FixedReset \subseteq Maps
    /\ FloorMaps \subseteq Maps
    /\ TemplateItems \in [Maps -> SUBSET Items]
    /\ \A m \in PlayerMaps : Group[m] = NoGroup

ASSUME TimesAssumption ==
    /\ MinTimeout \in Nat \ {0}
    /\ RetryTimeout \in 1..MinTimeout
    /\ ResetTimeout \in Nat \ {0}

Versions == {"original", "played", "empty"}

\* What a save can run into, by the SAVE_ERROR_ it returns.
SaveOutcomes == {"OK", "RCREATION", "UCREATION", "URENAME", "CLOSE"}

(***************************************************************************)
(* mapstruct, and the files of one map: the file of temp dir that tmpname  *)
(* names, the .v00 file of unique objects, the file under players/ for a   *)
(* per-player map, and the map's line of temp.maps.  A line is live while  *)
(* the file it names still exists.  orphan: the temp dir holds a file of m *)
(* that an earlier process wrote and that no structure or line names.      *)
(***************************************************************************)
MapStruct(m) ==
    [in_memory   : {"unlinked", "IN_MEMORY", "SWAPPED"},
     timeout     : 0..MinTimeout,
     ttr         : 0..ResetTimeout,
     reset_group : {Group[m], NoGroup},
     tmpname     : BOOLEAN,
     reg         : Versions,
     uniq        : SUBSET Items]

TmpFiles(m)  == [reg : Versions, reset_group : {Group[m], NoGroup}]
HomeFiles    == [reg : Versions, uniq : SUBSET Items]
LogLines     == [ttr : 0..ResetTimeout, live : BOOLEAN]

MapFiles(m) ==
    [tmp    : TmpFiles(m) \cup {NoFile},
     v00    : (SUBSET Items) \cup {NoFile},
     home   : HomeFiles \cup {NoFile},
     entry  : LogLines \cup {NoFile},
     orphan : BOOLEAN]

\* A file that does not exist is told apart from every file that does.
ASSUME NoFileAssumption ==
    /\ \A f \in HomeFiles : f # NoFile
    /\ \A f \in LogLines : f # NoFile
    /\ \A u \in SUBSET Items : u # NoFile
    /\ \A m \in Maps : \A f \in TmpFiles(m) : f # NoFile

\* No structure is linked in first_map for this path.
Unlinked ==
    [in_memory |-> "unlinked", timeout |-> 0, ttr |-> 0, reset_group |-> NoGroup,
     tmpname |-> FALSE, reg |-> "empty", uniq |-> {}]

NoFiles == [tmp |-> NoFile, v00 |-> NoFile, home |-> NoFile, entry |-> NoFile, orphan |-> FALSE]

(***************************************************************************)
(* clean_tmp_map: unlink the temporary file.  A line of temp.maps that     *)
(* named it stays in the log.                                              *)
(***************************************************************************)
clean_tmp_map(d) ==
    [d EXCEPT !.tmp = NoFile,
              !.entry = IF @ = NoFile THEN @ ELSE [@ EXCEPT !.live = FALSE]]

(***************************************************************************)
(* save_map in SAVE_MODE_NORMAL.  The two files are committed by rename,   *)
(* the unique objects first; free_all_objects runs inside                  *)
(* save_map_to_stream, before either rename.                               *)
(***************************************************************************)
HasUniqueData(m, s) == s.uniq # {} \/ (m \in FloorMaps /\ s.reg # "empty")

OpenFails(m, err)      == err = "RCREATION" \/ (err = "UCREATION" /\ m \notin PlayerMaps)
UniqueFails(m, s, err) == err = "URENAME" /\ m \notin PlayerMaps /\ HasUniqueData(m, s)
SaveOK(m, s, err)      == ~(OpenFails(m, err) \/ UniqueFails(m, s, err) \/ err = "CLOSE")

SavedStruct(m, s, err) ==
    [s EXCEPT !.tmpname = (m \notin PlayerMaps),
              !.reg  = IF OpenFails(m, err) THEN @ ELSE "empty",
              !.uniq = IF OpenFails(m, err) THEN @ ELSE {}]

\* The .v00 file once its rename, or its unlink when nothing is unique, is done.
CommitUnique(m, s, d) == [d EXCEPT !.v00 = IF HasUniqueData(m, s) THEN s.uniq ELSE NoFile]

SavedFiles(m, s, d, err) ==
    IF OpenFails(m, err) \/ UniqueFails(m, s, err) THEN d
    ELSE IF m \in PlayerMaps
         THEN [d EXCEPT !.home = IF err = "CLOSE" THEN @ ELSE [reg |-> s.reg, uniq |-> s.uniq]]
         ELSE [CommitUnique(m, s, d) EXCEPT
                  !.tmp = IF err = "CLOSE" THEN @
                          ELSE [reg |-> s.reg, reset_group |-> s.reset_group]]

(***************************************************************************)
(* ready_map_name, without MAP_FLUSH.  FreshMap is mapfile_load of the     *)
(* original followed by load_unique_objects (which drops the original's    *)
(* own unique objects only when it finds a .v00 file).                     *)
(***************************************************************************)
FreshMap(m, d) ==
    [in_memory |-> "IN_MEMORY", timeout |-> MinTimeout, ttr |-> ResetTimeout,
     reset_group |-> Group[m], tmpname |-> FALSE, reg |-> "original",
     uniq |-> IF m \in PlayerMaps \/ d.v00 = NoFile THEN TemplateItems[m] ELSE d.v00]

HomeMap(m, d) == [FreshMap(m, d) EXCEPT !.reg = d.home.reg, !.uniq = d.home.uniq]

TmpMap(s, d) ==
    [s EXCEPT !.in_memory = "IN_MEMORY", !.timeout = MinTimeout, !.tmpname = FALSE,
              !.reset_group = IF d.tmp.reset_group = NoGroup THEN @ ELSE d.tmp.reset_group,
              !.reg = d.tmp.reg,
              !.uniq = IF d.v00 = NoFile THEN {} ELSE d.v00]

HasTmpFile(s, d) == s.in_memory = "SWAPPED" /\ s.tmpname /\ d.tmp # NoFile

ready_map_name(m, s, d) ==
    IF s.in_memory = "IN_MEMORY" THEN [s EXCEPT !.timeout = MinTimeout]
    ELSE IF m \in PlayerMaps THEN (IF d.home = NoFile THEN FreshMap(m, d) ELSE HomeMap(m, d))
    ELSE IF HasTmpFile(s, d) THEN TmpMap(s, d)
    ELSE FreshMap(m, d)

\* The files after ready_map_name: a temporary file that was loaded is removed.
ReadyFilesKeepingTmp(m, s, d) == d

ReadyFiles(m, s, d) ==
    IF m \notin PlayerMaps /\ HasTmpFile(s, d) THEN clean_tmp_map(d) ELSE d

(***************************************************************************)
(* swap_map on a map that is in memory.  occupied: a player is on it.      *)
(***************************************************************************)
\* Mutated form: a map whose save failed is tried again in the next tick.
SwapMapRetryAtOnce(m, s, occupied, err) ==
    LET t == SavedStruct(m, [s EXCEPT !.ttr = IF m \in FixedReset THEN @ ELSE ResetTimeout], err)
    IN  IF s.in_memory # "IN_MEMORY" THEN s
        ELSE IF occupied THEN [s EXCEPT !.timeout = 0]
        ELSE IF t.ttr = 0 /\ t.reset_group = NoGroup THEN Unlinked
        ELSE IF SaveOK(m, s, err) THEN [t EXCEPT !.in_memory = "SWAPPED", !.timeout = 0]
        ELSE [t EXCEPT !.timeout = 1]

\* Mutated form: the timeout is added to the reset time the map already has.
SetMapResetTimeAdding(m, s) == [s EXCEPT !.ttr = IF m \in FixedReset THEN @ ELSE @ + ResetTimeout]

set_map_reset_time(m, s) == [s EXCEPT !.ttr = IF m \in FixedReset THEN @ ELSE ResetTimeout]

ResetsAtOnce(m, s) == LET t == set_map_reset_time(m, s)
                      IN  t.ttr = 0 /\ t.reset_group = NoGroup

SwapSaves(m, s, occupied) ==
    s.in_memory = "IN_MEMORY" /\ ~occupied /\ ~ResetsAtOnce(m, s)

\* Mutated form: the search of the player list is gone.
SwapMapIgnoringPlayers(m, s, occupied, err) ==
    LET t == SavedStruct(m, set_map_reset_time(m, s), err)
    IN  IF s.in_memory # "IN_MEMORY" THEN s
        ELSE IF ResetsAtOnce(m, s) THEN Unlinked
        ELSE IF SaveOK(m, s, err) THEN [t EXCEPT !.in_memory = "SWAPPED", !.timeout = 0]
        ELSE [t EXCEPT !.timeout = RetryTimeout]

\* Mutated form: a map whose save failed is freed and marked swapped all the same.
SwapMapDespiteError(m, s, occupied, err) ==
    LET t == SavedStruct(m, set_map_reset_time(m, s), err)
    IN  IF s.in_memory # "IN_MEMORY" THEN s
        ELSE IF occupied THEN [s EXCEPT !.timeout = 0]
        ELSE IF ResetsAtOnce(m, s) THEN Unlinked
        ELSE [t EXCEPT !.in_memory = "SWAPPED", !.timeout = 0, !.reg = "empty", !.uniq = {}]

\* Mutated form: the reset group does not stop a map from resetting at swap time.
SwapMapIgnoringGroup(m, s, occupied, err) ==
    LET t == SavedStruct(m, set_map_reset_time(m, s), err)
    IN  IF s.in_memory # "IN_MEMORY" THEN s
        ELSE IF occupied THEN [s EXCEPT !.timeout = 0]
        ELSE IF set_map_reset_time(m, s).ttr = 0 THEN Unlinked
        ELSE IF SaveOK(m, s, err) THEN [t EXCEPT !.in_memory = "SWAPPED", !.timeout = 0]
        ELSE [t EXCEPT !.timeout = RetryTimeout]

swap_map(m, s, occupied, err) ==
    LET t == SavedStruct(m, set_map_reset_time(m, s), err)
    IN  IF s.in_memory # "IN_MEMORY" THEN s
        ELSE IF occupied THEN [s EXCEPT !.timeout = 0]
        ELSE IF ResetsAtOnce(m, s) THEN Unlinked
        ELSE IF SaveOK(m, s, err) THEN [t EXCEPT !.in_memory = "SWAPPED", !.timeout = 0]
        ELSE [t EXCEPT !.timeout = RetryTimeout]

SwapFiles(m, s, d, occupied, err) ==
    IF SwapSaves(m, s, occupied) THEN SavedFiles(m, s, d, err) ELSE d

\* swap_map reached write_map_log (it does so only with recycle_tmp_maps).
SwapLogs(m, s, occupied, err) == SwapSaves(m, s, occupied) /\ SaveOK(m, s, err)

(***************************************************************************)
(* temp.maps: write_map_log lists every structure that is not in memory    *)
(* and has a tmpname; read_map_log turns each line into a swapped-out      *)
(* structure of no reset group.                                            *)
(***************************************************************************)
write_map_log(s, d) ==
    [d EXCEPT !.entry = IF s.in_memory = "SWAPPED" /\ s.tmpname
                        THEN [ttr |-> s.ttr, live |-> d.tmp # NoFile]
                        ELSE NoFile]

read_map_log(d) ==
    IF d.entry = NoFile THEN Unlinked
    ELSE [Unlinked EXCEPT !.in_memory = "SWAPPED", !.ttr = d.entry.ttr, !.tmpname = TRUE]

\* A temporary file that no line names stays where it is, and belongs to no
\* structure of the new process: nothing will load or remove it any more.
Orphaned(d) == d.tmp # NoFile /\ (d.entry = NoFile \/ ~d.entry.live)

BootFiles(d) == [d EXCEPT !.tmp = IF Orphaned(d) THEN NoFile ELSE @,
                          !.orphan = @ \/ Orphaned(d)]

(***************************************************************************)
(* flush_old_maps over the whole list ms of structures; occ is the set of  *)
(* maps with a player.  List order does not show: a group is ready as a    *)
(* whole or not at all, and per-player maps are in no group.               *)
(***************************************************************************)
map_can_reset_no_group(s) == s.in_memory = "SWAPPED" /\ s.tmpname /\ s.ttr = 0

\* Mutated form: the other members of the group are not asked.
MapCanResetAlone(ms, m) == map_can_reset_no_group(ms[m])

map_can_reset(ms, m) ==
    /\ map_can_reset_no_group(ms[m])
    /\ ms[m].reset_group # NoGroup =>
         \A n \in Maps \ {m} :
            ms[n].reset_group = ms[m].reset_group => map_can_reset_no_group(ms[n])

\* Mutated form: an abandoned map whose timeout was never set is not re-armed.
FlushStructNoRearm(ms, m, occ) ==
    IF m \in PlayerMaps /\ ms[m].in_memory = "SWAPPED" THEN Unlinked
    ELSE IF map_can_reset(ms, m) THEN Unlinked
    ELSE ms[m]

FlushStruct(ms, m, occ) ==
    IF m \in PlayerMaps /\ ms[m].in_memory = "SWAPPED" THEN Unlinked
    ELSE IF map_can_reset(ms, m) THEN Unlinked
    ELSE IF ms[m].in_memory = "IN_MEMORY" /\ ms[m].timeout = 0 /\ m \notin occ
         THEN [ms[m] EXCEPT !.timeout = MinTimeout]
    ELSE ms[m]

\* Mutated form: delete_map without clean_tmp_map, which leaves the file behind.
FlushFilesNoUnlink(ms, m, d) == d

FlushFiles(ms, m, d) ==
    IF m \notin PlayerMaps /\ map_can_reset(ms, m) THEN clean_tmp_map(d) ELSE d
=============================================================================
