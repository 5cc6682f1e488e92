# Formal model of the Crossfire server

This directory holds TLA+ specifications of parts of the Crossfire server (the C++ program under
`server/`, `common/`, `socket/`), the configurations with which TLC checks them on small instances,
and proofs, checked by TLAPS, of what holds for every instance. `PROJECT.json` maps every definition to
the lines it models, and lists runs, mutated forms, findings, hazards and theorems.

## 1. The system

The server is one thread that repeats `server_main`'s loop: advance the clock; `do_server` reads the
sockets and runs the commands that arrived; `process_events` moves every active object; timers run;
`check_active_maps` swaps an idle map to disk; `do_specials` looks whether the server is to stop
(`check_shutdown`) and then runs the periodic jobs (`flush_old_maps` every 509 ticks, metaserver figures
every 2521, `accounts_save` every 2531, `write_book_archive` every 5003, `clean_friendly_list` every 5009,
`party_obsolete_parties` every 5011, `fix_luck` every 12503); `update_players` sends the output. A second
thread reports to the metaserver.
Handlers therefore interleave at the grain of whole calls, and what makes the program hard is not data
races but *long sequences of legal calls* over linked structures and files that must agree.

| Component | State | Operations | Interacts with | Hard behaviour | Correct when |
|---|---|---|---|---|---|
| Map storage and swapping (`common/map.cpp`, `server/swap.cpp`) | `first_map` list of `mapstruct`; temporary, `.v00` and `players/` files; `temp.maps` | `ready_map_name`, `save_map`, `free_map`, `delete_map`, `swap_map`, `check_active_maps`, `flush_old_maps`, `write_map_log`, `read_map_log` | players, DM commands, start and stop | timeouts against players, failed saves, reset groups, crash between two files, restart | a map with players is in memory, files are owned, nothing is lost or doubled, groups reset together |
| Players on maps, tick loop (`server/server.cpp`) | `pl->ob->map`, `map->timeout`, active list | `enter_exit`, `leave`, `process_events`, `do_specials`, `do_shutdown`, `clean_tmp_files` | everything | order of jobs within a tick, shutdown | an abandoned map leaves memory, a stop keeps what is to be kept |
| DM map commands (`server/c_wiz.cpp`) | - | `command_swap`, `command_reset` | map storage | error paths after a failed swap | same as maps |
| Active object list (`common/object.cpp`, `process_events`) | doubly linked list, marker, tags | `object_update_speed`, `object_remove_from_active_list`, the walk | every object operation | any object may vanish or appear during the walk | each object active at the start and still active is processed once |
| Sessions and sockets (`socket/loop.cpp`, `socket/init.cpp`, `socket/request.cpp`, `server/player.cpp`, `server/login.cpp`) | `init_sockets`, `first_player`, socket status, player state | accept, `handle_client`, account and play commands, `check_login`, `save_player`, `leave`, `final_free_player` | accounts, maps, parties | a socket moves from slot to player, dead slots are reused, a second login takes over | one owner per connection, one live player per character, saved before freed |
| Accounts (`server/account.cpp`) | `accounts`, `accounts_logged_in` | login, logout, new, link, remove, save, load | sessions | names compared with and without case | the logged-in set is that of the live sockets, a character belongs to one account |
| Parties (`server/party.cpp`) | party list, `pl->party` | form, join, leave, remove, obsolete | sessions | a party is freed when its last member goes | `pl->party` names a listed party, no party is empty |
| Metaserver thread (`socket/metaserver.cpp`) | two mutexes, the figures | update, loop, init, exit | main loop | the only real concurrency: exit against a transfer | exit terminates, figures are read whole |
| Packet framing (`socket/lowlevel.cpp`, `handle_client`) | read buffer of each connection | `SockList_ReadPacket`, `SockList_ResetRead` | sessions | any fragmentation; a login in the middle of a buffer | the packets executed are those sent, whole, in order |
| Output files (`common/output_file.cpp`) | temporary name | `of_open`, `of_close`, `of_cancel` | all saves | failing close | a file is old or new, never partial |
| Shared strings (`common/shstr.cpp`) | reference counts | add, refcount, free | all | counts | no string is freed while used |
| Buttons and gates (`common/button.cpp`, `types/gate`) | values of connected objects; animation, direction and `move_block` of gates | `update_button`, `trigger_connected`, `update_buttons`, `gate_type_process` | objects moved on the map, map loading, `process_events` | many buttons, one connection; a gate reversed or stepped into at any height | gates follow the objects on the buttons, block nobody in, and get there |
| Game rules, random maps, plugins, display, assets, records | large tables | - | - | sequential | not candidates for this method (see 7) |

## 2. Plan

1. **Maps** (done): `MapStorage` (what each call does to one map and its files), `MapLifecycle` (the
   handlers), `MapStore` (the abstract promise), `MapLifecycleProofs`, `MapFilesProofs`,
   `MapWorldProofs`.
2. **Active object list** (done): `ActiveList` (the links, the handlers, the marker walk of
   `process_events`), `ActiveSet` (the abstract promise: each object active at the start and still
   active is visited once), `ActiveListProofs`, `ActivePassProofs`.
3. **Sessions** (done): `SessionState` (sockets, players, characters), `Parties`, `AccountBook`, `Login`
   (the handlers), `Sessions` (`do_server`, which composes them), `SessionsProofs`.
4. **Metaserver thread** (done): `Metaserver`, with liveness.
5. **Framing** (done): `Framing`, `PacketQueue` (the abstract promise); `Network` composes it with the
   metaserver thread, `NetworkProofs` holds the theorems of both.
6. **Buttons and gates** (done): `Gates`, with liveness, and `GatesProofs`.
7. Left: output files (commit by rename, which `MapStorage` and `Login` take as one step that may fail);
   the outgoing side of `socket/lowlevel.cpp`; saving and reading of accounts. Every safety property
   that a passing run checks has a theorem.

Bounds: two connections, two characters, two accounts, one party, two packets: the smallest numbers at
which two actors compete for one thing, and a third connection for the one question that needs it.

## 3. Modules

**`MapStorage`** is a library of functions of one map's structure `s` and files `d`. `MapStruct` keeps
`in_memory`, `timeout` (ticks), `ttr` (`reset_time` as seconds left), `reset_group`, whether `tmpname`
is set, and the objects: `reg`, ordinary content, is "original", "played" or "empty" (freed); `uniq` is
the set of objects with `FLAG_UNIQUE`. `MapFiles` are the temporary file, the `.v00` file, the file
under `players/` of a per-player map, the line of `temp.maps`, and whether the directory of temporary files
holds one that no structure of the process knows (`orphan`). `SavedStruct`/`SavedFiles` are
`save_map` with each of its failures in the order of the code: objects are freed inside
`save_map_to_stream`, the unique file is renamed (or unlinked) before the temporary one.
`ready_map_name`/`ReadyFiles`, `swap_map`/`SwapFiles`/`SwapLogs`, `map_can_reset`,
`FlushStruct`/`FlushFiles`, `write_map_log`, `read_map_log` translate the functions they are named for.

**`MapLifecycle`** has one action per handler. State: `server` (running, stopped, crashed), `maps`,
`disk`, `loc` (where each player's object is), `inv` and `saved` (unique items carried, and in the
player file). Actions: `Enter` (`enter_exit` with `ready_map_name` and `player_map_change_common`),
`Leave` (`save_player` and `leave`), `SavePlayer`, `PickUp`, `Drop`, `Play` (ordinary objects change),
`TouchMap` (any other call of `ready_map_name`), `SecondPasses`, `check_active_maps`,
`flush_old_maps`, `command_swap`, `command_reset`, `Shutdown` (`do_shutdown` with
`save_and_kick_all_players` and `clean_tmp_files`), `Crash`, `CrashInSwap` (the process dies between the
two renames of a save), `Boot` (`init` with `read_map_log`).

**`MapStore`** says what players may rely on: maps whose content changes only by play, by taking and
dropping, by a reset of whole groups of empty maps, and by an orderly restart. `MapLifecycle`
instantiates it with `View`, the map an arriving player would find (structure and files together).

`Careful` and `PlacedOnce` name the conditions under which that holds. **`MCMapLifecycle`** gives the
constants for TLC, **`MCMapWorld`** those of `maps_world`, where TLC finds the conditions met.
**`MapLifecycleProofs`** holds the theorems about types, players and temporary files, **`MapFilesProofs`**
those about what is on disk, **`MapWorldProofs`** those about the world the players see.

**`ActiveList`** is the doubly linked list `active_objects`. `list` holds the head and both links of
every object and of the marker, which is a node like any other; `SetPrev` and `SetNext` set one pointer
(`SetNext` of nothing sets `active_objects`), and `Insert`, `Unlink`, `InsertMarker`, `MoveMarker`,
`RemoveMarker` are the assignments of `object_update_speed`, `object_remove_from_active_list` and
`process_events` in their order. `used` is the complement of `FLAG_FREED`; `speed`, `speed_left` and
`place` (on a map in memory or in an inventory, nowhere, on a map swapped out) are the fields
`process_events` looks at; `op` is the object `process_object` runs for. Handlers, between passes and
inside one while `op` is set: `object_new`, `object_free`, `SetSpeed` (a new speed followed by
`object_update_speed`), `object_copy_no_speed`, `LoadStyleObject`, `Move`, `Delay`. The pass:
`StartPass`, `Visit` (the marker steps on, the object is checked, thrown off the list, or acts, or is
paid), `Return`, `EndPass`.

**`ActiveSet`** says what a pass promises, with sets: it visits, once each, the objects that were active
when it began and still are. `ActiveList` instantiates it with the nodes that can be reached over the
links (`From`): the active objects are those reached from `active_objects`, the pending ones those reached
from behind the marker. **`MCActiveList`** gives the constants; **`ActiveListProofs`** holds the theorems
about the list, **`ActivePassProofs`** the one about the pass.

**`SessionState`**, **`Parties`**, **`AccountBook`** and **`Login`** are libraries of functions on *worlds*.
One thread runs each handler to its end, so a handler is a function from the record of all session state
to the next one, and the calls inside it are applications inside one another, in the order of the code:
`Drop(w, p, ok)` is `final_free_player` after `leave` after `save_player`. `sock` holds both kinds of
`socket_struct`: the entries of `init_sockets`, named by index, and the copy each player carries, named by
the player. `fd` is the descriptor's *number*, `open` the set of numbers the process has open, so that a
number kept after its descriptor was closed and handed out again is told from an owner. `plist` is the
list `first_player`, `pl` the player structures, which are reused after `free_player`; `parties` and
`passwd` are the listed parties and those with a password; `accounts`, `chars` and `logged_in` are the
account table and `accounts_logged_in`; `file` is the player directory, `unsaved` the characters that
gained something since their file was written.

**`Sessions`** has the loop. `pc` says which part of `do_server`, or of the rest of the tick, runs, and
`cur` is the player the loop visits next. `watched` holds the descriptors whose bit may be set in the two
sets that `do_server` fills once (`StartSelect`) and gives to `select` again and again while the tick lasts:
nothing takes out the bit of a descriptor that is closed in the meantime, except that `select` clears what is
not ready and `FD_CLR` a player whose read ended (`BitsStay` leaves both open). Actions of the loop: `FreeDeadSlot` and `DropDeadPlayer` (what
died since the last call), `StartSelect`, `NewConnection`, `SlotCloses`, `VisitPlayers`, `PlayerCloses`,
`Skip`, `SelectAgain`, `EndSelect`, `BadDescriptor`, `AutoSave`, `SweepParties`, `EndTick`. `BadDescriptor`
is a `select` that fails: the first of a tick when an owner's descriptor was closed behind its back, a later
one also when a bit is left of a descriptor that was closed since, by `quit` or by another login, although
all owners are well. `check_all_fds` then marks whatever names a closed number, free entries included, and
`do_server` returns. Connections are accepted before anything is closed in a turn of the loop, because the
listening sockets are the first entries of `init_sockets`. Commands: `Login_` (`accountlogin`), `NewAccount`, `AddCharacter`, `PlayCharacter`,
`CreateCharacter`, `LegacyLogin` (`addme`), `ReplyName`, `ReplyPassword`, `ReplyCreate`,
`ReplyPlayAgain`, `Gain`, `Savebed`, `Delete`, `ReplyQuit`, `FormParty`, `JoinParty`, `LeaveParty`,
`SetPassword`, `ReplyPartyPassword`. `Serve(n, w)` is what surrounds each of them: the handler of a
command from `n` led to world `w`; for a player `pl->next` is read afterwards and the player dropped if
the handler killed its connection; for an entry whose connection moved to a player, the late answer on
the entry may fail. `SendFails` is any write to a player finding the connection broken. `Crash` is
undefined behaviour that ends the process. **`MCSessions`** gives the constants.

**`Framing`** is one connection: `SockList_ReadPacket` called by `handle_client`. `wire` holds the bytes
still in the kernel, `inbuf` what the server has read of the current packet; `ReadHeader` and `ReadBody`
take any number of the bytes that have arrived, `Base` is the number of values of a byte (256 in the code)
and `InputLimit` the length passed to `SockList_ReadPacket`. `handler` says who reads the connection, the
entry it came in on or the player it has moved to, with what was read so far; `serving` that `handle_client`
runs, `count` how many commands it has executed, `up` that the connection is not marked dead.
**`PacketQueue`** is the promise: a queue of packets, put in by the client and executed in order.
**`Metaserver`** is the second thread: `ms2_signal`, `ms2_info_mutex`, the figures, the report it copies
them to, and the exit. **`Network`** runs both next to each other; **`MCNetwork`** gives the constants.

**`Gates`** is one connection value of a map. `at` says on which square a thing is, or who carries it;
`conn` holds the values of the buttons and pedestals and, of each gate, `value` (its direction), `wc` (the
animation), whether it has a speed (`moving`), `food` (going down to let something out) and `move_block`
(`blocks`). `update_button` and `trigger_connected` are functions of these, as the code calls them from
`object_remove` (`Left`) and `object_insert_in_map` (`Landed`). What holds a button down is a constant: for
each button the sets of things that are enough, whatever their weights, races and slaying fields are.
Actions: `Step` (`move_ob`, and any other way for a creature to another square), `PickUp`, `Steal`
(`attempt_steal`, from the inventory of a creature on another square), `Drop`, `Throw` (`do_throw`),
`Destroy`, `Reload` (a map that was swapped out comes back), and `gate_type_process`, whose disjuncts are the
branches of the code. `slipped` remembers that a load shrank without a call of `update_button`; `grown` that
one grew so, since the last call for any button of the connection. A pedestal looks only at what is on it, a
button also at what is carried (`On`). **`MCGates`** gives the constants, **`GatesProofs`** holds the theorems.

### Abstractions

- The order of `first_map` shows only in which due map `check_active_maps` takes; the model takes any.
- Seconds are kept as time left, saturating at 0. `temp.maps` stores differences too; a never-resetting
  map (`reset_time` -1) is not modelled (written as -1, it comes back due at once).
- The hidden flag of DMs and the counter `map->players` are replaced by the player list itself.
- `MAP_FLUSH`, overlays, random maps, weather maps, pets and golems are left out. `SAVE_ERROR_WRITE` and
  `SAVE_ERROR_NO_PATH` behave as an open failure or cannot occur for maps with a path.
- In `MapLifecycle` the player file is always written; in `Sessions` `SaveOutcomes` says whether it may fail.
- A failure to write `temp.maps` is one Boolean per handler, off in the runs, covered by the theorems.
- `command_reset` reads the map after `swap_map` may have deleted it, and enters through a freed exit
  after some failed saves. The outcomes modelled are: it continues as intended, or the process dies.
- Speeds of objects are whole numbers, a speed below `MIN_ACTIVE_SPEED` is 0, and the sign that marks a
  randomised speed is dropped. Objects in icecubes, which pay ten times, and `casting_time` are left out.
  Players are no objects here: `do_server` spends their `speed_left`.
- A debt of `speed_left` is one turn. What a freed object holds is forgotten at once; `object_new` clears
  it before anybody may look.
- What a client types is a model value: a password of a character is one of `Passwords` or blank, passwords
  of accounts are right or wrong (a wrong one changes nothing), that of a party fits or not.
- `ST_CONFIRM_PASSWORD`, `ST_ROLL_STAT` and `ST_CHANGE_CLASS` are one state, `CREATE`, that ends with a
  character in play, with the name asked again, or with the client giving up.
- What a send does is its failure: `SendFails` may mark any player's connection dead between two handlers,
  and for the one write that matters inside a handler `LateWritesFail` does so on the entry left behind.
- A structure of `Players`, `PartyIds` or `Fds` that was freed may be handed out again at once.
- The report of the metaserver thread is a transfer that takes any time and ends; curl's time limit of
  30000 s bounds it. The sleep between two reports is the wait for the signal mutex, which may time out.
- Weight on a button is that of the things and of what they carry; that a container may make its content
  lighter is left out, as are partial stacks. A creature that dies or leaves is on `Floor`, like everything
  that is neither on a button nor on a gate. Which thing lies on top is any of those on the square.
- A thief may take from any creature on another square: which squares adjoin is not modelled. Two creatures
  on `Floor` may be on two squares. Items are never made: a script or a quest that puts an object straight
  into the inventory of a creature on a button, or a spell that feeds it, would be one more way for a load to
  grow unnoticed, and set `grown` as a theft does.
- A throw is one step. The flight takes several ticks, in which the item is nowhere (`Floor`): the first half
  alone, for a throw at nothing, is `Throw` to `Floor`, and the landing works the button as any insertion does.
- A hit by a gate kills or does not; what a killed monster carried lies on the gate.
- A start removes no file: a temporary file that no line of `temp.maps` names stays on disk for good, under a
  name that is never used again. `BootFiles` turns it into an `orphan`, of which the model keeps only that
  there is one for this map.

## 4. Runs

`a`, `b` are shared maps (one reset group when both are there), `h` a per-player map.

| Run | Bounds | Shows |
|---|---|---|
| `maps_core` | maps a (fixed reset time, unique floor), h; 2 players, one DM; all save errors; stop and crash | `TypeOK`, `PlayersOnLoadedMaps`, `TmpFileOwned`, `SwappedMapBacked`, `OnlyCrashesOrphanFiles` |
| `maps_world` | maps a, b in one group; 1 player, 1 unique item; failing saves; restarts; fairness; 54,708 states | `UniqueItemOnce`, `RefinesMapStore`, `GroupResetsTogether`, `AbandonedMapsLeaveMemory` |
| `maps_recycle` | `recycle_tmp_maps`, crashes also inside a save | `SwappedMapsSurviveCrash` |
| `maps_recycle_stop` | recycling, orderly stop | finding: `RecycledFilesExist` is violated |
| `maps_unique_returns` | an item of a map without unique floor | finding: `UniqueItemOnce` is violated |
| `active_list` | 3 objects, speeds 0 and 1, one object that may be delayed or left dangling; fairness | `TypeOK`, `LinksAgree`, `OnlyLiveNodesListed`, `RefinesActiveSet`, `PassEnds`, `ActiveObjectsAct` |
| `sessions_accounts` | clients with accounts: 2 entries, 2 descriptors, 2 players, 1 character, 2 accounts; 1.4 million states | `DescriptorsOwned`, `OwnersOpen`, `LoopOnLivePlayers`, `CharOneAccount`, `LeaversSaved` |
| `sessions_parties` | clients without accounts: 1 entry, 2 descriptors, 2 players, 2 characters, 1 party; late writes may fail; 0.5 million states | `TypeOK`, `PartiesListed` |
| `sessions_two_of_one` | 3 connections that name 1 character | finding: `UniqueInPlay` is violated |
| `sessions_moved` | the late answer to a login fails | finding: `OwnersOpen` is violated |
| `network` | 2 values of a byte, a buffer of 5, 2 packets out of four kinds, 2 commands executed; both threads; fairness; 85,622 states | `TypeOK`, `RefinesPacketQueue`, `FiguresWhole`, `StopsOnlyAtExit`, `PacketsExecuted`, `ExitEnds` |
| `gates` | a button and a pedestal, a gate and an inverted gate, 1 player, 1 monster, 1 item, 6 animations; fairness; 128,831 states | `TypeOK`, `HeldButtonsHeard`, `ReleaseHeard`, `NobodyInGate`, `ClosedGateBlocks`, `GatesArrive` |

**Why the bounds are enough.** Two maps are the smallest reset group, and the smallest world where one
map is swapped while another is due; one shared and one per-player map take every branch of `save_map`
and `ready_map_name`. Two players are needed for a map that stays occupied after one leaves and for a DM
who resets under another player. A timeout of 2 has the values "never" (0), "due" (1) and "waiting" (2).
A retry of 1 is due at once, which is the least favourable for what is saved; in `maps_world` it is 2, so
that the other map has a tick of its own between two attempts, as it has in the server, where 60 to 90
ticks lie between them. A reset time of 1 is either expired or not. `maps_world` has no DMs because `command_reset` takes one map out of its group by design.
`maps_core` runs without recycling, where `SwappedMapBacked` holds (`maps_recycle_stop` shows why it
does not with it), and lets every save error happen before, during and after stops and crashes: an
orphan needs a crash between a save and the next start, and `OnlyCrashesOrphanFiles` says that nothing
else makes one.

Three objects and the marker are the fewest with which a node has strangers on both sides while the
marker moves, so that every link an operation writes may belong to a third node. One of the three (`Victims`) may
be delayed, taken off its map or out of its inventory again, or left on a map that is swapped out; the
checks that deal with such objects look at one at a time.

For sessions, two descriptors are the fewest with which one may be closed and handed out again while
another is in use, and two players the fewest with which a login drops somebody, the handler of one frees
the other, and a party outlives a member. The two kinds of client are separate runs because they share no
command before the character plays; `sessions_accounts` starts with a character no account lists, so that
both `account_link` after a save and `accountaddplayer` can be the first to list it. Parties appear with
legacy clients only: the party code does not look at how a player logged in. `LateWritesFail` is FALSE in
`sessions_accounts` because with it `OwnersOpen` and `DescriptorsOwned` fail, which `sessions_moved` shows;
it is TRUE in `sessions_parties`, so that what follows from it keeps `TypeOK` and `PartiesListed`.
`BadDescriptor` happens in both: with it FALSE, through the bit of a descriptor that a handler closed, and
then the entries it marks are free ones whose number is closed, which is what `DescriptorsOwned` is about.
Symmetry is sound: these runs have no liveness property, and players,
characters and accounts occur nowhere in a fixed order. `Gainers` is empty in `sessions_parties`, which asks
nothing about saves, to keep the run short.

For the network, with two values of a byte the two length bytes count to 3, and a buffer of 5 refuses that
length as the code refuses its largest; packets are empty (which ends the connection), too long, one that
logs in and an ordinary one, so that reads end within the length, within the body, at the end, and behind
a login that moves the connection to a player. Two packets are the fewest with which bytes of a second
one are waiting when the first is executed. `MaxSent` and `MaxCommands` bound
what the client sends and what one visit executes.

For gates, two buttons are the fewest with which one is left while the other is held, and they differ: the
button b1 is held down by a player alone, or by a monster and the item together, so that a load may be of
two things that come and go separately, and a monster on b1 may become heavy enough by stealing; the pedestal
by a player, or by its key, the item, as long as that lies there and is not carried. The two gates are told opposite things. Six
animations leave a step between the two half-way marks and the ends. Everything hears pushes and releases
in the run; the theorems hold for any choice.

**Fairness.** For maps, `FairSpec` assumes weak fairness of `check_active_maps`, which the loop runs every tick,
and of `flush_old_maps`, which it runs every 509 ticks; nothing a player does can prevent either, and
nothing is assumed of players. `AbandonedMapsLeaveMemory` excludes a map that something keeps asking
for, since `ready_map_name` re-arms its timer each time, and one whose own swap keeps failing, since a save
error keeps a map in memory. `SwapFails(m)` is an attempt at m itself: that another map is swapped in m's
turn, or fails to be, again and again, is no excuse. One swap per tick starves nobody as long as fewer maps
compete than ticks lie between two attempts at one of them (60 at least), which the run's two maps and retry
of 2 satisfy. With a retry of 1 a map that keeps failing could hold up the other for ever (`SwapMapRetryAtOnce`).

For the active list, `FairSpec` assumes that the loop starts a pass every tick, that the `while` loop of
`process_events` goes on, and that `process_object` returns (`WF(Return)`): handlers are plain calls that
may create and free objects but cannot keep the pass from its next object. `ActiveObjectsAct` excludes
objects that are delayed again and again.

For the network, `FairSpec` assumes that the main loop and the metaserver thread go on (weak fairness of
their steps), that a transfer ends, that a waiting thread gets a mutex that is free again and again, and
that a connection with bytes waiting is read again and again (strong fairness: `select` reports it each
time it is asked). Nothing is assumed of clients. Sessions have no fairness: their properties are of safety.

For gates, `FairSpec` assumes weak fairness of `gate_type_process` of each gate: `process_events` runs
everything that has a speed. Nothing is assumed of creatures, so `GatesArrive` speaks of gates whose value
stays, and of closing only when the square stays empty.

## 5. What disagreed

Shown by a run:

- *A stop with recycling removes swapped maps* (`server/server.cpp:1078`): maps already on disk lose the
  file that `temp.maps` lists.
- *A unique item returns* (`common/map.cpp:1543`): unlinking the `.v00` file when no unique object is
  left brings the original's item back at the next reset.
- *One character, two connections* (`server/login.cpp:538`): `check_login` looks at the first other player
  of that name only. A connection that named the character and does not play hides the one that does.
- *The moved entry* (`socket/request.cpp:2672`): a login answers on the entry of `init_sockets` whose
  connection has moved. If that write fails, the entry is marked dead and its number, which the player
  uses, is closed; `check_all_fds` then drops the player.

Read in the code and modelled as it is, without a run of its own:

- A failed swap empties the map (`common/map.cpp:1450`): `swap_map` says the map is kept in memory in case
  of error, but the objects are freed before the files are committed.
- Groups do not survive a restart (`server/swap.cpp:57`): `temp.maps` has no reset group.
- Speed 1.0 (`server/server.cpp:1040`): the documentation says such an object acts every tick; an object
  is paid only in ticks in which it does not act, so it acts every second one.
- `accountplay` compares names with players that have none (`socket/request.cpp:2630`), and
  `receive_play_again` takes a reference to a name that is NULL: `Crash`.
- A party may be freed while a player is asked for its password (`server/c_party.cpp:41`).
- `createplayer` over a connection that plays another character, and a connection lost while the player is
  asked whether to quit, save nothing (`socket/request.cpp:2720`, `server/login.cpp:265`).
- `play_again` sets the connection to `Ns_Add`, also when a write earlier in the same handler marked it
  dead.
- `check_login` clears the party pointer of a loaded player without leaving the party, so an empty party
  may stay listed until `party_obsolete_parties` runs: the sweep is needed, not a precaution.
- `SockList_ReadPacket` refuses the largest length the comment of `MAXSOCKBUF` allows
  (`socket/lowlevel.cpp:327`), and an empty packet ends the connection.
- The metaserver's `curl` time limit of 30000 s may hold up an orderly exit by that long.
- *A release that is forgotten.* `update_button` weighs every button of the connection again but passes on
  only a change of the one it was called for (`common/button.cpp:218`). `object_remove` calls nothing for
  things without a move type, so an item thrown from a button, or destroyed on it, lightens it unnoticed;
  if the update of another button then comes first, the gates are never told of the release, although
  `type_92.dox` says that "the <connection> value gets triggered a second time". With a monster that holds
  one button together with the item it carries, throws it onto the other button and goes away, the gate
  stays open with nothing on any button. A theft from who stands there does the same. Reloading does not "sort it out" (`common/button.cpp:57-60`):
  `load_temporary_map` does not call `update_buttons`, and `mapfile_load` finds the values already consistent.
  `ReleaseHeard` holds without such a load, and only then.
- *A push that is late.* `attempt_steal` (`server/skills.cpp:197`) puts what it takes into the thief's
  inventory without updating the button the thief stands on, whose load may become enough to hold it down. The
  gates are told when a button of the connection is next stepped on or off; `HeldButtonsHeard` holds apart from
  that time (`grown`).
- The comment of `trigger_connected` (`common/button.cpp:41-43`) has push and release the wrong way round,
  and `gate_type_process` looks only at the square of a gate's head, although every part gets `move_block`.
- A gate with fewer than 5 animations may come to rest at the top without blocking, if what stood in it
  leaves before it gives way; `GatesAssumption` excludes it.

## 6. Proofs

`MapLifecycleProofs` proves for every set of maps, players and items, every timeout and every
combination of errors, with or without recycling:

- `TypeCorrect`: `Spec => []TypeOK`. One lemma per storage function says that it returns a structure, or
  files, of the right type; the step theorem has one case per action.
- `PlayersStayOnLoadedMaps`: `Spec => []PlayersOnLoadedMaps`. The invariant is inductive with `TypeOK`.
  The argument: what can take a map out of memory (`swap_map`, `FlushStruct`, stops) returns an occupied
  map in memory, and `command_reset` moves away only the one DM it brings back.
- `TmpFilesAreOwned`: `Spec => []TmpFileOwned`. Not inductive: after a crash the file must be known from
  its line, and a per-player map must have neither. `OwnedInv` adds both: per-player maps have no
  temporary file and no line, and in a stopped or crashed server nothing is in memory.

Assumptions: `MapsAssumption` (per-player maps are in no group; constants have their types),
`TimesAssumption` (timeouts are positive, the retry is not above `MAP_MINTIMEOUT`),
`NoFileAssumption` (the value for "no such file" is not the content of one) and
`RunAssumption`; TLC evaluates all four in every run. What a theorem needs beyond them is a hypothesis of
that theorem, and each is a setting of the server, a choice of the map makers, or an event that is
excluded.

`MapFilesProofs`:

- `SwappedMapsHaveFiles`: `Spec => []SwappedMapBacked`, without recycling and otherwise for all errors,
  crashes and DM commands. Not inductive: a map that the next boot takes from a line of `temp.maps` would be
  swapped out without a file if the line named one that is gone. `BackedInv` adds that without recycling
  there are no lines, and that a server that does not run has nothing in memory.
- `OnlyCrashesOrphan`: `Spec => OnlyCrashesOrphanFiles`, without recycling, or with it if `temp.maps` can be
  written, for all errors, crashes and DM commands. The argument: only a start makes orphans, of files no live
  line names (`OrphansAtBoot`, and a lemma for each handler that it makes none). A process ends by a crash or a
  stop (`HowProcessesEnd`); a stop unlinks or lists every temporary file of its process
  (`ShutdownLeavesListed`), and nothing happens to them before the next start. With recycling this needs
  `LogInv`, without it `BackedInv`.
- `SwappedMapsOutliveCrashes`: `Spec => SwappedMapsSurviveCrash` with recycling, provided that `temp.maps`
  can be written (`~LogErrors`): a swap rewrites the file, and if that fails the new map is in no line.
  `LogInv` says that a swapped-out map has a line, and that a line is live just when its file exists.

`MapWorldProofs`:

- `GroupsResetTogether`: `Spec => GroupResetsTogether` without recycling and without DMs, for all save
  errors and crashes. The recycling setting is excluded because `temp.maps` has no reset group: after a
  restart the maps of a group go their own ways. `command_reset` takes a map out of its group. `GroupInv`
  says that otherwise every structure carries the group of its map.
- `MapsAreAWorld`: `Spec => RefinesMapStore`, and `UniqueItemsStayUnique`: `Spec => []UniqueItemOnce`.
  `Careful` is what both need beyond the above. A failing close or rename of the unique file comes after the objects were
  freed, so the map is empty (section 5). A crash loses what is in memory, and may double what a player
  saved. A map of fixed reset time that is in no group is deleted instead of saved when it is swapped out,
  together with unique items dropped there. A map without unique floor brings an item of its original back
  (`maps_unique_returns`). `WholeInv` says that no content that can be read is "empty" and that the `.v00`
  file exists where the original holds unique items; `SavedInv` that who is logged out has what the player
  file says. The step lemmas compute what an arriving player finds, before and after each handler: a swap
  and a reading back leave it as it is, and a flush of a group makes it the original everywhere.
  `UniqueItemsStayUnique` adds that an item is in one place at the start (`PlacedOnce`), and follows from
  the steps of `MapStore`: `OnceInv` is kept by taking, dropping, resetting, which leaves unique items where
  they are, and restarting.

`WorldAssumption` has TLC check that the instance of `maps_world` meets `Careful` and `PlacedOnce`.

`ActiveListProofs` proves for every number of objects, every set of speeds and every sequence of handler
calls, inside and outside a pass:

- `TypeCorrect`: `Spec => []TypeOK`; `speed_left` never exceeds the largest speed.
- `LinksAlwaysAgree`: `Spec => []LinksAgree`. Not inductive: the links of a ring beside the list agree
  with one another, and moving the marker in a ring of two tears it. The invariant `Inv` adds `Straight`:
  some ranking of the nodes grows along the links. Inserting ranks a node below the head, moving the
  marker exchanges two ranks, and removing changes none.
- `FreedObjectsUnlisted`: `Spec => []OnlyLiveNodesListed`. So "BUG: Free object on list" is never logged.

The argument has three layers: lemmas that give every link after an operation (`InsertLinks`, ...),
lemmas that the operation keeps a sound list and say who is on it afterwards (`InsertSound`, ...), and the
step lemma `NextInv`, with one case per action.

`ActivePassProofs` adds `PassesVisitOnce`: `Spec => RefinesActiveSet`, the refinement. The active and the
pending objects are sets of nodes that can be reached from a node, so lemmas come first that say what an
insertion (`FromInserted`), a removal (`FromCut`) and a step of the marker (`FromMoved`) do to such a set,
each by showing closed sets to be contained in one another; that links never lead back (`NoReturn`) comes from
the ranking. `Chain` says that who is listed can be reached from `active_objects`: without it an object
beside the list would be taken for an active one that no pass visits. `UpdateSpeedStep` then covers
all handlers, and `VisitStep` the pass: the marker steps over an object that was pending and is not any
more, and a stray is taken off after that.

The only assumption of both is `ActiveAssumption`: the marker and
the null pointer are no objects, and a turn costs something.

`NetworkProofs` proves for every size of a byte, every buffer size, every set of packets and every
fragmentation:

- `PacketsAreAQueue`: `Spec => RefinesPacketQueue`, the refinement with its abstract specification. Not
  inductive: what is on the wire and in the buffer must be known to be whole packets. `FramingInv` adds
  `StreamInv` (there are bytes and cut points such that what was read, what is buffered and what is on
  the wire are those bytes, cut there into the packets of the queue) and `HandlerInv` (what the buffer
  holds is less than its packet, and the reader is the one the packets executed so far make it).
- `ReportsWhole`: `Spec => []FiguresWhole`, from `InfoInv`: whoever writes or copies figures holds
  `ms2_info_mutex`.
- `ThreadStopsAtExit`: `Spec => []StopsOnlyAtExit`, from `SignalInv`: the thread gets `ms2_signal` only
  after the main thread has given it up.
- `NetworkTypes`: `Spec => []TypeOK`.

The only assumption is `FramingAssumption`: a byte has at least two values, the buffer at least the two
length bytes, and the length of what a client sends fits them.

`SessionsProofs` proves for every number of entries, descriptors, players, characters, accounts and
parties:

- `TypeCorrect`, `PartiesStayListed`, `LoopVisitsLivePlayers` and `CharsOfOneAccount`: `TypeOK`,
  `PartiesListed`, `LoopOnLivePlayers` and `CharOneAccount` always hold.
- `DescriptorsHaveOneOwner` and `OwnersKeepOpen`: so do `DescriptorsOwned` and `OwnersOpen` if
  `LateWritesFail = FALSE`; without that they fail (`sessions_moved`).
- `LeaversAreSaved`: `Spec => LeaversSaved` if `SaveOutcomes = {TRUE}`: a file that cannot be written is
  not saved.

A handler is a function from worlds to worlds, so the argument is one about functions. `Sound(w)` says
that a world has its type, nobody is on the list twice, players point to listed parties, sockets and the
logged-in set name accounts there are, no character is in two accounts, and who is asked for a password
has named a character; it is the inductive invariant, with the position of the loop. `Owned(w)` is what
`OwnersOpen` and `DescriptorsOwned` need: whoever holds a descriptor holds an open one, alone, and none is
lost; an entry beyond `alloc` holds none. `check_all_fds` breaks it: it marks free entries whose old number is
closed, which then count as holders until they are freed. `OwnedOrMarked` allows just that, and `OInv` says
that it always holds and that `Owned` holds while connections are served: a marked entry's number is closed,
no number is handed out before the marked entries are freed (`FreeMarkedEntry`, `NoneMarked`), and freeing
one closes nobody's descriptor. Each helper (`Save`, `Leave`, `PartyJoin`, `MoveSocket`, ...) has
a lemma that it keeps a world sound and says what it leaves alone, and each command a lemma that it is
`Handled`: it keeps `Sound` and `Owned`, the sender stays on the list, whoever else was dropped was saved,
and the sender's connection dies only when there was nothing to save. `ServeSettles` adds the loop (`pl->next` read after the
handler, the sender dropped if its connection died), and `NextSettles` has one case per action. That
`check_login` finds the *first* other player of a name needs a least position of a list: `LeastPosition`.

Assumptions: `SessionsAssumption` (constants have their types; no character is in two accounts when they
are read), `NamesAssumption` and `SizesAssumption`.

`GatesProofs` proves for every number of buttons, gates, creatures and items, every rule of what holds a
button down and every number of animations from 5:

- `HeldButtonsAreHeard`: `Spec => []HeldButtonsHeard`, and `ReleasesAreHeard`: `Spec => []ReleaseHeard`.
  Neither is inductive: what the gates were told must be tied to what the buttons *remember*.
  `ButtonsInv` says that a held button is recorded as down unless a load grew since `update_button` was last
  called, that as long as one is recorded as down the push was heard, and that the release was heard when none
  is held and no load slipped. `TakenKeeps` covers what is taken by pick-up or theft: a load that neither
  shrank nor grew unnoticed holds the same buttons (`HeldUnlessLighter`, `HeldUnlessHeavier`), and a call for
  any button weighs all of them, so that it ends `grown`. `LeftKeeps` and
  `LandedKeeps` keep it over the two halves of a move; both rest on `UpdateButtons`, which needs no more than
  that a release was heard if `update_button` is to pass nothing on.
- `GatesStayClear`: `Spec => []NobodyInGate`. `NudgedGates` says that a call of `update_button` leaves a
  gate's animation and what it blocks alone, so it may happen in the middle of a gate's step (`RollOff`).
- `GatesAtRestAgree`: `Spec => []ClosedGateBlocks`. `GateOK` adds that a gate that blocks is at least
  half-way up and not giving way, and one that does not is at most half-way up, or one step more while it
  gives way. With 5 animations that step is not the top.
- `GatesTypeCorrect`: `Spec => []TypeOK`.

The only assumption is `GatesAssumption`: the sets are disjoint, more on a button never lifts it, nothing
on it does not hold it down, and there are 5 animations or more.

Only model-checked: liveness, which is out of the prover's reach, as are the fairness conditions it rests on:
`AbandonedMapsLeaveMemory`, `PassEnds`, `ActiveObjectsAct`, `PacketsExecuted`, `ExitEnds`, `GatesArrive`.
The four properties that runs refute have no theorems.

## 7. Not modelled

- *Of sessions*: the steps of character creation, the change of passwords, permanent death, the limit of
  characters per account, the accounts file and the spelling of account names (compared with and without
  case), crash and restart of sessions (nothing of a session is persistent but the files `MapLifecycle`
  and `Login` write), the contents of output buffers, and liveness: nothing in the code promises a client
  an answer.
- *Output files* (`of_open`, `of_close`): a write to a temporary name and a rename, taken as one step that
  may fail.
- *Shared strings*: reference counts; within reach, not written.
- *Of buttons and gates*: handles, `TRIGGER_*` objects, altars, detectors, holes, timed gates, directors,
  firewalls and event scripts on a connection; gates of several squares and those that never block
  (`luck`); flying things, and DMs who walk through gates.
- Combat, spells, skills and treasure are sequential rules over large tables; random maps are pure
  generators over grids; plugins and modules call code that is loaded at run time; line of sight and item
  display are output; archetypes and assets are parsed once; knowledge, quests, hiscores and books are
  per-player records that interact with nothing else here. They are most of the source, and none of it
  is the interplay of actors that this method is for.
