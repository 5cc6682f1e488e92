---------------------------- MODULE SessionState ----------------------------
(***************************************************************************)
(* What a client connection, a player and a character are to the server:   *)
(* init_sockets (socket/loop.cpp), the list first_player with the socket   *)
(* copy of each player (server/player.cpp), the listed parties             *)
(* (server/party.cpp), the accounts (server/account.cpp) and the player    *)
(* files (server/login.cpp).                                               *)
(*                                                                         *)
(* One thread runs every handler to its end, so a handler is a function    *)
(* from a world, the record of all this state, to the next one, and calls  *)
(* inside a handler are applications inside one another.                   *)
(***************************************************************************)
EXTENDS Integers, FiniteSets, Sequences

CONSTANTS
    MaxFds,       \* descriptors the process may have open for clients
    MaxSlots,     \* bound on the length of init_sockets
    Players,      \* memory for player structures
    Chars,        \* character names
    Accounts,     \* account names
    PartyIds,     \* memory for party structures
    PartyNames,   \* names of parties
    PartyName,    \* the name a structure of PartyIds is given
    Passwords,    \* what clients type as the password of a character
    Null,         \* the null pointer: no party, no account, no name
    Anon          \* a name no character has: the archetype's, or "noname"

Fds   == 1 .. MaxFds
NoFd  == 0
Slots == 1 .. MaxSlots

ASSUME SizesAssumption == MaxFds \in Nat \ {0} /\ MaxSlots \in Nat \ {0}
ASSUME NamesAssumption ==
    /\ Players \cap Slots = {}
    /\ Null \notin UNION {Players, Chars, Accounts, PartyIds, PartyNames, Passwords}
    /\ Anon \notin Chars \cup {Null}
    /\ PartyName \in [PartyIds -> PartyNames]

\* Names of both kinds of socket_struct: an entry of init_sockets is named by
\* its index, the copy of a player by the player.
Sockets == Slots \cup Players

\* ST_CONFIRM_PASSWORD, ST_ROLL_STAT and ST_CHANGE_CLASS are CREATE.
States == {"GET_NAME", "GET_PASSWORD", "CREATE", "PLAYING",
           "GET_PARTY_PASSWORD", "CONFIRM_QUIT", "PLAY_AGAIN"}

Socket == [status : {"Avail", "Add", "Dead"}, fd : Fds \cup {NoFd},
           account : Accounts \cup {Null}]
Player == [name : Chars \cup {Null, Anon}, password : Passwords \cup {Null},
           state : States, exp : BOOLEAN, left : BOOLEAN,
           party : PartyIds \cup {Null}, party_to_join : PartyIds \cup {Null}]
PlayerFile == [exists : BOOLEAN, password : Passwords \cup {Null},
               party : PartyNames \cup {Null}]

NoSocket == [status |-> "Avail", fd |-> NoFd, account |-> Null]
\* A structure as get_player leaves it: ST_ROLL_STAT, the name of the archetype.
NewPlayer == [name |-> Anon, password |-> Null, state |-> "CREATE",
              exp |-> FALSE, left |-> FALSE, party |-> Null, party_to_join |-> Null]
NoFile == [exists |-> FALSE, password |-> Null, party |-> Null]

Live(w) == {w.plist[i] : i \in DOMAIN w.plist}

\* Sockets whose descriptor the server is responsible for.
Owners(w, f) == {s \in Slots : w.sock[s].fd = f /\ w.sock[s].status # "Avail"}
                  \cup {p \in Live(w) : w.sock[p].fd = f}

\* The player after p on the list, pl->next.
NextOf(w, p) ==
    LET at == {i \in DOMAIN w.plist : w.plist[i] = p /\ i < Len(w.plist)}
    IN  IF at = {} THEN Null ELSE w.plist[(CHOOSE i \in at : TRUE) + 1]

-----------------------------------------------------------------------------
(* get_player(NULL): a structure at the end of the list.                   *)
AddPlayer(w, p) ==
    [w EXCEPT !.plist = Append(@, p), !.pl[p] = NewPlayer]

\* Mutated form of MoveSocket: the entry is not marked as moved.
MoveSocketKept(w, s, p) == [w EXCEPT !.sock[p] = w.sock[s], !.sock[s].account = Null]

(* set_player_socket and the ns->status = Ns_Avail of its callers: the     *)
(* player gets a copy of the entry, the entry keeps the descriptor's number*)
(* but no account.                                                         *)
MoveSocket(w, s, p) ==
    [w EXCEPT !.sock = [@ EXCEPT ![p] = w.sock[s],
                                 ![s].status = "Avail", ![s].account = Null]]

\* Mutated form of FreeSocket: the entry is not marked as free again.
FreeSocketStillUsed(w, n) ==
    [w EXCEPT !.open = @ \ {w.sock[n].fd},
              !.logged_in = @ \ {w.sock[n].account},
              !.sock[n].fd = NoFd, !.sock[n].account = Null]

(* free_newsocket: closes whatever the number names now, and logs the      *)
(* account out.                                                            *)
FreeSocket(w, n) ==
    [w EXCEPT !.open = @ \ {w.sock[n].fd},
              !.logged_in = @ \ {w.sock[n].account},
              !.sock[n].fd = NoFd, !.sock[n].account = Null,
              !.sock[n].status = "Avail"]

(* final_free_player: off the list (free_player unlinks the one node), then*)
(* the socket.                                                             *)
Unlinked(list, p) ==
    LET at == CHOOSE i \in DOMAIN list : list[i] = p
    IN  [i \in 1 .. Len(list) - 1 |-> IF i < at THEN list[i] ELSE list[i + 1]]

FreePlayer(w, p) ==
    FreeSocket([w EXCEPT !.plist = Unlinked(@, p), !.pl[p] = NewPlayer], p)
=============================================================================
