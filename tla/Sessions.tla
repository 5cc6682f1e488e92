------------------------------ MODULE Sessions ------------------------------
(***************************************************************************)
(* The connections of the server: do_server (socket/loop.cpp) accepts      *)
(* them, serves the entries of init_sockets and then the players, and drops*)
(* what died; the commands it serves are those of Login, Parties and       *)
(* AccountBook. pc is the part of do_server, or of the rest of the tick,   *)
(* that runs, cur the player its loop visits next.                         *)
(***************************************************************************)
EXTENDS Login

CONSTANTS
    Clients,        \* subset of {"account", "legacy"}: with which login clients come
    LateWritesFail, \* may the answer to the login fail on the entry that was moved?
    SaveOutcomes,   \* {TRUE}, or {TRUE, FALSE} when player files cannot always be written
    Gainers,        \* characters that gain experience while they play
    InitialFiles,   \* characters that have a player file at the start
    InitialChars    \* [Accounts -> SUBSET Chars], as read by accounts_load

\* A character is in one account at most when the accounts are read.
ASSUME SessionsAssumption ==
    /\ SaveOutcomes \subseteq BOOLEAN /\ LateWritesFail \in BOOLEAN
    /\ RejoinAlways \in BOOLEAN
    /\ InitialFiles \subseteq Chars /\ Gainers \subseteq Chars
    /\ InitialChars \in [Accounts -> SUBSET Chars]
    /\ \A a, b \in Accounts : InitialChars[a] \cap InitialChars[b] # {} => a = b

VARIABLES
    pc, cur,
    watched,  \* descriptors whose bit may be set in tmp_read or tmp_exceptions
    open, alloc, sock, plist, pl, parties, passwd,
    accounts, chars, logged_in, file, unsaved
vars == <<pc, cur, watched, open, alloc, sock, plist, pl, parties, passwd,
          accounts, chars, logged_in, file, unsaved>>

World == [open |-> open, alloc |-> alloc, sock |-> sock, plist |-> plist, pl |-> pl,
          parties |-> parties, passwd |-> passwd, accounts |-> accounts, chars |-> chars,
          logged_in |-> logged_in, file |-> file, unsaved |-> unsaved]

Becomes(w) ==
    /\ open' = w.open /\ alloc' = w.alloc /\ sock' = w.sock
    /\ plist' = w.plist /\ pl' = w.pl
    /\ parties' = w.parties /\ passwd' = w.passwd
    /\ accounts' = w.accounts /\ chars' = w.chars /\ logged_in' = w.logged_in
    /\ file' = w.file /\ unsaved' = w.unsaved

Stands == UNCHANGED <<open, alloc, sock, plist, pl, parties, passwd,
                      accounts, chars, logged_in, file, unsaved>>

LivePlayers == {plist[i] : i \in DOMAIN plist}
Allocated   == 1 .. alloc
\* Without parties nothing is asked about their passwords.
PartyDoubts == IF PartyIds = {} THEN {FALSE} ELSE BOOLEAN
Options     == [ok : SaveOutcomes, fits : PartyDoubts, guarded : PartyDoubts, last : BOOLEAN]

Init ==
    /\ pc = "clean" /\ cur = Null /\ watched = {}
    /\ open = {} /\ alloc = 0
    /\ sock = [n \in Sockets |-> NoSocket]
    /\ plist = <<>> /\ pl = [p \in Players |-> NewPlayer]
    /\ parties = {} /\ passwd = {}
    /\ accounts = {a \in Accounts : InitialChars[a] # {}}
    /\ chars = InitialChars /\ logged_in = {}
    /\ \E k \in [InitialFiles -> Passwords] :
          file = [c \in Chars |-> IF c \in InitialFiles
                                  THEN [NoFile EXCEPT !.exists = TRUE, !.password = k[c]]
                                  ELSE NoFile]
    /\ unsaved = {}

-----------------------------------------------------------------------------
(* The beginning of do_server: what died since the last call is freed, the *)
(* entries of init_sockets first, then the players in the order of the list*)
DeadSlots   == {s \in Allocated : sock[s].status = "Dead"}
DeadPlayers == {p \in LivePlayers : sock[p].status = "Dead"}

FreeDeadSlot ==
    /\ pc = "clean"
    /\ \E s \in DeadSlots : Becomes(FreeSocket(World, s))
    /\ UNCHANGED <<pc, cur, watched>>

DropDeadPlayer ==
    /\ pc = "clean" /\ DeadSlots = {}
    /\ \E p \in DeadPlayers, ok \in SaveOutcomes : Becomes(Drop(World, p, ok))
    /\ UNCHANGED <<pc, cur, watched>>

\* What select() is told to watch, and what of it has been closed. The two sets
\* are filled once: select() leaves the bits of what is ready, FD_CLR takes the bit
\* of a player nothing more is read from, and the next select() is given the rest.
Watched == {s \in Allocated : sock[s].status = "Add"}
             \cup {p \in LivePlayers : sock[p].status # "Dead"}
Closed  == {n \in Watched : sock[n].fd \notin open}

StartSelect ==
    /\ pc = "clean" /\ DeadSlots = {} /\ DeadPlayers = {} /\ Closed = {}
    /\ pc' = "slots" /\ watched' = {sock[n].fd : n \in Watched}
    /\ UNCHANGED cur /\ Stands

\* A bit that is set stays set when its descriptor is closed, unless it was not
\* ready or the handler that closed it said that nothing more is to be read.
BitsStay == watched' \in {watched, watched \cap open'}

-----------------------------------------------------------------------------
(* new_connection: the first free entry, or one more. accept() returns the *)
(* lowest descriptor that is not open; with none left, or for a banned     *)
(* host, the entry stays free. The listening sockets are the first entries *)
(* and served before anything select() reported is closed.                 *)
FreeSlots == {s \in Allocated : sock[s].status = "Avail"}
Lowest(S) == CHOOSE i \in S : \A j \in S : i <= j

NewConnection ==
    /\ pc = "slots" /\ watched \subseteq open
    /\ LET s  == IF FreeSlots # {} THEN Lowest(FreeSlots) ELSE alloc + 1
           w1 == [World EXCEPT !.alloc = IF FreeSlots # {} THEN @ ELSE s]
       IN  /\ s \in Slots
           /\ \/ Becomes([w1 EXCEPT !.sock[s].fd = NoFd])
              \/ /\ Fds \ open # {}
                 /\ LET f == Lowest(Fds \ open)
                    IN  Becomes([w1 EXCEPT !.open = @ \cup {f},
                                  !.sock[s] = [status |-> "Add", fd |-> f, account |-> Null]])
    /\ UNCHANGED <<pc, cur, watched>>

\* An entry is served when its bit is set, a player whenever its turn comes.
Serving(n) ==
    \/ pc = "slots" /\ n \in Allocated /\ sock[n].status = "Add" /\ sock[n].fd \in watched
    \/ pc = "players" /\ n = cur /\ n \in Players /\ sock[n].status # "Dead"

Served == {n \in Sockets : Serving(n)}

\* The peer is gone: SockList_ReadPacket fails and the entry waits for the
\* next call, or select() reports an exception and it is freed at once.
SlotCloses(s) ==
    /\ Serving(s)
    /\ \/ Becomes([World EXCEPT !.sock[s].status = "Dead"])
       \/ Becomes(FreeSocket(World, s))
    /\ UNCHANGED <<pc, cur, watched>>

\* Mutated form: a free entry is marked whatever its descriptor names.
check_all_fds_of_free ==
    [n \in Sockets |->
        IF \/ n \in Allocated /\ sock[n].status = "Avail"
           \/ (n \in Allocated \/ n \in LivePlayers) /\ sock[n].fd \notin open
        THEN [sock[n] EXCEPT !.status = "Dead"] ELSE sock[n]]

\* Every entry and player whose descriptor is closed is marked, free entries too.
check_all_fds ==
    [n \in Sockets |->
        IF (n \in Allocated \/ n \in LivePlayers) /\ sock[n].fd \notin open
        THEN [sock[n] EXCEPT !.status = "Dead"] ELSE sock[n]]

(* select() fails with EBADF, the first time because an owner's descriptor *)
(* was closed, later because the bit of one closed since is still set:     *)
(* check_all_fds is called and do_server returns.                          *)
BadDescriptor ==
    /\ \/ pc = "clean" /\ DeadSlots = {} /\ DeadPlayers = {} /\ Closed # {}
       \/ pc = "players" /\ cur = Null /\ ~(watched \subseteq open)
    /\ Becomes([World EXCEPT !.sock = check_all_fds])
    /\ pc' = "tick" /\ watched' = {} /\ UNCHANGED cur

VisitPlayers ==
    /\ pc = "slots"
    /\ pc' = "players" /\ cur' = IF plist = <<>> THEN Null ELSE plist[1]
    /\ UNCHANGED watched /\ Stands

-----------------------------------------------------------------------------
(* Serve(n, w): the handler of a command from socket n led to world w. For *)
(* a player the loop then reads pl->next, and drops the player when the    *)
(* handler killed its connection. For an entry whose connection moved to a *)
(* player, the handler still answers on the entry ("The write below should *)
(* still work", add_me_cmd), which is marked dead if that fails.           *)
\* Mutated form of Serve: pl->next is read before the handler runs.
ServeNextFirst(n, w) ==
    IF n \notin Players THEN Becomes(w) /\ BitsStay /\ UNCHANGED <<pc, cur>>
    ELSE /\ cur' = NextOf(World, n)
         /\ \E ok \in SaveOutcomes :
               Becomes(IF w.sock[n].status = "Dead" THEN Drop(w, n, ok) ELSE w)
         /\ BitsStay /\ UNCHANGED pc

Serve(n, w) ==
    IF n \notin Players
    THEN /\ UNCHANGED <<pc, cur>>
         /\ \/ Becomes(w)
            \/ /\ LateWritesFail /\ w.sock[n].status = "Avail"
               /\ Becomes([w EXCEPT !.sock[n].status = "Dead"])
         /\ BitsStay
    ELSE /\ cur' = NextOf(w, n)
         /\ \E ok \in SaveOutcomes :
               Becomes(IF w.sock[n].status = "Dead" THEN Drop(w, n, ok) ELSE w)
         /\ BitsStay /\ UNCHANGED pc

\* Undefined behaviour that ends the process.
Crash == pc' = "crashed" /\ UNCHANGED <<cur, watched>> /\ Stands

\* The structures a command from n may work on: the player's own, or a new one.
StructuresFor(n) == IF n \in Players THEN {n} ELSE Players \ LivePlayers

Login_(n, a) ==
    /\ Serving(n) /\ "account" \in Clients /\ a \in accounts
    /\ Serve(n, AccountLogin(World, n, a))

NewAccount(n, a) ==
    /\ Serving(n) /\ "account" \in Clients /\ a \notin accounts
    /\ Serve(n, AccountNewCmd(World, n, a))

AddCharacter(n, c, force) ==
    /\ Serving(n) /\ CanAddPlayer(World, n, c, force)
    /\ Serve(n, AccountAddPlayer(World, n, c))

PlayCharacter(n, c, opts) ==
    /\ Serving(n) /\ CanPlay(World, n, c)
    /\ IF Nameless(World, n, c) THEN Crash
       ELSE /\ Refusers(World, n, c) = {}
            /\ \E p \in StructuresFor(n) :
                  Serve(n, AccountPlay(World, n, p, c, opts))

CreateCharacter(n, c, password, at_once) ==
    /\ Serving(n) /\ "account" \in Clients /\ CanCreate(World, n, c)
    /\ \E p \in StructuresFor(n) :
          Serve(n, CreatePlayer(World, n, p, c, password, at_once))

LegacyLogin(n) ==
    /\ Serving(n) /\ n \notin Players /\ "legacy" \in Clients
    /\ \E p \in StructuresFor(n) : Serve(n, AddMe(World, n, p))

\* Whether a client may be one with accounts, or one without.
WithAccounts == {k = "account" : k \in Clients}

-----------------------------------------------------------------------------
(* Commands and replies of players; p is the player the loop visits.       *)
InState(p, state) == Serving(p) /\ p \in Players /\ pl[p].state = state

ReplyName(p, c) ==
    /\ InState(p, "GET_NAME") /\ "legacy" \in Clients
    /\ Serve(p, [World EXCEPT !.pl[p].name = c, !.pl[p].state = "GET_PASSWORD"])

ReplyPassword(p, password, opts) ==
    /\ InState(p, "GET_PASSWORD")
    /\ Serve(p, ReceivePassword(World, p, password, opts))

\* Creation ends with a new character, the name is asked again because the
\* passwords differ, or the client gives up.
ReplyCreate(p, answer, acc) ==
    /\ InState(p, "CREATE")
    /\ CASE answer = "done"   -> Serve(p, [World EXCEPT !.pl[p].state = "PLAYING"])
         [] answer = "differ" -> Serve(p, [World EXCEPT !.pl[p].state = "GET_NAME"])
         [] answer = "quit"   -> Serve(p, PlayAgain(World, p, acc))

\* receive_play_again: with a cleared name add_refcount reads through NULL.
ReplyPlayAgain(p, again) ==
    /\ InState(p, "PLAY_AGAIN")
    /\ IF ~again THEN Serve(p, Leave(World, p))
       ELSE IF pl[p].name = Null THEN Crash
       ELSE Serve(p, Recycle(World, p))

Gain(p) ==
    /\ InState(p, "PLAYING") /\ pl[p].name \in Gainers
    /\ Serve(p, [World EXCEPT !.pl[p].exp = TRUE, !.unsaved = @ \cup {pl[p].name}])

Savebed(p, ok, acc) ==
    /\ InState(p, "PLAYING") /\ pl[p].exp
    /\ Serve(p, ApplySavebed(World, p, ok, acc))

Delete(p) ==
    /\ InState(p, "PLAYING")
    /\ Serve(p, [World EXCEPT !.pl[p].state = "CONFIRM_QUIT"])

ReplyQuit(p, yes, acc) ==
    /\ InState(p, "CONFIRM_QUIT")
    /\ Serve(p, IF yes THEN ConfirmQuit(World, p, acc)
                ELSE [World EXCEPT !.pl[p].state = "PLAYING"])

FormParty(p, g) ==
    /\ InState(p, "PLAYING") /\ CanForm(World, p, g)
    /\ Serve(p, PartyForm(World, p, g))

JoinParty(p, g) ==
    /\ InState(p, "PLAYING") /\ g \in parties
    /\ Serve(p, CommandJoin(World, p, g))

LeaveParty(p) ==
    /\ InState(p, "PLAYING") /\ pl[p].party # Null
    /\ Serve(p, PartyLeave(World, p))

SetPassword(p, set) ==
    /\ InState(p, "PLAYING") /\ pl[p].party # Null
    /\ Serve(p, CommandPasswd(World, p, set))

\* party_to_join may have been freed meanwhile: reading its name then crashes,
\* or finds no party of that name.
ReplyPartyPassword(p, right) ==
    /\ InState(p, "GET_PARTY_PASSWORD")
    /\ IF pl[p].party_to_join \in parties
       THEN Serve(p, ReceivePartyPassword(World, p, right))
       ELSE \/ Crash
            \/ Serve(p, ReceivePartyPassword(World, p, FALSE))

\* No packet from this player, or the player is dead already.
Skip ==
    /\ pc = "players" /\ cur # Null
    /\ cur' = NextOf([plist |-> plist], cur)
    /\ UNCHANGED <<pc, watched>> /\ Stands

\* The peer is gone, seen by the read (its bit is cleared) or as an exception.
PlayerCloses(p, ok) ==
    /\ Serving(p) /\ p \in Players
    /\ Becomes(Drop(World, p, ok)) /\ cur' = NextOf(World, p)
    /\ BitsStay /\ UNCHANGED pc

\* Sending to a player, in whatever handler, finds the connection broken.
SendFails(p) ==
    /\ pc \in {"slots", "players", "tick"} /\ p \in LivePlayers
    /\ sock[p].status # "Dead"
    /\ Becomes([World EXCEPT !.sock[p].status = "Dead"])
    /\ UNCHANGED <<pc, cur, watched>>

\* select() is called again with the same sets while the tick lasts.
SelectAgain ==
    /\ pc = "players" /\ cur = Null /\ watched \subseteq open
    /\ pc' = "slots"
    /\ UNCHANGED <<cur, watched>> /\ Stands

EndSelect ==
    /\ pc = "players" /\ cur = Null
    /\ pc' = "tick" /\ watched' = {}
    /\ UNCHANGED cur /\ Stands

-----------------------------------------------------------------------------
(* The rest of the tick: the automatic save, do_specials.                  *)
AutoSave(p, ok) ==
    /\ pc = "tick" /\ p \in LivePlayers /\ pl[p].state = "PLAYING"
    /\ Becomes(Save(World, p, ok))
    /\ UNCHANGED <<pc, cur, watched>>

SweepParties ==
    /\ pc = "tick"
    /\ Becomes(ObsoleteParties(World))
    /\ UNCHANGED <<pc, cur, watched>>

EndTick ==
    /\ pc = "tick"
    /\ pc' = "clean"
    /\ UNCHANGED <<cur, watched>> /\ Stands

-----------------------------------------------------------------------------
SocketCommand(n) ==
    \/ \E a \in Accounts : Login_(n, a) \/ NewAccount(n, a)
    \/ \E c \in Chars, force \in BOOLEAN : AddCharacter(n, c, force)
    \/ \E c \in Chars, opts \in Options : PlayCharacter(n, c, opts)
    \/ \E c \in Chars, k \in Passwords, now \in BOOLEAN : CreateCharacter(n, c, k, now)
    \/ LegacyLogin(n)

PlayerCommand(p) ==
    \/ \E c \in Chars : ReplyName(p, c)
    \/ \E k \in Passwords \cup {Null}, opts \in Options : ReplyPassword(p, k, opts)
    \/ \E answer \in {"done", "differ", "quit"}, acc \in WithAccounts : ReplyCreate(p, answer, acc)
    \/ \E again \in BOOLEAN : ReplyPlayAgain(p, again)
    \/ Gain(p) \/ Delete(p) \/ LeaveParty(p)
    \/ \E ok \in SaveOutcomes, acc \in WithAccounts : Savebed(p, ok, acc)
    \/ \E yes \in BOOLEAN, acc \in WithAccounts : ReplyQuit(p, yes, acc)
    \/ \E g \in PartyIds : FormParty(p, g) \/ JoinParty(p, g)
    \/ \E set \in BOOLEAN : SetPassword(p, set)
    \/ \E right \in BOOLEAN : ReplyPartyPassword(p, right)
    \/ \E ok \in SaveOutcomes : PlayerCloses(p, ok)

Loop ==
    \/ FreeDeadSlot \/ DropDeadPlayer \/ StartSelect \/ VisitPlayers \/ Skip
    \/ SelectAgain \/ EndSelect \/ EndTick

Next ==
    \/ Loop
    \/ NewConnection \/ BadDescriptor \/ SweepParties
    \/ \E s \in Slots : SlotCloses(s)
    \/ \E n \in Served : SocketCommand(n)
    \/ \E p \in Served \cap Players : PlayerCommand(p)
    \/ \E p \in LivePlayers : SendFails(p)
    \/ \E p \in LivePlayers, ok \in SaveOutcomes : AutoSave(p, ok)

Spec == Init /\ [][Next]_vars

-----------------------------------------------------------------------------
\* Every variable holds a value of its type, and no player is listed twice
\* (get_player, final_free_player).
TypeOK ==
    /\ pc \in {"clean", "slots", "players", "tick", "crashed"}
    /\ cur \in Players \cup {Null}
    /\ watched \subseteq Fds /\ open \subseteq Fds /\ alloc \in 0 .. MaxSlots
    /\ sock \in [Sockets -> Socket]
    /\ plist \in Seq(Players) /\ pl \in [Players -> Player]
    /\ \A i, j \in DOMAIN plist : plist[i] = plist[j] => i = j
    /\ parties \subseteq PartyIds /\ passwd \subseteq parties
    /\ accounts \subseteq Accounts /\ chars \in [Accounts -> SUBSET Chars]
    /\ logged_in \subseteq accounts
    /\ file \in [Chars -> PlayerFile] /\ unsaved \subseteq Chars

\* Every open descriptor has one owner, an entry of init_sockets or a player,
\* whatever moved, failed, was closed with its bit still set in the sets of
\* do_server, or was reused since it was accepted: two would close it twice, and
\* close a stranger's connection with it (set_player_socket, check_all_fds,
\* free_newsocket).
DescriptorsOwned == \A f \in open : Cardinality(Owners(World, f)) = 1

\* The descriptor of an owner is open: nobody closed it behind its back.
OwnersOpen ==
    /\ \A s \in Allocated : sock[s].status = "Add" => sock[s].fd \in open
    /\ \A p \in LivePlayers : sock[p].fd \in open

\* A player points to no party that was freed (party_leave, party_remove,
\* party_obsolete_parties).
PartiesListed == \A p \in LivePlayers : pl[p].party \in parties \cup {Null}

\* The player the loop visits next was not freed by the handler of the one
\* before (do_server, "need next in case" the handler removes a player).
LoopOnLivePlayers == pc = "players" => cur \in LivePlayers \cup {Null}

\* A character is on the list of one account at most (account_link after a
\* save, account_add_player_cmd with force).
CharOneAccount == \A c \in Chars : Cardinality(AccountsOf(World, c)) <= 1

\* Whoever is taken off the list of players while playing is saved in the
\* same step: by a failed read, a failed write, or another login.
LeaversSaved ==
    [][\A p \in LivePlayers \ Live(World)' :
          Savable(World, p) => pl[p].name \notin unsaved']_vars

\* "disconnect old, connect new" (check_login): a character is played by one
\* connection at a time.
UniqueInPlay ==
    \A p, q \in LivePlayers :
        /\ pl[p].name \in Chars /\ pl[p].name = pl[q].name
        /\ {pl[p].state, pl[q].state} \subseteq {"PLAYING", "GET_PARTY_PASSWORD"}
        => p = q
=============================================================================
