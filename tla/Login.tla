------------------------------- MODULE Login -------------------------------
(***************************************************************************)
(* Saving, leaving, logging in and giving up a character (server/login.cpp,*)
(* leave of server/server.cpp, the account commands of socket/request.cpp, *)
(* the end of a character in server/player.cpp) as functions on worlds.    *)
(***************************************************************************)
EXTENDS Parties, AccountBook

CONSTANT RejoinAlways   \* pl->rejoin_party is party_rejoin_always

InPlay == {"CREATE", "PLAYING", "GET_PARTY_PASSWORD", "CONFIRM_QUIT"}

-----------------------------------------------------------------------------
(* save_player. Nothing is saved of a player without experience, one who   *)
(* left, or one in another state than these two. A new character is linked *)
(* to the account first; when the file cannot be written it stays as it was*)
Savable(w, p) ==
    /\ w.pl[p].exp /\ ~w.pl[p].left
    /\ w.pl[p].state \in {"PLAYING", "GET_PARTY_PASSWORD"}
    /\ w.pl[p].name \in Chars

Save(w, p, ok) ==
    LET c == w.pl[p].name
        a == w.sock[p].account
        linked == IF a # Null /\ AccountsOf(w, c) = {} THEN AccountLink(w, a, c)
                  ELSE w
        g == w.pl[p].party
        file == [exists |-> TRUE, password |-> w.pl[p].password,
                 party |-> IF g = Null THEN Null ELSE PartyName[g]]
    IN  IF ~Savable(w, p) THEN w
        ELSE IF ok THEN [linked EXCEPT !.file[c] = file, !.unsaved = @ \ {c}]
        ELSE linked

(* leave: the object is no longer a PLAYER, so a later save does nothing.  *)
Leave(w, p) ==
    PartyLeave([w EXCEPT !.sock[p].status = "Dead", !.pl[p].left = TRUE], p)

\* Mutated form of Drop: the player has left when it is saved.
DropLeavingFirst(w, p, ok) == FreePlayer(Save(Leave(w, p), p, ok), p)

(* The three calls everyone who drops a player makes, in this order.       *)
Drop(w, p, ok) == FreePlayer(Leave(Save(w, p, ok), p), p)

-----------------------------------------------------------------------------
(* wrong_password: the name is gone; after the last attempt the connection *)
(* is.                                                                     *)
WrongPassword(w, p, last) ==
    LET w1 == [w EXCEPT !.pl[p].name = Anon]
    IN  IF last THEN [w1 EXCEPT !.sock[p].status = "Dead"]
        ELSE [w1 EXCEPT !.pl[p].state = "GET_NAME"]

(* The party the file names is joined if it is listed and the password of  *)
(* the file (opts.guarded if there is one) still fits, formed with that    *)
(* password if it is not listed and the player wants that.                 *)
Rejoin(w, p, n, opts) ==
    LET found == PartyFind(w, n)
        joined == CHOOSE g \in found : TRUE
        fresh == {g \in PartyIds \ w.parties : PartyName[g] = n}
        formed == CHOOSE g \in fresh : TRUE
    IN  IF n = Null THEN w
        ELSE IF found # {}
        THEN IF opts.guarded = (joined \in w.passwd) /\ (opts.guarded => opts.fits)
             THEN PartyJoin(w, p, joined) ELSE w
        ELSE IF RejoinAlways /\ fresh # {}
        THEN [PartyForm(w, p, formed) EXCEPT
                !.passwd = IF opts.guarded THEN @ \cup {formed} ELSE @]
        ELSE w

(* The rest of check_login once the file is open: the party pointer is     *)
(* cleared without leaving the party.                                      *)
Load(w, p, opts) ==
    LET file == w.file[w.pl[p].name]
        pl   == [w.pl[p] EXCEPT !.party = Null, !.state = "PLAYING",
                    !.password = file.password, !.exp = TRUE, !.left = FALSE]
    IN  Rejoin([w EXCEPT !.pl[p] = pl], p, file.party, opts)

(* check_login. Only the first other player of the list with this name is  *)
(* looked at, whatever state it is in: without a password (accounts, Null) *)
(* or with the password that player has, that player is dropped.           *)
SameName(w, p) ==
    {i \in DOMAIN w.plist : w.plist[i] # p /\ w.pl[w.plist[i]].name = w.pl[p].name}
First(w, is) == w.plist[CHOOSE i \in is : \A j \in is : i <= j]

CheckLogin(w, p, password, opts) ==
    LET same == SameName(w, p)
        q    == First(w, same)
        w1   == IF same = {} THEN w ELSE Drop(w, q, opts.ok)
        file == w1.file[w.pl[p].name]
    IN  IF same # {} /\ password \notin {Null, w.pl[q].password}
        THEN WrongPassword(w, p, opts.last)
        ELSE IF ~file.exists
             THEN [w1 EXCEPT !.pl[p].state = "CREATE"]        \* confirm_password
        ELSE IF password \notin {Null, file.password}
             THEN WrongPassword(w1, p, opts.last)
        ELSE Load(w1, p, opts)

-----------------------------------------------------------------------------
(* accountplay from socket n, which is that of player p, or an entry of    *)
(* init_sockets and p the structure get_player takes.                      *)
IsPlayer(n) == n \in Players

CanPlay(w, n, c) ==
    /\ w.sock[n].status = "Add"
    /\ w.sock[n].account # Null
    /\ c \in w.chars[w.sock[n].account]

\* Somebody else is already playing that character.
Refusers(w, n, c) ==
    {i \in DOMAIN w.plist : /\ w.plist[i] # n /\ w.pl[w.plist[i]].name = c
                            /\ w.pl[w.plist[i]].state \notin {"PLAY_AGAIN", "GET_NAME"}}
\* The loop compares the names of the players before the one it stops at,
\* whether they have one or not: strcmp(buf, NULL).
Nameless(w, n, c) ==
    \E i \in DOMAIN w.plist : /\ w.plist[i] # n /\ w.pl[w.plist[i]].name = Null
                              /\ \A j \in Refusers(w, n, c) : i < j

AccountPlay(w, n, p, c, opts) ==
    LET w1 == IF IsPlayer(n)
              THEN [Save(w, p, opts.ok) EXCEPT !.pl[p].state = "PLAYING"]
              ELSE MoveSocket(AddPlayer(w, p), n, p)
    IN  CheckLogin([w1 EXCEPT !.pl[p].name = c], p, Null, opts)

(* createplayer: the name must be new. The structure of a player on the    *)
(* same connection is taken over as it is, without saving; with login      *)
(* method 2 the character plays at once.                                   *)
CanCreate(w, n, c) ==
    /\ w.sock[n].status = "Add"
    /\ ~w.file[c].exists
    /\ \A p \in Live(w) : w.pl[p].name # c

CreatePlayer(w, n, p, c, password, at_once) ==
    LET w1 == IF IsPlayer(n) THEN [w EXCEPT !.sock[p].status = "Avail"]
              ELSE MoveSocket(AddPlayer(w, p), n, p)
        w2 == IF at_once
              THEN [w1 EXCEPT !.pl[p] = [@ EXCEPT !.state = "PLAYING", !.exp = FALSE]]
              ELSE w1
    IN  [w2 EXCEPT !.pl[p].name = c, !.pl[p].password = password]

(* addme, the login without account.                                       *)
AddMe(w, n, p) ==
    [MoveSocket(AddPlayer(w, p), n, p) EXCEPT !.pl[p].state = "GET_NAME"]

-----------------------------------------------------------------------------
(* receive_player_password: kept as the player's before it is checked; a   *)
(* blank one asks for the name again, which stays as it is.                *)
ReceivePassword(w, p, password, opts) ==
    IF password = Null THEN [w EXCEPT !.pl[p].state = "GET_NAME"]
    ELSE CheckLogin([w EXCEPT !.pl[p].password = password, !.pl[p].state = "CREATE"],
                    p, password, opts)

(* play_again: a client with accounts gets a fresh structure at once (the  *)
(* memset of get_player clears the party pointer too), others are asked.   *)
Recycle(w, p) ==
    [w EXCEPT !.pl[p] = [NewPlayer EXCEPT !.name = w.pl[p].name, !.state = "GET_NAME"]]
PlayAgain(w, p, accounts) ==
    LET w1 == [w EXCEPT !.sock[p].status = "Add"]
    IN  IF accounts THEN Recycle(w1, p)
        ELSE [w1 EXCEPT !.pl[p].state = "PLAY_AGAIN"]

(* key_confirm_quit: files and account entry are removed, the name is      *)
(* cleared so that it can be used again.                                   *)
ConfirmQuit(w, p, accounts) ==
    LET c == w.pl[p].name
        a == w.sock[p].account
        w1 == [PartyLeave(w, p) EXCEPT !.file[c] = NoFile, !.unsaved = @ \ {c}]
        w2 == IF a = Null THEN w1 ELSE AccountRemovePlayer(w1, a, c)
    IN  [PlayAgain(w2, p, accounts) EXCEPT !.pl[p].name = Null]

(* apply_savebed: save, leave the party, choose the next character.        *)
ApplySavebed(w, p, ok, accounts) ==
    PlayAgain(PartyLeave(Save(w, p, ok), p), p, accounts)
=============================================================================
