---------------------------- MODULE AccountBook ----------------------------
(***************************************************************************)
(* The accounts in memory (server/account.cpp): the characters of each, and*)
(* the set accounts_logged_in that account_login and account_logout keep.  *)
(***************************************************************************)
EXTENDS SessionState

\* account_get_account_for_char; a character no account lists has none.
AccountsOf(w, c) == {a \in w.accounts : c \in w.chars[a]}

AccountNew(w, a)      == [w EXCEPT !.accounts = @ \cup {a}]
AccountLink(w, a, c)  == [w EXCEPT !.chars[a] = @ \cup {c}]
AccountRemovePlayer(w, a, c) == [w EXCEPT !.chars[a] = @ \ {c}]

-----------------------------------------------------------------------------
(* account_login_cmd with the right password.                              *)
AccountLogin(w, n, a) ==
    [w EXCEPT !.logged_in = @ \cup {a}, !.sock[n].account = a]

(* account_new_cmd: the socket gets the account, the set does not.         *)
AccountNewCmd(w, n, a) == [AccountNew(w, a) EXCEPT !.sock[n].account = a]

(* account_add_player_cmd, password of the character given and right.      *)
CanAddPlayer(w, n, c, force) ==
    /\ w.sock[n].account # Null
    /\ w.file[c].exists
    /\ \A p \in Live(w) : w.pl[p].name # c           \* verify_player
    /\ \A a \in AccountsOf(w, c) :
          a # w.sock[n].account /\ force /\ a \notin w.logged_in
\* Mutated form of AccountAddPlayer: the other account keeps the character.
AccountAddPlayerTwice(w, n, c) == AccountLink(w, w.sock[n].account, c)

AccountAddPlayer(w, n, c) ==
    LET linked == AccountLink(w, w.sock[n].account, c)
    IN  IF AccountsOf(w, c) = {} THEN linked
        ELSE AccountRemovePlayer(linked, CHOOSE a \in AccountsOf(w, c) : TRUE, c)
=============================================================================
