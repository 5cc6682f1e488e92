------------------------------ MODULE Parties ------------------------------
(***************************************************************************)
(* Parties of players (server/party.cpp, server/c_party.cpp): a list of    *)
(* structures to which players hold plain pointers.                        *)
(***************************************************************************)
EXTENDS SessionState

\* Mutated form of Members: who is asked for something is not counted.
MembersPlaying(w, g) == {p \in Live(w) : w.pl[p].party = g /\ w.pl[p].state = "PLAYING"}

Members(w, g) == {p \in Live(w) : w.pl[p].party = g}

\* Mutated form of PartyRemove: the password outlives the party.
PartyRemoveKeepingPassword(w, g) ==
    [w EXCEPT !.parties = @ \ {g},
              !.pl = [p \in Players |->
                        IF p \in Members(w, g) THEN [@[p] EXCEPT !.party = Null]
                        ELSE @[p]]]

(* party_remove: off the list, out of every player, freed.                 *)
PartyRemove(w, g) ==
    [w EXCEPT !.parties = @ \ {g}, !.passwd = @ \ {g},
              !.pl = [p \in Players |->
                        IF p \in Members(w, g) THEN [@[p] EXCEPT !.party = Null]
                        ELSE @[p]]]

RemoveIfUnused(w, g) == IF Members(w, g) = {} THEN PartyRemove(w, g) ELSE w

PartyLeave(w, p) ==
    IF w.pl[p].party = Null THEN w
    ELSE RemoveIfUnused([w EXCEPT !.pl[p].party = Null], w.pl[p].party)

PartyFind(w, n) == {g \in w.parties : PartyName[g] = n}

(* party_form: the old party is left first; malloc may hand out any        *)
(* structure that is free then.                                            *)
CanForm(w, p, g) == /\ PartyFind(w, PartyName[g]) = {}
                    /\ g \notin PartyLeave(w, p).parties
PartyForm(w, p, g) ==
    [PartyLeave(w, p) EXCEPT !.parties = @ \cup {g}, !.pl[p].party = g]

PartyJoin(w, p, g) ==
    IF w.pl[p].party = g THEN w
    ELSE [PartyLeave(w, p) EXCEPT !.pl[p].party = g]

(* party_obsolete_parties.                                                 *)
ObsoleteParties(w) ==
    LET used == {g \in w.parties : Members(w, g) # {}}
    IN  [w EXCEPT !.parties = used, !.passwd = @ \cap used]

-----------------------------------------------------------------------------
(* The 'party' command.                                                    *)

\* "join": a party with a password asks for it first (get_party_password).
CommandJoin(w, p, g) ==
    IF g \in w.passwd
    THEN [w EXCEPT !.pl[p].state = "GET_PARTY_PASSWORD",
                   !.pl[p].party_to_join = g]
    ELSE PartyJoin(w, p, g)

\* "passwd": any member may set it.
CommandPasswd(w, p, set) ==
    [w EXCEPT !.passwd = IF set THEN @ \cup {w.pl[p].party}
                                ELSE @ \ {w.pl[p].party}]

\* receive_party_password, when the party is still there.
ReceivePartyPassword(w, p, right) ==
    LET w1 == IF right THEN PartyJoin(w, p, w.pl[p].party_to_join) ELSE w
    IN  [w1 EXCEPT !.pl[p].party_to_join = Null, !.pl[p].state = "PLAYING"]
=============================================================================
