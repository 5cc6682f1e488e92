--------------------------- MODULE SessionsProofs ---------------------------
(***************************************************************************)
(* What holds of Sessions for every number of connections, players,        *)
(* characters, accounts and parties.                                       *)
(***************************************************************************)
EXTENDS Sessions, FiniteSetTheorems, WellFoundedInduction, TLAPS

WorldSet ==
    [open : SUBSET Fds, alloc : 0 .. MaxSlots, sock : [Sockets -> Socket],
     plist : Seq(Players), pl : [Players -> Player],
     parties : SUBSET PartyIds, passwd : SUBSET PartyIds,
     accounts : SUBSET Accounts, chars : [Accounts -> SUBSET Chars],
     logged_in : SUBSET Accounts,
     file : [Chars -> PlayerFile], unsaved : SUBSET Chars]

\* Nobody is on the list twice.
Distinct(list) == \A i, j \in DOMAIN list : list[i] = list[j] => i = j

\* Players point to listed parties, and only those have passwords.
PartiesSound(w) ==
    /\ w.passwd \subseteq w.parties
    /\ \A p \in Live(w) : w.pl[p].party \in w.parties \cup {Null}

\* Sockets and the logged-in set name accounts there are; only those have
\* characters, and no two have one in common.
AccountsSound(w) ==
    /\ w.logged_in \subseteq w.accounts
    /\ \A n \in Sockets : w.sock[n].account \in w.accounts \cup {Null}
    /\ \A a \in Accounts : w.chars[a] # {} => a \in w.accounts
    /\ \A a, b \in Accounts : \A c \in w.chars[a] \cap w.chars[b] : a = b

\* Who is asked for a password has named a character.
NamesSound(w) ==
    \A p \in Players : w.pl[p].state = "GET_PASSWORD" => w.pl[p].name \in Chars

Sound(w) ==
    /\ w \in WorldSet /\ Distinct(w.plist)
    /\ PartiesSound(w) /\ AccountsSound(w) /\ NamesSound(w)

\* v differs from w in nothing that says who owns which descriptor.
SameOwners(v, w) ==
    /\ v.open = w.open /\ v.alloc = w.alloc /\ v.plist = w.plist
    /\ \A n \in Sockets : v.sock[n].fd = w.sock[n].fd
    /\ \A s \in Slots : v.sock[s].status = w.sock[s].status

-----------------------------------------------------------------------------
\* What may stand in a player structure without harm to the rest.
Fitting(w, p, r) ==
    /\ r \in Player
    /\ r.party \in {w.pl[p].party, Null}
    /\ r.state = "GET_PASSWORD" => r.name \in Chars

\* v differs from w in that player only.
OnlyPlayer(v, w, p) ==
    /\ \A q \in Players : q # p => v.pl[q] = w.pl[q]
    /\ v.sock = w.sock /\ v.unsaved = w.unsaved /\ v.file = w.file
    /\ v.parties = w.parties /\ v.chars = w.chars /\ v.accounts = w.accounts

WithPlayer(w, p, r) == [w EXCEPT !.pl[p] = r]

LEMMA EditPlayer ==
  ASSUME NEW w, Sound(w), NEW p \in Players, NEW r, Fitting(w, p, r)
  PROVE  LET v == WithPlayer(w, p, r)
         IN  /\ Sound(v) /\ SameOwners(v, w) /\ OnlyPlayer(v, w, p) /\ v.pl[p] = r
<1> DEFINE v == WithPlayer(w, p, r)
<1> USE DEF WithPlayer
<1>1. /\ v.open = w.open /\ v.alloc = w.alloc /\ v.plist = w.plist /\ v.sock = w.sock
      /\ v.parties = w.parties /\ v.passwd = w.passwd /\ v.accounts = w.accounts
      /\ v.chars = w.chars /\ v.logged_in = w.logged_in
      /\ v.file = w.file /\ v.unsaved = w.unsaved
      /\ v.pl = [w.pl EXCEPT ![p] = r]
  BY DEF Sound, WorldSet
<1>2. v \in WorldSet
  BY DEF Sound, WorldSet, Fitting
<1>3. PartiesSound(v)
  BY <1>1 DEF Sound, PartiesSound, Fitting, Live, WorldSet
<1>4. AccountsSound(v) /\ Distinct(v.plist)
  BY <1>1 DEF Sound, AccountsSound
<1>5. NamesSound(v)
  BY <1>1 DEF Sound, NamesSound, Fitting, WorldSet
<1> HIDE DEF v
<1>6. OnlyPlayer(v, w, p) /\ v.pl[p] = r
  BY <1>1, <1>2 DEF OnlyPlayer, Sound, WorldSet
<1> QED
  BY <1>1, <1>2, <1>3, <1>4, <1>5, <1>6 DEF Sound, SameOwners, v

LEMMA RecyclePlayer ==
  ASSUME NEW w, Sound(w), NEW p \in Players
  PROVE  LET v == Recycle(w, p)
         IN  Sound(v) /\ SameOwners(v, w) /\ OnlyPlayer(v, w, p)
<1> DEFINE r == [NewPlayer EXCEPT !.name = w.pl[p].name, !.state = "GET_NAME"]
<1>1. Fitting(w, p, r)
  BY DEF Fitting, NewPlayer, Player, Sound, WorldSet, States
<1> QED
  BY <1>1, EditPlayer DEF Recycle, WithPlayer

LEMMA EditSocket ==
  ASSUME NEW w, Sound(w), NEW n \in Sockets, NEW st \in {"Avail", "Add", "Dead"}
  PROVE  /\ Sound([w EXCEPT !.sock[n].status = st])
         /\ n \in Players => SameOwners([w EXCEPT !.sock[n].status = st], w)
<1> DEFINE v == [w EXCEPT !.sock[n].status = st]
           r == [w.sock[n] EXCEPT !.status = st]
<1>a. w.sock[n] \in Socket
  BY DEF Sound, WorldSet
<1>1. r \in Socket /\ r.fd = w.sock[n].fd /\ r.account = w.sock[n].account
  BY <1>a DEF Socket
<1>2. v = [w EXCEPT !.sock = [w.sock EXCEPT ![n] = r]]
  OBVIOUS
<1> HIDE DEF r
<1>3. /\ v.open = w.open /\ v.alloc = w.alloc /\ v.plist = w.plist /\ v.pl = w.pl
      /\ v.parties = w.parties /\ v.passwd = w.passwd /\ v.accounts = w.accounts
      /\ v.chars = w.chars /\ v.logged_in = w.logged_in
      /\ v.sock = [w.sock EXCEPT ![n] = r]
  BY <1>2 DEF Sound, WorldSet
<1>4. v \in WorldSet
  BY <1>1, <1>2 DEF Sound, WorldSet
<1>5. /\ \A m \in Sockets : v.sock[m].fd = w.sock[m].fd /\ v.sock[m].account = w.sock[m].account
      /\ \A m \in Sockets : m # n => v.sock[m] = w.sock[m]
  BY <1>1, <1>3 DEF Sound, WorldSet
<1>6. AccountsSound(v)
  BY <1>3, <1>5 DEF Sound, AccountsSound
<1>7. PartiesSound(v) /\ NamesSound(v) /\ Distinct(v.plist)
  BY <1>3 DEF Sound, PartiesSound, NamesSound, Live
<1>8. n \in Players => \A s \in Slots : v.sock[s].status = w.sock[s].status
  BY <1>5, NamesAssumption DEF Sockets
<1> HIDE DEF v
<1>9. Sound(v)
  BY <1>4, <1>6, <1>7 DEF Sound
<1>10. n \in Players => SameOwners(v, w)
  BY <1>3, <1>5, <1>8 DEF SameOwners
<1> QED
  BY <1>9, <1>10 DEF v

-----------------------------------------------------------------------------
(***************************************************************************)
(* The list of players.                                                    *)
(***************************************************************************)
\* Taking one node off the list takes one player off it.
LEMMA UnlinkedList ==
  ASSUME NEW list \in Seq(Players), Distinct(list), NEW i \in DOMAIN list
  PROVE  /\ Unlinked(list, list[i]) \in Seq(Players)
         /\ Distinct(Unlinked(list, list[i]))
         /\ \A x : (\E k \in DOMAIN Unlinked(list, list[i]) : Unlinked(list, list[i])[k] = x)
                     <=> x # list[i] /\ \E k \in DOMAIN list : list[k] = x
<1> DEFINE n == Len(list)
           new == [k \in 1 .. n - 1 |-> IF k < i THEN list[k] ELSE list[k + 1]]
<1>1. n \in Nat /\ DOMAIN list = 1 .. n /\ i \in 1 .. n /\ \A k \in 1 .. n : list[k] \in Players
  OBVIOUS
<1>2. (CHOOSE k \in DOMAIN list : list[k] = list[i]) = i
  BY DEF Distinct
<1>3. Unlinked(list, list[i]) = new
  BY <1>2 DEF Unlinked
<1>4. \A j, k \in 1 .. n : list[j] = list[k] => j = k
  BY <1>1 DEF Distinct
<1> HIDE DEF n
<1>5. DOMAIN new = 1 .. n - 1
  OBVIOUS
<1>6. new \in Seq(Players)
  <2>1. \A k \in 1 .. n - 1 : new[k] \in Players
    BY <1>1
  <2>2. n - 1 \in Nat
    BY <1>1
  <2> QED
    BY <2>1, <2>2, <1>5
<1>7. Distinct(new)
  BY <1>1, <1>4, <1>5 DEF Distinct
<1>8. ASSUME NEW x
      PROVE  (\E k \in DOMAIN new : new[k] = x) <=> x # list[i] /\ \E k \in DOMAIN list : list[k] = x
  <2>1. ASSUME NEW k \in 1 .. n - 1, new[k] = x
        PROVE  x # list[i] /\ \E m \in 1 .. n : list[m] = x
    BY <2>1, <1>1, <1>4
  <2>2. ASSUME NEW m \in 1 .. n, list[m] = x, x # list[i]
        PROVE  \E k \in 1 .. n - 1 : new[k] = x
    <3>1. CASE m < i
      BY <3>1, <2>2, <1>1
    <3>2. CASE m > i
      <4>1. m - 1 \in 1 .. n - 1 /\ new[m - 1] = list[m]
        BY <3>2, <1>1
      <4> QED
        BY <4>1, <2>2
    <3> QED
      BY <3>1, <3>2, <2>2, <1>1
  <2> QED
    BY <2>1, <2>2, <1>1, <1>5
<1> HIDE DEF new
<1> QED
  BY <1>3, <1>6, <1>7, <1>8

LEMMA UnlinkedLive ==
  ASSUME NEW w, Sound(w), NEW p \in Live(w)
  PROVE  /\ Unlinked(w.plist, p) \in Seq(Players)
         /\ Distinct(Unlinked(w.plist, p))
         /\ {Unlinked(w.plist, p)[i] : i \in DOMAIN Unlinked(w.plist, p)} = Live(w) \ {p}
<1>1. PICK i \in DOMAIN w.plist : p = w.plist[i]
  BY DEF Live
<1>2. w.plist \in Seq(Players) /\ Distinct(w.plist)
  BY DEF Sound, WorldSet
<1> DEFINE list == w.plist
           new == Unlinked(list, p)
<1> HIDE DEF list
<1>a. /\ list \in Seq(Players) /\ Distinct(list) /\ i \in DOMAIN list /\ p = list[i]
      /\ \A x : x \in Live(w) <=> \E k \in DOMAIN list : list[k] = x
  BY <1>1, <1>2 DEF list, Live
<1>3. /\ Unlinked(list, list[i]) \in Seq(Players) /\ Distinct(Unlinked(list, list[i]))
      /\ \A x : (\E k \in DOMAIN Unlinked(list, list[i]) : Unlinked(list, list[i])[k] = x)
                  <=> x # list[i] /\ \E k \in DOMAIN list : list[k] = x
  BY <1>a, UnlinkedList
<1>3a. new = Unlinked(list, list[i])
  BY <1>a
<1> HIDE DEF new
<1>3b. /\ new \in Seq(Players) /\ Distinct(new)
       /\ \A x : (\E k \in DOMAIN new : new[k] = x) <=> x # p /\ x \in Live(w)
  <2>1. p = list[i] /\ \A x : x \in Live(w) <=> \E k \in DOMAIN list : list[k] = x
    BY <1>a
  <2> QED
    BY <2>1, <1>3, <1>3a, Zenon
<1>4. {new[j] : j \in DOMAIN new} = Live(w) \ {p}
  BY <1>3b
<1> QED
  BY <1>3b, <1>4 DEF new, list

\* pl->next is another player of the list, or null.
LEMMA NextOfLive ==
  ASSUME NEW w, Distinct(w.plist), w.plist \in Seq(Players), NEW p
  PROVE  NextOf(w, p) \in (Live(w) \ {p}) \cup {Null} /\ (NextOf(w, p) = p => p = Null)
<1> DEFINE at == {i \in DOMAIN w.plist : w.plist[i] = p /\ i < Len(w.plist)}
           k == CHOOSE i \in at : TRUE
<1>1. CASE at = {}
  BY <1>1 DEF NextOf
<1>2. CASE at # {}
  <2>1. k \in at
    BY <1>2
  <2>2. NextOf(w, p) = w.plist[k + 1]
    BY <1>2 DEF NextOf
  <2> HIDE DEF k
  <2>3. k + 1 \in DOMAIN w.plist /\ k # k + 1 /\ w.plist[k] = p /\ k \in DOMAIN w.plist
    BY <2>1
  <2>4. w.plist[k + 1] # p /\ w.plist[k + 1] \in Live(w)
    BY <2>3 DEF Distinct, Live
  <2> QED
    BY <2>2, <2>4
<1> QED
  BY <1>1, <1>2

-----------------------------------------------------------------------------
(***************************************************************************)
(* Descriptors and their owners.                                           *)
(***************************************************************************)
Holds(w, n) == (n \in Slots /\ w.sock[n].status # "Avail") \/ n \in Live(w)

\* Whoever holds a descriptor holds an open one, alone, and none is lost.
Owned(w) ==
    /\ \A s \in Slots : w.sock[s].status # "Avail" => s <= w.alloc
    /\ \A n \in Sockets : Holds(w, n) => w.sock[n].fd \in w.open
    /\ \A f \in w.open : \E n \in Sockets : Holds(w, n) /\ w.sock[n].fd = f
    /\ \A m, n \in Sockets :
          Holds(w, m) /\ Holds(w, n) /\ w.sock[m].fd = w.sock[n].fd => m = n

LEMMA SameOwnersOwned ==
  ASSUME NEW w, NEW v, SameOwners(v, w)
  PROVE  Owned(w) => Owned(v)
<1>1. \A n \in Sockets : Holds(v, n) <=> Holds(w, n)
  BY DEF SameOwners, Holds, Live
<1> QED
  BY <1>1 DEF SameOwners, Owned

LEMMA SameOwnersTransitive ==
  ASSUME NEW u, NEW v, NEW w, SameOwners(u, v), SameOwners(v, w)
  PROVE  SameOwners(u, w)
  BY DEF SameOwners

\* set_player_socket for a new structure: the player holds what the entry held.
LEMMA NewPlayerOwns ==
  ASSUME NEW w, Sound(w), NEW s \in Slots, w.sock[s].status = "Add",
         NEW p \in Players, p \notin Live(w)
  PROVE  LET v == MoveSocket(AddPlayer(w, p), s, p)
         IN  /\ Sound(v) /\ Live(v) = Live(w) \cup {p}
             /\ v.pl = [w.pl EXCEPT ![p] = NewPlayer]
             /\ v.unsaved = w.unsaved
             /\ v.alloc = w.alloc
             /\ v.sock[p].account = w.sock[s].account
             /\ v.accounts = w.accounts /\ v.chars = w.chars /\ v.file = w.file
             /\ Owned(w) => Owned(v)
<1> DEFINE u == AddPlayer(w, p)
           v == MoveSocket(u, s, p)
           new == Append(w.plist, p)
           left == [w.sock[s] EXCEPT !.status = "Avail", !.account = Null]
<1>0. w \in WorldSet /\ Distinct(w.plist)
  BY DEF Sound
<1>a. /\ w.sock[s] \in Socket /\ w.sock[s].fd \in Fds \cup {NoFd}
      /\ w.sock[s].account \in w.accounts \cup {Null}
      /\ s \in Sockets /\ p \in Sockets /\ s # p /\ w.sock \in [Sockets -> Socket]
  BY NamesAssumption DEF Sound, WorldSet, Sockets, Socket, AccountsSound
<1>b. left \in Socket /\ left.fd = w.sock[s].fd /\ left.status = "Avail" /\ left.account = Null
  BY <1>a DEF Socket
<1>1. /\ u.open = w.open /\ u.alloc = w.alloc /\ u.sock = w.sock
      /\ u.parties = w.parties /\ u.passwd = w.passwd /\ u.accounts = w.accounts
      /\ u.chars = w.chars /\ u.logged_in = w.logged_in /\ u.file = w.file
      /\ u.unsaved = w.unsaved
      /\ u.plist = new /\ u.pl = [w.pl EXCEPT ![p] = NewPlayer]
  BY <1>0 DEF WorldSet, AddPlayer
<1>2. NewPlayer \in Player /\ NewPlayer.party = Null /\ NewPlayer.state = "CREATE"
  BY DEF NewPlayer, Player, States
<1>3. new \in Seq(Players) /\ Distinct(new) /\ {new[i] : i \in DOMAIN new} = Live(w) \cup {p}
  <2> DEFINE list == w.plist
  <2>1. /\ list \in Seq(Players) /\ Distinct(list)
        /\ \A i \in DOMAIN list : list[i] # p
        /\ Live(w) = {list[i] : i \in DOMAIN list}
    BY <1>0 DEF WorldSet, Live
  <2> HIDE DEF list
  <2>2. Append(list, p) \in Seq(Players) /\ DOMAIN Append(list, p) = 1 .. Len(list) + 1
    BY <2>1
  <2>3. \A i \in 1 .. Len(list) : Append(list, p)[i] = list[i]
    BY <2>1
  <2>4. Append(list, p)[Len(list) + 1] = p /\ Len(list) \in Nat /\ DOMAIN list = 1 .. Len(list)
    BY <2>1
  <2>5. Distinct(Append(list, p))
    BY <2>1, <2>2, <2>3, <2>4 DEF Distinct
  <2>6. {Append(list, p)[i] : i \in DOMAIN Append(list, p)} = {list[i] : i \in DOMAIN list} \cup {p}
    <3>1. ASSUME NEW x
          PROVE  (\E i \in 1 .. Len(list) + 1 : Append(list, p)[i] = x)
                    <=> (x = p \/ \E i \in 1 .. Len(list) : list[i] = x)
      BY <2>3, <2>4
    <3> QED
      BY <3>1, <2>2, <2>4
  <2> QED
    BY <2>1, <2>2, <2>5, <2>6 DEF list
<1> HIDE DEF new, left
<1>4. u \in WorldSet
  BY <1>0, <1>2, <1>3, <1>1 DEF WorldSet, AddPlayer, new
<1>5. v = [u EXCEPT !.sock = [w.sock EXCEPT ![p] = w.sock[s], ![s] = left]]
  <2>1. [w.sock EXCEPT ![p] = w.sock[s], ![s] = left]
          = [w.sock EXCEPT ![p] = w.sock[s], ![s].status = "Avail", ![s].account = Null]
    BY <1>a DEF left
  <2> QED
    BY <2>1, <1>1 DEF MoveSocket
<1> HIDE DEF u
<1>6. /\ v.open = w.open /\ v.alloc = w.alloc
      /\ v.parties = w.parties /\ v.passwd = w.passwd /\ v.accounts = w.accounts
      /\ v.chars = w.chars /\ v.logged_in = w.logged_in /\ v.file = w.file
      /\ v.unsaved = w.unsaved
      /\ v.plist = new /\ v.pl = [w.pl EXCEPT ![p] = NewPlayer]
      /\ v.sock = [w.sock EXCEPT ![p] = w.sock[s], ![s] = left]
  BY <1>1, <1>4, <1>5 DEF WorldSet
<1>7. v \in WorldSet
  <2> DEFINE x == [w.sock EXCEPT ![p] = w.sock[s], ![s] = left]
  <2>1. x \in [Sockets -> Socket] /\ v = [u EXCEPT !.sock = x]
    BY <1>5, <1>a, <1>b
  <2> HIDE DEF x, v
  <2> QED
    BY <2>1, <1>4 DEF WorldSet
<1> HIDE DEF v
<1>8. Live(v) = Live(w) \cup {p}
  <2>1. v.plist = new /\ {new[i] : i \in DOMAIN new} = Live(w) \cup {p}
    BY <1>6, <1>3
  <2> QED
    BY <2>1 DEF Live
<1>9. /\ v.sock[s] = left /\ v.sock[p] = w.sock[s]
      /\ \A n \in Sockets : n # p /\ n # s => v.sock[n] = w.sock[n]
      /\ v.pl[p] = NewPlayer /\ \A q \in Players : q # p => v.pl[q] = w.pl[q]
  BY <1>6, <1>a, <1>0 DEF WorldSet
<1>10. AccountsSound(v)
  BY <1>6, <1>9, <1>a, <1>b DEF Sound, AccountsSound
<1>11. PartiesSound(v)
  <2>1. Live(w) \subseteq Players /\ PartiesSound(w)
    BY <1>0 DEF WorldSet, Live, Sound
  <2>2. ASSUME NEW q \in Live(v) PROVE v.pl[q].party \in v.parties \cup {Null}
    BY <2>1, <2>2, <1>6, <1>8, <1>9, <1>2 DEF PartiesSound
  <2> QED
    BY <2>1, <2>2, <1>6 DEF PartiesSound
<1>12. NamesSound(v)
  BY <1>6, <1>9, <1>2 DEF Sound, NamesSound
<1>13. Sound(v)
  BY <1>6, <1>7, <1>3, <1>10, <1>11, <1>12 DEF Sound
<1>14. ASSUME Owned(w) PROVE Owned(v)
  <2>1. /\ \A n \in Sockets : n # p /\ n # s => (Holds(v, n) <=> Holds(w, n))
        /\ Holds(v, p) /\ ~Holds(v, s) /\ Holds(w, s) /\ ~Holds(w, p)
    <3>1. p \notin Slots /\ s \notin Players /\ Live(w) \subseteq Players
      BY <1>0, NamesAssumption DEF WorldSet, Live
    <3> QED
      BY <3>1, <1>8, <1>9, <1>a, <1>b DEF Holds
  <2>2. \A q \in Slots : v.sock[q].status # "Avail" => q <= v.alloc
    BY <1>14, <1>6, <1>9, <1>b, NamesAssumption DEF Owned, Sockets
  <2>3. \A n \in Sockets : Holds(v, n) => v.sock[n].fd \in v.open
    BY <1>14, <2>1, <1>6, <1>9, <1>a DEF Owned
  <2>4. \A f \in v.open : \E n \in Sockets : Holds(v, n) /\ v.sock[n].fd = f
    BY <1>14, <2>1, <1>6, <1>9, <1>a DEF Owned
  <2>5. \A m, n \in Sockets :
          Holds(v, m) /\ Holds(v, n) /\ v.sock[m].fd = v.sock[n].fd => m = n
    BY <1>14, <2>1, <1>6, <1>9, <1>a DEF Owned
  <2> QED
    BY <2>2, <2>3, <2>4, <2>5 DEF Owned
<1> QED
  BY <1>6, <1>8, <1>9, <1>13, <1>14 DEF u, v

LEMMA FreeSocketFields ==
  ASSUME NEW w \in WorldSet, NEW n \in Sockets
  PROVE  LET v == FreeSocket(w, n)
         IN  /\ v \in WorldSet
             /\ v.open = w.open \ {w.sock[n].fd} /\ v.alloc = w.alloc
             /\ v.parties = w.parties /\ v.passwd = w.passwd
             /\ v.accounts = w.accounts /\ v.chars = w.chars
             /\ v.logged_in = w.logged_in \ {w.sock[n].account}
             /\ v.file = w.file /\ v.unsaved = w.unsaved
             /\ v.plist = w.plist /\ v.pl = w.pl
             /\ v.sock[n].account = Null /\ v.sock[n].status = "Avail"
             /\ \A m \in Sockets : m # n => v.sock[m] = w.sock[m]
<1> DEFINE r == [w.sock[n] EXCEPT !.fd = NoFd, !.account = Null, !.status = "Avail"]
           x == [w.sock EXCEPT ![n] = r]
           a == w.open \ {w.sock[n].fd}
           b == w.logged_in \ {w.sock[n].account}
           v == [w EXCEPT !.open = a, !.logged_in = b, !.sock = x]
<1>1. w.sock \in [Sockets -> Socket] /\ w.sock[n] \in Socket
  BY DEF WorldSet
<1>2. r \in Socket /\ r.account = Null /\ r.status = "Avail"
  BY <1>1 DEF Socket
<1>3. x \in [Sockets -> Socket]
  BY <1>1, <1>2
<1>4. a \in SUBSET Fds /\ b \in SUBSET Accounts
  BY DEF WorldSet
<1>5. FreeSocket(w, n) = v
  <2>1. [w.sock EXCEPT ![n].fd = NoFd, ![n].account = Null, ![n].status = "Avail"] = x
    BY <1>1
  <2>2. FreeSocket(w, n) = [w EXCEPT !.open = a, !.logged_in = b,
           !.sock = [w.sock EXCEPT ![n].fd = NoFd, ![n].account = Null, ![n].status = "Avail"]]
    BY DEF FreeSocket, WorldSet
  <2> HIDE DEF x, a, b
  <2> QED
    BY <2>1, <2>2
<1>6. x[n] = r /\ \A m \in Sockets : m # n => x[m] = w.sock[m]
  BY <1>1
<1>7. /\ v \in WorldSet
      /\ v.open = a /\ v.alloc = w.alloc
      /\ v.parties = w.parties /\ v.passwd = w.passwd
      /\ v.accounts = w.accounts /\ v.chars = w.chars
      /\ v.logged_in = b
      /\ v.file = w.file /\ v.unsaved = w.unsaved
      /\ v.plist = w.plist /\ v.pl = w.pl /\ v.sock = x
  <2> HIDE DEF x, a, b
  <2> QED
    BY <1>3, <1>4 DEF WorldSet
<1> HIDE DEF v, x, r
<1> QED
  BY <1>2, <1>5, <1>6, <1>7

\* free_newsocket of an entry.
LEMMA FreeEntry ==
  ASSUME NEW w, Sound(w), NEW s \in Slots
  PROVE  LET v == FreeSocket(w, s)
         IN  /\ Sound(v) /\ v.plist = w.plist /\ v.pl = w.pl /\ v.unsaved = w.unsaved
             /\ Owned(w) /\ w.sock[s].status # "Avail" => Owned(v)
<1> DEFINE v == FreeSocket(w, s)
<1>0. w \in WorldSet /\ s \in Sockets
  BY DEF Sound, Sockets
<1>1. /\ v \in WorldSet
      /\ v.open = w.open \ {w.sock[s].fd} /\ v.alloc = w.alloc
      /\ v.parties = w.parties /\ v.passwd = w.passwd
      /\ v.accounts = w.accounts /\ v.chars = w.chars
      /\ v.logged_in = w.logged_in \ {w.sock[s].account}
      /\ v.file = w.file /\ v.unsaved = w.unsaved
      /\ v.plist = w.plist /\ v.pl = w.pl
      /\ v.sock[s].account = Null /\ v.sock[s].status = "Avail"
      /\ \A m \in Sockets : m # s => v.sock[m] = w.sock[m]
  BY <1>0, FreeSocketFields
<1> HIDE DEF v
<1>3. AccountsSound(v)
  BY <1>1 DEF Sound, AccountsSound
<1>4. PartiesSound(v) /\ NamesSound(v) /\ Distinct(v.plist) /\ Live(v) = Live(w)
  BY <1>1 DEF Sound, PartiesSound, NamesSound, Live
<1>5. ASSUME Owned(w), w.sock[s].status # "Avail" PROVE Owned(v)
  <2>1. Holds(w, s) /\ ~Holds(v, s) /\ \A n \in Sockets : n # s => (Holds(v, n) <=> Holds(w, n))
    <3>1. s \notin Live(w)
      BY <1>0, NamesAssumption DEF WorldSet, Live
    <3> QED
      BY <3>1, <1>5, <1>1, <1>4 DEF Holds, Sockets
  <2>2. \A q \in Slots : v.sock[q].status # "Avail" => q <= v.alloc
    BY <1>5, <1>1 DEF Owned, Sockets
  <2>3. \A n \in Sockets : Holds(v, n) => v.sock[n].fd \in v.open
    BY <1>5, <2>1, <1>1, <1>0 DEF Owned
  <2>4. \A f \in v.open : \E n \in Sockets : Holds(v, n) /\ v.sock[n].fd = f
    BY <1>5, <2>1, <1>1, <1>0 DEF Owned
  <2>5. \A m, n \in Sockets :
          Holds(v, m) /\ Holds(v, n) /\ v.sock[m].fd = v.sock[n].fd => m = n
    BY <1>5, <2>1, <1>1, <1>0 DEF Owned
  <2> QED
    BY <2>2, <2>3, <2>4, <2>5 DEF Owned
<1> QED
  BY <1>1, <1>3, <1>4, <1>5 DEF Sound, v

\* final_free_player.
LEMMA FreePlayerSound ==
  ASSUME NEW w, Sound(w), NEW p \in Live(w)
  PROVE  LET v == FreePlayer(w, p)
         IN  /\ Sound(v) /\ Live(v) = Live(w) \ {p}
             /\ v.pl = [w.pl EXCEPT ![p] = NewPlayer]
             /\ v.unsaved = w.unsaved /\ v.file = w.file /\ v.alloc = w.alloc
             /\ v.accounts = w.accounts /\ v.chars = w.chars
             /\ \A s \in Sockets : s # p => v.sock[s] = w.sock[s]
             /\ Owned(w) => Owned(v)
<1> DEFINE new == Unlinked(w.plist, p)
           x == [w.pl EXCEPT ![p] = NewPlayer]
           u == [w EXCEPT !.plist = new, !.pl = x]
           v == FreeSocket(u, p)
<1>0. /\ w \in WorldSet /\ p \in Players /\ p \in Sockets /\ p \notin Slots
      /\ Live(w) \subseteq Players
  BY NamesAssumption DEF Sound, WorldSet, Sockets, Live
<1>1. FreePlayer(w, p) = v
  BY DEF FreePlayer
<1>2. new \in Seq(Players) /\ Distinct(new) /\ {new[i] : i \in DOMAIN new} = Live(w) \ {p}
  BY UnlinkedLive
<1>3. /\ x \in [Players -> Player] /\ x[p] = NewPlayer
      /\ \A q \in Players : q # p => x[q] = w.pl[q]
      /\ NewPlayer.state = "CREATE"
  BY <1>0 DEF WorldSet, NewPlayer, Player, States
<1>4. /\ u \in WorldSet /\ u.open = w.open /\ u.alloc = w.alloc
      /\ u.parties = w.parties /\ u.passwd = w.passwd
      /\ u.accounts = w.accounts /\ u.chars = w.chars
      /\ u.logged_in = w.logged_in
      /\ u.file = w.file /\ u.unsaved = w.unsaved
      /\ u.plist = new /\ u.pl = x /\ u.sock = w.sock
  <2> HIDE DEF new, x
  <2> QED
    BY <1>0, <1>2, <1>3 DEF WorldSet
<1> HIDE DEF new, x, u
<1>5. /\ v \in WorldSet
      /\ v.open = u.open \ {u.sock[p].fd} /\ v.alloc = u.alloc
      /\ v.parties = u.parties /\ v.passwd = u.passwd
      /\ v.accounts = u.accounts /\ v.chars = u.chars
      /\ v.logged_in = u.logged_in \ {u.sock[p].account}
      /\ v.file = u.file /\ v.unsaved = u.unsaved
      /\ v.plist = u.plist /\ v.pl = u.pl
      /\ v.sock[p].account = Null /\ v.sock[p].status = "Avail"
      /\ \A m \in Sockets : m # p => v.sock[m] = u.sock[m]
  BY <1>0, <1>4, FreeSocketFields
<1> HIDE DEF v
<1>7. Live(v) = Live(w) \ {p}
  <2>1. v.plist = new
    BY <1>4, <1>5
  <2> QED
    BY <2>1, <1>2 DEF Live
<1>8. AccountsSound(v)
  BY <1>4, <1>5 DEF Sound, AccountsSound
<1>9. PartiesSound(v)
  <2>1. ASSUME NEW q \in Live(v) PROVE v.pl[q].party \in v.parties \cup {Null}
    BY <2>1, <1>0, <1>3, <1>4, <1>5, <1>7 DEF Sound, PartiesSound
  <2> QED
    BY <2>1, <1>4, <1>5 DEF Sound, PartiesSound
<1>10. NamesSound(v)
  BY <1>3, <1>4, <1>5 DEF Sound, NamesSound
<1>11. Sound(v)
  BY <1>2, <1>4, <1>5, <1>8, <1>9, <1>10 DEF Sound
<1>12. ASSUME Owned(w) PROVE Owned(v)
  <2>1. Holds(w, p) /\ ~Holds(v, p) /\ \A n \in Sockets : n # p => (Holds(v, n) <=> Holds(w, n))
    BY <1>0, <1>4, <1>5, <1>7 DEF Holds
  <2>2. \A q \in Slots : v.sock[q].status # "Avail" => q <= v.alloc
    BY <1>12, <1>0, <1>4, <1>5 DEF Owned, Sockets
  <2>3. \A n \in Sockets : Holds(v, n) => v.sock[n].fd \in v.open
    BY <1>12, <2>1, <1>0, <1>4, <1>5 DEF Owned
  <2>4. \A f \in v.open : \E n \in Sockets : Holds(v, n) /\ v.sock[n].fd = f
    BY <1>12, <2>1, <1>0, <1>4, <1>5 DEF Owned
  <2>5. \A m, n \in Sockets :
          Holds(v, m) /\ Holds(v, n) /\ v.sock[m].fd = v.sock[n].fd => m = n
    BY <1>12, <2>1, <1>0, <1>4, <1>5 DEF Owned
  <2> QED
    BY <2>2, <2>3, <2>4, <2>5 DEF Owned
<1> QED
  BY <1>1, <1>4, <1>5, <1>7, <1>11, <1>12 DEF x

-----------------------------------------------------------------------------
(***************************************************************************)
(* Parties.                                                                *)
(***************************************************************************)
\* r and s are the same player but for the party.
SamePerson(r, s) ==
    /\ r.name = s.name /\ r.state = s.state /\ r.exp = s.exp /\ r.left = s.left

\* v differs from w in the parties only.
OnlyParties(v, w) ==
    /\ v.open = w.open /\ v.alloc = w.alloc /\ v.plist = w.plist /\ v.sock = w.sock
    /\ v.accounts = w.accounts /\ v.chars = w.chars /\ v.logged_in = w.logged_in
    /\ v.file = w.file /\ v.unsaved = w.unsaved
    /\ \A q \in Players : SamePerson(v.pl[q], w.pl[q])

LEMMA OnlyPartiesOwners ==
  ASSUME NEW v, NEW w, OnlyParties(v, w)
  PROVE  SameOwners(v, w)
  BY DEF OnlyParties, SameOwners

\* A change of the parties that leaves who they are alone keeps the rest.
LEMMA OnlyPartiesSound ==
  ASSUME NEW v, NEW w, Sound(w), OnlyParties(v, w), v \in WorldSet, PartiesSound(v)
  PROVE  Sound(v)
<1>1. AccountsSound(v) /\ Distinct(v.plist)
  BY DEF Sound, OnlyParties, AccountsSound
<1>2. NamesSound(v)
  BY DEF Sound, OnlyParties, NamesSound, SamePerson
<1> QED
  BY <1>1, <1>2 DEF Sound

\* party_remove of a party nobody is in changes no player.
LEMMA RemoveUnused ==
  ASSUME NEW w, Sound(w), NEW g
  PROVE  LET v == RemoveIfUnused(w, g)
         IN  /\ Sound(v) /\ OnlyParties(v, w) /\ v.pl = w.pl
             /\ w.parties \ {g} \subseteq v.parties /\ v.parties \subseteq w.parties
<1> DEFINE v == RemoveIfUnused(w, g)
<1>0. w \in WorldSet /\ PartiesSound(w)
  BY DEF Sound
<1>1. CASE Members(w, g) # {}
  <2>1. v = w
    BY <1>1 DEF RemoveIfUnused
  <2>2. OnlyParties(w, w)
    BY DEF OnlyParties, SamePerson
  <2> QED
    BY <2>1, <2>2
<1>2. CASE Members(w, g) = {}
  <2> DEFINE a == w.parties \ {g}
             b == w.passwd \ {g}
             x == w.pl
             u == [w EXCEPT !.parties = a, !.passwd = b, !.pl = x]
  <2>1. [p \in Players |-> IF p \in Members(w, g) THEN [w.pl[p] EXCEPT !.party = Null]
                           ELSE w.pl[p]] = x
    BY <1>0, <1>2 DEF WorldSet
  <2>2. v = u
    BY <1>2, <2>1 DEF RemoveIfUnused, PartyRemove
  <2>3. a \in SUBSET PartyIds /\ b \in SUBSET PartyIds /\ x \in [Players -> Player] /\ b \subseteq a
    BY <1>0 DEF WorldSet, PartiesSound
  <2>4. \A p \in Live(w) : x[p].party \in a \cup {Null}
    BY <1>0, <1>2 DEF PartiesSound, Members
  <2> HIDE DEF a, b
  <2>5. /\ u \in WorldSet /\ u.parties = a /\ u.passwd = b /\ u.pl = w.pl
        /\ u.open = w.open /\ u.alloc = w.alloc /\ u.plist = w.plist /\ u.sock = w.sock
        /\ u.accounts = w.accounts /\ u.chars = w.chars /\ u.logged_in = w.logged_in
        /\ u.file = w.file /\ u.unsaved = w.unsaved
    BY <1>0, <2>3 DEF WorldSet
  <2> HIDE DEF u
  <2>6. OnlyParties(u, w)
    BY <2>5 DEF OnlyParties, SamePerson
  <2>7. PartiesSound(u)
    BY <2>5, <2>3, <2>4 DEF PartiesSound, Live
  <2>8. Sound(u)
    BY <2>5, <2>6, <2>7, OnlyPartiesSound
  <2> HIDE DEF v
  <2> QED
    BY <2>2, <2>5, <2>6, <2>8 DEF a, v
<1> QED
  BY <1>1, <1>2

LEMMA OnlyPartiesTransitive ==
  ASSUME NEW u, NEW v, NEW w, OnlyParties(u, v), OnlyParties(v, w)
  PROVE  OnlyParties(u, w)
  BY DEF OnlyParties, SamePerson

\* Setting the party of one player, and the list.
WithParty(w, new, p, g) == [w EXCEPT !.parties = new, !.pl[p].party = g]

LEMMA SetParty ==
  ASSUME NEW w, Sound(w), NEW p \in Players, NEW g \in PartyIds \cup {Null},
         NEW new \in SUBSET PartyIds, w.parties \subseteq new, g \in new \cup {Null}
  PROVE  LET v == WithParty(w, new, p, g)
         IN  /\ Sound(v) /\ OnlyParties(v, w) /\ v.pl[p].party = g /\ v.parties = new
             /\ v.passwd = w.passwd
             /\ \A q \in Players : q # p => v.pl[q] = w.pl[q]
<1> DEFINE r == [w.pl[p] EXCEPT !.party = g]
           x == [w.pl EXCEPT ![p] = r]
           v == WithParty(w, new, p, g)
<1>00. v = [w EXCEPT !.parties = new, !.pl = x]
  BY DEF WithParty
<1> HIDE DEF v
<1>0. w \in WorldSet /\ PartiesSound(w) /\ w.pl \in [Players -> Player] /\ w.pl[p] \in Player
  BY DEF Sound, WorldSet
<1>1. r \in Player /\ r.party = g /\ SamePerson(r, w.pl[p])
  BY <1>0 DEF Player, SamePerson
<1> HIDE DEF r
<1>2. /\ x \in [Players -> Player] /\ x[p] = r
      /\ \A q \in Players : q # p => x[q] = w.pl[q]
  BY <1>0, <1>1
<1> HIDE DEF x
<1>3. /\ v \in WorldSet /\ v.parties = new /\ v.passwd = w.passwd /\ v.pl = x
      /\ v.open = w.open /\ v.alloc = w.alloc /\ v.plist = w.plist /\ v.sock = w.sock
      /\ v.accounts = w.accounts /\ v.chars = w.chars /\ v.logged_in = w.logged_in
      /\ v.file = w.file /\ v.unsaved = w.unsaved
  BY <1>0, <1>00, <1>2 DEF WorldSet
<1>4. OnlyParties(v, w)
  BY <1>1, <1>2, <1>3 DEF OnlyParties, SamePerson
<1>5. PartiesSound(v)
  <2>1. Live(w) \subseteq Players /\ Live(v) = Live(w)
    BY <1>0, <1>3 DEF WorldSet, Live
  <2>2. ASSUME NEW q \in Live(v) PROVE v.pl[q].party \in v.parties \cup {Null}
    BY <2>1, <2>2, <1>0, <1>1, <1>2, <1>3 DEF PartiesSound
  <2> QED
    BY <2>2, <1>0, <1>3 DEF PartiesSound
<1>6. Sound(v)
  BY <1>3, <1>4, <1>5, OnlyPartiesSound
<1> QED
  BY <1>1, <1>2, <1>3, <1>4, <1>6 DEF v, x, r

LEMMA PartyLeaveSound ==
  ASSUME NEW w, Sound(w), NEW p \in Players
  PROVE  LET v == PartyLeave(w, p)
         IN  /\ Sound(v) /\ OnlyParties(v, w) /\ v.pl[p].party = Null
             /\ w.parties \ {w.pl[p].party} \subseteq v.parties /\ v.parties \subseteq w.parties
             /\ \A q \in Players : q # p => v.pl[q] = w.pl[q]
<1>1. CASE w.pl[p].party = Null
  <2>1. PartyLeave(w, p) = w
    BY <1>1 DEF PartyLeave
  <2>2. OnlyParties(w, w)
    BY DEF OnlyParties, SamePerson
  <2> QED
    BY <1>1, <2>1, <2>2
<1>2. CASE w.pl[p].party # Null
  <2> DEFINE g == w.pl[p].party
             u == [w EXCEPT !.pl[p].party = Null]
             v == RemoveIfUnused(u, g)
  <2>1. PartyLeave(w, p) = v
    BY <1>2 DEF PartyLeave
  <2>2. u = WithParty(w, w.parties, p, Null)
    BY DEF Sound, WorldSet, WithParty
  <2>3. w.parties \in SUBSET PartyIds
    BY DEF Sound, WorldSet
  <2>4. /\ Sound(u) /\ OnlyParties(u, w) /\ u.pl[p].party = Null /\ u.parties = w.parties
        /\ \A q \in Players : q # p => u.pl[q] = w.pl[q]
    <3> HIDE DEF u
    <3> DEFINE s == w.parties
               x == WithParty(w, s, p, Null)
    <3>1. /\ Null \in PartyIds \cup {Null} /\ Null \in s \cup {Null}
          /\ s \in SUBSET PartyIds /\ w.parties \subseteq s
      BY <2>3
    <3> HIDE DEF s
    <3>2. /\ Sound(x) /\ OnlyParties(x, w) /\ x.pl[p].party = Null /\ x.parties = s
          /\ \A q \in Players : q # p => x.pl[q] = w.pl[q]
      BY <3>1, SetParty
    <3> QED
      BY <2>2, <3>2 DEF s
  <2> HIDE DEF u, g
  <2>5. /\ Sound(v) /\ OnlyParties(v, u) /\ v.pl = u.pl
        /\ u.parties \ {g} \subseteq v.parties /\ v.parties \subseteq u.parties
    BY <2>4, RemoveUnused
  <2> HIDE DEF v
  <2>6. OnlyParties(v, w)
    BY <2>4, <2>5, OnlyPartiesTransitive
  <2> QED
    BY <2>1, <2>4, <2>5, <2>6 DEF g
<1> QED
  BY <1>1, <1>2

LEMMA PartyFormSound ==
  ASSUME NEW w, Sound(w), NEW p \in Players, NEW g \in PartyIds
  PROVE  LET v == PartyForm(w, p, g)
         IN  Sound(v) /\ OnlyParties(v, w) /\ g \in v.parties
<1> DEFINE u == PartyLeave(w, p)
           new == u.parties \cup {g}
           v == [u EXCEPT !.parties = new, !.pl[p].party = g]
<1>1. Sound(u) /\ OnlyParties(u, w)
  BY PartyLeaveSound
<1>2. PartyForm(w, p, g) = v
  BY DEF PartyForm
<1>3. new \in SUBSET PartyIds /\ u.parties \subseteq new /\ g \in new
  BY <1>1 DEF Sound, WorldSet
<1> HIDE DEF u, new
<1>3a. g \in PartyIds \cup {Null} /\ g \in new \cup {Null}
  BY <1>3
<1>3b. v = WithParty(u, new, p, g)
  BY DEF WithParty
<1> HIDE DEF v
<1>4. Sound(v) /\ OnlyParties(v, u) /\ v.parties = new
  BY <1>1, <1>3, <1>3a, <1>3b, SetParty
<1> QED
  BY <1>1, <1>2, <1>3, <1>4, OnlyPartiesTransitive

LEMMA PartyJoinSound ==
  ASSUME NEW w, Sound(w), NEW p \in Players, NEW g \in w.parties
  PROVE  LET v == PartyJoin(w, p, g)
         IN  Sound(v) /\ OnlyParties(v, w)
<1>1. CASE w.pl[p].party = g
  <2>1. PartyJoin(w, p, g) = w
    BY <1>1 DEF PartyJoin
  <2> QED
    BY <2>1 DEF OnlyParties, SamePerson
<1>2. CASE w.pl[p].party # g
  <2> DEFINE u == PartyLeave(w, p)
             v == [u EXCEPT !.pl[p].party = g]
  <2>1. Sound(u) /\ OnlyParties(u, w) /\ g \in u.parties
    BY <1>2, PartyLeaveSound
  <2>2. PartyJoin(w, p, g) = v
    BY <1>2 DEF PartyJoin
  <2> HIDE DEF u
  <2>3. v = WithParty(u, u.parties, p, g)
    BY <2>1 DEF Sound, WorldSet, WithParty
  <2>4. u.parties \in SUBSET PartyIds
    BY <2>1 DEF Sound, WorldSet
  <2> HIDE DEF v
  <2>5. Sound(v) /\ OnlyParties(v, u)
    BY <2>1, <2>3, <2>4, SetParty
  <2> QED
    BY <2>1, <2>2, <2>5, OnlyPartiesTransitive
<1> QED
  BY <1>1, <1>2

\* Passwords and the sweep.
LEMMA SetPasswords ==
  ASSUME NEW w, Sound(w), NEW some \in SUBSET PartyIds, NEW secret \in SUBSET some,
         \A p \in Live(w) : w.pl[p].party \in some \cup {Null}
  PROVE  LET v == [w EXCEPT !.parties = some, !.passwd = secret]
         IN  Sound(v) /\ OnlyParties(v, w)
<1> DEFINE v == [w EXCEPT !.parties = some, !.passwd = secret]
<1>1. /\ v \in WorldSet /\ v.parties = some /\ v.passwd = secret /\ v.pl = w.pl
      /\ v.open = w.open /\ v.alloc = w.alloc /\ v.plist = w.plist /\ v.sock = w.sock
      /\ v.accounts = w.accounts /\ v.chars = w.chars /\ v.logged_in = w.logged_in
      /\ v.file = w.file /\ v.unsaved = w.unsaved
  BY DEF Sound, WorldSet
<1> HIDE DEF v
<1>2. OnlyParties(v, w) /\ PartiesSound(v)
  BY <1>1 DEF OnlyParties, SamePerson, PartiesSound, Live
<1> QED
  BY <1>1, <1>2, OnlyPartiesSound DEF v

LEMMA ObsoletePartiesSound ==
  ASSUME NEW w, Sound(w)
  PROVE  Sound(ObsoleteParties(w)) /\ OnlyParties(ObsoleteParties(w), w)
<1> DEFINE used == {g \in w.parties : Members(w, g) # {}}
           secret == w.passwd \cap used
<1>1. used \in SUBSET PartyIds /\ secret \in SUBSET used
  BY DEF Sound, WorldSet
<1>2. \A p \in Live(w) : w.pl[p].party \in used \cup {Null}
  BY DEF Sound, PartiesSound, Members
<1>3. ObsoleteParties(w) = [w EXCEPT !.parties = used, !.passwd = secret]
  BY DEF ObsoleteParties
<1> HIDE DEF used, secret
<1> DEFINE v == [w EXCEPT !.parties = used, !.passwd = secret]
<1>4. Sound(v) /\ OnlyParties(v, w)
  BY <1>1, <1>2, SetPasswords
<1> QED
  BY <1>3, <1>4

-----------------------------------------------------------------------------
(***************************************************************************)
(* Accounts.                                                               *)
(***************************************************************************)
\* v differs from w in the accounts only.
OnlyBook(v, w) ==
    /\ SameOwners(v, w)
    /\ \A n \in Sockets : v.sock[n].status = w.sock[n].status
    /\ v.pl = w.pl /\ v.parties = w.parties /\ v.passwd = w.passwd
    /\ v.file = w.file /\ v.unsaved = w.unsaved

Separate(chars_) == \A a, b \in Accounts : \A c \in chars_[a] \cap chars_[b] : a = b

WithBook(w, names, chars_, logged) ==
    [w EXCEPT !.accounts = names, !.chars = chars_, !.logged_in = logged]

LEMMA BookSound ==
  ASSUME NEW w, Sound(w), NEW names \in SUBSET Accounts, w.accounts \subseteq names,
         NEW chars_ \in [Accounts -> SUBSET Chars], Separate(chars_),
         \A a \in Accounts : chars_[a] # {} => a \in names,
         NEW logged \in SUBSET names
  PROVE  LET v == WithBook(w, names, chars_, logged)
         IN  /\ Sound(v) /\ OnlyBook(v, w) /\ v.sock = w.sock
             /\ v.accounts = names /\ v.chars = chars_
<1> DEFINE v == WithBook(w, names, chars_, logged)
<1>1. /\ v \in WorldSet /\ v.accounts = names /\ v.chars = chars_ /\ v.logged_in = logged
      /\ v.open = w.open /\ v.alloc = w.alloc /\ v.plist = w.plist /\ v.sock = w.sock
      /\ v.pl = w.pl /\ v.parties = w.parties /\ v.passwd = w.passwd
      /\ v.file = w.file /\ v.unsaved = w.unsaved
  BY DEF Sound, WorldSet, WithBook
<1> HIDE DEF v
<1>2. AccountsSound(v)
  BY <1>1 DEF Sound, AccountsSound, Separate
<1>3. PartiesSound(v) /\ NamesSound(v) /\ Distinct(v.plist)
  BY <1>1 DEF Sound, PartiesSound, NamesSound, Live
<1>4. OnlyBook(v, w)
  BY <1>1 DEF OnlyBook, SameOwners
<1> QED
  BY <1>1, <1>2, <1>3, <1>4 DEF Sound, v

WithAccount(w, n, a) == [w EXCEPT !.sock[n].account = a]

LEMMA AccountSound ==
  ASSUME NEW w, Sound(w), NEW n \in Sockets, NEW a \in w.accounts
  PROVE  Sound(WithAccount(w, n, a)) /\ OnlyBook(WithAccount(w, n, a), w)
<1> DEFINE r == [w.sock[n] EXCEPT !.account = a]
           x == [w.sock EXCEPT ![n] = r]
           v == WithAccount(w, n, a)
<1>0. w.sock \in [Sockets -> Socket] /\ w.sock[n] \in Socket /\ a \in Accounts
  BY DEF Sound, WorldSet
<1>1. r \in Socket /\ r.account = a /\ r.fd = w.sock[n].fd /\ r.status = w.sock[n].status
  BY <1>0 DEF Socket
<1> HIDE DEF r
<1>2. /\ x \in [Sockets -> Socket] /\ x[n] = r
      /\ \A m \in Sockets : m # n => x[m] = w.sock[m]
  BY <1>0, <1>1
<1>3. v = [w EXCEPT !.sock = x]
  BY DEF WithAccount, r
<1> HIDE DEF x, v
<1>4. /\ v \in WorldSet /\ v.accounts = w.accounts /\ v.chars = w.chars
      /\ v.logged_in = w.logged_in
      /\ v.open = w.open /\ v.alloc = w.alloc /\ v.plist = w.plist /\ v.sock = x
      /\ v.pl = w.pl /\ v.parties = w.parties /\ v.passwd = w.passwd
      /\ v.file = w.file /\ v.unsaved = w.unsaved
  BY <1>2, <1>3 DEF Sound, WorldSet
<1>5. AccountsSound(v)
  BY <1>1, <1>2, <1>4 DEF Sound, AccountsSound
<1>6. PartiesSound(v) /\ NamesSound(v) /\ Distinct(v.plist)
  BY <1>4 DEF Sound, PartiesSound, NamesSound, Live
<1>7. OnlyBook(v, w)
  BY <1>1, <1>2, <1>4 DEF OnlyBook, SameOwners, Sockets
<1> QED
  BY <1>4, <1>5, <1>6, <1>7 DEF Sound, v

LEMMA OnlyBookTransitive ==
  ASSUME NEW u, NEW v, NEW w, OnlyBook(u, v), OnlyBook(v, w)
  PROVE  OnlyBook(u, w)
  BY DEF OnlyBook, SameOwners

LEMMA BookFields ==
  ASSUME NEW w, Sound(w)
  PROVE  /\ w.accounts \in SUBSET Accounts /\ w.chars \in [Accounts -> SUBSET Chars]
         /\ w.logged_in \in SUBSET w.accounts /\ Separate(w.chars)
         /\ \A a \in Accounts : w.chars[a] # {} => a \in w.accounts
  BY DEF Sound, WorldSet, AccountsSound, Separate

LEMMA AccountLoginSound ==
  ASSUME NEW w, Sound(w), NEW n \in Sockets, NEW a \in w.accounts
  PROVE  Sound(AccountLogin(w, n, a)) /\ OnlyBook(AccountLogin(w, n, a), w)
<1> DEFINE l == w.logged_in \cup {a}
           u == WithBook(w, w.accounts, w.chars, l)
<1>0. /\ w.accounts \in SUBSET Accounts /\ w.accounts \subseteq w.accounts
      /\ w.chars \in [Accounts -> SUBSET Chars]
      /\ w.logged_in \in SUBSET w.accounts /\ Separate(w.chars)
      /\ \A b \in Accounts : w.chars[b] # {} => b \in w.accounts
  BY BookFields
<1>1. l \in SUBSET w.accounts
  BY <1>0
<1> HIDE DEF l
<1>2. Sound(u) /\ OnlyBook(u, w) /\ u.accounts = w.accounts
  BY <1>0, <1>1, BookSound
<1>3. AccountLogin(w, n, a) = WithAccount(u, n, a)
  BY DEF AccountLogin, WithAccount, WithBook, Sound, WorldSet, l
<1> HIDE DEF u
<1>4. Sound(WithAccount(u, n, a)) /\ OnlyBook(WithAccount(u, n, a), u)
  BY <1>2, AccountSound
<1> QED
  BY <1>2, <1>3, <1>4, OnlyBookTransitive

LEMMA AccountNewSound ==
  ASSUME NEW w, Sound(w), NEW n \in Sockets, NEW a \in Accounts
  PROVE  Sound(AccountNewCmd(w, n, a)) /\ OnlyBook(AccountNewCmd(w, n, a), w)
<1> DEFINE names == w.accounts \cup {a}
           u == WithBook(w, names, w.chars, w.logged_in)
<1>0. /\ w.accounts \in SUBSET Accounts /\ w.accounts \subseteq w.accounts
      /\ w.chars \in [Accounts -> SUBSET Chars]
      /\ w.logged_in \in SUBSET w.accounts /\ Separate(w.chars)
      /\ \A b \in Accounts : w.chars[b] # {} => b \in w.accounts
  BY BookFields
<1>1. /\ names \in SUBSET Accounts /\ w.accounts \subseteq names /\ a \in names
      /\ w.logged_in \in SUBSET names
      /\ \A b \in Accounts : w.chars[b] # {} => b \in names
  BY <1>0
<1> HIDE DEF names
<1>2. Sound(u) /\ OnlyBook(u, w) /\ u.accounts = names
  BY <1>0, <1>1, BookSound
<1>3. AccountNewCmd(w, n, a) = WithAccount(u, n, a)
  BY DEF AccountNewCmd, AccountNew, WithAccount, WithBook, Sound, WorldSet, names
<1> HIDE DEF u
<1>4. Sound(WithAccount(u, n, a)) /\ OnlyBook(WithAccount(u, n, a), u)
  BY <1>1, <1>2, AccountSound
<1> QED
  BY <1>2, <1>3, <1>4, OnlyBookTransitive

LEMMA AccountLinkSound ==
  ASSUME NEW w, Sound(w), NEW a \in w.accounts, NEW c \in Chars, AccountsOf(w, c) = {}
  PROVE  Sound(AccountLink(w, a, c)) /\ OnlyBook(AccountLink(w, a, c), w)
<1> DEFINE x == [w.chars EXCEPT ![a] = @ \cup {c}]
           u == WithBook(w, w.accounts, x, w.logged_in)
<1>0. /\ w.accounts \in SUBSET Accounts /\ w.accounts \subseteq w.accounts
      /\ w.chars \in [Accounts -> SUBSET Chars]
      /\ w.logged_in \in SUBSET w.accounts /\ Separate(w.chars)
      /\ \A b \in Accounts : w.chars[b] # {} => b \in w.accounts
  BY BookFields
<1>1. \A b \in Accounts : c \notin w.chars[b]
  BY <1>0 DEF AccountsOf
<1>2. /\ x \in [Accounts -> SUBSET Chars] /\ x[a] = w.chars[a] \cup {c}
      /\ \A b \in Accounts : b # a => x[b] = w.chars[b]
  BY <1>0
<1> HIDE DEF x
<1>2a. Separate(x)
  BY <1>0, <1>1, <1>2 DEF Separate
<1>2b. \A b \in Accounts : x[b] # {} => b \in w.accounts
  BY <1>0, <1>2
<1>3. Sound(u) /\ OnlyBook(u, w)
  BY <1>0, <1>2, <1>2a, <1>2b, BookSound
<1>4. AccountLink(w, a, c) = u
  BY DEF AccountLink, WithBook, Sound, WorldSet, x
<1> QED
  BY <1>3, <1>4

LEMMA AccountRemoveSound ==
  ASSUME NEW w, Sound(w), NEW a \in w.accounts, NEW c
  PROVE  LET v == AccountRemovePlayer(w, a, c)
         IN  Sound(v) /\ OnlyBook(v, w)
<1> DEFINE x == [w.chars EXCEPT ![a] = @ \ {c}]
           u == WithBook(w, w.accounts, x, w.logged_in)
<1>0. /\ w.accounts \in SUBSET Accounts /\ w.accounts \subseteq w.accounts
      /\ w.chars \in [Accounts -> SUBSET Chars]
      /\ w.logged_in \in SUBSET w.accounts /\ Separate(w.chars)
      /\ \A b \in Accounts : w.chars[b] # {} => b \in w.accounts
  BY BookFields
<1>2. /\ x \in [Accounts -> SUBSET Chars] /\ x[a] = w.chars[a] \ {c}
      /\ \A b \in Accounts : b # a => x[b] = w.chars[b]
  BY <1>0
<1> HIDE DEF x
<1>2a. Separate(x)
  BY <1>0, <1>2 DEF Separate
<1>2b. \A b \in Accounts : x[b] # {} => b \in w.accounts
  BY <1>0, <1>2
<1>3. Sound(u) /\ OnlyBook(u, w)
  BY <1>0, <1>2, <1>2a, <1>2b, BookSound
<1>4. AccountRemovePlayer(w, a, c) = u
  BY DEF AccountRemovePlayer, WithBook, Sound, WorldSet, x
<1> QED
  BY <1>3, <1>4

LEMMA AccountAddSound ==
  ASSUME NEW w, Sound(w), NEW n \in Sockets, NEW c \in Chars, NEW force,
         CanAddPlayer(w, n, c, force)
  PROVE  Sound(AccountAddPlayer(w, n, c)) /\ OnlyBook(AccountAddPlayer(w, n, c), w)
<1> DEFINE a == w.sock[n].account
<1>0. /\ w.accounts \in SUBSET Accounts /\ w.accounts \subseteq w.accounts
      /\ w.chars \in [Accounts -> SUBSET Chars]
      /\ w.logged_in \in SUBSET w.accounts /\ Separate(w.chars)
      /\ \A b \in Accounts : w.chars[b] # {} => b \in w.accounts
  BY BookFields
<1>1. a \in w.accounts
  BY DEF Sound, AccountsSound, CanAddPlayer
<1>2. CASE AccountsOf(w, c) = {}
  BY <1>1, <1>2, AccountLinkSound DEF AccountAddPlayer
<1>3. CASE AccountsOf(w, c) # {}
  <2> DEFINE o == CHOOSE b \in AccountsOf(w, c) : TRUE
             x == [w.chars EXCEPT ![a] = @ \cup {c}]
             y == [x EXCEPT ![o] = @ \ {c}]
             u == WithBook(w, w.accounts, y, w.logged_in)
  <2>1. o \in w.accounts /\ c \in w.chars[o] /\ o # a
    BY <1>3 DEF AccountsOf, CanAddPlayer
  <2> HIDE DEF o, a
  <2>2. \A b \in Accounts : c \in w.chars[b] => b = o
    BY <2>1, <1>0 DEF Separate
  <2>3. /\ x \in [Accounts -> SUBSET Chars] /\ x[a] = w.chars[a] \cup {c}
        /\ \A b \in Accounts : b # a => x[b] = w.chars[b]
    BY <1>1, <1>0
  <2> HIDE DEF x
  <2>4. /\ y \in [Accounts -> SUBSET Chars] /\ y[o] = w.chars[o] \ {c}
        /\ y[a] = w.chars[a] \cup {c}
        /\ \A b \in Accounts : b # a /\ b # o => y[b] = w.chars[b]
    BY <1>0, <1>1, <2>1, <2>3
  <2> HIDE DEF y
  <2>5. Separate(y)
    <3>1. ASSUME NEW b \in Accounts, NEW d \in y[b]
          PROVE  (d = c /\ b = a) \/ (d # c /\ d \in w.chars[b])
      <4>1. CASE b = a
        BY <3>1, <4>1, <2>4
      <4>2. CASE b = o
        BY <3>1, <4>2, <2>4
      <4>3. CASE b # a /\ b # o
        BY <3>1, <4>3, <2>2, <2>4
      <4> QED
        BY <4>1, <4>2, <4>3
    <3> QED
      BY <3>1, <1>0 DEF Separate
  <2>6. \A b \in Accounts : y[b] # {} => b \in w.accounts
    BY <1>0, <1>1, <2>1, <2>4
  <2>7. Sound(u) /\ OnlyBook(u, w)
    BY <1>0, <2>4, <2>5, <2>6, BookSound
  <2> DEFINE v == AccountLink(w, a, c)
  <2>8. AccountAddPlayer(w, n, c) = AccountRemovePlayer(v, o, c)
    BY <1>3 DEF AccountAddPlayer, o, a
  <2>9. v = WithBook(w, w.accounts, x, w.logged_in) /\ v.chars = x
    BY DEF AccountLink, WithBook, Sound, WorldSet, x
  <2>10. AccountRemovePlayer(v, o, c) = u
    <3>1. AccountRemovePlayer(v, o, c) = [v EXCEPT !.chars = y]
      BY <2>9 DEF AccountRemovePlayer, y
    <3> HIDE DEF v
    <3> QED
      BY <3>1, <2>9 DEF WithBook
  <2> HIDE DEF v
  <2> QED
    BY <2>7, <2>8, <2>10
<1> QED
  BY <1>2, <1>3

-----------------------------------------------------------------------------
(***************************************************************************)
(* Saving and leaving.                                                     *)
(***************************************************************************)
WithFile(w, c, f) == [w EXCEPT !.file[c] = f, !.unsaved = @ \ {c}]

LEMMA FileSound ==
  ASSUME NEW w, Sound(w), NEW c \in Chars, NEW f \in PlayerFile
  PROVE  LET v == WithFile(w, c, f)
         IN  /\ Sound(v) /\ SameOwners(v, w) /\ v.sock = w.sock /\ v.pl = w.pl
             /\ v.unsaved = w.unsaved \ {c}
<1> DEFINE v == WithFile(w, c, f)
           x == [w.file EXCEPT ![c] = f]
           b == w.unsaved \ {c}
<1>1. x \in [Chars -> PlayerFile] /\ b \in SUBSET Chars
  BY DEF Sound, WorldSet
<1>2. v = [w EXCEPT !.file = x, !.unsaved = b]
  BY DEF WithFile
<1> HIDE DEF x, b, v
<1>3. /\ v \in WorldSet /\ v.unsaved = b
      /\ v.open = w.open /\ v.alloc = w.alloc /\ v.sock = w.sock /\ v.plist = w.plist
      /\ v.pl = w.pl /\ v.parties = w.parties /\ v.passwd = w.passwd
      /\ v.accounts = w.accounts /\ v.chars = w.chars /\ v.logged_in = w.logged_in
  BY <1>1, <1>2 DEF Sound, WorldSet
<1>4. PartiesSound(v) /\ AccountsSound(v) /\ NamesSound(v) /\ Distinct(v.plist)
  BY <1>3 DEF Sound, PartiesSound, AccountsSound, NamesSound, Live
<1>5. SameOwners(v, w)
  BY <1>3 DEF SameOwners
<1> QED
  BY <1>3, <1>4, <1>5 DEF Sound, v, b

\* save_player changes no player, and what could be saved is when it can.
LEMMA SaveSound ==
  ASSUME NEW w, Sound(w), NEW p \in Live(w), NEW ok \in BOOLEAN
  PROVE  LET v == Save(w, p, ok)
         IN  /\ Sound(v) /\ SameOwners(v, w) /\ v.pl = w.pl
             /\ \A n \in Sockets : v.sock[n].status = w.sock[n].status
             /\ v.unsaved \subseteq w.unsaved
             /\ ok /\ Savable(w, p) => w.pl[p].name \notin v.unsaved
<1> DEFINE v == Save(w, p, ok)
<1>1. CASE ~Savable(w, p)
  <2>1. v = w
    BY <1>1 DEF Save
  <2> HIDE DEF v
  <2> QED
    BY <2>1, <1>1 DEF v, SameOwners
<1>2. CASE Savable(w, p)
  <2> DEFINE c == w.pl[p].name
             a == w.sock[p].account
             u == IF a # Null /\ AccountsOf(w, c) = {} THEN AccountLink(w, a, c) ELSE w
             g == w.pl[p].party
             f == [exists |-> TRUE, password |-> w.pl[p].password,
                   party |-> IF g = Null THEN Null ELSE PartyName[g]]
  <2>1. c \in Chars /\ p \in Players /\ p \in Sockets
    BY <1>2 DEF Savable, Sound, WorldSet, Live, Sockets
  <2>2. a \in w.accounts \cup {Null} /\ g \in PartyIds \cup {Null} /\ w.pl[p] \in Player
    BY <2>1 DEF Sound, WorldSet, AccountsSound, PartiesSound
  <2>3. f \in PlayerFile
    BY <2>2, NamesAssumption DEF PlayerFile, Player
  <2>4. v = IF ok THEN WithFile(u, c, f) ELSE u
    BY <1>2 DEF Save, WithFile
  <2> HIDE DEF v, f, c, a, g
  <2>5. Sound(u) /\ OnlyBook(u, w)
    <3>1. CASE a # Null /\ AccountsOf(w, c) = {}
      BY <3>1, <2>1, <2>2, AccountLinkSound
    <3>2. CASE ~(a # Null /\ AccountsOf(w, c) = {})
      <4>1. u = w
        BY <3>2
      <4> HIDE DEF u
      <4> QED
        BY <4>1 DEF OnlyBook, SameOwners
    <3> QED
      BY <3>1, <3>2
  <2> HIDE DEF u
  <2>6. CASE ok
    <3> DEFINE x == WithFile(u, c, f)
    <3>1. /\ Sound(x) /\ SameOwners(x, u) /\ x.sock = u.sock /\ x.pl = u.pl
          /\ x.unsaved = u.unsaved \ {c}
      BY <2>1, <2>3, <2>5, FileSound
    <3>2. v = x
      BY <2>4, <2>6
    <3> HIDE DEF x
    <3>3. SameOwners(x, w)
      BY <3>1, <2>5, SameOwnersTransitive DEF OnlyBook
    <3> QED
      BY <3>1, <3>2, <3>3, <2>5 DEF OnlyBook, v, c
  <2>7. CASE ~ok
    BY <2>4, <2>5, <2>7 DEF OnlyBook, v
  <2> QED
    BY <2>6, <2>7
<1> QED
  BY <1>1, <1>2

\* leave: the player stays on the list, and nobody else is touched.
LEMMA LeaveSound ==
  ASSUME NEW w, Sound(w), NEW p \in Live(w)
  PROVE  LET v == Leave(w, p)
         IN  /\ Sound(v) /\ SameOwners(v, w) /\ v.unsaved = w.unsaved
             /\ \A n \in Sockets : n # p => v.sock[n] = w.sock[n]
             /\ \A q \in Players : q # p => v.pl[q] = w.pl[q]
<1> DEFINE r == [w.pl[p] EXCEPT !.left = TRUE]
           u == WithPlayer(w, p, r)
           x == [u EXCEPT !.sock[p].status = "Dead"]
<1>1. p \in Players /\ p \in Sockets /\ w.pl[p] \in Player /\ w.sock[p] \in Socket
  BY DEF Sound, WorldSet, Live, Sockets
<1>2. Fitting(w, p, r)
  BY <1>1 DEF Fitting, Player, Sound, NamesSound
<1>3. Sound(u) /\ SameOwners(u, w)
  BY <1>1, <1>2, EditPlayer
<1>4. /\ u.unsaved = w.unsaved /\ u.sock = w.sock
      /\ \A q \in Players : q # p => u.pl[q] = w.pl[q]
  BY DEF Sound, WorldSet, WithPlayer
<1>5. Leave(w, p) = PartyLeave(x, p)
  <2>1. x = [w EXCEPT !.sock[p].status = "Dead", !.pl[p].left = TRUE]
    BY DEF Sound, WorldSet, WithPlayer
  <2> HIDE DEF x
  <2> QED
    BY <2>1 DEF Leave
<1> HIDE DEF u, r
<1>6. Sound(x) /\ SameOwners(x, u)
  BY <1>1, <1>3, EditSocket
<1>7. /\ x.unsaved = u.unsaved /\ x.pl = u.pl
      /\ \A n \in Sockets : n # p => x.sock[n] = u.sock[n]
  BY <1>3 DEF Sound, WorldSet
<1> DEFINE v == PartyLeave(x, p)
<1> HIDE DEF x
<1>8. /\ Sound(v) /\ OnlyParties(v, x)
      /\ \A q \in Players : q # p => v.pl[q] = x.pl[q]
  BY <1>1, <1>6, PartyLeaveSound
<1> HIDE DEF v
<1>9. SameOwners(v, w)
  BY <1>3, <1>6, <1>8, OnlyPartiesOwners, SameOwnersTransitive
<1> QED
  BY <1>4, <1>5, <1>7, <1>8, <1>9 DEF OnlyParties, v

\* The three calls that drop a player take that one off the list and no more.
LEMMA DropSound ==
  ASSUME NEW w, Sound(w), NEW p \in Live(w), NEW ok \in BOOLEAN
  PROVE  LET v == Drop(w, p, ok)
         IN  /\ Sound(v) /\ Live(v) = Live(w) \ {p} /\ (Owned(w) => Owned(v))
             /\ \A q \in Players : q # p => v.pl[q] = w.pl[q]
             /\ \A n \in Sockets : n # p => v.sock[n].status = w.sock[n].status
             /\ v.unsaved \subseteq w.unsaved
             /\ ok /\ Savable(w, p) => w.pl[p].name \notin v.unsaved
<1> DEFINE s == Save(w, p, ok)
           l == Leave(s, p)
           v == FreePlayer(l, p)
<1>1. Drop(w, p, ok) = v
  BY DEF Drop
<1>2. p \in Players
  BY DEF Sound, WorldSet, Live
<1>3. /\ Sound(s) /\ SameOwners(s, w) /\ s.pl = w.pl
      /\ \A n \in Sockets : s.sock[n].status = w.sock[n].status
      /\ s.unsaved \subseteq w.unsaved
      /\ ok /\ Savable(w, p) => w.pl[p].name \notin s.unsaved
  BY SaveSound
<1> HIDE DEF s
<1>4. p \in Live(s) /\ Live(s) = Live(w)
  BY <1>3 DEF SameOwners, Live
<1>5. /\ Sound(l) /\ SameOwners(l, s) /\ l.unsaved = s.unsaved
      /\ \A n \in Sockets : n # p => l.sock[n] = s.sock[n]
      /\ \A q \in Players : q # p => l.pl[q] = s.pl[q]
  BY <1>3, <1>4, LeaveSound
<1> HIDE DEF l
<1>6. p \in Live(l) /\ Live(l) = Live(s)
  BY <1>4, <1>5 DEF SameOwners, Live
<1>7. /\ Sound(v) /\ Live(v) = Live(l) \ {p}
      /\ v.pl = [l.pl EXCEPT ![p] = NewPlayer]
      /\ v.unsaved = l.unsaved
      /\ \A n \in Sockets : n # p => v.sock[n] = l.sock[n]
      /\ Owned(l) => Owned(v)
  BY <1>5, <1>6, FreePlayerSound
<1> HIDE DEF v
<1>8. Owned(w) => Owned(v)
  BY <1>3, <1>5, <1>7, SameOwnersOwned
<1>9. \A q \in Players : q # p => v.pl[q] = w.pl[q]
  BY <1>3, <1>5, <1>7 DEF Sound, WorldSet
<1>10. \A n \in Sockets : n # p => v.sock[n].status = w.sock[n].status
  BY <1>3, <1>5, <1>7
<1>11. Live(v) = Live(w) \ {p}
  BY <1>4, <1>6, <1>7
<1>12. /\ v.unsaved \subseteq w.unsaved
       /\ ok /\ Savable(w, p) => w.pl[p].name \notin v.unsaved
  BY <1>3, <1>5, <1>7
<1> QED
  BY <1>1, <1>7, <1>8, <1>9, <1>10, <1>11, <1>12

-----------------------------------------------------------------------------
(***************************************************************************)
(* Logging in.                                                             *)
(***************************************************************************)
\* What a handler of p's own structure keeps: everyone's descriptor, the files'
\* state, and who is on the list.
Own(v, w, p) ==
    /\ Sound(v) /\ SameOwners(v, w) /\ v.unsaved = w.unsaved
    /\ \A n \in Sockets : n # p => v.sock[n] = w.sock[n]

\* Among positions of a list one is the first: the sets of positions up to one
\* of them are ordered by inclusion, and one of those is minimal.
LEMMA LeastPosition ==
  ASSUME NEW n \in Nat, NEW S \in SUBSET (1 .. n), S # {}
  PROVE  \E i \in S : \A j \in S : i <= j
<1> DEFINE Below(i) == {j \in S : j <= i}
           T == {Below(i) : i \in S}
<1>1. IsFiniteSet(1 .. n)
  BY FS_Interval
<1>2. IsWellFoundedOn(StrictSubsetOrdering(1 .. n), FiniteSubsetsOf(1 .. n))
  BY <1>1, FS_StrictSubsetOrderingWellFounded
<1>3. T \subseteq FiniteSubsetsOf(1 .. n) /\ T # {}
  <2>1. ASSUME NEW i \in S PROVE Below(i) \in FiniteSubsetsOf(1 .. n)
    <3>1. Below(i) \in SUBSET (1 .. n)
      OBVIOUS
    <3> HIDE DEF Below
    <3> QED
      BY <3>1, <1>1, FS_Subset DEF FiniteSubsetsOf
  <2> HIDE DEF Below
  <2> QED
    BY <2>1
<1> HIDE DEF T
<1>4. PICK x \in T : \A y \in T : <<y, x>> \notin StrictSubsetOrdering(1 .. n)
  BY <1>2, <1>3, WFMin
<1>5. PICK i \in S : x = Below(i)
  BY <1>4 DEF T
<1>6. ASSUME NEW j \in S, j < i PROVE FALSE
  <2>0. Below(j) \in T
    BY DEF T
  <2>a. i \in Int /\ j \in Int /\ \A k \in S : k \in Int
    OBVIOUS
  <2>b. \A k \in S : k <= j => k <= i
    BY <1>6, <2>a
  <2>c. i <= i /\ ~(i <= j)
    BY <1>6, <2>a
  <2>1. Below(j) \subseteq Below(i) /\ i \in Below(i) /\ i \notin Below(j)
    <3>1. Below(j) \subseteq Below(i)
      BY <2>b
    <3>2. i \in Below(i)
      BY <2>c
    <3>3. i \notin Below(j)
      BY <2>c
    <3> QED
      BY <3>1, <3>2, <3>3
  <2>2. Below(j) \in SUBSET (1 .. n) /\ Below(i) \in SUBSET (1 .. n)
    OBVIOUS
  <2>3. <<Below(j), x>> \notin StrictSubsetOrdering(1 .. n)
    BY <2>0, <1>4
  <2>4. \A a, b \in SUBSET (1 .. n) : a \subseteq b /\ a # b => <<a, b>> \in StrictSubsetOrdering(1 .. n)
    BY DEF StrictSubsetOrdering
  <2>5. Below(j) # Below(i)
    BY <2>1
  <2> HIDE DEF Below
  <2> QED
    BY <2>1, <2>2, <2>3, <2>4, <2>5, <1>5
<1> QED
  BY <1>6

\* The first other player of the same name is on the list.
LEMMA FirstOther ==
  ASSUME NEW w, Sound(w), NEW p, SameName(w, p) # {}
  PROVE  First(w, SameName(w, p)) \in Live(w) \ {p}
<1> DEFINE is == SameName(w, p)
           k == CHOOSE i \in is : \A j \in is : i <= j
<1>1. is \in SUBSET (1 .. Len(w.plist)) /\ Len(w.plist) \in Nat
  BY DEF SameName, Sound, WorldSet
<1> HIDE DEF is
<1>2. \E i \in is : \A j \in is : i <= j
  BY <1>1, LeastPosition DEF is
<1>3. k \in is
  BY <1>2
<1>4. First(w, is) = w.plist[k]
  BY DEF First
<1> HIDE DEF k
<1>5. w.plist[k] # p /\ k \in DOMAIN w.plist
  BY <1>3 DEF is, SameName
<1> QED
  BY <1>4, <1>5 DEF is, Live

LEMMA OptionsTyped ==
  ASSUME NEW opts \in Options
  PROVE  opts.ok \in SaveOutcomes /\ opts.ok \in BOOLEAN
  BY SessionsAssumption DEF Options

LEMMA WrongPasswordSound ==
  ASSUME NEW w, Sound(w), NEW p \in Players, NEW last, w.pl[p].state # "GET_PASSWORD"
  PROVE  Own(WrongPassword(w, p, last), w, p)
<1> DEFINE r == [w.pl[p] EXCEPT !.name = Anon]
           u == WithPlayer(w, p, r)
           s == [r EXCEPT !.state = "GET_NAME"]
           x == [u EXCEPT !.sock[p].status = "Dead"]
           y == WithPlayer(u, p, s)
<1>0. p \in Sockets /\ w.pl[p] \in Player
  BY DEF Sockets, Sound, WorldSet
<1>1. Fitting(w, p, r) /\ r \in Player
  BY <1>0 DEF Fitting, Player
<1>2. Sound(u) /\ SameOwners(u, w) /\ OnlyPlayer(u, w, p) /\ u.pl[p] = r
  BY <1>1, EditPlayer
<1>3. WrongPassword(w, p, last) = IF last THEN x ELSE y
  BY <1>2 DEF WrongPassword, WithPlayer, Sound, WorldSet
<1>4. Fitting(u, p, s)
  BY <1>1, <1>2 DEF Fitting, Player, States
<1> HIDE DEF u, r, s
<1>5. Sound(x) /\ SameOwners(x, u)
  BY <1>0, <1>2, EditSocket
<1>6. x.unsaved = u.unsaved /\ \A n \in Sockets : n # p => x.sock[n] = u.sock[n]
  BY <1>2 DEF Sound, WorldSet
<1>7. Sound(y) /\ SameOwners(y, u) /\ OnlyPlayer(y, u, p)
  BY <1>2, <1>4, EditPlayer
<1> HIDE DEF x, y
<1>8. Own(x, w, p)
  BY <1>2, <1>5, <1>6, SameOwnersTransitive DEF Own, OnlyPlayer
<1>9. Own(y, w, p)
  BY <1>2, <1>7, SameOwnersTransitive DEF Own, OnlyPlayer
<1> QED
  BY <1>3, <1>8, <1>9

LEMMA RejoinSound ==
  ASSUME NEW w, Sound(w), NEW p \in Players, NEW n \in PartyNames \cup {Null}, NEW opts
  PROVE  Sound(Rejoin(w, p, n, opts)) /\ OnlyParties(Rejoin(w, p, n, opts), w)
<1> DEFINE found == PartyFind(w, n)
           joined == CHOOSE g \in found : TRUE
           fresh == {g \in PartyIds \ w.parties : PartyName[g] = n}
           formed == CHOOSE g \in fresh : TRUE
           v == Rejoin(w, p, n, opts)
<1>0. OnlyParties(w, w)
  BY DEF OnlyParties, SamePerson
<1>1. CASE v = w
  BY <1>0, <1>1
<1>2. CASE found # {} /\ v = PartyJoin(w, p, joined)
  <2>1. joined \in w.parties
    BY <1>2 DEF PartyFind
  <2> QED
    BY <2>1, <1>2, PartyJoinSound
<1>3. CASE /\ fresh # {}
           /\ v = [PartyForm(w, p, formed) EXCEPT
                     !.passwd = IF opts.guarded THEN @ \cup {formed} ELSE @]
  <2> DEFINE u == PartyForm(w, p, formed)
             secret == IF opts.guarded THEN u.passwd \cup {formed} ELSE u.passwd
             x == [u EXCEPT !.parties = u.parties, !.passwd = secret]
  <2>1. formed \in PartyIds
    BY <1>3
  <2> HIDE DEF formed
  <2>2. Sound(u) /\ OnlyParties(u, w) /\ formed \in u.parties
    BY <2>1, PartyFormSound
  <2>3. v = x
    BY <1>3, <2>2 DEF Sound, WorldSet
  <2> HIDE DEF u, v
  <2>4. u.parties \in SUBSET PartyIds /\ secret \in SUBSET u.parties
    BY <2>2 DEF Sound, WorldSet, PartiesSound
  <2>5. \A q \in Live(u) : u.pl[q].party \in u.parties \cup {Null}
    BY <2>2 DEF Sound, PartiesSound
  <2> HIDE DEF secret
  <2>6. Sound(x) /\ OnlyParties(x, u)
    BY <2>2, <2>4, <2>5, SetPasswords
  <2> HIDE DEF x
  <2> QED
    BY <2>2, <2>3, <2>6, OnlyPartiesTransitive DEF v
<1>4. \/ v = w
      \/ found # {} /\ v = PartyJoin(w, p, joined)
      \/ /\ fresh # {}
         /\ v = [PartyForm(w, p, formed) EXCEPT
                   !.passwd = IF opts.guarded THEN @ \cup {formed} ELSE @]
  BY DEF Rejoin
<1> QED
  BY <1>1, <1>2, <1>3, <1>4

LEMMA LoadSound ==
  ASSUME NEW w, Sound(w), NEW p \in Players, w.pl[p].name \in Chars, NEW opts
  PROVE  Own(Load(w, p, opts), w, p) /\ Load(w, p, opts).sock = w.sock
<1> DEFINE f == w.file[w.pl[p].name]
           r == [w.pl[p] EXCEPT !.party = Null, !.state = "PLAYING",
                    !.password = f.password, !.exp = TRUE, !.left = FALSE]
           u == WithPlayer(w, p, r)
           v == Rejoin(u, p, f.party, opts)
<1>1. w.pl[p] \in Player /\ f \in PlayerFile
  BY DEF Sound, WorldSet
<1>2. f.password \in Passwords \cup {Null} /\ f.party \in PartyNames \cup {Null}
  BY <1>1 DEF PlayerFile
<1>3. Load(w, p, opts) = v
  BY DEF Load, WithPlayer
<1> HIDE DEF f
<1>4. Fitting(w, p, r)
  BY <1>1, <1>2 DEF Fitting, Player, States
<1> HIDE DEF r
<1>5. Sound(u) /\ SameOwners(u, w) /\ OnlyPlayer(u, w, p)
  BY <1>4, EditPlayer
<1> HIDE DEF u
<1>6. Sound(v) /\ OnlyParties(v, u)
  BY <1>2, <1>5, RejoinSound
<1> HIDE DEF v
<1>7. SameOwners(v, w)
  BY <1>5, <1>6, OnlyPartiesOwners, SameOwnersTransitive
<1> QED
  BY <1>3, <1>5, <1>6, <1>7 DEF Own, OnlyPlayer, OnlyParties

\* What check_login keeps: the player stays, and whoever else is dropped was saved.
LEMMA CheckLoginSound ==
  ASSUME NEW w, Sound(w), NEW p \in Live(w), w.pl[p].name \in Chars,
         w.pl[p].state # "GET_PASSWORD",
         NEW password, NEW opts \in Options
  PROVE  LET v == CheckLogin(w, p, password, opts)
         IN  /\ Sound(v) /\ (Owned(w) => Owned(v)) /\ p \in Live(v)
             /\ v.unsaved \subseteq w.unsaved
             /\ \A q \in Live(w) \ Live(v) :
                   opts.ok /\ Savable(w, q) => w.pl[q].name \notin v.unsaved
             /\ password = Null => v.sock[p].status = w.sock[p].status
<1> DEFINE same == SameName(w, p)
           q == First(w, same)
           w1 == IF same = {} THEN w ELSE Drop(w, q, opts.ok)
           v == CheckLogin(w, p, password, opts)
           r == [w1.pl[p] EXCEPT !.state = "CREATE"]
           c == WithPlayer(w1, p, r)
<1>1. p \in Players /\ p \in Sockets
  BY DEF Sound, WorldSet, Live, Sockets
<1>2. same # {} => q \in Live(w) \ {p}
  BY FirstOther
<1>3. opts.ok \in BOOLEAN
  BY OptionsTyped
<1>4. \/ v = WrongPassword(w, p, opts.last) /\ password # Null
      \/ v = c
      \/ v = WrongPassword(w1, p, opts.last) /\ password # Null
      \/ v = Load(w1, p, opts)
  BY DEF CheckLogin, WithPlayer
<1> HIDE DEF v, q, same
<1>5. /\ Sound(w1) /\ (Owned(w) => Owned(w1)) /\ p \in Live(w1)
      /\ w1.unsaved \subseteq w.unsaved
      /\ w1.pl[p] = w.pl[p] /\ w1.sock[p].status = w.sock[p].status
      /\ \A x \in Live(w) \ Live(w1) :
            opts.ok /\ Savable(w, x) => w.pl[x].name \notin w1.unsaved
  <2>1. CASE same = {}
    BY <2>1
  <2>2. CASE same # {}
    <3> DEFINE d == Drop(w, q, opts.ok)
    <3>1. /\ Sound(d) /\ Live(d) = Live(w) \ {q} /\ (Owned(w) => Owned(d))
          /\ \A x \in Players : x # q => d.pl[x] = w.pl[x]
          /\ \A n \in Sockets : n # q => d.sock[n].status = w.sock[n].status
          /\ d.unsaved \subseteq w.unsaved
          /\ opts.ok /\ Savable(w, q) => w.pl[q].name \notin d.unsaved
      BY <1>2, <1>3, <2>2, DropSound
    <3>2. w1 = d
      BY <2>2
    <3> HIDE DEF d, w1
    <3> QED
      BY <3>1, <3>2, <1>1, <1>2, <2>2
  <2> QED
    BY <2>1, <2>2
<1> HIDE DEF w1
<1>6. CASE v = WrongPassword(w, p, opts.last) /\ password # Null
  <2>1. Own(v, w, p)
    BY <1>1, <1>6, WrongPasswordSound
  <2> QED
    BY <2>1, <1>6, SameOwnersOwned DEF Own, SameOwners, Live, v
<1>7. ASSUME Own(v, w1, p), password = Null => v.sock[p].status = w1.sock[p].status
      PROVE  /\ Sound(v) /\ (Owned(w) => Owned(v)) /\ p \in Live(v)
             /\ v.unsaved \subseteq w.unsaved
             /\ \A x \in Live(w) \ Live(v) :
                   opts.ok /\ Savable(w, x) => w.pl[x].name \notin v.unsaved
             /\ password = Null => v.sock[p].status = w.sock[p].status
  <2>1. Live(v) = Live(w1) /\ v.unsaved = w1.unsaved /\ Sound(v) /\ (Owned(w1) => Owned(v))
    BY <1>7, SameOwnersOwned DEF Own, SameOwners, Live
  <2> QED
    BY <2>1, <1>5, <1>7
<1>8. CASE v = c
  <2>1. Fitting(w1, p, r)
    <3>1. w1.pl[p] \in Player
      BY <1>1, <1>5 DEF Sound, WorldSet
    <3> QED
      BY <3>1 DEF Fitting, Player, States
  <2> HIDE DEF r
  <2>2. Sound(c) /\ SameOwners(c, w1) /\ OnlyPlayer(c, w1, p)
    BY <1>1, <1>5, <2>1, EditPlayer
  <2> HIDE DEF c
  <2>3. Own(v, w1, p) /\ v.sock = w1.sock
    BY <1>8, <2>2 DEF Own, OnlyPlayer
  <2> QED
    BY <2>3, <1>7 DEF v
<1>9. CASE v = WrongPassword(w1, p, opts.last) /\ password # Null
  <2>1. Own(v, w1, p)
    BY <1>1, <1>5, <1>9, WrongPasswordSound
  <2> QED
    BY <2>1, <1>7, <1>9 DEF v
<1>10. CASE v = Load(w1, p, opts)
  <2>1. Own(v, w1, p) /\ v.sock = w1.sock
    BY <1>1, <1>5, <1>10, LoadSound
  <2> QED
    BY <2>1, <1>7 DEF v
<1> QED
  BY <1>4, <1>6, <1>8, <1>9, <1>10

-----------------------------------------------------------------------------
(***************************************************************************)
(* Commands.                                                               *)
(***************************************************************************)
\* What the handler of a command from socket n may do: the world stays sound,
\* descriptors stay owned, a player who sent it stays on the list, whoever else
\* was dropped was saved (if files can be written), and the sender's connection
\* dies only when there was nothing to save.
Handled(v, w, n) ==
    /\ Sound(v) /\ (Owned(w) => Owned(v))
    /\ n \in Players => n \in Live(v)
    /\ \A q \in Live(w) \ Live(v) :
          SaveOutcomes = {TRUE} /\ Savable(w, q) => w.pl[q].name \notin v.unsaved
    /\ n \in Players /\ v.sock[n].status = "Dead" => ~Savable(w, n)

\* A handler that touches nobody's descriptor.
LEMMA QuietHandled ==
  ASSUME NEW v, NEW w, NEW n, Sound(v), SameOwners(v, w), n \in Players => n \in Live(w),
         n \in Players /\ v.sock[n].status = "Dead" => ~Savable(w, n)
  PROVE  Handled(v, w, n)
<1>1. Live(v) = Live(w) /\ (Owned(w) => Owned(v))
  BY SameOwnersOwned DEF SameOwners, Live
<1> QED
  BY <1>1 DEF Handled

\* An edit of one's own structure.
LEMMA EditHandled ==
  ASSUME NEW w, Sound(w), NEW p \in Live(w), NEW r, Fitting(w, p, r),
         w.sock[p].status # "Dead"
  PROVE  Handled(WithPlayer(w, p, r), w, p)
<1> DEFINE v == WithPlayer(w, p, r)
<1>1. p \in Players
  BY DEF Sound, WorldSet, Live
<1>2. Sound(v) /\ SameOwners(v, w) /\ OnlyPlayer(v, w, p)
  BY <1>1, EditPlayer
<1> HIDE DEF v
<1>3. v.sock = w.sock
  BY <1>2 DEF OnlyPlayer
<1>4. Handled(v, w, p)
  BY <1>2, <1>3, QuietHandled
<1> QED
  BY <1>4 DEF v

\* A change of parties.
LEMMA PartiesHandled ==
  ASSUME NEW v, NEW w, NEW p \in Live(w), Sound(v), OnlyParties(v, w),
         w.sock[p].status # "Dead"
  PROVE  Handled(v, w, p)
<1>1. SameOwners(v, w) /\ v.sock = w.sock
  BY OnlyPartiesOwners DEF OnlyParties
<1> QED
  BY <1>1, QuietHandled

\* A change of accounts.
LEMMA BookHandled ==
  ASSUME NEW v, NEW w, NEW n \in Sockets, Sound(v), OnlyBook(v, w),
         n \in Players => n \in Live(w), w.sock[n].status # "Dead"
  PROVE  Handled(v, w, n)
<1>1. SameOwners(v, w) /\ v.sock[n].status # "Dead"
  BY DEF OnlyBook
<1> QED
  BY <1>1, QuietHandled

LEMMA AccountPlayHandled ==
  ASSUME NEW w, Sound(w), NEW n \in Sockets, NEW c \in Chars, CanPlay(w, n, c),
         n \in Players => n \in Live(w),
         NEW p \in Players, IF n \in Players THEN p = n ELSE p \notin Live(w),
         NEW opts \in Options
  PROVE  Handled(AccountPlay(w, n, p, c, opts), w, n)
<1>0. w.sock[n].status = "Add" /\ opts.ok \in BOOLEAN
  BY OptionsTyped DEF CanPlay
<1>a. SaveOutcomes = {TRUE} => opts.ok
  BY OptionsTyped
<1>b. Live(w) \subseteq Players
  BY DEF Sound, WorldSet, Live
<1>1. CASE n \in Players
  <2> DEFINE s == Save(w, p, opts.ok)
             r == [s.pl[p] EXCEPT !.state = "PLAYING", !.name = c]
             x == WithPlayer(s, p, r)
             v == CheckLogin(x, p, Null, opts)
  <2>1. p = n /\ p \in Live(w)
    BY <1>1
  <2>2. /\ Sound(s) /\ SameOwners(s, w) /\ s.pl = w.pl
        /\ \A m \in Sockets : s.sock[m].status = w.sock[m].status
        /\ s.unsaved \subseteq w.unsaved
        /\ opts.ok /\ Savable(w, p) => w.pl[p].name \notin s.unsaved
    BY <1>0, <2>1, SaveSound
  <2>3. AccountPlay(w, n, p, c, opts) = v
    <3>1. [[s EXCEPT !.pl[p].state = "PLAYING"] EXCEPT !.pl[p].name = c] = x
      BY <2>2 DEF WithPlayer, Sound, WorldSet, Player
    <3> HIDE DEF x
    <3> QED
      BY <1>1, <3>1 DEF AccountPlay, IsPlayer
  <2> HIDE DEF s
  <2>4. p \in Live(s) /\ Live(s) = Live(w) /\ (Owned(w) => Owned(s))
    BY <2>1, <2>2, SameOwnersOwned DEF SameOwners, Live
  <2>5. s.pl[p] \in Player
    BY <2>2 DEF Sound, WorldSet
  <2>6. Fitting(s, p, r) /\ r.name = c /\ r.state = "PLAYING"
    BY <2>5 DEF Fitting, Player, States
  <2> HIDE DEF r
  <2>7. Sound(x) /\ SameOwners(x, s) /\ OnlyPlayer(x, s, p) /\ x.pl[p] = r
    BY <2>2, <2>6, EditPlayer
  <2> HIDE DEF x
  <2>8. p \in Live(x) /\ Live(x) = Live(s) /\ (Owned(s) => Owned(x))
    BY <2>4, <2>7, SameOwnersOwned DEF SameOwners, Live
  <2>9. x.pl[p].name \in Chars /\ x.pl[p].state # "GET_PASSWORD"
    BY <2>6, <2>7
  <2>10. /\ Sound(v) /\ (Owned(x) => Owned(v)) /\ p \in Live(v)
         /\ v.unsaved \subseteq x.unsaved
         /\ \A q \in Live(x) \ Live(v) :
               opts.ok /\ Savable(x, q) => x.pl[q].name \notin v.unsaved
         /\ v.sock[p].status = x.sock[p].status
    BY <2>7, <2>8, <2>9, CheckLoginSound
  <2> HIDE DEF v
  <2>11. v.sock[n].status # "Dead"
    BY <1>0, <2>1, <2>2, <2>7, <2>10 DEF OnlyPlayer
  <2>12. ASSUME NEW q \in Live(w) \ Live(v), SaveOutcomes = {TRUE}, Savable(w, q)
         PROVE  w.pl[q].name \notin v.unsaved
    <3>1. q # p /\ q \in Players /\ q \in Live(x)
      BY <2>12, <1>b, <2>1, <2>4, <2>8, <2>10
    <3>2. x.pl[q] = w.pl[q]
      BY <3>1, <2>2, <2>7 DEF OnlyPlayer
    <3>3. Savable(x, q)
      BY <2>12, <3>2 DEF Savable
    <3> QED
      BY <2>12, <3>1, <3>2, <3>3, <2>10, <1>a
  <2>13. Handled(v, w, n)
    BY <2>1, <2>4, <2>8, <2>10, <2>11, <2>12 DEF Handled
  <2> QED
    BY <2>3, <2>13
<1>2. CASE n \notin Players
  <2> DEFINE s == MoveSocket(AddPlayer(w, p), n, p)
             r == [s.pl[p] EXCEPT !.name = c]
             x == WithPlayer(s, p, r)
             v == CheckLogin(x, p, Null, opts)
  <2>1. n \in Slots /\ p \notin Live(w)
    BY <1>2 DEF Sockets
  <2>2. /\ Sound(s) /\ Live(s) = Live(w) \cup {p}
        /\ s.pl = [w.pl EXCEPT ![p] = NewPlayer]
        /\ s.unsaved = w.unsaved
        /\ Owned(w) => Owned(s)
    BY <1>0, <2>1, NewPlayerOwns
  <2>3. AccountPlay(w, n, p, c, opts) = v
    BY <1>2 DEF AccountPlay, IsPlayer, WithPlayer
  <2> HIDE DEF s
  <2>5. s.pl[p] \in Player /\ s.pl[p] = NewPlayer /\ \A q \in Players : q # p => s.pl[q] = w.pl[q]
    BY <2>2 DEF Sound, WorldSet
  <2>6. Fitting(s, p, r) /\ r.name = c /\ r.state = "CREATE"
    <3>1. s.pl[p].state = "CREATE"
      BY <2>5 DEF NewPlayer
    <3> QED
      BY <2>5, <3>1 DEF Fitting, Player, States
  <2> HIDE DEF r
  <2>7. Sound(x) /\ SameOwners(x, s) /\ OnlyPlayer(x, s, p) /\ x.pl[p] = r
    BY <2>2, <2>6, EditPlayer
  <2> HIDE DEF x
  <2>8. p \in Live(x) /\ Live(x) = Live(s) /\ (Owned(s) => Owned(x))
    BY <2>2, <2>7, SameOwnersOwned DEF SameOwners, Live
  <2>9. x.pl[p].name \in Chars /\ x.pl[p].state # "GET_PASSWORD"
    BY <2>6, <2>7
  <2>10. /\ Sound(v) /\ (Owned(x) => Owned(v)) /\ p \in Live(v)
         /\ v.unsaved \subseteq x.unsaved
         /\ \A q \in Live(x) \ Live(v) :
               opts.ok /\ Savable(x, q) => x.pl[q].name \notin v.unsaved
    BY <2>7, <2>8, <2>9, CheckLoginSound
  <2> HIDE DEF v
  <2>12. ASSUME NEW q \in Live(w) \ Live(v), SaveOutcomes = {TRUE}, Savable(w, q)
         PROVE  w.pl[q].name \notin v.unsaved
    <3>1. q # p /\ q \in Players /\ q \in Live(x)
      BY <2>12, <1>b, <2>1, <2>2, <2>8
    <3>2. x.pl[q] = w.pl[q]
      BY <3>1, <2>5, <2>7 DEF OnlyPlayer
    <3>3. Savable(x, q)
      BY <2>12, <3>2 DEF Savable
    <3> QED
      BY <2>12, <3>1, <3>2, <3>3, <2>10, <1>a
  <2>13. Handled(v, w, n)
    BY <1>2, <2>2, <2>8, <2>10, <2>12 DEF Handled
  <2> QED
    BY <2>3, <2>13
<1> QED
  BY <1>1, <1>2

LEMMA CreateHandled ==
  ASSUME NEW w, Sound(w), NEW n \in Sockets, NEW c \in Chars, CanCreate(w, n, c),
         n \in Players => n \in Live(w),
         NEW p \in Players, IF n \in Players THEN p = n ELSE p \notin Live(w),
         NEW password \in Passwords, NEW at_once
  PROVE  Handled(CreatePlayer(w, n, p, c, password, at_once), w, n)
<1> DEFINE m == IF IsPlayer(n) THEN [w EXCEPT !.sock[p].status = "Avail"]
                ELSE MoveSocket(AddPlayer(w, p), n, p)
           a == IF at_once THEN [m.pl[p] EXCEPT !.state = "PLAYING", !.exp = FALSE]
                ELSE m.pl[p]
           k == WithPlayer(m, p, a)
           r == [k.pl[p] EXCEPT !.name = c, !.password = password]
           v == WithPlayer(k, p, r)
<1>0. w.sock[n].status = "Add" /\ Live(w) \subseteq Players /\ p \in Sockets
  BY DEF CanCreate, Sound, WorldSet, Live, Sockets
<1>1. /\ Sound(m) /\ (Owned(w) => Owned(m)) /\ Live(w) \subseteq Live(m)
      /\ n \in Players => n \in Live(m) /\ m.sock[n].status = "Avail"
  <2>1. CASE n \in Players
    <3> DEFINE x == [w EXCEPT !.sock[p].status = "Avail"]
    <3>1. Sound(x) /\ SameOwners(x, w)
      BY <1>0, EditSocket
    <3>2. x.sock[p].status = "Avail"
      BY <1>0 DEF Sound, WorldSet, Socket
    <3>3. m = x
      BY <2>1 DEF IsPlayer
    <3> HIDE DEF x, m
    <3> QED
      BY <2>1, <3>1, <3>2, <3>3, SameOwnersOwned DEF SameOwners, Live
  <2>2. CASE n \notin Players
    <3> DEFINE x == MoveSocket(AddPlayer(w, p), n, p)
    <3>1. n \in Slots /\ p \notin Live(w)
      BY <2>2 DEF Sockets
    <3>2. Sound(x) /\ Live(x) = Live(w) \cup {p} /\ (Owned(w) => Owned(x))
      BY <1>0, <3>1, NewPlayerOwns
    <3>3. m = x
      BY <2>2 DEF IsPlayer
    <3> HIDE DEF x, m
    <3> QED
      BY <2>2, <3>2, <3>3
  <2> QED
    BY <2>1, <2>2
<1>2. m \in WorldSet /\ m.pl \in [Players -> Player] /\ m.pl[p] \in Player
  BY <1>1 DEF Sound, WorldSet
<1>3. CreatePlayer(w, n, p, c, password, at_once) = v
  <2>1. (IF at_once THEN [m EXCEPT !.pl[p] = [@ EXCEPT !.state = "PLAYING", !.exp = FALSE]]
         ELSE m) = k
    <3> HIDE DEF m
    <3>1. CASE at_once
      BY <3>1 DEF WithPlayer
    <3>2. CASE ~at_once
      BY <3>2, <1>2 DEF WithPlayer, WorldSet
    <3> QED
      BY <3>1, <3>2
  <2>2. CreatePlayer(w, n, p, c, password, at_once)
          = [k EXCEPT !.pl[p].name = c, !.pl[p].password = password]
    <3> HIDE DEF k
    <3> QED
      BY <2>1 DEF CreatePlayer
  <2>3. k.pl \in [Players -> Player] /\ k.pl[p] = a /\ k \in WorldSet
    <3>1. a \in Player
      <4> HIDE DEF m
      <4>1. CASE at_once
        BY <4>1, <1>2 DEF Player, States
      <4>2. CASE ~at_once
        BY <4>2, <1>2
      <4> QED
        BY <4>1, <4>2
    <3> HIDE DEF m, a
    <3> QED
      BY <1>2, <3>1 DEF WithPlayer, WorldSet
  <2> HIDE DEF k
  <2> QED
    BY <2>2, <2>3 DEF WithPlayer, WorldSet
<1> HIDE DEF m
<1>4. Fitting(m, p, a)
  BY <1>1, <1>2 DEF Fitting, Player, States, Sound, NamesSound
<1> HIDE DEF a
<1>5. Sound(k) /\ SameOwners(k, m) /\ OnlyPlayer(k, m, p)
  BY <1>1, <1>4, EditPlayer
<1> HIDE DEF k
<1>6. Fitting(k, p, r)
  <2>1. k.pl[p] \in Player
    BY <1>5 DEF Sound, WorldSet
  <2> QED
    BY <2>1 DEF Fitting, Player
<1> HIDE DEF r
<1>7. Sound(v) /\ SameOwners(v, k) /\ OnlyPlayer(v, k, p)
  BY <1>5, <1>6, EditPlayer
<1> HIDE DEF v
<1>8. Live(v) = Live(m) /\ (Owned(m) => Owned(v)) /\ v.sock = m.sock
  <2>1. SameOwners(v, m)
    BY <1>5, <1>7, SameOwnersTransitive
  <2> QED
    BY <2>1, <1>5, <1>7, SameOwnersOwned DEF SameOwners, Live, OnlyPlayer
<1>9. Handled(v, w, n)
  BY <1>1, <1>7, <1>8 DEF Handled
<1> QED
  BY <1>3, <1>9

LEMMA AddMeHandled ==
  ASSUME NEW w, Sound(w), NEW n \in Slots, w.sock[n].status = "Add",
         NEW p \in Players, p \notin Live(w)
  PROVE  Handled(AddMe(w, n, p), w, n)
<1> DEFINE s == MoveSocket(AddPlayer(w, p), n, p)
           r == [s.pl[p] EXCEPT !.state = "GET_NAME"]
           v == WithPlayer(s, p, r)
<1>0. n \notin Players /\ Live(w) \subseteq Players
  BY NamesAssumption DEF Sound, WorldSet, Live
<1>1. Sound(s) /\ Live(s) = Live(w) \cup {p} /\ (Owned(w) => Owned(s))
  BY NewPlayerOwns
<1>2. AddMe(w, n, p) = v
  BY DEF AddMe, WithPlayer
<1> HIDE DEF s
<1>3. Fitting(s, p, r)
  <2>1. s.pl[p] \in Player
    BY <1>1 DEF Sound, WorldSet
  <2> QED
    BY <2>1 DEF Fitting, Player, States
<1> HIDE DEF r
<1>4. Sound(v) /\ SameOwners(v, s)
  BY <1>1, <1>3, EditPlayer
<1> HIDE DEF v
<1>5. Live(v) = Live(s) /\ (Owned(s) => Owned(v))
  BY <1>4, SameOwnersOwned DEF SameOwners, Live
<1>6. Handled(v, w, n)
  BY <1>0, <1>1, <1>4, <1>5 DEF Handled
<1> QED
  BY <1>2, <1>6

LEMMA ReceivePasswordHandled ==
  ASSUME NEW w, Sound(w), NEW p \in Live(w), w.pl[p].state = "GET_PASSWORD",
         w.sock[p].status # "Dead",
         NEW password \in Passwords \cup {Null}, NEW opts \in Options
  PROVE  Handled(ReceivePassword(w, p, password, opts), w, p)
<1>0. p \in Players /\ w.pl[p] \in Player /\ w.pl[p].name \in Chars /\ Live(w) \subseteq Players
  BY DEF Sound, WorldSet, Live, NamesSound
<1>1. CASE password = Null
  <2> DEFINE r == [w.pl[p] EXCEPT !.state = "GET_NAME"]
  <2>1. Fitting(w, p, r)
    BY <1>0 DEF Fitting, Player, States
  <2>2. ReceivePassword(w, p, password, opts) = WithPlayer(w, p, r)
    BY <1>1 DEF ReceivePassword, WithPlayer
  <2> HIDE DEF r
  <2>3. Handled(WithPlayer(w, p, r), w, p)
    BY <2>1, EditHandled
  <2> QED
    BY <2>2, <2>3
<1>2. CASE password # Null
  <2> DEFINE r == [w.pl[p] EXCEPT !.password = password, !.state = "CREATE"]
             x == WithPlayer(w, p, r)
             v == CheckLogin(x, p, password, opts)
  <2>1. Fitting(w, p, r) /\ r.name = w.pl[p].name /\ r.state = "CREATE"
    BY <1>0 DEF Fitting, Player, States
  <2>2. ReceivePassword(w, p, password, opts) = v
    <3>1. [w EXCEPT !.pl[p].password = password, !.pl[p].state = "CREATE"] = x
      BY <1>0 DEF WithPlayer, Sound, WorldSet
    <3> HIDE DEF x
    <3> QED
      BY <1>2, <3>1 DEF ReceivePassword
  <2> HIDE DEF r
  <2>3. Sound(x) /\ SameOwners(x, w) /\ OnlyPlayer(x, w, p) /\ x.pl[p] = r
    BY <1>0, <2>1, EditPlayer
  <2> HIDE DEF x
  <2>4. Live(x) = Live(w) /\ (Owned(w) => Owned(x))
    BY <2>3, SameOwnersOwned DEF SameOwners, Live
  <2>5. /\ Sound(v) /\ (Owned(x) => Owned(v)) /\ p \in Live(v)
        /\ \A q \in Live(x) \ Live(v) :
              opts.ok /\ Savable(x, q) => x.pl[q].name \notin v.unsaved
    BY <1>0, <2>1, <2>3, <2>4, CheckLoginSound
  <2> HIDE DEF v
  <2>6. ~Savable(w, p)
    BY DEF Savable
  <2>7. ASSUME NEW q \in Live(w) \ Live(v), SaveOutcomes = {TRUE}, Savable(w, q)
        PROVE  w.pl[q].name \notin v.unsaved
    <3>1. q # p /\ q \in Players /\ opts.ok
      BY <1>0, <2>5, <2>7, OptionsTyped
    <3>2. x.pl[q] = w.pl[q]
      BY <3>1, <2>3 DEF OnlyPlayer
    <3>3. Savable(x, q)
      BY <2>7, <3>2 DEF Savable
    <3> QED
      BY <2>7, <3>1, <3>2, <3>3, <2>4, <2>5
  <2>8. Handled(v, w, p)
    BY <2>4, <2>5, <2>6, <2>7 DEF Handled
  <2> QED
    BY <2>2, <2>8
<1> QED
  BY <1>1, <1>2

LEMMA NameHandled ==
  ASSUME NEW w, Sound(w), NEW p \in Live(w), w.sock[p].status # "Dead", NEW c \in Chars
  PROVE  Handled([w EXCEPT !.pl[p].name = c, !.pl[p].state = "GET_PASSWORD"], w, p)
<1> DEFINE r == [w.pl[p] EXCEPT !.name = c, !.state = "GET_PASSWORD"]
<1>1. p \in Players /\ w.pl[p] \in Player
  BY DEF Sound, WorldSet, Live
<1>2. Fitting(w, p, r)
  BY <1>1 DEF Fitting, Player, States
<1>3. [w EXCEPT !.pl[p].name = c, !.pl[p].state = "GET_PASSWORD"] = WithPlayer(w, p, r)
  BY <1>1 DEF WithPlayer, Sound, WorldSet
<1> HIDE DEF r
<1>4. Handled(WithPlayer(w, p, r), w, p)
  BY <1>2, EditHandled
<1> QED
  BY <1>3, <1>4

LEMMA StateHandled ==
  ASSUME NEW w, Sound(w), NEW p \in Live(w), w.sock[p].status # "Dead",
         NEW st \in States \ {"GET_PASSWORD"}
  PROVE  Handled([w EXCEPT !.pl[p].state = st], w, p)
<1> DEFINE r == [w.pl[p] EXCEPT !.state = st]
<1>1. p \in Players /\ w.pl[p] \in Player
  BY DEF Sound, WorldSet, Live
<1>2. Fitting(w, p, r)
  BY <1>1 DEF Fitting, Player
<1>3. [w EXCEPT !.pl[p].state = st] = WithPlayer(w, p, r)
  BY DEF WithPlayer
<1> HIDE DEF r
<1>4. Handled(WithPlayer(w, p, r), w, p)
  BY <1>2, EditHandled
<1> QED
  BY <1>3, <1>4

LEMMA RecycleHandled ==
  ASSUME NEW w, Sound(w), NEW p \in Live(w), w.sock[p].status # "Dead"
  PROVE  Handled(Recycle(w, p), w, p)
<1> DEFINE v == Recycle(w, p)
<1>1. p \in Players
  BY DEF Sound, WorldSet, Live
<1>2. Sound(v) /\ SameOwners(v, w) /\ OnlyPlayer(v, w, p)
  BY <1>1, RecyclePlayer
<1> HIDE DEF v
<1>3. Handled(v, w, p)
  BY <1>2, QuietHandled DEF OnlyPlayer
<1> QED
  BY <1>3 DEF v

\* leave of a player who is not playing leaves nothing unsaved.
LEMMA LeaveHandled ==
  ASSUME NEW w, Sound(w), NEW p \in Live(w), w.pl[p].state = "PLAY_AGAIN"
  PROVE  Handled(Leave(w, p), w, p)
<1>1. Sound(Leave(w, p)) /\ SameOwners(Leave(w, p), w)
  BY LeaveSound
<1>2. ~Savable(w, p)
  BY DEF Savable
<1> QED
  BY <1>1, <1>2, QuietHandled

LEMMA GainHandled ==
  ASSUME NEW w, Sound(w), NEW p \in Live(w), w.sock[p].status # "Dead",
         w.pl[p].name \in Chars
  PROVE  Handled([w EXCEPT !.pl[p].exp = TRUE, !.unsaved = @ \cup {w.pl[p].name}], w, p)
<1> DEFINE r == [w.pl[p] EXCEPT !.exp = TRUE]
           u == WithPlayer(w, p, r)
           b == u.unsaved \cup {w.pl[p].name}
           v == [u EXCEPT !.unsaved = b]
<1>1. p \in Players /\ w.pl[p] \in Player
  BY DEF Sound, WorldSet, Live
<1>2. Fitting(w, p, r)
  BY <1>1 DEF Fitting, Player, Sound, NamesSound
<1>3. [w EXCEPT !.pl[p].exp = TRUE, !.unsaved = @ \cup {w.pl[p].name}] = v
  BY DEF WithPlayer, Sound, WorldSet
<1> HIDE DEF r
<1>4. Sound(u) /\ SameOwners(u, w) /\ OnlyPlayer(u, w, p)
  BY <1>1, <1>2, EditPlayer
<1> HIDE DEF u
<1>5. b \in SUBSET Chars
  BY <1>4 DEF Sound, WorldSet
<1> HIDE DEF b
<1>6. /\ v \in WorldSet
      /\ v.open = u.open /\ v.alloc = u.alloc /\ v.sock = u.sock /\ v.plist = u.plist
      /\ v.pl = u.pl /\ v.parties = u.parties /\ v.passwd = u.passwd
      /\ v.accounts = u.accounts /\ v.chars = u.chars /\ v.logged_in = u.logged_in
  BY <1>4, <1>5 DEF Sound, WorldSet
<1> HIDE DEF v
<1>7. PartiesSound(v) /\ AccountsSound(v) /\ NamesSound(v) /\ Distinct(v.plist)
  BY <1>4, <1>6 DEF Sound, PartiesSound, AccountsSound, NamesSound, Live
<1>8. Sound(v) /\ SameOwners(v, u)
  BY <1>6, <1>7 DEF Sound, SameOwners
<1>9. SameOwners(v, w) /\ v.sock = w.sock
  BY <1>4, <1>6, <1>8, SameOwnersTransitive DEF OnlyPlayer
<1>10. Handled(v, w, p)
  BY <1>8, <1>9, QuietHandled
<1> QED
  BY <1>3, <1>10

\* play_again: the connection is kept, whatever had become of it.
LEMMA PlayAgainSound ==
  ASSUME NEW w, Sound(w), NEW p \in Players, NEW acc
  PROVE  LET v == PlayAgain(w, p, acc)
         IN  /\ Sound(v) /\ SameOwners(v, w) /\ v.sock[p].status = "Add"
             /\ v.pl[p].state # "GET_PASSWORD"
<1> DEFINE u == [w EXCEPT !.sock[p].status = "Add"]
           r == [u.pl[p] EXCEPT !.state = "PLAY_AGAIN"]
           x == Recycle(u, p)
           y == WithPlayer(u, p, r)
           v == PlayAgain(w, p, acc)
<1>0. p \in Sockets
  BY DEF Sockets
<1>1. Sound(u) /\ SameOwners(u, w)
  BY <1>0, EditSocket
<1>2. u.sock[p].status = "Add"
  BY <1>0 DEF Sound, WorldSet, Socket
<1>3. v = IF acc THEN x ELSE y
  BY DEF PlayAgain, WithPlayer
<1> HIDE DEF u
<1>4. Sound(x) /\ SameOwners(x, u) /\ OnlyPlayer(x, u, p)
  BY <1>1, RecyclePlayer
<1>5. x.pl[p].state = "GET_NAME"
  BY <1>1 DEF Recycle, Sound, WorldSet, NewPlayer
<1>6. u.pl[p] \in Player
  BY <1>1 DEF Sound, WorldSet
<1>7. Fitting(u, p, r) /\ r.state = "PLAY_AGAIN"
  BY <1>6 DEF Fitting, Player, States
<1> HIDE DEF r
<1>8. Sound(y) /\ SameOwners(y, u) /\ OnlyPlayer(y, u, p) /\ y.pl[p] = r
  BY <1>1, <1>7, EditPlayer
<1> HIDE DEF x, y
<1>9. CASE acc
  BY <1>9, <1>1, <1>2, <1>3, <1>4, <1>5, SameOwnersTransitive DEF OnlyPlayer
<1>10. CASE ~acc
  BY <1>10, <1>1, <1>2, <1>3, <1>7, <1>8, SameOwnersTransitive DEF OnlyPlayer
<1> QED
  BY <1>9, <1>10

LEMMA PlayAgainHandled ==
  ASSUME NEW w, Sound(w), NEW p \in Live(w), NEW acc
  PROVE  Handled(PlayAgain(w, p, acc), w, p)
<1>1. p \in Players
  BY DEF Sound, WorldSet, Live
<1> DEFINE v == PlayAgain(w, p, acc)
<1>2. Sound(v) /\ SameOwners(v, w) /\ v.sock[p].status = "Add"
  BY <1>1, PlayAgainSound
<1> HIDE DEF v
<1>3. Handled(v, w, p)
  BY <1>2, QuietHandled
<1> QED
  BY <1>3 DEF v

LEMMA SavebedHandled ==
  ASSUME NEW w, Sound(w), NEW p \in Live(w), NEW ok \in BOOLEAN, NEW acc
  PROVE  Handled(ApplySavebed(w, p, ok, acc), w, p)
<1> DEFINE s == Save(w, p, ok)
           l == PartyLeave(s, p)
           v == PlayAgain(l, p, acc)
<1>0. p \in Players
  BY DEF Sound, WorldSet, Live
<1>1. ApplySavebed(w, p, ok, acc) = v
  BY DEF ApplySavebed
<1>2. Sound(s) /\ SameOwners(s, w)
  BY SaveSound
<1> HIDE DEF s
<1>3. Sound(l) /\ OnlyParties(l, s)
  BY <1>0, <1>2, PartyLeaveSound
<1> HIDE DEF l
<1>4. Sound(v) /\ SameOwners(v, l) /\ v.sock[p].status = "Add"
  BY <1>0, <1>3, PlayAgainSound
<1> HIDE DEF v
<1>5. SameOwners(v, w)
  BY <1>2, <1>3, <1>4, OnlyPartiesOwners, SameOwnersTransitive
<1>6. Handled(v, w, p)
  BY <1>4, <1>5, QuietHandled
<1> QED
  BY <1>1, <1>6

\* The end of a character: its file, its entry in the account, its name.
LEMMA ConfirmQuitHandled ==
  ASSUME NEW w, Sound(w), NEW p \in Live(w), NEW acc
  PROVE  Handled(ConfirmQuit(w, p, acc), w, p)
<1> DEFINE c == w.pl[p].name
           a == w.sock[p].account
           l == PartyLeave(w, p)
           w1 == WithFile(l, c, NoFile)
           w2 == IF a = Null THEN w1 ELSE AccountRemovePlayer(w1, a, c)
           w3 == PlayAgain(w2, p, acc)
           r == [w3.pl[p] EXCEPT !.name = Null]
           v == WithPlayer(w3, p, r)
<1>0. p \in Players /\ p \in Sockets
  BY DEF Sound, WorldSet, Live, Sockets
<1>1. ConfirmQuit(w, p, acc) = v
  BY DEF ConfirmQuit, WithFile, WithPlayer
<1>2. Sound(l) /\ OnlyParties(l, w)
  BY <1>0, PartyLeaveSound
<1> HIDE DEF l
<1>3. Sound(w1) /\ SameOwners(w1, l) /\ w1.sock = l.sock
  <2>1. CASE c \in Chars
    <3> HIDE DEF c, w1
    <3>1. NoFile \in PlayerFile
      BY DEF NoFile, PlayerFile
    <3> DEFINE x == WithFile(l, c, NoFile)
    <3>2. Sound(x) /\ SameOwners(x, l) /\ x.sock = l.sock
      BY <2>1, <1>2, <3>1, FileSound
    <3> QED
      BY <3>2 DEF w1
  <2>2. CASE c \notin Chars
    <3> HIDE DEF c
    <3>1. [l.file EXCEPT ![c] = NoFile] = l.file /\ l.unsaved \ {c} = l.unsaved
      BY <2>2, <1>2 DEF Sound, WorldSet
    <3>2. w1 = [l EXCEPT !.file = l.file, !.unsaved = l.unsaved]
      BY <3>1 DEF WithFile
    <3>3. w1 = l
      BY <3>2, <1>2 DEF Sound, WorldSet
    <3> QED
      BY <3>3, <1>2 DEF SameOwners
  <2> QED
    BY <2>1, <2>2
<1> HIDE DEF w1
<1>4. Sound(w2) /\ SameOwners(w2, w1)
  <2>1. CASE a = Null
    BY <2>1, <1>3 DEF SameOwners
  <2>2. CASE a # Null
    <3> DEFINE x == AccountRemovePlayer(w1, a, c)
    <3>1. a \in w1.accounts
      BY <2>2, <1>0, <1>2, <1>3 DEF Sound, AccountsSound, OnlyParties
    <3> HIDE DEF a, c
    <3>2. Sound(x) /\ OnlyBook(x, w1)
      BY <1>3, <3>1, AccountRemoveSound
    <3>3. w2 = x
      BY <2>2
    <3> QED
      BY <3>2, <3>3 DEF OnlyBook
  <2> QED
    BY <2>1, <2>2
<1> HIDE DEF w2
<1>5. /\ Sound(w3) /\ SameOwners(w3, w2) /\ w3.sock[p].status = "Add"
      /\ w3.pl[p].state # "GET_PASSWORD"
  BY <1>0, <1>4, PlayAgainSound
<1> HIDE DEF w3
<1>6. Fitting(w3, p, r)
  <2>1. w3.pl[p] \in Player
    BY <1>0, <1>5 DEF Sound, WorldSet
  <2> QED
    BY <2>1, <1>5 DEF Fitting, Player
<1> HIDE DEF r
<1>7. Sound(v) /\ SameOwners(v, w3) /\ OnlyPlayer(v, w3, p)
  BY <1>0, <1>5, <1>6, EditPlayer
<1> HIDE DEF v
<1>8. SameOwners(v, w) /\ v.sock[p].status = "Add"
  <2>1. SameOwners(l, w)
    BY <1>2, OnlyPartiesOwners
  <2>2. SameOwners(w1, w)
    BY <1>3, <2>1, SameOwnersTransitive
  <2>3. SameOwners(w2, w)
    BY <1>4, <2>2, SameOwnersTransitive
  <2>4. SameOwners(w3, w)
    BY <1>5, <2>3, SameOwnersTransitive
  <2> QED
    BY <1>5, <1>7, <2>4, SameOwnersTransitive DEF OnlyPlayer
<1>9. Handled(v, w, p)
  BY <1>7, <1>8, QuietHandled
<1> QED
  BY <1>1, <1>9

-----------------------------------------------------------------------------
\* The 'party' command.
LEMMA JoinHandled ==
  ASSUME NEW w, Sound(w), NEW p \in Live(w), w.sock[p].status # "Dead", NEW g \in w.parties
  PROVE  Handled(CommandJoin(w, p, g), w, p)
<1>1. p \in Players /\ w.pl[p] \in Player /\ g \in PartyIds
  BY DEF Sound, WorldSet, Live
<1>2. CASE g \in w.passwd
  <2> DEFINE r == [w.pl[p] EXCEPT !.state = "GET_PARTY_PASSWORD", !.party_to_join = g]
  <2>1. Fitting(w, p, r)
    BY <1>1 DEF Fitting, Player, States
  <2>2. CommandJoin(w, p, g) = WithPlayer(w, p, r)
    BY <1>1, <1>2 DEF CommandJoin, WithPlayer, Sound, WorldSet
  <2> HIDE DEF r
  <2>3. Handled(WithPlayer(w, p, r), w, p)
    BY <2>1, EditHandled
  <2> QED
    BY <2>2, <2>3
<1>3. CASE g \notin w.passwd
  <2>1. CommandJoin(w, p, g) = PartyJoin(w, p, g)
    BY <1>3 DEF CommandJoin
  <2>2. Sound(PartyJoin(w, p, g)) /\ OnlyParties(PartyJoin(w, p, g), w)
    BY <1>1, PartyJoinSound
  <2>3. Handled(PartyJoin(w, p, g), w, p)
    BY <2>2, PartiesHandled
  <2> QED
    BY <2>1, <2>3
<1> QED
  BY <1>2, <1>3

LEMMA PasswdHandled ==
  ASSUME NEW w, Sound(w), NEW p \in Live(w), w.sock[p].status # "Dead",
         w.pl[p].party # Null, NEW set
  PROVE  Handled(CommandPasswd(w, p, set), w, p)
<1> DEFINE some == w.parties
           secret == IF set THEN w.passwd \cup {w.pl[p].party} ELSE w.passwd \ {w.pl[p].party}
           v == [w EXCEPT !.parties = some, !.passwd = secret]
<1>1. w.pl[p].party \in w.parties
  BY DEF Sound, PartiesSound
<1>2. /\ some \in SUBSET PartyIds /\ secret \in SUBSET some
      /\ \A q \in Live(w) : w.pl[q].party \in some \cup {Null}
  BY <1>1 DEF Sound, WorldSet, PartiesSound
<1>3. CommandPasswd(w, p, set) = v
  BY DEF CommandPasswd, Sound, WorldSet
<1> HIDE DEF some, secret
<1>4. Sound(v) /\ OnlyParties(v, w)
  BY <1>2, SetPasswords
<1> HIDE DEF v
<1>5. Handled(v, w, p)
  BY <1>4, PartiesHandled
<1> QED
  BY <1>3, <1>5

LEMMA PartyPasswordHandled ==
  ASSUME NEW w, Sound(w), NEW p \in Live(w), w.sock[p].status # "Dead", NEW right,
         right => w.pl[p].party_to_join \in w.parties
  PROVE  Handled(ReceivePartyPassword(w, p, right), w, p)
<1> DEFINE u == IF right THEN PartyJoin(w, p, w.pl[p].party_to_join) ELSE w
           r == [u.pl[p] EXCEPT !.party_to_join = Null, !.state = "PLAYING"]
           v == WithPlayer(u, p, r)
<1>0. p \in Players
  BY DEF Sound, WorldSet, Live
<1>1. Sound(u) /\ OnlyParties(u, w)
  <2>1. CASE right
    <3> DEFINE x == PartyJoin(w, p, w.pl[p].party_to_join)
    <3>1. Sound(x) /\ OnlyParties(x, w)
      BY <1>0, <2>1, PartyJoinSound
    <3> QED
      BY <2>1, <3>1
  <2>2. CASE ~right
    BY <2>2 DEF OnlyParties, SamePerson
  <2> QED
    BY <2>1, <2>2
<1>2. ReceivePartyPassword(w, p, right)
        = [u EXCEPT !.pl[p].party_to_join = Null, !.pl[p].state = "PLAYING"]
  BY DEF ReceivePartyPassword
<1> HIDE DEF u
<1>3. u.pl[p] \in Player
  BY <1>0, <1>1 DEF Sound, WorldSet
<1>4. [u EXCEPT !.pl[p].party_to_join = Null, !.pl[p].state = "PLAYING"] = v
  BY <1>0, <1>1, <1>3 DEF WithPlayer, Sound, WorldSet
<1>5. Fitting(u, p, r)
  BY <1>3 DEF Fitting, Player, States
<1> HIDE DEF r
<1>6. Sound(v) /\ SameOwners(v, u) /\ OnlyPlayer(v, u, p)
  BY <1>0, <1>1, <1>5, EditPlayer
<1> HIDE DEF v
<1>7. SameOwners(v, w) /\ v.sock = w.sock
  BY <1>1, <1>6, OnlyPartiesOwners, SameOwnersTransitive DEF OnlyPlayer, OnlyParties
<1>8. Handled(v, w, p)
  BY <1>6, <1>7, QuietHandled
<1> QED
  BY <1>2, <1>4, <1>8

-----------------------------------------------------------------------------
(***************************************************************************)
(* Steps of the server.                                                    *)
(***************************************************************************)
\* The inductive invariant: a sound world, and a loop that visits who is there.
IInv ==
    /\ Sound(World)
    /\ pc \in {"clean", "slots", "players", "tick", "crashed"}
    /\ cur \in Players \cup {Null}
    /\ LoopOnLivePlayers

\* What every step owes besides: the world is sound, descriptors stay owned until
\* do_server returns, and whoever is taken off the list was saved.
Settles ==
    /\ Sound(World)'
    /\ LateWritesFail = FALSE /\ Owned(World) /\ pc' # "tick" => Owned(World)'
    /\ \A q \in LivePlayers \ Live(World)' :
          SaveOutcomes = {TRUE} /\ Savable(World, q) => pl[q].name \notin unsaved'

LEMMA WorldFields ==
    /\ World.open = open /\ World.alloc = alloc /\ World.sock = sock
    /\ World.plist = plist /\ World.pl = pl
    /\ World.parties = parties /\ World.passwd = passwd
    /\ World.accounts = accounts /\ World.chars = chars /\ World.logged_in = logged_in
    /\ World.file = file /\ World.unsaved = unsaved
    /\ Live(World) = LivePlayers
  BY DEF World, Live, LivePlayers

LEMMA BecomesWorld ==
  ASSUME NEW w \in WorldSet, Becomes(w)
  PROVE  World' = w
  BY DEF World, Becomes, WorldSet

LEMMA BecomesSettles ==
  ASSUME NEW w, Becomes(w), Sound(w),
         LateWritesFail = FALSE /\ Owned(World) => Owned(w),
         \A q \in LivePlayers \ Live(w) :
            SaveOutcomes = {TRUE} /\ Savable(World, q) => pl[q].name \notin w.unsaved
  PROVE  Settles /\ World' = w /\ LivePlayers' = Live(w) /\ plist' = w.plist
<1>1. World' = w
  BY BecomesWorld DEF Sound
<1>2. unsaved' = w.unsaved /\ LivePlayers' = Live(w) /\ plist' = w.plist
  BY DEF Becomes, LivePlayers, Live
<1>3. Sound(World)' = Sound(w) /\ Owned(World)' = Owned(w) /\ Live(World)' = Live(w)
  BY <1>1
<1> QED
  BY <1>1, <1>2, <1>3 DEF Settles

LEMMA StandsSettles ==
  ASSUME IInv, UNCHANGED <<open, alloc, sock, plist, pl, parties, passwd,
                           accounts, chars, logged_in, file, unsaved>>
  PROVE  Settles /\ LivePlayers' = LivePlayers
<1>1. World' = World
  BY DEF World
<1>2. Sound(World)' = Sound(World) /\ Owned(World)' = Owned(World) /\ Live(World)' = Live(World)
  BY <1>1
<1>3. LivePlayers' = LivePlayers
  BY DEF LivePlayers
<1> QED
  BY <1>2, <1>3, WorldFields DEF Settles, IInv

LEMMA ServedFacts ==
  ASSUME IInv, NEW n \in Served
  PROVE  /\ n \in Sockets /\ World.sock[n].status # "Dead"
         /\ n \in Players => n \in Live(World) /\ pc = "players" /\ cur = n
         /\ n \notin Players => n \in Slots /\ pc = "slots" /\ World.sock[n].status = "Add"
<1>1. Allocated \subseteq Slots
  BY SizesAssumption, WorldFields DEF IInv, Sound, WorldSet, Allocated, Slots
<1>2. LivePlayers \subseteq Players /\ Null \notin Players
  BY WorldFields, NamesAssumption DEF IInv, Sound, WorldSet, Live
<1> QED
  BY <1>1, <1>2, WorldFields, NamesAssumption
     DEF Served, Serving, IInv, LoopOnLivePlayers, Sockets

LEMMA ServeSettles ==
  ASSUME IInv, NEW n \in Served, NEW w, Handled(w, World, n), Serve(n, w)
  PROVE  Settles /\ IInv'
<1>1. /\ n \in Sockets /\ World.sock[n].status # "Dead"
      /\ n \in Players => n \in Live(World) /\ pc = "players" /\ cur = n
      /\ n \notin Players => n \in Slots /\ pc = "slots"
  BY ServedFacts
<1>2. /\ Sound(w) /\ (Owned(World) => Owned(w))
      /\ n \in Players => n \in Live(w)
      /\ \A q \in LivePlayers \ Live(w) :
            SaveOutcomes = {TRUE} /\ Savable(World, q) => pl[q].name \notin w.unsaved
      /\ n \in Players /\ w.sock[n].status = "Dead" => ~Savable(World, n)
  BY WorldFields DEF Handled
<1>3. CASE n \notin Players
  <2>1. UNCHANGED <<pc, cur>>
    BY <1>3 DEF Serve
  <2>2. CASE Becomes(w)
    BY <1>1, <1>2, <1>3, <2>1, <2>2, BecomesSettles DEF IInv, LoopOnLivePlayers, Settles
  <2>3. CASE /\ LateWritesFail /\ w.sock[n].status = "Avail"
             /\ Becomes([w EXCEPT !.sock[n].status = "Dead"])
    <3> DEFINE x == [w EXCEPT !.sock[n].status = "Dead"]
    <3>1. Sound(x)
      BY <1>1, <1>2, EditSocket
    <3>2. x.unsaved = w.unsaved /\ x.plist = w.plist
      BY <1>2 DEF Sound, WorldSet
    <3>3. Becomes(x)
      BY <2>3
    <3> HIDE DEF x
    <3>4. Live(x) = Live(w)
      BY <3>2 DEF Live
    <3>5. Settles
      BY <1>2, <2>3, <3>1, <3>2, <3>3, <3>4, BecomesSettles
    <3> QED
      BY <1>1, <1>3, <2>1, <3>5 DEF IInv, LoopOnLivePlayers, Settles
  <2> QED
    BY <1>3, <2>2, <2>3 DEF Serve
<1>4. CASE n \in Players
  <2>1. PICK ok \in SaveOutcomes :
           Becomes(IF w.sock[n].status = "Dead" THEN Drop(w, n, ok) ELSE w)
    BY <1>4 DEF Serve
  <2>2. cur' = NextOf(w, n) /\ pc' = pc
    BY <1>4 DEF Serve
  <2>3. cur' \in (Live(w) \ {n}) \cup {Null}
    BY <1>2, <2>2, NextOfLive DEF Sound, WorldSet
  <2>4. ok \in BOOLEAN /\ n \in Live(w)
    BY <1>2, <1>4, SessionsAssumption
  <2>4a. Live(w) \subseteq Players
    BY <1>2 DEF Sound, WorldSet, Live
  <2>4b. ASSUME Settles, cur' \in LivePlayers' \cup {Null} PROVE IInv'
    BY <2>2, <2>3, <2>4a, <2>4b DEF IInv, LoopOnLivePlayers, Settles
  <2>5. CASE w.sock[n].status = "Dead"
    <3> DEFINE x == Drop(w, n, ok)
    <3>1. /\ Sound(x) /\ Live(x) = Live(w) \ {n} /\ (Owned(w) => Owned(x))
          /\ x.unsaved \subseteq w.unsaved
      BY <1>2, <2>4, DropSound
    <3>2. Becomes(x)
      BY <2>1, <2>5
    <3> HIDE DEF x
    <3>3. Settles /\ LivePlayers' = Live(x)
      BY <1>2, <1>4, <2>5, <3>1, <3>2, BecomesSettles
    <3> QED
      BY <2>3, <2>4b, <3>1, <3>3
  <2>6. CASE w.sock[n].status # "Dead"
    <3>1. Becomes(w)
      BY <2>1, <2>6
    <3>2. Settles /\ LivePlayers' = Live(w)
      BY <1>2, <3>1, BecomesSettles
    <3> QED
      BY <2>3, <2>4b, <3>2
  <2> QED
    BY <2>5, <2>6
<1> QED
  BY <1>3, <1>4

LEMMA CrashSettles ==
  ASSUME IInv, Crash
  PROVE  Settles /\ IInv'
<1>1. Settles
  BY StandsSettles DEF Crash, Stands
<1> QED
  BY <1>1 DEF Settles, Crash, IInv, LoopOnLivePlayers

-----------------------------------------------------------------------------
\* Commands of sockets.
LEMMA SocketCommandSettles ==
  ASSUME IInv, NEW n \in Served, SocketCommand(n)
  PROVE  Settles /\ IInv'
<1>1. /\ n \in Sockets /\ World.sock[n].status # "Dead"
      /\ n \in Players => n \in Live(World)
      /\ n \notin Players => n \in Slots /\ World.sock[n].status = "Add"
      /\ Sound(World)
  BY ServedFacts DEF IInv
<1>2. ASSUME NEW p \in StructuresFor(n)
      PROVE  p \in Players /\ IF n \in Players THEN p = n ELSE p \notin Live(World)
  BY WorldFields DEF StructuresFor
<1>3. ASSUME NEW a \in Accounts, Login_(n, a) PROVE Settles /\ IInv'
  <2> DEFINE v == AccountLogin(World, n, a)
  <2>1. Sound(v) /\ OnlyBook(v, World)
    BY <1>1, <1>3, AccountLoginSound, WorldFields DEF Login_
  <2>2. Serve(n, v)
    BY <1>3 DEF Login_
  <2> HIDE DEF v
  <2>3. Handled(v, World, n)
    BY <1>1, <2>1, BookHandled
  <2> QED
    BY <2>2, <2>3, ServeSettles
<1>4. ASSUME NEW a \in Accounts, NewAccount(n, a) PROVE Settles /\ IInv'
  <2> DEFINE v == AccountNewCmd(World, n, a)
  <2>1. Sound(v) /\ OnlyBook(v, World)
    BY <1>1, AccountNewSound
  <2>2. Serve(n, v)
    BY <1>4 DEF NewAccount
  <2> HIDE DEF v
  <2>3. Handled(v, World, n)
    BY <1>1, <2>1, BookHandled
  <2> QED
    BY <2>2, <2>3, ServeSettles
<1>5. ASSUME NEW c \in Chars, NEW force \in BOOLEAN, AddCharacter(n, c, force)
      PROVE  Settles /\ IInv'
  <2> DEFINE v == AccountAddPlayer(World, n, c)
  <2>1. CanAddPlayer(World, n, c, force) /\ Serve(n, v)
    BY <1>5 DEF AddCharacter
  <2>2. Sound(v) /\ OnlyBook(v, World)
    BY <1>1, <2>1, AccountAddSound
  <2> HIDE DEF v
  <2>3. Handled(v, World, n)
    BY <1>1, <2>2, BookHandled
  <2> QED
    BY <2>1, <2>3, ServeSettles
<1>6. ASSUME NEW c \in Chars, NEW opts \in Options, PlayCharacter(n, c, opts)
      PROVE  Settles /\ IInv'
  <2>1. CASE Crash
    BY <2>1, CrashSettles
  <2>2. ASSUME NEW p \in StructuresFor(n), Serve(n, AccountPlay(World, n, p, c, opts))
        PROVE  Settles /\ IInv'
    <3>1. CanPlay(World, n, c)
      BY <1>6 DEF PlayCharacter
    <3>2. p \in Players /\ IF n \in Players THEN p = n ELSE p \notin Live(World)
      BY <1>2
    <3>3. Handled(AccountPlay(World, n, p, c, opts), World, n)
      BY <1>1, <3>1, <3>2, AccountPlayHandled
    <3> QED
      BY <2>2, <3>3, ServeSettles
  <2> QED
    BY <1>6, <2>1, <2>2 DEF PlayCharacter
<1>7. ASSUME NEW c \in Chars, NEW k \in Passwords, NEW now \in BOOLEAN,
             CreateCharacter(n, c, k, now)
      PROVE  Settles /\ IInv'
  <2>1. PICK p \in StructuresFor(n) : Serve(n, CreatePlayer(World, n, p, c, k, now))
    BY <1>7 DEF CreateCharacter
  <2>2. p \in Players /\ IF n \in Players THEN p = n ELSE p \notin Live(World)
    BY <1>2
  <2>3. CanCreate(World, n, c)
    BY <1>7 DEF CreateCharacter
  <2>4. Handled(CreatePlayer(World, n, p, c, k, now), World, n)
    BY <1>1, <2>2, <2>3, CreateHandled
  <2> QED
    BY <2>1, <2>4, ServeSettles
<1>8. ASSUME LegacyLogin(n) PROVE Settles /\ IInv'
  <2>1. PICK p \in StructuresFor(n) : Serve(n, AddMe(World, n, p))
    BY <1>8 DEF LegacyLogin
  <2>2. n \notin Players
    BY <1>8 DEF LegacyLogin
  <2>3. p \in Players /\ p \notin Live(World) /\ n \in Slots /\ World.sock[n].status = "Add"
    BY <1>1, <1>2, <2>2
  <2>4. Handled(AddMe(World, n, p), World, n)
    BY <1>1, <2>3, AddMeHandled
  <2> QED
    BY <2>1, <2>4, ServeSettles
<1> QED
  BY <1>3, <1>4, <1>5, <1>6, <1>7, <1>8 DEF SocketCommand

\* Commands and replies of players.
LEMMA PlayerCommandSettles ==
  ASSUME IInv, NEW p \in Served \cap Players, PlayerCommand(p)
  PROVE  Settles /\ IInv'
<1>1. /\ p \in Live(World) /\ World.sock[p].status # "Dead" /\ p \in Players
      /\ Sound(World) /\ p \in Served /\ pc = "players" /\ cur = p
  BY ServedFacts DEF IInv
<1>2. ASSUME NEW w, Serve(p, w), Handled(w, World, p) PROVE Settles /\ IInv'
  BY <1>1, <1>2, ServeSettles
<1>3. ASSUME NEW c \in Chars, ReplyName(p, c) PROVE Settles /\ IInv'
  <2> DEFINE v == [World EXCEPT !.pl[p].name = c, !.pl[p].state = "GET_PASSWORD"]
  <2>1. Handled(v, World, p)
    BY <1>1, NameHandled
  <2>2. Serve(p, v)
    BY <1>3 DEF ReplyName
  <2> HIDE DEF v
  <2> QED
    BY <1>2, <2>1, <2>2
<1>4. ASSUME NEW k \in Passwords \cup {Null}, NEW opts \in Options, ReplyPassword(p, k, opts)
      PROVE  Settles /\ IInv'
  <2>1. World.pl[p].state = "GET_PASSWORD" /\ Serve(p, ReceivePassword(World, p, k, opts))
    BY <1>4, WorldFields DEF ReplyPassword, InState
  <2>2. Handled(ReceivePassword(World, p, k, opts), World, p)
    BY <1>1, <2>1, ReceivePasswordHandled
  <2> QED
    BY <1>2, <2>1, <2>2
<1>5. ASSUME NEW st \in States \ {"GET_PASSWORD"}, Serve(p, [World EXCEPT !.pl[p].state = st])
      PROVE  Settles /\ IInv'
  <2>1. Handled([World EXCEPT !.pl[p].state = st], World, p)
    BY <1>1, StateHandled
  <2> QED
    BY <1>2, <1>5, <2>1
<1>6. ASSUME NEW answer \in {"done", "differ", "quit"}, NEW acc \in WithAccounts,
             ReplyCreate(p, answer, acc)
      PROVE  Settles /\ IInv'
  <2>1. "PLAYING" \in States \ {"GET_PASSWORD"} /\ "GET_NAME" \in States \ {"GET_PASSWORD"}
    BY DEF States
  <2>2. CASE answer = "done"
    BY <2>1, <2>2, <1>5, <1>6 DEF ReplyCreate
  <2>3. CASE answer = "differ"
    BY <2>1, <2>3, <1>5, <1>6 DEF ReplyCreate
  <2>4. CASE answer = "quit"
    <3>1. Serve(p, PlayAgain(World, p, acc))
      BY <1>6, <2>4 DEF ReplyCreate
    <3> QED
      BY <3>1, <1>1, <1>2, PlayAgainHandled
  <2> QED
    BY <2>2, <2>3, <2>4
<1>7. ASSUME NEW again \in BOOLEAN, ReplyPlayAgain(p, again) PROVE Settles /\ IInv'
  <2>1. World.pl[p].state = "PLAY_AGAIN"
    BY <1>7, WorldFields DEF ReplyPlayAgain, InState
  <2>2. CASE Serve(p, Leave(World, p))
    BY <2>1, <2>2, <1>1, <1>2, LeaveHandled
  <2>3. CASE Crash
    BY <2>3, CrashSettles
  <2>4. CASE Serve(p, Recycle(World, p))
    BY <2>4, <1>1, <1>2, RecycleHandled
  <2> QED
    BY <1>7, <2>2, <2>3, <2>4 DEF ReplyPlayAgain
<1>8. ASSUME Gain(p) PROVE Settles /\ IInv'
  <2> DEFINE v == [World EXCEPT !.pl[p].exp = TRUE, !.unsaved = @ \cup {World.pl[p].name}]
  <2>1. World.pl[p].name \in Chars
    BY <1>8, WorldFields, SessionsAssumption DEF Gain
  <2>2. Handled(v, World, p)
    BY <1>1, <2>1, GainHandled
  <2>3. Serve(p, v)
    BY <1>8, WorldFields DEF Gain
  <2> HIDE DEF v
  <2> QED
    BY <1>2, <2>2, <2>3
<1>9. ASSUME Delete(p) PROVE Settles /\ IInv'
  BY <1>9, <1>5 DEF Delete, States
<1>10. ASSUME LeaveParty(p) PROVE Settles /\ IInv'
  <2> DEFINE v == PartyLeave(World, p)
  <2>1. Sound(v) /\ OnlyParties(v, World)
    BY <1>1, PartyLeaveSound
  <2>2. Serve(p, v)
    BY <1>10 DEF LeaveParty
  <2> HIDE DEF v
  <2>3. Handled(v, World, p)
    BY <1>1, <2>1, PartiesHandled
  <2> QED
    BY <1>2, <2>2, <2>3
<1>11. ASSUME NEW ok \in SaveOutcomes, NEW acc \in WithAccounts, Savebed(p, ok, acc)
       PROVE  Settles /\ IInv'
  <2>1. ok \in BOOLEAN /\ Serve(p, ApplySavebed(World, p, ok, acc))
    BY <1>11, SessionsAssumption DEF Savebed
  <2>2. Handled(ApplySavebed(World, p, ok, acc), World, p)
    BY <1>1, <2>1, SavebedHandled
  <2> QED
    BY <1>2, <2>1, <2>2
<1>12. ASSUME NEW yes \in BOOLEAN, NEW acc \in WithAccounts, ReplyQuit(p, yes, acc)
       PROVE  Settles /\ IInv'
  <2>1. CASE yes
    <3>1. Serve(p, ConfirmQuit(World, p, acc))
      BY <1>12, <2>1 DEF ReplyQuit
    <3>2. Handled(ConfirmQuit(World, p, acc), World, p)
      BY <1>1, ConfirmQuitHandled
    <3> QED
      BY <1>2, <3>1, <3>2
  <2>2. CASE ~yes
    BY <2>2, <1>5, <1>12 DEF ReplyQuit, States
  <2> QED
    BY <2>1, <2>2
<1>13. ASSUME NEW g \in PartyIds, FormParty(p, g) PROVE Settles /\ IInv'
  <2> DEFINE v == PartyForm(World, p, g)
  <2>1. Sound(v) /\ OnlyParties(v, World)
    BY <1>1, PartyFormSound
  <2>2. Serve(p, v)
    BY <1>13 DEF FormParty
  <2> HIDE DEF v
  <2>3. Handled(v, World, p)
    BY <1>1, <2>1, PartiesHandled
  <2> QED
    BY <1>2, <2>2, <2>3
<1>14. ASSUME NEW g \in PartyIds, JoinParty(p, g) PROVE Settles /\ IInv'
  <2>1. g \in World.parties /\ Serve(p, CommandJoin(World, p, g))
    BY <1>14, WorldFields DEF JoinParty
  <2>2. Handled(CommandJoin(World, p, g), World, p)
    BY <1>1, <2>1, JoinHandled
  <2> QED
    BY <1>2, <2>1, <2>2
<1>15. ASSUME NEW set \in BOOLEAN, SetPassword(p, set) PROVE Settles /\ IInv'
  <2>1. World.pl[p].party # Null /\ Serve(p, CommandPasswd(World, p, set))
    BY <1>15, WorldFields DEF SetPassword
  <2>2. Handled(CommandPasswd(World, p, set), World, p)
    BY <1>1, <2>1, PasswdHandled
  <2> QED
    BY <1>2, <2>1, <2>2
<1>16. ASSUME NEW right \in BOOLEAN, ReplyPartyPassword(p, right) PROVE Settles /\ IInv'
  <2>1. CASE Crash
    BY <2>1, CrashSettles
  <2>2. ASSUME NEW r \in BOOLEAN, r => World.pl[p].party_to_join \in World.parties,
               Serve(p, ReceivePartyPassword(World, p, r))
        PROVE  Settles /\ IInv'
    <3>1. Handled(ReceivePartyPassword(World, p, r), World, p)
      BY <1>1, <2>2, PartyPasswordHandled
    <3> QED
      BY <1>2, <2>2, <3>1
  <2> QED
    BY <1>16, <2>1, <2>2, WorldFields DEF ReplyPartyPassword
<1>17. ASSUME NEW ok \in SaveOutcomes, PlayerCloses(p, ok) PROVE Settles /\ IInv'
  <2> DEFINE v == Drop(World, p, ok)
  <2>1. ok \in BOOLEAN /\ (SaveOutcomes = {TRUE} => ok)
    BY SessionsAssumption
  <2>2. /\ Sound(v) /\ Live(v) = Live(World) \ {p} /\ (Owned(World) => Owned(v))
        /\ ok /\ Savable(World, p) => World.pl[p].name \notin v.unsaved
    BY <1>1, <2>1, DropSound
  <2>3. Becomes(v) /\ cur' = NextOf(World, p) /\ pc' = pc
    BY <1>17 DEF PlayerCloses
  <2> HIDE DEF v
  <2>4. \A q \in LivePlayers \ Live(v) :
           SaveOutcomes = {TRUE} /\ Savable(World, q) => pl[q].name \notin v.unsaved
    BY <2>1, <2>2, WorldFields
  <2>5. Settles /\ LivePlayers' = Live(v)
    BY <2>2, <2>3, <2>4, BecomesSettles
  <2>6. cur' \in (Live(World) \ {p}) \cup {Null}
    BY <1>1, <2>3, NextOfLive DEF Sound, WorldSet
  <2>7. Live(World) \subseteq Players
    BY <1>1 DEF Sound, WorldSet, Live
  <2> QED
    BY <2>2, <2>3, <2>5, <2>6, <2>7 DEF IInv, LoopOnLivePlayers, Settles
<1> QED
  BY <1>3, <1>4, <1>6, <1>7, <1>8, <1>9, <1>10, <1>11, <1>12, <1>13, <1>14, <1>15, <1>16, <1>17
     DEF PlayerCommand

-----------------------------------------------------------------------------
(***************************************************************************)
(* The loop of do_server, new connections, the rest of the tick.           *)
(***************************************************************************)
\* A step that only moves the loop.
LEMMA LoopSettles ==
  ASSUME IInv, Loop
  PROVE  Settles /\ IInv'
<1>0. /\ Sound(World) /\ Live(World) = LivePlayers /\ LivePlayers \subseteq Players
      /\ plist \in Seq(Players) /\ Distinct(plist)
      /\ World.sock = sock /\ World.pl = pl /\ World.unsaved = unsaved /\ World.plist = plist
  BY WorldFields DEF IInv, Sound, WorldSet, Live
<1>1. CASE FreeDeadSlot
  <2>1. PICK s \in DeadSlots : Becomes(FreeSocket(World, s))
    BY <1>1 DEF FreeDeadSlot
  <2> DEFINE v == FreeSocket(World, s)
  <2>2. s \in Slots /\ World.sock[s].status # "Avail"
    BY SizesAssumption, WorldFields
       DEF DeadSlots, Allocated, Slots, IInv, Sound, WorldSet
  <2>3. /\ Sound(v) /\ v.plist = World.plist /\ v.unsaved = World.unsaved
        /\ (Owned(World) => Owned(v))
    BY <1>0, <2>2, FreeEntry
  <2>4. Becomes(v) /\ pc' = "clean" /\ pc = "clean" /\ cur' = cur
    BY <1>1, <2>1 DEF FreeDeadSlot
  <2> HIDE DEF v
  <2>5. Live(v) = LivePlayers
    BY <1>0, <2>3 DEF Live
  <2>6. Settles
    BY <2>3, <2>4, <2>5, BecomesSettles
  <2> QED
    BY <2>4, <2>6 DEF IInv, LoopOnLivePlayers, Settles
<1>2. CASE DropDeadPlayer
  <2>1. PICK p \in DeadPlayers, ok \in SaveOutcomes : Becomes(Drop(World, p, ok))
    BY <1>2 DEF DropDeadPlayer
  <2> DEFINE v == Drop(World, p, ok)
  <2>2. p \in Live(World) /\ ok \in BOOLEAN /\ (SaveOutcomes = {TRUE} => ok)
    BY <1>0, SessionsAssumption DEF DeadPlayers
  <2>3. /\ Sound(v) /\ Live(v) = Live(World) \ {p} /\ (Owned(World) => Owned(v))
        /\ ok /\ Savable(World, p) => World.pl[p].name \notin v.unsaved
    BY <1>0, <2>2, DropSound
  <2>4. Becomes(v) /\ pc' = "clean" /\ pc = "clean" /\ cur' = cur
    BY <1>2, <2>1 DEF DropDeadPlayer
  <2> HIDE DEF v
  <2>5. \A q \in LivePlayers \ Live(v) :
           SaveOutcomes = {TRUE} /\ Savable(World, q) => pl[q].name \notin v.unsaved
    BY <1>0, <2>2, <2>3
  <2>6. Settles
    BY <2>3, <2>4, <2>5, BecomesSettles
  <2> QED
    BY <2>4, <2>6 DEF IInv, LoopOnLivePlayers, Settles
<1>3. ASSUME UNCHANGED <<open, alloc, sock, plist, pl, parties, passwd,
                         accounts, chars, logged_in, file, unsaved>>,
             pc' \in {"clean", "slots", "players", "tick"},
             cur' \in Players \cup {Null},
             pc' = "players" => cur' \in LivePlayers \cup {Null}
      PROVE  Settles /\ IInv'
  <2>1. Settles /\ LivePlayers' = LivePlayers
    BY <1>3, StandsSettles
  <2> QED
    BY <1>3, <2>1 DEF IInv, LoopOnLivePlayers, Settles
<1>4. CASE StartSelect \/ SelectAgain \/ EndSelect \/ EndTick
  BY <1>3, <1>4 DEF StartSelect, SelectAgain, EndSelect, EndTick, Stands, IInv
<1>5. CASE VisitPlayers
  <2>1. plist # <<>> => plist[1] \in LivePlayers
    BY <1>0 DEF LivePlayers
  <2> QED
    BY <1>0, <1>3, <1>5, <2>1 DEF VisitPlayers, Stands
<1>6. CASE Skip
  <2> DEFINE w == [plist |-> plist]
  <2>1. Distinct(w.plist) /\ w.plist \in Seq(Players) /\ Live(w) = LivePlayers
    BY <1>0 DEF Live, LivePlayers
  <2> HIDE DEF w
  <2>2. NextOf(w, cur) \in LivePlayers \cup {Null}
    BY <2>1, NextOfLive
  <2>3. cur' = NextOf(w, cur) /\ pc' = pc /\ pc = "players"
    BY <1>6 DEF Skip, w
  <2> QED
    BY <1>0, <1>3, <1>6, <2>2, <2>3 DEF Skip, Stands
<1> QED
  BY <1>1, <1>2, <1>4, <1>5, <1>6 DEF Loop

\* An entry of init_sockets given to a connection, or left free.
WithEntry(w, k, o, s, r) == [w EXCEPT !.alloc = k, !.open = o, !.sock[s] = r]

LEMMA EntrySound ==
  ASSUME NEW w, Sound(w), NEW k \in 0 .. MaxSlots, NEW o \in SUBSET Fds, NEW s \in Slots,
         NEW r \in Socket, r.account \in w.accounts \cup {Null}
  PROVE  LET v == WithEntry(w, k, o, s, r)
         IN  /\ Sound(v) /\ v.plist = w.plist /\ v.unsaved = w.unsaved
             /\ v.alloc = k /\ v.open = o /\ v.sock[s] = r
             /\ \A n \in Sockets : n # s => v.sock[n] = w.sock[n]
<1> DEFINE x == [w.sock EXCEPT ![s] = r]
           v == WithEntry(w, k, o, s, r)
<1>0. w \in WorldSet /\ s \in Sockets
  BY DEF Sound, Sockets
<1>1. /\ x \in [Sockets -> Socket] /\ x[s] = r
      /\ \A n \in Sockets : n # s => x[n] = w.sock[n]
  BY <1>0 DEF WorldSet
<1>2. v = [w EXCEPT !.alloc = k, !.open = o, !.sock = x]
  BY DEF WithEntry
<1> HIDE DEF x, v
<1>3. /\ v \in WorldSet /\ v.alloc = k /\ v.open = o /\ v.sock = x
      /\ v.plist = w.plist /\ v.pl = w.pl /\ v.parties = w.parties /\ v.passwd = w.passwd
      /\ v.accounts = w.accounts /\ v.chars = w.chars /\ v.logged_in = w.logged_in
      /\ v.file = w.file /\ v.unsaved = w.unsaved
  BY <1>0, <1>1, <1>2 DEF WorldSet
<1>4. AccountsSound(v)
  BY <1>1, <1>3 DEF Sound, AccountsSound
<1>5. PartiesSound(v) /\ NamesSound(v) /\ Distinct(v.plist)
  BY <1>3 DEF Sound, PartiesSound, NamesSound, Live
<1> QED
  BY <1>1, <1>3, <1>4, <1>5 DEF Sound, v

LEMMA EntryOwned ==
  ASSUME NEW w, NEW v, NEW s \in Slots, Sound(w), Owned(w),
         w.sock[s].status = "Avail", v.plist = w.plist,
         v.alloc \in Nat, w.alloc <= v.alloc, s <= v.alloc,
         \A n \in Sockets : n # s => v.sock[n] = w.sock[n],
         \/ v.open = w.open /\ v.sock[s].status = "Avail"
         \/ /\ v.sock[s].fd \notin w.open /\ v.open = w.open \cup {v.sock[s].fd}
            /\ v.sock[s].status = "Add"
  PROVE  Owned(v)
<1>0. s \in Sockets /\ s \notin Live(w) /\ Live(v) = Live(w) /\ w.alloc \in Nat
  BY NamesAssumption, SizesAssumption DEF Sockets, Sound, WorldSet, Live
<1>1. \A n \in Sockets : n # s => (Holds(v, n) <=> Holds(w, n))
  BY <1>0 DEF Holds, Sockets
<1>2. ~Holds(w, s) /\ (Holds(v, s) <=> v.sock[s].status # "Avail")
  BY <1>0 DEF Holds
<1>3. \A t \in Slots : v.sock[t].status # "Avail" => t <= v.alloc
  <2>1. ASSUME NEW t \in Slots, v.sock[t].status # "Avail", t # s PROVE t <= v.alloc
    <3>1. t <= w.alloc /\ t \in Int
      BY <2>1 DEF Owned, Sockets, Slots
    <3> QED
      BY <3>1, <1>0
  <2> QED
    BY <2>1
<1>4. CASE v.open = w.open /\ v.sock[s].status = "Avail"
  BY <1>1, <1>2, <1>3, <1>4 DEF Owned
<1>5. CASE /\ v.sock[s].fd \notin w.open /\ v.open = w.open \cup {v.sock[s].fd}
           /\ v.sock[s].status = "Add"
  BY <1>0, <1>1, <1>2, <1>3, <1>5 DEF Owned
<1> QED
  BY <1>4, <1>5

LEMMA LowestIn ==
  ASSUME NEW n \in Nat, NEW S \in SUBSET (1 .. n), S # {}
  PROVE  Lowest(S) \in S
<1>1. \E i \in S : \A j \in S : i <= j
  BY LeastPosition
<1> QED
  BY <1>1 DEF Lowest

LEMMA NewConnectionSettles ==
  ASSUME IInv, NewConnection
  PROVE  Settles /\ IInv'
<1> DEFINE s == IF FreeSlots # {} THEN Lowest(FreeSlots) ELSE alloc + 1
           k == IF FreeSlots # {} THEN alloc ELSE s
           f == Lowest(Fds \ open)
           none == [sock[s] EXCEPT !.fd = NoFd]
           new == [status |-> "Add", fd |-> f, account |-> Null]
           u == [World EXCEPT !.alloc = IF FreeSlots # {} THEN @ ELSE s]
           x == WithEntry(World, k, open, s, none)
           o == open \cup {f}
           y == WithEntry(World, k, o, s, new)
<1>1. /\ Sound(World) /\ alloc \in 0 .. MaxSlots /\ open \in SUBSET Fds
      /\ sock \in [Sockets -> Socket] /\ World.sock = sock /\ World.open = open
      /\ World.alloc = alloc /\ World.plist = plist /\ World.unsaved = unsaved
      /\ Live(World) = LivePlayers
  BY WorldFields DEF IInv, Sound, WorldSet
<1>2. FreeSlots # {} => Lowest(FreeSlots) \in FreeSlots
  <2>1. FreeSlots \in SUBSET (1 .. alloc) /\ alloc \in Nat
    BY <1>1, SizesAssumption DEF FreeSlots, Allocated
  <2> QED
    BY <2>1, LowestIn
<1>3. Fds \ open # {} => f \in Fds \ open
  <2>1. Fds \ open \in SUBSET (1 .. MaxFds) /\ MaxFds \in Nat
    BY SizesAssumption DEF Fds
  <2> QED
    BY <2>1, LowestIn
<1> HIDE DEF f
<1>4. s \in Slots /\ pc = "slots" /\ pc' = pc /\ cur' = cur
  BY DEF NewConnection
<1>5. /\ k \in 0 .. MaxSlots /\ k \in Nat /\ alloc <= k /\ s <= k
      /\ s \in Sockets /\ Owned(World) => sock[s].status = "Avail"
  <2>1. CASE FreeSlots # {}
    <3>1. s \in FreeSlots /\ k = alloc
      BY <1>2, <2>1
    <3> HIDE DEF s, k
    <3> QED
      BY <3>1, <1>1, SizesAssumption DEF FreeSlots, Allocated
  <2>2. CASE FreeSlots = {}
    <3>1. s = alloc + 1 /\ k = s
      BY <2>2
    <3> HIDE DEF s, k
    <3>2. s \in 1 .. MaxSlots /\ ~(s <= alloc)
      BY <3>1, <1>1, <1>4, SizesAssumption DEF Slots
    <3>3. Owned(World) => sock[s].status = "Avail"
      BY <3>2, <1>1, <1>4 DEF Owned
    <3> QED
      BY <3>1, <3>2, <3>3, <1>1, SizesAssumption
  <2> QED
    BY <2>1, <2>2
<1>6. s \in Sockets
  BY <1>4 DEF Sockets
<1>7. u = [World EXCEPT !.alloc = k]
  BY <1>1 DEF World
<1>8. [u EXCEPT !.sock[s].fd = NoFd] = x
  <2> HIDE DEF u, s, k
  <2> QED
    BY <1>1, <1>6, <1>7 DEF WithEntry, World
<1>9. [u EXCEPT !.open = @ \cup {f}, !.sock[s] = new] = y
  <2> HIDE DEF s, k, new
  <2>1. u = [World EXCEPT !.alloc = k]
    BY <1>7
  <2> HIDE DEF u
  <2> QED
    BY <2>1, <1>1, <1>6 DEF WithEntry, World
<1>10. Becomes(x) \/ (Fds \ open # {} /\ Becomes(y))
  BY <1>8, <1>9 DEF NewConnection, f
<1> HIDE DEF s, k, u
<1>11. ASSUME NEW v, Becomes(v), Sound(v), v.plist = World.plist, v.unsaved = World.unsaved,
              Owned(World) => Owned(v)
       PROVE  Settles /\ IInv'
  <2>1. Live(v) = LivePlayers
    BY <1>1, <1>11 DEF Live
  <2>2. Settles
    BY <1>11, <2>1, BecomesSettles
  <2> QED
    BY <1>4, <2>2 DEF IInv, LoopOnLivePlayers, Settles
<1>12. CASE Becomes(x)
  <2>1. sock[s] \in Socket /\ sock[s].account \in World.accounts \cup {Null}
    BY <1>1, <1>6 DEF Sound, AccountsSound
  <2>2. /\ none \in Socket /\ none.account = sock[s].account /\ none.status = sock[s].status
    BY <2>1 DEF Socket
  <2> HIDE DEF none
  <2>3. /\ Sound(x) /\ x.plist = World.plist /\ x.unsaved = World.unsaved
        /\ x.alloc = k /\ x.open = open /\ x.sock[s] = none
        /\ \A n \in Sockets : n # s => x.sock[n] = World.sock[n]
    <3>1. /\ Sound(World) /\ k \in 0 .. MaxSlots /\ open \in SUBSET Fds /\ s \in Slots
          /\ none \in Socket /\ none.account \in World.accounts \cup {Null}
      BY <1>1, <1>4, <1>5, <2>1, <2>2
    <3> QED
      BY <3>1, EntrySound
  <2> HIDE DEF x
  <2>4. Owned(World) => Owned(x)
    BY <1>1, <1>4, <1>5, <1>6, <2>2, <2>3, EntryOwned
  <2> QED
    BY <1>11, <1>12, <2>3, <2>4
<1>13. CASE Fds \ open # {} /\ Becomes(y)
  <2>1. f \in Fds /\ f \notin open
    BY <1>3, <1>13
  <2>2. new \in Socket /\ new.account \in World.accounts \cup {Null} /\ new.status = "Add" /\ new.fd = f
    BY <2>1 DEF Socket
  <2>2a. o \in SUBSET Fds
    BY <1>1, <2>1
  <2> HIDE DEF new, o
  <2>3. /\ Sound(y) /\ y.plist = World.plist /\ y.unsaved = World.unsaved
        /\ y.alloc = k /\ y.open = o /\ y.sock[s] = new
        /\ \A n \in Sockets : n # s => y.sock[n] = World.sock[n]
    <3>1. /\ Sound(World) /\ k \in 0 .. MaxSlots /\ s \in Slots
          /\ new \in Socket /\ new.account \in World.accounts \cup {Null}
      BY <1>1, <1>4, <1>5, <2>2
    <3> QED
      BY <3>1, <2>2a, EntrySound
  <2> HIDE DEF y
  <2>4. Owned(World) => Owned(y)
    BY <1>1, <1>4, <1>5, <1>6, <2>1, <2>2, <2>3, EntryOwned DEF o
  <2> QED
    BY <1>11, <1>13, <2>3, <2>4
<1> QED
  BY <1>10, <1>12, <1>13

LEMMA SlotClosesSettles ==
  ASSUME IInv, NEW s \in Slots, SlotCloses(s)
  PROVE  Settles /\ IInv'
<1>0. /\ Sound(World) /\ World.sock = sock /\ World.plist = plist /\ World.unsaved = unsaved
      /\ Live(World) = LivePlayers /\ s \in Sockets
  BY WorldFields DEF IInv, Sockets
<1>1. s \in Allocated /\ sock[s].status = "Add" /\ pc = "slots" /\ pc' = pc /\ cur' = cur
  BY NamesAssumption DEF SlotCloses, Serving
<1>2. ASSUME NEW v, Becomes(v), Sound(v), v.plist = World.plist, v.unsaved = World.unsaved,
             Owned(World) => Owned(v)
      PROVE  Settles /\ IInv'
  <2>1. Live(v) = LivePlayers
    BY <1>0, <1>2 DEF Live
  <2>2. Settles
    BY <1>2, <2>1, BecomesSettles
  <2> QED
    BY <1>1, <2>2 DEF IInv, LoopOnLivePlayers, Settles
<1>3. CASE Becomes(FreeSocket(World, s))
  <2> DEFINE v == FreeSocket(World, s)
  <2>1. /\ Sound(v) /\ v.plist = World.plist /\ v.unsaved = World.unsaved
        /\ Owned(World) => Owned(v)
    BY <1>0, <1>1, FreeEntry
  <2> HIDE DEF v
  <2> QED
    BY <1>2, <1>3, <2>1 DEF v
<1>4. CASE Becomes([World EXCEPT !.sock[s].status = "Dead"])
  <2> DEFINE r == [sock[s] EXCEPT !.status = "Dead"]
             k == World.alloc
             o == World.open
             v == WithEntry(World, k, o, s, r)
  <2>1. sock[s] \in Socket /\ k \in 0 .. MaxSlots /\ o \in SUBSET Fds
    BY <1>0 DEF Sound, WorldSet
  <2>2. r \in Socket /\ r.status = "Dead" /\ r.fd = sock[s].fd /\ r.account = sock[s].account
    BY <2>1 DEF Socket
  <2>3. [World EXCEPT !.sock[s].status = "Dead"] = v
    BY <1>0 DEF WithEntry, World
  <2> HIDE DEF r
  <2>4. r.account \in World.accounts \cup {Null}
    BY <1>0, <2>2 DEF Sound, AccountsSound
  <2>5. /\ Sound(v) /\ v.plist = World.plist /\ v.unsaved = World.unsaved
        /\ v.alloc = World.alloc /\ v.open = World.open /\ v.sock[s] = r
        /\ \A n \in Sockets : n # s => v.sock[n] = World.sock[n]
    <3> HIDE DEF k, o
    <3>1. Sound(World) /\ r \in Socket
      BY <1>0, <2>2
    <3>2. /\ Sound(v) /\ v.plist = World.plist /\ v.unsaved = World.unsaved
          /\ v.alloc = k /\ v.open = o /\ v.sock[s] = r
          /\ \A n \in Sockets : n # s => v.sock[n] = World.sock[n]
      BY <2>1, <2>4, <3>1, EntrySound
    <3> QED
      BY <3>2 DEF k, o
  <2> HIDE DEF v
  <2>6. \A n \in Sockets : v.sock[n].fd = World.sock[n].fd /\ (Holds(v, n) <=> Holds(World, n))
    <3>1. Live(v) = Live(World)
      BY <2>5 DEF Live
    <3> QED
      BY <1>0, <1>1, <2>2, <2>5, <3>1 DEF Holds
  <2>7. \A t \in Slots : v.sock[t].status # "Avail" <=> World.sock[t].status # "Avail"
    BY <1>0, <1>1, <2>2, <2>5 DEF Sockets
  <2>8. Owned(World) => Owned(v)
    BY <2>5, <2>6, <2>7 DEF Owned
  <2> QED
    BY <1>2, <1>4, <2>3, <2>5, <2>8
<1> QED
  BY <1>3, <1>4 DEF SlotCloses

\* What check_all_fds leaves.
CheckedWorld == [World EXCEPT !.sock = check_all_fds]

LEMMA CheckedFields ==
  ASSUME IInv
  PROVE  LET v == CheckedWorld
         IN  /\ Sound(v) /\ Live(v) = LivePlayers
             /\ v.open = open /\ v.alloc = alloc /\ v.plist = plist /\ v.unsaved = unsaved
             /\ v.sock = check_all_fds
             /\ \A n \in Sockets :
                   /\ v.sock[n].fd = sock[n].fd
                   /\ v.sock[n].status =
                         IF (n \in Allocated \/ n \in LivePlayers) /\ sock[n].fd \notin open
                         THEN "Dead" ELSE sock[n].status
<1> DEFINE x == check_all_fds
           v == CheckedWorld
<1>0. Sound(World) /\ World.sock = sock /\ Live(World) = LivePlayers
  BY WorldFields DEF IInv
<1>1. sock \in [Sockets -> Socket]
  BY <1>0 DEF Sound, WorldSet
<1>2. ASSUME NEW r \in Socket
      PROVE  LET d == [r EXCEPT !.status = "Dead"]
             IN  d \in Socket /\ d.account = r.account /\ d.fd = r.fd /\ d.status = "Dead"
  BY DEF Socket
<1>3. \A n \in Sockets :
        /\ x[n] \in Socket /\ x[n].account = sock[n].account /\ x[n].fd = sock[n].fd
        /\ x[n].status = IF (n \in Allocated \/ n \in LivePlayers) /\ sock[n].fd \notin open
                         THEN "Dead" ELSE sock[n].status
  BY <1>1, <1>2 DEF check_all_fds
<1>4. x \in [Sockets -> Socket]
  BY <1>3 DEF check_all_fds
<1>5. v = [World EXCEPT !.sock = x]
  BY DEF CheckedWorld
<1> HIDE DEF x, v
<1>6. /\ v \in WorldSet /\ v.sock = x /\ v.open = World.open /\ v.alloc = World.alloc
      /\ v.plist = World.plist /\ v.pl = World.pl /\ v.parties = World.parties
      /\ v.passwd = World.passwd /\ v.accounts = World.accounts /\ v.chars = World.chars
      /\ v.logged_in = World.logged_in /\ v.file = World.file /\ v.unsaved = World.unsaved
  BY <1>0, <1>4, <1>5 DEF Sound, WorldSet
<1>7. AccountsSound(v)
  BY <1>0, <1>3, <1>6 DEF Sound, AccountsSound
<1>8. PartiesSound(v) /\ NamesSound(v) /\ Distinct(v.plist)
  BY <1>0, <1>6 DEF Sound, PartiesSound, NamesSound, Live
<1>9. Sound(v) /\ Live(v) = LivePlayers
  BY <1>0, <1>6, <1>7, <1>8 DEF Sound, Live
<1> QED
  BY <1>3, <1>6, <1>9, WorldFields DEF x, v

LEMMA BadDescriptorSettles ==
  ASSUME IInv, BadDescriptor
  PROVE  Settles /\ IInv' /\ World' = CheckedWorld
<1>1. /\ Sound(CheckedWorld) /\ Live(CheckedWorld) = LivePlayers
      /\ CheckedWorld \in WorldSet /\ CheckedWorld.plist = plist
  BY CheckedFields DEF Sound
<1>2. Becomes(CheckedWorld) /\ pc' = "tick" /\ cur' = cur
  BY DEF BadDescriptor, CheckedWorld
<1>3. World' = CheckedWorld
  BY <1>1, <1>2, BecomesWorld
<1>4. plist' = plist
  BY <1>1, <1>2 DEF Becomes
<1>5. LivePlayers' = LivePlayers /\ Live(World)' = LivePlayers
  BY <1>1, <1>3, <1>4 DEF LivePlayers
<1>6. Settles
  BY <1>1, <1>2, <1>3, <1>5 DEF Settles
<1> QED
  BY <1>2, <1>3, <1>6 DEF IInv, LoopOnLivePlayers, Settles

LEMMA SendFailsSettles ==
  ASSUME IInv, NEW p \in LivePlayers, SendFails(p)
  PROVE  Settles /\ IInv'
<1> DEFINE v == [World EXCEPT !.sock[p].status = "Dead"]
<1>0. /\ Sound(World) /\ Live(World) = LivePlayers /\ p \in Players /\ p \in Sockets
  BY WorldFields DEF IInv, Sound, WorldSet, Live, Sockets
<1>1. Becomes(v) /\ pc' = pc /\ cur' = cur
  BY DEF SendFails
<1>2. Sound(v) /\ SameOwners(v, World)
  BY <1>0, EditSocket
<1> HIDE DEF v
<1>3. Live(v) = LivePlayers /\ (Owned(World) => Owned(v))
  BY <1>0, <1>2, SameOwnersOwned DEF SameOwners, Live
<1>4. Settles /\ LivePlayers' = LivePlayers
  BY <1>1, <1>2, <1>3, BecomesSettles
<1> QED
  BY <1>1, <1>4 DEF IInv, LoopOnLivePlayers, Settles

LEMMA AutoSaveSettles ==
  ASSUME IInv, NEW p \in LivePlayers, NEW ok \in SaveOutcomes, AutoSave(p, ok)
  PROVE  Settles /\ IInv'
<1> DEFINE v == Save(World, p, ok)
<1>0. Sound(World) /\ Live(World) = LivePlayers /\ ok \in BOOLEAN
  BY WorldFields, SessionsAssumption DEF IInv
<1>1. Becomes(v) /\ pc = "tick" /\ pc' = pc /\ cur' = cur
  BY DEF AutoSave
<1>2. Sound(v) /\ SameOwners(v, World)
  BY <1>0, SaveSound
<1> HIDE DEF v
<1>3. Live(v) = LivePlayers /\ (Owned(World) => Owned(v))
  BY <1>0, <1>2, SameOwnersOwned DEF SameOwners, Live
<1>4. Settles
  BY <1>1, <1>2, <1>3, BecomesSettles
<1> QED
  BY <1>1, <1>4 DEF IInv, LoopOnLivePlayers, Settles

LEMMA SweepSettles ==
  ASSUME IInv, SweepParties
  PROVE  Settles /\ IInv'
<1> DEFINE v == ObsoleteParties(World)
<1>0. Sound(World) /\ Live(World) = LivePlayers
  BY WorldFields DEF IInv
<1>1. Becomes(v) /\ pc = "tick" /\ pc' = pc /\ cur' = cur
  BY DEF SweepParties
<1>2. Sound(v) /\ SameOwners(v, World)
  BY <1>0, ObsoletePartiesSound, OnlyPartiesOwners
<1> HIDE DEF v
<1>3. Live(v) = LivePlayers /\ (Owned(World) => Owned(v))
  BY <1>0, <1>2, SameOwnersOwned DEF SameOwners, Live
<1>4. Settles
  BY <1>1, <1>2, <1>3, BecomesSettles
<1> QED
  BY <1>1, <1>4 DEF IInv, LoopOnLivePlayers, Settles

LEMMA NextSettles ==
  ASSUME IInv, [Next]_vars
  PROVE  Settles /\ IInv'
<1>1. CASE Loop
  BY <1>1, LoopSettles
<1>2. CASE NewConnection
  BY <1>2, NewConnectionSettles
<1>3. CASE BadDescriptor
  BY <1>3, BadDescriptorSettles
<1>4. CASE SweepParties
  BY <1>4, SweepSettles
<1>5. CASE \E s \in Slots : SlotCloses(s)
  BY <1>5, SlotClosesSettles
<1>6. CASE \E n \in Served : SocketCommand(n)
  BY <1>6, SocketCommandSettles
<1>7. CASE \E p \in Served \cap Players : PlayerCommand(p)
  BY <1>7, PlayerCommandSettles
<1>8. CASE \E p \in LivePlayers : SendFails(p)
  BY <1>8, SendFailsSettles
<1>9. CASE \E p \in LivePlayers, ok \in SaveOutcomes : AutoSave(p, ok)
  BY <1>9, AutoSaveSettles
<1>10. CASE UNCHANGED vars
  <2>1. Settles
    BY <1>10, StandsSettles DEF vars
  <2> QED
    BY <1>10, <2>1 DEF vars, IInv, LoopOnLivePlayers, LivePlayers, Settles
<1> QED
  BY <1>1, <1>2, <1>3, <1>4, <1>5, <1>6, <1>7, <1>8, <1>9, <1>10 DEF Next

LEMMA InitSound ==
  ASSUME Init
  PROVE  IInv /\ Owned(World)
<1>1. /\ alloc = 0 /\ open = {} /\ plist = <<>> /\ LivePlayers = {}
      /\ parties = {} /\ passwd = {} /\ logged_in = {} /\ unsaved = {}
      /\ sock = [n \in Sockets |-> NoSocket] /\ pl = [p \in Players |-> NewPlayer]
      /\ pc = "clean" /\ cur = Null
      /\ chars = InitialChars /\ accounts = {a \in Accounts : InitialChars[a] # {}}
  <2>1. plist = <<>>
    BY DEF Init
  <2>2. LivePlayers = {}
    BY <2>1 DEF LivePlayers
  <2> QED
    BY <2>2 DEF Init
<1>2. \A n \in Sockets : sock[n].status = "Avail" /\ sock[n].account = Null
  BY <1>1 DEF NoSocket
<1>3. \A p \in Players : pl[p].state = "CREATE"
  BY <1>1 DEF NewPlayer
<1>4. sock \in [Sockets -> Socket] /\ pl \in [Players -> Player]
  <2>1. NoSocket \in Socket
    BY DEF NoSocket, Socket
  <2>2. NewPlayer \in Player
    BY DEF NewPlayer, Player, States
  <2> QED
    BY <1>1, <2>1, <2>2
<1>5. file \in [Chars -> PlayerFile]
  <2>1. PICK k \in [InitialFiles -> Passwords] :
           file = [c \in Chars |-> IF c \in InitialFiles
                                   THEN [NoFile EXCEPT !.exists = TRUE, !.password = k[c]]
                                   ELSE NoFile]
    BY DEF Init
  <2>2. NoFile \in PlayerFile
    BY DEF NoFile, PlayerFile
  <2>3. ASSUME NEW c \in InitialFiles
        PROVE  [NoFile EXCEPT !.exists = TRUE, !.password = k[c]] \in PlayerFile
    BY <2>2, k[c] \in Passwords DEF PlayerFile
  <2> QED
    BY <2>1, <2>2, <2>3
<1>6. World \in WorldSet
  BY <1>1, <1>4, <1>5, SessionsAssumption, SizesAssumption DEF World, WorldSet
<1>7. PartiesSound(World) /\ NamesSound(World) /\ Distinct(World.plist)
  BY <1>1, <1>3, WorldFields DEF PartiesSound, NamesSound, Distinct
<1>8. AccountsSound(World)
  BY <1>1, <1>2, SessionsAssumption, WorldFields DEF AccountsSound
<1>9. Owned(World)
  BY <1>1, <1>2, WorldFields DEF Owned, Holds, Sockets
<1> QED
  BY <1>1, <1>6, <1>7, <1>8, <1>9 DEF IInv, Sound, LoopOnLivePlayers

-----------------------------------------------------------------------------
(***************************************************************************)
(* The theorems.                                                           *)
(***************************************************************************)
LEMMA AlwaysIInv == Spec => []IInv
<1>1. Init => IInv
  BY InitSound
<1>2. IInv /\ [Next]_vars => IInv'
  BY NextSettles
<1> QED
  BY <1>1, <1>2, PTL DEF Spec

\* Bits are of descriptors that were open when do_server was called.
LEMMA WatchedStep ==
  ASSUME IInv, watched \subseteq Fds, [Next]_vars
  PROVE  watched' \subseteq Fds
<1>1. ASSUME BitsStay PROVE watched' \subseteq Fds
  BY <1>1 DEF BitsStay
<1>2. CASE StartSelect
  <2>1. \A n \in Watched : sock[n].fd \in open
    BY <1>2 DEF StartSelect, Closed
  <2>2. open \subseteq Fds
    BY WorldFields DEF IInv, Sound, WorldSet
  <2> QED
    BY <1>2, <2>1, <2>2 DEF StartSelect
<1>3. CASE Loop /\ ~StartSelect
  BY <1>3 DEF Loop, FreeDeadSlot, DropDeadPlayer, VisitPlayers, Skip, SelectAgain,
              EndSelect, EndTick
<1>4. CASE NewConnection \/ BadDescriptor \/ SweepParties
  BY <1>4 DEF NewConnection, BadDescriptor, SweepParties
<1>5. CASE \E s \in Slots : SlotCloses(s)
  BY <1>5 DEF SlotCloses
<1>6. ASSUME NEW n, NEW w, Serve(n, w) PROVE watched' \subseteq Fds
  BY <1>1, <1>6 DEF Serve
<1>7. ASSUME Crash PROVE watched' \subseteq Fds
  BY <1>7 DEF Crash
<1>8. CASE \E n \in Served : SocketCommand(n)
  BY <1>6, <1>7, <1>8 DEF SocketCommand, Login_, NewAccount, AddCharacter, PlayCharacter,
                          CreateCharacter, LegacyLogin
<1>9. CASE \E p \in Served \cap Players : PlayerCommand(p)
  BY <1>1, <1>6, <1>7, <1>9
     DEF PlayerCommand, ReplyName, ReplyPassword, ReplyCreate, ReplyPlayAgain,
         Gain, Delete, LeaveParty, Savebed, ReplyQuit, FormParty, JoinParty,
         SetPassword, ReplyPartyPassword, PlayerCloses
<1>10. CASE \E p \in LivePlayers : SendFails(p)
  BY <1>10 DEF SendFails
<1>11. CASE \E p \in LivePlayers, ok \in SaveOutcomes : AutoSave(p, ok)
  BY <1>11 DEF AutoSave
<1>12. CASE UNCHANGED vars
  BY <1>12 DEF vars
<1> QED
  BY <1>2, <1>3, <1>4, <1>5, <1>8, <1>9, <1>10, <1>11, <1>12 DEF Next

\* Every variable holds a value of its type and no player is listed twice,
\* whatever commands, closed connections and failed writes come in what order.
THEOREM TypeCorrect == Spec => []TypeOK
<1>1. Init => IInv /\ watched \subseteq Fds
  BY InitSound DEF Init
<1>2. (IInv /\ watched \subseteq Fds) /\ [Next]_vars => (IInv /\ watched \subseteq Fds)'
  BY NextSettles, WatchedStep
<1>3. IInv /\ watched \subseteq Fds => TypeOK
  BY WorldFields DEF IInv, Sound, WorldSet, Distinct, PartiesSound, AccountsSound, TypeOK
<1> QED
  BY <1>1, <1>2, <1>3, PTL DEF Spec

\* No player points to a freed party: members are counted when one leaves, and
\* the sweep frees only what nobody is in.
THEOREM PartiesStayListed == Spec => []PartiesListed
<1>1. IInv => PartiesListed
  BY WorldFields DEF IInv, Sound, PartiesSound, PartiesListed
<1> QED
  BY <1>1, AlwaysIInv, PTL

\* The player do_server visits next is on the list, though handlers drop the
\* one they serve, and others of the same name.
THEOREM LoopVisitsLivePlayers == Spec => []LoopOnLivePlayers
<1>1. IInv => LoopOnLivePlayers
  BY DEF IInv
<1> QED
  BY <1>1, AlwaysIInv, PTL

\* No character gets into two accounts, by a first save or by being added.
THEOREM CharsOfOneAccount == Spec => []CharOneAccount
<1>1. ASSUME IInv, NEW c \in Chars
      PROVE  Cardinality(AccountsOf(World, c)) <= 1
  <2>1. \A a, b \in AccountsOf(World, c) : a = b
    BY <1>1, WorldFields DEF IInv, Sound, WorldSet, AccountsSound, AccountsOf
  <2>2. CASE AccountsOf(World, c) = {}
    <3>1. Cardinality({}) = 0
      BY FS_EmptySet
    <3> QED
      BY <2>2, <3>1
  <2>3. CASE AccountsOf(World, c) # {}
    <3>1. PICK a : a \in AccountsOf(World, c)
      BY <2>3
    <3>2. AccountsOf(World, c) = {a}
      BY <2>1, <3>1
    <3>3. Cardinality({a}) = 1
      BY FS_Singleton
    <3> QED
      BY <3>2, <3>3
  <2> QED
    BY <2>2, <2>3
<1>2. IInv => CharOneAccount
  BY <1>1 DEF CharOneAccount
<1> QED
  BY <1>2, AlwaysIInv, PTL

\* Whoever holds a descriptor holds an open one alone, but for entries that
\* check_all_fds marked and that are still to be freed.
Marked(w, n) == n \in Slots /\ w.sock[n].status = "Dead"

OwnedOrMarked(w) ==
    /\ \A s \in Slots : w.sock[s].status # "Avail" => s <= w.alloc
    /\ \A n \in Sockets : Holds(w, n) => w.sock[n].fd \in w.open \/ Marked(w, n)
    /\ \A f \in w.open : \E n \in Sockets : Holds(w, n) /\ w.sock[n].fd = f
    /\ \A m, n \in Sockets :
          /\ Holds(w, m) /\ Holds(w, n)
          /\ w.sock[m].fd = w.sock[n].fd /\ w.sock[n].fd \in w.open
          => m = n

\* Marks are there only between two calls of do_server and while what is dead is
\* freed.
OInv ==
    /\ OwnedOrMarked(World)
    /\ pc \in {"slots", "players"} => Owned(World)

LEMMA OwnedIsOwnedOrMarked ==
  ASSUME NEW w, Owned(w)
  PROVE  OwnedOrMarked(w)
  BY DEF Owned, OwnedOrMarked

LEMMA NoneMarked ==
  ASSUME OwnedOrMarked(World), IInv, DeadSlots = {}
  PROVE  Owned(World)
<1>1. \A s \in Slots : sock[s].status # "Dead"
  <2>1. ASSUME NEW s \in Slots, sock[s].status = "Dead" PROVE s \in Allocated
    <3>1. s <= alloc /\ s \in Nat /\ 1 <= s
      BY <2>1, WorldFields, SizesAssumption DEF OwnedOrMarked, Slots
    <3>2. alloc \in Nat
      BY WorldFields, SizesAssumption DEF IInv, Sound, WorldSet
    <3> QED
      BY <3>1, <3>2 DEF Allocated
  <2> QED
    BY <2>1 DEF DeadSlots
<1>2. \A n \in Sockets : ~Marked(World, n)
  BY <1>1, WorldFields DEF Marked
<1> QED
  BY <1>2 DEF OwnedOrMarked, Owned

LEMMA SameOwnersMarked ==
  ASSUME NEW w, NEW v, SameOwners(v, w), OwnedOrMarked(w)
  PROVE  OwnedOrMarked(v)
<1>1. \A n \in Sockets : (Holds(v, n) <=> Holds(w, n)) /\ (Marked(v, n) <=> Marked(w, n))
  BY DEF SameOwners, Holds, Live, Marked
<1> QED
  BY <1>1 DEF SameOwners, OwnedOrMarked

LEMMA FreeMarkedEntry ==
  ASSUME NEW w, Sound(w), NEW s \in Slots, OwnedOrMarked(w), w.sock[s].status = "Dead"
  PROVE  OwnedOrMarked(FreeSocket(w, s))
<1> DEFINE v == FreeSocket(w, s)
<1>0. w \in WorldSet /\ s \in Sockets
  BY DEF Sound, Sockets
<1>1. /\ v.open = w.open \ {w.sock[s].fd} /\ v.alloc = w.alloc /\ v.plist = w.plist
      /\ v.sock[s].status = "Avail" /\ \A m \in Sockets : m # s => v.sock[m] = w.sock[m]
  BY <1>0, FreeSocketFields
<1> HIDE DEF v
<1>2. Holds(w, s) /\ ~Holds(v, s) /\ \A n \in Sockets : n # s => (Holds(v, n) <=> Holds(w, n))
  <2>1. s \notin Live(w) /\ Live(v) = Live(w)
    BY <1>0, <1>1, NamesAssumption DEF WorldSet, Live
  <2> QED
    BY <2>1, <1>1 DEF Holds, Sockets
<1>3. \A n \in Sockets : n # s => (Marked(v, n) <=> Marked(w, n))
  BY <1>1 DEF Marked
<1>4. \A q \in Slots : v.sock[q].status # "Avail" => q <= v.alloc
  BY <1>1 DEF OwnedOrMarked, Sockets
<1>5. ASSUME NEW n \in Sockets, Holds(v, n) PROVE v.sock[n].fd \in v.open \/ Marked(v, n)
  <2>1. n # s /\ Holds(w, n) /\ v.sock[n] = w.sock[n]
    BY <1>5, <1>1, <1>2
  <2>2. CASE Marked(w, n)
    BY <2>1, <2>2, <1>3
  <2>3. CASE ~Marked(w, n)
    <3>1. w.sock[n].fd \in w.open
      BY <2>1, <2>3 DEF OwnedOrMarked
    <3>2. w.sock[n].fd # w.sock[s].fd
      BY <2>1, <3>1, <1>0, <1>2 DEF OwnedOrMarked
    <3> QED
      BY <2>1, <3>1, <3>2, <1>1
  <2> QED
    BY <2>2, <2>3
<1>6. \A f \in v.open : \E n \in Sockets : Holds(v, n) /\ v.sock[n].fd = f
  BY <1>0, <1>1, <1>2 DEF OwnedOrMarked
<1>7. \A m, n \in Sockets :
        /\ Holds(v, m) /\ Holds(v, n)
        /\ v.sock[m].fd = v.sock[n].fd /\ v.sock[n].fd \in v.open
        => m = n
  BY <1>1, <1>2 DEF OwnedOrMarked
<1> QED
  BY <1>4, <1>5, <1>6, <1>7 DEF OwnedOrMarked, v

\* check_all_fds marks free entries only, as every owner's descriptor is open.
LEMMA CheckedMarked ==
  ASSUME IInv, Owned(World)
  PROVE  OwnedOrMarked(CheckedWorld)
<1> DEFINE v == CheckedWorld
<1>0. /\ Live(v) = LivePlayers /\ v.open = open /\ v.alloc = alloc
      /\ \A n \in Sockets :
            /\ v.sock[n].fd = sock[n].fd
            /\ v.sock[n].status =
                  IF (n \in Allocated \/ n \in LivePlayers) /\ sock[n].fd \notin open
                  THEN "Dead" ELSE sock[n].status
  BY CheckedFields
<1> HIDE DEF v
<1>1. LivePlayers \subseteq Players /\ alloc \in Nat
  BY WorldFields, SizesAssumption DEF IInv, Sound, WorldSet, Live
<1>2. \A n \in Sockets : Holds(World, n) => sock[n].fd \in open
  BY WorldFields DEF Owned
<1>3. ASSUME NEW n \in Sockets, Holds(v, n)
      PROVE  Holds(World, n) \/ (Marked(v, n) /\ sock[n].fd \notin open)
  BY <1>3, <1>0, <1>1, WorldFields DEF Holds, Marked, Sockets
<1>4. ASSUME NEW n \in Sockets, Holds(World, n) PROVE Holds(v, n)
  BY <1>4, <1>0, <1>2, WorldFields DEF Holds
<1>5. ASSUME NEW s \in Slots, v.sock[s].status # "Avail" PROVE s <= v.alloc
  <2>1. CASE s \in Allocated
    BY <2>1, <1>0, <1>1 DEF Allocated
  <2>2. CASE s \notin Allocated
    <3>1. v.sock[s].status = sock[s].status
      BY <2>2, <1>0, <1>1, NamesAssumption DEF Sockets
    <3> QED
      BY <3>1, <1>0, <1>5, WorldFields DEF Owned
  <2> QED
    BY <2>1, <2>2
<1>6. \A n \in Sockets : Holds(v, n) => v.sock[n].fd \in v.open \/ Marked(v, n)
  BY <1>0, <1>2, <1>3
<1>7. \A f \in v.open : \E n \in Sockets : Holds(v, n) /\ v.sock[n].fd = f
  BY <1>0, <1>4, WorldFields DEF Owned
<1>8. \A m, n \in Sockets :
        /\ Holds(v, m) /\ Holds(v, n)
        /\ v.sock[m].fd = v.sock[n].fd /\ v.sock[n].fd \in v.open
        => m = n
  BY <1>0, <1>3, WorldFields DEF Owned
<1> QED
  BY <1>5, <1>6, <1>7, <1>8 DEF OwnedOrMarked, v

LEMMA OwnedStep ==
  ASSUME LateWritesFail = FALSE, IInv, OInv, [Next]_vars
  PROVE  OInv'
<1>1. Settles /\ IInv' /\ Sound(World) /\ Live(World) = LivePlayers
  BY NextSettles, WorldFields DEF IInv
<1>2. ASSUME Owned(World)' PROVE OInv'
  <2>1. ASSUME NEW w, w = World', Owned(w) PROVE OwnedOrMarked(w)
    BY <2>1, OwnedIsOwnedOrMarked
  <2>2. Owned(World') => OwnedOrMarked(World')
    BY <2>1
  <2> QED
    BY <1>2, <2>2 DEF OInv
<1>3. ASSUME Owned(World), pc' # "tick" PROVE OInv'
  BY <1>1, <1>2, <1>3 DEF Settles
<1>4. ASSUME OwnedOrMarked(World'), pc' \notin {"slots", "players"} PROVE OInv'
  BY <1>4 DEF OInv
<1>5. ASSUME UNCHANGED <<open, alloc, sock, plist, pl, parties, passwd,
                         accounts, chars, logged_in, file, unsaved>>,
             pc' \notin {"slots", "players"}
      PROVE  OInv'
  <2>1. World' = World
    BY <1>5 DEF World
  <2> QED
    BY <1>4, <1>5, <2>1 DEF OInv
<1>6. ASSUME NEW v, Becomes(v), v \in WorldSet, SameOwners(v, World),
             pc' \notin {"slots", "players"}
      PROVE  OInv'
  <2>1. World' = v
    BY <1>6, BecomesWorld
  <2>2. OwnedOrMarked(v)
    BY <1>6, SameOwnersMarked DEF OInv
  <2> QED
    BY <1>4, <1>6, <2>1, <2>2
<1>7. CASE pc \in {"slots", "players"} /\ pc' # "tick"
  BY <1>3, <1>7 DEF OInv
<1>8. CASE FreeDeadSlot
  <2>1. PICK s \in DeadSlots : Becomes(FreeSocket(World, s))
    BY <1>8 DEF FreeDeadSlot
  <2>2. s \in Slots /\ World.sock[s].status = "Dead" /\ pc' = "clean"
    BY <1>8, SizesAssumption, WorldFields
       DEF FreeDeadSlot, DeadSlots, Allocated, Slots, IInv, Sound, WorldSet
  <2>3. OwnedOrMarked(FreeSocket(World, s)) /\ FreeSocket(World, s) \in WorldSet
    BY <1>1, <2>2, FreeMarkedEntry, FreeEntry DEF OInv, Sound
  <2>4. World' = FreeSocket(World, s)
    BY <2>1, <2>3, BecomesWorld
  <2> QED
    BY <1>4, <2>2, <2>3, <2>4
<1>9. CASE DropDeadPlayer \/ StartSelect
  <2>1. DeadSlots = {} /\ pc' # "tick"
    BY <1>9 DEF DropDeadPlayer, StartSelect
  <2>2. Owned(World)
    BY <2>1, NoneMarked DEF OInv
  <2> QED
    BY <1>3, <2>1, <2>2
<1>10. CASE EndSelect \/ EndTick
  BY <1>5, <1>10 DEF EndSelect, EndTick, Stands
<1>11. CASE BadDescriptor
  <2>1. World' = CheckedWorld /\ pc' = "tick"
    BY <1>11, BadDescriptorSettles DEF BadDescriptor
  <2>2. CASE pc = "players"
    <3>1. OwnedOrMarked(CheckedWorld)
      BY <2>2, CheckedMarked DEF OInv
    <3> QED
      BY <1>4, <2>1, <3>1
  <2>3. CASE pc = "clean" /\ DeadSlots = {} /\ Closed # {}
    <3>1. PICK n \in Watched : sock[n].fd \notin open
      BY <2>3 DEF Closed
    <3>2. Allocated \subseteq Slots /\ LivePlayers \subseteq Players
      BY <1>1, WorldFields, SizesAssumption DEF Allocated, Slots, Sound, WorldSet, Live
    <3>3. n \in Sockets /\ Holds(World, n)
      BY <1>1, <3>1, <3>2, WorldFields DEF Watched, Sockets, Holds
    <3>4. Owned(World)
      BY <2>3, NoneMarked DEF OInv
    <3> QED
      BY <3>1, <3>3, <3>4, WorldFields DEF Owned
  <2> QED
    BY <1>11, <2>2, <2>3 DEF BadDescriptor
<1>12. CASE \E p \in LivePlayers : SendFails(p)
  <2>1. PICK p \in LivePlayers : SendFails(p)
    BY <1>12
  <2> DEFINE v == [World EXCEPT !.sock[p].status = "Dead"]
  <2>2. p \in Players /\ p \in Sockets
    BY <1>1, WorldFields DEF Sound, WorldSet, Live, Sockets
  <2>3. Sound(v) /\ SameOwners(v, World)
    BY <1>1, <2>2, EditSocket
  <2>4. Becomes(v) /\ pc' = pc
    BY <2>1 DEF SendFails
  <2> HIDE DEF v
  <2>5. CASE pc = "tick"
    BY <1>6, <2>3, <2>4, <2>5 DEF Sound
  <2> QED
    BY <1>7, <2>1, <2>4, <2>5 DEF SendFails
<1>13. CASE \E p \in LivePlayers, ok \in SaveOutcomes : AutoSave(p, ok)
  <2>1. PICK p \in LivePlayers, ok \in SaveOutcomes : AutoSave(p, ok)
    BY <1>13
  <2> DEFINE v == Save(World, p, ok)
  <2>2. Becomes(v) /\ pc = "tick" /\ pc' = pc
    BY <2>1 DEF AutoSave
  <2>3. Sound(v) /\ SameOwners(v, World)
    BY <1>1, SaveSound, SessionsAssumption
  <2> HIDE DEF v
  <2> QED
    BY <1>6, <2>2, <2>3 DEF Sound
<1>14. CASE SweepParties
  <2> DEFINE v == ObsoleteParties(World)
  <2>2. Becomes(v) /\ pc = "tick" /\ pc' = pc
    BY <1>14 DEF SweepParties
  <2>3. Sound(v) /\ SameOwners(v, World)
    BY <1>1, ObsoletePartiesSound, OnlyPartiesOwners
  <2> HIDE DEF v
  <2> QED
    BY <1>6, <2>2, <2>3 DEF Sound
<1>15. ASSUME pc \in {"slots", "players"}, pc' # pc => pc' \in {"slots", "players", "crashed"}
       PROVE  OInv'
  BY <1>7, <1>15
<1>16. CASE VisitPlayers \/ Skip \/ SelectAgain \/ NewConnection \/ \E s \in Slots : SlotCloses(s)
  BY <1>15, <1>16, NamesAssumption
     DEF VisitPlayers, Skip, SelectAgain, NewConnection, SlotCloses, Serving
<1>17. CASE \E n \in Served : SocketCommand(n)
  <2>1. pc \in {"slots", "players"}
    BY <1>17 DEF Served, Serving
  <2>2. ASSUME NEW n, NEW w, Serve(n, w) PROVE pc' \in {pc, "crashed"}
    BY <2>2 DEF Serve
  <2>3. ASSUME Crash PROVE pc' \in {pc, "crashed"}
    BY <2>3 DEF Crash
  <2>4. pc' \in {pc, "crashed"}
    BY <1>17, <2>2, <2>3 DEF SocketCommand, Login_, NewAccount, AddCharacter, PlayCharacter,
                             CreateCharacter, LegacyLogin
  <2> QED
    BY <1>15, <2>1, <2>4
<1>18. CASE \E p \in Served \cap Players : PlayerCommand(p)
  <2>1. pc \in {"slots", "players"}
    BY <1>18 DEF Served, Serving
  <2>2. ASSUME NEW n, NEW w, Serve(n, w) PROVE pc' \in {pc, "crashed"}
    BY <2>2 DEF Serve
  <2>3. ASSUME Crash PROVE pc' \in {pc, "crashed"}
    BY <2>3 DEF Crash
  <2>4. pc' \in {pc, "crashed"}
    BY <1>18, <2>2, <2>3
       DEF PlayerCommand, ReplyName, ReplyPassword, ReplyCreate, ReplyPlayAgain,
           Gain, Delete, LeaveParty, Savebed, ReplyQuit, FormParty, JoinParty,
           SetPassword, ReplyPartyPassword, PlayerCloses
  <2> QED
    BY <1>15, <2>1, <2>4
<1>19. CASE UNCHANGED vars
  <2>1. World' = World /\ pc' = pc
    BY <1>19 DEF World, vars
  <2> QED
    BY <2>1 DEF OInv
<1> QED
  BY <1>8, <1>9, <1>10, <1>11, <1>12, <1>13, <1>14, <1>16, <1>17, <1>18, <1>19 DEF Next, Loop

LEMMA AlwaysOwned ==
  ASSUME LateWritesFail = FALSE
  PROVE  Spec => [](IInv /\ OInv)
<1>1. Init => IInv /\ OInv
  BY InitSound, OwnedIsOwnedOrMarked DEF OInv
<1>2. (IInv /\ OInv) /\ [Next]_vars => (IInv /\ OInv)'
  BY NextSettles, OwnedStep
<1> QED
  BY <1>1, <1>2, PTL DEF Spec

\* As long as the answer to a login does not fail on the entry that was moved,
\* nobody's descriptor is closed behind its back, by an entry that check_all_fds
\* marked neither.
THEOREM OwnersKeepOpen ==
  ASSUME LateWritesFail = FALSE
  PROVE  Spec => []OwnersOpen
<1>1. ASSUME IInv, OInv PROVE OwnersOpen
  <2>1. Allocated \subseteq Slots /\ LivePlayers \subseteq Players
    BY <1>1, WorldFields, SizesAssumption DEF IInv, Sound, WorldSet, Live, Allocated, Slots
  <2>2. ASSUME NEW s \in Allocated, sock[s].status = "Add" PROVE sock[s].fd \in open
    BY <1>1, <2>1, <2>2, WorldFields DEF OInv, OwnedOrMarked, Marked, Holds, Sockets
  <2>3. ASSUME NEW p \in LivePlayers PROVE sock[p].fd \in open
    BY <1>1, <2>1, <2>3, WorldFields, NamesAssumption
       DEF OInv, OwnedOrMarked, Marked, Holds, Sockets
  <2> QED
    BY <2>2, <2>3 DEF OwnersOpen
<1>2. IInv /\ OInv => OwnersOpen
  BY <1>1
<1> QED
  BY <1>2, AlwaysOwned, PTL

\* Under the same condition every open descriptor has one owner: none is leaked
\* and none is closed twice, though do_server gives select() sets with the bits of
\* closed descriptors and check_all_fds then marks entries whose number is anybody's.
THEOREM DescriptorsHaveOneOwner ==
  ASSUME LateWritesFail = FALSE
  PROVE  Spec => []DescriptorsOwned
<1>1. ASSUME IInv, OInv, NEW f \in open
      PROVE  Cardinality(Owners(World, f)) = 1
  <2>1. LivePlayers \subseteq Players
    BY <1>1, WorldFields DEF IInv, Sound, WorldSet, Live
  <2>2. \A n : n \in Owners(World, f)
                 <=> n \in Sockets /\ Holds(World, n) /\ World.sock[n].fd = f
    BY <2>1, WorldFields DEF Owners, Holds, Sockets
  <2>3. PICK n \in Sockets : Holds(World, n) /\ World.sock[n].fd = f
    BY <1>1, WorldFields DEF OInv, OwnedOrMarked
  <2>4. \A m \in Owners(World, f) : m = n
    BY <1>1, <2>2, <2>3, WorldFields DEF OInv, OwnedOrMarked
  <2>5. Owners(World, f) = {n}
    BY <2>2, <2>3, <2>4
  <2> QED
    BY <2>5, FS_Singleton
<1>2. IInv /\ OInv => DescriptorsOwned
  BY <1>1 DEF DescriptorsOwned
<1> QED
  BY <1>2, AlwaysOwned, PTL

\* When player files can be written, whoever is taken off the list of players
\* while playing has been saved, whichever step took it off.
THEOREM LeaversAreSaved ==
  ASSUME SaveOutcomes = {TRUE}
  PROVE  Spec => LeaversSaved
<1>1. IInv /\ [Next]_vars =>
        [\A p \in LivePlayers \ Live(World)' :
            Savable(World, p) => pl[p].name \notin unsaved']_vars
  BY NextSettles DEF Settles
<1> QED
  BY <1>1, AlwaysIInv, PTL DEF Spec, LeaversSaved
=============================================================================
