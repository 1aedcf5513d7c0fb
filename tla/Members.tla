------------------------------- MODULE Members -------------------------------
(***************************************************************************)
(* The players of one room: JOINED and LEFT in cb of handle_room.c and the *)
(* end of file in handle_client.c, by the accesses to players[] and        *)
(* numberOfPlayers between which other threads come in. A player record    *)
(* points at a slot of clients[], and those entries move. Datagrams may be *)
(* late, lost, doubled and out of order, and come when their user has gone *)
(* or the room is empty. Every client is signed in, one callback at a time *)
(* is about each user, and the moves of clients[] are single steps (see    *)
(* ClientTable).                                                           *)
(***************************************************************************)
EXTENDS Integers, FiniteSets, FiniteSetsExt

CONSTANTS
  Users,        (* each with a connection, an app and its datagrams         *)
  MAX_PLAYERS,  (* config.h; maxPlayers comes from the app, unchecked       *)
  NULL,
  Unset         (* a pointer without a value; also: of no user              *)

ASSUME MembersAssumption ==
  /\ MAX_PLAYERS \in Nat \ {0}
  /\ IsFiniteSet(Users) /\ {NULL, Unset} \cap (Users \cup Nat) = {} /\ NULL # Unset

VARIABLES
  clients,          (* clients[], reduced to the user, what is out of use   *)
                    (* included                                             *)
  num_clients,
  players,          (* players[]: records or null                           *)
  numberOfPlayers,
  record,           (* the heap: client, and (history) of whom it is        *)
  handler,          (* where the handler of each user is                    *)
  cb,               (* where the callback for a user's datagram is          *)
  pointer,          (* its local variable client                            *)
  seat,             (* the index at which a loop has found the user: of the *)
                    (* handler, and of the callback                         *)
  sent,             (* datagrams on their way to the room                   *)
  stage,            (* none, listed in rooms[], or dropped from it with its *)
                    (* receiver still there                                 *)
  inside,           (* users whose app is in the room                       *)
  told,             (* history: connected users whose JOINED has been taken, *)
                    (* and since then no LEFT, nor their end of file        *)
  strayed,          (* history: a datagram was lost, doubled, out of order, *)
                    (* or late for its app or for the room                  *)
  stranger,         (* history: a JOINED came from no entry of clients[]    *)
  fault,            (* none, or why the process has died                    *)
  overlapped,       (* history: two threads were at work on players[]       *)
  shifted           (* history: an entry left clients[] and moved a player's *)

table == <<clients, num_clients>>
room  == <<players, numberOfPlayers, record>>
work  == <<handler, cb, pointer, seat>>
mail  == <<sent, stage, inside, told, strayed, stranger>>
vars  == <<table, room, work, mail, fault, overlapped, shifted>>

Slots == 0 .. Cardinality(Users) - 1
Seats == 0 .. MAX_PLAYERS - 1
Records == 0 .. MAX_PLAYERS

Init ==
  /\ clients = [i \in Slots |-> Unset] /\ num_clients = 0
  /\ players = [i \in Seats |-> NULL] /\ numberOfPlayers = 0
  /\ record = [r \in Records |-> [client |-> Unset, of |-> Unset]]
  /\ handler = [u \in Users |-> "off"]
  /\ cb = [u \in Users |-> "none"]
  /\ pointer = [u \in Users |-> Unset]
  /\ seat = [u \in Users |-> [handler |-> 0, cb |-> 0]]
  /\ sent = {} /\ stage = "none"
  /\ inside = {} /\ told = {}
  /\ strayed = FALSE /\ stranger = FALSE
  /\ fault = "none"
  /\ overlapped = FALSE
  /\ shifted = FALSE

Dies(why) ==
  /\ fault' = why
  /\ UNCHANGED <<table, room, work, mail, overlapped, shifted>>

Taken == {i \in Seats : i < numberOfPlayers}
Listed == {i \in Slots : i < num_clients}

(* A record malloc() may return: one that nothing points to. *)
Fresh == Min({r \in Records : \A i \in Seats : players[i] # r})

(* The slot whose entry has the name of u: the first, as find_client_by_-   *)
(* socket() has it, is the last, as cb has it, for a user is listed once.   *)
SlotsOf(u) == {i \in Listed : clients[i] = u}

(* players[i]->client->username *)
Dangling(i) ==
  players[i] \notin {r \in Records : record[r].client \notin {NULL, Unset}}
Called(i, u) == ~Dangling(i) /\ clients[record[players[i]].client] = u

(* A loop over the players from seat k finds u at i, ends, or dies. *)
Finds(k, u, i) == /\ i \in Taken /\ i >= k /\ Called(i, u)
                  /\ \A j \in k .. i - 1 : ~Dangling(j) /\ ~Called(j, u)
FindsNone(k, u) == \A i \in Taken : i >= k => ~Dangling(i) /\ ~Called(i, u)
Stumbles(k, u) == \E i \in Taken : /\ i >= k /\ Dangling(i)
                                   /\ \A j \in k .. i - 1 : ~Called(j, u)

(* Mutant of Without: the last player stays where it was.                   *)
WithoutButOne(ps, k) ==
  [i \in Seats |-> IF i >= k /\ i < numberOfPlayers - 2 THEN ps[i + 1] ELSE ps[i]]

(* The players behind seat k move up; the last seat keeps its pointer.      *)
Without(ps, k) ==
  [i \in Seats |-> IF i >= k /\ i < numberOfPlayers - 1 THEN ps[i + 1] ELSE ps[i]]

Busy == {u \in Users : cb[u] # "none" \/ handler[u] \in {"found", "clearing", "leaving"}}

(* Who holds the mutex of the room for more than a step. *)
Clearing == {u \in Users : cb[u] = "clearing" \/ handler[u] = "clearing"}

Overlaps == overlapped' = (overlapped \/ Busy # {})

(* A thread that has just begun to read players[] dies of it. *)
DiesAtOnce ==
  /\ fault' = "null"
  /\ Overlaps
  /\ UNCHANGED <<table, room, work, mail, shifted>>

-----------------------------------------------------------------------------
(* A user connects and signs in; opens the room. *)
Connect(u) ==
  /\ handler[u] = "off"
  /\ clients' = [clients EXCEPT ![num_clients] = u]
  /\ num_clients' = num_clients + 1
  /\ handler' = [handler EXCEPT ![u] = "on"]
  /\ UNCHANGED <<room, cb, pointer, seat, mail, fault, overlapped, shifted>>

OpenRoom(u) ==
  /\ handler[u] = "on" /\ stage = "none"
  /\ players' = [players EXCEPT ![0] = Fresh]
  /\ record' = [record EXCEPT ![Fresh] = [client |-> Min(SlotsOf(u)), of |-> u]]
  /\ numberOfPlayers' = 1
  /\ stage' = "listed"
  /\ inside' = {u} /\ told' = {u}
  /\ Overlaps
  /\ UNCHANGED <<table, work, sent, strayed, stranger, fault, shifted>>

(* The room thread sees the room empty: close_room, and the receiver ends.  *)
RoomEnds ==
  /\ stage # "none" /\ numberOfPlayers = 0
  /\ stage' = "none"
  /\ sent' = {} /\ told' = {}
  /\ strayed' = (strayed \/ inside # {} \/ \E v \in Users : cb[v] \in {"found", "set"})
  /\ UNCHANGED <<table, room, work, inside, stranger, fault, overlapped, shifted>>

-----------------------------------------------------------------------------
(* The app of a user enters the room or leaves it, and says so; whoever has *)
(* a datagram on its way meanwhile cannot tell which will come first.       *)
OnItsWay(u) == \E what \in {"JOINED", "LEFT"} : <<what, u>> \in sent
MovesOn(u) == strayed' = (strayed \/ OnItsWay(u))

AppJoins(u) ==
  /\ handler[u] = "on" /\ u \notin inside /\ stage = "listed"
  /\ inside' = inside \cup {u}
  /\ sent' = sent \cup {<<"JOINED", u>>}
  /\ MovesOn(u)
  /\ UNCHANGED <<table, room, work, stage, told, stranger, fault, overlapped, shifted>>

AppLeaves(u) ==
  /\ handler[u] = "on" /\ u \in inside
  /\ inside' = inside \ {u}
  /\ sent' = IF stage = "none" THEN sent ELSE sent \cup {<<"LEFT", u>>}
  /\ MovesOn(u)
  /\ UNCHANGED <<table, room, work, stage, told, stranger, fault, overlapped, shifted>>

Lose(u, what) ==
  /\ <<what, u>> \in sent
  /\ sent' = sent \ {<<what, u>>}
  /\ strayed' = TRUE
  /\ UNCHANGED <<table, room, work, stage, inside, told, stranger, fault, overlapped,
                 shifted>>

(* A datagram arrives, and may arrive again. *)
Arrives(u, what) ==
  /\ stage # "none" /\ <<what, u>> \in sent
  /\ sent' \in {sent, sent \ {<<what, u>>}}

-----------------------------------------------------------------------------
(* cb, JOINED: a record is put behind the last player, the client found. If *)
(* none has the name the pointer keeps what was in its place.               *)
JoinBegins(u) ==
  /\ cb[u] = "none" /\ Clearing = {}
  /\ Arrives(u, "JOINED")
  /\ numberOfPlayers \in Seats
  /\ players' = [players EXCEPT ![numberOfPlayers] = Fresh]
  /\ record' = [record EXCEPT ![Fresh] = [client |-> Unset, of |-> Unset]]
  /\ \E p \in IF SlotsOf(u) # {} THEN {Min(SlotsOf(u))} ELSE Slots \cup {Unset} :
       pointer' = [pointer EXCEPT ![u] = p]
  /\ cb' = [cb EXCEPT ![u] = "found"]
  /\ told' = IF handler[u] = "on" THEN told \cup {u} ELSE told
  /\ strayed' = (strayed \/ <<"JOINED", u>> \in sent' \/ stage # "listed")
  /\ stranger' = (stranger \/ SlotsOf(u) = {})
  /\ Overlaps
  /\ UNCHANGED <<table, numberOfPlayers, handler, seat, stage, inside, fault, shifted>>

(* Its fields are set; numberOfPlayers is read again. *)
JoinSets(u) ==
  /\ cb[u] = "found"
  /\ numberOfPlayers \in Seats /\ players[numberOfPlayers] # NULL
  /\ record' = [record EXCEPT ![players[numberOfPlayers]] =
                               [client |-> pointer[u], of |-> u]]
  /\ cb' = [cb EXCEPT ![u] = "set"]
  /\ UNCHANGED <<table, players, numberOfPlayers, handler, pointer, seat, mail,
                 fault, overlapped, shifted>>

(* The player counts, and the last one gets a status. *)
JoinCounts(u) ==
  /\ cb[u] = "set" /\ Clearing = {}
  /\ numberOfPlayers \in Seats /\ players[numberOfPlayers] # NULL
  /\ numberOfPlayers' = numberOfPlayers + 1
  /\ cb' = [cb EXCEPT ![u] = "none"]
  /\ pointer' = [pointer EXCEPT ![u] = Unset]
  /\ UNCHANGED <<table, players, record, handler, seat, mail, fault, overlapped,
                 shifted>>

(* No seat left, or another callback has moved the count to an empty one.   *)
JoinFaults(u) ==
  \/ /\ cb[u] = "none" /\ Clearing = {} /\ stage # "none" /\ <<"JOINED", u>> \in sent
     /\ numberOfPlayers = MAX_PLAYERS /\ Dies("bounds")
  \/ /\ cb[u] = "found" \/ (cb[u] = "set" /\ Clearing = {})
     /\ \/ numberOfPlayers = MAX_PLAYERS /\ Dies("bounds")
        \/ /\ numberOfPlayers \in Seats /\ players[numberOfPlayers] = NULL
           /\ Dies("null")

-----------------------------------------------------------------------------
(* cb, LEFT: a loop over the players; an empty room is closed behind it.    *)
LeftLoop(u, k) ==
  \/ \E i \in Seats : /\ Finds(k, u, i)
                      /\ cb' = [cb EXCEPT ![u] = "leaving"]
                      /\ seat' = [seat EXCEPT ![u].cb = i]
                      /\ UNCHANGED stage
  \/ /\ FindsNone(k, u)
     /\ cb' = [cb EXCEPT ![u] = "none"]
     /\ seat' = [seat EXCEPT ![u].cb = 0]
     /\ stage' = IF numberOfPlayers = 0 /\ stage = "listed" THEN "dropped" ELSE stage

LeftBegins(u) ==
  /\ cb[u] = "none"
  /\ Arrives(u, "LEFT")
  /\ told' = told \ {u}
  /\ strayed' = (strayed \/ <<"LEFT", u>> \in sent')
  /\ LeftLoop(u, 0)
  /\ Overlaps
  /\ UNCHANGED <<table, room, handler, pointer, inside, stranger, fault, shifted>>

(* The player goes, in one critical section but for those who only read:    *)
(* players[i] is null, then                                                 *)
LeftClears(u) ==
  /\ cb[u] = "leaving" /\ Clearing = {}
  /\ players' = [players EXCEPT ![seat[u].cb] = NULL]
  /\ cb' = [cb EXCEPT ![u] = "clearing"]
  /\ UNCHANGED <<table, numberOfPlayers, record, handler, pointer, seat, mail,
                 fault, overlapped, shifted>>

(* Mutant of LeftRemoves: the players behind do not move up.                *)
LeftRemovesLast(u) ==
  /\ cb[u] = "clearing" /\ numberOfPlayers > 0
  /\ numberOfPlayers' = numberOfPlayers - 1
  /\ cb' = [cb EXCEPT ![u] = "looking"]
  /\ UNCHANGED <<table, players, record, handler, pointer, seat, mail, fault,
                 overlapped, shifted>>

(* the others move up. The loop goes on behind it.                          *)
LeftRemoves(u) ==
  /\ cb[u] = "clearing" /\ numberOfPlayers > 0
  /\ players' = Without(players, seat[u].cb)
  /\ numberOfPlayers' = numberOfPlayers - 1
  /\ cb' = [cb EXCEPT ![u] = "looking"]
  /\ UNCHANGED <<table, record, handler, pointer, seat, mail, fault, overlapped,
                 shifted>>

LeftGoesOn(u) ==
  /\ cb[u] = "looking"
  /\ LeftLoop(u, seat[u].cb + 1)
  /\ UNCHANGED <<table, room, handler, pointer, sent, inside, told, strayed, stranger,
                 fault, overlapped, shifted>>

(* A record without a client is read; or the last player goes twice, and    *)
(* the unsigned number of players wraps around.                             *)
LeftFaults(u) ==
  \/ /\ cb[u] = "none" /\ stage # "none" /\ <<"LEFT", u>> \in sent
     /\ Stumbles(0, u) /\ DiesAtOnce
  \/ cb[u] = "looking" /\ Stumbles(seat[u].cb + 1, u) /\ Dies("null")
  \/ /\ cb[u] = "clearing" /\ numberOfPlayers = 0 /\ Dies("bounds")

-----------------------------------------------------------------------------
(* handle_client, end of file: if the room is listed, LEFT is sent for the  *)
(* first player of that name and it is removed, then the entry of clients[]. *)
QuitBegins(u) ==
  /\ handler[u] = "on"
  /\ inside' = inside \ {u} /\ told' = told \ {u}
  /\ \/ \E k \in Seats : /\ stage = "listed" /\ Finds(0, u, k)
                         /\ handler' = [handler EXCEPT ![u] = "found"]
                         /\ seat' = [seat EXCEPT ![u].handler = k]
                         /\ sent' = sent \cup {<<"LEFT", u>>}
     \/ /\ stage # "listed" \/ FindsNone(0, u)
        /\ handler' = [handler EXCEPT ![u] = "leaving"]
        /\ UNCHANGED <<seat, sent>>
  /\ MovesOn(u)
  /\ Overlaps
  /\ UNCHANGED <<table, room, cb, pointer, stage, stranger, fault, shifted>>

(* Here the client of the record is null first. *)
QuitClears(u) ==
  LET k == seat[u].handler IN
  /\ handler[u] = "found" /\ Clearing = {} /\ players[k] # NULL
  /\ record' = [record EXCEPT ![players[k]].client = NULL]
  /\ handler' = [handler EXCEPT ![u] = "clearing"]
  /\ UNCHANGED <<table, players, numberOfPlayers, cb, pointer, seat, mail, fault,
                 overlapped, shifted>>

(* Mutant of QuitRemoves: the players behind do not move up.                *)
QuitRemovesLast(u) ==
  /\ handler[u] = "clearing" /\ numberOfPlayers > 0
  /\ numberOfPlayers' = numberOfPlayers - 1
  /\ handler' = [handler EXCEPT ![u] = "leaving"]
  /\ seat' = [seat EXCEPT ![u].handler = 0]
  /\ UNCHANGED <<table, players, record, cb, pointer, mail, fault, overlapped,
                 shifted>>

QuitRemoves(u) ==
  /\ handler[u] = "clearing" /\ numberOfPlayers > 0
  /\ players' = Without(players, seat[u].handler)
  /\ numberOfPlayers' = numberOfPlayers - 1
  /\ handler' = [handler EXCEPT ![u] = "leaving"]
  /\ seat' = [seat EXCEPT ![u].handler = 0]
  /\ UNCHANGED <<table, record, cb, pointer, mail, fault, overlapped, shifted>>

QuitFaults(u) ==
  \/ handler[u] = "on" /\ stage = "listed" /\ Stumbles(0, u) /\ DiesAtOnce
  \/ /\ handler[u] = "found" /\ Clearing = {} /\ players[seat[u].handler] = NULL
     /\ Dies("null")
  \/ handler[u] = "clearing" /\ numberOfPlayers = 0 /\ Dies("bounds")

(* Mutant of Unlist: the count stays.                                       *)
UnlistUncounted(u) ==
  /\ handler[u] = "leaving"
  /\ handler' = [handler EXCEPT ![u] = "off"]
  /\ UNCHANGED <<table, room, cb, pointer, seat, mail, fault, overlapped, shifted>>

(* The entries behind it move up, under the pointers of the players.        *)
Unlist(u) ==
  /\ handler[u] = "leaving"
  /\ LET gone == Min(SlotsOf(u)) IN
     /\ clients' = [i \in Slots |-> IF i >= gone /\ i < num_clients - 1
                                      THEN clients[i + 1] ELSE clients[i]]
     /\ shifted' = (shifted \/ \E i \in Taken : \/ Dangling(i)
                                                \/ record[players[i]].client >= gone)
     /\ overlapped' = (overlapped \/ \E v \in Users : cb[v] # "none")
  /\ num_clients' = num_clients - 1
  /\ handler' = [handler EXCEPT ![u] = "off"]
  /\ UNCHANGED <<room, cb, pointer, seat, mail, fault>>

-----------------------------------------------------------------------------
(* LIST_ROOMS and JOIN_ROOM answer with the players of a room in rooms[],   *)
(* which they read without a lock; the first passes over a null record,     *)
(* neither over a null client. Where all is sound they change nothing.      *)
ListFaults(u) ==
  /\ handler[u] = "on" /\ stage = "listed"
  /\ \E i \in Taken : Dangling(i)
  /\ DiesAtOnce

-----------------------------------------------------------------------------
App(u) == \/ Connect(u) \/ OpenRoom(u) \/ AppJoins(u) \/ AppLeaves(u)
          \/ QuitBegins(u) \/ ListFaults(u)

Network(u) == \/ JoinBegins(u) \/ LeftBegins(u)
              \/ \E what \in {"JOINED", "LEFT"} : Lose(u, what)

Threads(u) == \/ JoinSets(u) \/ JoinCounts(u) \/ JoinFaults(u)
              \/ LeftClears(u) \/ LeftRemoves(u) \/ LeftGoesOn(u) \/ LeftFaults(u)
              \/ QuitClears(u) \/ QuitRemoves(u) \/ QuitFaults(u) \/ Unlist(u)

(* A process that has died takes no step. *)
Dead == fault # "none" /\ UNCHANGED vars

Next == \/ /\ fault = "none"
           /\ RoomEnds \/ \E u \in Users : App(u) \/ Network(u) \/ Threads(u)
        \/ Dead

Spec == Init /\ [][Next]_vars

(* The behaviours in which what overlaps, or what a stranger has begun,     *)
(* comes to its end, and nothing is begun after that (bounds a run).        *)
SettlingNext ==
  \/ /\ fault = "none"
     /\ \/ \E u \in Users : Threads(u)
        \/ /\ ~(overlapped \/ stranger)
           /\ RoomEnds \/ \E u \in Users : App(u) \/ Network(u)
  \/ Dead
SettlingSpec == Init /\ [][SettlingNext]_vars

(* One datagram or disconnection is handled after the other, in order and   *)
(* from clients that are there.                                             *)
OneByOneSpec == Init /\ [][Next /\ ~(overlapped \/ strayed \/ stranger)']_vars

-----------------------------------------------------------------------------
(* Every variable keeps its type; no index leaves players[] but by a fault. *)
TypeOK ==
  /\ clients \in [Slots -> Users \cup {Unset}]
  /\ num_clients \in 0 .. Cardinality(Users)
  /\ players \in [Seats -> Records \cup {NULL}]
  /\ numberOfPlayers \in 0 .. MAX_PLAYERS
  /\ record \in [Records -> [client : Slots \cup {NULL, Unset},
                             of : Users \cup {Unset}]]
  /\ handler \in [Users -> {"off", "on", "found", "clearing", "leaving"}]
  /\ cb \in [Users -> {"none", "found", "set", "leaving", "clearing", "looking"}]
  /\ pointer \in [Users -> Slots \cup {Unset}]
  /\ seat \in [Users -> [handler : Seats, cb : Seats]]
  /\ sent \subseteq {"JOINED", "LEFT"} \X Users
  /\ stage \in {"none", "listed", "dropped"}
  /\ inside \subseteq Users /\ told \subseteq Users
  /\ strayed \in BOOLEAN /\ stranger \in BOOLEAN
  /\ fault \in {"none", "null", "bounds"}
  /\ overlapped \in BOOLEAN
  /\ shifted \in BOOLEAN

(* The seat of a player that is being removed. *)
Cleared == {seat[u].cb : u \in {v \in Users : cb[v] = "clearing"}}
             \cup {seat[u].handler : u \in {v \in Users : handler[v] = "clearing"}}

(* Datagrams and disconnections handled one after the other leave every     *)
(* player a record of its own with a client, and LIST_ROOMS and JOIN_ROOM   *)
(* may read them in between; none is shared or half-filled, though entries  *)
(* of clients[] move, datagrams are lost, doubled and out of order, and the *)
(* wrong player may go. A JOINED whose user is in no entry of clients[] is  *)
(* excluded: its record gets a pointer without a value.                     *)
RecordsSoundAlone ==
  ~(overlapped \/ stranger) =>
    /\ fault # "null"
    /\ \A i \in Taken \ Cleared :
         ~Dangling(i) /\ \A j \in Taken : players[i] = players[j] => i = j

(* What the claims below exclude. *)
disturbed == overlapped \/ shifted \/ strayed \/ stranger

(* If besides no entry of clients[] moves under a player, and each datagram *)
(* comes once, to a room that is listed and before its app moves on, the    *)
(* room has the players whose apps are in it, each under its own name, but  *)
(* for those whose JOINED or LEFT is on its way or being handled.           *)
PlayersAreInside ==
  ~disturbed =>
    LET between == Busy \cup {u \in Users : OnItsWay(u)}
        named   == {record[players[i]].of : i \in Taken \ Cleared} IN
    /\ \A i \in Taken \ Cleared : Called(i, record[players[i]].of)
    /\ named \subseteq inside \cup between
    /\ inside \ between \subseteq named

(* handle_client.c:36: a client that has disconnected is referred to by no  *)
(* room any more.                                                           *)
DepartedNotPlayer ==
  \A i \in Taken : ~Dangling(i) => handler[record[players[i]].of] # "off"

-----------------------------------------------------------------------------
(* What is promised of the players of a room is what is promised of the     *)
(* clients: a set, entered and left one by one.                             *)
Shown == IF disturbed THEN {}
           ELSE {clients[record[players[i]].client] : i \in {j \in Taken : ~Dangling(j)}}
Quitting == {u \in Users : cb[u] = "leaving" \/ handler[u] = "found"}

Set == INSTANCE Connections WITH
         Sockets <- Users, Capacity <- MAX_PLAYERS, listed <- Shown,
         gone <- Quitting \cap Shown, void <- disturbed

(* Undisturbed, callbacks and handlers implement a set of players.          *)
ImplementsSet == Set!Spec
=============================================================================
