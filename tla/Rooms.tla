-------------------------------- MODULE Rooms --------------------------------
(***************************************************************************)
(* The registry rooms[]: NEW_ROOM, JOIN_ROOM and the end of file of        *)
(* handle_client.c, and of handle_room.c the thread of a room, close_room  *)
(* and what cb does to the registry. Critical sections of rooms_mutex are  *)
(* single steps; between them, and between the look of a room thread at    *)
(* the players and its close_room, others come in. Game and Members say    *)
(* more of what happens in one room.                                       *)
(***************************************************************************)
EXTENDS Integers, FiniteSets

CONSTANTS
  Users,       (* clients, each with its handler thread                     *)
  Anonymous,   (* those of them that are not signed in                      *)
  RoomThreads, (* handle_room threads ever created (bounds a run)           *)
  MAX_ROOMS,   (* config.h                                                  *)
  maxPlayers,  (* of every room                                             *)
  InFlight,    (* datagrams on their way at once (bounds a run)             *)
  NULL

ASSUME RoomsAssumption ==
  /\ MAX_ROOMS \in Nat \ {0} /\ maxPlayers \in Nat /\ InFlight \in Nat
  /\ NULL \notin Users

VARIABLES
  rooms,     (* rooms[]: whose buffer address points to, and the players    *)
  num_rooms,
  room,      (* the global of handle_room.c: an index of rooms[]            *)
  buffer,    (* char address[16] on each handler's stack: the last number,  *)
             (* or 0 for any other content                                  *)
  pc,        (* where each handler is                                       *)
  rpc,       (* where each room thread is                                   *)
  arg,       (* the slot a room thread was created for                      *)
  group,     (* the multicast group its receiver has joined, 0 if none      *)
  net,       (* JOINED and LEFT datagrams on their way                      *)
  inside,    (* the room each app believes it is in, 0 if none              *)
  fault,     (* none, or why the process has died: null or bounds           *)
  crowded,   (* history: two JOINED were on their way at once               *)
  disturbed  (* history: a step met another room, or half-done work, or     *)
             (* close_room ran for a round whose thread was not created     *)

registry == <<rooms, num_rooms>>
threads  == <<room, rpc, arg, group>>
apps     == <<net, inside>>
vars == <<registry, buffer, pc, threads, apps, fault, crowded, disturbed>>

Slots == 0 .. MAX_ROOMS - 1
Listed == {i \in Slots : i < num_rooms}

(* What rooms[i].address reads as. *)
Address(i) == IF rooms[i].address = NULL THEN 0 ELSE buffer[rooms[i].address]

Running == {r \in RoomThreads : rpc[r] \in {"created", "waiting", "emptied"}}
Unborn == {r \in RoomThreads : rpc[r] = "unborn"}
Opening == {u \in Users : pc[u] \in {"filled", "started"}}

Init ==
  /\ rooms = [i \in Slots |-> [address |-> NULL, players |-> {}]]
  /\ num_rooms = 0
  /\ room = 0
  /\ buffer = [u \in Users |-> 0]
  /\ pc = [u \in Users |-> "idle"]
  /\ rpc = [r \in RoomThreads |-> "unborn"]
  /\ arg = [r \in RoomThreads |-> 0]
  /\ group = [r \in RoomThreads |-> 0]
  /\ net = {}
  /\ inside = [u \in Users |-> 0]
  /\ fault = "none"
  /\ crowded = FALSE
  /\ disturbed = FALSE

Dies(why) ==
  /\ fault' = why
  /\ UNCHANGED <<registry, buffer, pc, threads, apps, crowded, disturbed>>

-----------------------------------------------------------------------------
(* NEW_ROOM, handled by the thread of u. A user who is not signed in gets   *)
(* an error message, and the room all the same.                             *)

(* First critical section: the slot behind the last room is filled. *)
FillRoom(u) ==
  /\ pc[u] = "idle" /\ inside[u] = 0
  /\ num_rooms < MAX_ROOMS
  /\ buffer' = [buffer EXCEPT ![u] = num_rooms + 1]
  /\ rooms' = [rooms EXCEPT ![num_rooms] = [address |-> u, players |-> {u}]]
  /\ pc' = [pc EXCEPT ![u] = "filled"]
  /\ disturbed' = (disturbed \/ Running \cup Opening # {} \/ net # {})
  /\ UNCHANGED <<num_rooms, threads, apps, fault, crowded>>

(* The number of rooms is not compared with MAX_ROOMS. *)
FillRoomOutside(u) ==
  /\ pc[u] = "idle" /\ inside[u] = 0
  /\ num_rooms >= MAX_ROOMS
  /\ Dies("bounds")

(* pthread_create() with the slot num_rooms says by now, or its failure. *)
CreateThread(u) ==
  /\ pc[u] = "filled"
  /\ \/ /\ Unborn # {}
        /\ LET r == CHOOSE x \in Unborn : TRUE
           IN  rpc' = [rpc EXCEPT ![r] = "created"] /\ arg' = [arg EXCEPT ![r] = num_rooms]
        /\ pc' = [pc EXCEPT ![u] = "started"]
     \/ /\ pc' = [pc EXCEPT ![u] = "idle"]
        /\ UNCHANGED <<rpc, arg>>
  /\ UNCHANGED <<registry, buffer, room, group, apps, fault, crowded, disturbed>>

(* Second critical section, and the address for the app. *)
CountRoom(u) ==
  /\ pc[u] = "started"
  /\ num_rooms' = num_rooms + 1
  /\ pc' = [pc EXCEPT ![u] = "idle"]
  /\ inside' = [inside EXCEPT ![u] = buffer[u]]
  /\ UNCHANGED <<rooms, buffer, threads, net, fault, crowded, disturbed>>

-----------------------------------------------------------------------------
(* JOIN_ROOM and the end of a handler. *)

Joined(u, a) == [what |-> "JOINED", user |-> u, address |-> a]
Left(u, a)   == [what |-> "LEFT", user |-> u, address |-> a]

Coming == {m \in net : m.what = "JOINED"}

(* Mutant of Full: off by one. *)
OneTooMany(i) == Cardinality(rooms[i].players) = maxPlayers + 1

Full(i) == Cardinality(rooms[i].players) = maxPlayers

(* The first room with the address is shown to the app unless it is full;   *)
(* only the JOINED the app then sends makes the user a player.              *)
JoinRoom(u, i) ==
  /\ pc[u] = "idle" /\ inside[u] = 0 /\ u \notin Anonymous
  /\ i \in Listed
  /\ Address(i) # 0 /\ \A j \in 0 .. i - 1 : Address(j) # Address(i)
  /\ ~Full(i)
  /\ Cardinality(net) < InFlight
  /\ net' = net \cup {Joined(u, Address(i))}
  /\ inside' = [inside EXCEPT ![u] = Address(i)]
  /\ crowded' = (crowded \/ Coming # {})
  /\ disturbed' = (disturbed \/ \E m \in net : m.user = u)
  /\ UNCHANGED <<registry, buffer, pc, threads, fault>>

(* strcmp() with the address of a listed room that was never filled.        *)
JoinRoomFaults(u) ==
  /\ pc[u] = "idle" /\ u \notin Anonymous
  /\ \E i \in Listed : rooms[i].address = NULL
  /\ Dies("null")

(* At end of file the player is removed from every listed room, unless it   *)
(* is called Anonymous; the stack of the thread may be used for another.    *)
Disconnect(u) ==
  /\ pc[u] = "idle"
  /\ pc' = [pc EXCEPT ![u] = "gone"]
  /\ rooms' = [i \in Slots |-> IF i \in Listed /\ u \notin Anonymous
                                 THEN [rooms[i] EXCEPT !.players = @ \ {u}]
                                 ELSE rooms[i]]
  /\ buffer' \in {buffer, [buffer EXCEPT ![u] = 0]}
  /\ inside' = [inside EXCEPT ![u] = 0]
  /\ disturbed' = (disturbed \/ \E i \in Listed : rooms[i].address = u)
  /\ UNCHANGED <<num_rooms, threads, net, fault, crowded>>

(* The user connects again; the new handler may get the stack of the old.   *)
Reconnect(u) ==
  /\ pc[u] = "gone"
  /\ pc' = [pc EXCEPT ![u] = "idle"]
  /\ UNCHANGED <<registry, buffer, threads, apps, fault, crowded, disturbed>>

-----------------------------------------------------------------------------
(* handle_room, thread r, and close_room. *)

(* The global is set and the receiver joins the group of the address.       *)
RoomStarts(r) ==
  /\ rpc[r] = "created"
  /\ arg[r] \in Slots /\ rooms[arg[r]].address # NULL
  /\ room' = arg[r]
  /\ group' \in {[group EXCEPT ![r] = a] : a \in {0, Address(arg[r])}}
  /\ rpc' = [rpc EXCEPT ![r] = "waiting"]
  /\ disturbed' = (disturbed \/ group'[r] = 0)
  /\ UNCHANGED <<registry, buffer, pc, arg, apps, fault, crowded>>

(* A slot beyond the array, or inet_addr() of an address never set. *)
RoomStartFaults(r) ==
  /\ rpc[r] = "created"
  /\ \/ arg[r] \notin Slots /\ Dies("bounds")
     \/ /\ arg[r] \in Slots /\ rooms[arg[r]].address = NULL
        /\ Dies("null")

(* Mutant of SeeEmpty: the room of a single player counts as empty.         *)
SeeAlmostEmpty(r) ==
  /\ rpc[r] = "waiting"
  /\ Cardinality(rooms[room].players) <= 1
  /\ rpc' = [rpc EXCEPT ![r] = "emptied"]
  /\ UNCHANGED <<registry, buffer, pc, room, arg, group, apps, fault, crowded,
                 disturbed>>

(* Once a second the thread looks for players in the room of the global. *)
SeeEmpty(r) ==
  /\ rpc[r] = "waiting"
  /\ rooms[room].players = {}
  /\ rpc' = [rpc EXCEPT ![r] = "emptied"]
  /\ UNCHANGED <<registry, buffer, pc, room, arg, group, apps, fault, crowded,
                 disturbed>>

(* Mutants of CloseRoom: what is already closed is closed again; the room   *)
(* stays in the list.                                                       *)
CloseTwice(rs) == num_rooms' = num_rooms - 1 /\ rooms' = rs
CloseNothing(rs) == UNCHANGED num_rooms /\ rooms' = rs

(* close_room: the room of the global leaves the list, if it is in it; rs   *)
(* are the rooms as the caller has left them.                               *)
CloseRoom(rs) ==
  \/ /\ room < num_rooms
     /\ rooms' = [i \in Slots |-> IF i >= room /\ i + 1 \in Listed
                                    THEN rs[i + 1] ELSE rs[i]]
     /\ num_rooms' = num_rooms - 1
  \/ /\ room >= num_rooms
     /\ rooms' = rs
     /\ UNCHANGED num_rooms

(* Mutant of RoomCloses: the thread leaves without close_room().            *)
RoomEnds(r) ==
  /\ rpc[r] = "emptied" /\ group[r] # 0
  /\ rpc' = [rpc EXCEPT ![r] = "done"]
  /\ group' = [group EXCEPT ![r] = 0]
  /\ UNCHANGED <<registry, buffer, pc, room, arg, apps, fault, crowded, disturbed>>

(* After its loop the thread closes the room and ends its receiver. *)
RoomCloses(r) ==
  /\ rpc[r] = "emptied" /\ group[r] # 0
  /\ CloseRoom(rooms)
  /\ rpc' = [rpc EXCEPT ![r] = "done"]
  /\ group' = [group EXCEPT ![r] = 0]
  /\ disturbed' = (disturbed \/ Coming # {})
  /\ UNCHANGED <<buffer, pc, room, arg, apps, fault, crowded>>

(* mc_receiver_uinit() of the null a failing mc_receiver_init() returned. *)
RoomCloseFaults(r) ==
  /\ rpc[r] = "emptied" /\ group[r] = 0
  /\ Dies("null")

-----------------------------------------------------------------------------
(* cb, for a datagram that reaches a receiver of this process. *)
Heard(m) == \E r \in RoomThreads : group[r] = m.address

CbJoined(m) ==
  /\ m.what = "JOINED" /\ Heard(m)
  /\ net' = net \ {m}
  /\ rooms' = [rooms EXCEPT ![room].players = @ \cup {m.user}]
  /\ disturbed' = (disturbed \/ room \notin Listed \/ m.user \in rooms[room].players
                     \/ pc[m.user] = "gone" \/ \E r \in RoomThreads : rpc[r] = "emptied")
  /\ UNCHANGED <<num_rooms, buffer, pc, threads, inside, fault, crowded>>

CbLeft(m) ==
  /\ m.what = "LEFT" /\ Heard(m)
  /\ net' = net \ {m}
  /\ LET left == rooms[room].players \ {m.user}
         rs == [rooms EXCEPT ![room].players = left]
     IN  /\ IF left = {} THEN CloseRoom(rs) ELSE rooms' = rs /\ UNCHANGED num_rooms
         /\ disturbed' = (disturbed \/ Opening # {} \/ (left = {} /\ Coming # {})
                            \/ m.user \notin rooms[room].players)
  /\ UNCHANGED <<buffer, pc, threads, inside, fault, crowded>>

(* WORD_CHOSEN, heard by the receiver of r: the round gets its thread and   *)
(* the registry stays as it is, or pthread_create() fails and cb closes the *)
(* room of the global over its players.                                     *)
WordFails(r) ==
  /\ group[r] # 0
  /\ CloseRoom(rooms)
  /\ disturbed' = TRUE
  /\ UNCHANGED <<buffer, pc, threads, apps, fault, crowded>>

(* The app of a player leaves its room. *)
Leave(u) ==
  /\ pc[u] = "idle" /\ inside[u] # 0
  /\ Cardinality(net) < InFlight
  /\ net' = net \cup {Left(u, inside[u])}
  /\ inside' = [inside EXCEPT ![u] = 0]
  /\ UNCHANGED <<registry, buffer, pc, threads, fault, crowded, disturbed>>

(* A datagram is lost. *)
Lost(m) ==
  /\ net' = net \ {m}
  /\ disturbed' = (disturbed \/ m.what = "JOINED")
  /\ UNCHANGED <<registry, buffer, pc, threads, inside, fault, crowded>>

(* What apps do: requests, datagrams, connections. *)
App(u) == \/ FillRoom(u) \/ FillRoomOutside(u)
          \/ \E i \in Slots : JoinRoom(u, i)
          \/ JoinRoomFaults(u)
          \/ Disconnect(u) \/ Reconnect(u) \/ Leave(u)

Apps == \/ \E u \in Users : App(u)
        \/ \E r \in RoomThreads : WordFails(r)

Handler(u) == CreateThread(u) \/ CountRoom(u)

RoomThread(r) == \/ RoomStarts(r) \/ RoomStartFaults(r)
                 \/ SeeEmpty(r) \/ RoomCloses(r) \/ RoomCloseFaults(r)

Network == \E m \in net : CbJoined(m) \/ CbLeft(m) \/ Lost(m)

Server == \/ \E u \in Users : Handler(u)
          \/ \E r \in RoomThreads : RoomThread(r)
          \/ Network

Alive == fault = "none"

(* A process that has died takes no step. *)
Dead == ~Alive /\ UNCHANGED vars

Next == \/ Alive /\ (Server \/ Apps)
        \/ Dead

(* Threads run; nothing makes an app act or a datagram arrive. *)
Fairness ==
  /\ \A r \in RoomThreads : WF_vars(Alive /\ RoomThread(r))
  /\ \A u \in Users : WF_vars(Alive /\ Handler(u))

Spec == Init /\ [][Next]_vars /\ Fairness

(* The behaviours in which apps make no further move once rooms have met;   *)
(* what is under way goes on (bounds a run).                                *)
SettlingNext == \/ Alive /\ (Server \/ (~disturbed /\ Apps))
                \/ Dead
SettlingSpec == Init /\ [][SettlingNext]_vars /\ Fairness

(* The behaviours in which no two NEW_ROOM are handled at once. *)
ApartSpec == Init /\ [][Next /\ (Opening # {} => Cardinality(Opening') <= 1)]_vars

-----------------------------------------------------------------------------
(* Every variable keeps its type; num_rooms in particular never falls below *)
(* zero, though a room may be closed twice, by cb and by its thread.        *)
TypeOK ==
  /\ rooms \in [Slots -> [address : Users \cup {NULL}, players : SUBSET Users]]
  /\ num_rooms \in Nat
  /\ room \in Slots
  /\ buffer \in [Users -> Nat]
  /\ pc \in [Users -> {"idle", "filled", "started", "gone"}]
  /\ rpc \in [RoomThreads -> {"unborn", "created", "waiting", "emptied", "done"}]
  /\ arg \in [RoomThreads -> Nat]
  /\ group \in [RoomThreads -> Nat]
  /\ net \subseteq [what : {"JOINED", "LEFT"}, user : Users, address : Nat]
  /\ inside \in [Users -> Nat]
  /\ fault \in {"none", "null", "bounds"}
  /\ crowded \in BOOLEAN
  /\ disturbed \in BOOLEAN

(* Thread r will see that the room in slot i has become empty. *)
Watches(r, i) == \/ rpc[r] = "created" /\ arg[r] = i
                 \/ rpc[r] \in {"waiting", "emptied"} /\ room = i

(* As long as rooms have come one after the other, a listed room has its    *)
(* thread, whose receiver is in the group the apps were told.               *)
ServedWhenCalm ==
  ~disturbed => \A i \in Listed :
    \E r \in RoomThreads : /\ Watches(r, i)
                           /\ rpc[r] # "created" => group[r] = Address(i)

(* As long as rooms have come one after the other, no JOINED met the end of *)
(* its room and every round got its thread, an app that was let in finds    *)
(* its room listed: neither of the two other calls of close_room takes a    *)
(* room from under its players.                                             *)
InsideIsListed ==
  ~disturbed => \A u \in Users :
    inside[u] # 0 => \E i \in Listed : Address(i) = inside[u]

(* A room takes no more players than it was opened for, as long as one      *)
(* JOINED at a time is on its way: the test is made before it arrives. A    *)
(* room opened for none has its creator in it and is never full.            *)
NotOverfullAlone ==
  (~(crowded \/ disturbed) /\ maxPlayers # 0) =>
    \A i \in Listed : Cardinality(rooms[i].players) <= maxPlayers

(* A room whose last player has gone, by LEFT or by the end of its          *)
(* connection, leaves the list.                                             *)
EmptyRoomCloses ==
  \A i \in Slots :
    (i \in Listed /\ rooms[i].players = {} /\ ~disturbed)
      ~> (i \notin Listed \/ rooms[i].players # {} \/ disturbed \/ ~Alive)

(* handle_room.c:167: a room without players is closed. Some thread at      *)
(* least must be looking at it.                                             *)
EmptyRoomWatched ==
  \A i \in Listed : rooms[i].players = {} => \E r \in RoomThreads : Watches(r, i)
=============================================================================
