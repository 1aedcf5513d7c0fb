----------------------------- MODULE RoomsProofs -----------------------------
(* Theorems about Rooms, for every number of users, room threads and slots. *)
EXTENDS Rooms, FiniteSetTheorems, TLAPS

Room == [address : Users \cup {NULL}, players : SUBSET Users]

-----------------------------------------------------------------------------
LEMMA SlotsAreNumbers == Slots \subseteq Nat /\ 0 \in Slots
  BY RoomsAssumption DEF Slots

(* A player more or less, and another array after a room has left it.       *)
LEMMA PlayersType ==
  ASSUME rooms \in [Slots -> Room], NEW i \in Slots, NEW S \in SUBSET Users
  PROVE  [rooms EXCEPT ![i].players = S] \in [Slots -> Room]
<1>1. rooms[i] \in Room
  OBVIOUS
<1>2. [rooms[i] EXCEPT !.players = S] \in Room
  BY <1>1 DEF Room
<1> QED BY <1>2

LEMMA CloseRoomType ==
  ASSUME num_rooms \in Nat, room \in Slots,
         NEW rs \in [Slots -> Room], CloseRoom(rs)
  PROVE  rooms' \in [Slots -> Room] /\ num_rooms' \in Nat
  BY SlotsAreNumbers DEF CloseRoom, Listed, Slots

LEMMA TypeStep == ASSUME TypeOK, [Next]_vars PROVE TypeOK'
<1> USE RoomsAssumption, SlotsAreNumbers
<1> USE DEF registry, threads, apps, Room
<1>1. ASSUME NEW u \in Users, FillRoom(u) PROVE TypeOK'
  BY <1>1 DEF FillRoom, TypeOK, Slots
<1>2. ASSUME NEW why \in {"null", "bounds"}, Dies(why) PROVE TypeOK'
  BY <1>2 DEF Dies, TypeOK
<1>3. ASSUME NEW u \in Users, CreateThread(u) PROVE TypeOK'
  <2> DEFINE r == CHOOSE x \in Unborn : TRUE
  <2>1. Unborn # {} => r \in RoomThreads
    BY DEF Unborn
  <2> HIDE DEF r
  <2>2. /\ pc' \in [Users -> {"idle", "filled", "started", "gone"}]
        /\ UNCHANGED <<rooms, num_rooms, buffer, room, group, net, inside, fault,
                       crowded, disturbed>>
    BY <1>3 DEF CreateThread, TypeOK
  <2>3. CASE /\ Unborn # {}
             /\ rpc' = [rpc EXCEPT ![r] = "created"]
             /\ arg' = [arg EXCEPT ![r] = num_rooms]
    BY <2>1, <2>2, <2>3 DEF TypeOK
  <2>4. CASE UNCHANGED <<rpc, arg>>
    BY <2>2, <2>4 DEF TypeOK
  <2> QED BY <1>3, <2>3, <2>4 DEF CreateThread, r
<1>4. ASSUME NEW u \in Users, CountRoom(u) PROVE TypeOK'
  BY <1>4 DEF CountRoom, TypeOK
<1>5. ASSUME NEW u \in Users, NEW i \in Slots, JoinRoom(u, i) PROVE TypeOK'
  <2>1. Address(i) \in Nat
    BY DEF Address, TypeOK
  <2> QED BY <1>5, <2>1 DEF JoinRoom, Joined, TypeOK
<1>6. ASSUME NEW u \in Users, Disconnect(u) PROVE TypeOK'
  <2>1. \A i \in Slots : [rooms[i] EXCEPT !.players = @ \ {u}] \in Room
    BY DEF TypeOK
  <2>2. rooms' \in [Slots -> Room]
    BY <1>6, <2>1 DEF Disconnect, TypeOK
  <2> QED BY <1>6, <2>2 DEF Disconnect, TypeOK
<1>7. ASSUME NEW u \in Users, Reconnect(u) PROVE TypeOK'
  BY <1>7 DEF Reconnect, TypeOK
<1>8. ASSUME NEW u \in Users, Leave(u) PROVE TypeOK'
  BY <1>8 DEF Leave, Left, TypeOK
<1>9. ASSUME NEW r \in RoomThreads, RoomStarts(r) PROVE TypeOK'
  <2>1. Address(arg[r]) \in Nat
    BY <1>9 DEF RoomStarts, Address, TypeOK
  <2> QED BY <1>9, <2>1 DEF RoomStarts, TypeOK
<1>10. ASSUME NEW r \in RoomThreads, SeeEmpty(r) PROVE TypeOK'
  BY <1>10 DEF SeeEmpty, TypeOK
<1>11. ASSUME NEW r \in RoomThreads, RoomCloses(r) PROVE TypeOK'
  <2>1. rooms' \in [Slots -> Room] /\ num_rooms' \in Nat
    BY <1>11, CloseRoomType DEF RoomCloses, TypeOK
  <2> QED BY <1>11, <2>1 DEF RoomCloses, TypeOK
<1>12. ASSUME NEW m \in net, CbJoined(m) PROVE TypeOK'
  <2>1. m.user \in Users
    BY DEF TypeOK
  <2>2. rooms' \in [Slots -> Room]
    BY <1>12, <2>1, PlayersType DEF CbJoined, TypeOK
  <2> QED BY <1>12, <2>2 DEF CbJoined, TypeOK
<1>13. ASSUME NEW m \in net, CbLeft(m) PROVE TypeOK'
  <2> DEFINE rs == [rooms EXCEPT ![room].players = rooms[room].players \ {m.user}]
  <2>1. rs \in [Slots -> Room]
    BY PlayersType DEF TypeOK
  <2>2. CloseRoom(rs) \/ (rooms' = rs /\ UNCHANGED num_rooms)
    BY <1>13 DEF CbLeft
  <2>3. rooms' \in [Slots -> Room] /\ num_rooms' \in Nat
    BY <2>1, <2>2, CloseRoomType DEF TypeOK
  <2> QED BY <1>13, <2>3 DEF CbLeft, TypeOK
<1>14. ASSUME NEW m \in net, Lost(m) PROVE TypeOK'
  BY <1>14 DEF Lost, TypeOK
<1>15. CASE UNCHANGED vars
  BY <1>15 DEF vars, TypeOK
<1>16. ASSUME NEW r \in RoomThreads, WordFails(r) PROVE TypeOK'
  <2>1. rooms' \in [Slots -> Room] /\ num_rooms' \in Nat
    BY <1>16, CloseRoomType DEF WordFails, TypeOK
  <2> QED BY <1>16, <2>1 DEF WordFails, TypeOK
<1> QED
  BY <1>1, <1>2, <1>3, <1>4, <1>5, <1>6, <1>7, <1>8, <1>9, <1>10, <1>11, <1>12, <1>13,
     <1>14, <1>15, <1>16
  DEF Next, Dead, Server, Apps, App, Handler, RoomThread, Network, FillRoomOutside,
      JoinRoomFaults, RoomStartFaults, RoomCloseFaults

LEMMA InitType == Init => TypeOK
<1> SUFFICES ASSUME Init PROVE TypeOK
  OBVIOUS
<1>1. [address |-> NULL, players |-> {}] \in Room
  BY DEF Room
<1>2. rooms \in [Slots -> Room]
  BY <1>1 DEF Init
<1>3. /\ room \in Slots
      /\ buffer \in [Users -> Nat] /\ inside \in [Users -> Nat]
      /\ arg \in [RoomThreads -> Nat] /\ group \in [RoomThreads -> Nat]
  BY SlotsAreNumbers DEF Init
<1> QED BY <1>2, <1>3 DEF Init, TypeOK, Room

(* Every variable keeps its type: close_room, whoever calls it and however  *)
(* often, neither leaves the array nor takes num_rooms below zero.          *)
THEOREM TypeCorrect == Spec => []TypeOK
BY InitType, TypeStep, PTL DEF Spec

-----------------------------------------------------------------------------
(* Undisturbed, the registry has one room at a time, in slot 0, and one     *)
(* thread: a handler that opens a room has filled the slot and finds it     *)
(* there when it counts it; the thread has the address the slot shows; who  *)
(* is inside is a player, or its JOINED is on its way.                      *)
Runs(r)  == rpc[r] \in {"created", "waiting", "emptied"}
Opens(u) == pc[u] \in {"filled", "started"}
Comes(u) == \E m \in net : m.what = "JOINED" /\ m.user = u

OneRoom ==
  /\ num_rooms \in {0, 1} /\ room = 0
  /\ \A r, s \in RoomThreads : Runs(r) /\ Runs(s) => r = s
  /\ \A r \in RoomThreads : Runs(r) => arg[r] = 0
  /\ \A u, v \in Users : Opens(u) /\ Opens(v) => u = v

Opened ==
  \A u \in Users : Opens(u) =>
    /\ num_rooms = 0 /\ net = {}
    /\ rooms[0].address = u /\ u \in rooms[0].players
    /\ pc[u] = "filled" => \A r \in RoomThreads : ~Runs(r)
    /\ pc[u] = "started" => \E r \in RoomThreads : rpc[r] \in {"created", "waiting"}
    /\ \A r \in RoomThreads : rpc[r] = "waiting" => group[r] = buffer[u]

Counted ==
  num_rooms = 1 =>
    /\ rooms[0].address \in Users
    /\ \E r \in RoomThreads : Runs(r)
    /\ \A r \in RoomThreads :
         /\ rpc[r] \in {"waiting", "emptied"} => group[r] = buffer[rooms[0].address]
         /\ rpc[r] = "emptied" => rooms[0].players = {}

Inside ==
  \A u \in Users : inside[u] # 0 =>
    /\ num_rooms = 1 /\ inside[u] = buffer[rooms[0].address]
    /\ u \in rooms[0].players \/ Comes(u)
    /\ \A m \in net : m.user = u => m.what = "JOINED"

Calm == ~disturbed => OneRoom /\ Opened /\ Counted /\ Inside

LEMMA CalmStep == ASSUME TypeOK, Calm, [Next]_vars PROVE Calm'
<1> SUFFICES ASSUME ~disturbed' PROVE (OneRoom /\ Opened /\ Counted /\ Inside)'
  BY DEF Calm
<1> USE RoomsAssumption, SlotsAreNumbers
<1> USE DEF registry, threads, apps, Runs, Opens, Comes
<1>1. ASSUME NEW u \in Users, FillRoom(u)
      PROVE  (OneRoom /\ Opened /\ Counted /\ Inside)'
  <2>1. OneRoom /\ Opened /\ Counted /\ Inside /\ net = {}
        /\ (\A r \in RoomThreads : ~Runs(r)) /\ \A v \in Users : ~Opens(v)
    BY <1>1 DEF FillRoom, Calm, Running, Opening
  <2>2. num_rooms = 0 /\ \A v \in Users : inside[v] = 0
    BY <2>1 DEF OneRoom, Counted, Inside
  <2>3. /\ rooms'[0] = [address |-> u, players |-> {u}]
        /\ pc' = [pc EXCEPT ![u] = "filled"]
        /\ UNCHANGED <<num_rooms, room, rpc, arg, group, net, inside>>
    BY <1>1, <2>2 DEF FillRoom, TypeOK
  <2>4. OneRoom'
    BY <2>1, <2>2, <2>3 DEF OneRoom, TypeOK
  <2>5. Opened'
    BY <2>1, <2>2, <2>3 DEF Opened, TypeOK
  <2>6. Counted' /\ Inside'
    BY <2>2, <2>3 DEF Counted, Inside
  <2> QED BY <2>4, <2>5, <2>6
<1>2. ASSUME NEW u \in Users, CreateThread(u)
      PROVE  (OneRoom /\ Opened /\ Counted /\ Inside)'
  <2> DEFINE r == CHOOSE x \in Unborn : TRUE
  <2>1. Unborn # {} => r \in RoomThreads /\ ~Runs(r)
    BY DEF Unborn
  <2> HIDE DEF r
  <2>2. OneRoom /\ Opened /\ Counted /\ Inside /\ num_rooms = 0
    BY <1>2 DEF CreateThread, Calm, Opened
  <2>3. /\ \A x \in RoomThreads : ~Runs(x)
        /\ \A v \in Users : Opens(v) => v = u
    BY <1>2, <2>2 DEF CreateThread, Opened, OneRoom
  <2>4. UNCHANGED <<rooms, num_rooms, buffer, room, group, net, inside>>
    BY <1>2 DEF CreateThread
  <2>5. Counted' /\ Inside'
    BY <2>2, <2>4 DEF Counted, Inside
  <2>6. CASE /\ Unborn # {}
             /\ rpc' = [rpc EXCEPT ![r] = "created"]
             /\ arg' = [arg EXCEPT ![r] = num_rooms]
             /\ pc' = [pc EXCEPT ![u] = "started"]
    <3>1. /\ r \in RoomThreads /\ rpc'[r] = "created" /\ arg'[r] = 0
          /\ \A x \in RoomThreads \ {r} : ~Runs(x)' /\ rpc'[x] = rpc[x]
      BY <2>1, <2>2, <2>3, <2>6 DEF TypeOK
    <3>2. \A v \in Users : Opens(v)' => v = u
      BY <2>3, <2>6 DEF TypeOK
    <3>3. OneRoom'
      BY <2>2, <2>4, <3>1, <3>2 DEF OneRoom
    <3>4. Opened'
      BY <1>2, <2>2, <2>3, <2>4, <2>6, <3>1, <3>2 DEF Opened, CreateThread, TypeOK
    <3> QED BY <2>5, <3>3, <3>4
  <2>7. CASE UNCHANGED <<rpc, arg>> /\ pc' = [pc EXCEPT ![u] = "idle"]
    <3>1. OneRoom' /\ Opened'
      BY <2>2, <2>4, <2>7 DEF OneRoom, Opened, TypeOK
    <3> QED BY <2>5, <3>1
  <2> QED BY <1>2, <2>6, <2>7 DEF CreateThread, r
<1>3. ASSUME NEW u \in Users, CountRoom(u)
      PROVE  (OneRoom /\ Opened /\ Counted /\ Inside)'
  <2>1. OneRoom /\ Opened /\ Counted /\ Inside
    BY <1>3 DEF CountRoom, Calm
  <2>2. OneRoom'
    BY <1>3, <2>1 DEF OneRoom, Opened, CountRoom
  <2>3. Opened'
    BY <1>3, <2>1 DEF Opened, CountRoom, TypeOK
  <2>4. Counted'
    BY <1>3, <2>1 DEF OneRoom, Opened, Counted, CountRoom
  <2>5. Inside'
    BY <1>3, <2>1 DEF Opened, Inside, CountRoom
  <2> QED BY <2>2, <2>3, <2>4, <2>5
<1>4. ASSUME NEW u \in Users, NEW i \in Slots, JoinRoom(u, i)
      PROVE  (OneRoom /\ Opened /\ Counted /\ Inside)'
  <2>1. OneRoom /\ Opened /\ Counted /\ Inside
    BY <1>4 DEF JoinRoom, Calm
  <2>2. OneRoom'
    BY <1>4, <2>1 DEF OneRoom, JoinRoom, Joined, Address
  <2>3. Opened'
    BY <1>4, <2>1 DEF OneRoom, Opened, JoinRoom, Joined, Address, Listed, TypeOK
  <2>4. Counted'
    BY <1>4, <2>1 DEF Counted, JoinRoom, Joined, Address
  <2>5. Inside'
    <3>0. i = 0 /\ num_rooms = 1
      BY <1>4, <2>1 DEF JoinRoom, OneRoom, Listed
    <3>8. \A m \in net : m.user # u
      BY <1>4 DEF JoinRoom
    <3>1. /\ i = 0 /\ num_rooms = 1 /\ Address(0) = buffer[rooms[0].address]
          /\ \A m \in net : m.user # u
      BY <2>1, <3>0, <3>8 DEF Counted, Address
    <3>2. /\ net' = net \cup {Joined(u, Address(0))}
          /\ inside' = [inside EXCEPT ![u] = Address(0)]
          /\ UNCHANGED <<rooms, num_rooms, buffer>>
      BY <1>4, <3>1 DEF JoinRoom
    <3>3. Comes(u)'
      <4>1. /\ Joined(u, Address(0)) \in net'
            /\ Joined(u, Address(0)).what = "JOINED" /\ Joined(u, Address(0)).user = u
        BY <3>2 DEF Joined
      <4> QED BY <4>1
    <3>4. \A v \in Users : Comes(v) => Comes(v)'
      BY <3>2
    <3>5. \A v \in Users : v # u => inside'[v] = inside[v]
      BY <3>2 DEF TypeOK
    <3>6. inside'[u] = Address(0)
      BY <3>2 DEF TypeOK
    <3>7. \A m \in net' : m \in net \/ (m.user = u /\ m.what = "JOINED")
      BY <3>2 DEF Joined
    <3> HIDE DEF Comes
    <3> QED BY <2>1, <3>1, <3>2, <3>3, <3>4, <3>5, <3>6, <3>7 DEF Inside
  <2> QED BY <2>2, <2>3, <2>4, <2>5
<1>5. ASSUME NEW u \in Users, Disconnect(u)
      PROVE  (OneRoom /\ Opened /\ Counted /\ Inside)'
  <2>1. OneRoom /\ Opened /\ Counted /\ Inside
    BY <1>5 DEF Disconnect, Calm
  <2>2. OneRoom'
    BY <1>5, <2>1 DEF OneRoom, Disconnect
  <2>3. Opened'
    BY <1>5, <2>1 DEF Opened, Disconnect, TypeOK
  <2>6. /\ rooms'[0].address = rooms[0].address
        /\ rooms'[0].players \subseteq rooms[0].players
        /\ u # rooms[0].address \/ num_rooms = 0
        /\ UNCHANGED <<num_rooms, rpc, group, net>>
    <3>1. rooms'[0] = IF 0 \in Listed /\ u \notin Anonymous
                        THEN [rooms[0] EXCEPT !.players = @ \ {u}] ELSE rooms[0]
      BY <1>5 DEF Disconnect
    <3>2. rooms[0] \in Room
      BY DEF TypeOK, Room
    <3>3. \A i \in Listed : rooms[i].address # u
      BY <1>5 DEF Disconnect
    <3>4. 0 \in Listed \/ num_rooms = 0
      BY <2>1 DEF Listed, OneRoom
    <3>5. UNCHANGED <<num_rooms, rpc, group, net>>
      BY <1>5 DEF Disconnect
    <3> QED BY <3>1, <3>2, <3>3, <3>4, <3>5 DEF Room
  <2>7. num_rooms = 1 /\ rooms[0].address \in Users
          => buffer'[rooms[0].address] = buffer[rooms[0].address]
    BY <1>5, <2>6 DEF Disconnect, TypeOK
  <2>4. Counted'
    BY <2>1, <2>6, <2>7 DEF Counted
  <2>8. \A v \in Users : inside'[v] # 0 =>
                                       /\ v # u /\ inside'[v] = inside[v]
                                       /\ v \in rooms[0].players => v \in rooms'[0].players
    BY <1>5, <2>1 DEF Disconnect, Listed, OneRoom, TypeOK
  <2>9. num_rooms = 1 => rooms[0].address \in Users
    BY <2>1 DEF Counted
  <2>5. Inside'
    BY <2>1, <2>6, <2>7, <2>8, <2>9 DEF Inside
  <2> QED BY <2>2, <2>3, <2>4, <2>5
<1>6. ASSUME NEW u \in Users, Reconnect(u)
      PROVE  (OneRoom /\ Opened /\ Counted /\ Inside)'
  <2>1. OneRoom /\ Opened /\ Counted /\ Inside
    BY <1>6 DEF Reconnect, Calm
  <2>2. OneRoom'
    BY <1>6, <2>1 DEF OneRoom, Reconnect
  <2>3. Opened'
    BY <1>6, <2>1 DEF Opened, Reconnect
  <2>4. Counted'
    BY <1>6, <2>1 DEF Counted, Reconnect
  <2>5. Inside'
    BY <1>6, <2>1 DEF Inside, Reconnect
  <2> QED BY <2>2, <2>3, <2>4, <2>5
<1>7. ASSUME NEW u \in Users, Leave(u)
      PROVE  (OneRoom /\ Opened /\ Counted /\ Inside)'
  <2>1. OneRoom /\ Opened /\ Counted /\ Inside
    BY <1>7 DEF Leave, Calm
  <2>2. OneRoom'
    BY <1>7, <2>1 DEF OneRoom, Leave, Left
  <2>3. Opened'
    BY <1>7, <2>1 DEF Opened, Inside, Leave, Left
  <2>4. Counted'
    BY <1>7, <2>1 DEF Counted, Leave, Left
  <2>5. Inside'
    BY <1>7, <2>1 DEF Inside, Leave, Left, TypeOK
  <2> QED BY <2>2, <2>3, <2>4, <2>5
<1>8. ASSUME NEW r \in RoomThreads, RoomStarts(r)
      PROVE  (OneRoom /\ Opened /\ Counted /\ Inside)'
  <2>1. OneRoom /\ Opened /\ Counted /\ Inside
    BY <1>8 DEF RoomStarts, Calm
  <2>2. OneRoom'
    BY <1>8, <2>1 DEF OneRoom, RoomStarts, Address
  <2>6. /\ rpc[r] = "created" /\ rpc' = [rpc EXCEPT ![r] = "waiting"] /\ rooms[0].address # NULL
        /\ group' \in {[group EXCEPT ![r] = a] : a \in {0, Address(0)}} /\ group'[r] # 0
        /\ UNCHANGED <<rooms, num_rooms, buffer, pc, arg, net, inside>>
    BY <1>8, <2>1 DEF RoomStarts, OneRoom
  <2>7. group'[r] = buffer[rooms[0].address]
        /\ \A x \in RoomThreads \ {r} : group'[x] = group[x] /\ rpc'[x] = rpc[x]
    BY <2>6 DEF Address, TypeOK
  <2>8. rpc'[r] = "waiting"
    BY <2>6 DEF TypeOK
  <2>3. Opened'
    BY <2>1, <2>6, <2>7, <2>8 DEF Opened
  <2>4. Counted'
    BY <2>1, <2>6, <2>7, <2>8 DEF Counted
  <2>5. Inside'
    BY <1>8, <2>1 DEF Inside, RoomStarts, Address
  <2> QED BY <2>2, <2>3, <2>4, <2>5
<1>9. ASSUME NEW r \in RoomThreads, SeeEmpty(r)
      PROVE  (OneRoom /\ Opened /\ Counted /\ Inside)'
  <2>1. OneRoom /\ Opened /\ Counted /\ Inside
    BY <1>9 DEF SeeEmpty, Calm
  <2>2. OneRoom'
    BY <1>9, <2>1 DEF OneRoom, SeeEmpty
  <2>3. Opened'
    BY <1>9, <2>1 DEF OneRoom, Opened, SeeEmpty
  <2>4. Counted'
    BY <1>9, <2>1 DEF OneRoom, Counted, SeeEmpty
  <2>5. Inside'
    BY <1>9, <2>1 DEF Inside, SeeEmpty
  <2> QED BY <2>2, <2>3, <2>4, <2>5
<1>10. ASSUME NEW r \in RoomThreads, RoomCloses(r)
       PROVE  (OneRoom /\ Opened /\ Counted /\ Inside)'
  <2>1. OneRoom /\ Opened /\ Counted /\ Inside
    BY <1>10 DEF RoomCloses, Calm
  <2>2. OneRoom'
    BY <1>10, <2>1 DEF OneRoom, RoomCloses, CloseRoom
  <2>3. Opened'
    BY <1>10, <2>1 DEF Opened, RoomCloses, CloseRoom, TypeOK
  <2>4. Counted'
    BY <1>10, <2>1 DEF OneRoom, Counted, RoomCloses, CloseRoom
  <2>6. \A u \in Users : inside'[u] = 0
    <3>1. /\ rpc[r] = "emptied" /\ UNCHANGED inside
          /\ \A m \in net : m.what # "JOINED"
      BY <1>10 DEF RoomCloses, Coming
    <3> QED BY <2>1, <3>1 DEF Inside, Counted
  <2>5. Inside'
    BY <2>6 DEF Inside
  <2> QED BY <2>2, <2>3, <2>4, <2>5
<1>11. ASSUME NEW m \in net, CbJoined(m)
       PROVE  (OneRoom /\ Opened /\ Counted /\ Inside)'
  <2>1. OneRoom /\ Opened /\ Counted /\ Inside
    BY <1>11 DEF CbJoined, Calm
  <2>2. OneRoom'
    BY <1>11, <2>1 DEF OneRoom, CbJoined
  <2>3. Opened'
    BY <1>11, <2>1 DEF Opened, CbJoined
  <2>6. rooms'[0].address = rooms[0].address /\ \A x \in RoomThreads : rpc[x] # "emptied"
    <3>1. rooms' = [rooms EXCEPT ![0].players = @ \cup {m.user}]
          /\ \A x \in RoomThreads : rpc[x] # "emptied"
      BY <1>11, <2>1 DEF CbJoined, OneRoom
    <3>2. rooms[0] \in Room
      BY DEF TypeOK, Room
    <3> QED BY <3>1, <3>2 DEF TypeOK, Room
  <2>7. UNCHANGED <<num_rooms, rpc, group, buffer>>
    BY <1>11 DEF CbJoined
  <2>4. Counted'
    BY <2>1, <2>6, <2>7 DEF Counted
  <2>5. Inside'
    BY <1>11, <2>1 DEF OneRoom, Inside, CbJoined, TypeOK
  <2> QED BY <2>2, <2>3, <2>4, <2>5
<1>12. ASSUME NEW m \in net, CbLeft(m)
       PROVE  (OneRoom /\ Opened /\ Counted /\ Inside)'
  <2>1. OneRoom /\ Opened /\ Counted /\ Inside
    BY <1>12 DEF CbLeft, Calm
  <2>2. OneRoom'
    BY <1>12, <2>1 DEF OneRoom, CbLeft, CloseRoom
  <2>3. Opened'
    BY <1>12, <2>1 DEF Opened, CbLeft
  <2>4. Counted'
    BY <1>12, <2>1 DEF OneRoom, Counted, CbLeft, CloseRoom, TypeOK
  <2>6. /\ room = 0 /\ m.what = "LEFT" /\ net' = net \ {m}
        /\ UNCHANGED <<buffer, inside>>
        /\ \A u \in Users : inside[u] # 0 => u # m.user
    BY <1>12, <2>1 DEF CbLeft, OneRoom, Inside
  <2>7. \A u \in Users : Comes(u) => Comes(u)'
    BY <2>6
  <2>8. ASSUME rooms[0].players \ {m.user} = {} PROVE Inside'
    <3>1. \A u \in Users : ~Comes(u)
      BY <1>12, <2>6, <2>8 DEF CbLeft, Coming
    <3>2. \A u \in Users : inside[u] # 0 => u \in rooms[0].players /\ u # m.user
      BY <2>1, <2>6, <3>1 DEF Inside
    <3>3. \A u \in Users : inside'[u] = 0
      BY <2>6, <2>8, <3>2
    <3> QED BY <3>3 DEF Inside
  <2>9. ASSUME rooms[0].players \ {m.user} # {} PROVE Inside'
    <3>1. rooms' = [rooms EXCEPT ![0].players = rooms[0].players \ {m.user}]
          /\ UNCHANGED num_rooms
      BY <1>12, <2>6, <2>9 DEF CbLeft
    <3>2. rooms'[0].address = rooms[0].address /\ rooms'[0].players = rooms[0].players \ {m.user}
      BY <3>1 DEF TypeOK
    <3>3. \A u \in Users : inside'[u] # 0 =>
              /\ num_rooms' = 1 /\ inside'[u] = buffer'[rooms'[0].address]
              /\ u \in rooms'[0].players \/ Comes(u)
      BY <2>1, <2>6, <3>1, <3>2 DEF Inside
    <3>4. \A u \in Users : inside'[u] # 0 => \A x \in net' : x.user = u => x.what = "JOINED"
      BY <2>1, <2>6 DEF Inside
    <3> HIDE DEF Comes
    <3> QED BY <2>7, <3>3, <3>4 DEF Inside
  <2>5. Inside'
    BY <2>8, <2>9
  <2> QED BY <2>2, <2>3, <2>4, <2>5
<1>13. ASSUME NEW m \in net, Lost(m)
       PROVE  (OneRoom /\ Opened /\ Counted /\ Inside)'
  <2>1. OneRoom /\ Opened /\ Counted /\ Inside
    BY <1>13 DEF Lost, Calm
  <2>2. OneRoom'
    BY <1>13, <2>1 DEF OneRoom, Lost
  <2>3. Opened'
    BY <1>13, <2>1 DEF Opened, Lost
  <2>4. Counted'
    BY <1>13, <2>1 DEF Counted, Lost
  <2>6. /\ m.what # "JOINED" /\ net' = net \ {m}
        /\ UNCHANGED <<rooms, num_rooms, buffer, inside>>
    BY <1>13 DEF Lost
  <2>7. \A u \in Users : Comes(u) => Comes(u)'
    BY <2>6
  <2> HIDE DEF Comes
  <2>5. Inside'
    BY <2>1, <2>6, <2>7 DEF Inside
  <2> QED BY <2>2, <2>3, <2>4, <2>5
<1>14. ASSUME NEW why \in {"null", "bounds"}, Dies(why)
       PROVE (OneRoom /\ Opened /\ Counted /\ Inside)'
  BY <1>14 DEF Dies, Calm, OneRoom, Opened, Counted, Inside
<1>15. CASE UNCHANGED vars
  BY <1>15 DEF vars, Calm, OneRoom, Opened, Counted, Inside
<1>16. ASSUME NEW r \in RoomThreads, WordFails(r)
       PROVE  (OneRoom /\ Opened /\ Counted /\ Inside)'
  BY <1>16 DEF WordFails
<1> QED
  BY <1>1, <1>2, <1>3, <1>4, <1>5, <1>6, <1>7, <1>8, <1>9, <1>10, <1>11, <1>12, <1>13,
     <1>14, <1>15, <1>16
  DEF Next, Dead, Server, Apps, App, Handler, RoomThread, Network, FillRoomOutside,
      JoinRoomFaults, RoomStartFaults, RoomCloseFaults

-----------------------------------------------------------------------------
LEMMA CalmAlways == Spec => [](TypeOK /\ Calm)
<1>1. Init => TypeOK /\ Calm
  <2>1. Init => Calm
    BY DEF Init, Calm, OneRoom, Opened, Counted, Inside, Runs, Opens
  <2> QED BY <2>1, InitType
<1>2. TypeOK /\ Calm /\ [Next]_vars => (TypeOK /\ Calm)'
  BY TypeStep, CalmStep
<1> QED BY <1>1, <1>2, PTL DEF Spec

(* As long as rooms come one after the other a listed room is looked after  *)
(* by a thread in the group the apps were told, for any number of users,    *)
(* threads and slots: neither the shared global of the room threads nor the *)
(* address in a handler's stack frame does harm by itself.                  *)
THEOREM ServedCorrect == Spec => []ServedWhenCalm
<1>1. ASSUME TypeOK, Calm PROVE ServedWhenCalm
  <2> SUFFICES ASSUME ~disturbed, NEW i \in Listed
               PROVE  \E r \in RoomThreads : /\ Watches(r, i)
                                             /\ rpc[r] # "created" => group[r] = Address(i)
    BY DEF ServedWhenCalm
  <2>1. OneRoom /\ Counted
    BY <1>1 DEF Calm
  <2>2. i = 0 /\ num_rooms = 1
    BY <2>1, SlotsAreNumbers DEF OneRoom, Listed
  <2>3. Address(i) = buffer[rooms[0].address]
    <3>1. rooms[0].address \in Users
      BY <2>1, <2>2 DEF Counted
    <3> QED BY <2>2, <3>1, RoomsAssumption DEF Address
  <2>4. PICK r \in RoomThreads : Runs(r)
    BY <2>1, <2>2 DEF Counted
  <2>5. Watches(r, i)
    BY <2>1, <2>2, <2>4 DEF OneRoom, Runs, Watches
  <2>6. rpc[r] # "created" => group[r] = Address(i)
    BY <2>1, <2>2, <2>3, <2>4 DEF Counted, Runs
  <2> QED BY <2>5, <2>6
<1> QED BY <1>1, CalmAlways, PTL

(* And an app that was let in finds its room listed, unless a round did not *)
(* get its thread, or rooms have met.                                       *)
THEOREM InsideCorrect == Spec => []InsideIsListed
<1>1. ASSUME TypeOK, Calm PROVE InsideIsListed
  <2> SUFFICES ASSUME ~disturbed, NEW u \in Users, inside[u] # 0
               PROVE  \E i \in Listed : Address(i) = inside[u]
    BY DEF InsideIsListed
  <2>1. num_rooms = 1 /\ inside[u] = buffer[rooms[0].address]
    BY <1>1 DEF Calm, Inside
  <2>2. rooms[0].address \in Users
    BY <1>1, <2>1 DEF Calm, Counted
  <2>3. Address(0) = inside[u]
    BY <2>1, <2>2, RoomsAssumption DEF Address
  <2>4. 0 \in Listed
    BY <2>1, SlotsAreNumbers DEF Listed
  <2> QED BY <2>3, <2>4
<1> QED BY <1>1, CalmAlways, PTL

-----------------------------------------------------------------------------
(* The room that is open or being opened has a place left for the one user  *)
(* whose JOINED is on its way.                                              *)
InUse == num_rooms = 1 \/ \E u \in Users : Opens(u)

Room0 == rooms[0].players

Fits ==
  ~(crowded \/ disturbed) /\ maxPlayers # 0 =>
    /\ \A m, n \in Coming : m = n
    /\ InUse => /\ IsFiniteSet(Room0)
                /\ Cardinality(Room0) <= maxPlayers
                /\ Coming # {} => Cardinality(Room0) < maxPlayers

(* Fits is kept by a step that adds no player and sends no JOINED.          *)
LEMMA FitsKept ==
  ASSUME Fits, ~(crowded \/ disturbed), maxPlayers # 0, RoomsAssumption,
         Room0' \subseteq Room0, Coming' \subseteq Coming, InUse' => InUse
  PROVE  Fits'
<1>1. ASSUME InUse'
      PROVE  /\ IsFiniteSet(Room0') /\ Cardinality(Room0') <= maxPlayers
             /\ Coming' # {} => Cardinality(Room0') < maxPlayers
  <2>1. /\ IsFiniteSet(Room0) /\ Cardinality(Room0) <= maxPlayers
        /\ Coming # {} => Cardinality(Room0) < maxPlayers
    BY <1>1 DEF Fits
  <2>2. /\ IsFiniteSet(Room0') /\ Cardinality(Room0') <= Cardinality(Room0)
        /\ Cardinality(Room0) \in Nat /\ Cardinality(Room0') \in Nat
    BY <2>1, FS_Subset, FS_CardinalityType
  <2> QED BY <2>1, <2>2 DEF RoomsAssumption
<1> QED BY <1>1 DEF Fits

LEMMA FitsStep == ASSUME TypeOK, Calm, Fits, [Next]_vars PROVE Fits'
<1> SUFFICES ASSUME ~(crowded' \/ disturbed'), maxPlayers # 0 PROVE Fits'
  BY DEF Fits
<1> USE RoomsAssumption, SlotsAreNumbers
<1> USE DEF registry, threads, apps, Opens
<1>k. ASSUME UNCHANGED <<crowded, disturbed>>, Room0' \subseteq Room0, Coming' \subseteq Coming,
             InUse' => InUse
      PROVE  Fits'
  BY <1>k, FitsKept
<1>1. ASSUME NEW u \in Users, FillRoom(u) PROVE Fits'
  <2>1. OneRoom /\ Counted /\ net = {} /\ \A r \in RoomThreads : ~Runs(r)
    BY <1>1 DEF FillRoom, Calm, Running, Runs
  <2>2. num_rooms = 0
    BY <2>1 DEF OneRoom, Counted
  <2>3. Room0' = {u} /\ Coming' = {}
    BY <1>1, <2>1, <2>2 DEF FillRoom, Room0, Coming, TypeOK
  <2>4. IsFiniteSet(Room0') /\ Cardinality(Room0') = 1
    BY <2>3, FS_Singleton
  <2>5. 1 <= maxPlayers
    OBVIOUS
  <2> QED BY <2>3, <2>4, <2>5 DEF Fits
<1>2. ASSUME NEW u \in Users, CreateThread(u) PROVE Fits'
  <2>1. UNCHANGED <<rooms, num_rooms, net, crowded, disturbed>> /\ Opens(u)
    BY <1>2 DEF CreateThread
  <2>2. InUse
    BY <2>1 DEF InUse
  <2> QED BY <1>k, <2>1, <2>2 DEF Room0, Coming
<1>3. ASSUME NEW u \in Users, CountRoom(u) PROVE Fits'
  <2>1. UNCHANGED <<rooms, net, crowded, disturbed>> /\ Opens(u)
    BY <1>3 DEF CountRoom
  <2>2. InUse
    BY <2>1 DEF InUse
  <2> QED BY <1>k, <2>1, <2>2 DEF Room0, Coming
<1>4. ASSUME NEW u \in Users, NEW i \in Slots, JoinRoom(u, i) PROVE Fits'
  <2>1. /\ net' = net \cup {Joined(u, Address(i))} /\ Coming = {} /\ ~Full(i)
        /\ ~(crowded \/ disturbed)
        /\ UNCHANGED <<rooms, num_rooms, pc>> /\ i \in Listed
    BY <1>4 DEF JoinRoom
  <2>2. i = 0 /\ num_rooms = 1
    BY <2>1 DEF Calm, OneRoom, Listed
  <2>3. \A m \in Coming' : m = Joined(u, Address(i))
    BY <2>1 DEF Coming
  <2>4. Room0' = Room0 /\ Cardinality(Room0) # maxPlayers
    BY <2>1, <2>2 DEF Room0, Full
  <2>5. IsFiniteSet(Room0) /\ Cardinality(Room0) <= maxPlayers
    BY <2>1, <2>2 DEF Fits, InUse
  <2>6. Cardinality(Room0) \in Nat
    BY <2>5, FS_CardinalityType
  <2>7. Cardinality(Room0) < maxPlayers
    BY <2>4, <2>5, <2>6
  <2> QED BY <2>3, <2>4, <2>5, <2>7 DEF Fits
<1>5. ASSUME NEW u \in Users, Disconnect(u) PROVE Fits'
  <2>1. ~(crowded \/ disturbed)
    BY <1>5 DEF Disconnect
  <2>2. Room0' \subseteq Room0 /\ Coming' = Coming
    <3>1. rooms'[0] = IF 0 \in Listed /\ u \notin Anonymous
                        THEN [rooms[0] EXCEPT !.players = @ \ {u}] ELSE rooms[0]
      BY <1>5 DEF Disconnect
    <3>2. rooms[0] \in Room
      BY DEF TypeOK, Room
    <3>3. net' = net
      BY <1>5 DEF Disconnect
    <3> QED BY <3>1, <3>2, <3>3 DEF Room, Room0, Coming
  <2>3. InUse' => InUse
    BY <1>5 DEF Disconnect, InUse, TypeOK
  <2> QED BY <2>1, <2>2, <2>3, FitsKept
<1>6. ASSUME NEW u \in Users, Reconnect(u) PROVE Fits'
  <2>1. UNCHANGED <<rooms, num_rooms, net, crowded, disturbed>>
    BY <1>6 DEF Reconnect
  <2>2. InUse' => InUse
    BY <1>6 DEF Reconnect, InUse, TypeOK
  <2> QED BY <1>k, <2>1, <2>2 DEF Room0, Coming
<1>7. ASSUME NEW u \in Users, Leave(u) PROVE Fits'
  <2>1. UNCHANGED <<rooms, num_rooms, pc, crowded, disturbed>>
        /\ net' = net \cup {Left(u, inside[u])}
    BY <1>7 DEF Leave
  <2>2. Coming' = Coming
    BY <2>1 DEF Coming, Left
  <2> QED BY <1>k, <2>1, <2>2 DEF Room0, InUse
<1>8. ASSUME NEW r \in RoomThreads, RoomStarts(r) PROVE Fits'
  <2>1. ~(crowded \/ disturbed) /\ UNCHANGED <<rooms, num_rooms, pc, net>>
    BY <1>8 DEF RoomStarts
  <2> QED BY <2>1, FitsKept DEF Room0, Coming, InUse
<1>9. ASSUME NEW r \in RoomThreads, SeeEmpty(r) PROVE Fits'
  BY <1>9, <1>k DEF SeeEmpty, Room0, Coming, InUse
<1>10. ASSUME NEW r \in RoomThreads, RoomCloses(r) PROVE Fits'
  <2>1. /\ ~(crowded \/ disturbed) /\ UNCHANGED <<pc, net>> /\ CloseRoom(rooms)
        /\ rpc[r] = "emptied"
    BY <1>10 DEF RoomCloses
  <2>2. OneRoom /\ Opened
    BY <2>1 DEF Calm
  <2>3. Room0' = Room0 /\ num_rooms' = 0
    BY <2>1, <2>2 DEF CloseRoom, OneRoom, Listed, Room0
  <2>4. InUse' => InUse
    BY <2>1, <2>3 DEF InUse
  <2> QED BY <2>1, <2>3, <2>4, FitsKept DEF Coming
<1>11. ASSUME NEW m \in net, CbJoined(m) PROVE Fits'
  <2>1. /\ ~(crowded \/ disturbed) /\ net' = net \ {m} /\ m \in Coming
        /\ rooms' = [rooms EXCEPT ![room].players = @ \cup {m.user}]
        /\ room \in Listed
    BY <1>11 DEF CbJoined, Coming
  <2>2. room = 0 /\ num_rooms = 1
    BY <2>1 DEF Calm, OneRoom, Listed
  <2>3. Room0' = Room0 \cup {m.user}
    BY <2>1, <2>2 DEF Room0, TypeOK
  <2>4. Coming' = {}
    BY <2>1 DEF Fits, Coming
  <2>5. IsFiniteSet(Room0) /\ Cardinality(Room0) < maxPlayers
    BY <2>1, <2>2 DEF Fits, InUse
  <2>6. /\ IsFiniteSet(Room0') /\ Cardinality(Room0) \in Nat
        /\ Cardinality(Room0') \in {Cardinality(Room0), Cardinality(Room0) + 1}
    BY <2>3, <2>5, FS_AddElement, FS_CardinalityType
  <2>7. Cardinality(Room0') <= maxPlayers
    BY <2>5, <2>6
  <2> QED BY <2>4, <2>6, <2>7 DEF Fits
<1>12. ASSUME NEW m \in net, CbLeft(m) PROVE Fits'
  <2> DEFINE left == rooms[room].players \ {m.user}
             rs == [rooms EXCEPT ![room].players = left]
  <2>1. /\ ~(crowded \/ disturbed) /\ net' = net \ {m} /\ UNCHANGED pc
        /\ CloseRoom(rs) \/ (rooms' = rs /\ UNCHANGED num_rooms)
    BY <1>12 DEF CbLeft
  <2>2. OneRoom
    BY <2>1 DEF Calm
  <2>3. rs[0].players \subseteq Room0
    BY <2>2 DEF OneRoom, Room0, TypeOK
  <2> HIDE DEF rs
  <2>4. rooms'[0] = rs[0] /\ num_rooms' \in {0, num_rooms}
    <3>1. CASE rooms' = rs /\ UNCHANGED num_rooms
      BY <3>1
    <3>2. CASE room < num_rooms /\ CloseRoom(rs)
      <4>1. num_rooms = 1 /\ room = 0
        BY <2>2, <3>2 DEF OneRoom
      <4>2. /\ num_rooms' = num_rooms - 1
            /\ rooms' = [i \in Slots |-> IF i >= room /\ i + 1 \in Listed
                                           THEN rs[i + 1] ELSE rs[i]]
        BY <3>2, <4>1 DEF CloseRoom
      <4>3. 0 + 1 \notin Listed
        BY <4>1 DEF Listed
      <4> QED BY <4>1, <4>2, <4>3
    <3> QED BY <2>1, <2>2, <3>1, <3>2 DEF CloseRoom, OneRoom
  <2>5. Room0' \subseteq Room0
    BY <2>3, <2>4 DEF Room0
  <2>6. Coming' \subseteq Coming
    BY <2>1 DEF Coming
  <2>7. InUse' => InUse
    BY <2>1, <2>4 DEF InUse
  <2> QED BY <2>1, <2>5, <2>6, <2>7, FitsKept
<1>13. ASSUME NEW m \in net, Lost(m) PROVE Fits'
  <2>1. ~(crowded \/ disturbed) /\ net' = net \ {m} /\ UNCHANGED <<rooms, num_rooms, pc>>
    BY <1>13 DEF Lost
  <2>2. Coming' \subseteq Coming
    BY <2>1 DEF Coming
  <2> QED BY <2>1, <2>2, FitsKept DEF Room0, InUse
<1>14. ASSUME NEW why \in {"null", "bounds"}, Dies(why) PROVE Fits'
  BY <1>14, <1>k DEF Dies, Room0, Coming, InUse
<1>15. CASE UNCHANGED vars
  BY <1>15, <1>k DEF vars, Room0, Coming, InUse
<1>16. ASSUME NEW r \in RoomThreads, WordFails(r) PROVE Fits'
  BY <1>16 DEF WordFails
<1> QED
  BY <1>1, <1>2, <1>3, <1>4, <1>5, <1>6, <1>7, <1>8, <1>9, <1>10, <1>11, <1>12, <1>13,
     <1>14, <1>15, <1>16
  DEF Next, Dead, Server, Apps, App, Handler, RoomThread, Network, FillRoomOutside,
      JoinRoomFaults, RoomStartFaults, RoomCloseFaults

(* A room that is joined by one user at a time takes no more players than   *)
(* it was opened for.                                                       *)
THEOREM NotOverfullCorrect == Spec => []NotOverfullAlone
<1>1. Init => Fits
  BY DEF Init, Fits, InUse, Opens, Coming
<1>2. TypeOK /\ Calm /\ Fits /\ [Next]_vars => Fits'
  BY FitsStep
<1>3. ASSUME TypeOK, Calm, Fits PROVE NotOverfullAlone
  <2> SUFFICES ASSUME ~(crowded \/ disturbed), maxPlayers # 0, NEW i \in Listed
               PROVE  Cardinality(rooms[i].players) <= maxPlayers
    BY DEF NotOverfullAlone
  <2>1. i = 0 /\ num_rooms = 1
    BY <1>3, SlotsAreNumbers DEF Calm, OneRoom, Listed
  <2> QED BY <1>3, <2>1 DEF Fits, InUse, Room0
<1> QED BY <1>1, <1>2, <1>3, CalmAlways, PTL DEF Spec
=============================================================================
