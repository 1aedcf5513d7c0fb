---------------------------- MODULE MembersProofs ----------------------------
(***************************************************************************)
(* Theorems about Members, for any users and size of a room: its types;    *)
(* that the records of the players are sound, and the players those whose  *)
(* apps are in the room, while nothing overlaps; and that the room then    *)
(* implements a plain set of players.                                      *)
(***************************************************************************)
EXTENDS Members, FiniteSetTheorems, WellFoundedInduction, TLAPS

USE DEF mail

(* clients[] lists the users that are connected, each once; an app in the   *)
(* room, or taken to be, is connected.                                      *)
TableInv ==
  /\ \A i, j \in Listed : clients[i] = clients[j] => i = j
  /\ \A i \in Listed : clients[i] \in Users /\ handler[clients[i]] # "off"
  /\ \A u \in Users : handler[u] # "off" => \E i \in Listed : clients[i] = u
  /\ \A u \in told \cup inside : handler[u] = "on"

LEMMA LeastNat ==
  ASSUME NEW T, T \subseteq Nat, T # {} PROVE Min(T) \in T /\ \A y \in T : Min(T) <= y
<1> DEFINE R == {ss \in Nat \X Nat : ss[1] < ss[2]}
<1>1. IsWellFoundedOn(R, Nat)
  BY NatLessThanWellFounded DEF OpToRel
<1>2. \E x \in T : \A y \in T : ~ (<<y, x>> \in R)
  BY <1>1, WFMin
<1>3. ASSUME NEW x \in T, NEW y \in T, ~ (<<y, x>> \in R) PROVE x <= y
  BY <1>3
<1>4. \E x \in T : \A y \in T : x <= y
  BY <1>2, <1>3
<1> QED BY <1>4 DEF Min

LEMMA UsersFinite == IsFiniteSet(Users) /\ Cardinality(Users) \in Nat
  BY MembersAssumption, FS_CardinalityType

(* There is one record more than there are seats.                           *)
LEMMA FreshIs ==
  ASSUME players \in [Seats -> Records \cup {NULL}]
  PROVE  Fresh \in Records /\ \A i \in Seats : players[i] # Fresh
<1> DEFINE T == {r \in Records : \A i \in Seats : players[i] # r}
<1>1. IsFiniteSet(Seats) /\ Cardinality(Seats) = MAX_PLAYERS
  BY MembersAssumption, FS_Interval DEF Seats
<1>2. IsFiniteSet(Records) /\ Cardinality(Records) = MAX_PLAYERS + 1
  BY MembersAssumption, FS_Interval DEF Records
<1>3. T # {}
  <2> SUFFICES ASSUME T = {} PROVE FALSE
    OBVIOUS
  <2>1. \A r \in Records : \E i \in Seats : players[i] = r
    OBVIOUS
  <2> DEFINE f == [r \in Records |-> CHOOSE i \in Seats : players[i] = r]
  <2>2. f \in [Records -> Seats] /\ \A r \in Records : players[f[r]] = r
    BY <2>1
  <2> HIDE DEF f
  <2>3. \E r, s \in Records : r # s /\ f[r] = f[s]
    BY <1>1, <1>2, <2>2, FS_PigeonHole, MembersAssumption
  <2> QED BY <2>2, <2>3
<1>4. T \subseteq Nat
  BY DEF Records
<1>5. Min(T) \in T
  BY <1>3, <1>4, LeastNat
<1> QED BY <1>5 DEF Fresh

(* The slot of a user that is connected. *)
LEMMA SlotIs ==
  ASSUME TypeOK, TableInv, NEW u \in Users, handler[u] # "off"
  PROVE  Min(SlotsOf(u)) \in Listed /\ clients[Min(SlotsOf(u))] = u
<1>1. SlotsOf(u) # {} /\ SlotsOf(u) \subseteq Nat
  BY UsersFinite DEF TableInv, SlotsOf, Listed, Slots
<1>2. Min(SlotsOf(u)) \in SlotsOf(u)
  BY <1>1, LeastNat
<1> QED BY <1>2 DEF SlotsOf

LEMMA ListedIs ==
  ASSUME TypeOK
  PROVE  /\ Cardinality(Users) \in Nat /\ num_clients \in 0 .. Cardinality(Users)
         /\ Listed = 0 .. num_clients - 1 /\ Listed \subseteq Slots
         /\ \A i \in Slots : i \in Nat
  BY UsersFinite DEF TypeOK, Listed, Slots

(* There is a slot for a user that is not connected.                        *)
LEMMA RoomToConnect ==
  ASSUME TypeOK, TableInv, NEW u \in Users, handler[u] = "off"
  PROVE  num_clients < Cardinality(Users)
<1> DEFINE f == [i \in Listed |-> clients[i]]
<1>1. f \in Injection(Listed, Users \ {u})
  BY DEF TableInv, Injection, IsInjective
<1>2. IsFiniteSet(Users \ {u}) /\ Cardinality(Users \ {u}) = Cardinality(Users) - 1
  BY UsersFinite, FS_RemoveElement
<1>3. Cardinality(Listed) <= Cardinality(Users) - 1
  BY <1>1, <1>2, FS_Injection
<1>4. Cardinality(Listed) = num_clients
  BY ListedIs, FS_Interval
<1> QED BY <1>3, <1>4, ListedIs

LEMMA TableConnect ==
  ASSUME TypeOK, TableInv, NEW u \in Users, Connect(u)
  PROVE  TableInv' /\ num_clients' \in 0 .. Cardinality(Users)
<1>1. /\ handler[u] = "off" /\ num_clients < Cardinality(Users)
      /\ clients' = [clients EXCEPT ![num_clients] = u]
      /\ num_clients' = num_clients + 1
      /\ handler' = [handler EXCEPT ![u] = "on"] /\ UNCHANGED <<told, inside>>
  BY RoomToConnect DEF Connect
<1>2. num_clients' \in 0 .. Cardinality(Users) /\ num_clients \in Slots
  BY <1>1, ListedIs DEF Slots
<1>3. Listed' = Listed \cup {num_clients}
  BY <1>1, <1>2, ListedIs DEF Listed, Slots
<1>4. num_clients \notin Listed /\ \A i \in Listed : clients'[i] = clients[i]
  BY <1>1, ListedIs DEF TypeOK
<1>5. clients'[num_clients] = u
  BY <1>1, <1>2 DEF TypeOK
<1>6. \A i \in Listed : clients[i] # u
  BY <1>1 DEF TableInv
<1>7. \A v \in Users : handler'[v] = IF v = u THEN "on" ELSE handler[v]
  BY <1>1 DEF TypeOK
<1>8. TableInv'
  <2>1. \A i, j \in Listed' : clients'[i] = clients'[j] => i = j
    BY <1>3, <1>4, <1>5, <1>6 DEF TableInv
  <2>2. \A i \in Listed' : clients'[i] \in Users /\ handler'[clients'[i]] # "off"
    BY <1>3, <1>4, <1>5, <1>7 DEF TableInv
  <2>3. \A v \in Users : handler'[v] # "off" => \E i \in Listed' : clients'[i] = v
    BY <1>3, <1>4, <1>5, <1>7 DEF TableInv
  <2>4. \A v \in told' \cup inside' : handler'[v] = "on"
    BY <1>1, <1>7 DEF TableInv, TypeOK
  <2> QED BY <2>1, <2>2, <2>3, <2>4 DEF TableInv
<1> QED BY <1>2, <1>8

(* Where what is at i was before the entry at k left, those behind it       *)
(* moving up.                                                               *)
Past(k, i) == IF i >= k THEN i + 1 ELSE i

LEMMA PastIs ==
  ASSUME NEW n \in Nat, NEW k \in 0 .. n - 1
  PROVE  /\ \A i \in 0 .. n - 2 : Past(k, i) \in (0 .. n - 1) \ {k}
         /\ \A i, j \in 0 .. n - 2 : Past(k, i) = Past(k, j) => i = j
         /\ \A h \in (0 .. n - 1) \ {k} : \E i \in 0 .. n - 2 : Past(k, i) = h
<1>1. \A i \in 0 .. n - 2 : Past(k, i) \in (0 .. n - 1) \ {k}
  BY DEF Past
<1>2. \A i, j \in 0 .. n - 2 : Past(k, i) = Past(k, j) => i = j
  BY DEF Past
<1>3. ASSUME NEW h \in (0 .. n - 1) \ {k} PROVE \E i \in 0 .. n - 2 : Past(k, i) = h
  <2>1. CASE h < k
    <3>1. h \in 0 .. n - 2 /\ Past(k, h) = h
      BY <2>1 DEF Past
    <3> QED BY <3>1
  <2>2. CASE h > k
    <3>1. h - 1 \in 0 .. n - 2 /\ Past(k, h - 1) = h
      BY <2>2 DEF Past
    <3> QED BY <3>1
  <2> QED BY <2>1, <2>2
<1> QED BY <1>1, <1>2, <1>3

(* What a departure leaves of clients[].                                    *)
LEMMA UnlistIs ==
  ASSUME TypeOK, TableInv, NEW u \in Users, Unlist(u)
  PROVE  \E g \in Listed :
           /\ g = Min(SlotsOf(u)) /\ clients[g] = u
           /\ num_clients' = num_clients - 1 /\ Listed' = 0 .. num_clients - 2
           /\ \A i \in Listed' : clients'[i] = clients[Past(g, i)]
           /\ \A i \in Listed' : Past(g, i) \in Listed \ {g}
           /\ \A i, j \in Listed' : Past(g, i) = Past(g, j) => i = j
           /\ \A h \in Listed \ {g} : \E i \in Listed' : Past(g, i) = h
<1>1. PICK g \in Listed : g = Min(SlotsOf(u)) /\ clients[g] = u
  BY SlotIs DEF Unlist
<1>2. /\ num_clients' = num_clients - 1
      /\ clients' = [i \in Slots |-> IF i >= g /\ i < num_clients - 1
                                       THEN clients[i + 1] ELSE clients[i]]
  BY <1>1 DEF Unlist
<1>3. Listed' = 0 .. num_clients - 2 /\ Listed' \subseteq Slots
  BY <1>2, ListedIs DEF Listed, Slots
<1>4. \A i \in Listed' : clients'[i] = clients[Past(g, i)]
  BY <1>2, <1>3, ListedIs DEF Past
<1>5. Listed = 0 .. num_clients - 1 /\ num_clients \in Nat
  BY ListedIs
<1>6. /\ \A i \in Listed' : Past(g, i) \in Listed \ {g}
      /\ \A i, j \in Listed' : Past(g, i) = Past(g, j) => i = j
      /\ \A h \in Listed \ {g} : \E i \in Listed' : Past(g, i) = h
  BY <1>3, <1>5, PastIs
<1> QED BY <1>1, <1>2, <1>3, <1>4, <1>6

LEMMA TableUnlist ==
  ASSUME TypeOK, TableInv, NEW u \in Users, Unlist(u)
  PROVE  TableInv' /\ num_clients' \in 0 .. Cardinality(Users)
<1>1. PICK g \in Listed :
           /\ clients[g] = u
           /\ num_clients' = num_clients - 1
           /\ \A i \in Listed' : clients'[i] = clients[Past(g, i)]
           /\ \A i \in Listed' : Past(g, i) \in Listed \ {g}
           /\ \A i, j \in Listed' : Past(g, i) = Past(g, j) => i = j
           /\ \A h \in Listed \ {g} : \E i \in Listed' : Past(g, i) = h
  BY UnlistIs
<1>2. /\ handler' = [handler EXCEPT ![u] = "off"] /\ UNCHANGED <<told, inside>>
      /\ handler[u] = "leaving"
  BY DEF Unlist
<1>3. \A v \in Users : handler'[v] = IF v = u THEN "off" ELSE handler[v]
  BY <1>2 DEF TypeOK
<1>4. num_clients' \in 0 .. Cardinality(Users)
  BY <1>1, ListedIs
<1>5. \A k \in Listed \ {g} : clients[k] # u
  BY <1>1 DEF TableInv
<1>6. \A i, j \in Listed' : clients'[i] = clients'[j] => i = j
  BY <1>1 DEF TableInv
<1>7. \A i \in Listed' : clients'[i] \in Users /\ handler'[clients'[i]] # "off"
  BY <1>1, <1>3, <1>5 DEF TableInv
<1>8. \A v \in Users : handler'[v] # "off" => \E i \in Listed' : clients'[i] = v
  <2> SUFFICES ASSUME NEW v \in Users, v # u, handler[v] # "off"
               PROVE  \E i \in Listed' : clients'[i] = v
    BY <1>3
  <2>1. PICK k \in Listed : clients[k] = v
    BY DEF TableInv
  <2>2. k \in Listed \ {g}
    BY <1>1, <2>1
  <2> QED BY <1>1, <2>1, <2>2
<1>9. \A v \in told' \cup inside' : handler'[v] = "on"
  BY <1>2, <1>3 DEF TableInv, TypeOK
<1>10. TableInv'
  BY <1>6, <1>7, <1>8, <1>9 DEF TableInv
<1> QED BY <1>4, <1>10

LEMMA TableStep ==
  ASSUME TypeOK, TableInv, [Next]_vars
  PROVE  TableInv' /\ num_clients' \in 0 .. Cardinality(Users)
<1>1. ASSUME NEW u \in Users, Connect(u)
      PROVE  TableInv' /\ num_clients' \in 0 .. Cardinality(Users)
  BY <1>1, TableConnect
<1>2. ASSUME NEW u \in Users, Unlist(u)
      PROVE  TableInv' /\ num_clients' \in 0 .. Cardinality(Users)
  BY <1>2, TableUnlist
<1>3. ASSUME UNCHANGED table,
             \A v \in Users : handler'[v] = "off" <=> handler[v] = "off",
             \A v \in told' \cup inside' : v \in Users /\ handler'[v] = "on"
      PROVE  TableInv' /\ num_clients' \in 0 .. Cardinality(Users)
  <2>1. UNCHANGED <<clients, num_clients>> /\ Listed' = Listed
    BY <1>3 DEF table, Listed
  <2> QED BY <1>3, <2>1 DEF TableInv, TypeOK
<1>4. ASSUME UNCHANGED <<table, handler, told, inside>>
      PROVE  TableInv' /\ num_clients' \in 0 .. Cardinality(Users)
  BY <1>3, <1>4 DEF TableInv, TypeOK
<1>5. ASSUME NEW u \in Users, App(u), ~Connect(u)
      PROVE  TableInv' /\ num_clients' \in 0 .. Cardinality(Users)
  <2>1. CASE OpenRoom(u)
    BY <1>3, <2>1 DEF OpenRoom, work
  <2>2. CASE AppJoins(u) \/ AppLeaves(u)
    <3>1. /\ handler[u] = "on" /\ UNCHANGED <<table, handler, told>>
          /\ inside' \subseteq inside \cup {u}
      BY <2>2 DEF AppJoins, AppLeaves, work
    <3> QED BY <1>3, <3>1 DEF TableInv, TypeOK
  <2>3. CASE QuitBegins(u)
    <3>1. \A v \in Users : handler'[v] = "off" <=> handler[v] = "off"
      BY <2>3 DEF QuitBegins, TypeOK
    <3>2. \A v \in Users : v # u => handler'[v] = handler[v]
      BY <2>3 DEF QuitBegins, TypeOK
    <3>3. told' = told \ {u} /\ inside' = inside \ {u} /\ UNCHANGED table
      BY <2>3 DEF QuitBegins
    <3> QED BY <1>3, <3>1, <3>2, <3>3 DEF TableInv, TypeOK
  <2>4. CASE ListFaults(u)
    BY <1>4, <2>4 DEF ListFaults, DiesAtOnce, work
  <2> QED BY <1>5, <2>1, <2>2, <2>3, <2>4 DEF App
<1>8. ASSUME NEW u \in Users, Network(u)
      PROVE  TableInv' /\ num_clients' \in 0 .. Cardinality(Users)
  <2>1. /\ UNCHANGED <<table, handler, inside>>
        /\ told' \subseteq told \/ (handler[u] = "on" /\ told' = told \cup {u})
    BY <1>8 DEF Network, JoinBegins, LeftBegins, Lose, work
  <2> QED BY <1>3, <2>1 DEF TableInv, TypeOK
<1>9. CASE RoomEnds
  <2>1. UNCHANGED <<table, handler, inside>> /\ told' = {}
    BY <1>9 DEF RoomEnds, work
  <2> QED BY <1>3, <2>1 DEF TableInv, TypeOK
<1>6. ASSUME NEW u \in Users, Threads(u), ~Unlist(u)
      PROVE  TableInv' /\ num_clients' \in 0 .. Cardinality(Users)
  <2>1. CASE QuitClears(u) \/ QuitRemoves(u)
    <3>1. \A v \in Users : handler'[v] = "off" <=> handler[v] = "off"
      BY <2>1 DEF QuitClears, QuitRemoves, TypeOK
    <3>2. \A v \in Users : handler[v] = "on" => handler'[v] = "on"
      BY <2>1 DEF QuitClears, QuitRemoves, TypeOK
    <3>3. UNCHANGED <<table, told, inside>>
      BY <2>1 DEF QuitClears, QuitRemoves
    <3> QED BY <1>3, <3>1, <3>2, <3>3 DEF TableInv, TypeOK
  <2>2. CASE UNCHANGED <<table, handler, told, inside>>
    BY <1>4, <2>2
  <2> QED
    BY <1>6, <2>1, <2>2 DEF Threads, JoinSets, JoinCounts, JoinFaults, LeftClears,
       LeftRemoves, LeftGoesOn, LeftFaults, QuitFaults, Dies, DiesAtOnce, work
<1>7. CASE UNCHANGED vars
  BY <1>4, <1>7 DEF vars, work
<1> QED BY <1>1, <1>2, <1>5, <1>6, <1>7, <1>8, <1>9 DEF Next, Dead

-----------------------------------------------------------------------------
LEMMA OverlapsIs == ASSUME TypeOK, Overlaps PROVE overlapped' \in BOOLEAN
<1> DEFINE busy == Busy # {}
<1>1. overlapped' = (overlapped \/ busy) /\ busy \in BOOLEAN
  BY DEF Overlaps
<1> HIDE DEF busy
<1> QED BY <1>1 DEF TypeOK

LEMMA WithoutIs ==
  ASSUME TypeOK, NEW k \in Seats, numberOfPlayers > 0
  PROVE  /\ Without(players, k) \in [Seats -> Records \cup {NULL}]
         /\ numberOfPlayers - 1 \in 0 .. MAX_PLAYERS
<1>1. \A i \in Seats : i < numberOfPlayers - 1 => i + 1 \in Seats
  BY MembersAssumption DEF TypeOK, Seats
<1>2. Without(players, k) \in [Seats -> Records \cup {NULL}]
  BY <1>1 DEF TypeOK, Without
<1>3. numberOfPlayers - 1 \in 0 .. MAX_PLAYERS
  BY MembersAssumption DEF TypeOK
<1> QED BY <1>2, <1>3

(* Datagrams, apps and the stage of the room keep their types.              *)
MailOK ==
  /\ sent \subseteq {"JOINED", "LEFT"} \X Users
  /\ stage \in {"none", "listed", "dropped"}
  /\ inside \subseteq Users /\ told \subseteq Users
  /\ strayed \in BOOLEAN /\ stranger \in BOOLEAN

LEMMA MailTypes == ASSUME TypeOK, [Next]_vars PROVE MailOK'
<1>0. MailOK
  BY DEF MailOK, TypeOK
<1>1. CASE UNCHANGED mail
  BY <1>0, <1>1 DEF MailOK
<1>2. ASSUME NEW u \in Users, App(u) PROVE MailOK'
  <2>1. CASE OpenRoom(u)
    BY <1>0, <2>1 DEF OpenRoom, MailOK
  <2>2. CASE AppJoins(u)
    BY <1>0, <2>2 DEF AppJoins, MovesOn, MailOK
  <2>3. CASE AppLeaves(u)
    BY <1>0, <2>3 DEF AppLeaves, MovesOn, MailOK
  <2>4. CASE QuitBegins(u)
    BY <1>0, <2>4 DEF QuitBegins, MovesOn, MailOK
  <2> QED
    BY <1>1, <1>2, <2>1, <2>2, <2>3, <2>4 DEF App, Connect, ListFaults, DiesAtOnce
<1>3. ASSUME NEW u \in Users, Network(u) PROVE MailOK'
  <2>1. CASE JoinBegins(u)
    BY <1>0, <2>1 DEF JoinBegins, Arrives, MailOK
  <2>2. CASE LeftBegins(u)
    BY <1>0, <2>2 DEF LeftBegins, LeftLoop, Arrives, MailOK
  <2>3. ASSUME NEW what \in {"JOINED", "LEFT"}, Lose(u, what) PROVE MailOK'
    BY <1>0, <2>3 DEF Lose, MailOK
  <2> QED BY <1>3, <2>1, <2>2, <2>3 DEF Network
<1>4. ASSUME NEW u \in Users, Threads(u) PROVE MailOK'
  <2>1. CASE LeftGoesOn(u)
    BY <1>0, <2>1 DEF LeftGoesOn, LeftLoop, MailOK
  <2> QED
    BY <1>1, <1>4, <2>1 DEF Threads, JoinSets, JoinCounts, JoinFaults, LeftClears,
       LeftRemoves, LeftFaults, QuitClears, QuitRemoves, QuitFaults, Unlist, Dies,
       DiesAtOnce
<1>5. CASE RoomEnds
  BY <1>0, <1>5 DEF RoomEnds, MailOK
<1> QED BY <1>1, <1>2, <1>3, <1>4, <1>5 DEF Next, Dead, vars

LEMMA LeftLoopTypes ==
  ASSUME TypeOK, NEW u \in Users, NEW k, LeftLoop(u, k)
  PROVE  /\ cb' \in [Users -> {"none", "found", "set", "leaving", "clearing", "looking"}]
         /\ seat' \in [Users -> [handler : Seats, cb : Seats]]
<1>0. 0 \in Seats
  BY MembersAssumption DEF Seats
<1>1. PICK i \in Seats : /\ seat' = [seat EXCEPT ![u].cb = i]
                         /\ \/ cb' = [cb EXCEPT ![u] = "leaving"]
                            \/ cb' = [cb EXCEPT ![u] = "none"]
  BY <1>0 DEF LeftLoop
<1>2. /\ cb \in [Users -> {"none", "found", "set", "leaving", "clearing", "looking"}]
      /\ seat \in [Users -> [handler : Seats, cb : Seats]]
  BY DEF TypeOK
<1>3. cb' \in [Users -> {"none", "found", "set", "leaving", "clearing", "looking"}]
  BY <1>1, <1>2
<1> QED BY <1>1, <1>2, <1>3

(* Every step keeps the types of the declarations, whatever overlaps: no    *)
(* index leaves players[] or clients[] but by a fault.                      *)
LEMMA TypeStep == ASSUME TypeOK, TableInv, [Next]_vars PROVE TypeOK'
<1>0. num_clients' \in 0 .. Cardinality(Users)
  BY TableStep
<1>00. MailOK'
  BY MailTypes
<1> USE <1>00 DEF TypeOK, MailOK, table, room, work
<1>1. ASSUME NEW u \in Users, Connect(u) PROVE TypeOK'
  BY <1>0, <1>1 DEF Connect
<1>2. ASSUME NEW u \in Users, OpenRoom(u) PROVE TypeOK'
  <2>1. Fresh \in Records /\ Min(SlotsOf(u)) \in Slots /\ overlapped' \in BOOLEAN
    BY <1>2, FreshIs, SlotIs, ListedIs, OverlapsIs DEF OpenRoom
  <2>2. 0 \in Seats /\ 1 \in 0 .. MAX_PLAYERS
    BY MembersAssumption DEF Seats
  <2>3. /\ players' \in [Seats -> Records \cup {NULL}]
        /\ record' \in [Records -> [client : Slots \cup {NULL, Unset},
                                    of : Users \cup {Unset}]]
        /\ numberOfPlayers' \in 0 .. MAX_PLAYERS
    BY <1>2, <2>1, <2>2 DEF OpenRoom
  <2> QED BY <1>2, <2>1, <2>3 DEF OpenRoom
<1>3. ASSUME NEW u \in Users, JoinBegins(u) PROVE TypeOK'
  <2>1. Fresh \in Records /\ overlapped' \in BOOLEAN
    BY <1>3, FreshIs, OverlapsIs DEF JoinBegins
  <2>2. /\ players' \in [Seats -> Records \cup {NULL}]
        /\ record' \in [Records -> [client : Slots \cup {NULL, Unset},
                                    of : Users \cup {Unset}]]
    BY <1>3, <2>1 DEF JoinBegins
  <2>3. /\ pointer' \in [Users -> Slots \cup {Unset}]
        /\ cb' \in [Users -> {"none", "found", "set", "leaving", "clearing", "looking"}]
    <3>1. SlotsOf(u) # {} => Min(SlotsOf(u)) \in Slots
      <4>1. SlotsOf(u) \subseteq Slots /\ Slots \subseteq Nat
        BY UsersFinite DEF SlotsOf, Listed, Slots
      <4> QED BY <4>1, LeastNat
    <3>2. PICK p \in Slots \cup {Unset} : pointer' = [pointer EXCEPT ![u] = p]
      BY <1>3, <3>1 DEF JoinBegins
    <3> QED BY <1>3, <3>2 DEF JoinBegins
  <2> QED BY <1>3, <2>1, <2>2, <2>3 DEF JoinBegins
<1>4. ASSUME NEW u \in Users, JoinSets(u) PROVE TypeOK'
  <2>1. players[numberOfPlayers] \in Records /\ pointer[u] \in Slots \cup {NULL, Unset}
    BY <1>4 DEF JoinSets
  <2>2. /\ record' \in [Records -> [client : Slots \cup {NULL, Unset},
                                    of : Users \cup {Unset}]]
        /\ cb' \in [Users -> {"none", "found", "set", "leaving", "clearing", "looking"}]
    BY <1>4, <2>1 DEF JoinSets
  <2> QED BY <1>4, <2>2 DEF JoinSets
<1>5. ASSUME NEW u \in Users, JoinCounts(u) PROVE TypeOK'
  <2>1. numberOfPlayers' \in 0 .. MAX_PLAYERS
    BY <1>5, MembersAssumption DEF JoinCounts, Seats
  <2> QED BY <1>5, <2>1 DEF JoinCounts
<1>6. ASSUME NEW u \in Users, LeftLoop(u, 0) \/ LeftLoop(u, seat[u].cb + 1)
      PROVE  /\ cb' \in [Users -> {"none", "found", "set", "leaving", "clearing", "looking"}]
             /\ seat' \in [Users -> [handler : Seats, cb : Seats]]
  BY <1>6, LeftLoopTypes
<1>7. ASSUME NEW u \in Users, LeftBegins(u) PROVE TypeOK'
  BY <1>6, <1>7, OverlapsIs DEF LeftBegins
<1>8. ASSUME NEW u \in Users, LeftGoesOn(u) PROVE TypeOK'
  BY <1>6, <1>8 DEF LeftGoesOn
<1>9. ASSUME NEW u \in Users, LeftClears(u) PROVE TypeOK'
  BY <1>9 DEF LeftClears
<1>10. ASSUME NEW u \in Users, LeftRemoves(u) PROVE TypeOK'
  BY <1>10, WithoutIs DEF LeftRemoves
<1>11. ASSUME NEW u \in Users, QuitBegins(u) PROVE TypeOK'
  <2>1. handler' \in [Users -> {"off", "on", "found", "clearing", "leaving"}]
        /\ seat' \in [Users -> [handler : Seats, cb : Seats]]
    <3>1. ASSUME NEW k \in Seats, handler' = [handler EXCEPT ![u] = "found"],
                 seat' = [seat EXCEPT ![u].handler = k]
          PROVE  handler' \in [Users -> {"off", "on", "found", "clearing", "leaving"}]
                 /\ seat' \in [Users -> [handler : Seats, cb : Seats]]
      BY <3>1
    <3>2. ASSUME handler' = [handler EXCEPT ![u] = "leaving"], UNCHANGED seat
          PROVE  handler' \in [Users -> {"off", "on", "found", "clearing", "leaving"}]
                 /\ seat' \in [Users -> [handler : Seats, cb : Seats]]
      BY <3>2
    <3> QED BY <1>11, <3>1, <3>2 DEF QuitBegins
  <2> QED BY <1>11, <2>1, OverlapsIs DEF QuitBegins
<1>12. ASSUME NEW u \in Users, QuitClears(u) PROVE TypeOK'
  <2>1. players[seat[u].handler] \in Records
    BY <1>12 DEF QuitClears
  <2>2. record' \in [Records -> [client : Slots \cup {NULL, Unset},
                                of : Users \cup {Unset}]]
    BY <1>12, <2>1 DEF QuitClears
  <2> QED BY <1>12, <2>2 DEF QuitClears
<1>13. ASSUME NEW u \in Users, QuitRemoves(u) PROVE TypeOK'
  <2>0. 0 \in Seats
    BY MembersAssumption DEF Seats
  <2>1. seat' \in [Users -> [handler : Seats, cb : Seats]]
    BY <1>13, <2>0 DEF QuitRemoves
  <2> QED BY <1>13, <2>1, WithoutIs DEF QuitRemoves
<1>14. ASSUME NEW u \in Users, Unlist(u) PROVE TypeOK'
  <2>1. PICK g \in Listed : g = Min(SlotsOf(u))
    BY <1>14, UnlistIs
  <2>2. \A i \in Slots : i < num_clients - 1 => i + 1 \in Slots
    BY ListedIs DEF Slots
  <2>3. clients' \in [Slots -> Users \cup {Unset}]
    BY <1>14, <2>2 DEF Unlist
  <2>4. shifted' \in BOOLEAN
    <3> DEFINE moves == \E i \in Taken : \/ Dangling(i)
                                         \/ record[players[i]].client >= g
    <3>1. shifted' = (shifted \/ moves) /\ moves \in BOOLEAN
      BY <1>14, <2>1 DEF Unlist
    <3> HIDE DEF moves
    <3> QED BY <3>1
  <2>5. overlapped' \in BOOLEAN
    <3> DEFINE meets == \E v \in Users : cb[v] # "none"
    <3>1. overlapped' = (overlapped \/ meets) /\ meets \in BOOLEAN
      BY <1>14 DEF Unlist
    <3> HIDE DEF meets
    <3> QED BY <3>1
  <2> QED BY <1>0, <1>14, <2>3, <2>4, <2>5 DEF Unlist
<1>15. ASSUME NEW u \in Users,
              JoinFaults(u) \/ LeftFaults(u) \/ QuitFaults(u) \/ ListFaults(u)
       PROVE  TypeOK'
  <2>1. Dies("bounds") \/ Dies("null") \/ DiesAtOnce
    BY <1>15 DEF JoinFaults, LeftFaults, QuitFaults, ListFaults
  <2> QED BY <2>1, OverlapsIs DEF Dies, DiesAtOnce
<1>16. ASSUME NEW u \in Users, NEW what \in {"JOINED", "LEFT"},
              AppJoins(u) \/ AppLeaves(u) \/ Lose(u, what)
       PROVE  TypeOK'
  BY <1>16 DEF AppJoins, AppLeaves, Lose
<1>17. CASE RoomEnds
  BY <1>17 DEF RoomEnds
<1>18. CASE UNCHANGED vars
  BY <1>18 DEF vars
<1> QED
  BY <1>1, <1>2, <1>3, <1>4, <1>5, <1>7, <1>8, <1>9, <1>10, <1>11, <1>12, <1>13,
     <1>14, <1>15, <1>16, <1>17, <1>18 DEF Next, Dead, App, Network, Threads

LEMMA InitTypes == Init => TypeOK /\ TableInv
<1> SUFFICES ASSUME Init PROVE TypeOK /\ TableInv
  OBVIOUS
<1>1. TypeOK
  <2>1. 0 \in Seats /\ 0 \in 0 .. MAX_PLAYERS /\ 0 \in 0 .. Cardinality(Users)
    BY MembersAssumption, UsersFinite DEF Seats
  <2>2. /\ seat \in [Users -> [handler : Seats, cb : Seats]]
        /\ record \in [Records -> [client : Slots \cup {NULL, Unset},
                                   of : Users \cup {Unset}]]
    BY <2>1 DEF Init
  <2> QED BY <2>1, <2>2 DEF Init, TypeOK
<1>2. Listed = {}
  BY DEF Init, Listed, Slots
<1>3. TableInv
  BY <1>2 DEF Init, TableInv
<1> QED BY <1>1, <1>3

(* Every variable keeps its type, for any number of users and of seats and  *)
(* however callbacks and handlers overlap.                                  *)
THEOREM TypeCorrect == Spec => []TypeOK
<1> QED BY InitTypes, TypeStep, TableStep, PTL DEF Spec

-----------------------------------------------------------------------------
(* What holds while nothing overlaps and every JOINED is of a user in       *)
(* clients[]: one user at most is at work, and the records are sound but    *)
(* for the one it is filling or removing.                                   *)
Tidy == ~(overlapped \/ stranger)

(* The seat of which user u is removing the player. *)
Going(u, i) == \/ cb[u] = "clearing" /\ i = seat[u].cb
               \/ handler[u] = "clearing" /\ i = seat[u].handler

(* Where a callback or a handler is, it has what it has come for. *)
Placed(u) ==
  /\ cb[u] # "none" => handler[u] \in {"off", "on"}
  /\ cb[u] \in {"leaving", "clearing"} => seat[u].cb \in Taken
  /\ handler[u] \in {"found", "clearing"} => seat[u].handler \in Taken
  /\ cb[u] \in {"found", "set"} =>
       /\ numberOfPlayers \in Seats /\ players[numberOfPlayers] \in Records
       /\ \A i \in Taken : players[i] # players[numberOfPlayers]
  /\ cb[u] = "found" => pointer[u] \in Slots
  /\ cb[u] = "set" => ~Dangling(numberOfPlayers)

Sound ==
  Tidy =>
    /\ fault # "null"
    /\ \A u, v \in Busy : u = v
    /\ \A i, j \in Taken : players[i] = players[j] => i = j
    /\ \A i \in Taken : ~Dangling(i) \/ \E u \in Users : Going(u, i)
    /\ \A u \in Users : Placed(u)

LEMMA DanglingIs ==
  ASSUME TypeOK, NEW i \in Seats
  PROVE  ~Dangling(i) <=> players[i] \in Records /\ record[players[i]].client \in Slots
<1>1. NULL \notin Records /\ NULL \notin Slots /\ Unset \notin Slots
  BY MembersAssumption, UsersFinite DEF Records, Slots
<1> QED BY <1>1 DEF Dangling, TypeOK

LEMMA TakenIs ==
  ASSUME TypeOK
  PROVE  /\ numberOfPlayers \in Nat /\ Taken = 0 .. numberOfPlayers - 1
         /\ Taken \subseteq Seats
  BY MembersAssumption DEF TypeOK, Taken, Seats

(* With one user at work, all others have nothing of it.                    *)
LEMMA SoundNow ==
  ASSUME TypeOK, Sound, Tidy, NEW u \in Users, Busy \subseteq {u}
  PROVE  /\ \A v \in Users \ {u} : cb[v] = "none" /\ handler[v] \in {"off", "on"}
         /\ \A i \in Taken : ~Dangling(i) \/ Going(u, i)
         /\ Placed(u) /\ fault # "null"
         /\ \A i, j \in Taken : players[i] = players[j] => i = j
<1>1. \A v \in Users \ {u} : cb[v] = "none" /\ handler[v] \in {"off", "on"}
  BY DEF Busy, TypeOK
<1>2. \A v \in Users \ {u} : \A i : ~Going(v, i)
  BY <1>1 DEF Going
<1> QED BY <1>1, <1>2 DEF Sound

LEMMA SoundNext ==
  ASSUME NEW u \in Users,
         \A v \in Users \ {u} : cb'[v] = "none" /\ handler'[v] \in {"off", "on"},
         \A i \in Taken' : ~Dangling(i)' \/ Going(u, i)',
         Placed(u)', fault' # "null",
         \A i, j \in Taken' : players'[i] = players'[j] => i = j
  PROVE  Sound'
<1>1. \A v \in Users \ {u} : Placed(v)'
  BY DEF Placed
<1>2. \A v, w \in Busy' : v = w
  BY DEF Busy
<1> QED BY <1>1, <1>2 DEF Sound

(* A user that joins, opens a room or leaves it finds the room at rest.     *)
LEMMA AtRest ==
  ASSUME TypeOK, Sound, Overlaps, Tidy, Tidy', NEW u \in Users
  PROVE  /\ Busy = {} /\ cb[u] = "none" /\ handler[u] \in {"off", "on"}
         /\ \A v \in Users \ {u} : cb[v] = "none" /\ handler[v] \in {"off", "on"}
         /\ \A i \in Taken : ~Dangling(i)
         /\ fault # "null"
         /\ \A i, j \in Taken : players[i] = players[j] => i = j
<1>1. Busy = {}
  BY DEF Overlaps, Tidy
<1>2. \A v \in Users : cb[v] = "none" /\ handler[v] \in {"off", "on"}
  BY <1>1 DEF Busy, TypeOK
<1>3. \A v \in Users : \A i : ~Going(v, i)
  BY <1>2 DEF Going
<1> QED BY <1>1, <1>2, <1>3 DEF Sound

(* A user at work is the only one.                                          *)
LEMMA AtWork ==
  ASSUME TypeOK, Sound, Tidy, NEW u \in Users, u \in Busy
  PROVE  /\ \A v \in Users \ {u} : cb[v] = "none" /\ handler[v] \in {"off", "on"}
         /\ \A i \in Taken : ~Dangling(i) \/ Going(u, i)
         /\ Placed(u) /\ fault # "null"
         /\ \A i, j \in Taken : players[i] = players[j] => i = j
<1>1. Busy \subseteq {u}
  BY DEF Sound
<1> QED BY <1>1, SoundNow

LEMMA SoundOpenRoom ==
  ASSUME TypeOK, TypeOK', TableInv, Sound, Tidy, Tidy', NEW u \in Users, OpenRoom(u)
  PROVE  Sound'
<1>1. /\ cb[u] = "none" /\ handler[u] \in {"off", "on"} /\ fault # "null"
      /\ \A v \in Users \ {u} : cb[v] = "none" /\ handler[v] \in {"off", "on"}
  BY AtRest DEF OpenRoom
<1>2. /\ Fresh \in Records /\ Min(SlotsOf(u)) \in Slots /\ 0 \in Seats
  <2>1. Fresh \in Records
    BY FreshIs DEF TypeOK
  <2>2. Min(SlotsOf(u)) \in Slots
    <3>1. handler[u] # "off"
      BY DEF OpenRoom
    <3> QED BY <3>1, SlotIs, ListedIs
  <2>3. 0 \in Seats
    BY MembersAssumption DEF Seats
  <2> QED BY <2>1, <2>2, <2>3
<1>3. /\ players' = [players EXCEPT ![0] = Fresh]
      /\ record' = [record EXCEPT ![Fresh] = [client |-> Min(SlotsOf(u)), of |-> u]]
      /\ numberOfPlayers' = 1 /\ UNCHANGED <<cb, handler, seat, fault, pointer>>
  BY DEF OpenRoom, work
<1>4. Taken' = {0}
  BY <1>2, <1>3 DEF Taken, Seats
<1>5. players'[0] = Fresh /\ record'[Fresh].client \in Slots
  BY <1>2, <1>3 DEF TypeOK
<1>6. ~Dangling(0)'
  <2>1. NULL \notin Slots /\ Unset \notin Slots
    BY MembersAssumption, UsersFinite DEF Slots
  <2> QED BY <1>2, <1>5, <2>1 DEF Dangling
<1>7. Placed(u)'
  BY <1>1, <1>3 DEF Placed
<1> QED BY <1>1, <1>3, <1>4, <1>6, <1>7, SoundNext

LEMMA SlotsAre == NULL \notin Slots /\ Unset \notin Slots /\ NULL \notin Records
  BY MembersAssumption, UsersFinite DEF Slots, Records

(* Whose JOINED comes from an entry of clients[] is connected.              *)
LEMMA JoinIsListed ==
  ASSUME TableInv, Tidy', NEW u \in Users, JoinBegins(u)
  PROVE  handler[u] # "off" /\ SlotsOf(u) # {}
<1>1. SlotsOf(u) # {}
  BY DEF JoinBegins, Tidy
<1> QED BY <1>1 DEF SlotsOf, TableInv

LEMMA SoundJoinBegins ==
  ASSUME TypeOK, TypeOK', TableInv, Sound, Tidy, Tidy', NEW u \in Users, JoinBegins(u)
  PROVE  Sound'
<1>1. /\ cb[u] = "none" /\ handler[u] \in {"off", "on"} /\ fault # "null"
      /\ \A v \in Users \ {u} : cb[v] = "none" /\ handler[v] \in {"off", "on"}
      /\ \A i \in Taken : ~Dangling(i)
      /\ \A i, j \in Taken : players[i] = players[j] => i = j
  BY AtRest DEF JoinBegins
<1>2. /\ Fresh \in Records /\ \A i \in Seats : players[i] # Fresh
      /\ Min(SlotsOf(u)) \in Slots
  <2>1. Fresh \in Records /\ \A i \in Seats : players[i] # Fresh
    BY FreshIs DEF TypeOK
  <2>2. handler[u] # "off"
    BY JoinIsListed
  <2>3. Min(SlotsOf(u)) \in Slots
    BY <2>2, SlotIs, ListedIs
  <2> QED BY <2>1, <2>3
<1>3. /\ numberOfPlayers \in Seats
      /\ players' = [players EXCEPT ![numberOfPlayers] = Fresh]
      /\ record' = [record EXCEPT ![Fresh] = [client |-> Unset, of |-> Unset]]
      /\ pointer' = [pointer EXCEPT ![u] = Min(SlotsOf(u))]
      /\ cb' = [cb EXCEPT ![u] = "found"]
      /\ UNCHANGED <<numberOfPlayers, handler, seat, fault>>
  BY JoinIsListed DEF JoinBegins
<1>4. Taken' = Taken /\ numberOfPlayers \notin Taken /\ Taken \subseteq Seats
  BY <1>3, TakenIs DEF Taken
<1>5. /\ \A i \in Taken : players'[i] = players[i]
      /\ players'[numberOfPlayers] = Fresh
  BY <1>3, <1>4 DEF TypeOK
<1>6. \A i \in Taken : players[i] \in Records /\ record'[players[i]] = record[players[i]]
  BY <1>1, <1>2, <1>3, <1>4, DanglingIs DEF TypeOK
<1>7. \A i \in Taken' : ~Dangling(i)'
  BY <1>1, <1>4, <1>5, <1>6 DEF Dangling
<1>8. Placed(u)'
  <2>1. /\ cb'[u] = "found" /\ handler'[u] \in {"off", "on"} /\ pointer'[u] \in Slots
    BY <1>1, <1>2, <1>3 DEF TypeOK
  <2>2. /\ numberOfPlayers' \in Seats /\ players'[numberOfPlayers'] \in Records
        /\ \A i \in Taken' : players'[i] # players'[numberOfPlayers']
    BY <1>2, <1>3, <1>4, <1>5
  <2> QED BY <2>1, <2>2 DEF Placed
<1>9. \A v \in Users \ {u} : cb'[v] = "none" /\ handler'[v] \in {"off", "on"}
  BY <1>1, <1>3 DEF TypeOK
<1> QED BY <1>1, <1>3, <1>4, <1>5, <1>7, <1>8, <1>9, SoundNext

LEMMA SoundJoinSets ==
  ASSUME TypeOK, TypeOK', Sound, Tidy, NEW u \in Users, JoinSets(u)
  PROVE  Sound'
<1>1. cb[u] = "found" /\ u \in Busy
  BY DEF JoinSets, Busy
<1>2. /\ \A v \in Users \ {u} : cb[v] = "none" /\ handler[v] \in {"off", "on"}
      /\ \A i \in Taken : ~Dangling(i) \/ Going(u, i)
      /\ Placed(u) /\ fault # "null"
      /\ \A i, j \in Taken : players[i] = players[j] => i = j
  BY <1>1, AtWork
<1>3. /\ handler[u] \in {"off", "on"} /\ numberOfPlayers \in Seats
      /\ players[numberOfPlayers] \in Records /\ pointer[u] \in Slots
      /\ \A i \in Taken : players[i] # players[numberOfPlayers]
  BY <1>1, <1>2 DEF Placed
<1>4. \A i \in Taken : ~Dangling(i)
  BY <1>1, <1>2, <1>3 DEF Going
<1>5. /\ record' = [record EXCEPT ![players[numberOfPlayers]] = [client |-> pointer[u], of |-> u]]
      /\ cb' = [cb EXCEPT ![u] = "set"]
      /\ UNCHANGED <<players, numberOfPlayers, handler, pointer, seat, fault>>
  BY DEF JoinSets
<1>6. Taken' = Taken /\ Taken \subseteq Seats
  BY <1>5, TakenIs DEF Taken
<1>7. \A i \in Taken : players[i] \in Records /\ record'[players[i]] = record[players[i]]
  BY <1>3, <1>4, <1>5, <1>6, DanglingIs DEF TypeOK
<1>8. \A i \in Taken' : ~Dangling(i)'
  BY <1>4, <1>5, <1>6, <1>7 DEF Dangling
<1>9. ~Dangling(numberOfPlayers)'
  <2>1. record'[players[numberOfPlayers]].client \in Slots
    BY <1>3, <1>5 DEF TypeOK
  <2> QED BY <1>3, <1>5, <2>1, SlotsAre DEF Dangling
<1>10. Placed(u)'
  <2>1. cb'[u] = "set" /\ handler'[u] \in {"off", "on"}
    BY <1>3, <1>5 DEF TypeOK
  <2> QED BY <1>3, <1>5, <1>6, <1>9, <2>1 DEF Placed
<1>11. \A v \in Users \ {u} : cb'[v] = "none" /\ handler'[v] \in {"off", "on"}
  BY <1>2, <1>5 DEF TypeOK
<1> QED BY <1>2, <1>5, <1>6, <1>8, <1>10, <1>11, SoundNext

LEMMA SoundJoinCounts ==
  ASSUME TypeOK, TypeOK', Sound, Tidy, NEW u \in Users, JoinCounts(u)
  PROVE  Sound'
<1>1. cb[u] = "set" /\ u \in Busy
  BY DEF JoinCounts, Busy
<1>2. /\ \A v \in Users \ {u} : cb[v] = "none" /\ handler[v] \in {"off", "on"}
      /\ \A i \in Taken : ~Dangling(i) \/ Going(u, i)
      /\ Placed(u) /\ fault # "null"
      /\ \A i, j \in Taken : players[i] = players[j] => i = j
  BY <1>1, AtWork
<1>3. /\ handler[u] \in {"off", "on"} /\ numberOfPlayers \in Seats /\ ~Dangling(numberOfPlayers)
      /\ \A i \in Taken : players[i] # players[numberOfPlayers]
  BY <1>1, <1>2 DEF Placed
<1>4. \A i \in Taken : ~Dangling(i)
  BY <1>1, <1>2, <1>3 DEF Going
<1>5. /\ numberOfPlayers' = numberOfPlayers + 1 /\ cb' = [cb EXCEPT ![u] = "none"]
      /\ UNCHANGED <<players, record, handler, seat, fault>>
  BY DEF JoinCounts
<1>6. Taken' = Taken \cup {numberOfPlayers}
  BY <1>3, <1>5, TakenIs DEF Taken, Seats
<1>7. \A i : Dangling(i)' = Dangling(i)
  BY <1>5 DEF Dangling
<1>8. Placed(u)'
  <2>1. cb'[u] = "none" /\ handler'[u] \in {"off", "on"}
    BY <1>3, <1>5 DEF TypeOK
  <2> QED BY <2>1 DEF Placed
<1>9. \A v \in Users \ {u} : cb'[v] = "none" /\ handler'[v] \in {"off", "on"}
  BY <1>2, <1>5 DEF TypeOK
<1>10. \A i, j \in Taken' : players'[i] = players'[j] => i = j
  BY <1>2, <1>3, <1>5, <1>6
<1> QED BY <1>2, <1>3, <1>4, <1>5, <1>6, <1>7, <1>8, <1>9, <1>10, SoundNext

LEMMA SoundLeftLoop ==
  ASSUME TypeOK, TypeOK', NEW u \in Users, NEW k \in Nat, LeftLoop(u, k),
         UNCHANGED <<room, handler, fault>>, handler[u] \in {"off", "on"}, fault # "null",
         \A v \in Users \ {u} : cb[v] = "none" /\ handler[v] \in {"off", "on"},
         \A i \in Taken : ~Dangling(i),
         \A i, j \in Taken : players[i] = players[j] => i = j
  PROVE  Sound'
<1>1. UNCHANGED <<players, numberOfPlayers, record>> /\ Taken' = Taken
  BY DEF room, Taken
<1>2. \A i \in Taken' : ~Dangling(i)'
  BY <1>1 DEF Dangling
<1>3. \A v \in Users \ {u} : cb'[v] = "none" /\ handler'[v] \in {"off", "on"}
  BY DEF LeftLoop, TypeOK
<1>4. Placed(u)'
  <2>1. ASSUME NEW i \in Seats, Finds(k, u, i), cb' = [cb EXCEPT ![u] = "leaving"],
               seat' = [seat EXCEPT ![u].cb = i]
        PROVE  Placed(u)'
    <3>1. cb'[u] = "leaving" /\ handler'[u] \in {"off", "on"} /\ seat'[u].cb = i
      BY <2>1 DEF TypeOK
    <3>2. i \in Taken'
      BY <1>1, <2>1 DEF Finds
    <3> QED BY <3>1, <3>2 DEF Placed
  <2>2. ASSUME cb' = [cb EXCEPT ![u] = "none"] PROVE Placed(u)'
    <3>1. cb'[u] = "none" /\ handler'[u] \in {"off", "on"}
      BY <2>2 DEF TypeOK
    <3> QED BY <3>1 DEF Placed
  <2> QED BY <2>1, <2>2 DEF LeftLoop
<1> QED BY <1>1, <1>2, <1>3, <1>4, SoundNext

LEMMA SoundLeftBegins ==
  ASSUME TypeOK, TypeOK', Sound, Tidy, Tidy', NEW u \in Users, LeftBegins(u)
  PROVE  Sound'
  BY AtRest, SoundLeftLoop DEF LeftBegins

LEMMA SoundLeftGoesOn ==
  ASSUME TypeOK, TypeOK', Sound, Tidy, NEW u \in Users, LeftGoesOn(u)
  PROVE  Sound'
<1>1. cb[u] = "looking" /\ u \in Busy
  BY DEF LeftGoesOn, Busy
<1>2. /\ \A v \in Users \ {u} : cb[v] = "none" /\ handler[v] \in {"off", "on"}
      /\ \A i \in Taken : ~Dangling(i) \/ Going(u, i)
      /\ Placed(u) /\ fault # "null"
      /\ \A i, j \in Taken : players[i] = players[j] => i = j
  BY <1>1, AtWork
<1>3. handler[u] \in {"off", "on"} /\ \A i \in Taken : ~Dangling(i)
  BY <1>1, <1>2 DEF Placed, Going
<1>4. seat[u].cb + 1 \in Nat
  BY MembersAssumption DEF TypeOK, Seats
<1> QED BY <1>2, <1>3, <1>4, SoundLeftLoop DEF LeftGoesOn

LEMMA SoundLeftClears ==
  ASSUME TypeOK, TypeOK', Sound, Tidy, NEW u \in Users, LeftClears(u)
  PROVE  Sound'
<1>1. cb[u] = "leaving" /\ u \in Busy
  BY DEF LeftClears, Busy
<1>2. /\ \A v \in Users \ {u} : cb[v] = "none" /\ handler[v] \in {"off", "on"}
      /\ \A i \in Taken : ~Dangling(i) \/ Going(u, i)
      /\ Placed(u) /\ fault # "null"
      /\ \A i, j \in Taken : players[i] = players[j] => i = j
  BY <1>1, AtWork
<1>3. PICK k \in Taken : k = seat[u].cb
  BY <1>1, <1>2 DEF Placed
<1>4. handler[u] \in {"off", "on"} /\ \A i \in Taken : ~Dangling(i)
  BY <1>1, <1>2 DEF Placed, Going
<1>5. /\ players' = [players EXCEPT ![k] = NULL] /\ cb' = [cb EXCEPT ![u] = "clearing"]
      /\ UNCHANGED <<record, numberOfPlayers, handler, seat, fault>>
  BY <1>3 DEF LeftClears
<1>6. Taken' = Taken /\ Taken \subseteq Seats
  BY <1>5, TakenIs DEF Taken
<1>7. \A i \in Taken : players'[i] = IF i = k THEN NULL ELSE players[i]
  BY <1>5, <1>6 DEF TypeOK
<1>8. cb'[u] = "clearing" /\ handler'[u] \in {"off", "on"} /\ seat'[u].cb = k
  BY <1>3, <1>4, <1>5 DEF TypeOK
<1>9. \A i \in Taken' : ~Dangling(i)' \/ Going(u, i)'
  BY <1>4, <1>5, <1>6, <1>7, <1>8 DEF Dangling, Going
<1>10. \A i, j \in Taken' : players'[i] = players'[j] => i = j
  <2>1. \A i \in Taken : players[i] # NULL
    BY <1>4, <1>6, DanglingIs, SlotsAre
  <2> QED BY <1>2, <1>6, <1>7, <2>1
<1>11. Placed(u)'
  BY <1>6, <1>8 DEF Placed
<1>12. \A v \in Users \ {u} : cb'[v] = "none" /\ handler'[v] \in {"off", "on"}
  BY <1>2, <1>5 DEF TypeOK
<1> QED BY <1>2, <1>5, <1>9, <1>10, <1>11, <1>12, SoundNext

(* A player goes from seat k, the players behind move up.                   *)
LEMMA WithoutMoves ==
  ASSUME TypeOK, NEW k \in Taken, players' = Without(players, k),
         numberOfPlayers' = numberOfPlayers - 1
  PROVE  /\ \A i \in Taken' : /\ Past(k, i) \in Taken \ {k}
                              /\ players'[i] = players[Past(k, i)]
         /\ \A i, j \in Taken' : Past(k, i) = Past(k, j) => i = j
         /\ \A h \in Taken \ {k} : \E i \in Taken' : Past(k, i) = h
<1>1. /\ numberOfPlayers \in Nat /\ Taken = 0 .. numberOfPlayers - 1
      /\ Taken \subseteq Seats
  BY TakenIs
<1>2. Taken' = 0 .. numberOfPlayers - 2
  BY <1>1 DEF Taken, Seats, TypeOK
<1>3. \A i \in Taken' : players'[i] = players[Past(k, i)]
  BY <1>1, <1>2 DEF Without, Past
<1>4. /\ \A i \in Taken' : Past(k, i) \in Taken \ {k}
      /\ \A i, j \in Taken' : Past(k, i) = Past(k, j) => i = j
      /\ \A h \in Taken \ {k} : \E i \in Taken' : Past(k, i) = h
  BY <1>1, <1>2, PastIs
<1> QED BY <1>3, <1>4

LEMMA SoundWithout ==
  ASSUME TypeOK, NEW k \in Taken, players' = Without(players, k),
         numberOfPlayers' = numberOfPlayers - 1, UNCHANGED record,
         \A i \in Taken \ {k} : ~Dangling(i),
         \A i, j \in Taken : players[i] = players[j] => i = j
  PROVE  /\ \A i \in Taken' : ~Dangling(i)'
         /\ \A i, j \in Taken' : players'[i] = players'[j] => i = j
<1>1. /\ \A i \in Taken' : /\ Past(k, i) \in Taken \ {k}
                           /\ players'[i] = players[Past(k, i)]
      /\ \A i, j \in Taken' : Past(k, i) = Past(k, j) => i = j
  BY WithoutMoves
<1>2. ASSUME NEW i \in Taken' PROVE ~Dangling(i)'
  <2>1. ~Dangling(Past(k, i)) /\ players'[i] = players[Past(k, i)]
    BY <1>1
  <2> QED BY <2>1 DEF Dangling
<1>3. \A i, j \in Taken' : players'[i] = players'[j] => i = j
  BY <1>1
<1> QED BY <1>2, <1>3

LEMMA SoundLeftRemoves ==
  ASSUME TypeOK, TypeOK', Sound, Tidy, NEW u \in Users, LeftRemoves(u)
  PROVE  Sound'
<1>1. cb[u] = "clearing" /\ u \in Busy
  BY DEF LeftRemoves, Busy
<1>2. /\ \A v \in Users \ {u} : cb[v] = "none" /\ handler[v] \in {"off", "on"}
      /\ \A i \in Taken : ~Dangling(i) \/ Going(u, i)
      /\ Placed(u) /\ fault # "null"
      /\ \A i, j \in Taken : players[i] = players[j] => i = j
  BY <1>1, AtWork
<1>3. PICK k \in Taken : k = seat[u].cb
  BY <1>1, <1>2 DEF Placed
<1>4. handler[u] \in {"off", "on"} /\ \A i \in Taken \ {k} : ~Dangling(i)
  BY <1>1, <1>2, <1>3 DEF Placed, Going
<1>5. /\ players' = Without(players, k) /\ cb' = [cb EXCEPT ![u] = "looking"]
      /\ numberOfPlayers' = numberOfPlayers - 1
      /\ UNCHANGED <<record, handler, seat, fault>>
  BY <1>3 DEF LeftRemoves
<1>6. /\ \A i \in Taken' : ~Dangling(i)'
      /\ \A i, j \in Taken' : players'[i] = players'[j] => i = j
  BY <1>2, <1>4, <1>5, SoundWithout
<1>7. cb'[u] = "looking" /\ handler'[u] \in {"off", "on"}
  BY <1>4, <1>5 DEF TypeOK
<1>8. Placed(u)'
  BY <1>7 DEF Placed
<1>9. \A v \in Users \ {u} : cb'[v] = "none" /\ handler'[v] \in {"off", "on"}
  BY <1>2, <1>5 DEF TypeOK
<1> QED BY <1>2, <1>5, <1>6, <1>8, <1>9, SoundNext

LEMMA SoundQuitBegins ==
  ASSUME TypeOK, TypeOK', Sound, Tidy, Tidy', NEW u \in Users, QuitBegins(u)
  PROVE  Sound'
<1>1. /\ cb[u] = "none" /\ fault # "null"
      /\ \A v \in Users \ {u} : cb[v] = "none" /\ handler[v] \in {"off", "on"}
      /\ \A i \in Taken : ~Dangling(i)
      /\ \A i, j \in Taken : players[i] = players[j] => i = j
  BY AtRest DEF QuitBegins
<1>2. UNCHANGED <<players, numberOfPlayers, record, cb, fault>> /\ Taken' = Taken
  BY DEF QuitBegins, room, Taken
<1>3. \A i \in Taken' : ~Dangling(i)'
  BY <1>1, <1>2 DEF Dangling
<1>4. \A v \in Users \ {u} : cb'[v] = "none" /\ handler'[v] \in {"off", "on"}
  BY <1>1, <1>2 DEF QuitBegins, TypeOK
<1>5. Placed(u)'
  <2>1. ASSUME NEW k \in Seats, Finds(0, u, k), handler' = [handler EXCEPT ![u] = "found"],
               seat' = [seat EXCEPT ![u].handler = k]
        PROVE  Placed(u)'
    <3>1. handler'[u] = "found" /\ cb'[u] = "none" /\ seat'[u].handler = k
      BY <1>1, <1>2, <2>1 DEF TypeOK
    <3>2. k \in Taken'
      BY <1>2, <2>1 DEF Finds
    <3> QED BY <3>1, <3>2 DEF Placed
  <2>2. ASSUME handler' = [handler EXCEPT ![u] = "leaving"] PROVE Placed(u)'
    <3>1. handler'[u] = "leaving" /\ cb'[u] = "none"
      BY <1>1, <1>2, <2>2 DEF TypeOK
    <3> QED BY <3>1 DEF Placed
  <2> QED BY <2>1, <2>2 DEF QuitBegins
<1> QED BY <1>1, <1>2, <1>3, <1>4, <1>5, SoundNext

LEMMA SoundQuitClears ==
  ASSUME TypeOK, TypeOK', Sound, Tidy, NEW u \in Users, QuitClears(u)
  PROVE  Sound'
<1>1. handler[u] = "found" /\ u \in Busy
  BY DEF QuitClears, Busy
<1>2. /\ \A v \in Users \ {u} : cb[v] = "none" /\ handler[v] \in {"off", "on"}
      /\ \A i \in Taken : ~Dangling(i) \/ Going(u, i)
      /\ Placed(u) /\ fault # "null"
      /\ \A i, j \in Taken : players[i] = players[j] => i = j
  BY <1>1, AtWork
<1>3. PICK k \in Taken : k = seat[u].handler
  BY <1>1, <1>2 DEF Placed
<1>4. cb[u] = "none" /\ \A i \in Taken : ~Dangling(i)
  BY <1>1, <1>2 DEF Placed, Going, TypeOK
<1>5. /\ record' = [record EXCEPT ![players[k]].client = NULL]
      /\ handler' = [handler EXCEPT ![u] = "clearing"]
      /\ UNCHANGED <<players, numberOfPlayers, cb, seat, fault>>
  BY <1>3 DEF QuitClears
<1>6. Taken' = Taken /\ Taken \subseteq Seats
  BY <1>5, TakenIs DEF Taken
<1>7. handler'[u] = "clearing" /\ cb'[u] = "none" /\ seat'[u].handler = k
  BY <1>3, <1>4, <1>5 DEF TypeOK
<1>8. \A i \in Taken : players[i] \in Records
        /\ (i # k => record'[players[i]] = record[players[i]])
  BY <1>2, <1>4, <1>5, <1>6, DanglingIs DEF TypeOK
<1>9. \A i \in Taken' : ~Dangling(i)' \/ Going(u, i)'
  BY <1>4, <1>5, <1>6, <1>7, <1>8 DEF Dangling, Going
<1>10. Placed(u)'
  BY <1>6, <1>7 DEF Placed
<1>11. \A v \in Users \ {u} : cb'[v] = "none" /\ handler'[v] \in {"off", "on"}
  BY <1>2, <1>5 DEF TypeOK
<1> QED BY <1>2, <1>5, <1>6, <1>9, <1>10, <1>11, SoundNext

LEMMA SoundQuitRemoves ==
  ASSUME TypeOK, TypeOK', Sound, Tidy, NEW u \in Users, QuitRemoves(u)
  PROVE  Sound'
<1>1. handler[u] = "clearing" /\ u \in Busy
  BY DEF QuitRemoves, Busy
<1>2. /\ \A v \in Users \ {u} : cb[v] = "none" /\ handler[v] \in {"off", "on"}
      /\ \A i \in Taken : ~Dangling(i) \/ Going(u, i)
      /\ Placed(u) /\ fault # "null"
      /\ \A i, j \in Taken : players[i] = players[j] => i = j
  BY <1>1, AtWork
<1>3. PICK k \in Taken : k = seat[u].handler
  BY <1>1, <1>2 DEF Placed
<1>4. cb[u] = "none" /\ \A i \in Taken \ {k} : ~Dangling(i)
  BY <1>1, <1>2, <1>3 DEF Placed, Going, TypeOK
<1>5. /\ players' = Without(players, k) /\ handler' = [handler EXCEPT ![u] = "leaving"]
      /\ numberOfPlayers' = numberOfPlayers - 1
      /\ UNCHANGED <<record, cb, fault>>
  BY <1>3 DEF QuitRemoves
<1>6. /\ \A i \in Taken' : ~Dangling(i)'
      /\ \A i, j \in Taken' : players'[i] = players'[j] => i = j
  BY <1>2, <1>4, <1>5, SoundWithout
<1>7. handler'[u] = "leaving" /\ cb'[u] = "none"
  BY <1>4, <1>5 DEF TypeOK
<1>8. Placed(u)'
  BY <1>7 DEF Placed
<1>9. \A v \in Users \ {u} : cb'[v] = "none" /\ handler'[v] \in {"off", "on"}
  BY <1>2, <1>5 DEF TypeOK
<1> QED BY <1>2, <1>5, <1>6, <1>8, <1>9, SoundNext

(* The room stays as it is.                                                 *)
LEMMA SoundKept ==
  ASSUME Sound, Tidy, UNCHANGED <<room, cb, pointer, seat>>, fault' # "null",
         \A v \in Users : \/ handler'[v] = handler[v]
                          \/ handler'[v] \in {"off", "on"} /\ handler[v] # "clearing"
  PROVE  Sound'
<1>1. /\ UNCHANGED <<players, numberOfPlayers, record, cb, pointer, seat>>
      /\ Taken' = Taken /\ \A i : Dangling(i)' = Dangling(i)
  BY DEF room, Taken, Dangling
<1>2. Busy' \subseteq Busy
  BY <1>1 DEF Busy
<1>3. \A v \in Users : \A i : Going(v, i) => Going(v, i)'
  BY <1>1 DEF Going
<1>4. \A v \in Users : Placed(v)'
  BY <1>1 DEF Placed, Sound
<1> QED BY <1>1, <1>2, <1>3, <1>4 DEF Sound

LEMMA SoundConnect ==
  ASSUME TypeOK, Sound, Tidy, NEW u \in Users, Connect(u) PROVE Sound'
<1>1. \A v \in Users : \/ handler'[v] = handler[v]
                       \/ handler'[v] \in {"off", "on"} /\ handler[v] # "clearing"
  BY DEF Connect, TypeOK
<1>2. UNCHANGED <<room, cb, pointer, seat, fault>> /\ fault # "null"
  BY DEF Connect, Sound
<1> QED BY <1>1, <1>2, SoundKept

LEMMA SoundUnlist ==
  ASSUME TypeOK, Sound, Tidy, Tidy', NEW u \in Users, Unlist(u) PROVE Sound'
<1>1. \A v \in Users : \/ handler'[v] = handler[v]
                       \/ handler'[v] \in {"off", "on"} /\ handler[v] # "clearing"
  BY DEF Unlist, TypeOK
<1>2. UNCHANGED <<room, cb, pointer, seat, fault>> /\ fault # "null"
  BY DEF Unlist, Sound
<1> QED BY <1>1, <1>2, SoundKept

(* A callback or a handler that is alone meets no null pointer.             *)
LEMMA SoundFaults ==
  ASSUME TypeOK, Sound, Tidy, Tidy', NEW u \in Users,
         JoinFaults(u) \/ LeftFaults(u) \/ QuitFaults(u) \/ ListFaults(u)
  PROVE  Sound'
<1>1. CASE Dies("bounds")
  <2>1. UNCHANGED <<room, cb, pointer, seat, handler>> /\ fault' # "null"
    BY <1>1 DEF Dies, work
  <2> QED BY <2>1, SoundKept
<1>2. CASE \E i \in Taken : Dangling(i) /\ DiesAtOnce
  BY <1>2, AtRest DEF DiesAtOnce
<1>3. CASE cb[u] \in {"found", "set"} /\ players[numberOfPlayers] = NULL
  BY <1>3, SlotsAre DEF Sound, Placed
<1>4. CASE cb[u] = "looking" /\ \E i \in Taken : Dangling(i)
  <2>1. u \in Busy
    BY <1>4 DEF Busy
  <2>2. /\ \A i \in Taken : ~Dangling(i) \/ Going(u, i)
        /\ Placed(u)
    BY <2>1, AtWork
  <2> QED BY <1>4, <2>2 DEF Going, Placed
<1>5. CASE handler[u] = "found" /\ players[seat[u].handler] = NULL
  <2>1. u \in Busy
    BY <1>5 DEF Busy
  <2>2. /\ \A i \in Taken : ~Dangling(i) \/ Going(u, i)
        /\ Placed(u)
    BY <2>1, AtWork
  <2>3. seat[u].handler \in Taken /\ ~Dangling(seat[u].handler)
    BY <1>5, <2>2 DEF Going, Placed
  <2> QED BY <1>5, <2>3, SlotsAre DEF Dangling
<1>6. \A k : Stumbles(k, u) => \E i \in Taken : Dangling(i)
  BY DEF Stumbles
<1> QED
  BY <1>1, <1>2, <1>3, <1>4, <1>5, <1>6
  DEF JoinFaults, LeftFaults, QuitFaults, ListFaults

(* What has overlapped has overlapped for good.                             *)
LEMMA TidyBefore == ASSUME [Next]_vars, Tidy' PROVE Tidy
<1>1. ASSUME NEW u \in Users, App(u) PROVE Tidy
  BY <1>1 DEF Tidy, App, Connect, OpenRoom, AppJoins, AppLeaves, QuitBegins, ListFaults,
     DiesAtOnce, Overlaps
<1>2. ASSUME NEW u \in Users, Network(u) PROVE Tidy
  BY <1>2 DEF Tidy, Network, JoinBegins, LeftBegins, Lose, Overlaps
<1>3. ASSUME NEW u \in Users, Threads(u) PROVE Tidy
  BY <1>3 DEF Tidy, Threads, JoinSets, JoinCounts, JoinFaults, Dies, LeftClears,
     LeftRemoves, LeftGoesOn, LeftFaults, QuitClears, QuitRemoves, QuitFaults, Unlist,
     DiesAtOnce, Overlaps
<1>4. CASE RoomEnds \/ UNCHANGED vars
  BY <1>4 DEF Tidy, RoomEnds, vars
<1> QED BY <1>1, <1>2, <1>3, <1>4 DEF Next, Dead

LEMMA SoundStep ==
  ASSUME TypeOK, TypeOK', TableInv, Sound, [Next]_vars PROVE Sound'
<1> SUFFICES ASSUME Tidy' PROVE Sound'
  BY DEF Sound
<1>0. Tidy
  BY TidyBefore
<1>1. CASE UNCHANGED <<room, cb, pointer, seat, handler, fault>>
  BY <1>0, <1>1, SoundKept DEF Sound
<1>2. ASSUME NEW u \in Users, App(u) PROVE Sound'
  <2>1. CASE AppJoins(u) \/ AppLeaves(u)
    BY <1>1, <2>1 DEF AppJoins, AppLeaves, work
  <2> QED BY <1>0, <1>2, <2>1, SoundConnect, SoundOpenRoom, SoundQuitBegins, SoundFaults
          DEF App
<1>3. ASSUME NEW u \in Users, Network(u) PROVE Sound'
  <2>1. ASSUME NEW what \in {"JOINED", "LEFT"}, Lose(u, what) PROVE Sound'
    BY <1>1, <2>1 DEF Lose, work
  <2> QED BY <1>0, <1>3, <2>1, SoundJoinBegins, SoundLeftBegins DEF Network
<1>4. ASSUME NEW u \in Users, Threads(u) PROVE Sound'
  BY <1>0, <1>4, SoundJoinSets, SoundJoinCounts, SoundLeftClears, SoundLeftRemoves,
     SoundLeftGoesOn, SoundQuitClears, SoundQuitRemoves, SoundUnlist, SoundFaults
  DEF Threads
<1>5. CASE RoomEnds \/ UNCHANGED vars
  BY <1>1, <1>5 DEF RoomEnds, vars, work
<1> QED BY <1>2, <1>3, <1>4, <1>5 DEF Next, Dead

LEMMA SoundInit == Init => Sound
<1> SUFFICES ASSUME Init PROVE Sound
  OBVIOUS
<1>1. Taken = {} /\ Busy = {}
  BY DEF Init, Taken, Seats, Busy
<1> QED BY <1>1 DEF Init, Sound, Placed

(* Datagrams and disconnections handled one after the other, however many   *)
(* users and seats there are, leave every player a record of its own with a *)
(* client, although entries of clients[] move under them and datagrams are  *)
(* lost, doubled or late, as long as each JOINED is of a user in clients[]. *)
THEOREM RecordsCorrect == Spec => []RecordsSoundAlone
<1>1. TypeOK /\ Sound => RecordsSoundAlone
  <2> SUFFICES ASSUME TypeOK, Sound, Tidy PROVE RecordsSoundAlone
    BY DEF RecordsSoundAlone, Tidy
  <2>1. \A u \in Users : \A i : Going(u, i) => i \in Cleared
    BY DEF Going, Cleared
  <2> QED BY <2>1 DEF RecordsSoundAlone, Sound
<1> QED
  BY <1>1, InitTypes, TypeStep, TableStep, SoundInit, SoundStep, PTL DEF Spec

-----------------------------------------------------------------------------
(* What holds while besides no entry of clients[] has moved under a player  *)
(* and each datagram has come once and in time.                             *)
Calm == ~disturbed

LEMMA CalmIs == (Calm => Tidy /\ ~strayed) /\ (Calm' => Tidy' /\ ~strayed')
  BY DEF Calm, disturbed, Tidy

Of(i) == record[players[i]].of
Client(i) == record[players[i]].client
Kept == {i \in Taken : ~Dangling(i)}

(* The player at i goes by its own name, the room has a player u. *)
Entered(i) == Of(i) \in Users /\ Client(i) \in Listed /\ clients[Client(i)] = Of(i)
Has(u) == \E i \in Kept : Of(i) = u

(* What user u is at is about u. *)
Known(u) ==
  /\ cb[u] \in {"found", "set"} => u \in told
  /\ cb[u] \in {"leaving", "clearing", "looking"} => u \notin told
  /\ cb[u] = "leaving" => Of(seat[u].cb) = u
  /\ handler[u] = "found" => Of(seat[u].handler) = u
  /\ cb[u] = "found" => pointer[u] \in Listed /\ clients[pointer[u]] = u
  /\ cb[u] = "set" => Of(numberOfPlayers) = u /\ Entered(numberOfPlayers)

Named ==
  Calm =>
    /\ \A u \in Users : \A i : Going(u, i) => Dangling(i)
    /\ \A i \in Kept : Entered(i)
    /\ \A i, j \in Kept : Of(i) = Of(j) => i = j
    /\ \A u \in Users :
         Has(u) <=> (u \in told /\ cb[u] \notin {"found", "set"}) \/ u \in Quitting
    /\ \A u \in Users : Known(u)

(* What is on its way for user u, to a room that has or has not its app. *)
Coming(what, u) == <<what, u>> \in sent
Heard(u) ==
  /\ ~(Coming("JOINED", u) /\ Coming("LEFT", u))
  /\ Coming("JOINED", u) => u \in inside /\ u \notin told
  /\ Coming("LEFT", u) => u \notin inside
  /\ ~OnItsWay(u) => (u \in told <=> u \in inside)

Mailed ==
  /\ stage = "none" => sent = {} /\ told = {}
  /\ Calm /\ stage # "listed" => told = {}
  /\ ~strayed => \A u \in Users : Heard(u)

LEMMA KeptIs ==
  ASSUME TypeOK
  PROVE  \A i \in Kept : /\ i \in Taken /\ i \in Seats /\ players[i] \in Records
                         /\ Client(i) \in Slots
  BY TakenIs, DanglingIs DEF Kept, Client

LEMMA NamedNow ==
  ASSUME Named, Calm, NEW u \in Users,
         \A v \in Users \ {u} : cb[v] = "none" /\ handler[v] \in {"off", "on"}
  PROVE  /\ \A v \in Users \ {u} : Has(v) <=> v \in told
         /\ Has(u) <=> (u \in told /\ cb[u] \notin {"found", "set"}) \/ u \in Quitting
         /\ \A i \in Kept : Entered(i)
         /\ \A i, j \in Kept : Of(i) = Of(j) => i = j
         /\ \A i : Going(u, i) => Dangling(i)
         /\ Known(u)
<1>1. \A v \in Users \ {u} : v \notin Quitting /\ cb[v] \notin {"found", "set"}
  BY DEF Quitting
<1> QED BY <1>1 DEF Named

LEMMA NamedNext ==
  ASSUME NEW u \in Users,
         \A v \in Users \ {u} : cb'[v] = "none" /\ handler'[v] \in {"off", "on"},
         \A v \in Users \ {u} : Has(v)' <=> v \in told',
         Has(u)' <=> (u \in told' /\ cb'[u] \notin {"found", "set"}) \/ u \in Quitting',
         \A i \in Kept' : Entered(i)',
         \A i, j \in Kept' : Of(i)' = Of(j)' => i = j,
         \A i : Going(u, i)' => Dangling(i)',
         Known(u)'
  PROVE  Named'
<1>1. \A v \in Users \ {u} : v \notin Quitting' /\ cb'[v] \notin {"found", "set"}
  BY DEF Quitting
<1>2. \A v \in Users \ {u} : Known(v)' /\ \A i : ~Going(v, i)'
  BY DEF Known, Going
<1>3. \A v \in Users :
        Has(v)' <=> (v \in told' /\ cb'[v] \notin {"found", "set"}) \/ v \in Quitting'
  BY <1>1
<1>4. /\ \A v \in Users : Known(v)'
      /\ \A v \in Users : \A i : Going(v, i)' => Dangling(i)'
  BY <1>2
<1> QED BY <1>3, <1>4 DEF Named

(* Nothing happens to the room, nor to the entries its players point at.    *)
LEMMA NamedKept ==
  ASSUME Named, Calm, UNCHANGED <<room, cb, pointer, seat, told>>,
         \A v \in Users : \/ handler'[v] = handler[v]
                          \/ {handler[v], handler'[v]} \cap {"found", "clearing"} = {},
         NEW D, \A c \in D : c \in Listed' /\ clients'[c] = clients[c],
         \A i \in Kept : Client(i) \in D,
         \A v \in Users : /\ cb[v] = "found" => pointer[v] \in D
                          /\ cb[v] = "set" => Client(numberOfPlayers) \in D
  PROVE  Named'
<1>1. /\ UNCHANGED <<players, numberOfPlayers, record, cb, pointer, seat, told>>
      /\ Kept' = Kept /\ \A i : Dangling(i)' = Dangling(i)
      /\ \A i : Of(i)' = Of(i) /\ Client(i)' = Client(i)
  BY DEF room, Taken, Dangling, Kept, Of, Client
<1>2. \A i : Entered(i) /\ Client(i) \in D => Entered(i)'
  BY <1>1 DEF Entered
<1>3. \A v \in Users : \A i : Going(v, i)' => Dangling(i)'
  BY <1>1 DEF Going, Named
<1>4. \A v \in Users : Has(v)' = Has(v) /\ (v \in Quitting' <=> v \in Quitting)
  BY <1>1 DEF Has, Quitting
<1>5. \A v \in Users : Known(v)'
  BY <1>1, <1>2 DEF Known, Named
<1>6. /\ \A i \in Kept' : Entered(i)'
      /\ \A i, j \in Kept' : Of(i)' = Of(j)' => i = j
      /\ \A v \in Users :
           Has(v)' <=> (v \in told' /\ cb'[v] \notin {"found", "set"}) \/ v \in Quitting'
  BY <1>1, <1>2, <1>4 DEF Named
<1> QED BY <1>3, <1>5, <1>6 DEF Named

LEMMA NamedConnect ==
  ASSUME TypeOK, TableInv, Sound, Named, Calm, NEW u \in Users, Connect(u)
  PROVE  Named'
<1>1. /\ num_clients < Cardinality(Users) /\ num_clients' = num_clients + 1
      /\ clients' = [clients EXCEPT ![num_clients] = u]
      /\ handler[u] = "off" /\ handler' = [handler EXCEPT ![u] = "on"]
      /\ UNCHANGED <<room, cb, pointer, seat, told>>
  BY RoomToConnect DEF Connect
<1>2. PICK D : D = Listed
  OBVIOUS
<1>3. \A c \in D : c \in Listed' /\ clients'[c] = clients[c]
  BY <1>1, <1>2, ListedIs DEF TypeOK, Listed, Slots
<1>4. \A v \in Users : \/ handler'[v] = handler[v]
                       \/ {handler[v], handler'[v]} \cap {"found", "clearing"} = {}
  BY <1>1 DEF TypeOK
<1>5. \A i \in Kept : Client(i) \in D
  BY <1>2 DEF Named, Entered
<1>6. \A v \in Users : /\ cb[v] = "found" => pointer[v] \in D
                       /\ cb[v] = "set" => Client(numberOfPlayers) \in D
  BY <1>2 DEF Named, Entered, Known
<1>7. UNCHANGED <<room, cb, pointer, seat, told>>
  BY <1>1
<1> QED BY <1>3, <1>4, <1>5, <1>6, <1>7, NamedKept

(* An entry leaves clients[] behind those of the players.                   *)
LEMMA NamedUnlist ==
  ASSUME TypeOK, TableInv, Sound, Named, Calm, Calm', NEW u \in Users, Unlist(u)
  PROVE  Named'
<1>1. PICK g \in Listed :
        /\ g = Min(SlotsOf(u))
        /\ num_clients' = num_clients - 1 /\ Listed' = 0 .. num_clients - 2
        /\ \A i \in Listed' : clients'[i] = clients[Past(g, i)]
  BY UnlistIs
<1>2. /\ \A v \in Users : cb[v] = "none"
      /\ \A i \in Taken : ~(record[players[i]].client >= g)
      /\ handler[u] = "leaving" /\ handler' = [handler EXCEPT ![u] = "off"]
      /\ UNCHANGED <<room, cb, pointer, seat, told>>
  BY <1>1 DEF Unlist, Calm, disturbed
<1> DEFINE D == 0 .. g - 1
<1>3. \A c \in D : c \in Listed' /\ clients'[c] = clients[c]
  BY <1>1, ListedIs DEF Past
<1>4. \A i \in Kept : Client(i) \in D
  <2>1. TAKE i \in Kept
  <2>2. Client(i) \in Slots /\ ~(Client(i) >= g)
    BY <1>2, KeptIs DEF Client
  <2> QED BY <2>2, ListedIs DEF Slots
<1>5. \A v \in Users : \/ handler'[v] = handler[v]
                       \/ {handler[v], handler'[v]} \cap {"found", "clearing"} = {}
  BY <1>2 DEF TypeOK
<1> HIDE DEF D
<1> QED BY <1>2, <1>3, <1>4, <1>5, NamedKept
(* No entry of clients[] moves, and the players that stay keep records.     *)
LEMMA RoomSame ==
  ASSUME Named, Calm, UNCHANGED <<clients, num_clients>>, Kept' = Kept,
         \A i \in Kept : Of(i)' = Of(i) /\ Client(i)' = Client(i)
  PROVE  /\ \A i \in Kept' : Entered(i)'
         /\ \A i, j \in Kept' : Of(i)' = Of(j)' => i = j
         /\ \A v \in Users : Has(v)' <=> Has(v)
<1>1. Listed' = Listed
  BY DEF Listed
<1>2. \A i \in Kept' : Entered(i)'
  BY <1>1 DEF Entered, Named
<1>3. \A i, j \in Kept' : Of(i)' = Of(j)' => i = j
  BY DEF Named
<1>4. \A v \in Users : Has(v)' <=> Has(v)
  BY DEF Has
<1> QED BY <1>2, <1>3, <1>4

LEMMA RoomUnchanged ==
  ASSUME UNCHANGED room
  PROVE  /\ UNCHANGED <<players, numberOfPlayers, record>>
         /\ Taken' = Taken /\ Kept' = Kept
         /\ \A i : /\ Dangling(i)' = Dangling(i)
                   /\ Of(i)' = Of(i) /\ Client(i)' = Client(i)
  BY DEF room, Taken, Kept, Dangling, Of, Client

LEMMA NamedOpenRoom ==
  ASSUME TypeOK, TypeOK', TableInv, Sound, Named, Calm, Calm', NEW u \in Users, OpenRoom(u)
  PROVE  Named'
<1>1. /\ cb[u] = "none" /\ handler[u] = "on"
      /\ \A v \in Users \ {u} : cb[v] = "none" /\ handler[v] \in {"off", "on"}
  BY AtRest, CalmIs DEF OpenRoom
<1>2. PICK c \in Listed : c = Min(SlotsOf(u)) /\ clients[c] = u
  BY SlotIs DEF OpenRoom
<1>3. PICK f \in Records : f = Fresh
  BY FreshIs DEF TypeOK
<1>4. /\ players' = [players EXCEPT ![0] = f]
      /\ record' = [record EXCEPT ![f] = [client |-> c, of |-> u]]
      /\ numberOfPlayers' = 1 /\ told' = {u}
      /\ UNCHANGED <<cb, handler, clients, num_clients>>
  BY <1>2, <1>3 DEF OpenRoom, work, table
<1>5. 0 \in Seats /\ Taken' = {0} /\ Listed' = Listed /\ c \in Slots
  BY <1>4, ListedIs, MembersAssumption DEF Taken, Seats, Listed
<1>6. players'[0] = f /\ record'[f].client = c /\ record'[f].of = u
  BY <1>4, <1>5 DEF TypeOK
<1>7. Kept' = {0} /\ Of(0)' = u /\ Client(0)' = c
  <2>1. ~Dangling(0)'
    BY <1>5, <1>6, SlotsAre DEF Dangling
  <2>2. Of(0)' = u /\ Client(0)' = c
    BY <1>6 DEF Of, Client
  <2> QED BY <1>5, <2>1, <2>2 DEF Kept
<1>8. Entered(0)'
  BY <1>2, <1>4, <1>5, <1>7 DEF Entered
<1>9. \A v \in Users : Has(v)' <=> v \in told'
  BY <1>4, <1>7 DEF Has
<1>10. u \notin Quitting' /\ Known(u)' /\ \A i : ~Going(u, i)'
  BY <1>1, <1>4 DEF Quitting, Known, Going
<1> QED BY <1>1, <1>4, <1>7, <1>8, <1>9, <1>10, NamedNext

LEMMA NamedJoinBegins ==
  ASSUME TypeOK, TypeOK', TableInv, Sound, Named, Mailed, Calm, Calm', NEW u \in Users,
         JoinBegins(u)
  PROVE  Named'
<1>1. /\ cb[u] = "none" /\ handler[u] = "on" /\ u \notin told
      /\ \A v \in Users \ {u} : cb[v] = "none" /\ handler[v] \in {"off", "on"}
      /\ \A i \in Taken : ~Dangling(i)
  <2>1. u \notin told
    BY CalmIs DEF JoinBegins, Arrives, Mailed, Heard, Coming
  <2> QED BY <2>1, AtRest, JoinIsListed, CalmIs DEF JoinBegins
<1>2. PICK c \in Listed : c = Min(SlotsOf(u)) /\ clients[c] = u
  BY SlotIs, <1>1
<1>3. PICK f \in Records : f = Fresh /\ \A i \in Seats : players[i] # f
  BY FreshIs DEF TypeOK
<1>4. /\ numberOfPlayers \in Seats
      /\ players' = [players EXCEPT ![numberOfPlayers] = f]
      /\ record' = [record EXCEPT ![f] = [client |-> Unset, of |-> Unset]]
      /\ pointer' = [pointer EXCEPT ![u] = c]
      /\ cb' = [cb EXCEPT ![u] = "found"] /\ told' = told \cup {u}
      /\ UNCHANGED <<numberOfPlayers, handler, seat, clients, num_clients>>
  BY <1>1, <1>2, <1>3, JoinIsListed, CalmIs DEF JoinBegins, table
<1>6. Taken' = Taken /\ numberOfPlayers \notin Taken /\ Taken \subseteq Seats
  BY <1>4, TakenIs DEF Taken
<1>7. \A i \in Taken : players'[i] = players[i] /\ record'[players[i]] = record[players[i]]
  BY <1>3, <1>4, <1>6 DEF TypeOK
<1>8. \A i \in Taken : ~Dangling(i)' /\ Of(i)' = Of(i) /\ Client(i)' = Client(i)
  <2>1. TAKE i \in Taken
  <2>2. /\ players[i] \in Records /\ record'[players[i]] = record[players[i]]
        /\ players'[i] = players[i] /\ ~Dangling(i)
    BY <1>1, <1>6, <1>7, DanglingIs
  <2> QED BY <2>2 DEF Dangling, Of, Client
<1>9. Kept' = Kept
  BY <1>1, <1>6, <1>8 DEF Kept
<1>10. /\ \A i \in Kept' : Entered(i)'
       /\ \A i, j \in Kept' : Of(i)' = Of(j)' => i = j
       /\ \A v \in Users : Has(v)' <=> Has(v)
  BY <1>4, <1>8, <1>9, RoomSame DEF Kept
<1>11. /\ \A v \in Users \ {u} : Has(v) <=> v \in told
       /\ Has(u) <=> (u \in told /\ cb[u] \notin {"found", "set"}) \/ u \in Quitting
  BY <1>1, NamedNow
<1>12. /\ \A v \in Users \ {u} : cb'[v] = "none" /\ handler'[v] \in {"off", "on"}
       /\ cb'[u] = "found" /\ handler'[u] = "on" /\ pointer'[u] = c
  BY <1>1, <1>4 DEF TypeOK
<1>13. u \notin Quitting /\ u \notin Quitting' /\ \A i : ~Going(u, i)'
  BY <1>1, <1>12 DEF Quitting, Going
<1>14. Known(u)'
  BY <1>2, <1>4, <1>12 DEF Known, Listed
<1>15. /\ \A v \in Users \ {u} : Has(v)' <=> v \in told'
       /\ ~Has(u)'
  BY <1>1, <1>4, <1>10, <1>11, <1>13
<1> QED BY <1>10, <1>12, <1>13, <1>14, <1>15, NamedNext

LEMMA NamedJoinSets ==
  ASSUME TypeOK, TypeOK', Sound, Named, Calm, NEW u \in Users, JoinSets(u)
  PROVE  Named'
<1>1. cb[u] = "found" /\ u \in Busy
  BY DEF JoinSets, Busy
<1>2. /\ \A v \in Users \ {u} : cb[v] = "none" /\ handler[v] \in {"off", "on"}
      /\ \A i \in Taken : ~Dangling(i) \/ Going(u, i)
      /\ Placed(u)
  BY <1>1, AtWork, CalmIs
<1>3. /\ handler[u] \in {"off", "on"} /\ numberOfPlayers \in Seats
      /\ \A i \in Taken : players[i] # players[numberOfPlayers]
  BY <1>1, <1>2 DEF Placed
<1>4. PICK r \in Records : r = players[numberOfPlayers]
  BY <1>1, <1>2 DEF Placed
<1>5. PICK c \in Listed : c = pointer[u] /\ clients[c] = u
  BY <1>1, <1>2, NamedNow DEF Known
<1>6. /\ record' = [record EXCEPT ![r] = [client |-> c, of |-> u]]
      /\ cb' = [cb EXCEPT ![u] = "set"]
      /\ UNCHANGED <<players, numberOfPlayers, handler, pointer, seat, told, clients,
                     num_clients>>
  BY <1>4, <1>5 DEF JoinSets, table
<1>7. \A i \in Taken : ~Dangling(i)
  BY <1>1, <1>2, <1>3 DEF Going
<1>8. Taken' = Taken /\ Taken \subseteq Seats /\ Listed' = Listed
  BY <1>6, TakenIs DEF Taken, Listed
<1>9. \A i \in Taken : players[i] \in Records /\ record'[players[i]] = record[players[i]]
  BY <1>3, <1>4, <1>6, <1>7, <1>8, DanglingIs DEF TypeOK
<1>10. \A i \in Taken : ~Dangling(i)' /\ Of(i)' = Of(i) /\ Client(i)' = Client(i)
  BY <1>6, <1>7, <1>9 DEF Dangling, Of, Client
<1>11. Kept' = Kept /\ Kept = Taken
  BY <1>7, <1>8, <1>10 DEF Kept
<1>12. /\ \A i \in Kept' : Entered(i)'
       /\ \A i, j \in Kept' : Of(i)' = Of(j)' => i = j
       /\ \A v \in Users : Has(v)' <=> Has(v)
  BY <1>6, <1>10, <1>11, RoomSame
<1>13. /\ \A v \in Users \ {u} : Has(v) <=> v \in told
       /\ Has(u) <=> (u \in told /\ cb[u] \notin {"found", "set"}) \/ u \in Quitting
       /\ u \in told
  BY <1>1, <1>2, NamedNow DEF Known
<1>14. /\ \A v \in Users \ {u} : cb'[v] = "none" /\ handler'[v] \in {"off", "on"}
       /\ cb'[u] = "set" /\ handler'[u] \in {"off", "on"}
  BY <1>2, <1>3, <1>6 DEF TypeOK
<1>15. u \notin Quitting /\ u \notin Quitting' /\ \A i : ~Going(u, i)'
  BY <1>1, <1>3, <1>14 DEF Quitting, Going
<1>16. record'[r].client = c /\ record'[r].of = u
  BY <1>6, ListedIs DEF TypeOK
<1>17. Of(numberOfPlayers)' = u /\ Client(numberOfPlayers)' = c
  BY <1>4, <1>6, <1>16 DEF Of, Client
<1>18. Entered(numberOfPlayers)'
  BY <1>5, <1>6, <1>8, <1>17 DEF Entered
<1>19. Known(u)'
  BY <1>6, <1>13, <1>14, <1>17, <1>18 DEF Known
<1>20. (\A v \in Users \ {u} : Has(v)' <=> v \in told') /\ ~Has(u)'
  BY <1>1, <1>6, <1>12, <1>13, <1>15
<1> QED BY <1>12, <1>14, <1>15, <1>19, <1>20, NamedNext

LEMMA NamedJoinCounts ==
  ASSUME TypeOK, TypeOK', Sound, Named, Calm, NEW u \in Users, JoinCounts(u)
  PROVE  Named'
<1>1. cb[u] = "set" /\ u \in Busy
  BY DEF JoinCounts, Busy
<1>2. /\ \A v \in Users \ {u} : cb[v] = "none" /\ handler[v] \in {"off", "on"}
      /\ \A i \in Taken : ~Dangling(i) \/ Going(u, i)
      /\ Placed(u)
  BY <1>1, AtWork, CalmIs
<1>3. PICK n \in Seats : n = numberOfPlayers
  BY <1>1, <1>2 DEF Placed
<1>4. handler[u] \in {"off", "on"} /\ ~Dangling(n) /\ Of(n) = u /\ Entered(n) /\ u \in told
  BY <1>1, <1>2, <1>3, NamedNow DEF Placed, Known
<1>5. /\ numberOfPlayers' = n + 1 /\ cb' = [cb EXCEPT ![u] = "none"]
      /\ UNCHANGED <<players, record, handler, seat, told, clients, num_clients>>
  BY <1>3 DEF JoinCounts, table
<1>6. Taken' = Taken \cup {n} /\ Listed' = Listed
  BY <1>3, <1>5, TakenIs DEF Taken, Seats, Listed
<1>7. \A i : Dangling(i)' = Dangling(i) /\ Of(i)' = Of(i) /\ Client(i)' = Client(i)
  BY <1>5 DEF Dangling, Of, Client
<1>8. Kept' = Kept \cup {n}
  BY <1>4, <1>6, <1>7 DEF Kept
<1>9. /\ \A v \in Users \ {u} : Has(v) <=> v \in told
      /\ Has(u) <=> (u \in told /\ cb[u] \notin {"found", "set"}) \/ u \in Quitting
      /\ \A i \in Kept : Entered(i)
      /\ \A i, j \in Kept : Of(i) = Of(j) => i = j
  BY <1>2, NamedNow
<1>10. u \notin Quitting /\ ~Has(u)
  BY <1>1, <1>4, <1>9 DEF Quitting
<1>11. \A i \in Kept : Of(i) # u
  BY <1>10 DEF Has
<1>12. \A i \in Kept' : Entered(i)'
  BY <1>4, <1>5, <1>6, <1>7, <1>8, <1>9 DEF Entered
<1>13. \A i, j \in Kept' : Of(i)' = Of(j)' => i = j
  BY <1>4, <1>7, <1>8, <1>9, <1>11
<1>14. \A v \in Users : Has(v)' <=> Has(v) \/ v = u
  BY <1>4, <1>7, <1>8 DEF Has
<1>15. /\ \A v \in Users \ {u} : cb'[v] = "none" /\ handler'[v] \in {"off", "on"}
       /\ cb'[u] = "none" /\ handler'[u] \in {"off", "on"}
  BY <1>2, <1>4, <1>5 DEF TypeOK
<1>16. Known(u)' /\ \A i : ~Going(u, i)'
  BY <1>15 DEF Known, Going
<1>17. (\A v \in Users \ {u} : Has(v)' <=> v \in told') /\ Has(u)' /\ u \in told'
  BY <1>4, <1>5, <1>9, <1>14
<1> QED BY <1>12, <1>13, <1>15, <1>16, <1>17, NamedNext

(* A loop that finds a user by name has found the player that it is.        *)
LEMMA CalledIs ==
  ASSUME TypeOK, Named, Calm, NEW u \in Users
  PROVE  /\ \A k : \A i \in Seats : Finds(k, u, i) => i \in Kept /\ Of(i) = u
         /\ FindsNone(0, u) => ~Has(u)
<1>1. \A i \in Taken : Called(i, u) <=> i \in Kept /\ clients[Client(i)] = u
  BY DEF Called, Kept, Client
<1>2. \A i \in Kept : clients[Client(i)] = Of(i) /\ i \in Taken /\ i >= 0
  BY KeptIs DEF Named, Entered, Seats
<1> QED BY <1>1, <1>2 DEF Finds, FindsNone, Has

LEMMA NamedLeftBegins ==
  ASSUME TypeOK, TypeOK', Sound, Named, Calm, Calm', NEW u \in Users, LeftBegins(u)
  PROVE  Named'
<1>1. /\ cb[u] = "none" /\ handler[u] \in {"off", "on"}
      /\ \A v \in Users \ {u} : cb[v] = "none" /\ handler[v] \in {"off", "on"}
  BY AtRest, CalmIs DEF LeftBegins
<1>2. /\ told' = told \ {u} /\ LeftLoop(u, 0)
      /\ UNCHANGED <<room, handler, clients, num_clients>>
  BY DEF LeftBegins, table
<1>3. Kept' = Kept /\ \A i : Of(i)' = Of(i) /\ Client(i)' = Client(i)
  BY <1>2, RoomUnchanged
<1>4. /\ \A i \in Kept' : Entered(i)'
      /\ \A i, j \in Kept' : Of(i)' = Of(j)' => i = j
      /\ \A v \in Users : Has(v)' <=> Has(v)
  BY <1>2, <1>3, RoomSame
<1>5. \A v \in Users \ {u} : Has(v) <=> v \in told
  BY <1>1, NamedNow
<1>6. \A v \in Users \ {u} : Has(v)' <=> v \in told'
  BY <1>2, <1>4, <1>5
<1>7. CASE Has(u)
  <2>1. PICK i \in Seats : /\ Finds(0, u, i) /\ cb' = [cb EXCEPT ![u] = "leaving"]
                           /\ seat' = [seat EXCEPT ![u].cb = i]
    BY <1>2, <1>7, CalledIs DEF LeftLoop
  <2>2. Of(i) = u
    BY <2>1, CalledIs
  <2>3. /\ \A v \in Users \ {u} : cb'[v] = "none" /\ handler'[v] \in {"off", "on"}
        /\ cb'[u] = "leaving" /\ handler'[u] \in {"off", "on"} /\ seat'[u].cb = i
    BY <1>1, <1>2, <2>1 DEF TypeOK
  <2>4. u \in Quitting' /\ \A j : ~Going(u, j)'
    BY <2>3 DEF Quitting, Going
  <2>5. Known(u)'
    BY <1>2, <1>3, <2>2, <2>3 DEF Known
  <2>6. Has(u)'
    BY <1>4, <1>7
  <2> QED BY <1>4, <1>6, <2>3, <2>4, <2>5, <2>6, NamedNext
<1>8. CASE ~Has(u)
  <2>1. cb' = [cb EXCEPT ![u] = "none"]
    BY <1>2, <1>8, CalledIs DEF LeftLoop, Has
  <2>2. /\ \A v \in Users \ {u} : cb'[v] = "none" /\ handler'[v] \in {"off", "on"}
        /\ cb'[u] = "none" /\ handler'[u] \in {"off", "on"}
    BY <1>1, <1>2, <2>1 DEF TypeOK
  <2>3. Known(u)' /\ u \notin Quitting' /\ \A j : ~Going(u, j)'
    BY <2>2 DEF Known, Quitting, Going
  <2>4. ~Has(u)' /\ u \notin told'
    BY <1>2, <1>4, <1>8
  <2> QED BY <1>4, <1>6, <2>2, <2>3, <2>4, NamedNext
<1> QED BY <1>7, <1>8

LEMMA NamedLeftClears ==
  ASSUME TypeOK, TypeOK', Sound, Named, Calm, NEW u \in Users, LeftClears(u)
  PROVE  Named'
<1>1. cb[u] = "leaving" /\ u \in Busy
  BY DEF LeftClears, Busy
<1>2. /\ \A v \in Users \ {u} : cb[v] = "none" /\ handler[v] \in {"off", "on"}
      /\ \A i \in Taken : ~Dangling(i) \/ Going(u, i)
      /\ Placed(u)
  BY <1>1, AtWork, CalmIs
<1>3. /\ \A v \in Users \ {u} : Has(v) <=> v \in told
      /\ \A i \in Kept : Entered(i)
      /\ \A i, j \in Kept : Of(i) = Of(j) => i = j
      /\ Known(u)
  BY <1>2, NamedNow
<1>4. PICK k \in Taken : k = seat[u].cb
  BY <1>1, <1>2 DEF Placed
<1>5. handler[u] \in {"off", "on"} /\ (\A i \in Taken : ~Dangling(i)) /\ Of(k) = u /\ u \notin told
  BY <1>1, <1>2, <1>3, <1>4 DEF Placed, Going, Known
<1>6. /\ players' = [players EXCEPT ![k] = NULL] /\ cb' = [cb EXCEPT ![u] = "clearing"]
      /\ UNCHANGED <<record, numberOfPlayers, handler, seat, told, clients, num_clients>>
  BY <1>4 DEF LeftClears, table
<1>7. /\ \A v \in Users \ {u} : cb'[v] = "none" /\ handler'[v] \in {"off", "on"}
      /\ cb'[u] = "clearing" /\ handler'[u] \in {"off", "on"} /\ seat'[u].cb = k
  BY <1>2, <1>4, <1>5, <1>6 DEF TypeOK
<1>8. Taken' = Taken /\ Taken \subseteq Seats /\ Listed' = Listed
  BY <1>6, TakenIs DEF Taken, Listed
<1>9. Dangling(k)' /\ \A i \in Taken \ {k} : players'[i] = players[i]
  BY <1>6, <1>8, SlotsAre DEF TypeOK, Dangling
<1>10. \A i \in Taken \ {k} : ~Dangling(i)' /\ Of(i)' = Of(i) /\ Client(i)' = Client(i)
  BY <1>5, <1>6, <1>9 DEF Dangling, Of, Client
<1>11. Kept' = Kept \ {k} /\ k \in Kept
  BY <1>5, <1>8, <1>9, <1>10 DEF Kept
<1>12. /\ \A i \in Kept' : i \in Kept /\ i # k /\ Of(i)' = Of(i) /\ Client(i)' = Client(i)
  BY <1>10, <1>11 DEF Kept
<1>13. \A i \in Kept' : Entered(i)'
  BY <1>3, <1>6, <1>8, <1>12 DEF Entered
<1>14. \A i, j \in Kept' : Of(i)' = Of(j)' => i = j
  BY <1>3, <1>12
<1>15. \A v \in Users : Has(v)' <=> Has(v) /\ v # u
  BY <1>3, <1>5, <1>11, <1>12 DEF Has
<1>16. u \notin Quitting' /\ \A j : Going(u, j)' => Dangling(j)'
  BY <1>7, <1>9 DEF Quitting, Going
<1>17. Known(u)'
  BY <1>5, <1>6, <1>7 DEF Known
<1>18. (\A v \in Users \ {u} : Has(v)' <=> v \in told') /\ ~Has(u)' /\ u \notin told'
  BY <1>3, <1>5, <1>6, <1>15
<1> QED BY <1>7, <1>13, <1>14, <1>16, <1>17, <1>18, NamedNext

(* The one that goes is no player any more: the names of the others stay.   *)
LEMMA NamedWithout ==
  ASSUME TypeOK, Named, Calm, NEW k \in Taken, Dangling(k),
         players' = Without(players, k), numberOfPlayers' = numberOfPlayers - 1,
         UNCHANGED <<record, clients, num_clients>>
  PROVE  /\ \A i \in Kept' : Entered(i)'
         /\ \A i, j \in Kept' : Of(i)' = Of(j)' => i = j
         /\ \A v \in Users : Has(v)' <=> Has(v)
<1>1. /\ \A i \in Taken' : /\ Past(k, i) \in Taken \ {k}
                           /\ players'[i] = players[Past(k, i)]
      /\ \A i, j \in Taken' : Past(k, i) = Past(k, j) => i = j
      /\ \A h \in Taken \ {k} : \E i \in Taken' : Past(k, i) = h
  BY WithoutMoves
<1>2. \A i \in Taken' : /\ Dangling(i)' <=> Dangling(Past(k, i))
                        /\ Of(i)' = Of(Past(k, i)) /\ Client(i)' = Client(Past(k, i))
  BY <1>1 DEF Dangling, Of, Client
<1>3. /\ \A i \in Kept' : Past(k, i) \in Kept /\ i \in Taken'
      /\ \A h \in Kept : \E i \in Kept' : Past(k, i) = h
  BY <1>1, <1>2 DEF Kept
<1>4. Listed' = Listed
  BY DEF Listed
<1>5. \A i \in Kept' : Entered(i)'
  BY <1>2, <1>3, <1>4 DEF Entered, Named
<1>6. \A i, j \in Kept' : Of(i)' = Of(j)' => i = j
  BY <1>1, <1>2, <1>3 DEF Named
<1>7. \A v \in Users : Has(v)' <=> Has(v)
  BY <1>2, <1>3 DEF Has
<1> QED BY <1>5, <1>6, <1>7

LEMMA NamedLeftRemoves ==
  ASSUME TypeOK, TypeOK', Sound, Named, Calm, NEW u \in Users, LeftRemoves(u)
  PROVE  Named'
<1>1. cb[u] = "clearing" /\ u \in Busy
  BY DEF LeftRemoves, Busy
<1>2. /\ \A v \in Users \ {u} : cb[v] = "none" /\ handler[v] \in {"off", "on"}
      /\ Placed(u)
  BY <1>1, AtWork, CalmIs
<1>3. /\ \A v \in Users \ {u} : Has(v) <=> v \in told
      /\ Has(u) <=> (u \in told /\ cb[u] \notin {"found", "set"}) \/ u \in Quitting
      /\ \A i : Going(u, i) => Dangling(i)
      /\ Known(u)
  BY <1>2, NamedNow
<1>4. PICK k \in Taken : k = seat[u].cb
  BY <1>1, <1>2 DEF Placed
<1>5. handler[u] \in {"off", "on"} /\ Dangling(k) /\ u \notin told /\ u \notin Quitting
  BY <1>1, <1>2, <1>3, <1>4 DEF Placed, Going, Known, Quitting
<1>6. /\ players' = Without(players, k) /\ cb' = [cb EXCEPT ![u] = "looking"]
      /\ numberOfPlayers' = numberOfPlayers - 1
      /\ UNCHANGED <<record, handler, seat, told, clients, num_clients>>
  BY <1>4 DEF LeftRemoves, table
<1>7. /\ \A i \in Kept' : Entered(i)'
      /\ \A i, j \in Kept' : Of(i)' = Of(j)' => i = j
      /\ \A v \in Users : Has(v)' <=> Has(v)
  BY <1>5, <1>6, NamedWithout
<1>8. /\ \A v \in Users \ {u} : cb'[v] = "none" /\ handler'[v] \in {"off", "on"}
      /\ cb'[u] = "looking" /\ handler'[u] \in {"off", "on"}
  BY <1>2, <1>5, <1>6 DEF TypeOK
<1>9. Known(u)' /\ u \notin Quitting' /\ \A j : ~Going(u, j)'
  BY <1>5, <1>6, <1>8 DEF Known, Quitting, Going
<1>10. (\A v \in Users \ {u} : Has(v)' <=> v \in told') /\ ~Has(u)' /\ u \notin told'
  BY <1>3, <1>5, <1>6, <1>7
<1> QED BY <1>7, <1>8, <1>9, <1>10, NamedNext

LEMMA NamedLeftGoesOn ==
  ASSUME TypeOK, TypeOK', Sound, Named, Calm, NEW u \in Users, LeftGoesOn(u)
  PROVE  Named'
<1>1. cb[u] = "looking" /\ u \in Busy
  BY DEF LeftGoesOn, Busy
<1>2. /\ \A v \in Users \ {u} : cb[v] = "none" /\ handler[v] \in {"off", "on"}
      /\ Placed(u)
  BY <1>1, AtWork, CalmIs
<1>3. /\ \A v \in Users \ {u} : Has(v) <=> v \in told
      /\ Has(u) <=> (u \in told /\ cb[u] \notin {"found", "set"}) \/ u \in Quitting
      /\ Known(u)
  BY <1>2, NamedNow
<1>4. handler[u] \in {"off", "on"} /\ u \notin told /\ u \notin Quitting
  BY <1>1, <1>2, <1>3 DEF Placed, Known, Quitting
<1>5. ~Has(u)
  BY <1>3, <1>4
<1>6. cb' = [cb EXCEPT ![u] = "none"]
  BY <1>5, CalledIs DEF LeftGoesOn, LeftLoop, Has
<1>7. UNCHANGED <<room, handler, told, clients, num_clients>>
  BY DEF LeftGoesOn, table
<1>8. Kept' = Kept /\ \A i : Of(i)' = Of(i) /\ Client(i)' = Client(i)
  BY <1>7, RoomUnchanged
<1>9. /\ \A i \in Kept' : Entered(i)'
      /\ \A i, j \in Kept' : Of(i)' = Of(j)' => i = j
      /\ \A v \in Users : Has(v)' <=> Has(v)
  BY <1>7, <1>8, RoomSame
<1>10. /\ \A v \in Users \ {u} : cb'[v] = "none" /\ handler'[v] \in {"off", "on"}
       /\ cb'[u] = "none" /\ handler'[u] \in {"off", "on"}
  BY <1>2, <1>4, <1>6, <1>7 DEF TypeOK
<1>11. Known(u)' /\ u \notin Quitting' /\ \A j : ~Going(u, j)'
  BY <1>10 DEF Known, Quitting, Going
<1>12. (\A v \in Users \ {u} : Has(v)' <=> v \in told') /\ ~Has(u)' /\ u \notin told'
  BY <1>3, <1>4, <1>5, <1>7, <1>9
<1> QED BY <1>9, <1>10, <1>11, <1>12, NamedNext

LEMMA NamedQuitBegins ==
  ASSUME TypeOK, TypeOK', Sound, Named, Mailed, Calm, Calm', NEW u \in Users, QuitBegins(u)
  PROVE  Named'
<1>1. /\ cb[u] = "none" /\ handler[u] = "on"
      /\ \A v \in Users \ {u} : cb[v] = "none" /\ handler[v] \in {"off", "on"}
  BY AtRest, CalmIs DEF QuitBegins
<1>2. /\ told' = told \ {u}
      /\ UNCHANGED <<room, cb, clients, num_clients>>
  BY DEF QuitBegins, table
<1>4. Kept' = Kept /\ \A i : Of(i)' = Of(i) /\ Client(i)' = Client(i)
  BY <1>2, RoomUnchanged
<1>5. /\ \A i \in Kept' : Entered(i)'
      /\ \A i, j \in Kept' : Of(i)' = Of(j)' => i = j
      /\ \A v \in Users : Has(v)' <=> Has(v)
  BY <1>2, <1>4, RoomSame
<1>6. \A v \in Users \ {u} : Has(v) <=> v \in told
  BY <1>1, NamedNow
<1>7. \A v \in Users \ {u} : cb'[v] = "none" /\ handler'[v] \in {"off", "on"}
  BY <1>1, <1>2 DEF QuitBegins, TypeOK
<1>8. \A v \in Users \ {u} : Has(v)' <=> v \in told'
  BY <1>2, <1>5, <1>6
<1>9. ASSUME NEW k \in Seats, Finds(0, u, k), handler' = [handler EXCEPT ![u] = "found"],
             seat' = [seat EXCEPT ![u].handler = k]
      PROVE  Named'
  <2>1. k \in Kept /\ Of(k) = u /\ Has(u)
    BY <1>9, CalledIs DEF Has
  <2>2. handler'[u] = "found" /\ cb'[u] = "none" /\ seat'[u].handler = k
    BY <1>1, <1>2, <1>9 DEF TypeOK
  <2>3. Known(u)' /\ u \in Quitting' /\ \A j : ~Going(u, j)'
    BY <1>4, <2>1, <2>2 DEF Known, Quitting, Going
  <2>4. Has(u)'
    BY <1>5, <2>1
  <2> QED BY <1>5, <1>7, <1>8, <2>3, <2>4, NamedNext
<1>10. ASSUME stage # "listed" \/ FindsNone(0, u), handler' = [handler EXCEPT ![u] = "leaving"] PROVE Named'
  <2>1. ~Has(u)
    <3>1. CASE stage # "listed"
      <4>1. told = {} /\ u \notin Quitting
        BY <1>1, <3>1 DEF Mailed, Quitting
      <4> QED BY <1>1, <4>1, NamedNow
    <3> QED BY <1>10, <3>1, CalledIs
  <2>2. handler'[u] = "leaving" /\ cb'[u] = "none" /\ u \notin told'
    BY <1>1, <1>2, <1>10 DEF TypeOK
  <2>3. Known(u)' /\ u \notin Quitting' /\ \A j : ~Going(u, j)'
    BY <2>2 DEF Known, Quitting, Going
  <2>4. ~Has(u)'
    BY <1>5, <2>1
  <2> QED BY <1>5, <1>7, <1>8, <2>2, <2>3, <2>4, NamedNext
<1> QED BY <1>9, <1>10 DEF QuitBegins

LEMMA NamedQuitClears ==
  ASSUME TypeOK, TypeOK', TableInv, Sound, Named, Calm, NEW u \in Users, QuitClears(u)
  PROVE  Named'
<1>1. handler[u] = "found" /\ u \in Busy
  BY DEF QuitClears, Busy
<1>2. /\ \A v \in Users \ {u} : cb[v] = "none" /\ handler[v] \in {"off", "on"}
      /\ \A i \in Taken : ~Dangling(i) \/ Going(u, i)
      /\ Placed(u)
      /\ \A i, j \in Taken : players[i] = players[j] => i = j
  BY <1>1, AtWork, CalmIs
<1>3. /\ \A v \in Users \ {u} : Has(v) <=> v \in told
      /\ \A i \in Kept : Entered(i)
      /\ \A i, j \in Kept : Of(i) = Of(j) => i = j
      /\ Known(u)
  BY <1>2, NamedNow
<1>4. PICK k \in Taken : k = seat[u].handler
  BY <1>1, <1>2 DEF Placed
<1>5. cb[u] = "none" /\ (\A i \in Taken : ~Dangling(i)) /\ Of(k) = u
  BY <1>1, <1>2, <1>3, <1>4 DEF Placed, Going, Known, TypeOK
<1>6. u \notin told
  BY <1>1 DEF TableInv
<1>7. PICK r \in Records : r = players[k]
  BY <1>4, <1>5, TakenIs, DanglingIs
<1>8. /\ record' = [record EXCEPT ![r].client = NULL]
      /\ handler' = [handler EXCEPT ![u] = "clearing"]
      /\ UNCHANGED <<players, numberOfPlayers, cb, seat, told, clients, num_clients>>
  BY <1>4, <1>7 DEF QuitClears, table
<1>9. /\ \A v \in Users \ {u} : cb'[v] = "none" /\ handler'[v] \in {"off", "on"}
      /\ cb'[u] = "none" /\ handler'[u] = "clearing" /\ seat'[u].handler = k
  BY <1>2, <1>4, <1>5, <1>8 DEF TypeOK
<1>10. Taken' = Taken /\ Taken \subseteq Seats /\ Listed' = Listed
  BY <1>8, TakenIs DEF Taken, Listed
<1>11. /\ Dangling(k)'
       /\ \A i \in Taken \ {k} : players[i] \in Records /\ record'[players[i]] = record[players[i]]
  <2>1. Dangling(k)'
    BY <1>7, <1>8 DEF TypeOK, Dangling
  <2>2. \A i \in Taken \ {k} : players[i] \in Records /\ players[i] # r
    BY <1>2, <1>5, <1>7, <1>10, DanglingIs
  <2> QED BY <1>8, <2>1, <2>2 DEF TypeOK
<1>12. \A i \in Taken \ {k} : ~Dangling(i)' /\ Of(i)' = Of(i) /\ Client(i)' = Client(i)
  BY <1>5, <1>8, <1>11 DEF Dangling, Of, Client
<1>13. Kept' = Kept \ {k} /\ k \in Kept
  BY <1>5, <1>10, <1>11, <1>12 DEF Kept
<1>14. /\ \A i \in Kept' : i \in Kept /\ i # k /\ Of(i)' = Of(i) /\ Client(i)' = Client(i)
  BY <1>12, <1>13 DEF Kept
<1>15. \A i \in Kept' : Entered(i)'
  BY <1>3, <1>8, <1>10, <1>14 DEF Entered
<1>16. \A i, j \in Kept' : Of(i)' = Of(j)' => i = j
  BY <1>3, <1>14
<1>17. \A v \in Users : Has(v)' <=> Has(v) /\ v # u
  BY <1>3, <1>5, <1>13, <1>14 DEF Has
<1>18. u \notin Quitting' /\ \A j : Going(u, j)' => Dangling(j)'
  BY <1>9, <1>11 DEF Quitting, Going
<1>19. Known(u)'
  BY <1>9 DEF Known
<1>20. (\A v \in Users \ {u} : Has(v)' <=> v \in told') /\ ~Has(u)' /\ u \notin told'
  BY <1>3, <1>6, <1>8, <1>17
<1> QED BY <1>9, <1>15, <1>16, <1>18, <1>19, <1>20, NamedNext

LEMMA NamedQuitRemoves ==
  ASSUME TypeOK, TypeOK', TableInv, Sound, Named, Calm, NEW u \in Users, QuitRemoves(u)
  PROVE  Named'
<1>1. handler[u] = "clearing" /\ u \in Busy
  BY DEF QuitRemoves, Busy
<1>2. /\ \A v \in Users \ {u} : cb[v] = "none" /\ handler[v] \in {"off", "on"}
      /\ Placed(u)
  BY <1>1, AtWork, CalmIs
<1>3. /\ \A v \in Users \ {u} : Has(v) <=> v \in told
      /\ Has(u) <=> (u \in told /\ cb[u] \notin {"found", "set"}) \/ u \in Quitting
      /\ \A i : Going(u, i) => Dangling(i)
  BY <1>2, NamedNow
<1>4. PICK k \in Taken : k = seat[u].handler
  BY <1>1, <1>2 DEF Placed
<1>5. cb[u] = "none" /\ Dangling(k) /\ u \notin told /\ u \notin Quitting
  BY <1>1, <1>2, <1>3, <1>4 DEF Placed, Going, Quitting, TableInv, TypeOK
<1>6. /\ players' = Without(players, k) /\ handler' = [handler EXCEPT ![u] = "leaving"]
      /\ numberOfPlayers' = numberOfPlayers - 1
      /\ UNCHANGED <<record, cb, told, clients, num_clients>>
  BY <1>4 DEF QuitRemoves, table
<1>7. /\ \A i \in Kept' : Entered(i)'
      /\ \A i, j \in Kept' : Of(i)' = Of(j)' => i = j
      /\ \A v \in Users : Has(v)' <=> Has(v)
  BY <1>5, <1>6, NamedWithout
<1>8. /\ \A v \in Users \ {u} : cb'[v] = "none" /\ handler'[v] \in {"off", "on"}
      /\ cb'[u] = "none" /\ handler'[u] = "leaving"
  BY <1>2, <1>5, <1>6 DEF TypeOK
<1>9. Known(u)' /\ u \notin Quitting' /\ \A j : ~Going(u, j)'
  BY <1>8 DEF Known, Quitting, Going
<1>10. (\A v \in Users \ {u} : Has(v)' <=> v \in told') /\ ~Has(u)' /\ u \notin told'
  BY <1>3, <1>5, <1>6, <1>7
<1> QED BY <1>7, <1>8, <1>9, <1>10, NamedNext

(* Nothing moves but the fault.                                             *)
LEMMA NamedStays ==
  ASSUME Named, Calm, UNCHANGED <<table, room, work, told>> PROVE Named'
<1>1. UNCHANGED <<room, cb, pointer, seat, told, handler, clients, num_clients>>
  BY DEF table, work
<1>2. PICK D : D = Listed
  OBVIOUS
<1>3. \A c \in D : c \in Listed' /\ clients'[c] = clients[c]
  BY <1>1, <1>2 DEF Listed
<1>4. \A v \in Users : handler'[v] = handler[v]
  BY <1>1
<1>5. \A i \in Kept : Client(i) \in D
  BY <1>2 DEF Named, Entered
<1>6. \A v \in Users : /\ cb[v] = "found" => pointer[v] \in D
                       /\ cb[v] = "set" => Client(numberOfPlayers) \in D
  BY <1>2 DEF Named, Entered, Known
<1> QED BY <1>1, <1>3, <1>4, <1>5, <1>6, NamedKept

(* The room ends when it is empty.                                          *)
LEMMA NamedRoomEnds ==
  ASSUME TypeOK, Sound, Named, Calm, Calm', RoomEnds PROVE Named'
<1>1. /\ numberOfPlayers = 0 /\ told' = {}
      /\ UNCHANGED <<room, cb, seat, handler>>
      /\ \A v \in Users : cb[v] \notin {"found", "set"}
  BY CalmIs DEF RoomEnds, work
<1>2. Taken = {} /\ Kept' = {}
  <2>1. Taken = {}
    BY <1>1 DEF Taken, Seats
  <2> QED BY <1>1, <2>1, RoomUnchanged DEF Kept
<1>3. \A v \in Users : /\ cb[v] \notin {"found", "set", "leaving", "clearing"}
                       /\ handler[v] \notin {"found", "clearing"}
  BY <1>1, <1>2, CalmIs DEF Sound, Placed
<1>4. \A v \in Users : /\ v \notin Quitting' /\ Known(v)' /\ ~Has(v)'
                       /\ \A i : ~Going(v, i)'
  BY <1>1, <1>2, <1>3 DEF Quitting, Known, Has, Going
<1> QED BY <1>1, <1>2, <1>4 DEF Named

LEMMA CalmBefore == ASSUME [Next]_vars, Calm' PROVE Calm
<1>1. ASSUME NEW u \in Users, App(u) PROVE Calm
  BY <1>1 DEF Calm, disturbed, App, Connect, OpenRoom, AppJoins, AppLeaves, MovesOn,
     QuitBegins, ListFaults, DiesAtOnce, Overlaps
<1>2. ASSUME NEW u \in Users, Network(u) PROVE Calm
  BY <1>2 DEF Calm, disturbed, Network, JoinBegins, LeftBegins, Lose, Overlaps
<1>3. ASSUME NEW u \in Users, Threads(u) PROVE Calm
  BY <1>3 DEF Calm, disturbed, Threads, JoinSets, JoinCounts, JoinFaults, Dies, LeftClears,
     LeftRemoves, LeftGoesOn, LeftFaults, QuitClears, QuitRemoves, QuitFaults, Unlist,
     DiesAtOnce, Overlaps
<1>4. CASE RoomEnds \/ UNCHANGED vars
  BY <1>4 DEF Calm, disturbed, RoomEnds, vars
<1> QED BY <1>1, <1>2, <1>3, <1>4 DEF Next, Dead

LEMMA NamedStep ==
  ASSUME TypeOK, TypeOK', TableInv, Sound, Named, Mailed, [Next]_vars PROVE Named'
<1> SUFFICES ASSUME Calm' PROVE Named'
  BY DEF Named
<1>0. Calm
  BY CalmBefore
<1>1. CASE UNCHANGED <<table, room, work, told>>
  BY <1>0, <1>1, NamedStays
<1>2. ASSUME NEW u \in Users, App(u) PROVE Named'
  <2>1. CASE ListFaults(u) \/ AppJoins(u) \/ AppLeaves(u)
    BY <1>1, <2>1 DEF ListFaults, DiesAtOnce, AppJoins, AppLeaves
  <2> QED BY <1>0, <1>2, <2>1, NamedConnect, NamedOpenRoom, NamedQuitBegins DEF App
<1>3. ASSUME NEW u \in Users, Network(u) PROVE Named'
  <2>1. ASSUME NEW what \in {"JOINED", "LEFT"}, Lose(u, what) PROVE Named'
    BY <1>1, <2>1 DEF Lose
  <2> QED BY <1>0, <1>3, <2>1, NamedJoinBegins, NamedLeftBegins DEF Network
<1>4. ASSUME NEW u \in Users, Threads(u) PROVE Named'
  <2>1. CASE JoinFaults(u) \/ LeftFaults(u) \/ QuitFaults(u)
    BY <1>1, <2>1 DEF JoinFaults, LeftFaults, QuitFaults, Dies, DiesAtOnce
  <2> QED BY <1>0, <1>4, <2>1, NamedJoinSets, NamedJoinCounts, NamedLeftClears,
             NamedLeftRemoves, NamedLeftGoesOn, NamedQuitClears, NamedQuitRemoves,
             NamedUnlist DEF Threads
<1>5. CASE UNCHANGED vars
  BY <1>1, <1>5 DEF vars
<1> QED BY <1>0, <1>2, <1>3, <1>4, <1>5, NamedRoomEnds DEF Next, Dead

LEMMA NamedInit == Init => Named
<1> SUFFICES ASSUME Init PROVE Named
  OBVIOUS
<1>1. Kept = {} /\ told = {}
  BY DEF Init, Taken, Seats, Kept
<1>2. \A u \in Users : cb[u] = "none" /\ handler[u] = "off"
  BY DEF Init
<1> QED BY <1>1, <1>2 DEF Named, Going, Known, Quitting, Has

(* To a room that has ended nothing is sent, and it has heard of nobody.    *)
LEMMA NoneStep ==
  ASSUME Mailed, [Next]_vars PROVE stage' = "none" => sent' = {} /\ told' = {}
<1> DEFINE Ended == stage = "none" => sent = {} /\ told = {}
<1>0. Ended
  BY DEF Mailed
<1>1. CASE UNCHANGED mail
  BY <1>0, <1>1
<1>2. ASSUME NEW u \in Users, App(u) PROVE Ended'
  BY <1>0, <1>1, <1>2 DEF App, Connect, OpenRoom, AppJoins, AppLeaves, QuitBegins,
     ListFaults, DiesAtOnce
<1>3. ASSUME NEW u \in Users, Network(u) PROVE Ended'
  BY <1>0, <1>3 DEF Network, JoinBegins, LeftBegins, LeftLoop, Arrives, Lose
<1>4. ASSUME NEW u \in Users, Threads(u) PROVE Ended'
  <2>1. CASE LeftGoesOn(u)
    BY <1>0, <2>1 DEF LeftGoesOn, LeftLoop
  <2> QED BY <1>1, <1>4, <2>1 DEF Threads, JoinSets, JoinCounts, JoinFaults, Dies,
             LeftClears, LeftRemoves, LeftFaults, QuitClears, QuitRemoves, QuitFaults,
             Unlist, DiesAtOnce
<1>5. CASE RoomEnds
  BY <1>5 DEF RoomEnds
<1> QED BY <1>1, <1>2, <1>3, <1>4, <1>5 DEF Next, Dead, vars

(* The datagrams of one user tell where its app is, if none has strayed.    *)
LEMMA HeardStep ==
  ASSUME TypeOK, TableInv, Mailed, [Next]_vars, ~strayed', NEW v \in Users
  PROVE  ~strayed /\ Heard(v)'
<1> USE DEF Heard, Coming, OnItsWay
<1>0. ASSUME ~strayed PROVE \A w \in Users : Heard(w)
  BY <1>0 DEF Mailed
<1>1. CASE UNCHANGED <<sent, inside, told, strayed>>
  BY <1>0, <1>1
<1>2. ASSUME NEW u \in Users, OpenRoom(u) PROVE ~strayed /\ Heard(v)'
  <2>1. ~strayed /\ sent = {} /\ sent' = {} /\ inside' = {u} /\ told' = {u}
    BY <1>2 DEF OpenRoom, Mailed
  <2> QED BY <2>1
<1>3. ASSUME NEW u \in Users, AppJoins(u) PROVE ~strayed /\ Heard(v)'
  <2>1. /\ ~strayed /\ ~OnItsWay(u) /\ u \notin inside /\ UNCHANGED told
        /\ sent' = sent \cup {<<"JOINED", u>>} /\ inside' = inside \cup {u}
    BY <1>3 DEF AppJoins, MovesOn
  <2> QED BY <1>0, <2>1
<1>4. ASSUME NEW u \in Users, AppLeaves(u) PROVE ~strayed /\ Heard(v)'
  <2>1. /\ ~strayed /\ ~OnItsWay(u) /\ u \in inside /\ UNCHANGED told
        /\ inside' = inside \ {u}
    BY <1>4 DEF AppLeaves, MovesOn
  <2>2. stage # "none"
    BY <1>0, <2>1 DEF Mailed
  <2>3. sent' = sent \cup {<<"LEFT", u>>}
    BY <1>4, <2>2 DEF AppLeaves
  <2> QED BY <1>0, <2>1, <2>3
<1>5. ASSUME NEW u \in Users, QuitBegins(u) PROVE ~strayed /\ Heard(v)'
  <2>1. /\ ~strayed /\ ~OnItsWay(u)
        /\ inside' = inside \ {u} /\ told' = told \ {u}
        /\ sent' = sent \cup {<<"LEFT", u>>} \/ sent' = sent
    BY <1>5 DEF QuitBegins, MovesOn
  <2> QED BY <1>0, <2>1
<1>6. ASSUME NEW u \in Users, JoinBegins(u) PROVE ~strayed /\ Heard(v)'
  <2>1. /\ ~strayed /\ <<"JOINED", u>> \in sent /\ sent' = sent \ {<<"JOINED", u>>}
        /\ UNCHANGED inside
    BY <1>6 DEF JoinBegins, Arrives
  <2>2. Heard(u) /\ u \in inside
    BY <1>0, <2>1
  <2>3. told' = told \cup {u}
    BY <1>6, <2>2 DEF JoinBegins, TableInv
  <2> QED BY <1>0, <2>1, <2>2, <2>3
<1>7. ASSUME NEW u \in Users, LeftBegins(u) PROVE ~strayed /\ Heard(v)'
  <2>1. /\ ~strayed /\ <<"LEFT", u>> \in sent /\ sent' = sent \ {<<"LEFT", u>>}
        /\ UNCHANGED inside /\ told' = told \ {u}
    BY <1>7 DEF LeftBegins, Arrives
  <2> QED BY <1>0, <2>1
<1>8. ASSUME NEW u \in Users, NEW what \in {"JOINED", "LEFT"}, Lose(u, what) PROVE FALSE
  BY <1>8 DEF Lose
<1>9. CASE RoomEnds
  <2>1. ~strayed /\ sent' = {} /\ told' = {} /\ inside' = {}
    BY <1>9 DEF RoomEnds
  <2> QED BY <2>1
<1>10. ASSUME NEW u \in Users, Threads(u) \/ Connect(u) \/ ListFaults(u)
       PROVE  UNCHANGED <<sent, inside, told, strayed>>
  BY <1>10 DEF Threads, JoinSets, JoinCounts, JoinFaults, Dies, LeftClears, LeftRemoves,
     LeftGoesOn, LeftFaults, QuitClears, QuitRemoves, QuitFaults, Unlist, DiesAtOnce,
     Connect, ListFaults
<1> QED
  BY <1>1, <1>2, <1>3, <1>4, <1>5, <1>6, <1>7, <1>8, <1>9, <1>10
  DEF Next, Dead, App, Network, vars

(* A room that is no longer listed had lost all its players.                *)
LEMMA DroppedStep ==
  ASSUME TypeOK, TypeOK', Sound, Named, Named', Mailed, [Next]_vars, Calm'
  PROVE  stage' # "listed" => told' = {}
<1>0. Calm /\ (stage # "listed" => told = {})
  BY CalmBefore DEF Mailed
<1>1. CASE UNCHANGED stage /\ told' \subseteq told
  BY <1>0, <1>1
<1>2. ASSUME NEW u \in Users, NEW k, LeftLoop(u, k), UNCHANGED room, told' \subseteq told,
             \A v \in Users \ {u} : cb[v] = "none" /\ handler[v] \in {"off", "on"},
             UNCHANGED handler
      PROVE  stage' # "listed" => told' = {}
  <2>1. CASE UNCHANGED stage
    BY <1>1, <1>2, <2>1
  <2>2. CASE numberOfPlayers = 0 /\ cb' = [cb EXCEPT ![u] = "none"]
    <3>1. Taken' = {}
      BY <1>2, <2>2 DEF Taken, Seats, room
    <3>2. \A v \in Users : ~Has(v)' /\ cb'[v] = "none"
      BY <1>2, <2>2, <3>1 DEF Has, Kept, TypeOK
    <3>3. told' = {}
      BY <3>2 DEF Named, TypeOK
    <3> QED BY <3>3
  <2> QED BY <1>2, <2>1, <2>2 DEF LeftLoop
<1>3. ASSUME NEW u \in Users, LeftBegins(u) PROVE stage' # "listed" => told' = {}
  <2>1. \A v \in Users \ {u} : cb[v] = "none" /\ handler[v] \in {"off", "on"}
    BY <1>0, <1>3, AtRest, CalmIs DEF LeftBegins
  <2> QED BY <1>2, <1>3, <2>1 DEF LeftBegins
<1>4. ASSUME NEW u \in Users, LeftGoesOn(u) PROVE stage' # "listed" => told' = {}
  <2>1. \A v \in Users \ {u} : cb[v] = "none" /\ handler[v] \in {"off", "on"}
    <3>1. u \in Busy
      BY <1>4 DEF LeftGoesOn, Busy
    <3> QED BY <1>0, <3>1, AtWork, CalmIs
  <2> QED BY <1>2, <1>4, <2>1 DEF LeftGoesOn
<1>5. ASSUME NEW u \in Users, App(u) PROVE stage' # "listed" => told' = {}
  BY <1>1, <1>5 DEF App, Connect, OpenRoom, AppJoins, AppLeaves, QuitBegins, ListFaults,
     DiesAtOnce
<1>6. ASSUME NEW u \in Users, JoinBegins(u) PROVE stage' = "listed"
  BY <1>6, CalmIs DEF JoinBegins
<1>7. ASSUME NEW u \in Users, NEW what \in {"JOINED", "LEFT"}, Lose(u, what)
      PROVE  stage' # "listed" => told' = {}
  BY <1>1, <1>7 DEF Lose
<1>8. ASSUME NEW u \in Users, Threads(u), ~LeftGoesOn(u)
      PROVE  stage' # "listed" => told' = {}
  BY <1>1, <1>8 DEF Threads, JoinSets, JoinCounts, JoinFaults, Dies, LeftClears,
     LeftRemoves, LeftFaults, QuitClears, QuitRemoves, QuitFaults, Unlist, DiesAtOnce
<1>9. CASE RoomEnds
  BY <1>9 DEF RoomEnds
<1> QED
  BY <1>1, <1>3, <1>4, <1>5, <1>6, <1>7, <1>8, <1>9 DEF Next, Dead, Network, vars

LEMMA MailedStep ==
  ASSUME TypeOK, TypeOK', TableInv, Sound, Named, Named', Mailed, [Next]_vars
  PROVE  Mailed'
<1>1. stage' = "none" => sent' = {} /\ told' = {}
  BY NoneStep
<1>2. Calm' /\ stage' # "listed" => told' = {}
  BY DroppedStep
<1>3. ~strayed' => \A u \in Users : Heard(u)'
  BY HeardStep
<1> QED BY <1>1, <1>2, <1>3 DEF Mailed

LEMMA MailedInit == Init => Mailed
  BY DEF Init, Mailed, Heard, Coming, OnItsWay

(* If besides no entry of clients[] moves under a player, and each datagram *)
(* comes once and in time, the room has just the players whose apps are in  *)
(* it, each by its own name, but for those of whom it has yet to hear: what *)
(* handle_room and handle_client are for, of any number of users and seats. *)
THEOREM PlayersCorrect == Spec => []PlayersAreInside
<1>1. TypeOK /\ Sound /\ Named /\ Mailed => PlayersAreInside
  <2> SUFFICES ASSUME TypeOK, Sound, Named, Mailed, Calm PROVE PlayersAreInside
    BY DEF PlayersAreInside, Calm
  <2> DEFINE between == Busy \cup {u \in Users : OnItsWay(u)}
  <2>1. Taken \ Cleared = Kept
    BY CalmIs DEF Cleared, Kept, Going, Named, Sound
  <2>2. \A i \in Kept : Called(i, Of(i)) /\ Of(i) \in Users
    BY DEF Kept, Called, Of, Client, Entered, Named
  <2>3. \A i \in Kept : Has(Of(i))
    BY DEF Has
  <2>4. ASSUME NEW u \in Users, Has(u) PROVE u \in inside \cup between
    <3>1. u \in told \/ u \in Busy
      BY <2>4 DEF Named, Quitting, Busy
    <3>2. u \in told => u \in inside \/ OnItsWay(u)
      BY CalmIs DEF Mailed, Heard
    <3> QED BY <3>1, <3>2
  <2>5. ASSUME NEW u \in inside \ between PROVE Has(u)
    <3>1. u \in Users /\ ~OnItsWay(u) /\ cb[u] = "none"
      BY DEF Busy, TypeOK
    <3>2. u \in told
      BY <3>1, CalmIs DEF Mailed, Heard
    <3> QED BY <3>1, <3>2 DEF Named
  <2>6. /\ \A i \in Taken \ Cleared : Called(i, Of(i))
        /\ {Of(i) : i \in Taken \ Cleared} \subseteq inside \cup between
        /\ inside \ between \subseteq {Of(i) : i \in Taken \ Cleared}
    <3> HIDE DEF Kept, between
    <3> QED BY <2>1, <2>2, <2>3, <2>4, <2>5 DEF Has
  <2> QED BY <2>6 DEF PlayersAreInside, Of
<1> QED
  BY <1>1, InitTypes, TypeStep, TableStep, SoundInit, SoundStep, NamedInit, NamedStep,
     MailedInit, MailedStep, PTL DEF Spec

-----------------------------------------------------------------------------
(* The set of players, and those of them that are being removed.            *)
Players == {u \in Users : Has(u)}
Leavers == Quitting \cap Players

LEMMA ShownIs == ASSUME TypeOK, Named, Calm PROVE Shown = Players
<1>1. Shown = {clients[Client(i)] : i \in Kept}
  BY DEF Shown, Calm, Kept, Client
<1>2. \A i \in Kept : clients[Client(i)] = Of(i) /\ Of(i) \in Users
  BY DEF Named, Entered
<1> HIDE DEF Kept
<1> QED BY <1>1, <1>2 DEF Players, Has

LEMMA PlayersAre ==
  ASSUME Named, Calm, NEW u \in Users
  PROVE  /\ u \in Players <=>
              (u \in told /\ cb[u] \notin {"found", "set"}) \/ u \in Quitting
         /\ u \in Leavers <=> u \in Quitting
  BY DEF Named, Players, Leavers

(* What a step of user u may do to the set. *)
Moves(u) ==
  \/ Players' = Players /\ Leavers' = Leavers
  \/ /\ u \notin Players /\ Cardinality(Players) < MAX_PLAYERS
     /\ Players' = Players \cup {u} /\ Leavers' = Leavers
  \/ /\ u \in Players \ Leavers
     /\ Players' = Players /\ Leavers' = Leavers \cup {u}
  \/ /\ u \in Leavers
     /\ Players' = Players \ {u} /\ Leavers' = Leavers \ {u}

(* Only user u counts, or is on its way, as it did not before.              *)
LEMMA MovesIs ==
  ASSUME Named, Named', Calm, Calm', NEW u \in Users,
         \A v \in Users \ {u} : /\ cb'[v] = cb[v] /\ handler'[v] = handler[v]
                                /\ v \in told' <=> v \in told,
         \/ (u \in Players' <=> u \in Players) /\ (u \in Quitting' <=> u \in Quitting)
         \/ /\ u \notin Players /\ Cardinality(Players) < MAX_PLAYERS
            /\ u \in Players' /\ u \notin Quitting'
         \/ u \in Players /\ u \notin Quitting /\ u \in Players' /\ u \in Quitting'
         \/ u \in Quitting /\ u \notin Players' /\ u \notin Quitting'
  PROVE  Moves(u)
<1>1. \A v \in Users \ {u} : v \in Quitting' <=> v \in Quitting
  BY DEF Quitting
<1>2. \A v \in Users :
        /\ v \in Players <=>
              (v \in told /\ cb[v] \notin {"found", "set"}) \/ v \in Quitting
        /\ v \in Leavers <=> v \in Quitting
  BY PlayersAre
<1>3. \A v \in Users :
        /\ v \in Players' <=>
              (v \in told' /\ cb'[v] \notin {"found", "set"}) \/ v \in Quitting'
        /\ v \in Leavers' <=> v \in Quitting'
  BY DEF Named, Players, Leavers
<1>4. \A v \in Users \ {u} : /\ v \in Players' <=> v \in Players
                             /\ v \in Leavers' <=> v \in Leavers
  BY <1>1, <1>2, <1>3
<1>5. /\ Players \subseteq Users /\ Players' \subseteq Users
      /\ Leavers \subseteq Players /\ Leavers' \subseteq Players'
  BY DEF Players, Leavers
<1>6. /\ u \in Leavers <=> u \in Quitting
      /\ u \in Leavers' <=> u \in Quitting'
  BY <1>2, <1>3
<1>7. CASE (u \in Players' <=> u \in Players) /\ (u \in Quitting' <=> u \in Quitting)
  <2>1. Players' = Players /\ Leavers' = Leavers
    BY <1>4, <1>5, <1>6, <1>7
  <2> QED BY <2>1 DEF Moves
<1>8. CASE /\ u \notin Players /\ Cardinality(Players) < MAX_PLAYERS
           /\ u \in Players' /\ u \notin Quitting'
  <2>1. Players' = Players \cup {u} /\ Leavers' = Leavers
    BY <1>4, <1>5, <1>6, <1>8
  <2> QED BY <1>8, <2>1 DEF Moves
<1>9. CASE u \in Players /\ u \notin Quitting /\ u \in Players' /\ u \in Quitting'
  <2>1. Players' = Players /\ Leavers' = Leavers \cup {u}
    BY <1>4, <1>5, <1>6, <1>9
  <2> QED BY <1>6, <1>9, <2>1 DEF Moves
<1>10. CASE u \in Quitting /\ u \notin Players' /\ u \notin Quitting'
  <2>1. Players' = Players \ {u} /\ Leavers' = Leavers \ {u}
    BY <1>4, <1>5, <1>6, <1>10
  <2> QED BY <1>6, <1>10, <2>1 DEF Moves
<1> QED BY <1>7, <1>8, <1>9, <1>10

(* No more players than seats that are taken.                               *)
LEMMA PlayersFit == ASSUME TypeOK PROVE Cardinality(Players) <= numberOfPlayers
<1> DEFINE f == [u \in Players |-> CHOOSE i \in Taken : Of(i) = u]
<1>1. \A u \in Players : \E i \in Taken : Of(i) = u
  BY DEF Players, Has, Kept
<1>2. f \in Injection(Players, Taken)
  BY <1>1 DEF Injection, IsInjective
<1>3. IsFiniteSet(Taken) /\ Cardinality(Taken) = numberOfPlayers
  BY TakenIs, FS_Interval
<1> QED BY <1>2, <1>3, FS_Injection

LEMMA OpenRoomMoves ==
  ASSUME TypeOK, Sound, Named, Named', Mailed, Calm, Calm', NEW u \in Users, OpenRoom(u)
  PROVE  Moves(u)
<1>1. \A v \in Users : cb[v] = "none" /\ handler[v] \in {"off", "on"}
  BY AtRest, CalmIs DEF OpenRoom
<1>2. told = {} /\ told' = {u} /\ UNCHANGED <<cb, handler>>
  BY DEF OpenRoom, Mailed, work
<1>3. u \notin Quitting /\ u \notin Quitting'
  BY <1>1, <1>2 DEF Quitting
<1>4. u \notin Players /\ u \in Players'
  <2>1. u \notin Players
    BY <1>2, <1>3, PlayersAre
  <2>2. Has(u)'
    BY <1>1, <1>2 DEF Named
  <2> QED BY <2>1, <2>2 DEF Players
<1>5. Cardinality(Players) < MAX_PLAYERS
  <2>1. Players = {}
    BY <1>1, <1>2, PlayersAre DEF Quitting, Players
  <2> QED BY <2>1, FS_EmptySet, MembersAssumption
<1> QED BY <1>2, <1>3, <1>4, <1>5, MovesIs

LEMMA JoinMoves ==
  ASSUME TypeOK, TypeOK', Sound, Named, Named', Mailed, Calm, Calm', NEW u \in Users,
         JoinBegins(u) \/ JoinSets(u) \/ JoinCounts(u)
  PROVE  Moves(u)
<1> DEFINE Counts(v) == (v \in told /\ cb[v] \notin {"found", "set"}) \/ v \in Quitting
<1>1. /\ UNCHANGED handler /\ handler[u] \notin {"found"}
      /\ told \subseteq told' /\ told' \subseteq told \cup {u}
      /\ \A v \in Users \ {u} : cb'[v] = cb[v]
  <2>1. handler[u] \in {"off", "on"}
    BY AtRest, CalmIs DEF JoinBegins, JoinSets, JoinCounts, Sound, Placed
  <2> QED BY <2>1 DEF JoinBegins, JoinSets, JoinCounts, TypeOK
<1>2. u \notin Quitting /\ u \notin Quitting'
  BY <1>1 DEF JoinBegins, JoinSets, JoinCounts, Quitting, TypeOK
<1>3. u \in Players <=> Counts(u)
  BY PlayersAre
<1>4. u \in Players' <=> Counts(u)'
  BY DEF Named, Players
<1>5. CASE JoinBegins(u)
  <2>1. u \notin told /\ cb'[u] = "found"
    BY <1>5, CalmIs DEF JoinBegins, Arrives, Mailed, Heard, Coming, TypeOK
  <2>2. u \notin Players /\ u \notin Players'
    BY <1>2, <1>3, <1>4, <2>1
  <2> QED BY <1>1, <1>2, <2>2, MovesIs
<1>6. CASE JoinSets(u)
  <2>1. cb[u] = "found" /\ cb'[u] = "set"
    BY <1>6 DEF JoinSets, TypeOK
  <2>2. u \notin Players /\ u \notin Players'
    BY <1>2, <1>3, <1>4, <2>1
  <2> QED BY <1>1, <1>2, <2>2, MovesIs
<1>7. CASE JoinCounts(u)
  <2>1. cb[u] = "set" /\ cb'[u] = "none" /\ numberOfPlayers \in Seats /\ told' = told
    BY <1>7 DEF JoinCounts, TypeOK
  <2>2. u \in told
    BY <2>1 DEF Named, Known
  <2>3. u \notin Players /\ u \in Players'
    BY <1>2, <1>3, <1>4, <2>1, <2>2
  <2>4. Cardinality(Players) < MAX_PLAYERS
    <3>1. Cardinality(Players) \in Nat
      BY UsersFinite, FS_Subset, FS_CardinalityType DEF Players
    <3> QED BY <2>1, <3>1, PlayersFit, MembersAssumption DEF Seats
  <2> QED BY <1>1, <1>2, <2>3, <2>4, MovesIs
<1> QED BY <1>5, <1>6, <1>7

LEMMA LeftMoves ==
  ASSUME TypeOK, TypeOK', Sound, Named, Named', Calm, Calm', NEW u \in Users,
         LeftBegins(u) \/ LeftClears(u) \/ LeftRemoves(u) \/ LeftGoesOn(u)
  PROVE  Moves(u)
<1>1. handler[u] \in {"off", "on"} /\ UNCHANGED handler
  BY AtRest, CalmIs DEF LeftBegins, LeftClears, LeftRemoves, LeftGoesOn, Sound, Placed
<1>2. /\ \A v \in Users \ {u} : cb'[v] = cb[v]
      /\ told' = told \/ told' = told \ {u}
  BY DEF LeftBegins, LeftClears, LeftRemoves, LeftGoesOn, LeftLoop, TypeOK
<1>3. \A v \in Users \ {u} : /\ cb'[v] = cb[v] /\ handler'[v] = handler[v]
                             /\ v \in told' <=> v \in told
  BY <1>1, <1>2
<1>4. /\ u \in Players <=> Has(u)
      /\ Has(u) <=> (u \in told /\ cb[u] \notin {"found", "set"}) \/ u \in Quitting
      /\ u \in Players' <=> (u \in told' /\ cb'[u] \notin {"found", "set"}) \/ u \in Quitting'
  BY DEF Named, Players
<1>5. /\ u \in Quitting <=> cb[u] = "leaving"
      /\ u \in Quitting' <=> cb'[u] = "leaving"
  BY <1>1 DEF Quitting
<1>6. cb[u] \in {"leaving", "clearing", "looking"} => u \notin told
  BY DEF Named, Known
<1>7. CASE LeftBegins(u)
  <2>1. cb[u] = "none" /\ u \notin told'
    BY <1>7 DEF LeftBegins
  <2>2. CASE Has(u)
    <3>1. cb'[u] = "leaving"
      BY <1>7, <2>2, CalledIs DEF LeftBegins, LeftLoop, TypeOK
    <3> QED BY <1>3, <1>4, <1>5, <2>1, <2>2, <3>1, MovesIs
  <2>3. CASE ~Has(u)
    <3>1. cb'[u] = "none"
      BY <1>7, <2>3, CalledIs DEF LeftBegins, LeftLoop, Has, TypeOK
    <3> QED BY <1>3, <1>4, <1>5, <2>1, <2>3, <3>1, MovesIs
  <2> QED BY <2>2, <2>3
<1>8. CASE LeftClears(u)
  <2>1. cb[u] = "leaving" /\ cb'[u] = "clearing" /\ told' = told
    BY <1>8 DEF LeftClears, TypeOK
  <2>2. u \notin told'
    BY <1>6, <2>1
  <2> QED BY <1>3, <1>4, <1>5, <2>1, <2>2, MovesIs
<1>9. CASE LeftRemoves(u)
  <2>1. cb[u] = "clearing" /\ cb'[u] = "looking" /\ told' = told
    BY <1>9 DEF LeftRemoves, TypeOK
  <2>2. u \notin told
    BY <1>6, <2>1
  <2> QED BY <1>3, <1>4, <1>5, <2>1, <2>2, MovesIs
<1>10. CASE LeftGoesOn(u)
  <2>1. cb[u] = "looking" /\ told' = told
    BY <1>10 DEF LeftGoesOn
  <2>2. u \notin told /\ ~Has(u)
    BY <1>4, <1>5, <1>6, <2>1
  <2>3. cb'[u] = "none"
    BY <1>10, <2>2, CalledIs DEF LeftGoesOn, LeftLoop, Has, TypeOK
  <2> QED BY <1>3, <1>4, <1>5, <2>1, <2>2, <2>3, MovesIs
<1> QED BY <1>7, <1>8, <1>9, <1>10

LEMMA HandlerMoves ==
  ASSUME TypeOK, TypeOK', TableInv, Sound, Named, Named', Mailed, Calm, Calm',
         NEW u \in Users, QuitBegins(u) \/ QuitClears(u) \/ QuitRemoves(u) \/ Unlist(u)
  PROVE  Moves(u)
<1>1. cb[u] = "none" /\ UNCHANGED cb
  <2>1. UNCHANGED cb
    BY DEF QuitBegins, QuitClears, QuitRemoves, Unlist
  <2>2. CASE QuitBegins(u)
    BY <2>1, <2>2, AtRest, CalmIs DEF QuitBegins
  <2>3. CASE QuitClears(u) \/ QuitRemoves(u) \/ Unlist(u)
    <3>1. handler[u] \notin {"off", "on"}
      BY <2>3 DEF QuitClears, QuitRemoves, Unlist
    <3> QED BY <2>1, <3>1, CalmIs DEF Sound, Placed
  <2> QED BY <2>2, <2>3
<1>2. /\ \A v \in Users \ {u} : handler'[v] = handler[v]
      /\ told' = told \/ told' = told \ {u}
  BY DEF QuitBegins, QuitClears, QuitRemoves, Unlist, TypeOK
<1>3. \A v \in Users \ {u} : /\ cb'[v] = cb[v] /\ handler'[v] = handler[v]
                             /\ v \in told' <=> v \in told
  BY <1>1, <1>2
<1>4. /\ u \in Players <=> Has(u)
      /\ Has(u) <=> u \in told \/ u \in Quitting
      /\ u \in Players' <=> u \in told' \/ u \in Quitting'
  BY <1>1 DEF Named, Players
<1>5. /\ u \in Quitting <=> handler[u] = "found"
      /\ u \in Quitting' <=> handler'[u] = "found"
  BY <1>1 DEF Quitting
<1>6. u \in told => handler[u] = "on"
  BY DEF TableInv
<1>7. CASE QuitBegins(u)
  <2>1. handler[u] = "on" /\ u \notin told'
    BY <1>7 DEF QuitBegins
  <2>2. ASSUME NEW k \in Seats, Finds(0, u, k), handler' = [handler EXCEPT ![u] = "found"]
        PROVE  Moves(u)
    <3>1. Has(u) /\ handler'[u] = "found"
      BY <2>2, CalledIs DEF Has, TypeOK
    <3> QED BY <1>3, <1>4, <1>5, <2>1, <3>1, MovesIs
  <2>3. ASSUME stage # "listed" \/ FindsNone(0, u),
               handler' = [handler EXCEPT ![u] = "leaving"]
        PROVE  Moves(u)
    <3>1. handler'[u] = "leaving"
      BY <2>3 DEF TypeOK
    <3>2. stage # "listed" => ~Has(u)
      BY <1>4, <1>5, <2>1 DEF Mailed
    <3>3. ~Has(u)
      BY <2>3, <3>2, CalledIs
    <3> QED BY <1>3, <1>4, <1>5, <2>1, <3>1, <3>3, MovesIs
  <2> QED BY <1>7, <2>2, <2>3 DEF QuitBegins
<1>8. CASE QuitClears(u)
  <2>1. handler[u] = "found" /\ handler'[u] = "clearing" /\ told' = told
    BY <1>8 DEF QuitClears, TypeOK
  <2> QED BY <1>3, <1>4, <1>5, <1>6, <2>1, MovesIs
<1>9. CASE QuitRemoves(u) \/ Unlist(u)
  <2>1. handler[u] # "found" /\ handler'[u] # "found" /\ told' = told
    BY <1>9 DEF QuitRemoves, Unlist, TypeOK
  <2> QED BY <1>3, <1>4, <1>5, <2>1, MovesIs
<1> QED BY <1>7, <1>8, <1>9

LEMMA SameCardinality == ASSUME NEW S PROVE Set!Cardinality(S) = Cardinality(S)
  BY DEF Set!Cardinality, Cardinality

(* A user that connects is in no player's place yet, though its LEFT of an  *)
(* earlier connection may still be handled.                                 *)
LEMMA ConnectMoves ==
  ASSUME Sound, Calm, NEW u \in Users, Connect(u)
  PROVE  Players' = Players /\ Quitting' = Quitting
<1>1. UNCHANGED <<room, cb>> /\ \A v \in Users : handler'[v] = "found" <=> handler[v] = "found"
  BY DEF Connect, TypeOK
<1> QED BY <1>1, RoomUnchanged DEF Players, Has, Quitting

(* Every step moves the set by one user at most.                            *)
LEMMA StepMoves ==
  ASSUME TypeOK, TypeOK', TableInv, Sound, Named, Named', Mailed, [Next]_vars, Calm, Calm'
  PROVE  (Players' = Players /\ Leavers' = Leavers) \/ \E u \in Users : Moves(u)
<1> DEFINE Same == Players' = Players /\ Leavers' = Leavers
<1>1. ASSUME UNCHANGED <<room, work>> PROVE Same
  <2>1. UNCHANGED <<room, cb, handler>>
    BY <1>1 DEF work
  <2>2. Players' = Players /\ Quitting' = Quitting
    BY <2>1, RoomUnchanged DEF Players, Has, Quitting
  <2> QED BY <2>2 DEF Leavers
<1>2. ASSUME NEW u \in Users, App(u) PROVE Same \/ Moves(u)
  <2>1. CASE Connect(u)
    BY <2>1, ConnectMoves DEF Leavers
  <2>2. CASE AppJoins(u) \/ AppLeaves(u) \/ ListFaults(u)
    BY <1>1, <2>2 DEF AppJoins, AppLeaves, ListFaults, DiesAtOnce
  <2> QED BY <1>2, <2>1, <2>2, OpenRoomMoves, HandlerMoves DEF App
<1>3. ASSUME NEW u \in Users, Network(u) PROVE Same \/ Moves(u)
  <2>1. ASSUME NEW what \in {"JOINED", "LEFT"}, Lose(u, what) PROVE Same
    BY <1>1, <2>1 DEF Lose
  <2> QED BY <1>3, <2>1, JoinMoves, LeftMoves DEF Network
<1>4. ASSUME NEW u \in Users, Threads(u) PROVE Same \/ Moves(u)
  <2>1. CASE JoinFaults(u) \/ LeftFaults(u) \/ QuitFaults(u)
    BY <1>1, <2>1 DEF JoinFaults, LeftFaults, QuitFaults, Dies, DiesAtOnce
  <2> QED BY <1>4, <2>1, JoinMoves, LeftMoves, HandlerMoves DEF Threads
<1>5. ASSUME RoomEnds \/ UNCHANGED vars PROVE Same
  BY <1>1, <1>5 DEF RoomEnds, vars
<1> QED
  <2> HIDE DEF Same
  <2>1. Same \/ \E u \in Users : Moves(u)
    BY <1>2, <1>3, <1>4, <1>5 DEF Next, Dead
  <2> QED BY <2>1 DEF Same

(* The room is, as long as nothing overlaps, no entry of clients[] moves    *)
(* under a player and each datagram comes once and in time, a set of users  *)
(* that each enters when its record counts and leaves, alone and after its  *)
(* LEFT or its disconnection, when its record goes: the pointers, the       *)
(* shifts and the loops do not show.                                        *)
THEOREM SetCorrect == Spec => ImplementsSet
<1> DEFINE Inv == TypeOK /\ TableInv /\ Sound /\ Named /\ Mailed
           Void == disturbed
           Map == Calm => Shown = Players
<1>1. Init => Inv
  BY InitTypes, SoundInit, NamedInit, MailedInit
<1>2. Inv /\ [Next]_vars => Inv'
  BY TypeStep, TableStep, SoundStep, NamedStep, MailedStep
<1>3. Init => Set!Init
  BY DEF Init, Set!Init, Shown, Taken, Seats, disturbed
<1>4. Inv => Map
  BY ShownIs
<1>5. /\ Inv /\ Inv' /\ Map /\ Map' /\ [Next]_vars
      => [Set!Next]_<<Shown, Quitting \cap Shown, Void>>
  <2> SUFFICES ASSUME Inv, Inv', Map, Map', [Next]_vars
               PROVE  Set!Next \/ UNCHANGED <<Shown, Quitting \cap Shown, Void>>
    OBVIOUS
  <2>1. CASE Calm /\ Calm'
    <3>1. Shown = Players /\ Shown' = Players'
      BY <2>1
    <3>2. Void' = Void
      BY <2>1 DEF Calm, disturbed
    <3>3. (Players' = Players /\ Leavers' = Leavers) \/ \E u \in Users : Moves(u)
      BY <2>1, StepMoves
    <3>4. ASSUME NEW u \in Users, Moves(u)
          PROVE  (Players' = Players /\ Leavers' = Leavers) \/ Set!Next
      BY <3>1, <3>2, <3>4, SameCardinality
      DEF Moves, Leavers, Set!Next, Set!Enter, Set!PeerCloses, Set!Leave
    <3> QED BY <3>1, <3>2, <3>3, <3>4 DEF Leavers
  <2>2. CASE ~Calm'
    <3>1. Void' = TRUE
      BY <2>2 DEF Calm
    <3> QED BY <3>1 DEF Set!Next, Set!Lapse
  <2> QED BY <2>1, <2>2, CalmBefore
<1> QED BY <1>1, <1>2, <1>3, <1>4, <1>5, PTL DEF Spec, ImplementsSet, Set!Spec
=============================================================================
