------------------------- MODULE ClientTableProofs -------------------------
(***************************************************************************)
(* Theorems about ClientTable, for every value of its constants: its types *)
(* and its count; what clients[] holds while no step has met half-done     *)
(* work; and that it then implements a plain set of connections.           *)
(***************************************************************************)
EXTENDS ClientTable, FiniteSetTheorems, TLAPS

USE DEF Full, Shifted, Unlock

(* The table's type rests on its count: a removal copies clients[j + 1].    *)
Bounded == num_clients <= MAX_CLIENTS

(* main stops adding at the capacity (main.c:137); nothing else adds.       *)
LEMMA BoundedStep == ASSUME TypeOK, Bounded, [Next]_vars PROVE Bounded'
<1> USE ClientTableAssumption DEF TypeOK, Bounded
<1>1. CASE AddClient
  BY <1>1 DEF AddClient
<1>2. ASSUME NEW t \in Threads, Decrement(t) PROVE Bounded'
  BY <1>2 DEF Decrement
<1>3. CASE UNCHANGED num_clients
  BY <1>3
<1> QED
  BY <1>1, <1>2, <1>3 DEF Next, Main, Handler, Accept, AcceptFails, Spawn, SpawnFails,
     ReadArgument, ReadError, EndOfFile, Scan, LockTable, Shift, Close, HangUp, vars

(* Every step of main, of a handler and of the network keeps the types that *)
(* the declarations of main.c and handle_client.c give their variables.     *)
LEMMA TypeStep == ASSUME TypeOK, Bounded, [Next]_vars PROVE TypeOK'
<1> USE ClientTableAssumption DEF TypeOK, Slots, Goto
<1>1. ASSUME NEW s \in Sockets, Accept(s) PROVE TypeOK'
  BY <1>1 DEF Accept, handlerVars
<1>2. CASE AcceptFails
  BY <1>2 DEF AcceptFails, handlerVars, kernelVars
<1>3. CASE AddClient
  <2>1. CASE num_clients < MAX_CLIENTS
    <3>1. disturbed' \in BOOLEAN
      BY <1>3, <2>1 DEF AddClient
    <3>2. mainPc' \in {"accept", "add", "spawn"}
      BY <1>3 DEF AddClient
    <3>3. /\ clients' \in [Slots -> Sockets \cup {NoSocket}]
          /\ num_clients' \in Int
          /\ passed' \in BOOLEAN
      BY <1>3, <2>1 DEF AddClient
    <3> QED BY <1>3, <3>1, <3>2, <3>3 DEF AddClient, handlerVars, kernelVars
  <2>2. CASE num_clients >= MAX_CLIENTS
    <3>1. disturbed' = TRUE /\ passed' = TRUE /\ UNCHANGED <<clients, num_clients>>
      BY <1>3, <2>2 DEF AddClient
    <3>2. mainPc' \in {"accept", "add", "spawn"}
      BY <1>3 DEF AddClient
    <3> QED BY <1>3, <3>1, <3>2 DEF AddClient, handlerVars, kernelVars
  <2> QED BY <2>1, <2>2
<1>4. ASSUME NEW t \in Threads, Spawn(t) PROVE TypeOK'
  BY <1>4 DEF Spawn, kernelVars
<1>5. CASE SpawnFails
  BY <1>5 DEF SpawnFails, handlerVars, kernelVars
<1>6. ASSUME NEW t \in Threads, Handler(t) PROVE TypeOK'
  <2>1. CASE ReadArgument(t)
    BY <2>1 DEF ReadArgument, kernelVars, historyVars
  <2>2. CASE ReadError(t)
    BY <2>2 DEF ReadError, vars, handlerVars, kernelVars, historyVars
  <2>3. CASE EndOfFile(t)
    <3>1. disturbed' \in BOOLEAN
      BY <2>3 DEF EndOfFile
    <3> QED BY <2>3, <3>1 DEF EndOfFile, kernelVars
  <2>4. CASE Scan(t)
    <3>1. CASE idx' = [idx EXCEPT ![t] = @ + 1] /\ UNCHANGED pc
      BY <2>4, <3>1 DEF Scan, kernelVars, historyVars
    <3>2. CASE Goto(t, "found") /\ UNCHANGED idx
      BY <2>4, <3>2 DEF Scan, kernelVars, historyVars
    <3>3. CASE Goto(t, "decrement") /\ UNCHANGED idx
      BY <2>4, <3>3 DEF Scan, kernelVars, historyVars
    <3> QED BY <2>4, <3>1, <3>2, <3>3 DEF Scan
  <2>5. CASE LockTable(t)
    <3>1. disturbed' \in BOOLEAN
      BY <2>5 DEF LockTable
    <3> QED BY <2>5, <3>1 DEF LockTable, kernelVars
  <2>6. CASE Shift(t)
    <3>1. CASE pos[t] < num_clients - 1 /\ clients' = [clients EXCEPT ![pos[t]] = clients[pos[t] + 1]]
      <4>0. pos' = [pos EXCEPT ![t] = pos[t] + 1]
        BY <2>6, <3>1 DEF Shift
      <4>1. pos' \in [Threads -> Nat]
        BY <4>0
      <4>2. /\ pc' = pc
            /\ clients_mutex' = clients_mutex
        BY <2>6, <3>1 DEF Shift
      <4>3. clients' \in [Slots -> Sockets \cup {NoSocket}]
        BY <2>6, <3>1 DEF Bounded
      <4> QED BY <2>6, <4>1, <4>2, <4>3 DEF Shift, kernelVars, historyVars
    <3>2. CASE pos[t] >= num_clients - 1
      BY <2>6, <3>2 DEF Shift, kernelVars, historyVars
    <3> QED BY <2>6, <3>1, <3>2 DEF Shift
  <2>7. CASE Decrement(t)
    BY <2>7 DEF Decrement, kernelVars, historyVars
  <2>8. CASE Close(t)
    BY <2>8 DEF Close, historyVars
  <2> QED BY <1>6, <2>1, <2>2, <2>3, <2>4, <2>5, <2>6, <2>7, <2>8 DEF Handler
<1>7. ASSUME NEW s \in Sockets, HangUp(s) PROVE TypeOK'
  BY <1>7 DEF HangUp, handlerVars, historyVars
<1>8. CASE UNCHANGED vars
  BY <1>8 DEF vars, handlerVars, kernelVars, historyVars
<1> QED BY <1>1, <1>2, <1>3, <1>4, <1>5, <1>6, <1>7, <1>8 DEF Next, Main

LEMMA InitTypes == ASSUME Init PROVE TypeOK /\ Bounded
<1>1. Bounded
  BY ClientTableAssumption DEF Init, Bounded
<1>2. /\ clients \in [Slots -> Sockets \cup {NoSocket}]
      /\ pc \in [Threads -> {"unborn", "start", "serve", "scan", "found",
                             "shift", "decrement", "close", "done"}]
      /\ sock \in [Threads -> Sockets \cup {NoSocket}]
      /\ idx \in [Threads -> Nat]
      /\ pos \in [Threads -> Nat]
      /\ owner \in [Threads -> Sockets \cup {NoSocket}]
  BY DEF Init
<1>3. /\ num_clients \in Int
      /\ clients_mutex \in Threads \cup {NoThread}
      /\ client_socket \in Sockets \cup {NoSocket}
      /\ mainPc \in {"accept", "add", "spawn"}
      /\ open \in SUBSET Sockets
      /\ hungup \in SUBSET open
  BY DEF Init
<1>4. disturbed \in BOOLEAN /\ passed \in BOOLEAN
  BY Zenon DEF Init
<1> QED BY <1>1, <1>2, <1>3, <1>4 DEF TypeOK

(* Every variable of main.c's loop and of the handlers keeps its type; no   *)
(* copy of the removal loop and no addition leaves clients[].               *)
THEOREM TypesAndBounds == Spec => [](TypeOK /\ Bounded)
<1>1. TypeOK /\ Bounded /\ [Next]_vars => (TypeOK /\ Bounded)'
  BY TypeStep, BoundedStep
<1> QED BY <1>1, InitTypes, PTL DEF Spec

THEOREM TypeCorrect == Spec => []TypeOK
  BY TypesAndBounds, PTL

THEOREM BoundsCorrect == Spec => []InBounds
<1>1. TypeOK /\ Bounded => InBounds
  BY ClientTableAssumption DEF TypeOK, Bounded, InBounds, At, Slots
<1> QED BY <1>1, TypesAndBounds, PTL

-----------------------------------------------------------------------------
(* The handlers still to lower the count are finitely many.                 *)
LEMMA RemainingFinite == IsFiniteSet(Remaining) /\ Cardinality(Remaining) \in Nat
<1>1. Remaining \subseteq Threads
  BY DEF Remaining
<1> QED BY <1>1, ClientTableAssumption, FS_Subset, FS_CardinalityType DEF ClientTableAssumption

(* handle_client lowers the count once for each handler, listed or not, and *)
(* main creates no handler without raising it, unless the table is full.    *)
LEMMA CountStep ==
  ASSUME TypeOK, CountCoversHandlers, [Next]_vars PROVE CountCoversHandlers'
<1> USE DEF CountCoversHandlers, Expected
<1>1. CASE AddClient
  <2>1. Remaining' = Remaining
    BY <1>1 DEF AddClient, Remaining, handlerVars
  <2>2. passed' \/ (num_clients' = num_clients + 1 /\ passed' = passed)
    BY <1>1 DEF AddClient
  <2>3. mainPc = "add" /\ mainPc' = "spawn"
    BY <1>1 DEF AddClient
  <2> QED BY <2>1, <2>2, <2>3, RemainingFinite DEF TypeOK
<1>2. ASSUME NEW t \in Threads, Decrement(t) PROVE CountCoversHandlers'
  <2>1. Remaining' = Remaining \ {t} /\ t \in Remaining
    BY <1>2 DEF Decrement, Remaining, Goto, TypeOK
  <2>2. Cardinality(Remaining') = Cardinality(Remaining) - 1
    BY <2>1, RemainingFinite, FS_RemoveElement
  <2>3. num_clients' = num_clients - 1 /\ passed' = passed /\ mainPc' = mainPc
    BY <1>2 DEF Decrement, historyVars
  <2> QED BY <2>2, <2>3, RemainingFinite DEF TypeOK
<1>3. ASSUME NEW t \in Threads, Spawn(t) PROVE CountCoversHandlers'
  <2>1. Remaining' = Remaining \cup {t} /\ t \notin Remaining
    BY <1>3 DEF Spawn, Remaining, Goto, TypeOK
  <2>2. Cardinality(Remaining') = Cardinality(Remaining) + 1
    BY <2>1, RemainingFinite, FS_AddElement
  <2>3. mainPc = "spawn" /\ mainPc' = "accept" /\ UNCHANGED <<num_clients, passed>>
    BY <1>3 DEF Spawn
  <2> QED BY <2>2, <2>3, RemainingFinite DEF TypeOK
<1>4. CASE UNCHANGED <<num_clients, passed>> /\ Remaining' = Remaining
           /\ (mainPc' = "spawn" => mainPc = "spawn")
  BY <1>4, RemainingFinite DEF TypeOK
<1>5. ASSUME NEW t \in Threads, Handler(t), ~Decrement(t) PROVE CountCoversHandlers'
  <2>1. UNCHANGED <<num_clients, passed, mainPc>>
    BY <1>5 DEF Handler, ReadArgument, ReadError, EndOfFile, Scan, LockTable, Shift,
       Close, vars, historyVars
  <2>2. Remaining' = Remaining
    <3>1. CASE Close(t)
      BY <3>1 DEF Close, Remaining, Goto, TypeOK
    <3>2. CASE pc' = pc
      BY <3>2 DEF Remaining
    <3>3. CASE \E l \in {"serve", "scan", "found", "shift", "decrement"} :
                 Goto(t, l) /\ pc[t] \notin {"unborn", "close", "done"}
      BY <3>3 DEF Remaining, Goto, TypeOK
    <3> QED
      BY <1>5, <3>1, <3>2, <3>3 DEF Handler, ReadArgument, ReadError, EndOfFile, Scan,
         LockTable, Shift, vars, handlerVars
  <2> QED BY <1>4, <2>1, <2>2
<1>6. ASSUME UNCHANGED <<pc, num_clients, passed>>, mainPc' = "spawn" => mainPc = "spawn"
      PROVE  CountCoversHandlers'
  BY <1>4, <1>6 DEF Remaining
<1> QED
  BY <1>1, <1>2, <1>3, <1>5, <1>6 DEF Next, Main, Accept, AcceptFails, SpawnFails, HangUp,
     vars, handlerVars, historyVars

(* Unless a full table has passed a connection over, num_clients covers the *)
(* handlers still to lower it and so never falls below zero.                *)
THEOREM CountCorrect == Spec => []CountCoversHandlers
<1>1. Init => CountCoversHandlers
  <2>1. Init => Remaining = {}
    BY DEF Init, Remaining
  <2> QED BY <2>1, FS_EmptySet DEF Init, CountCoversHandlers, Expected
<1>2. TypeOK /\ CountCoversHandlers /\ [Next]_vars => CountCoversHandlers'
  BY CountStep
<1> QED BY <1>1, <1>2, TypeCorrect, PTL DEF Spec

-----------------------------------------------------------------------------
(* Threads that have been created and have not closed their descriptor.     *)
Live == {t \in Threads : pc[t] \notin {"unborn", "done"}}

(* Main's local names the connection of the one thread that has not read it *)
(* yet, or the connection it is about to give a thread, and no two threads  *)
(* were given the same connection: so a close takes away only its own.      *)
Owners ==
  /\ \A t \in Live : owner[t] \in open
  /\ \A t, u \in Live : owner[t] = owner[u] => t = u
  /\ \A t \in Threads : pc[t] \notin {"unborn", "start"} => sock[t] = owner[t]
  /\ \A t \in At("start") : owner[t] = client_socket
  /\ mainPc # "accept" => /\ At("start") = {}
                          /\ client_socket \in open
                          /\ \A t \in Live : owner[t] # client_socket

(* A step that leaves the argument of pthread_create alone until the thread *)
(* has read it keeps every thread on its own open connection.               *)
LEMMA OwnersStep ==
  ASSUME TypeOK, Owners, ~disturbed, [Next]_vars, ~disturbed'
  PROVE  Owners'
<1> USE DEF Owners, Live, At, TypeOK, Goto
<1>1. ASSUME NEW s \in Sockets, Accept(s) PROVE Owners'
  <2>1. At("start") = {}
    BY <1>1 DEF Accept, ArgumentUnread
  <2> QED BY <1>1, <2>1 DEF Accept, handlerVars
<1>2. CASE AcceptFails
  <2>1. At("start") = {}
    BY <1>2 DEF AcceptFails, ArgumentUnread
  <2> QED BY <1>2, <2>1 DEF AcceptFails, handlerVars, kernelVars
<1>3. CASE AddClient
  BY <1>3 DEF AddClient, handlerVars, kernelVars
<1>4. ASSUME NEW t \in Threads, Spawn(t) PROVE Owners'
  <2>1. /\ pc' = [pc EXCEPT ![t] = "start"]
        /\ owner' = [owner EXCEPT ![t] = client_socket]
        /\ mainPc' = "accept" /\ mainPc = "spawn" /\ pc[t] = "unborn"
        /\ UNCHANGED <<client_socket, sock, open>>
    BY <1>4 DEF Spawn, kernelVars
  <2> QED BY <2>1
<1>5. CASE SpawnFails
  BY <1>5 DEF SpawnFails
<1>6. ASSUME NEW t \in Threads, Handler(t) PROVE Owners'
  <2>1. CASE ReadArgument(t)
    BY <2>1 DEF ReadArgument, kernelVars, historyVars
  <2>2. CASE Close(t)
    <3>1. sock[t] = owner[t] /\ t \in Live
      BY <2>2 DEF Close
    <3> QED BY <2>2, <3>1 DEF Close, historyVars
  <2>3. CASE UNCHANGED vars
    BY <2>3 DEF vars, handlerVars, kernelVars, historyVars
  <2>4. CASE /\ UNCHANGED <<owner, sock, open, client_socket, mainPc>>
             /\ pc[t] \notin {"unborn", "start", "done"}
             /\ \/ pc' = pc
                \/ \E l \in {"scan", "found", "shift", "decrement", "close"} :
                     pc' = [pc EXCEPT ![t] = l]
    BY <2>4
  <2> QED
    BY <1>6, <2>1, <2>2, <2>3, <2>4 DEF Handler, ReadError, EndOfFile, Scan, LockTable,
       Shift, Decrement, kernelVars, historyVars
<1>7. ASSUME NEW s \in Sockets, HangUp(s) PROVE Owners'
  BY <1>7 DEF HangUp, handlerVars, historyVars
<1>8. CASE UNCHANGED vars
  BY <1>8 DEF vars, handlerVars, kernelVars, historyVars
<1> QED BY <1>1, <1>2, <1>3, <1>4, <1>5, <1>6, <1>7, <1>8 DEF Next, Main

(* The history variable only ever rises.                                    *)
LEMMA DisturbedStays == ASSUME TypeOK, [Next]_vars, disturbed PROVE disturbed'
  BY DEF TypeOK, Next, Main, Handler, Accept, AcceptFails, AddClient, Spawn, SpawnFails,
     ReadArgument, ReadError, EndOfFile, Scan, LockTable, Shift, Decrement, Close, HangUp,
     vars, historyVars

(* While no accept() has overwritten an argument that was still to be read, *)
(* each handler thread serves the connection main created it for, and no    *)
(* other thread closes that under it.                                       *)
THEOREM OwnHandlerCorrect == Spec => []OwnHandlerWhenCalm
<1> DEFINE Inv == ~disturbed => Owners
<1>1. Init => Inv
  BY DEF Init, Owners, Live, At
<1>2. TypeOK /\ Inv /\ [Next]_vars => Inv'
  BY OwnersStep, DisturbedStays
<1>3. TypeOK /\ Inv => OwnHandlerWhenCalm
  BY DEF Owners, Live, OwnHandlerWhenCalm, OwnHandler
<1> QED BY <1>1, <1>2, <1>3, TypeCorrect, PTL DEF Spec

-----------------------------------------------------------------------------
(* What clients[] holds while no step has met half-done work.               *)

HIDE DEF Full, Shifted, Unlock

(* The handlers whose entry is out and still counted. *)
Removing == At("shift") \cup At("decrement")

(* A removal loop runs under clients_mutex, and nothing else keeps it.      *)
MutexHeld == \A t \in Threads : pc[t] = "shift" <=> clients_mutex = t

(* The settled entries are the served connections, each once.               *)
Exact ==
  /\ Settled \in Nat
  /\ \A k, l \in 0 .. Settled - 1 : Entry(k) = Entry(l) => k = l
  /\ \A k \in 0 .. Settled - 1 : Entry(k) \in Served
  /\ \A s \in Served : \E k \in 0 .. Settled - 1 : Entry(k) = s

(* A handler that searches will find its entry, or has found it, and no     *)
(* entry moves meanwhile.                                                   *)
Search ==
  /\ At("scan") \cup At("found") # {} => At("shift") = {}
  /\ \A t \in At("scan") : \E k \in idx[t] .. Settled - 1 : clients[k] = sock[t]
  /\ \A t \in At("found") : idx[t] \in 0 .. Settled - 1 /\ clients[idx[t]] = sock[t]

LEMMA RemovingFinite == IsFiniteSet(Removing) /\ Cardinality(Removing) \in Nat
<1>1. Removing \subseteq Threads
  BY DEF Removing, At
<1> QED BY <1>1, ClientTableAssumption, FS_Subset, FS_CardinalityType

LEMMA SettledIs == Settled = num_clients - Cardinality(Removing)
  BY DEF Settled, Removing

LEMMA SettledBound ==
  ASSUME TypeOK, Bounded
  PROVE  Settled \in Int /\ Settled <= num_clients /\ Settled <= MAX_CLIENTS
  BY RemovingFinite, SettledIs, ClientTableAssumption DEF TypeOK, Bounded

(* Where no removal loop is at work an entry is what clients[] holds; where *)
(* one is, it is alone.                                                     *)
LEMMA EntryStill ==
  ASSUME At("shift") = {}, NEW k \in Int PROVE Entry(k) = clients[k]
  BY DEF Entry

LEMMA EntryMoving ==
  ASSUME MutexHeld, NEW t \in At("shift"), NEW k \in Int
  PROVE  Entry(k) = IF pos[t] <= k THEN clients[k + 1] ELSE clients[k]
<1>1. \A u \in At("shift") : u = t
  BY DEF MutexHeld, At
<1> QED BY <1>1 DEF Entry

LEMMA MutexStep == ASSUME TypeOK, MutexHeld, [Next]_vars PROVE MutexHeld'
<1> USE ClientTableAssumption DEF MutexHeld, Goto, TypeOK
<1>1. ASSUME NEW t \in Threads, Handler(t) PROVE MutexHeld'
  <2>1. CASE LockTable(t)
    BY <2>1 DEF LockTable
  <2>2. CASE Shift(t)
    BY <2>2 DEF Shift, Unlock
  <2>3. CASE /\ clients_mutex' = clients_mutex
             /\ \/ pc' = pc
                \/ \E l \in {"serve", "scan", "found", "decrement", "close", "done"} :
                     pc[t] # "shift" /\ pc' = [pc EXCEPT ![t] = l]
    BY <2>3
  <2> QED
    BY <1>1, <2>1, <2>2, <2>3 DEF Handler, ReadArgument, ReadError, EndOfFile, Scan,
       Decrement, Close, vars, handlerVars
<1>2. ASSUME NEW t \in Threads, Spawn(t) PROVE MutexHeld'
  BY <1>2 DEF Spawn
<1>3. CASE UNCHANGED <<pc, clients_mutex>>
  BY <1>3
<1> QED
  BY <1>1, <1>2, <1>3 DEF Next, Main, Accept, AcceptFails, AddClient, SpawnFails, HangUp,
     vars, handlerVars

-----------------------------------------------------------------------------
(* A step that leaves the entries, the removals and who is served alone.    *)
LEMMA ExactStays ==
  ASSUME Exact, UNCHANGED <<clients, num_clients, pos>>, Served' = Served,
         At("shift")' = At("shift"), Removing' = Removing
  PROVE  Exact' /\ Settled' = Settled
<1>1. Settled' = Settled
  BY SettledIs DEF Settled, Removing
<1>2. \A k \in Int : Entry(k)' = Entry(k)
  BY DEF Entry
<1> QED BY <1>1, <1>2 DEF Exact

(* main enters its connection behind the others, while nothing is being     *)
(* removed.                                                                 *)
LEMMA AddStep ==
  ASSUME TypeOK, Bounded, Owners, MutexHeld, Exact, Search, AddClient, ~disturbed'
  PROVE  Exact' /\ Search'
<1> USE ClientTableAssumption
<1>1. /\ ~Full /\ At("decrement") = {}
      /\ clients' = [clients EXCEPT ![num_clients] = client_socket]
      /\ num_clients' = num_clients + 1
      /\ mainPc = "add" /\ mainPc' = "spawn" /\ clients_mutex = NoThread
      /\ UNCHANGED <<pc, sock, idx, pos, client_socket>>
  BY DEF AddClient, handlerVars
<1>2. At("shift") = {}
  BY <1>1 DEF MutexHeld, At
<1>3. Removing = {} /\ Removing' = {} /\ At("shift")' = {}
  BY <1>1, <1>2 DEF Removing, At
<1>n. PICK n \in Int : n = num_clients
  BY DEF TypeOK
<1>4. Settled = n /\ Settled' = n + 1
  <2>1. Cardinality(Removing) = 0 /\ Cardinality(Removing') = 0
    BY <1>3, FS_EmptySet
  <2>2. Settled = num_clients - 0 /\ Settled' = num_clients' - 0
    BY <2>1 DEF Settled, Removing
  <2> QED BY <1>1, <1>n, <2>2
<1>5. n \in Nat /\ n \in Slots
  BY <1>1, <1>4, <1>n DEF Exact, Full, Slots
<1>6. /\ \A k \in 0 .. n - 1 : Entry(k)' = Entry(k) /\ clients'[k] = clients[k]
      /\ Entry(n)' = client_socket
  <2>1. \A k \in Int : Entry(k) = clients[k] /\ Entry(k)' = clients'[k]
    BY <1>2, <1>3 DEF Entry
  <2>2. clients'[n] = client_socket
    BY <1>1, <1>5, <1>n DEF TypeOK
  <2>3. \A k \in 0 .. n - 1 : clients'[k] = clients[k]
    BY <1>1, <1>5, <1>n DEF TypeOK, Slots
  <2> QED BY <1>5, <2>1, <2>2, <2>3
<1>7. At("start") = {} /\ client_socket \notin Served
  <2>1. At("start") = {} /\ \A t \in Live : owner[t] # client_socket
    BY <1>1 DEF Owners
  <2>2. \A t \in At("serve") \cup At("scan") \cup At("found") : sock[t] # client_socket
    BY <2>1 DEF Owners, Live, At
  <2> QED BY <1>1, <2>1, <2>2 DEF Served, ArgumentUnread
<1>8. Served' = Served \cup {client_socket}
  BY <1>1, <1>7 DEF Served, ArgumentUnread, At
<1>9. Exact'
  <2>1. \A k \in 0 .. n : k \in 0 .. n - 1 \/ k = n
    BY <1>5
  <2>2. \A k \in 0 .. n - 1 : Entry(k) \in Served /\ Entry(k) # client_socket
    BY <1>4, <1>7 DEF Exact
  <2>3. \A k, l \in 0 .. n : Entry(k)' = Entry(l)' => k = l
    BY <1>4, <1>6, <2>1, <2>2 DEF Exact
  <2>4. \A k \in 0 .. n : Entry(k)' \in Served'
    BY <1>6, <1>8, <2>1, <2>2
  <2>5. \A s \in Served' : \E k \in 0 .. n : Entry(k)' = s
    <3> SUFFICES ASSUME NEW s \in Served' PROVE \E k \in 0 .. n : Entry(k)' = s
      OBVIOUS
    <3>1. CASE s = client_socket
      BY <1>5, <1>6, <3>1
    <3>2. CASE s \in Served
      <4>1. PICK k \in 0 .. n - 1 : Entry(k) = s
        BY <1>4, <3>2 DEF Exact
      <4>2. k \in 0 .. n /\ Entry(k)' = s
        BY <1>5, <1>6, <4>1
      <4> QED BY <4>2
    <3> QED BY <1>8, <3>1, <3>2
  <2>6. Settled' - 1 = n /\ Settled' \in Nat
    BY <1>4, <1>5
  <2> QED BY <2>3, <2>4, <2>5, <2>6 DEF Exact
<1>10. Search'
  <2>1. \A t \in At("scan") : \E k \in idx[t] .. Settled' - 1 : clients'[k] = sock[t]
    <3> SUFFICES ASSUME NEW t \in At("scan")
                 PROVE  \E k \in idx[t] .. Settled' - 1 : clients'[k] = sock[t]
      OBVIOUS
    <3>1. PICK k \in idx[t] .. Settled - 1 : clients[k] = sock[t]
      BY DEF Search
    <3>2. idx[t] \in Nat
      BY DEF TypeOK, At
    <3>3. k \in 0 .. n - 1 /\ k \in idx[t] .. Settled' - 1
      BY <1>4, <1>5, <3>1, <3>2
    <3> QED BY <1>6, <3>1, <3>3
  <2>2. \A t \in At("found") :
          idx[t] \in 0 .. Settled' - 1 /\ clients'[idx[t]] = sock[t]
    BY <1>4, <1>5, <1>6 DEF Search
  <2> QED BY <1>1, <1>3, <2>1, <2>2 DEF Search, At
<1> QED BY <1>9, <1>10

(* A handler takes its entry out: it counts no more, and those behind it    *)
(* are read one further on.                                                 *)
LEMMA LockStep ==
  ASSUME TypeOK, Bounded, Owners, MutexHeld, Exact, Search, ~disturbed',
         NEW t \in Threads, LockTable(t)
  PROVE  Exact' /\ Search'
<1> USE ClientTableAssumption
<1>1. /\ pc[t] = "found" /\ pc' = [pc EXCEPT ![t] = "shift"]
      /\ pos' = [pos EXCEPT ![t] = idx[t]]
      /\ At("scan") \cup At("found") = {t}
      /\ UNCHANGED <<clients, num_clients, sock, idx, client_socket, mainPc>>
  BY DEF LockTable, Goto
<1>2. At("shift") = {} /\ At("shift")' = {t}
  BY <1>1 DEF Search, At, TypeOK
<1>3. Settled' = Settled - 1
  <2>1. Removing' = Removing \cup {t} /\ t \notin Removing
    BY <1>1 DEF Removing, At, TypeOK
  <2>2. Cardinality(Removing') = Cardinality(Removing) + 1
    BY <2>1, RemovingFinite, FS_AddElement
  <2> QED BY <1>1, <2>2, RemovingFinite DEF Settled, Removing, TypeOK
<1> DEFINE p == idx[t]
<1>4. p \in 0 .. Settled - 1 /\ clients[p] = sock[t]
  BY <1>1 DEF Search, At
<1>5. \A k \in Int : /\ Entry(k) = clients[k]
                     /\ Entry(k)' = IF p <= k THEN clients[k + 1] ELSE clients[k]
  <2>1. pos'[t] = p
    BY <1>1 DEF TypeOK
  <2> HIDE DEF p
  <2> QED BY <1>1, <1>2, <2>1 DEF Entry
<1> HIDE DEF p
<1> DEFINE f == [k \in 0 .. Settled' - 1 |-> IF p <= k THEN k + 1 ELSE k]
<1>6. Settled \in Nat /\ Settled' \in Nat
  BY <1>3, <1>4 DEF Exact
<1>7. /\ \A k \in 0 .. Settled' - 1 : /\ f[k] \in 0 .. Settled - 1 /\ f[k] # p
                                      /\ Entry(k)' = Entry(f[k])
      /\ \A k, l \in 0 .. Settled' - 1 : f[k] = f[l] => k = l
      /\ \A j \in 0 .. Settled - 1 : j # p => \E k \in 0 .. Settled' - 1 : f[k] = j
  <2>1. \A k \in 0 .. Settled' - 1 : f[k] \in 0 .. Settled - 1 /\ f[k] # p
    BY <1>3, <1>4, <1>6
  <2>2. \A k \in 0 .. Settled' - 1 : Entry(k)' = Entry(f[k])
    BY <1>3, <1>4, <1>5, <1>6
  <2>3. \A k, l \in 0 .. Settled' - 1 : f[k] = f[l] => k = l
    BY <1>4, <1>6
  <2>4. ASSUME NEW j \in 0 .. Settled - 1, j # p
        PROVE  \E k \in 0 .. Settled' - 1 : f[k] = j
    <3>1. CASE j < p
      <4>1. j \in 0 .. Settled' - 1 /\ f[j] = j
        BY <1>3, <1>4, <1>6, <3>1
      <4> QED BY <4>1
    <3>2. CASE j > p
      <4>1. j - 1 \in 0 .. Settled' - 1 /\ f[j - 1] = j
        BY <1>3, <1>4, <1>6, <3>2
      <4> QED BY <4>1
    <3> QED BY <1>4, <2>4, <3>1, <3>2
  <2> QED BY <2>1, <2>2, <2>3, <2>4
<1> HIDE DEF f
<1>8. Served' = Served \ {sock[t]}
  <2>1. t \in Live /\ sock[t] = owner[t]
    BY <1>1 DEF Owners, Live
  <2>2. \A u \in At("serve") : sock[u] # sock[t]
    BY <1>1, <2>1 DEF Owners, Live, At
  <2>3. ArgumentUnread \/ mainPc = "spawn" => client_socket # sock[t]
    BY <1>1, <2>1 DEF Owners, Live, At, ArgumentUnread
  <2>4. Served = {sock[u] : u \in At("serve")} \cup {sock[t]}
                   \cup (IF ArgumentUnread \/ mainPc = "spawn" THEN {client_socket} ELSE {})
    BY <1>1 DEF Served
  <2>5. Served' = {sock[u] : u \in At("serve")}
                   \cup (IF ArgumentUnread \/ mainPc = "spawn" THEN {client_socket} ELSE {})
    <3>1. /\ At("serve")' = At("serve") /\ At("scan")' = {} /\ At("found")' = {}
          /\ ArgumentUnread' = ArgumentUnread
      BY <1>1 DEF At, TypeOK, ArgumentUnread
    <3> QED BY <1>1, <3>1 DEF Served
  <2> QED BY <2>2, <2>3, <2>4, <2>5
<1>9. Exact'
  <2>0. Entry(p) = sock[t]
    BY <1>4, <1>5
  <2>1. \A k, l \in 0 .. Settled' - 1 : Entry(k)' = Entry(l)' => k = l
    BY <1>7 DEF Exact
  <2>2. \A k \in 0 .. Settled' - 1 : Entry(k)' \in Served'
    BY <1>4, <1>7, <1>8, <2>0 DEF Exact
  <2>3. \A s \in Served' : \E k \in 0 .. Settled' - 1 : Entry(k)' = s
    <3> SUFFICES ASSUME NEW s \in Served' PROVE \E k \in 0 .. Settled' - 1 : Entry(k)' = s
      OBVIOUS
    <3>1. PICK j \in 0 .. Settled - 1 : Entry(j) = s
      BY <1>8 DEF Exact
    <3>2. j # p
      BY <1>8, <2>0, <3>1
    <3> QED BY <1>7, <3>1, <3>2
  <2> QED BY <1>6, <2>1, <2>2, <2>3 DEF Exact
<1>10. Search'
  <2>1. At("scan")' = {} /\ At("found")' = {}
    BY <1>1 DEF At, TypeOK
  <2> QED BY <2>1 DEF Search
<1> QED BY <1>9, <1>10

(* A copy of the removal loop, or its end, leaves every entry as it reads.  *)
LEMMA ShiftStep ==
  ASSUME TypeOK, Bounded, MutexHeld, Exact, Search, NEW t \in Threads, Shift(t)
  PROVE  Exact' /\ Search'
<1> USE ClientTableAssumption DEF Shifted
<1>1. /\ t \in At("shift") /\ At("scan") \cup At("found") = {}
      /\ UNCHANGED <<num_clients, sock, idx, client_socket, mainPc>>
  BY DEF Shift, Search, At
<1>2. Removing' = Removing /\ t \in Removing
  BY DEF Shift, Removing, At, Goto, TypeOK
<1>3. Settled' = Settled /\ Settled <= num_clients - 1 /\ Settled \in Nat
  <2>1. Cardinality(Removing) # 0
    BY <1>2, RemovingFinite, FS_EmptySet
  <2>2. Settled' = num_clients' - Cardinality(Removing')
    BY DEF Settled, Removing
  <2>3. Settled' = Settled
    BY <1>1, <1>2, <2>2, SettledIs
  <2>4. num_clients \in Int /\ Settled \in Nat
    BY DEF TypeOK, Exact
  <2> QED BY <2>1, <2>3, <2>4, RemovingFinite, SettledIs
<1>4. At("scan")' = {} /\ At("found")' = {} /\ Served' = Served
  <2>1. /\ At("scan")' = {} /\ At("found")' = {}
        /\ At("serve")' = At("serve") /\ ArgumentUnread' = ArgumentUnread
    BY <1>1 DEF Shift, Goto, At, TypeOK, ArgumentUnread
  <2> QED BY <1>1, <2>1 DEF Served
<1>5. \A k \in 0 .. Settled - 1 : Entry(k)' = Entry(k)
  <2> DEFINE E(k) == IF pos[t] <= k THEN clients[k + 1] ELSE clients[k]
  <2>1. \A k \in Int : Entry(k) = E(k)
    BY <1>1, EntryMoving
  <2>2. CASE ~Shifted(t)
    <3>1. /\ clients' = [clients EXCEPT ![pos[t]] = clients[pos[t] + 1]]
          /\ pos' = [pos EXCEPT ![t] = pos[t] + 1] /\ pc' = pc
      BY <2>2 DEF Shift
    <3>2. At("shift")' = {t}
      BY <1>1, <3>1 DEF MutexHeld, At
    <3>3. pos[t] \in Nat /\ pos'[t] = pos[t] + 1 /\ pos[t] < num_clients - 1
      BY <2>2, <3>1 DEF TypeOK
    <3>4. \A k \in Int : Entry(k)' = IF pos[t] + 1 <= k THEN clients'[k + 1] ELSE clients'[k]
      BY <3>2, <3>3 DEF Entry
    <3>5. pos[t] \in Slots
      BY <3>3 DEF Bounded, Slots, TypeOK
    <3>6. \A k \in 0 .. MAX_CLIENTS - 1 :
            clients'[k] = IF k = pos[t] THEN clients[pos[t] + 1] ELSE clients[k]
      BY <3>1, <3>5 DEF TypeOK, Slots
    <3>7. Settled <= MAX_CLIENTS - 1
      BY <1>3 DEF Bounded, TypeOK
    <3>8. ASSUME NEW k \in 0 .. Settled - 1 PROVE Entry(k)' = E(k)
      <4>1. k \in 0 .. MAX_CLIENTS - 1 /\ k + 1 \in 0 .. MAX_CLIENTS - 1
        BY <1>3, <3>7
      <4>2. CASE k < pos[t]
        BY <3>3, <3>4, <3>6, <4>1, <4>2
      <4>3. CASE k = pos[t]
        BY <3>3, <3>4, <3>6, <4>1, <4>3
      <4>4. CASE k > pos[t]
        BY <3>3, <3>4, <3>6, <4>1, <4>4
      <4> QED BY <3>3, <4>2, <4>3, <4>4
    <3> QED BY <2>1, <3>8
  <2>3. CASE Shifted(t)
    <3>1. clients' = clients /\ pos' = pos /\ pc' = [pc EXCEPT ![t] = "decrement"]
      BY <2>3 DEF Shift, Goto
    <3>2. At("shift")' = {}
      BY <1>1, <3>1 DEF MutexHeld, At, TypeOK
    <3>3. \A k \in Int : Entry(k)' = clients[k]
      BY <3>1, <3>2 DEF Entry
    <3>4. \A k \in 0 .. Settled - 1 : ~(pos[t] <= k)
      BY <1>3, <2>3 DEF TypeOK
    <3> QED BY <2>1, <3>3, <3>4
  <2> QED BY <2>2, <2>3
<1> QED BY <1>3, <1>4, <1>5 DEF Exact, Search

(* The second critical section: one entry less to be taken off, one less    *)
(* counted.                                                                 *)
LEMMA DecrementStep ==
  ASSUME TypeOK, MutexHeld, Exact, Search, NEW t \in Threads, Decrement(t)
  PROVE  Exact' /\ Search'
<1> USE ClientTableAssumption
<1>1. /\ pc[t] = "decrement" /\ pc' = [pc EXCEPT ![t] = "close"]
      /\ num_clients' = num_clients - 1 /\ clients_mutex = NoThread
      /\ UNCHANGED <<clients, sock, idx, pos, client_socket, mainPc>>
  BY DEF Decrement, Goto
<1>2. Settled' = Settled
  <2>1. Removing = Removing' \cup {t} /\ t \notin Removing'
    BY <1>1 DEF Removing, At, TypeOK
  <2>2. IsFiniteSet(Removing') /\ Cardinality(Removing') \in Nat
    BY <2>1, RemovingFinite, FS_Subset, FS_CardinalityType
  <2>3. Cardinality(Removing) = Cardinality(Removing') + 1
    BY <2>1, <2>2, FS_AddElement
  <2> QED BY <1>1, <2>2, <2>3 DEF Settled, Removing, TypeOK
<1>3. /\ At("shift") = {} /\ At("shift")' = {}
      /\ At("scan")' = At("scan") /\ At("found")' = At("found")
      /\ At("serve")' = At("serve") /\ ArgumentUnread' = ArgumentUnread
  BY <1>1 DEF MutexHeld, At, TypeOK, ArgumentUnread
<1>4. Served' = Served
  BY <1>1, <1>3 DEF Served
<1>5. \A k \in Int : Entry(k)' = Entry(k)
  BY <1>1, <1>3 DEF Entry
<1> QED BY <1>1, <1>2, <1>3, <1>4, <1>5 DEF Exact, Search

(* The search: its entry is at or behind idx, so it never runs off the end. *)
LEMMA ScanStep ==
  ASSUME TypeOK, Exact, Search, NEW t \in Threads, Scan(t)
  PROVE  Exact' /\ Search'
<1>1. /\ pc[t] = "scan"
      /\ UNCHANGED <<clients, num_clients, sock, pos, client_socket, mainPc>>
  BY DEF Scan
<1>2. PICK k \in idx[t] .. Settled - 1 : clients[k] = sock[t]
  BY <1>1 DEF Search, At
<1>3. idx[t] \in Nat /\ Settled \in Nat /\ Settled <= num_clients /\ num_clients \in Int
  BY RemovingFinite, SettledIs DEF TypeOK, Exact
<1>4. idx[t] < num_clients
  BY <1>2, <1>3
<1>5. CASE /\ clients[idx[t]] = sock[t]
           /\ pc' = [pc EXCEPT ![t] = "found"] /\ idx' = idx
  <2>1. /\ At("shift")' = At("shift") /\ Removing' = Removing
        /\ At("scan")' = At("scan") \ {t} /\ At("found")' = At("found") \cup {t}
        /\ At("serve")' = At("serve") /\ ArgumentUnread' = ArgumentUnread
        /\ t \in At("scan")
    BY <1>1, <1>5 DEF At, Removing, TypeOK, ArgumentUnread
  <2>2. Served' = Served
    BY <1>1, <2>1 DEF Served
  <2>3. Exact' /\ Settled' = Settled
    BY <1>1, <2>1, <2>2, ExactStays
  <2>4. idx[t] \in 0 .. Settled - 1
    BY <1>2, <1>3
  <2> QED BY <1>1, <1>5, <2>1, <2>3, <2>4 DEF Search
<1>6. CASE /\ clients[idx[t]] # sock[t]
           /\ idx' = [idx EXCEPT ![t] = idx[t] + 1] /\ pc' = pc
  <2>1. /\ At("shift")' = At("shift") /\ Removing' = Removing
        /\ At("scan")' = At("scan") /\ At("found")' = At("found")
    BY <1>6 DEF At, Removing
  <2>2. Served' = Served
    BY <1>1, <1>6 DEF Served, ArgumentUnread, At
  <2>3. Exact' /\ Settled' = Settled
    BY <1>1, <2>1, <2>2, ExactStays
  <2>4. k \in idx[t] + 1 .. Settled - 1
    BY <1>2, <1>3, <1>6
  <2>5. t \notin At("found")
    BY <1>1 DEF At
  <2>6. \A u \in Threads : idx'[u] = IF u = t THEN idx[t] + 1 ELSE idx[u]
    BY <1>6 DEF TypeOK
  <2>7. \A u \in At("scan") : \E j \in idx'[u] .. Settled - 1 : clients[j] = sock[u]
    BY <1>2, <2>4, <2>6 DEF Search, At
  <2>8. \A u \in At("found") : idx'[u] = idx[u]
    BY <2>5, <2>6 DEF At
  <2> QED BY <1>1, <2>1, <2>3, <2>7, <2>8 DEF Search
<1> QED BY <1>3, <1>4, <1>5, <1>6 DEF Scan, Goto, TypeOK

(* The other steps neither move an entry nor change who is served.          *)
LEMMA ExactStep ==
  ASSUME TypeOK, Bounded, Owners, MutexHeld, Exact, Search,
         [Next]_vars, ~disturbed, ~disturbed'
  PROVE  Exact' /\ Search'
<1>1. ASSUME /\ UNCHANGED <<clients, num_clients, pos, idx, sock>>
             /\ At("shift")' = At("shift") /\ Removing' = Removing
             /\ At("scan")' = At("scan") /\ At("found")' = At("found")
             /\ Served' = Served
      PROVE  Exact' /\ Search'
  BY <1>1, ExactStays DEF Search
<1>2. ASSUME NEW s \in Sockets, Accept(s) PROVE Exact' /\ Search'
  <2>1. /\ At("start") = {} /\ mainPc = "accept" /\ mainPc' = "add"
        /\ UNCHANGED <<clients, num_clients, pos, idx, sock, pc>>
    BY <1>2 DEF Accept, ArgumentUnread, handlerVars
  <2>2. /\ At("shift")' = At("shift") /\ At("decrement")' = At("decrement")
        /\ At("scan")' = At("scan") /\ At("found")' = At("found")
        /\ At("serve")' = At("serve") /\ At("start")' = At("start")
    BY <2>1 DEF At
  <2>3. Served' = Served
    BY <2>1, <2>2 DEF Served, ArgumentUnread
  <2> QED BY <1>1, <2>1, <2>2, <2>3 DEF Removing
<1>3. CASE AcceptFails
  <2>1. /\ At("start") = {} /\ mainPc = "accept"
        /\ UNCHANGED <<clients, num_clients, pos, idx, sock, pc, mainPc>>
    BY <1>3 DEF AcceptFails, ArgumentUnread, handlerVars
  <2>2. /\ At("shift")' = At("shift") /\ At("decrement")' = At("decrement")
        /\ At("scan")' = At("scan") /\ At("found")' = At("found")
        /\ At("serve")' = At("serve") /\ At("start")' = At("start")
    BY <2>1 DEF At
  <2>3. Served' = Served
    BY <2>1, <2>2 DEF Served, ArgumentUnread
  <2> QED BY <1>1, <2>1, <2>2, <2>3 DEF Removing
<1>4. CASE AddClient
  BY <1>4, AddStep
<1>5. ASSUME NEW t \in Threads, Spawn(t) PROVE Exact' /\ Search'
  <2>1. /\ mainPc = "spawn" /\ pc[t] = "unborn" /\ pc' = [pc EXCEPT ![t] = "start"]
        /\ UNCHANGED <<clients, num_clients, pos, idx, sock, client_socket>>
    BY <1>5 DEF Spawn, Goto
  <2>2. /\ At("shift")' = At("shift") /\ At("decrement")' = At("decrement")
        /\ At("scan")' = At("scan") /\ At("found")' = At("found")
        /\ At("serve")' = At("serve") /\ At("start")' # {}
    BY <2>1 DEF At, TypeOK
  <2>3. Served' = Served
    BY <2>1, <2>2 DEF Served, ArgumentUnread
  <2> QED BY <1>1, <2>1, <2>2, <2>3 DEF Removing
<1>6. CASE SpawnFails
  BY <1>6 DEF SpawnFails
<1>7. ASSUME NEW t \in Threads, ReadArgument(t) PROVE Exact' /\ Search'
  <2>1. /\ pc[t] = "start" /\ pc' = [pc EXCEPT ![t] = "serve"]
        /\ sock' = [sock EXCEPT ![t] = client_socket]
        /\ UNCHANGED <<clients, num_clients, pos, idx, client_socket, mainPc>>
    BY <1>7 DEF ReadArgument, Goto
  <2>2. At("start") = {t} /\ mainPc = "accept"
    BY <2>1 DEF Owners, Live, At, TypeOK
  <2>3. /\ At("shift")' = At("shift") /\ At("decrement")' = At("decrement")
        /\ At("scan")' = At("scan") /\ At("found")' = At("found")
        /\ At("serve")' = At("serve") \cup {t} /\ At("start")' = {}
        /\ t \notin At("scan") \cup At("found")
    BY <2>1, <2>2 DEF At, TypeOK
  <2>4. \A u \in Threads : sock'[u] = IF u = t THEN client_socket ELSE sock[u]
    BY <2>1 DEF TypeOK
  <2>5. \A u \in At("serve") \cup At("scan") \cup At("found") : u \in Threads /\ u # t
    BY <2>1 DEF At
  <2>6. Served' = Served
    BY <2>1, <2>2, <2>3, <2>4, <2>5 DEF Served, ArgumentUnread, At
  <2>7. Removing' = Removing
    BY <2>3 DEF Removing
  <2>8. Exact' /\ Settled' = Settled
    BY <2>1, <2>3, <2>6, <2>7, ExactStays
  <2> QED BY <2>1, <2>3, <2>4, <2>5, <2>8 DEF Search
<1>8. ASSUME NEW t \in Threads, EndOfFile(t) PROVE Exact' /\ Search'
  <2>1. /\ pc[t] = "serve" /\ pc' = [pc EXCEPT ![t] = "scan"]
        /\ At("shift") = {} /\ idx' = [idx EXCEPT ![t] = 0]
        /\ UNCHANGED <<clients, num_clients, pos, sock, client_socket, mainPc>>
    BY <1>8 DEF EndOfFile, Goto
  <2>2. /\ At("shift")' = At("shift") /\ At("decrement")' = At("decrement")
        /\ At("scan")' = At("scan") \cup {t} /\ At("found")' = At("found")
        /\ At("serve")' = At("serve") \ {t} /\ At("start")' = At("start")
        /\ t \in At("serve") /\ t \notin At("scan") \cup At("found")
    BY <2>1 DEF At, TypeOK
  <2>3. Served' = Served
    BY <2>1, <2>2 DEF Served, ArgumentUnread
  <2>4. Removing' = Removing
    BY <2>2 DEF Removing
  <2>5. Exact' /\ Settled' = Settled
    BY <2>1, <2>2, <2>3, <2>4, ExactStays
  <2>6. \E k \in 0 .. Settled - 1 : clients[k] = sock[t]
    <3>1. sock[t] \in Served
      BY <2>2 DEF Served
    <3>2. PICK k \in 0 .. Settled - 1 : Entry(k) = sock[t]
      BY <3>1 DEF Exact
    <3> QED BY <2>1, <3>2, EntryStill
  <2>7. \A u \in Threads : idx'[u] = IF u = t THEN 0 ELSE idx[u]
    BY <2>1 DEF TypeOK
  <2>8. \A u \in At("scan")' : \E k \in idx'[u] .. Settled - 1 : clients[k] = sock[u]
    BY <2>2, <2>6, <2>7 DEF Search, At
  <2>9. \A u \in At("found") : idx'[u] = idx[u]
    BY <2>2, <2>7 DEF At
  <2> QED BY <2>1, <2>2, <2>5, <2>8, <2>9 DEF Search
<1>9. ASSUME NEW t \in Threads, Close(t) PROVE Exact' /\ Search'
  <2>1. /\ pc[t] = "close" /\ pc' = [pc EXCEPT ![t] = "done"]
        /\ UNCHANGED <<clients, num_clients, pos, idx, sock, client_socket, mainPc>>
    BY <1>9 DEF Close, Goto
  <2>2. /\ At("shift")' = At("shift") /\ At("decrement")' = At("decrement")
        /\ At("scan")' = At("scan") /\ At("found")' = At("found")
        /\ At("serve")' = At("serve") /\ At("start")' = At("start")
    BY <2>1 DEF At, TypeOK
  <2>3. Served' = Served
    BY <2>1, <2>2 DEF Served, ArgumentUnread
  <2> QED BY <1>1, <2>1, <2>2, <2>3 DEF Removing
<1>10. CASE UNCHANGED <<clients, num_clients, pos, idx, sock, pc, client_socket, mainPc>>
  <2>1. /\ At("shift")' = At("shift") /\ At("decrement")' = At("decrement")
        /\ At("scan")' = At("scan") /\ At("found")' = At("found")
        /\ At("serve")' = At("serve") /\ At("start")' = At("start")
    BY <1>10 DEF At
  <2>2. Served' = Served
    BY <1>10, <2>1 DEF Served, ArgumentUnread
  <2> QED BY <1>1, <1>10, <2>1, <2>2 DEF Removing
<1> QED
  BY <1>2, <1>3, <1>4, <1>5, <1>6, <1>7, <1>8, <1>9, <1>10, LockStep, ShiftStep,
     DecrementStep, ScanStep
  DEF Next, Main, Handler, ReadError, HangUp, vars, handlerVars

LEMMA ExactInit == Init => MutexHeld /\ Exact /\ Search
<1> SUFFICES ASSUME Init PROVE MutexHeld /\ Exact /\ Search
  OBVIOUS
<1>1. /\ At("shift") = {} /\ At("decrement") = {} /\ At("scan") = {}
      /\ At("found") = {} /\ At("serve") = {} /\ At("start") = {}
  BY DEF Init, At
<1>2. MutexHeld
  BY ClientTableAssumption DEF Init, MutexHeld
<1>3. Removing = {}
  BY <1>1 DEF Removing
<1>4. Settled = 0
  BY <1>3, FS_EmptySet, SettledIs DEF Init
<1>5. Served = {}
  BY <1>1 DEF Init, Served, ArgumentUnread
<1>6. Exact
  BY <1>4, <1>5 DEF Exact
<1>7. Search
  BY <1>1 DEF Search
<1> QED BY <1>2, <1>6, <1>7

(* Unless a step has met half-done work, clients[] holds each connection    *)
(* that is served exactly once and no other, in any number of handlers that *)
(* come and go, one being added or searched for while another's removal     *)
(* waits for its second critical section.                                   *)
THEOREM ExactCorrect == Spec => []ExactWhenCalm
<1> DEFINE Inv == MutexHeld /\ (~disturbed => Owners /\ Exact /\ Search)
<1>1. Init => Inv
  BY ExactInit DEF Init, Owners, Live, At
<1>2. TypeOK /\ Bounded /\ Inv /\ [Next]_vars => Inv'
  BY OwnersStep, DisturbedStays, MutexStep, ExactStep
<1>3. Inv => ExactWhenCalm
  BY DEF Exact, ExactWhenCalm, listed
<1> QED BY <1>1, <1>2, <1>3, TypesAndBounds, PTL DEF Spec

-----------------------------------------------------------------------------
(* The table of clients implements a plain set of connections.              *)

(* A handler that looks for its entry has seen its peer close.              *)
EndSeen == \A t \in At("scan") \cup At("found") : sock[t] \in hungup

LEMMA EndSeenStep ==
  ASSUME TypeOK, Owners, EndSeen, [Next]_vars, ~disturbed, ~disturbed'
  PROVE  EndSeen'
<1> USE DEF EndSeen, Goto, TypeOK, At
<1>1. ASSUME NEW s \in Sockets, Accept(s) PROVE EndSeen'
  BY <1>1 DEF Accept, handlerVars
<1>2. CASE AcceptFails
  BY <1>2 DEF AcceptFails, handlerVars, kernelVars
<1>3. CASE AddClient
  BY <1>3 DEF AddClient, handlerVars, kernelVars
<1>4. ASSUME NEW t \in Threads, Spawn(t) PROVE EndSeen'
  BY <1>4 DEF Spawn, kernelVars
<1>5. CASE SpawnFails
  BY <1>5 DEF SpawnFails, historyVars
<1>6. ASSUME NEW t \in Threads, Handler(t) PROVE EndSeen'
  <2>1. CASE ReadArgument(t)
    BY <2>1 DEF ReadArgument, kernelVars
  <2>2. CASE EndOfFile(t)
    BY <2>2 DEF EndOfFile, kernelVars
  <2>3. CASE Scan(t)
    BY <2>3 DEF Scan, kernelVars
  <2>4. CASE LockTable(t)
    BY <2>4 DEF LockTable, kernelVars
  <2>5. CASE Shift(t)
    BY <2>5 DEF Shift, kernelVars
  <2>6. CASE Decrement(t)
    BY <2>6 DEF Decrement, kernelVars
  <2>7. CASE Close(t)
    <3>1. /\ pc[t] = "close" /\ pc' = [pc EXCEPT ![t] = "done"] /\ sock' = sock
          /\ hungup' = hungup \ {sock[t]}
      BY <2>7 DEF Close
    <3>2. \A u \in Threads : pc[u] \in {"scan", "found"} => sock[u] # sock[t]
      BY <3>1 DEF Owners, Live
    <3> QED BY <3>1, <3>2
  <2>8. CASE ReadError(t)
    BY <2>8 DEF ReadError, vars, handlerVars, kernelVars
  <2> QED BY <1>6, <2>1, <2>2, <2>3, <2>4, <2>5, <2>6, <2>7, <2>8 DEF Handler
<1>7. ASSUME NEW s \in Sockets, HangUp(s) PROVE EndSeen'
  BY <1>7 DEF HangUp, handlerVars
<1>8. CASE UNCHANGED vars
  BY <1>8 DEF vars, handlerVars, kernelVars
<1> QED BY <1>1, <1>2, <1>3, <1>4, <1>5, <1>6, <1>7, <1>8 DEF Next, Main

(* Who is served changes only where an entry is made or taken out.          *)
LEMMA ServedStays ==
  ASSUME TypeOK, Bounded, Owners, Exact, Search, [Next]_vars, ~disturbed, ~disturbed',
         ~AddClient, \A t \in Threads : ~LockTable(t)
  PROVE  Served' = Served
<1>0. ASSUME /\ At("serve")' = At("serve") /\ At("scan")' = At("scan")
             /\ At("found")' = At("found") /\ sock' = sock
             /\ (ArgumentUnread \/ mainPc = "spawn")' = (ArgumentUnread \/ mainPc = "spawn")
             /\ ArgumentUnread \/ mainPc = "spawn" => client_socket' = client_socket
      PROVE  Served' = Served
  BY <1>0 DEF Served
<1>1. ASSUME NEW s \in Sockets, Accept(s) PROVE Served' = Served
  <2>1. /\ ~ArgumentUnread /\ mainPc = "accept" /\ mainPc' = "add"
        /\ UNCHANGED <<pc, sock>>
    BY <1>1 DEF Accept, handlerVars
  <2> QED BY <1>0, <2>1 DEF At, ArgumentUnread
<1>2. CASE AcceptFails
  <2>1. ~ArgumentUnread /\ mainPc = "accept" /\ UNCHANGED <<pc, sock, mainPc>>
    BY <1>2 DEF AcceptFails, handlerVars
  <2> QED BY <1>0, <2>1 DEF At, ArgumentUnread
<1>4. ASSUME NEW t \in Threads, Spawn(t) PROVE Served' = Served
  <2>1. /\ mainPc = "spawn" /\ pc[t] = "unborn" /\ pc' = [pc EXCEPT ![t] = "start"]
        /\ UNCHANGED <<sock, client_socket>>
    BY <1>4 DEF Spawn, Goto
  <2>2. /\ At("serve")' = At("serve") /\ At("scan")' = At("scan")
        /\ At("found")' = At("found") /\ ArgumentUnread'
    BY <2>1 DEF At, TypeOK, ArgumentUnread
  <2> QED BY <1>0, <2>1, <2>2
<1>5. CASE SpawnFails
  BY <1>5 DEF SpawnFails
<1>6. ASSUME NEW t \in Threads, Handler(t) PROVE Served' = Served
  <2>1. CASE ReadArgument(t)
    <3>1. /\ pc[t] = "start" /\ pc' = [pc EXCEPT ![t] = "serve"]
          /\ sock' = [sock EXCEPT ![t] = client_socket]
          /\ UNCHANGED <<client_socket, mainPc>>
      BY <2>1 DEF ReadArgument, Goto
    <3>2. At("start") = {t} /\ mainPc = "accept"
      BY <3>1 DEF Owners, Live, At, TypeOK
    <3>3. /\ At("scan")' = At("scan") /\ At("found")' = At("found")
          /\ At("serve")' = At("serve") \cup {t} /\ At("start")' = {}
      BY <3>1, <3>2 DEF At, TypeOK
    <3>4. \A u \in Threads : sock'[u] = IF u = t THEN client_socket ELSE sock[u]
      BY <3>1 DEF TypeOK
    <3>5. \A u \in At("serve") \cup At("scan") \cup At("found") : u \in Threads /\ u # t
      BY <3>1 DEF At
    <3> QED BY <3>1, <3>2, <3>3, <3>4, <3>5 DEF Served, ArgumentUnread
  <2>2. CASE EndOfFile(t)
    <3>1. /\ pc[t] = "serve" /\ pc' = [pc EXCEPT ![t] = "scan"]
          /\ UNCHANGED <<sock, client_socket, mainPc>>
      BY <2>2 DEF EndOfFile, Goto
    <3>2. /\ At("scan")' = At("scan") \cup {t} /\ At("found")' = At("found")
          /\ At("serve")' = At("serve") \ {t} /\ At("start")' = At("start")
          /\ t \in At("serve")
      BY <3>1 DEF At, TypeOK
    <3> QED BY <3>1, <3>2 DEF Served, ArgumentUnread
  <2>3. CASE Scan(t)
    <3>1. pc[t] = "scan" /\ UNCHANGED <<sock, client_socket, mainPc>>
      BY <2>3 DEF Scan
    <3>2. CASE pc' = pc
      BY <1>0, <3>1, <3>2 DEF At, ArgumentUnread
    <3>3. CASE pc' = [pc EXCEPT ![t] = "found"]
      <4>1. /\ At("scan")' = At("scan") \ {t} /\ At("found")' = At("found") \cup {t}
            /\ At("serve")' = At("serve") /\ At("start")' = At("start")
            /\ t \in At("scan")
        BY <3>1, <3>3 DEF At, TypeOK
      <4> QED BY <3>1, <4>1 DEF Served, ArgumentUnread
    <3>4. idx[t] < num_clients
      <4>1. PICK k \in idx[t] .. Settled - 1 : clients[k] = sock[t]
        BY <3>1 DEF Search, At
      <4>2. idx[t] \in Nat /\ Settled \in Int /\ Settled <= num_clients /\ num_clients \in Int
        BY SettledBound DEF TypeOK
      <4> QED BY <4>1, <4>2
    <3> QED BY <2>3, <3>2, <3>3, <3>4 DEF Scan, Goto, TypeOK
  <2>4. CASE ReadError(t)
    BY <2>4, <1>0 DEF ReadError, vars, handlerVars, At, ArgumentUnread
  <2>5. CASE Shift(t) \/ Decrement(t) \/ Close(t)
    <3>1. /\ pc[t] \in {"shift", "decrement", "close"}
          /\ pc' = pc \/ \E l \in {"decrement", "close", "done"} : pc' = [pc EXCEPT ![t] = l]
          /\ UNCHANGED <<sock, client_socket, mainPc>>
      BY <2>5 DEF Shift, Decrement, Close, Goto
    <3>2. /\ At("serve")' = At("serve") /\ At("scan")' = At("scan")
          /\ At("found")' = At("found") /\ At("start")' = At("start")
      BY <3>1 DEF At, TypeOK
    <3> QED BY <1>0, <3>1, <3>2 DEF ArgumentUnread
  <2> QED BY <1>6, <2>1, <2>2, <2>3, <2>4, <2>5 DEF Handler
<1>7. CASE UNCHANGED <<pc, sock, mainPc, client_socket>>
  BY <1>0, <1>7 DEF At, ArgumentUnread
<1> QED
  BY <1>1, <1>2, <1>4, <1>5, <1>6, <1>7 DEF Next, Main, HangUp, vars, handlerVars

-----------------------------------------------------------------------------
LEMMA ListedIsServed == ASSUME Exact PROVE listed = Served
  BY DEF Exact, listed

LEMMA ListedNext == ASSUME Exact' PROVE listed' = Served'
<1>1. /\ \A k \in 0 .. Settled' - 1 : Entry(k)' \in Served'
      /\ \A s \in Served' : \E k \in 0 .. Settled' - 1 : Entry(k)' = s
  BY DEF Exact
<1> QED BY <1>1 DEF listed

LEMMA ListedFinite ==
  ASSUME Settled \in Nat
  PROVE  IsFiniteSet(listed) /\ Cardinality(listed) <= Settled
<1> DEFINE f == [k \in 0 .. Settled - 1 |-> Entry(k)]
<1>1. f \in Surjection(0 .. Settled - 1, listed)
  BY DEF Surjection, listed
<1>2. IsFiniteSet(0 .. Settled - 1) /\ Cardinality(0 .. Settled - 1) = Settled
  BY FS_Interval
<1> QED BY <1>1, <1>2, FS_Surjection

(* main's entry is new, and there was room for it.                          *)
LEMMA AddEnters ==
  ASSUME TypeOK, Bounded, Owners, MutexHeld, Exact, AddClient, ~disturbed'
  PROVE  /\ client_socket \in Sockets \ Served
         /\ Served' = Served \cup {client_socket}
         /\ Cardinality(Served) < MAX_CLIENTS
         /\ hungup' = hungup
<1>1. /\ ~Full /\ At("decrement") = {}
      /\ mainPc = "add" /\ mainPc' = "spawn" /\ clients_mutex = NoThread
      /\ UNCHANGED <<pc, sock, client_socket, hungup>>
  BY DEF AddClient, handlerVars, kernelVars
<1>2. At("shift") = {}
  BY <1>1, ClientTableAssumption DEF MutexHeld, At
<1>3. Settled = num_clients
  <2>1. Cardinality(Removing) = 0
    BY <1>1, <1>2, FS_EmptySet DEF Removing
  <2>2. num_clients \in Int
    BY DEF TypeOK
  <2> QED BY <2>1, <2>2, SettledIs
<1>4. Cardinality(Served) < MAX_CLIENTS
  <2>1. IsFiniteSet(Served) /\ Cardinality(Served) <= Settled
    BY ListedFinite, ListedIsServed DEF Exact
  <2>2. Settled \in Nat /\ Settled < MAX_CLIENTS /\ Cardinality(Served) \in Nat
    BY <1>1, <1>3, <2>1, FS_CardinalityType, ClientTableAssumption DEF Full, Exact
  <2> QED BY <2>1, <2>2, ClientTableAssumption
<1>5. At("start") = {} /\ client_socket \in Sockets /\ client_socket \notin Served
  <2>1. /\ At("start") = {} /\ client_socket \in open
        /\ \A t \in Live : owner[t] # client_socket
    BY <1>1 DEF Owners
  <2>2. \A t \in At("serve") \cup At("scan") \cup At("found") : sock[t] # client_socket
    BY <2>1 DEF Owners, Live, At
  <2> QED BY <1>1, <2>1, <2>2 DEF Served, ArgumentUnread, TypeOK
<1>6. Served' = Served \cup {client_socket}
  BY <1>1, <1>5 DEF Served, ArgumentUnread, At
<1> QED BY <1>1, <1>4, <1>5, <1>6

(* A handler takes out its own entry, whose peer has closed.                *)
LEMMA LockLeaves ==
  ASSUME TypeOK, Owners, EndSeen, NEW t \in Threads, LockTable(t), ~disturbed'
  PROVE  /\ sock[t] \in hungup \cap Served
         /\ Served' = Served \ {sock[t]}
         /\ hungup' = hungup
<1>1. /\ pc[t] = "found" /\ pc' = [pc EXCEPT ![t] = "shift"]
      /\ At("scan") \cup At("found") = {t}
      /\ UNCHANGED <<sock, client_socket, mainPc, hungup>>
  BY DEF LockTable, Goto, kernelVars
<1>2. t \in Live /\ sock[t] = owner[t] /\ sock[t] \in hungup
  BY <1>1 DEF Owners, Live, EndSeen
<1>3. \A u \in At("serve") : sock[u] # sock[t]
  BY <1>1, <1>2 DEF Owners, Live, At
<1>4. ArgumentUnread \/ mainPc = "spawn" => client_socket # sock[t]
  BY <1>1, <1>2 DEF Owners, Live, At, ArgumentUnread
<1>5. Served = {sock[u] : u \in At("serve")} \cup {sock[t]}
                 \cup (IF ArgumentUnread \/ mainPc = "spawn" THEN {client_socket} ELSE {})
  BY <1>1 DEF Served
<1>6. /\ At("serve")' = At("serve") /\ At("scan")' = {} /\ At("found")' = {}
      /\ ArgumentUnread' = ArgumentUnread
  BY <1>1 DEF At, TypeOK, ArgumentUnread
<1>7. Served' = {sock[u] : u \in At("serve")}
                  \cup (IF ArgumentUnread \/ mainPc = "spawn" THEN {client_socket} ELSE {})
  BY <1>1, <1>6 DEF Served
<1> QED BY <1>1, <1>2, <1>3, <1>4, <1>5, <1>7

(* Peers close, and a descriptor that is closed was in no entry any more.   *)
LEMMA HungUpChanges ==
  ASSUME TypeOK, Owners, [Next]_vars, ~disturbed, ~AddClient,
         \A t \in Threads : ~LockTable(t)
  PROVE  \/ hungup' \cap Served = hungup \cap Served
         \/ \E s \in Sockets \ hungup : hungup' = hungup \cup {s}
<1>1. ASSUME NEW t \in Threads, Close(t) PROVE hungup' \cap Served = hungup \cap Served
  <2>1. pc[t] = "close" /\ hungup' = hungup \ {sock[t]}
    BY <1>1 DEF Close
  <2>2. sock[t] \notin Served
    BY <2>1 DEF Owners, Live, At, Served, ArgumentUnread
  <2> QED BY <2>1, <2>2
<1>2. ASSUME NEW s \in Sockets, HangUp(s)
      PROVE  \E r \in Sockets \ hungup : hungup' = hungup \cup {r}
  BY <1>2 DEF HangUp
<1> QED
  BY <1>1, <1>2 DEF Next, Main, Handler, Accept, AcceptFails, Spawn, SpawnFails,
     ReadArgument, ReadError, EndOfFile, Scan, Shift, Decrement, vars, kernelVars

-----------------------------------------------------------------------------
LEMMA SameCardinality == ASSUME NEW S PROVE Set!Cardinality(S) = Cardinality(S)
  BY DEF Set!Cardinality, Cardinality

(* A step of the table is a step of the set, or none.                       *)
LEMMA StepSimulated ==
  ASSUME TypeOK, Bounded, Owners, MutexHeld, Exact, Search, EndSeen,
         TypeOK', Exact', [Next]_vars, ~disturbed, ~disturbed'
  PROVE  Set!Next \/ UNCHANGED <<Shown, hungup \cap Shown, disturbed>>
<1>1. Shown = Served /\ Shown' = Served' /\ disturbed' = disturbed
  <2>1. listed = Served
    BY ListedIsServed
  <2>2. listed' = Served'
    BY ListedNext
  <2> QED BY <2>1, <2>2 DEF Shown, TypeOK
<1>2. CASE AddClient
  <2>1. Set!Enter(client_socket)
    BY <1>1, <1>2, AddEnters, SameCardinality DEF Set!Enter
  <2> QED BY <1>1, <1>2, <2>1, AddEnters DEF Set!Next
<1>3. ASSUME NEW t \in Threads, LockTable(t) PROVE Set!Next
  <2>1. sock[t] \in Sockets /\ Set!Leave(sock[t])
    BY <1>1, <1>3, LockLeaves DEF Set!Leave, TypeOK
  <2> QED BY <1>1, <2>1 DEF Set!Next
<1>4. CASE ~AddClient /\ \A t \in Threads : ~LockTable(t)
  <2>1. Served' = Served
    BY <1>4, ServedStays
  <2>2. CASE hungup' \cap Served = hungup \cap Served
    BY <1>1, <2>1, <2>2
  <2>3. ASSUME NEW s \in Sockets \ hungup, hungup' = hungup \cup {s}, s \in Served
        PROVE  Set!Next
    <3>1. Set!PeerCloses(s)
      BY <1>1, <2>1, <2>3 DEF Set!PeerCloses
    <3> QED BY <1>1, <3>1 DEF Set!Next
  <2> QED BY <1>4, <2>2, <2>3, HungUpChanges
<1> QED BY <1>2, <1>3, <1>4

(* The table of clients is, as long as no step has met half-done work, a    *)
(* set that a connection enters when main has accepted it and leaves, alone *)
(* and after its peer has closed, when its handler has found its entry: the *)
(* copies, the two critical sections and the unlocked search do not show.   *)
THEOREM SetCorrect == Spec => ImplementsSet
<1> DEFINE Inv == /\ TypeOK /\ Bounded /\ MutexHeld
                  /\ ~disturbed => Owners /\ Exact /\ Search /\ EndSeen
<1>1. Init => Inv
  BY ExactInit, InitTypes DEF Init, Owners, Live, At, EndSeen
<1>2. Inv /\ [Next]_vars => Inv'
  BY TypeStep, BoundedStep, OwnersStep, DisturbedStays, MutexStep, ExactStep, EndSeenStep
<1>3. Init => Set!Init
  <2> SUFFICES ASSUME Init PROVE Set!Init
    OBVIOUS
  <2>1. Exact /\ listed = Served
    BY ExactInit, ListedIsServed
  <2>2. Served = {}
    BY DEF Init, Served, ArgumentUnread, At
  <2> QED BY <2>1, <2>2 DEF Set!Init, Shown, Init
<1>4. Inv /\ Inv' /\ [Next]_vars => [Set!Next]_<<Shown, hungup \cap Shown, disturbed>>
  <2> SUFFICES ASSUME Inv, Inv', [Next]_vars
               PROVE  Set!Next \/ UNCHANGED <<Shown, hungup \cap Shown, disturbed>>
    OBVIOUS
  <2>1. CASE ~disturbed /\ ~disturbed'
    BY <2>1, StepSimulated
  <2>2. CASE ~disturbed /\ disturbed'
    BY <2>2 DEF Set!Next, Set!Lapse, TypeOK
  <2>3. CASE disturbed
    BY <2>3, DisturbedStays DEF Shown, TypeOK
  <2> QED BY <2>1, <2>2, <2>3
<1> QED BY <1>1, <1>2, <1>3, <1>4, PTL DEF Spec, ImplementsSet, Set!Spec
=============================================================================
