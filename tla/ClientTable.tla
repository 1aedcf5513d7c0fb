---------------------------- MODULE ClientTable ----------------------------
(***************************************************************************)
(* The table of connected clients: the accept loop of main.c, which adds   *)
(* an entry and starts one handler thread per connection, and the end of   *)
(* handle_client.c, where a handler whose peer has gone removes the entry. *)
(*                                                                         *)
(* Each access to clients[] or num_clients made outside clients_mutex is a *)
(* step of its own, as is each structure copy of the removal loop; what a  *)
(* handler does between its first read and the end of file (requests,      *)
(* rooms) is the business of other modules and leaves this state alone.    *)
(***************************************************************************)
EXTENDS Integers, FiniteSets

CONSTANTS
  Sockets,      (* file descriptors accept() may return                     *)
  Threads,      (* handler threads that can ever be created (bounds a run)  *)
  MAX_CLIENTS,  (* config.h                                                 *)
  NoSocket,     (* the -1 a failing accept() returns                        *)
  NoThread      (* clients_mutex is free                                    *)

ASSUME ClientTableAssumption ==
  /\ MAX_CLIENTS \in Nat \ {0}
  /\ IsFiniteSet(Threads)
  /\ NoSocket \notin Sockets
  /\ NoThread \notin Threads

VARIABLES
  clients,        (* clients[], reduced to the socket field                 *)
  num_clients,
  clients_mutex,  (* the thread that holds it, or NoThread                  *)
  client_socket,  (* main's local, handed to every thread by its address    *)
  mainPc,         (* where main stands in its loop                          *)
  pc,             (* where each handler thread stands                       *)
  sock,           (* handle_client's client_socket                          *)
  idx,            (* the index i of its search                              *)
  pos,            (* the index j of its removal loop                        *)
  open,           (* descriptors accepted and not yet closed (kernel)       *)
  hungup,         (* open descriptors whose peer has closed (kernel)        *)
  passed,         (* history: a full table has passed a connection over     *)
  owner,          (* history: the connection each thread was created for    *)
  disturbed       (* history: a step met another one's half-done work       *)

handlerVars == <<pc, sock, idx, pos>>
kernelVars  == <<open, hungup>>
historyVars == <<passed, owner, disturbed>>
vars == <<clients, num_clients, clients_mutex, client_socket, mainPc,
          handlerVars, kernelVars, historyVars>>

Slots == 0 .. MAX_CLIENTS - 1

Goto(t, label) == pc' = [pc EXCEPT ![t] = label]

At(label) == {t \in Threads : pc[t] = label}

(* A created thread that has not yet copied main's local from its address. *)
ArgumentUnread == At("start") # {}

Init ==
  /\ clients = [k \in Slots |-> NoSocket]
  /\ num_clients = 0
  /\ clients_mutex = NoThread
  /\ client_socket = NoSocket
  /\ mainPc = "accept"
  /\ pc = [t \in Threads |-> "unborn"]
  /\ sock = [t \in Threads |-> NoSocket]
  /\ idx = [t \in Threads |-> 0]
  /\ pos = [t \in Threads |-> 0]
  /\ open = {}
  /\ hungup = {}
  /\ passed = FALSE
  /\ owner = [t \in Threads |-> NoSocket]
  /\ disturbed = FALSE

-----------------------------------------------------------------------------
(* The main thread. *)

(* accept() returns a connection in main's local; any unused descriptor    *)
(* may come back. Bound: some thread must be left to handle it.            *)
Accept(s) ==
  /\ mainPc = "accept"
  /\ At("unborn") # {}
  /\ s \notin open
  /\ client_socket' = s
  /\ open' = open \cup {s}
  /\ mainPc' = "add"
  /\ disturbed' = (disturbed \/ ArgumentUnread)
  /\ UNCHANGED <<clients, num_clients, clients_mutex, handlerVars, hungup,
                 passed, owner>>

(* A failing accept() overwrites the same local, then continues the loop. *)
AcceptFails ==
  /\ mainPc = "accept"
  /\ client_socket' = NoSocket
  /\ disturbed' = (disturbed \/ ArgumentUnread)
  /\ UNCHANGED <<clients, num_clients, clients_mutex, mainPc, handlerVars,
                 kernelVars, passed, owner>>

(* Mutant of Full: off by one. *)
FullPlusOne == num_clients > MAX_CLIENTS

Full == num_clients >= MAX_CLIENTS

(* One critical section. A full table is passed over in silence. With a    *)
(* negative num_clients the write falls in front of clients[], memory that *)
(* is not modelled.                                                        *)
AddClient ==
  /\ mainPc = "add"
  /\ clients_mutex = NoThread
  /\ \/ /\ ~Full
        /\ clients' = [clients EXCEPT ![num_clients] = client_socket]
        /\ num_clients' = num_clients + 1
        /\ disturbed' = (disturbed \/ At("decrement") # {})
        /\ UNCHANGED passed
     \/ /\ Full
        /\ disturbed' = TRUE
        /\ passed' = TRUE
        /\ UNCHANGED <<clients, num_clients>>
  /\ mainPc' = "spawn"
  /\ UNCHANGED <<clients_mutex, client_socket, handlerVars, kernelVars, owner>>

(* pthread_create() with the address of main's local as the argument. *)
Spawn(t) ==
  /\ mainPc = "spawn"
  /\ pc[t] = "unborn"
  /\ Goto(t, "start")
  /\ owner' = [owner EXCEPT ![t] = client_socket]
  /\ mainPc' = "accept"
  /\ UNCHANGED <<clients, num_clients, clients_mutex, client_socket, sock,
                 idx, pos, kernelVars, passed, disturbed>>

(* pthread_create() fails: the entry and the connection stay as they are. *)
SpawnFails ==
  /\ mainPc = "spawn"
  /\ mainPc' = "accept"
  /\ disturbed' = TRUE
  /\ UNCHANGED <<clients, num_clients, clients_mutex, client_socket,
                 handlerVars, kernelVars, passed, owner>>

-----------------------------------------------------------------------------
(* A handler thread. *)

(* int client_socket = *(int * )arg, whatever main's local holds by now. *)
ReadArgument(t) ==
  /\ pc[t] = "start"
  /\ sock' = [sock EXCEPT ![t] = client_socket]
  /\ Goto(t, "serve")
  /\ UNCHANGED <<clients, num_clients, clients_mutex, client_socket, mainPc,
                 idx, pos, kernelVars, historyVars>>

(* read() < 0 on a descriptor that is not open: the loop just tries again. *)
ReadError(t) ==
  /\ pc[t] = "serve"
  /\ sock[t] \notin open
  /\ UNCHANGED vars

(* Mutants of EndOfFile: the search starts one before the array; the       *)
(* descriptor is closed before the entry is removed instead of after.      *)
EndOfFileBefore(t) ==
  /\ pc[t] = "serve"
  /\ sock[t] \in hungup
  /\ idx' = [idx EXCEPT ![t] = -1]
  /\ Goto(t, "scan")
  /\ UNCHANGED <<clients, num_clients, clients_mutex, client_socket, mainPc,
                 sock, pos, kernelVars, historyVars>>
EndOfFileCloses(t) ==
  /\ pc[t] = "serve"
  /\ sock[t] \in hungup
  /\ idx' = [idx EXCEPT ![t] = 0]
  /\ Goto(t, "scan")
  /\ open' = open \ {sock[t]}
  /\ hungup' = hungup \ {sock[t]}
  /\ UNCHANGED <<clients, num_clients, clients_mutex, client_socket, mainPc,
                 sock, pos, historyVars>>

(* read() = 0: the search for the entry starts at i = 0. *)
EndOfFile(t) ==
  /\ pc[t] = "serve"
  /\ sock[t] \in hungup
  /\ idx' = [idx EXCEPT ![t] = 0]
  /\ Goto(t, "scan")
  /\ disturbed' = (disturbed \/ At("shift") # {})
  /\ UNCHANGED <<clients, num_clients, clients_mutex, client_socket, mainPc,
                 sock, pos, kernelVars, passed, owner>>

(* One iteration of the search, made without the mutex. *)
Scan(t) ==
  /\ pc[t] = "scan"
  /\ \/ /\ idx[t] < num_clients
        /\ clients[idx[t]] = sock[t]
        /\ Goto(t, "found")
        /\ UNCHANGED idx
     \/ /\ idx[t] < num_clients
        /\ clients[idx[t]] # sock[t]
        /\ idx' = [idx EXCEPT ![t] = @ + 1]
        /\ UNCHANGED pc
     \/ /\ idx[t] >= num_clients
        /\ Goto(t, "decrement")
        /\ UNCHANGED idx
  /\ UNCHANGED <<clients, num_clients, clients_mutex, client_socket, mainPc,
                 sock, pos, kernelVars, historyVars>>

(* pthread_mutex_lock(&clients_mutex) before the removal loop, j = i. *)
LockTable(t) ==
  /\ pc[t] = "found"
  /\ clients_mutex = NoThread
  /\ clients_mutex' = t
  /\ pos' = [pos EXCEPT ![t] = idx[t]]
  /\ Goto(t, "shift")
  /\ disturbed' = (disturbed \/ (At("scan") \cup At("found")) # {t})
  /\ UNCHANGED <<clients, num_clients, client_socket, mainPc, sock, idx,
                 kernelVars, passed, owner>>

(* Mutants: the loop ends one copy early; the mutex is kept. *)
ShiftedButOne(t) == pos[t] >= num_clients - 2
KeepLock == clients_mutex' = clients_mutex

(* The condition that ends the removal loop, and the unlock after it. *)
Shifted(t) == pos[t] >= num_clients - 1
Unlock == clients_mutex' = NoThread

(* Mutant of Shift: the loop lowers the count too, before the mutex goes. *)
ShiftCounts(t) ==
  /\ pc[t] = "shift"
  /\ \/ /\ ~Shifted(t)
        /\ clients' = [clients EXCEPT ![pos[t]] = clients[pos[t] + 1]]
        /\ pos' = [pos EXCEPT ![t] = @ + 1]
        /\ UNCHANGED <<pc, num_clients, clients_mutex>>
     \/ /\ Shifted(t)
        /\ num_clients' = num_clients - 1
        /\ Unlock
        /\ Goto(t, "decrement")
        /\ UNCHANGED <<clients, pos>>
  /\ UNCHANGED <<client_socket, mainPc, sock, idx, kernelVars, historyVars>>

(* clients[j] = clients[j + 1], or the end of the loop and the unlock. *)
Shift(t) ==
  /\ pc[t] = "shift"
  /\ \/ /\ ~Shifted(t)
        /\ clients' = [clients EXCEPT ![pos[t]] = clients[pos[t] + 1]]
        /\ pos' = [pos EXCEPT ![t] = @ + 1]
        /\ UNCHANGED <<pc, clients_mutex>>
     \/ /\ Shifted(t)
        /\ Unlock
        /\ Goto(t, "decrement")
        /\ UNCHANGED <<clients, pos>>
  /\ UNCHANGED <<num_clients, client_socket, mainPc, sock, idx, kernelVars,
                 historyVars>>

(* The second critical section, reached whether or not an entry was found. *)
Decrement(t) ==
  /\ pc[t] = "decrement"
  /\ clients_mutex = NoThread
  /\ num_clients' = num_clients - 1
  /\ Goto(t, "close")
  /\ UNCHANGED <<clients, clients_mutex, client_socket, mainPc, sock, idx,
                 pos, kernelVars, historyVars>>

(* close(client_socket): the descriptor may be handed out again. *)
Close(t) ==
  /\ pc[t] = "close"
  /\ open' = open \ {sock[t]}
  /\ hungup' = hungup \ {sock[t]}
  /\ Goto(t, "done")
  /\ UNCHANGED <<clients, num_clients, clients_mutex, client_socket, mainPc,
                 sock, idx, pos, historyVars>>

-----------------------------------------------------------------------------
(* The peer closes its end of a connection. *)
HangUp(s) ==
  /\ s \in open \ hungup
  /\ hungup' = hungup \cup {s}
  /\ UNCHANGED <<clients, num_clients, clients_mutex, client_socket, mainPc,
                 handlerVars, open, historyVars>>

Main == \/ \E s \in Sockets : Accept(s)
        \/ AcceptFails
        \/ AddClient
        \/ \E t \in Threads : Spawn(t)
        \/ SpawnFails

Handler(t) == \/ ReadArgument(t)
              \/ ReadError(t)
              \/ EndOfFile(t)
              \/ Scan(t)
              \/ LockTable(t)
              \/ Shift(t)
              \/ Decrement(t)
              \/ Close(t)

Next == \/ Main
        \/ \E t \in Threads : Handler(t)
        \/ \E s \in Sockets : HangUp(s)

(* Threads are scheduled fairly, and a mutex that is released again and    *)
(* again is eventually granted; nothing makes a peer connect or hang up.   *)
Fairness ==
  /\ SF_vars(AddClient)
  /\ WF_vars(\E t \in Threads : Spawn(t))
  /\ \A t \in Threads :
       /\ WF_vars(ReadArgument(t) \/ EndOfFile(t) \/ Scan(t) \/ Shift(t) \/ Close(t))
       /\ SF_vars(LockTable(t))
       /\ SF_vars(Decrement(t))

Spec == Init /\ [][Next]_vars /\ Fairness

-----------------------------------------------------------------------------
(* Every variable keeps its type in every behaviour of main.c's loop and    *)
(* handle_client's end, however the threads interleave.                     *)
TypeOK ==
  /\ clients \in [Slots -> Sockets \cup {NoSocket}]
  /\ num_clients \in Int
  /\ clients_mutex \in Threads \cup {NoThread}
  /\ client_socket \in Sockets \cup {NoSocket}
  /\ mainPc \in {"accept", "add", "spawn"}
  /\ pc \in [Threads -> {"unborn", "start", "serve", "scan", "found", "shift",
                         "decrement", "close", "done"}]
  /\ sock \in [Threads -> Sockets \cup {NoSocket}]
  /\ idx \in [Threads -> Nat]
  /\ pos \in [Threads -> Nat]
  /\ open \in SUBSET Sockets
  /\ hungup \in SUBSET open
  /\ passed \in BOOLEAN
  /\ owner \in [Threads -> Sockets \cup {NoSocket}]
  /\ disturbed \in BOOLEAN

(* Handlers that will still lower the count, the one about to be created   *)
(* for an entry or a connection included.                                  *)
Remaining == {t \in Threads : pc[t] \notin {"unborn", "close", "done"}}
Expected == IF mainPc = "spawn" THEN 1 ELSE 0

(* Every handler lowers the count on its way out, listed or not. Only a     *)
(* connection that a full table has passed over can make that one too many: *)
(* unless there was one, the count covers every handler that will lower it, *)
(* whatever the unlocked searches and removals have done to the table, so   *)
(* it never goes below zero and main never writes in front of clients[].    *)
CountCoversHandlers ==
  ~passed => num_clients >= Cardinality(Remaining) + Expected

(* No addition of main runs over the end of clients[] and no copy of the    *)
(* removal loop leaves it: the count never exceeds the capacity and both    *)
(* ends of a copy are slots, even when others add and remove meanwhile.     *)
InBounds ==
  /\ num_clients <= MAX_CLIENTS
  /\ \A t \in At("shift") :
       ~Shifted(t) => {pos[t], pos[t] + 1} \subseteq Slots

(* The connections some thread serves, will serve or is about to remove. *)
Served == {sock[t] : t \in At("serve") \cup At("scan") \cup At("found")}
            \cup (IF ArgumentUnread \/ mainPc = "spawn"
                    THEN {client_socket} ELSE {})

(* The table as it will read once the removals in progress are complete:   *)
(* one entry less for each handler that has locked and not decremented yet, *)
(* and those from the position of a removal loop on moved down by one.      *)
Settled == num_clients - Cardinality(At("shift") \cup At("decrement"))
Entry(k) == IF \E t \in At("shift") : pos[t] <= k THEN clients[k + 1] ELSE clients[k]
listed == {Entry(k) : k \in 0 .. Settled - 1}

(* Unless a step has met half-done work of another thread, the table holds  *)
(* each served connection exactly once and no other, connections being      *)
(* added and removed in any order and one while another is.                 *)
ExactWhenCalm ==
  ~disturbed => /\ listed = Served
                /\ \A k, l \in 0 .. Settled - 1 : Entry(k) = Entry(l) => k = l

(* A thread reads and serves the connection main created it for.            *)
OwnHandler ==
  \A t \in Threads : pc[t] \notin {"unborn", "start"} => sock[t] = owner[t]

(* Unless a step has met half-done work of another thread, each thread      *)
(* serves its own connection, on a descriptor no one closes under it.       *)
OwnHandlerWhenCalm ==
  ~disturbed =>
    /\ OwnHandler
    /\ \A t \in Threads : pc[t] \notin {"unborn", "start", "done"} => sock[t] \in open

(* A handler that has seen the end of file gets through both its critical   *)
(* sections and closes its descriptor: neither the search nor the mutex can *)
(* hold it for ever.                                                        *)
HandlersFinish == \A t \in Threads : pc[t] = "scan" ~> pc[t] = "done"

-----------------------------------------------------------------------------
(* As long as it is undisturbed the table implements the plain set of       *)
(* connections, where an entry goes at the moment its handler locks it.     *)
Shown == IF disturbed THEN {} ELSE listed
Set == INSTANCE Connections WITH listed <- Shown,
                                 gone <- hungup \cap Shown,
                                 void <- disturbed,
                                 Capacity <- MAX_CLIENTS
ImplementsSet == Set!Spec
=============================================================================
