------------------------------- MODULE Sessions -------------------------------
(***************************************************************************)
(* SIGN_IN and SIGN_UP of handle_client.c: handlers that ask the database  *)
(* over one connection, look through clients[] without its mutex, entry by *)
(* entry, and write the name of their client, each of these a step between *)
(* which others come in; and what moves the entries meanwhile: connections *)
(* that are accepted, and the removal of those whose peer has gone, with   *)
(* its own search and its two critical sections. The copies of the removal *)
(* loop, made under clients_mutex, are one step here and single steps in   *)
(* ClientTable, which also has the threads and their descriptors.          *)
(***************************************************************************)
EXTENDS Integers, Sequences, SequencesExt, FiniteSets

CONSTANTS
  Conns,        (* descriptors, each with its handler                       *)
  Accounts,     (* users: records with an email and a name; the password is *)
                (* right if the whole record is in the table users          *)
  Anonymous,    (* the name of a client that is not signed in; nothing      *)
                (* keeps a user from signing up under it                    *)
  MAX_CLIENTS   (* config.h                                                 *)

ASSUME SessionsAssumption ==
  MAX_CLIENTS \in Nat \ {0} /\ Accounts # {} /\ IsFiniteSet(Conns)

VARIABLES
  users,     (* the table of the database                                   *)
  clients,   (* clients[], as far as it counts                              *)
  pc,        (* where each handler is                                       *)
  user,      (* what its request, or the database, gave it                  *)
  slot,      (* the index of its search, then the entry it has found        *)
  crossed,   (* handlers whose PQexec() has overlapped another              *)
  fault,     (* the null pointer has been used                              *)
  proved,    (* history: the names the database has confirmed to a handler  *)
  disturbed  (* history: a step met half-done work of another handler, see   *)
             (* the properties                                               *)

request == <<pc, user, slot, crossed>>
vars == <<users, clients, request, fault, proved, disturbed>>

Names == {a.name : a \in Accounts}
Same(a, b) == a.email = b.email \/ a.name = b.name

(* The table survives the program; its keys keep it free of duplicates.     *)
Init ==
  /\ users \in {U \in SUBSET Accounts : \A a, b \in U : Same(a, b) => a = b}
  /\ clients = <<>>
  /\ pc = [c \in Conns |-> "closed"]
  /\ user = [c \in Conns |-> CHOOSE a \in Accounts : TRUE]
  /\ slot = [c \in Conns |-> 1]
  /\ crossed = {}
  /\ fault = FALSE
  /\ proved = [c \in Conns |-> {}]
  /\ disturbed = FALSE

To(c, place) == pc' = [pc EXCEPT ![c] = place]
In(places) == {c \in Conns : pc[c] \in places}

-----------------------------------------------------------------------------
(* Connections. *)

(* The handlers that hold an index into clients[] over which no mutex       *)
(* stands guard, those that check or write a name among them, and those     *)
(* that have shifted their entry away and not yet lowered the count.        *)
Naming   == In({"check", "find", "enter"})
Indexing == Naming \cup In({"scan", "found"})
Leaving  == In({"decrement"})

(* A handler goes elsewhere, its index ready for the next search; a search  *)
(* goes on.                                                                 *)
Turns(c, place) == To(c, place) /\ slot' = [slot EXCEPT ![c] = 1]
Further(c)      == slot' = [slot EXCEPT ![c] = @ + 1] /\ UNCHANGED pc

(* The condition of a loop, and the entry it is at.                         *)
Loops(c) == slot[c] <= Len(clients)
Here(c)  == clients[slot[c]]

(* accept(): the entry goes where the count says, which is too far behind   *)
(* while a removal has not lowered it. A full table is passed over.         *)
Connect(c) ==
  /\ pc[c] = "closed"
  /\ To(c, "idle")
  /\ clients' = IF Len(clients) < MAX_CLIENTS
                  THEN Append(clients, [conn |-> c, name |-> Anonymous]) ELSE clients
  /\ proved' = [proved EXCEPT ![c] = {}]
  /\ disturbed' = (disturbed \/ Len(clients) >= MAX_CLIENTS \/ Leaving # {})
  /\ UNCHANGED <<users, user, slot, crossed, fault>>

(* read() = 0: the handler looks for its entry. *)
EndOfFile(c) ==
  /\ pc[c] = "idle"
  /\ Turns(c, "scan")
  /\ UNCHANGED <<users, clients, user, crossed, fault, proved, disturbed>>

(* One iteration of that loop; an entry that is not there is not missed.    *)
Scan(c) ==
  /\ pc[c] = "scan"
  /\ \/ Loops(c) /\ Here(c).conn = c /\ To(c, "found") /\ UNCHANGED <<slot, disturbed>>
     \/ Loops(c) /\ Here(c).conn # c /\ Further(c) /\ UNCHANGED disturbed
     \/ ~Loops(c) /\ Turns(c, "decrement") /\ disturbed' = TRUE
  /\ UNCHANGED <<users, clients, user, crossed, fault, proved>>

(* Mutant of Shift: the entries stay where they are.                        *)
ShiftNothing(c) ==
  /\ pc[c] = "found"
  /\ Turns(c, "decrement")
  /\ disturbed' = (disturbed \/ Indexing # {c})
  /\ UNCHANGED <<users, clients, user, crossed, fault, proved>>

(* First critical section: those behind it move down over the entry, the    *)
(* last one staying where it was as well.                                   *)
Shift(c) ==
  /\ pc[c] = "found"
  /\ clients' = IF Loops(c) THEN Append(RemoveAt(clients, slot[c]), Last(clients))
                  ELSE clients
  /\ Turns(c, "decrement")
  /\ disturbed' = (disturbed \/ Indexing # {c})
  /\ UNCHANGED <<users, user, crossed, fault, proved>>

(* Second critical section, whether or not an entry was found. Bound: no    *)
(* count below zero, which is ClientTable's.                                *)
Decrement(c) ==
  /\ pc[c] = "decrement" /\ Len(clients) > 0
  /\ clients' = Front(clients)
  /\ To(c, "closed")
  /\ UNCHANGED <<users, user, slot, crossed, fault, proved, disturbed>>

-----------------------------------------------------------------------------
(* PQexec() on the one connection conn, which has no lock. *)
Asking == In({"signin", "email", "name", "insert"})

(* Handler c sends a query; whoever is waiting for an answer is disturbed.  *)
Asks(c, query) ==
  LET others == Asking \ {c} IN
  /\ To(c, query)
  /\ crossed' = IF others = {} THEN crossed \ {c} ELSE crossed \cup others \cup {c}
  /\ disturbed' = (disturbed \/ others # {})

(* The rows its own query selects. *)
Rows(c) == CASE pc[c] = "signin" -> users \cap {user[c]}
             [] pc[c] = "email"  -> {a \in users : a.email = user[c].email}
             [] pc[c] = "name"   -> {a \in users : a.name = user[c].name}
             [] OTHER            -> {}

(* What it may be given: also no rows, which is how a failed query is read, *)
(* and after an overlap the rows of another.                                *)
Answers(c) == {{}, Rows(c)} \cup
              (IF c \in crossed THEN {Rows(d) : d \in Asking} ELSE {})

(* Its answer taken, it does something else, or nothing more.               *)
Answered(c) == crossed' = crossed \ {c} /\ UNCHANGED disturbed

-----------------------------------------------------------------------------
(* SIGN_IN. *)
SignIn(c, a) ==
  /\ pc[c] = "idle"
  /\ user' = [user EXCEPT ![c] = a]
  /\ Asks(c, "signin")
  /\ UNCHANGED <<users, clients, slot, fault, proved>>

(* No row: an error message. *)
SignInRefused(c) ==
  /\ pc[c] = "signin" /\ {} \in Answers(c)
  /\ To(c, "idle") /\ Answered(c)
  /\ UNCHANGED <<users, clients, user, slot, fault, proved>>

(* The row tells the handler who its user is, and it looks whether a client *)
(* of that name is listed.                                                  *)
SignInFound(c) ==
  /\ pc[c] = "signin"
  /\ \E rows \in Answers(c) : \E a \in rows : user' = [user EXCEPT ![c] = a]
  /\ Turns(c, "check")
  /\ crossed' = crossed \ {c}
  /\ proved' = [proved EXCEPT ![c] = @ \cup {a.name : a \in Rows(c)}]
  /\ disturbed' = (disturbed \/ Naming # {})
  /\ UNCHANGED <<users, clients, fault>>

(* Mutant of CheckSession: the loop leaves out the last client.             *)
CheckAllButLast(c) ==
  /\ pc[c] = "check"
  /\ LET more == slot[c] < Len(clients) IN
       \/ more /\ Here(c).name = user[c].name /\ Turns(c, "idle")
       \/ more /\ Here(c).name # user[c].name /\ Further(c)
       \/ ~more /\ Turns(c, "find")
  /\ UNCHANGED <<users, clients, user, crossed, fault, proved, disturbed>>

(* One iteration: "Already logged in", the next entry, or the end.          *)
CheckSession(c) ==
  /\ pc[c] = "check"
  /\ \/ Loops(c) /\ Here(c).name = user[c].name /\ Turns(c, "idle")
     \/ Loops(c) /\ Here(c).name # user[c].name /\ Further(c)
     \/ ~Loops(c) /\ Turns(c, "find")
  /\ UNCHANGED <<users, clients, user, crossed, fault, proved, disturbed>>

-----------------------------------------------------------------------------
(* The end of both: find_client_by_socket() and the writing of the name. *)

(* Mutant of FindClient: the index goes on before the entry is returned.    *)
FindNext(c) ==
  /\ pc[c] = "find" /\ Loops(c)
  /\ slot' = [slot EXCEPT ![c] = @ + 1]
  /\ IF Here(c).conn = c THEN To(c, "enter") ELSE UNCHANGED pc
  /\ UNCHANGED <<users, clients, user, crossed, fault, proved, disturbed>>

(* One iteration of find_client_by_socket(). *)
FindClient(c) ==
  /\ pc[c] = "find" /\ Loops(c)
  /\ IF Here(c).conn = c THEN To(c, "enter") /\ UNCHANGED slot ELSE Further(c)
  /\ UNCHANGED <<users, clients, user, crossed, fault, proved, disturbed>>

(* The loop ends without the client: the null is not tested for. *)
FindClientFaults(c) ==
  /\ pc[c] = "find" /\ ~Loops(c)
  /\ fault' = TRUE
  /\ UNCHANGED <<users, clients, request, proved, disturbed>>

(* The entry may belong to another by now, or to no one. *)
EnterName(c) ==
  /\ pc[c] = "enter"
  /\ clients' = IF Loops(c) THEN [clients EXCEPT ![slot[c]].name = user[c].name]
                  ELSE clients
  /\ Turns(c, "idle")
  /\ UNCHANGED <<users, user, crossed, fault, proved, disturbed>>

-----------------------------------------------------------------------------
(* SIGN_UP: two queries and an insertion. *)
SignUp(c, a) ==
  /\ pc[c] = "idle"
  /\ user' = [user EXCEPT ![c] = a]
  /\ Asks(c, "email")
  /\ UNCHANGED <<users, clients, slot, fault, proved>>

(* No row: on to the next query. *)
NotTaken(c) ==
  /\ pc[c] \in {"email", "name"} /\ {} \in Answers(c)
  /\ Asks(c, IF pc[c] = "email" THEN "name" ELSE "insert")
  /\ UNCHANGED <<users, clients, user, slot, fault, proved>>

Taken(c) ==
  /\ pc[c] \in {"email", "name"} /\ \E rows \in Answers(c) : rows # {}
  /\ To(c, "idle") /\ Answered(c)
  /\ UNCHANGED <<users, clients, user, slot, fault, proved>>

(* Mutant of Accepted: the status of the insertion is not looked at.        *)
AcceptedAlways(c) == TRUE

(* The keys of the table accept the row. *)
Accepted(c) == \A a \in users : ~Same(a, user[c])

(* The insertion. What fails may have been done, or not; after an overlap   *)
(* the status may be that of another query.                                 *)
Insert(c) ==
  /\ pc[c] = "insert"
  /\ \/ Accepted(c) /\ users' = users \cup {user[c]}
     \/ UNCHANGED users
  /\ proved' = [proved EXCEPT ![c] = @ \cup {a.name : a \in users' \ users}]
  /\ Answered(c)
  /\ \/ (c \in crossed \/ users' # users) /\ Turns(c, "find")
     \/ Turns(c, "idle")
  /\ UNCHANGED <<clients, user, fault>>

-----------------------------------------------------------------------------
App(c) == Connect(c) \/ EndOfFile(c) \/ \E a \in Accounts : SignIn(c, a) \/ SignUp(c, a)

Handler(c) == \/ SignInRefused(c) \/ SignInFound(c) \/ CheckSession(c)
              \/ NotTaken(c) \/ Taken(c) \/ Insert(c)
              \/ FindClient(c) \/ FindClientFaults(c) \/ EnterName(c)
              \/ Scan(c) \/ Shift(c) \/ Decrement(c)

(* A process that has died takes no step. *)
Dead == fault /\ UNCHANGED vars

Next == \/ ~fault /\ \E c \in Conns : App(c) \/ Handler(c)
        \/ Dead

Spec == Init /\ [][Next]_vars

-----------------------------------------------------------------------------
(* Every variable keeps its type; no two users share an email or a name,    *)
(* although the two queries and the insertion of SIGN_UP are three steps    *)
(* and a query that fails counts as one that found nothing.                 *)
TypeOK ==
  /\ users \subseteq Accounts /\ \A a, b \in users : Same(a, b) => a = b
  /\ clients \in Seq([conn : Conns, name : Names \cup {Anonymous}])
  /\ Len(clients) <= MAX_CLIENTS
  /\ pc \in [Conns -> {"closed", "idle", "signin", "check", "email", "name",
                       "insert", "find", "enter", "scan", "found", "decrement"}]
  /\ user \in [Conns -> Accounts]
  /\ slot \in [Conns -> 1 .. MAX_CLIENTS + 1]
  /\ crossed \subseteq Asking
  /\ fault \in BOOLEAN
  /\ proved \in [Conns -> SUBSET Names]
  /\ disturbed \in BOOLEAN

(* The entries that are left once the removals at work have lowered the     *)
(* count.                                                                   *)
Settled == Len(clients) - Cardinality(Leaving)
Entries == 1 .. Settled

(* A step met half-done work of another handler in one of these ways:       *)
(* queries overlapped; a handler came to its check while another was        *)
(* checking or writing a name; one shifted clients[] while another was in a *)
(* search or about to use what it had found; a connection was accepted      *)
(* between a shift and the lowering of the count; the full table passed a   *)
(* connection over, or one left that was not in it. Until then:             *)

(* A client is listed under a name the database has confirmed to its own    *)
(* handler: what SIGN_IN and SIGN_UP write goes to the right entry, while   *)
(* others come, sign in and up, and are removed between the two.            *)
NameIsOwnWhenCalm ==
  ~disturbed => \A i \in Entries :
    clients[i].name \in proved[clients[i].conn] \cup {Anonymous}

(* No account is signed in twice, although clients come and sign up while   *)
(* the loop of the check runs, and leave before it and after it.            *)
OneSessionWhenCalm ==
  ~disturbed => \A i, j \in Entries :
    i # j /\ clients[i].name = clients[j].name => clients[i].name = Anonymous

(* The unchecked null of find_client_by_socket() is not met: the search     *)
(* comes to the client's entry, also while the last entries are those that  *)
(* removals have left behind and the count is about to go down.             *)
NoFaultWhenCalm == ~disturbed => ~fault
=============================================================================
