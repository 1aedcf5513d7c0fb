--------------------------- MODULE SessionsProofs ---------------------------
(* Theorems about Sessions, for every number of connections and accounts. *)
EXTENDS Sessions, SequenceTheorems, FiniteSetTheorems, TLAPS

Entry  == [conn : Conns, name : Names \cup {Anonymous}]
Places == {"closed", "idle", "signin", "check", "email", "name", "insert", "find",
           "enter", "scan", "found", "decrement"}

-----------------------------------------------------------------------------
(* The helpers on clients[], each with what it leaves. *)
LEMMA Appended ==
  ASSUME clients \in Seq(Entry), NEW e \in Entry
  PROVE  /\ Append(clients, e) \in Seq(Entry)
         /\ Len(Append(clients, e)) = Len(clients) + 1
         /\ \A i \in 1 .. Len(clients) : Append(clients, e)[i] = clients[i]
         /\ Append(clients, e)[Len(clients) + 1] = e
  OBVIOUS

LEMMA LastRemoved ==
  ASSUME clients \in Seq(Entry), Len(clients) > 0
  PROVE  /\ Front(clients) \in Seq(Entry)
         /\ Len(Front(clients)) = Len(clients) - 1
         /\ \A i \in 1 .. Len(clients) - 1 : Front(clients)[i] = clients[i]
<1> DEFINE n == Len(clients) - 1
<1>1. n \in Nat /\ n <= Len(clients)
  BY LenProperties
<1> HIDE DEF n
<1>2. \A i \in 1 .. n : clients[i] \in Entry
  BY <1>1
<1>3. /\ SubSeq(clients, 1, n) \in Seq(Entry) /\ Len(SubSeq(clients, 1, n)) = n
      /\ \A i \in 1 .. n : SubSeq(clients, 1, n)[i] = clients[i]
  BY <1>1, <1>2, SubSeqProperties
<1> QED BY <1>3 DEF Front, n

LEMMA Removed ==
  ASSUME clients \in Seq(Entry), NEW k \in 1 .. Len(clients)
  PROVE  /\ RemoveAt(clients, k) \in Seq(Entry)
         /\ Len(RemoveAt(clients, k)) = Len(clients) - 1
         /\ \A i \in 1 .. Len(clients) - 1 :
              RemoveAt(clients, k)[i] = IF i < k THEN clients[i] ELSE clients[i + 1]
<1> DEFINE a == SubSeq(clients, 1, k - 1)
           b == SubSeq(clients, k + 1, Len(clients))
<1>1. /\ a \in Seq(Entry) /\ Len(a) = k - 1
      /\ \A i \in 1 .. k - 1 : a[i] = clients[i]
  OBVIOUS
<1>2. /\ b \in Seq(Entry) /\ Len(b) = Len(clients) - k
      /\ \A i \in 1 .. Len(clients) - k : b[i] = clients[k + i]
  OBVIOUS
<1>3. RemoveAt(clients, k) = a \o b
  BY DEF RemoveAt
<1> HIDE DEF a, b
<1>4. /\ a \o b \in Seq(Entry) /\ Len(a \o b) = Len(clients) - 1
      /\ \A i \in 1 .. Len(clients) - 1 :
           (a \o b)[i] = IF i <= k - 1 THEN a[i] ELSE b[i - (k - 1)]
  <2>1. /\ a \o b \in Seq(Entry) /\ Len(a \o b) = Len(a) + Len(b)
        /\ \A i \in 1 .. Len(a) + Len(b) :
             (a \o b)[i] = IF i <= Len(a) THEN a[i] ELSE b[i - Len(a)]
    BY <1>1, <1>2, ConcatProperties
  <2>2. Len(a) + Len(b) = Len(clients) - 1
    BY <1>1, <1>2
  <2> QED BY <1>1, <2>1, <2>2
<1>5. \A i \in 1 .. Len(clients) - 1 :
        (a \o b)[i] = IF i < k THEN clients[i] ELSE clients[i + 1]
  <2> SUFFICES ASSUME NEW i \in 1 .. Len(clients) - 1
               PROVE  (a \o b)[i] = IF i < k THEN clients[i] ELSE clients[i + 1]
    OBVIOUS
  <2>0. k \in Int /\ i \in Int /\ Len(clients) \in Int
    BY LenProperties
  <2>1. CASE i < k
    <3>1. i \in 1 .. k - 1 /\ i <= k - 1
      BY <2>0, <2>1
    <3> QED BY <1>1, <1>4, <2>1, <3>1
  <2>2. CASE ~(i < k)
    <3> DEFINE j == i - (k - 1)
    <3>1. j \in 1 .. Len(clients) - k /\ k + j = i + 1 /\ ~(i <= k - 1)
      BY <2>0, <2>2
    <3>2. (a \o b)[i] = b[j]
      BY <1>4, <3>1
    <3> HIDE DEF j
    <3>3. b[j] = clients[i + 1]
      BY <1>2, <3>1
    <3> QED BY <2>2, <3>2, <3>3
  <2> QED BY <2>1, <2>2
<1> QED BY <1>3, <1>4, <1>5

LEMMA Renamed ==
  ASSUME clients \in Seq(Entry), NEW k \in 1 .. Len(clients),
         NEW n \in Names \cup {Anonymous}
  PROVE  LET s == [clients EXCEPT ![k].name = n]
         IN  /\ s \in Seq(Entry) /\ Len(s) = Len(clients)
             /\ \A i \in 1 .. Len(clients) :
                  /\ s[i].conn = clients[i].conn
                  /\ s[i].name = IF i = k THEN n ELSE clients[i].name
<1>1. clients[k] \in Entry
  OBVIOUS
<1>2. [clients[k] EXCEPT !.name = n] \in Entry
  BY <1>1 DEF Entry
<1>3. /\ [clients[k] EXCEPT !.name = n].name = n
      /\ [clients[k] EXCEPT !.name = n].conn = clients[k].conn
  BY <1>1 DEF Entry
<1> QED BY <1>2, <1>3

(* A removal: the entries behind the k-th move down, the last stays as well. *)
LEMMA MovedDown ==
  ASSUME clients \in Seq(Entry), NEW k \in 1 .. Len(clients)
  PROVE  LET s == Append(RemoveAt(clients, k), Last(clients))
         IN  /\ s \in Seq(Entry) /\ Len(s) = Len(clients)
             /\ \A i \in 1 .. Len(clients) - 1 :
                  s[i] = IF i < k THEN clients[i] ELSE clients[i + 1]
<1> DEFINE r == RemoveAt(clients, k)
           e == Last(clients)
<1>1. /\ r \in Seq(Entry) /\ Len(r) = Len(clients) - 1
      /\ \A i \in 1 .. Len(clients) - 1 :
           r[i] = IF i < k THEN clients[i] ELSE clients[i + 1]
  BY Removed
<1>2. e \in Entry
  BY DEF Last
<1> HIDE DEF r, e
<1>3. /\ Append(r, e) \in Seq(Entry) /\ Len(Append(r, e)) = Len(r) + 1
      /\ \A i \in 1 .. Len(r) : Append(r, e)[i] = r[i]
  BY <1>1, <1>2
<1>4. Len(clients) \in Nat
  BY LenProperties
<1> QED BY <1>1, <1>3, <1>4 DEF r, e

-----------------------------------------------------------------------------
(* Every step keeps the types. *)
Placed == pc \in [Conns -> Places] /\ slot \in [Conns -> 1 .. MAX_CLIENTS + 1]

LEMMA TurnsPlaced ==
  ASSUME Placed, NEW c \in Conns, NEW place \in Places, Turns(c, place)
  PROVE  Placed'
<1>1. 1 \in 1 .. MAX_CLIENTS + 1
  BY SessionsAssumption
<1> QED BY <1>1 DEF Placed, Turns, To

LEMMA FurtherPlaced ==
  ASSUME TypeOK, Placed, NEW c \in Conns, Loops(c), Further(c)
  PROVE  Placed'
<1>1. slot[c] \in Nat /\ Len(clients) \in Nat
  BY SessionsAssumption, LenProperties DEF Placed, TypeOK
<1>2. slot[c] + 1 \in 1 .. MAX_CLIENTS + 1
  BY <1>1, SessionsAssumption DEF Loops, TypeOK
<1> QED BY <1>2 DEF Placed, Further

LEMMA TypeStep == ASSUME TypeOK, [Next]_vars PROVE TypeOK'
<1> USE SessionsAssumption DEF request
<1>0. /\ clients \in Seq(Entry) /\ Len(clients) \in Nat
      /\ DOMAIN clients = 1 .. Len(clients)
      /\ pc \in [Conns -> Places] /\ slot \in [Conns -> 1 .. MAX_CLIENTS + 1]
      /\ Placed
      /\ \A a \in Accounts : a.name \in Names
  BY DEF TypeOK, Entry, Places, Names, Placed
<1>1. ASSUME NEW c \in Conns, Connect(c) PROVE TypeOK'
  <2>1. clients' \in Seq(Entry) /\ Len(clients') <= MAX_CLIENTS
    <3>1. [conn |-> c, name |-> Anonymous] \in Entry
      BY DEF Entry
    <3> QED BY <1>0, <1>1, <3>1, Appended DEF Connect, TypeOK
  <2>2. crossed' \subseteq Asking'
    BY <1>1 DEF Connect, TypeOK, Asking, In, To
  <2> QED BY <1>1, <2>1, <2>2 DEF Connect, To, TypeOK, Entry
<1>2. ASSUME NEW c \in Conns, EndOfFile(c) \/ Scan(c) PROVE TypeOK'
  <2>1. crossed' \subseteq Asking'
    BY <1>2 DEF EndOfFile, Scan, Turns, Further, TypeOK, Asking, In, To
  <2>2. slot' \in [Conns -> 1 .. MAX_CLIENTS + 1] /\ pc' \in [Conns -> Places]
    <3>1. {"scan", "decrement", "found"} \subseteq Places
      BY DEF Places
    <3>2. ASSUME NEW place \in Places, Turns(c, place) PROVE Placed'
      BY <1>0, <3>2, TurnsPlaced
    <3>3. ASSUME Loops(c), Further(c) PROVE Placed'
      BY <1>0, <3>3, FurtherPlaced
    <3>4. ASSUME To(c, "found"), UNCHANGED slot PROVE Placed'
      BY <1>0, <3>1, <3>4 DEF Placed, To
    <3>5. Placed'
      BY <1>2, <3>1, <3>2, <3>3, <3>4 DEF EndOfFile, Scan
    <3> QED BY <3>5 DEF Placed
  <2>3. /\ UNCHANGED <<users, clients, user, fault, proved>>
        /\ disturbed' \in BOOLEAN
    BY <1>2 DEF EndOfFile, Scan, TypeOK
  <2> QED BY <2>1, <2>2, <2>3 DEF TypeOK, Places
<1>3. ASSUME NEW c \in Conns, Shift(c) PROVE TypeOK'
  <2>1. clients' \in Seq(Entry) /\ Len(clients') <= MAX_CLIENTS
    <3>1. CASE Loops(c)
      <4>1. slot[c] \in 1 .. Len(clients)
        BY <1>0, <3>1 DEF Loops
      <4> QED BY <1>0, <1>3, <3>1, <4>1, MovedDown DEF Shift, TypeOK
    <3>2. CASE ~Loops(c)
      BY <1>0, <1>3, <3>2 DEF Shift, TypeOK
    <3> QED BY <3>1, <3>2
  <2>2. crossed' \subseteq Asking'
    BY <1>3 DEF Shift, Turns, TypeOK, Asking, In, To
  <2> QED BY <1>3, <2>1, <2>2 DEF Shift, Turns, To, TypeOK, Entry
<1>4. ASSUME NEW c \in Conns, Decrement(c) PROVE TypeOK'
  <2>1. clients' \in Seq(Entry) /\ Len(clients') <= MAX_CLIENTS
    BY <1>0, <1>4, LastRemoved DEF Decrement, TypeOK
  <2>2. crossed' \subseteq Asking'
    BY <1>4 DEF Decrement, TypeOK, Asking, In, To
  <2> QED BY <1>4, <2>1, <2>2 DEF Decrement, To, TypeOK, Entry
<1>5. ASSUME NEW c \in Conns, NEW a \in Accounts, SignIn(c, a) \/ SignUp(c, a)
      PROVE  TypeOK'
  <2>1. crossed' \subseteq Asking'
    BY <1>5 DEF SignIn, SignUp, Asks, TypeOK, Asking, In, To
  <2> QED BY <1>5, <2>1 DEF SignIn, SignUp, Asks, To, TypeOK
<1>6. ASSUME NEW c \in Conns, SignInRefused(c) \/ Taken(c) PROVE TypeOK'
  <2>1. crossed' \subseteq Asking'
    BY <1>6 DEF SignInRefused, Taken, Answered, TypeOK, Asking, In, To
  <2> QED BY <1>6, <2>1 DEF SignInRefused, Taken, Answered, To, TypeOK
<1>7. ASSUME NEW c \in Conns, SignInFound(c) PROVE TypeOK'
  <2>1. \A rows \in Answers(c) : rows \subseteq Accounts
    BY DEF Answers, Rows, TypeOK
  <2>2. user' \in [Conns -> Accounts]
    BY <1>7, <2>1 DEF SignInFound, TypeOK
  <2>3. Rows(c) \subseteq Accounts
    BY DEF Rows, TypeOK
  <2>4. proved' \in [Conns -> SUBSET Names]
    BY <1>0, <1>7, <2>3 DEF SignInFound, TypeOK
  <2>5. crossed' \subseteq Asking'
    BY <1>7 DEF SignInFound, Turns, TypeOK, Asking, In, To
  <2>6. slot' \in [Conns -> 1 .. MAX_CLIENTS + 1] /\ pc' \in [Conns -> Places]
    BY <1>0, <1>7 DEF SignInFound, Turns, To, Places
  <2> QED BY <1>7, <2>2, <2>4, <2>5, <2>6 DEF SignInFound, TypeOK, Places
<1>8. ASSUME NEW c \in Conns, CheckSession(c) PROVE TypeOK'
  <2>1. crossed' \subseteq Asking'
    BY <1>8 DEF CheckSession, Turns, Further, TypeOK, Asking, In, To
  <2>2. slot' \in [Conns -> 1 .. MAX_CLIENTS + 1] /\ pc' \in [Conns -> Places]
    <3>1. {"find", "idle"} \subseteq Places
      BY DEF Places
    <3>2. ASSUME NEW place \in Places, Turns(c, place) PROVE Placed'
      BY <1>0, <3>2, TurnsPlaced
    <3>3. ASSUME Loops(c), Further(c) PROVE Placed'
      BY <1>0, <3>3, FurtherPlaced
    <3>4. Placed'
      BY <1>8, <3>1, <3>2, <3>3 DEF CheckSession
    <3> QED BY <3>4 DEF Placed
  <2>3. UNCHANGED <<users, clients, user, fault, proved, disturbed>>
    BY <1>8 DEF CheckSession
  <2> QED BY <2>1, <2>2, <2>3 DEF TypeOK, Places
<1>9. ASSUME NEW c \in Conns, FindClient(c) PROVE TypeOK'
  <2>1. crossed' \subseteq Asking'
    BY <1>9 DEF FindClient, Further, TypeOK, Asking, In, To
  <2>2. slot' \in [Conns -> 1 .. MAX_CLIENTS + 1] /\ pc' \in [Conns -> Places]
    <3>1. "enter" \in Places
      BY DEF Places
    <3>2. ASSUME Loops(c), Further(c) PROVE Placed'
      BY <1>0, <3>2, FurtherPlaced
    <3>3. ASSUME To(c, "enter"), UNCHANGED slot PROVE Placed'
      BY <1>0, <3>1, <3>3 DEF Placed, To
    <3>4. Placed'
      BY <1>9, <3>2, <3>3 DEF FindClient
    <3> QED BY <3>4 DEF Placed
  <2>3. UNCHANGED <<users, clients, user, fault, proved, disturbed>>
    BY <1>9 DEF FindClient
  <2> QED BY <2>1, <2>2, <2>3 DEF TypeOK, Places
<1>10. ASSUME NEW c \in Conns, FindClientFaults(c) PROVE TypeOK'
  BY <1>10 DEF FindClientFaults, TypeOK, Asking, In
<1>11. ASSUME NEW c \in Conns, EnterName(c) PROVE TypeOK'
  <2>1. clients' \in Seq(Entry) /\ Len(clients') <= MAX_CLIENTS
    <3>1. user[c].name \in Names
      BY <1>0 DEF TypeOK
    <3>2. CASE Loops(c)
      <4>1. slot[c] \in 1 .. Len(clients)
        BY <1>0, <3>2 DEF Loops
      <4> QED BY <1>0, <1>11, <3>1, <3>2, <4>1, Renamed DEF EnterName, TypeOK
    <3> QED BY <1>0, <1>11, <3>2 DEF EnterName, TypeOK
  <2>2. crossed' \subseteq Asking'
    BY <1>11 DEF EnterName, Turns, TypeOK, Asking, In, To
  <2> QED BY <1>11, <2>1, <2>2 DEF EnterName, Turns, To, TypeOK, Entry
<1>12. ASSUME NEW c \in Conns, NotTaken(c) PROVE TypeOK'
  <2>1. crossed' \subseteq Asking'
    BY <1>12 DEF NotTaken, Asks, TypeOK, Asking, In, To
  <2> QED BY <1>12, <2>1 DEF NotTaken, Asks, To, TypeOK
<1>13. ASSUME NEW c \in Conns, Insert(c) PROVE TypeOK'
  <2>1. users' \subseteq Accounts /\ \A a, b \in users' : Same(a, b) => a = b
    <3>1. CASE Accepted(c) /\ users' = users \cup {user[c]}
      BY <3>1 DEF Accepted, Same, TypeOK
    <3>2. CASE UNCHANGED users
      BY <3>2 DEF TypeOK
    <3> QED BY <1>13, <3>1, <3>2 DEF Insert
  <2>2. proved' \in [Conns -> SUBSET Names]
    BY <1>0, <1>13, <2>1 DEF Insert, TypeOK
  <2>3. crossed' \subseteq Asking'
    BY <1>13 DEF Insert, Answered, Turns, TypeOK, Asking, In, To
  <2>4. slot' \in [Conns -> 1 .. MAX_CLIENTS + 1] /\ pc' \in [Conns -> Places]
    <3>1. {"find", "idle"} \subseteq Places
      BY DEF Places
    <3>2. ASSUME NEW place \in Places, Turns(c, place) PROVE Placed'
      BY <1>0, <3>2, TurnsPlaced
    <3>3. Placed'
      BY <1>13, <3>1, <3>2 DEF Insert
    <3> QED BY <3>3 DEF Placed
  <2>5. UNCHANGED <<clients, user, fault, disturbed>>
    BY <1>13 DEF Insert, Answered
  <2> QED BY <2>1, <2>2, <2>3, <2>4, <2>5 DEF TypeOK, Places
<1>14. CASE UNCHANGED vars
  BY <1>14 DEF vars, TypeOK, Asking, In
<1> QED
  BY <1>1, <1>2, <1>3, <1>4, <1>5, <1>6, <1>7, <1>8, <1>9, <1>10, <1>11, <1>12, <1>13,
     <1>14
  DEF Next, Dead, App, Handler

LEMMA InitType == Init => TypeOK
<1> SUFFICES ASSUME Init PROVE TypeOK
  OBVIOUS
<1>1. (CHOOSE a \in Accounts : TRUE) \in Accounts
  BY SessionsAssumption
<1>2. user \in [Conns -> Accounts]
  BY <1>1 DEF Init
<1>3. /\ clients \in Seq([conn : Conns, name : Names \cup {Anonymous}])
      /\ Len(clients) <= MAX_CLIENTS
  BY SessionsAssumption, EmptySeq DEF Init
<1>4. /\ slot \in [Conns -> 1 .. MAX_CLIENTS + 1] /\ proved \in [Conns -> SUBSET Names]
      /\ users \subseteq Accounts /\ \A a, b \in users : Same(a, b) => a = b
  BY SessionsAssumption DEF Init
<1>5. /\ pc \in [Conns -> Places] /\ crossed \subseteq Asking
      /\ fault \in BOOLEAN /\ disturbed \in BOOLEAN
  BY DEF Init, Places
<1> QED BY <1>2, <1>3, <1>4, <1>5 DEF TypeOK, Places

(* Every variable keeps its type, and no two users share an email or a      *)
(* name, however the queries of SIGN_UP overlap or fail.                    *)
THEOREM TypeCorrect == Spec => []TypeOK
BY InitType, TypeStep, PTL DEF Spec

-----------------------------------------------------------------------------
(* What holds however disturbed: a name the database has confirmed stays in *)
(* the table.                                                               *)
Known == \A c \in Conns : \A n \in proved[c] : \E a \in users : a.name = n

(* Undisturbed, no query has overlapped another, and the entries that stay  *)
(* are those of the connections that are served, each once; a search has    *)
(* not gone past its client's entry, and what it has found is that entry.   *)
Sized     == crossed = {} /\ Settled \in Nat
Listed    == \A c \in Conns :
               pc[c] \notin {"closed", "decrement"} <=>
                 \E i \in Entries : clients[i].conn = c
Once      == \A i, j \in Entries : clients[i].conn = clients[j].conn => i = j
Ahead     == \A c \in Conns : pc[c] \in {"find", "scan"} =>
               \A i \in Entries : clients[i].conn = c => slot[c] <= i
Pointed   == \A c \in Conns : pc[c] \in {"enter", "found"} =>
               slot[c] \in Entries /\ clients[slot[c]].conn = c

(* The name a handler goes on with is confirmed, no other one goes on with  *)
(* it, and no entry that its check has passed carries it.                   *)
Confirmed == \A c \in Naming : user[c].name \in proved[c]
Apart     == \A c, d \in Naming : user[c].name = user[d].name => c = d
Unwritten == \A c \in Naming : \A i \in Entries :
               (pc[c] = "check" => i < slot[c]) /\ clients[i].name = user[c].name
                 => user[c].name = Anonymous
Owned     == \A i \in Entries :
               clients[i].name \in proved[clients[i].conn] \cup {Anonymous}
Single    == \A i, j \in Entries :
               i # j /\ clients[i].name = clients[j].name => clients[i].name = Anonymous

Calm == /\ Sized /\ Listed /\ Once /\ Ahead /\ Pointed
        /\ Confirmed /\ Apart /\ Unwritten /\ Owned /\ Single
Inv  == TypeOK /\ Known /\ (~disturbed => Calm) /\ NoFaultWhenCalm

(* The entries that stay are entries that count. *)
LEMMA LeavingFinite == IsFiniteSet(Leaving) /\ Cardinality(Leaving) \in Nat
<1>1. IsFiniteSet(Leaving)
  BY SessionsAssumption, FS_Subset DEF Leaving, In
<1> QED BY <1>1, FS_CardinalityType

LEMMA EntriesCount ==
  ASSUME TypeOK, Settled \in Nat
  PROVE  /\ Entries = 1 .. Settled /\ Settled <= Len(clients) /\ Len(clients) \in Nat
         /\ Entries \subseteq 1 .. Len(clients)
         /\ Leaving = {} => Settled = Len(clients)
         /\ \A i \in Entries :
              clients[i] \in Entry /\ clients[i].conn \in Conns /\
              clients[i].name \in Names \cup {Anonymous}
<1>1. clients \in Seq(Entry) /\ Len(clients) \in Nat
  BY LenProperties DEF TypeOK, Entry
<1>2. Cardinality(Leaving) \in Nat
  BY LeavingFinite
<1>3. Settled <= Len(clients) /\ Entries \subseteq 1 .. Len(clients)
  BY <1>1, <1>2 DEF Settled, Entries
<1>4. \A i \in Entries : clients[i] \in Entry
  BY <1>1, <1>3
<1>5. Leaving = {} => Settled = Len(clients)
  BY <1>1, FS_EmptySet DEF Settled
<1> QED BY <1>1, <1>3, <1>4, <1>5 DEF Entries, Entry

(* Steps by which no one leaves or has left. *)
LEMMA SameLeaving ==
  ASSUME TypeOK, NEW c \in Conns, pc' = [pc EXCEPT ![c] = pc'[c]],
         pc[c] # "decrement", pc'[c] # "decrement"
  PROVE  Leaving' = Leaving
BY DEF TypeOK, Leaving, In

LEMMA KnownStep == ASSUME TypeOK, Known, [Next]_vars PROVE Known'
<1> USE DEF request
<1>1. ASSUME NEW c \in Conns, Connect(c) PROVE Known'
  BY <1>1 DEF Connect, Known, TypeOK
<1>2. ASSUME NEW c \in Conns, SignInFound(c) PROVE Known'
  <2>1. Rows(c) \subseteq users
    BY DEF Rows
  <2> QED BY <1>2, <2>1 DEF SignInFound, Known, TypeOK
<1>3. ASSUME NEW c \in Conns, Insert(c) PROVE Known'
  BY <1>3 DEF Insert, Known, TypeOK
<1>4. CASE UNCHANGED <<users, proved>>
  BY <1>4 DEF Known
<1> QED
  BY <1>1, <1>2, <1>3, <1>4
  DEF Next, Dead, App, Handler, EndOfFile, Scan, Shift, Decrement, SignIn, SignUp,
      SignInRefused, Taken, NotTaken, CheckSession, FindClient, FindClientFaults,
      EnterName, vars

(* A step of one handler that leaves clients[] alone, neither arriving nor  *)
(* leaving: what its new place asks of it is what it must bring.            *)
LEMMA OwnStep ==
  ASSUME TypeOK, Calm, NEW c \in Conns,
         pc' = [pc EXCEPT ![c] = pc'[c]],
         pc[c] \notin {"closed", "decrement"}, pc'[c] \notin {"closed", "decrement"},
         slot' = [slot EXCEPT ![c] = slot'[c]],
         user' = [user EXCEPT ![c] = user'[c]],
         clients' = clients, crossed' = {},
         \A d \in Conns : proved[d] \subseteq proved'[d],
         pc'[c] \in {"find", "scan"} =>
           \A i \in Entries : clients[i].conn = c => slot'[c] <= i,
         pc'[c] \in {"enter", "found"} =>
           slot'[c] \in Entries /\ clients[slot'[c]].conn = c,
         pc'[c] \in {"check", "find", "enter"} =>
           /\ user'[c].name \in proved'[c]
           /\ \A d \in Naming \ {c} : user[d].name # user'[c].name
           /\ \A i \in Entries :
                (pc'[c] = "check" => i < slot'[c]) /\ clients[i].name = user'[c].name
                  => user'[c].name = Anonymous
  PROVE  Calm'
<1>0. /\ \A d \in Conns : pc'[d] = IF d = c THEN pc'[c] ELSE pc[d]
      /\ \A d \in Conns : d # c => user'[d] = user[d] /\ slot'[d] = slot[d]
  BY DEF TypeOK
<1>1. Leaving' = Leaving
  BY SameLeaving
<1>2. Settled' = Settled /\ Entries' = Entries
  BY <1>1 DEF Settled, Entries
<1>3. \A i \in Entries : clients[i].conn \in Conns
  BY EntriesCount DEF Calm, Sized
<1>4. \A d \in Conns : d # c => (d \in Naming' <=> d \in Naming)
  BY <1>0 DEF Naming, In
<1>5. Naming \subseteq Conns /\ Naming' \subseteq Conns
  BY DEF Naming, In
<1>6. c \in Naming' <=> pc'[c] \in {"check", "find", "enter"}
  BY DEF Naming, In
<1>7. Sized' /\ Once' /\ Single'
  BY <1>2 DEF Calm, Sized, Once, Single
<1>8. Listed'
  BY <1>0, <1>2 DEF Calm, Listed
<1>9. Ahead' /\ Pointed'
  BY <1>0, <1>2 DEF Calm, Ahead, Pointed
<1>10. Confirmed'
  BY <1>0, <1>4, <1>5, <1>6 DEF Calm, Confirmed
<1>11. Apart'
  <2>1. ASSUME NEW d \in Naming', NEW e \in Naming', d # e PROVE user'[d].name # user'[e].name
    <3>1. CASE d = c
      <4>1. e \in Naming \ {c} /\ user'[e] = user[e]
        BY <1>0, <1>4, <1>5, <2>1, <3>1
      <4> QED BY <1>6, <3>1, <4>1
    <3>2. CASE e = c
      <4>1. d \in Naming \ {c} /\ user'[d] = user[d]
        BY <1>0, <1>4, <1>5, <2>1, <3>2
      <4> QED BY <1>6, <3>2, <4>1
    <3>3. CASE d # c /\ e # c
      BY <1>0, <1>4, <1>5, <2>1, <3>3 DEF Calm, Apart
    <3> QED BY <3>1, <3>2, <3>3
  <2> QED BY <2>1 DEF Apart
<1>12. Unwritten'
  <2>1. ASSUME NEW d \in Naming', NEW i \in Entries, pc'[d] = "check" => i < slot'[d],
               clients[i].name = user'[d].name
        PROVE  user'[d].name = Anonymous
    <3>1. CASE d = c
      BY <1>6, <2>1, <3>1
    <3>2. CASE d # c
      <4>1. d \in Naming /\ user'[d] = user[d] /\ slot'[d] = slot[d] /\ pc'[d] = pc[d]
        BY <1>0, <1>4, <1>5, <2>1, <3>2
      <4> QED BY <2>1, <4>1 DEF Calm, Unwritten
    <3> QED BY <3>1, <3>2
  <2> QED BY <1>2, <2>1 DEF Unwritten
<1>13. Owned'
  BY <1>2, <1>3 DEF Calm, Owned
<1> QED BY <1>7, <1>8, <1>9, <1>10, <1>11, <1>12, <1>13 DEF Calm

(* Undisturbed steps were undisturbed before. *)
LEMMA WasCalm ==
  ASSUME TypeOK, [Next]_vars, ~disturbed'
  PROVE  ~disturbed
BY DEF Next, Dead, App, Handler, Connect, EndOfFile, Scan, Shift, Decrement, SignIn,
       SignUp, Asks, Answered, SignInRefused, SignInFound, CheckSession, NotTaken, Taken,
       Insert, FindClient, FindClientFaults, EnterName, vars, request

(* An accepted connection is the one entry more. *)
LEMMA ConnectCalm ==
  ASSUME TypeOK, Calm, NEW c \in Conns, Connect(c), ~disturbed'
  PROVE  Calm'
<1> DEFINE n == Settled
<1>0. /\ n \in Nat /\ Entries = 1 .. n /\ \A i \in Entries : clients[i].conn \in Conns
  BY EntriesCount DEF Calm, Sized
<1>1. /\ Leaving = {} /\ Len(clients) < MAX_CLIENTS /\ n = Len(clients)
  <2>1. Len(clients) \in Nat
    BY LenProperties DEF TypeOK
  <2>2. Leaving = {} /\ ~(Len(clients) >= MAX_CLIENTS)
    BY DEF Connect
  <2> QED BY <2>1, <2>2, EntriesCount, SessionsAssumption DEF Calm, Sized
<1>2. /\ pc' = [pc EXCEPT ![c] = "idle"] /\ pc[c] = "closed"
      /\ proved' = [proved EXCEPT ![c] = {}]
      /\ UNCHANGED <<users, user, slot, crossed>>
      /\ clients' = Append(clients, [conn |-> c, name |-> Anonymous])
  BY <1>1 DEF Connect, To
<1>3. \A d \in Conns : pc'[d] = IF d = c THEN "idle" ELSE pc[d]
  BY <1>2 DEF TypeOK
<1>4. Leaving' = {} /\ Naming' = Naming /\ c \notin Naming /\ Naming \subseteq Conns
  BY <1>1, <1>2, <1>3 DEF Leaving, Naming, In
<1>5. /\ Len(clients') = n + 1 /\ \A i \in Entries : clients'[i] = clients[i]
      /\ clients'[n + 1].conn = c /\ clients'[n + 1].name = Anonymous
  <2>1. [conn |-> c, name |-> Anonymous] \in Entry /\ clients \in Seq(Entry)
    BY DEF Entry, TypeOK
  <2> QED BY <1>0, <1>1, <1>2, <2>1, Appended
<1>6. Settled' = n + 1 /\ Entries' = 1 .. n + 1
  <2>1. Settled' = Len(clients') - Cardinality({})
    BY <1>4 DEF Settled
  <2> QED BY <1>0, <1>5, <2>1, FS_EmptySet DEF Entries
<1>7. /\ n + 1 \in Entries' /\ \A i \in Entries' : i = n + 1 \/ i \in Entries
      /\ \A i \in Entries : i \in Entries' /\ i # n + 1
  BY <1>0, <1>6
<1>8. \A i \in Entries : clients[i].conn # c
  BY <1>2 DEF Calm, Listed
<1> HIDE DEF n
<1>9. Sized' /\ Once'
  BY <1>0, <1>2, <1>5, <1>6, <1>7, <1>8 DEF Calm, Sized, Once
<1>10. Listed'
  BY <1>3, <1>5, <1>7, <1>8 DEF Calm, Listed
<1>11. Ahead' /\ Pointed'
  <2>1. \A d \in Conns : pc'[d] \in {"find", "scan", "enter", "found"} =>
          d # c /\ pc'[d] = pc[d] /\ slot'[d] = slot[d]
    BY <1>2, <1>3
  <2>2. Ahead'
    BY <1>5, <1>7, <2>1 DEF Calm, Ahead
  <2>3. Pointed'
    BY <1>5, <1>7, <2>1 DEF Calm, Pointed
  <2> QED BY <2>2, <2>3
<1>12. Confirmed' /\ Apart' /\ Unwritten'
  <2>1. \A d \in Naming : pc'[d] = pc[d] /\ proved'[d] = proved[d]
    BY <1>2, <1>3, <1>4 DEF TypeOK
  <2>2. Confirmed' /\ Apart'
    BY <1>2, <1>4, <2>1 DEF Calm, Confirmed, Apart
  <2>3. Unwritten'
    BY <1>2, <1>4, <1>5, <1>7, <2>1 DEF Calm, Unwritten
  <2> QED BY <2>2, <2>3
<1>13. Owned'
  <2>1. \A d \in Conns : d # c => proved'[d] = proved[d]
    BY <1>2 DEF TypeOK
  <2> QED BY <1>0, <1>5, <1>7, <1>8, <2>1 DEF Calm, Owned
<1>14. Single'
  BY <1>5, <1>7 DEF Calm, Single
<1> QED BY <1>9, <1>10, <1>11, <1>12, <1>13, <1>14 DEF Calm

(* A removal takes its own entry away from those that stay. *)
LEMMA ShiftCalm ==
  ASSUME TypeOK, Calm, NEW c \in Conns, Shift(c), ~disturbed'
  PROVE  Calm'
<1> DEFINE n == Settled
           k == slot[c]
<1>0. /\ n \in Nat /\ Entries = 1 .. n /\ n <= Len(clients) /\ Len(clients) \in Nat
      /\ Entries \subseteq 1 .. Len(clients)
      /\ \A i \in Entries : clients[i].conn \in Conns
  BY EntriesCount DEF Calm, Sized
<1>1. /\ pc[c] = "found" /\ pc' = [pc EXCEPT ![c] = "decrement"] /\ Indexing = {c}
      /\ UNCHANGED <<users, user, crossed, proved>>
  BY DEF Shift, Turns, To
<1>2. k \in 1 .. n /\ clients[k].conn = c
  BY <1>0, <1>1 DEF Calm, Pointed
<1>3. k \in 1 .. Len(clients) /\ Loops(c)
  BY <1>0, <1>2 DEF Loops
<1>4. clients' = Append(RemoveAt(clients, k), Last(clients))
  BY <1>3 DEF Shift
<1> HIDE DEF k
<1>5. /\ Len(clients') = Len(clients)
      /\ \A i \in 1 .. Len(clients) - 1 :
           clients'[i] = IF i < k THEN clients[i] ELSE clients[i + 1]
  <2>1. clients \in Seq(Entry)
    BY DEF TypeOK, Entry
  <2> QED BY <1>3, <1>4, <2>1, MovedDown
<1>6. \A d \in Conns : pc'[d] = IF d = c THEN "decrement" ELSE pc[d]
  BY <1>1 DEF TypeOK
<1>7. Settled' = n - 1
  <2>1. Leaving' = Leaving \cup {c} /\ c \notin Leaving
    BY <1>1, <1>6 DEF Leaving, In
  <2>2. Cardinality(Leaving') = Cardinality(Leaving) + 1 /\ Cardinality(Leaving) \in Nat
    BY <2>1, LeavingFinite, FS_AddElement
  <2> QED BY <1>0, <1>5, <2>2 DEF Settled
<1>8. Entries' = 1 .. n - 1 /\ n - 1 \in Nat
  BY <1>0, <1>2, <1>7 DEF Entries
<1> DEFINE F(i) == IF i < k THEN i ELSE i + 1
<1>9. \A i \in Entries' : F(i) \in Entries \ {k} /\ clients'[i] = clients[F(i)]
  BY <1>0, <1>2, <1>5, <1>8
<1>10. \A i, j \in Entries' : i # j => F(i) # F(j)
  BY <1>0, <1>2, <1>8
<1>11. \A j \in Entries \ {k} : \E i \in Entries' : F(i) = j
  <2> SUFFICES ASSUME NEW j \in Entries \ {k} PROVE \E i \in Entries' : F(i) = j
    OBVIOUS
  <2>1. CASE j < k
    <3>1. j \in Entries' /\ F(j) = j
      BY <1>0, <1>2, <1>8, <2>1
    <3> QED BY <3>1
  <2>2. CASE j > k
    <3>1. j - 1 \in Entries' /\ F(j - 1) = j
      BY <1>0, <1>2, <1>8, <2>2
    <3> QED BY <3>1
  <2> QED BY <1>0, <1>2, <2>1, <2>2
<1> HIDE DEF F, n
<1>12. \A i \in Entries \ {k} : clients[i].conn # c
  BY <1>0, <1>2 DEF Calm, Once
<1>13. Sized'
  BY <1>1, <1>7, <1>8 DEF Calm, Sized
<1>14. Listed'
  <2>1. \A i \in Entries' : clients'[i].conn # c
    BY <1>9, <1>12
  <2>2. \A d \in Conns : d # c =>
          ((\E i \in Entries' : clients'[i].conn = d) <=>
             \E i \in Entries : clients[i].conn = d)
    BY <1>2, <1>9, <1>11
  <2> QED BY <1>6, <2>1, <2>2 DEF Calm, Listed
<1>15. Once' /\ Single'
  BY <1>9, <1>10 DEF Calm, Once, Single
<1>16. \A d \in Conns : pc'[d] \notin {"check", "find", "enter", "scan", "found"}
  BY <1>1, <1>6 DEF Indexing, Naming, In
<1>17. Ahead' /\ Pointed' /\ Confirmed' /\ Apart' /\ Unwritten'
  BY <1>16 DEF Ahead, Pointed, Confirmed, Apart, Unwritten, Naming, In
<1>18. Owned'
  BY <1>1, <1>9 DEF Calm, Owned
<1> QED BY <1>13, <1>14, <1>15, <1>17, <1>18 DEF Calm

(* The count goes down by an entry that does not stay. *)
LEMMA DecrementCalm ==
  ASSUME TypeOK, Calm, NEW c \in Conns, Decrement(c)
  PROVE  Calm'
<1>0. Settled \in Nat /\ Entries = 1 .. Settled /\ Len(clients) \in Nat
  BY EntriesCount DEF Calm, Sized
<1>1. /\ pc[c] = "decrement" /\ pc' = [pc EXCEPT ![c] = "closed"]
      /\ UNCHANGED <<users, user, slot, crossed, proved>>
  BY DEF Decrement, To
<1>2. \A d \in Conns : pc'[d] = IF d = c THEN "closed" ELSE pc[d]
  BY <1>1 DEF TypeOK
<1>3. c \in Leaving /\ Leaving' = Leaving \ {c}
  BY <1>1, <1>2 DEF Leaving, In
<1>4. /\ Cardinality(Leaving') = Cardinality(Leaving) - 1
      /\ Cardinality(Leaving) \in Nat /\ Cardinality(Leaving') \in Nat
  BY <1>3, LeavingFinite, FS_RemoveElement, FS_CardinalityType
<1>5. /\ Len(clients') = Len(clients) - 1
      /\ \A i \in 1 .. Len(clients) - 1 : clients'[i] = clients[i]
  <2>1. clients \in Seq(Entry)
    BY DEF TypeOK, Entry
  <2> QED BY <2>1, LastRemoved DEF Decrement
<1>6. Settled' = Settled
  BY <1>0, <1>4, <1>5 DEF Settled
<1>7. Entries' = Entries /\ \A i \in Entries : clients'[i] = clients[i]
  <2>1. Settled <= Len(clients) - 1
    BY <1>0, <1>4, <1>5, <1>6 DEF Settled
  <2> QED BY <1>0, <1>5, <1>6, <2>1 DEF Entries
<1>8. Naming' = Naming /\ \A d \in Naming : pc'[d] = pc[d]
  BY <1>1, <1>2 DEF Naming, In
<1>9. Sized' /\ Once' /\ Owned' /\ Single'
  BY <1>1, <1>6, <1>7 DEF Calm, Sized, Once, Owned, Single
<1>10. Listed' /\ Ahead' /\ Pointed'
  BY <1>1, <1>2, <1>7 DEF Calm, Listed, Ahead, Pointed
<1>11. Confirmed' /\ Apart' /\ Unwritten'
  BY <1>1, <1>7, <1>8 DEF Calm, Confirmed, Apart, Unwritten
<1> QED BY <1>9, <1>10, <1>11 DEF Calm

(* A name is written into the entry of its own client. *)
LEMMA EnterCalm ==
  ASSUME TypeOK, Calm, NEW c \in Conns, EnterName(c)
  PROVE  Calm'
<1> DEFINE k == slot[c]
<1>0. /\ Settled \in Nat /\ Len(clients) \in Nat
      /\ Entries \subseteq 1 .. Len(clients) /\ Entries = 1 .. Settled
      /\ \A i \in Entries : clients[i].conn \in Conns
  BY EntriesCount DEF Calm, Sized
<1>1. /\ pc[c] = "enter" /\ pc' = [pc EXCEPT ![c] = "idle"]
      /\ slot' = [slot EXCEPT ![c] = 1]
      /\ UNCHANGED <<users, user, crossed, proved>>
  BY DEF EnterName, Turns, To
<1>2. k \in Entries /\ clients[k].conn = c
  BY <1>1 DEF Calm, Pointed
<1>3. c \in Naming
  BY <1>1 DEF Naming, In
<1>4. clients' = [clients EXCEPT ![k].name = user[c].name]
  <2>1. k \in 1 .. Len(clients)
    BY <1>0, <1>2
  <2>2. Loops(c)
    BY <1>0, <2>1 DEF Loops
  <2> QED BY <2>2 DEF EnterName
<1> HIDE DEF k
<1>5. /\ Len(clients') = Len(clients)
      /\ \A i \in Entries :
           /\ clients'[i].conn = clients[i].conn
           /\ clients'[i].name = IF i = k THEN user[c].name ELSE clients[i].name
  <2>1. clients \in Seq(Entry) /\ user[c].name \in Names \cup {Anonymous}
    BY DEF TypeOK, Entry, Names
  <2> QED BY <1>0, <1>2, <1>4, <2>1, Renamed
<1>6. Leaving' = Leaving
  BY <1>1, SameLeaving DEF TypeOK
<1>7. Settled' = Settled /\ Entries' = Entries
  BY <1>5, <1>6 DEF Settled, Entries
<1>8. \A d \in Conns : pc'[d] = IF d = c THEN "idle" ELSE pc[d]
  BY <1>1 DEF TypeOK
<1>9. \A d \in Conns : d # c => slot'[d] = slot[d]
  BY <1>1 DEF TypeOK
<1>10. /\ Naming' = Naming \ {c} /\ Naming \subseteq Conns
       /\ \A d \in Naming' : pc'[d] = pc[d] /\ slot'[d] = slot[d]
  BY <1>8, <1>9 DEF Naming, In
<1>11. Sized' /\ Once'
  BY <1>1, <1>5, <1>7 DEF Calm, Sized, Once
<1>12. Listed' /\ Ahead' /\ Pointed'
  BY <1>1, <1>5, <1>7, <1>8, <1>9 DEF Calm, Listed, Ahead, Pointed
<1>13. Confirmed' /\ Apart'
  BY <1>1, <1>10 DEF Calm, Confirmed, Apart
<1>14. Unwritten'
  <2>1. \A d \in Naming' : user[d].name # user[c].name
    BY <1>3, <1>10 DEF Calm, Apart
  <2> QED BY <1>1, <1>5, <1>7, <1>10, <2>1 DEF Calm, Unwritten
<1>15. Owned'
  BY <1>1, <1>2, <1>3, <1>5, <1>7 DEF Calm, Owned, Confirmed
<1>16. Single'
  <2>1. \A i \in Entries :
          clients[i].name = user[c].name => user[c].name = Anonymous
    BY <1>1, <1>3 DEF Calm, Unwritten
  <2> QED BY <1>5, <1>7, <2>1 DEF Calm, Single
<1> QED BY <1>11, <1>12, <1>13, <1>14, <1>15, <1>16 DEF Calm

LEMMA CalmStep ==
  ASSUME TypeOK, Known, Calm, [Next]_vars, ~disturbed', ~disturbed
  PROVE  Calm'
<1> USE DEF request
<1>0. /\ pc \in [Conns -> Places] /\ user \in [Conns -> Accounts]
      /\ slot \in [Conns -> 1 .. MAX_CLIENTS + 1] /\ proved \in [Conns -> SUBSET Names]
      /\ crossed = {}
  BY DEF TypeOK, Places, Calm, Sized
<1>1. /\ Settled \in Nat /\ Entries = 1 .. Settled /\ Settled <= Len(clients)
      /\ Len(clients) \in Nat /\ \A i \in Entries : clients[i].conn \in Conns
  BY EntriesCount DEF Calm, Sized
<1>2. ASSUME NEW c \in Conns, EndOfFile(c) PROVE Calm'
  <2>1. /\ pc[c] = "idle" /\ pc' = [pc EXCEPT ![c] = "scan"]
        /\ slot' = [slot EXCEPT ![c] = 1]
        /\ UNCHANGED <<clients, user, crossed, proved>>
    BY <1>2 DEF EndOfFile, Turns, To
  <2>2. pc'[c] = "scan" /\ slot'[c] = 1
    BY <1>0, <2>1
  <2>3. \A i \in Entries : slot'[c] <= i
    BY <1>1, <2>2
  <2> QED BY <1>0, <2>1, <2>2, <2>3, OwnStep
<1>3. ASSUME NEW c \in Conns, Scan(c) PROVE Calm'
  <2>1. /\ pc[c] = "scan" /\ Loops(c)
        /\ UNCHANGED <<clients, user, crossed, proved>>
    BY <1>3 DEF Scan
  <2>2. slot[c] \in 1 .. Len(clients)
    BY <1>0, <1>1, <2>1 DEF Loops
  <2>3. \E i \in Entries : clients[i].conn = c
    BY <2>1 DEF Calm, Listed
  <2>4. CASE Here(c).conn = c /\ To(c, "found") /\ UNCHANGED slot
    <3>1. pc' = [pc EXCEPT ![c] = "found"] /\ pc'[c] = "found" /\ slot'[c] = slot[c]
      BY <1>0, <2>4 DEF To
    <3>2. slot[c] \in Entries /\ clients[slot[c]].conn = c
      <4>1. PICK i \in Entries : clients[i].conn = c
        BY <2>3
      <4>2. slot[c] <= i
        BY <2>1, <4>1 DEF Calm, Ahead
      <4> QED BY <1>1, <2>2, <2>4, <4>2 DEF Here
    <3> QED BY <1>0, <2>1, <2>4, <3>1, <3>2, OwnStep
  <2>5. CASE Here(c).conn # c /\ Further(c)
    <3>1. slot' = [slot EXCEPT ![c] = slot[c] + 1] /\ pc' = pc /\ slot'[c] = slot[c] + 1
      BY <1>0, <2>5 DEF Further
    <3>2. \A i \in Entries : clients[i].conn = c => slot[c] + 1 <= i
      <4>1. \A i \in Entries : clients[i].conn = c => slot[c] <= i /\ slot[c] # i
        BY <2>1, <2>5 DEF Calm, Ahead, Here
      <4> QED BY <1>1, <2>2, <4>1
    <3> QED BY <1>0, <2>1, <3>1, <3>2, OwnStep
  <2> QED BY <1>3, <2>1, <2>4, <2>5 DEF Scan
<1>4. ASSUME NEW c \in Conns, NEW a \in Accounts, SignIn(c, a) \/ SignUp(c, a)
      PROVE  Calm'
  <2>1. Asking \ {c} = {}
    BY <1>4 DEF SignIn, SignUp, Asks
  <2>2. crossed' = {}
    BY <1>0, <1>4, <2>1 DEF SignIn, SignUp, Asks
  <2>3. /\ pc[c] = "idle" /\ \E q \in {"signin", "email"} : pc' = [pc EXCEPT ![c] = q]
        /\ user' = [user EXCEPT ![c] = a]
        /\ UNCHANGED <<clients, slot, proved>>
    BY <1>4 DEF SignIn, SignUp, Asks, To
  <2>4. pc'[c] \in {"signin", "email"}
    BY <1>0, <2>3
  <2> QED BY <1>0, <2>2, <2>3, <2>4, OwnStep
<1>5. ASSUME NEW c \in Conns, SignInRefused(c) \/ Taken(c) PROVE Calm'
  <2>1. /\ pc[c] \in {"signin", "email", "name"} /\ pc' = [pc EXCEPT ![c] = "idle"]
        /\ crossed' = {} /\ UNCHANGED <<user, clients, slot, proved>>
    BY <1>0, <1>5 DEF SignInRefused, Taken, Answered, To
  <2>2. pc'[c] = "idle"
    BY <1>0, <2>1
  <2> QED BY <1>0, <2>1, <2>2, OwnStep
<1>6. ASSUME NEW c \in Conns, NotTaken(c) PROVE Calm'
  <2>1. Asking \ {c} = {}
    BY <1>6 DEF NotTaken, Asks
  <2>2. /\ pc[c] \in {"email", "name"}
        /\ \E q \in {"name", "insert"} : pc' = [pc EXCEPT ![c] = q]
        /\ crossed' = {} /\ UNCHANGED <<user, clients, slot, proved>>
    BY <1>0, <1>6, <2>1 DEF NotTaken, Asks, To
  <2>3. pc'[c] \in {"name", "insert"}
    BY <1>0, <2>2
  <2> QED BY <1>0, <2>2, <2>3, OwnStep
<1>7. ASSUME NEW c \in Conns, SignInFound(c) PROVE Calm'
  <2>1. /\ pc[c] = "signin" /\ pc' = [pc EXCEPT ![c] = "check"]
        /\ slot' = [slot EXCEPT ![c] = 1]
        /\ crossed' = {} /\ Naming = {} /\ UNCHANGED <<users, clients>>
    BY <1>0, <1>7 DEF SignInFound, Turns, To
  <2>2. Rows(c) = users \cap {user[c]}
    BY <2>1 DEF Rows
  <2>3. Answers(c) = {{}, Rows(c)}
    BY <1>0 DEF Answers
  <2>4. user[c] \in users /\ user' = user
    <3>1. PICK rows \in Answers(c) : \E a \in rows : user' = [user EXCEPT ![c] = a]
      BY <1>7 DEF SignInFound
    <3>2. PICK a \in rows : user' = [user EXCEPT ![c] = a]
      BY <3>1
    <3>3. a = user[c] /\ user[c] \in users
      BY <2>2, <2>3, <3>2
    <3> QED BY <1>0, <3>2, <3>3
  <2>5. proved' = [proved EXCEPT ![c] = proved[c] \cup {user[c].name}]
    <3>1. {b.name : b \in Rows(c)} = {user[c].name}
      BY <2>2, <2>4
    <3>2. proved' = [proved EXCEPT ![c] = proved[c] \cup {b.name : b \in Rows(c)}]
      BY <1>7 DEF SignInFound
    <3> QED BY <3>1, <3>2
  <2>6. /\ pc'[c] = "check" /\ slot'[c] = 1 /\ user'[c].name \in proved'[c]
        /\ \A d \in Conns : proved[d] \subseteq proved'[d]
    BY <1>0, <2>1, <2>4, <2>5
  <2>7. \A i \in Entries : ~(i < slot'[c])
    BY <1>1, <2>6
  <2> QED BY <1>0, <2>1, <2>4, <2>6, <2>7, OwnStep
<1>8. ASSUME NEW c \in Conns, CheckSession(c) PROVE Calm'
  <2>1. /\ pc[c] = "check" /\ c \in Naming
        /\ UNCHANGED <<users, clients, user, crossed, proved>>
    BY <1>8 DEF CheckSession, Naming, In
  <2>2. /\ user[c].name \in proved[c]
        /\ \A d \in Naming \ {c} : user[d].name # user[c].name
    BY <2>1 DEF Calm, Confirmed, Apart
  <2>3. CASE Turns(c, "idle")
    <3>1. /\ pc' = [pc EXCEPT ![c] = "idle"] /\ slot' = [slot EXCEPT ![c] = 1]
          /\ pc'[c] = "idle"
      BY <1>0, <2>3 DEF Turns, To
    <3> QED BY <1>0, <2>1, <3>1, OwnStep
  <2>4. CASE Here(c).name # user[c].name /\ Further(c)
    <3>1. slot' = [slot EXCEPT ![c] = slot[c] + 1] /\ pc' = pc /\ slot'[c] = slot[c] + 1
      BY <1>0, <2>4 DEF Further
    <3>2. \A i \in Entries : i < slot[c] + 1 /\ clients[i].name = user[c].name
                               => user[c].name = Anonymous
      <4>1. \A i \in Entries : i < slot[c] /\ clients[i].name = user[c].name
                                 => user[c].name = Anonymous
        BY <2>1 DEF Calm, Unwritten
      <4>2. \A i \in Entries : i < slot[c] + 1 => i < slot[c] \/ i = slot[c]
        BY <1>0, <1>1, SessionsAssumption
      <4> QED BY <2>4, <4>1, <4>2 DEF Here
    <3> QED BY <1>0, <2>1, <2>2, <3>1, <3>2, OwnStep
  <2>5. CASE ~Loops(c) /\ Turns(c, "find")
    <3>1. /\ pc' = [pc EXCEPT ![c] = "find"] /\ slot' = [slot EXCEPT ![c] = 1]
          /\ pc'[c] = "find" /\ slot'[c] = 1
      BY <1>0, <2>5 DEF Turns, To
    <3>2. \A i \in Entries : i < slot[c] /\ slot'[c] <= i
      BY <1>0, <1>1, <2>5, <3>1, SessionsAssumption DEF Loops
    <3>3. \A i \in Entries : clients[i].name = user[c].name => user[c].name = Anonymous
      BY <2>1, <3>2 DEF Calm, Unwritten
    <3> QED BY <1>0, <2>1, <2>2, <3>1, <3>2, <3>3, OwnStep
  <2> QED BY <1>8, <2>3, <2>4, <2>5 DEF CheckSession
<1>9. ASSUME NEW c \in Conns, FindClient(c) PROVE Calm'
  <2>1. /\ pc[c] = "find" /\ Loops(c) /\ c \in Naming
        /\ UNCHANGED <<users, clients, user, crossed, proved>>
    BY <1>9 DEF FindClient, Naming, In
  <2>2. slot[c] \in 1 .. Len(clients)
    BY <1>0, <1>1, <2>1 DEF Loops
  <2>3. \E i \in Entries : clients[i].conn = c
    BY <2>1 DEF Calm, Listed
  <2>4. /\ user[c].name \in proved[c]
        /\ \A d \in Naming \ {c} : user[d].name # user[c].name
        /\ \A i \in Entries : clients[i].name = user[c].name => user[c].name = Anonymous
    BY <2>1 DEF Calm, Confirmed, Apart, Unwritten
  <2>5. CASE Here(c).conn = c /\ To(c, "enter") /\ UNCHANGED slot
    <3>1. pc' = [pc EXCEPT ![c] = "enter"] /\ pc'[c] = "enter" /\ slot'[c] = slot[c]
      BY <1>0, <2>5 DEF To
    <3>2. slot[c] \in Entries /\ clients[slot[c]].conn = c
      <4>1. PICK i \in Entries : clients[i].conn = c
        BY <2>3
      <4>2. slot[c] <= i
        BY <2>1, <4>1 DEF Calm, Ahead
      <4> QED BY <1>1, <2>2, <2>5, <4>2 DEF Here
    <3> QED BY <1>0, <2>1, <2>4, <2>5, <3>1, <3>2, OwnStep
  <2>6. CASE Here(c).conn # c /\ Further(c)
    <3>1. slot' = [slot EXCEPT ![c] = slot[c] + 1] /\ pc' = pc /\ slot'[c] = slot[c] + 1
      BY <1>0, <2>6 DEF Further
    <3>2. \A i \in Entries : clients[i].conn = c => slot[c] + 1 <= i
      <4>1. \A i \in Entries : clients[i].conn = c => slot[c] <= i /\ slot[c] # i
        BY <2>1, <2>6 DEF Calm, Ahead, Here
      <4> QED BY <1>1, <2>2, <4>1
    <3> QED BY <1>0, <2>1, <2>4, <3>1, <3>2, OwnStep
  <2> QED BY <1>9, <2>5, <2>6 DEF FindClient
<1>10. ASSUME NEW c \in Conns, Insert(c) PROVE Calm'
  <2>1. /\ pc[c] = "insert" /\ crossed' = {} /\ UNCHANGED <<clients, user>>
    BY <1>0, <1>10 DEF Insert, Answered
  <2>2. proved' = [proved EXCEPT ![c] = proved[c] \cup {a.name : a \in users' \ users}]
    BY <1>10 DEF Insert
  <2>3. \A d \in Conns : proved[d] \subseteq proved'[d]
    BY <1>0, <2>2
  <2>4. CASE Turns(c, "idle")
    <3>1. /\ pc' = [pc EXCEPT ![c] = "idle"] /\ slot' = [slot EXCEPT ![c] = 1]
          /\ pc'[c] = "idle"
      BY <1>0, <2>4 DEF Turns, To
    <3> QED BY <1>0, <2>1, <2>3, <3>1, OwnStep
  <2>5. CASE users' # users /\ Turns(c, "find")
    <3>1. /\ pc' = [pc EXCEPT ![c] = "find"] /\ slot' = [slot EXCEPT ![c] = 1]
          /\ pc'[c] = "find" /\ slot'[c] = 1
      BY <1>0, <2>5 DEF Turns, To
    <3>2. Accepted(c) /\ users' = users \cup {user[c]}
      BY <1>10, <2>5 DEF Insert
    <3>3. \A a \in users : a.name # user[c].name
      BY <3>2 DEF Accepted, Same
    <3>4. users' \ users = {user[c]}
      BY <2>5, <3>2
    <3>5. user[c].name \in proved'[c]
      BY <1>0, <2>2, <3>4
    <3>6. \A d \in Conns : user[c].name \notin proved[d]
      BY <3>3 DEF Known
    <3>7. \A d \in Naming \ {c} : user[d].name # user[c].name
      BY <3>6 DEF Calm, Confirmed, Naming, In
    <3>8. \A i \in Entries : clients[i].name = user[c].name => user[c].name = Anonymous
      BY <1>1, <3>6 DEF Calm, Owned
    <3>9. \A i \in Entries : slot'[c] <= i
      BY <1>1, <3>1
    <3> QED BY <1>0, <2>1, <2>3, <3>1, <3>5, <3>7, <3>8, <3>9, OwnStep
  <2> QED BY <1>0, <1>10, <2>4, <2>5 DEF Insert
<1>11. ASSUME NEW c \in Conns, FindClientFaults(c) PROVE Calm'
  BY <1>11 DEF FindClientFaults, Calm, Sized, Listed, Once, Ahead, Pointed, Confirmed,
               Apart, Unwritten, Owned, Single, Settled, Entries, Leaving, Naming, In
<1>12. CASE UNCHANGED vars
  BY <1>12 DEF vars, Calm, Sized, Listed, Once, Ahead, Pointed, Confirmed, Apart,
               Unwritten, Owned, Single, Settled, Entries, Leaving, Naming, In
<1>13. ASSUME NEW c \in Conns, Connect(c) \/ Shift(c) \/ Decrement(c) \/ EnterName(c)
       PROVE  Calm'
  BY <1>13, ConnectCalm, ShiftCalm, DecrementCalm, EnterCalm
<1> QED
  BY <1>2, <1>3, <1>4, <1>5, <1>6, <1>7, <1>8, <1>9, <1>10, <1>11, <1>12, <1>13
  DEF Next, Dead, App, Handler

LEMMA InitInv == Init => Inv
<1> SUFFICES ASSUME Init PROVE Inv
  OBVIOUS
<1>1. TypeOK
  BY InitType
<1>2. Leaving = {} /\ Naming = {}
  BY DEF Init, Leaving, Naming, In
<1>3. Settled = 0 /\ Entries = {}
  <2>1. Settled = Len(<<>>) - Cardinality({})
    BY <1>2 DEF Init, Settled
  <2>2. Settled = 0
    BY <2>1, FS_EmptySet
  <2> QED BY <2>2 DEF Entries
<1>4. Known /\ Sized /\ Listed /\ Once /\ Ahead /\ Pointed
  BY <1>3 DEF Init, Known, Sized, Listed, Once, Ahead, Pointed
<1>5. Confirmed /\ Apart /\ Unwritten /\ Owned /\ Single
  BY <1>2, <1>3 DEF Confirmed, Apart, Unwritten, Owned, Single
<1>6. NoFaultWhenCalm
  BY DEF Init, NoFaultWhenCalm
<1> QED BY <1>1, <1>4, <1>5, <1>6 DEF Inv, Calm

LEMMA InvStep == Inv /\ [Next]_vars => Inv'
<1> SUFFICES ASSUME Inv, [Next]_vars PROVE Inv'
  OBVIOUS
<1>1. TypeOK' /\ Known'
  BY TypeStep, KnownStep DEF Inv
<1>2. ASSUME ~disturbed' PROVE Calm'
  BY <1>2, WasCalm, CalmStep DEF Inv
<1>3. ASSUME ~disturbed' PROVE ~fault'
  <2>1. ~disturbed /\ Calm /\ ~fault /\ TypeOK
    BY <1>3, WasCalm DEF Inv, NoFaultWhenCalm
  <2>2. \A c \in Conns : ~FindClientFaults(c)
    <3> SUFFICES ASSUME NEW c \in Conns, pc[c] = "find" PROVE Loops(c)
      BY DEF FindClientFaults
    <3>1. PICK i \in Entries : clients[i].conn = c
      BY <2>1 DEF Calm, Listed
    <3>2. slot[c] <= i /\ slot[c] \in Int
      BY <2>1, <3>1, SessionsAssumption DEF Calm, Ahead, TypeOK
    <3>3. i \in 1 .. Len(clients) /\ Len(clients) \in Nat
      BY <2>1, <3>1, EntriesCount DEF Calm, Sized
    <3> QED BY <3>2, <3>3 DEF Loops
  <2> QED BY <2>1, <2>2
     DEF Next, Dead, App, Handler, Connect, EndOfFile, Scan, Shift, Decrement, SignIn,
         SignUp, SignInRefused, SignInFound, CheckSession, NotTaken, Taken, Insert,
         FindClient, EnterName, vars
<1> QED BY <1>1, <1>2, <1>3 DEF Inv, NoFaultWhenCalm

LEMMA InvCorrect == Spec => []Inv
BY InitInv, InvStep, PTL DEF Spec

(* Undisturbed, the null of find_client_by_socket() that SIGN_IN and        *)
(* SIGN_UP do not test for is never met: the search, entry by entry, comes  *)
(* to its client, also while removals have yet to lower the count.          *)
THEOREM NoFaultCorrect == Spec => []NoFaultWhenCalm
<1>1. Inv => NoFaultWhenCalm
  BY DEF Inv
<1> QED BY InvCorrect, <1>1, PTL

(* Undisturbed, SIGN_IN and SIGN_UP write a name the database has confirmed *)
(* into the entry of their own client.                                      *)
THEOREM NameIsOwnCorrect == Spec => []NameIsOwnWhenCalm
<1>1. Inv => NameIsOwnWhenCalm
  BY DEF Inv, Calm, Owned, NameIsOwnWhenCalm
<1> QED BY InvCorrect, <1>1, PTL

(* Undisturbed, no account is signed in twice: what the check has passed    *)
(* does not come to carry its name while it goes on.                        *)
THEOREM OneSessionCorrect == Spec => []OneSessionWhenCalm
<1>1. Inv => OneSessionWhenCalm
  BY DEF Inv, Calm, Single, OneSessionWhenCalm
<1> QED BY InvCorrect, <1>1, PTL
=============================================================================
