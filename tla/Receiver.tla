------------------------------- MODULE Receiver -------------------------------
(***************************************************************************)
(* multicast_recv.c: how the thread of a room opens a receiver, how the    *)
(* receiver's own thread takes datagrams from it, and how the first tells  *)
(* the second to end: a flag, then a byte in a pipe. The second then frees *)
(* what both use. Descriptors are numbers that the process gives out anew, *)
(* and each is closed by whoever opened it: a handler that closes another  *)
(* connection's number (ClientTable) may close one of these and is left    *)
(* out here.                                                               *)
(***************************************************************************)
EXTENDS Integers, FiniteSets

CONSTANTS
  Receivers,   (* structures mcreceiver, each with the thread of its room   *)
  Descriptors, (* numbers of descriptors, of which the least is given out   *)
  FD_SETSIZE,  (* of select(): the numbers below it fit into an fd_set      *)
  Waiting,     (* datagrams that wait in a socket at once (bounds a run)    *)
  Free,        (* a descriptor that is not open                             *)
  Client       (* a descriptor with another purpose                         *)

Part(r, what) == <<r, what>>
Parts == Receivers \X {"sd", "read", "write"}

ASSUME ReceiverAssumption ==
  /\ IsFiniteSet(Descriptors) /\ Descriptors \subseteq Nat \ {0}
  /\ FD_SETSIZE \in Nat /\ Waiting \in Nat
  /\ Free # Client /\ {Free, Client} \cap Parts = {}

VARIABLES
  owner,     (* what each descriptor is: a part of a receiver, Client, Free *)
  room,      (* where the thread of the room is                             *)
  pc,        (* where the receiving thread is                               *)
  memory,    (* of rc: none, live or freed                                  *)
  running,
  writeEnd,  (* pipe[1], the number                                         *)
  bytes,     (* in the pipe                                                 *)
  queue,     (* datagrams in the socket                                     *)
  ready,     (* read_set, as select() left it                               *)
  fault,     (* none, or how the process has died: null, sigpipe, thread    *)
             (* (an unset pthread_t detached) or bounds (of an fd_set)      *)
  stray,     (* history: the byte went to another's descriptor              *)
  disturbed  (* history: a thread ended on the flag before its byte was sent *)

inner == <<memory, running, writeEnd, bytes, queue, ready>>
flags == <<fault, stray, disturbed>>
vars == <<owner, room, pc, inner, flags>>

FreeOnes == {d \in Descriptors : owner[d] = Free}
Lowest(S) == {d \in S : \A e \in S : d <= e}
Has(r, what) == \E d \in Descriptors : owner[d] = Part(r, what)

(* The numbers of r that _recv puts into its fd_set all fit.                *)
InSet(r) ==
  \A d \in Descriptors : owner[d] \in {r} \X {"sd", "read", "write"} => d < FD_SETSIZE

(* What is left when some parts of r are closed. *)
Closing(r, what) ==
  [d \in Descriptors |-> IF owner[d] \in {r} \X what THEN Free ELSE owner[d]]

Init ==
  /\ owner = [d \in Descriptors |-> Free]
  /\ room = [r \in Receivers |-> "new"]
  /\ pc = [r \in Receivers |-> "none"]
  /\ memory = [r \in Receivers |-> "none"]
  /\ running = [r \in Receivers |-> FALSE]
  /\ writeEnd = [r \in Receivers |-> 0]
  /\ bytes = [r \in Receivers |-> 0]
  /\ queue = [r \in Receivers |-> 0]
  /\ ready = [r \in Receivers |-> {}]
  /\ fault = "none" /\ stray = FALSE /\ disturbed = FALSE

Room(r, place) == room' = [room EXCEPT ![r] = place]
Goto(r, place) == pc' = [pc EXCEPT ![r] = place]

Dies(why) ==
  /\ fault' = why
  /\ UNCHANGED <<owner, room, pc, inner, stray, disturbed>>

-----------------------------------------------------------------------------
(* mc_receiver_init, by the thread of the room. *)
OpenSocket(r) ==
  /\ room[r] = "new"
  /\ \/ /\ \E d \in Lowest(FreeOnes) : owner' = [owner EXCEPT ![d] = Part(r, "sd")]
        /\ Room(r, "socket")
        /\ memory' = [memory EXCEPT ![r] = "live"]
     \/ /\ Room(r, "null") /\ UNCHANGED <<owner, memory>>
  /\ UNCHANGED <<pc, running, writeEnd, bytes, queue, ready, flags>>

Fails(r) ==
  /\ owner' = Closing(r, {"sd"})
  /\ memory' = [memory EXCEPT ![r] = "freed"]
  /\ Room(r, "null")

OpenPipe(r) ==
  /\ room[r] = "socket"
  /\ \/ \E d \in Lowest(FreeOnes), e \in FreeOnes :
          /\ e \in Lowest(FreeOnes \ {d})
          /\ owner' = [owner EXCEPT ![d] = Part(r, "read"), ![e] = Part(r, "write")]
          /\ writeEnd' = [writeEnd EXCEPT ![r] = e]
          /\ Room(r, "pipe")
          /\ UNCHANGED memory
     \/ Fails(r) /\ UNCHANGED writeEnd
  /\ UNCHANGED <<pc, running, bytes, queue, ready, flags>>

(* Binding and joining may fail, when the pipe stays open. If the thread is *)
(* not created, a pthread_t that was never set is detached: that may go     *)
(* unnoticed, and there is a receiver nobody runs, or end the process.      *)
JoinGroup(r) ==
  /\ room[r] = "pipe"
  /\ \/ /\ running' = [running EXCEPT ![r] = TRUE]
        /\ Goto(r, "test") \/ UNCHANGED pc
        /\ Room(r, "open")
        /\ UNCHANGED <<owner, memory>>
     \/ Fails(r) /\ UNCHANGED <<running, pc>>
  /\ UNCHANGED <<writeEnd, bytes, queue, ready, flags>>

JoinFaults(r) == room[r] = "pipe" /\ Dies("thread")

(* The room thread hands over the null that a failing init returned.        *)
UinitFaults(r) == room[r] = "null" /\ Dies("null")

-----------------------------------------------------------------------------
(* mc_receiver_uinit, by the thread of the room. *)

(* write() of the byte to whatever the number d denotes.                    *)
WriteTo(r, d) ==
  \/ \E s \in Receivers :
       /\ owner[d] = Part(s, "write")
       /\ \/ Has(s, "read") /\ bytes' = [bytes EXCEPT ![s] = @ + 1] /\ UNCHANGED fault
          \/ ~Has(s, "read") /\ fault' = "sigpipe" /\ UNCHANGED bytes
       /\ stray' = (stray \/ s # r)
  \/ owner[d] = Client /\ stray' = TRUE /\ UNCHANGED <<bytes, fault>>
  \/ /\ owner[d] # Client /\ \A s \in Receivers : owner[d] # Part(s, "write")
     /\ UNCHANGED <<bytes, fault, stray>>

(* Mutant of ClearRunning: the byte goes first.                             *)
CancelFirst(r) ==
  /\ room[r] = "open"
  /\ WriteTo(r, writeEnd[r])
  /\ Room(r, "cleared")
  /\ UNCHANGED <<owner, pc, memory, running, writeEnd, queue, ready, disturbed>>

(* First the flag. *)
ClearRunning(r) ==
  /\ room[r] = "open"
  /\ running' = [running EXCEPT ![r] = FALSE]
  /\ Room(r, "cleared")
  /\ UNCHANGED <<owner, pc, memory, writeEnd, bytes, queue, ready, flags>>

(* Mutant of CancelSelect: the flag is held to be enough.                   *)
CancelNothing(r) ==
  /\ room[r] = "cleared"
  /\ Room(r, "done")
  /\ UNCHANGED <<owner, pc, inner, flags>>

(* Then the byte; from freed memory any number may be read.                 *)
CancelSelect(r) ==
  /\ room[r] = "cleared"
  /\ \E d \in Descriptors : /\ memory[r] = "live" => d = writeEnd[r]
                            /\ WriteTo(r, d)
  /\ Room(r, "done")
  /\ UNCHANGED <<owner, pc, memory, running, writeEnd, queue, ready, disturbed>>

-----------------------------------------------------------------------------
(* _recv, the receiving thread. *)
TestRunning(r) ==
  /\ pc[r] = "test"
  /\ Goto(r, IF running[r] THEN "select" ELSE "leave")
  /\ disturbed' = (disturbed \/ room[r] = "cleared")
  /\ UNCHANGED <<owner, room, inner, fault, stray>>

(* FD_SET() of a number that does not fit writes outside read_set.          *)
SetFaults(r) == pc[r] = "test" /\ running[r] /\ ~InSet(r) /\ Dies("bounds")

(* If that goes unnoticed, the number is one select() does not look at.     *)
Waits(r, x) == /\ IF x = "sd" THEN queue[r] > 0 ELSE bytes[r] > 0
               /\ \E d \in Descriptors : owner[d] = Part(r, x) /\ d < FD_SETSIZE

Select(r) ==
  /\ pc[r] = "select"
  /\ \E x \in {"sd", "read"} : Waits(r, x)
  /\ ready' = [ready EXCEPT ![r] = {x \in {"sd", "read"} : Waits(r, x)}]
  /\ Goto(r, "serve")
  /\ UNCHANGED <<owner, room, memory, running, writeEnd, bytes, queue, flags>>

(* The loop asks the descriptors that are ready from the lowest upwards.    *)
Turn(r, x) ==
  /\ pc[r] = "serve" /\ x \in ready[r]
  /\ \E d \in Descriptors :
       /\ owner[d] = Part(r, x)
       /\ \A e \in Descriptors : owner[e] \in {r} \X ready[r] => d <= e

(* Mutant of TakeDatagram: the descriptor stays in the set.                 *)
TakeAgain(r) ==
  /\ Turn(r, "sd")
  /\ queue' = [queue EXCEPT ![r] = @ - 1]
  /\ UNCHANGED <<owner, room, pc, memory, running, writeEnd, bytes, ready, flags>>

(* A thread is started with the datagram; if it cannot be, the datagram is  *)
(* lost and an unset pthread_t detached.                                    *)
TakeDatagram(r) ==
  /\ Turn(r, "sd")
  /\ queue' = [queue EXCEPT ![r] = @ - 1]
  /\ ready' = [ready EXCEPT ![r] = @ \ {"sd"}]
  /\ UNCHANGED <<owner, room, pc, memory, running, writeEnd, bytes, flags>>

TakeFaults(r) == Turn(r, "sd") /\ Dies("thread")

TakeByte(r) ==
  /\ Turn(r, "read")
  /\ bytes' = [bytes EXCEPT ![r] = IF @ > 2 THEN @ - 2 ELSE 0]
  /\ ready' = [ready EXCEPT ![r] = {}]
  /\ Goto(r, "leave")
  /\ UNCHANGED <<owner, room, memory, running, writeEnd, queue, flags>>

(* Mutant of LoopAgain: one round of the loop is all.                       *)
LoopOnce(r) ==
  /\ pc[r] = "serve" /\ ready[r] = {}
  /\ Goto(r, "leave")
  /\ UNCHANGED <<owner, room, inner, flags>>

LoopAgain(r) ==
  /\ pc[r] = "serve" /\ ready[r] = {}
  /\ Goto(r, "test")
  /\ UNCHANGED <<owner, room, inner, flags>>

CloseReading(r) ==
  /\ pc[r] = "leave"
  /\ owner' = Closing(r, {"sd", "read"})
  /\ queue' = [queue EXCEPT ![r] = 0]
  /\ Goto(r, "closing")
  /\ UNCHANGED <<room, memory, running, writeEnd, bytes, ready, flags>>

(* Mutant of CloseWriting: the end that is written to is forgotten.         *)
KeepWriting(r) ==
  /\ pc[r] = "closing"
  /\ Goto(r, "freeing")
  /\ UNCHANGED <<owner, room, inner, flags>>

CloseWriting(r) ==
  /\ pc[r] = "closing"
  /\ owner' = Closing(r, {"write"})
  /\ Goto(r, "freeing")
  /\ UNCHANGED <<room, inner, flags>>

FreeReceiver(r) ==
  /\ pc[r] = "freeing"
  /\ memory' = [memory EXCEPT ![r] = "freed"]
  /\ Goto(r, "ended")
  /\ UNCHANGED <<owner, room, running, writeEnd, bytes, queue, ready, flags>>

-----------------------------------------------------------------------------
(* Datagrams arrive; main accepts and a handler closes a connection (one at *)
(* a time bounds a run).                                                    *)
Arrives(r) ==
  /\ room[r] \in {"open", "cleared", "done"} /\ Has(r, "sd") /\ queue[r] < Waiting
  /\ queue' = [queue EXCEPT ![r] = @ + 1]
  /\ UNCHANGED <<owner, room, pc, memory, running, writeEnd, bytes, ready, flags>>

ClientOpens ==
  /\ \A d \in Descriptors : owner[d] # Client
  /\ \E d \in Lowest(FreeOnes) : owner' = [owner EXCEPT ![d] = Client]
  /\ UNCHANGED <<room, pc, inner, flags>>

ClientCloses ==
  \E d \in Descriptors :
    /\ owner[d] = Client
    /\ owner' = [owner EXCEPT ![d] = Free]
    /\ UNCHANGED <<room, pc, inner, flags>>

RoomThread(r) == \/ OpenSocket(r) \/ OpenPipe(r) \/ JoinGroup(r)
                 \/ JoinFaults(r) \/ UinitFaults(r) \/ CancelSelect(r)

RecvThread(r) == \/ TestRunning(r) \/ Select(r) \/ TakeDatagram(r) \/ TakeByte(r)
                 \/ LoopAgain(r) \/ CloseReading(r) \/ CloseWriting(r)
                 \/ FreeReceiver(r) \/ SetFaults(r) \/ TakeFaults(r)

Alive == fault = "none"

(* A process that has died takes no step. *)
Dead == ~Alive /\ UNCHANGED vars

Next ==
  \/ /\ Alive
     /\ \/ \E r \in Receivers : \/ RoomThread(r) \/ ClearRunning(r)
                                \/ RecvThread(r) \/ Arrives(r)
        \/ ClientOpens \/ ClientCloses
  \/ Dead

(* Threads run; a room need not end and nothing need arrive.                *)
Fairness == \A r \in Receivers : /\ WF_vars(Alive /\ RoomThread(r))
                                 /\ WF_vars(Alive /\ RecvThread(r))

Spec == Init /\ [][Next]_vars /\ Fairness

-----------------------------------------------------------------------------
(* Every variable keeps its type; in particular a descriptor is closed only *)
(* by its owner and given out only when it is free.                         *)
TypeOK ==
  /\ owner \in [Descriptors -> Parts \cup {Free, Client}]
  /\ \A d, e \in Descriptors : owner[d] = owner[e] /\ d # e => owner[d] \in {Free, Client}
  /\ room \in [Receivers -> {"new", "socket", "pipe", "open", "null", "cleared", "done"}]
  /\ pc \in [Receivers -> {"none", "test", "select", "serve", "leave", "closing",
                           "freeing", "ended"}]
  /\ memory \in [Receivers -> {"none", "live", "freed"}]
  /\ running \in [Receivers -> BOOLEAN]
  /\ writeEnd \in [Receivers -> Descriptors \cup {0}]
  /\ bytes \in [Receivers -> Nat]
  /\ queue \in [Receivers -> Nat]
  /\ ready \in [Receivers -> SUBSET {"sd", "read"}]
  /\ fault \in {"none", "null", "sigpipe", "thread", "bounds"}
  /\ stray \in BOOLEAN /\ disturbed \in BOOLEAN

(* The byte is written into the receiver's own open pipe, and no freed      *)
(* memory is read for it, unless a receiving thread saw the flag between    *)
(* the two steps of mc_receiver_uinit.                                      *)
ByteArrivesWhenCalm ==
  ~disturbed => /\ ~stray /\ fault # "sigpipe"
                /\ \A r \in Receivers : room[r] = "cleared" =>
                     memory[r] = "live" /\ owner[writeEnd[r]] = Part(r, "write")

(* Until its room ends a receiver that has its thread keeps its socket, its *)
(* pipe and its loop, and if its numbers fit an fd_set each datagram that   *)
(* waits will wake it, whatever other receivers and clients open, close and *)
(* write of their own, unless a thread ended on the flag alone. One whose   *)
(* thread could not be created hears nothing, and nobody notices.           *)
ListensWhenCalm ==
  ~disturbed => \A r \in Receivers :
    room[r] = "open" /\ pc[r] # "none" =>
      /\ Has(r, "sd") /\ Has(r, "read")
      /\ pc[r] \in {"test", "select", "serve"}
      /\ InSet(r) /\ queue[r] > 0 => Waits(r, "sd")

(* A receiver whose thread has ended leaves no descriptor open.             *)
NothingLeftOpen ==
  \A r \in Receivers : pc[r] = "ended" =>
    ~\E d \in Descriptors : owner[d] \in {r} \X {"sd", "read", "write"}

(* A receiver that is told to end, has its thread and numbers select()      *)
(* looks at does so, even while datagrams keep coming and whichever of flag *)
(* and byte its thread meets first.                                         *)
ReceiverEnds ==
  \A r \in Receivers :
    room[r] = "cleared" /\ pc[r] # "none" /\ InSet(r) ~> pc[r] = "ended" \/ ~Alive
=============================================================================
