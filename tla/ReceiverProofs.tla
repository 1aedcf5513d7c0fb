---------------------------- MODULE ReceiverProofs ----------------------------
(* Theorems about Receiver, for every number of receivers and descriptors.  *)
EXTENDS Receiver, TLAPS

-----------------------------------------------------------------------------
(* What is open belongs to a receiver that has got that far: nothing before *)
(* its first step, all three parts from the pipe on until its thread leaves *)
(* the loop, then less and less; the write end is where writeEnd says.      *)
Holds(r) ==
  /\ room[r] \in {"new", "socket", "pipe", "null"} => pc[r] = "none"
  /\ room[r] = "new" => ~Has(r, "sd")
  /\ room[r] \in {"new", "socket"} => ~Has(r, "read") /\ ~Has(r, "write")
  /\ room[r] = "socket" => Has(r, "sd") /\ memory[r] = "live"
  /\ room[r] \in {"pipe", "open", "cleared", "done"}
       /\ pc[r] \in {"none", "test", "select", "serve", "leave"} =>
         /\ Has(r, "sd") /\ Has(r, "read") /\ memory[r] = "live"
         /\ writeEnd[r] \in Descriptors /\ owner[writeEnd[r]] = Part(r, "write")
  /\ pc[r] \in {"closing", "freeing", "ended"} => ~Has(r, "sd") /\ ~Has(r, "read")
  /\ pc[r] \in {"freeing", "ended"} => ~Has(r, "write")
  /\ pc[r] = "serve" /\ "sd" \in ready[r] => queue[r] > 0

Holding == \A r \in Receivers : Holds(r)

(* Undisturbed, no byte is in a pipe before its own room has sent it, and   *)
(* no thread leaves its loop without one.                                   *)
Calm ==
  ~disturbed =>
    /\ ~stray /\ fault # "sigpipe"
    /\ \A r \in Receivers :
         /\ room[r] # "done" => /\ bytes[r] = 0 /\ "read" \notin ready[r]
                                /\ pc[r] \in {"none", "test", "select", "serve"}
         /\ room[r] = "open" => running[r]

-----------------------------------------------------------------------------
(* A receiver whose parts and state a step leaves alone holds what it held. *)
Kept(r) ==
  /\ \A d \in Descriptors, w \in {"sd", "read", "write"} :
       owner'[d] = Part(r, w) <=> owner[d] = Part(r, w)
  /\ room'[r] = room[r] /\ pc'[r] = pc[r] /\ memory'[r] = memory[r]
  /\ writeEnd'[r] = writeEnd[r] /\ ready'[r] = ready[r] /\ queue'[r] = queue[r]

LEMMA KeptHolds == ASSUME NEW r \in Receivers, Holds(r), Kept(r) PROVE Holds(r)'
<1>1. \A w \in {"sd", "read", "write"} : Has(r, w)' <=> Has(r, w)
  BY DEF Kept, Has
<1> QED BY <1>1 DEF Kept, Holds

(* Closing some parts of a receiver takes these from it, and nothing else.  *)
LEMMA ClosingLeaves ==
  ASSUME TypeOK, NEW r \in Receivers, NEW W \in SUBSET {"sd", "read", "write"},
         owner' = Closing(r, W)
  PROVE  /\ owner' \in [Descriptors -> Parts \cup {Free, Client}]
         /\ \A d, e \in Descriptors :
              owner'[d] = owner'[e] /\ d # e => owner'[d] \in {Free, Client}
         /\ \A d \in Descriptors, s \in Receivers, w \in {"sd", "read", "write"} :
              owner'[d] = Part(s, w) <=> owner[d] = Part(s, w) /\ ~(s = r /\ w \in W)
<1> USE ReceiverAssumption
<1>1. \A d \in Descriptors : owner'[d] = IF owner[d] \in {r} \X W THEN Free ELSE owner[d]
  BY DEF Closing
<1>2. owner' \in [Descriptors -> Parts \cup {Free, Client}]
  BY <1>1 DEF Closing, TypeOK
<1>3. \A d, e \in Descriptors :
        owner'[d] = owner'[e] /\ d # e => owner'[d] \in {Free, Client}
  BY <1>1 DEF TypeOK
<1>4. \A s \in Receivers, w \in {"sd", "read", "write"} : Part(s, w) # Free
  BY DEF Part, Parts
<1>5. \A s \in Receivers, w \in {"sd", "read", "write"} :
        Part(s, w) \in {r} \X W <=> s = r /\ w \in W
  BY DEF Part
<1>6. ASSUME NEW d \in Descriptors, NEW s \in Receivers, NEW w \in {"sd", "read", "write"}
      PROVE  owner'[d] = Part(s, w) <=> owner[d] = Part(s, w) /\ ~(s = r /\ w \in W)
  BY <1>1, <1>4, <1>5
<1> QED BY <1>2, <1>3, <1>6

(* Giving out a free descriptor adds this part and nothing else.            *)
LEMMA OpeningAdds ==
  ASSUME TypeOK, NEW r \in Receivers, NEW w \in {"sd", "read", "write"}, ~Has(r, w),
         NEW d \in Descriptors, owner[d] = Free
  PROVE  LET new == [owner EXCEPT ![d] = Part(r, w)] IN
         /\ new \in [Descriptors -> Parts \cup {Free, Client}]
         /\ \A x, y \in Descriptors : new[x] = new[y] /\ x # y => new[x] \in {Free, Client}
         /\ \A x \in Descriptors, s \in Receivers, v \in {"sd", "read", "write"} :
              new[x] = Part(s, v) <=>
                owner[x] = Part(s, v) \/ (x = d /\ s = r /\ v = w)
<1> USE ReceiverAssumption
<1> DEFINE new == [owner EXCEPT ![d] = Part(r, w)]
<1>1. \A x \in Descriptors : new[x] = IF x = d THEN Part(r, w) ELSE owner[x]
  BY DEF TypeOK
<1>2. Part(r, w) \in Parts
  BY DEF Part, Parts
<1>3. new \in [Descriptors -> Parts \cup {Free, Client}]
  BY <1>2 DEF TypeOK
<1>4. \A x, y \in Descriptors : new[x] = new[y] /\ x # y => new[x] \in {Free, Client}
  BY <1>1 DEF TypeOK, Has
<1>5. ASSUME NEW s \in Receivers, NEW v \in {"sd", "read", "write"}
      PROVE  Part(s, v) # Free /\ (Part(s, v) = Part(r, w) <=> s = r /\ v = w)
  BY DEF Part, Parts
<1>6. ASSUME NEW x \in Descriptors, NEW s \in Receivers, NEW v \in {"sd", "read", "write"}
      PROVE  new[x] = Part(s, v) <=> owner[x] = Part(s, v) \/ (x = d /\ s = r /\ v = w)
  BY <1>1, <1>5
<1> QED BY <1>3, <1>4, <1>6

(* Two free numbers have become the ends of a pipe, and nothing else.       *)
PipeOpened(r, d, e) ==
  /\ owner' \in [Descriptors -> Parts \cup {Free, Client}]
  /\ \A x, y \in Descriptors :
       owner'[x] = owner'[y] /\ x # y => owner'[x] \in {Free, Client}
  /\ owner'[d] = Part(r, "read") /\ owner'[e] = Part(r, "write")
  /\ \A x \in Descriptors : owner'[x] = Part(r, "sd") <=> owner[x] = Part(r, "sd")
  /\ \A x \in Descriptors, s \in Receivers \ {r}, v \in {"sd", "read", "write"} :
       owner'[x] = Part(s, v) <=> owner[x] = Part(s, v)

LEMMA PipeAdds ==
  ASSUME TypeOK, NEW r \in Receivers, ~Has(r, "read"), ~Has(r, "write"),
         NEW d \in Descriptors, NEW e \in Descriptors,
         owner[d] = Free, owner[e] = Free, d # e,
         owner' = [owner EXCEPT ![d] = Part(r, "read"), ![e] = Part(r, "write")]
  PROVE  PipeOpened(r, d, e)
<1> USE ReceiverAssumption
<1>1. \A x \in Descriptors : owner'[x] = IF x = d THEN Part(r, "read")
                                         ELSE IF x = e THEN Part(r, "write") ELSE owner[x]
  BY DEF TypeOK
<1>2. {Part(r, "read"), Part(r, "write")} \subseteq Parts /\ Part(r, "read") # Part(r, "write")
  BY DEF Part, Parts
<1>3. owner' \in [Descriptors -> Parts \cup {Free, Client}]
  BY <1>2 DEF TypeOK
<1>4. \A x, y \in Descriptors :
        owner'[x] = owner'[y] /\ x # y => owner'[x] \in {Free, Client}
  BY <1>1, <1>2 DEF TypeOK, Has
<1>5. Part(r, "sd") \notin {Free, Part(r, "read"), Part(r, "write")}
  BY DEF Part, Parts
<1>6. \A x \in Descriptors : owner'[x] = Part(r, "sd") <=> owner[x] = Part(r, "sd")
  BY <1>1, <1>5
<1>7. ASSUME NEW s \in Receivers \ {r}, NEW v \in {"sd", "read", "write"}
      PROVE  Part(s, v) \notin {Free, Part(r, "read"), Part(r, "write")}
  BY DEF Part, Parts
<1>8. \A x \in Descriptors, s \in Receivers \ {r}, v \in {"sd", "read", "write"} :
        owner'[x] = Part(s, v) <=> owner[x] = Part(s, v)
  BY <1>1, <1>7
<1> QED BY <1>1, <1>2, <1>3, <1>4, <1>6, <1>8 DEF PipeOpened

(* Opening or closing a connection leaves every part where it is.           *)
LEMMA ClientKeeps ==
  ASSUME TypeOK, NEW d \in Descriptors, NEW x \in {Free, Client}, owner[d] \in {Free, Client},
         owner' = [owner EXCEPT ![d] = x]
  PROVE  /\ owner' \in [Descriptors -> Parts \cup {Free, Client}]
         /\ \A a, b \in Descriptors :
              owner'[a] = owner'[b] /\ a # b => owner'[a] \in {Free, Client}
         /\ \A a \in Descriptors, s \in Receivers, v \in {"sd", "read", "write"} :
              owner'[a] = Part(s, v) <=> owner[a] = Part(s, v)
<1> USE ReceiverAssumption
<1>1. \A a \in Descriptors : owner'[a] = IF a = d THEN x ELSE owner[a]
  BY DEF TypeOK
<1>2. owner' \in [Descriptors -> Parts \cup {Free, Client}]
  BY DEF TypeOK
<1>3. \A a, b \in Descriptors :
        owner'[a] = owner'[b] /\ a # b => owner'[a] \in {Free, Client}
  BY <1>1 DEF TypeOK
<1>4. ASSUME NEW s \in Receivers, NEW v \in {"sd", "read", "write"}
      PROVE  Part(s, v) \notin {Free, Client}
  BY DEF Part, Parts
<1>5. ASSUME NEW a \in Descriptors, NEW s \in Receivers, NEW v \in {"sd", "read", "write"}
      PROVE  owner'[a] = Part(s, v) <=> owner[a] = Part(s, v)
  BY <1>1, <1>4
<1> QED BY <1>2, <1>3, <1>5

-----------------------------------------------------------------------------
(* Every step of Receiver keeps the types. *)
LEMMA TypeStep == ASSUME TypeOK, Holding, [Next]_vars PROVE TypeOK'
<1> USE ReceiverAssumption
<1> USE DEF inner, flags, Room, Goto
<1>1. ASSUME NEW r \in Receivers, OpenSocket(r) PROVE TypeOK'
  <2>1. ~Has(r, "sd")
    BY <1>1 DEF OpenSocket, Holding, Holds
  <2>2. CASE \E d \in Lowest(FreeOnes) : owner' = [owner EXCEPT ![d] = Part(r, "sd")]
    <3>1. PICK d \in Descriptors : owner[d] = Free /\ owner' = [owner EXCEPT ![d] = Part(r, "sd")]
      BY <2>2 DEF Lowest, FreeOnes
    <3>2. /\ owner' \in [Descriptors -> Parts \cup {Free, Client}]
          /\ \A x, y \in Descriptors :
               owner'[x] = owner'[y] /\ x # y => owner'[x] \in {Free, Client}
      BY <2>1, <3>1, OpeningAdds
    <3> QED BY <1>1, <3>2 DEF OpenSocket, TypeOK
  <2>3. CASE UNCHANGED owner
    BY <1>1, <2>3 DEF OpenSocket, TypeOK
  <2> QED BY <1>1, <2>2, <2>3 DEF OpenSocket
<1>2. ASSUME NEW r \in Receivers, OpenPipe(r) PROVE TypeOK'
  <2>1. ~Has(r, "read") /\ ~Has(r, "write")
    BY <1>2 DEF OpenPipe, Holding, Holds
  <2>2. CASE Fails(r)
    <3>1. /\ owner' \in [Descriptors -> Parts \cup {Free, Client}]
          /\ \A x, y \in Descriptors :
               owner'[x] = owner'[y] /\ x # y => owner'[x] \in {Free, Client}
      BY <2>2, ClosingLeaves DEF Fails
    <3> QED BY <1>2, <2>2, <3>1 DEF OpenPipe, Fails, TypeOK
  <2>3. CASE ~Fails(r)
    <3>1. PICK d \in Descriptors, e \in Descriptors :
            /\ owner[d] = Free /\ owner[e] = Free /\ d # e
            /\ owner' = [owner EXCEPT ![d] = Part(r, "read"), ![e] = Part(r, "write")]
            /\ writeEnd' = [writeEnd EXCEPT ![r] = e]
      BY <1>2, <2>3 DEF OpenPipe, Lowest, FreeOnes
    <3>2. /\ owner' \in [Descriptors -> Parts \cup {Free, Client}]
          /\ \A x, y \in Descriptors :
               owner'[x] = owner'[y] /\ x # y => owner'[x] \in {Free, Client}
      <4>1. PipeOpened(r, d, e)
        BY <2>1, <3>1, PipeAdds
      <4> QED BY <4>1 DEF PipeOpened
    <3> QED BY <1>2, <2>3, <3>1, <3>2 DEF OpenPipe, TypeOK
  <2> QED BY <2>2, <2>3
<1>3. ASSUME NEW r \in Receivers, JoinGroup(r) PROVE TypeOK'
  <2>1. CASE Fails(r)
    <3>1. /\ owner' \in [Descriptors -> Parts \cup {Free, Client}]
          /\ \A x, y \in Descriptors :
               owner'[x] = owner'[y] /\ x # y => owner'[x] \in {Free, Client}
      BY <2>1, ClosingLeaves DEF Fails
    <3> QED BY <1>3, <2>1, <3>1 DEF JoinGroup, Fails, TypeOK
  <2>2. CASE ~Fails(r)
    BY <1>3, <2>2 DEF JoinGroup, TypeOK
  <2> QED BY <2>1, <2>2
<1>4. ASSUME NEW why \in {"null", "thread", "bounds"}, Dies(why) PROVE TypeOK'
  BY <1>4 DEF Dies, TypeOK
<1>5. ASSUME NEW r \in Receivers, CancelSelect(r) PROVE TypeOK'
  <2>1. PICK d \in Descriptors : WriteTo(r, d)
    BY <1>5 DEF CancelSelect
  <2>2. /\ bytes' \in [Receivers -> Nat] /\ fault' \in {"none", "null", "sigpipe", "thread", "bounds"}
        /\ stray' \in BOOLEAN
    <3>1. bytes' \in [Receivers -> Nat]
      BY <2>1 DEF WriteTo, TypeOK
    <3>2. fault' \in {"none", "null", "sigpipe", "thread", "bounds"}
      BY <2>1 DEF WriteTo, TypeOK
    <3>3. stray' \in BOOLEAN
      BY <2>1, Zenon DEF WriteTo, TypeOK
    <3> QED BY <3>1, <3>2, <3>3
  <2> QED BY <1>5, <2>2 DEF CancelSelect, TypeOK
<1>6. ASSUME NEW r \in Receivers, ClearRunning(r) PROVE TypeOK'
  BY <1>6 DEF ClearRunning, TypeOK
<1>7. ASSUME NEW r \in Receivers, TestRunning(r) PROVE TypeOK'
  BY <1>7 DEF TestRunning, TypeOK
<1>8. ASSUME NEW r \in Receivers, Select(r) PROVE TypeOK'
  <2>1. ready' = [ready EXCEPT ![r] = {x \in {"sd", "read"} : Waits(r, x)}]
    BY <1>8 DEF Select
  <2>2. ready' \in [Receivers -> SUBSET {"sd", "read"}]
    BY <2>1 DEF TypeOK
  <2> QED BY <1>8, <2>2 DEF Select, TypeOK
<1>9. ASSUME NEW r \in Receivers, TakeDatagram(r) PROVE TypeOK'
  <2>1. queue[r] > 0
    BY <1>9 DEF TakeDatagram, Turn, Holding, Holds
  <2> QED BY <1>9, <2>1 DEF TakeDatagram, TypeOK
<1>10. ASSUME NEW r \in Receivers, TakeByte(r) PROVE TypeOK'
  BY <1>10 DEF TakeByte, TypeOK
<1>11. ASSUME NEW r \in Receivers, LoopAgain(r) PROVE TypeOK'
  BY <1>11 DEF LoopAgain, TypeOK
<1>12. ASSUME NEW r \in Receivers, CloseReading(r) PROVE TypeOK'
  <2>1. /\ owner' \in [Descriptors -> Parts \cup {Free, Client}]
        /\ \A x, y \in Descriptors :
             owner'[x] = owner'[y] /\ x # y => owner'[x] \in {Free, Client}
    BY <1>12, ClosingLeaves DEF CloseReading
  <2> QED BY <1>12, <2>1 DEF CloseReading, TypeOK
<1>13. ASSUME NEW r \in Receivers, CloseWriting(r) PROVE TypeOK'
  <2>1. /\ owner' \in [Descriptors -> Parts \cup {Free, Client}]
        /\ \A x, y \in Descriptors :
             owner'[x] = owner'[y] /\ x # y => owner'[x] \in {Free, Client}
    BY <1>13, ClosingLeaves DEF CloseWriting
  <2> QED BY <1>13, <2>1 DEF CloseWriting, TypeOK
<1>14. ASSUME NEW r \in Receivers, FreeReceiver(r) PROVE TypeOK'
  BY <1>14 DEF FreeReceiver, TypeOK
<1>15. ASSUME NEW r \in Receivers, Arrives(r) PROVE TypeOK'
  BY <1>15 DEF Arrives, TypeOK
<1>16. ASSUME ClientOpens PROVE TypeOK'
  <2>1. PICK d \in Descriptors : owner[d] = Free /\ owner' = [owner EXCEPT ![d] = Client]
    BY <1>16 DEF ClientOpens, Lowest, FreeOnes
  <2>2. /\ owner' \in [Descriptors -> Parts \cup {Free, Client}]
        /\ \A x, y \in Descriptors :
             owner'[x] = owner'[y] /\ x # y => owner'[x] \in {Free, Client}
    BY <2>1, ClientKeeps
  <2> QED BY <1>16, <2>2 DEF ClientOpens, TypeOK
<1>17. ASSUME ClientCloses PROVE TypeOK'
  <2>1. PICK d \in Descriptors : owner[d] = Client /\ owner' = [owner EXCEPT ![d] = Free]
    BY <1>17 DEF ClientCloses
  <2>2. /\ owner' \in [Descriptors -> Parts \cup {Free, Client}]
        /\ \A x, y \in Descriptors :
             owner'[x] = owner'[y] /\ x # y => owner'[x] \in {Free, Client}
    BY <2>1, ClientKeeps
  <2> QED BY <1>17, <2>2 DEF ClientCloses, TypeOK
<1>18. CASE UNCHANGED vars
  BY <1>18 DEF vars, TypeOK
<1> QED
  BY <1>1, <1>2, <1>3, <1>4, <1>5, <1>6, <1>7, <1>8, <1>9, <1>10, <1>11, <1>12, <1>13,
     <1>14, <1>15, <1>16, <1>17, <1>18
  DEF Next, Dead, RoomThread, RecvThread, UinitFaults, JoinFaults, SetFaults, TakeFaults

(* And what the receivers hold.                                             *)
LEMMA HoldingStep == ASSUME TypeOK, Holding, [Next]_vars PROVE Holding'
<1> USE ReceiverAssumption
<1> USE DEF inner, flags, Room, Goto
<1>0. \A s \in Receivers : Holds(s) /\ (Kept(s) => Holds(s)')
  BY KeptHolds DEF Holding
<1>1. ASSUME NEW r \in Receivers, OpenSocket(r) PROVE Holding'
  <2>1. CASE \E d \in Lowest(FreeOnes) : owner' = [owner EXCEPT ![d] = Part(r, "sd")]
    <3>1. PICK d \in Descriptors : owner[d] = Free /\ owner' = [owner EXCEPT ![d] = Part(r, "sd")]
      BY <2>1 DEF Lowest, FreeOnes
    <3>2. /\ room[r] = "new" /\ pc[r] = "none"
          /\ ~Has(r, "sd") /\ ~Has(r, "read") /\ ~Has(r, "write")
      BY <1>0, <1>1 DEF OpenSocket, Holds
    <3>3. \A x \in Descriptors, s \in Receivers, v \in {"sd", "read", "write"} :
            owner'[x] = Part(s, v) <=> owner[x] = Part(s, v) \/ (x = d /\ s = r /\ v = "sd")
      BY <3>1, <3>2, OpeningAdds
    <3>4. ASSUME NEW s \in Receivers, s # r PROVE Kept(s)
      BY <1>1, <3>3, <3>4 DEF OpenSocket, Kept, TypeOK
    <3>5. Has(r, "sd")' /\ ~Has(r, "read")' /\ ~Has(r, "write")'
      BY <3>2, <3>3 DEF Has
    <3>6. Holds(r)'
      BY <1>1, <3>1, <3>2, <3>5 DEF OpenSocket, Holds, TypeOK, Part, Parts
    <3> QED BY <1>0, <3>4, <3>6 DEF Holding
  <2>2. CASE Room(r, "null") /\ UNCHANGED <<owner, memory>>
    <3>1. ASSUME NEW s \in Receivers, s # r PROVE Kept(s)
      BY <1>1, <2>2, <3>1 DEF OpenSocket, Kept, TypeOK
    <3>2. Holds(r)'
      BY <1>0, <1>1, <2>2 DEF OpenSocket, Holds, TypeOK
    <3> QED BY <1>0, <3>1, <3>2 DEF Holding
  <2> QED BY <1>1, <2>1, <2>2 DEF OpenSocket
<1>2. ASSUME NEW r \in Receivers, OpenPipe(r) PROVE Holding'
  <2>1. /\ room[r] = "socket" /\ pc[r] = "none" /\ Has(r, "sd") /\ memory[r] = "live"
        /\ ~Has(r, "read") /\ ~Has(r, "write")
    BY <1>0, <1>2 DEF OpenPipe, Holds
  <2>2. CASE Fails(r) /\ UNCHANGED writeEnd
    <3>1. \A x \in Descriptors, s \in Receivers, v \in {"sd", "read", "write"} :
            owner'[x] = Part(s, v) <=> owner[x] = Part(s, v) /\ ~(s = r /\ v \in {"sd"})
      BY <2>2, ClosingLeaves DEF Fails
    <3>2. ASSUME NEW s \in Receivers, s # r PROVE Kept(s)
      BY <1>2, <2>2, <3>1, <3>2 DEF OpenPipe, Fails, Kept, TypeOK
    <3>3. Holds(r)'
      BY <1>2, <2>1, <2>2 DEF OpenPipe, Fails, Holds, TypeOK
    <3> QED BY <1>0, <3>2, <3>3 DEF Holding
  <2>3. CASE ~(Fails(r) /\ UNCHANGED writeEnd)
    <3>1. PICK d \in Descriptors, e \in Descriptors :
            /\ owner[d] = Free /\ owner[e] = Free /\ d # e
            /\ owner' = [owner EXCEPT ![d] = Part(r, "read"), ![e] = Part(r, "write")]
            /\ writeEnd' = [writeEnd EXCEPT ![r] = e]
      BY <1>2, <2>3 DEF OpenPipe, Lowest, FreeOnes
    <3>2. /\ owner' \in [Descriptors -> Parts \cup {Free, Client}]
          /\ \A x, y \in Descriptors :
               owner'[x] = owner'[y] /\ x # y => owner'[x] \in {Free, Client}
          /\ owner'[d] = Part(r, "read") /\ owner'[e] = Part(r, "write")
          /\ \A x \in Descriptors : owner'[x] = Part(r, "sd") <=> owner[x] = Part(r, "sd")
          /\ \A x \in Descriptors, s \in Receivers \ {r}, v \in {"sd", "read", "write"} :
               owner'[x] = Part(s, v) <=> owner[x] = Part(s, v)
      <4>1. ~Has(r, "read") /\ ~Has(r, "write")
        BY <2>1
      <4>2. PipeOpened(r, d, e)
        BY <3>1, <4>1, PipeAdds
      <4> QED BY <4>2 DEF PipeOpened
    <3>3. room' = [room EXCEPT ![r] = "pipe"] /\ UNCHANGED <<pc, memory, queue, ready>>
      BY <1>2, <2>3 DEF OpenPipe
    <3>4. ASSUME NEW s \in Receivers, s # r PROVE Kept(s)
      BY <3>1, <3>2, <3>3, <3>4 DEF Kept, TypeOK
    <3>5. Has(r, "sd")' /\ Has(r, "read")'
      BY <2>1, <3>2 DEF Has
    <3>6. writeEnd'[r] = e
      BY <3>1 DEF TypeOK
    <3>7. Holds(r)'
      BY <2>1, <3>2, <3>3, <3>5, <3>6 DEF Holds, TypeOK
    <3> QED BY <1>0, <3>4, <3>7 DEF Holding
  <2> QED BY <2>2, <2>3
<1>3. ASSUME NEW r \in Receivers, JoinGroup(r) PROVE Holding'
  <2>1. room[r] = "pipe" /\ pc[r] = "none"
    BY <1>0, <1>3 DEF JoinGroup, Holds
  <2>2. CASE Fails(r)
    <3>1. \A x \in Descriptors, s \in Receivers, v \in {"sd", "read", "write"} :
            owner'[x] = Part(s, v) <=> owner[x] = Part(s, v) /\ ~(s = r /\ v \in {"sd"})
      BY <2>2, ClosingLeaves DEF Fails
    <3>2. ASSUME NEW s \in Receivers, s # r PROVE Kept(s)
      BY <1>3, <2>2, <3>1, <3>2 DEF JoinGroup, Fails, Kept, TypeOK
    <3>3. Holds(r)'
      BY <1>3, <2>1, <2>2 DEF JoinGroup, Fails, Holds, TypeOK
    <3> QED BY <1>0, <3>2, <3>3 DEF Holding
  <2>3. CASE ~Fails(r)
    <3>1. /\ room' = [room EXCEPT ![r] = "open"]
          /\ pc' = [pc EXCEPT ![r] = "test"] \/ UNCHANGED pc
          /\ UNCHANGED <<owner, memory, writeEnd, queue, ready>>
      BY <1>3, <2>3 DEF JoinGroup
    <3>2. ASSUME NEW s \in Receivers, s # r PROVE Kept(s)
      BY <3>1, <3>2 DEF Kept, TypeOK
    <3>3. Holds(r)'
      BY <1>0, <2>1, <3>1 DEF Holds, Has, TypeOK
    <3> QED BY <1>0, <3>2, <3>3 DEF Holding
  <2> QED BY <2>2, <2>3
<1>4. ASSUME NEW why \in {"null", "thread", "bounds"}, Dies(why) PROVE Holding'
  BY <1>4 DEF Dies, Holding, Holds, Has
<1>5. ASSUME NEW r \in Receivers, CancelSelect(r) PROVE Holding'
  <2>1. ASSUME NEW s \in Receivers, s # r PROVE Kept(s)
    BY <1>5, <2>1 DEF CancelSelect, Kept, TypeOK
  <2>2. Holds(r)'
    BY <1>0, <1>5 DEF CancelSelect, Holds, Has, TypeOK
  <2> QED BY <1>0, <2>1, <2>2 DEF Holding
<1>6. ASSUME NEW r \in Receivers, ClearRunning(r) PROVE Holding'
  <2>1. ASSUME NEW s \in Receivers, s # r PROVE Kept(s)
    BY <1>6, <2>1 DEF ClearRunning, Kept, TypeOK
  <2>2. Holds(r)'
    BY <1>0, <1>6 DEF ClearRunning, Holds, Has, TypeOK
  <2> QED BY <1>0, <2>1, <2>2 DEF Holding
<1>7. ASSUME NEW r \in Receivers, TestRunning(r) PROVE Holding'
  <2>1. ASSUME NEW s \in Receivers, s # r PROVE Kept(s)
    BY <1>7, <2>1 DEF TestRunning, Kept, TypeOK
  <2>2. Holds(r)'
    BY <1>0, <1>7 DEF TestRunning, Holds, Has, TypeOK
  <2> QED BY <1>0, <2>1, <2>2 DEF Holding
<1>8. ASSUME NEW r \in Receivers, Select(r) PROVE Holding'
  <2>1. ASSUME NEW s \in Receivers, s # r PROVE Kept(s)
    BY <1>8, <2>1 DEF Select, Kept, TypeOK
  <2>2. Holds(r)'
    <3>1. "sd" \in ready'[r] => queue[r] > 0
      BY <1>8 DEF Select, Waits, TypeOK
    <3> QED BY <1>0, <1>8, <3>1 DEF Select, Holds, Has, TypeOK
  <2> QED BY <1>0, <2>1, <2>2 DEF Holding
<1>9. ASSUME NEW r \in Receivers, TakeDatagram(r) PROVE Holding'
  <2>1. ASSUME NEW s \in Receivers, s # r PROVE Kept(s)
    BY <1>9, <2>1 DEF TakeDatagram, Kept, TypeOK
  <2>2. Holds(r)'
    BY <1>0, <1>9 DEF TakeDatagram, Turn, Holds, Has, TypeOK
  <2> QED BY <1>0, <2>1, <2>2 DEF Holding
<1>10. ASSUME NEW r \in Receivers, TakeByte(r) PROVE Holding'
  <2>1. ASSUME NEW s \in Receivers, s # r PROVE Kept(s)
    BY <1>10, <2>1 DEF TakeByte, Kept, TypeOK
  <2>2. Holds(r)'
    BY <1>0, <1>10 DEF TakeByte, Turn, Holds, Has, TypeOK
  <2> QED BY <1>0, <2>1, <2>2 DEF Holding
<1>11. ASSUME NEW r \in Receivers, LoopAgain(r) PROVE Holding'
  <2>1. ASSUME NEW s \in Receivers, s # r PROVE Kept(s)
    BY <1>11, <2>1 DEF LoopAgain, Kept, TypeOK
  <2>2. Holds(r)'
    BY <1>0, <1>11 DEF LoopAgain, Holds, Has, TypeOK
  <2> QED BY <1>0, <2>1, <2>2 DEF Holding
<1>12. ASSUME NEW r \in Receivers, CloseReading(r) PROVE Holding'
  <2>1. \A x \in Descriptors, s \in Receivers, v \in {"sd", "read", "write"} :
          owner'[x] = Part(s, v) <=> owner[x] = Part(s, v) /\ ~(s = r /\ v \in {"sd", "read"})
    BY <1>12, ClosingLeaves DEF CloseReading
  <2>2. ASSUME NEW s \in Receivers, s # r PROVE Kept(s)
    BY <1>12, <2>1, <2>2 DEF CloseReading, Kept, TypeOK
  <2>3. Holds(r)'
    BY <1>0, <1>12, <2>1 DEF CloseReading, Holds, Has, TypeOK
  <2> QED BY <1>0, <2>2, <2>3 DEF Holding
<1>13. ASSUME NEW r \in Receivers, CloseWriting(r) PROVE Holding'
  <2>1. \A x \in Descriptors, s \in Receivers, v \in {"sd", "read", "write"} :
          owner'[x] = Part(s, v) <=> owner[x] = Part(s, v) /\ ~(s = r /\ v \in {"write"})
    BY <1>13, ClosingLeaves DEF CloseWriting
  <2>2. ASSUME NEW s \in Receivers, s # r PROVE Kept(s)
    BY <1>13, <2>1, <2>2 DEF CloseWriting, Kept, TypeOK
  <2>3. Holds(r)'
    BY <1>0, <1>13, <2>1 DEF CloseWriting, Holds, Has, TypeOK
  <2> QED BY <1>0, <2>2, <2>3 DEF Holding
<1>14. ASSUME NEW r \in Receivers, FreeReceiver(r) PROVE Holding'
  <2>1. ASSUME NEW s \in Receivers, s # r PROVE Kept(s)
    BY <1>14, <2>1 DEF FreeReceiver, Kept, TypeOK
  <2>2. Holds(r)'
    BY <1>0, <1>14 DEF FreeReceiver, Holds, Has, TypeOK
  <2> QED BY <1>0, <2>1, <2>2 DEF Holding
<1>15. ASSUME NEW r \in Receivers, Arrives(r) PROVE Holding'
  <2>1. ASSUME NEW s \in Receivers, s # r PROVE Kept(s)
    BY <1>15, <2>1 DEF Arrives, Kept, TypeOK
  <2>2. Holds(r)'
    BY <1>0, <1>15 DEF Arrives, Holds, Has, TypeOK
  <2> QED BY <1>0, <2>1, <2>2 DEF Holding
<1>16. ASSUME ClientOpens PROVE Holding'
  <2>1. PICK d \in Descriptors : owner[d] = Free /\ owner' = [owner EXCEPT ![d] = Client]
    BY <1>16 DEF ClientOpens, Lowest, FreeOnes
  <2>2. \A x \in Descriptors, s \in Receivers, v \in {"sd", "read", "write"} :
          owner'[x] = Part(s, v) <=> owner[x] = Part(s, v)
    BY <2>1, ClientKeeps
  <2>3. ASSUME NEW s \in Receivers PROVE Kept(s)
    BY <1>16, <2>2 DEF ClientOpens, Kept
  <2> QED BY <1>0, <2>3 DEF Holding
<1>17. ASSUME ClientCloses PROVE Holding'
  <2>1. PICK d \in Descriptors : owner[d] = Client /\ owner' = [owner EXCEPT ![d] = Free]
    BY <1>17 DEF ClientCloses
  <2>2. \A x \in Descriptors, s \in Receivers, v \in {"sd", "read", "write"} :
          owner'[x] = Part(s, v) <=> owner[x] = Part(s, v)
    BY <2>1, ClientKeeps
  <2>3. ASSUME NEW s \in Receivers PROVE Kept(s)
    BY <1>17, <2>2 DEF ClientCloses, Kept
  <2> QED BY <1>0, <2>3 DEF Holding
<1>18. CASE UNCHANGED vars
  <2>1. ASSUME NEW s \in Receivers PROVE Kept(s)
    BY <1>18 DEF vars, Kept
  <2> QED BY <1>0, <2>1 DEF Holding
<1> QED
  BY <1>1, <1>2, <1>3, <1>4, <1>5, <1>6, <1>7, <1>8, <1>9, <1>10, <1>11, <1>12, <1>13,
     <1>14, <1>15, <1>16, <1>17, <1>18
  DEF Next, Dead, RoomThread, RecvThread, UinitFaults, JoinFaults, SetFaults, TakeFaults

(* And that nothing goes astray.                                            *)
LEMMA CalmStep == ASSUME TypeOK, Holding, Calm, [Next]_vars PROVE Calm'
<1> USE DEF inner, flags, Room, Goto
<1>1. ASSUME NEW r \in Receivers, OpenSocket(r) PROVE Calm'
  BY <1>1 DEF OpenSocket, Calm, Holding, Holds, TypeOK
<1>2. ASSUME NEW r \in Receivers, OpenPipe(r) PROVE Calm'
  BY <1>2 DEF OpenPipe, Fails, Calm, Holding, Holds, TypeOK
<1>3. ASSUME NEW r \in Receivers, JoinGroup(r) PROVE Calm'
  BY <1>3 DEF JoinGroup, Fails, Calm, Holding, Holds, TypeOK
<1>4. ASSUME NEW why \in {"null", "thread", "bounds"}, Dies(why) PROVE Calm'
  BY <1>4 DEF Dies, Calm
<1>5. ASSUME NEW r \in Receivers, CancelSelect(r) PROVE Calm'
  <2> SUFFICES ASSUME ~disturbed PROVE Calm'
    BY <1>5 DEF CancelSelect, Calm
  <2>1. room[r] = "cleared" /\ pc[r] \in {"none", "test", "select", "serve"}
    BY <1>5 DEF CancelSelect, Calm
  <2>2. Has(r, "read") /\ memory[r] = "live" /\ owner[writeEnd[r]] = Part(r, "write")
    BY <2>1 DEF Holding, Holds
  <2>3. WriteTo(r, writeEnd[r])
    BY <1>5, <2>2 DEF CancelSelect
  <2>4. \A s \in Receivers : owner[writeEnd[r]] = Part(s, "write") => s = r
    BY <2>2 DEF Part
  <2>5. owner[writeEnd[r]] # Client
    BY <2>2, ReceiverAssumption DEF Part, Parts
  <2>6. bytes' = [bytes EXCEPT ![r] = @ + 1] /\ UNCHANGED fault /\ stray' = (stray \/ r # r)
    BY <2>2, <2>3, <2>4, <2>5 DEF WriteTo
  <2>7. room' = [room EXCEPT ![r] = "done"] /\ UNCHANGED <<pc, running, ready, disturbed>>
    BY <1>5 DEF CancelSelect
  <2> QED BY <2>6, <2>7 DEF Calm, TypeOK
<1>6. ASSUME NEW r \in Receivers, ClearRunning(r) PROVE Calm'
  BY <1>6 DEF ClearRunning, Calm, Holding, Holds, TypeOK
<1>7. ASSUME NEW r \in Receivers, TestRunning(r) PROVE Calm'
  BY <1>7 DEF TestRunning, Calm, Holding, Holds, TypeOK
<1>8. ASSUME NEW r \in Receivers, Select(r) PROVE Calm'
  BY <1>8 DEF Select, Waits, Calm, Holding, Holds, TypeOK
<1>9. ASSUME NEW r \in Receivers, TakeDatagram(r) PROVE Calm'
  BY <1>9 DEF TakeDatagram, Turn, Calm, Holding, Holds, TypeOK
<1>10. ASSUME NEW r \in Receivers, TakeByte(r) PROVE Calm'
  BY <1>10 DEF TakeByte, Turn, Calm, Holding, Holds, TypeOK
<1>11. ASSUME NEW r \in Receivers, LoopAgain(r) PROVE Calm'
  BY <1>11 DEF LoopAgain, Calm, Holding, Holds, TypeOK
<1>12. ASSUME NEW r \in Receivers, CloseReading(r) PROVE Calm'
  BY <1>12 DEF CloseReading, Calm, Holding, Holds, TypeOK
<1>13. ASSUME NEW r \in Receivers, CloseWriting(r) PROVE Calm'
  BY <1>13 DEF CloseWriting, Calm, Holding, Holds, TypeOK
<1>14. ASSUME NEW r \in Receivers, FreeReceiver(r) PROVE Calm'
  BY <1>14 DEF FreeReceiver, Calm, Holding, Holds, TypeOK
<1>15. ASSUME NEW r \in Receivers, Arrives(r) PROVE Calm'
  BY <1>15 DEF Arrives, Calm, Holding, Holds, TypeOK
<1>16. CASE ClientOpens
  BY <1>16 DEF ClientOpens, Calm
<1>17. CASE ClientCloses
  BY <1>17 DEF ClientCloses, Calm
<1>18. CASE UNCHANGED vars
  BY <1>18 DEF vars, Calm
<1> QED
  BY <1>1, <1>2, <1>3, <1>4, <1>5, <1>6, <1>7, <1>8, <1>9, <1>10, <1>11, <1>12, <1>13,
     <1>14, <1>15, <1>16, <1>17, <1>18
  DEF Next, Dead, RoomThread, RecvThread, UinitFaults, JoinFaults, SetFaults, TakeFaults

LEMMA IInvAlways == Spec => [](TypeOK /\ Holding /\ Calm)
<1>1. Init => TypeOK /\ Holding /\ Calm
  <2>1. Init => \A r \in Receivers, w \in {"sd", "read", "write"} : ~Has(r, w)
    BY ReceiverAssumption DEF Init, Has, Part, Parts
  <2>2. ASSUME Init PROVE TypeOK
    <3>1. owner \in [Descriptors -> Parts \cup {Free, Client}]
      BY <2>2 DEF Init
    <3>2. /\ memory \in [Receivers -> {"none", "live", "freed"}]
          /\ running \in [Receivers -> BOOLEAN]
          /\ writeEnd \in [Receivers -> Descriptors \cup {0}]
          /\ bytes \in [Receivers -> Nat] /\ queue \in [Receivers -> Nat]
          /\ ready \in [Receivers -> SUBSET {"sd", "read"}]
      BY <2>2 DEF Init
    <3> QED BY <2>2, <3>1, <3>2 DEF Init, TypeOK
  <2>3. Init => Holding
    BY <2>1 DEF Init, Holding, Holds
  <2>4. Init => Calm
    BY DEF Init, Calm
  <2> QED BY <2>2, <2>3, <2>4
<1>2. TypeOK /\ Holding /\ Calm /\ [Next]_vars => (TypeOK /\ Holding /\ Calm)'
  BY TypeStep, HoldingStep, CalmStep
<1> QED BY <1>1, <1>2, PTL DEF Spec

-----------------------------------------------------------------------------
(* Every variable keeps its type: a descriptor has one owner, and no more   *)
(* datagrams are taken than have come.                                      *)
THEOREM TypeCorrect == Spec => []TypeOK
BY IInvAlways, PTL

(* The byte that ends a receiver goes to its own open pipe, and no freed    *)
(* memory is read for it, unless a receiving thread saw the flag between    *)
(* the two steps of mc_receiver_uinit: that window is the only danger, for  *)
(* any number of receivers that share the numbers of descriptors.           *)
THEOREM ByteArrivesCorrect == Spec => []ByteArrivesWhenCalm
<1>1. TypeOK /\ Holding /\ Calm => ByteArrivesWhenCalm
  BY DEF Calm, Holding, Holds, ByteArrivesWhenCalm
<1> QED BY <1>1, IInvAlways, PTL

(* Until its room ends a receiver with a thread keeps what it listens with. *)
THEOREM ListensCorrect == Spec => []ListensWhenCalm
<1>1. ASSUME TypeOK, Holding, Calm PROVE ListensWhenCalm
  <2> SUFFICES ASSUME ~disturbed, NEW r \in Receivers, room[r] = "open", pc[r] # "none"
               PROVE  /\ Has(r, "sd") /\ Has(r, "read")
                      /\ pc[r] \in {"test", "select", "serve"}
                      /\ InSet(r) /\ queue[r] > 0 => Waits(r, "sd")
    BY DEF ListensWhenCalm
  <2>1. pc[r] \in {"test", "select", "serve"}
    BY <1>1 DEF Calm
  <2>2. Has(r, "sd") /\ Has(r, "read")
    BY <1>1, <2>1 DEF Holding, Holds
  <2>3. PICK d \in Descriptors : owner[d] = Part(r, "sd")
    BY <2>2 DEF Has
  <2>4. InSet(r) => d < FD_SETSIZE
    BY <2>3 DEF InSet, Part
  <2> QED BY <2>1, <2>2, <2>3, <2>4 DEF Waits
<1> QED BY <1>1, IInvAlways, PTL

(* A receiver whose thread has ended leaves no descriptor open, disturbed   *)
(* or not.                                                                  *)
THEOREM NothingLeftOpenCorrect == Spec => []NothingLeftOpen
<1>1. TypeOK /\ Holding /\ Calm => NothingLeftOpen
  BY DEF Holding, Holds, Has, Part, NothingLeftOpen
<1> QED BY <1>1, IInvAlways, PTL
=============================================================================
