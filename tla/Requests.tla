------------------------------ MODULE Requests ------------------------------
(***************************************************************************)
(* The loop of handle_client.c for one connection: it takes what one       *)
(* read() returns for one request. TCP keeps no such border: a request may *)
(* come in several reads, and one read may return several requests. The    *)
(* answers go out with send(), also when the app has gone.                 *)
(*                                                                         *)
(* A text is cut into a few pieces, the first of which holds its opening   *)
(* brace and the last its closing one; a read returns any number of them.  *)
(* What a request does to users and rooms is the subject of other modules. *)
(***************************************************************************)
EXTENDS Integers, Sequences, SequencesExt

CONSTANTS
  MaxRequests,  (* requests the app sends in all (bounds a run)             *)
  BufferSize    (* pieces that fit into buffer[1024]                        *)

ASSUME RequestsAssumption == MaxRequests \in Nat /\ BufferSize \in Nat \ {0}

VARIABLES
  sent,      (* the types of the requests the app has sent                  *)
  zero,      (* the app ends each text with the zero byte of its string     *)
  stream,    (* pieces under way from the app to the handler                *)
  conn,      (* the connection, as the kernel has it                        *)
  loop,      (* the handler's loop is on, or over                           *)
  signedIn,  (* the client's username is not Anonymous                      *)
  due,       (* answers the handler is about to send                        *)
  given,     (* history: all answers of the handler, sent or due            *)
  fault,     (* none, or the signal that has ended the process              *)
  torn,      (* history: a read returned other than one whole request       *)
  eager,     (* history: a request was sent before the last one was done    *)
  twofold    (* history: one request was given two answers                  *)

handlerVars == <<loop, signedIn, due, given, torn, twofold>>
vars == <<sent, zero, stream, conn, handlerVars, fault, eager>>

(* SIGN_IN stands for all requests with one answer: the others are read as  *)
(* one that is refused, or (SIGN_UP) as one that is not. LONG is a request, *)
(* of any of these kinds, that the buffer cannot hold.                      *)
Types == {"PING", "SIGN_IN", "NEW_ROOM", "UNKNOWN", "LONG"}

Init ==
  /\ sent = <<>>
  /\ zero \in BOOLEAN
  /\ stream = <<>>
  /\ conn = "open"
  /\ loop = "on"
  /\ signedIn = FALSE
  /\ due = 0
  /\ given = <<>>
  /\ fault = "none"
  /\ torn = FALSE /\ eager = FALSE /\ twofold = FALSE

Text(type) == CASE type = "PING" -> <<"PI", "NG">>
                [] type = "LONG" -> <<"{">> \o [i \in 1 .. BufferSize - 1 |-> "-"] \o <<"}">>
                [] OTHER -> <<"{", "}">>

Message(n, type) ==
  LET text == Text(type) \o IF zero THEN <<"0">> ELSE <<>>
  IN [i \in DOMAIN text |-> [of |-> n, text |-> text[i]]]

-----------------------------------------------------------------------------
(* The app and the kernel (external). *)
Send(type) ==
  /\ conn = "open" /\ Len(sent) < MaxRequests
  /\ sent' = Append(sent, type)
  /\ stream' = stream \o Message(Len(sent) + 1, type)
  /\ eager' = (eager \/ stream # <<>> \/ due > 0)
  /\ UNCHANGED <<zero, conn, handlerVars, fault>>

(* The app closes its end. If it had answers unread its kernel resets the   *)
(* connection at once, and what was under way may be lost.                  *)
AppCloses ==
  /\ conn = "open"
  /\ \/ conn' = "closed" /\ UNCHANGED stream
     \/ /\ Len(given) > due
        /\ conn' = "reset"
        /\ \E k \in 0 .. Len(stream) : stream' = SubSeq(stream, 1, k)
  /\ UNCHANGED <<sent, zero, handlerVars, fault, eager>>

(* The app's kernel has refused what came after the end. *)
Refused ==
  /\ conn = "refusing"
  /\ conn' = "broken"
  /\ UNCHANGED <<sent, zero, stream, handlerVars, fault, eager>>

-----------------------------------------------------------------------------
(* Mutant of UpToZero: the length is n, not strlen(buffer).                 *)
UpToEnd(b) == b

(* What strlen(), strcmp() and the parser see of the buffer.                *)
UpToZero(b) ==
  LET z == SelectInSeq(b, LAMBDA p : p.text = "0")
  IN IF z = 0 THEN b ELSE SubSeq(b, 1, z - 1)

IsPing(t) == Len(t) = 2 /\ t[1].text = "PI" /\ t[2].text = "NG"

(* The text begins with a whole request, and ends in a brace; a piece that  *)
(* ends within a text may end in a brace too. The parser takes the first    *)
(* object and leaves what follows it.                                       *)
BeginsWhole(t) ==
  /\ t # <<>> /\ t[1].text = "{"
  /\ \E i \in DOMAIN t : t[i].text = "}" /\ t[i].of = t[1].of
MayEndInBrace(t) == t[Len(t)].text \in {"{", "-", "}"}
EndsInBrace(t) == t[Len(t)].text = "}"

(* Mutant of Answer: the answers given before are sent again. *)
AnswerAll(n, whats) ==
  /\ given' = given \o [i \in DOMAIN whats |-> [of |-> n, what |-> whats[i]]]
  /\ due' = Len(given')
  /\ twofold' = (twofold \/ Len(whats) > 1)

Answer(n, whats) ==
  /\ given' = given \o [i \in DOMAIN whats |-> [of |-> n, what |-> whats[i]]]
  /\ due' = Len(whats)
  /\ twofold' = (twofold \/ Len(whats) > 1)

(* Mutant of Invalid: the error is not sent. *)
InvalidUnsaid(n) == Answer(n, <<>>)

Invalid(n) == Answer(n, <<"Invalid JSON">>)

(* One request: each type sends one answer, but for NEW_ROOM of a client    *)
(* that is not signed in, and for a type the loop does not know.            *)
Serve(n) ==
  \/ /\ sent[n] = "SIGN_IN"
     /\ Answer(n, <<"done">>)
     /\ signedIn' \in {signedIn, TRUE}
  \/ /\ sent[n] = "NEW_ROOM"
     /\ Answer(n, IF signedIn THEN <<"done">> ELSE <<"not signed in", "done">>)
     /\ UNCHANGED signedIn
  \/ /\ sent[n] = "UNKNOWN"
     /\ Answer(n, <<>>)
     /\ UNCHANGED signedIn

(* What the loop makes of the text of one read. *)
Handle(t) ==
  \/ /\ t = <<>>
     /\ due' = 0 /\ UNCHANGED <<signedIn, given, twofold>>
  \/ /\ IsPing(t)
     /\ Answer(t[1].of, <<"PONG">>) /\ UNCHANGED signedIn
  \/ /\ BeginsWhole(t) /\ MayEndInBrace(t)
     /\ Serve(t[1].of)
  \/ /\ t # <<>> /\ ~IsPing(t)
     /\ ~BeginsWhole(t) \/ ~EndsInBrace(t)
     /\ Invalid(t[1].of) /\ UNCHANGED signedIn

(* bzero(), then read() > 0. *)
Read(k) ==
  /\ loop = "on" /\ due = 0
  /\ k \in 1 .. Len(stream) /\ k <= BufferSize
  /\ LET b == SubSeq(stream, 1, k) IN
     /\ torn' = (torn \/ ~\E n \in DOMAIN sent : b = Message(n, sent[n]))
     /\ Handle(UpToZero(b))
  /\ stream' = SubSeq(stream, k + 1, Len(stream))
  /\ UNCHANGED <<sent, zero, conn, loop, fault, eager>>

(* read() < 0: the error of a reset connection is reported once. *)
ReadError ==
  /\ loop = "on" /\ due = 0 /\ stream = <<>> /\ conn = "reset"
  /\ conn' = "broken"
  /\ UNCHANGED <<sent, zero, stream, handlerVars, fault, eager>>

(* Mutant of EndOfFile: the loop goes on, as after an error. *)
EndOfFileIgnored ==
  /\ loop = "on" /\ due = 0 /\ stream = <<>>
  /\ conn \in {"closed", "refusing", "broken"}
  /\ UNCHANGED vars

(* read() = 0: the handler leaves the loop (see ClientTable) and closes. *)
EndOfFile ==
  /\ loop = "on" /\ due = 0 /\ stream = <<>>
  /\ conn \in {"closed", "refusing", "broken"}
  /\ loop' = "over"
  /\ UNCHANGED <<sent, zero, stream, conn, signedIn, due, given, torn, twofold,
                 fault, eager>>

(* Mutant of SendAnswer: what was not sent is tried again. *)
SendAgain ==
  /\ loop = "on" /\ due > 0
  /\ \/ conn = "open" /\ due' = due - 1 /\ UNCHANGED <<conn, fault>>
     \/ /\ conn \in {"closed", "refusing"} /\ conn' = "refusing"
        /\ due' = due - 1 /\ UNCHANGED fault
     \/ conn = "reset" /\ conn' = "broken" /\ UNCHANGED <<due, fault>>
     \/ conn = "broken" /\ fault' = "SIGPIPE" /\ UNCHANGED <<conn, due>>
  /\ UNCHANGED <<sent, zero, stream, loop, signedIn, given, torn, twofold, eager>>

(* send(): its result is not looked at. After the app's end it is refused, *)
(* the next one fails, and one after that raises SIGPIPE, which the        *)
(* program neither handles nor ignores.                                    *)
SendAnswer ==
  /\ loop = "on" /\ due > 0
  /\ \/ conn = "open" /\ UNCHANGED <<conn, fault>>
     \/ conn \in {"closed", "refusing"} /\ conn' = "refusing" /\ UNCHANGED fault
     \/ conn = "reset" /\ conn' = "broken" /\ UNCHANGED fault
     \/ conn = "broken" /\ fault' = "SIGPIPE" /\ UNCHANGED conn
  /\ due' = due - 1
  /\ UNCHANGED <<sent, zero, stream, loop, signedIn, given, torn, twofold, eager>>

-----------------------------------------------------------------------------
Handler == \/ \E k \in 1 .. BufferSize : Read(k)
           \/ ReadError
           \/ EndOfFile
           \/ SendAnswer

App == \/ \E type \in Types : Send(type)
       \/ AppCloses
       \/ Refused

(* A process that has died takes no step. *)
Next == fault = "none" /\ (Handler \/ App)

(* The handler is scheduled, and what was sent arrives; the app may rest.   *)
Spec == Init /\ [][Next]_vars /\ WF_vars(fault = "none" /\ Handler)

-----------------------------------------------------------------------------
(* Every variable keeps its type.                                           *)
TypeOK ==
  /\ sent \in Seq(Types) /\ Len(sent) <= MaxRequests
  /\ zero \in BOOLEAN
  /\ \A i \in DOMAIN stream : stream[i].of \in DOMAIN sent
  /\ conn \in {"open", "closed", "refusing", "reset", "broken"}
  /\ loop \in {"on", "over"}
  /\ signedIn \in BOOLEAN
  /\ due \in 0 .. 2
  /\ given \in Seq([of : DOMAIN sent,
                    what : {"PONG", "Invalid JSON", "not signed in", "done"}])
  /\ fault \in {"none", "SIGPIPE"}
  /\ torn \in BOOLEAN /\ eager \in BOOLEAN /\ twofold \in BOOLEAN

(* A reset may have taken what was under way with it.                       *)
Lost == conn \in {"reset", "broken"}

(* The requests of which the handler has read a part, and those that were   *)
(* given an answer.                                                         *)
Begun == IF stream = <<>> THEN Len(sent) ELSE stream[1].of - 1
Told(n) == \E i \in DOMAIN given : given[i].of = n

(* The one answer request n is to have. *)
Reply(n) == [of |-> n, what |-> IF sent[n] = "PING" THEN "PONG" ELSE "done"]

(* If every read returns one whole request, each request read that has a    *)
(* known type was told, nothing else was, and the answers are in the order  *)
(* of the requests, whether or not the app waits for them.                  *)
OneEachWhenWhole ==
  ~(torn \/ twofold) /\ ~Lost =>
    /\ \A n \in 1 .. Begun : sent[n] # "UNKNOWN" => Told(n)
    /\ \A i \in DOMAIN given : \E n \in 1 .. Begun :
         sent[n] # "UNKNOWN" /\ given[i] = Reply(n)
    /\ \A i, j \in DOMAIN given : i < j => given[i].of < given[j].of

(* An app that goes away takes the process with it only if two answers were *)
(* to come: to two requests, or to two parts of one, or to a NEW_ROOM       *)
(* before signing in.                                                       *)
DiesOnlyOfTwo == fault = "none" \/ torn \/ eager \/ twofold

(* An app that sends a request only when the last has been read and         *)
(* answered is told something about each, in however many reads it comes,   *)
(* or closes the connection.                                                *)
AnswerComes ==
  \A n \in 1 .. MaxRequests :
    n \in DOMAIN sent ~> \/ Told(n) \/ eager \/ conn # "open"
                         \/ n \in DOMAIN sent /\ sent[n] = "UNKNOWN"

(* Once the app has gone, its handler comes to the end of file.             *)
HandlerEnds == conn # "open" ~> loop = "over" \/ fault # "none"
=============================================================================
