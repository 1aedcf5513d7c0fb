--------------------------- MODULE RequestsProofs ---------------------------
(* Theorems about Requests, for any number of requests and size of the      *)
(* buffer: its types, when an app that goes away takes the process with it, *)
(* and the answers requests get.                                            *)
EXTENDS Requests, SequenceTheorems, WellFoundedInduction, TLAPS

Marks == {"PI", "NG", "{", "-", "}", "0"}
Pieces == [of : Nat, text : Marks]
Answers == [of : Nat, what : {"PONG", "Invalid JSON", "not signed in", "done"}]

(* What TypeOK leaves open: what is under way is of requests that were sent. *)
Typed ==
  /\ stream \in Seq(Pieces)
  /\ \A i \in 1 .. Len(stream) : stream[i].of \in 1 .. Len(sent)
  /\ sent \in Seq(Types) /\ Len(sent) <= MaxRequests
  /\ given \in Seq(Answers)
  /\ \A i \in 1 .. Len(given) : given[i].of \in 1 .. Len(sent)
  /\ zero \in BOOLEAN
  /\ conn \in {"open", "closed", "refusing", "reset", "broken"}
  /\ loop \in {"on", "over"}
  /\ signedIn \in BOOLEAN
  /\ due \in 0 .. 2
  /\ fault \in {"none", "SIGPIPE"}
  /\ torn \in BOOLEAN /\ eager \in BOOLEAN /\ twofold \in BOOLEAN

LEMMA Longer ==
  ASSUME NEW S, NEW s \in Seq(S), NEW t \in Seq(S)
  PROVE  s \o t \in Seq(S) /\ (Len(s) > 0 => Len(s \o t) > 0)
<1>1. s \o t \in Seq(S) /\ Len(s \o t) = Len(s) + Len(t)
  BY ConcatProperties
<1> QED BY <1>1, LenProperties

LEMMA TextIs ==
  ASSUME NEW type \in Types PROVE Text(type) \in Seq(Marks) /\ Len(Text(type)) > 0
<1> DEFINE middle == [i \in 1 .. BufferSize - 1 |-> "-"]
<1>1. middle \in Seq(Marks) /\ Len(middle) = BufferSize - 1
  <2>1. BufferSize - 1 \in Nat
    BY RequestsAssumption
  <2>2. middle \in [1 .. BufferSize - 1 -> Marks]
    BY DEF Marks
  <2> QED BY <2>1, <2>2, IsASeq, LenProperties
<1> DEFINE first == <<"{">>
           last == <<"}">>
<1>2. /\ first \in Seq(Marks) /\ Len(first) = 1
      /\ last \in Seq(Marks) /\ Len(last) = 1
  BY DEF Marks
<1>3. first \o middle \o last \in Seq(Marks) /\ Len(first \o middle \o last) > 0
  <2> HIDE DEF first, middle, last
  <2>0. middle \in Seq(Marks) /\ Len(first) > 0
    BY <1>1, <1>2
  <2>1. first \o middle \in Seq(Marks) /\ Len(first \o middle) > 0
    BY <1>2, <2>0, Longer
  <2> DEFINE both == first \o middle
  <2> HIDE DEF both
  <2>2. both \in Seq(Marks) /\ Len(both) > 0
    BY <2>1 DEF both
  <2>3. both \o last \in Seq(Marks) /\ Len(both \o last) > 0
    BY <1>2, <2>2, Longer
  <2> QED BY <2>3 DEF both
<1>4. CASE type = "LONG"
  BY <1>3, <1>4 DEF Text
<1>5. CASE type = "PING"
  <2>1. Text(type) = <<"PI", "NG">>
    BY <1>5 DEF Text
  <2>2. <<"PI", "NG">> \in Seq(Marks) /\ Len(<<"PI", "NG">>) = 2
    BY DEF Marks
  <2> QED BY <2>1, <2>2
<1>6. CASE type \notin {"PING", "LONG"}
  <2> DEFINE braces == <<"{", "}">>
  <2>1. Text(type) = braces
    BY <1>6 DEF Text
  <2>2. braces \in Seq(Marks) /\ Len(braces) = 2
    BY DEF Marks
  <2> HIDE DEF braces
  <2> QED BY <2>1, <2>2
<1> QED BY <1>4, <1>5, <1>6

LEMMA MessageIs ==
  ASSUME NEW n \in Nat, NEW type \in Types, zero \in BOOLEAN
  PROVE  /\ Message(n, type) \in Seq(Pieces)
         /\ Len(Message(n, type)) > 0
         /\ \A i \in 1 .. Len(Message(n, type)) : Message(n, type)[i].of = n
<1> DEFINE text == Text(type) \o IF zero THEN <<"0">> ELSE <<>>
           message == [i \in 1 .. Len(text) |-> [of |-> n, text |-> text[i]]]
<1>1. text \in Seq(Marks) /\ Len(text) > 0
  <2>1. /\ <<"0">> \in Seq(Marks) /\ Len(<<"0">>) = 1
        /\ <<>> \in Seq(Marks) /\ Len(<<>>) = 0
    BY DEF Marks
  <2>2. CASE zero
    BY <2>1, <2>2, TextIs, ConcatProperties
  <2>3. CASE ~zero
    BY <2>1, <2>3, TextIs, ConcatProperties
  <2> QED BY <2>2, <2>3
<1> HIDE DEF text
<1>2. Len(text) \in Nat /\ DOMAIN text = 1 .. Len(text)
      /\ \A i \in 1 .. Len(text) : text[i] \in Marks
  BY <1>1
<1>3. message \in [1 .. Len(text) -> Pieces]
  BY <1>2 DEF Pieces
<1>4. message \in Seq(Pieces) /\ Len(message) = Len(text)
  <2> HIDE DEF message
  <2> QED BY <1>2, <1>3, IsASeq, LenProperties
<1>5. Message(n, type) = message
  BY <1>2 DEF Message, text
<1> QED BY <1>1, <1>4, <1>5

-----------------------------------------------------------------------------
(* What the loop takes of a read is a beginning of it.                      *)
LEMMA LeastNat ==
  ASSUME NEW T, T \subseteq Nat, T # {} PROVE \E x \in T : \A y \in T : x <= y
<1> DEFINE R == {ss \in Nat \X Nat : ss[1] < ss[2]}
<1>1. IsWellFoundedOn(R, Nat)
  BY NatLessThanWellFounded DEF OpToRel
<1>2. \E x \in T : \A y \in T : ~ (<<y, x>> \in R)
  BY <1>1, WFMin
<1>3. ASSUME NEW x \in T, NEW y \in T, ~ (<<y, x>> \in R) PROVE x <= y
  BY <1>3
<1> QED BY <1>2, <1>3

LEMMA UpToZeroIs ==
  ASSUME NEW b \in Seq(Pieces), b # <<>>
  PROVE  /\ UpToZero(b) \in Seq(Pieces)
         /\ UpToZero(b) # <<>> => UpToZero(b)[1] = b[1]
<1> DEFINE I == {i \in 1 .. Len(b) : b[i].text = "0"}
           z == IF I # {} THEN Min(I) ELSE 0
<1>1. UpToZero(b) = IF z = 0 THEN b ELSE SubSeq(b, 1, z - 1)
  BY DEF UpToZero, SelectInSeq
<1>2. Len(b) \in Nat /\ \A i \in 1 .. Len(b) : b[i] \in Pieces
  BY LenProperties, ElementOfSeq
<1>3. CASE I # {}
  <2>1. I \subseteq Nat
    OBVIOUS
  <2>2. \E x \in I : \A y \in I : x <= y
    BY <1>3, <2>1, LeastNat
  <2>3. Min(I) \in I
    BY <2>2 DEF Min
  <2> HIDE DEF I
  <2>4. PICK m \in 1 .. Len(b) : m = z
    BY <1>3, <2>3 DEF I
  <2> HIDE DEF z
  <2>5. UpToZero(b) = SubSeq(b, 1, m - 1)
    BY <1>1, <2>4
  <2>6. /\ SubSeq(b, 1, m - 1) \in Seq(Pieces)
        /\ Len(SubSeq(b, 1, m - 1)) = IF 1 <= m - 1 THEN m - 1 ELSE 0
        /\ \A i \in 1 .. m - 1 : SubSeq(b, 1, m - 1)[i] = b[i]
    BY <1>2, SubSeqProperties
  <2>7. SubSeq(b, 1, m - 1) # <<>> => 1 \in 1 .. m - 1
    BY <2>6, EmptySeq
  <2> QED BY <2>5, <2>6, <2>7
<1>4. CASE I = {}
  BY <1>1, <1>4
<1> QED BY <1>3, <1>4

(* Every way to answer leaves types alone, and two answers are remembered.  *)
Answered ==
  /\ due' \in 0 .. 2
  /\ due' = 2 => twofold'
  /\ twofold' \in BOOLEAN /\ (twofold => twofold')
  /\ given' \in Seq(Answers)
  /\ \A i \in 1 .. Len(given') : given'[i].of \in 1 .. Len(sent)

Whats == {"PONG", "Invalid JSON", "not signed in", "done"}

LEMMA AnswerIs ==
  ASSUME Typed, NEW n \in 1 .. Len(sent), NEW whats \in Seq(Whats),
         Len(whats) <= 2, Answer(n, whats)
  PROVE  Answered
<1> DEFINE more == [i \in 1 .. Len(whats) |-> [of |-> n, what |-> whats[i]]]
<1>1. /\ Len(whats) \in Nat /\ DOMAIN whats = 1 .. Len(whats)
      /\ \A i \in 1 .. Len(whats) : whats[i] \in Whats
  BY LenProperties, ElementOfSeq
<1>2. /\ given' = given \o more /\ due' = Len(whats)
      /\ twofold' = (twofold \/ Len(whats) > 1)
  BY <1>1 DEF Answer
<1>3. \A i \in 1 .. Len(whats) : [of |-> n, what |-> whats[i]] \in Answers
  <2>1. n \in Nat
    BY LenProperties DEF Typed
  <2> QED BY <1>1, <2>1 DEF Answers, Whats
<1>4. more \in Seq(Answers) /\ Len(more) = Len(whats)
      /\ \A i \in 1 .. Len(more) : more[i].of = n
  BY <1>1, <1>3
<1> HIDE DEF more
<1>5. /\ given \o more \in Seq(Answers)
      /\ Len(given \o more) = Len(given) + Len(more)
      /\ \A i \in 1 .. Len(given) + Len(more) :
           (given \o more)[i] = IF i <= Len(given) THEN given[i] ELSE more[i - Len(given)]
  BY <1>4, ConcatProperties DEF Typed
<1>6. Len(given) \in Nat /\ Len(more) \in Nat
  BY <1>4, LenProperties DEF Typed
<1>7. \A i \in 1 .. Len(given) + Len(more) : (given \o more)[i].of \in 1 .. Len(sent)
  <2>1. TAKE i \in 1 .. Len(given) + Len(more)
  <2>2. CASE i <= Len(given)
    BY <1>5, <1>6, <2>2 DEF Typed
  <2>3. CASE i > Len(given)
    <3>1. i - Len(given) \in 1 .. Len(more)
      BY <1>6, <2>3
    <3> QED BY <1>4, <1>5, <1>6, <2>3, <3>1
  <2> QED BY <1>6, <2>2, <2>3
<1>8. /\ due' \in 0 .. 2 /\ given' \in Seq(Answers)
      /\ \A i \in 1 .. Len(given') : given'[i].of \in 1 .. Len(sent)
  BY <1>1, <1>2, <1>5, <1>7
<1>9. twofold \in BOOLEAN /\ (due' = 2 => Len(whats) > 1)
  BY <1>2 DEF Typed
<1>10. twofold' \in BOOLEAN /\ (due' = 2 => twofold') /\ (twofold => twofold')
  <2> DEFINE two == Len(whats) > 1
  <2>1. two \in BOOLEAN /\ twofold' = (twofold \/ two) /\ (due' = 2 => two)
    BY <1>2, <1>9
  <2> HIDE DEF two
  <2> QED BY <1>9, <2>1
<1> QED BY <1>8, <1>10 DEF Answered

LEMMA HandleIs ==
  ASSUME Typed, NEW t \in Seq(Pieces), t # <<>> => t[1].of \in 1 .. Len(sent), Handle(t)
  PROVE  Answered /\ signedIn' \in BOOLEAN
<1>1. CASE due' = 0 /\ UNCHANGED <<signedIn, given, twofold>>
  BY <1>1 DEF Answered, Typed
<1>2. ASSUME NEW n \in 1 .. Len(sent), NEW what \in Whats, Answer(n, <<what>>)
      PROVE  Answered
  <2>1. <<what>> \in Seq(Whats) /\ Len(<<what>>) <= 2
    OBVIOUS
  <2> QED BY <1>2, <2>1, AnswerIs
<1>3. ASSUME NEW n \in 1 .. Len(sent), Answer(n, <<"not signed in", "done">>)
      PROVE  Answered
  <2>1. /\ <<"not signed in", "done">> \in Seq(Whats)
        /\ Len(<<"not signed in", "done">>) <= 2
    BY DEF Whats
  <2> QED BY <1>3, <2>1, AnswerIs
<1>4. ASSUME NEW n \in 1 .. Len(sent), Answer(n, <<>>)
      PROVE  Answered
  <2>1. <<>> \in Seq(Whats) /\ Len(<<>>) <= 2
    OBVIOUS
  <2> QED BY <1>4, <2>1, AnswerIs
<1>5. \A what \in {"PONG", "Invalid JSON", "done"} : what \in Whats
  BY DEF Whats
<1>6. CASE IsPing(t) /\ Answer(t[1].of, <<"PONG">>) /\ UNCHANGED signedIn
  <2>0. Len(t) = 2 /\ Len(<<>>) = 0
    BY <1>6 DEF IsPing
  <2>1. t # <<>>
    BY <2>0
  <2> QED BY <1>2, <1>5, <1>6, <2>1 DEF Typed
<1>7. CASE BeginsWhole(t) /\ Serve(t[1].of)
  <2>1. t # <<>>
    BY <1>7 DEF BeginsWhole
  <2> DEFINE n == t[1].of
  <2>2. n \in 1 .. Len(sent)
    BY <2>1
  <2>3. CASE Answer(n, <<"done">>) /\ signedIn' \in {signedIn, TRUE}
    BY <1>2, <1>5, <2>2, <2>3 DEF Typed
  <2>4. CASE Answer(n, IF signedIn THEN <<"done">> ELSE <<"not signed in", "done">>)
             /\ UNCHANGED signedIn
    <3> HIDE DEF n
    <3>1. CASE signedIn
      BY <1>2, <1>5, <2>2, <2>4, <3>1 DEF Typed
    <3>2. CASE ~signedIn
      BY <1>3, <2>2, <2>4, <3>2 DEF Typed
    <3> QED BY <3>1, <3>2
  <2>5. CASE Answer(n, <<>>) /\ UNCHANGED signedIn
    BY <1>4, <2>2, <2>5 DEF Typed
  <2> QED BY <1>7, <2>3, <2>4, <2>5 DEF Serve
<1>8. CASE t # <<>> /\ Invalid(t[1].of) /\ UNCHANGED signedIn
  BY <1>2, <1>5, <1>8 DEF Invalid, Typed
<1> QED BY <1>1, <1>6, <1>7, <1>8 DEF Handle

-----------------------------------------------------------------------------
LEMMA SendTyped ==
  ASSUME Typed, NEW type \in Types, Send(type)
  PROVE  /\ Typed'
         /\ sent'[Len(sent')] = type
         /\ Len(sent') = Len(sent) + 1
         /\ stream' = stream \o Message(Len(sent'), type)
<1> DEFINE n == Len(sent) + 1
           message == Message(n, type)
<1>1. /\ Len(sent) \in Nat /\ sent' = Append(sent, type) /\ Len(sent) < MaxRequests
      /\ stream' = stream \o message
      /\ eager' = (eager \/ stream # <<>> \/ due > 0)
      /\ UNCHANGED <<zero, conn, handlerVars, fault>>
  BY LenProperties DEF Send, Typed
<1>2. sent' \in Seq(Types) /\ Len(sent') = n /\ sent'[n] = type
  BY <1>1, AppendProperties DEF Typed
<1>3. /\ message \in Seq(Pieces) /\ \A i \in 1 .. Len(message) : message[i].of = n
  <2>1. n \in Nat /\ zero \in BOOLEAN
    BY <1>1 DEF Typed
  <2> HIDE DEF n
  <2> QED BY <2>1, MessageIs
<1> HIDE DEF message
<1>4. /\ stream' \in Seq(Pieces) /\ Len(stream') = Len(stream) + Len(message)
      /\ \A i \in 1 .. Len(stream) + Len(message) :
           stream'[i] = IF i <= Len(stream) THEN stream[i] ELSE message[i - Len(stream)]
  BY <1>1, <1>3, ConcatProperties DEF Typed
<1>5. Len(stream) \in Nat /\ Len(message) \in Nat
  BY <1>3, LenProperties DEF Typed
<1>6. \A i \in 1 .. Len(stream') : stream'[i].of \in 1 .. n
  <2>1. TAKE i \in 1 .. Len(stream')
  <2>2. CASE i <= Len(stream)
    BY <1>1, <1>4, <1>5, <2>2 DEF Typed
  <2>3. CASE i > Len(stream)
    <3>1. i - Len(stream) \in 1 .. Len(message)
      BY <1>4, <1>5, <2>3
    <3> QED BY <1>1, <1>3, <1>4, <1>5, <2>3, <3>1
  <2> QED BY <1>4, <1>5, <2>2, <2>3
<1>7. eager' \in BOOLEAN
  <2> DEFINE early == stream # <<>> \/ due > 0
  <2>1. eager' = (eager \/ early) /\ early \in BOOLEAN
    BY <1>1
  <2> HIDE DEF early
  <2> QED BY <2>1 DEF Typed
<1>8. \A i \in 1 .. Len(given) : given[i].of \in 1 .. n
  BY <1>1 DEF Typed
<1>9. n <= MaxRequests
  BY <1>1, RequestsAssumption
<1>10. Typed'
  BY <1>1, <1>2, <1>4, <1>6, <1>7, <1>8, <1>9 DEF Typed, handlerVars
<1> QED BY <1>1, <1>2, <1>10 DEF message

(* A read takes a beginning of what is under way.                           *)
LEMMA ReadTyped ==
  ASSUME Typed, NEW k \in 1 .. BufferSize, Read(k)
  PROVE  /\ Typed' /\ Answered
         /\ SubSeq(stream, 1, k) \in Seq(Pieces) /\ Len(SubSeq(stream, 1, k)) = k
         /\ SubSeq(stream, 1, k)[1] = stream[1]
         /\ k \in 1 .. Len(stream) /\ Len(stream') = Len(stream) - k
         /\ \A i \in 1 .. Len(stream') : stream'[i] = stream[k + i]
<1> DEFINE b == SubSeq(stream, 1, k)
           rest == SubSeq(stream, k + 1, Len(stream))
<1>1. /\ k \in 1 .. Len(stream) /\ Handle(UpToZero(b)) /\ stream' = rest
      /\ torn' = (torn \/ ~\E n \in DOMAIN sent : b = Message(n, sent[n]))
      /\ UNCHANGED <<sent, zero, conn, loop, fault, eager>>
  BY DEF Read
<1>2. Len(stream) \in Nat /\ \A i \in 1 .. Len(stream) : stream[i] \in Pieces
  BY LenProperties, ElementOfSeq DEF Typed
<1>3. /\ b \in Seq(Pieces) /\ Len(b) = k
      /\ \A i \in 1 .. k : b[i] = stream[i]
  BY <1>1, <1>2, SubSeqProperties
<1>4. /\ rest \in Seq(Pieces) /\ Len(rest) = Len(stream) - k
      /\ \A i \in 1 .. Len(rest) : rest[i] = stream[k + i]
  <2>1. \A i \in k + 1 .. Len(stream) : stream[i] \in Pieces
    BY <1>1, <1>2
  <2>2. k + 1 \in Int /\ Len(stream) \in Int
    BY <1>1, <1>2
  <2>3. /\ rest \in Seq(Pieces)
        /\ Len(rest) = IF k + 1 <= Len(stream) THEN Len(stream) - (k + 1) + 1 ELSE 0
        /\ \A i \in 1 .. Len(stream) - (k + 1) + 1 : rest[i] = stream[(k + 1) + i - 1]
    BY <2>1, <2>2, SubSeqProperties
  <2> HIDE DEF rest
  <2> QED BY <1>1, <1>2, <2>3
<1> HIDE DEF b, rest
<1>5. b # <<>> /\ b[1] = stream[1] /\ stream[1].of \in 1 .. Len(sent)
  BY <1>1, <1>2, <1>3, EmptySeq DEF Typed
<1>6. Answered /\ signedIn' \in BOOLEAN
  BY <1>1, <1>3, <1>5, UpToZeroIs, HandleIs
<1>7. torn' \in BOOLEAN
  <2> DEFINE whole == \E n \in DOMAIN sent : b = Message(n, sent[n])
  <2>1. torn' = (torn \/ ~whole) /\ whole \in BOOLEAN
    BY <1>1
  <2> HIDE DEF whole
  <2> QED BY <2>1 DEF Typed
<1>8. \A i \in 1 .. Len(stream') : stream'[i].of \in 1 .. Len(sent')
  <2>1. TAKE i \in 1 .. Len(stream')
  <2>2. k + i \in 1 .. Len(stream) /\ i \in 1 .. Len(rest)
    BY <1>1, <1>2, <1>4
  <2>3. stream'[i] = stream[k + i]
    BY <1>1, <1>4, <2>2
  <2> QED BY <1>1, <2>2, <2>3 DEF Typed
<1>9. Typed'
  BY <1>1, <1>4, <1>6, <1>7, <1>8 DEF Typed, Answered
<1> QED BY <1>1, <1>3, <1>4, <1>5, <1>6, <1>9 DEF b

LEMMA TypedInit == Init => Typed
<1> SUFFICES ASSUME Init PROVE Typed
  OBVIOUS
<1>1. /\ <<>> \in Seq(Pieces) /\ <<>> \in Seq(Types) /\ <<>> \in Seq(Answers)
      /\ Len(<<>>) = 0
  BY EmptySeq
<1>2. /\ stream \in Seq(Pieces) /\ sent \in Seq(Types) /\ given \in Seq(Answers)
      /\ Len(stream) = 0 /\ Len(sent) = 0 /\ Len(given) = 0
  BY <1>1 DEF Init
<1>3. /\ \A i \in 1 .. Len(stream) : stream[i].of \in 1 .. Len(sent)
      /\ Len(sent) <= MaxRequests
      /\ \A i \in 1 .. Len(given) : given[i].of \in 1 .. Len(sent)
  BY <1>2, RequestsAssumption
<1>4. due \in 0 .. 2
  BY DEF Init
<1>5. signedIn \in BOOLEAN /\ torn \in BOOLEAN /\ eager \in BOOLEAN
      /\ twofold \in BOOLEAN
  BY DEF Init
<1> QED BY <1>2, <1>3, <1>4, <1>5 DEF Init, Typed

LEMMA TypedStep == ASSUME Typed, [Next]_vars PROVE Typed'
<1>1. ASSUME NEW type \in Types, Send(type) PROVE Typed'
  BY <1>1, SendTyped
<1>2. CASE AppCloses
  <2>1. CASE UNCHANGED stream
    BY <1>2, <2>1 DEF AppCloses, Typed, handlerVars
  <2>2. ASSUME NEW k \in 0 .. Len(stream), stream' = SubSeq(stream, 1, k)
        PROVE  Typed'
    <3>1. Len(stream) \in Nat /\ \A i \in 1 .. Len(stream) : stream[i] \in Pieces
      BY LenProperties, ElementOfSeq DEF Typed
    <3>2. /\ stream' \in Seq(Pieces) /\ Len(stream') = IF 1 <= k THEN k ELSE 0
          /\ \A i \in 1 .. k : stream'[i] = stream[i]
      BY <2>2, <3>1, SubSeqProperties
    <3>3. \A i \in 1 .. Len(stream') : stream'[i].of \in 1 .. Len(sent)
      <4>1. TAKE i \in 1 .. Len(stream')
      <4>2. i \in 1 .. k /\ i \in 1 .. Len(stream)
        BY <3>1, <3>2
      <4> QED BY <3>2, <4>2 DEF Typed
    <3> QED BY <1>2, <3>2, <3>3 DEF AppCloses, Typed, handlerVars
  <2> QED BY <1>2, <2>1, <2>2 DEF AppCloses
<1>3. CASE Refused
  BY <1>3 DEF Refused, Typed, handlerVars
<1>4. ASSUME NEW k \in 1 .. BufferSize, Read(k) PROVE Typed'
  BY <1>4, ReadTyped
<1>5. CASE ReadError
  BY <1>5 DEF ReadError, Typed, handlerVars
<1>6. CASE EndOfFile
  BY <1>6 DEF EndOfFile, Typed
<1>7. CASE SendAnswer
  BY <1>7 DEF SendAnswer, Typed
<1>8. CASE UNCHANGED vars
  BY <1>8 DEF vars, handlerVars, Typed
<1> QED
  BY <1>1, <1>2, <1>3, <1>4, <1>5, <1>6, <1>7, <1>8 DEF Next, Handler, App

LEMMA SmallerSet ==
  ASSUME NEW S, NEW T, NEW s \in Seq(S), \A i \in 1 .. Len(s) : s[i] \in T
  PROVE  s \in Seq(T)
<1>1. Len(s) \in Nat /\ s \in [1 .. Len(s) -> S]
  BY LenProperties
<1>2. s \in [1 .. Len(s) -> T]
  BY <1>1
<1> QED BY <1>1, <1>2

(* Every variable of the loop keeps its type, for any number of requests    *)
(* and any size of the buffer.                                              *)
THEOREM TypeCorrect == Spec => []TypeOK
<1>1. Typed => TypeOK
  <2> SUFFICES ASSUME Typed PROVE TypeOK
    OBVIOUS
  <2>1. DOMAIN sent = 1 .. Len(sent) /\ DOMAIN stream = 1 .. Len(stream)
    BY LenProperties DEF Typed
  <2>2. given \in Seq([of : DOMAIN sent,
                       what : {"PONG", "Invalid JSON", "not signed in", "done"}])
    <3>1. \A i \in 1 .. Len(given) : given[i] \in Answers
      BY ElementOfSeq DEF Typed
    <3>3. \A i \in 1 .. Len(given) :
            given[i] \in [of : DOMAIN sent,
                         what : {"PONG", "Invalid JSON", "not signed in", "done"}]
      BY <2>1, <3>1 DEF Typed, Answers
    <3> QED BY <3>3, SmallerSet DEF Typed
  <2> QED BY <2>1, <2>2 DEF Typed, TypeOK
<1> QED BY <1>1, TypedInit, TypedStep, PTL DEF Spec

-----------------------------------------------------------------------------
(* An app that waits for each answer, whose requests come whole and have    *)
(* one answer each, has at most one request under way or one answer to      *)
(* come, and none once its end has refused one.                             *)
Patient ==
  ~(torn \/ eager \/ twofold) =>
    /\ due \in 0 .. 1
    /\ due > 0 => stream = <<>>
    /\ \A i \in 1 .. Len(stream) : stream[i].of = Len(sent)
    /\ stream # <<>> => Len(stream) <= Len(Message(Len(sent), sent[Len(sent)]))
    /\ conn \in {"refusing", "broken"} => due = 0 /\ stream = <<>>
    /\ fault = "none"

LEMMA PatientInit == Init => Patient
<1> SUFFICES ASSUME Init PROVE Patient
  OBVIOUS
<1>1. Len(stream) = 0
  BY DEF Init
<1> QED BY <1>1 DEF Init, Patient

LEMMA PatientSend ==
  ASSUME Typed, Patient, NEW type \in Types, Send(type) PROVE Patient'
<1> SUFFICES ASSUME ~(torn \/ eager \/ twofold)' PROVE Patient'
  BY DEF Patient
<1>1. /\ conn = "open" /\ Len(sent) \in Nat /\ ~eager' /\ zero \in BOOLEAN
      /\ eager' = (eager \/ stream # <<>> \/ due > 0)
      /\ UNCHANGED <<zero, conn, torn, twofold, due, fault>>
  BY LenProperties DEF Send, Typed, handlerVars
<1>2. ~eager /\ stream = <<>> /\ due = 0 /\ fault = "none"
  <2>1. ~eager /\ stream = <<>> /\ ~(due > 0)
    <3> DEFINE more == due > 0
    <3> HIDE DEF more
    <3>1. eager' = (eager \/ stream # <<>> \/ more) /\ ~eager'
      BY <1>1 DEF more
    <3> QED BY <3>1 DEF more
  <2>2. ~(torn \/ eager \/ twofold)
    BY <1>1, <2>1
  <2> QED BY <2>1, <2>2 DEF Patient
<1> DEFINE n == Len(sent')
           message == Message(n, type)
<1>3. /\ sent'[n] = type /\ n = Len(sent) + 1 /\ stream' = stream \o message
  BY SendTyped
<1>4. message \in Seq(Pieces) /\ \A i \in 1 .. Len(message) : message[i].of = n
  <2>1. n \in Nat
    BY <1>1, <1>3
  <2> HIDE DEF n
  <2> QED BY <1>1, <2>1, MessageIs
<1> HIDE DEF message
<1>5. stream' = message
  BY <1>2, <1>3, <1>4, ConcatEmptySeq
<1>6. Message(Len(sent), sent[Len(sent)])' = message
  BY <1>1, <1>3 DEF message, Message
<1>7. Len(message) \in Nat
  BY <1>4, LenProperties
<1> QED BY <1>1, <1>2, <1>4, <1>5, <1>6, <1>7 DEF Patient

LEMMA PatientRead ==
  ASSUME Typed, Patient, NEW k \in 1 .. BufferSize, Read(k) PROVE Patient'
<1> SUFFICES ASSUME ~(torn \/ eager \/ twofold)' PROVE Patient'
  BY DEF Patient
<1> DEFINE b == SubSeq(stream, 1, k)
           whole == \E n \in DOMAIN sent : b = Message(n, sent[n])
<1>1. torn' = (torn \/ ~whole) /\ UNCHANGED <<sent, zero, conn, fault, eager>>
  BY DEF Read
<1>2. Typed' /\ Answered
  BY ReadTyped
<1>3. /\ b \in Seq(Pieces) /\ Len(b) = k /\ b[1] = stream[1]
      /\ k \in 1 .. Len(stream) /\ Len(stream') = Len(stream) - k
  BY ReadTyped
<1>4. whole /\ ~torn
  <2> HIDE DEF whole
  <2>1. torn \in BOOLEAN /\ whole \in BOOLEAN
    BY DEF Typed, whole
  <2> QED BY <1>1, <2>1
<1>5. ~eager /\ ~twofold /\ ~twofold'
  BY <1>1, <1>2 DEF Answered
<1>6. /\ stream # <<>> /\ stream[1].of = Len(sent) /\ fault = "none"
      /\ Len(stream) <= Len(Message(Len(sent), sent[Len(sent)]))
      /\ conn \notin {"refusing", "broken"}
  <2>1. Len(stream) \in Nat /\ Len(<<>>) = 0
    BY LenProperties DEF Typed
  <2>2. stream # <<>> /\ 1 \in 1 .. Len(stream)
    BY <1>3, <2>1
  <2> QED BY <1>4, <1>5, <2>2 DEF Patient
<1>7. stream' = <<>>
  <2>1. PICK n \in DOMAIN sent : b = Message(n, sent[n])
    BY <1>4
  <2>2. n \in 1 .. Len(sent) /\ n \in Nat /\ sent[n] \in Types /\ zero \in BOOLEAN
    BY LenProperties, ElementOfSeq DEF Typed
  <2> HIDE DEF b
  <2>3. Len(b) > 0 /\ \A i \in 1 .. Len(b) : b[i].of = n
    BY <2>1, <2>2, MessageIs
  <2>4. 1 \in 1 .. Len(b)
    BY <1>3, <2>3
  <2>5. n = Len(sent)
    BY <1>3, <1>6, <2>3, <2>4
  <2>6. Len(stream) <= k
    BY <1>3, <1>6, <2>1, <2>5
  <2>7. Len(stream') = 0
    BY <1>3, <2>6, LenProperties DEF Typed
  <2> QED BY <1>2, <2>7, EmptySeq DEF Typed
<1>8. due' \in 0 .. 1
  BY <1>2, <1>5 DEF Answered
<1>9. Len(stream') = 0
  BY <1>7
<1> QED BY <1>1, <1>6, <1>7, <1>8, <1>9 DEF Patient

LEMMA PatientStep == ASSUME Typed, Patient, [Next]_vars PROVE Patient'
<1>1. ASSUME NEW type \in Types, Send(type) PROVE Patient'
  BY <1>1, PatientSend
<1>2. ASSUME NEW k \in 1 .. BufferSize, Read(k) PROVE Patient'
  BY <1>2, PatientRead
<1>3. ASSUME UNCHANGED <<sent, zero, torn, eager, twofold>>,
             ~(torn \/ eager \/ twofold) =>
               /\ stream' = stream
                  \/ \E k \in 0 .. Len(stream) : stream' = SubSeq(stream, 1, k)
               /\ due' \in 0 .. 1 /\ (due' > 0 => due > 0) /\ fault' = "none"
               /\ conn' \in {"refusing", "broken"} => due' = 0 /\ stream' = <<>>
      PROVE  Patient'
  <2> SUFFICES ASSUME ~(torn \/ eager \/ twofold) PROVE Patient'
    BY <1>3 DEF Patient
  <2> DEFINE message == Message(Len(sent), sent[Len(sent)])
  <2>1. /\ due > 0 => stream = <<>>
        /\ \A i \in 1 .. Len(stream) : stream[i].of = Len(sent)
        /\ stream # <<>> => Len(stream) <= Len(message)
    BY DEF Patient
  <2>2. message' = message
    BY <1>3 DEF Message
  <2>3. Len(stream) \in Nat /\ \A i \in 1 .. Len(stream) : stream[i] \in Pieces
    BY LenProperties, ElementOfSeq DEF Typed
  <2> HIDE DEF message
  <2>4. /\ due' > 0 => stream' = <<>>
        /\ \A i \in 1 .. Len(stream') : stream'[i].of = Len(sent)
        /\ stream' # <<>> => Len(stream') <= Len(message)
    <3>1. CASE stream' = stream
      BY <1>3, <2>1, <3>1
    <3>2. ASSUME NEW k \in 0 .. Len(stream), stream' = SubSeq(stream, 1, k)
          PROVE  /\ due' > 0 => stream' = <<>>
                 /\ \A i \in 1 .. Len(stream') : stream'[i].of = Len(sent)
                 /\ stream' # <<>> => Len(stream') <= Len(message)
      <4>1. /\ stream' \in Seq(Pieces) /\ Len(stream') = IF 1 <= k THEN k ELSE 0
            /\ \A i \in 1 .. k : stream'[i] = stream[i]
        BY <2>3, <3>2, SubSeqProperties
      <4> QED BY <1>3, <2>1, <2>3, <4>1
    <3> QED BY <1>3, <3>1, <3>2
  <2>5. stream' # <<>> => Len(stream') <= Len(Message(Len(sent), sent[Len(sent)]))'
    BY <2>2, <2>4 DEF message
  <2> QED BY <1>3, <2>4, <2>5 DEF Patient
<1>4. CASE AppCloses
  <2>1. /\ conn = "open" /\ conn' \in {"closed", "reset"}
        /\ stream' = stream \/ \E k \in 0 .. Len(stream) : stream' = SubSeq(stream, 1, k)
        /\ UNCHANGED <<sent, zero, due, torn, eager, twofold, fault>>
    BY <1>4 DEF AppCloses, handlerVars
  <2> QED BY <1>3, <2>1 DEF Patient
<1>5. CASE Refused
  <2>1. /\ conn = "refusing"
        /\ UNCHANGED <<stream, sent, zero, due, torn, eager, twofold, fault>>
    BY <1>5 DEF Refused, handlerVars
  <2> QED BY <1>3, <2>1 DEF Patient
<1>6. CASE ReadError
  <2>1. /\ due = 0 /\ stream = <<>>
        /\ UNCHANGED <<stream, sent, zero, due, torn, eager, twofold, fault>>
    BY <1>6 DEF ReadError, handlerVars
  <2> QED BY <1>3, <2>1 DEF Patient
<1>7. CASE EndOfFile
  <2>1. UNCHANGED <<stream, conn, sent, zero, due, torn, eager, twofold, fault>>
    BY <1>7 DEF EndOfFile
  <2> QED BY <1>3, <2>1 DEF Patient
<1>8. CASE SendAnswer
  <2>1. /\ due > 0 /\ due' = due - 1
        /\ \/ UNCHANGED fault
           \/ conn = "broken"
        /\ UNCHANGED <<stream, sent, zero, torn, eager, twofold>>
    BY <1>8 DEF SendAnswer
  <2>2. ~(torn \/ eager \/ twofold) =>
          due = 1 /\ stream = <<>> /\ conn # "broken" /\ fault = "none"
    BY <2>1 DEF Patient
  <2> QED BY <1>3, <2>1, <2>2
<1>9. CASE UNCHANGED vars
  <2>1. UNCHANGED <<stream, conn, sent, zero, due, torn, eager, twofold, fault>>
    BY <1>9 DEF vars, handlerVars
  <2> QED BY <1>3, <2>1 DEF Patient
<1> QED
  BY <1>1, <1>2, <1>4, <1>5, <1>6, <1>7, <1>8, <1>9 DEF Next, Handler, App

(* The process dies of an app that has gone only if requests or answers had *)
(* met, for any number of requests and size of the buffer.                  *)
THEOREM DiesCorrect == Spec => []DiesOnlyOfTwo
<1>1. Patient => DiesOnlyOfTwo
  BY DEF Patient, DiesOnlyOfTwo
<1> QED
  BY <1>1, TypedInit, TypedStep, PatientInit, PatientStep, PTL DEF Spec

-----------------------------------------------------------------------------
(* A read that returns one whole request.                                   *)

(* The texts of the requests: two pieces each, but for the one that does    *)
(* not fit into the buffer.                                                 *)
LEMMA Joined ==
  ASSUME NEW S, NEW s \in Seq(S), NEW t \in Seq(S)
  PROVE  /\ s \o t \in Seq(S) /\ Len(s \o t) = Len(s) + Len(t)
         /\ \A i \in 1 .. Len(s) : (s \o t)[i] = s[i]
         /\ \A i \in 1 .. Len(t) : (s \o t)[Len(s) + i] = t[i]
<1>0. PICK m \in Nat : m = Len(s)
  BY LenProperties
<1>n. PICK n \in Nat : n = Len(t)
  BY LenProperties
<1>1. /\ s \o t \in Seq(S) /\ Len(s \o t) = m + n
      /\ \A i \in 1 .. m + n : (s \o t)[i] = IF i <= m THEN s[i] ELSE t[i - m]
  BY <1>0, <1>n, ConcatProperties
<1>2. ASSUME NEW i \in 1 .. m PROVE (s \o t)[i] = s[i]
  <2>1. i \in 1 .. m + n /\ i <= m
    OBVIOUS
  <2> QED BY <1>1, <2>1
<1>3. ASSUME NEW i \in 1 .. n PROVE (s \o t)[m + i] = t[i]
  <2>1. m + i \in 1 .. m + n /\ ~(m + i <= m) /\ (m + i) - m = i
    OBVIOUS
  <2> QED BY <1>1, <2>1
<1> QED BY <1>0, <1>n, <1>1, <1>2, <1>3

LEMMA LongText == Len(Text("LONG")) = BufferSize + 1
<1> DEFINE middle == [i \in 1 .. BufferSize - 1 |-> "-"]
           first == <<"{">>
           last == <<"}">>
<1>0. PICK c \in Nat : c = BufferSize - 1
  BY RequestsAssumption
<1>1. middle \in Seq(Marks) /\ Len(middle) = c
  <2>2. middle \in [1 .. c -> Marks]
    BY <1>0 DEF Marks
  <2> QED BY <1>0, <2>2, IsASeq, LenProperties
<1>2. /\ first \in Seq(Marks) /\ Len(first) = 1
      /\ last \in Seq(Marks) /\ Len(last) = 1
  BY DEF Marks
<1>3. Text("LONG") = first \o middle \o last
  BY DEF Text
<1> HIDE DEF middle, first, last
<1> DEFINE both == first \o middle
<1>5. both \in Seq(Marks) /\ Len(both) = Len(first) + Len(middle)
  BY <1>1, <1>2, ConcatProperties
<1> HIDE DEF both
<1>7. Len(both \o last) = Len(both) + Len(last)
  BY <1>2, <1>5, ConcatProperties
<1>8. Len(both \o last) = (1 + c) + 1
  BY <1>1, <1>2, <1>5, <1>7
<1>9. (1 + c) + 1 = BufferSize + 1
  BY <1>0, RequestsAssumption
<1> QED BY <1>3, <1>8, <1>9 DEF both

LEMMA ShortText ==
  ASSUME NEW type \in Types \ {"LONG"}
  PROVE  /\ Len(Text(type)) = 2
         /\ type = "PING" => Text(type)[1] = "PI" /\ Text(type)[2] = "NG"
         /\ type # "PING" => Text(type)[1] = "{" /\ Text(type)[2] = "}"
<1>1. CASE type = "PING"
  <2>1. Text(type) = <<"PI", "NG">>
    BY <1>1 DEF Text
  <2> QED BY <1>1, <2>1
<1>2. CASE type # "PING"
  <2>1. Text(type) = <<"{", "}">>
    BY <1>2 DEF Text
  <2>2. /\ Len(<<"{", "}">>) = 2 /\ <<"{", "}">>[1] = "{" /\ <<"{", "}">>[2] = "}"
    OBVIOUS
  <2> QED BY <1>2, <2>1, <2>2
<1> QED BY <1>1, <1>2

TwoPieces(m, n, type) ==
  /\ Len(m) \in {2, 3} /\ (Len(m) = 3 => m[3].text = "0")
  /\ m[1].of = n /\ m[2].of = n
  /\ type = "PING" => m[1].text = "PI" /\ m[2].text = "NG"
  /\ type # "PING" => m[1].text = "{" /\ m[2].text = "}"

LEMMA MessageTexts ==
  ASSUME NEW n \in Nat, NEW type \in Types, zero \in BOOLEAN, NEW m, m = Message(n, type)
  PROVE  /\ type = "LONG" => Len(m) > BufferSize
         /\ type # "LONG" => TwoPieces(m, n, type)
<1> DEFINE end == IF zero THEN <<"0">> ELSE <<>>
           text == Text(type) \o end
<1>1. end \in Seq(Marks) /\ Len(end) \in {0, 1} /\ (Len(end) = 1 => end[1] = "0")
  <2>1. /\ <<"0">> \in Seq(Marks) /\ Len(<<"0">>) = 1 /\ <<"0">>[1] = "0"
        /\ <<>> \in Seq(Marks) /\ Len(<<>>) = 0
    BY DEF Marks
  <2> QED BY <2>1
<1>2. Text(type) \in Seq(Marks) /\ Len(Text(type)) \in Nat
  BY TextIs, LenProperties
<1>4. m = [i \in DOMAIN text |-> [of |-> n, text |-> text[i]]]
  BY DEF Message, end
<1> HIDE DEF end
<1>e. PICK e \in {0, 1} : Len(end) = e
  BY <1>1
<1>3. ASSUME NEW l \in Nat, Len(Text(type)) = l
      PROVE  /\ text \in Seq(Marks) /\ Len(text) = l + e
             /\ \A i \in 1 .. l : text[i] = Text(type)[i]
             /\ \A i \in 1 .. e : text[l + i] = end[i]
  <2>2. /\ text \in Seq(Marks) /\ Len(text) = Len(Text(type)) + Len(end)
        /\ \A i \in 1 .. Len(Text(type)) : text[i] = Text(type)[i]
        /\ \A i \in 1 .. Len(end) : text[Len(Text(type)) + i] = end[i]
    BY <1>1, <1>2, Joined
  <2> HIDE DEF text
  <2> QED BY <1>3, <1>e, <2>2
<1>5. text \in Seq(Marks) /\ Len(text) \in Nat /\ DOMAIN text = 1 .. Len(text)
  <2>1. text \in Seq(Marks)
    BY <1>2, <1>3
  <2> HIDE DEF text
  <2> QED BY <2>1, LenProperties
<1> HIDE DEF text
<1>6. Len(m) = Len(text) /\ \A i \in 1 .. Len(text) : m[i].of = n /\ m[i].text = text[i]
  BY <1>4, <1>5
<1>7. ASSUME type = "LONG" PROVE Len(m) > BufferSize
  <2>1. PICK l \in Nat : l = BufferSize + 1
    BY RequestsAssumption
  <2>2. Len(m) = l + e
    BY <1>3, <1>6, <1>7, <2>1, LongText
  <2>3. l + e > BufferSize
    BY <2>1, RequestsAssumption
  <2> QED BY <2>2, <2>3
<1>8. ASSUME type # "LONG"
      PROVE  TwoPieces(m, n, type)
  <2>1. /\ Len(Text(type)) = 2
        /\ type = "PING" => Text(type)[1] = "PI" /\ Text(type)[2] = "NG"
        /\ type # "PING" => Text(type)[1] = "{" /\ Text(type)[2] = "}"
    BY <1>8, ShortText
  <2>2. /\ Len(text) = 2 + e
        /\ \A i \in 1 .. 2 : text[i] = Text(type)[i]
        /\ \A i \in 1 .. e : text[2 + i] = end[i]
    <3>1. 2 \in Nat /\ Len(Text(type)) = 2
      BY <2>1
    <3> QED BY <1>3, <3>1
  <2>3. text[1] = Text(type)[1] /\ text[2] = Text(type)[2]
    BY <2>2
  <2>4. CASE e = 0
    <3>1. Len(text) = 2
      BY <2>2, <2>4
    <3>2. Len(m) = 2 /\ m[1].of = n /\ m[2].of = n
          /\ m[1].text = text[1] /\ m[2].text = text[2]
      BY <1>6, <3>1
    <3>3. Len(m) \in {2, 3} /\ ~(Len(m) = 3)
      BY <3>2
    <3> QED BY <2>1, <2>3, <3>2, <3>3 DEF TwoPieces
  <2>5. CASE e = 1
    <3>1. Len(text) = 3 /\ text[3] = end[1] /\ end[1] = "0"
      BY <1>1, <1>e, <2>2, <2>5
    <3>2. Len(m) = 3 /\ m[1].of = n /\ m[2].of = n
          /\ m[1].text = text[1] /\ m[2].text = text[2] /\ m[3].text = text[3]
      BY <1>6, <3>1
    <3> QED BY <2>1, <2>3, <3>1, <3>2 DEF TwoPieces
  <2> QED BY <2>4, <2>5
<1> QED BY <1>7, <1>8

(* Of a text of two pieces, with a zero byte or without, the loop sees two. *)
LEMMA UpToZeroShort ==
  ASSUME NEW b \in Seq(Pieces), Len(b) \in {2, 3},
         b[1].text # "0", b[2].text # "0", Len(b) = 3 => b[3].text = "0"
  PROVE  Len(UpToZero(b)) = 2 /\ UpToZero(b)[1] = b[1] /\ UpToZero(b)[2] = b[2]
<1> DEFINE I == {i \in 1 .. Len(b) : b[i].text = "0"}
           z == IF I # {} THEN Min(I) ELSE 0
<1>1. UpToZero(b) = IF z = 0 THEN b ELSE SubSeq(b, 1, z - 1)
  BY DEF UpToZero, SelectInSeq
<1>2. CASE Len(b) = 2
  <2>1. I = {}
    BY <1>2
  <2> QED BY <1>1, <1>2, <2>1
<1>3. CASE Len(b) = 3
  <2>1. I = {3}
    BY <1>3
  <2>2. Min({3}) = 3
    BY DEF Min
  <2>3. z = 3
    BY <2>1, <2>2
  <2> HIDE DEF I, z
  <2>4. UpToZero(b) = SubSeq(b, 1, 2)
    BY <1>1, <2>3
  <2>5. \A i \in 1 .. Len(b) : b[i] \in Pieces
    BY ElementOfSeq
  <2>6. \A i \in 1 .. 2 : b[i] \in Pieces
    BY <1>3, <2>5
  <2>7. /\ Len(SubSeq(b, 1, 2)) = IF 1 <= 2 THEN 2 - 1 + 1 ELSE 0
        /\ \A i \in 1 .. 2 - 1 + 1 : SubSeq(b, 1, 2)[i] = b[1 + i - 1]
    BY <2>6, SubSeqProperties
  <2> QED BY <2>4, <2>7
<1> QED BY <1>2, <1>3

(* The answers with one more.                                               *)
LEMMA OneAnswer ==
  ASSUME given \in Seq(Answers), NEW n \in Nat, NEW w \in Whats, Answer(n, <<w>>)
  PROVE  given' = Append(given, [of |-> n, what |-> w])
<1>1. given' = given \o [i \in DOMAIN <<w>> |-> [of |-> n, what |-> <<w>>[i]]]
  BY DEF Answer
<1>2. [i \in DOMAIN <<w>> |-> [of |-> n, what |-> <<w>>[i]]] = <<[of |-> n, what |-> w]>>
  OBVIOUS
<1>3. [of |-> n, what |-> w] \in Answers
  BY DEF Answers, Whats
<1> HIDE DEF Whats
<1> QED BY <1>1, <1>2, <1>3, AppendIsConcat

(* One whole request has its one answer, unless it is one that has two or   *)
(* none.                                                                    *)
LEMMA HandleWhole ==
  ASSUME Typed, NEW n \in 1 .. Len(sent), NEW b, b = Message(n, sent[n]),
         Len(b) <= BufferSize, Handle(UpToZero(b)), ~twofold'
  PROVE  given' = IF sent[n] = "UNKNOWN" THEN given ELSE Append(given, Reply(n))
<1> DEFINE t == UpToZero(b)
<1>1. n \in Nat /\ sent[n] \in Types /\ zero \in BOOLEAN /\ given \in Seq(Answers)
  BY LenProperties, ElementOfSeq DEF Typed
<1>2. b \in Seq(Pieces) /\ Len(b) \in Nat
  BY <1>1, MessageIs, LenProperties
<1>3. sent[n] # "LONG"
  <2>1. sent[n] = "LONG" => Len(b) > BufferSize
    BY <1>1, MessageTexts
  <2> QED BY <1>2, <2>1, RequestsAssumption
<1>4. /\ Len(b) \in {2, 3} /\ (Len(b) = 3 => b[3].text = "0")
      /\ b[1].of = n /\ b[2].of = n
      /\ sent[n] = "PING" => b[1].text = "PI" /\ b[2].text = "NG"
      /\ sent[n] # "PING" => b[1].text = "{" /\ b[2].text = "}"
  <2>1. TwoPieces(b, n, sent[n])
    BY <1>1, <1>3, MessageTexts
  <2> QED BY <2>1 DEF TwoPieces
<1>5. t \in Seq(Pieces) /\ Len(t) = 2 /\ t[1] = b[1] /\ t[2] = b[2]
  <2>0. Len(b) # 0
    <3>1. Len(b) \in {2, 3}
      BY <1>4, Zenon
    <3> QED BY <3>1
  <2>1. b # <<>>
    BY <1>2, <2>0, EmptySeq
  <2>2. b[1].text # "0" /\ b[2].text # "0"
    BY <1>4
  <2>3. t \in Seq(Pieces)
    BY <1>2, <2>1, UpToZeroIs
  <2>4. Len(t) = 2 /\ t[1] = b[1] /\ t[2] = b[2]
    BY <1>2, <1>4, <2>2, UpToZeroShort
  <2> QED BY <2>3, <2>4
<1> HIDE DEF t
<1>6. t # <<>> /\ DOMAIN t = 1 .. 2
  BY <1>5
<1>h. \/ t = <<>>
      \/ IsPing(t) /\ Answer(t[1].of, <<"PONG">>)
      \/ BeginsWhole(t) /\ Serve(t[1].of)
      \/ ~IsPing(t) /\ (~BeginsWhole(t) \/ ~EndsInBrace(t))
  BY DEF Handle, t
<1>o. t[1].of = n /\ t[2].of = n
  BY <1>4, <1>5
<1>7. CASE sent[n] = "PING"
  <2>1. IsPing(t) /\ ~BeginsWhole(t)
    BY <1>4, <1>5, <1>7 DEF IsPing, BeginsWhole
  <2>2. Answer(n, <<"PONG">>)
    BY <1>6, <1>h, <1>o, <2>1
  <2> QED BY <1>1, <1>7, <2>2, OneAnswer DEF Reply, Whats
<1>8. CASE sent[n] # "PING"
  <2>0. t[1].text = "{" /\ t[2].text = "}"
    BY <1>4, <1>5, <1>8
  <2>1. ~IsPing(t) /\ BeginsWhole(t) /\ EndsInBrace(t)
    <3>1. 2 \in DOMAIN t
      BY <1>6
    <3>2. ~IsPing(t)
      BY <2>0 DEF IsPing
    <3>3. BeginsWhole(t)
      BY <1>6, <1>o, <2>0, <3>1 DEF BeginsWhole
    <3>4. EndsInBrace(t)
      BY <1>5, <2>0 DEF EndsInBrace
    <3> QED BY <3>2, <3>3, <3>4
  <2>2. Serve(n)
    BY <1>6, <1>h, <1>o, <2>1
  <2>3. CASE sent[n] = "SIGN_IN"
    BY <1>1, <2>2, <2>3, OneAnswer DEF Serve, Reply, Whats
  <2>4. CASE sent[n] = "NEW_ROOM"
    <3>1. Answer(n, IF signedIn THEN <<"done">> ELSE <<"not signed in", "done">>)
      BY <2>2, <2>4 DEF Serve
    <3>2. CASE signedIn
      BY <1>1, <2>4, <3>1, <3>2, OneAnswer DEF Reply, Whats
    <3>3. CASE ~signedIn
      <4>1. twofold' = (twofold \/ Len(<<"not signed in", "done">>) > 1)
        BY <3>1, <3>3 DEF Answer
      <4>2. Len(<<"not signed in", "done">>) > 1
        OBVIOUS
      <4>3. twofold'
        BY <4>1, <4>2
      <4> QED BY <4>3
    <3> QED BY <3>2, <3>3
  <2>5. CASE sent[n] = "UNKNOWN"
    <3>1. given' = given \o [i \in DOMAIN <<>> |-> [of |-> n, what |-> <<>>[i]]]
      BY <2>2, <2>5 DEF Serve, Answer
    <3>2. [i \in DOMAIN <<>> |-> [of |-> n, what |-> <<>>[i]]] = <<>>
      OBVIOUS
    <3> QED BY <1>1, <2>5, <3>1, <3>2, ConcatEmptySeq
  <2> QED BY <1>1, <1>3, <1>8, <2>3, <2>4, <2>5 DEF Types
<1> QED BY <1>7, <1>8

-----------------------------------------------------------------------------
(* While every read has returned one whole request, what is under way is    *)
(* whole requests, in the order in which they were sent, to the last one.   *)
Size(n) == Len(Message(n, sent[n]))

(* Request n is under way, in the places after j. *)
Block(n, j) ==
  /\ j + Size(n) <= Len(stream)
  /\ \A x \in 1 .. Len(stream) :
       stream[x].of = n <=> j < x /\ x <= j + Size(n)

WholeStream ==
  ~torn /\ ~Lost =>
    /\ stream # <<>> => stream[Len(stream)].of = Len(sent)
    /\ \A i \in 1 .. Len(stream) - 1 :
         stream[i + 1].of = stream[i].of \/ stream[i + 1].of = stream[i].of + 1
    /\ \A i \in 1 .. Len(stream) : \E j \in Nat : Block(stream[i].of, j)

LEMMA StreamIs ==
  ASSUME Typed
  PROVE  /\ Len(stream) \in Nat /\ Len(sent) \in Nat
         /\ \A i \in 1 .. Len(stream) :
              stream[i] \in Pieces /\ stream[i].of \in 1 .. Len(sent)
         /\ \A n \in 1 .. Len(sent) : sent[n] \in Types
         /\ stream = <<>> <=> Len(stream) = 0
  BY LenProperties, ElementOfSeq, EmptySeq DEF Typed

LEMMA SizeIs ==
  ASSUME Typed, NEW n \in 1 .. Len(sent) PROVE Size(n) \in Nat /\ Size(n) > 0
<1>1. n \in Nat /\ sent[n] \in Types /\ zero \in BOOLEAN
  BY StreamIs DEF Typed
<1> QED BY <1>1, MessageIs, LenProperties DEF Size

(* One whole request is read: the first of those under way, and all of it.  *)
LEMMA ReadWhole ==
  ASSUME Typed, WholeStream, ~Lost, NEW k \in 1 .. BufferSize, Read(k), ~torn'
  PROVE  /\ ~torn
         /\ \E n \in 1 .. Len(sent) :
              /\ SubSeq(stream, 1, k) = Message(n, sent[n]) /\ k = Size(n)
              /\ stream[1].of = n
              /\ \A x \in 1 .. Len(stream) : stream[x].of = n <=> x <= k
<1>1. /\ SubSeq(stream, 1, k) \in Seq(Pieces) /\ Len(SubSeq(stream, 1, k)) = k
      /\ SubSeq(stream, 1, k)[1] = stream[1]
      /\ k \in 1 .. Len(stream)
  BY ReadTyped
<1> DEFINE b == SubSeq(stream, 1, k)
<1>2. torn' = (torn \/ ~\E n \in DOMAIN sent : b = Message(n, sent[n]))
  BY DEF Read
<1>3. ~torn /\ \E n \in DOMAIN sent : b = Message(n, sent[n])
  BY <1>2
<1>4. DOMAIN sent = 1 .. Len(sent)
  BY LenProperties DEF Typed
<1>5. PICK n \in 1 .. Len(sent) : b = Message(n, sent[n])
  BY <1>3, <1>4
<1>6. n \in Nat /\ sent[n] \in Types /\ zero \in BOOLEAN
  BY StreamIs DEF Typed
<1>7. Len(b) = k /\ b[1] = stream[1]
  BY <1>1
<1> HIDE DEF b
<1>8. k = Size(n)
  BY <1>5, <1>7 DEF Size
<1>9. stream[1].of = n
  <2>1. \A i \in 1 .. Len(b) : b[i].of = n
    BY <1>5, <1>6, MessageIs
  <2> QED BY <1>1, <1>7, <2>1
<1>10. Len(stream) \in Nat /\ 1 \in 1 .. Len(stream)
  BY <1>1, StreamIs
<1>11. PICK j \in Nat : Block(n, j)
  BY <1>3, <1>9, <1>10 DEF WholeStream
<1>12. \A x \in 1 .. Len(stream) : stream[x].of = n <=> j < x /\ x <= j + k
  BY <1>8, <1>11 DEF Block
<1>13. j = 0
  BY <1>9, <1>10, <1>12
<1>14. \A x \in 1 .. Len(stream) : stream[x].of = n <=> x <= k
  BY <1>12, <1>13
<1> QED BY <1>3, <1>5, <1>8, <1>9, <1>14 DEF b

LEMMA WholeRead ==
  ASSUME Typed, WholeStream, NEW k \in 1 .. BufferSize, Read(k)
  PROVE  WholeStream'
<1> SUFFICES ASSUME ~torn', ~Lost' PROVE WholeStream'
  BY DEF WholeStream
<1>1. UNCHANGED <<sent, zero, conn>>
  BY DEF Read
<1>2. ~Lost
  BY <1>1 DEF Lost
<1>3. ~torn
  BY <1>2, ReadWhole
<1>4. PICK n \in 1 .. Len(sent) :
        \A x \in 1 .. Len(stream) : stream[x].of = n <=> x <= k
  BY <1>2, ReadWhole
<1>5. /\ Typed' /\ k \in 1 .. Len(stream) /\ Len(stream') = Len(stream) - k
      /\ \A i \in 1 .. Len(stream') : stream'[i] = stream[k + i]
  BY ReadTyped
<1>6. /\ Len(stream) \in Nat /\ Len(stream') \in Nat
      /\ \A i \in 1 .. Len(stream) : stream[i].of \in 1 .. Len(sent)
      /\ stream' = <<>> <=> Len(stream') = 0
  <2>1. Len(stream') \in Nat /\ (stream' = <<>> <=> Len(stream') = 0)
    BY <1>5, LenProperties, EmptySeq DEF Typed
  <2> QED BY <2>1, StreamIs
<1>7. \A i \in 1 .. Len(stream') : k + i \in 1 .. Len(stream)
  BY <1>5, <1>6
<1>8. stream' # <<>> => stream'[Len(stream')].of = Len(sent')
  <2> SUFFICES ASSUME Len(stream') # 0 PROVE stream'[Len(stream')].of = Len(sent')
    BY <1>6
  <2>1. Len(stream') \in 1 .. Len(stream') /\ k + Len(stream') = Len(stream)
        /\ Len(stream) # 0
    BY <1>5, <1>6
  <2>2. stream[Len(stream)].of = Len(sent)
    BY <1>2, <1>3, <2>1, StreamIs DEF WholeStream
  <2> QED BY <1>1, <1>5, <2>1, <2>2
<1>9. ASSUME NEW i \in 1 .. Len(stream') - 1
      PROVE  stream'[i + 1].of = stream'[i].of \/ stream'[i + 1].of = stream'[i].of + 1
  <2>1. /\ i \in 1 .. Len(stream') /\ i + 1 \in 1 .. Len(stream')
        /\ k + i \in 1 .. Len(stream) - 1 /\ k + (i + 1) = (k + i) + 1
    BY <1>5, <1>6
  <2>2. stream[(k + i) + 1].of = stream[k + i].of \/ stream[(k + i) + 1].of = stream[k + i].of + 1
    BY <1>2, <1>3, <2>1 DEF WholeStream
  <2>3. stream'[i] = stream[k + i] /\ stream'[i + 1] = stream[(k + i) + 1]
    BY <1>5, <2>1
  <2> QED BY <2>2, <2>3
<1>10. ASSUME NEW i \in 1 .. Len(stream') PROVE \E j \in Nat : Block(stream[i].of, j)'
  <2>0. PICK m \in 1 .. Len(sent) : m = stream[k + i].of
    BY <1>6, <1>7
  <2>1. stream'[i].of = m /\ m # n
    BY <1>4, <1>5, <1>7, <2>0
  <2>2. PICK j \in Nat : Block(m, j)
    BY <1>2, <1>3, <1>7, <2>0 DEF WholeStream
  <2>3. PICK z \in Nat : z = Size(m) /\ z > 0
    BY <2>1, SizeIs
  <2>4. z = Size(m)'
    BY <1>1, <2>3 DEF Size, Message
  <2>5. j + z <= Len(stream)
        /\ \A x \in 1 .. Len(stream) : stream[x].of = m <=> j < x /\ x <= j + z
    BY <2>2, <2>3 DEF Block
  <2>6. j >= k
    <3>1. j + 1 \in 1 .. Len(stream) /\ j < j + 1 /\ j + 1 <= j + z
      BY <1>6, <2>3, <2>5
    <3>2. stream[j + 1].of # n
      BY <2>1, <2>5, <3>1
    <3>3. ~ (j + 1 <= k)
      BY <1>4, <3>1, <3>2
    <3> QED BY <3>3
  <2>7. PICK h \in Nat : h = j - k
    BY <2>6
  <2>8. h + z <= Len(stream')
    BY <1>5, <1>6, <2>5, <2>7
  <2>9. ASSUME NEW x \in 1 .. Len(stream')
        PROVE  stream'[x].of = m <=> h < x /\ x <= h + z
    <3>1. k + x \in 1 .. Len(stream) /\ stream'[x] = stream[k + x]
      BY <1>5, <1>7
    <3>2. stream[k + x].of = m <=> j < k + x /\ k + x <= j + z
      BY <2>5, <3>1
    <3>3. (j < k + x <=> h < x) /\ (k + x <= j + z <=> x <= h + z)
      BY <2>7
    <3> QED BY <3>1, <3>2, <3>3
  <2>10. Block(m, h)'
    BY <2>4, <2>8, <2>9 DEF Block
  <2> QED BY <2>1, <2>10
<1> QED BY <1>8, <1>9, <1>10 DEF WholeStream

(* What sending a request puts behind what is under way.                    *)
LEMMA SendAdds ==
  ASSUME Typed, NEW type \in Types, Send(type)
  PROVE  \E z \in Nat \ {0} :
           /\ z = Size(Len(sent))' /\ Len(stream') = Len(stream) + z
           /\ \A i \in 1 .. Len(stream) : stream'[i] = stream[i]
           /\ \A i \in 1 .. z : stream'[Len(stream) + i].of = Len(sent) + 1
           /\ \A n \in 1 .. Len(sent) : sent'[n] = sent[n]
<1>0. PICK n \in Nat : n = Len(sent) + 1
  BY StreamIs
<1>1. /\ sent' = Append(sent, type) /\ UNCHANGED zero
      /\ stream' = stream \o Message(n, type)
  BY <1>0 DEF Send
<1>2. /\ Message(n, type) \in Seq(Pieces) /\ Len(Message(n, type)) > 0
      /\ \A i \in 1 .. Len(Message(n, type)) : Message(n, type)[i].of = n
  BY MessageIs DEF Typed
<1>3. /\ sent'[n] = type /\ Len(sent') = n
      /\ \A i \in 1 .. Len(sent) : sent'[i] = sent[i]
  BY <1>0, <1>1, AppendProperties DEF Typed
<1>4. Size(Len(sent))' = Len(Message(n, type))
  <2>1. Size(Len(sent))' = Len(Message(n, sent[n])')
    BY <1>3 DEF Size, Message
  <2>2. Message(n, sent[n])' = Message(n, type)
    BY <1>1, <1>3 DEF Message
  <2> QED BY <2>1, <2>2
<1>5. PICK m \in Seq(Pieces) : m = Message(n, type)
  BY <1>2
<1>6. PICK z \in Nat \ {0} : z = Len(m)
  BY <1>2, <1>5, LenProperties
<1>7. /\ Len(stream \o m) = Len(stream) + Len(m)
      /\ \A i \in 1 .. Len(stream) : (stream \o m)[i] = stream[i]
      /\ \A i \in 1 .. Len(m) : (stream \o m)[Len(stream) + i] = m[i]
  BY Joined DEF Typed
<1>8. \A i \in 1 .. z : m[i].of = n
  BY <1>2, <1>5, <1>6
<1>9. \A i \in 1 .. z : stream'[Len(stream) + i].of = Len(sent) + 1
  BY <1>0, <1>1, <1>5, <1>6, <1>7, <1>8
<1>10. /\ z = Size(Len(sent))' /\ Len(stream') = Len(stream) + z
       /\ \A i \in 1 .. Len(stream) : stream'[i] = stream[i]
  BY <1>1, <1>4, <1>5, <1>6, <1>7
<1> QED BY <1>3, <1>9, <1>10

LEMMA WholeSend ==
  ASSUME Typed, WholeStream, NEW type \in Types, Send(type)
  PROVE  WholeStream'
<1> SUFFICES ASSUME ~torn', ~Lost' PROVE WholeStream'
  BY DEF WholeStream
<1>1. UNCHANGED <<zero, conn, torn>>
  BY DEF Send, handlerVars
<1>2. ~Lost /\ ~torn
  BY <1>1 DEF Lost
<1>0. PICK n \in Nat \ {0} : n = Len(sent) + 1
  BY StreamIs
<1>l. PICK l \in Nat : l = Len(stream)
  BY StreamIs
<1>3. PICK z \in Nat \ {0} :
        /\ z = Size(Len(sent))' /\ Len(stream') = l + z
        /\ \A i \in 1 .. l : stream'[i] = stream[i]
        /\ \A i \in 1 .. z : stream'[l + i].of = n
        /\ \A m \in 1 .. Len(sent) : sent'[m] = sent[m]
  BY <1>0, <1>l, SendAdds
<1>4. Len(sent') = n
  BY <1>0, SendTyped
<1>5. \A x \in 1 .. l + z : x \in 1 .. l \/ \E i \in 1 .. z : x = l + i
  <2>1. TAKE x \in 1 .. l + z
  <2>2. CASE x > l
    <3>1. x - l \in 1 .. z /\ x = l + (x - l)
      BY <2>2
    <3> QED BY <3>1
  <2> QED BY <2>2
<1>6. \A x \in 1 .. l : stream[x].of \in 1 .. n - 1
  BY <1>0, <1>l, StreamIs
<1>7. l # 0 => stream[l].of = n - 1
  BY <1>0, <1>2, <1>l, StreamIs DEF WholeStream
<1>8. stream'[Len(stream')].of = Len(sent')
  <2>1. z \in 1 .. z
    OBVIOUS
  <2> QED BY <1>3, <1>4, <2>1
<1>9. ASSUME NEW i \in 1 .. Len(stream') - 1
      PROVE  stream'[i + 1].of = stream'[i].of \/ stream'[i + 1].of = stream'[i].of + 1
  <2>1. CASE i + 1 <= l
    <3>1. i \in 1 .. l /\ i + 1 \in 1 .. l /\ i \in 1 .. l - 1
      BY <2>1
    <3>2. stream[i + 1].of = stream[i].of \/ stream[i + 1].of = stream[i].of + 1
      BY <1>2, <1>l, <3>1 DEF WholeStream
    <3> QED BY <1>3, <3>1, <3>2
  <2>2. CASE i = l
    <3>1. l \in 1 .. l /\ l # 0 /\ 1 \in 1 .. z
      BY <2>2
    <3>2. stream'[l].of = n - 1 /\ stream'[l + 1].of = n
      BY <1>3, <1>7, <3>1
    <3> QED BY <2>2, <3>2
  <2>3. CASE i > l
    <3>1. i - l \in 1 .. z /\ (i - l) + 1 \in 1 .. z
          /\ l + (i - l) = i /\ l + ((i - l) + 1) = i + 1
      BY <1>3, <2>3
    <3>2. stream'[l + (i - l)].of = n /\ stream'[l + ((i - l) + 1)].of = n
      BY <1>3, <3>1
    <3> QED BY <3>1, <3>2
  <2> QED BY <1>3, <2>1, <2>2, <2>3
<1>10. ASSUME NEW i \in 1 .. Len(stream') PROVE \E j \in Nat : Block(stream[i].of, j)'
  <2>1. CASE i \in 1 .. l
    <3>0. PICK m \in 1 .. n - 1 : m = stream[i].of
      BY <1>6, <2>1
    <3>1. PICK j \in Nat : Block(m, j)
      BY <1>2, <1>l, <2>1, <3>0 DEF WholeStream
    <3>2. PICK y \in Nat : y = Size(m)
      BY <1>0, <3>0, SizeIs
    <3>3. y = Size(m)'
      <4>1. sent'[m] = sent[m]
        BY <1>0, <1>3, <3>0
      <4> QED BY <1>1, <3>2, <4>1 DEF Size, Message
    <3>4. j + y <= l
          /\ \A x \in 1 .. l : stream[x].of = m <=> j < x /\ x <= j + y
      BY <1>l, <3>1, <3>2 DEF Block
    <3>5. ASSUME NEW x \in 1 .. l + z
          PROVE  stream'[x].of = m <=> j < x /\ x <= j + y
      <4>1. CASE x \in 1 .. l
        BY <1>3, <3>4, <4>1
      <4>2. ASSUME NEW h \in 1 .. z, x = l + h
            PROVE  stream'[x].of = m <=> j < x /\ x <= j + y
        <5>1. stream'[x].of = n
          BY <1>3, <4>2
        <5>2. n # m /\ ~ (x <= j + y)
          BY <3>0, <3>4, <4>2
        <5> QED BY <5>1, <5>2
      <4> QED BY <1>5, <4>1, <4>2
    <3>6. j + y <= Len(stream')
      BY <1>3, <3>4
    <3>7. Block(m, j)'
      BY <1>3, <3>3, <3>5, <3>6 DEF Block
    <3>8. stream'[i].of = m
      BY <1>3, <2>1, <3>0
    <3> QED BY <3>7, <3>8
  <2>2. ASSUME NEW h \in 1 .. z, i = l + h
        PROVE  \E j \in Nat : Block(stream[i].of, j)'
    <3>1. stream'[i].of = n
      BY <1>3, <2>2
    <3>2. z = Size(n)'
      BY <1>3, <1>4
    <3>3. ASSUME NEW x \in 1 .. l + z
          PROVE  stream'[x].of = n <=> l < x /\ x <= l + z
      <4>1. CASE x \in 1 .. l
        <5>1. stream'[x].of \in 1 .. n - 1
          BY <1>3, <1>6, <4>1
        <5>2. stream'[x].of # n
          BY <5>1
        <5> QED BY <4>1, <5>2
      <4>2. ASSUME NEW g \in 1 .. z, x = l + g
            PROVE  stream'[x].of = n <=> l < x /\ x <= l + z
        BY <1>3, <4>2
      <4> QED BY <1>5, <4>1, <4>2
    <3>4. Block(n, l)'
      BY <1>3, <3>2, <3>3 DEF Block
    <3> QED BY <3>1, <3>4
  <2> QED BY <1>3, <1>5, <2>1, <2>2
<1> QED BY <1>8, <1>9, <1>10 DEF WholeStream

LEMMA WholeKept ==
  ASSUME WholeStream, UNCHANGED <<sent, zero>>,
         ~torn' /\ ~Lost' => ~torn /\ ~Lost /\ UNCHANGED stream
  PROVE  WholeStream'
<1> SUFFICES ASSUME ~torn', ~Lost' PROVE WholeStream'
  BY DEF WholeStream
<1>1. /\ ~torn /\ ~Lost /\ UNCHANGED <<stream, sent>>
      /\ \A n : Size(n)' = Size(n)
  BY DEF Size, Message
<1>2. \A n, j : Block(n, j)' <=> Block(n, j)
  BY <1>1 DEF Block
<1>3. \A i \in 1 .. Len(stream) : \E j \in Nat : Block(stream[i].of, j)'
  BY <1>1, <1>2 DEF WholeStream
<1> QED BY <1>1, <1>3 DEF WholeStream

LEMMA WholeStep == ASSUME Typed, WholeStream, [Next]_vars PROVE WholeStream'
<1>1. ASSUME NEW type \in Types, Send(type) PROVE WholeStream'
  BY <1>1, WholeSend
<1>2. ASSUME NEW k \in 1 .. BufferSize, Read(k) PROVE WholeStream'
  BY <1>2, WholeRead
<1>3. CASE AppCloses
  BY <1>3, WholeKept DEF AppCloses, Lost, handlerVars
<1>4. CASE Refused
  BY <1>4, WholeKept DEF Refused, Lost, handlerVars
<1>5. CASE ReadError
  BY <1>5, WholeKept DEF ReadError, Lost, handlerVars
<1>6. CASE EndOfFile
  BY <1>6, WholeKept DEF EndOfFile, Lost
<1>7. CASE SendAnswer
  BY <1>7, WholeKept DEF SendAnswer, Lost
<1>8. CASE UNCHANGED vars
  BY <1>8, WholeKept DEF vars, handlerVars, Lost
<1> QED
  BY <1>1, <1>2, <1>3, <1>4, <1>5, <1>6, <1>7, <1>8 DEF Next, Handler, App

-----------------------------------------------------------------------------
(* The requests begun are the first ones.                                   *)
LEMMA BegunIs == ASSUME Typed PROVE Begun \in 0 .. Len(sent)
<1>1. CASE stream = <<>>
  BY <1>1, StreamIs DEF Begun
<1>2. CASE stream # <<>>
  <2>1. 1 \in 1 .. Len(stream)
    BY <1>2, StreamIs
  <2>2. stream[1].of \in 1 .. Len(sent)
    BY <2>1, StreamIs
  <2> QED BY <1>2, <2>2, StreamIs DEF Begun
<1> QED BY <1>1, <1>2

LEMMA OneEachInit == Init => OneEachWhenWhole /\ WholeStream
<1> SUFFICES ASSUME Init PROVE OneEachWhenWhole /\ WholeStream
  OBVIOUS
<1>1. /\ stream = <<>> /\ Len(stream) = 0 /\ Len(sent) = 0 /\ DOMAIN given = {}
  BY DEF Init
<1>2. Begun = 0
  BY <1>1 DEF Begun
<1>3. OneEachWhenWhole
  BY <1>1, <1>2 DEF OneEachWhenWhole
<1>4. WholeStream
  BY <1>1 DEF WholeStream
<1> QED BY <1>3, <1>4

(* Nothing was read.                                                        *)
LEMMA OneEachKept ==
  ASSUME Typed, OneEachWhenWhole, UNCHANGED given,
         ~(torn' \/ twofold') /\ ~Lost' => ~(torn \/ twofold) /\ ~Lost,
         ~Lost' => Begun' = Begun /\ \A n \in 1 .. Len(sent) : sent'[n] = sent[n]
  PROVE  OneEachWhenWhole'
<1> SUFFICES ASSUME ~(torn' \/ twofold'), ~Lost' PROVE OneEachWhenWhole'
  BY DEF OneEachWhenWhole
<1>1. /\ Begun' = Begun /\ given' = given
      /\ \A n \in 1 .. Begun : n \in 1 .. Len(sent)
  BY BegunIs, StreamIs
<1>2. \A n \in 1 .. Begun : sent'[n] = sent[n] /\ Reply(n)' = Reply(n)
  BY <1>1 DEF Reply
<1>3. \A n \in 1 .. Begun' : sent'[n] # "UNKNOWN" => Told(n)'
  BY <1>1, <1>2 DEF OneEachWhenWhole, Told
<1>4. \A i \in DOMAIN given' : \E n \in 1 .. Begun' :
        sent'[n] # "UNKNOWN" /\ given'[i] = Reply(n)'
  <2>1. TAKE i \in DOMAIN given'
  <2>2. PICK n \in 1 .. Begun : sent[n] # "UNKNOWN" /\ given[i] = Reply(n)
    BY <1>1 DEF OneEachWhenWhole
  <2> QED BY <1>1, <1>2, <2>2
<1>5. \A i, j \in DOMAIN given' : i < j => given'[i].of < given'[j].of
  BY <1>1 DEF OneEachWhenWhole
<1> QED BY <1>3, <1>4, <1>5 DEF OneEachWhenWhole

(* One more request was read: the next one, and it had its answer.          *)
LEMMA OneEachRead ==
  ASSUME Typed, WholeStream, OneEachWhenWhole, NEW k \in 1 .. BufferSize, Read(k)
  PROVE  OneEachWhenWhole'
<1> SUFFICES ASSUME ~torn', ~twofold', ~Lost' PROVE OneEachWhenWhole'
  BY DEF OneEachWhenWhole
<1>1. UNCHANGED <<sent, zero, conn>> /\ Handle(UpToZero(SubSeq(stream, 1, k)))
  BY DEF Read
<1>2. ~Lost
  BY <1>1 DEF Lost
<1>3. ~torn
  BY <1>2, ReadWhole
<1>4. PICK n \in 1 .. Len(sent) :
        /\ SubSeq(stream, 1, k) = Message(n, sent[n])
        /\ stream[1].of = n
        /\ \A x \in 1 .. Len(stream) : stream[x].of = n <=> x <= k
  BY <1>2, ReadWhole
<1>5. /\ Typed' /\ Answered /\ k \in 1 .. Len(stream) /\ Len(stream') = Len(stream) - k
      /\ \A i \in 1 .. Len(stream') : stream'[i] = stream[k + i]
      /\ Len(SubSeq(stream, 1, k)) = k
  BY ReadTyped
<1>6. ~twofold
  BY <1>5 DEF Answered
<1>7. given' = IF sent[n] = "UNKNOWN" THEN given ELSE Append(given, Reply(n))
  <2>1. PICK b : b = SubSeq(stream, 1, k)
    OBVIOUS
  <2>2. Len(b) <= BufferSize /\ b = Message(n, sent[n]) /\ Handle(UpToZero(b))
    BY <1>1, <1>4, <1>5, <2>1, RequestsAssumption
  <2> QED BY <2>2, HandleWhole
<1>8. n \in Nat \ {0} /\ Begun = n - 1
  <2>1. stream # <<>>
    BY <1>5, StreamIs
  <2> QED BY <1>4, <2>1, StreamIs DEF Begun
<1>9. Begun' = n
  <2>1. Len(stream) \in Nat /\ Len(stream') \in Nat /\ (stream' = <<>> <=> Len(stream') = 0)
        /\ Len(sent') = Len(sent)
    BY <1>1, <1>5, LenProperties, EmptySeq, StreamIs DEF Typed
  <2>2. CASE stream' = <<>>
    <3>1. k = Len(stream) /\ Len(stream) \in 1 .. Len(stream) /\ stream # <<>>
      BY <1>5, <2>1, <2>2, StreamIs
    <3>2. stream[Len(stream)].of = Len(sent)
      BY <1>2, <1>3, <3>1 DEF WholeStream
    <3>3. stream[Len(stream)].of = n
      BY <1>4, <3>1
    <3> QED BY <2>1, <2>2, <3>2, <3>3 DEF Begun
  <2>3. CASE stream' # <<>>
    <3>1. /\ 1 \in 1 .. Len(stream') /\ k \in 1 .. Len(stream) - 1
          /\ k + 1 \in 1 .. Len(stream) /\ ~ (k + 1 <= k)
      BY <1>5, <2>1, <2>3
    <3>2. stream[k].of = n /\ stream[k + 1].of # n
      BY <1>4, <3>1
    <3>3. stream[k + 1].of = stream[k].of \/ stream[k + 1].of = stream[k].of + 1
      BY <1>2, <1>3, <3>1 DEF WholeStream
    <3>4. stream'[1].of = n + 1
      BY <1>5, <3>1, <3>2, <3>3
    <3> QED BY <1>8, <2>3, <3>4 DEF Begun
  <2> QED BY <2>2, <2>3
<1>10. /\ \A m \in 1 .. n - 1 : sent[m] # "UNKNOWN" => Told(m)
       /\ \A i \in DOMAIN given : \E m \in 1 .. n - 1 :
            sent[m] # "UNKNOWN" /\ given[i] = Reply(m)
       /\ \A i, j \in DOMAIN given : i < j => given[i].of < given[j].of
  BY <1>2, <1>3, <1>6, <1>8 DEF OneEachWhenWhole
<1>11. \A m : sent'[m] = sent[m] /\ Reply(m)' = Reply(m)
  BY <1>1 DEF Reply
<1>12. PICK l \in Nat : l = Len(given) /\ DOMAIN given = 1 .. l
  BY LenProperties DEF Typed
<1>13. /\ \A m \in 1 .. n : m \in 1 .. n - 1 \/ m = n
       /\ \A m \in 1 .. n - 1 : m \in 1 .. n
       /\ n \in 1 .. n
  BY <1>8
<1>14. CASE sent[n] = "UNKNOWN"
  <2>1. given' = given
    BY <1>7, <1>14
  <2>2. \A m \in 1 .. n : sent[m] # "UNKNOWN" => Told(m)'
    BY <1>10, <1>13, <1>14, <2>1 DEF Told
  <2>3. \A i \in DOMAIN given' : \E m \in 1 .. n :
          sent[m] # "UNKNOWN" /\ given'[i] = Reply(m)
    BY <1>10, <1>13, <2>1
  <2>4. \A i, j \in DOMAIN given' : i < j => given'[i].of < given'[j].of
    BY <1>10, <2>1
  <2> QED BY <1>9, <1>11, <2>2, <2>3, <2>4 DEF OneEachWhenWhole
<1>15. CASE sent[n] # "UNKNOWN"
  <2>0. Reply(n) \in Answers /\ Reply(n).of = n
    BY <1>8 DEF Reply, Answers
  <2>1. /\ DOMAIN given' = 1 .. l + 1 /\ given'[l + 1] = Reply(n)
        /\ \A i \in 1 .. l : given'[i] = given[i]
    <3>1. PICK r \in Answers : r = Reply(n)
      BY <2>0
    <3>2. given' = Append(given, r)
      BY <1>7, <1>15, <3>1
    <3> QED BY <1>12, <3>1, <3>2, AppendProperties DEF Typed
  <2>s. \A i \in 1 .. l + 1 : i \in 1 .. l \/ i = l + 1
    BY <1>12
  <2>2. \A m \in 1 .. n : sent[m] # "UNKNOWN" => Told(m)'
    <3>1. ASSUME NEW m \in 1 .. n - 1, sent[m] # "UNKNOWN" PROVE Told(m)'
      <4>1. PICK i \in 1 .. l : given[i].of = m
        BY <1>10, <1>12, <3>1 DEF Told
      <4>2. i \in DOMAIN given' /\ given'[i].of = m
        BY <1>12, <2>1, <4>1
      <4> QED BY <4>2 DEF Told
    <3>2. Told(n)'
      <4>1. l + 1 \in DOMAIN given' /\ given'[l + 1].of = n
        BY <1>12, <2>0, <2>1
      <4> QED BY <4>1 DEF Told
    <3> QED BY <1>13, <3>1, <3>2
  <2>3. ASSUME NEW i \in DOMAIN given'
        PROVE  \E m \in 1 .. n : sent[m] # "UNKNOWN" /\ given'[i] = Reply(m)
    <3>1. CASE i \in 1 .. l
      BY <1>10, <1>12, <1>13, <2>1, <3>1
    <3>2. CASE i = l + 1
      BY <1>13, <1>15, <2>1, <3>2
    <3> QED BY <2>1, <2>3, <2>s, <3>1, <3>2
  <2>4. ASSUME NEW i \in DOMAIN given', NEW j \in DOMAIN given', i < j
        PROVE  given'[i].of < given'[j].of
    <3>1. i \in 1 .. l
      BY <1>12, <2>1, <2>4
    <3>2. CASE j \in 1 .. l
      BY <1>10, <1>12, <2>1, <2>4, <3>1, <3>2
    <3>3. CASE j = l + 1
      <4>1. PICK m \in 1 .. n - 1 : given[i] = Reply(m)
        BY <1>10, <1>12, <3>1
      <4>2. given'[i].of = m
        BY <2>1, <3>1, <4>1 DEF Reply
      <4>3. given'[j].of = n
        BY <2>0, <2>1, <3>3
      <4> QED BY <1>8, <4>2, <4>3
    <3> QED BY <2>1, <2>4, <2>s, <3>2, <3>3
  <2> QED BY <1>9, <1>11, <2>2, <2>3, <2>4 DEF OneEachWhenWhole
<1> QED BY <1>14, <1>15

LEMMA OneEachStep ==
  ASSUME Typed, WholeStream, OneEachWhenWhole, [Next]_vars PROVE OneEachWhenWhole'
<1>1. ASSUME NEW type \in Types, Send(type) PROVE OneEachWhenWhole'
  <2>1. UNCHANGED <<given, conn, torn, twofold>>
    BY <1>1 DEF Send, handlerVars
  <2>2. PICK z \in Nat \ {0} :
          /\ Len(stream') = Len(stream) + z
          /\ \A i \in 1 .. Len(stream) : stream'[i] = stream[i]
          /\ \A i \in 1 .. z : stream'[Len(stream) + i].of = Len(sent) + 1
          /\ \A n \in 1 .. Len(sent) : sent'[n] = sent[n]
    BY <1>1, SendAdds
  <2>3. Typed' /\ 1 \in 1 .. z
    BY <1>1, SendTyped
  <2>4. stream' # <<>>
    BY <2>2, <2>3, EmptySeq, StreamIs
  <2>5. Begun' = Begun
    <3>1. CASE stream = <<>>
      <4>1. Len(stream) = 0 /\ 0 + 1 = 1
        BY <3>1
      <4>2. stream'[1].of = Len(sent) + 1
        BY <2>2, <2>3, <4>1
      <4> QED BY <2>4, <3>1, <4>2, StreamIs DEF Begun
    <3>2. CASE stream # <<>>
      <4>1. 1 \in 1 .. Len(stream)
        BY <3>2, StreamIs
      <4> QED BY <2>2, <2>4, <3>2, <4>1 DEF Begun
    <3> QED BY <3>1, <3>2
  <2> QED BY <2>1, <2>2, <2>5, OneEachKept DEF Lost
<1>2. ASSUME NEW k \in 1 .. BufferSize, Read(k) PROVE OneEachWhenWhole'
  BY <1>2, OneEachRead
<1>3. CASE AppCloses
  BY <1>3, OneEachKept DEF AppCloses, Lost, Begun, handlerVars
<1>4. CASE Refused
  BY <1>4, OneEachKept DEF Refused, Lost, handlerVars
<1>5. CASE ReadError
  BY <1>5, OneEachKept DEF ReadError, Lost, handlerVars
<1>6. CASE EndOfFile
  BY <1>6, OneEachKept DEF EndOfFile, Lost, Begun
<1>7. CASE SendAnswer
  BY <1>7, OneEachKept DEF SendAnswer, Lost, Begun
<1>8. CASE UNCHANGED vars
  BY <1>8, OneEachKept DEF vars, handlerVars, Lost, Begun
<1> QED
  BY <1>1, <1>2, <1>3, <1>4, <1>5, <1>6, <1>7, <1>8 DEF Next, Handler, App

(* While reads return whole requests, each request read was told its one    *)
(* answer, in the order of the requests, however the handler, the app and   *)
(* the kernel interleave, for any number of requests and size of the        *)
(* buffer.                                                                  *)
THEOREM OneEachCorrect == Spec => []OneEachWhenWhole
<1> QED
  BY TypedInit, TypedStep, OneEachInit, WholeStep, OneEachStep, PTL DEF Spec
=============================================================================
