# TLA+ models and proofs of CSoketLSO

CSoketLSO is the server of a multiplayer word game. Clients talk to it over TCP
(accounts, list of rooms, opening and joining a room); inside a room the server
and the apps talk over a multicast group. One player, the chooser, picks a word,
the server reveals its letters one by one, the others guess. The server is a C
program of about 1400 lines built on threads, signals and shared arrays; that,
and not its data, is where it is hard to get right, and what is modelled here.

Source paths are relative to the repository (`src/` in `PROJECT.json`).

## 1. Inventory

### The parts and how they interact

| part | code | state | operations |
|---|---|---|---|
| request loop | `src/handle_client.c:21-135` | `buffer`, the TCP connection | read, answer PING, refuse or dispatch a request, end of file |
| client table | `src/main.c`, `src/handle_client.c`, `src/globals.c` | `clients[]`, `num_clients`, `clients_mutex`, main's local `client_socket`, open descriptors | accept, add an entry, create a handler; at end of file search, shift, decrement, close |
| sessions | `src/handle_client.c:130-251` | `clients[].username`, the `users` table, the one connection `conn` | SIGN_IN, SIGN_UP |
| room registry | `src/handle_client.c:253-368`, `src/handle_room.c:166-190, 382-402` | `rooms[]`, `num_rooms`, `rooms_mutex`, the global `room` | NEW_ROOM, JOIN_ROOM, LIST_ROOMS, handle_room, close_room |
| membership | `src/handle_room.c:258-341`, `src/handle_client.c:47-75` | `players[]`, `numberOfPlayers`, `Player.client` pointers into `clients[]` | JOINED, LEFT, disconnection |
| game | `src/handle_room.c` | `inGame`, `chooser`, `word`, `mixedletters`, `revealedletters`, the alarm, sleeping threads | start_game, finish_game, reveal_letters, cb, alarm_handler |
| scoring | `src/handle_room.c:16-103` | `players[].score` | finish_game |
| multicast | `lib/multicast` | receiver (socket, pipe, `running`), sender | init, uninit, receive loop, one thread per datagram |
| messages | `src/json/formatter.c`, `src/data/*` | none | parsing and building JSON, names of enumerations |

The threads of the process are: main (accept loop; also runs the SIGALRM
handler), one handler per connection, one `handle_room` per room, one receiving
thread per room, **one short thread per datagram** that runs `cb`, and one
`reveal_letters` thread per round. `cb` and `reveal_letters` call `finish_game`,
which calls `start_game`, which sleeps 15 seconds and sets an alarm of 35; the
alarm handler calls either of them on main. All of them use the shared arrays
directly, taking the mutexes around some of the writes and almost none of the
reads: LIST_ROOMS takes none at all. The sender switches multicast loopback off, so that the process does not
hear its own datagrams.

### What is hard, and what makes each part correct

* Client table. Argument passing through the address of a local; a search
  without the mutex whose result is used under it; a removal in two critical
  sections; a full table that is passed over in silence. Correct: the count
  covers the handlers that will lower it, no access leaves the array, the table lists exactly the connections that
  are served, a thread serves its own connection, a departed client is removed, a
  handler always gets to the end.
* Request loop. What one `read()` returns is taken for one request, and TCP keeps no
  such border; `send()` to an app that has gone raises a signal nobody handles.
  Correct: every request gets its answer, an app that leaves takes only its own
  handler with it.
* Game. Check-then-act on `inGame`; three ways to end a round (guess, last
  letter, alarm) and one chain that starts the next; sleeping threads that
  outlive the round they belong to; lost and reordered datagrams; a signal
  handler that sleeps. Correct: a room is never forgotten between rounds, a round
  always ends and always has a word, at most one player is rewarded for it, no
  thread of another round interferes, there is one chooser.
* Scoring. `size_t` arithmetic, letters that repeat, bytes that are no letters. Correct: the rule of the
  comment at `handle_room.c:16-21`.
* Room registry. NEW_ROOM fills a slot in one critical section and counts it in
  another; the address of a room points into the stack frame of its handler; all
  room threads share the global `room`; a room is closed by a callback and by
  its own thread; the test for a full room comes before the datagram that fills
  it. Correct: a listed room has a thread in the group the apps were told, an
  app that was let in finds its room, no room is overfull, an empty one closes.
* Membership. `players[]` is read and written by callbacks and handlers without
  one common lock, listed without any, and its records point at slots of `clients[]`, whose entries
  move. Correct: every player has a record of its own, the players are the users
  whose apps are in the room, who disconnects is a player no more.
* Sessions. Check, then act, on `clients[]` and on the database; one `PGconn`
  used by all handlers at once. Correct: a client carries a name that was
  confirmed to it, and no other client carries it; no null is used.
* Receiver. A flag and a byte in a pipe tell a thread to end that frees what both
  sides use; numbers of descriptors are given out anew. Correct: the byte goes
  to the receiver's own pipe, a receiver listens until told to end, then ends
  and leaves nothing open.

The hazards of each part are listed, at their lines, in `PROJECT.json`.

## 2. Modules

| module | what it is |
|---|---|
| `ClientTable` | main's accept loop and the end of `handle_client` |
| `Requests` | the loop of `handle_client` for one connection |
| `Connections` | abstract specification: a set that is entered and left one by one; implemented by `ClientTable` and by `Members` |
| `Game` | the rounds of one room |
| `Scoring` | the points of one round |
| `Rooms` | the registry: NEW_ROOM, JOIN_ROOM, the room threads, `close_room`, `cb` as far as it changes the registry |
| `Members` | `players[]` of one room, with the entries of `clients[]` its records point at |
| `Sessions` | SIGN_IN and SIGN_UP |
| `Receiver` | `multicast_recv.c` |
| `MC...` | instances for TLC: symmetry sets, views, enumerated values |
| `ClientTableProofs`, `GameProofs`, `ScoringProofs`, `RoomsProofs`, `MembersProofs`, `SessionsProofs`, `ReceiverProofs`, `RequestsProofs` | theorems and proofs |

The parts are composed where they share state: `Members` contains the moves of
`clients[]` as single steps beside the callbacks, `Rooms` the handlers' stack
frames, the room threads, the multicast groups and the apps, `Sessions` the
table of clients and the database. `Game` takes the rest of its room for granted.

### ClientTable

`mainPc` and `pc[t]` are the places in the loop of main and in the handlers where
another thread may come in. A step is one access to shared data outside the
mutex, one iteration of the search (`Scan`), one structure copy of the removal
loop (`Shift`), or one short critical section with nothing slow in it
(`AddClient`, `Decrement`). Correspondence: `Accept`/`AcceptFails` main.c:118-133;
`AddClient` 135-147; `Spawn`/`SpawnFails` 149-159; `ReadArgument`
handle_client.c:11; `ReadError` 26-30; `EndOfFile` 31-39; `Scan` 39-42;
`LockTable`, `Shift` 80-90; `Decrement` 92-96; `Close` 371. What a handler does
with requests leaves this state alone and is left out; of `Client` only the
socket is kept. `Sockets` are descriptors; a closed one may be returned again by
`accept`. `HangUp` is the peer.

`disturbed` is a history variable. It becomes true when a step meets half-done
work of another thread (an accept while an argument is unread, a lock while
another handler is between its search and its removal, an addition between the
two critical sections of a removal) or when the program gives a connection up (a full table,
a failing `pthread_create`). Each case is one that breaks the table; the
properties named "...WhenCalm" say that nothing else does.

### Requests

The loop for one connection. `stream` is what TCP has under way, a sequence of pieces: a
text is cut into a few, the first of which holds its opening brace and the last its
closing one. `Read(k)` returns any number of them that fits into the buffer, so that a request may
come in parts and several may come together; `UpToZero` is where `strlen` and the parser stop, for
an app that ends its texts with the zero byte of its string. Correspondence: `Read` with `Handle`
handle_client.c:23-24, 98-134; `Serve` the answers of 137-368 (two of NEW_ROOM before signing in, none
to an unknown type); `ReadError` 26-30; `EndOfFile` 31-39; `SendAnswer` every
`send`, whose result is never looked at. `AppCloses` and `Refused` are the app and its kernel: after the
app's end the first answer is refused, and one after that raises SIGPIPE; if the app left answers unread its
kernel resets the connection at once, which is reported as an error once. `torn`, `eager` and
`twofold` are history: a read returned other than one whole request, a request was sent before the last
one was done, one request got two answers.

### Game

One room. `at[p]` and `left[p]` say where each thread is and how long it still
sleeps. The steps run from one interesting point to the next: the sleeps, the
start of a created thread, in `finish_game` the test of `inGame`, the end of the scoring, the end of the
second critical section and `start_game`, and in JOINED the count and the test for the second player. Between
those points a handler takes microseconds, against sleeps of
15 seconds; races on `players[]` inside them are the subject of `Members`, and
the one with a chooser who leaves between lines 209 and 217 is left out. `players` is the set of the users who play:
their order is in `Members`, their points in `Scoring`, and their status, which is written and never read, nowhere.
Correspondence:

| code | action or operator |
|---|---|
| `start_game` up to its sleep, :196-202 | `StartGame` |
| `start_game` after it, :203-236 | `NameChooser`, `SetAlarm` |
| `finish_game`, the test, :22-27 | `CallFinishGame` |
| `finish_game`, first critical section and scoring, :28-104 | `ScoreGame`, `ScoreGameFaults` |
| `finish_game`, second critical section, :106-111 | `ClearGame` |
| `finish_game`, the next round, :113-114 | `NextGame` |
| `reveal_letters`, :123-163 | `RevealBegins`, `RevealLetter`, `RevealLast`, `RevealStops`, and the two that dereference null |
| second `free(mixedletters)`, :161 | `Return`, for a thread in `freed` |
| `cb` JOINED, up to the count :260-288, and from there :289-306 | `Joined`; `JoinGoesOn`, `JoinFaults` |
| `cb`, the other datagrams | `Left`, `Guessed`, `WordChosen` |
| `cb` WORD_CHOSEN whose `pthread_create` fails, :374-378 | `WordUnstarted` |
| `alarm_handler`, :408-414 | `AlarmRings` |
| end of file in `handle_client` :47-75 | `Disconnected` |
| the room closes, empty or by `WordUnstarted`, and its slot is taken anew | `Reopened` |

A word is its length; `asked` holds the apps that received NEW_CHOOSER (the
datagram may be lost) and have not answered. A WORD_CHOSEN that is late is
delivered at any later time; datagrams have no order. `fault` is the way the
process dies: `null` (a null pointer used, or `players[-1]`) or `free` (the double free, which the
allocator detects unless the block has been handed out again, hence a choice).
A dead process takes no step.

Time is discrete: `Tick` lets a second pass for all sleeps and the alarm, and
only when no thread is ready to run. So threads are fast compared with a tick,
but within one tick ready threads, datagrams and the alarm come in every order.
(A callback between its count and its test is the exception: time may pass over it.)

Three history variables name what the properties exclude. `disturbed` becomes true when two threads are at work on
one round or pause: two in `finish_game`, a guess before the reveal thread has begun, a second
`start_game`, a word from one who is not the chooser or in the very tick at
which another thread is ready to run; when a player leaves while a JOINED is between its count and its test; and when a word gets no
thread. `CalmRound`, `RewardedOnce` and `RoundHasWord` hold until then. `crowded` becomes true when a JOINED is
counted before the test of another, and `unlisted` when a word gets no thread and the room is closed, until
the slot is taken anew; they concern `NotStalled` and `ChooserNamed`, `RoundWillEnd` and `GamesEnd`, which hold
however disturbed the rest.

### Scoring

`finish_game`'s arithmetic on real sequences of letters, for one player. A word comes with its
`mixedletters`, which the server takes from the app unseen: they may be other letters than the word's, more or
fewer. `RevealLetter` appends a letter and what lies behind the `char` whose address `strcat` is given: `Strays` are
the sequences this may be, any of them each time. That such bytes may run over the end of `revealedletters` in
the heap is left out. `ToSize` and `ToInt` are the conversions
to `size_t` and `int`, of any widths: `SIZE_MAX` and `INT_MAX` are constants.
`ChooserScore` has the conversions of C (the difference is a `size_t`, hence
never negative, and the test `> 0` only fails for 15 letters), `GuesserScore`
the double loop as a set of pairs; `GuessFaults` is a guess before the first step of `reveal_letters`, when
`strlen` is given a null pointer (:73).

`ScoreAsDocumented` is the exact rule of the comment at `handle_room.c:17-21`. It excludes, and so names, the
cases in which the code departs from it: a chooser's word of more than 15 letters, a word in which a letter
repeats, mixed letters that are not the word's, a letter of the word among the stray bytes (`smeared`), and sums that are no `int`. For every guess it says that
it never has more than the length of the word.

### Rooms

`pc[u]` is where the handler of user `u` is, `rpc[r]` where room thread `r` is.
`rooms[i].address` holds the user whose stack frame the pointer leads to, and
`buffer[u]` what is there: the last number of `239.0.0.n`, or 0 for anything
else. `inside[u]` is the room the app believes to be in; `net` holds the JOINED
and LEFT datagrams, which may be late, reordered or lost.

| code | action |
|---|---|
| NEW_ROOM, first critical section, handle_client.c:328-350 | `FillRoom`, `FillRoomOutside` (no slot left) |
| `pthread_create`, then the second one | `CreateThread`, `CountRoom` |
| JOIN_ROOM | `JoinRoom`, `JoinRoomFaults` (a slot that was never filled) |
| end of file | `Disconnect`; `Reconnect` may get the same stack |
| `handle_room`: start, look, end | `RoomStarts`, `SeeEmpty`, `RoomCloses` and their faults |
| `close_room` | `CloseRoom` |
| `cb` | `CbJoined`, `CbLeft`; WORD_CHOSEN whose `pthread_create` fails, handle_room.c:374-378, `WordFails` |

A user who is not signed in (`Anonymous`) gets the error message of NEW_ROOM and
the room all the same, and is passed over at the end of file. `disturbed` becomes true when
rooms meet: a slot is filled while another room is opening, running or has
datagrams under way, the handler whose frame holds a listed address ends, a
receiver fails, a JOINED is lost or meets the end of its room, a word gets no thread and `cb` closes the room over its
players, and so on. `crowded`: two
JOINED were under way at once.

### Members

Steps are the accesses to `players[]` and `numberOfPlayers` between which another
thread may come in: of `cb` JOINED `JoinBegins` (record behind the last player, client
searched), `JoinSets`, `JoinCounts`; of LEFT `LeftBegins`, `LeftClears`, `LeftRemoves`, `LeftGoesOn`
(the loop does not stop at the player it has removed); of the end of file
`QuitBegins`, `QuitClears`, `QuitRemoves`, `Unlist`. A removal is two steps under the mutex of the
room (`Clearing` is who holds it), because readers take none: between them the record, or its client, is
null. `ListFaults` is LIST_ROOMS or JOIN_ROOM in formatter.c dereferencing such a null. The `...Faults` actions are the
null pointers and the wrap-around of the unsigned count. A record carries the client
it points at and, as history, the user it was made for.

The apps and the network are external. `inside` is who is in the room as the apps have it (`AppJoins`, `AppLeaves`,
`OpenRoom`, the end of file), and the callbacks never touch it; `sent` are the datagrams on their way. Each may be
lost (`Lose`), stay on its way when it arrives, and so come again (`Arrives`), overtake another, and come when its user is
no longer connected or the room is empty. `stage` is whether the room is in `rooms[]`, or dropped from it while its receiver is
still there (`RoomEnds` is its thread, which ends both). A JOINED whose user is in no entry of `clients[]` leaves
the local `client` unset (handle_room.c:274-284): `JoinBegins` then takes any value for it.

History: `overlapped`, two threads were at work at once; `shifted`, an entry left `clients[]` and one that a player
points at moved; `strayed`, a datagram was lost, came twice, met another of its user under way, or came to a room that was not
listed; `stranger`, a JOINED came from no entry of `clients[]`; `told` is what the datagrams taken so far
say of each user. `RecordsSoundAlone` excludes the first and the last of these only; `PlayersAreInside` and `ImplementsSet` exclude all of them
(`disturbed`) and say so.

### Sessions

A request is a sequence of steps: the query (`SignIn`, `SignUp`, `NotTaken`), its
answer (`SignInRefused`, `SignInFound`, `Taken`, `Insert`), the look through
`clients[]` (`CheckSession`, one iteration of handle_client.c:168-178 each), `find_client_by_socket`
(`FindClient`, one iteration of globals.c:18-24 each) and the writing of
the name through the pointer it returned (`EnterName`). Between any two of them connections are
accepted (`Connect`) and removed: `EndOfFile`, `Scan` (an iteration of the search without the mutex), `Shift` and
`Decrement`, the two critical sections. `clients` is `clients[]` as far as it is counted, so that after `Shift` the
last entry is there twice until `Decrement`. `Shift` is one step, since a loop over `clients[]` that it
meets is one of the cases of `disturbed` and accepts wait for its mutex. Two `PQexec()` on one
connection at once are outside what libpq allows: who overlapped (`crossed`) may be given its own
rows, none, or those of another's query. Any query may fail, which the code reads as
no rows, and an insertion that fails may have been done or not. The keys of the table `users` (main.c:52-57)
refuse a second row with an email or a name. `proved` is history: the names the database has confirmed.
`disturbed` becomes true when queries overlap, when a handler comes to its check while another checks or writes a
name, when entries are shifted while another handler is in a search or holds what it has found, when a connection is
accepted between the two critical sections of a removal, and when the full table passes one over.

### Receiver

`owner[d]` says what a descriptor is: a part of a receiver, a client, or free; the
least free number is given out. `room[r]` is where the thread of the room is in
`mc_receiver_init` (every call of which may fail) and `mc_receiver_uinit`
(`ClearRunning`, `CancelSelect`), `pc[r]` where the receiving thread is in `_recv`.
After `FreeReceiver` the number `rc->pipe[1]` is read from freed memory and may be any.
A write to another's descriptor is remembered in `stray`; one to a pipe whose reading end is closed
raises SIGPIPE. A thread that cannot be created (`multicast_recv.c:185` for the receiver, `:98` for a datagram) is
detached all the same, through a `pthread_t` nobody has set: that goes unnoticed or ends the process (`JoinFaults`,
`TakeFaults`). A number from `FD_SETSIZE` on is written outside the `fd_set` (`SetFaults`), or `select` never looks at it
(`Waits`). Each descriptor is closed by who has opened it: a handler that closes another connection's number, to which an
overwritten argument (`client_own_handler`) may lead, is not in this module. `disturbed`: a receiving thread saw the flag between the two steps of `mc_receiver_uinit`.

## 3. Runs

| run | question | result |
|---|---|---|
| `client_table` | `CountCoversHandlers`, `InBounds`, `ExactWhenCalm`, `OwnHandlerWhenCalm` over every interleaving, and `ImplementsSet`: the table implements `Connections` until disturbed; the liveness property `HandlersFinish` | pass |
| `client_own_handler` | each thread serves the connection it was created for | **violated** |
| `game` | `NotStalled` (but for two JOINED counted at once), `RoundWillEnd` (but for a `pthread_create` that fails), `AlarmFindsMainIdle`; until disturbed `RoundHasWord`, `CalmRound`, `RewardedOnce` | pass |
| `game_live` | the liveness properties `GamesEnd` and `ChooserNamed`, with the same two exclusions | pass |
| `scoring` | `ScoreAsDocumented`: the points of the comment, but for long words, repeated letters and stray bytes; a guess never has more than the length | pass |
| `rooms` | `ServedWhenCalm`, `InsideIsListed`, `NotOverfullAlone`, and the liveness property `EmptyRoomCloses` | pass |
| `rooms_unwatched` | some thread looks at every empty room | **violated** |
| `members` | `RecordsSoundAlone`, whatever datagrams do; `PlayersAreInside`, and `ImplementsSet`: the players implement `Connections` too | pass |
| `members_departed` | a client that has disconnected is no player any more | **violated** |
| `sessions` | `NameIsOwnWhenCalm`, `OneSessionWhenCalm`, `NoFaultWhenCalm` | pass |
| `requests` | `OneEachWhenWhole`, `DiesOnlyOfTwo`, and the liveness properties `AnswerComes`, `HandlerEnds` | pass |
| `receiver` | `ByteArrivesWhenCalm`, `ListensWhenCalm`, `NothingLeftOpen`, and the liveness property `ReceiverEnds` | pass |

Every passing run but `scoring` and `game_live` also checks the `TypeOK` of its module. The properties named
"...WhenCalm" or "...Alone" hold until a history variable says that a step has met
half-done work of another: they say that the cases this variable names are the
only ones in which the code goes wrong.

### Bounds, and why they are enough

* `client_table`: two handler threads beside main, three descriptors, a table of two:
  two removals meet, one meets an addition, and a table of two is the least that is
  shifted. Every property of this run but `HandlersFinish` is also proved
  for any number of them. `client_own_handler` has more threads, and symmetry.
* `requests`: three requests of every type and a buffer of four pieces, which is two short requests,
  so that a read can return one, a part, two, or the end of one and the beginning of
  the next; `LONG` is one piece more than the buffer. With three requests a third one follows two that came together.
* `game`: three users, so that a chooser can leave a game that goes on and two JOINED can be counted at once; two
  threads beside main, so that a reveal thread meets a callback; words of two
  letters, so that there are a first and a last one; two rounds, so that threads of
  one reach the next. `SLEEP = 2` and `ALARM = 5` keep what matters of 15 and 35:
  the alarm outlasts two sleeps and not three, and no multiple of the sleep hits it.
  `game_live` has two users, one round and words of one letter, for liveness is costly to check; that nothing but two
  JOINED counted at once stalls a larger room is in the invariant `NotStalled` of `game`, and in its theorem.
* `Stray` is the number of bytes `strcat(revealedletters, &temp)` copies beyond
  the letter. `temp` is one `char` with nothing after it that the code
  determines; the builds tried (GCC on x86-64) append two (-O0) and six (-O2).
  `game` takes none or one at each letter, `game_live` none.
* `scoring`: all words of one and two different letters with any mixed letters up to two, words of three in all mixed orders, one with
  a repeated letter, and 15 and 16 letters, at the boundary of the chooser's rule; stray bytes are none, one that is in no word, one
  that may be in the word, or two, at most two in a round.
  `SIZE_MAX = 4095`, `INT_MAX = 127` keep the two conversions of 64 and 32 bits and the wrap-around.
* `rooms`: two signed-in users and an anonymous one, two room threads, an array of two rooms for
  two players each, two datagrams under way: two rooms can be opened at once or
  after one another, a third one goes beyond the array, and a full room meets one
  more JOINED. Once `disturbed`, apps make no further move (`SettlingSpec`) and what is
  under way comes to its end, since no property is claimed after that; the violated run
  uses no such cut.
* `members`: three users and two seats, so that the room can be full and a player stands in front of or behind the one that
  leaves, with at most two datagrams on their way (`FewOnTheirWay`): one can overtake, double or outlive another. Once two threads
  have overlapped or a stranger has joined, nothing new begins; what is under way runs to its end (`SettlingSpec`). `members_departed` has three
  seats.
* `sessions`: three connections and a table of two, so that one is passed over and a removal moves an entry; two
  users that want one name, two that have one email, one of them called Anonymous.
* `receiver`: two receivers and seven descriptors, so that both can be open at once
  or one be opened on the numbers of the other, the last of them not below `FD_SETSIZE`; one other connection at a time; one
  datagram waits.

Symmetry is over users, threads, connections, and used in no run with a liveness property.
`members` and `sessions` have a VIEW that leaves out what no later step reads: the
number of a heap record, what an idle handler has freed, and history after it is of no more use.

### Fairness

`ClientTable`: weak fairness for what a scheduled thread can always do, strong
fairness for steps that need `clients_mutex`, which others keep taking and
releasing: a pthread mutex gives no order, but a thread that asks again and
again for a mutex that is free again and again is served under any real
scheduler. Nothing is assumed of peers (`Accept`, `HangUp`) nor of `ReadError`.
`Game`: each ready thread runs, the signal is delivered and time passes (weak fairness of `Runs(p)` for each thread, of `AlarmRings` and of `Tick`);
no client need ever act. `Rooms`: handlers that have begun and room threads run (a
room thread looks once a second, whatever happens); apps, and the network, need do nothing.
`Receiver`: the two threads of a receiver run; a room need not end and no datagram
need come. `Requests`: the handler runs; the app need send nothing and read nothing. All
these are weak: no lock is contended in them.

`CHECK_DEADLOCK FALSE` appears where a behaviour may end: `scoring` after its rounds,
`rooms` and `members` when apps have stopped, `receiver` when both rooms are done, `requests` when the connection is over.

### Disagreements between code and comments

Each is a run with `expect = violation` and a row of "findings".

1. `main.c:151` passes `&client_socket`; the next `accept` overwrites it before the
   thread reads it (`client_own_handler`).
2. `handle_room.c:384`: every room thread sets the one global `room`, and from then on
   all of them look at that room. One that becomes empty after another was opened
   is closed by no one, against the comment at `handle_room.c:167` (`rooms_unwatched`;
   `ApartSpec` excludes two NEW_ROOM at once, another way to get there).
3. `handle_client.c:53`: the player of a user who disconnects is searched by the name its
   record's slot shows, and entries of `clients[]` have moved since. It stays a player,
   against `handle_client.c:36` (`members_departed`; `OneByOneSpec` excludes
   every overlap of two threads).

Seen while modelling, without a run of their own; the "...WhenCalm" properties name each as
a case in which they do not hold, or the models reach the fault:

* Two requests that come in one read are taken for one, and the second is dropped in silence if the text still
  ends in a brace, or both are refused if not; a request in two reads is refused twice (`handle_client.c:24, 115`). An app
  that waits for each answer and ends no text with a zero byte can still be cut in parts.
* A second answer to an app that has gone raises SIGPIPE and ends the server for all (`DiesOnlyOfTwo` says when).
* LIST_ROOMS and JOIN_ROOM read players without a lock and dereference the null client of one that is being
  removed (`formatter.c:82, 143`); `formatter.c:141` only looks for a null record.
* An index found without the mutex is used after another handler has shifted `clients[]`,
  and an entry added between the two critical sections of a removal falls out of the
  counted part (`handle_client.c:39-42, 80-96`).
* The retry after a lost NEW_CHOOSER may choose the same player, where the comment at `handle_room.c:405` says "another"; no alarm is reset
  where the comment at `:356` says so.
* Two JOINED that are both counted (`handle_room.c:287`) before either is tested (`:301`) make three players of one, and none of them was the
  second: no pause begins and no alarm is set, until the room has fallen back to one player and another joins (`NotStalled`).
* A WORD_CHOSEN between the two critical sections of `finish_game` (`:28-30, 106-111`) has its word cleared while its game is
  on (`RoundHasWord`).
* `strcat` from the address of a single `char` (`:145`) reveals bytes that are no letters; a double free after the last
  letter (`:154`, `:161`), modelled as `fault = "free"`.
* Letters that repeat count in pairs (`:83`), so that a guess may cost points; the test at `:54` does not keep the chooser of a word of
  more than 15 letters from losing some, which is what it is there for; `:73` measures the revealed letters before it asks if
  there are any, and a guess before the first step of `reveal_letters` ends the process (`ScoreAsDocumented`, `CalmRound`).
* JOINED of a user who is in no entry of `clients[]`, for it has disconnected since or has never signed in, stores a pointer
  that was never set (`:274-284`); a JOINED that comes to a room dropped from `rooms[]` fills it all the same.
* One account can be signed in twice, by two handlers between `handle_client.c:168` and the
  writing of the name, or because a removal moves its name down past the index of the check; the name is written
  through a pointer that may show another client by then.
* `find_client_by_socket` can miss a client that is listed, when entries move down during its loop, and one that was
  accepted between the two critical sections of a removal; the null is used at `handle_client.c:183, 241`.
* A user may sign up as "Anonymous", the name of every client that is not signed in: SIGN_IN then finds
  its own client under that name and answers "Already logged in" (`handle_client.c:168`).
* A word for which no thread can be created closes the room with its players inside, while the game is on
  (`handle_room.c:369-378`); the apps hear nothing of it.
* NEW_ROOM of a user who is not signed in opens the room; nothing compares `num_rooms` with
  `MAX_ROOMS`, nor a JOINED with `maxPlayers`.
* A thread that could not be created is detached (`multicast_recv.c:98-99, 185-186`), and the receiver goes on as if it had
  one; nothing compares a descriptor with `FD_SETSIZE` (`:73-77`).
* In a receiver, use after free and SIGPIPE, both in the window between flag and byte; the pipe stays open when
  `bind` or joining the group fails, and `handle_room` then hands a null to `mc_receiver_uinit`.

## 4. Theorems

All are checked by TLAPS for every value of the constants that satisfies the
assumption of the module (`ClientTableAssumption`, `GameAssumption`, ...). Those say that bounds are numbers, the null
values are not members of the sets they complete, the arrays are not empty,
that a pause is shorter than the alarm (15 < 35), and of sets that cardinalities are taken of that they
are finite: of threads (in `CountCoversHandlers`), of connections (in `Sessions`) and of users (in `Members`, where an array must have room for all).
`ScoringAssumption` says that `size_t` is wider than `int` by a whole factor, that it holds 15 and that
a word is no longer than `INT_MAX`; nothing is assumed of `mixedletters`.

The inductive invariants named below hold on the instances of the runs too, where TLC was used to find them;
what is said of each is why the property alone is not inductive.

`ClientTableProofs`
* `TypeCorrect` and `BoundsCorrect`. `TypeOK` alone is not inductive: the copy in
  `Shift` reads `clients[pos + 1]`, inside the array only because `Bounded`
  (`num_clients <= MAX_CLIENTS`) holds. `Bounded` is inductive because `AddClient`
  tests in the critical section in which it writes. `InBounds` then follows, since the
  loop's own condition is read again before each copy.
* `CountCorrect`. Inductive with the types: a handler joins `Remaining` in `Spawn` alone, when main already
  expects it, and leaves it in `Decrement` alone, together with the count.
* `OwnHandlerCorrect`. The invariant `Owners` adds that the live threads own different
  open descriptors and that an unread argument still is the connection of the one
  thread that has not read it. Without the first part one thread could close
  another's descriptor; without the second the argument could be stale at `ReadArgument`.
* `ExactCorrect`. On top of `Owners` the invariant has three parts. `MutexHeld`: the removal loop is where
  `clients_mutex` is held, so that there is one. `Exact`: the first `Settled` entries (those counted less those
  being removed), read around the gap of the loop (`Entry`), are the served connections, each once. `Search`: a
  handler that searches has its entry ahead of its index, and none moves meanwhile. The last one needs
  `~disturbed`, and is where the code relies on luck: the search takes no mutex.
* `SetCorrect`, the refinement: `Spec => ImplementsSet`. With `EndSeen` (a handler that searches has seen its
  peer close) every step is a step of `Connections` or none: `AddClient` enters, `LockTable` leaves, `HangUp`
  is the peer's going, `StepSimulated` collects them, and a disturbed state stays so.

`GameProofs`
* `TypeCorrect`, with lemmas for the set of players (join, leave, a room opened anew).
* `NotStalledCorrect`. Inductive with `TypeOK`: every path that takes `inGame` to
  false or the number of players to two is in the hands of a thread that is on its way to `start_game`'s sleep (`Starters`, or the
  JOINED between its count and its test), and the sleep leads into the alarm. A second JOINED in that place is what `crowded` excludes.
* `RoundWillEndCorrect`. Inductive with `TypeOK`: a thread leaves `Working` only where `inGame` is false, whoever else
  finishes the game, and the one step that makes a game without adding to it is the `pthread_create` that fails.
* `AlarmFindsMainIdleCorrect`. `MainInv` bounds the remaining sleep of main by the
  remaining alarm: when main sleeps no alarm was pending, and one set later takes `ALARM > SLEEP`.
* `RoundHasWordCorrect`, `CalmRoundCorrect`, `RewardedOnceCorrect`, from `CalmInv`. Undisturbed, at most one thread is about to begin
  a reveal or is in `finish_game`, and while it is between the two critical sections no word can come, for no alarm is set (`OneEnding`), at most one is in the pause, and none
  beside an alarm (`OnePause`), and a round has one reveal thread with the room's own word (`OneReveal`). The part that
  makes it inductive is about time: what a reveal thread of an earlier round has left to sleep is over
  before the pause is (`RevealsEndFirst`), since both sleep 15 seconds and it fell asleep first. So it
  has seen `inGame` false and ended before the next word can come; no line of the code waits for it.
  An empty word is why `CalmRound` has `word = 0`: its reveal thread counts to one all the same.

`ScoringProofs`
* `ScoreCorrect`: the rule of the comment at `handle_room.c:17-21`, for every word, mixed letters, stray bytes, score and widths. Lemmas
  about remainders show that the unsigned sum of `15 - strlen(word)` and the score comes back
  to the integer it stands for when it is made an `int`, as long as that is one. The double loop counts pairs: their number is that
  of the revealed bytes which are letters of the word, if no letter repeats (`MatchesIs`), and those are the letters revealed so far
  as long as each is one of the word's and no stray byte is (`Revealed`, one more with each step by `OneHitMore`).

`RoomsProofs`
* `TypeCorrect`. Inductive as it stands: `close_room` tests `room < num_rooms` in the
  step in which it reduces `num_rooms`, so that it can be called twice.
* `ServedCorrect`, `InsideCorrect`, both from the invariant `Calm`: undisturbed there is at most one
  room, in slot 0, and one room thread (`OneRoom`); a handler that is opening a
  room finds what it put there, and the thread it has created (`Opened`); a counted
  room has a thread, in the group its address still shows (`Counted`); who is inside is a
  player or has its JOINED under way, and no LEFT (`Inside`). The last part is what makes
  `InsideIsListed` inductive: a room that closes for want of players has no one inside.
* `NotOverfullCorrect`, with `Fits`: the one JOINED under way still finds a place, because JOIN_ROOM looked at the
  room when no other was. A room opened with `maxPlayers = 0` has its creator in it all the
  same and is overfull from the beginning; the property is about the others.

`MembersProofs`
* `TypeCorrect`. That a free record is found needs a pigeon-hole: there is one more than seats.
* `RecordsCorrect`, from `TableInv` (`clients[]` lists the connected users, each once) and `Sound`: until
  two threads overlap or a stranger joins (`Tidy`) one user at most is at work, it still holds the seat it came for (`Placed`),
  and only the record it is removing may dangle. The record a JOINED fills lies behind the counted ones, which is why
  nobody sees it half-filled. What datagrams are lost, doubled or late plays no part in it.
* `PlayersCorrect`, from `Named` and `Mailed`. `Named`: as long as besides no entry of `clients[]` has moved under a player
  and no datagram has strayed, each goes by its own
  name and no two by the same one, and a user has a player exactly if the last datagram taken from it says so (`told`) or its disconnection
  is still being handled. Names are what the loops of `cb` and of the end of file search by, so that they
  remove the one that has to go, and go on behind it without removing another. `Mailed` relates that to the apps: a user with nothing on its way
  is told of exactly if its app is inside, a JOINED on its way is of an app inside that is not told of, a LEFT of one that is not inside
  (`Heard`). It is here that a datagram lost, doubled or overtaken would break the claim, step by step in `HeardStep`.
* `SetCorrect`, the refinement: `Spec => ImplementsSet`. The players map to the members of
  `Connections`, those that are being removed to its leavers; `OpenRoom` and `JoinCounts` enter, `Quit...` and `Left...` go and leave,
  and every other step, faults included, is a stutter or disturbs.

`ReceiverProofs`
* `TypeCorrect`, with `Holding`: which parts a receiver has open at each place of its two threads.
  `TypeOK` says that a descriptor has one owner, which needs that a receiver opens a part only
  while it has none.
* `ByteArrivesCorrect`, `ListensCorrect` from `Holding` and `Calm`: undisturbed no byte is in a pipe
  before its own room has sent it, so no thread leaves its loop before, and all parts are
  still open when the byte is written, and a datagram in the socket is one that `select` sees. Every write then goes to the writer's own pipe, which
  is why one receiver's end cannot become another's.
* `NothingLeftOpenCorrect` from `Holding` alone: it holds however disturbed.

`SessionsProofs`
* `TypeCorrect`. That no two users share a key rests on the keys of the table, not on the two
  queries before the insertion. Lemmas say what `RemoveAt`, `Front` and a change of name leave of `clients[]`.
* `NoFaultCorrect`, `NameIsOwnCorrect`, `OneSessionCorrect`, from `Inv`. However disturbed, a confirmed name is in the
  table (`Known`). Undisturbed, the first `Settled` entries, those that are left when the removals at work have lowered
  the count, are the connections that are served, each once (`Listed`, `Once`); a search has not gone past its
  client (`Ahead`) and what it has found is its client (`Pointed`). A name a handler goes on with is confirmed (`Confirmed`),
  no other handler goes on with it (`Apart`), and no entry its check has passed carries it (`Unwritten`): connections
  that come meanwhile are Anonymous and names written meanwhile are others. SIGN_UP does not look through `clients[]` at
  all; `Known` and the keys of the table are why its name is new there all the same. The entries behind `Settled`, old
  copies a removal has left, can refuse a SIGN_IN but are found by no search, which meets the entry in front first.

`RequestsProofs`
* `TypeCorrect`, from `Typed`, which adds that the pieces under way are of requests that were sent. Lemmas say
  that a text is never empty, that what the loop takes of a read is a beginning of it (`UpToZeroIs`, by a
  least element), and that every way to answer leaves the types alone.
* `DiesCorrect`, from `Patient`: with whole requests, an app that waits and one answer each, there is one request under way
  or one answer to come, never both, and neither once the app's end has refused something. So the
  answer that would raise SIGPIPE does not exist.
* `OneEachCorrect`, from `WholeStream`: as long as reads return whole requests, what is under way is whole requests
  in the order they were sent (`Block`), so that a read that begins with one ends with it. What was told, in order,
  are the answers of the requests read so far. The app need not wait: only reads and answers are counted.

## 5. Only model-checked, or out of reach

Every invariant, the two refinements and the action property that the passing runs check are proved. Left to TLC:

* `HandlersFinish`, `GamesEnd`, `ChooserNamed`, `EmptyRoomCloses`, `ReceiverEnds`, `AnswerComes` and `HandlerEnds` are liveness
  under fairness, which the prover does not reach.

## 6. Not modelled

* `lib/json-c` and `lib/libpq-standalone` are vendored copies of two libraries and
  are 97 of 100 lines of the repository. The program's own code, `src/`, is about
  1400 lines, and `lib/multicast` 280. libpq appears as what its answers may be
  (`Sessions`; the SQL text, which `sprintf` puts into a `query[256]` with the fields as the app sent them, is not modelled: a
  query that is longer, or that means another thing for what a field contains, is not enumerated), json-c as what `parseRequest` makes of a buffer (`Requests`); neither keeps
  other state the program depends on.
* `multicast_send.c`: a socket that is opened, written to and closed within one call. Its datagrams are
  what the models call sent, and may get lost. `formatter.c` and the enumeration names are stateless conversions.
* What LIST_ROOMS and roomToJson put into their answers, and log output; that they read players without a lock is
  in `Members`. `Requests` takes a client to be in the table (see `Sessions` for one that is not), and what
  a request lacks (a missing field is a null pointer in `strcmp`) is not enumerated.
* With a negative `num_clients`, which the code allows (hazard at `handle_client.c:94`), main
  writes in front of the array: that memory is not modelled, and `InBounds` is about the other end.
* `Game` takes every player to be connected and its room to be the only one. What becomes of
  two games that share the global `room` is not modelled: `Rooms` shows when they do.
* What `strcat` writes behind the end of `revealedletters`, copies of a `Room` whose mutex is held (`close_room`), and what overlapping `PQexec()` calls do
  to memory, are undefined beyond any model.

## 7. Plan

Done: `ClientTable`, `Connections`, `Game`, `Scoring`, `Rooms`, `Members`, `Sessions`, `Receiver`,
`Requests`, with the theorems above. Left, most valuable first:

1. The safety half of the liveness properties: that a step which is to come stays possible until it is
   taken (a receiver that has its byte, a room that is seen empty, a handler whose read is done).
2. What holds once disturbed, besides types: which faults each kind of overlap can lead to.
