# QQ-Copy: TLA+ specifications

QQ-Copy is a chat application: a C++ server (Boost.Asio, MySQL, Redis) and an
Android client (Java activities over a C++ core reached through JNI). This
directory holds TLA+ models of its parts, the TLC runs that check them and the
TLAPS proofs about them. `PROJECT.json` lists components, runs, mutants,
hazards, findings, theorems, and for every definition the lines it models.

## The system

| Part | State | Operations | Talks to |
|---|---|---|---|
| `ChatServer`, `ConnectionManager`, `Connection` (server/src) | `connections_`, `user_to_conn_`, per connection `user_id_`, buffers, `write_buffer_` | accept, read header, read body, send, write, stop | sockets, `MessageHandler` |
| `MessageHandler` | none of its own | one handler per command | registry of connections, database, cache |
| `DatabasePool` | queue of MySQL connections | `get_connection` and the deleter of its handle; one SQL statement per function | MySQL, tables of `sql/init.sql` |
| `CacheManager` | keys in Redis | set online, set connection id, count unread | Redis; the server reads nothing back |
| `ProtocolCodec` (one per side) | none | encode and decode packets | `Connection`, `ChatClient` |
| `ChatClient` (android cpp) | socket, `running_`, `connected_`, callbacks, `read_buffer_` | connect, disconnect, requests; worker thread | server, bridge |
| JNI bridge `native-lib.cpp` | `g_client`, `g_mutex`, `g_service_obj` | `native*` calls down, `notify_*` calls up | `ChatClient`, `ChatService` |
| `ChatService`, activities, update dialogs (Java) | one listener slot, current user, lists on screen, a download | calls into the bridge, callbacks | bridge, Android |
| `main.cpp`, scripts | configuration | start, stop on a signal | everything |

What makes the parts correct, and where it is hard:

* **Sessions.** A user has one session, its notifications reach it, and it ends
  when the end of the connection is reported. Handlers run one at a time on the io_context thread,
  but a connection is at once a read chain, a list of posted lambdas and a chain
  of writes; each of them may find the connection stopped by another.
* **Output.** Packets posted by handlers of several connections leave one
  connection in order, once each, with one asynchronous write at a time.
* **Accounts and friends.** Handlers run several statements that commit one by
  one. A statement can fail, or take effect without an answer; the server can
  die between two.
* **Pool.** A connection serves one caller at a time and finds its way back on
  every path; wake-ups are not lost.
* **Client core.** Two threads, two mutexes taken in both orders, a join under a
  mutex, a socket used without one.
* **Wire.** Each side has its own `ProtocolCodec`; the encoder of one and the
  decoder of the other must agree on order, width and limits of every field.
  `recv` cuts the stream anywhere, and `read_buffer_` outlives a connection.
* **Screens.** One listener field for all activities, a service that exists only
  while somebody is bound, callbacks that run later on the main thread: what an
  answer finds depends on the life cycle of two activities at a time.

## Modules

| Module | Models | Checked by |
|---|---|---|
| `ChatSessions` | `chat_server.cpp`, `connection_manager.cpp`, the session part of `message_handler.cpp` | `MCChatSessions` with five configurations |
| `OutboundQueue` | abstract: what `Connection::send` promises | property `OutboundSpec` of `ChatSessions` |
| `Presence` | abstract: what sessions promise to users | property `PresenceSpec` of `ChatSessions` |
| `ChatSessions_proofs` | theorems about `ChatSessions` | TLAPS |
| `Accounts` | the handlers and statements on the users and friends tables | `MCAccounts` with two configurations |
| `Accounts_proofs` | theorems about `Accounts` | TLAPS |
| `DatabasePool` | constructor, `get_connection`, deleter | `MCDatabasePool` |
| `DatabasePool_proofs` | theorems about `DatabasePool` | TLAPS |
| `NativeClient` | `chat_client.cpp`, `native-lib.cpp`, the life cycle of `ChatService` | two configurations |
| `NativeClient_proofs` | theorems about `NativeClient` | TLAPS |
| `Framing` | `ProtocolCodec::encode` and `decode`: header and integers of both sides | through `Wire` |
| `Stream` | `Connection::send` as bytes, `ChatClient::read_loop` | through `Wire` |
| `Codec` | the bodies of all packets, as both codecs write and read them | through `Wire` |
| `Codec_proofs` | integers, frames and bodies are read as they were written, for any byte size | TLAPS |
| `Stream_proofs` | delivery, for any packets | TLAPS |
| `Wire` | composes `Codec` and `Stream`: requests, answers, notifications, callbacks | `MCWire` |
| `Wire_proofs` | `Wire` implements `Stream`; what is understood and reported | TLAPS |
| `App` | the activities and the listener of `ChatService` | one configuration |
| `App_proofs` | theorems about `App` | TLAPS |

Operators marked "Mutation" in a comment are wrong variants of the definition
that follows them. No specification uses them; `PROJECT.json` pairs each with a
property that fails when it takes the definition's place.

### ChatSessions

One action is one completion handler, because `ChatServer::run` runs one
io_context on one thread. `Accept` is `do_accept` with
`ConnectionManager::start`; `ReadHeader`, `ReadBadHeader`, `ReadBody` and
`ReadFail` are the lambdas of `do_read_header` and `do_read_body`; `ReadBody`
contains the whole of `handle_message` and of the handler it calls, so a login or
a chat message is one step. `RunPosted` is the lambda that `Connection::send`
posts, `WriteDone` and `WriteFail` the two ends of `async_write`, `Stop` is
`ChatServer::stop`. `reading[c]` says what the read chain awaits, `posted[c]`
and `writeBuf[c]` hold the packets, `writing[c]` counts writes in flight.
`ManagerStop` erases the route of the connection's user whichever connection it
leads to, as the code does, and leaves the socket alone. `notified` and `unread`
are history: for which messages `send_to_user` returned true and
`increment_unread` was called.

A request is a kind with, where it matters, a user. `query` stands for every
handler that answers once and leaves sessions alone (friend list, add friend,
register, security question, reset, version); what those do to the database is
in `Accounts`. `MESSAGE_REQ` and logins have their own handlers. A frame is read
in one step although TCP may deliver it in pieces: `async_read` waits for all of
it, and a client that dies in the middle is `ReadFail` in state `"body"`.

`open[c]` is the client's end, `told[c]` what the server's socket knows of it. A client
that closes or dies makes the network say so (`ClientClose`); one that becomes
unreachable does not (`ClientVanish`), and `LinkFails` may report it later or never: the
server has no heartbeat, no keepalive and no timeout. `ReadFail` and `WriteFail` need a
report (`PeerEnded`), and a read without one stays pending.

Three constants are switches.

* `ReadsOnAccept` is FALSE in the code: `do_accept` calls
  `ConnectionManager::start`, which registers the connection; nobody calls
  `Connection::start`, which would read from it. Run `shipped_server` shows what
  follows. All other runs take TRUE: that is the server the rest of the code is
  written for, and without it no handler would ever run.
* `Relogin` lets a client log in again on a connection in use. The server has no
  check against it: `set_user_id` overwrites `user_id_`, the first user's route
  stays, and that user is online for ever: with TRUE, `NoGhostUser` is violated. The
  runs take FALSE, as a client that keeps to one login does, so they say nothing of this
  defect; the theorems say which of them need it.
* `WriteFaults` lets an asynchronous write fail.

### Accounts

A handler is a chain of database functions, each one SQL statement committed on
its own, so a handler that writes is two or three actions with `job` between
them. The outcomes of a statement are `done`, `failed`, and `lost`: it took
effect and the caller was told that it failed. `Crash` drops the handler in
progress. Results are read into 64-byte buffers and a truncated row counts as
missing: `LongNames` are the legal usernames that do not fit. The early answers
to empty fields (INVALID_REQUEST) and to connections without a user are left out:
they come before any statement. The read-only `handle_security_question` and
`handle_friend_list` change nothing; what the latter returns is
`ListsAllFriends`. A username identifies its user, as the UNIQUE key does.

### DatabasePool

`Take` is the rest of `get_connection` once the queue is not empty, all under
`mutex_`: pop, ping, replace. `Wait` and `SpuriousWakeup` are the condition
variable. `Release` is the deleter. The server has one thread today; the class
has a mutex and a condition variable for any number, and the model checks it for
that. A connection that was lost and cannot be replaced yields a null handle; the
deleter of a null `unique_ptr` never runs, and the slot is `lost`.

### NativeClient

The UI thread makes the native calls (activities and `ChatService` call them on
the main thread only; no callback calls back into the bridge), the worker thread
runs `ChatClient::run`. A step ends where a thread takes or releases a mutex,
joins, or touches `socket_fd_` in a way the other thread can see. A request holds
both mutexes and touches nothing else, so it is one step from the lock of
`callback_mutex_` to the return. `recv` returns when the server sends or closes;
on Linux a `close` by another thread does not wake it. `SERVER_HOST` is a valid
constant, so the failure of `inet_pton` is left out.

`Relock` says what happens when the holder of `g_mutex` locks it again, which
`nativeInit` and `nativeDestroy` do. FALSE is `std::mutex`: the thread waits for
itself, and the application never gets past `ChatService.onCreate`
(run `shipped_bridge`). TRUE is checked in `native_client` to see the rest of the
bridge.

### Framing, Stream, Codec and Wire

Bytes are numbers below `Base` (256 in the code); 2-byte and 4-byte integers are as
wide as that makes them, with the casts of the code: `write_string` writes the
length modulo `Max16` and the whole string, `read_int32` is the cast to a signed
integer. The header is one byte of version, two of command, four of length.

A body is a layout, a sequence of named fields. There is one layout for every
`encode_*` and `decode_*` function that is called, under the function's name, with
its fields in the order in which it writes or reads them. `ClientRequest` and
`ServerRequest`, `ServerAnswer` and `ClientAnswer` say which function belongs to
which command. So an encoder and its decoder are translated independently, and only
the runs compare them. Decoders return no
message where the code returns `std::nullopt`.

In `Stream` the server appends frames to a stream of bytes, `Recv(n)` returns any
number of them up to `RecvSize` and `TakePacket` is one turn of the inner loop of
`read_loop`. A connection is lost at any byte; `Connect` makes the next one and, as
`ChatClient::connect` does, leaves `read_buffer_` alone. `carried` records what was
in it: then, and only then, delivery is not promised.

`Wire` adds the other direction and what the two ends do with the messages. To the
server a frame comes in one step, because `async_read` waits for all of it.
`ServerRead` contains `do_read_header`, `do_read_body` and the decoding in
`handle_message`; `Answer` chooses among all messages that the handler of the
command can send (`AnswersTo`, with a set `handle_...` for each handler); which one it
is, is the matter of `ChatSessions` and `Accounts`. `RequestsAssumption` and
`AnswersAssumption` say what the types of the code say of the fields: ids of 32 bits,
and names, questions and configured texts that the tables of the database keep shorter
than the 2 bytes of a length can say. Strings of requests are not assumed to be short,
nor contents of messages, whose length has 4 bytes. `HandlePacket` decodes and calls the callback. A refused header ends the
reading but not the connection; the loss that follows is `LoseConnection`.

`AcceptsEmptyBody` is FALSE in the code: a body length of 0 is refused, which the
client's friend list request has (run `friend_list`). `MCWire` takes TRUE, so that
the friend list and its answer are compared too.

### App

`screens` gives each instance of an activity its class, `stack` is the task's back
stack. What a handler asks of the system (`startActivity`, `finish`) goes to `sys`
and takes effect later, in order; what the system and the worker tell the
application goes to `main`, the queue of the main thread (`runOnUiThread` posts
there). Each handler is one action on the head of `main`: `Appear` is `onCreate` and
`onStart`, `OnServiceConnected`, `OnStop`, `OnDestroy`, `OnDestroyService` and the
three `Run...` actions are the methods of that name or the `Runnable` of the
listener's method. The system stops a covered activity some time after the next
one has appeared, or never, if it comes back first. The platform's part is marked
external in `PROJECT.json`.

`slot` is `ChatService.listener`. Every `onServiceConnected` takes it; no `onStop`
gives it back. `LoginActivity` also connects, which ends an earlier connection and,
with `LastWords`, makes the worker say so before the call returns. `early` records
the activities that came back before they had been stopped: their `onStart` does
not run, so they do not take the slot back and the listener stays a closed screen.
`FrontHasTheSlot` excepts exactly these. `SessionSurvivesNavigation` excepts a login
screen that comes back and connects anew while the result of its login waits in
`main`: it then opens the friend list over a connection that is not logged in.

The native calls return here (the ways in which they do not are `NativeClient`'s),
the user touches a screen once before the system reacts, and `onServiceConnected`
comes after what was posted before `bindService`. The home key is left out: it stops
the front activity as opening `AboutActivity`, which does not bind, does.

The manifest declares no `configChanges`, so a rotation, another language or dark mode
replaces the object of the screen in front (`Recreate`): `onStop` and `onDestroy` of the
old one, `onCreate` and `onStart` of the new one, under the same number in `screens`,
with its fields reset and its buttons enabled. If nobody else was bound, `ChatService`
goes and a new one comes, and with the old one goes the login, while the screen stays in
front without a connection; `parting` records whether the user or the system was the
cause. What the worker tells the replaced object while that still is the listener moves
nothing that the user sees, but its calls to the system count: `onLoginResult` opens the friend list all the same. `Posted` keeps
the events in `Calling` for it and drops the others. Two recreations are left out: a
change between `onStart` and `onServiceConnected`, and a covered screen that was
changed and is made anew when it comes back.

`SessionSurvivesNavigation` therefore names five ways in which the login ends: the
connection is lost, the user logs out, the user leaves (the last screen, or
`AboutActivity`), the only bound screen is recreated, a login screen connects anew.
What it rules out is a sixth: that the screens themselves, in some order of their
`onStart`, `onStop` and `onDestroy`, leave the service without a client.

## Runs

| Run | Instance | Shows |
|---|---|---|
| `sessions` | 2 connections, 2 users, all kinds of requests, 1 request outstanding, 1 message, clients that close or vanish, no write faults; with fairness | unique and reachable sessions, no ghosts, every request read, every packet written, a client whose end is reported goes offline; implements `OutboundQueue` and `Presence` |
| `sessions_faults` | 2 connections, 2 requests outstanding, write faults | routes and notifications meet their users, every route is watched, a message misses only a user whose client is gone, the write pump |
| `accounts` | 3 names (one long), 2 passwords, 2 answers, 3 rows, faults | the password last confirmed logs in and no other does, only a reset changes one, friendships are mutual and listed, but for what a fault met |
| `db_pool` | 4 threads, 3 connections | exclusive use, no leak, no lost wake-up; a thread is stuck only when every connection is lost |
| `native_client` | the two threads, any calls | no stale status, no call to a dead service, no use of a dead client, no leaked socket; the only deadlocks are the two named ones |
| `wire` | bytes of 6 values, every kind of request and answer, a notification, two connections; with fairness | packets delivered whole and in order; a request is understood exactly when its strings fit; callbacks report the answers and nothing else; everyone is answered or disconnected, if the server reads what it accepts and admits empty bodies |
| `app` | 3 screens, 2 requests at a time | the session survives navigation, a disabled login button is enabled again, the front screen is the listener |
| `shipped_server` | `ReadsOnAccept = FALSE` | violation: no request is read |
| `friend_list` | the Android friend list request | violation: it ends the connection |
| `two_sessions` | 3 connections, write faults | violation: a user in two sessions |
| `friend_twice` | two requests for the same friend | violation: the row is stored twice |
| `shipped_bridge` | `Relock = FALSE` | violation: `nativeInit` does not return |

**Bounds.** Two connections and two users are what the session properties
quantify over; the failure that needs three connections (`two_sessions`) is
checked with three, and the theorems hold for any number. `MaxQueue` bounds the
requests and answers outstanding on one connection: with 2, a connection has a
packet in the write queue and one posted behind it, which is where the pump and
the order can go wrong. `MaxMessages = 1` suffices because messages do not
interact. Connections are accepted once each; a new connection is another element
of `Conns`. Three friend rows allow a complete friendship and half of another
between three users; beyond `MaxRows` no request comes. Four threads on three
connections leave one waiting when all are in use, and more when connections are
lost. `NativeClient` has no bound: it is finite.

In `wire`, `Base = 6` makes 2 bytes hold lengths below 36, more than the 17 command
codes and the longest ordinary body need, so that a string can be too long for its
length with few bytes. Requests have strings of different lengths, and in turn each
of their strings too long; numbers include negative ones and ones of more than one
byte, the notification a time that needs more than 4. `BodyLimit = 50` refuses some
of the overlong requests and admits others. `RecvSize = 12` cuts longer packets and
joins shorter ones, and `recv` returns any smaller number. One request, one
notification and two connections are enough for two packets in the stream and for a
connection that begins with the rest of a packet in `read_buffer_`; the delivery
theorem has no such bounds. In `app`, three screens are a login, a registration and a friend
list, or a login, a friend list and a chat, or a second login after the first was closed.
Two requests wait when the user logs in while a registration is under way, or again after
a change of the connection has enabled the button. The theorems about `App` hold for any
number of both.

**Deadlock.** It is checked in the runs of `Accounts` and `DatabasePool`, which
never end. A server that has stopped, with its clients gone, has no step left,
and the native client really deadlocks, so these configurations say
`CHECK_DEADLOCK FALSE`; `TwoEmbraces` states where the client may stand still. In
`MCWire` and `MCApp` the bounds on connections and screens end the behaviours.

**Fairness.** `FairSpec` of `ChatSessions` is weak fairness of every completion
handler of every connection: the io_context runs what is ready, and a peer that is
there goes on receiving. A read has to fail only when the end of
the client was reported (`PeerEnded`), a write to end only then or while the client is
there (`WriteEnds`); nothing is assumed of a client that
vanished, nothing says that `LinkFails` comes, and `ClosedPeerGoesOffline` promises
nothing for it. It asks nothing of clients, and nothing of `Accept`. Handlers are
assumed to return: `get_connection` waits for ever once the pool has lost all its
connections, which is the subject of `DatabasePool` (`StuckOnlyWhenLost`), and then the
one thread of the io_context answers nobody.

`FairSpec` of `NativeClient` lets both threads run and does not ask the server to
send. `FairSpec` of `Wire` is weak fairness of what the server does with a frame it
has, of `recv` and `handle_packet`, and of the loss of a connection that the server
has stopped; nobody has to ask or to connect, and a connection that the server
serves need not be lost. There the server reads what it accepts, as with
`ReadsOnAccept = TRUE`. Nothing else assumes fairness.

**Findings.** The five violations are described, with the lines they contradict,
under `findings` in `PROJECT.json`. Each is a property that the passing runs check
with the cause excluded, or a promise of the documentation.

## Proofs

`ChatSessions_proofs` proves for every set of connections and users and every
bound:

1. `TypeCorrect` and `QueueInvariant`. `TypeOK` is not inductive: `WriteDone`
   takes the head of `writeBuf` off, so the type of the queue and of `writing`
   needs `OneQueuedWrite`, that a write is in flight only while its packet is
   queued and that there is at most one.
2. `FreshInvariant`: connections that were not accepted have no state. Without it
   `Accept` could register a connection that carries a user.
3. `WritesNeitherOverlapNorStall`, from 1, 2 and the fact that a stopped
   connection is not registered again and its client does not come back.
4. `SessionsAreReachable`, then `OneSessionPerUser`, when no write fails. The
   inductive invariant adds `ReadIsRegistered`: a connection that is still read
   is registered. A failed write breaks exactly this, which is how `two_sessions`
   comes about. `UniqueSession` follows because two sessions of a user would both
   have to be the end of the same route. Clients may log in again here.
5. `RoutesLeadToTheirUser` and `RoutesAreWatched`, when no client logs in twice on
   a connection, writes failing or not. The invariant `LoginOnce` carries the
   client's promise through the queues of unread requests.
6. `NoGhosts`, from 4 and 5.
7. `ImplementsPresence`, when no client logs in twice on a connection and no write
   fails: every step of the server is a step of `Presence` or none. `SessionOf`
   chooses a connection; `SessionOfUnique` shows that there is only one to choose,
   so that stopping it is a `LogOut`. A login is a `LogIn` because the user is
   offline (4) and the connection carries no other user (`LoginOnce`).

8. `NotificationsStayWithTheirUser`, when no client logs in twice on a connection.
   `QueuesMeetTheirUser` says of both queues of every connection that their
   notifications are for its user. It is kept because a notification is posted
   where the route of its user leads (5) and because the user of a connection never
   changes once it has one (`UserStays`).
9. `StoredMessagesAreAccounted`, when moreover no write fails: a receiver for whom
   `send_to_user` is false is counted, and one for whom it is true has a registered
   session (6), so the message is handed to a connection. No run checks this one; of 10,
   which also holds when writes fail, `sessions_faults` does.
10. `TheGoneMissMessages`, when no client logs in twice on a connection, writes failing
    or not. The invariant `UnregisteredIsDown`: a connection that is read and not
    registered has lost its client, because only a failed write stops it and leaves its
    read. With 5, a route to a connection that is not registered is one of those.
11. `ImplementsOutboundQueue`, without any assumption on clients and writes: every
    step of the server appends to one end of each connection's queue, moves its
    head, drops it with the connection, or leaves it. `MoveHead` and `TailOfConcat`
    are the facts about sequences that this needs.

`DatabasePool_proofs` proves for any finite set of threads and any pool size:

1. `PoolTypeCorrect`, `ConnectionsAreExclusive` and `NoSlotLeaks`, together:
   releasing a held slot keeps the queue free of duplicates because a held slot is
   not in the queue, and taking one keeps it exclusive because the queue has no
   duplicates. `HeldInUse` ties the handles to what the threads do.
2. `WakeupsAreKept`: `NoLostWakeup` is inductive beside 1. A taken connection uses
   up one wake-up at most, a released one makes one whenever a thread waits.
3. `WaitersAreStuckOnlyWhenLost`, from 1 and 2: when nobody holds or was promised a
   connection, the pool is empty, so every slot is lost.

`Accounts_proofs` proves all properties of the run `accounts`, for any names,
passwords and number of rows, with and without faults of the database. One
invariant carries them: what the handler in progress has found in the tables still
holds (`JobHolds`), since no other handler runs; every row has its reverse unless a
fault met this pair or the handler is between the two insertions (`Mutual`); the
rows fit the buffers (`Friendships`); whoever has reason to believe in a password exists
with one of those (`Credentials`). When a user believes in one only, the answer last
confirmed it, so it is the stored one: `ConfirmedPasswordsLogIn`. `NoJobAssumption` (the value
for "no handler" is not a handler) is all it needs.

`NativeClient_proofs` proves the safety properties of the run `native_client`, for both
values of `Relock`, but `TwoEmbraces`, which needs `ENABLED`; `OnlyEmbracesStandStill`
proves of the guards what that says of the steps. The invariant derives the holders of the
two mutexes from where the threads are (`Mutexes`), bounds what a call can be in the
middle of (`Calls`), and says when a worker exists (`Lifetimes`), when it is
connected (`Connections`) and which sockets are open (`Sockets`): the UI thread,
about to join, finds no socket that a finished worker left.

`Codec_proofs` holds what is true of numbers, frames and bodies for every `Base` above 1.
`RoundTrip` is the fact that makes a frame readable: the integers come back
(`ReadWrite16`, `ReadWrite32`), and so does the packet. `BodyRoundTrip` says that a body
written with one layout and read with another is decoded to its fields if the layouts
name the same fields, each field is of a type that the other side reads, and a list of
friends comes last; `RequestBody` says that a request is decoded to its fields exactly if
no string is too long for its length: the first that is too long is read shorter or not
at all, whatever follows. `FlattenSeq`, `ReadAll` and the loop over the friends are
recursive functions. To know anything of them one must know that they exist, which is
shown by an induction of its own each time (`FlattenExists`, `RestExists`). The
induction is over sets of numbers: `LeastElement`, from the library's well-foundedness
of `<`, yields `Induction`, `InductionTo` and `InductionDown`, which take a set where the
library's theorems take an operator.

`Stream_proofs` proves `StreamDelivers` for every set of packets whose bodies are shorter
than the 4-byte length can say, every `RecvSize` and any number of connections and
losses. The stream is the frames of what was sent, one behind the other (`Framed`), and
the reader stands between two frames with its buffer holding what follows (`Cut`).

`Wire_proofs` proves all safety properties of the run `wire`, from `RequestsAssumption`
and `AnswersAssumption`, for any sets of requests, ids, names and notifications:

1. `WireImplementsStream`: every step of `Wire` is one of `Stream` or none, so
   `DeliveredInOrder` holds too (`AnswersArrive`).
2. `WireTyped` and `RequestsUnderstood`. The invariant adds `Conversation`: the bytes on
   their way to the server are the frame of the request asked, and what the server
   understood was decoded from it. Both codecs have the same layout for every command
   (`RequestLayouts`), so `RequestBody` says when the decoded request is the one asked.
3. `AnswersReported`. All that handlers answer has fields of the types and lengths that
   can be written without loss (`AnswersAreSound`, one lemma for each handler), and the
   client reads every answer it decodes with a layout that matches (`AnswerTables`), so
   the packet of an answer is taken for that answer (`AnswerTaken`); those that are not
   reported are dropped, because their command has no decoder or `FriendsRefused`. The
   invariant `Reporting` ties the packets sent to the answers, and delivery (1) says that
   the packet handled next is that of the next answer. `ReportsOf` is a function because
   the provers know no definition of `SelectSeq`.

`App_proofs` proves, for any number of screens and requests, the types and

1. `LoginIsEnabledAgain`. The invariant adds that a disabled button belongs to a screen
   that exists, so a new login screen starts with an enabled one. Every step either
   leaves in `main` what was told to a screen (`ToldConcat`, `ToldTail`), runs the very
   message that enables the button, or replaces one reason to hope by the next: a
   connection attempt by its end, a request by its answer, a connection by its last
   words.
2. `FrontIsTheListener`. The property speaks of an empty `main`, so the invariant
   `FrontInv` says what a full one will come to. Its language is `NoneIn(q, S)`, no
   message of the queue is in S, and `LastIn(q, A, S)`, after the last of A comes none
   of S; how they fare when a queue grows or runs its head is proved once (`Longer`,
   `Shorter`, `QueueStep`, `QueueRuns`). `Known`: the stack holds each activity once,
   and no message is about one that is yet to be created. `Gone`: an activity off the
   stack has left the front or is destroyed after it was last shown. `TopShown`: the top
   of the stack is what `main` shows last (`Pending`), or it is in front for good
   (`Arrived`), bound, with no stop on its way, and it has the slot or takes it last. The
   steps of the user, the worker and the events do not touch this (`QuietFront`); the
   others have a lemma each. `OnStop` and `OnDestroy` are where the binding counts: the
   service is not destroyed under an arrived screen, because the screen is a client.
   Without `Gone`, a finished screen could stay in front when `main` is empty.

3. `SessionSurvives`, by six layers, each an inductive invariant with those below it as
   hypotheses; only the first two are proved together (`FrontAndOrder`), because it is
   the order that says that no other screen is about to be shown when the one in front
   is made anew. The steps are first put into seven kinds, by what they do with
   `main` and the stack (`Voice`: an event of the worker; `Turn`: the main thread runs
   its next message; `Opens`, `Vanishes`, `Returns`, `Stops`: the system; `Renews`: the screen in front is
   made anew), and again by what they ask of the system (`CallKinds`); the proofs below go over these kinds and
   not over the actions. `Apart(q, A, S)`, nothing of S behind something of A, and
   `Unless(q, A, S)`, nothing of S before the first of A, join the language of 2.
   * `TopIsShown`: `FrontInv` of 2.
   * `ScreensAppearInOrder`: nothing is under way for a screen that has yet to appear but
     its launch (`Unlaunched`), what is above a screen appears before the screen comes
     back (`LaunchFirst`), and none is shown twice (`ShownOnce`). So a screen that is
     in front and at the top waits for no other (`OrderSettles`).
   * `StackIsKept`: a touch makes one call, which is carried out on the stack it was meant
     for (`OneCommand`), a login is the lowest screen and a registration is right above
     one (`Layers`), only a login is told that it was accepted and only a registration
     closes itself (`Answered`).
   * `ScreensAreBound`: a screen that the system has not stopped is bound when `main` has
     run (`Running`), the one in front is bound now (`FrontBound`), one that resumes
     without `onStart` kept its binding (`Resumed`).
   * `EntranceKeepsTheService`: `NoGap` says that after every prefix of `main` somebody is
     bound; a recreated screen counts as bound throughout, since its new object binds in
     the same step. No step loses it but one that leaves an empty stack or a screen that
     does not bind on top (`GapStep`). It holds in front of the user (`Settled`) and hence where a
     login is asked for. A service that is on its way out goes before the login screen on top
     is connected to the next one (`Welcomed`), also when that screen is made anew.
   * `LoginIsAccountedFor`: from the request of the login on there is no gap, or everything
     was closed and no friend list will come (`Attended`), so no `onDestroy` of the service
     is posted (`Kept`), unless a recreation posts it, which `parting` then says. The stack does not run empty before the friend list is on it
     (`Awaited`), although two screens finish themselves: the login screen does so behind
     the call that opens the list, and a registration that was accepted is finished by a
     timer before the login is sent or after its answer was queued (`Enrolled`).

What rests on TLC alone: all liveness and `TwoEmbraces` (fairness and `ENABLED`), and the
five violations. Every other safety property that a run checks is a theorem.

## Not modelled

* `ProtocolCodec::decode` and `decode_message_notify` of the server, and the
  functions of `Connection`, `ConnectionManager` and `DatabasePool` that are named in
  `PROJECT.json`: they have no caller.
* The additions of offsets and lengths in the codecs that could pass the end of an
  integer or of a body: only a stream whose framing is shifted leads to such lengths.
* What is in Redis. `set_online`, `set_connection_id` and `increment_unread` write
  keys that no code reads back; `increment_unread` is counted in `ChatSessions`.
* The signal handler of `main.cpp` in the middle of another handler. `stop` happens
  between two handlers, as it does while the io_context waits.
* A bound on `write_buffer_`: the code has none to check against.
* Error code 2 (`WRONG_PASSWORD`), which the client knows and no handler sends.
* `ForgotPasswordActivity`, which has the shape of the registration, and what the
  lists on the screens show. `ChatActivity`, `RegisterActivity` and
  `ForgotPasswordActivity` as committed lack methods of the interface they implement;
  the model takes those as empty, as their neighbours write them.
* The end of the application's process with its screens restored later, the setting
  that destroys every covered activity, and the two recreations named under App.
* The update download. A version answer reaches `FriendListActivity` only between the
  opening of `AboutActivity` and the stop of the friend list, so the dialogs that
  start it are next to unreachable; its outcome is the platform's `DownloadManager`'s.
* Layout and list adapters, build and installation scripts, the reading of the
  configuration file, logging, SHA-256 (a hash stands for what it was computed from),
  TLS (there is none).

Open: a composition of `ChatSessions` with `Accounts`, so that a crash meets sessions and
tables together.
