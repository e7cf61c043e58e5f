---------------------------- MODULE ChatSessions ----------------------------
(***************************************************************************)
(* The server's sessions: ChatServer::do_accept, ConnectionManager,        *)
(* Connection and the part of MessageHandler that reads or writes them     *)
(* (handle_message, handle_login, handle_chat_message, send_response).     *)
(*                                                                         *)
(* The server runs one io_context on one thread (ChatServer::run), so a    *)
(* completion handler runs to its end before the next one: every handler   *)
(* is one action.  What interleaves are the handlers themselves: the read  *)
(* chain of every connection (header, body, header, ...), the lambdas that *)
(* Connection::send posts, the completions of its writes and the accepts.  *)
(*                                                                         *)
(* The constant ReadsOnAccept tells whether an accepted connection is also *)
(* given to Connection::start.  The code of do_accept never calls it, so   *)
(* FALSE is the program as it is; TRUE is the server that the rest of the  *)
(* code is written for, and the setting in which its handlers are checked. *)
(***************************************************************************)
EXTENDS Integers, Sequences, FiniteSets

CONSTANTS
    Conns,          \* connections (conn_id_), each accepted at most once
    Users,          \* user ids; user id 0 is NoUser
    NoUser, NoConn,
    ClientKinds,    \* the kinds of requests that clients send
    MaxQueue,       \* bound: requests and answers outstanding on a connection
    MaxMessages,    \* bound: rows that the messages table can take
    ReadsOnAccept,  \* do_accept starts the read chain (FALSE in the code)
    Relogin,        \* clients may log in again on a connection in use
    WriteFaults     \* an asynchronous write may complete with an error

RequestKinds == {"login", "chat", "query", "garbled", "friend_list", "oversized"}

ASSUME ConstantsAssumption ==
    /\ NoUser \notin Users
    /\ NoConn \notin Conns
    /\ ClientKinds \subseteq RequestKinds
    /\ MaxQueue \in Nat
    /\ MaxMessages \in Nat
    /\ {ReadsOnAccept, Relogin, WriteFaults} \subseteq BOOLEAN

(***************************************************************************)
(* A request is one framed packet.  "query" stands for every request that  *)
(* is answered once and leaves the sessions alone; "garbled" for a body    *)
(* that no decoder accepts or an unknown command; "friend_list" for        *)
(* FRIEND_LIST_REQ as the Android client encodes it, with an empty body;   *)
(* "oversized" for a body length of 1 MB or more.                          *)
(***************************************************************************)
Request == [kind : {"login", "chat"}, user : Users]
             \union [kind : RequestKinds \ {"login", "chat"}]

\* do_read_header: body_length > 0 && body_length < 1024 * 1024
BodyLengthAccepted(r) == r.kind \notin {"friend_list", "oversized"}

\* ANSWERED: the code of an answer that the sessions do not depend on.
Codes == {"SUCCESS", "USER_NOT_FOUND", "USER_ALREADY_ONLINE",
          "PROTOCOL_ERROR", "DATABASE_ERROR", "ANSWERED"}
Response == [type : {"LOGIN_RESP", "MESSAGE_RESP", "QUERY_RESP"}, code : Codes]
\* The user a notification is meant for is not in the packet: it is kept to
\* tell whom the packet was for.
Notification == [type : {"MESSAGE_NOTIFY"}, user : Users, id : Nat]
Packet == Response \union Notification

Message == [from : Users, to : Users]

VARIABLES
    running,    \* the io_context runs its handlers
    conns,      \* ConnectionManager::connections_
    userToConn, \* ConnectionManager::user_to_conn_ (NoConn: no entry)
    userId,     \* Connection::user_id_ (NoUser: 0)
    reading,    \* what the read chain of the connection waits for
    posted,     \* Connection::send lambdas posted to the io_context
    writeBuf,   \* Connection::write_buffer_
    writing,    \* asynchronous writes of the connection in flight
    open,       \* the client's end of the connection is open
    told,       \* the end of the connection has reached the server's socket
    input,      \* requests that the client sent and the server has not read
    stored,     \* the messages table, in the order of its AUTO_INCREMENT key
    notified,   \* history: <<message, connection>>, send_to_user returned true
    unread      \* history: messages that increment_unread was called for

sessionVars == <<conns, userToConn, userId>>
outVars == <<posted, writeBuf, writing>>
messageVars == <<stored, notified, unread>>
vars == <<running, sessionVars, reading, outVars, open, told, input, messageVars>>

ReadStates == {"unborn", "idle", "header", "body", "ended"}

TypeOK ==
    /\ running \in BOOLEAN
    /\ conns \subseteq Conns
    /\ userToConn \in [Users -> Conns \union {NoConn}]
    /\ userId \in [Conns -> Users \union {NoUser}]
    /\ reading \in [Conns -> ReadStates]
    /\ posted \in [Conns -> Seq(Packet)]
    /\ writeBuf \in [Conns -> Seq(Packet)]
    /\ writing \in [Conns -> Nat]
    /\ open \in [Conns -> BOOLEAN]
    /\ told \in [Conns -> BOOLEAN]
    /\ input \in [Conns -> Seq(Request)]
    /\ stored \in Seq(Message)
    /\ notified \subseteq (Nat \X Conns)
    /\ unread \subseteq Nat

Init ==
    /\ running = TRUE
    /\ conns = {}
    /\ userToConn = [u \in Users |-> NoConn]
    /\ userId = [c \in Conns |-> NoUser]
    /\ reading = [c \in Conns |-> "unborn"]
    /\ posted = [c \in Conns |-> <<>>]
    /\ writeBuf = [c \in Conns |-> <<>>]
    /\ writing = [c \in Conns |-> 0]
    /\ open = [c \in Conns |-> FALSE]
    /\ told = [c \in Conns |-> FALSE]
    /\ input = [c \in Conns |-> <<>>]
    /\ stored = <<>>
    /\ notified = {}
    /\ unread = {}

-----------------------------------------------------------------------------
(* Clients and the network *)

\* A client that keeps to one login per connection sends no login while one
\* is outstanding or after one succeeded.
MayLogin(c) ==
    Relogin \/ /\ userId[c] = NoUser
               /\ \A i \in 1..Len(input[c]) : input[c][i].kind # "login"

ClientSend(c, r) ==
    /\ running /\ open[c]
    /\ reading[c] # "ended"
    /\ r.kind \in ClientKinds
    /\ Len(input[c]) + Len(posted[c]) + Len(writeBuf[c]) < MaxQueue
    /\ r.kind = "login" => MayLogin(c)
    /\ input' = [input EXCEPT ![c] = Append(@, r)]
    /\ UNCHANGED <<running, sessionVars, reading, outVars, open, told, messageVars>>

\* The client closes the connection or dies: its end arrives as FIN or RST.
ClientClose(c) ==
    /\ open[c]
    /\ open' = [open EXCEPT ![c] = FALSE]
    /\ told' = [told EXCEPT ![c] = TRUE]
    /\ UNCHANGED <<running, sessionVars, reading, outVars, input, messageVars>>

\* The client becomes unreachable for good, and nothing tells the server: it
\* has neither a heartbeat nor a keepalive nor a timeout of its own.
ClientVanish(c) ==
    /\ open[c]
    /\ open' = [open EXCEPT ![c] = FALSE]
    /\ UNCHANGED <<running, sessionVars, reading, outVars, told, input, messageVars>>

\* The network gives an unreachable client up, which it may do or not.
LinkFails(c) ==
    /\ ~open[c] /\ reading[c] # "unborn"
    /\ told' = [told EXCEPT ![c] = TRUE]
    /\ UNCHANGED <<running, sessionVars, reading, outVars, open, input, messageVars>>

\* The socket of the connection reports an error or the end of the stream.
PeerEnded(c) == ~open[c] /\ told[c]

-----------------------------------------------------------------------------
(* ChatServer and ConnectionManager *)

\* ChatServer::do_accept with ConnectionManager::start: the new connection is
\* registered.  Only Connection::start arms the read chain.
Accept(c) ==
    /\ running
    /\ reading[c] = "unborn"
    /\ conns' = conns \union {c}
    /\ open' = [open EXCEPT ![c] = TRUE]
    /\ reading' = [reading EXCEPT ![c] = IF ReadsOnAccept THEN "header" ELSE "idle"]
    /\ UNCHANGED <<running, userToConn, userId, outVars, told, input, messageVars>>

\* ChatServer::stop with ConnectionManager::stop_all: no handler runs any more.
Stop ==
    /\ running
    /\ running' = FALSE
    /\ conns' = {}
    /\ userToConn' = [u \in Users |-> NoConn]
    /\ UNCHANGED <<userId, reading, outVars, open, told, input, messageVars>>

\* Mutation: the route of the user is kept.
StopKeepsRoute(c) == conns' = conns \ {c} /\ UNCHANGED userToConn

\* ConnectionManager::stop: forgets the route of the connection's user,
\* whichever connection it leads to, and the connection.
ManagerStop(c) ==
    /\ conns' = conns \ {c}
    /\ userToConn' = [u \in Users |->
                        IF u = userId[c] THEN NoConn ELSE userToConn[u]]

IsUserOnline(u) == userToConn[u] # NoConn

\* ConnectionManager::send_to_user returns true.
CanSendToUser(u) == IsUserOnline(u) /\ userToConn[u] \in conns

\* Connection::send: the lambda that queues the packet is posted.
Send(queues, c, p) == [queues EXCEPT ![c] = Append(@, p)]

-----------------------------------------------------------------------------
(* MessageHandler *)

\* Mutation: the body is sent without the packet around it.
RespondUnframed(queues, c, type, code) == Send(queues, c, [code |-> code])

\* MessageHandler::send_response
Respond(queues, c, type, code) == Send(queues, c, [type |-> type, code |-> code])

\* Mutation: is_user_online is not asked.
HandleLoginUnchecked(c, u) ==
    /\ userId' = [userId EXCEPT ![c] = u]
    /\ userToConn' = [userToConn EXCEPT ![u] = c]
    /\ posted' = Respond(posted, c, "LOGIN_RESP", "SUCCESS")
    /\ UNCHANGED messageVars

\* Mutation: set_user_id is forgotten.
HandleLoginRouteOnly(c, u) ==
    /\ ~IsUserOnline(u)
    /\ userToConn' = [userToConn EXCEPT ![u] = c]
    /\ posted' = Respond(posted, c, "LOGIN_RESP", "SUCCESS")
    /\ UNCHANGED <<userId, messageVars>>

\* handle_login.  verify_user fails for a wrong name or password and for a
\* database failure alike.
HandleLogin(c, u) ==
    /\ \/ /\ posted' = Respond(posted, c, "LOGIN_RESP", "USER_NOT_FOUND")
          /\ UNCHANGED <<userId, userToConn>>
       \/ /\ IsUserOnline(u)
          /\ posted' = Respond(posted, c, "LOGIN_RESP", "USER_ALREADY_ONLINE")
          /\ UNCHANGED <<userId, userToConn>>
       \/ /\ ~IsUserOnline(u)
          /\ userId' = [userId EXCEPT ![c] = u]
          /\ userToConn' = [userToConn EXCEPT ![u] = c]
          /\ posted' = Respond(posted, c, "LOGIN_RESP", "SUCCESS")
    /\ UNCHANGED messageVars

\* Mutation: the notification goes back to the sender's connection.
DispatchToSender(c, u, id) ==
    /\ CanSendToUser(u)
    /\ posted' = Send(posted, c, [type |-> "MESSAGE_NOTIFY", user |-> u, id |-> id])
    /\ notified' = notified \union {<<id, c>>}
    /\ UNCHANGED unread

\* handle_chat_message for a user whose message was inserted with key id: the
\* result of send_to_user is not looked at.
Dispatch(c, u, id) ==
    LET route == userToConn[u]
        note == [type |-> "MESSAGE_NOTIFY", user |-> u, id |-> id]
    IN  \/ /\ CanSendToUser(u)
           /\ posted' = Respond(Send(posted, route, note), c, "MESSAGE_RESP", "SUCCESS")
           /\ notified' = notified \union {<<id, route>>}
           /\ UNCHANGED unread
        \/ /\ IsUserOnline(u) /\ ~CanSendToUser(u)
           /\ posted' = Respond(posted, c, "MESSAGE_RESP", "SUCCESS")
           /\ UNCHANGED <<notified, unread>>
        \/ /\ ~IsUserOnline(u)
           /\ posted' = Respond(posted, c, "MESSAGE_RESP", "SUCCESS")
           /\ unread' = unread \union {id}
           /\ UNCHANGED notified

\* handle_chat_message.  The insert fails when the database does, and in the
\* model once the table holds MaxMessages rows.
HandleChatMessage(c, u) ==
    /\ \/ /\ userId[c] = NoUser
          /\ posted' = Respond(posted, c, "MESSAGE_RESP", "PROTOCOL_ERROR")
          /\ UNCHANGED messageVars
       \/ /\ userId[c] # NoUser
          /\ posted' = Respond(posted, c, "MESSAGE_RESP", "DATABASE_ERROR")
          /\ UNCHANGED messageVars
       \/ /\ userId[c] # NoUser
          /\ Len(stored) < MaxMessages
          /\ stored' = Append(stored, [from |-> userId[c], to |-> u])
          /\ Dispatch(c, u, Len(stored) + 1)
    /\ UNCHANGED <<userId, userToConn>>

\* The other handlers answer once and leave the sessions alone.
HandleQuery(c) ==
    /\ posted' = Respond(posted, c, "QUERY_RESP", "ANSWERED")
    /\ UNCHANGED <<userId, userToConn, messageVars>>

\* handle_message: an unknown command and a body that does not decode are
\* dropped without an answer.
HandleMessage(c, r) ==
    \/ r.kind = "login" /\ HandleLogin(c, r.user)
    \/ r.kind = "chat" /\ HandleChatMessage(c, r.user)
    \/ r.kind = "query" /\ HandleQuery(c)
    \/ r.kind = "garbled" /\ UNCHANGED <<posted, userId, userToConn, messageVars>>

-----------------------------------------------------------------------------
(* Connection: the read chain *)

\* do_read_header completes with an acceptable length: do_read_body.
ReadHeader(c) ==
    /\ running /\ reading[c] = "header"
    /\ input[c] # <<>> /\ BodyLengthAccepted(Head(input[c]))
    /\ reading' = [reading EXCEPT ![c] = "body"]
    /\ UNCHANGED <<running, sessionVars, outVars, open, told, input, messageVars>>

\* do_read_header completes with a length it refuses.
ReadBadHeader(c) ==
    /\ running /\ reading[c] = "header"
    /\ input[c] # <<>> /\ ~BodyLengthAccepted(Head(input[c]))
    /\ ManagerStop(c)
    /\ reading' = [reading EXCEPT ![c] = "ended"]
    /\ UNCHANGED <<running, userId, outVars, open, told, input, messageVars>>

\* Mutation: the next header is not awaited.
ReadBodyOnce(c) ==
    /\ running /\ reading[c] = "body" /\ input[c] # <<>>
    /\ HandleMessage(c, Head(input[c]))
    /\ input' = [input EXCEPT ![c] = Tail(@)]
    /\ reading' = [reading EXCEPT ![c] = "idle"]
    /\ UNCHANGED <<running, conns, writeBuf, writing, open, told>>

\* do_read_body completes: the handler runs, then the next header is awaited.
ReadBody(c) ==
    /\ running /\ reading[c] = "body" /\ input[c] # <<>>
    /\ HandleMessage(c, Head(input[c]))
    /\ input' = [input EXCEPT ![c] = Tail(@)]
    /\ reading' = [reading EXCEPT ![c] = "header"]
    /\ UNCHANGED <<running, conns, writeBuf, writing, open, told>>

\* Mutation: the connection manager is not told.
ReadFailSilently(c) ==
    /\ running /\ reading[c] \in {"header", "body"} /\ PeerEnded(c)
    /\ reading' = [reading EXCEPT ![c] = "ended"]
    /\ UNCHANGED <<running, sessionVars, outVars, open, told, input, messageVars>>

\* A read completes with an error: the end of the connection was reported.
\* Requests sent before may be read first (an orderly close) or be lost (a
\* reset).  Without a report the read stays pending, for ever if need be.
ReadFail(c) ==
    /\ running /\ reading[c] \in {"header", "body"}
    /\ PeerEnded(c)
    /\ ManagerStop(c)
    /\ reading' = [reading EXCEPT ![c] = "ended"]
    /\ UNCHANGED <<running, userId, outVars, open, told, input, messageVars>>

-----------------------------------------------------------------------------
(* Connection: the write queue *)

\* Mutation: the packet is put in front of the queue.
RunPostedInFront(c) ==
    /\ running /\ posted[c] # <<>>
    /\ posted' = [posted EXCEPT ![c] = Tail(@)]
    /\ writeBuf' = [writeBuf EXCEPT ![c] = <<Head(posted[c])>> \o @]
    /\ writing' = [writing EXCEPT ![c] = IF writeBuf[c] = <<>> THEN @ + 1 ELSE @]
    /\ UNCHANGED <<running, sessionVars, reading, open, told, input, messageVars>>

\* Mutation: write_in_progress is not looked at.
RunPostedAndWrite(c) ==
    /\ running /\ posted[c] # <<>>
    /\ posted' = [posted EXCEPT ![c] = Tail(@)]
    /\ writeBuf' = [writeBuf EXCEPT ![c] = Append(@, Head(posted[c]))]
    /\ writing' = [writing EXCEPT ![c] = @ + 1]
    /\ UNCHANGED <<running, sessionVars, reading, open, told, input, messageVars>>

\* The lambda of Connection::send: do_write only when nothing was queued.
RunPosted(c) ==
    /\ running /\ posted[c] # <<>>
    /\ posted' = [posted EXCEPT ![c] = Tail(@)]
    /\ writeBuf' = [writeBuf EXCEPT ![c] = Append(@, Head(posted[c]))]
    /\ writing' = [writing EXCEPT ![c] = IF writeBuf[c] = <<>> THEN @ + 1 ELSE @]
    /\ UNCHANGED <<running, sessionVars, reading, open, told, input, messageVars>>

\* Mutation: the packets queued meanwhile are not written.
WriteDoneOnce(c) ==
    /\ running /\ writing[c] > 0
    /\ writeBuf' = [writeBuf EXCEPT ![c] = Tail(@)]
    /\ writing' = [writing EXCEPT ![c] = @ - 1]
    /\ UNCHANGED <<running, sessionVars, reading, posted, open, told, input, messageVars>>

\* do_write completes: the packet leaves the queue, the next one is written.
WriteDone(c) ==
    /\ running /\ writing[c] > 0
    /\ writeBuf' = [writeBuf EXCEPT ![c] = Tail(@)]
    /\ writing' = [writing EXCEPT ![c] = IF Len(writeBuf[c]) > 1 THEN @ ELSE @ - 1]
    /\ UNCHANGED <<running, sessionVars, reading, posted, open, told, input, messageVars>>

\* do_write completes with an error: the packet stays queued, nothing is
\* written any more, and the read chain goes on.
WriteFail(c) ==
    /\ running /\ WriteFaults
    /\ writing[c] > 0 /\ PeerEnded(c)
    /\ ManagerStop(c)
    /\ writing' = [writing EXCEPT ![c] = @ - 1]
    /\ UNCHANGED <<running, userId, reading, posted, writeBuf, open, told, input, messageVars>>

Next ==
    \/ \E c \in Conns :
         \/ \E r \in Request : ClientSend(c, r)
         \/ ClientClose(c) \/ ClientVanish(c) \/ LinkFails(c)
         \/ Accept(c)
         \/ ReadHeader(c) \/ ReadBadHeader(c) \/ ReadBody(c) \/ ReadFail(c)
         \/ RunPosted(c) \/ WriteDone(c) \/ WriteFail(c)
    \/ Stop

\* A write of the connection completes that cannot be pending for ever: the
\* client is there and keeps receiving, or its end was reported.
WriteEnds(c) == (open[c] \/ PeerEnded(c)) /\ (WriteDone(c) \/ WriteFail(c))

\* The thread of the io_context runs every handler that is ready, and a handler
\* returns.  Nothing is assumed of a client that vanished: what waits for it
\* may wait for ever.
Fairness ==
    \A c \in Conns :
        /\ WF_vars(ReadHeader(c)) /\ WF_vars(ReadBadHeader(c))
        /\ WF_vars(ReadBody(c)) /\ WF_vars(ReadFail(c))
        /\ WF_vars(RunPosted(c)) /\ WF_vars(WriteEnds(c))

Spec == Init /\ [][Next]_vars
FairSpec == Spec /\ Fairness

-----------------------------------------------------------------------------
(* Safety *)

\* A user has at most one registered connection: handle_login refuses a user
\* who is online, and the test and the registration are in one handler.
UniqueSession ==
    \A c, d \in conns : userId[c] # NoUser /\ userId[c] = userId[d] => c = d

\* A registered connection that logged in receives its user's notifications:
\* user_to_conn_ leads back to it until ConnectionManager::stop.
SessionReachable ==
    \A c \in conns : userId[c] # NoUser => userToConn[userId[c]] = c

\* A route leads to a connection that carries the user it is a route for, so
\* that no other user's client is sent the user's messages.
RoutesToItsUser ==
    \A u \in Users : userToConn[u] # NoConn => userId[userToConn[u]] = u

\* Nobody is online without a connection: the user whom handle_login refuses
\* as USER_ALREADY_ONLINE has a registered session.  It takes clients that log
\* in once on a connection (Relogin = FALSE): a second login overwrites user_id_
\* and leaves the first user's route.
NoGhostUser ==
    \A u \in Users :
        userToConn[u] # NoConn =>
            /\ userToConn[u] \in conns
            /\ userId[userToConn[u]] = u

Outstanding(c) == writeBuf[c] \o posted[c]

\* A notification that waits on a connection is for the user who is logged in
\* there, whatever happened since send_to_user chose the connection.
NotificationsMeetTheirUser ==
    \A c \in Conns : \A i \in 1..Len(Outstanding(c)) :
        Outstanding(c)[i].type = "MESSAGE_NOTIFY" => userId[c] = Outstanding(c)[i].user

\* A message that was stored, and that its sender is told was sent, was either
\* handed to a connection of the receiver or counted as unread.
StoredIsAccounted ==
    \A id \in 1..Len(stored) :
        \/ id \in unread
        \/ \E c \in Conns : <<id, c>> \in notified /\ userId[c] = stored[id].to

\* A route leads to a connection that is being read, so that the end of the
\* connection, once reported, is noticed and the route forgotten: no route is
\* left without a pending read, even if a write failed and the connection was
\* stopped before.
RouteIsWatched ==
    \A u \in Users :
        userToConn[u] # NoConn => reading[userToConn[u]] \in {"header", "body"}

\* A message that is stored, that its sender is told was sent, and that is
\* neither handed to a connection nor counted as unread, was meant for a user
\* whose client is gone: handle_chat_message does not look at the result of
\* send_to_user, but only a failed write leaves a route to a connection that is
\* no longer registered.
OnlyTheGoneMissMessages ==
    [][Len(stored') > Len(stored) =>
         LET id == Len(stored')
             route == userToConn[stored'[id].to]
         IN  \/ id \in unread'
             \/ \E c \in Conns : <<id, c>> \in notified'
             \/ route # NoConn /\ ~open[route]]_vars

\* A connection with a packet in its write queue has exactly one asynchronous
\* write in flight, so writes neither overlap nor stop; after a failed write
\* there is none and the connection is no longer registered.
WritePump ==
    \A c \in Conns :
        IF writeBuf[c] = <<>> THEN writing[c] = 0
        ELSE writing[c] = 1 \/ (writing[c] = 0 /\ c \notin conns /\ ~open[c])

-----------------------------------------------------------------------------
(* Liveness, under FairSpec *)

\* The route of a client that closed its connection, died or was given up by
\* the network is forgotten, so that the user can log in again.  The user of a
\* client that vanished otherwise may stay online for ever: nothing in the
\* program looks for such clients, and nothing says that it does.
ClosedPeerGoesOffline ==
    \A c \in Conns, u \in Users :
        (userToConn[u] = c /\ told[c]) ~> (userToConn[u] # c)

\* A request on a connection that stays up is read and handled, as long as the
\* handlers return (DatabasePool: get_connection may wait for ever).
RequestsAreServed ==
    \A c \in Conns :
        (input[c] # <<>>) ~>
            (input[c] = <<>> \/ reading[c] = "ended" \/ ~open[c] \/ ~running)

\* What is handed to Connection::send is written, unless the client is gone.
PacketsAreWritten ==
    \A c \in Conns :
        (Outstanding(c) # <<>>) ~> (Outstanding(c) = <<>> \/ ~open[c] \/ ~running)

\* README: the friend list is a feature.  A friend list request as the Android
\* client sends it does not cost the client its connection.
FriendListIsServed ==
    [][\A c \in Conns :
         (/\ open[c] /\ reading[c] = "header" /\ input[c] # <<>>
          /\ Head(input[c]).kind = "friend_list")
         => reading'[c] # "ended"]_vars

-----------------------------------------------------------------------------
(* Abstract specifications *)

\* The connections implement OutboundQueue: write_buffer_ followed by what is
\* posted is one queue, in which no packet is lost, doubled or overtaken.
Outbound == INSTANCE OutboundQueue WITH pending <- [c \in Conns |-> Outstanding(c)]
OutboundSpec == Outbound!Spec

\* The registered connections, told apart by their users and not by the routes,
\* implement Presence: nobody's session is taken over or doubled.
SessionOf(u) ==
    IF \E c \in conns : userId[c] = u
    THEN CHOOSE c \in conns : userId[c] = u
    ELSE NoConn
Sessions == INSTANCE Presence WITH session <- [u \in Users |-> SessionOf(u)]
PresenceSpec == Sessions!Spec
=============================================================================
