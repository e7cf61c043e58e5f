------------------------ MODULE ChatSessions_proofs ------------------------
(***************************************************************************)
(* Proofs about ChatSessions, for any connections, users and bounds.       *)
(***************************************************************************)
EXTENDS ChatSessions, SequenceTheorems, TLAPS

-----------------------------------------------------------------------------
(* Type correctness *)

\* The queue operations that the handlers are built from keep queues of packets.
LEMMA SendType ==
    ASSUME NEW q \in [Conns -> Seq(Packet)], NEW c \in Conns, NEW p \in Packet
    PROVE  Send(q, c, p) \in [Conns -> Seq(Packet)]
BY DEF Send

\* An answer is a packet, so Respond keeps queues of packets.
LEMMA RespondType ==
    ASSUME NEW q \in [Conns -> Seq(Packet)], NEW c \in Conns,
           NEW t \in {"LOGIN_RESP", "MESSAGE_RESP", "QUERY_RESP"}, NEW code \in Codes
    PROVE  Respond(q, c, t, code) \in [Conns -> Seq(Packet)]
<1>1. [type |-> t, code |-> code] \in Packet
  BY DEF Packet, Response
<1> QED
  BY <1>1, SendType DEF Respond

\* Dispatching a message keeps the types of the queues and of the histories.
LEMMA DispatchType ==
    ASSUME TypeOK, NEW c \in Conns, NEW u \in Users, NEW id \in Nat, Dispatch(c, u, id)
    PROVE  /\ posted' \in [Conns -> Seq(Packet)]
           /\ notified' \subseteq (Nat \X Conns)
           /\ unread' \subseteq Nat
<1> DEFINE route == userToConn[u]
           note == [type |-> "MESSAGE_NOTIFY", user |-> u, id |-> id]
<1>1. posted \in [Conns -> Seq(Packet)]
  BY DEF TypeOK
<1>2. notified \subseteq (Nat \X Conns) /\ unread \subseteq Nat
  BY DEF TypeOK
<1>3. "MESSAGE_RESP" \in {"LOGIN_RESP", "MESSAGE_RESP", "QUERY_RESP"} /\ "SUCCESS" \in Codes
  BY DEF Codes
<1>4. CASE CanSendToUser(u)
  <2>1. route \in Conns
    BY <1>4 DEF TypeOK, CanSendToUser, IsUserOnline
  <2>2. note \in Packet
    BY DEF Packet, Notification
  <2>3. Send(posted, route, note) \in [Conns -> Seq(Packet)]
    BY <1>1, <2>1, <2>2, SendType
  <2>4. Respond(Send(posted, route, note), c, "MESSAGE_RESP", "SUCCESS")
          \in [Conns -> Seq(Packet)]
    BY <1>3, <2>3, RespondType
  <2>5. /\ posted' = Respond(Send(posted, route, note), c, "MESSAGE_RESP", "SUCCESS")
        /\ notified' = notified \union {<<id, route>>}
        /\ unread' = unread
    BY <1>4 DEF Dispatch, CanSendToUser
  <2>6. <<id, route>> \in Nat \X Conns
    BY <2>1
  <2> QED
    BY <1>2, <2>4, <2>5, <2>6
<1>5. CASE ~CanSendToUser(u)
  <2>1. Respond(posted, c, "MESSAGE_RESP", "SUCCESS") \in [Conns -> Seq(Packet)]
    BY <1>1, <1>3, RespondType
  <2> QED
    BY <1>2, <1>5, <2>1 DEF Dispatch, CanSendToUser
<1> QED
  BY <1>4, <1>5

\* Whatever the request, its handler keeps the types of what it changes.
LEMMA HandleMessageType ==
    ASSUME TypeOK, NEW c \in Conns, NEW r \in Request, HandleMessage(c, r)
    PROVE  /\ userToConn' \in [Users -> Conns \union {NoConn}]
           /\ userId' \in [Conns -> Users \union {NoUser}]
           /\ posted' \in [Conns -> Seq(Packet)]
           /\ stored' \in Seq(Message)
           /\ notified' \subseteq (Nat \X Conns)
           /\ unread' \subseteq Nat
<1> DEFINE Answered(type, code) == posted' = Respond(posted, c, type, code)
<1>1. /\ userToConn \in [Users -> Conns \union {NoConn}]
      /\ userId \in [Conns -> Users \union {NoUser}]
      /\ posted \in [Conns -> Seq(Packet)]
      /\ stored \in Seq(Message)
      /\ notified \subseteq (Nat \X Conns)
      /\ unread \subseteq Nat
  BY DEF TypeOK
<1>2. ASSUME NEW type \in {"LOGIN_RESP", "MESSAGE_RESP", "QUERY_RESP"},
             NEW code \in Codes, Answered(type, code)
      PROVE  posted' \in [Conns -> Seq(Packet)]
  BY <1>1, <1>2, RespondType
<1>3. CASE r.kind = "login" /\ HandleLogin(c, r.user)
  <2>1. r.user \in Users
    BY <1>3 DEF Request
  <2>2. \E code \in Codes : Answered("LOGIN_RESP", code)
    BY <1>3 DEF HandleLogin, Codes
  <2>3. posted' \in [Conns -> Seq(Packet)]
    BY <1>2, <2>2
  <2>4. /\ userToConn' \in [Users -> Conns \union {NoConn}]
        /\ userId' \in [Conns -> Users \union {NoUser}]
    BY <1>1, <1>3, <2>1 DEF HandleLogin
  <2> QED
    BY <1>1, <1>3, <2>3, <2>4 DEF HandleLogin, messageVars
<1>4. CASE r.kind = "chat" /\ HandleChatMessage(c, r.user)
  <2>1. r.user \in Users
    BY <1>4 DEF Request
  <2>2. userToConn' = userToConn /\ userId' = userId
    BY <1>4 DEF HandleChatMessage
  <2>3. CASE \E code \in Codes : Answered("MESSAGE_RESP", code) /\ UNCHANGED messageVars
    <3>1. posted' \in [Conns -> Seq(Packet)]
      BY <1>2, <2>3
    <3> QED
      BY <1>1, <2>2, <2>3, <3>1 DEF messageVars
  <2>4. CASE /\ userId[c] # NoUser
             /\ stored' = Append(stored, [from |-> userId[c], to |-> r.user])
             /\ Dispatch(c, r.user, Len(stored) + 1)
    <3>1. userId[c] \in Users
      BY <1>1, <2>4
    <3>2. [from |-> userId[c], to |-> r.user] \in Message
      BY <2>1, <3>1 DEF Message
    <3>3. stored' \in Seq(Message)
      BY <1>1, <2>4, <3>2
    <3>4. Len(stored) + 1 \in Nat
      BY <1>1
    <3> QED
      BY <1>1, <2>1, <2>2, <2>4, <3>3, <3>4, DispatchType
  <2> QED
    BY <1>4, <2>3, <2>4 DEF HandleChatMessage, Codes
<1>5. CASE r.kind = "query" /\ HandleQuery(c)
  <2>1. posted' \in [Conns -> Seq(Packet)]
    BY <1>2, <1>5 DEF HandleQuery, Codes
  <2> QED
    BY <1>1, <1>5, <2>1 DEF HandleQuery, messageVars
<1>6. CASE r.kind = "garbled" /\ UNCHANGED <<posted, userId, userToConn, messageVars>>
  BY <1>1, <1>6 DEF messageVars
<1> QED
  BY <1>3, <1>4, <1>5, <1>6 DEF HandleMessage

\* ConnectionManager::stop keeps the types of the connections and the routes.
LEMMA ManagerStopType ==
    ASSUME TypeOK, NEW c \in Conns, ManagerStop(c)
    PROVE  /\ conns' \subseteq Conns
           /\ userToConn' \in [Users -> Conns \union {NoConn}]
BY DEF TypeOK, ManagerStop

\* At most one write is in flight, and only of a packet that is queued: what
\* WriteDone takes off the queue is there.  TypeOK is not inductive without it.
OneQueuedWrite ==
    \A c \in Conns : writing[c] \in {0, 1} /\ (writeBuf[c] = <<>> => writing[c] = 0)

QueueInv == TypeOK /\ OneQueuedWrite

\* The server starts with empty queues and no write in flight.
LEMMA InitQueue == Init => QueueInv
BY DEF Init, QueueInv, OneQueuedWrite, TypeOK, ReadStates

\* Every action keeps the types of the variables.
LEMMA NextType == QueueInv /\ [Next]_vars => TypeOK'
<1> SUFFICES ASSUME TypeOK, OneQueuedWrite, [Next]_vars PROVE TypeOK'
  BY DEF QueueInv
<1> USE DEF ReadStates
<1>1. ASSUME NEW c \in Conns, NEW r \in Request, ClientSend(c, r) PROVE TypeOK'
  <2>1. /\ input' = [input EXCEPT ![c] = Append(@, r)]
        /\ UNCHANGED <<running, sessionVars, reading, outVars, open, told, messageVars>>
    BY <1>1 DEF ClientSend
  <2>2. input \in [Conns -> Seq(Request)]
    BY DEF TypeOK
  <2> HIDE DEF ReadStates
  <2>3. input' \in [Conns -> Seq(Request)]
    BY <2>1, <2>2
  <2> QED
    BY <2>1, <2>3 DEF TypeOK, sessionVars, outVars, messageVars
<1>2. ASSUME NEW c \in Conns, ClientClose(c) \/ ClientVanish(c) \/ LinkFails(c) PROVE TypeOK'
  BY <1>2 DEF TypeOK, ClientClose, ClientVanish, LinkFails,
              sessionVars, outVars, messageVars
<1>3. ASSUME NEW c \in Conns, Accept(c) PROVE TypeOK'
  BY <1>3 DEF TypeOK, Accept, outVars, messageVars
<1>4. ASSUME NEW c \in Conns, ReadHeader(c) PROVE TypeOK'
  BY <1>4 DEF TypeOK, ReadHeader, sessionVars, outVars, messageVars
<1>5. ASSUME NEW c \in Conns, ReadBadHeader(c) PROVE TypeOK'
  BY <1>5, ManagerStopType DEF TypeOK, ReadBadHeader, outVars, messageVars
<1>6. ASSUME NEW c \in Conns, ReadBody(c) PROVE TypeOK'
  <2>1. input[c] \in Seq(Request)
    BY DEF TypeOK
  <2>2. input[c] # <<>>
    BY <1>6 DEF ReadBody
  <2>3. Head(input[c]) \in Request /\ Tail(input[c]) \in Seq(Request)
    BY <2>1, <2>2
  <2>4. HandleMessage(c, Head(input[c]))
    BY <1>6 DEF ReadBody
  <2> QED
    BY <1>6, <2>3, <2>4, HandleMessageType DEF TypeOK, ReadBody
<1>7. ASSUME NEW c \in Conns, ReadFail(c) PROVE TypeOK'
  BY <1>7, ManagerStopType DEF TypeOK, ReadFail, outVars, messageVars
<1>8. ASSUME NEW c \in Conns, RunPosted(c) PROVE TypeOK'
  <2>1. /\ Tail(posted[c]) \in Seq(Packet)
        /\ Append(writeBuf[c], Head(posted[c])) \in Seq(Packet)
    BY <1>8 DEF RunPosted, TypeOK
  <2> QED
    BY <1>8, <2>1 DEF TypeOK, RunPosted, sessionVars, messageVars
<1>9. ASSUME NEW c \in Conns, WriteDone(c) PROVE TypeOK'
  <2>1. /\ writeBuf[c] \in Seq(Packet) /\ writeBuf[c] # <<>> /\ writing[c] = 1
        /\ writing[c] - 1 \in Nat
    BY <1>9 DEF WriteDone, TypeOK, OneQueuedWrite
  <2>2. Tail(writeBuf[c]) \in Seq(Packet)
    BY <2>1
  <2>3. /\ writeBuf' \in [Conns -> Seq(Packet)]
        /\ writing' \in [Conns -> Nat]
    BY <1>9, <2>1, <2>2 DEF TypeOK, WriteDone
  <2> QED
    BY <1>9, <2>3 DEF TypeOK, WriteDone, sessionVars, messageVars
<1>10. ASSUME NEW c \in Conns, WriteFail(c) PROVE TypeOK'
  <2>1. writing[c] - 1 \in Nat
    BY <1>10 DEF WriteFail, TypeOK, OneQueuedWrite
  <2> QED
    BY <1>10, <2>1, ManagerStopType DEF TypeOK, WriteFail, messageVars
<1>11. CASE Stop
  BY <1>11 DEF TypeOK, Stop, outVars, messageVars
<1>12. CASE UNCHANGED vars
  BY <1>12 DEF TypeOK, vars, sessionVars, outVars, messageVars
<1> QED
  BY <1>1, <1>2, <1>3, <1>4, <1>5, <1>6, <1>7, <1>8, <1>9, <1>10, <1>11, <1>12
  DEF Next

\* Every action keeps the write queue and the writes in flight in step.
LEMMA NextOneWrite == QueueInv /\ [Next]_vars => OneQueuedWrite'
<1> SUFFICES ASSUME TypeOK, OneQueuedWrite, [Next]_vars PROVE OneQueuedWrite'
  BY DEF QueueInv
<1>1. CASE UNCHANGED <<writeBuf, writing>>
  BY <1>1 DEF OneQueuedWrite
<1>2. ASSUME NEW c \in Conns, RunPosted(c) PROVE OneQueuedWrite'
  <2>1. writeBuf[c] \in Seq(Packet) /\ Head(posted[c]) \in Packet
    BY <1>2 DEF RunPosted, TypeOK
  <2>2. Append(writeBuf[c], Head(posted[c])) # <<>>
    BY <2>1
  <2> QED
    BY <1>2, <2>2 DEF RunPosted, OneQueuedWrite, TypeOK
<1>3. ASSUME NEW c \in Conns, WriteDone(c) PROVE OneQueuedWrite'
  <2>1. writeBuf[c] \in Seq(Packet) /\ writeBuf[c] # <<>> /\ writing[c] = 1
    BY <1>3 DEF WriteDone, TypeOK, OneQueuedWrite
  <2>2. Len(Tail(writeBuf[c])) = Len(writeBuf[c]) - 1
    BY <2>1
  <2>3. Tail(writeBuf[c]) = <<>> => ~(Len(writeBuf[c]) > 1)
    BY <2>1, <2>2
  <2> QED
    BY <1>3, <2>1, <2>3 DEF WriteDone, OneQueuedWrite, TypeOK
<1>4. ASSUME NEW c \in Conns, WriteFail(c) PROVE OneQueuedWrite'
  BY <1>4 DEF WriteFail, OneQueuedWrite, TypeOK
<1> QED
  BY <1>1, <1>2, <1>3, <1>4
  DEF Next, vars, outVars, ClientSend, ClientClose, ClientVanish, LinkFails,
      Accept, ReadHeader, ReadBadHeader, ReadBody, ReadFail, Stop

\* The variables of the server keep their types; in particular the queues of
\* every connection hold packets only, and no write completes on an empty queue.
THEOREM TypeCorrect == Spec => []TypeOK
<1>1. QueueInv /\ [Next]_vars => QueueInv'
  BY NextType, NextOneWrite DEF QueueInv
<1>2. QueueInv => TypeOK
  BY DEF QueueInv
<1> QED
  BY <1>1, <1>2, InitQueue, PTL DEF Spec

\* Always, at most one write of a connection is in flight, and only while its
\* queue holds a packet (Connection::send and do_write).
THEOREM QueueInvariant == Spec => []QueueInv
<1>1. QueueInv /\ [Next]_vars => QueueInv'
  BY NextType, NextOneWrite DEF QueueInv
<1> QED
  BY <1>1, InitQueue, PTL DEF Spec

-----------------------------------------------------------------------------
(* The write queue *)

\* A connection that was not accepted has no state yet.
Fresh ==
    \A c \in Conns : reading[c] = "unborn" =>
        /\ c \notin conns /\ ~open[c] /\ userId[c] = NoUser
        /\ posted[c] = <<>> /\ writeBuf[c] = <<>> /\ writing[c] = 0
        /\ input[c] = <<>>

\* A handler touches its own connection and registered ones only.
LEMMA HandlerScope ==
    ASSUME TypeOK, NEW c \in Conns, NEW r \in Request, HandleMessage(c, r),
           NEW d \in Conns, d # c
    PROVE  /\ userId'[d] = userId[d]
           /\ d \notin conns => posted'[d] = posted[d]
<1>1. CASE r.kind = "login" /\ HandleLogin(c, r.user)
  BY <1>1 DEF HandleLogin, Respond, Send, TypeOK
<1>2. CASE r.kind = "chat" /\ HandleChatMessage(c, r.user)
  <2>1. userId' = userId
    BY <1>2 DEF HandleChatMessage
  <2>2. CASE \E code : posted' = Respond(posted, c, "MESSAGE_RESP", code)
    BY <2>1, <2>2 DEF Respond, Send, TypeOK
  <2>3. CASE Dispatch(c, r.user, Len(stored) + 1)
    <3>1. CASE CanSendToUser(r.user)
      <4>1. userToConn[r.user] \in conns
        BY <3>1 DEF CanSendToUser
      <4>2. PICK note, code :
              posted' = Respond(Send(posted, userToConn[r.user], note), c, "MESSAGE_RESP", code)
        BY <2>3, <3>1 DEF Dispatch, CanSendToUser
      <4> QED
        BY <2>1, <4>1, <4>2 DEF Respond, Send, TypeOK
    <3>2. CASE ~CanSendToUser(r.user)
      BY <2>2, <2>3, <3>2 DEF Dispatch
    <3> QED
      BY <3>1, <3>2
  <2> QED
    BY <1>2, <2>2, <2>3 DEF HandleChatMessage
<1>3. CASE r.kind = "query" /\ HandleQuery(c)
  BY <1>3 DEF HandleQuery, Respond, Send, TypeOK
<1>4. CASE r.kind = "garbled" /\ UNCHANGED <<posted, userId, userToConn, messageVars>>
  BY <1>4
<1> QED
  BY <1>1, <1>2, <1>3, <1>4 DEF HandleMessage

\* What completing do_read_body does, apart from the read chain.
LEMMA ReadBodyParts ==
    ASSUME TypeOK, NEW c \in Conns, ReadBody(c)
    PROVE  /\ Head(input[c]) \in Request
           /\ HandleMessage(c, Head(input[c]))
           /\ input' = [input EXCEPT ![c] = Tail(@)]
           /\ reading' = [reading EXCEPT ![c] = "header"]
           /\ UNCHANGED <<running, conns, writeBuf, writing, open, told>>
<1>1. input[c] \in Seq(Request) /\ input[c] # <<>>
  BY DEF ReadBody, TypeOK
<1> QED
  BY <1>1 DEF ReadBody

\* Every action keeps Fresh: what is not yet accepted has no state.
LEMMA NextFresh == TypeOK /\ Fresh /\ [Next]_vars => Fresh'
<1> SUFFICES ASSUME TypeOK, Fresh, [Next]_vars PROVE Fresh'
  OBVIOUS
<1>1. ASSUME NEW c \in Conns, NEW r \in Request, ClientSend(c, r) PROVE Fresh'
  BY <1>1 DEF TypeOK, Fresh, ClientSend, sessionVars, outVars
<1>2. ASSUME NEW c \in Conns, ClientClose(c) \/ ClientVanish(c) \/ LinkFails(c) PROVE Fresh'
  BY <1>2 DEF TypeOK, Fresh, ClientClose, ClientVanish, LinkFails, sessionVars, outVars
<1>3. ASSUME NEW c \in Conns, Accept(c) PROVE Fresh'
  BY <1>3 DEF TypeOK, Fresh, Accept, outVars
<1>4. ASSUME NEW c \in Conns, ReadHeader(c) PROVE Fresh'
  BY <1>4 DEF TypeOK, Fresh, ReadHeader, sessionVars, outVars
<1>5. ASSUME NEW c \in Conns, ReadBadHeader(c) \/ ReadFail(c) PROVE Fresh'
  BY <1>5 DEF TypeOK, Fresh, ReadBadHeader, ReadFail, ManagerStop, outVars
<1>6. ASSUME NEW c \in Conns, ReadBody(c) PROVE Fresh'
  <2>1. reading'[c] # "unborn"
    BY <1>6 DEF ReadBody, TypeOK
  <2>2. ASSUME NEW d \in Conns, d # c, reading'[d] = "unborn"
        PROVE  /\ d \notin conns' /\ ~open'[d] /\ userId'[d] = NoUser
               /\ posted'[d] = <<>> /\ writeBuf'[d] = <<>> /\ writing'[d] = 0
               /\ input'[d] = <<>>
    <3>1. reading[d] = "unborn" /\ input'[d] = input[d]
      BY <1>6, <2>2, ReadBodyParts DEF TypeOK
    <3>2. userId'[d] = userId[d] /\ posted'[d] = posted[d]
      BY <1>6, <2>2, <3>1, ReadBodyParts, HandlerScope DEF Fresh
    <3> QED
      BY <1>6, <3>1, <3>2, ReadBodyParts DEF Fresh
  <2> QED
    BY <2>1, <2>2 DEF Fresh
<1>7. ASSUME NEW c \in Conns, RunPosted(c) PROVE Fresh'
  BY <1>7 DEF TypeOK, Fresh, RunPosted, sessionVars
<1>8. ASSUME NEW c \in Conns, WriteDone(c) PROVE Fresh'
  BY <1>8 DEF TypeOK, Fresh, WriteDone, sessionVars
<1>9. ASSUME NEW c \in Conns, WriteFail(c) PROVE Fresh'
  BY <1>9 DEF TypeOK, Fresh, WriteFail, ManagerStop
<1>10. CASE Stop
  BY <1>10 DEF TypeOK, Fresh, Stop, outVars
<1>11. CASE UNCHANGED vars
  BY <1>11 DEF Fresh, vars, sessionVars, outVars
<1> QED
  BY <1>1, <1>2, <1>3, <1>4, <1>5, <1>6, <1>7, <1>8, <1>9, <1>10, <1>11 DEF Next

\* A connection that was not accepted yet is not registered, carries no user, is
\* no route's end and has nothing queued (do_accept makes it afterwards).
THEOREM FreshInvariant == Spec => []Fresh
<1>1. Init => Fresh
  BY DEF Init, Fresh
<1> QED
  BY <1>1, NextFresh, TypeCorrect, PTL DEF Spec

\* A connection with a packet queued was accepted: it does not register again
\* and its client does not come back.
LEMMA QueuedStaysDown ==
    ASSUME TypeOK, Fresh, [Next]_vars, NEW c \in Conns, writeBuf[c] # <<>>
    PROVE  /\ c \in conns' => c \in conns
           /\ open'[c] => open[c]
<1>1. reading[c] # "unborn"
  BY DEF Fresh
<1> QED
  BY <1>1
  DEF Next, vars, sessionVars, TypeOK, ClientSend, ClientClose, ClientVanish, LinkFails,
      Accept, ReadHeader, ReadBadHeader, ReadBody, ReadFail, RunPosted, WriteDone,
      WriteFail, ManagerStop, Stop

\* Every action keeps the write pump going or its connection stopped.
LEMMA NextWritePump ==
    QueueInv /\ Fresh /\ WritePump /\ [Next]_vars => WritePump'
<1> SUFFICES ASSUME TypeOK, OneQueuedWrite, Fresh, WritePump, [Next]_vars
             PROVE  WritePump'
  BY DEF QueueInv
<1>1. CASE UNCHANGED <<writeBuf, writing>>
  BY <1>1, QueuedStaysDown DEF WritePump
<1>2. ASSUME NEW c \in Conns, RunPosted(c) PROVE WritePump'
  <2>1. Append(writeBuf[c], Head(posted[c])) # <<>>
    BY <1>2 DEF RunPosted, TypeOK
  <2>2. /\ writeBuf' = [writeBuf EXCEPT ![c] = Append(@, Head(posted[c]))]
        /\ writing' = [writing EXCEPT ![c] = IF writeBuf[c] = <<>> THEN @ + 1 ELSE @]
        /\ UNCHANGED <<conns, open>>
    BY <1>2 DEF RunPosted, sessionVars
  <2> QED
    BY <2>1, <2>2 DEF WritePump, TypeOK
<1>3. ASSUME NEW c \in Conns, WriteDone(c) PROVE WritePump'
  <2>1. /\ writeBuf[c] \in Seq(Packet) /\ writeBuf[c] # <<>> /\ writing[c] = 1
        /\ writeBuf' = [writeBuf EXCEPT ![c] = Tail(@)]
        /\ writing' = [writing EXCEPT ![c] = IF Len(writeBuf[c]) > 1 THEN @ ELSE @ - 1]
        /\ UNCHANGED <<conns, open>>
    BY <1>3 DEF WriteDone, TypeOK, OneQueuedWrite, sessionVars
  <2>2. Len(Tail(writeBuf[c])) = Len(writeBuf[c]) - 1 /\ Tail(writeBuf[c]) \in Seq(Packet)
    BY <2>1
  <2>3. (Tail(writeBuf[c]) = <<>>) <=> ~(Len(writeBuf[c]) > 1)
    <3> DEFINE s == writeBuf[c]
               t == Tail(s)
    <3>1. s \in Seq(Packet) /\ t \in Seq(Packet) /\ s # <<>> /\ Len(t) = Len(s) - 1
      BY <2>1, <2>2
    <3>2. Len(s) \in Nat /\ Len(s) # 0
      BY <3>1, EmptySeq
    <3>3. (t = <<>>) <=> (Len(t) = 0)
      BY <3>1, EmptySeq
    <3> HIDE DEF s, t
    <3>4. (t = <<>>) <=> ~(Len(s) > 1)
      BY <3>1, <3>2, <3>3
    <3> QED
      BY <3>4 DEF s, t
  <2>4. \A d \in Conns \ {c} : writeBuf'[d] = writeBuf[d] /\ writing'[d] = writing[d]
    BY <2>1 DEF TypeOK
  <2>5. /\ writeBuf'[c] = Tail(writeBuf[c])
        /\ writing'[c] = IF Len(writeBuf[c]) > 1 THEN 1 ELSE 0
    BY <2>1 DEF TypeOK
  <2>6. IF writeBuf'[c] = <<>> THEN writing'[c] = 0 ELSE writing'[c] = 1
    BY <2>3, <2>5
  <2> QED
    BY <2>1, <2>4, <2>6 DEF WritePump
<1>4. ASSUME NEW c \in Conns, WriteFail(c) PROVE WritePump'
  BY <1>4 DEF WriteFail, PeerEnded, ManagerStop, WritePump, OneQueuedWrite, TypeOK
<1> QED
  BY <1>1, <1>2, <1>3, <1>4
  DEF Next, vars, outVars, ClientSend, ClientClose, ClientVanish, LinkFails,
      Accept, ReadHeader, ReadBadHeader, ReadBody, ReadFail, Stop

\* A non-empty write queue has exactly one write in flight or belongs to a
\* connection that failed and is stopped: writes never overlap and never stall.
THEOREM WritesNeitherOverlapNorStall == Spec => []WritePump
<1>1. Init => WritePump
  BY DEF Init, WritePump
<1> QED
  BY <1>1, NextWritePump, QueueInvariant, FreshInvariant, PTL DEF Spec

-----------------------------------------------------------------------------
(* One session per user, when writes do not fail *)

\* A connection that is read is registered.  A failed write breaks this: it
\* stops the connection and leaves the read chain armed.
ReadIsRegistered ==
    running => \A c \in Conns : reading[c] \in {"header", "body"} => c \in conns

SessionInv == Fresh /\ ReadIsRegistered /\ SessionReachable

\* Stopping a registered connection forgets the route of its own session only.
LEMMA StopKeepsOthers ==
    ASSUME TypeOK, SessionReachable, NEW c \in conns, ManagerStop(c), userId' = userId
    PROVE  SessionReachable'
BY DEF TypeOK, SessionReachable, ManagerStop

\* A login leaves every session reachable: the user was offline, so no
\* registered connection carried the user before.
LEMMA LoginKeepsReachable ==
    ASSUME TypeOK, SessionReachable, NEW c \in Conns, NEW r \in Request,
           HandleMessage(c, r), conns' = conns
    PROVE  SessionReachable'
<1>1. CASE UNCHANGED <<userId, userToConn>>
  BY <1>1 DEF SessionReachable
<1>2. CASE r.kind = "login" /\ HandleLogin(c, r.user)
  <2>1. CASE /\ ~IsUserOnline(r.user)
             /\ userId' = [userId EXCEPT ![c] = r.user]
             /\ userToConn' = [userToConn EXCEPT ![r.user] = c]
    <3>1. r.user \in Users
      BY <1>2 DEF Request
    <3>2. \A d \in conns : userId[d] # r.user
      BY <2>1, <3>1, ConstantsAssumption DEF IsUserOnline, SessionReachable, TypeOK
    <3> QED
      BY <2>1, <3>1, <3>2, ConstantsAssumption DEF SessionReachable, TypeOK
  <2> QED
    BY <1>1, <1>2, <2>1 DEF HandleLogin
<1> QED
  BY <1>1, <1>2 DEF HandleMessage, HandleChatMessage, HandleQuery

\* While no write fails, every action keeps sessions reachable.
LEMMA NextSession ==
    ASSUME ~WriteFaults
    PROVE  TypeOK /\ SessionInv /\ [Next]_vars => SessionInv'
<1> SUFFICES ASSUME TypeOK, Fresh, ReadIsRegistered, SessionReachable, [Next]_vars
             PROVE  ReadIsRegistered' /\ SessionReachable'
  BY NextFresh DEF SessionInv
<1>1. ASSUME UNCHANGED <<running, sessionVars, reading>>
      PROVE  ReadIsRegistered' /\ SessionReachable'
  BY <1>1 DEF sessionVars, ReadIsRegistered, SessionReachable
<1>2. ASSUME NEW c \in Conns, Accept(c) PROVE ReadIsRegistered' /\ SessionReachable'
  BY <1>2 DEF Accept, Fresh, ReadIsRegistered, SessionReachable, TypeOK
<1>3. ASSUME NEW c \in Conns, ReadHeader(c) PROVE ReadIsRegistered' /\ SessionReachable'
  BY <1>3 DEF ReadHeader, sessionVars, ReadIsRegistered, SessionReachable, TypeOK
<1>4. ASSUME NEW c \in Conns, ReadBadHeader(c) \/ ReadFail(c)
      PROVE  ReadIsRegistered' /\ SessionReachable'
  <2>1. /\ running /\ c \in conns /\ ManagerStop(c)
        /\ reading' = [reading EXCEPT ![c] = "ended"]
        /\ UNCHANGED <<running, userId>>
    BY <1>4 DEF ReadBadHeader, ReadFail, ReadIsRegistered
  <2>2. ReadIsRegistered'
    BY <2>1 DEF ReadIsRegistered, ManagerStop, TypeOK
  <2> QED
    BY <2>1, <2>2, StopKeepsOthers
<1>5. ASSUME NEW c \in Conns, ReadBody(c) PROVE ReadIsRegistered' /\ SessionReachable'
  <2>1. ReadIsRegistered'
    BY <1>5 DEF ReadBody, ReadIsRegistered, TypeOK
  <2> QED
    BY <1>5, <2>1, ReadBodyParts, LoginKeepsReachable
<1>6. CASE Stop
  BY <1>6 DEF Stop, ReadIsRegistered, SessionReachable
<1> QED
  BY <1>1, <1>2, <1>3, <1>4, <1>5, <1>6
  DEF Next, vars, ClientSend, ClientClose, ClientVanish, LinkFails,
      RunPosted, WriteDone, WriteFail

\* As long as no write fails, the route of a user who is in session leads to
\* the session's connection.
THEOREM SessionsAreReachable ==
    ASSUME ~WriteFaults PROVE Spec => []SessionReachable
<1>1. Init => SessionInv
  BY DEF Init, SessionInv, Fresh, ReadIsRegistered, SessionReachable
<1>2. TypeOK /\ SessionInv /\ [Next]_vars => SessionInv'
  BY NextSession
<1>3. SessionInv => SessionReachable
  BY DEF SessionInv
<1> QED
  BY <1>1, <1>2, <1>3, TypeCorrect, PTL DEF Spec

\* As long as no write fails, no user has two registered connections, whether or
\* not clients log in again on a connection in use.
THEOREM OneSessionPerUser ==
    ASSUME ~WriteFaults PROVE Spec => []UniqueSession
<1>1. SessionReachable => UniqueSession
  BY DEF SessionReachable, UniqueSession
<1> QED
  BY <1>1, SessionsAreReachable, PTL

-----------------------------------------------------------------------------
(* Routes, when clients log in once per connection *)

\* Of a connection that did not log in at most one login is outstanding, and of
\* one that did none: a login never changes the user of a connection.
LoginOnce ==
    \A c \in Conns : \A i, j \in 1..Len(input[c]) :
        input[c][i].kind = "login" =>
            /\ userId[c] = NoUser
            /\ input[c][j].kind = "login" => i = j

\* The first login of a connection is the only one: what remains has none.
LEMMA HandlerKeepsLoginOnce ==
    ASSUME TypeOK, LoginOnce, NEW c \in Conns, ReadBody(c)
    PROVE  LoginOnce'
<1> DEFINE s == input[c]
<1>1. s \in Seq(Request) /\ s # <<>>
  BY DEF TypeOK, ReadBody
<1>2. /\ Head(s) \in Request /\ HandleMessage(c, Head(s))
      /\ input' = [input EXCEPT ![c] = Tail(s)]
  BY ReadBodyParts
<1>3. /\ Len(s) \in Nat \ {0} /\ Len(Tail(s)) = Len(s) - 1
      /\ \A i \in 1..Len(Tail(s)) : Tail(s)[i] = s[i + 1]
  BY <1>1, HeadTailProperties, EmptySeq
<1>4. \A d \in Conns \ {c} : input'[d] = input[d] /\ userId'[d] = userId[d]
  BY <1>2, HandlerScope DEF TypeOK
<1>5. ASSUME NEW i \in 1..Len(Tail(s)), Tail(s)[i].kind = "login"
      PROVE  userId'[c] = NoUser
  <2>1. s[i + 1].kind = "login" /\ i + 1 \in 1..Len(s) /\ 1 \in 1..Len(s) /\ i + 1 # 1
    BY <1>3, <1>5
  <2>2. userId[c] = NoUser /\ s[1].kind # "login"
    BY <2>1 DEF LoginOnce
  <2>3. Head(s).kind # "login"
    BY <1>1, <2>2
  <2> QED
    BY <1>2, <2>2, <2>3 DEF HandleMessage, HandleChatMessage, HandleQuery
<1>6. ASSUME NEW i \in 1..Len(Tail(s)), NEW j \in 1..Len(Tail(s)),
             Tail(s)[i].kind = "login", Tail(s)[j].kind = "login"
      PROVE  i = j
  <2>1. /\ i + 1 \in 1..Len(s) /\ j + 1 \in 1..Len(s)
        /\ s[i + 1].kind = "login" /\ s[j + 1].kind = "login"
    BY <1>3, <1>6
  <2>2. i + 1 = j + 1
    BY <2>1 DEF LoginOnce
  <2> QED
    BY <2>2
<1>7. input'[c] = Tail(s)
  BY <1>2 DEF TypeOK
<1> DEFINE Once(q, u) == \A i, j \in 1..Len(q) :
                           q[i].kind = "login" => u = NoUser /\ (q[j].kind = "login" => i = j)
<1>8. Once(Tail(s), userId'[c])
  <2>1. ASSUME NEW i \in 1..Len(Tail(s)), NEW j \in 1..Len(Tail(s)),
               Tail(s)[i].kind = "login"
        PROVE  userId'[c] = NoUser /\ (Tail(s)[j].kind = "login" => i = j)
    BY <1>5, <1>6, <2>1
  <2> QED
    BY <2>1
<1>9. \A d \in Conns \ {c} : Once(input'[d], userId'[d])
  <2>1. \A d \in Conns : Once(input[d], userId[d])
    BY DEF LoginOnce
  <2> HIDE DEF Once
  <2> QED
    BY <1>4, <2>1
<1>10. \A d \in Conns : Once(input'[d], userId'[d])
  <2> HIDE DEF Once
  <2> QED
    BY <1>7, <1>8, <1>9
<1> QED
  BY <1>10 DEF LoginOnce

\* A client that may not log in again keeps to one login per connection.
LEMMA ClientKeepsLoginOnce ==
    ASSUME ~Relogin, TypeOK, LoginOnce, NEW c \in Conns, NEW r \in Request,
           ClientSend(c, r)
    PROVE  LoginOnce'
<1> DEFINE s == input[c]
           t == Append(s, r)
<1>1. s \in Seq(Request) /\ Len(s) \in Nat
  BY DEF TypeOK
<1>2. /\ Len(t) = Len(s) + 1 /\ t[Len(s) + 1] = r
      /\ \A i \in 1..Len(s) : t[i] = s[i]
  BY <1>1
<1>3. input'[c] = t /\ userId' = userId
  BY DEF ClientSend, sessionVars, TypeOK
<1>4. \A d \in Conns \ {c} : input'[d] = input[d]
  BY DEF ClientSend, TypeOK
<1>5. r.kind = "login" => userId[c] = NoUser /\ \A i \in 1..Len(s) : s[i].kind # "login"
  BY DEF ClientSend, MayLogin
<1>6. \A i, j \in 1..Len(s) :
         s[i].kind = "login" => userId[c] = NoUser /\ (s[j].kind = "login" => i = j)
  BY DEF LoginOnce
<1> HIDE DEF s, t
<1>7. \A i, j \in 1..Len(t) :
         t[i].kind = "login" => userId[c] = NoUser /\ (t[j].kind = "login" => i = j)
  BY <1>1, <1>2, <1>5, <1>6
<1> QED
  BY <1>3, <1>4, <1>7 DEF LoginOnce

\* Every action keeps to one login per connection when clients do.
LEMMA NextLoginOnce ==
    ASSUME ~Relogin
    PROVE  TypeOK /\ LoginOnce /\ [Next]_vars => LoginOnce'
<1> SUFFICES ASSUME TypeOK, LoginOnce, [Next]_vars PROVE LoginOnce'
  OBVIOUS
<1>1. CASE UNCHANGED <<input, userId>>
  BY <1>1 DEF LoginOnce
<1> QED
  BY <1>1, ClientKeepsLoginOnce, HandlerKeepsLoginOnce
  DEF Next, vars, sessionVars, ClientClose, ClientVanish, LinkFails,
      Accept, ReadHeader, ReadBadHeader, ReadFail, RunPosted, WriteDone, WriteFail, Stop

\* A handler that logs a connection in adds the route of the new session and
\* takes none away, because the connection had no user before.
LEMMA LoginKeepsRoutes ==
    ASSUME TypeOK, LoginOnce, RoutesToItsUser, NEW c \in Conns, ReadBody(c)
    PROVE  RoutesToItsUser'
<1> DEFINE r == Head(input[c])
<1>1. input[c] \in Seq(Request) /\ input[c] # <<>> /\ r \in Request /\ HandleMessage(c, r)
  BY ReadBodyParts DEF TypeOK, ReadBody
<1>2. CASE UNCHANGED <<userId, userToConn>>
  BY <1>2 DEF RoutesToItsUser
<1>3. CASE r.kind = "login" /\ HandleLogin(c, r.user)
  <2>1. CASE /\ userId' = [userId EXCEPT ![c] = r.user]
             /\ userToConn' = [userToConn EXCEPT ![r.user] = c]
    <3>1. 1 \in 1..Len(input[c]) /\ input[c][1] = r
      BY <1>1, EmptySeq
    <3>2. userId[c] = NoUser
      BY <1>3, <3>1 DEF LoginOnce
    <3>3. \A u \in Users : userToConn[u] # c
      BY <3>2, ConstantsAssumption DEF RoutesToItsUser, TypeOK
    <3> HIDE DEF r
    <3> QED
      BY <2>1, <3>3 DEF RoutesToItsUser, TypeOK
  <2> QED
    BY <1>2, <1>3, <2>1 DEF HandleLogin
<1> QED
  BY <1>1, <1>2, <1>3 DEF HandleMessage, HandleChatMessage, HandleQuery

\* While no client logs in twice on a connection, every action keeps routes at
\* connections of their own user.
LEMMA NextRoutes ==
    TypeOK /\ LoginOnce /\ RoutesToItsUser /\ [Next]_vars => RoutesToItsUser'
<1> SUFFICES ASSUME TypeOK, LoginOnce, RoutesToItsUser, [Next]_vars
             PROVE  RoutesToItsUser'
  OBVIOUS
<1>1. CASE UNCHANGED <<userId, userToConn>>
  BY <1>1 DEF RoutesToItsUser
<1>2. ASSUME NEW c \in Conns, ManagerStop(c), userId' = userId PROVE RoutesToItsUser'
  BY <1>2 DEF ManagerStop, RoutesToItsUser, TypeOK
<1>3. CASE Stop
  BY <1>3 DEF Stop, RoutesToItsUser
<1> QED
  BY <1>1, <1>2, <1>3, LoginKeepsRoutes
  DEF Next, vars, sessionVars, ClientSend, ClientClose, ClientVanish, LinkFails,
      Accept, ReadHeader, ReadBadHeader, ReadFail, RunPosted, WriteDone, WriteFail

\* If no client logs in twice on one connection, a user's notifications are
\* sent to connections of that user only, even if writes fail.
THEOREM RoutesLeadToTheirUser ==
    ASSUME ~Relogin PROVE Spec => []RoutesToItsUser
<1> DEFINE Inv == LoginOnce /\ RoutesToItsUser
<1>1. Init => Inv
  BY DEF Init, LoginOnce, RoutesToItsUser
<1>2. TypeOK /\ Inv /\ [Next]_vars => Inv'
  BY NextLoginOnce, NextRoutes
<1>3. Inv => RoutesToItsUser
  OBVIOUS
<1> QED
  BY <1>1, <1>2, <1>3, TypeCorrect, PTL DEF Spec

\* After the server stopped nobody is online.
NoRouteWhenStopped == ~running => \A u \in Users : userToConn[u] = NoConn

\* What a handler does to the routes: at most it adds one to its own connection.
LEMMA HandlerRoutes ==
    ASSUME TypeOK, NEW c \in Conns, NEW r \in Request, HandleMessage(c, r),
           NEW u \in Users, userToConn'[u] # userToConn[u]
    PROVE  userToConn'[u] = c
BY DEF TypeOK, HandleMessage, HandleLogin, HandleChatMessage, HandleQuery

\* While no client logs in twice on a connection, every action keeps routes at
\* connections that are read.
LEMMA NextWatched ==
    TypeOK /\ RoutesToItsUser /\ RouteIsWatched /\ [Next]_vars => RouteIsWatched'
<1> SUFFICES ASSUME TypeOK, RoutesToItsUser, RouteIsWatched, [Next]_vars
             PROVE  RouteIsWatched'
  OBVIOUS
<1>1. CASE UNCHANGED <<userToConn, reading>>
  BY <1>1 DEF RouteIsWatched
<1>2. ASSUME NEW c \in Conns, Accept(c) \/ ReadHeader(c) PROVE RouteIsWatched'
  <2>1. \A d \in Conns : reading[d] \in {"header", "body"} => reading'[d] \in {"header", "body"}
    BY <1>2 DEF Accept, ReadHeader, TypeOK
  <2>2. userToConn' = userToConn
    BY <1>2 DEF Accept, ReadHeader, sessionVars
  <2> QED
    BY <2>1, <2>2 DEF RouteIsWatched, TypeOK
<1>3. ASSUME NEW c \in Conns, ReadBadHeader(c) \/ ReadFail(c) PROVE RouteIsWatched'
  <2>1. /\ ManagerStop(c)
        /\ reading' = [reading EXCEPT ![c] = "ended"]
    BY <1>3 DEF ReadBadHeader, ReadFail
  <2>2. ASSUME NEW u \in Users, userToConn'[u] # NoConn
        PROVE  userToConn'[u] = userToConn[u] /\ userToConn[u] # c
    <3>1. userToConn'[u] = IF u = userId[c] THEN NoConn ELSE userToConn[u]
      BY <2>1 DEF ManagerStop
    <3> QED
      BY <2>2, <3>1 DEF RoutesToItsUser
  <2> QED
    BY <2>1, <2>2 DEF RouteIsWatched, TypeOK
<1>4. ASSUME NEW c \in Conns, ReadBody(c) PROVE RouteIsWatched'
  <2>1. reading' = [reading EXCEPT ![c] = "header"]
    BY <1>4, ReadBodyParts
  <2>2. \A u \in Users : userToConn'[u] = userToConn[u] \/ userToConn'[u] = c
    BY <1>4, ReadBodyParts, HandlerRoutes
  <2> QED
    BY <2>1, <2>2 DEF RouteIsWatched, TypeOK
<1>5. ASSUME NEW c \in Conns, WriteFail(c) PROVE RouteIsWatched'
  BY <1>5 DEF WriteFail, ManagerStop, RouteIsWatched, TypeOK
<1>6. CASE Stop
  BY <1>6 DEF Stop, RouteIsWatched
<1> QED
  BY <1>1, <1>2, <1>3, <1>4, <1>5, <1>6
  DEF Next, vars, sessionVars, ClientSend, ClientClose, ClientVanish, LinkFails,
      RunPosted, WriteDone

\* If no client logs in twice on one connection, every route leads to a
\* connection whose read chain is alive, even if writes fail: the end of the
\* connection, once it is reported, is noticed there.
THEOREM RoutesAreWatched ==
    ASSUME ~Relogin PROVE Spec => []RouteIsWatched
<1>1. Init => RouteIsWatched
  BY DEF Init, RouteIsWatched
<1> QED
  BY <1>1, NextWatched, TypeCorrect, RoutesLeadToTheirUser, PTL DEF Spec

\* If no client logs in twice on one connection and no write fails, a user who
\* is refused as already online has a registered session.
THEOREM NoGhosts ==
    ASSUME ~Relogin, ~WriteFaults PROVE Spec => []NoGhostUser
<1>1. Init => SessionInv /\ NoRouteWhenStopped
  BY DEF Init, SessionInv, Fresh, ReadIsRegistered, SessionReachable, NoRouteWhenStopped
<1>2. TypeOK /\ SessionInv /\ [Next]_vars => SessionInv'
  BY NextSession
<1>3. NoRouteWhenStopped /\ [Next]_vars => NoRouteWhenStopped'
  <2> SUFFICES ASSUME NoRouteWhenStopped, [Next]_vars PROVE NoRouteWhenStopped'
    OBVIOUS
  <2>1. CASE Stop
    BY <2>1 DEF Stop, NoRouteWhenStopped
  <2>2. CASE ~Stop /\ running
    BY <2>2 DEF NoRouteWhenStopped, Next, vars, ClientSend, ClientClose, ClientVanish, LinkFails,
                Accept, ReadHeader, ReadBadHeader, ReadBody, ReadFail, RunPosted,
                WriteDone, WriteFail
  <2>3. CASE ~running
    <3>1. UNCHANGED <<running, userToConn>>
      BY <2>3 DEF Next, vars, sessionVars, ClientSend, ClientClose, ClientVanish, LinkFails,
                  Accept, ReadHeader, ReadBadHeader, ReadBody, ReadFail, RunPosted,
                  WriteDone, WriteFail, Stop
    <3> QED
      BY <3>1 DEF NoRouteWhenStopped
  <2> QED
    BY <2>1, <2>2, <2>3
<1>4. (TypeOK /\ SessionInv /\ NoRouteWhenStopped /\ RouteIsWatched /\ RoutesToItsUser)
        => NoGhostUser
  BY DEF TypeOK, SessionInv, ReadIsRegistered, NoRouteWhenStopped, RouteIsWatched,
     RoutesToItsUser, NoGhostUser
<1> QED
  BY <1>1, <1>2, <1>3, <1>4, TypeCorrect, RoutesAreWatched, RoutesLeadToTheirUser, PTL
  DEF Spec

-----------------------------------------------------------------------------
(* Messages, when clients log in once per connection *)

\* Who is logged in on a connection stays: no request gives it another user.
UserStays == \A c \in Conns : userId[c] # NoUser => userId'[c] = userId[c]

LEMMA NextUserStays == TypeOK /\ LoginOnce /\ [Next]_vars => UserStays
<1> SUFFICES ASSUME TypeOK, LoginOnce, [Next]_vars PROVE UserStays
  OBVIOUS
<1>1. CASE userId' = userId
  BY <1>1 DEF UserStays
<1>2. ASSUME NEW c \in Conns, ReadBody(c) PROVE UserStays
  <2> DEFINE r == Head(input[c])
  <2>1. input[c] \in Seq(Request) /\ input[c] # <<>> /\ r \in Request /\ HandleMessage(c, r)
    BY <1>2, ReadBodyParts DEF TypeOK, ReadBody
  <2>2. CASE r.kind = "login"
    <3>1. 1 \in 1..Len(input[c]) /\ input[c][1] = r
      BY <2>1, EmptySeq
    <3>2. userId[c] = NoUser
      BY <2>2, <3>1 DEF LoginOnce
    <3> QED
      BY <2>1, <3>2, HandlerScope DEF UserStays
  <2>3. CASE r.kind # "login"
    <3>1. userId' = userId
      BY <2>1, <2>3 DEF HandleMessage, HandleChatMessage, HandleQuery
    <3> QED
      BY <3>1 DEF UserStays
  <2> QED
    BY <2>2, <2>3
<1> QED
  BY <1>1, <1>2
  DEF Next, vars, sessionVars, ClientSend, ClientClose, ClientVanish, LinkFails,
      Accept, ReadHeader, ReadBadHeader, ReadFail, RunPosted, WriteDone, WriteFail, Stop

\* The notifications in a queue are for user u.
Meets(q, u) == \A i \in 1..Len(q) : q[i].type = "MESSAGE_NOTIFY" => q[i].user = u

QueuesMeetTheirUser ==
    \A c \in Conns : Meets(posted[c], userId[c]) /\ Meets(writeBuf[c], userId[c])

\* A packet at the end of a queue, if it is a notification, must be for u.
LEMMA MeetsAppend ==
    ASSUME NEW q \in Seq(Packet), NEW u, Meets(q, u),
           NEW p \in Packet, p.type = "MESSAGE_NOTIFY" => p.user = u
    PROVE  Meets(Append(q, p), u)
<1>1. /\ Len(q) \in Nat /\ Len(Append(q, p)) = Len(q) + 1
      /\ Append(q, p)[Len(q) + 1] = p
      /\ \A i \in 1..Len(q) : Append(q, p)[i] = q[i]
  OBVIOUS
<1> QED
  BY <1>1 DEF Meets

\* The first packet of a queue and the others are for the user of the queue.
LEMMA MeetsTail ==
    ASSUME NEW q \in Seq(Packet), q # <<>>, NEW u, Meets(q, u)
    PROVE  /\ Meets(Tail(q), u)
           /\ Head(q) \in Packet
           /\ Head(q).type = "MESSAGE_NOTIFY" => Head(q).user = u
<1>1. /\ Len(q) \in Nat \ {0} /\ Len(Tail(q)) = Len(q) - 1
      /\ \A i \in 1..Len(Tail(q)) : Tail(q)[i] = q[i + 1]
  BY HeadTailProperties, EmptySeq
<1>2. Head(q) = q[1] /\ Head(q) \in Packet /\ 1 \in 1..Len(q)
  BY <1>1
<1> QED
  BY <1>1, <1>2 DEF Meets

\* A queue without a user has no notification, so it may get one.
LEMMA MeetsStays ==
    ASSUME NEW q \in Seq(Packet), NEW u, Meets(q, u), NEW v, u # NoUser => v = u
    PROVE  Meets(q, v)
<1> SUFFICES ASSUME NEW i \in 1..Len(q), q[i].type = "MESSAGE_NOTIFY"
             PROVE  q[i].user = v
  BY DEF Meets
<1>1. q[i] \in Packet /\ q[i].user = u
  BY DEF Meets
<1>2. q[i] \in Notification
  BY <1>1 DEF Packet, Response
<1> QED
  BY <1>1, <1>2, ConstantsAssumption DEF Notification

\* A handler hands a notification to the route of its user only.
LEMMA HandlerMeets ==
    ASSUME TypeOK, RoutesToItsUser, QueuesMeetTheirUser, NEW c \in Conns,
           NEW r \in Request, HandleMessage(c, r), NEW d \in Conns
    PROVE  Meets(posted'[d], userId[d])
<1>1. posted \in [Conns -> Seq(Packet)] /\ Meets(posted[d], userId[d])
  BY DEF TypeOK, QueuesMeetTheirUser
<1>2. ASSUME NEW q \in [Conns -> Seq(Packet)], Meets(q[d], userId[d]),
             NEW t \in {"LOGIN_RESP", "MESSAGE_RESP", "QUERY_RESP"}, NEW code \in Codes,
             posted' = Respond(q, c, t, code)
      PROVE  Meets(posted'[d], userId[d])
  <2> DEFINE p == [type |-> t, code |-> code]
  <2>1. p \in Packet /\ p.type # "MESSAGE_NOTIFY"
    BY DEF Packet, Response
  <2>2. posted'[d] = IF d = c THEN Append(q[d], p) ELSE q[d]
    BY <1>2 DEF Respond, Send
  <2>3. q[d] \in Seq(Packet)
    OBVIOUS
  <2> HIDE DEF p
  <2> QED
    BY <1>2, <2>1, <2>2, <2>3, MeetsAppend
<1>3. CASE r.kind = "login" /\ HandleLogin(c, r.user)
  BY <1>1, <1>2, <1>3 DEF HandleLogin, Codes
<1>4. CASE r.kind = "chat" /\ HandleChatMessage(c, r.user)
  <2>1. r.user \in Users
    BY <1>4 DEF Request, RequestKinds
  <2>2. CASE \E code \in Codes : posted' = Respond(posted, c, "MESSAGE_RESP", code)
    BY <1>1, <1>2, <2>2
  <2>3. CASE Dispatch(c, r.user, Len(stored) + 1)
    <3> DEFINE route == userToConn[r.user]
               note == [type |-> "MESSAGE_NOTIFY", user |-> r.user, id |-> Len(stored) + 1]
    <3>1. CASE ~CanSendToUser(r.user)
      BY <2>2, <2>3, <3>1 DEF Dispatch, Codes
    <3>2. CASE CanSendToUser(r.user)
      <4>1. route \in Conns /\ userId[route] = r.user
        BY <2>1, <3>2 DEF CanSendToUser, IsUserOnline, RoutesToItsUser, TypeOK
      <4>2. note \in Packet /\ note.user = r.user
        BY <2>1 DEF Packet, Notification, TypeOK
      <4>3. posted' = Respond(Send(posted, route, note), c, "MESSAGE_RESP", "SUCCESS")
        BY <2>3, <3>2 DEF Dispatch, CanSendToUser
      <4> HIDE DEF note, route
      <4>4. Send(posted, route, note) \in [Conns -> Seq(Packet)]
        BY <1>1, <4>1, <4>2, SendType
      <4>5. Send(posted, route, note)[d] = IF d = route THEN Append(posted[d], note) ELSE posted[d]
        BY <1>1, <4>1 DEF Send
      <4>6. posted[d] \in Seq(Packet)
        BY <1>1
      <4>7. Meets(Send(posted, route, note)[d], userId[d])
        BY <1>1, <4>1, <4>2, <4>5, <4>6, MeetsAppend
      <4> QED
        BY <1>2, <4>3, <4>4, <4>7 DEF Codes
    <3> QED
      BY <3>1, <3>2
  <2> QED
    BY <1>4, <2>2, <2>3 DEF HandleChatMessage, Codes
<1>5. CASE r.kind = "query" /\ HandleQuery(c)
  BY <1>1, <1>2, <1>5 DEF HandleQuery, Codes
<1>6. CASE r.kind = "garbled" /\ UNCHANGED <<posted, userId, userToConn, messageVars>>
  BY <1>1, <1>6
<1> QED
  BY <1>3, <1>4, <1>5, <1>6 DEF HandleMessage

\* Every action keeps notifications on connections of their user.
LEMMA NextMeets ==
    QueueInv /\ LoginOnce /\ RoutesToItsUser /\ QueuesMeetTheirUser /\ [Next]_vars
        => QueuesMeetTheirUser'
<1> SUFFICES ASSUME QueueInv, TypeOK, LoginOnce, RoutesToItsUser, QueuesMeetTheirUser,
                    [Next]_vars
             PROVE  QueuesMeetTheirUser'
  BY DEF QueueInv
<1>1. CASE UNCHANGED <<posted, writeBuf, userId>>
  BY <1>1 DEF QueuesMeetTheirUser
<1>2. ASSUME NEW c \in Conns, ReadBody(c) PROVE QueuesMeetTheirUser'
  <2>1. Head(input[c]) \in Request /\ HandleMessage(c, Head(input[c])) /\ writeBuf' = writeBuf
    BY <1>2, ReadBodyParts
  <2>2. posted' \in [Conns -> Seq(Packet)] /\ writeBuf \in [Conns -> Seq(Packet)]
    BY <2>1, HandleMessageType DEF TypeOK
  <2>3. UserStays
    BY NextUserStays
  <2>4. ASSUME NEW d \in Conns
        PROVE  Meets(posted'[d], userId'[d]) /\ Meets(writeBuf'[d], userId'[d])
    <3>1. Meets(posted'[d], userId[d]) /\ Meets(writeBuf[d], userId[d])
      BY <2>1, HandlerMeets DEF QueuesMeetTheirUser
    <3>2. userId[d] # NoUser => userId'[d] = userId[d]
      BY <2>3 DEF UserStays
    <3>3. posted'[d] \in Seq(Packet) /\ writeBuf[d] \in Seq(Packet)
      BY <2>2
    <3> QED
      BY <2>1, <3>1, <3>2, <3>3, MeetsStays
  <2> QED
    BY <2>4 DEF QueuesMeetTheirUser
<1>3. ASSUME NEW c \in Conns, RunPosted(c) PROVE QueuesMeetTheirUser'
  <2>1. posted[c] \in Seq(Packet) /\ posted[c] # <<>> /\ writeBuf[c] \in Seq(Packet)
    BY <1>3 DEF RunPosted, TypeOK
  <2>2. Meets(posted[c], userId[c]) /\ Meets(writeBuf[c], userId[c])
    BY DEF QueuesMeetTheirUser
  <2>3. Meets(Tail(posted[c]), userId[c]) /\ Meets(Append(writeBuf[c], Head(posted[c])), userId[c])
    BY <2>1, <2>2, MeetsTail, MeetsAppend
  <2>4. /\ posted' = [posted EXCEPT ![c] = Tail(posted[c])]
        /\ writeBuf' = [writeBuf EXCEPT ![c] = Append(writeBuf[c], Head(posted[c]))]
        /\ userId' = userId
    BY <1>3 DEF RunPosted, sessionVars
  <2> QED
    BY <2>3, <2>4 DEF QueuesMeetTheirUser, TypeOK
<1>4. ASSUME NEW c \in Conns, WriteDone(c) PROVE QueuesMeetTheirUser'
  <2>1. writeBuf[c] # <<>>
    BY <1>4 DEF WriteDone, QueueInv, OneQueuedWrite
  <2>2. Meets(Tail(writeBuf[c]), userId[c])
    BY <2>1, MeetsTail DEF QueuesMeetTheirUser, TypeOK
  <2> QED
    BY <1>4, <2>2 DEF WriteDone, sessionVars, QueuesMeetTheirUser, TypeOK
<1> QED
  BY <1>1, <1>2, <1>3, <1>4
  DEF Next, vars, sessionVars, outVars, ClientSend, ClientClose, ClientVanish, LinkFails,
      Accept, ReadHeader, ReadBadHeader, ReadFail, WriteFail, Stop

\* If no client logs in twice on one connection, a notification that waits
\* anywhere is for the user who is logged in there, even if writes fail.
THEOREM NotificationsStayWithTheirUser ==
    ASSUME ~Relogin PROVE Spec => []NotificationsMeetTheirUser
<1>1. Init => LoginOnce /\ QueuesMeetTheirUser
  BY DEF Init, LoginOnce, QueuesMeetTheirUser, Meets
<1>2. QueueInv /\ LoginOnce /\ [Next]_vars => LoginOnce'
  BY NextLoginOnce DEF QueueInv
<1>3. QueueInv /\ QueuesMeetTheirUser => NotificationsMeetTheirUser
  <2> SUFFICES ASSUME QueueInv, QueuesMeetTheirUser, NEW c \in Conns,
                      NEW i \in 1..Len(Outstanding(c)),
                      Outstanding(c)[i].type = "MESSAGE_NOTIFY"
               PROVE  userId[c] = Outstanding(c)[i].user
    BY DEF NotificationsMeetTheirUser
  <2> DEFINE w == writeBuf[c]  p == posted[c]
  <2>1. w \in Seq(Packet) /\ p \in Seq(Packet) /\ Outstanding(c) = w \o p
    BY DEF QueueInv, TypeOK, Outstanding
  <2>2. Meets(w, userId[c]) /\ Meets(p, userId[c])
    BY DEF QueuesMeetTheirUser
  <2> HIDE DEF w, p
  <2>3. Len(w) \in Nat /\ Len(p) \in Nat /\ Len(w \o p) = Len(w) + Len(p)
    BY <2>1
  <2>4. CASE i <= Len(w)
    <3>1. i \in 1..Len(w) /\ (w \o p)[i] = w[i]
      BY <2>1, <2>3, <2>4
    <3> QED
      BY <2>1, <2>2, <3>1 DEF Meets
  <2>5. CASE i > Len(w)
    <3>1. i - Len(w) \in 1..Len(p) /\ (w \o p)[i] = p[i - Len(w)]
      BY <2>1, <2>3, <2>5
    <3> QED
      BY <2>1, <2>2, <3>1 DEF Meets
  <2> QED
    BY <2>1, <2>3, <2>4, <2>5
<1> QED
  BY <1>1, <1>2, <1>3, NextMeets, QueueInvariant, RoutesLeadToTheirUser, PTL DEF Spec

\* Every action keeps account of the stored messages: while every route leads to
\* a registered connection, send_to_user cannot fail for a user who is online.
LEMMA NextAccounted ==
    TypeOK /\ LoginOnce /\ NoGhostUser /\ StoredIsAccounted /\ [Next]_vars
        => StoredIsAccounted'
<1> SUFFICES ASSUME TypeOK, LoginOnce, NoGhostUser, StoredIsAccounted, [Next]_vars
             PROVE  StoredIsAccounted'
  OBVIOUS
<1>1. UserStays
  BY NextUserStays
<1>2. ASSUME stored' = stored, unread' = unread, notified' = notified
      PROVE  StoredIsAccounted'
  <2> SUFFICES ASSUME NEW id \in 1..Len(stored), id \notin unread
               PROVE  \E c \in Conns : <<id, c>> \in notified /\ userId'[c] = stored[id].to
    BY <1>2 DEF StoredIsAccounted
  <2>1. PICK c \in Conns : <<id, c>> \in notified /\ userId[c] = stored[id].to
    BY DEF StoredIsAccounted
  <2>2. stored[id] \in Message
    BY DEF TypeOK
  <2>3. stored[id].to # NoUser
    BY <2>2, ConstantsAssumption DEF Message
  <2> QED
    BY <1>1, <2>1, <2>3 DEF UserStays
<1>3. ASSUME NEW c \in Conns, NEW u \in Users, HandleChatMessage(c, u), Len(stored') # Len(stored)
      PROVE  StoredIsAccounted'
  <2> DEFINE next == Len(stored) + 1
             m == [from |-> userId[c], to |-> u]
  <2>1. stored \in Seq(Message) /\ Len(stored) \in Nat
    BY DEF TypeOK
  <2>2. /\ userId[c] # NoUser /\ stored' = Append(stored, m)
        /\ Dispatch(c, u, next) /\ userId' = userId
    BY <1>3 DEF HandleChatMessage, messageVars
  <2>3. m \in Message
    BY <2>2 DEF Message, TypeOK
  <2>4. /\ Len(stored') = next /\ stored'[next].to = u
        /\ \A id \in 1..Len(stored) : stored'[id] = stored[id]
    BY <2>1, <2>2, <2>3
  <2>5. unread \subseteq unread' /\ notified \subseteq notified'
    BY <2>2 DEF Dispatch
  <2>6. next \in unread' \/ \E d \in Conns : <<next, d>> \in notified' /\ userId[d] = u
    <3>1. CASE IsUserOnline(u)
      <4>1. CanSendToUser(u) /\ userToConn[u] \in Conns /\ userId[userToConn[u]] = u
        BY <3>1 DEF CanSendToUser, IsUserOnline, NoGhostUser, TypeOK
      <4>2. <<next, userToConn[u]>> \in notified'
        BY <2>2, <3>1, <4>1 DEF Dispatch
      <4> QED
        BY <4>1, <4>2
    <3>2. CASE ~IsUserOnline(u)
      BY <2>2, <3>2 DEF Dispatch, CanSendToUser
    <3> QED
      BY <3>1, <3>2
  <2> SUFFICES ASSUME NEW id \in 1..Len(stored'), id \notin unread'
               PROVE  \E d \in Conns : <<id, d>> \in notified' /\ userId'[d] = stored'[id].to
    BY DEF StoredIsAccounted
  <2>7. CASE id = next
    BY <2>2, <2>4, <2>6, <2>7
  <2>8. CASE id # next
    <3>1. id \in 1..Len(stored)
      BY <2>1, <2>4, <2>8
    <3>2. PICK d \in Conns : <<id, d>> \in notified /\ userId[d] = stored[id].to
      BY <2>5, <3>1 DEF StoredIsAccounted
    <3> QED
      BY <2>2, <2>4, <2>5, <3>1, <3>2
  <2> QED
    BY <2>7, <2>8
<1>4. ASSUME NEW c \in Conns, ReadBody(c) PROVE StoredIsAccounted'
  <2> DEFINE r == Head(input[c])
  <2>1. r \in Request /\ HandleMessage(c, r)
    BY <1>4, ReadBodyParts
  <2>2. CASE UNCHANGED messageVars
    BY <1>2, <2>2 DEF messageVars
  <2>3. CASE ~UNCHANGED messageVars
    <3>1. r.kind = "chat" /\ HandleChatMessage(c, r.user) /\ r.user \in Users
      BY <2>1, <2>3 DEF HandleMessage, HandleLogin, HandleQuery, Request, RequestKinds
    <3> HIDE DEF r
    <3>2. \E m : stored' = Append(stored, m)
      BY <2>3, <3>1 DEF HandleChatMessage
    <3>3. Len(stored') # Len(stored)
      BY <3>2 DEF TypeOK
    <3> QED
      BY <1>3, <3>1, <3>3
  <2> QED
    BY <2>2, <2>3
<1> QED
  BY <1>2, <1>4
  DEF Next, vars, messageVars, ClientSend, ClientClose, ClientVanish, LinkFails,
      Accept, ReadHeader, ReadBadHeader, ReadFail, RunPosted, WriteDone, WriteFail, Stop

\* If no client logs in twice on one connection and no write fails, a message
\* whose sender was told SUCCESS was handed to a connection of its receiver or
\* counted as unread.
THEOREM StoredMessagesAreAccounted ==
    ASSUME ~Relogin, ~WriteFaults PROVE Spec => []StoredIsAccounted
<1>1. Init => LoginOnce /\ StoredIsAccounted
  BY DEF Init, LoginOnce, StoredIsAccounted
<1>2. TypeOK /\ LoginOnce /\ [Next]_vars => LoginOnce'
  BY NextLoginOnce
<1> QED
  BY <1>1, <1>2, NextAccounted, TypeCorrect, NoGhosts, PTL DEF Spec

\* While the server runs, a connection that is read is registered, unless its
\* client is gone: only a failed write stops a connection and not its reads.
UnregisteredIsDown ==
    running => \A c \in Conns :
        reading[c] \in {"header", "body"} => c \in conns \/ ~open[c]

\* Every action keeps connections that are read registered or without a client.
LEMMA NextUnregistered ==
    TypeOK /\ UnregisteredIsDown /\ [Next]_vars => UnregisteredIsDown'
<1> SUFFICES ASSUME TypeOK, UnregisteredIsDown, [Next]_vars PROVE UnregisteredIsDown'
  OBVIOUS
<1>1. CASE UNCHANGED <<running, conns, reading, open>>
  BY <1>1 DEF UnregisteredIsDown
<1>2. ASSUME NEW c \in Conns, ClientClose(c) \/ ClientVanish(c) PROVE UnregisteredIsDown'
  BY <1>2 DEF ClientClose, ClientVanish, UnregisteredIsDown, TypeOK, sessionVars
<1>3. ASSUME NEW c \in Conns, Accept(c) \/ ReadHeader(c) PROVE UnregisteredIsDown'
  BY <1>3 DEF Accept, ReadHeader, UnregisteredIsDown, TypeOK, sessionVars
<1>4. ASSUME NEW c \in Conns, ReadBadHeader(c) \/ ReadFail(c) PROVE UnregisteredIsDown'
  BY <1>4 DEF ReadBadHeader, ReadFail, ManagerStop, UnregisteredIsDown, TypeOK
<1>5. ASSUME NEW c \in Conns, ReadBody(c) PROVE UnregisteredIsDown'
  <2>1. /\ reading[c] = "body" /\ reading' = [reading EXCEPT ![c] = "header"]
        /\ UNCHANGED <<running, conns, open>>
    BY <1>5 DEF ReadBody
  <2> QED
    BY <2>1 DEF UnregisteredIsDown, TypeOK
<1>6. ASSUME NEW c \in Conns, WriteFail(c) PROVE UnregisteredIsDown'
  BY <1>6 DEF WriteFail, PeerEnded, ManagerStop, UnregisteredIsDown, TypeOK
<1>7. CASE Stop
  BY <1>7 DEF Stop, UnregisteredIsDown
<1> QED
  BY <1>1, <1>2, <1>3, <1>4, <1>5, <1>6, <1>7
  DEF Next, vars, sessionVars, ClientSend, LinkFails, RunPosted, WriteDone

\* What OnlyTheGoneMissMessages says of one step.
GoneMiss ==
    Len(stored') > Len(stored) =>
        LET id == Len(stored')
            route == userToConn[stored'[id].to]
        IN  \/ id \in unread'
            \/ \E c \in Conns : <<id, c>> \in notified'
            \/ route # NoConn /\ ~open[route]

\* Only handle_chat_message stores a message, and send_to_user refuses it only
\* for a route to a connection that is read and no longer registered.
LEMMA NextGoneMiss ==
    TypeOK /\ RouteIsWatched /\ UnregisteredIsDown /\ [Next]_vars => GoneMiss
<1> SUFFICES ASSUME TypeOK, RouteIsWatched, UnregisteredIsDown, [Next]_vars,
                    Len(stored') > Len(stored)
             PROVE  GoneMiss
  BY DEF GoneMiss
<1>1. stored \in Seq(Message) /\ Len(stored) \in Nat /\ stored' # stored
  BY DEF TypeOK
<1>2. PICK c \in Conns : ReadBody(c)
  BY <1>1 DEF Next, vars, messageVars, ClientSend, ClientClose, ClientVanish, LinkFails,
              Accept, ReadHeader, ReadBadHeader, ReadFail, RunPosted, WriteDone,
              WriteFail, Stop
<1> DEFINE r == Head(input[c])
<1>3. r \in Request /\ HandleMessage(c, r) /\ running
  BY <1>2, ReadBodyParts DEF ReadBody
<1>4. r.kind = "chat" /\ HandleChatMessage(c, r.user) /\ r.user \in Users
  BY <1>1, <1>3 DEF HandleMessage, HandleLogin, HandleQuery, messageVars, Request, RequestKinds
<1> HIDE DEF r
<1> PICK u \in Users : u = r.user
  BY <1>4
<1> DEFINE next == Len(stored) + 1
           m == [from |-> userId[c], to |-> u]
<1>5. /\ userId[c] # NoUser /\ stored' = Append(stored, m) /\ Dispatch(c, u, next)
  BY <1>1, <1>4 DEF HandleChatMessage, messageVars
<1>6. m \in Message
  BY <1>5 DEF Message, TypeOK
<1>7. Len(stored') = next /\ stored'[next].to = u
  BY <1>1, <1>5, <1>6
<1>8. CASE CanSendToUser(u)
  <2>1. <<next, userToConn[u]>> \in notified' /\ userToConn[u] \in Conns
    BY <1>5, <1>8 DEF Dispatch, CanSendToUser, IsUserOnline, TypeOK
  <2> QED
    BY <1>7, <2>1 DEF GoneMiss
<1>9. CASE IsUserOnline(u) /\ ~CanSendToUser(u)
  <2>1. userToConn[u] # NoConn /\ userToConn[u] \in Conns /\ userToConn[u] \notin conns
    BY <1>9 DEF IsUserOnline, CanSendToUser, TypeOK
  <2>2. ~open[userToConn[u]]
    BY <1>3, <2>1 DEF RouteIsWatched, UnregisteredIsDown
  <2> QED
    BY <1>7, <2>1, <2>2 DEF GoneMiss
<1>10. CASE ~IsUserOnline(u)
  BY <1>5, <1>7, <1>10 DEF Dispatch, CanSendToUser, GoneMiss
<1> QED
  BY <1>8, <1>9, <1>10

\* If no client logs in twice on one connection, a message that is stored and
\* handed to nobody was for a user whose client is gone, even if writes fail and
\* connections are stopped twice.
THEOREM TheGoneMissMessages ==
    ASSUME ~Relogin PROVE Spec => OnlyTheGoneMissMessages
<1>1. Init => UnregisteredIsDown
  BY DEF Init, UnregisteredIsDown
<1> QED
  BY <1>1, NextUnregistered, NextGoneMiss, TypeCorrect, RoutesAreWatched, PTL
  DEF Spec, OnlyTheGoneMissMessages, GoneMiss

-----------------------------------------------------------------------------
(* The sessions implement Presence *)

\* What SessionOf chooses, when there is no choice.
SessionOfIs ==
    \A u \in Users :
        /\ SessionOf(u) \in Conns \union {NoConn}
        /\ \A c \in Conns : SessionOf(u) = c <=> (c \in conns /\ userId[c] = u)

\* The session of a user is the user's registered connection.
LEMMA SessionOfUnique == TypeOK /\ UniqueSession => SessionOfIs
<1> SUFFICES ASSUME TypeOK, UniqueSession, NEW u \in Users
             PROVE  /\ SessionOf(u) \in Conns \union {NoConn}
                    /\ \A c \in Conns : SessionOf(u) = c <=> (c \in conns /\ userId[c] = u)
  BY DEF SessionOfIs
<1>1. CASE \E c \in conns : userId[c] = u
  <2>1. PICK c \in conns : userId[c] = u
    BY <1>1
  <2>2. SessionOf(u) \in conns /\ userId[SessionOf(u)] = u
    BY <1>1 DEF SessionOf
  <2>3. \A d \in conns : userId[d] = u => d = SessionOf(u)
    BY <2>2, ConstantsAssumption DEF UniqueSession
  <2> QED
    BY <2>2, <2>3 DEF TypeOK
<1>2. CASE ~\E c \in conns : userId[c] = u
  <2>1. SessionOf(u) = NoConn
    BY <1>2 DEF SessionOf
  <2> QED
    BY <1>2, <2>1, ConstantsAssumption
<1> QED
  BY <1>1, <1>2

\* The abstract state of the server.
SessionMap == [u \in Users |-> SessionOf(u)]

\* Stopping a connection is a LogOut of its user, if it had one.
LEMMA ManagerStopLogsOut ==
    ASSUME TypeOK, SessionOfIs, SessionOfIs', NEW c \in conns, ManagerStop(c),
           userId' = userId
    PROVE  Sessions!Next \/ UNCHANGED SessionMap
<1>1. conns' = conns \ {c} /\ c \in Conns /\ conns \subseteq Conns
  BY DEF ManagerStop, TypeOK
<1>2. \A u \in Users : userId[c] # u => SessionOf(u)' = SessionOf(u)
  BY <1>1, ConstantsAssumption DEF SessionOfIs
<1>3. ASSUME NEW u \in Users, userId[c] = u PROVE Sessions!LogOut(u)
  <2>1. SessionOf(u) = c /\ SessionOf(u)' = NoConn
    BY <1>1, <1>3 DEF SessionOfIs
  <2>2. SessionMap' = [SessionMap EXCEPT ![u] = NoConn]
    BY <1>2, <1>3, <2>1 DEF SessionMap
  <2> QED
    BY <1>1, <2>1, <2>2, ConstantsAssumption DEF SessionMap, Sessions!LogOut
<1>4. CASE userId[c] \in Users
  BY <1>3, <1>4 DEF Sessions!Next
<1>5. CASE userId[c] \notin Users
  BY <1>2, <1>5 DEF SessionMap
<1> QED
  BY <1>4, <1>5

\* A handler is a LogIn or leaves the sessions alone.
LEMMA ReadBodyLogsIn ==
    ASSUME TypeOK, SessionOfIs, SessionOfIs', SessionInv, LoginOnce,
           NEW c \in Conns, ReadBody(c)
    PROVE  Sessions!Next \/ UNCHANGED SessionMap
<1>1. PICK r \in Request :
        /\ HandleMessage(c, r) /\ conns' = conns
        /\ r.kind = "login" => userId[c] = NoUser
  <2>1. input[c] \in Seq(Request) /\ input[c] # <<>>
    BY DEF TypeOK, ReadBody
  <2>2. 1 \in 1..Len(input[c]) /\ input[c][1] = Head(input[c])
    BY <2>1, EmptySeq
  <2>3. Head(input[c]).kind = "login" => userId[c] = NoUser
    BY <2>2 DEF LoginOnce
  <2> QED
    BY <2>3, ReadBodyParts
<1>2. c \in conns
  BY DEF SessionInv, ReadIsRegistered, ReadBody
<1>3. CASE UNCHANGED userId
  BY <1>1, <1>3 DEF SessionMap, SessionOf
<1>4. CASE /\ r.kind = "login" /\ ~IsUserOnline(r.user)
           /\ userId' = [userId EXCEPT ![c] = r.user]
  <2> PICK u \in Users : u = r.user
    BY <1>4 DEF Request
  <2>1. userId[c] = NoUser /\ userId'[c] = u
    BY <1>1, <1>4 DEF TypeOK
  <2>2. \A d \in conns : userId[d] # u
    <3>1. userToConn[u] = NoConn /\ u # NoUser /\ \A d \in conns : d # NoConn
      BY <1>4, ConstantsAssumption DEF IsUserOnline, TypeOK
    <3> QED
      BY <3>1 DEF SessionInv, SessionReachable
  <2>3. SessionOf(u) = NoConn
    BY <2>2 DEF SessionOfIs
  <2>4. SessionOf(u)' = c
    BY <1>1, <1>2, <2>1 DEF SessionOfIs
  <2>5. \A v \in Users : SessionOf(v) # c
    BY <2>1, ConstantsAssumption DEF SessionOfIs
  <2>6. \A v \in Users : v # u => SessionOf(v)' = SessionOf(v)
    <3> SUFFICES ASSUME NEW v \in Users, v # u PROVE SessionOf(v)' = SessionOf(v)
      OBVIOUS
    <3>1. \A d \in Conns : userId'[d] = v <=> userId[d] = v
      BY <1>4, <2>1, ConstantsAssumption DEF TypeOK
    <3>2. \A d \in Conns : SessionOf(v)' = d <=> SessionOf(v) = d
      BY <1>1, <3>1 DEF SessionOfIs
    <3> QED
      BY <3>2 DEF SessionOfIs
  <2>7. SessionMap' = [SessionMap EXCEPT ![u] = c]
    BY <2>4, <2>6 DEF SessionMap
  <2>8. Sessions!LogIn(u, c)
    BY <2>3, <2>5, <2>7 DEF SessionMap, Sessions!LogIn
  <2> QED
    BY <2>8 DEF Sessions!Next
<1> QED
  BY <1>1, <1>3, <1>4 DEF HandleMessage, HandleLogin, HandleChatMessage, HandleQuery

\* Every step of the server is one of Presence or leaves its state alone.
LEMMA PresenceStep ==
    ASSUME ~WriteFaults, TypeOK, SessionOfIs, SessionOfIs', SessionInv, LoginOnce, [Next]_vars
    PROVE  Sessions!Next \/ UNCHANGED SessionMap
<1>1. CASE UNCHANGED <<conns, userId>>
  BY <1>1 DEF SessionMap, SessionOf
<1>2. ASSUME NEW c \in Conns, Accept(c) PROVE UNCHANGED SessionMap
  <2>1. userId[c] = NoUser /\ conns' = conns \union {c} /\ userId' = userId
    BY <1>2 DEF Accept, SessionInv, Fresh
  <2>2. \A v \in Users, d \in Conns : SessionOf(v)' = d <=> SessionOf(v) = d
    BY <2>1, ConstantsAssumption DEF SessionOfIs
  <2>3. \A v \in Users : SessionOf(v)' = SessionOf(v)
    BY <2>2 DEF SessionOfIs
  <2> QED
    BY <2>3 DEF SessionMap
<1>3. ASSUME NEW c \in Conns, ReadBadHeader(c) \/ ReadFail(c)
      PROVE  Sessions!Next \/ UNCHANGED SessionMap
  <2>1. c \in conns /\ ManagerStop(c) /\ userId' = userId
    BY <1>3 DEF ReadBadHeader, ReadFail, SessionInv, ReadIsRegistered
  <2> QED
    BY <2>1, ManagerStopLogsOut
<1>4. CASE Stop
  <2>1. SessionMap' = [u \in Users |-> NoConn]
    BY <1>4 DEF Stop, SessionOf, SessionMap
  <2> QED
    BY <2>1 DEF SessionMap, Sessions!Next, Sessions!LogOutAll
<1> QED
  BY <1>1, <1>2, <1>3, <1>4, ReadBodyLogsIn
  DEF Next, vars, sessionVars, ClientSend, ClientClose, ClientVanish, LinkFails,
      ReadHeader, RunPosted, WriteDone, WriteFail

\* If no client logs in twice on one connection and no write fails, the server
\* implements Presence: a user is in session on one connection at a time, and
\* leaves a session only by going offline.
THEOREM ImplementsPresence ==
    ASSUME ~Relogin, ~WriteFaults PROVE Spec => PresenceSpec
<1>1. Init => Sessions!Init
  BY DEF Init, Sessions!Init, SessionOf
<1>2. Init => SessionInv /\ LoginOnce
  BY DEF Init, SessionInv, Fresh, ReadIsRegistered, SessionReachable, LoginOnce
<1>3. TypeOK /\ SessionInv /\ LoginOnce /\ [Next]_vars => SessionInv' /\ LoginOnce'
  BY NextSession, NextLoginOnce
<1>4. TypeOK /\ SessionInv => SessionOfIs
  <2>1. SessionInv => UniqueSession
    BY DEF SessionInv, SessionReachable, UniqueSession
  <2> QED
    BY <2>1, SessionOfUnique
<1>5. ASSUME TypeOK, SessionOfIs, SessionOfIs', SessionInv, LoginOnce, [Next]_vars
      PROVE  [Sessions!Next]_SessionMap
  BY <1>5, PresenceStep
<1> QED
  BY <1>1, <1>2, <1>3, <1>4, <1>5, TypeCorrect, PTL
  DEF Spec, PresenceSpec, Sessions!Spec, SessionMap

-----------------------------------------------------------------------------
(* OutboundQueue *)

\* What is appended to a sequence of packets leaves it as a prefix.
LEMMA PrefixOfConcat ==
    ASSUME NEW s \in Seq(Packet), NEW t \in Seq(Packet)
    PROVE  Outbound!IsPrefix(s, s \o t)
<1>1. /\ Len(s) \in Nat /\ Len(t) \in Nat /\ s \o t \in Seq(Packet)
      /\ Len(s \o t) = Len(s) + Len(t)
  BY ConcatProperties, LenProperties
<1>2. \A i \in 1..Len(s) : s[i] \in Packet /\ (s \o t)[i] = s[i]
  BY <1>1, ConcatProperties, ElementOfSeq
<1>3. SubSeq(s, 1, Len(s)) = s
  BY SubSeqFull
<1>4. SubSeq(s \o t, 1, Len(s)) = s
  <2>1. /\ SubSeq(s \o t, 1, Len(s)) \in Seq(Packet)
        /\ Len(SubSeq(s \o t, 1, Len(s))) = Len(s)
        /\ \A i \in 1..Len(s) : SubSeq(s \o t, 1, Len(s))[i] = s[i]
    BY <1>1, <1>2, SubSeqProperties
  <2> QED
    BY <2>1, SeqEqual
<1> QED
  BY <1>1, <1>3, <1>4 DEF Outbound!IsPrefix

\* The head of a queue that goes to the end of another leaves both together the
\* same.
LEMMA MoveHead ==
    ASSUME NEW w \in Seq(Packet), NEW p \in Seq(Packet), p # <<>>
    PROVE  Append(w, Head(p)) \o Tail(p) = w \o p
<1>1. /\ Head(p) \in Packet /\ Tail(p) \in Seq(Packet) /\ Len(Tail(p)) = Len(p) - 1
      /\ \A i \in 1..Len(Tail(p)) : Tail(p)[i] = p[i + 1]
  BY HeadTailProperties
<1>2. Head(p) = p[1] /\ Len(p) \in Nat \ {0} /\ Len(w) \in Nat
  BY EmptySeq
<1>3. /\ Append(w, Head(p)) \in Seq(Packet) /\ Len(Append(w, Head(p))) = Len(w) + 1
      /\ \A i \in 1..Len(w) : Append(w, Head(p))[i] = w[i]
      /\ Append(w, Head(p))[Len(w) + 1] = p[1]
  BY <1>1, <1>2
<1> DEFINE s == Append(w, Head(p)) \o Tail(p)
           t == w \o p
<1>4. /\ s \in Seq(Packet) /\ Len(s) = Len(w) + 1 + Len(p) - 1
      /\ \A i \in 1..Len(s) :
            s[i] = IF i <= Len(w) + 1 THEN Append(w, Head(p))[i] ELSE Tail(p)[i - (Len(w) + 1)]
  BY <1>1, <1>2, <1>3, ConcatProperties
<1>5. /\ t \in Seq(Packet) /\ Len(t) = Len(w) + Len(p)
      /\ \A i \in 1..Len(t) : t[i] = IF i <= Len(w) THEN w[i] ELSE p[i - Len(w)]
  BY <1>2, ConcatProperties
<1> HIDE DEF s, t
<1>6. ASSUME NEW i \in 1..Len(s) PROVE s[i] = t[i]
  <2>1. CASE i <= Len(w)
    BY <2>1, <1>2, <1>3, <1>4, <1>5
  <2>2. CASE i = Len(w) + 1
    BY <2>2, <1>2, <1>3, <1>4, <1>5
  <2>3. CASE i > Len(w) + 1
    <3>1. i - (Len(w) + 1) \in 1..Len(Tail(p))
      BY <2>3, <1>1, <1>2, <1>4
    <3>2. Tail(p)[i - (Len(w) + 1)] = p[i - Len(w)]
      BY <3>1, <1>1, <1>2
    <3> QED
      BY <2>3, <3>2, <1>2, <1>4, <1>5
  <2> QED
    BY <1>2, <1>4, <2>1, <2>2, <2>3
<1>7. s = t
  <2>1. Len(s) = Len(t)
    BY <1>2, <1>4, <1>5
  <2> QED
    BY <2>1, <1>4, <1>5, <1>6, SeqEqual
<1> QED
  BY <1>7 DEF s, t

\* The head of the first of two queues is the head of both together.
LEMMA TailOfConcat ==
    ASSUME NEW w \in Seq(Packet), NEW p \in Seq(Packet), w # <<>>
    PROVE  w \o p # <<>> /\ Tail(w) \o p = Tail(w \o p)
<1>1. /\ Tail(w) \in Seq(Packet) /\ Len(Tail(w)) = Len(w) - 1
      /\ \A i \in 1..Len(Tail(w)) : Tail(w)[i] = w[i + 1]
  BY HeadTailProperties
<1>2. Len(w) \in Nat \ {0} /\ Len(p) \in Nat
  BY EmptySeq
<1> DEFINE t == w \o p
           s == Tail(w) \o p
<1>3. /\ t \in Seq(Packet) /\ Len(t) = Len(w) + Len(p)
      /\ \A i \in 1..Len(t) : t[i] = IF i <= Len(w) THEN w[i] ELSE p[i - Len(w)]
  BY <1>2, ConcatProperties
<1>4. /\ s \in Seq(Packet) /\ Len(s) = Len(w) - 1 + Len(p)
      /\ \A i \in 1..Len(s) : s[i] = IF i <= Len(w) - 1 THEN Tail(w)[i] ELSE p[i - (Len(w) - 1)]
  BY <1>1, <1>2, ConcatProperties
<1> HIDE DEF s, t
<1>5. t # <<>>
  BY <1>2, <1>3, EmptySeq
<1>6. /\ Tail(t) \in Seq(Packet) /\ Len(Tail(t)) = Len(t) - 1
      /\ \A i \in 1..Len(Tail(t)) : Tail(t)[i] = t[i + 1]
  BY <1>3, <1>5, HeadTailProperties
<1>7. ASSUME NEW i \in 1..Len(s) PROVE s[i] = Tail(t)[i]
  <2>1. i \in Nat /\ i + 1 \in 1..Len(t) /\ Tail(t)[i] = t[i + 1]
    BY <1>2, <1>3, <1>4, <1>6
  <2>2. CASE i <= Len(w) - 1
    BY <2>1, <2>2, <1>1, <1>2, <1>3, <1>4
  <2>3. CASE i > Len(w) - 1
    <3>1. i - (Len(w) - 1) = (i + 1) - Len(w) /\ ~(i <= Len(w) - 1)
      BY <2>1, <2>3, <1>2
    <3>2. s[i] = p[(i + 1) - Len(w)]
      BY <3>1, <1>4
    <3>3. t[i + 1] = p[(i + 1) - Len(w)]
      BY <2>1, <2>3, <1>2, <1>3
    <3> QED
      BY <2>1, <3>2, <3>3
  <2> QED
    BY <2>1, <2>2, <2>3, <1>2
<1>8. s = Tail(t)
  BY <1>2, <1>3, <1>4, <1>6, <1>7, SeqEqual
<1> QED
  BY <1>5, <1>8 DEF s, t

\* A handler only adds packets to what is posted.
LEMMA HandlerAppends ==
    ASSUME TypeOK, NEW c \in Conns, NEW r \in Request, HandleMessage(c, r), NEW d \in Conns
    PROVE  \E t \in Seq(Packet) : posted'[d] = posted[d] \o t
<1>1. posted \in [Conns -> Seq(Packet)] /\ posted[d] \in Seq(Packet)
  BY DEF TypeOK
<1>2. CASE posted'[d] = posted[d]
  BY <1>1, <1>2, ConcatEmptySeq, EmptySeq
<1>3. ASSUME NEW p \in Packet, posted'[d] = Append(posted[d], p)
      PROVE  \E t \in Seq(Packet) : posted'[d] = posted[d] \o t
  <2>1. <<p>> \in Seq(Packet) /\ Append(posted[d], p) = posted[d] \o <<p>>
    BY <1>1
  <2> QED
    BY <1>3, <2>1
<1>4. ASSUME NEW t \in {"LOGIN_RESP", "MESSAGE_RESP", "QUERY_RESP"}, NEW code \in Codes,
             posted' = Respond(posted, c, t, code)
      PROVE  \E s \in Seq(Packet) : posted'[d] = posted[d] \o s
  <2> DEFINE p == [type |-> t, code |-> code]
  <2>1. p \in Packet
    BY DEF Packet, Response
  <2>2. posted'[d] = IF d = c THEN Append(posted[d], p) ELSE posted[d]
    BY <1>1, <1>4 DEF Respond, Send
  <2> HIDE DEF p
  <2> QED
    BY <2>1, <2>2, <1>2, <1>3
<1>5. CASE r.kind = "login" /\ HandleLogin(c, r.user)
  BY <1>4, <1>5 DEF HandleLogin, Codes
<1>6. CASE r.kind = "chat" /\ HandleChatMessage(c, r.user)
  <2>1. r.user \in Users
    BY <1>6 DEF Request, RequestKinds
  <2>2. CASE \E code \in Codes : posted' = Respond(posted, c, "MESSAGE_RESP", code)
    BY <1>4, <2>2
  <2>3. CASE Dispatch(c, r.user, Len(stored) + 1) /\ CanSendToUser(r.user)
    <3> DEFINE route == userToConn[r.user]
               note == [type |-> "MESSAGE_NOTIFY", user |-> r.user, id |-> Len(stored) + 1]
               answer == [type |-> "MESSAGE_RESP", code |-> "SUCCESS"]
    <3>1. note \in Packet /\ answer \in Packet /\ route \in Conns
      BY <2>1, <2>3 DEF Packet, Notification, Response, Codes, TypeOK, CanSendToUser, IsUserOnline
    <3>2. posted' = Respond(Send(posted, route, note), c, "MESSAGE_RESP", "SUCCESS")
      BY <2>3 DEF Dispatch, CanSendToUser
    <3> HIDE DEF note, route
    <3>3. posted'[d] = LET q == IF d = route THEN Append(posted[d], note) ELSE posted[d]
                       IN  IF d = c THEN Append(q, answer) ELSE q
      BY <1>1, <3>1, <3>2 DEF Respond, Send
    <3>4. CASE d = route /\ d = c
      <4>1. <<note, answer>> \in Seq(Packet)
        BY <3>1
      <4>2. Append(Append(posted[d], note), answer) = posted[d] \o <<note, answer>>
        BY <1>1, <3>1, <4>1
      <4> QED
        BY <3>3, <3>4, <4>1, <4>2
    <3>5. CASE ~(d = route /\ d = c)
      <4> HIDE DEF answer
      <4> QED
        BY <1>2, <1>3, <3>1, <3>3, <3>5
    <3> QED
      BY <3>4, <3>5
  <2>4. CASE Dispatch(c, r.user, Len(stored) + 1) /\ ~CanSendToUser(r.user)
    BY <2>2, <2>4 DEF Dispatch, Codes
  <2> QED
    BY <1>6, <2>2, <2>3, <2>4 DEF HandleChatMessage, Codes
<1>7. CASE r.kind = "query" /\ HandleQuery(c)
  BY <1>4, <1>7 DEF HandleQuery, Codes
<1>8. CASE r.kind = "garbled" /\ UNCHANGED <<posted, userId, userToConn, messageVars>>
  BY <1>2, <1>8
<1> QED
  BY <1>5, <1>6, <1>7, <1>8 DEF HandleMessage

Pending == [c \in Conns |-> Outstanding(c)]

\* Every action is one of OutboundQueue or does not touch the queues.
LEMMA OutboundStep ==
    ASSUME QueueInv, [Next]_vars PROVE [Outbound!Next]_Pending
<1>1. posted \in [Conns -> Seq(Packet)] /\ writeBuf \in [Conns -> Seq(Packet)]
  BY DEF QueueInv, TypeOK
<1>2. CASE UNCHANGED <<posted, writeBuf>>
  BY <1>2 DEF Pending, Outstanding
<1>3. ASSUME NEW c \in Conns, ReadBody(c) PROVE Outbound!Enqueue
  <2>1. Head(input[c]) \in Request /\ HandleMessage(c, Head(input[c])) /\ writeBuf' = writeBuf
    BY <1>3, ReadBodyParts DEF QueueInv
  <2>2. ASSUME NEW d \in Conns PROVE Outbound!IsPrefix(Outstanding(d), Outstanding(d)')
    <3>1. PICK t \in Seq(Packet) : posted'[d] = posted[d] \o t
      BY <2>1, HandlerAppends DEF QueueInv
    <3>2. writeBuf[d] \in Seq(Packet) /\ posted[d] \in Seq(Packet)
      BY <1>1
    <3>3. writeBuf[d] \o posted'[d] = (writeBuf[d] \o posted[d]) \o t
      <4>1. \A w, p \in Seq(Packet) : (w \o p) \o t = w \o (p \o t)
        BY ConcatAssociative
      <4> QED
        BY <3>1, <3>2, <4>1
    <3>4. writeBuf[d] \o posted[d] \in Seq(Packet)
      BY <3>2, ConcatProperties
    <3> QED
      BY <2>1, <3>3, <3>4, PrefixOfConcat DEF Outstanding
  <2> QED
    BY <2>2 DEF Outbound!Enqueue
<1>4. ASSUME NEW c \in Conns, RunPosted(c) PROVE Pending' = Pending
  <2>1. posted[c] # <<>> /\ posted[c] \in Seq(Packet) /\ writeBuf[c] \in Seq(Packet)
    BY <1>1, <1>4 DEF RunPosted
  <2>2. Append(writeBuf[c], Head(posted[c])) \o Tail(posted[c]) = writeBuf[c] \o posted[c]
    BY <2>1, MoveHead
  <2>3. /\ posted' = [posted EXCEPT ![c] = Tail(posted[c])]
        /\ writeBuf' = [writeBuf EXCEPT ![c] = Append(writeBuf[c], Head(posted[c]))]
    BY <1>4 DEF RunPosted
  <2>4. \A d \in Conns : Outstanding(d)' = Outstanding(d)
    BY <1>1, <2>2, <2>3 DEF Outstanding
  <2> QED
    BY <2>4 DEF Pending
<1>5. ASSUME NEW c \in Conns, WriteDone(c) PROVE Outbound!Leave(c)
  <2>1. writeBuf[c] # <<>> /\ posted[c] \in Seq(Packet) /\ writeBuf[c] \in Seq(Packet)
    BY <1>1, <1>5 DEF WriteDone, QueueInv, OneQueuedWrite
  <2>2. Outstanding(c) # <<>> /\ Tail(writeBuf[c]) \o posted[c] = Tail(Outstanding(c))
    BY <2>1, TailOfConcat DEF Outstanding
  <2>3. writeBuf' = [writeBuf EXCEPT ![c] = Tail(writeBuf[c])] /\ posted' = posted
    BY <1>5 DEF WriteDone
  <2>4. \A d \in Conns : Outstanding(d)' = IF d = c THEN Tail(Outstanding(c)) ELSE Outstanding(d)
    BY <1>1, <2>2, <2>3 DEF Outstanding
  <2>5. Pending' = [Pending EXCEPT ![c] = Tail(Outstanding(c))]
    BY <2>4 DEF Pending
  <2> QED
    BY <2>2, <2>5 DEF Outbound!Leave, Pending
<1> QED
  BY <1>2, <1>3, <1>4, <1>5
  DEF Next, vars, outVars, ClientSend, ClientClose, ClientVanish, LinkFails,
      Accept, ReadHeader, ReadBadHeader, ReadFail, WriteFail, Stop, Outbound!Next

\* The connections implement OutboundQueue, whatever clients do and whether
\* writes fail or not: no packet is lost, doubled or overtaken before it is
\* written.
THEOREM ImplementsOutboundQueue == Spec => OutboundSpec
<1>1. Init => Outbound!Init
  <2>1. <<>> \o <<>> = <<>>
    BY ConcatEmptySeq, EmptySeq
  <2> QED
    BY <2>1 DEF Init, Outbound!Init, Outstanding
<1>2. ASSUME QueueInv, [Next]_vars PROVE [Outbound!Next]_Pending
  BY <1>2, OutboundStep
<1> QED
  BY <1>1, <1>2, QueueInvariant, PTL DEF Spec, OutboundSpec, Outbound!Spec, Pending
=============================================================================
