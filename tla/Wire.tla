--------------------------------- MODULE Wire ---------------------------------
(***************************************************************************)
(* One client and the server, in bytes: a request of the user is encoded   *)
(* by the client's codec, framed, read and decoded by the server, answered *)
(* by a handler, encoded and framed again, cut to pieces by TCP, put       *)
(* together by read_loop, decoded by handle_packet and reported through a  *)
(* callback.  Besides answers the server pushes notifications.             *)
(*                                                                         *)
(* The way back is the module Stream.  On the way to the server async_read *)
(* waits for the bytes it asks for, so a frame arrives in one step; the    *)
(* requests of a connection do not mix, so one at a time is enough.        *)
(***************************************************************************)
EXTENDS Codec, Stream

CONSTANTS
    Requests,           \* what users ask for: a command and its fields
    UserIds, Names,     \* ids and strings that answers hold
    Notifications,      \* what other users make the server push
    BodyLimit,          \* the body length that the server refuses (1 MB)
    AcceptsEmptyBody,   \* a request may have an empty body (FALSE in the code)
    MaxRequests, MaxConnects, MaxPushes   \* bounds

ASSUME WireAssumption ==
    /\ \A r \in Requests : r.command \in DOMAIN ClientRequest
    /\ \A a \in Notifications : a.command = "MESSAGE_NOTIFY"
    /\ {BodyLimit, MaxRequests, MaxConnects, MaxPushes} \subseteq Nat
    /\ AcceptsEmptyBody \in BOOLEAN

VARIABLES
    toServer,   \* bytes that the server has not read
    serving,    \* the server has not stopped the connection
    asked,      \* history: the request that the server has not answered
    understood, \* the request that handle_message decoded
    answers,    \* history: what the packets in sent were made from
    told,       \* the calls of callbacks, with what they report
    awaited,    \* history: the request that no callback has answered yet
    requests, pushes, connects   \* how many there were

-----------------------------------------------------------------------------
(* Requests and answers *)

Message(command, fields) == [command |-> command, fields |-> fields]
None == Message("none", <<>>)
Dropped == Message("dropped", <<>>)

\* The structs that the handlers of the server fill in.
LoginResponse(e, u, n) ==
    Message("LOGIN_RESP", [error_code |-> e, user_id |-> u, username |-> n])
MessageResponse(e, m) == Message("MESSAGE_RESP", [error_code |-> e, msg_id |-> m])
FriendListResponse(e, f) == Message("FRIEND_LIST_RESP", [error_code |-> e, friends |-> f])
AddFriendResponse(e) == Message("ADD_FRIEND_RESP", [error_code |-> e])
RegisterResponse(e, u) == Message("REGISTER_RESP", [error_code |-> e, user_id |-> u])
SecurityQuestionResponse(e, q) ==
    Message("SECURITY_QUESTION_RESP", [error_code |-> e, question |-> q])
ResetPasswordResponse(e) == Message("RESET_PASSWORD_RESP", [error_code |-> e])
VersionCheckResponse(url, desc) ==
    Message("VERSION_CHECK_RESP", [error_code |-> 0, server_version |-> 2,
                                   update_url |-> url, update_desc |-> desc])

\* All that each handler may answer.
handle_login ==
    {LoginResponse(0, u, n) : u \in UserIds, n \in Names} \union
    {LoginResponse(ErrorCode[e], 0, <<>>) : e \in {"USER_NOT_FOUND", "USER_ALREADY_ONLINE"}}
handle_chat_message ==
    {MessageResponse(0, m) : m \in UserIds} \union
    {MessageResponse(ErrorCode[e], 0) : e \in {"PROTOCOL_ERROR", "DATABASE_ERROR"}}
handle_friend_list ==
    {FriendListResponse(0, f) : f \in SeqOf([id : UserIds, name : Names], 2)} \union
    {FriendListResponse(ErrorCode[e], <<>>) : e \in {"PROTOCOL_ERROR", "DATABASE_ERROR"}}
handle_add_friend ==
    {AddFriendResponse(ErrorCode[e]) :
        e \in {"SUCCESS", "PROTOCOL_ERROR", "CANNOT_ADD_SELF", "USER_NOT_FOUND",
               "FRIEND_REQUEST_EXISTS"}}
handle_register ==
    {RegisterResponse(0, u) : u \in UserIds} \union
    {RegisterResponse(ErrorCode[e], 0) :
        e \in {"INVALID_REQUEST", "USERNAME_EXISTS", "DATABASE_ERROR"}}
handle_security_question ==
    {SecurityQuestionResponse(0, q) : q \in Names} \union
    {SecurityQuestionResponse(ErrorCode[e], <<>>) : e \in {"INVALID_REQUEST", "USER_NOT_FOUND"}}
handle_reset_password ==
    {ResetPasswordResponse(ErrorCode[e]) :
        e \in {"SUCCESS", "INVALID_REQUEST", "USER_NOT_FOUND", "INVALID_ANSWER", "DATABASE_ERROR"}}
handle_version_check == {VersionCheckResponse(url, desc) : url \in Names, desc \in Names}

\* The cases of handle_message.
AnswersTo ==
    [LOGIN_REQ |-> handle_login, MESSAGE_REQ |-> handle_chat_message,
     FRIEND_LIST_REQ |-> handle_friend_list, ADD_FRIEND_REQ |-> handle_add_friend,
     REGISTER_REQ |-> handle_register, SECURITY_QUESTION_REQ |-> handle_security_question,
     RESET_PASSWORD_REQ |-> handle_reset_password, VERSION_CHECK_REQ |-> handle_version_check]

Answers == Notifications \union UNION {AnswersTo[c] : c \in DOMAIN AnswersTo}

\* The packet around a message with the layout of its command.
PacketOf(table, m) ==
    [command |-> CommandCode[m.command], data |-> Encode(table[m.command], m.fields)]

\* The message that a packet holds, if one of the table's decoders accepts it.
MessageOf(table, p) ==
    LET known == {c \in DOMAIN table : CommandCode[c] = p.command}
        decoded == {Message(c, f) : c \in known, f \in UNION {Decode(table[c], p.data) : c \in known}}
    IN  IF decoded = {} THEN Dropped ELSE CHOOSE m \in decoded : TRUE

\* What the codecs make of every message, worked out once.
RequestPacket == [r \in Requests |-> PacketOf(ClientRequest, r)]
AnswerPacket == [a \in Answers |-> PacketOf(ServerAnswer, a)]
AnswerPackets == {AnswerPacket[a] : a \in Answers}

\* The server sends nothing else.
ASSUME PacketsAssumption == Packets = AnswerPackets

\* Requests have the fields that the client's codec writes, and no body is too
\* long for the 4 bytes of its length; the commands fit the 2 bytes of theirs.
ASSUME RequestsAssumption ==
    /\ \A c \in DOMAIN CommandCode : CommandCode[c] < Max16
    /\ \A r \in Requests :
           /\ r = Message(r.command, r.fields)
           /\ HasFields(ClientRequest[r.command], r.fields)
           /\ Len(RequestPacket[r].data) < Max32

\* Ids are 32 bits wide; names, questions and what the server is configured
\* with fit a string; notifications have the fields that the server writes.
ASSUME AnswersAssumption ==
    /\ UserIds \subseteq Int32Values
    /\ Names \subseteq Strings(Max16)
    /\ \A a \in Notifications :
           /\ a = Message("MESSAGE_NOTIFY", a.fields)
           /\ HasFields(encode_message_notify, a.fields)

wireVars ==
    <<toServer, serving, asked, understood, answers, told, awaited, requests, pushes, connects>>
vars == <<streamVars, wireVars>>

TypeOK ==
    /\ StreamTypeOK
    /\ toServer \in Seq(Byte)
    /\ serving \in BOOLEAN
    /\ asked \in Requests \union {None}
    /\ understood.command \in DOMAIN ServerRequest \union {"none", "dropped"}
    /\ answers \in Seq(Answers)
    /\ \A i \in DOMAIN told : told[i].command \in DOMAIN ClientAnswer
    /\ awaited \in DOMAIN ClientRequest \union {"none"}
    /\ requests \in 0 .. MaxRequests /\ pushes \in 0 .. MaxPushes
    /\ connects \in 0 .. MaxConnects

Init ==
    /\ StreamInit
    /\ toServer = <<>> /\ serving = FALSE
    /\ asked = None /\ understood = None /\ awaited = "none"
    /\ answers = <<>> /\ told = <<>>
    /\ requests = 0 /\ pushes = 0 /\ connects = 0

-----------------------------------------------------------------------------
(* The client asks, the server reads and answers *)

ClientConnect ==
    /\ connects < MaxConnects
    /\ Connect
    /\ connects' = connects + 1
    /\ toServer' = <<>> /\ serving' = TRUE
    /\ asked' = None /\ understood' = None /\ awaited' = "none"
    /\ answers' = <<>> /\ told' = <<>>
    /\ UNCHANGED <<requests, pushes>>

\* ChatClient::login and the other requests.
Ask(r) ==
    /\ up /\ asked = None /\ toServer = <<>> /\ requests < MaxRequests
    /\ toServer' = encode(RequestPacket[r])
    /\ asked' = r /\ awaited' = r.command
    /\ requests' = requests + 1
    /\ UNCHANGED <<streamVars, serving, understood, answers, told, pushes, connects>>

BodyLengthAccepted(length) == (length > 0 \/ AcceptsEmptyBody) /\ length < BodyLimit

\* do_read_header, do_read_body and the decoding in handle_message.  A body
\* that does not decode is dropped; a length that is refused ends the reading.
ServerRead ==
    /\ serving /\ toServer # <<>>
    /\ IF BodyLengthAccepted(read_uint32(toServer, 4))
       THEN /\ \E packet \in {decode(toServer)} :
                \E m \in {MessageOf(ServerRequest, packet)} : understood' = m
            /\ UNCHANGED serving
       ELSE serving' = FALSE /\ UNCHANGED understood
    /\ toServer' = <<>>
    /\ UNCHANGED <<streamVars, asked, answers, told, awaited, requests, pushes, connects>>

SendMessage(a) ==
    /\ ServerSend(AnswerPacket[a])
    /\ answers' = Append(answers, a)

\* A handler of the server ends with send_response.
Answer ==
    /\ serving /\ understood.command \in DOMAIN ServerRequest
    /\ \E a \in AnswersTo[understood.command] : SendMessage(a)
    /\ understood' = None /\ asked' = None
    /\ UNCHANGED <<toServer, serving, told, awaited, requests, pushes, connects>>

\* handle_chat_message of another user's connection.
Push(a) ==
    /\ serving /\ pushes < MaxPushes
    /\ SendMessage(a)
    /\ pushes' = pushes + 1
    /\ UNCHANGED <<toServer, serving, asked, understood, told, awaited, requests, connects>>

-----------------------------------------------------------------------------
(* The client receives *)

Receive(n) == Recv(n) /\ UNCHANGED wireVars

\* The request that a report answers.
RequestOf(command) ==
    CASE command = "LOGIN_RESP" -> "LOGIN_REQ"
      [] command = "FRIEND_LIST_RESP" -> "FRIEND_LIST_REQ"
      [] command = "REGISTER_RESP" -> "REGISTER_REQ"
      [] command = "SECURITY_QUESTION_RESP" -> "SECURITY_QUESTION_REQ"
      [] command = "RESET_PASSWORD_RESP" -> "RESET_PASSWORD_REQ"
      [] command = "VERSION_CHECK_RESP" -> "VERSION_CHECK_REQ"
      [] OTHER -> "nothing"

\* Mutation: a packet that nothing decodes is reported as well.
HandlePacketUnchecked ==
    /\ TakePacket
    /\ \E m \in {MessageOf(ClientAnswer, Last(handled'))} :
           /\ told' = Append(told, m)
           /\ awaited' = IF RequestOf(m.command) = awaited THEN "none" ELSE awaited
    /\ UNCHANGED <<toServer, serving, asked, understood, answers, requests, pushes, connects>>

\* handle_packet: decode, then call the callback of the command.  A packet of
\* another command or with a body that does not decode is dropped.
HandlePacket ==
    /\ TakePacket
    /\ \E m \in {MessageOf(ClientAnswer, Last(handled'))} :
           /\ told' = IF m = Dropped THEN told ELSE Append(told, m)
           /\ awaited' = IF RequestOf(m.command) = awaited THEN "none" ELSE awaited
    /\ UNCHANGED <<toServer, serving, asked, understood, answers, requests, pushes, connects>>

\* The connection is lost, with the bytes in both directions.
LoseConnection ==
    /\ Lose
    /\ serving' = FALSE /\ toServer' = <<>>
    /\ asked' = None /\ understood' = None
    /\ UNCHANGED <<answers, told, awaited, requests, pushes, connects>>

Next ==
    \/ ClientConnect
    \/ \E r \in Requests : Ask(r)
    \/ ServerRead \/ Answer
    \/ \E a \in Notifications : Push(a)
    \/ \E n \in 1 .. RecvSize : Receive(n)
    \/ HandlePacket \/ LoseConnection

Spec == Init /\ [][Next]_vars

\* The server runs what is ready, TCP delivers what was sent, the worker
\* thread runs, and a connection that the server has stopped is lost.
FairSpec ==
    /\ Spec
    /\ WF_vars(ServerRead) /\ WF_vars(Answer)
    /\ WF_vars(\E n \in 1 .. RecvSize : Receive(n)) /\ WF_vars(HandlePacket)
    /\ WF_vars(~serving /\ LoseConnection)

-----------------------------------------------------------------------------
(* Properties *)

\* Every string fits the 2 bytes of its length.
Fits(r) ==
    \A i \in DOMAIN ClientRequest[r.command] :
        LET field == ClientRequest[r.command][i]
        IN  field.type = "string" => Len(r.fields[field.name]) < Max16

\* The server understands a request as it was meant exactly when no string is
\* too long for its length: the two codecs agree on the order and the width of
\* all fields, and write_string never cuts a string without garbling it.
RequestsAreUnderstood ==
    understood # None => (understood = asked <=> Fits(asked))

\* What the user is told of an answer: nothing of MESSAGE_RESP and
\* ADD_FRIEND_RESP, nor of a friend list that the server could not make.
IsReported(a) ==
    /\ a.command \in DOMAIN ClientAnswer
    /\ a.command = "FRIEND_LIST_RESP" => a.fields.error_code = ErrorCode.SUCCESS

\* Those of the first n messages of s that are reported.  (A function where
\* SelectSeq would do: the provers know nothing of that.)
ReportsOf(s, n) ==
    LET Of[i \in 0 .. Len(s)] ==
            IF i = 0 THEN <<>>
            ELSE IF IsReported(s[i]) THEN Append(Of[i - 1], s[i]) ELSE Of[i - 1]
    IN  Of[n]

\* The callbacks report the answers of the server in their order, with the
\* codes, ids and strings that the handlers put in, and nothing else.
AnswersAreReported == carried = <<>> => told = ReportsOf(answers, Len(handled))

\* The requests with a callback that every answer leads to.
Answerable ==
    {"LOGIN_REQ", "REGISTER_REQ", "SECURITY_QUESTION_REQ", "RESET_PASSWORD_REQ",
     "VERSION_CHECK_REQ"}

\* Whoever asks gets an answer or sees the connection end: no frame stays in
\* the buffer, no body is dropped.  This is of the bytes: ServerRead reads what
\* was accepted, as a server does that calls Connection::start (the shipped one
\* does not and answers nobody, ReadsOnAccept in ChatSessions), and where
\* AcceptsEmptyBody is TRUE the requests without a body, which the shipped server
\* refuses, are let in.
EveryoneIsAnswered ==
    (asked # None /\ awaited \in Answerable /\ Fits(asked) /\ carried = <<>>)
        ~> (awaited = "none" \/ ~up)
=============================================================================
