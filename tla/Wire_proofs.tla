------------------------------ MODULE Wire_proofs ------------------------------
(***************************************************************************)
(* Proofs about Wire, whatever users ask and handlers answer.  Its way     *)
(* back is the module Stream, so that what Stream_proofs shows of packets  *)
(* and bytes holds for client and server with their codecs.  With what     *)
(* Codec_proofs shows of bodies, the server understands requests as they   *)
(* were meant and the callbacks report what handlers answered.             *)
(***************************************************************************)
EXTENDS Wire, Stream_proofs

\* The two tables of requests have the same commands.
LEMMA SameRequests == DOMAIN ServerRequest = DOMAIN ClientRequest
BY DEF ServerRequest, ClientRequest

\* The packet of an answer is one of those that the server may send.
LEMMA AnswerIsPacket ==
    ASSUME NEW a \in Answers PROVE AnswerPacket[a] \in Packets
BY PacketsAssumption DEF AnswerPackets

\* What a handler answers with has a packet.
LEMMA HandlerAnswers ==
    ASSUME NEW c \in DOMAIN ServerRequest, NEW a \in AnswersTo[c] PROVE a \in Answers
BY DEF Answers, AnswersTo, ServerRequest

\* Every step of client and server is a step of Stream or none.
LEMMA WireStep == ASSUME [Next]_vars PROVE [StreamNext]_streamVars
<1>1. CASE ClientConnect
  BY <1>1 DEF ClientConnect, StreamNext
<1>2. ASSUME NEW r \in Requests, Ask(r) PROVE [StreamNext]_streamVars
  BY <1>2 DEF Ask
<1>3. CASE ServerRead
  BY <1>3 DEF ServerRead
<1>4. CASE Answer
  <2>1. PICK a \in AnswersTo[understood.command] : SendMessage(a)
    BY <1>4 DEF Answer
  <2>2. a \in Answers
    BY <1>4, HandlerAnswers DEF Answer
  <2> QED
    BY <2>1, <2>2, AnswerIsPacket DEF SendMessage, StreamNext
<1>5. ASSUME NEW a \in Notifications, Push(a) PROVE [StreamNext]_streamVars
  <2>1. a \in Answers
    BY DEF Answers
  <2> QED
    BY <1>5, <2>1, AnswerIsPacket DEF Push, SendMessage, StreamNext
<1>6. ASSUME NEW n \in 1 .. RecvSize, Receive(n) PROVE [StreamNext]_streamVars
  BY <1>6 DEF Receive, StreamNext
<1>7. CASE HandlePacket
  BY <1>7 DEF HandlePacket, StreamNext
<1>8. CASE LoseConnection
  BY <1>8 DEF LoseConnection, StreamNext
<1>9. CASE UNCHANGED vars
  BY <1>9 DEF vars
<1> QED
  BY <1>1, <1>2, <1>3, <1>4, <1>5, <1>6, <1>7, <1>8, <1>9 DEF Next

\* Client and server, with their codecs and handlers, implement Stream.
THEOREM WireImplementsStream == Spec => StreamSpec
<1>1. Init => StreamInit
  BY DEF Init
<1>2. ASSUME [Next]_vars PROVE [StreamNext]_streamVars
  BY <1>2, WireStep
<1> QED
  BY <1>1, <1>2, PTL DEF Spec, StreamSpec

\* The answers and notifications of the server reach handle_packet unchanged,
\* in order and completely.
THEOREM AnswersArrive == Spec => []DeliveredInOrder
<1> QED
  BY WireImplementsStream, StreamDelivers, PTL

-----------------------------------------------------------------------------
(* Requests *)

\* A layout whose fields are of the given types.
LayoutOf(layout, types) ==
    IsLayout(layout) /\ \A i \in 1 .. Len(layout) : layout[i].type \in types

\* Layouts are put together of fields with different names.
LEMMA LayoutOf1 ==
    ASSUME NEW types \in SUBSET FieldTypes, NEW t \in types, NEW a
    PROVE  LayoutOf(<<Field(t, a)>>, types)
BY DEF LayoutOf, IsLayout, Field, FieldNames

LEMMA LayoutOf2 ==
    ASSUME NEW types \in SUBSET FieldTypes, NEW t \in types, NEW u \in types,
           NEW a, NEW b, a # b
    PROVE  LayoutOf(<<Field(t, a), Field(u, b)>>, types)
BY DEF LayoutOf, IsLayout, Field, FieldNames

LEMMA LayoutOf3 ==
    ASSUME NEW types \in SUBSET FieldTypes, NEW t \in types, NEW u \in types, NEW v \in types,
           NEW a, NEW b, NEW c, a # b, a # c, b # c
    PROVE  LayoutOf(<<Field(t, a), Field(u, b), Field(v, c)>>, types)
BY DEF LayoutOf, IsLayout, Field, FieldNames

LEMMA LayoutOf4 ==
    ASSUME NEW types \in SUBSET FieldTypes,
           NEW t \in types, NEW u \in types, NEW v \in types, NEW w \in types,
           NEW a, NEW b, NEW c, NEW d,
           a # b, a # c, a # d, b # c, b # d, c # d
    PROVE  LayoutOf(<<Field(t, a), Field(u, b), Field(v, c), Field(w, d)>>, types)
BY DEF LayoutOf, IsLayout, Field, FieldNames

\* The types of fields that requests have.
RequestTypes == {"int32", "string", "text"}

\* The server reads every request with the layout that the client writes.
LEMMA RequestLayouts ==
    \A c \in DOMAIN ClientRequest :
        ServerRequest[c] = ClientRequest[c] /\ IsRequestLayout(ClientRequest[c])
<1>1. /\ RequestTypes \in SUBSET FieldTypes
      /\ "int32" \in RequestTypes /\ "string" \in RequestTypes /\ "text" \in RequestTypes
  BY DEF FieldTypes, RequestTypes
<1>2. LayoutOf(encode_friend_list_request, RequestTypes)
  BY DEF LayoutOf, IsLayout, FieldNames, encode_friend_list_request
<1>3. LayoutOf(encode_login_request, RequestTypes)
  BY <1>1, LayoutOf2 DEF encode_login_request, String
<1>4. LayoutOf(encode_message_request, RequestTypes)
  BY <1>1, LayoutOf2 DEF encode_message_request, Int32
<1>5. LayoutOf(encode_add_friend_request, RequestTypes)
  BY <1>1, LayoutOf1 DEF encode_add_friend_request, Int32
<1>6. LayoutOf(encode_version_check_request, RequestTypes)
  BY <1>1, LayoutOf1 DEF encode_version_check_request, Int32
<1>7. LayoutOf(encode_register_request, RequestTypes)
  BY <1>1, LayoutOf4 DEF encode_register_request, String
<1>8. LayoutOf(encode_security_question_request, RequestTypes)
  BY <1>1, LayoutOf1 DEF encode_security_question_request, String
<1>9. LayoutOf(encode_reset_password_request, RequestTypes)
  BY <1>1, LayoutOf3 DEF encode_reset_password_request, String
<1>10. \A c \in DOMAIN ClientRequest : IsRequestLayout(ClientRequest[c])
  <2>1. \A c \in DOMAIN ClientRequest : LayoutOf(ClientRequest[c], RequestTypes)
    BY <1>2, <1>3, <1>4, <1>5, <1>6, <1>7, <1>8, <1>9 DEF ClientRequest
  <2> QED
    BY <2>1 DEF LayoutOf, IsRequestLayout, RequestTypes
<1>11. \A c \in DOMAIN ClientRequest : ServerRequest[c] = ClientRequest[c]
  BY DEF ClientRequest, ServerRequest,
         encode_login_request, decode_login_request,
         encode_message_request, decode_message_request, encode_friend_list_request,
         encode_add_friend_request, encode_register_request, decode_register_request,
         encode_security_question_request, decode_security_question_request,
         encode_reset_password_request, decode_reset_password_request,
         encode_version_check_request, decode_version_check_request
<1> QED
  BY <1>10, <1>11

\* No two commands have the same code, and every code fits its 2 bytes.
LEMMA Codes ==
    \A c \in DOMAIN CommandCode :
        /\ CommandCode[c] \in 0 .. Max16 - 1
        /\ \A d \in DOMAIN CommandCode : CommandCode[d] = CommandCode[c] => d = c
<1>1. \A c \in DOMAIN CommandCode : CommandCode[c] \in Nat
  BY DEF CommandCode
<1>2. \A c, d \in DOMAIN CommandCode : CommandCode[d] = CommandCode[c] => d = c
  BY DEF CommandCode
<1> QED
  BY <1>1, <1>2, RequestsAssumption, Widths

\* The message that a packet is taken for is of the command with its code, and
\* has fields that the decoder of this command makes of the body.
LEMMA MessageIs ==
    ASSUME NEW table, DOMAIN table \subseteq DOMAIN CommandCode, NEW c \in DOMAIN table,
           NEW p, p.command = CommandCode[c]
    PROVE  \/ MessageOf(table, p) = Dropped /\ Decode(table[c], p.data) = {}
           \/ \E f \in Decode(table[c], p.data) : MessageOf(table, p) = Message(c, f)
<1> DEFINE fs == Decode(table[c], p.data)
           known == {d \in DOMAIN table : CommandCode[d] = p.command}
           decoded == {Message(d, f) : d \in known, f \in UNION {Decode(table[d], p.data) : d \in known}}
<1>1. known = {c}
  BY Codes
<1>2. MessageOf(table, p) = IF decoded = {} THEN Dropped ELSE CHOOSE m \in decoded : TRUE
  BY DEF MessageOf
<1>3. UNION {Decode(table[d], p.data) : d \in known} = fs
  <2> HIDE DEF known
  <2>1. {Decode(table[d], p.data) : d \in known} = {fs}
    BY <1>1
  <2> QED
    BY <2>1
<1>4. decoded = {Message(c, f) : f \in fs}
  <2> HIDE DEF known, fs
  <2> QED
    BY <1>1, <1>3
<1> HIDE DEF decoded, fs, known
<1>5. CASE fs = {}
  BY <1>2, <1>4, <1>5 DEF fs
<1>6. CASE fs # {}
  <2>1. decoded # {}
    BY <1>4, <1>6
  <2>2. (CHOOSE m \in decoded : TRUE) \in decoded
    BY <2>1, Zenon
  <2> QED
    BY <1>2, <1>4, <2>1, <2>2 DEF fs
<1> QED
  BY <1>5, <1>6

\* What the packet of a request consists of, and that its frame is read back.
LEMMA RequestPackets ==
    ASSUME NEW r \in Requests
    PROVE  LET p == RequestPacket[r]
           IN  /\ p.command = CommandCode[r.command]
               /\ p.data = Encode(ClientRequest[r.command], r.fields)
               /\ encode(p) \in Seq(Byte) /\ encode(p) # <<>>
               /\ decode(encode(p)) = p
<1> DEFINE p == RequestPacket[r]
           layout == ClientRequest[r.command]
<1>1. r.command \in DOMAIN ClientRequest
  BY WireAssumption
<1>2. p = [command |-> CommandCode[r.command], data |-> Encode(layout, r.fields)]
  BY DEF RequestPacket, PacketOf
<1>3. Encode(layout, r.fields) \in Seq(Byte)
  <2>1. IsLayout(layout) /\ HasFields(layout, r.fields)
    BY <1>1, RequestLayouts, RequestsAssumption DEF IsRequestLayout
  <2>2. DOMAIN layout = 1 .. Len(layout)
    BY <2>1, LenProperties DEF IsLayout
  <2>3. Fitting(layout, r.fields)
    BY <2>1, <2>2 DEF HasFields, Fitting
  <2> HIDE DEF layout
  <2> QED
    BY <2>1, <2>3, Body
<1>4. CommandCode[r.command] \in 0 .. Max16 - 1
  <2>1. DOMAIN ClientRequest \subseteq DOMAIN CommandCode
    BY DEF ClientRequest, CommandCode
  <2> QED
    BY <1>1, <2>1, Codes
<1>5. p \in Packet /\ Len(p.data) < Max32
  BY <1>2, <1>3, <1>4, RequestsAssumption DEF Packet
<1> HIDE DEF p, layout
<1>6. encode(p) \in Seq(Byte) /\ Len(encode(p)) >= HEADER_SIZE /\ Len(encode(p)) \in Nat
  <2>1. Len(p.data) \in Nat
    BY <1>5, LenProperties DEF Packet
  <2> QED
    BY <1>5, <2>1, Frame DEF HEADER_SIZE
<1>7. decode(encode(p)) = p
  <2> DEFINE s == encode(p)
  <2>1. FrameLength(s) = Len(s) /\ (FrameLength(s) <= Len(s) => decode(SubSeq(s, 1, FrameLength(s))) = p)
    BY <1>5, <1>6, RoundTrip
  <2>2. SubSeq(s, 1, Len(s)) = s /\ Len(s) <= Len(s)
    BY <1>6
  <2> HIDE DEF s
  <2>3. decode(SubSeq(s, 1, Len(s))) = p
    BY <2>1, <2>2
  <2> QED
    BY <2>2, <2>3 DEF s
<1>8. encode(p) # <<>>
  BY <1>6 DEF HEADER_SIZE
<1> QED
  BY <1>2, <1>6, <1>7, <1>8 DEF p, layout

\* The message that the server takes a request for.
Taken(r) == MessageOf(ServerRequest, RequestPacket[r])

\* It is the request exactly if the strings of that fit their lengths.
LEMMA RequestUnderstood ==
    ASSUME NEW r \in Requests
    PROVE  /\ Taken(r) = r <=> Fits(r)
           /\ Taken(r).command \in DOMAIN ServerRequest \union {"dropped"}
<1> DEFINE c == r.command
           layout == ClientRequest[c]
           body == Encode(layout, r.fields)
<1>1. /\ c \in DOMAIN ClientRequest /\ r = Message(c, r.fields) /\ HasFields(layout, r.fields)
      /\ IsRequestLayout(layout) /\ ServerRequest[c] = layout
  BY WireAssumption, RequestLayouts, RequestsAssumption
<1>2. c # "dropped"
  BY <1>1 DEF ClientRequest
<1>3. Fits(r) <=> StringsFit(layout, r.fields)
  <2>1. DOMAIN layout = 1 .. Len(layout)
    BY <1>1, LenProperties DEF IsRequestLayout, IsLayout
  <2> QED
    BY <2>1 DEF Fits, StringsFit
<1>4. \/ Taken(r) = Dropped /\ Decode(layout, body) = {}
      \/ \E f \in Decode(layout, body) : Taken(r) = Message(c, f)
  <2>1. DOMAIN ServerRequest \subseteq DOMAIN CommandCode
    BY DEF ServerRequest, CommandCode
  <2> DEFINE p == RequestPacket[r]
  <2>2. p.command = CommandCode[c] /\ p.data = body
    BY RequestPackets
  <2> HIDE DEF p, body, layout, c
  <2>3. \/ MessageOf(ServerRequest, p) = Dropped /\ Decode(ServerRequest[c], p.data) = {}
        \/ \E f \in Decode(ServerRequest[c], p.data) : MessageOf(ServerRequest, p) = Message(c, f)
    BY <1>1, <2>1, <2>2, SameRequests, MessageIs
  <2> QED
    BY <1>1, <2>2, <2>3 DEF Taken, p
<1>5. \A f, g : Message(c, f) # Dropped /\ (Message(c, f) = Message(c, g) => f = g)
  BY <1>2 DEF Message, Dropped
<1> HIDE DEF c, layout, body
<1>6. ASSUME Fits(r) PROVE Taken(r) = r
  <2>1. Decode(layout, body) = {r.fields}
    BY <1>1, <1>3, <1>6, RequestBody DEF body
  <2> QED
    BY <1>1, <1>4, <2>1
<1>7. ASSUME ~Fits(r) PROVE Taken(r) # r
  <2>1. r.fields \notin Decode(layout, body)
    BY <1>1, <1>3, <1>7, RequestBody DEF body
  <2> QED
    BY <1>1, <1>4, <1>5, <2>1
<1>8. Taken(r).command \in DOMAIN ServerRequest \union {"dropped"}
  BY <1>1, <1>4, SameRequests DEF Message, Dropped
<1> QED
  BY <1>6, <1>7, <1>8

-----------------------------------------------------------------------------
(* What client and server make of requests *)

\* What the bytes on their way to the server and the request that it decoded
\* have to do with what the user asked.
Conversation ==
    /\ toServer # <<>> => asked \in Requests /\ toServer = encode(RequestPacket[asked])
    /\ understood # None =>
           asked \in Requests /\ understood = Taken(asked) /\ toServer = <<>>

\* What callbacks report was decoded from a packet.
Reports == {MessageOf(ClientAnswer, p) : p \in Packet} \ {Dropped}

IInv == TypeOK /\ told \in Seq(Reports) /\ Conversation

\* What a packet is taken for is of one of the commands of the table.
LEMMA MessageCommand ==
    ASSUME NEW table, NEW p
    PROVE  MessageOf(table, p) = Dropped \/ MessageOf(table, p).command \in DOMAIN table
<1> DEFINE known == {c \in DOMAIN table : CommandCode[c] = p.command}
           decoded == {Message(c, f) : c \in known, f \in UNION {Decode(table[c], p.data) : c \in known}}
<1>1. MessageOf(table, p) = IF decoded = {} THEN Dropped ELSE CHOOSE m \in decoded : TRUE
  BY DEF MessageOf
<1>2. ASSUME NEW m \in decoded PROVE m.command \in DOMAIN table
  <2>1. PICK c \in known, f \in UNION {Decode(table[c], p.data) : c \in known} : m = Message(c, f)
    OBVIOUS
  <2> QED
    BY <2>1 DEF Message
<1> HIDE DEF decoded
<1>3. decoded # {} => (CHOOSE m \in decoded : TRUE) \in decoded
  BY Zenon
<1> QED
  BY <1>1, <1>2, <1>3

\* The commands of reports are those with a callback.
LEMMA ReportCommand == ASSUME NEW m \in Reports PROVE m.command \in DOMAIN ClientAnswer
BY MessageCommand DEF Reports

\* Whoever asked nothing is understood to ask nothing.
LEMMA NoneIsNoRequest == None \notin Requests /\ Dropped # None
<1>1. "none" \notin DOMAIN ClientRequest /\ None.command = "none"
  BY DEF ClientRequest, None, Message
<1>2. Dropped.command = "dropped" /\ None.command = "none"
  BY DEF Dropped, None, Message
<1> QED
  BY <1>1, <1>2, WireAssumption

\* At first nothing is asked.
LEMMA WireInit == Init => IInv
<1> SUFFICES ASSUME Init PROVE IInv
  OBVIOUS
<1>1. StreamTypeOK
  BY TypeInit DEF Init
<1>2. /\ <<>> \in Seq(Byte) /\ <<>> \in Seq(Answers) /\ <<>> \in Seq(Reports)
      /\ DOMAIN <<>> = {}
  BY EmptySeq
<1>3. TypeOK
  <2>1. /\ toServer \in Seq(Byte) /\ serving \in BOOLEAN /\ asked \in Requests \union {None}
        /\ answers \in Seq(Answers) /\ \A i \in DOMAIN told : told[i].command \in DOMAIN ClientAnswer
        /\ awaited \in DOMAIN ClientRequest \union {"none"}
    BY <1>2 DEF Init
  <2>2. understood.command \in DOMAIN ServerRequest \union {"none", "dropped"}
    BY DEF Init, None, Message
  <2>3. /\ requests \in 0 .. MaxRequests /\ pushes \in 0 .. MaxPushes
        /\ connects \in 0 .. MaxConnects
    BY WireAssumption DEF Init
  <2> QED
    BY <1>1, <2>1, <2>2, <2>3 DEF TypeOK
<1>4. Conversation
  BY DEF Init, Conversation
<1> QED
  BY <1>2, <1>3, <1>4 DEF IInv, Init

\* A connection starts with nothing asked.
LEMMA ConnectStep == IInv /\ StreamTypeOK' /\ ClientConnect => IInv'
<1> SUFFICES ASSUME IInv, StreamTypeOK', ClientConnect PROVE IInv'
  OBVIOUS
<1>1. /\ <<>> \in Seq(Byte) /\ <<>> \in Seq(Answers) /\ <<>> \in Seq(Reports)
      /\ DOMAIN <<>> = {}
  BY EmptySeq
<1>2. TypeOK'
  <2>1. /\ toServer' \in Seq(Byte) /\ serving' \in BOOLEAN /\ asked' \in Requests \union {None}
        /\ answers' \in Seq(Answers)
        /\ \A i \in DOMAIN told' : told'[i].command \in DOMAIN ClientAnswer
        /\ awaited' \in DOMAIN ClientRequest \union {"none"}
    BY <1>1 DEF ClientConnect
  <2>2. understood'.command \in DOMAIN ServerRequest \union {"none", "dropped"}
    BY DEF ClientConnect, None, Message
  <2>3. /\ requests' \in 0 .. MaxRequests /\ pushes' \in 0 .. MaxPushes
        /\ connects' \in 0 .. MaxConnects
    BY WireAssumption DEF ClientConnect, IInv, TypeOK
  <2> QED
    BY <2>1, <2>2, <2>3 DEF TypeOK
<1>3. Conversation'
  BY DEF ClientConnect, Conversation
<1> QED
  BY <1>1, <1>2, <1>3 DEF IInv, ClientConnect

\* What is asked is on its way to the server, which has understood nothing yet.
LEMMA AskStep ==
    ASSUME IInv, StreamTypeOK', NEW r \in Requests, Ask(r) PROVE IInv'
<1>1. TypeOK'
  <2>1. toServer' \in Seq(Byte)
    BY RequestPackets DEF Ask
  <2>2. requests' \in 0 .. MaxRequests
    BY WireAssumption DEF Ask, IInv, TypeOK
  <2>3. awaited' \in DOMAIN ClientRequest \union {"none"} /\ asked' \in Requests \union {None}
    BY WireAssumption DEF Ask
  <2> QED
    BY <2>1, <2>2, <2>3 DEF TypeOK, IInv, Ask
<1>2. Conversation'
  BY NoneIsNoRequest DEF Ask, IInv, Conversation
<1> QED
  BY <1>1, <1>2 DEF IInv, Ask

\* The server decodes the packet of the request, or reads no more.
LEMMA ServerReadStep == IInv /\ StreamTypeOK' /\ ServerRead => IInv'
<1> SUFFICES ASSUME IInv, StreamTypeOK', ServerRead PROVE IInv'
  OBVIOUS
<1>1. asked \in Requests /\ understood = None /\ toServer = encode(RequestPacket[asked])
  BY DEF IInv, Conversation, ServerRead
<1>2. understood' = Taken(asked) \/ understood' = None
  BY <1>1, RequestPackets DEF ServerRead, Taken
<1>3. toServer' = <<>> /\ asked' = asked /\ toServer' \in Seq(Byte) /\ serving' \in BOOLEAN
  BY EmptySeq DEF ServerRead, IInv, TypeOK
<1>4. understood'.command \in DOMAIN ServerRequest \union {"none", "dropped"}
  BY <1>1, <1>2, RequestUnderstood DEF None, Message
<1>5. TypeOK'
  BY <1>3, <1>4 DEF TypeOK, IInv, ServerRead
<1>6. Conversation'
  BY <1>1, <1>2, <1>3 DEF Conversation
<1> QED
  BY <1>5, <1>6 DEF IInv, ServerRead

\* An answer ends what the server knows of a request.
LEMMA AnswerStep == IInv /\ StreamTypeOK' /\ Answer => IInv'
<1> SUFFICES ASSUME IInv, StreamTypeOK', Answer PROVE IInv'
  OBVIOUS
<1>1. understood # None /\ toServer = <<>>
  <2>1. "none" \notin DOMAIN ServerRequest /\ None.command = "none"
    BY DEF ServerRequest, None, Message
  <2> QED
    BY <2>1 DEF Answer, IInv, Conversation
<1>2. PICK a \in AnswersTo[understood.command] : SendMessage(a)
  BY DEF Answer
<1>3. a \in Answers
  BY HandlerAnswers DEF Answer
<1>4. answers' \in Seq(Answers)
  BY <1>2, <1>3 DEF SendMessage, IInv, TypeOK
<1>5. understood'.command \in DOMAIN ServerRequest \union {"none", "dropped"}
  BY DEF Answer, None, Message
<1>6. TypeOK'
  BY <1>4, <1>5 DEF TypeOK, IInv, Answer
<1>7. Conversation'
  BY <1>1 DEF Conversation, Answer
<1> QED
  BY <1>6, <1>7 DEF IInv, Answer

\* A notification has nothing to do with what is asked.
LEMMA PushStep ==
    ASSUME IInv, StreamTypeOK', NEW a \in Notifications, Push(a) PROVE IInv'
<1>1. answers' \in Seq(Answers)
  BY DEF Push, SendMessage, IInv, TypeOK, Answers
<1>2. pushes' \in 0 .. MaxPushes
  BY WireAssumption DEF Push, IInv, TypeOK
<1>3. TypeOK'
  BY <1>1, <1>2 DEF TypeOK, IInv, Push
<1>4. Conversation'
  BY DEF Conversation, Push, IInv
<1> QED
  BY <1>3, <1>4 DEF IInv, Push

\* handle_packet reports what it decodes from a packet, or drops it.
LEMMA HandlePacketStep == IInv /\ StreamTypeOK' /\ HandlePacket => IInv'
<1> SUFFICES ASSUME IInv, StreamTypeOK', HandlePacket PROVE IInv'
  OBVIOUS
<1> DEFINE m == MessageOf(ClientAnswer, Last(handled'))
<1>1. Last(handled') \in Packet
  <2>1. handled' \in Seq(Packet) /\ handled \in Seq(Packet) /\ \E p : handled' = Append(handled, p)
    BY DEF IInv, TypeOK, StreamTypeOK, HandlePacket, TakePacket
  <2>2. handled' # <<>>
    BY <2>1
  <2> QED
    BY <2>1, <2>2 DEF Last
<1>2. m # Dropped => m \in Reports
  BY <1>1 DEF Reports
<1> HIDE DEF m
<1>3. told' = IF m = Dropped THEN told ELSE Append(told, m)
  BY DEF HandlePacket, m
<1>4. told' \in Seq(Reports)
  BY <1>2, <1>3 DEF IInv
<1>5. awaited' \in DOMAIN ClientRequest \union {"none"}
  BY DEF HandlePacket, IInv, TypeOK
<1>6. \A i \in DOMAIN told' : told'[i].command \in DOMAIN ClientAnswer
  <2>1. \A i \in DOMAIN told' : told'[i] \in Reports
    BY <1>4, ElementOfSeq, LenProperties
  <2> QED
    BY <2>1, ReportCommand
<1>7. TypeOK'
  BY <1>5, <1>6 DEF TypeOK, IInv, HandlePacket
<1>8. Conversation'
  BY DEF Conversation, IInv, HandlePacket
<1> QED
  BY <1>4, <1>7, <1>8 DEF IInv

\* With the connection everything on its way to the server is lost.
LEMMA LoseStep == IInv /\ StreamTypeOK' /\ LoseConnection => IInv'
<1> SUFFICES ASSUME IInv, StreamTypeOK', LoseConnection PROVE IInv'
  OBVIOUS
<1>1. <<>> \in Seq(Byte)
  BY EmptySeq
<1>2. understood'.command \in DOMAIN ServerRequest \union {"none", "dropped"}
  BY DEF LoseConnection, None, Message
<1>3. TypeOK'
  BY <1>1, <1>2 DEF TypeOK, IInv, LoseConnection
<1>4. Conversation'
  BY DEF Conversation, LoseConnection
<1> QED
  BY <1>3, <1>4 DEF IInv, LoseConnection

\* Receiving and steps of nobody change nothing of it.
LEMMA QuietStep == IInv /\ StreamTypeOK' /\ UNCHANGED wireVars => IInv'
BY DEF IInv, TypeOK, Conversation, wireVars

\* Every step keeps the invariant.
LEMMA WireInvStep == IInv /\ [Next]_vars => IInv'
<1> SUFFICES ASSUME IInv, [Next]_vars PROVE IInv'
  OBVIOUS
<1>1. StreamTypeOK'
  BY WireStep, TypeStep DEF IInv, TypeOK
<1>2. ASSUME NEW n \in 1 .. RecvSize, Receive(n) PROVE IInv'
  BY <1>1, <1>2, QuietStep DEF Receive
<1>3. CASE UNCHANGED vars
  BY <1>1, <1>3, QuietStep DEF vars
<1> QED
  BY <1>1, <1>2, <1>3, ConnectStep, AskStep, ServerReadStep, AnswerStep, PushStep,
     HandlePacketStep, LoseStep DEF Next

\* Client and server keep to their types, whatever is asked and answered.
THEOREM WireTyped == Spec => []TypeOK
<1>1. IInv => TypeOK
  BY DEF IInv
<1> QED
  BY <1>1, WireInit, WireInvStep, PTL DEF Spec

\* The server understands a request as it was meant exactly when none of its
\* strings is too long for the 2 bytes of its length.
THEOREM RequestsUnderstood == Spec => []RequestsAreUnderstood
<1>1. IInv => RequestsAreUnderstood
  BY RequestUnderstood DEF IInv, Conversation, RequestsAreUnderstood
<1> QED
  BY <1>1, WireInit, WireInvStep, PTL DEF Spec

-----------------------------------------------------------------------------
(* Answers *)

\* A string or list that fits the width of its length.
Fit(type, v) ==
    /\ type = "string" => Len(v) < Max16
    /\ type = "friends" => v \in ShortFriends /\ Len(v) < Max32

\* Fields that the server can write without loss.
Sound(layout, fields) ==
    /\ HasFields(layout, fields)
    /\ \A i \in DOMAIN layout : Fit(layout[i].type, fields[layout[i].name])

\* A field with its value.
IsSound(t, v) == v \in FieldValues(t) /\ Fit(t, v)

LEMMA SoundOf1 ==
    ASSUME NEW t, NEW a, NEW f, f = [x \in {a} |-> f[x]], IsSound(t, f[a])
    PROVE  Sound(<<Field(t, a)>>, f)
BY DEF Sound, IsSound, HasFields, FieldNames, Field

LEMMA SoundOf2 ==
    ASSUME NEW t, NEW a, NEW u, NEW b, NEW f, f = [x \in {a, b} |-> f[x]],
           IsSound(t, f[a]), IsSound(u, f[b])
    PROVE  Sound(<<Field(t, a), Field(u, b)>>, f)
BY DEF Sound, IsSound, HasFields, FieldNames, Field

LEMMA SoundOf3 ==
    ASSUME NEW t, NEW a, NEW u, NEW b, NEW v, NEW c, NEW f, f = [x \in {a, b, c} |-> f[x]],
           IsSound(t, f[a]), IsSound(u, f[b]), IsSound(v, f[c])
    PROVE  Sound(<<Field(t, a), Field(u, b), Field(v, c)>>, f)
BY DEF Sound, IsSound, HasFields, FieldNames, Field

LEMMA SoundOf4 ==
    ASSUME NEW t, NEW a, NEW u, NEW b, NEW v, NEW c, NEW w, NEW d,
           NEW f, f = [x \in {a, b, c, d} |-> f[x]],
           IsSound(t, f[a]), IsSound(u, f[b]), IsSound(v, f[c]), IsSound(w, f[d])
    PROVE  Sound(<<Field(t, a), Field(u, b), Field(v, c), Field(w, d)>>, f)
BY DEF Sound, IsSound, HasFields, FieldNames, Field

\* The values that the handlers put into answers.
LEMMA SoundValues ==
    /\ \A n \in DOMAIN ErrorCode : IsSound("code", ErrorCode[n])
    /\ \A u \in UserIds \union {0, 2} : IsSound("int32", u)
    /\ \A n \in Names \union {<<>>} : IsSound("string", n)
    /\ \A f \in SeqOf([id : UserIds, name : Names], 2) \union {<<>>} : IsSound("friends", f)
<1>1. Max16 \in Nat /\ Max32 \in Nat /\ Max16 > 17 /\ Max32 > 17
  <2>1. CommandCode.VERSION_CHECK_RESP = 17 /\ "VERSION_CHECK_RESP" \in DOMAIN CommandCode
    BY DEF CommandCode
  <2>2. CommandCode["VERSION_CHECK_RESP"] < Max16
    BY <2>1, RequestsAssumption
  <2> QED
    BY <2>1, <2>2, Widths
<1>2. ASSUME NEW n \in DOMAIN ErrorCode PROVE IsSound("code", ErrorCode[n])
  <2>1. ErrorCode[n] \in 0 .. 12
    BY DEF ErrorCode
  <2> QED
    BY <1>1, <2>1 DEF IsSound, Fit, FieldValues
<1>3. ASSUME NEW u \in UserIds \union {0, 2} PROVE IsSound("int32", u)
  <2>1. 0 \in Int32Values /\ 2 \in Int32Values
    BY <1>1 DEF Int32Values
  <2> QED
    BY <2>1, AnswersAssumption DEF IsSound, Fit, FieldValues
<1>4. ASSUME NEW n \in Names \union {<<>>} PROVE IsSound("string", n)
  <2>1. <<>> \in Seq(Byte) /\ Len(<<>>) = 0
    BY EmptySeq
  <2>2. n \in Seq(Byte) /\ Len(n) < Max16
    <3>1. CASE n \in Names
      <4>1. n \in Strings(Max16)
        BY <3>1, AnswersAssumption
      <4> QED
        BY <4>1 DEF Strings
    <3>2. CASE n = <<>>
      BY <1>1, <2>1, <3>2
    <3> QED
      BY <3>1, <3>2
  <2> QED
    BY <2>2 DEF IsSound, Fit, FieldValues
<1>5. ASSUME NEW f \in SeqOf([id : UserIds, name : Names], 2) \union {<<>>}
      PROVE  IsSound("friends", f)
  <2> DEFINE S == [id : UserIds, name : Names]
             T == [id : Int32Values, name : Strings(Max16)]
             U == [id : Int32Values, name : Seq(Byte)]
  <2>1. S \subseteq T /\ T \subseteq U
    BY AnswersAssumption DEF Strings
  <2>2. f \in SeqOf(S, 2) \union {<<>>}
    OBVIOUS
  <2> HIDE DEF S, T, U
  <2>3. f \in Seq(S) /\ Len(f) <= 2
    <3>1. CASE f = <<>>
      BY <3>1
    <3>2. CASE f \in SeqOf(S, 2)
      <4>1. PICK m \in 0 .. 2 : f \in [1 .. m -> S]
        BY <3>2 DEF SeqOf
      <4> QED
        BY <4>1
    <3> QED
      BY <2>2, <3>1, <3>2
  <2>4. f \in Seq(T)
    BY <2>1, <2>3, SeqMonotonic
  <2>5. f \in Seq(U)
    BY <2>1, <2>4, SeqMonotonic
  <2>6. Len(f) < Max32
    BY <1>1, <2>3, LenProperties
  <2> QED
    BY <2>4, <2>5, <2>6 DEF IsSound, Fit, FieldValues, ShortFriends, T, U
<1> QED
  BY <1>2, <1>3, <1>4, <1>5

\* The fields of every answer are of the types that its layout gives them, and
\* no string or list is too long for its length.
SoundAnswer(a) ==
    /\ a.command \in DOMAIN ServerAnswer
    /\ a = Message(a.command, a.fields)
    /\ Sound(ServerAnswer[a.command], a.fields)

\* One of the codes of errors.
Coded(e) == \E x \in DOMAIN ErrorCode : e = ErrorCode[x]

LEMMA CodedValues ==
    /\ Coded(0) /\ \A x \in DOMAIN ErrorCode : Coded(ErrorCode[x])
    /\ \A e : Coded(e) => IsSound("code", e)
<1>1. 0 = ErrorCode["SUCCESS"] /\ "SUCCESS" \in DOMAIN ErrorCode
  BY DEF ErrorCode
<1> QED
  BY <1>1, SoundValues DEF Coded

\* A message with sound fields is a sound answer.
LEMMA SoundMessages ==
    ASSUME NEW c \in DOMAIN ServerAnswer, NEW f, Sound(ServerAnswer[c], f)
    PROVE  SoundAnswer(Message(c, f))
BY DEF SoundAnswer, Message

\* Answers to a login.
LEMMA SoundLogin ==
    ASSUME NEW e, NEW u \in UserIds \union {0}, NEW n \in Names \union {<<>>}, Coded(e)
    PROVE  SoundAnswer(LoginResponse(e, u, n))
<1> DEFINE f == [error_code |-> e, user_id |-> u, username |-> n]
           layout == <<Field("code", "error_code"), Field("int32", "user_id"),
                       Field("string", "username")>>
<1>1. /\ f = [x \in {"error_code", "user_id", "username"} |-> f[x]]
      /\ f["error_code"] = e /\ f["user_id"] = u /\ f["username"] = n
  OBVIOUS
<1>2. LoginResponse(e, u, n) = Message("LOGIN_RESP", f)
  BY DEF LoginResponse
<1> HIDE DEF f
<1>3. Sound(layout, f)
  BY <1>1, CodedValues, SoundValues, SoundOf3
<1>4. "LOGIN_RESP" \in DOMAIN ServerAnswer /\ ServerAnswer["LOGIN_RESP"] = layout
  BY DEF ServerAnswer, encode_login_response, Int32, String
<1> QED
  BY <1>2, <1>3, <1>4, SoundMessages

\* Answers to a message.
LEMMA SoundMessage ==
    ASSUME NEW e, NEW m \in UserIds \union {0}, Coded(e)
    PROVE  SoundAnswer(MessageResponse(e, m))
<1> DEFINE f == [error_code |-> e, msg_id |-> m]
           layout == <<Field("code", "error_code"), Field("int32", "msg_id")>>
<1>1. f = [x \in {"error_code", "msg_id"} |-> f[x]] /\ f["error_code"] = e /\ f["msg_id"] = m
  OBVIOUS
<1>2. MessageResponse(e, m) = Message("MESSAGE_RESP", f)
  BY DEF MessageResponse
<1> HIDE DEF f
<1>3. Sound(layout, f)
  BY <1>1, CodedValues, SoundValues, SoundOf2
<1>4. "MESSAGE_RESP" \in DOMAIN ServerAnswer /\ ServerAnswer["MESSAGE_RESP"] = layout
  BY DEF ServerAnswer, encode_message_response, Int32
<1> QED
  BY <1>2, <1>3, <1>4, SoundMessages

\* Answers to a request for the friends.
LEMMA SoundFriends ==
    ASSUME NEW e, NEW v \in SeqOf([id : UserIds, name : Names], 2) \union {<<>>}, Coded(e)
    PROVE  SoundAnswer(FriendListResponse(e, v))
<1> DEFINE f == [error_code |-> e, friends |-> v]
           layout == <<Field("code", "error_code"), Field("friends", "friends")>>
<1>1. f = [x \in {"error_code", "friends"} |-> f[x]] /\ f["error_code"] = e /\ f["friends"] = v
  OBVIOUS
<1>2. FriendListResponse(e, v) = Message("FRIEND_LIST_RESP", f)
  BY DEF FriendListResponse
<1> HIDE DEF f
<1>3. Sound(layout, f)
  BY <1>1, CodedValues, SoundValues, SoundOf2
<1>4. "FRIEND_LIST_RESP" \in DOMAIN ServerAnswer /\ ServerAnswer["FRIEND_LIST_RESP"] = layout
  BY DEF ServerAnswer, encode_friend_list_response
<1> QED
  BY <1>2, <1>3, <1>4, SoundMessages

\* Answers to a request to be friends.
LEMMA SoundAddFriend ==
    ASSUME NEW e, Coded(e)
    PROVE  SoundAnswer(AddFriendResponse(e))
<1> DEFINE f == [error_code |-> e]
           layout == <<Field("code", "error_code")>>
<1>1. f = [x \in {"error_code"} |-> f[x]] /\ f["error_code"] = e
  OBVIOUS
<1>2. AddFriendResponse(e) = Message("ADD_FRIEND_RESP", f)
  BY DEF AddFriendResponse
<1> HIDE DEF f
<1>3. Sound(layout, f)
  BY <1>1, CodedValues, SoundValues, SoundOf1
<1>4. "ADD_FRIEND_RESP" \in DOMAIN ServerAnswer /\ ServerAnswer["ADD_FRIEND_RESP"] = layout
  BY DEF ServerAnswer, encode_add_friend_response
<1> QED
  BY <1>2, <1>3, <1>4, SoundMessages

\* Answers to a registration.
LEMMA SoundRegister ==
    ASSUME NEW e, NEW u \in UserIds \union {0}, Coded(e)
    PROVE  SoundAnswer(RegisterResponse(e, u))
<1> DEFINE f == [error_code |-> e, user_id |-> u]
           layout == <<Field("code", "error_code"), Field("int32", "user_id")>>
<1>1. f = [x \in {"error_code", "user_id"} |-> f[x]] /\ f["error_code"] = e /\ f["user_id"] = u
  OBVIOUS
<1>2. RegisterResponse(e, u) = Message("REGISTER_RESP", f)
  BY DEF RegisterResponse
<1> HIDE DEF f
<1>3. Sound(layout, f)
  BY <1>1, CodedValues, SoundValues, SoundOf2
<1>4. "REGISTER_RESP" \in DOMAIN ServerAnswer /\ ServerAnswer["REGISTER_RESP"] = layout
  BY DEF ServerAnswer, encode_register_response, Int32
<1> QED
  BY <1>2, <1>3, <1>4, SoundMessages

\* Answers with the security question.
LEMMA SoundQuestion ==
    ASSUME NEW e, NEW q \in Names \union {<<>>}, Coded(e)
    PROVE  SoundAnswer(SecurityQuestionResponse(e, q))
<1> DEFINE f == [error_code |-> e, question |-> q]
           layout == <<Field("code", "error_code"), Field("string", "question")>>
<1>1. f = [x \in {"error_code", "question"} |-> f[x]] /\ f["error_code"] = e /\ f["question"] = q
  OBVIOUS
<1>2. SecurityQuestionResponse(e, q) = Message("SECURITY_QUESTION_RESP", f)
  BY DEF SecurityQuestionResponse
<1> HIDE DEF f
<1>3. Sound(layout, f)
  BY <1>1, CodedValues, SoundValues, SoundOf2
<1>4. /\ "SECURITY_QUESTION_RESP" \in DOMAIN ServerAnswer
      /\ ServerAnswer["SECURITY_QUESTION_RESP"] = layout
  BY DEF ServerAnswer, encode_security_question_response, String
<1> QED
  BY <1>2, <1>3, <1>4, SoundMessages

\* Answers to a new password.
LEMMA SoundReset ==
    ASSUME NEW e, Coded(e)
    PROVE  SoundAnswer(ResetPasswordResponse(e))
<1> DEFINE f == [error_code |-> e]
           layout == <<Field("code", "error_code")>>
<1>1. f = [x \in {"error_code"} |-> f[x]] /\ f["error_code"] = e
  OBVIOUS
<1>2. ResetPasswordResponse(e) = Message("RESET_PASSWORD_RESP", f)
  BY DEF ResetPasswordResponse
<1> HIDE DEF f
<1>3. Sound(layout, f)
  BY <1>1, CodedValues, SoundValues, SoundOf1
<1>4. "RESET_PASSWORD_RESP" \in DOMAIN ServerAnswer /\ ServerAnswer["RESET_PASSWORD_RESP"] = layout
  BY DEF ServerAnswer, encode_reset_password_response
<1> QED
  BY <1>2, <1>3, <1>4, SoundMessages

\* Answers to a version check.
LEMMA SoundVersion ==
    ASSUME NEW url \in Names, NEW desc \in Names
    PROVE  SoundAnswer(VersionCheckResponse(url, desc))
<1> DEFINE f == [error_code |-> 0, server_version |-> 2, update_url |-> url, update_desc |-> desc]
           layout == <<Field("code", "error_code"), Field("int32", "server_version"),
                       Field("string", "update_url"), Field("string", "update_desc")>>
<1>1. /\ f = [x \in {"error_code", "server_version", "update_url", "update_desc"} |-> f[x]]
      /\ f["error_code"] = 0 /\ f["server_version"] = 2
      /\ f["update_url"] = url /\ f["update_desc"] = desc
  OBVIOUS
<1>2. VersionCheckResponse(url, desc) = Message("VERSION_CHECK_RESP", f)
  BY DEF VersionCheckResponse
<1> HIDE DEF f
<1>3. Sound(layout, f)
  <2>1. /\ IsSound("code", f["error_code"]) /\ IsSound("int32", f["server_version"])
        /\ IsSound("string", f["update_url"]) /\ IsSound("string", f["update_desc"])
    BY <1>1, CodedValues, SoundValues
  <2> QED
    BY <1>1, <2>1, SoundOf4
<1>4. "VERSION_CHECK_RESP" \in DOMAIN ServerAnswer /\ ServerAnswer["VERSION_CHECK_RESP"] = layout
  BY DEF ServerAnswer, encode_version_check_response, Int32, String
<1> QED
  BY <1>2, <1>3, <1>4, SoundMessages

\* All that handlers answer with and push can be written without loss.
LEMMA AnswersAreSound == ASSUME NEW a \in Answers PROVE SoundAnswer(a)
<1>1. CASE a \in Notifications
  <2>1. a = Message("MESSAGE_NOTIFY", a.fields) /\ HasFields(encode_message_notify, a.fields)
    BY <1>1, AnswersAssumption
  <2>2. a.command = "MESSAGE_NOTIFY"
    BY <2>1 DEF Message
  <2>3. /\ "MESSAGE_NOTIFY" \in DOMAIN ServerAnswer
        /\ ServerAnswer["MESSAGE_NOTIFY"] = encode_message_notify
    BY DEF ServerAnswer
  <2>4. \A i \in DOMAIN encode_message_notify :
            encode_message_notify[i].type \in {"int32", "text", "int64"}
    BY DEF encode_message_notify, Int32, Field
  <2>5. \A i \in DOMAIN encode_message_notify :
            Fit(encode_message_notify[i].type, a.fields[encode_message_notify[i].name])
    BY <2>4 DEF Fit
  <2> QED
    BY <2>1, <2>2, <2>3, <2>5 DEF SoundAnswer, Sound
<1>2. ASSUME NEW c \in DOMAIN AnswersTo, a \in AnswersTo[c] PROVE SoundAnswer(a)
  <2>1. CASE a \in handle_login
    <3> DEFINE errors == {"USER_NOT_FOUND", "USER_ALREADY_ONLINE"}
    <3>1. Coded(0) /\ \A x \in errors : Coded(ErrorCode[x])
      BY CodedValues DEF ErrorCode
    <3>2. CASE a \in {LoginResponse(0, u, n) : u \in UserIds, n \in Names}
      <4>1. PICK u \in UserIds, n \in Names : a = LoginResponse(0, u, n)
        BY <3>2
      <4> QED
        BY <3>1, <4>1, SoundLogin
    <3>3. CASE a \in {LoginResponse(ErrorCode[x], 0, <<>>) : x \in errors}
      <4>1. PICK x \in errors : a = LoginResponse(ErrorCode[x], 0, <<>>)
        BY <3>3
      <4> QED
        BY <3>1, <4>1, SoundLogin
    <3> QED
      BY <2>1, <3>2, <3>3 DEF handle_login
  <2>2. CASE a \in handle_chat_message
    <3> DEFINE errors == {"PROTOCOL_ERROR", "DATABASE_ERROR"}
    <3>1. Coded(0) /\ \A x \in errors : Coded(ErrorCode[x])
      BY CodedValues DEF ErrorCode
    <3>2. CASE a \in {MessageResponse(0, m) : m \in UserIds}
      <4>1. PICK m \in UserIds : a = MessageResponse(0, m)
        BY <3>2
      <4> QED
        BY <3>1, <4>1, SoundMessage
    <3>3. CASE a \in {MessageResponse(ErrorCode[x], 0) : x \in errors}
      <4>1. PICK x \in errors : a = MessageResponse(ErrorCode[x], 0)
        BY <3>3
      <4> QED
        BY <3>1, <4>1, SoundMessage
    <3> QED
      BY <2>2, <3>2, <3>3 DEF handle_chat_message
  <2>3. CASE a \in handle_friend_list
    <3> DEFINE errors == {"PROTOCOL_ERROR", "DATABASE_ERROR"}
    <3>1. Coded(0) /\ \A x \in errors : Coded(ErrorCode[x])
      BY CodedValues DEF ErrorCode
    <3>2. CASE a \in {FriendListResponse(0, f) : f \in SeqOf([id : UserIds, name : Names], 2)}
      <4>1. PICK f \in SeqOf([id : UserIds, name : Names], 2) : a = FriendListResponse(0, f)
        BY <3>2
      <4> QED
        BY <3>1, <4>1, SoundFriends
    <3>3. CASE a \in {FriendListResponse(ErrorCode[x], <<>>) : x \in errors}
      <4>1. PICK x \in errors : a = FriendListResponse(ErrorCode[x], <<>>)
        BY <3>3
      <4> QED
        BY <3>1, <4>1, SoundFriends
    <3> QED
      BY <2>3, <3>2, <3>3 DEF handle_friend_list
  <2>4. CASE a \in handle_add_friend
    <3>1. \E e : Coded(e) /\ a = AddFriendResponse(e)
      BY <2>4, CodedValues DEF handle_add_friend, ErrorCode
    <3> QED
      BY <3>1, SoundAddFriend
  <2>5. CASE a \in handle_register
    <3> DEFINE errors == {"INVALID_REQUEST", "USERNAME_EXISTS", "DATABASE_ERROR"}
    <3>1. Coded(0) /\ \A x \in errors : Coded(ErrorCode[x])
      BY CodedValues DEF ErrorCode
    <3>2. CASE a \in {RegisterResponse(0, u) : u \in UserIds}
      <4>1. PICK u \in UserIds : a = RegisterResponse(0, u)
        BY <3>2
      <4> QED
        BY <3>1, <4>1, SoundRegister
    <3>3. CASE a \in {RegisterResponse(ErrorCode[x], 0) : x \in errors}
      <4>1. PICK x \in errors : a = RegisterResponse(ErrorCode[x], 0)
        BY <3>3
      <4> QED
        BY <3>1, <4>1, SoundRegister
    <3> QED
      BY <2>5, <3>2, <3>3 DEF handle_register
  <2>6. CASE a \in handle_security_question
    <3> DEFINE errors == {"INVALID_REQUEST", "USER_NOT_FOUND"}
    <3>1. Coded(0) /\ \A x \in errors : Coded(ErrorCode[x])
      BY CodedValues DEF ErrorCode
    <3>2. CASE a \in {SecurityQuestionResponse(0, q) : q \in Names}
      <4>1. PICK q \in Names : a = SecurityQuestionResponse(0, q)
        BY <3>2
      <4> QED
        BY <3>1, <4>1, SoundQuestion
    <3>3. CASE a \in {SecurityQuestionResponse(ErrorCode[x], <<>>) : x \in errors}
      <4>1. PICK x \in errors : a = SecurityQuestionResponse(ErrorCode[x], <<>>)
        BY <3>3
      <4> QED
        BY <3>1, <4>1, SoundQuestion
    <3> QED
      BY <2>6, <3>2, <3>3 DEF handle_security_question
  <2>7. CASE a \in handle_reset_password
    <3>1. \E e : Coded(e) /\ a = ResetPasswordResponse(e)
      BY <2>7, CodedValues DEF handle_reset_password, ErrorCode
    <3> QED
      BY <3>1, SoundReset
  <2>8. CASE a \in handle_version_check
    <3>1. \E url \in Names, desc \in Names : a = VersionCheckResponse(url, desc)
      BY <2>8 DEF handle_version_check
    <3> QED
      BY <3>1, SoundVersion
  <2>9. /\ c \in {"LOGIN_REQ", "MESSAGE_REQ", "FRIEND_LIST_REQ", "ADD_FRIEND_REQ", "REGISTER_REQ",
                  "SECURITY_QUESTION_REQ", "RESET_PASSWORD_REQ", "VERSION_CHECK_REQ"}
        /\ AnswersTo["LOGIN_REQ"] = handle_login
        /\ AnswersTo["MESSAGE_REQ"] = handle_chat_message
        /\ AnswersTo["FRIEND_LIST_REQ"] = handle_friend_list
        /\ AnswersTo["ADD_FRIEND_REQ"] = handle_add_friend
        /\ AnswersTo["REGISTER_REQ"] = handle_register
        /\ AnswersTo["SECURITY_QUESTION_REQ"] = handle_security_question
        /\ AnswersTo["RESET_PASSWORD_REQ"] = handle_reset_password
        /\ AnswersTo["VERSION_CHECK_REQ"] = handle_version_check
    BY DEF AnswersTo
  <2> QED
    BY <1>2, <2>1, <2>2, <2>3, <2>4, <2>5, <2>6, <2>7, <2>8, <2>9
<1> QED
  BY <1>1, <1>2 DEF Answers

\* The client reads a field of one type as one of the other.
Matches(w, t) ==
    \/ w = t /\ w \in {"code", "int32", "int64", "text", "friends"}
    \/ w = "code" /\ t = "success"
    \/ w = "string" /\ t \in {"string", "optional"}

\* Layouts of an answer as the server writes it and as the client reads it.
AnswerLayouts(written, read) ==
    /\ IsLayout(written) /\ IsLayout(read) /\ SameFields(written, read)
    /\ \A i \in 1 .. Len(written) :
           /\ Matches(written[i].type, read[i].type)
           /\ written[i].type = "friends" => i = Len(written)

\* Such layouts are put together of fields that match.
LEMMA Answer1 ==
    ASSUME NEW t, NEW t1, NEW a, Matches(t, t1)
    PROVE  AnswerLayouts(<<Field(t, a)>>, <<Field(t1, a)>>)
BY DEF AnswerLayouts, Matches, SameFields, IsLayout, Field, FieldNames, FieldTypes

LEMMA Answer2 ==
    ASSUME NEW t, NEW t1, NEW a, Matches(t, t1), t # "friends",
           NEW u, NEW u1, NEW b, Matches(u, u1), a # b
    PROVE  AnswerLayouts(<<Field(t, a), Field(u, b)>>, <<Field(t1, a), Field(u1, b)>>)
BY DEF AnswerLayouts, Matches, SameFields, IsLayout, Field, FieldNames, FieldTypes

LEMMA Answer3 ==
    ASSUME NEW t, NEW t1, NEW a, Matches(t, t1), t # "friends",
           NEW u, NEW u1, NEW b, Matches(u, u1), u # "friends",
           NEW v, NEW v1, NEW c, Matches(v, v1), a # b, a # c, b # c
    PROVE  AnswerLayouts(<<Field(t, a), Field(u, b), Field(v, c)>>,
                         <<Field(t1, a), Field(u1, b), Field(v1, c)>>)
BY DEF AnswerLayouts, Matches, SameFields, IsLayout, Field, FieldNames, FieldTypes

LEMMA Answer4 ==
    ASSUME NEW t, NEW t1, NEW a, Matches(t, t1), t # "friends",
           NEW u, NEW u1, NEW b, Matches(u, u1), u # "friends",
           NEW v, NEW v1, NEW c, Matches(v, v1), v # "friends",
           NEW w, NEW w1, NEW d, Matches(w, w1),
           a # b, a # c, a # d, b # c, b # d, c # d
    PROVE  AnswerLayouts(<<Field(t, a), Field(u, b), Field(v, c), Field(w, d)>>,
                         <<Field(t1, a), Field(u1, b), Field(v1, c), Field(w1, d)>>)
BY DEF AnswerLayouts, Matches, SameFields, IsLayout, Field, FieldNames, FieldTypes

\* Every answer that the client decodes is read as it is written.
LEMMA AnswerTables ==
    \A c \in DOMAIN ClientAnswer :
        c \in DOMAIN ServerAnswer /\ AnswerLayouts(ServerAnswer[c], ClientAnswer[c])
<1>1. /\ \A t \in {"code", "int32", "int64", "text", "friends"} : Matches(t, t)
      /\ Matches("code", "success") /\ Matches("string", "optional")
  BY DEF Matches
<1>2. AnswerLayouts(encode_login_response, decode_login_response)
  BY <1>1, Answer3 DEF encode_login_response, decode_login_response, Int32, String
<1>3. AnswerLayouts(encode_message_notify, decode_message_notify)
  BY <1>1, Answer3 DEF encode_message_notify, decode_message_notify, Int32
<1>4. AnswerLayouts(encode_friend_list_response, decode_friend_list_response)
  BY <1>1, Answer2 DEF encode_friend_list_response, decode_friend_list_response
<1>5. AnswerLayouts(encode_register_response, decode_register_response)
  BY <1>1, Answer2 DEF encode_register_response, decode_register_response, Int32
<1>6. AnswerLayouts(encode_security_question_response, decode_security_question_response)
  BY <1>1, Answer2
     DEF encode_security_question_response, decode_security_question_response, String
<1>7. AnswerLayouts(encode_reset_password_response, decode_reset_password_response)
  BY <1>1, Answer1 DEF encode_reset_password_response, decode_reset_password_response
<1>8. AnswerLayouts(encode_version_check_response, decode_version_check_response)
  BY <1>1, Answer4 DEF encode_version_check_response, decode_version_check_response, Int32, String
<1> QED
  BY <1>2, <1>3, <1>4, <1>5, <1>6, <1>7, <1>8 DEF ClientAnswer, ServerAnswer

\* Only the friend list is refused for its error code.
LEMMA OnlyFriendsRefused ==
    /\ \A c \in DOMAIN ClientAnswer : \A i \in DOMAIN ClientAnswer[c] :
           ClientAnswer[c][i].type = "success" =>
               c = "FRIEND_LIST_RESP" /\ ClientAnswer[c][i].name = "error_code"
    /\ ServerAnswer["FRIEND_LIST_RESP"]
           = <<Field("code", "error_code"), Field("friends", "friends")>>
    /\ ClientAnswer["FRIEND_LIST_RESP"]
           = <<Field("success", "error_code"), Field("friends", "friends")>>
<1> DEFINE Refused(layout) == {i \in DOMAIN layout : layout[i].type = "success"}
<1>1. /\ Refused(decode_login_response) = {}
      /\ Refused(decode_message_notify) = {}
      /\ Refused(decode_register_response) = {}
      /\ Refused(decode_security_question_response) = {}
      /\ Refused(decode_reset_password_response) = {}
      /\ Refused(decode_version_check_response) = {}
  BY DEF decode_login_response, decode_message_notify, decode_register_response,
         decode_security_question_response, decode_reset_password_response,
         decode_version_check_response, Int32, String, Field
<1>2. \A i \in DOMAIN decode_friend_list_response :
          decode_friend_list_response[i].type = "success"
              => decode_friend_list_response[i].name = "error_code"
  BY DEF decode_friend_list_response, Field
<1>3. \A c \in DOMAIN ClientAnswer : c # "FRIEND_LIST_RESP" => Refused(ClientAnswer[c]) = {}
  <2> HIDE DEF Refused
  <2> QED
    BY <1>1 DEF ClientAnswer
<1>4. ClientAnswer["FRIEND_LIST_RESP"] = decode_friend_list_response
  BY DEF ClientAnswer
<1> QED
  BY <1>2, <1>3, <1>4
     DEF ClientAnswer, ServerAnswer, encode_friend_list_response, decode_friend_list_response

-----------------------------------------------------------------------------
\* The packet of an answer.
LEMMA AnswerPacketIs ==
    ASSUME NEW a \in Answers
    PROVE  /\ AnswerPacket[a].command = CommandCode[a.command]
           /\ AnswerPacket[a].data = Encode(ServerAnswer[a.command], a.fields)
BY DEF AnswerPacket, PacketOf

\* An answer that is reported is decoded to its fields.
LEMMA AnswerBody ==
    ASSUME NEW a \in Answers, IsReported(a)
    PROVE  Decode(ClientAnswer[a.command], AnswerPacket[a].data) = {a.fields}
<1> DEFINE c == a.command
           fields == a.fields
           written == ServerAnswer[c]
           read == ClientAnswer[c]
<1>1. /\ c \in DOMAIN ClientAnswer /\ Sound(written, fields)
      /\ c = "FRIEND_LIST_RESP" => fields["error_code"] = 0
  BY AnswersAreSound DEF SoundAnswer, IsReported, ErrorCode
<1>2. AnswerLayouts(written, read)
  BY <1>1, AnswerTables
<1>3. ASSUME NEW i \in DOMAIN read, read[i].type = "success"
      PROVE  fields[read[i].name] = 0
  BY <1>1, <1>3, OnlyFriendsRefused
<1>4. AnswerPacket[a].data = Encode(written, fields)
  BY AnswerPacketIs
<1> HIDE DEF c, fields, written, read
<1>5. /\ Len(written) = Len(read) /\ DOMAIN written = 1 .. Len(written) /\ DOMAIN read = 1 .. Len(read)
      /\ \A i \in 1 .. Len(written) : written[i].name = read[i].name
  BY <1>2, LenProperties DEF AnswerLayouts, SameFields, IsLayout
<1>6. FieldNames(read) = FieldNames(written)
  BY <1>5 DEF FieldNames
<1>7. fields = [x \in FieldNames(read) |-> fields[x]]
  BY <1>1, <1>6 DEF Sound, HasFields
<1>8. ASSUME NEW i \in 1 .. Len(written)
      PROVE  Readable(written[i].type, read[i].type, fields[written[i].name])
  <2> DEFINE w == written[i].type
             t == read[i].type
             v == fields[written[i].name]
  <2>1. v \in FieldValues(w) /\ Fit(w, v)
    BY <1>1, <1>5 DEF Sound, HasFields
  <2>2. Matches(w, t) /\ (t = "success" => v = 0)
    BY <1>2, <1>3, <1>5 DEF AnswerLayouts
  <2> HIDE DEF w, t, v
  <2>3. Readable(w, t, v)
    BY <2>1, <2>2 DEF Readable, Matches, Fit
  <2> QED
    BY <2>3 DEF w, t, v
<1>9. \A i \in 1 .. Len(written) : written[i].type = "friends" => i = Len(written)
  BY <1>2 DEF AnswerLayouts
<1>10. IsLayout(written) /\ IsLayout(read) /\ SameFields(written, read)
  BY <1>2 DEF AnswerLayouts
<1>11. Decode(read, Encode(written, fields)) = {fields}
  BY <1>7, <1>8, <1>9, <1>10, BodyRoundTrip
<1> QED
  BY <1>4, <1>11 DEF c, fields, read

\* A friend list that the server could not make is refused.
LEMMA FriendsRefused ==
    ASSUME NEW a \in Answers, a.command = "FRIEND_LIST_RESP", a.fields.error_code # 0
    PROVE  Decode(ClientAnswer[a.command], AnswerPacket[a].data) = {}
<1> DEFINE c == a.command
           fields == a.fields
           written == ServerAnswer[c]
           read == ClientAnswer[c]
           data == Encode(written, fields)
<1>1. /\ c \in DOMAIN ClientAnswer /\ Sound(written, fields)
      /\ fields["error_code"] # 0
  BY AnswersAreSound DEF SoundAnswer, ClientAnswer
<1>2. AnswerLayouts(written, read)
  BY <1>1, AnswerTables
<1>3. /\ written = <<Field("code", "error_code"), Field("friends", "friends")>>
      /\ read = <<Field("success", "error_code"), Field("friends", "friends")>>
  BY OnlyFriendsRefused
<1>4. AnswerPacket[a].data = data
  BY AnswerPacketIs
<1> DEFINE v == fields["error_code"]
<1>5. /\ Len(written) = 2 /\ Len(read) = 2
      /\ written[1].type = "code" /\ written[1].name = "error_code"
      /\ read[1].type = "success"
  BY <1>3 DEF Field
<1> HIDE DEF c, fields, written, read, v
<1>6. DOMAIN written = 1 .. Len(written) /\ IsLayout(written) /\ IsLayout(read)
  BY <1>2, LenProperties DEF AnswerLayouts, IsLayout
<1>7. Fitting(written, fields)
  BY <1>1, <1>6 DEF Sound, HasFields, Fitting
<1>8. \E at \in [1 .. Len(written) + 1 -> Nat \ {0}] :
          at[1] = 1 /\ Holds(data, at[1], Write(written[1].type, fields[written[1].name]))
  <2>1. PICK at \in [1 .. Len(written) + 1 -> Nat \ {0}] :
            /\ at[1] = 1
            /\ \A i \in 1 .. Len(written) :
                  Holds(data, at[i], Write(written[i].type, fields[written[i].name]))
    BY <1>6, <1>7, Body
  <2>2. 1 \in 1 .. Len(written)
    BY <1>5
  <2> QED
    BY <2>1, <2>2
<1>9. data \in Seq(Byte)
  BY <1>6, <1>7, Body
<1>10. v \in Nat /\ v < Max16
  BY <1>5, <1>7, Widths DEF Fitting, FieldValues, v
<1>11. Holds(data, 1, write_uint16(v))
  BY <1>5, <1>8 DEF Write, v
<1> HIDE DEF data
<1>12. read_uint16(data, 1) = v
  BY <1>9, <1>10, <1>11, Read16
<1>13. ReadField("success", data, 1) = NotRead
  BY <1>1, <1>12 DEF ReadField, ErrorCode, v
<1>14. ASSUME NEW g PROVE g \notin Decode(read, data)
  <2> PICK at \in [1 .. Len(written) + 1 -> Nat \ {0}] : at[1] = 1
    BY <1>8
  <2>1. at \in [1 .. Len(read) + 1 -> Nat \ {0}] /\ at[1] = 1
    BY <1>5, <1>8
  <2>2. FieldsAreRead(read, data, at, g, 0)
    BY <2>1 DEF FieldsAreRead
  <2>3. ReadDiffers(read, data, at, g, 0 + 1)
    BY <1>5, <1>13, <2>1 DEF ReadDiffers, NotRead
  <2>4. 0 \in 0 .. Len(read) - 1
    BY <1>5
  <2> QED
    BY <1>6, <1>9, <2>2, <2>3, <2>4, DecodeNone
<1> QED
  BY <1>4, <1>14 DEF c, read

\* What the client takes the packet of an answer for: the answer itself if it
\* is one that is reported.
LEMMA AnswerTaken ==
    ASSUME NEW a \in Answers
    PROVE  /\ a # Dropped
           /\ MessageOf(ClientAnswer, AnswerPacket[a]) = IF IsReported(a) THEN a ELSE Dropped
<1> DEFINE c == a.command
           p == AnswerPacket[a]
<1>1. c \in DOMAIN ServerAnswer /\ a = Message(c, a.fields)
  BY AnswersAreSound DEF SoundAnswer
<1>2. p.command = CommandCode[c]
  BY AnswerPacketIs
<1>3. /\ DOMAIN ServerAnswer \subseteq DOMAIN CommandCode
      /\ DOMAIN ClientAnswer \subseteq DOMAIN CommandCode
  BY DEF ServerAnswer, ClientAnswer, CommandCode
<1>4. a # Dropped
  <2>1. "dropped" \notin DOMAIN ServerAnswer
    BY DEF ServerAnswer
  <2> QED
    BY <1>1, <2>1 DEF Dropped, Message
<1>5. CASE IsReported(a)
  <2>1. c \in DOMAIN ClientAnswer /\ Decode(ClientAnswer[c], p.data) = {a.fields}
    BY <1>5, AnswerBody DEF IsReported
  <2> HIDE DEF c, p
  <2>2. MessageOf(ClientAnswer, p) = Message(c, a.fields)
    BY <1>2, <1>3, <2>1, MessageIs
  <2> QED
    BY <1>1, <1>4, <1>5, <2>2 DEF p
<1>6. CASE ~IsReported(a) /\ c \in DOMAIN ClientAnswer
  <2>1. c = "FRIEND_LIST_RESP" /\ a.fields.error_code # 0
    BY <1>6 DEF IsReported, ErrorCode
  <2>2. Decode(ClientAnswer[c], p.data) = {}
    BY <2>1, FriendsRefused
  <2> HIDE DEF c, p
  <2>3. MessageOf(ClientAnswer, p) = Dropped
    BY <1>2, <1>3, <1>6, <2>2, MessageIs
  <2> QED
    BY <1>4, <1>6, <2>3 DEF p
<1>7. CASE ~IsReported(a) /\ c \notin DOMAIN ClientAnswer
  <2> DEFINE known == {d \in DOMAIN ClientAnswer : CommandCode[d] = p.command}
             decoded == {Message(d, f) : d \in known,
                                         f \in UNION {Decode(ClientAnswer[d], p.data) : d \in known}}
  <2>1. known = {}
    BY <1>1, <1>2, <1>3, <1>7, Codes
  <2>2. MessageOf(ClientAnswer, p) = IF decoded = {} THEN Dropped ELSE CHOOSE m \in decoded : TRUE
    BY DEF MessageOf
  <2>3. decoded = {}
    <3> HIDE DEF known
    <3> QED
      BY <2>1
  <2> HIDE DEF decoded
  <2> QED
    BY <1>4, <1>7, <2>2, <2>3
<1> QED
  BY <1>5, <1>6, <1>7

\* The function in ReportsOf exists.
LEMMA ReportsExist ==
    ASSUME NEW s, NEW n \in Nat
    PROVE  \E f : f = [i \in 0 .. n |->
                         IF i = 0 THEN <<>>
                         ELSE IF IsReported(s[i]) THEN Append(f[i - 1], s[i]) ELSE f[i - 1]]
<1> DEFINE Is(f, k) == f = [i \in 0 .. k |->
                               IF i = 0 THEN <<>>
                               ELSE IF IsReported(s[i]) THEN Append(f[i - 1], s[i]) ELSE f[i - 1]]
           S == {k \in Nat : \E f : Is(f, k)}
<1>1. 0 \in S
  <2> DEFINE g == [i \in 0 .. 0 |-> <<>>]
  <2>1. Is(g, 0)
    OBVIOUS
  <2> QED
    BY <2>1
<1>2. ASSUME NEW k \in Nat, k \in S PROVE k + 1 \in S
  <2>1. PICK f : Is(f, k)
    BY <1>2
  <2> DEFINE Step(h, i) == IF i = 0 THEN <<>>
                           ELSE IF IsReported(s[i]) THEN Append(h[i - 1], s[i]) ELSE h[i - 1]
             g == [i \in 0 .. k + 1 |-> IF i = k + 1 THEN Step(f, i) ELSE f[i]]
  <2>2. \A i \in 0 .. k + 1 : i # 0 => g[i - 1] = f[i - 1]
    OBVIOUS
  <2>3. \A i \in 0 .. k : f[i] = Step(f, i)
    BY <2>1
  <2>4. \A i \in 0 .. k + 1 : g[i] = Step(f, i)
    <3>1. \A i \in 0 .. k + 1 : i # k + 1 => i \in 0 .. k
      OBVIOUS
    <3> HIDE DEF Step
    <3> QED
      BY <2>3, <3>1
  <2>5. g = [i \in 0 .. k + 1 |-> g[i]]
    OBVIOUS
  <2> HIDE DEF g
  <2>6. \A i \in 0 .. k + 1 : g[i] = Step(g, i)
    BY <2>2, <2>4
  <2> HIDE DEF Step
  <2>7. g = [i \in 0 .. k + 1 |-> Step(g, i)]
    BY <2>5, <2>6
  <2>8. Is(g, k + 1)
    BY <2>7, Zenon DEF Step
  <2> HIDE DEF Is
  <2> QED
    BY <2>8
<1> HIDE DEF S
<1>3. n \in S
  BY <1>1, <1>2, Induction
<1> QED
  BY <1>3 DEF S

\* What ReportsOf yields, message by message.
LEMMA ReportsStep ==
    ASSUME NEW s, Len(s) \in Nat
    PROVE  /\ ReportsOf(s, 0) = <<>>
           /\ \A n \in 0 .. Len(s) - 1 :
                  ReportsOf(s, n + 1) =
                      IF IsReported(s[n + 1]) THEN Append(ReportsOf(s, n), s[n + 1])
                      ELSE ReportsOf(s, n)
<1> DEFINE N == Len(s)
           g == CHOOSE f : f = [i \in 0 .. N |->
                                   IF i = 0 THEN <<>>
                                   ELSE IF IsReported(s[i]) THEN Append(f[i - 1], s[i]) ELSE f[i - 1]]
<1>1. \A n : ReportsOf(s, n) = g[n]
  BY Zenon DEF ReportsOf
<1>2. \E f : f = [i \in 0 .. N |->
                     IF i = 0 THEN <<>>
                     ELSE IF IsReported(s[i]) THEN Append(f[i - 1], s[i]) ELSE f[i - 1]]
  BY ReportsExist
<1>3. g = [i \in 0 .. N |->
              IF i = 0 THEN <<>>
              ELSE IF IsReported(s[i]) THEN Append(g[i - 1], s[i]) ELSE g[i - 1]]
  BY <1>2, Zenon
<1> HIDE DEF g
<1>4. \A i \in 0 .. N : g[i] = IF i = 0 THEN <<>>
                               ELSE IF IsReported(s[i]) THEN Append(g[i - 1], s[i]) ELSE g[i - 1]
  BY <1>3
<1>5. g[0] = <<>>
  BY <1>4
<1>6. ASSUME NEW n \in 0 .. N - 1
      PROVE  g[n + 1] = IF IsReported(s[n + 1]) THEN Append(g[n], s[n + 1]) ELSE g[n]
  <2> DEFINE j == n + 1
  <2>1. j \in 0 .. N /\ j # 0 /\ j - 1 = n
    OBVIOUS
  <2> HIDE DEF j, N
  <2>2. g[j] = IF IsReported(s[j]) THEN Append(g[j - 1], s[j]) ELSE g[j - 1]
    BY <1>4, <2>1
  <2> QED
    BY <2>1, <2>2 DEF j
<1> QED
  BY <1>1, <1>5, <1>6

\* What is sent later changes nothing of the reports so far.
LEMMA ReportsStay ==
    ASSUME NEW s \in Seq(Answers), NEW a \in Answers, NEW n \in 0 .. Len(s)
    PROVE  ReportsOf(Append(s, a), n) = ReportsOf(s, n)
<1> DEFINE t == Append(s, a)
           S == {k \in Nat : k <= Len(s) => ReportsOf(t, k) = ReportsOf(s, k)}
<1>1. /\ Len(s) \in Nat /\ Len(t) = Len(s) + 1
      /\ \A i \in 1 .. Len(s) : t[i] = s[i]
  OBVIOUS
<1> HIDE DEF t
<1>2. 0 \in S
  BY <1>1, ReportsStep
<1>3. ASSUME NEW k \in Nat, k \in S PROVE k + 1 \in S
  <2> SUFFICES ASSUME k + 1 <= Len(s) PROVE ReportsOf(t, k + 1) = ReportsOf(s, k + 1)
    OBVIOUS
  <2>1. k \in 0 .. Len(s) - 1 /\ k \in 0 .. Len(t) - 1 /\ k + 1 \in 1 .. Len(s)
    BY <1>1
  <2>2. ReportsOf(t, k) = ReportsOf(s, k) /\ t[k + 1] = s[k + 1]
    BY <1>1, <1>3, <2>1
  <2>3. Len(t) \in Nat
    BY <1>1
  <2> QED
    BY <1>1, <2>1, <2>2, <2>3, ReportsStep
<1> HIDE DEF S
<1>4. n \in S
  BY <1>1, <1>2, <1>3, Induction
<1> QED
  BY <1>1, <1>4 DEF S, t

-----------------------------------------------------------------------------
(* What the callbacks report *)

\* The packets sent are those of the answers, and what was handled of them has
\* been reported.
Reporting ==
    /\ Len(answers) = Len(sent)
    /\ \A i \in 1 .. Len(sent) : sent[i] = AnswerPacket[answers[i]]
    /\ AnswersAreReported

ReportInv == IInv /\ StreamInv /\ Reporting

\* Nothing is sent on a connection that is just made.
NothingSent == sent = <<>> /\ answers = <<>> /\ told = <<>> /\ handled = <<>>

LEMMA NothingToReport == NothingSent => Reporting
<1>1. Len(<<>>) = 0 /\ Len(<<>>) \in Nat
  BY EmptySeq
<1>2. ReportsOf(<<>>, 0) = <<>>
  BY <1>1, ReportsStep
<1> QED
  BY <1>1, <1>2 DEF NothingSent, Reporting, AnswersAreReported

\* What has been handled was sent before.
LEMMA HandledWasSent ==
    ASSUME StreamInv, carried = <<>>
    PROVE  /\ Len(handled) \in Nat /\ Len(handled) <= Len(sent)
           /\ handled = SubSeq(sent, 1, Len(handled))
BY InvDelivers, LenProperties DEF StreamInv, StreamTypeOK, DeliveredInOrder

\* An answer is sent behind those before it.
LEMMA SendReports ==
    ASSUME ReportInv, NEW a \in Answers, SendMessage(a), UNCHANGED told PROVE Reporting'
<1>1. /\ sent' = Append(sent, AnswerPacket[a]) /\ answers' = Append(answers, a)
      /\ UNCHANGED <<handled, carried>>
  BY DEF SendMessage, ServerSend
<1>2. answers \in Seq(Answers) /\ sent \in Seq(Packets) /\ AnswerPacket[a] \in Packets
  BY AnswerIsPacket DEF ReportInv, IInv, TypeOK, StreamTypeOK
<1>3. Len(answers) = Len(sent) /\ \A i \in 1 .. Len(sent) : sent[i] = AnswerPacket[answers[i]]
  BY DEF ReportInv, Reporting
<1>4. Len(answers') = Len(sent') /\ \A i \in 1 .. Len(sent') : sent'[i] = AnswerPacket[answers'[i]]
  BY <1>1, <1>2, <1>3
<1>5. ASSUME carried = <<>> PROVE told = ReportsOf(answers', Len(handled))
  <2>1. Len(handled) \in 0 .. Len(answers)
    BY <1>2, <1>3, <1>5, HandledWasSent, LenProperties DEF ReportInv
  <2>2. ReportsOf(Append(answers, a), Len(handled)) = ReportsOf(answers, Len(handled))
    BY <1>2, <2>1, ReportsStay
  <2> QED
    BY <1>1, <1>5, <2>2 DEF ReportInv, Reporting, AnswersAreReported
<1> QED
  BY <1>1, <1>4, <1>5 DEF Reporting, AnswersAreReported

\* handle_packet gets the next packet sent, and reports the answer in it.
LEMMA HandleReports ==
    ASSUME ReportInv, StreamInv', HandlePacket PROVE Reporting'
<1>1. UNCHANGED <<answers, sent, carried>>
  BY DEF HandlePacket, TakePacket
<1>2. ASSUME carried = <<>> PROVE told' = ReportsOf(answers, Len(handled'))
  <2> DEFINE n == Len(handled)
  <2>1. handled' \in Seq(Packet) /\ handled \in Seq(Packet) /\ \E p : handled' = Append(handled, p)
    BY DEF HandlePacket, TakePacket, StreamInv, StreamTypeOK
  <2>2. n \in Nat /\ Len(handled') = n + 1 /\ Last(handled') = handled'[n + 1]
    BY <2>1 DEF Last
  <2>3. Len(handled') <= Len(sent') /\ handled' = SubSeq(sent', 1, Len(handled'))
    <3>1. StreamInv' => DeliveredInOrder'
      BY InvDelivers, PTL
    <3> QED
      BY <1>1, <1>2, <3>1 DEF DeliveredInOrder
  <2>4. answers \in Seq(Answers) /\ sent \in Seq(Packets) /\ Len(answers) = Len(sent)
    BY DEF ReportInv, IInv, TypeOK, StreamTypeOK, Reporting
  <2> HIDE DEF n
  <2>5. n \in 0 .. Len(answers) - 1 /\ n + 1 \in 1 .. Len(answers) /\ Len(answers) \in Nat
    BY <1>1, <2>2, <2>3, <2>4, LenProperties
  <2> DEFINE a == answers[n + 1]
  <2>6. a \in Answers
    BY <2>4, <2>5, ElementOfSeq
  <2>7. handled'[n + 1] = sent[n + 1]
    BY <1>1, <2>2, <2>3, <2>4, <2>5
  <2>8. Last(handled') = AnswerPacket[a]
    BY <2>2, <2>4, <2>5, <2>7 DEF ReportInv, Reporting
  <2> HIDE DEF a
  <2>9. MessageOf(ClientAnswer, Last(handled')) = IF IsReported(a) THEN a ELSE Dropped
    BY <2>6, <2>8, AnswerTaken
  <2>10. told' = IF IsReported(a) THEN Append(told, a) ELSE told
    BY <2>6, <2>9, AnswerTaken DEF HandlePacket
  <2>11. told = ReportsOf(answers, n)
    BY <1>2 DEF ReportInv, Reporting, AnswersAreReported, n
  <2>12. ReportsOf(answers, n + 1) = IF IsReported(a) THEN Append(ReportsOf(answers, n), a)
                                     ELSE ReportsOf(answers, n)
    BY <2>5, ReportsStep DEF a
  <2> QED
    BY <2>2, <2>10, <2>11, <2>12
<1> QED
  BY <1>1, <1>2 DEF ReportInv, Reporting, AnswersAreReported

\* Every step keeps the invariant.
LEMMA ReportStep == ReportInv /\ [Next]_vars => ReportInv'
<1> SUFFICES ASSUME ReportInv, [Next]_vars PROVE ReportInv'
  OBVIOUS
<1>1. IInv' /\ StreamInv'
  BY WireInvStep, WireStep, InvStep DEF ReportInv
<1>2. ASSUME ClientConnect PROVE Reporting'
  <2>1. NothingSent'
    BY <1>2 DEF ClientConnect, Connect, NothingSent
  <2>2. NothingSent' => Reporting'
    BY NothingToReport, PTL
  <2> QED
    BY <2>1, <2>2
<1>3. ASSUME NEW r \in Requests, Ask(r) PROVE Reporting'
  BY <1>3 DEF Ask, streamVars, ReportInv, Reporting, AnswersAreReported
<1>4. ASSUME ServerRead PROVE Reporting'
  BY <1>4 DEF ServerRead, streamVars, ReportInv, Reporting, AnswersAreReported
<1>5. ASSUME Answer PROVE Reporting'
  <2>1. PICK a \in AnswersTo[understood.command] : SendMessage(a)
    BY <1>5 DEF Answer
  <2>2. a \in Answers
    BY <1>5, HandlerAnswers DEF Answer
  <2> QED
    BY <1>5, <2>1, <2>2, SendReports DEF Answer
<1>6. ASSUME NEW a \in Notifications, Push(a) PROVE Reporting'
  BY <1>6, SendReports DEF Push, Answers
<1>7. ASSUME NEW n \in 1 .. RecvSize, Receive(n) PROVE Reporting'
  BY <1>7 DEF Receive, Recv, wireVars, ReportInv, Reporting, AnswersAreReported
<1>8. ASSUME HandlePacket PROVE Reporting'
  BY <1>1, <1>8, HandleReports
<1>9. ASSUME LoseConnection PROVE Reporting'
  BY <1>9 DEF LoseConnection, Lose, ReportInv, Reporting, AnswersAreReported
<1>10. ASSUME UNCHANGED vars PROVE Reporting'
  BY <1>10 DEF vars, streamVars, wireVars, ReportInv, Reporting, AnswersAreReported
<1>11. Reporting'
  BY <1>2, <1>3, <1>4, <1>5, <1>6, <1>7, <1>8, <1>9, <1>10 DEF Next
<1> QED
  BY <1>1, <1>11 DEF ReportInv

\* What the callbacks report on a connection that found read_buffer_ empty are
\* the answers of the server, in their order and with all that the handlers
\* put in, but those that handle_packet drops on purpose.
THEOREM AnswersReported == Spec => []AnswersAreReported
<1>1. Init => ReportInv
  <2> SUFFICES ASSUME Init PROVE ReportInv
    OBVIOUS
  <2> QED
    BY WireInit, InvInit, NothingToReport DEF Init, StreamInit, NothingSent, ReportInv
<1>2. ReportInv => AnswersAreReported
  BY DEF ReportInv, Reporting
<1> QED
  BY <1>1, <1>2, ReportStep, PTL DEF Spec
=============================================================================
