-------------------------------- MODULE Codec --------------------------------
(***************************************************************************)
(* The bodies of the packets.  The server and the Android client have each *)
(* a ProtocolCodec of their own: the client encodes requests that the      *)
(* server decodes, and the server encodes answers that the client decodes. *)
(* What each function writes or reads, and in which order, is a layout: a  *)
(* sequence of named fields, defined under the name of the function.       *)
(***************************************************************************)
EXTENDS Framing, SequencesExt

-----------------------------------------------------------------------------
(* Commands and error codes (the same numbers in both headers) *)

CommandCode ==
    [LOGIN_REQ |-> 1, LOGIN_RESP |-> 2, MESSAGE_REQ |-> 3, MESSAGE_RESP |-> 4,
     MESSAGE_NOTIFY |-> 5, FRIEND_LIST_REQ |-> 6, FRIEND_LIST_RESP |-> 7,
     ADD_FRIEND_REQ |-> 8, ADD_FRIEND_RESP |-> 9, REGISTER_REQ |-> 10,
     REGISTER_RESP |-> 11, SECURITY_QUESTION_REQ |-> 12,
     SECURITY_QUESTION_RESP |-> 13, RESET_PASSWORD_REQ |-> 14,
     RESET_PASSWORD_RESP |-> 15, VERSION_CHECK_REQ |-> 16, VERSION_CHECK_RESP |-> 17]

ErrorCode ==
    [SUCCESS |-> 0, USER_NOT_FOUND |-> 1, USER_ALREADY_ONLINE |-> 3,
     PROTOCOL_ERROR |-> 5, DATABASE_ERROR |-> 6, FRIEND_REQUEST_EXISTS |-> 7,
     CANNOT_ADD_SELF |-> 8, USERNAME_EXISTS |-> 9, INVALID_ANSWER |-> 10,
     INVALID_REQUEST |-> 12]

-----------------------------------------------------------------------------
(* Fields *)

\* "text" is a string with a length of 4 bytes, "string" of 2, "optional" one
\* that the decoder does without; "success" an error code that the decoder
\* refuses unless it is SUCCESS; "friends" a list of ids and names.
Field(type, name) == [type |-> type, name |-> name]
String(name) == Field("string", name)
Int32(name) == Field("int32", name)

FieldNames(layout) == {layout[i].name : i \in DOMAIN layout}

write_int32(v) == write_uint32(v % Max32)
write_int64(v) == write_uint32((v \div Max32) % Max32) \o write_uint32(v % Max32)

\* The length is cast to 16 bits; the string is written whole.
write_string(s) == write_uint16(Len(s) % Max16) \o s

\* The cast of a uint32_t to int32_t.
read_int32(s, at) ==
    LET v == read_uint32(s, at) IN IF v >= Max32 \div 2 THEN v - Max32 ELSE v

read_int64(s, at) == read_uint32(s, at) * Max32 + read_uint32(s, at + 4)

\* The values of a field of each type, as wide as their types in the code.
Int32Values == -(Max32 \div 2) .. (Max32 \div 2) - 1
Strings(max) == {s \in Seq(Byte) : Len(s) < max}
FieldValues(type) ==
    CASE type \in {"code", "success"} -> 0 .. Max16 - 1
      [] type = "int32" -> Int32Values
      [] type = "int64" -> 0 .. Max32 * Max32 - 1
      [] type \in {"string", "optional"} -> Seq(Byte)
      [] type = "text" -> Strings(Max32)
      [] type = "friends" -> Seq([id : Int32Values, name : Seq(Byte)])

\* The fields that a layout names, each with a value of its type.
HasFields(layout, fields) ==
    /\ fields = [x \in FieldNames(layout) |-> fields[x]]
    /\ \A i \in DOMAIN layout : fields[layout[i].name] \in FieldValues(layout[i].type)

Write(type, v) ==
    CASE type \in {"code", "success"} -> write_uint16(v)
      [] type = "int32" -> write_int32(v)
      [] type = "int64" -> write_int64(v)
      [] type \in {"string", "optional"} -> write_string(v)
      [] type = "text" -> write_uint32(Len(v)) \o v
      [] type = "friends" ->
            write_uint32(Len(v))
                \o FlattenSeq([i \in DOMAIN v |-> write_int32(v[i].id) \o write_string(v[i].name)])

Encode(layout, fields) ==
    FlattenSeq([i \in DOMAIN layout |-> Write(layout[i].type, fields[layout[i].name])])

\* What reading a field yields: the value and the index behind it.
Read(value, next) == [ok |-> TRUE, value |-> value, next |-> next]
NotRead == [ok |-> FALSE]

\* A string behind a length that width bytes hold: whether it is all there.
ReadString(data, at, width) ==
    LET length == IF width = 2 THEN read_uint16(data, at) ELSE read_uint32(data, at)
        next == at + width + length
    IN  IF at + width - 1 <= Len(data) /\ next - 1 <= Len(data)
        THEN Read(SubSeq(data, at + width, next - 1), next)
        ELSE NotRead

\* The values read one after the other from index first on, count of them or
\* those before one that is not there.  item[i][at] is what reading the i-th
\* at index at yields.
ReadAll(count, item, first) ==
    LET Rest[i \in 1 .. count + 1] ==
            [at \in Nat \ {0} |->
                IF i > count \/ ~item[i][at].ok THEN <<>>
                ELSE <<item[i][at].value>> \o Rest[i + 1][item[i][at].next]]
    IN  Rest[1][first]

\* One entry of a friend list.
ReadFriend(data, at) ==
    LET name == ReadString(data, at + 4, 2)
    IN  IF at + 5 <= Len(data) /\ name.ok
        THEN Read([id |-> read_int32(data, at), name |-> name.value], name.next)
        ELSE NotRead

\* The loop of decode_friend_list_response: it ends without an error at an
\* entry that is not all there.
ReadFriends(data, first) ==
    LET count == read_uint32(data, first)
        item == [i \in 1 .. count |-> [at \in Nat \ {0} |-> ReadFriend(data, at)]]
    IN  Read(ReadAll(count, item, first + 4), Len(data) + 1)

\* An optional string that is not all there is left empty, and the reader is
\* behind its length then.
ReadOptional(data, at) ==
    IF at + 1 > Len(data) THEN Read(<<>>, at)
    ELSE IF ReadString(data, at, 2).ok THEN ReadString(data, at, 2)
    ELSE Read(<<>>, at + 2)

ReadField(type, data, at) ==
    CASE type = "code" /\ at + 1 <= Len(data) -> Read(read_uint16(data, at), at + 2)
      [] type = "success" /\ at + 1 <= Len(data) ->
            IF read_uint16(data, at) = ErrorCode.SUCCESS THEN Read(0, at + 2) ELSE NotRead
      [] type = "int32" /\ at + 3 <= Len(data) -> Read(read_int32(data, at), at + 4)
      [] type = "int64" /\ at + 7 <= Len(data) -> Read(read_int64(data, at), at + 8)
      [] type = "string" /\ at + 1 <= Len(data) -> ReadString(data, at, 2)
      [] type = "text" /\ at + 3 <= Len(data) -> ReadString(data, at, 4)
      [] type = "optional" -> ReadOptional(data, at)
      [] type = "friends" /\ at + 3 <= Len(data) -> ReadFriends(data, at)
      [] OTHER -> NotRead

\* What a body is decoded to, nothing if a field is not there.  The fields are
\* read one after the other; bytes behind the last are ignored.
Decode(layout, data) ==
    LET item == [i \in DOMAIN layout |->
                    [at \in Nat \ {0} |-> ReadField(layout[i].type, data, at)]]
        Index(name) == CHOOSE i \in DOMAIN layout : layout[i].name = name
    IN  {[x \in FieldNames(layout) |-> values[Index(x)]] :
            values \in {v \in {ReadAll(Len(layout), item, 1)} : Len(v) = Len(layout)}}

-----------------------------------------------------------------------------
(* Requests: written by the client, read by the server *)

encode_login_request == <<String("username"), String("password")>>
encode_message_request == <<Int32("to_id"), Field("text", "content")>>
encode_friend_list_request == <<>>
encode_add_friend_request == <<Int32("friend_id")>>
encode_register_request ==
    <<String("username"), String("password"),
      String("security_question"), String("security_answer")>>
encode_security_question_request == <<String("username")>>
encode_reset_password_request ==
    <<String("username"), String("new_password"), String("security_answer")>>
encode_version_check_request == <<Int32("client_version")>>

decode_login_request == <<String("username"), String("password")>>
decode_message_request == <<Int32("to_id"), Field("text", "content")>>
decode_register_request ==
    <<String("username"), String("password"),
      String("security_question"), String("security_answer")>>
decode_security_question_request == <<String("username")>>

\* Mutation: the answer is read before the password.
decode_reset_swapped ==
    <<String("username"), String("security_answer"), String("new_password")>>

decode_reset_password_request ==
    <<String("username"), String("new_password"), String("security_answer")>>
decode_version_check_request == <<Int32("client_version")>>

\* The requests of ChatClient.
ClientRequest ==
    [LOGIN_REQ |-> encode_login_request,
     MESSAGE_REQ |-> encode_message_request,
     FRIEND_LIST_REQ |-> encode_friend_list_request,
     ADD_FRIEND_REQ |-> encode_add_friend_request,
     REGISTER_REQ |-> encode_register_request,
     SECURITY_QUESTION_REQ |-> encode_security_question_request,
     RESET_PASSWORD_REQ |-> encode_reset_password_request,
     VERSION_CHECK_REQ |-> encode_version_check_request]

\* The decoders that handle_message calls.  It looks at no body for
\* FRIEND_LIST_REQ and reads that of ADD_FRIEND_REQ itself.
ServerRequest ==
    [LOGIN_REQ |-> decode_login_request,
     MESSAGE_REQ |-> decode_message_request,
     FRIEND_LIST_REQ |-> <<>>,
     ADD_FRIEND_REQ |-> <<Int32("friend_id")>>,
     REGISTER_REQ |-> decode_register_request,
     SECURITY_QUESTION_REQ |-> decode_security_question_request,
     RESET_PASSWORD_REQ |-> decode_reset_password_request,
     VERSION_CHECK_REQ |-> decode_version_check_request]

-----------------------------------------------------------------------------
(* Answers: written by the server, read by the client *)

encode_login_response ==
    <<Field("code", "error_code"), Int32("user_id"), String("username")>>
encode_message_response == <<Field("code", "error_code"), Int32("msg_id")>>
encode_message_notify ==
    <<Int32("from_id"), Field("text", "content"), Field("int64", "timestamp")>>
encode_friend_list_response == <<Field("code", "error_code"), Field("friends", "friends")>>
encode_add_friend_response == <<Field("code", "error_code")>>
encode_register_response == <<Field("code", "error_code"), Int32("user_id")>>
encode_security_question_response == <<Field("code", "error_code"), String("question")>>
encode_reset_password_response == <<Field("code", "error_code")>>
encode_version_check_response ==
    <<Field("code", "error_code"), Int32("server_version"),
      String("update_url"), String("update_desc")>>

\* Mutation: the length of the name is read as 4 bytes.
decode_login_wide ==
    <<Field("code", "error_code"), Int32("user_id"), Field("text", "username")>>

decode_login_response ==
    <<Field("code", "error_code"), Int32("user_id"), Field("optional", "username")>>
decode_message_notify ==
    <<Int32("from_id"), Field("text", "content"), Field("int64", "timestamp")>>
decode_friend_list_response == <<Field("success", "error_code"), Field("friends", "friends")>>
decode_register_response == <<Field("code", "error_code"), Int32("user_id")>>
decode_security_question_response ==
    <<Field("code", "error_code"), Field("optional", "question")>>
decode_reset_password_response == <<Field("code", "error_code")>>
decode_version_check_response ==
    <<Field("code", "error_code"), Int32("server_version"),
      Field("optional", "update_url"), Field("optional", "update_desc")>>

\* What the handlers of the server answer with.
ServerAnswer ==
    [LOGIN_RESP |-> encode_login_response,
     MESSAGE_RESP |-> encode_message_response,
     MESSAGE_NOTIFY |-> encode_message_notify,
     FRIEND_LIST_RESP |-> encode_friend_list_response,
     ADD_FRIEND_RESP |-> encode_add_friend_response,
     REGISTER_RESP |-> encode_register_response,
     SECURITY_QUESTION_RESP |-> encode_security_question_response,
     RESET_PASSWORD_RESP |-> encode_reset_password_response,
     VERSION_CHECK_RESP |-> encode_version_check_response]

\* The cases of handle_packet.  MESSAGE_RESP and ADD_FRIEND_RESP have none.
ClientAnswer ==
    [LOGIN_RESP |-> decode_login_response,
     MESSAGE_NOTIFY |-> decode_message_notify,
     FRIEND_LIST_RESP |-> decode_friend_list_response,
     REGISTER_RESP |-> decode_register_response,
     SECURITY_QUESTION_RESP |-> decode_security_question_response,
     RESET_PASSWORD_RESP |-> decode_reset_password_response,
     VERSION_CHECK_RESP |-> decode_version_check_response]
=============================================================================
