-------------------------------- MODULE MCWire --------------------------------
EXTENDS Wire

\* A byte has 6 values, so 2 bytes hold lengths below 36.
Long == [i \in 1 .. Max16 + 1 |-> 1 + (i % 2)]
Short(i) == [j \in 1 .. i |-> i]

\* Different strings, one of which may be too long.
StringRequests(command) ==
    LET layout == ClientRequest[command]
        index(name) == CHOOSE i \in DOMAIN layout : layout[i].name = name
    IN  {Message(command, [n \in {layout[i].name : i \in DOMAIN layout} |->
                              IF index(n) = long THEN Long ELSE Short(index(n))])
            : long \in 0 .. Len(layout)}

MCRequests ==
    UNION {StringRequests(c) : c \in {"LOGIN_REQ", "REGISTER_REQ", "SECURITY_QUESTION_REQ",
                                      "RESET_PASSWORD_REQ"}}
    \union {Message("MESSAGE_REQ", [to_id |-> u, content |-> s]) : u \in {7, -1}, s \in {Short(2), Long}}
    \union {Message("FRIEND_LIST_REQ", <<>>), Message("ADD_FRIEND_REQ", [friend_id |-> 300]),
            Message("VERSION_CHECK_REQ", [client_version |-> 1])}

MCUserIds == {7, 300}
MCNames == {<<2>>, <<3, 4, 5>>}
MCNotifications ==
    {Message("MESSAGE_NOTIFY", [from_id |-> 7, content |-> <<3, 0, 5>>,
                                timestamp |-> 5 * Max32 + 17])}
=============================================================================
