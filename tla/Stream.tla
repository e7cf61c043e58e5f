-------------------------------- MODULE Stream --------------------------------
(***************************************************************************)
(* Packets from the server to one client, as bytes of a TCP connection     *)
(* that recv returns in pieces of any size: Connection::send at one end,   *)
(* ChatClient::read_loop with its read_buffer_ at the other.  The          *)
(* connection can be lost at any byte, and connect makes the next one      *)
(* without clearing read_buffer_.                                          *)
(***************************************************************************)
EXTENDS Framing

CONSTANTS
    Packets,    \* the packets that the server may send
    RecvSize    \* the size of read_loop's buffer (4096 in the code)

ASSUME StreamAssumption ==
    /\ Packets \subseteq Packet
    /\ \A p \in Packets : Len(p.data) < Max32
    /\ RecvSize \in Nat

VARIABLES
    up,         \* the connection is established
    sent,       \* history: the packets sent on this connection
    stream,     \* the bytes they were encoded to
    ends,       \* history: where in stream each of them ends
    received,   \* how many of these bytes recv has returned
    readBuffer, \* read_buffer_
    handled,    \* the packets that handle_packet was called with
    carried     \* history: what read_buffer_ held when the connection was made

streamVars == <<up, sent, stream, ends, received, readBuffer, handled, carried>>

StreamTypeOK ==
    /\ up \in BOOLEAN
    /\ sent \in Seq(Packets)
    /\ stream \in Seq(Byte)
    /\ ends \in Seq(Nat)
    /\ received \in 0 .. Len(stream)
    /\ readBuffer \in Seq(Byte)
    /\ handled \in Seq(Packet)
    /\ carried \in Seq(Byte)

StreamInit ==
    /\ up = FALSE
    /\ sent = <<>> /\ stream = <<>> /\ ends = <<>> /\ received = 0
    /\ readBuffer = <<>> /\ handled = <<>> /\ carried = <<>>

\* ChatClient::connect, which leaves read_buffer_ as it is.
Connect ==
    /\ ~up
    /\ up' = TRUE
    /\ sent' = <<>> /\ stream' = <<>> /\ ends' = <<>> /\ received' = 0
    /\ handled' = <<>> /\ carried' = readBuffer
    /\ UNCHANGED readBuffer

\* Connection::send and the write queue behind it, which keeps the order.
ServerSend(p) ==
    /\ up
    /\ sent' = Append(sent, p)
    /\ stream' = stream \o encode(p)
    /\ ends' = Append(ends, Len(stream'))
    /\ UNCHANGED <<up, received, readBuffer, handled, carried>>

\* Mutation: one byte more is waited for.
WholePacketAndMore(buffer) ==
    Len(buffer) >= HEADER_SIZE /\ Len(buffer) > FrameLength(buffer)

\* The buffer begins with a whole packet.
WholePacket(buffer) ==
    Len(buffer) >= HEADER_SIZE /\ Len(buffer) >= FrameLength(buffer)

\* Mutation: what recv returns takes the place of what is in the buffer.
RecvReplacing(n) ==
    /\ up /\ ~WholePacket(readBuffer)
    /\ n \in 1 .. RecvSize /\ received + n <= Len(stream)
    /\ readBuffer' = SubSeq(stream, received + 1, received + n)
    /\ received' = received + n
    /\ UNCHANGED <<up, sent, stream, ends, handled, carried>>

\* recv returns n bytes.  read_loop calls it when the buffer is used up.
Recv(n) ==
    /\ up /\ ~WholePacket(readBuffer)
    /\ n \in 1 .. RecvSize /\ received + n <= Len(stream)
    /\ readBuffer' = readBuffer \o SubSeq(stream, received + 1, received + n)
    /\ received' = received + n
    /\ UNCHANGED <<up, sent, stream, ends, handled, carried>>

\* The inner loop takes a packet out of the buffer and calls handle_packet.
TakePacket ==
    /\ up /\ WholePacket(readBuffer)
    /\ LET length == FrameLength(readBuffer)
       IN  /\ handled' = Append(handled, decode(SubSeq(readBuffer, 1, length)))
           /\ readBuffer' = SubSeq(readBuffer, length + 1, Len(readBuffer))
    /\ UNCHANGED <<up, sent, stream, ends, received, carried>>

\* recv fails: what was not received is lost, what is in the buffer stays.
Lose ==
    /\ up /\ ~WholePacket(readBuffer)
    /\ up' = FALSE
    /\ UNCHANGED <<sent, stream, ends, received, readBuffer, handled, carried>>

StreamNext ==
    \/ Connect \/ Lose \/ TakePacket
    \/ \E p \in Packets : ServerSend(p)
    \/ \E n \in 1 .. RecvSize : Recv(n)

StreamSpec == StreamInit /\ [][StreamNext]_streamVars

-----------------------------------------------------------------------------
(* Properties *)

\* However TCP cuts the stream, read_loop hands over the packets that the
\* server sent, unchanged and in order, and when everything has arrived and it
\* goes back to recv, all of them - if connect found read_buffer_ empty.  A rest
\* of a packet of the previous connection would shift the framing for good.
DeliveredInOrder ==
    carried = <<>> =>
        /\ Len(handled) <= Len(sent)
        /\ handled = SubSeq(sent, 1, Len(handled))
        /\ received = Len(stream) /\ ~WholePacket(readBuffer) => handled = sent
=============================================================================
