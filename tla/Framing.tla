------------------------------- MODULE Framing -------------------------------
(***************************************************************************)
(* The frame that both sides put around a message: one byte of version,    *)
(* two of command, four of length, then the body (ProtocolCodec::encode    *)
(* and decode).  Bytes are numbers below Base, 256 in the code; the        *)
(* integers of 2 and 4 bytes are as wide as that makes them.               *)
(***************************************************************************)
EXTENDS Integers, Sequences

CONSTANT Base   \* how many values a byte has

ASSUME BaseAssumption == Base \in Nat /\ Base > 1

Byte == 0 .. Base - 1
Max16 == Base * Base
Max32 == Max16 * Max16

VERSION == 1
HEADER_SIZE == 7

\* A packet as the program sees it: a command code and the bytes of a body.
Packet == [command : 0 .. Max16 - 1, data : Seq(Byte)]

\* value >> 8
Shift(v) == v \div Base

write_uint16(v) == <<Shift(v) % Base, v % Base>>
write_uint32(v) ==
    <<Shift(Shift(Shift(v))) % Base, Shift(Shift(v)) % Base, Shift(v) % Base, v % Base>>

\* The index of the first byte is 1.
read_uint16(s, at) == s[at] * Base + s[at + 1]
read_uint32(s, at) ==
    ((s[at] * Base + s[at + 1]) * Base + s[at + 2]) * Base + s[at + 3]

\* ProtocolCodec::encode of either side
encode(p) ==
    <<VERSION>> \o write_uint16(p.command) \o write_uint32(Len(p.data)) \o p.data

\* The length that the header at the front of a buffer announces, with it.
FrameLength(buffer) == HEADER_SIZE + read_uint32(buffer, 4)

\* ProtocolCodec::decode of the client, given a frame of the announced length.
decode(frame) ==
    [command |-> read_uint16(frame, 2), data |-> SubSeq(frame, HEADER_SIZE + 1, Len(frame))]
=============================================================================
