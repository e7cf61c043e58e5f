---------------------------- MODULE Stream_proofs ----------------------------
(***************************************************************************)
(* Proofs about Stream, for any number of byte values, any packets and any *)
(* size of read_loop's buffer.                                             *)
(***************************************************************************)
EXTENDS Stream, Codec_proofs

-----------------------------------------------------------------------------
(* Type correctness *)

\* Connecting keeps the types.
LEMMA ConnectType == StreamTypeOK /\ Connect => StreamTypeOK'
BY DEF StreamTypeOK, Connect

\* Sending keeps the types.
LEMMA ServerSendType ==
    ASSUME StreamTypeOK, NEW p \in Packets, ServerSend(p)
    PROVE  StreamTypeOK'
<1>1. p \in Packet /\ Len(p.data) < Max32
  BY StreamAssumption
<1>2. encode(p) \in Seq(Byte) /\ Len(encode(p)) \in Nat
  BY <1>1, Frame, LenProperties
<1>3. /\ stream' \in Seq(Byte) /\ Len(stream) <= Len(stream')
      /\ Len(stream) \in Nat /\ Len(stream') \in Nat
  BY <1>2, Concat, LenProperties DEF StreamTypeOK, ServerSend
<1>4. sent' \in Seq(Packets) /\ ends' \in Seq(Nat)
  BY <1>3 DEF StreamTypeOK, ServerSend
<1> QED
  BY <1>3, <1>4 DEF StreamTypeOK, ServerSend

\* Receiving keeps the types.
LEMMA RecvType ==
    ASSUME StreamTypeOK, NEW n \in 1 .. RecvSize, Recv(n)
    PROVE  StreamTypeOK'
<1>1. /\ received \in Nat /\ n \in Nat \ {0} /\ received + n <= Len(stream)
      /\ stream \in Seq(Byte) /\ readBuffer \in Seq(Byte)
  BY StreamAssumption, LenProperties DEF StreamTypeOK, Recv
<1>2. SubSeq(stream, received + 1, received + n) \in Seq(Byte)
  BY <1>1, Piece
<1>3. readBuffer' \in Seq(Byte)
  BY <1>1, <1>2, Concat DEF Recv
<1> QED
  BY <1>1, <1>3, LenProperties DEF StreamTypeOK, Recv

\* Taking a packet keeps the types, also when the framing is shifted.
LEMMA TakePacketType == StreamTypeOK /\ TakePacket => StreamTypeOK'
<1> SUFFICES ASSUME StreamTypeOK, TakePacket PROVE StreamTypeOK'
  OBVIOUS
<1> DEFINE length == FrameLength(readBuffer)
<1>1. /\ readBuffer \in Seq(Byte) /\ HEADER_SIZE <= Len(readBuffer)
      /\ length <= Len(readBuffer) /\ Len(readBuffer) \in Nat
  BY LenProperties DEF StreamTypeOK, TakePacket, WholePacket
<1>2. length \in Nat /\ length >= HEADER_SIZE /\ HEADER_SIZE = 7
  BY <1>1, FrameLengthType DEF HEADER_SIZE
<1> HIDE DEF length
<1>3. SubSeq(readBuffer, 1, length) \in Seq(Byte) /\ Len(SubSeq(readBuffer, 1, length)) = length
  BY <1>1, <1>2, Piece
<1>4. decode(SubSeq(readBuffer, 1, length)) \in Packet
  BY <1>2, <1>3, DecodeType
<1>5. SubSeq(readBuffer, length + 1, Len(readBuffer)) \in Seq(Byte)
  BY <1>1, <1>2, Piece
<1>6. handled' \in Seq(Packet) /\ readBuffer' \in Seq(Byte)
  BY <1>4, <1>5 DEF StreamTypeOK, TakePacket, length
<1> QED
  BY <1>6 DEF StreamTypeOK, TakePacket

\* Every step keeps the types.
LEMMA TypeStep == StreamTypeOK /\ [StreamNext]_streamVars => StreamTypeOK'
<1> SUFFICES ASSUME StreamTypeOK, [StreamNext]_streamVars PROVE StreamTypeOK'
  OBVIOUS
<1>1. CASE Lose
  BY <1>1 DEF StreamTypeOK, Lose
<1>2. CASE UNCHANGED streamVars
  BY <1>2 DEF StreamTypeOK, streamVars
<1> QED
  BY <1>1, <1>2, ConnectType, TakePacketType, ServerSendType, RecvType DEF StreamNext

\* The stream starts empty.
LEMMA TypeInit == StreamInit => StreamTypeOK
<1>1. /\ <<>> \in Seq(Packets) /\ <<>> \in Seq(Byte) /\ <<>> \in Seq(Nat)
      /\ <<>> \in Seq(Packet) /\ Len(<<>>) = 0
  BY EmptySeq
<1>2. ASSUME StreamInit PROVE StreamTypeOK
  <2>1. /\ up \in BOOLEAN /\ sent \in Seq(Packets) /\ stream \in Seq(Byte)
        /\ ends \in Seq(Nat) /\ readBuffer \in Seq(Byte)
        /\ handled \in Seq(Packet) /\ carried \in Seq(Byte)
    BY <1>1, <1>2 DEF StreamInit
  <2>2. received \in 0 .. Len(stream)
    BY <1>1, <1>2 DEF StreamInit
  <2> QED
    BY <2>1, <2>2 DEF StreamTypeOK
<1> QED
  BY <1>2

\* The variables of Stream keep their types, whatever bytes are in the buffer.
THEOREM StreamTyped == StreamSpec => []StreamTypeOK
<1> QED
  BY TypeInit, TypeStep, PTL DEF StreamSpec

-----------------------------------------------------------------------------
(* Delivery *)

\* Where the i-th packet ends in the stream, given the ends of all.
End(e, i) == IF i = 0 THEN 0 ELSE e[i]

\* The stream is the frames of the packets that were sent, one behind the other.
Framed ==
    /\ Len(ends) = Len(sent)
    /\ End(ends, Len(sent)) = Len(stream)
    /\ \A i \in 1 .. Len(sent) :
           /\ End(ends, i) = End(ends, i - 1) + Len(encode(sent[i]))
           /\ End(ends, i) <= Len(stream)
           /\ \A j \in 1 .. Len(encode(sent[i])) : stream[End(ends, i - 1) + j] = encode(sent[i])[j]

\* read_loop stands between two frames: what it handed over is what was sent,
\* and its buffer is what it received behind that.
Cut ==
    carried = <<>> =>
        /\ Len(handled) <= Len(sent)
        /\ \A i \in 1 .. Len(handled) : handled[i] = sent[i]
        /\ received = End(ends, Len(handled)) + Len(readBuffer)
        /\ \A j \in 1 .. Len(readBuffer) : readBuffer[j] = stream[End(ends, Len(handled)) + j]

StreamInv == StreamTypeOK /\ Framed /\ Cut

\* The lengths are numbers, and so are the ends of the packets.
LEMMA Lengths ==
    ASSUME StreamTypeOK, Len(ends) = Len(sent)
    PROVE  /\ Len(sent) \in Nat /\ Len(stream) \in Nat /\ Len(handled) \in Nat
           /\ Len(readBuffer) \in Nat /\ received \in Nat /\ received <= Len(stream)
           /\ \A i \in 0 .. Len(sent) : End(ends, i) \in Nat
<1>1. /\ Len(sent) \in Nat /\ Len(stream) \in Nat /\ Len(handled) \in Nat
      /\ Len(readBuffer) \in Nat
  BY LenProperties DEF StreamTypeOK
<1>2. received \in Nat /\ received <= Len(stream)
  BY <1>1 DEF StreamTypeOK
<1>3. \A i \in 1 .. Len(ends) : ends[i] \in Nat
  BY ElementOfSeq DEF StreamTypeOK
<1> QED
  BY <1>1, <1>2, <1>3 DEF End

\* The frames of the packets that were sent are well formed.
LEMMA FramesOf ==
    ASSUME StreamTypeOK, NEW i \in 1 .. Len(sent)
    PROVE  /\ sent[i] \in Packet /\ Len(sent[i].data) < Max32
           /\ encode(sent[i]) \in Seq(Byte) /\ Len(encode(sent[i])) \in Nat
           /\ Len(encode(sent[i])) >= HEADER_SIZE
<1>1. sent[i] \in Packets
  BY ElementOfSeq DEF StreamTypeOK
<1>2. sent[i] \in Packet /\ Len(sent[i].data) < Max32
  BY <1>1, StreamAssumption
<1>3. Len(sent[i].data) \in Nat
  BY <1>2, LenProperties DEF Packet
<1> QED
  BY <1>2, <1>3, Frame DEF HEADER_SIZE

\* There is nothing to put together or to cut before the first connection.
LEMMA InvInit == StreamInit => StreamInv
<1> SUFFICES ASSUME StreamInit PROVE StreamInv
  OBVIOUS
<1>1. Len(sent) = 0 /\ Len(ends) = 0 /\ Len(stream) = 0 /\ Len(handled) = 0 /\ Len(readBuffer) = 0
  BY EmptySeq DEF StreamInit
<1>2. Framed
  BY <1>1 DEF Framed, End
<1>3. Cut
  BY <1>1 DEF Cut, End, StreamInit
<1> QED
  BY <1>2, <1>3, TypeInit DEF StreamInv

\* A new connection starts with an empty stream, and with an empty buffer
\* unless it is carried over.
LEMMA ConnectInv == StreamInv /\ Connect => Framed' /\ Cut'
<1> SUFFICES ASSUME StreamInv, Connect PROVE Framed' /\ Cut'
  OBVIOUS
<1>1. Len(sent') = 0 /\ Len(ends') = 0 /\ Len(stream') = 0 /\ Len(handled') = 0
  BY EmptySeq DEF Connect
<1>2. Framed'
  BY <1>1 DEF Framed, End
<1>3. ASSUME carried' = <<>> PROVE Len(readBuffer') = 0 /\ received' = 0
  BY <1>3, EmptySeq DEF Connect
<1>4. Cut'
  BY <1>1, <1>3 DEF Cut, End
<1> QED
  BY <1>2, <1>4

\* Sending puts the frame of one more packet behind the stream.
LEMMA ServerSendInv ==
    ASSUME StreamInv, NEW p \in Packets, ServerSend(p)
    PROVE  Framed' /\ Cut'
<1> DEFINE n == Len(sent)
           f == encode(p)
<1>1. StreamTypeOK /\ Framed /\ Cut
  BY DEF StreamInv
<1>2. /\ n \in Nat /\ Len(stream) \in Nat /\ Len(ends) = n
      /\ Len(handled) \in Nat /\ Len(readBuffer) \in Nat
      /\ received \in Nat /\ received <= Len(stream)
      /\ \A i \in 0 .. n : End(ends, i) \in Nat
  BY <1>1, Lengths DEF Framed
<1>3. f \in Seq(Byte) /\ Len(f) \in Nat
  BY StreamAssumption, Frame, LenProperties
<1>4. /\ stream' = stream \o f
      /\ Len(stream') = Len(stream) + Len(f)
      /\ \A j \in 1 .. Len(stream) : stream'[j] = stream[j]
      /\ \A j \in 1 .. Len(f) : stream'[Len(stream) + j] = f[j]
  BY <1>1, <1>3, Concat DEF StreamTypeOK, ServerSend
<1>5. /\ Len(sent') = n + 1 /\ sent'[n + 1] = p
      /\ \A i \in 1 .. n : sent'[i] = sent[i]
  BY <1>1, <1>2 DEF StreamTypeOK, ServerSend
<1>6. /\ Len(ends') = n + 1 /\ ends'[n + 1] = Len(stream')
      /\ \A i \in 1 .. n : ends'[i] = ends[i]
  BY <1>1, <1>2 DEF StreamTypeOK, ServerSend
<1>7. /\ \A i \in 0 .. n : End(ends', i) = End(ends, i)
      /\ End(ends', n + 1) = Len(stream')
  BY <1>2, <1>6 DEF End
<1> HIDE DEF n, f
<1>8. Framed'
  <2>1. ASSUME NEW i \in 1 .. n
        PROVE  /\ End(ends', i) = End(ends', i - 1) + Len(encode(sent'[i]))
               /\ End(ends', i) <= Len(stream')
               /\ \A j \in 1 .. Len(encode(sent'[i])) :
                      stream'[End(ends', i - 1) + j] = encode(sent'[i])[j]
    <3>1. /\ End(ends, i) = End(ends, i - 1) + Len(encode(sent[i]))
          /\ End(ends, i) <= Len(stream)
          /\ \A j \in 1 .. Len(encode(sent[i])) : stream[End(ends, i - 1) + j] = encode(sent[i])[j]
      BY <1>1 DEF Framed, n
    <3>2. End(ends', i) = End(ends, i) /\ End(ends', i - 1) = End(ends, i - 1) /\ sent'[i] = sent[i]
      BY <1>2, <1>5, <1>7
    <3>3. Len(encode(sent[i])) \in Nat /\ End(ends, i - 1) \in Nat /\ End(ends, i) \in Nat
      BY <1>1, <1>2, FramesOf DEF n
    <3>4. \A j \in 1 .. Len(encode(sent[i])) : End(ends, i - 1) + j \in 1 .. Len(stream)
      BY <1>2, <3>1, <3>3
    <3> QED
      BY <1>2, <1>3, <1>4, <3>1, <3>2, <3>3, <3>4
  <2>2. /\ End(ends', n + 1) = End(ends', n) + Len(encode(sent'[n + 1]))
        /\ \A j \in 1 .. Len(encode(sent'[n + 1])) :
               stream'[End(ends', n) + j] = encode(sent'[n + 1])[j]
    <3>1. End(ends', n) = Len(stream)
      BY <1>1, <1>2, <1>7 DEF Framed, n
    <3> QED
      BY <1>4, <1>5, <1>7, <3>1 DEF f
  <2>3. \A i \in 1 .. n + 1 :
           /\ End(ends', i) = End(ends', i - 1) + Len(encode(sent'[i]))
           /\ End(ends', i) <= Len(stream')
           /\ \A j \in 1 .. Len(encode(sent'[i])) :
                  stream'[End(ends', i - 1) + j] = encode(sent'[i])[j]
    <3> TAKE i \in 1 .. n + 1
    <3>1. CASE i \in 1 .. n
      BY <2>1, <3>1
    <3>2. CASE i = n + 1
      <4>1. i - 1 = n
        BY <1>2, <3>2
      <4>2. Len(stream') \in Nat
        BY <1>2, <1>3, <1>4
      <4> QED
        BY <1>7, <2>2, <3>2, <4>1, <4>2
    <3> QED
      BY <1>2, <3>1, <3>2
  <2> QED
    BY <1>5, <1>6, <1>7, <2>3 DEF Framed
<1>9. Cut'
  <2> SUFFICES ASSUME carried = <<>> PROVE Cut'
    BY DEF Cut, ServerSend
  <2> DEFINE k == Len(handled)
  <2>1. /\ k <= n
        /\ \A i \in 1 .. k : handled[i] = sent[i]
        /\ received = End(ends, k) + Len(readBuffer)
        /\ \A j \in 1 .. Len(readBuffer) : readBuffer[j] = stream[End(ends, k) + j]
    BY <1>1 DEF Cut, n
  <2>2. k \in 0 .. n /\ End(ends', k) = End(ends, k) /\ End(ends, k) \in Nat
    BY <1>2, <1>7, <2>1
  <2>3. \A j \in 1 .. Len(readBuffer) : End(ends, k) + j \in 1 .. Len(stream)
    BY <1>2, <2>1, <2>2
  <2>4. handled' = handled /\ readBuffer' = readBuffer /\ received' = received
    BY DEF ServerSend
  <2>5. End(ends', Len(handled')) = End(ends, k)
    BY <2>2, <2>4
  <2>6. \A i \in 1 .. k : handled[i] = sent'[i]
    BY <1>2, <1>5, <2>1, <2>2
  <2>7. \A j \in 1 .. Len(readBuffer) : readBuffer[j] = stream'[End(ends, k) + j]
    BY <1>4, <2>1, <2>3
  <2> QED
    BY <1>2, <1>5, <2>1, <2>4, <2>5, <2>6, <2>7 DEF Cut
<1> QED
  BY <1>8, <1>9

\* Only sending and connecting change the stream.
LEMMA FramedStays == Framed /\ UNCHANGED <<sent, stream, ends>> => Framed'
BY DEF Framed

\* Receiving appends to the buffer what follows in the stream.
LEMMA RecvInv ==
    ASSUME StreamInv, NEW n \in 1 .. RecvSize, Recv(n)
    PROVE  Cut'
<1> SUFFICES ASSUME carried = <<>> PROVE Cut'
  BY DEF Cut, Recv
<1> DEFINE k == Len(handled)
           got == SubSeq(stream, received + 1, received + n)
<1>1. StreamTypeOK /\ Framed /\ Cut
  BY DEF StreamInv
<1>2. /\ k <= Len(sent) /\ \A i \in 1 .. k : handled[i] = sent[i]
      /\ received = End(ends, k) + Len(readBuffer)
      /\ \A j \in 1 .. Len(readBuffer) : readBuffer[j] = stream[End(ends, k) + j]
  BY <1>1 DEF Cut
<1>3. /\ k \in Nat /\ Len(sent) \in Nat /\ Len(readBuffer) \in Nat /\ received \in Nat
      /\ Len(stream) \in Nat /\ End(ends, k) \in Nat
  BY <1>1, <1>2, Lengths DEF Framed
<1>4. n \in Nat \ {0} /\ received + n <= Len(stream) /\ stream \in Seq(Byte) /\ readBuffer \in Seq(Byte)
  BY <1>1, StreamAssumption DEF StreamTypeOK, Recv
<1>5. got \in Seq(Byte) /\ Len(got) = n /\ \A j \in 1 .. n : got[j] = stream[received + j]
  BY <1>3, <1>4, Piece
<1>6. /\ readBuffer' = readBuffer \o got /\ received' = received + n
      /\ sent' = sent /\ stream' = stream /\ ends' = ends /\ handled' = handled
  BY DEF Recv
<1> HIDE DEF got
<1>7. /\ Len(readBuffer') = Len(readBuffer) + n
      /\ \A j \in 1 .. Len(readBuffer) : readBuffer'[j] = readBuffer[j]
      /\ \A j \in 1 .. n : readBuffer'[Len(readBuffer) + j] = got[j]
  BY <1>4, <1>5, <1>6, Concat
<1>8. received' = End(ends, k) + Len(readBuffer')
  BY <1>2, <1>3, <1>4, <1>6, <1>7
<1>9. ASSUME NEW j \in 1 .. Len(readBuffer') PROVE readBuffer'[j] = stream[End(ends, k) + j]
  <2>1. CASE j <= Len(readBuffer)
    BY <1>2, <1>3, <1>4, <1>7, <2>1
  <2>2. CASE j > Len(readBuffer)
    <3>1. PICK i \in 1 .. n : j = Len(readBuffer) + i
      <4>1. j - Len(readBuffer) \in 1 .. n /\ j = Len(readBuffer) + (j - Len(readBuffer))
        BY <1>3, <1>4, <1>7, <2>2
      <4> QED
        BY <4>1
    <3>2. readBuffer'[j] = stream[received + i]
      BY <1>5, <1>7, <3>1
    <3>3. received + i = End(ends, k) + j
      BY <1>2, <1>3, <1>4, <3>1
    <3> QED
      BY <3>2, <3>3
  <2> QED
    BY <1>3, <1>4, <1>7, <2>1, <2>2
<1> QED
  BY <1>2, <1>6, <1>8, <1>9 DEF Cut

\* The packet that read_loop cuts out of the buffer is the next one that was
\* sent, and the buffer begins with the frame behind it.
LEMMA TakePacketInv == StreamInv /\ TakePacket => Cut'
<1> SUFFICES ASSUME StreamInv, TakePacket, carried = <<>> PROVE Cut'
  BY DEF Cut, TakePacket
<1> DEFINE k == Len(handled)
           b == Len(readBuffer)
           e == End(ends, k)
           p == sent[k + 1]
           length == FrameLength(readBuffer)
<1>1. StreamTypeOK /\ Framed /\ Cut
  BY DEF StreamInv
<1>2. /\ k <= Len(sent) /\ \A i \in 1 .. k : handled[i] = sent[i]
      /\ received = e + b
      /\ \A j \in 1 .. b : readBuffer[j] = stream[e + j]
  BY <1>1 DEF Cut
<1>3. /\ k \in Nat /\ Len(sent) \in Nat /\ b \in Nat /\ received \in Nat
      /\ Len(stream) \in Nat /\ e \in Nat /\ received <= Len(stream)
  BY <1>1, <1>2, Lengths DEF Framed
<1>4. readBuffer \in Seq(Byte) /\ HEADER_SIZE <= b /\ length <= b /\ HEADER_SIZE = 7
  BY <1>1 DEF StreamTypeOK, TakePacket, WholePacket, HEADER_SIZE
\* Something was received behind the packets handed over, so one was sent.
<1>5. k < Len(sent)
  <2>1. e # Len(stream)
    BY <1>2, <1>3, <1>4
  <2> QED
    BY <1>1, <1>2, <1>3, <2>1 DEF Framed
<1>6. k + 1 \in 1 .. Len(sent)
  BY <1>3, <1>5
<1>7. /\ p \in Packet /\ Len(p.data) < Max32 /\ Len(encode(p)) \in Nat
      /\ Len(encode(p)) >= HEADER_SIZE
  BY <1>1, <1>6, FramesOf
<1>8. /\ End(ends, k + 1) = e + Len(encode(p))
      /\ \A j \in 1 .. Len(encode(p)) : stream[e + j] = encode(p)[j]
  <2>1. (k + 1) - 1 = k
    BY <1>3
  <2> QED
    BY <1>1, <1>6, <2>1 DEF Framed
<1>9. \A j \in 1 .. b : j <= Len(encode(p)) => readBuffer[j] = encode(p)[j]
  BY <1>2, <1>3, <1>7, <1>8
<1>10. length = Len(encode(p)) /\ decode(SubSeq(readBuffer, 1, length)) = p
  BY <1>4, <1>7, <1>9, RoundTrip
<1>11. /\ handled' = Append(handled, p)
       /\ readBuffer' = SubSeq(readBuffer, length + 1, b)
       /\ UNCHANGED <<sent, stream, ends, received>>
  BY <1>10 DEF TakePacket
<1> HIDE DEF length, p, e
<1>12. /\ Len(handled') = k + 1 /\ handled'[k + 1] = p
       /\ \A i \in 1 .. k : handled'[i] = handled[i]
  BY <1>1, <1>3, <1>11 DEF StreamTypeOK
<1>13. \A i \in 1 .. k + 1 : handled'[i] = sent[i]
  <2> TAKE i \in 1 .. k + 1
  <2>1. CASE i \in 1 .. k
    BY <1>2, <1>12, <2>1
  <2>2. CASE i = k + 1
    BY <1>12, <2>2 DEF p
  <2> QED
    BY <1>3, <2>1, <2>2
<1>14. length \in Nat /\ length + 1 \in Nat \ {0} /\ length <= b
  BY <1>4, <1>7, <1>10
<1>15. /\ Len(readBuffer') = b - length
       /\ \A j \in 1 .. b - length : readBuffer'[j] = readBuffer[length + j]
  <2>1. /\ Len(readBuffer') = IF length + 1 <= b THEN b - (length + 1) + 1 ELSE 0
        /\ \A j \in 1 .. b - (length + 1) + 1 : readBuffer'[j] = readBuffer[(length + 1) + j - 1]
    BY <1>3, <1>4, <1>11, <1>14, Piece
  <2> QED
    BY <1>3, <1>14, <2>1
<1>16. End(ends, k + 1) = e + length
  BY <1>8, <1>10
<1>17. received = End(ends, k + 1) + Len(readBuffer')
  BY <1>2, <1>3, <1>14, <1>15, <1>16
<1>18. ASSUME NEW j \in 1 .. Len(readBuffer')
       PROVE  readBuffer'[j] = stream[End(ends, k + 1) + j]
  <2>1. j \in 1 .. b - length /\ length + j \in 1 .. b
    BY <1>3, <1>14, <1>15
  <2>2. readBuffer'[j] = stream[e + (length + j)]
    BY <1>2, <1>15, <2>1
  <2>3. e + (length + j) = End(ends, k + 1) + j
    BY <1>3, <1>14, <1>16, <2>1
  <2> QED
    BY <2>2, <2>3
<1>19. /\ Len(handled') <= Len(sent')
       /\ \A i \in 1 .. Len(handled') : handled'[i] = sent'[i]
  BY <1>3, <1>5, <1>11, <1>12, <1>13
<1>20. /\ received' = End(ends', Len(handled')) + Len(readBuffer')
       /\ \A j \in 1 .. Len(readBuffer') : readBuffer'[j] = stream'[End(ends', Len(handled')) + j]
  BY <1>11, <1>12, <1>17, <1>18
<1> QED
  BY <1>19, <1>20 DEF Cut

\* Every step keeps the invariant.
LEMMA InvStep == StreamInv /\ [StreamNext]_streamVars => StreamInv'
<1> SUFFICES ASSUME StreamInv, [StreamNext]_streamVars PROVE StreamInv'
  OBVIOUS
<1>1. StreamTypeOK'
  BY TypeStep DEF StreamInv
<1>2. Framed' /\ Cut'
  <2>1. CASE Connect
    BY <2>1, ConnectInv
  <2>2. CASE \E p \in Packets : ServerSend(p)
    BY <2>2, ServerSendInv
  <2>3. CASE \E n \in 1 .. RecvSize : Recv(n)
    <3>1. UNCHANGED <<sent, stream, ends>>
      BY <2>3 DEF Recv
    <3> QED
      BY <2>3, <3>1, RecvInv, FramedStays DEF StreamInv
  <2>4. CASE TakePacket
    <3>1. UNCHANGED <<sent, stream, ends>>
      BY <2>4 DEF TakePacket
    <3> QED
      BY <2>4, <3>1, TakePacketInv, FramedStays DEF StreamInv
  <2>5. CASE Lose \/ UNCHANGED streamVars
    <3>1. UNCHANGED <<sent, stream, ends, received, readBuffer, handled, carried>>
      BY <2>5 DEF Lose, streamVars
    <3>2. Cut'
      BY <3>1 DEF StreamInv, Cut
    <3> QED
      BY <3>1, <3>2, FramedStays DEF StreamInv
  <2> QED
    BY <2>1, <2>2, <2>3, <2>4, <2>5 DEF StreamNext
<1> QED
  BY <1>1, <1>2 DEF StreamInv

\* The packets handed over are the first ones that were sent, and all of them
\* once the buffer holds no whole frame of a stream that has arrived.
LEMMA InvDelivers == StreamInv => DeliveredInOrder
<1> SUFFICES ASSUME StreamInv, carried = <<>>
             PROVE  /\ Len(handled) <= Len(sent)
                    /\ handled = SubSeq(sent, 1, Len(handled))
                    /\ received = Len(stream) /\ ~WholePacket(readBuffer)
                            => handled = sent
  BY DEF DeliveredInOrder
<1> DEFINE k == Len(handled)
           first == SubSeq(sent, 1, k)
<1>1. /\ k <= Len(sent) /\ \A i \in 1 .. k : handled[i] = sent[i]
      /\ k \in Nat /\ Len(sent) \in Nat
  BY Lengths DEF StreamInv, Cut, Framed
<1>2. \A i \in 1 .. k : sent[i] \in Packet
  BY <1>1, FramesOf DEF StreamInv
<1>3. /\ first \in Seq(Packet) /\ Len(first) = k
      /\ \A i \in 1 .. k : first[i] = sent[i]
  <2>1. /\ first \in Seq(Packet) /\ Len(first) = IF 1 <= k THEN k - 1 + 1 ELSE 0
        /\ \A i \in 1 .. k - 1 + 1 : first[i] = sent[1 + i - 1]
    BY <1>1, <1>2, SubSeqProperties
  <2> QED
    BY <1>1, <2>1
<1>4. handled \in Seq(Packet)
  BY DEF StreamInv, StreamTypeOK
<1> HIDE DEF first
<1>5. handled = first
  BY <1>1, <1>3, <1>4, SeqEqual
<1>6. ASSUME received = Len(stream), k # Len(sent) PROVE WholePacket(readBuffer)
  <2> DEFINE b == Len(readBuffer)
             e == End(ends, k)
             p == sent[k + 1]
  <2>1. StreamTypeOK /\ Framed /\ Cut
    BY DEF StreamInv
  <2>2. k + 1 \in 1 .. Len(sent) /\ (k + 1) - 1 = k /\ k \in 0 .. Len(sent)
    BY <1>1, <1>6
  <2>3. /\ b \in Nat /\ e \in Nat /\ Len(stream) \in Nat
        /\ received = e + b /\ \A j \in 1 .. b : readBuffer[j] = stream[e + j]
    BY <2>1, <2>2, Lengths DEF Framed, Cut
  <2>4. /\ p \in Packet /\ Len(p.data) < Max32
        /\ Len(encode(p)) \in Nat /\ Len(encode(p)) >= HEADER_SIZE
    BY <2>1, <2>2, FramesOf
  <2>5. /\ e + Len(encode(p)) <= Len(stream)
        /\ \A j \in 1 .. Len(encode(p)) : stream[e + j] = encode(p)[j]
    BY <2>1, <2>2 DEF Framed
  <2>6. Len(encode(p)) <= b
    BY <1>6, <2>3, <2>4, <2>5
  <2>7. \A j \in 1 .. b : j <= Len(encode(p)) => readBuffer[j] = encode(p)[j]
    BY <2>3, <2>4, <2>5
  <2>8. readBuffer \in Seq(Byte) /\ HEADER_SIZE <= b
    BY <2>1, <2>3, <2>4, <2>6 DEF StreamTypeOK, HEADER_SIZE
  <2>9. FrameLength(readBuffer) = Len(encode(p))
    BY <2>4, <2>7, <2>8, RoundTrip
  <2> QED
    BY <2>6, <2>8, <2>9 DEF WholePacket
<1>7. ASSUME k = Len(sent) PROVE handled = sent
  <2>1. sent \in Seq(Packets)
    BY DEF StreamInv, StreamTypeOK
  <2> QED
    BY <1>5, <1>7, <2>1, SubSeqFull DEF first
<1> QED
  BY <1>1, <1>5, <1>6, <1>7 DEF first

\* read_loop hands over what the server sent, in order, unchanged and in the end
\* completely, wherever recv cuts the stream, unless connect left something in
\* read_buffer_.
THEOREM StreamDelivers == StreamSpec => []DeliveredInOrder
<1> QED
  BY InvInit, InvStep, InvDelivers, PTL DEF StreamSpec

=============================================================================
