---------------------------- MODULE Codec_proofs ----------------------------
(***************************************************************************)
(* What the codecs of client and server return, for any number of byte     *)
(* values and messages of any length: numbers, frames and the fields of    *)
(* bodies are read back as they were written, and where they are not, the  *)
(* difference is seen.  The recursive functions of Codec are unfolded with *)
(* an induction over sets of numbers (Induction).                          *)
(***************************************************************************)
EXTENDS Codec, SequenceTheorems, WellFoundedInduction, TLAPS

-----------------------------------------------------------------------------
(* Numbers *)

\* Splitting off the lowest byte loses nothing.
LEMMA LowByte ==
    ASSUME NEW v \in Nat
    PROVE  /\ Shift(v) \in Nat
           /\ v % Base \in Byte
           /\ v = Shift(v) * Base + (v % Base)
BY BaseAssumption DEF Shift, Byte

\* A number below a multiple of Base is shifted below the factor.
LEMMA ShiftBound ==
    ASSUME NEW v \in Nat, NEW n \in Nat, v < n * Base
    PROVE  Shift(v) < n
<1>1. Shift(v) \in Nat /\ v % Base \in Nat /\ v = Shift(v) * Base + (v % Base)
  BY LowByte, BaseAssumption DEF Byte
<1>2. Base \in Nat /\ Base > 0
  BY BaseAssumption
<1> SUFFICES ASSUME Shift(v) >= n PROVE FALSE
  BY <1>1
<1>3. Shift(v) * Base >= n * Base
  BY <1>1, <1>2
<1> QED
  BY <1>1, <1>2, <1>3

\* A number that fits a byte is its lowest byte.
LEMMA OneByte ==
    ASSUME NEW v \in Nat, v < Base
    PROVE  v % Base = v
<1>1. Shift(v) \in Nat /\ v % Base \in Byte /\ v = Shift(v) * Base + (v % Base)
  BY LowByte
<1>2. Shift(v) < 1
  BY ShiftBound, BaseAssumption
<1> QED
  BY <1>1, <1>2, BaseAssumption DEF Byte

\* Two bytes are enough for a number below Max16.
LEMMA ReadWrite16 ==
    ASSUME NEW v \in Nat, v < Max16
    PROVE  /\ Shift(v) % Base \in Byte /\ v % Base \in Byte
           /\ (Shift(v) % Base) * Base + (v % Base) = v
<1>1. Shift(v) \in Nat /\ v % Base \in Byte /\ v = Shift(v) * Base + (v % Base)
  BY LowByte
<1>2. Shift(v) < Base
  BY ShiftBound, BaseAssumption DEF Max16
<1>3. Shift(v) % Base = Shift(v)
  BY <1>1, <1>2, OneByte
<1>4. Shift(v) % Base \in Byte
  BY <1>1, LowByte
<1> QED
  BY <1>1, <1>3, <1>4

\* Four bytes are enough for a number below Max32.
LEMMA ReadWrite32 ==
    ASSUME NEW v \in Nat, v < Max32
    PROVE  /\ Shift(Shift(Shift(v))) % Base \in Byte /\ Shift(Shift(v)) % Base \in Byte
           /\ Shift(v) % Base \in Byte /\ v % Base \in Byte
           /\ (((Shift(Shift(Shift(v))) % Base) * Base + (Shift(Shift(v)) % Base)) * Base
                  + (Shift(v) % Base)) * Base + (v % Base) = v
<1> DEFINE v1 == Shift(v)
           v2 == Shift(v1)
<1>1. v1 \in Nat /\ v % Base \in Byte /\ v = v1 * Base + (v % Base)
  BY LowByte
<1>2. v2 \in Nat /\ v1 % Base \in Byte /\ v1 = v2 * Base + (v1 % Base)
  BY <1>1, LowByte
<1>3. Max16 \in Nat /\ Max16 * Base \in Nat /\ Max32 = (Max16 * Base) * Base
  BY BaseAssumption DEF Max16, Max32
<1>4. v1 < Max16 * Base
  BY <1>3, ShiftBound
<1>5. v2 < Max16
  BY <1>1, <1>3, <1>4, ShiftBound
<1>6. /\ Shift(v2) % Base \in Byte /\ v2 % Base \in Byte
      /\ (Shift(v2) % Base) * Base + (v2 % Base) = v2
  BY <1>2, <1>5, ReadWrite16
<1> QED
  BY <1>1, <1>2, <1>6

-----------------------------------------------------------------------------
(* Frames *)

\* Where the bytes of two sequences are in the two put together.
LEMMA Concat ==
    ASSUME NEW s \in Seq(Byte), NEW t \in Seq(Byte)
    PROVE  /\ s \o t \in Seq(Byte)
           /\ Len(s \o t) = Len(s) + Len(t)
           /\ \A i \in 1 .. Len(s) : (s \o t)[i] = s[i]
           /\ \A i \in 1 .. Len(t) : (s \o t)[Len(s) + i] = t[i]
<1>1. Len(s) \in Nat /\ Len(t) \in Nat
  BY LenProperties
<1>2. /\ s \o t \in Seq(Byte)
      /\ Len(s \o t) = Len(s) + Len(t)
      /\ \A i \in 1 .. Len(s) + Len(t) :
             (s \o t)[i] = IF i <= Len(s) THEN s[i] ELSE t[i - Len(s)]
  BY ConcatProperties
<1> QED
  BY <1>1, <1>2

\* The header of a frame holds the command and the length of the body, which
\* follows it.
LEMMA Frame ==
    ASSUME NEW p \in Packet, Len(p.data) < Max32
    PROVE  /\ encode(p) \in Seq(Byte)
           /\ Len(encode(p)) = HEADER_SIZE + Len(p.data)
           /\ read_uint16(encode(p), 2) = p.command
           /\ read_uint32(encode(p), 4) = Len(p.data)
           /\ \A i \in 1 .. Len(p.data) : encode(p)[HEADER_SIZE + i] = p.data[i]
<1> DEFINE c == p.command
           d == p.data
           n == Len(p.data)
           a == <<VERSION>>
           b == write_uint16(c)
           e == write_uint32(n)
<1>1. c \in Nat /\ c < Max16 /\ d \in Seq(Byte) /\ n \in Nat
  <2>1. Max16 \in Nat
    BY BaseAssumption DEF Max16
  <2> QED
    BY <2>1, LenProperties DEF Packet
<1>2. a \in Seq(Byte) /\ Len(a) = 1
  BY BaseAssumption DEF VERSION, Byte
<1>3. b \in Seq(Byte) /\ Len(b) = 2 /\ b[1] * Base + b[2] = c
  BY <1>1, ReadWrite16 DEF write_uint16
<1>4. /\ e \in Seq(Byte) /\ Len(e) = 4
      /\ ((e[1] * Base + e[2]) * Base + e[3]) * Base + e[4] = n
  BY <1>1, ReadWrite32 DEF write_uint32
<1>5. /\ a \o b \in Seq(Byte) /\ Len(a \o b) = 3
      /\ (a \o b)[2] = b[1] /\ (a \o b)[3] = b[2]
  <2> HIDE DEF a, b
  <2>1. /\ a \o b \in Seq(Byte) /\ Len(a \o b) = Len(a) + Len(b)
        /\ \A i \in 1 .. Len(b) : (a \o b)[Len(a) + i] = b[i]
    BY <1>2, <1>3, Concat
  <2> QED
    BY <1>2, <1>3, <2>1
<1>6. /\ (a \o b) \o e \in Seq(Byte) /\ Len((a \o b) \o e) = 7
      /\ ((a \o b) \o e)[2] = b[1] /\ ((a \o b) \o e)[3] = b[2]
      /\ \A i \in 1 .. 4 : ((a \o b) \o e)[3 + i] = e[i]
  <2> DEFINE ab == a \o b
  <2>1. ab \in Seq(Byte) /\ Len(ab) = 3 /\ ab[2] = b[1] /\ ab[3] = b[2]
    BY <1>5
  <2> HIDE DEF ab, b, e
  <2>2. /\ ab \o e \in Seq(Byte) /\ Len(ab \o e) = Len(ab) + Len(e)
        /\ \A i \in 1 .. Len(ab) : (ab \o e)[i] = ab[i]
        /\ \A i \in 1 .. Len(e) : (ab \o e)[Len(ab) + i] = e[i]
    BY <1>4, <2>1, Concat
  <2>3. /\ ab \o e \in Seq(Byte) /\ Len(ab \o e) = 7
        /\ (ab \o e)[2] = b[1] /\ (ab \o e)[3] = b[2]
        /\ \A i \in 1 .. 4 : (ab \o e)[3 + i] = e[i]
    BY <1>4, <2>1, <2>2
  <2> QED
    BY <2>3 DEF ab
<1> DEFINE h == (a \o b) \o e
<1>7. encode(p) = h \o d
  BY DEF encode
<1>8. /\ h \in Seq(Byte) /\ Len(h) = 7
      /\ h[2] = b[1] /\ h[3] = b[2]
      /\ h[4] = e[1] /\ h[5] = e[2] /\ h[6] = e[3] /\ h[7] = e[4]
  <2> HIDE DEF b, e
  <2>1. h \in Seq(Byte) /\ Len(h) = 7 /\ h[2] = b[1] /\ h[3] = b[2]
    BY <1>6
  <2>2. \A i \in 1 .. 4 : h[3 + i] = e[i]
    BY <1>6
  <2> HIDE DEF h
  <2> QED
    BY <2>1, <2>2
<1> HIDE DEF h, b, e
<1>9. /\ h \o d \in Seq(Byte) /\ Len(h \o d) = 7 + n
      /\ \A i \in 1 .. 7 : (h \o d)[i] = h[i]
      /\ \A i \in 1 .. n : (h \o d)[7 + i] = d[i]
  <2> HIDE DEF d
  <2>1. /\ h \o d \in Seq(Byte) /\ Len(h \o d) = Len(h) + Len(d)
        /\ \A i \in 1 .. Len(h) : (h \o d)[i] = h[i]
        /\ \A i \in 1 .. Len(d) : (h \o d)[Len(h) + i] = d[i]
    BY <1>1, <1>8, Concat
  <2>2. n = Len(d)
    BY DEF d
  <2> QED
    BY <1>8, <2>1, <2>2
<1> DEFINE f == h \o d
<1>10. /\ f[2] = b[1] /\ f[3] = b[2]
       /\ f[4] = e[1] /\ f[5] = e[2] /\ f[6] = e[3] /\ f[7] = e[4]
  BY <1>8, <1>9
<1>11. /\ f \in Seq(Byte) /\ Len(f) = 7 + n /\ encode(p) = f
       /\ \A i \in 1 .. n : f[7 + i] = d[i]
  BY <1>7, <1>9
<1> HIDE DEF f
<1>12. read_uint16(f, 2) = c
  BY <1>3, <1>10 DEF read_uint16
<1>13. read_uint32(f, 4) = n
  BY <1>4, <1>10 DEF read_uint32
<1> QED
  BY <1>11, <1>12, <1>13 DEF HEADER_SIZE

\* A buffer that begins like the frame of a packet, header included, is
\* announced at its length, and decode gives the packet back.
LEMMA RoundTrip ==
    ASSUME NEW p \in Packet, Len(p.data) < Max32,
           NEW s \in Seq(Byte), HEADER_SIZE <= Len(s),
           \A i \in 1 .. Len(s) : i <= Len(encode(p)) => s[i] = encode(p)[i]
    PROVE  /\ FrameLength(s) = Len(encode(p))
           /\ FrameLength(s) <= Len(s) => decode(SubSeq(s, 1, FrameLength(s))) = p
<1> DEFINE f == encode(p)
           n == Len(p.data)
<1>1. /\ f \in Seq(Byte) /\ Len(f) = 7 + n
      /\ read_uint16(f, 2) = p.command /\ read_uint32(f, 4) = n
      /\ \A i \in 1 .. n : f[7 + i] = p.data[i]
  BY Frame DEF HEADER_SIZE
<1>2. p.data \in Seq(Byte) /\ n \in Nat /\ Len(s) \in Nat
  BY LenProperties DEF Packet
<1>3. \A i \in 1 .. 7 : s[i] = f[i]
  <2>1. \A i \in 1 .. 7 : i \in 1 .. Len(s) /\ i <= Len(f)
    BY <1>1, <1>2 DEF HEADER_SIZE
  <2> QED
    BY <2>1
<1> HIDE DEF f
<1>4. FrameLength(s) = 7 + n
  BY <1>1, <1>3 DEF FrameLength, read_uint32, HEADER_SIZE
<1>5. ASSUME 7 + n <= Len(s) PROVE decode(SubSeq(s, 1, 7 + n)) = p
  <2> DEFINE t == SubSeq(s, 1, 7 + n)
  <2>1. \A i \in 1 .. 7 + n : s[i] \in Byte
    BY <1>2, <1>5, ElementOfSeq
  <2>2. t \in Seq(Byte) /\ Len(t) = 7 + n /\ \A i \in 1 .. 7 + n : t[i] = s[i]
    BY <1>2, <2>1, SubSeqProperties
  <2>3. \A i \in 1 .. 7 + n : t[i] = f[i]
    BY <1>1, <1>2, <1>5, <2>2 DEF f
  <2> HIDE DEF t
  <2>4. read_uint16(t, 2) = p.command
    BY <1>1, <1>2, <2>3 DEF read_uint16
  <2>5. SubSeq(t, 8, 7 + n) = p.data
    <3>1. \A i \in 8 .. 7 + n : t[i] \in Byte
      BY <1>2, <2>2, ElementOfSeq
    <3>2. /\ SubSeq(t, 8, 7 + n) \in Seq(Byte)
          /\ Len(SubSeq(t, 8, 7 + n)) = n
          /\ \A i \in 1 .. n : SubSeq(t, 8, 7 + n)[i] = t[7 + i]
      BY <1>2, <3>1, SubSeqProperties
    <3>3. \A i \in 1 .. n : SubSeq(t, 8, 7 + n)[i] = p.data[i]
      BY <1>1, <1>2, <2>3, <3>2
    <3> QED
      BY <1>2, <3>2, <3>3, SeqEqual
  <2>6. decode(t) = [command |-> p.command, data |-> p.data]
    <3>1. SubSeq(t, HEADER_SIZE + 1, Len(t)) = p.data
      BY <1>2, <2>2, <2>5 DEF HEADER_SIZE
    <3> QED
      BY <2>4, <3>1 DEF decode
  <2> QED
    BY <2>6 DEF Packet, t
<1> QED
  BY <1>1, <1>4, <1>5 DEF f

\* One more byte behind a number.
LEMMA NextByte ==
    ASSUME NEW a \in Nat, NEW b \in Byte
    PROVE  /\ a * Base + b \in Nat
           /\ a \in Byte => a * Base + b <= Max16 - 1
<1>1. Base \in Nat /\ Base > 1 /\ b \in Nat /\ b <= Base - 1
  BY BaseAssumption DEF Byte
<1>2. a * Base \in Nat
  BY <1>1
<1>3. ASSUME a \in Byte PROVE a * Base + b <= Max16 - 1
  <2>1. PICK k \in Nat : Base = a + 1 + k
    <3>1. a <= Base - 1
      BY <1>3 DEF Byte
    <3>2. Base - 1 - a \in Nat /\ Base = a + 1 + (Base - 1 - a)
      BY <1>1, <3>1
    <3> QED
      BY <3>2
  <2>2. Base * Base = a * Base + Base + k * Base
    BY <1>1, <2>1
  <2>3. k * Base \in Nat /\ Base * Base \in Nat
    BY <1>1
  <2> QED
    BY <1>1, <1>2, <2>2, <2>3 DEF Max16
<1> QED
  BY <1>1, <1>2, <1>3

\* The length that a header announces is a number, at least that of a header.
LEMMA FrameLengthType ==
    ASSUME NEW s \in Seq(Byte), HEADER_SIZE <= Len(s)
    PROVE  FrameLength(s) \in Nat /\ FrameLength(s) >= HEADER_SIZE
<1>1. s[4] \in Nat /\ {s[5], s[6], s[7]} \subseteq Byte
  BY ElementOfSeq, LenProperties, BaseAssumption DEF HEADER_SIZE, Byte
<1>2. s[4] * Base + s[5] \in Nat
  BY <1>1, NextByte
<1>3. (s[4] * Base + s[5]) * Base + s[6] \in Nat
  BY <1>1, <1>2, NextByte
<1>4. read_uint32(s, 4) \in Nat
  <2>1. ((s[4] * Base + s[5]) * Base + s[6]) * Base + s[7] \in Nat
    BY <1>1, <1>3, NextByte
  <2> QED
    BY <2>1 DEF read_uint32
<1> QED
  BY <1>4 DEF FrameLength, HEADER_SIZE

\* A piece of a byte sequence is one.
LEMMA Piece ==
    ASSUME NEW s \in Seq(Byte), NEW m \in Nat \ {0}, NEW n \in Nat, n <= Len(s)
    PROVE  /\ SubSeq(s, m, n) \in Seq(Byte)
           /\ Len(SubSeq(s, m, n)) = IF m <= n THEN n - m + 1 ELSE 0
           /\ \A i \in 1 .. n - m + 1 : SubSeq(s, m, n)[i] = s[m + i - 1]
<1>1. Len(s) \in Nat
  BY LenProperties
<1>2. \A i \in m .. n : s[i] \in Byte
  BY <1>1, ElementOfSeq
<1> QED
  BY <1>2, SubSeqProperties

\* decode makes a packet of any frame, whatever its bytes are.
LEMMA DecodeType ==
    ASSUME NEW s \in Seq(Byte), HEADER_SIZE <= Len(s)
    PROVE  decode(s) \in Packet
<1>1. Base \in Nat /\ Byte = 0 .. Base - 1 /\ Len(s) \in Nat
  BY BaseAssumption, LenProperties DEF Byte
<1>2. s[2] \in Byte /\ s[3] \in Byte
  BY <1>1, ElementOfSeq DEF HEADER_SIZE
<1>3. read_uint16(s, 2) \in 0 .. Max16 - 1
  <2>1. s[2] \in Nat /\ Max16 \in Nat
    BY <1>1, <1>2 DEF Max16
  <2>2. s[2] * Base + s[3] \in Nat /\ s[2] * Base + s[3] <= Max16 - 1
    BY <1>2, <2>1, NextByte
  <2> QED
    BY <2>1, <2>2 DEF read_uint16
<1>4. SubSeq(s, HEADER_SIZE + 1, Len(s)) \in Seq(Byte)
  BY <1>1, Piece DEF HEADER_SIZE
<1> QED
  BY <1>3, <1>4 DEF decode, Packet

-----------------------------------------------------------------------------
(* Induction *)

\* Numbers have a least element.
LEMMA LeastElement ==
    ASSUME NEW T \in SUBSET Nat, T # {}
    PROVE  \E x \in T : \A y \in T : x <= y
<1> DEFINE R == OpToRel(<, Nat)
<1>1. IsWellFoundedOn(R, Nat)
  BY NatLessThanWellFounded
<1>2. \A x, y \in Nat : x < y => <<x, y>> \in R
  BY DEF OpToRel
<1> HIDE DEF R
<1>3. \E x \in T : \A y \in T : ~ (<<y, x>> \in R)
  BY <1>1, WFMin
<1>4. PICK x \in T : \A y \in T : ~ (<<y, x>> \in R)
  BY <1>3
<1>5. \A y \in T : y \in Nat /\ x \in Nat /\ ~(y < x)
  BY <1>2, <1>4
<1>6. \A y \in T : x <= y
  BY <1>5
<1> QED
  BY <1>6

\* A set with 0 and the successor of each of its numbers has all numbers.
LEMMA Induction ==
    ASSUME NEW S, 0 \in S, \A n \in Nat : n \in S => n + 1 \in S
    PROVE  Nat \subseteq S
<1> DEFINE T == {n \in Nat : n \notin S}
<1> SUFFICES ASSUME T # {} PROVE FALSE
  OBVIOUS
<1>1. PICK x \in T : \A y \in T : x <= y
  BY LeastElement
<1>2. x # 0 /\ x \in Nat
  OBVIOUS
<1>3. x - 1 \in Nat /\ x - 1 \in S
  BY <1>1, <1>2
<1>4. x - 1 + 1 \in S
  BY <1>3
<1> QED
  BY <1>2, <1>4

\* The same for the numbers from 1 to n.
LEMMA InductionTo ==
    ASSUME NEW n \in Nat, NEW S, 1 \in S, \A k \in 1 .. n - 1 : k \in S => k + 1 \in S
    PROVE  \A k \in 1 .. n : k \in S
<1> DEFINE T == {k \in Nat : k + 1 \in 1 .. n => k + 1 \in S}
<1>1. 0 \in T
  OBVIOUS
<1>2. ASSUME NEW k \in Nat, k \in T PROVE k + 1 \in T
  <2> SUFFICES ASSUME k + 1 + 1 \in 1 .. n PROVE k + 1 + 1 \in S
    OBVIOUS
  <2>1. k + 1 \in 1 .. n - 1 /\ k + 1 \in 1 .. n
    OBVIOUS
  <2> QED
    BY <1>2, <2>1
<1> HIDE DEF T
<1>3. Nat \subseteq T
  BY <1>1, <1>2, Induction
<1>4. ASSUME NEW k \in 1 .. n PROVE k \in S
  <2>1. k - 1 \in T /\ k - 1 + 1 = k
    BY <1>3
  <2> QED
    BY <2>1 DEF T
<1> QED
  BY <1>4

-----------------------------------------------------------------------------
(* Fields one behind the other *)

\* The bytes of part are in data from index at on.
Holds(data, at, part) ==
    /\ at + Len(part) - 1 <= Len(data)
    /\ \A j \in 1 .. Len(part) : data[at + j - 1] = part[j]

\* More bytes behind them change nothing, and what is put behind is there.
LEMMA HoldsConcat ==
    ASSUME NEW d \in Seq(Byte), NEW e \in Seq(Byte)
    PROVE  /\ Holds(d \o e, Len(d) + 1, e)
           /\ \A at \in Nat \ {0}, part \in Seq(Byte) : Holds(d, at, part) => Holds(d \o e, at, part)
<1>1. Len(d) \in Nat /\ Len(e) \in Nat
  BY LenProperties
<1>2. /\ d \o e \in Seq(Byte) /\ Len(d \o e) = Len(d) + Len(e)
      /\ \A i \in 1 .. Len(d) : (d \o e)[i] = d[i]
      /\ \A i \in 1 .. Len(e) : (d \o e)[Len(d) + i] = e[i]
  BY Concat
<1>3. Holds(d \o e, Len(d) + 1, e)
  BY <1>1, <1>2 DEF Holds
<1>4. ASSUME NEW at \in Nat \ {0}, NEW part \in Seq(Byte), Holds(d, at, part)
      PROVE  Holds(d \o e, at, part)
  <2>1. Len(part) \in Nat /\ at + Len(part) - 1 <= Len(d)
    BY <1>4, LenProperties DEF Holds
  <2>2. \A j \in 1 .. Len(part) : at + j - 1 \in 1 .. Len(d)
    BY <1>1, <2>1
  <2>3. \A j \in 1 .. Len(part) : (d \o e)[at + j - 1] = part[j]
    BY <1>2, <1>4, <2>2 DEF Holds
  <2> QED
    BY <1>1, <1>2, <2>1, <2>3 DEF Holds
<1> QED
  BY <1>3, <1>4

\* The recursive function of FlattenSeq exists.
LEMMA FlattenExists ==
    ASSUME NEW s, NEW n \in Nat
    PROVE  \E f : f = [i \in 1 .. n |-> IF i = 1 THEN s[i] ELSE f[i - 1] \o s[i]]
<1> DEFINE Is(f, k) == f = [i \in 1 .. k |-> IF i = 1 THEN s[i] ELSE f[i - 1] \o s[i]]
           S == {k \in Nat : \E f : Is(f, k)}
<1>1. 0 \in S
  <2> DEFINE g == [i \in 1 .. 0 |-> s[i]]
  <2>1. g = [i \in 1 .. 0 |-> IF i = 1 THEN s[i] ELSE g[i - 1] \o s[i]]
    OBVIOUS
  <2> QED
    BY <2>1
<1>2. ASSUME NEW k \in Nat, k \in S PROVE k + 1 \in S
  <2>1. PICK f : f = [i \in 1 .. k |-> IF i = 1 THEN s[i] ELSE f[i - 1] \o s[i]]
    BY <1>2
  <2> DEFINE g == [i \in 1 .. k + 1 |->
                      IF i = 1 THEN s[i] ELSE IF i = k + 1 THEN f[i - 1] \o s[i] ELSE f[i]]
  <2>2. \A i \in 1 .. k + 1 : i # 1 => g[i - 1] = f[i - 1]
    BY <2>1
  <2>3. \A i \in 1 .. k + 1 : g[i] = IF i = 1 THEN s[i] ELSE f[i - 1] \o s[i]
    <3>1. \A i \in 1 .. k : f[i] = IF i = 1 THEN s[i] ELSE f[i - 1] \o s[i]
      BY <2>1
    <3>2. \A i \in 1 .. k + 1 : i # k + 1 => i \in 1 .. k
      OBVIOUS
    <3> QED
      BY <3>1, <3>2
  <2>4. \A i \in 1 .. k + 1 : g[i] = IF i = 1 THEN s[i] ELSE g[i - 1] \o s[i]
    BY <2>2, <2>3
  <2>5. g = [i \in 1 .. k + 1 |-> g[i]]
    OBVIOUS
  <2> HIDE DEF g
  <2>6. g = [i \in 1 .. k + 1 |-> IF i = 1 THEN s[i] ELSE g[i - 1] \o s[i]]
    BY <2>4, <2>5
  <2>7. Is(g, k + 1)
    BY <2>6, Zenon
  <2> HIDE DEF Is
  <2> QED
    BY <2>7
<1> HIDE DEF S
<1>3. n \in S
  BY <1>1, <1>2, Induction
<1> QED
  BY <1>3 DEF S

\* The last value of that function is the concatenation.
LEMMA FlattenIs ==
    ASSUME NEW n \in Nat \ {0}, NEW s \in [1 .. n -> Seq(Byte)]
    PROVE  \E g : /\ FlattenSeq(s) = g[n] /\ g[1] = s[1]
                  /\ \A k \in 1 .. n - 1 : g[k + 1] = g[k] \o s[k + 1]
<1>1. Len(s) = n
  OBVIOUS
<1>2. PICK f : f = [i \in 1 .. n |-> IF i = 1 THEN s[i] ELSE f[i - 1] \o s[i]]
  BY FlattenExists
<1> DEFINE g == CHOOSE h : h = [i \in 1 .. n |-> IF i = 1 THEN s[i] ELSE h[i - 1] \o s[i]]
<1>3. FlattenSeq(s) = g[n]
  <2>1. Len(s) # 0
    BY <1>1
  <2> QED
    BY <1>1, <2>1, Zenon DEF FlattenSeq
<1>4. g = [i \in 1 .. n |-> IF i = 1 THEN s[i] ELSE g[i - 1] \o s[i]]
  BY <1>2, Zenon
<1> HIDE DEF g
<1>5. \A i \in 1 .. n : g[i] = IF i = 1 THEN s[i] ELSE g[i - 1] \o s[i]
  BY <1>4
<1>6. g[1] = s[1]
  BY <1>5
<1>7. ASSUME NEW k \in 1 .. n - 1 PROVE g[k + 1] = g[k] \o s[k + 1]
  <2> DEFINE j == k + 1
  <2>1. j \in 1 .. n /\ j # 1 /\ j - 1 = k
    OBVIOUS
  <2> HIDE DEF j
  <2>2. g[j] = g[j - 1] \o s[j]
    BY <1>5, <2>1
  <2> QED
    BY <2>1, <2>2 DEF j
<1> QED
  BY <1>3, <1>6, <1>7

\* Parts put one behind the other are each where the one before ends.
LEMMA Flatten ==
    ASSUME NEW n \in Nat, NEW s \in [1 .. n -> Seq(Byte)]
    PROVE  /\ FlattenSeq(s) \in Seq(Byte)
           /\ \E at \in [1 .. n + 1 -> Nat \ {0}] :
                  /\ at[1] = 1 /\ at[n + 1] = Len(FlattenSeq(s)) + 1
                  /\ \A i \in 1 .. n : /\ at[i + 1] = at[i] + Len(s[i])
                                       /\ Holds(FlattenSeq(s), at[i], s[i])
<1>1. Len(s) = n
  OBVIOUS
<1>2. CASE n = 0
  <2>1. s \in Seq(Byte)
    <3>1. s \in [1 .. 0 -> Byte]
      BY <1>2
    <3>2. Seq(Byte) = UNION {[1 .. k -> Byte] : k \in Nat}
      BY SeqDef
    <3>3. 0 \in Nat
      OBVIOUS
    <3> HIDE DEF Byte
    <3> QED
      BY <3>1, <3>2, <3>3, Zenon
  <2>2. FlattenSeq(s) = s
    BY <1>1, <1>2 DEF FlattenSeq
  <2> DEFINE a == [i \in 1 .. n + 1 |-> 1]
  <2>3. a \in [1 .. n + 1 -> Nat \ {0}] /\ a[1] = 1 /\ a[n + 1] = Len(s) + 1
    BY <1>1, <1>2
  <2> HIDE DEF a
  <2> QED
    BY <1>2, <2>1, <2>2, <2>3
<1>3. CASE n # 0
  <2>1. PICK g : /\ FlattenSeq(s) = g[n] /\ g[1] = s[1]
                 /\ \A k \in 1 .. n - 1 : g[k + 1] = g[k] \o s[k + 1]
    <3>1. n \in Nat \ {0}
      BY <1>3
    <3> QED
      BY <3>1, FlattenIs, Zenon
  <2>2. \A k \in 1 .. n : g[k] \in Seq(Byte)
    <3> DEFINE S == {k \in Nat : g[k] \in Seq(Byte)}
    <3>1. 1 \in S
      BY <1>3, <2>1
    <3>2. ASSUME NEW k \in 1 .. n - 1, k \in S PROVE k + 1 \in S
      <4>1. k + 1 \in 1 .. n
        OBVIOUS
      <4>2. g[k] \in Seq(Byte) /\ s[k + 1] \in Seq(Byte) /\ g[k + 1] = g[k] \o s[k + 1]
        BY <2>1, <3>2, <4>1
      <4>3. g[k + 1] \in Seq(Byte)
        BY <4>2, Concat
      <4> QED
        BY <4>1, <4>3
    <3> HIDE DEF S
    <3>3. \A k \in 1 .. n : k \in S
      BY <3>1, <3>2, InductionTo
    <3> QED
      BY <3>3 DEF S
  <2> DEFINE a == [i \in 1 .. n + 1 |-> IF i = 1 THEN 1 ELSE Len(g[i - 1]) + 1]
  <2>3. a[1] = 1 /\ \A k \in 1 .. n : a[k + 1] = Len(g[k]) + 1
    OBVIOUS
  <2>4. a \in [1 .. n + 1 -> Nat \ {0}]
    <3>1. \A i \in 1 .. n + 1 : i # 1 => i - 1 \in 1 .. n
      OBVIOUS
    <3>2. \A i \in 1 .. n + 1 : i # 1 => Len(g[i - 1]) \in Nat
      BY <2>2, <3>1, LenProperties
    <3> QED
      BY <3>2
  <2> HIDE DEF a
  <2>5. \A k \in 1 .. n : a[k + 1] = a[k] + Len(s[k])
    <3> SUFFICES ASSUME NEW k \in 1 .. n PROVE a[k + 1] = a[k] + Len(s[k])
      OBVIOUS
    <3>1. s[k] \in Seq(Byte) /\ Len(s[k]) \in Nat
      BY LenProperties
    <3>2. CASE k = 1
      BY <2>1, <2>3, <3>1, <3>2
    <3>3. CASE k # 1
      <4>1. k - 1 \in 1 .. n - 1 /\ k - 1 \in 1 .. n /\ k - 1 + 1 = k
        BY <3>3
      <4>2. a[k] = Len(g[k - 1]) + 1 /\ a[k + 1] = Len(g[k]) + 1
        BY <2>3, <4>1
      <4>3. g[k] = g[k - 1] \o s[k] /\ g[k - 1] \in Seq(Byte)
        BY <2>1, <2>2, <4>1
      <4>4. Len(g[k]) = Len(g[k - 1]) + Len(s[k]) /\ Len(g[k - 1]) \in Nat
        BY <3>1, <4>3, Concat, LenProperties
      <4> QED
        BY <3>1, <4>2, <4>4
    <3> QED
      BY <3>2, <3>3
  <2>6. \A k \in 1 .. n : \A i \in 1 .. k : Holds(g[k], a[i], s[i])
    <3> DEFINE S == {k \in Nat : \A i \in 1 .. k : Holds(g[k], a[i], s[i])}
    <3>1. 1 \in S
      <4>1. s[1] \in Seq(Byte) /\ Len(s[1]) \in Nat
        BY <1>3, LenProperties
      <4>2. Holds(g[1], a[1], s[1])
        BY <2>1, <2>3, <4>1 DEF Holds
      <4> QED
        BY <4>2
    <3>2. ASSUME NEW k \in 1 .. n - 1, k \in S PROVE k + 1 \in S
      <4>1. k + 1 \in 1 .. n /\ k \in 1 .. n
        OBVIOUS
      <4>2. /\ g[k] \in Seq(Byte) /\ s[k + 1] \in Seq(Byte) /\ g[k + 1] = g[k] \o s[k + 1]
            /\ a[k + 1] = Len(g[k]) + 1
        BY <2>1, <2>2, <2>3, <4>1
      <4>3. Holds(g[k + 1], a[k + 1], s[k + 1])
        BY <4>2, HoldsConcat
      <4>4. ASSUME NEW i \in 1 .. k PROVE Holds(g[k + 1], a[i], s[i])
        <5>1. i \in 1 .. n + 1 /\ i \in 1 .. n
          OBVIOUS
        <5>2. a[i] \in Nat \ {0} /\ s[i] \in Seq(Byte) /\ Holds(g[k], a[i], s[i])
          BY <2>4, <3>2, <5>1
        <5> QED
          BY <4>2, <5>2, HoldsConcat
      <4>5. \A i \in 1 .. k + 1 : i = k + 1 \/ i \in 1 .. k
        OBVIOUS
      <4>6. \A i \in 1 .. k + 1 : Holds(g[k + 1], a[i], s[i])
        BY <4>3, <4>4, <4>5
      <4> QED
        BY <4>1, <4>6
    <3> HIDE DEF S
    <3>3. \A k \in 1 .. n : k \in S
      BY <3>1, <3>2, InductionTo
    <3> QED
      BY <3>3 DEF S
  <2>7. n \in 1 .. n
    BY <1>3
  <2> QED
    BY <2>1, <2>2, <2>3, <2>4, <2>5, <2>6, <2>7
<1> QED
  BY <1>2, <1>3

-----------------------------------------------------------------------------
(* Reading back *)

\* The widths of the integers.
LEMMA Widths ==
    /\ Max16 \in Nat /\ Max16 > 0 /\ Max32 \in Nat /\ Max16 <= Max32
    /\ 0 \in Byte /\ Byte \subseteq Nat
<1>1. Max16 \in Nat /\ Max16 > 0
  BY BaseAssumption DEF Max16
<1>2. Max32 \in Nat /\ Max16 <= Max32
  BY <1>1 DEF Max32
<1> QED
  BY <1>1, <1>2, BaseAssumption DEF Byte

\* What two parts put together hold, each of them holds where it is.
LEMMA HoldsParts ==
    ASSUME NEW p \in Seq(Byte), NEW q \in Seq(Byte), NEW data \in Seq(Byte), NEW at \in Nat \ {0},
           Holds(data, at, p \o q)
    PROVE  Holds(data, at, p) /\ Holds(data, at + Len(p), q)
<1>1. Len(p) \in Nat /\ Len(q) \in Nat /\ Len(data) \in Nat
  BY LenProperties
<1>2. /\ Len(p \o q) = Len(p) + Len(q)
      /\ \A i \in 1 .. Len(p) : (p \o q)[i] = p[i]
      /\ \A i \in 1 .. Len(q) : (p \o q)[Len(p) + i] = q[i]
  BY Concat
<1>3. /\ at + (Len(p) + Len(q)) - 1 <= Len(data)
      /\ \A j \in 1 .. Len(p) + Len(q) : data[at + j - 1] = (p \o q)[j]
  BY <1>2 DEF Holds
<1>4. Holds(data, at, p)
  <2>1. \A j \in 1 .. Len(p) : j \in 1 .. Len(p) + Len(q)
    BY <1>1
  <2> QED
    BY <1>1, <1>2, <1>3, <2>1 DEF Holds
<1>5. ASSUME NEW j \in 1 .. Len(q) PROVE data[at + Len(p) + j - 1] = q[j]
  <2>1. Len(p) + j \in 1 .. Len(p) + Len(q) /\ at + (Len(p) + j) - 1 = at + Len(p) + j - 1
    BY <1>1
  <2>2. data[at + (Len(p) + j) - 1] = (p \o q)[Len(p) + j]
    BY <1>3, <2>1
  <2> QED
    BY <1>2, <2>1, <2>2
<1> QED
  BY <1>1, <1>3, <1>4, <1>5 DEF Holds

\* A sequence is cut out where it is held.
LEMMA Slice ==
    ASSUME NEW v \in Seq(Byte), NEW data \in Seq(Byte), NEW at \in Nat \ {0}, Holds(data, at, v)
    PROVE  SubSeq(data, at, at + Len(v) - 1) = v
<1>1. Len(v) \in Nat /\ Len(data) \in Nat /\ at + Len(v) - 1 <= Len(data)
  BY LenProperties DEF Holds
<1> DEFINE m == at + Len(v) - 1
<1>2. m \in Nat /\ m <= Len(data) /\ m - at + 1 = Len(v)
  BY <1>1
<1> HIDE DEF m
<1>3. /\ SubSeq(data, at, m) \in Seq(Byte)
      /\ Len(SubSeq(data, at, m)) = IF at <= m THEN m - at + 1 ELSE 0
      /\ \A i \in 1 .. m - at + 1 : SubSeq(data, at, m)[i] = data[at + i - 1]
  BY <1>2, Piece
<1>4. Len(SubSeq(data, at, m)) = Len(v)
  BY <1>1, <1>2, <1>3
<1>5. \A i \in 1 .. Len(v) : SubSeq(data, at, m)[i] = v[i]
  BY <1>2, <1>3 DEF Holds
<1> QED
  BY <1>3, <1>4, <1>5, SeqEqual DEF m

\* A number of two bytes is read as it was written.
LEMMA Read16 ==
    ASSUME NEW v \in Nat, v < Max16, NEW data \in Seq(Byte), NEW at \in Nat \ {0},
           Holds(data, at, write_uint16(v))
    PROVE  /\ write_uint16(v) \in Seq(Byte) /\ Len(write_uint16(v)) = 2
           /\ at + 1 <= Len(data) /\ read_uint16(data, at) = v
<1> DEFINE b == write_uint16(v)
<1>1. b \in Seq(Byte) /\ Len(b) = 2 /\ b[1] * Base + b[2] = v
  BY ReadWrite16 DEF write_uint16
<1> HIDE DEF b
<1>2. at + 1 <= Len(data) /\ data[at + 1 - 1] = b[1] /\ data[at + 2 - 1] = b[2]
  BY <1>1 DEF Holds, b
<1>3. data[at] = b[1] /\ data[at + 1] = b[2]
  BY <1>2
<1> QED
  BY <1>1, <1>2, <1>3 DEF read_uint16, b

\* A number of four bytes is read as it was written.
LEMMA Read32 ==
    ASSUME NEW v \in Nat, v < Max32, NEW data \in Seq(Byte), NEW at \in Nat \ {0},
           Holds(data, at, write_uint32(v))
    PROVE  /\ write_uint32(v) \in Seq(Byte) /\ Len(write_uint32(v)) = 4
           /\ at + 3 <= Len(data) /\ read_uint32(data, at) = v
<1> DEFINE b == write_uint32(v)
<1>1. /\ b \in Seq(Byte) /\ Len(b) = 4
      /\ ((b[1] * Base + b[2]) * Base + b[3]) * Base + b[4] = v
  BY ReadWrite32 DEF write_uint32
<1> HIDE DEF b
<1>2. /\ at + 3 <= Len(data) /\ data[at + 1 - 1] = b[1] /\ data[at + 2 - 1] = b[2]
      /\ data[at + 3 - 1] = b[3] /\ data[at + 4 - 1] = b[4]
  BY <1>1 DEF Holds, b
<1>3. data[at] = b[1] /\ data[at + 1] = b[2] /\ data[at + 2] = b[3] /\ data[at + 3] = b[4]
  BY <1>2
<1> QED
  BY <1>1, <1>2, <1>3 DEF read_uint32, b

\* The cast of an int32_t to uint32_t adds Max32 to a negative number.
LEMMA Cast ==
    ASSUME NEW m \in Nat, m > 0, NEW v \in Int, v < m, -m <= v
    PROVE  v % m = IF v < 0 THEN v + m ELSE v
<1>1. v % m \in 0 .. m - 1 /\ v = (v \div m) * m + (v % m)
  OBVIOUS
<1> DEFINE q == v \div m
           r == v % m
<1>2. q \in Int /\ r \in 0 .. m - 1 /\ v = q * m + r
  BY <1>1
<1> HIDE DEF q, r
<1>3. q < 1
  <2> SUFFICES ASSUME q >= 1 PROVE FALSE
    BY <1>2
  <2>1. PICK k \in Nat : q = k + 1
    BY <1>2
  <2>2. q * m = k * m + m /\ k * m \in Nat
    BY <2>1
  <2> QED
    BY <1>2, <2>2
<1>4. q > -2
  <2> SUFFICES ASSUME q <= -2 PROVE FALSE
    BY <1>2
  <2>1. PICK k \in Nat : q = -k - 2
    <3>1. -q - 2 \in Nat /\ q = -(-q - 2) - 2
      BY <1>2
    <3> QED
      BY <3>1
  <2>2. q * m = -(k * m) - 2 * m /\ k * m \in Nat
    BY <2>1
  <2> QED
    BY <1>2, <2>2
<1>5. q = 0 \/ q = -1
  BY <1>2, <1>3, <1>4
<1>6. CASE q = 0
  BY <1>2, <1>6 DEF r
<1>7. CASE q = -1
  BY <1>2, <1>7 DEF r
<1> QED
  BY <1>5, <1>6, <1>7

\* An int32_t is read as it was written, with its sign.
LEMMA ReadInt32 ==
    ASSUME NEW v \in Int32Values, NEW data \in Seq(Byte), NEW at \in Nat \ {0},
           Holds(data, at, write_int32(v))
    PROVE  /\ write_int32(v) \in Seq(Byte) /\ Len(write_int32(v)) = 4
           /\ at + 3 <= Len(data) /\ read_int32(data, at) = v
<1> DEFINE h == Max32 \div 2
           u == v % Max32
<1>1. Max32 \in Nat /\ Max32 > 0
  BY Widths
<1>2. h \in Nat /\ 2 * h <= Max32 /\ v \in Int /\ -h <= v /\ v < h
  BY <1>1 DEF Int32Values
<1>3. u = IF v < 0 THEN v + Max32 ELSE v
  BY <1>1, <1>2, Cast
<1>4. u \in Nat /\ u < Max32 /\ (u >= h <=> v < 0)
  BY <1>1, <1>2, <1>3
<1> HIDE DEF u, h
<1>5. write_int32(v) = write_uint32(u)
  BY DEF write_int32, u
<1>6. /\ write_uint32(u) \in Seq(Byte) /\ Len(write_uint32(u)) = 4
      /\ at + 3 <= Len(data) /\ read_uint32(data, at) = u
  BY <1>4, <1>5, Read32
<1>7. read_int32(data, at) = IF u >= h THEN u - Max32 ELSE u
  BY <1>6 DEF read_int32, h
<1> QED
  BY <1>1, <1>2, <1>3, <1>4, <1>5, <1>6, <1>7

\* A string behind its length is read as it was written.
LEMMA ReadWhole ==
    ASSUME NEW v \in Seq(Byte), NEW w \in Seq(Byte), NEW width \in {2, 4}, Len(w) = width,
           NEW data \in Seq(Byte), NEW at \in Nat \ {0}, Holds(data, at, w \o v),
           Len(v) = IF width = 2 THEN read_uint16(data, at) ELSE read_uint32(data, at)
    PROVE  /\ at + width - 1 <= Len(data)
           /\ ReadString(data, at, width) = Read(v, at + Len(w \o v))
<1> DEFINE next == at + width + Len(v)
<1>1. Len(v) \in Nat /\ Len(data) \in Nat /\ Len(w \o v) = width + Len(v)
  BY Concat, LenProperties
<1>2. Holds(data, at, w) /\ Holds(data, at + width, v) /\ at + width \in Nat \ {0}
  BY HoldsParts
<1>3. at + width - 1 <= Len(data) /\ next - 1 <= Len(data)
  BY <1>1, <1>2 DEF Holds
<1>4. SubSeq(data, at + width, next - 1) = v
  BY <1>2, Slice
<1>5. ReadString(data, at, width) = Read(SubSeq(data, at + width, next - 1), next)
  BY <1>3 DEF ReadString
<1>6. next = at + Len(w \o v)
  <2>1. width \in Nat /\ at \in Nat
    OBVIOUS
  <2> DEFINE len == Len(w \o v)
  <2>2. len = width + Len(v) /\ Len(v) \in Nat
    BY <1>1
  <2> HIDE DEF len
  <2> QED
    BY <2>1, <2>2 DEF len
<1> QED
  BY <1>3, <1>4, <1>5, <1>6

\* A string whose length fits its two bytes is read as it was written.
LEMMA ReadShort ==
    ASSUME NEW v \in Seq(Byte), Len(v) < Max16, NEW data \in Seq(Byte), NEW at \in Nat \ {0},
           Holds(data, at, write_string(v))
    PROVE  /\ at + 1 <= Len(data)
           /\ ReadString(data, at, 2) = Read(v, at + Len(write_string(v)))
<1> DEFINE w == write_uint16(Len(v))
<1>1. Len(v) \in Nat /\ Len(v) % Max16 = Len(v)
  <2>1. Len(v) \in Nat /\ Max16 \in Nat /\ Max16 > 0
    BY Widths, LenProperties
  <2> QED
    BY <2>1, Cast
<1>2. write_string(v) = w \o v
  BY <1>1 DEF write_string
<1>3. w \in Seq(Byte)
  BY <1>1, ReadWrite16 DEF write_uint16
<1> HIDE DEF w
<1>4. Holds(data, at, w)
  BY <1>2, <1>3, HoldsParts
<1>5. Len(w) = 2 /\ read_uint16(data, at) = Len(v)
  BY <1>1, <1>4, Read16 DEF w
<1> QED
  BY <1>2, <1>3, <1>5, ReadWhole

\* A text is read as it was written.
LEMMA ReadText ==
    ASSUME NEW v \in Seq(Byte), Len(v) < Max32, NEW data \in Seq(Byte), NEW at \in Nat \ {0},
           Holds(data, at, write_uint32(Len(v)) \o v)
    PROVE  /\ at + 3 <= Len(data)
           /\ ReadString(data, at, 4) = Read(v, at + Len(write_uint32(Len(v)) \o v))
<1> DEFINE w == write_uint32(Len(v))
<1>1. Len(v) \in Nat
  BY LenProperties
<1>2. w \in Seq(Byte)
  BY <1>1, ReadWrite32 DEF write_uint32
<1> HIDE DEF w
<1>3. Holds(data, at, w)
  BY <1>2, HoldsParts DEF w
<1>4. Len(w) = 4 /\ read_uint32(data, at) = Len(v)
  BY <1>1, <1>3, Read32 DEF w
<1>5. Holds(data, at, w \o v)
  BY DEF w
<1>6. /\ at + 4 - 1 <= Len(data)
      /\ ReadString(data, at, 4) = Read(v, at + Len(w \o v))
  BY <1>2, <1>4, <1>5, ReadWhole
<1> QED
  BY <1>6 DEF w

\* A string that is too long for its two bytes is never read as it was written.
LEMMA ReadLong ==
    ASSUME NEW v \in Seq(Byte), Len(v) >= Max16, NEW data \in Seq(Byte), NEW at \in Nat \ {0},
           Holds(data, at, write_string(v)), ReadString(data, at, 2).ok
    PROVE  ReadString(data, at, 2).value # v
<1> DEFINE n == Len(v) % Max16
           w == write_uint16(n)
           next == at + 2 + n
<1>1. Len(v) \in Nat /\ Max16 \in Nat /\ Max16 > 0 /\ Len(data) \in Nat
  BY Widths, LenProperties
<1>2. n \in Nat /\ n < Max16 /\ n < Len(v)
  BY <1>1
<1> HIDE DEF n
<1>3. write_string(v) = w \o v
  BY DEF write_string, n
<1>4. w \in Seq(Byte)
  BY <1>2, ReadWrite16 DEF write_uint16
<1> HIDE DEF w
<1>5. Holds(data, at, w)
  BY <1>3, <1>4, HoldsParts
<1>6. read_uint16(data, at) = n
  BY <1>2, <1>5, Read16 DEF w
<1>7. /\ next - 1 <= Len(data)
      /\ ReadString(data, at, 2) = Read(SubSeq(data, at + 2, next - 1), next)
  BY <1>6 DEF ReadString, NotRead
<1>8. Len(SubSeq(data, at + 2, next - 1)) = n
  <2>1. at + 2 \in Nat \ {0} /\ next - 1 \in Nat /\ next - 1 - (at + 2) + 1 = n
    BY <1>2
  <2> HIDE DEF next
  <2>2. Len(SubSeq(data, at + 2, next - 1))
            = IF at + 2 <= next - 1 THEN next - 1 - (at + 2) + 1 ELSE 0
    BY <1>7, <2>1, Piece
  <2> QED
    BY <1>2, <2>1, <2>2
<1>9. ReadString(data, at, 2).value = SubSeq(data, at + 2, next - 1)
  BY <1>7 DEF Read
<1> QED
  BY <1>1, <1>2, <1>8, <1>9

-----------------------------------------------------------------------------
(* Reading one value after the other *)

\* From n down to 1.
LEMMA InductionDown ==
    ASSUME NEW n \in Nat, NEW S, n \in S, \A k \in 1 .. n - 1 : k + 1 \in S => k \in S
    PROVE  \A k \in 1 .. n : k \in S
<1> DEFINE T == {k \in Nat : n + 1 - k \in S}
<1>1. 1 \in T
  OBVIOUS
<1>2. ASSUME NEW k \in 1 .. n - 1, k \in T PROVE k + 1 \in T
  <2> DEFINE j == n + 1 - (k + 1)
  <2>1. j \in 1 .. n - 1 /\ j + 1 = n + 1 - k
    OBVIOUS
  <2> HIDE DEF j
  <2>2. j \in S
    BY <1>2, <2>1
  <2>3. k + 1 \in Nat
    OBVIOUS
  <2> QED
    BY <2>2, <2>3 DEF j
<1> HIDE DEF T
<1>3. \A k \in 1 .. n : k \in T
  BY <1>1, <1>2, InductionTo
<1>4. ASSUME NEW k \in 1 .. n PROVE k \in S
  <2> DEFINE j == n + 1 - k
  <2>1. j \in 1 .. n /\ n + 1 - j = k
    OBVIOUS
  <2> HIDE DEF j
  <2> QED
    BY <1>3, <2>1 DEF T
<1> QED
  BY <1>4

\* What Rest of ReadAll is at i, given what it is behind that.
RestAt(count, item, i, next) ==
    [at \in Nat \ {0} |->
        IF i > count \/ ~item[i][at].ok THEN <<>>
        ELSE <<item[i][at].value>> \o next[item[i][at].next]]

\* The recursive function of ReadAll exists.
LEMMA RestExists ==
    ASSUME NEW count \in Nat, NEW item
    PROVE  \E f : f = [i \in 1 .. count + 1 |-> RestAt(count, item, i, f[i + 1])]
<1> DEFINE Is(f, k) == \A i \in k .. count + 1 : f[i] = RestAt(count, item, i, f[i + 1])
           S == {k \in Nat : \E f : f = [i \in 1 .. count + 1 |-> f[i]] /\ Is(f, k)}
<1>1. count + 1 \in S
  <2> DEFINE g == [i \in 1 .. count + 1 |-> RestAt(count, item, count + 1, 0)]
  <2>1. \A next : RestAt(count, item, count + 1, next) = [at \in Nat \ {0} |-> <<>>]
    BY DEF RestAt
  <2>2. g[count + 1] = RestAt(count, item, count + 1, g[count + 2])
    BY <2>1
  <2>3. g = [i \in 1 .. count + 1 |-> g[i]]
    OBVIOUS
  <2> HIDE DEF g
  <2>4. Is(g, count + 1)
    BY <2>2
  <2>5. count + 1 \in Nat
    OBVIOUS
  <2> HIDE DEF Is
  <2> QED
    BY <2>3, <2>4, <2>5
<1>2. ASSUME NEW k \in 1 .. count, k + 1 \in S PROVE k \in S
  <2>1. PICK f : f = [i \in 1 .. count + 1 |-> f[i]] /\ Is(f, k + 1)
    BY <1>2
  <2> DEFINE g == [i \in 1 .. count + 1 |->
                      IF i = k THEN RestAt(count, item, k, f[k + 1]) ELSE f[i]]
  <2>2. g = [i \in 1 .. count + 1 |-> g[i]]
    OBVIOUS
  <2>3. /\ g[k] = RestAt(count, item, k, f[k + 1])
        /\ \A i \in k + 1 .. count + 1 : g[i] = f[i]
    OBVIOUS
  <2> HIDE DEF g
  <2>4. ASSUME NEW i \in k .. count + 1 PROVE g[i] = RestAt(count, item, i, g[i + 1])
    <3>1. CASE i = k
      BY <2>3, <3>1
    <3>2. CASE i # k /\ i # count + 1
      <4>1. i \in k + 1 .. count + 1 /\ i + 1 \in k + 1 .. count + 1
        BY <3>2
      <4> QED
        BY <2>1, <2>3, <4>1
    <3>3. CASE i = count + 1
      <4>1. \A next : RestAt(count, item, count + 1, next) = [at \in Nat \ {0} |-> <<>>]
        BY DEF RestAt
      <4>2. i \in k + 1 .. count + 1
        BY <3>3
      <4>3. g[i] = RestAt(count, item, i, f[i + 1])
        BY <2>1, <2>3, <4>2
      <4> QED
        BY <3>3, <4>1, <4>3
    <3> QED
      BY <3>1, <3>2, <3>3
  <2>5. Is(g, k) /\ k \in Nat
    BY <2>4
  <2> HIDE DEF Is
  <2> QED
    BY <2>2, <2>5
<1> HIDE DEF S
<1>3. \A k \in 1 .. count + 1 : k \in S
  BY <1>1, <1>2, InductionDown
<1>4. 1 \in S
  BY <1>3
<1>5. PICK f : f = [i \in 1 .. count + 1 |-> f[i]] /\ Is(f, 1)
  BY <1>4 DEF S
<1>6. f = [i \in 1 .. count + 1 |-> RestAt(count, item, i, f[i + 1])]
  BY <1>5
<1> QED
  BY <1>6

\* The equation of Rest, for every index.
IsRest(count, item, f) ==
    \A i \in 1 .. count + 1 : \A at \in Nat \ {0} :
        f[i][at] = IF i > count \/ ~item[i][at].ok THEN <<>>
                   ELSE <<item[i][at].value>> \o f[i + 1][item[i][at].next]

\* Items yield values of V and an index behind what they read.
ItemsOf(count, item, V) ==
    \A i \in 1 .. count : \A at \in Nat \ {0} :
        item[i][at].ok => item[i][at].value \in V /\ item[i][at].next \in Nat \ {0}

\* The first k items, each read at its index, are read as vals.
ReadAs(item, at, vals, k) ==
    \A i \in 1 .. k : item[i][at[i]] = Read(vals[i], at[i + 1])

\* r is the first k of vals with t behind them.
IsPrefixed(r, vals, k, t) ==
    /\ Len(r) = k + Len(t)
    /\ \A m \in 1 .. Len(t) : r[k + m] = t[m]
    /\ \A m \in 1 .. k : r[m] = vals[m]

\* ReadAll unfolded.
LEMMA ReadAllIs ==
    ASSUME NEW count \in Nat, NEW item, NEW first
    PROVE  \E f : /\ ReadAll(count, item, first) = f[1][first]
                  /\ IsRest(count, item, f)
<1>1. ReadAll(count, item, first)
        = (CHOOSE Rest : Rest = [i \in 1 .. count + 1 |-> RestAt(count, item, i, Rest[i + 1])])[1][first]
  BY Zenon DEF ReadAll, RestAt
<1> DEFINE f == CHOOSE Rest : Rest = [i \in 1 .. count + 1 |-> RestAt(count, item, i, Rest[i + 1])]
<1>2. f = [i \in 1 .. count + 1 |-> RestAt(count, item, i, f[i + 1])]
  <2>1. \E g : g = [i \in 1 .. count + 1 |-> RestAt(count, item, i, g[i + 1])]
    BY RestExists
  <2> QED
    BY <2>1, Zenon
<1>3. ReadAll(count, item, first) = f[1][first]
  BY <1>1, Zenon
<1> HIDE DEF f
<1>4. \A i \in 1 .. count + 1 : f[i] = RestAt(count, item, i, f[i + 1])
  BY <1>2
<1>5. ASSUME NEW i \in 1 .. count + 1, NEW at \in Nat \ {0}
      PROVE  f[i][at] = IF i > count \/ ~item[i][at].ok THEN <<>>
                        ELSE <<item[i][at].value>> \o f[i + 1][item[i][at].next]
  BY <1>4, Zenon DEF RestAt
<1>6. IsRest(count, item, f)
  BY <1>5, Zenon DEF IsRest
<1> QED
  BY <1>3, <1>6, Zenon

\* A sequence with one more element in front.
LEMMA InFront ==
    ASSUME NEW V, NEW v \in V, NEW u \in Seq(V)
    PROVE  /\ <<v>> \o u \in Seq(V)
           /\ Len(<<v>> \o u) = Len(u) + 1 /\ Len(u) \in Nat
           /\ (<<v>> \o u)[1] = v
           /\ \A m \in 1 .. Len(u) : (<<v>> \o u)[m + 1] = u[m]
<1> DEFINE one == <<v>>
<1>1. one \in Seq(V) /\ Len(one) = 1 /\ one[1] = v /\ Len(u) \in Nat
  BY LenProperties
<1> HIDE DEF one
<1>2. /\ one \o u \in Seq(V) /\ Len(one \o u) = Len(one) + Len(u)
      /\ \A i \in 1 .. Len(one) + Len(u) :
             (one \o u)[i] = IF i <= Len(one) THEN one[i] ELSE u[i - Len(one)]
  BY <1>1, ConcatProperties
<1>3. (one \o u)[1] = v /\ Len(one \o u) = Len(u) + 1
  BY <1>1, <1>2
<1>4. ASSUME NEW m \in 1 .. Len(u) PROVE (one \o u)[m + 1] = u[m]
  <2> DEFINE i == m + 1
  <2>1. i \in 1 .. Len(one) + Len(u) /\ ~(i <= Len(one)) /\ i - Len(one) = m
    BY <1>1
  <2> HIDE DEF i
  <2>2. (one \o u)[i] = u[m]
    BY <1>2, <2>1
  <2> QED
    BY <2>2 DEF i
<1> QED
  BY <1>1, <1>2, <1>3, <1>4 DEF one

\* The rest that is read from any index is a sequence of values.
LEMMA RestType ==
    ASSUME NEW count \in Nat, NEW item, NEW V, NEW f,
           ItemsOf(count, item, V), IsRest(count, item, f)
    PROVE  \A i \in 1 .. count + 1 : \A a \in Nat \ {0} : f[i][a] \in Seq(V)
<1> DEFINE S == {i \in Nat : \A a \in Nat \ {0} : f[i][a] \in Seq(V)}
<1>1. count + 1 \in S
  <2>1. ASSUME NEW a \in Nat \ {0} PROVE f[count + 1][a] = <<>>
    <3>1. count + 1 \in 1 .. count + 1 /\ count + 1 > count
      OBVIOUS
    <3> QED
      BY <3>1 DEF IsRest
  <2>2. count + 1 \in Nat
    OBVIOUS
  <2> QED
    BY <2>1, <2>2, EmptySeq
<1>2. ASSUME NEW i \in 1 .. count, i + 1 \in S PROVE i \in S
  <2> SUFFICES ASSUME NEW a \in Nat \ {0} PROVE f[i][a] \in Seq(V)
    OBVIOUS
  <2>1. i \in 1 .. count + 1 /\ ~(i > count)
    OBVIOUS
  <2>2. CASE ~item[i][a].ok
    <3>1. f[i][a] = <<>>
      BY <2>1, <2>2 DEF IsRest
    <3> QED
      BY <3>1
  <2>3. CASE item[i][a].ok
    <3>1. item[i][a].value \in V /\ item[i][a].next \in Nat \ {0}
      BY <2>3 DEF ItemsOf
    <3>2. f[i + 1][item[i][a].next] \in Seq(V)
      BY <1>2, <3>1
    <3>3. f[i][a] = <<item[i][a].value>> \o f[i + 1][item[i][a].next]
      BY <2>1, <2>3 DEF IsRest
    <3> DEFINE v == item[i][a].value
               u == f[i + 1][item[i][a].next]
    <3>4. v \in V /\ u \in Seq(V) /\ f[i][a] = <<v>> \o u
      BY <3>1, <3>2, <3>3
    <3> HIDE DEF v, u
    <3> QED
      BY <3>4, InFront
  <2> QED
    BY <2>2, <2>3
<1> HIDE DEF S
<1>3. \A i \in 1 .. count + 1 : i \in S
  <2> DEFINE n == count + 1
  <2>1. n \in Nat /\ n - 1 = count
    OBVIOUS
  <2>2. n \in S
    BY <1>1
  <2> HIDE DEF n
  <2>3. \A i \in 1 .. n : i \in S
    <3>1. \A i \in 1 .. n - 1 : i + 1 \in S => i \in S
      BY <1>2, <2>1
    <3> QED
      BY <2>1, <2>2, <3>1, InductionDown
  <2> QED
    BY <2>3 DEF n
<1> QED
  BY <1>3 DEF S

\* As long as the items are read as they should be, at the indices at, their
\* values are returned, and then what is read behind them.
LEMMA RestPrefix ==
    ASSUME NEW count \in Nat, NEW item, NEW V, NEW f,
           ItemsOf(count, item, V), IsRest(count, item, f),
           NEW at \in [1 .. count + 1 -> Nat \ {0}], NEW vals, NEW k \in 0 .. count,
           ReadAs(item, at, vals, k)
    PROVE  IsPrefixed(f[1][at[1]], vals, k, f[k + 1][at[k + 1]])
<1> DEFINE g == [j \in 1 .. count + 1 |-> f[j][at[j]]]
           r == g[1]
           Good(j, t) == /\ Len(r) = j - 1 + Len(t)
                         /\ \A m \in 1 .. Len(t) : r[j - 1 + m] = t[m]
                         /\ \A m \in 1 .. j - 1 : r[m] = vals[m]
           S == {j \in Nat : Good(j, g[j])}
<1>1. \A j \in 1 .. count + 1 : g[j] = f[j][at[j]] /\ at[j] \in Nat \ {0}
  OBVIOUS
<1>2. \A j \in 1 .. count + 1 : g[j] \in Seq(V)
  BY <1>1, RestType
<1>3. \A j \in 1 .. count + 1 : Len(g[j]) \in Nat
  BY <1>2, LenProperties
<1>4. ASSUME NEW j \in 1 .. k
      PROVE  vals[j] \in V /\ g[j] = <<vals[j]>> \o g[j + 1]
  <2>1. j \in 1 .. count /\ j \in 1 .. count + 1 /\ j + 1 \in 1 .. count + 1 /\ ~(j > count)
    OBVIOUS
  <2> DEFINE a == at[j]
             x == item[j][a]
  <2>2. x.ok /\ x.value = vals[j] /\ x.next = at[j + 1]
    <3>1. x = Read(vals[j], at[j + 1])
      BY DEF ReadAs
    <3> HIDE DEF x
    <3> QED
      BY <3>1 DEF Read
  <2>3. f[j][at[j]] = <<vals[j]>> \o f[j + 1][at[j + 1]]
    <3>1. a \in Nat \ {0}
      BY <2>1
    <3> HIDE DEF a
    <3>2. f[j][a] = IF j > count \/ ~x.ok THEN <<>> ELSE <<x.value>> \o f[j + 1][x.next]
      BY <2>1, <3>1 DEF IsRest
    <3> HIDE DEF x
    <3>3. f[j][a] = <<x.value>> \o f[j + 1][x.next]
      BY <2>1, <2>2, <3>2
    <3> QED
      BY <2>2, <3>3 DEF a
  <2>4. vals[j] \in V
    <3>1. a \in Nat \ {0}
      BY <2>1
    <3> HIDE DEF a
    <3> QED
      BY <2>1, <2>2, <3>1 DEF ItemsOf
  <2> HIDE DEF g
  <2> QED
    BY <1>1, <2>1, <2>3, <2>4
<1> HIDE DEF g
<1>5. 1 \in S
  <2>1. 1 \in 1 .. count + 1
    OBVIOUS
  <2>2. Len(g[1]) \in Nat
    BY <1>3, <2>1
  <2> QED
    BY <2>2
<1>6. ASSUME NEW j \in 1 .. k, j \in S PROVE j + 1 \in S
  <2> DEFINE t == g[j]
             u == g[j + 1]
  <2>1. j \in 1 .. count + 1 /\ j + 1 \in 1 .. count + 1
    OBVIOUS
  <2>2. vals[j] \in V /\ t = <<vals[j]>> \o u /\ u \in Seq(V)
    BY <1>2, <1>4, <2>1
  <2>3. Good(j, t)
    BY <1>6
  <2> HIDE DEF t, u, r
  <2>4. /\ Len(t) = Len(u) + 1 /\ Len(u) \in Nat /\ t[1] = vals[j]
        /\ \A m \in 1 .. Len(u) : t[m + 1] = u[m]
    BY <2>2, InFront
  <2>5. Len(r) = j + Len(u)
    BY <2>3, <2>4
  <2>6. ASSUME NEW m \in 1 .. Len(u) PROVE r[j + m] = u[m]
    <3>1. m + 1 \in 1 .. Len(t) /\ j - 1 + (m + 1) = j + m
      BY <2>4
    <3>2. r[j - 1 + (m + 1)] = t[m + 1]
      BY <2>3, <3>1
    <3> QED
      BY <2>4, <3>1, <3>2
  <2>7. ASSUME NEW m \in 1 .. j PROVE r[m] = vals[m]
    <3>1. CASE m = j
      <4>1. 1 \in 1 .. Len(t) /\ j - 1 + 1 = j
        BY <2>4
      <4>2. r[j - 1 + 1] = t[1]
        BY <2>3, <4>1
      <4> QED
        BY <2>4, <3>1, <4>1, <4>2
    <3>2. CASE m # j
      <4>1. m \in 1 .. j - 1
        BY <3>2
      <4> QED
        BY <2>3, <4>1
    <3> QED
      BY <3>1, <3>2
  <2>8. j + 1 \in Nat /\ j + 1 - 1 = j
    OBVIOUS
  <2>9. Good(j + 1, u)
    BY <2>5, <2>6, <2>7, <2>8
  <2> HIDE DEF Good
  <2> QED
    BY <2>8, <2>9 DEF u
<1> HIDE DEF S
<1>7. k + 1 \in S
  <2> DEFINE n == k + 1
  <2>1. n \in Nat /\ n - 1 = k /\ n \in 1 .. n
    OBVIOUS
  <2> HIDE DEF n
  <2>2. \A j \in 1 .. n - 1 : j \in S => j + 1 \in S
    BY <1>6, <2>1
  <2>3. \A j \in 1 .. n : j \in S
    BY <1>5, <2>1, <2>2, InductionTo
  <2> QED
    BY <2>1, <2>3 DEF n
<1>8. Good(k + 1, g[k + 1])
  BY <1>7 DEF S
<1>9. k + 1 - 1 = k /\ 1 \in 1 .. count + 1 /\ k + 1 \in 1 .. count + 1
  OBVIOUS
<1>10. g[1] = f[1][at[1]] /\ g[k + 1] = f[k + 1][at[k + 1]]
  BY <1>1, <1>9
<1> DEFINE t == g[k + 1]
<1>11. IsPrefixed(r, vals, k, t)
  <2>1. Good(k + 1, t)
    BY <1>8
  <2> HIDE DEF t, r
  <2> QED
    BY <1>9, <2>1 DEF IsPrefixed
<1> QED
  BY <1>10, <1>11

\* r is what ReadAll returns when vals are read up to the k-th, which next follows.
IsReadUpTo(r, vals, k, count, next) ==
    /\ Len(r) \in Nat
    /\ \A i \in 1 .. k : r[i] = vals[i]
    /\ k = count => Len(r) = k
    /\ k < count /\ ~next.ok => Len(r) = k
    /\ k < count /\ next.ok => Len(r) > k /\ r[k + 1] = next.value

\* ReadAll returns the values that can be read, up to the item that cannot.
LEMMA ReadAllPrefix ==
    ASSUME NEW count \in Nat, NEW item, NEW V,
           ItemsOf(count, item, V),
           NEW at \in [1 .. count + 1 -> Nat \ {0}], NEW vals, NEW k \in 0 .. count,
           ReadAs(item, at, vals, k)
    PROVE  LET r == ReadAll(count, item, at[1])
           IN  r \in Seq(V) /\ IsReadUpTo(r, vals, k, count, item[k + 1][at[k + 1]])
<1> DEFINE r == ReadAll(count, item, at[1])
           n == k + 1
           x == item[n][at[n]]
<1>1. PICK f : r = f[1][at[1]] /\ IsRest(count, item, f)
  BY ReadAllIs
<1> DEFINE t == f[n][at[n]]
<1>2. \A i \in 1 .. count + 1 : \A a \in Nat \ {0} : f[i][a] \in Seq(V)
  BY <1>1, RestType
<1>3. /\ Len(r) = k + Len(t)
      /\ \A m \in 1 .. Len(t) : r[k + m] = t[m]
      /\ \A m \in 1 .. k : r[m] = vals[m]
  <2>1. IsPrefixed(f[1][at[1]], vals, k, f[k + 1][at[k + 1]])
    BY <1>1, RestPrefix
  <2>2. IsPrefixed(r, vals, k, t)
    BY <1>1, <2>1, Zenon
  <2> HIDE DEF r, t
  <2> QED
    BY <2>2 DEF IsPrefixed
<1>4. n \in 1 .. count + 1 /\ 1 \in 1 .. count + 1 /\ at[1] \in Nat \ {0} /\ at[n] \in Nat \ {0}
  OBVIOUS
<1>5. r \in Seq(V) /\ t \in Seq(V) /\ Len(r) \in Nat
  BY <1>1, <1>2, <1>4, LenProperties
<1>6. t = IF n > count \/ ~x.ok THEN <<>> ELSE <<x.value>> \o f[n + 1][x.next]
  BY <1>1, <1>4 DEF IsRest
<1>7. ASSUME k = count \/ ~x.ok PROVE Len(r) = k
  <2>1. t = <<>>
    BY <1>6, <1>7
  <2> HIDE DEF t, r
  <2> QED
    BY <1>3, <2>1
<1>8. ASSUME k < count, x.ok PROVE Len(r) > k /\ r[k + 1] = x.value
  <2>1. n \in 1 .. count /\ n + 1 \in 1 .. count + 1 /\ ~(n > count)
    BY <1>8
  <2> DEFINE v == x.value
             u == f[n + 1][x.next]
  <2>2. v \in V /\ x.next \in Nat \ {0}
    BY <1>4, <1>8, <2>1 DEF ItemsOf
  <2>3. u \in Seq(V)
    BY <1>2, <2>1, <2>2
  <2>4. t = <<v>> \o u
    BY <1>6, <1>8, <2>1
  <2> HIDE DEF v, u, t, r, x
  <2>5. Len(t) = Len(u) + 1 /\ Len(u) \in Nat /\ t[1] = v
    BY <2>2, <2>3, <2>4, InFront
  <2>6. 1 \in 1 .. Len(t)
    BY <2>5
  <2>7. r[k + 1] = v
    BY <1>3, <2>5, <2>6
  <2> QED
    BY <1>3, <2>5, <2>7 DEF v
<1> HIDE DEF r, x, t
<1>9. IsReadUpTo(r, vals, k, count, x)
  BY <1>3, <1>5, <1>7, <1>8 DEF IsReadUpTo
<1> QED
  BY <1>5, <1>9 DEF r, x, n

\* What ReadField yields is behind at, so that the next field can be read.
LEMMA ReadStringNext ==
    ASSUME NEW data \in Seq(Byte), NEW at \in Nat \ {0}, NEW width \in {2, 4},
           ReadString(data, at, width).ok
    PROVE  /\ ReadString(data, at, width).next \in Nat \ {0}
           /\ ReadString(data, at, width).value \in Seq(Byte)
<1> DEFINE length == IF width = 2 THEN read_uint16(data, at) ELSE read_uint32(data, at)
           next == at + width + length
<1>1. /\ at + width - 1 <= Len(data) /\ next - 1 <= Len(data)
      /\ ReadString(data, at, width) = Read(SubSeq(data, at + width, next - 1), next)
  BY DEF ReadString, NotRead
<1>2. Len(data) \in Nat
  BY LenProperties
<1>3. length \in Nat
  <2>1. CASE width = 2
    <3>1. at \in 1 .. Len(data) /\ at + 1 \in 1 .. Len(data)
      BY <1>1, <1>2, <2>1
    <3>2. data[at] \in Byte /\ data[at + 1] \in Byte
      BY <3>1, ElementOfSeq
    <3>3. data[at] * Base + data[at + 1] \in Nat
      BY <3>2, NextByte, Widths
    <3> QED
      BY <2>1, <3>3 DEF read_uint16
  <2>2. CASE width = 4
    <3>1. {at, at + 1, at + 2, at + 3} \subseteq 1 .. Len(data)
      BY <1>1, <1>2, <2>2
    <3>2. data[at] \in Byte /\ data[at + 1] \in Byte /\ data[at + 2] \in Byte /\ data[at + 3] \in Byte
      BY <3>1, ElementOfSeq
    <3>3. data[at] * Base + data[at + 1] \in Nat
      BY <3>2, NextByte, Widths
    <3>4. (data[at] * Base + data[at + 1]) * Base + data[at + 2] \in Nat
      BY <3>2, <3>3, NextByte
    <3>5. ((data[at] * Base + data[at + 1]) * Base + data[at + 2]) * Base + data[at + 3] \in Nat
      BY <3>2, <3>4, NextByte
    <3> QED
      BY <2>2, <3>5 DEF read_uint32
  <2> QED
    BY <2>1, <2>2
<1> HIDE DEF length
<1>4. at + width \in Nat \ {0} /\ next \in Nat \ {0} /\ next - 1 \in Nat
  BY <1>3
<1> HIDE DEF next
<1>5. SubSeq(data, at + width, next - 1) \in Seq(Byte)
  BY <1>1, <1>4, Piece
<1> QED
  BY <1>1, <1>4, <1>5 DEF Read

\* Behind a field there is an index at which the next one can be read.
LEMMA ReadFieldNext ==
    ASSUME NEW data \in Seq(Byte), NEW at \in Nat \ {0}, NEW type, ReadField(type, data, at).ok
    PROVE  ReadField(type, data, at).next \in Nat \ {0}
<1> DEFINE r == ReadField(type, data, at)
<1>1. CASE type \in {"code", "success", "int32", "int64"}
  <2>1. r = NotRead \/ \E v : \E n \in {at + 2, at + 4, at + 8} : r = Read(v, n)
    BY <1>1 DEF ReadField
  <2> QED
    BY <2>1 DEF Read, NotRead
<1>2. CASE type = "string"
  <2>1. r = NotRead \/ r = ReadString(data, at, 2)
    BY <1>2 DEF ReadField
  <2> QED
    BY <2>1, ReadStringNext DEF NotRead
<1>3. CASE type = "text"
  <2>1. r = NotRead \/ r = ReadString(data, at, 4)
    BY <1>3 DEF ReadField
  <2> QED
    BY <2>1, ReadStringNext DEF NotRead
<1>4. CASE type = "optional"
  <2>1. r = ReadOptional(data, at)
    BY <1>4 DEF ReadField
  <2>2. \/ r = Read(<<>>, at) \/ r = Read(<<>>, at + 2)
        \/ (r = ReadString(data, at, 2) /\ ReadString(data, at, 2).ok)
    BY <2>1 DEF ReadOptional
  <2> QED
    BY <2>2, ReadStringNext DEF Read
<1>5. CASE type = "friends"
  <2>1. r = NotRead \/ r = ReadFriends(data, at)
    BY <1>5 DEF ReadField
  <2>2. ReadFriends(data, at).next = Len(data) + 1 /\ Len(data) \in Nat
    BY LenProperties DEF ReadFriends, Read
  <2> QED
    BY <2>1, <2>2 DEF NotRead
<1>6. CASE type \notin {"code", "success", "int32", "int64", "string", "text", "optional", "friends"}
  <2>1. r = NotRead
    BY <1>6 DEF ReadField
  <2> QED
    BY <2>1 DEF NotRead
<1> QED
  BY <1>1, <1>2, <1>3, <1>4, <1>5, <1>6

-----------------------------------------------------------------------------
(* One field *)

\* A number of eight bytes is read as it was written.
LEMMA ReadInt64 ==
    ASSUME NEW v \in 0 .. Max32 * Max32 - 1, NEW data \in Seq(Byte), NEW at \in Nat \ {0},
           Holds(data, at, write_int64(v))
    PROVE  /\ Len(write_int64(v)) = 8
           /\ at + 7 <= Len(data) /\ read_int64(data, at) = v
<1> DEFINE q == v \div Max32
           r == v % Max32
           hi == write_uint32(q)
           lo == write_uint32(r)
<1>1. Max32 \in Nat /\ Max32 > 0 /\ Max32 * Max32 \in Nat /\ v \in Nat /\ v < Max32 * Max32
  <2>1. Max32 \in Nat /\ Max32 > 0
    BY Widths
  <2> QED
    BY <2>1
<1>2. q \in Nat /\ r \in Nat /\ r < Max32 /\ v = q * Max32 + r
  BY <1>1
<1>3. q < Max32
  <2> HIDE DEF q, r
  <2> SUFFICES ASSUME q >= Max32 PROVE FALSE
    BY <1>1, <1>2
  <2>1. PICK k \in Nat : q = Max32 + k
    <3>1. q - Max32 \in Nat /\ q = Max32 + (q - Max32)
      BY <1>1, <1>2
    <3> QED
      BY <3>1
  <2>2. q * Max32 = Max32 * Max32 + k * Max32 /\ k * Max32 \in Nat
    BY <1>1, <2>1
  <2> QED
    BY <1>1, <1>2, <2>2
<1>4. q % Max32 = q
  BY <1>1, <1>2, <1>3, Cast
<1> HIDE DEF r
<1>5. write_int64(v) = hi \o lo
  BY <1>4 DEF write_int64, r
<1> HIDE DEF q
<1>6. hi \in Seq(Byte) /\ Len(hi) = 4 /\ lo \in Seq(Byte) /\ Len(lo) = 4
  BY <1>2, <1>3, ReadWrite32 DEF write_uint32
<1> HIDE DEF hi, lo
<1>7. Holds(data, at, hi) /\ Holds(data, at + 4, lo) /\ Len(hi \o lo) = 8
  <2>1. Holds(data, at, hi \o lo)
    BY <1>5
  <2>2. Holds(data, at, hi) /\ Holds(data, at + Len(hi), lo)
    BY <1>6, <2>1, HoldsParts
  <2>3. Len(hi \o lo) = Len(hi) + Len(lo)
    BY <1>6, Concat
  <2> QED
    BY <1>6, <2>2, <2>3
<1>8. read_uint32(data, at) = q
  BY <1>2, <1>3, <1>7, Read32 DEF hi
<1>9. at + 4 \in Nat \ {0} /\ read_uint32(data, at + 4) = r /\ at + 4 + 3 <= Len(data)
  BY <1>2, <1>7, Read32 DEF lo
<1>10. read_int64(data, at) = q * Max32 + r
  BY <1>8, <1>9 DEF read_int64
<1>11. Len(data) \in Nat /\ at + 4 + 3 = at + 7
  BY LenProperties
<1> QED
  BY <1>2, <1>5, <1>7, <1>9, <1>10, <1>11

-----------------------------------------------------------------------------
(* Bodies *)

\* Any number is written as bytes.
LEMMA NumberBytes ==
    ASSUME NEW n \in Nat
    PROVE  write_uint16(n) \in Seq(Byte) /\ write_uint32(n) \in Seq(Byte)
<1>1. Shift(n) \in Nat /\ n % Base \in Byte
  BY LowByte
<1>2. Shift(Shift(n)) \in Nat /\ Shift(n) % Base \in Byte
  BY <1>1, LowByte
<1>3. Shift(Shift(Shift(n))) \in Nat /\ Shift(Shift(n)) % Base \in Byte
  BY <1>2, LowByte
<1>4. Shift(Shift(Shift(n))) % Base \in Byte
  BY <1>3, LowByte
<1> QED
  BY <1>1, <1>2, <1>3, <1>4 DEF write_uint16, write_uint32

\* Integers and strings are written as bytes.
LEMMA IntStringBytes ==
    /\ \A v \in Int : write_int32(v) \in Seq(Byte) /\ write_int64(v) \in Seq(Byte)
    /\ \A s \in Seq(Byte) : write_string(s) \in Seq(Byte)
<1>1. Max16 \in Nat /\ Max16 > 0 /\ Max32 \in Nat /\ Max32 > 0
  BY Widths
<1>2. ASSUME NEW v \in Int PROVE write_int32(v) \in Seq(Byte) /\ write_int64(v) \in Seq(Byte)
  <2>1. v % Max32 \in Nat /\ (v \div Max32) % Max32 \in Nat
    BY <1>1
  <2>2. write_uint32(v % Max32) \in Seq(Byte) /\ write_uint32((v \div Max32) % Max32) \in Seq(Byte)
    BY <2>1, NumberBytes
  <2> QED
    BY <2>2, ConcatProperties DEF write_int32, write_int64
<1>3. ASSUME NEW s \in Seq(Byte) PROVE write_string(s) \in Seq(Byte)
  <2>1. Len(s) % Max16 \in Nat
    BY <1>1, LenProperties
  <2>2. write_uint16(Len(s) % Max16) \in Seq(Byte)
    BY <2>1, NumberBytes
  <2> QED
    BY <2>2, ConcatProperties DEF write_string
<1> QED
  BY <1>2, <1>3

FieldTypes == {"code", "success", "int32", "int64", "string", "optional", "text", "friends"}

\* The entries of a friend list as they are written.
FriendParts(v) == [i \in DOMAIN v |-> write_int32(v[i].id) \o write_string(v[i].name)]

\* Each is written as bytes.
LEMMA FriendBytes ==
    ASSUME NEW v \in FieldValues("friends")
    PROVE  Len(v) \in Nat /\ FriendParts(v) \in [1 .. Len(v) -> Seq(Byte)]
<1>1. v \in Seq([id : Int32Values, name : Seq(Byte)])
  BY DEF FieldValues
<1>2. Len(v) \in Nat /\ DOMAIN v = 1 .. Len(v)
  BY <1>1, LenProperties
<1>3. ASSUME NEW i \in 1 .. Len(v)
      PROVE  write_int32(v[i].id) \o write_string(v[i].name) \in Seq(Byte)
  <2>1. v[i] \in [id : Int32Values, name : Seq(Byte)]
    BY <1>1, ElementOfSeq
  <2>2. v[i].id \in Int /\ v[i].name \in Seq(Byte)
    <3>1. v[i].id \in Int32Values /\ v[i].name \in Seq(Byte)
      BY <2>1
    <3>2. Int32Values \subseteq Int
      BY Widths DEF Int32Values
    <3> QED
      BY <3>1, <3>2
  <2>3. write_int32(v[i].id) \in Seq(Byte) /\ write_string(v[i].name) \in Seq(Byte)
    BY <2>2, IntStringBytes
  <2> QED
    BY <2>3, ConcatProperties
<1> QED
  BY <1>2, <1>3 DEF FriendParts

\* Every field is written as bytes.
LEMMA WriteBytes ==
    ASSUME NEW w \in FieldTypes, NEW v \in FieldValues(w)
    PROVE  Write(w, v) \in Seq(Byte)
<1>1. CASE w \in {"code", "success"}
  <2>1. v \in Nat /\ Write(w, v) = write_uint16(v)
    BY <1>1, Widths DEF FieldValues, Write
  <2> QED
    BY <2>1, NumberBytes
<1>2. CASE w = "int32"
  <2>1. v \in Int32Values /\ Write(w, v) = write_int32(v)
    BY <1>2 DEF FieldValues, Write
  <2>2. v \in Int
    BY <2>1, Widths DEF Int32Values
  <2> QED
    BY <2>1, <2>2, IntStringBytes
<1>3. CASE w = "int64"
  <2>1. v \in Int /\ Write(w, v) = write_int64(v)
    BY <1>3, Widths DEF FieldValues, Write
  <2> QED
    BY <2>1, IntStringBytes
<1>4. CASE w \in {"string", "optional"}
  <2>1. v \in Seq(Byte) /\ Write(w, v) = write_string(v)
    BY <1>4 DEF FieldValues, Write
  <2> QED
    BY <2>1, IntStringBytes
<1>5. CASE w = "text"
  <2>1. v \in Seq(Byte) /\ Write(w, v) = write_uint32(Len(v)) \o v
    BY <1>5 DEF FieldValues, Strings, Write
  <2>2. write_uint32(Len(v)) \in Seq(Byte)
    BY <2>1, NumberBytes, LenProperties
  <2> QED
    BY <2>1, <2>2, ConcatProperties
<1>6. CASE w = "friends"
  <2>1. Write(w, v) = write_uint32(Len(v)) \o FlattenSeq(FriendParts(v))
    BY <1>6 DEF Write, FriendParts
  <2>2. Len(v) \in Nat /\ FriendParts(v) \in [1 .. Len(v) -> Seq(Byte)]
    BY <1>6, FriendBytes
  <2>3. write_uint32(Len(v)) \in Seq(Byte) /\ FlattenSeq(FriendParts(v)) \in Seq(Byte)
    BY <2>2, NumberBytes, Flatten
  <2> QED
    BY <2>1, <2>3, ConcatProperties
<1> QED
  BY <1>1, <1>2, <1>3, <1>4, <1>5, <1>6 DEF FieldTypes

\* What is held by what is held.
LEMMA HoldsIn ==
    ASSUME NEW data \in Seq(Byte), NEW at \in Nat \ {0}, NEW d \in Seq(Byte), Holds(data, at, d),
           NEW in \in Nat \ {0}, NEW part \in Seq(Byte), Holds(d, in, part)
    PROVE  Holds(data, at + in - 1, part)
<1>1. Len(data) \in Nat /\ Len(d) \in Nat /\ Len(part) \in Nat
  BY LenProperties
<1>2. at + Len(d) - 1 <= Len(data) /\ in + Len(part) - 1 <= Len(d)
  BY DEF Holds
<1>3. ASSUME NEW j \in 1 .. Len(part) PROVE data[at + in - 1 + j - 1] = part[j]
  <2>1. in + j - 1 \in 1 .. Len(d) /\ at + (in + j - 1) - 1 = at + in - 1 + j - 1
    BY <1>1, <1>2
  <2>2. data[at + (in + j - 1) - 1] = d[in + j - 1]
    BY <2>1 DEF Holds
  <2>3. d[in + j - 1] = part[j]
    BY DEF Holds
  <2> QED
    BY <2>1, <2>2, <2>3
<1> QED
  BY <1>1, <1>2, <1>3 DEF Holds

\* Friends whose names fit their lengths.
ShortFriends == Seq([id : Int32Values, name : Strings(Max16)])

\* An entry of a friend list is read as it was written.
LEMMA ReadFriendBack ==
    ASSUME NEW id \in Int32Values, NEW name \in Strings(Max16),
           NEW data \in Seq(Byte), NEW at \in Nat \ {0},
           Holds(data, at, write_int32(id) \o write_string(name))
    PROVE  LET part == write_int32(id) \o write_string(name)
           IN  ReadFriend(data, at) = Read([id |-> id, name |-> name], at + Len(part))
<1> DEFINE p == write_int32(id)
           q == write_string(name)
<1>1. p \in Seq(Byte) /\ q \in Seq(Byte) /\ name \in Seq(Byte) /\ Len(name) < Max16
  <2>1. name \in Seq(Byte) /\ Len(name) < Max16 /\ id \in Int
    BY Widths DEF Strings, Int32Values
  <2> QED
    BY <2>1, IntStringBytes
<1> HIDE DEF p, q
<1>2. Holds(data, at, p) /\ Holds(data, at + Len(p), q)
  BY <1>1, HoldsParts DEF p, q
<1>3. Len(p) = 4 /\ read_int32(data, at) = id
  BY <1>2, ReadInt32 DEF p
<1>4. Len(q) \in Nat /\ Len(p \o q) = 4 + Len(q) /\ Len(data) \in Nat
  <2>1. Len(p \o q) = Len(p) + Len(q)
    BY <1>1, Concat
  <2>2. Len(q) \in Nat /\ Len(data) \in Nat
    BY <1>1, LenProperties
  <2> QED
    BY <1>3, <2>1, <2>2
<1>5. at + 4 + 1 <= Len(data) /\ ReadString(data, at + 4, 2) = Read(name, at + 4 + Len(q))
  <2>1. at + 4 \in Nat \ {0} /\ Holds(data, at + 4, q)
    BY <1>2, <1>3
  <2> QED
    BY <1>1, <2>1, ReadShort DEF q
<1>6. at + 5 <= Len(data) /\ at + 4 + Len(q) = at + Len(p \o q)
  BY <1>4, <1>5
<1>7. ReadFriend(data, at) = Read([id |-> id, name |-> name], at + Len(p \o q))
  <2> DEFINE r == ReadString(data, at + 4, 2)
  <2>1. r.ok /\ r.value = name /\ r.next = at + Len(p \o q)
    BY <1>5, <1>6 DEF Read
  <2>2. ReadFriend(data, at) = IF at + 5 <= Len(data) /\ r.ok
                               THEN Read([id |-> read_int32(data, at), name |-> r.value], r.next)
                               ELSE NotRead
    BY DEF ReadFriend
  <2> HIDE DEF r
  <2> QED
    BY <1>3, <1>6, <2>1, <2>2
<1> QED
  BY <1>7 DEF p, q

\* Reading an entry yields an index at which the next one can be read.
LEMMA ReadFriendNext ==
    ASSUME NEW data \in Seq(Byte), NEW at \in Nat \ {0}, ReadFriend(data, at).ok
    PROVE  ReadFriend(data, at).next \in Nat \ {0}
<1>1. ReadFriend(data, at).next = ReadString(data, at + 4, 2).next /\ ReadString(data, at + 4, 2).ok
  BY DEF ReadFriend, Read, NotRead
<1>2. at + 4 \in Nat \ {0}
  OBVIOUS
<1> QED
  BY <1>1, <1>2, ReadStringNext

\* A friend list at the end of a body is read as it was written.
LEMMA ReadFriendsBack ==
    ASSUME NEW v \in ShortFriends, Len(v) < Max32,
           NEW data \in Seq(Byte), NEW at \in Nat \ {0},
           Holds(data, at, write_uint32(Len(v)) \o FlattenSeq(FriendParts(v)))
    PROVE  at + 3 <= Len(data) /\ ReadFriends(data, at) = Read(v, Len(data) + 1)
<1> DEFINE n == Len(v)
           p == write_uint32(n)
           s == FriendParts(v)
           q == FlattenSeq(s)
           item == [i \in 1 .. n |-> [a \in Nat \ {0} |-> ReadFriend(data, a)]]
           V == {ReadFriend(data, a).value : a \in Nat \ {0}}
           first == at + 4
           r == ReadAll(n, item, first)
<1>1. /\ n \in Nat /\ DOMAIN v = 1 .. n
      /\ \A i \in 1 .. n : /\ v[i].id \in Int32Values /\ v[i].name \in Strings(Max16)
                           /\ v[i] = [id |-> v[i].id, name |-> v[i].name]
  <2>1. \A i \in 1 .. n : v[i] \in [id : Int32Values, name : Strings(Max16)]
    BY ElementOfSeq DEF ShortFriends
  <2> QED
    BY <2>1, LenProperties DEF ShortFriends
<1>2. v \in FieldValues("friends")
  <2> DEFINE S == [id : Int32Values, name : Strings(Max16)]
             T == [id : Int32Values, name : Seq(Byte)]
  <2>1. S \subseteq T /\ v \in Seq(S)
    BY DEF Strings, ShortFriends
  <2> HIDE DEF S, T
  <2>2. v \in Seq(T)
    BY <2>1, SeqMonotonic
  <2> QED
    BY <2>2 DEF T, FieldValues
<1>3. s \in [1 .. n -> Seq(Byte)]
  BY <1>2, FriendBytes
<1>4. \A i \in 1 .. n : s[i] = write_int32(v[i].id) \o write_string(v[i].name)
  BY <1>1 DEF FriendParts
<1> HIDE DEF s
<1>5. /\ q \in Seq(Byte)
      /\ \E b \in [1 .. n + 1 -> Nat \ {0}] :
             /\ b[1] = 1
             /\ \A i \in 1 .. n : b[i + 1] = b[i] + Len(s[i]) /\ Holds(q, b[i], s[i])
  BY <1>1, <1>3, Flatten
<1>6. PICK b \in [1 .. n + 1 -> Nat \ {0}] :
          /\ b[1] = 1
          /\ \A i \in 1 .. n : b[i + 1] = b[i] + Len(s[i]) /\ Holds(q, b[i], s[i])
  BY <1>5
<1>7. p \in Seq(Byte)
  BY <1>1, NumberBytes
<1>8. Holds(data, at, p \o q)
  BY DEF s
<1> HIDE DEF p, q
<1>9. Holds(data, at, p) /\ Holds(data, at + Len(p), q)
  BY <1>5, <1>7, <1>8, HoldsParts
<1>10. Len(p) = 4 /\ at + 3 <= Len(data) /\ read_uint32(data, at) = n
  BY <1>1, <1>9, Read32 DEF p
<1> DEFINE c == [i \in 1 .. n + 1 |-> first + b[i] - 1]
<1>11. c \in [1 .. n + 1 -> Nat \ {0}] /\ c[1] = first
  <2>1. \A i \in 1 .. n + 1 : b[i] \in Nat \ {0}
    OBVIOUS
  <2> QED
    BY <1>1, <1>6, <2>1
<1>12. ASSUME NEW i \in 1 .. n PROVE item[i][c[i]] = Read(v[i], c[i + 1])
  <2> DEFINE id == v[i].id
             name == v[i].name
             part == write_int32(id) \o write_string(name)
             a == c[i]
  <2>0. s[i] = part /\ s[i] \in Seq(Byte)
    BY <1>3, <1>4
  <2> HIDE DEF part
  <2>1. s[i] = part /\ part \in Seq(Byte) /\ i \in 1 .. n + 1 /\ i + 1 \in 1 .. n + 1
    BY <1>1, <2>0
  <2>2. a = first + b[i] - 1 /\ a \in Nat \ {0} /\ b[i] \in Nat \ {0}
    BY <1>11, <2>1
  <2>3. c[i + 1] = first + b[i + 1] - 1 /\ b[i + 1] = b[i] + Len(part) /\ Len(part) \in Nat
    BY <1>6, <2>1, LenProperties
  <2>4. Holds(q, b[i], part) /\ Holds(data, first, q) /\ first \in Nat \ {0}
    BY <1>6, <1>9, <1>10, <2>1
  <2>5. id \in Int32Values /\ name \in Strings(Max16) /\ v[i] = [id |-> id, name |-> name]
    BY <1>1
  <2>6. item[i][a] = ReadFriend(data, a)
    BY <2>2
  <2>7. c[i + 1] = a + Len(part)
    BY <2>2, <2>3
  <2> HIDE DEF part, c, item, first, a
  <2>8. Holds(data, first + b[i] - 1, part)
    BY <1>5, <2>1, <2>2, <2>4, HoldsIn
  <2> HIDE DEF id, name
  <2>9. ReadFriend(data, a) = Read([id |-> id, name |-> name], a + Len(part))
    BY <2>2, <2>5, <2>8, ReadFriendBack DEF part
  <2> QED
    BY <2>5, <2>6, <2>7, <2>9 DEF a
<1> HIDE DEF c
<1>13. ReadAs(item, c, v, n)
  BY <1>12 DEF ReadAs
<1>14. ItemsOf(n, item, V)
  BY ReadFriendNext DEF ItemsOf
<1>15. ReadFriends(data, at) = Read(r, Len(data) + 1)
  BY <1>10 DEF ReadFriends
<1> HIDE DEF item, V, n
<1>16. r \in Seq(V) /\ IsReadUpTo(r, v, n, n, item[n + 1][c[n + 1]])
  <2>1. n \in 0 .. n
    BY <1>1
  <2> QED
    BY <1>1, <1>11, <1>13, <1>14, <2>1, ReadAllPrefix
<1> HIDE DEF r
<1>17. Len(r) = n /\ \A i \in 1 .. n : r[i] = v[i]
  BY <1>16 DEF IsReadUpTo
<1>18. r = v
  <2>1. DOMAIN r = 1 .. n /\ r = [i \in DOMAIN r |-> r[i]]
    BY <1>16, <1>17, LenProperties
  <2>2. v = [i \in DOMAIN v |-> v[i]]
    BY DEF ShortFriends
  <2> QED
    BY <1>1, <1>17, <2>1, <2>2
<1> QED
  BY <1>10, <1>15, <1>18

\* Values that a reader of a field of type t finds when the writer wrote v as
\* a field of type w.
Readable(w, t, v) ==
    /\ v \in FieldValues(w)
    /\ \/ w = t /\ w \in {"code", "int32", "int64", "text"}
       \/ w = "code" /\ t = "success" /\ v = 0
       \/ w = "string" /\ t \in {"string", "optional"} /\ Len(v) < Max16
       \/ w = "friends" /\ t = "friends" /\ v \in ShortFriends /\ Len(v) < Max32

\* A readable field is read as it was written; a friend list takes the rest of
\* the body.
LEMMA ReadBack ==
    ASSUME NEW w, NEW t, NEW v, Readable(w, t, v), NEW data \in Seq(Byte), NEW at \in Nat \ {0},
           Holds(data, at, Write(w, v)),
           w = "friends" => at + Len(Write(w, v)) = Len(data) + 1
    PROVE  ReadField(t, data, at) = Read(v, at + Len(Write(w, v)))
<1>1. CASE w = "code"
  <2>1. v \in Nat /\ v < Max16 /\ Write(w, v) = write_uint16(v)
    BY <1>1, Widths DEF Readable, FieldValues, Write
  <2>2. Len(Write(w, v)) = 2 /\ at + 1 <= Len(data) /\ read_uint16(data, at) = v
    BY <2>1, Read16
  <2> QED
    BY <1>1, <2>2 DEF Readable, ReadField, ErrorCode
<1>2. CASE w = "int32"
  <2>1. v \in Int32Values /\ Write(w, v) = write_int32(v) /\ t = "int32"
    BY <1>2 DEF Readable, FieldValues, Write
  <2>2. Len(Write(w, v)) = 4 /\ at + 3 <= Len(data) /\ read_int32(data, at) = v
    BY <2>1, ReadInt32
  <2> QED
    BY <2>1, <2>2 DEF ReadField
<1>3. CASE w = "int64"
  <2>1. v \in 0 .. Max32 * Max32 - 1 /\ Write(w, v) = write_int64(v) /\ t = "int64"
    BY <1>3 DEF Readable, FieldValues, Write
  <2>2. Len(Write(w, v)) = 8 /\ at + 7 <= Len(data) /\ read_int64(data, at) = v
    BY <2>1, ReadInt64
  <2> QED
    BY <2>1, <2>2 DEF ReadField
<1>4. CASE w = "text"
  <2>1. v \in Seq(Byte) /\ Len(v) < Max32 /\ Write(w, v) = write_uint32(Len(v)) \o v /\ t = "text"
    BY <1>4 DEF Readable, FieldValues, Strings, Write
  <2>2. at + 3 <= Len(data) /\ ReadString(data, at, 4) = Read(v, at + Len(Write(w, v)))
    BY <2>1, ReadText
  <2> QED
    BY <2>1, <2>2 DEF ReadField
<1>5. CASE w = "string"
  <2>1. /\ v \in Seq(Byte) /\ Len(v) < Max16 /\ Write(w, v) = write_string(v)
        /\ t \in {"string", "optional"}
    BY <1>5 DEF Readable, FieldValues, Write
  <2>2. at + 1 <= Len(data) /\ ReadString(data, at, 2) = Read(v, at + Len(Write(w, v)))
    BY <2>1, ReadShort
  <2>3. ReadString(data, at, 2).ok /\ ~(at + 1 > Len(data))
    <3>1. Len(data) \in Nat
      BY LenProperties
    <3> QED
      BY <2>2, <3>1 DEF Read
  <2>4. CASE t = "string"
    BY <2>2, <2>4 DEF ReadField
  <2>5. CASE t = "optional"
    <3>1. ReadField(t, data, at) = ReadOptional(data, at)
      BY <2>5 DEF ReadField
    <3> QED
      BY <2>2, <2>3, <3>1 DEF ReadOptional
  <2> QED
    BY <2>1, <2>4, <2>5
<1>6. CASE w = "friends"
  <2>1. /\ v \in ShortFriends /\ Len(v) < Max32 /\ t = "friends"
        /\ Write(w, v) = write_uint32(Len(v)) \o FlattenSeq(FriendParts(v))
    BY <1>6 DEF Readable, Write, FriendParts
  <2>2. at + 3 <= Len(data) /\ ReadFriends(data, at) = Read(v, Len(data) + 1)
    BY <2>1, ReadFriendsBack
  <2> QED
    BY <1>6, <2>1, <2>2 DEF ReadField
<1> QED
  BY <1>1, <1>2, <1>3, <1>4, <1>5, <1>6 DEF Readable

\* The layouts of bodies.
IsLayout(layout) ==
    /\ layout \in Seq([type : FieldTypes, name : FieldNames(layout)])
    /\ \A i, j \in 1 .. Len(layout) : layout[i].name = layout[j].name => i = j

\* Fields that can be written as the layout says.
Fitting(layout, fields) ==
    \A i \in 1 .. Len(layout) : fields[layout[i].name] \in FieldValues(layout[i].type)

\* Where the fields of a body are.
LEMMA Body ==
    ASSUME NEW layout, IsLayout(layout), NEW fields, Fitting(layout, fields)
    PROVE  /\ Encode(layout, fields) \in Seq(Byte) /\ Len(layout) \in Nat
           /\ \E at \in [1 .. Len(layout) + 1 -> Nat \ {0}] :
                 /\ at[1] = 1 /\ at[Len(layout) + 1] = Len(Encode(layout, fields)) + 1
                 /\ \A i \in 1 .. Len(layout) :
                       LET part == Write(layout[i].type, fields[layout[i].name])
                       IN  /\ at[i + 1] = at[i] + Len(part)
                           /\ Holds(Encode(layout, fields), at[i], part)
<1> DEFINE n == Len(layout)
           s == [i \in DOMAIN layout |-> Write(layout[i].type, fields[layout[i].name])]
<1>1. n \in Nat /\ DOMAIN layout = 1 .. n
  BY LenProperties DEF IsLayout
<1>2. \A i \in 1 .. n : layout[i].type \in FieldTypes
  <2>1. \A i \in 1 .. n : layout[i] \in [type : FieldTypes, name : FieldNames(layout)]
    BY ElementOfSeq DEF IsLayout
  <2> QED
    BY <2>1
<1>3. \A i \in 1 .. n : Write(layout[i].type, fields[layout[i].name]) \in Seq(Byte)
  BY <1>2, WriteBytes DEF Fitting
<1>4. /\ s \in [1 .. n -> Seq(Byte)]
      /\ \A i \in 1 .. n : s[i] = Write(layout[i].type, fields[layout[i].name])
  BY <1>1, <1>3
<1>5. Encode(layout, fields) = FlattenSeq(s)
  BY DEF Encode
<1> HIDE DEF s, n
<1>6. /\ FlattenSeq(s) \in Seq(Byte)
      /\ \E at \in [1 .. n + 1 -> Nat \ {0}] :
             /\ at[1] = 1 /\ at[n + 1] = Len(FlattenSeq(s)) + 1
             /\ \A i \in 1 .. n : /\ at[i + 1] = at[i] + Len(s[i])
                                  /\ Holds(FlattenSeq(s), at[i], s[i])
  BY <1>1, <1>4, Flatten
<1> QED
  BY <1>1, <1>4, <1>5, <1>6 DEF n

FieldItems(layout, data) ==
    [i \in DOMAIN layout |-> [at \in Nat \ {0} |-> ReadField(layout[i].type, data, at)]]

\* Decode puts what is read under the names of the layout, if all of it is there.
LEMMA DecodeIs ==
    ASSUME NEW layout, IsLayout(layout), NEW data
    PROVE  LET r == ReadAll(Len(layout), FieldItems(layout, data), 1)
           IN  /\ Len(r) # Len(layout) => Decode(layout, data) = {}
               /\ Len(r) = Len(layout) =>
                     \E f : /\ Decode(layout, data) = {f}
                            /\ f = [x \in FieldNames(layout) |-> f[x]]
                            /\ \A i \in 1 .. Len(layout) : f[layout[i].name] = r[i]
<1> DEFINE r == ReadAll(Len(layout), FieldItems(layout, data), 1)
           Index(x) == CHOOSE i \in DOMAIN layout : layout[i].name = x
           f == [x \in FieldNames(layout) |-> r[Index(x)]]
<1>1. Decode(layout, data) =
        {[x \in FieldNames(layout) |-> values[Index(x)]] :
            values \in {v \in {r} : Len(v) = Len(layout)}}
  BY DEF Decode, FieldNames, FieldItems
<1>2. Len(r) # Len(layout) => Decode(layout, data) = {}
  <2> HIDE DEF r, Index
  <2> QED
    BY <1>1
<1>3. Len(r) = Len(layout) => Decode(layout, data) = {f}
  <2> HIDE DEF r, Index
  <2> QED
    BY <1>1
<1>4. f = [x \in FieldNames(layout) |-> f[x]]
  OBVIOUS
<1>5. ASSUME NEW i \in 1 .. Len(layout) PROVE f[layout[i].name] = r[i]
  <2>1. DOMAIN layout = 1 .. Len(layout)
    BY LenProperties DEF IsLayout
  <2>2. Index(layout[i].name) \in DOMAIN layout /\ layout[Index(layout[i].name)].name = layout[i].name
    BY <2>1
  <2>3. Index(layout[i].name) = i
    BY <2>1, <2>2 DEF IsLayout
  <2>4. layout[i].name \in FieldNames(layout)
    BY <2>1 DEF FieldNames
  <2> HIDE DEF Index, r
  <2> QED
    BY <2>3, <2>4
<1> HIDE DEF f, r
<1> QED
  BY <1>2, <1>3, <1>4, <1>5 DEF r

\* Fields can be read one after the other.
LEMMA FieldItemsOf ==
    ASSUME NEW layout, IsLayout(layout), NEW data \in Seq(Byte)
    PROVE  /\ \A i \in 1 .. Len(layout) : \A at \in Nat \ {0} :
                  FieldItems(layout, data)[i][at] = ReadField(layout[i].type, data, at)
           /\ \E V : ItemsOf(Len(layout), FieldItems(layout, data), V)
<1> DEFINE n == Len(layout)
           item == FieldItems(layout, data)
           V == {item[i][at].value : i \in 1 .. n, at \in Nat \ {0}}
<1>1. DOMAIN layout = 1 .. n
  BY LenProperties DEF IsLayout
<1>2. \A i \in 1 .. n : \A at \in Nat \ {0} : item[i][at] = ReadField(layout[i].type, data, at)
  BY <1>1 DEF FieldItems
<1> HIDE DEF item, n
<1>3. ASSUME NEW i \in 1 .. n, NEW at \in Nat \ {0}, item[i][at].ok
      PROVE  item[i][at].value \in V /\ item[i][at].next \in Nat \ {0}
  <2>1. item[i][at].value \in V
    OBVIOUS
  <2>2. ReadField(layout[i].type, data, at).ok
    BY <1>2, <1>3
  <2>3. ReadField(layout[i].type, data, at).next \in Nat \ {0}
    BY <2>2, ReadFieldNext
  <2> QED
    BY <1>2, <2>1, <2>3
<1> HIDE DEF V
<1>4. ItemsOf(n, item, V)
  BY <1>3 DEF ItemsOf
<1> QED
  BY <1>2, <1>4 DEF n, item

\* The first k fields are read from the data, each at the index in at.
FieldsAreRead(layout, data, at, fields, k) ==
    /\ at \in [1 .. Len(layout) + 1 -> Nat \ {0}] /\ at[1] = 1
    /\ \A i \in 1 .. k :
           ReadField(layout[i].type, data, at[i]) = Read(fields[layout[i].name], at[i + 1])

\* Another field than the given ones is read next, or none.
ReadDiffers(layout, data, at, fields, i) ==
    LET next == ReadField(layout[i].type, data, at[i])
    IN  next.ok => next.value # fields[layout[i].name]

\* A body whose fields are all read as they should be is decoded to them.
LEMMA DecodeAll ==
    ASSUME NEW layout, IsLayout(layout), NEW data \in Seq(Byte), NEW at,
           NEW fields, fields = [x \in FieldNames(layout) |-> fields[x]],
           FieldsAreRead(layout, data, at, fields, Len(layout))
    PROVE  Decode(layout, data) = {fields}
<1> DEFINE n == Len(layout)
           item == FieldItems(layout, data)
           vals == [i \in 1 .. n |-> fields[layout[i].name]]
           r == ReadAll(n, item, 1)
<1>1. n \in Nat /\ n \in 0 .. n /\ DOMAIN layout = 1 .. n
  BY LenProperties DEF IsLayout
<1>2. PICK V : ItemsOf(n, item, V)
  BY FieldItemsOf
<1>0. at \in [1 .. n + 1 -> Nat \ {0}] /\ at[1] = 1
  BY DEF FieldsAreRead
<1>3. ReadAs(item, at, vals, n)
  <2> SUFFICES ASSUME NEW i \in 1 .. n PROVE item[i][at[i]] = Read(vals[i], at[i + 1])
    BY DEF ReadAs
  <2>1. at[i] \in Nat \ {0}
    BY <1>1, <1>0
  <2>2. item[i][at[i]] = ReadField(layout[i].type, data, at[i])
    BY <2>1, FieldItemsOf
  <2> QED
    BY <2>2 DEF FieldsAreRead
<1>4. Len(r) = n /\ \A i \in 1 .. n : r[i] = vals[i]
  <2> HIDE DEF n, item, vals
  <2>1. IsReadUpTo(r, vals, n, n, item[n + 1][at[n + 1]])
    BY <1>1, <1>2, <1>0, <1>3, ReadAllPrefix
  <2> QED
    BY <2>1 DEF IsReadUpTo
<1>5. PICK f : /\ Decode(layout, data) = {f}
               /\ f = [x \in FieldNames(layout) |-> f[x]]
               /\ \A i \in 1 .. n : f[layout[i].name] = r[i]
  BY <1>4, DecodeIs
<1>6. \A x \in FieldNames(layout) : f[x] = fields[x]
  <2> SUFFICES ASSUME NEW x \in FieldNames(layout) PROVE f[x] = fields[x]
    OBVIOUS
  <2>1. PICK i \in 1 .. n : x = layout[i].name
    BY <1>1 DEF FieldNames
  <2>2. f[layout[i].name] = r[i] /\ r[i] = vals[i] /\ vals[i] = fields[layout[i].name]
    BY <1>4, <1>5
  <2> QED
    BY <2>1, <2>2
<1>7. f = fields
  BY <1>5, <1>6
<1> QED
  BY <1>5, <1>7

\* A body with a field that is not read as it should be is not.
LEMMA DecodeNone ==
    ASSUME NEW layout, IsLayout(layout), NEW data \in Seq(Byte),
           NEW at, NEW fields, NEW k \in 0 .. Len(layout) - 1,
           FieldsAreRead(layout, data, at, fields, k),
           ReadDiffers(layout, data, at, fields, k + 1)
    PROVE  fields \notin Decode(layout, data)
<1> DEFINE n == Len(layout)
           item == FieldItems(layout, data)
           vals == [i \in 1 .. n |-> fields[layout[i].name]]
           r == ReadAll(n, item, 1)
           j == k + 1
           next == item[j][at[j]]
<1>1. n \in Nat /\ k \in 0 .. n /\ k < n /\ DOMAIN layout = 1 .. n /\ j \in 1 .. n
  BY LenProperties DEF IsLayout
<1>2. PICK V : ItemsOf(n, item, V)
  BY FieldItemsOf
<1>0. at \in [1 .. n + 1 -> Nat \ {0}] /\ at[1] = 1
  BY DEF FieldsAreRead
<1>3. \A i \in 1 .. n : item[i][at[i]] = ReadField(layout[i].type, data, at[i])
  <2> SUFFICES ASSUME NEW i \in 1 .. n
               PROVE  item[i][at[i]] = ReadField(layout[i].type, data, at[i])
    OBVIOUS
  <2>1. at[i] \in Nat \ {0}
    BY <1>1, <1>0
  <2> QED
    BY <2>1, FieldItemsOf
<1>4. ReadAs(item, at, vals, k)
  BY <1>1, <1>3 DEF ReadAs, FieldsAreRead
<1>5. next.ok => next.value # fields[layout[j].name]
  BY <1>1, <1>3 DEF ReadDiffers
<1>6. /\ ~next.ok => Len(r) = k
      /\ next.ok => r[j] = next.value
  <2> HIDE DEF n, item, vals
  <2>1. IsReadUpTo(r, vals, k, n, next)
    BY <1>1, <1>2, <1>0, <1>4, ReadAllPrefix
  <2> QED
    BY <1>1, <2>1 DEF IsReadUpTo
<1>7. CASE Len(r) # n
  <2>1. Decode(layout, data) = {}
    BY <1>7, DecodeIs
  <2> QED
    BY <2>1
<1>8. CASE Len(r) = n
  <2>1. PICK f : /\ Decode(layout, data) = {f}
                 /\ \A i \in 1 .. n : f[layout[i].name] = r[i]
    BY <1>8, DecodeIs
  <2>2. next.ok
    BY <1>1, <1>6, <1>8
  <2>3. f[layout[j].name] # fields[layout[j].name]
    BY <1>1, <1>5, <1>6, <2>1, <2>2
  <2> QED
    BY <2>1, <2>3
<1> QED
  BY <1>7, <1>8

\* A layout for reading that names the fields of one for writing.
SameFields(written, read) ==
    /\ Len(written) = Len(read)
    /\ \A i \in 1 .. Len(written) : written[i].name = read[i].name

\* A body that is written with one layout and read with another is decoded to
\* the fields it was made of if each field is readable.
LEMMA BodyRoundTrip ==
    ASSUME NEW written, IsLayout(written), NEW read, IsLayout(read), SameFields(written, read),
           NEW fields, fields = [x \in FieldNames(read) |-> fields[x]],
           \A i \in 1 .. Len(written) :
               Readable(written[i].type, read[i].type, fields[written[i].name]),
           \A i \in 1 .. Len(written) : written[i].type = "friends" => i = Len(written)
    PROVE  Decode(read, Encode(written, fields)) = {fields}
<1> DEFINE data == Encode(written, fields)
           n == Len(written)
           part(i) == Write(written[i].type, fields[written[i].name])
<1>1. Fitting(written, fields)
  BY DEF Fitting, Readable
<1>2. /\ data \in Seq(Byte) /\ n \in Nat
      /\ \E at \in [1 .. n + 1 -> Nat \ {0}] :
            /\ at[1] = 1 /\ at[n + 1] = Len(data) + 1
            /\ \A i \in 1 .. n : /\ at[i + 1] = at[i] + Len(part(i))
                                 /\ Holds(data, at[i], part(i))
  BY <1>1, Body
<1>3. PICK at \in [1 .. n + 1 -> Nat \ {0}] :
          /\ at[1] = 1 /\ at[n + 1] = Len(data) + 1
          /\ \A i \in 1 .. n : /\ at[i + 1] = at[i] + Len(part(i))
                               /\ Holds(data, at[i], part(i))
  BY <1>2
<1>4. ASSUME NEW i \in 1 .. n
      PROVE  ReadField(read[i].type, data, at[i]) = Read(fields[read[i].name], at[i + 1])
  <2> DEFINE v == fields[written[i].name]
             w == written[i].type
             t == read[i].type
             a == at[i]
  <2>1. Readable(w, t, v) /\ Holds(data, a, Write(w, v)) /\ at[i + 1] = a + Len(Write(w, v))
    BY <1>3
  <2>2. a \in Nat \ {0} /\ v = fields[read[i].name]
    BY <1>2 DEF SameFields
  <2>3. w = "friends" => at[i + 1] = Len(data) + 1
    BY <1>3
  <2> HIDE DEF v, w, t, a, data
  <2>4. ReadField(t, data, a) = Read(v, a + Len(Write(w, v)))
    BY <1>2, <2>1, <2>2, <2>3, ReadBack
  <2> QED
    BY <2>1, <2>2, <2>4 DEF t, a
<1>5. Len(read) = n
  BY DEF SameFields
<1> HIDE DEF data, n
<1>6. FieldsAreRead(read, data, at, fields, Len(read))
  BY <1>2, <1>3, <1>4, <1>5 DEF FieldsAreRead
<1>7. Decode(read, data) = {fields}
  BY <1>2, <1>6, DecodeAll
<1> QED
  BY <1>7 DEF data

\* The layouts of requests.
IsRequestLayout(layout) ==
    IsLayout(layout) /\ \A i \in 1 .. Len(layout) : layout[i].type \in {"int32", "string", "text"}

\* Every string of a request fits the 2 bytes of its length.
StringsFit(layout, fields) ==
    \A i \in 1 .. Len(layout) :
        layout[i].type = "string" => Len(fields[layout[i].name]) < Max16

\* The body of a request is decoded to its fields exactly when they fit: the
\* first string that is too long is read as a shorter one or not at all.
LEMMA RequestBody ==
    ASSUME NEW layout, IsRequestLayout(layout), NEW fields, HasFields(layout, fields)
    PROVE  /\ StringsFit(layout, fields) => Decode(layout, Encode(layout, fields)) = {fields}
           /\ ~StringsFit(layout, fields) => fields \notin Decode(layout, Encode(layout, fields))
<1> DEFINE data == Encode(layout, fields)
           n == Len(layout)
           v(i) == fields[layout[i].name]
           part(i) == Write(layout[i].type, v(i))
<1>1. /\ IsLayout(layout) /\ \A i \in 1 .. n : layout[i].type \in {"int32", "string", "text"}
      /\ Fitting(layout, fields) /\ fields = [x \in FieldNames(layout) |-> fields[x]]
  <2>1. DOMAIN layout = 1 .. n
    BY LenProperties DEF IsRequestLayout, IsLayout
  <2> QED
    BY <2>1 DEF IsRequestLayout, HasFields, Fitting
<1>2. /\ data \in Seq(Byte) /\ n \in Nat
      /\ \E at \in [1 .. n + 1 -> Nat \ {0}] :
            /\ at[1] = 1 /\ at[n + 1] = Len(data) + 1
            /\ \A i \in 1 .. n : /\ at[i + 1] = at[i] + Len(part(i))
                                 /\ Holds(data, at[i], part(i))
  BY <1>1, Body
<1>3. ASSUME NEW i \in 1 .. n, layout[i].type = "string" => Len(v(i)) < Max16
      PROVE  Readable(layout[i].type, layout[i].type, v(i))
  BY <1>1, <1>3 DEF Readable, Fitting
<1>4. ASSUME StringsFit(layout, fields) PROVE Decode(layout, data) = {fields}
  <2>1. \A i \in 1 .. n : Readable(layout[i].type, layout[i].type, v(i))
    BY <1>3, <1>4 DEF StringsFit
  <2> QED
    BY <1>1, <2>1, BodyRoundTrip DEF SameFields
<1>5. ASSUME ~StringsFit(layout, fields) PROVE fields \notin Decode(layout, data)
  <2> DEFINE long == {i \in 1 .. n : layout[i].type = "string" /\ ~(Len(v(i)) < Max16)}
  <2>1. long # {} /\ long \in SUBSET Nat
    BY <1>5 DEF StringsFit
  <2>2. PICK j \in long : \A i \in long : j <= i
    BY <2>1, LeastElement
  <2>3. PICK at \in [1 .. n + 1 -> Nat \ {0}] :
            /\ at[1] = 1
            /\ \A i \in 1 .. n : /\ at[i + 1] = at[i] + Len(part(i))
                                 /\ Holds(data, at[i], part(i))
    BY <1>2
  <2>4. /\ j \in 1 .. n /\ layout[j].type = "string" /\ ~(Len(v(j)) < Max16)
        /\ \A i \in 1 .. n : i < j => i \notin long
    <3>1. j \in 1 .. n /\ layout[j].type = "string" /\ ~(Len(v(j)) < Max16)
      OBVIOUS
    <3>2. \A i \in 1 .. n : i < j => ~(j <= i)
      BY <3>1
    <3> HIDE DEF long
    <3> QED
      BY <2>2, <3>1, <3>2
  <2>5. ASSUME NEW i \in 1 .. j - 1
        PROVE  ReadField(layout[i].type, data, at[i]) = Read(v(i), at[i + 1])
    <3> DEFINE w == layout[i].type
               x == v(i)
               a == at[i]
    <3>1. i \in 1 .. n /\ i < j
      BY <1>2, <2>4
    <3>2. Readable(w, w, x)
      BY <1>3, <2>4, <3>1
    <3>3. Holds(data, a, Write(w, x)) /\ at[i + 1] = a + Len(Write(w, x)) /\ a \in Nat \ {0}
      <4>1. i \in 1 .. n + 1
        BY <1>2, <3>1
      <4>2. a \in Nat \ {0}
        BY <4>1
      <4> QED
        BY <2>3, <3>1, <4>2
    <3>4. w # "friends"
      BY <1>1, <3>1
    <3> HIDE DEF w, x, a, data
    <3>5. ReadField(w, data, a) = Read(x, a + Len(Write(w, x)))
      BY <1>2, <3>2, <3>3, <3>4, ReadBack
    <3> QED
      BY <3>3, <3>5 DEF w, x, a
  <2>6. LET next == ReadField(layout[j].type, data, at[j]) IN next.ok => next.value # v(j)
    <3> DEFINE x == v(j)
               a == at[j]
               next == ReadField("string", data, a)
    <3>1. x \in Seq(Byte) /\ Len(x) >= Max16 /\ Write("string", x) = write_string(x)
      <4>1. x \in Seq(Byte)
        BY <1>1, <2>4 DEF Fitting, FieldValues
      <4>2. Len(x) \in Nat /\ Max16 \in Nat
        BY <4>1, LenProperties, Widths
      <4> QED
        BY <2>4, <4>1, <4>2 DEF Write
    <3>2. Holds(data, a, write_string(x)) /\ a \in Nat \ {0}
      <4>1. j \in 1 .. n + 1
        BY <1>2, <2>4
      <4>2. a \in Nat \ {0}
        BY <4>1
      <4>3. Holds(data, a, part(j)) /\ part(j) = write_string(x)
        BY <2>3, <2>4, <3>1
      <4> QED
        BY <4>2, <4>3
    <3> HIDE DEF x, a, data
    <3>3. next = NotRead \/ next = ReadString(data, a, 2)
      BY DEF ReadField
    <3>4. next.ok => next.value # x
      BY <1>2, <3>1, <3>2, <3>3, ReadLong DEF NotRead
    <3> QED
      BY <2>4, <3>4 DEF x, a
  <2> DEFINE k == j - 1
  <2>7. k \in 0 .. n - 1 /\ k + 1 = j
    BY <1>2, <2>4
  <2> HIDE DEF k, data, n
  <2>8. FieldsAreRead(layout, data, at, fields, k) /\ ReadDiffers(layout, data, at, fields, k + 1)
    BY <2>3, <2>5, <2>6, <2>7 DEF k, n, FieldsAreRead, ReadDiffers
  <2> QED
    BY <1>1, <1>2, <2>7, <2>8, DecodeNone DEF n
<1> QED
  BY <1>4, <1>5
==============================================================================
