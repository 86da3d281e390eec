--------------------------- MODULE FrameCodecProofs ---------------------------
(***************************************************************************)
(* What the frame layout promises both of the programs that use it, for    *)
(* any number of values of a byte: a frame is made of bytes, and what is   *)
(* written in it is what is read from it, whatever follows.                *)
(***************************************************************************)
EXTENDS FrameCodec, SequenceTheorems, TLAPS

Sendable == [type : MessageType, payload : Seq(Byte)]

(* The length of the payload fits the four bytes that it is written in.    *)
Fits(m) == Len(m.payload) < Base * Base * Base * Base

------------------------------------------------------------------------------
(* A number cut to a byte is one.                                          *)
LEMMA CutToByte ==
    ASSUME NEW x \in Nat, NEW unit \in Nat \ {0}
    PROVE  (x \div unit) % Base \in Byte
  <1>1. x \div unit \in Int
    OBVIOUS
  <1>2. Base \in Nat \ {0}
    BY CodecAssumption
  <1> HIDE DEF Byte
  <1>3. ASSUME NEW y \in Int
        PROVE  y % Base \in 0 .. Base - 1
    BY <1>2
  <1> QED
    BY <1>1, <1>3 DEF Byte

(* A header is made of bytes.                                              *)
LEMMA HeaderType ==
    ASSUME NEW m \in Sendable, NEW len \in Nat
    PROVE  EncodeHeader(m.type, len) \in Seq(Byte)
  <1>1. m.type \in Byte
    BY CodecAssumption DEF Sendable
  <1>2. ASSUME NEW x \in Nat \ {0}, NEW y \in Nat \ {0}
        PROVE  x * y \in Nat \ {0}
    OBVIOUS
  <1>3. Base \in Nat \ {0} /\ Base * Base \in Nat \ {0}
    BY <1>2, CodecAssumption
  <1>4. Base * Base * Base \in Nat \ {0}
    BY <1>2, <1>3
  <1>5. /\ (len \div (Base * Base * Base)) % Base \in Byte
        /\ (len \div (Base * Base)) % Base \in Byte
        /\ (len \div Base) % Base \in Byte
    BY <1>3, <1>4, CutToByte
  <1>6. len % Base \in Byte
    <2>1. (len \div 1) % Base \in Byte
      BY CutToByte
    <2>2. len \div 1 = len
      OBVIOUS
    <2> QED
      BY <2>1, <2>2
  <1> DEFINE b2 == (len \div (Base * Base * Base)) % Base
             b3 == (len \div (Base * Base)) % Base
             b4 == (len \div Base) % Base
             b5 == len % Base
  <1>7. EncodeHeader(m.type, len) = <<m.type, b2, b3, b4, b5>>
    BY DEF EncodeHeader
  <1>8. b2 \in Byte /\ b3 \in Byte /\ b4 \in Byte /\ b5 \in Byte
    BY <1>5, <1>6
  <1> HIDE DEF b2, b3, b4, b5
  <1> QED
    BY <1>1, <1>7, <1>8

(* A frame is made of bytes.                                               *)
LEMMA SerializeType ==
    ASSUME NEW m \in Sendable
    PROVE  Serialize(m) \in Seq(Byte)
  <1>1. m.payload \in Seq(Byte) /\ Len(m.payload) \in Nat
    BY LenProperties DEF Sendable
  <1>2. EncodeHeader(m.type, Len(m.payload)) \in Seq(Byte)
    BY <1>1, HeaderType
  <1> QED
    BY <1>1, <1>2, ConcatProperties DEF Serialize

(* A number, from its quotient and its remainder.                          *)
LEMMA DivMod ==
    ASSUME NEW x \in Nat, NEW b \in Nat \ {0}
    PROVE  /\ x \div b \in Nat /\ x % b \in 0 .. b - 1
           /\ x = b * (x \div b) + (x % b)
  OBVIOUS

(* There is one quotient and one remainder.                                *)
LEMMA QuotientUnique ==
    ASSUME NEW b \in Nat \ {0}, NEW p \in Nat, NEW q \in Nat,
           NEW r \in 0 .. b - 1, NEW t \in 0 .. b - 1,
           b * p + r = b * q + t
    PROVE  p = q /\ r = t
  <1>1. ASSUME NEW u \in Nat, NEW v \in Nat, u < v
        PROVE  b * u + b <= b * v
    <2>1. PICK w \in Nat : v = u + 1 + w
      <3>1. v - u - 1 \in Nat /\ v = u + 1 + (v - u - 1)
        BY <1>1
      <3> QED
        BY <3>1
    <2>2. b * v = b * u + b + b * w
      BY <2>1
    <2>3. b * w >= 0 /\ b * w \in Nat /\ b * u \in Nat /\ b * v \in Nat
      OBVIOUS
    <2> QED
      BY <2>2, <2>3
  <1>2. b * p \in Nat /\ b * q \in Nat
    OBVIOUS
  <1>3. ~(p < q)
    BY <1>1, <1>2
  <1>4. ~(q < p)
    BY <1>1, <1>2
  <1>5. p = q
    BY <1>3, <1>4
  <1> QED
    BY <1>2, <1>5

(* To divide twice is to divide by the product.                            *)
LEMMA DivDiv ==
    ASSUME NEW x \in Nat, NEW b \in Nat \ {0}, NEW c \in Nat \ {0}
    PROVE  b * c \in Nat \ {0} /\ (x \div b) \div c = x \div (b * c)
  <1>1. b * c \in Nat \ {0}
    OBVIOUS
  <1> DEFINE q == x \div b
             p == q \div c
             s == q % c
             r == x % b
  <1>2. q \in Nat /\ r \in 0 .. b - 1 /\ x = b * q + r
    BY DivMod
  <1> HIDE DEF q, r
  <1>3. p \in Nat /\ s \in 0 .. c - 1 /\ q = c * p + s
    BY <1>2, DivMod
  <1> HIDE DEF p, s
  <1>4. x = (b * c) * p + (b * s + r)
    <2>1. b * q = b * (c * p) + b * s
      BY <1>2, <1>3
    <2>2. b * (c * p) = (b * c) * p
      BY <1>2, <1>3
    <2>3. b * s \in Nat /\ b * q \in Nat /\ (b * c) * p \in Nat
      BY <1>1, <1>2, <1>3
    <2> QED
      BY <1>2, <2>1, <2>2, <2>3
  <1>5. b * s + r \in 0 .. (b * c) - 1
    <2>1. PICK w \in Nat : c = s + 1 + w
      <3>1. c - s - 1 \in Nat /\ c = s + 1 + (c - s - 1)
        BY <1>3
      <3> QED
        BY <3>1
    <2>2. s \in Nat
      BY <1>3
    <2>3. b * c = b * s + b + b * w
      BY <2>1, <2>2
    <2>4. b * s \in Nat /\ b * w \in Nat
      BY <2>2
    <2> QED
      BY <1>1, <1>2, <2>3, <2>4
  <1> DEFINE d == b * c
             e == b * s + r
  <1>6. /\ x \div d \in Nat /\ x % d \in 0 .. d - 1
        /\ x = d * (x \div d) + (x % d)
    BY <1>1, DivMod
  <1>7. d \in Nat \ {0} /\ e \in 0 .. d - 1 /\ x = d * p + e
    BY <1>1, <1>4, <1>5
  <1> HIDE DEF d, e
  <1>8. p = x \div d
    <2> DEFINE y == x \div d
               z == x % d
    <2>1. y \in Nat /\ z \in 0 .. d - 1 /\ x = d * y + z
      BY <1>6
    <2> HIDE DEF y, z
    <2> QED
      BY <1>3, <1>7, <2>1, QuotientUnique DEF y
  <1> QED
    BY <1>1, <1>8 DEF p, q, d

(* A number below Base^4 is put together again from its digits.            *)
LEMMA FourDigits ==
    ASSUME NEW len \in Nat, len < Base * Base * Base * Base
    PROVE  ((((len \div (Base * Base * Base)) % Base) * Base
              + ((len \div (Base * Base)) % Base)) * Base
              + ((len \div Base) % Base)) * Base + (len % Base) = len
  <1> DEFINE q1 == len \div Base
             q2 == q1 \div Base
             q3 == q2 \div Base
  <1>1. Base \in Nat \ {0}
    BY CodecAssumption
  <1>2. q1 \in Nat /\ len = Base * q1 + (len % Base) /\ len % Base \in 0 .. Base - 1
    BY <1>1, DivMod
  <1> HIDE DEF q1
  <1>3. q2 \in Nat /\ q1 = Base * q2 + (q1 % Base) /\ q1 % Base \in 0 .. Base - 1
    BY <1>1, <1>2, DivMod
  <1> HIDE DEF q2
  <1>4. q3 \in Nat /\ q2 = Base * q3 + (q2 % Base) /\ q2 % Base \in 0 .. Base - 1
    BY <1>1, <1>3, DivMod
  <1> HIDE DEF q3
  <1>5. Base * Base \in Nat \ {0} /\ q2 = len \div (Base * Base)
    BY <1>1, <1>2, DivDiv DEF q1, q2
  <1>6. q3 = len \div (Base * Base * Base)
    <2> DEFINE c == Base * Base
    <2>1. (len \div c) \div Base = len \div (c * Base)
      <3> c \in Nat \ {0}
        BY <1>5
      <3> HIDE DEF c
      <3> QED
        BY <1>1, DivDiv
    <2> QED
      BY <1>5, <2>1 DEF q3
  <1>7. q3 % Base = q3
    <2>1. Base * q1 <= len /\ Base * q2 <= q1 /\ Base * q3 <= q2
      BY <1>1, <1>2, <1>3, <1>4
    <2>2. ASSUME NEW x \in Nat, NEW y \in Nat, x <= y
          PROVE  Base * x <= Base * y
      BY <1>1, <2>2
    <2>3. Base * (Base * (Base * q3)) <= len
      <3>1. Base * (Base * q3) <= Base * q2
        BY <1>1, <1>4, <1>3, <2>1, <2>2
      <3>2. Base * (Base * (Base * q3)) <= Base * q1
        <4>1. Base * q3 \in Nat /\ Base * (Base * q3) \in Nat /\ Base * q2 \in Nat
          BY <1>1, <1>3, <1>4
        <4>2. Base * (Base * q3) <= q1
          BY <1>2, <2>1, <3>1, <4>1
        <4> QED
          BY <1>2, <2>2, <4>1, <4>2
      <3>3. Base * q1 \in Nat /\ Base * (Base * (Base * q3)) \in Nat
        BY <1>1, <1>2, <1>4
      <3> QED
        BY <2>1, <3>2, <3>3
    <2>4. q3 < Base
      <3>1. SUFFICES ASSUME q3 >= Base
                     PROVE  FALSE
        BY <1>1, <1>4
      <3>2. Base * Base <= Base * q3
        BY <1>1, <1>4, <2>2, <3>1
      <3>3. Base * (Base * Base) <= Base * (Base * q3)
        BY <1>1, <1>4, <2>2, <3>2
      <3>4. Base * (Base * (Base * Base)) <= Base * (Base * (Base * q3))
        <4>1. Base * (Base * Base) \in Nat /\ Base * (Base * q3) \in Nat
          BY <1>1, <1>4
        <4> QED
          BY <2>2, <3>3, <4>1
      <3>5. Base * (Base * (Base * Base)) = Base * Base * Base * Base
        BY <1>1
      <3>6. Base * Base * Base * Base \in Nat /\ Base * (Base * (Base * q3)) \in Nat
        BY <1>1, <1>4
      <3> QED
        BY <2>3, <3>4, <3>5, <3>6
    <2>5. 0 \in Nat /\ Base * 0 + q3 = q3 /\ q3 \in 0 .. Base - 1
      BY <1>1, <1>4, <2>4
    <2> DEFINE p == q3 \div Base
               r == q3 % Base
    <2>6. p \in Nat /\ r \in 0 .. Base - 1 /\ q3 = Base * p + r
      BY <1>1, <1>4, DivMod
    <2> HIDE DEF p, r
    <2>7. r = q3
      BY <1>1, <1>4, <2>5, <2>6, QuotientUnique
    <2> QED
      BY <2>7 DEF r
  <1> DEFINE d1 == len % Base
             d2 == q1 % Base
             d3 == q2 % Base
  <1>8. /\ q1 = len \div Base /\ q2 = len \div (Base * Base)
        /\ q3 = len \div (Base * Base * Base)
    BY <1>5, <1>6 DEF q1
  <1>9. /\ d1 \in Nat /\ d2 \in Nat /\ d3 \in Nat
        /\ len = Base * q1 + d1 /\ q1 = Base * q2 + d2 /\ q2 = Base * q3 + d3
    BY <1>1, <1>2, <1>3, <1>4
  <1> HIDE DEF d1, d2, d3
  <1>10. q2 = q3 * Base + d3 /\ q1 = q2 * Base + d2 /\ len = q1 * Base + d1
    BY <1>1, <1>2, <1>3, <1>4, <1>9
  <1>11. ((q3 * Base + d3) * Base + d2) * Base + d1 = len
    BY <1>10
  <1> QED
    BY <1>7, <1>8, <1>11 DEF d1, d2, d3

(* What is written in a header is what is read from it.                    *)
LEMMA HeaderInverse ==
    ASSUME NEW m \in Sendable, Fits(m)
    PROVE  DecodeLength(EncodeHeader(m.type, Len(m.payload))) = Len(m.payload)
  <1> DEFINE len == Len(m.payload)
             d2 == (len \div (Base * Base * Base)) % Base
             d3 == (len \div (Base * Base)) % Base
             d4 == (len \div Base) % Base
             d5 == len % Base
  <1>1. len \in Nat /\ len < Base * Base * Base * Base
    BY LenProperties DEF Sendable, Fits
  <1>2. EncodeHeader(m.type, len) = <<m.type, d2, d3, d4, d5>>
    BY DEF EncodeHeader
  <1>3. ((d2 * Base + d3) * Base + d4) * Base + d5 = len
    BY <1>1, FourDigits
  <1> HIDE DEF len, d2, d3, d4, d5
  <1>4. DecodeLength(<<m.type, d2, d3, d4, d5>>)
           = ((d2 * Base + d3) * Base + d4) * Base + d5
    BY DEF DecodeLength
  <1> QED
    BY <1>2, <1>3, <1>4 DEF len

(* What follows the header has no part in it.                              *)
LEMMA HeaderOfPrefix ==
    ASSUME NEW a \in Seq(Byte), NEW b \in Seq(Byte), Len(a) >= HeaderSize
    PROVE  /\ (a \o b)[1] = a[1] /\ DecodeLength(a \o b) = DecodeLength(a)
  <1>1. \A i \in 1 .. 5 : (a \o b)[i] = a[i]
    <2>1. \A i \in 1 .. 5 : i \in 1 .. Len(a) + Len(b) /\ i <= Len(a)
      BY LenProperties DEF HeaderSize
    <2> QED
      BY <2>1, ConcatProperties
  <1> DEFINE c == a \o b
  <1>2. \A i \in 1 .. 5 : c[i] = a[i]
    BY <1>1
  <1> HIDE DEF c
  <1>3. c[1] = a[1] /\ c[2] = a[2] /\ c[3] = a[3] /\ c[4] = a[4] /\ c[5] = a[5]
    BY <1>2
  <1>4. DecodeLength(c) = DecodeLength(a)
    BY <1>3 DEF DecodeLength
  <1> QED
    BY <1>3, <1>4 DEF c

(* What is written is what is read: a frame is a header of five bytes, the *)
(* payload follows, and the header tells its type and its length.          *)
THEOREM FrameParts ==
    ASSUME NEW m \in Sendable, Fits(m)
    PROVE  /\ Len(Serialize(m)) = HeaderSize + Len(m.payload)
           /\ Serialize(m)[1] = m.type
           /\ DecodeLength(Serialize(m)) = Len(m.payload)
           /\ SubSeq(Serialize(m), HeaderSize + 1, HeaderSize + Len(m.payload)) = m.payload
  <1> DEFINE h == EncodeHeader(m.type, Len(m.payload))
             n == Len(m.payload)
  <1>1. m.payload \in Seq(Byte) /\ n \in Nat
    BY LenProperties DEF Sendable
  <1>2. h \in Seq(Byte)
    BY <1>1, HeaderType
  <1>3. Len(h) = 5 /\ h[1] = m.type
    BY DEF EncodeHeader
  <1>4. DecodeLength(h) = n
    BY HeaderInverse
  <1>5. Serialize(m) = h \o m.payload
    BY DEF Serialize
  <1> HIDE DEF h, n
  <1>6. (h \o m.payload)[1] = m.type /\ DecodeLength(h \o m.payload) = n
    <2>1. Len(h) >= HeaderSize
      BY <1>3 DEF HeaderSize
    <2>2. /\ (h \o m.payload)[1] = h[1]
          /\ DecodeLength(h \o m.payload) = DecodeLength(h)
      BY <1>1, <1>2, <2>1, HeaderOfPrefix
    <2> QED
      BY <1>3, <1>4, <2>2
  <1>7. /\ h \o m.payload \in Seq(Byte) /\ Len(h \o m.payload) = 5 + n
        /\ \A i \in 1 .. n : (h \o m.payload)[5 + i] = m.payload[i]
    <2>1. /\ h \o m.payload \in Seq(Byte)
          /\ Len(h \o m.payload) = Len(h) + Len(m.payload)
          /\ \A i \in 1 .. Len(h) + Len(m.payload) : (h \o m.payload)[i] =
                IF i <= Len(h) THEN h[i] ELSE m.payload[i - Len(h)]
      BY <1>1, <1>2, ConcatProperties
    <2>2. ASSUME NEW i \in 1 .. n
          PROVE  (h \o m.payload)[5 + i] = m.payload[i]
      <3>1. 5 + i \in 1 .. Len(h) + Len(m.payload) /\ ~(5 + i <= Len(h)) /\ (5 + i) - Len(h) = i
        BY <1>1, <1>3 DEF n
      <3> QED
        BY <2>1, <3>1
    <2> QED
      BY <1>3, <2>1, <2>2 DEF n
  <1>8. SubSeq(h \o m.payload, 5 + 1, 5 + n) = m.payload
    <2> DEFINE s == h \o m.payload
    <2>1. \A i \in 5 + 1 .. 5 + n : s[i] \in Byte
      <3>1. \A i \in 1 .. Len(s) : s[i] \in Byte
        BY <1>7, ElementOfSeq
      <3> QED
        BY <1>1, <1>7, <3>1
    <2>2. \A i \in 1 .. n : s[5 + i] = m.payload[i]
      BY <1>7
    <2> HIDE DEF s
    <2>3. /\ SubSeq(s, 5 + 1, 5 + n) \in Seq(Byte)
          /\ Len(SubSeq(s, 5 + 1, 5 + n)) = IF 5 + 1 <= 5 + n THEN (5 + n) - (5 + 1) + 1 ELSE 0
          /\ \A i \in 1 .. (5 + n) - (5 + 1) + 1 : SubSeq(s, 5 + 1, 5 + n)[i] = s[5 + 1 + i - 1]
      BY <1>1, <2>1, SubSeqProperties
    <2>4. Len(SubSeq(s, 5 + 1, 5 + n)) = n
      BY <1>1, <2>3
    <2>5. \A i \in 1 .. n : SubSeq(s, 5 + 1, 5 + n)[i] = m.payload[i]
      <3>1. \A i \in 1 .. n : i \in 1 .. (5 + n) - (5 + 1) + 1 /\ 5 + 1 + i - 1 = 5 + i
        BY <1>1
      <3> QED
        BY <2>2, <2>3, <3>1
    <2>6. Len(m.payload) = n
      BY DEF n
    <2>7. SubSeq(s, 5 + 1, 5 + n) = m.payload
      BY <1>1, <2>3, <2>4, <2>5, <2>6, SeqEqual
    <2> QED
      BY <2>7 DEF s
  <1> QED
    BY <1>5, <1>6, <1>7, <1>8 DEF HeaderSize, n

(* The length in a header is a natural number.                             *)
LEMMA DecodeLengthType ==
    ASSUME NEW bytes \in Seq(Byte), Len(bytes) >= HeaderSize
    PROVE  DecodeLength(bytes) \in Nat
  <1>1. \A i \in 1 .. 5 : bytes[i] \in Nat
    <2>1. \A i \in 1 .. 5 : i \in 1 .. Len(bytes)
      BY LenProperties DEF HeaderSize
    <2>2. \A i \in 1 .. 5 : bytes[i] \in Byte
      BY <2>1, ElementOfSeq
    <2>3. Byte \subseteq Nat
      BY CodecAssumption DEF Byte
    <2> QED
      BY <2>2, <2>3
  <1>2. ASSUME NEW x \in Nat, NEW y \in Nat
        PROVE  x * Base + y \in Nat
    <2>1. Base \in Nat
      BY CodecAssumption
    <2>2. x * Base \in Nat
      BY <2>1
    <2> QED
      BY <2>2
  <1> DEFINE h3 == bytes[2] * Base + bytes[3]
             h4 == h3 * Base + bytes[4]
             h5 == h4 * Base + bytes[5]
  <1>3. h3 \in Nat
    <2>1. bytes[2] \in Nat /\ bytes[3] \in Nat
      BY <1>1
    <2> QED
      BY ONLY <2>1, <1>2
  <1>4. h4 \in Nat
    <2>1. bytes[4] \in Nat
      BY <1>1
    <2> HIDE DEF h3
    <2> QED
      BY ONLY <2>1, <1>2, <1>3
  <1>5. h5 \in Nat
    <2>1. bytes[5] \in Nat
      BY <1>1
    <2> HIDE DEF h4
    <2> QED
      BY ONLY <2>1, <1>2, <1>4
  <1> QED
    BY <1>5 DEF DecodeLength

(* A piece of a string of bytes.                                           *)
LEMMA Piece ==
    ASSUME NEW s \in Seq(Byte), NEW n \in 0 .. Len(s)
    PROVE  /\ SubSeq(s, 1, n) \in Seq(Byte) /\ SubSeq(s, n + 1, Len(s)) \in Seq(Byte)
           /\ s = SubSeq(s, 1, n) \o SubSeq(s, n + 1, Len(s))
  <1>1. Len(s) \in Nat /\ \A i \in 1 .. Len(s) : s[i] \in Byte
    BY LenProperties, ElementOfSeq
  <1>2. SubSeq(s, 1, n) \in Seq(Byte)
    <2>1. \A i \in 1 .. n : s[i] \in Byte
      BY <1>1
    <2> QED
      BY <2>1, <1>1, SubSeqProperties
  <1>3. SubSeq(s, n + 1, Len(s)) \in Seq(Byte)
    <2>1. \A i \in n + 1 .. Len(s) : s[i] \in Byte
      BY <1>1
    <2> QED
      BY <2>1, <1>1, SubSeqProperties
  <1>4. s = SubSeq(s, 1, n) \o SubSeq(s, n + 1, Len(s))
    <2>1. 1 \in 1 .. Len(s) + 1 /\ n \in 1 - 1 .. Len(s) /\ Len(s) \in n .. Len(s)
      BY <1>1
    <2>2. SubSeq(s, 1, n) \o SubSeq(s, n + 1, Len(s)) = SubSeq(s, 1, Len(s))
      BY <2>1, ConcatAdjacentSubSeq
    <2> QED
      BY <2>2, SubSeqFull
  <1> QED
    BY <1>2, <1>3, <1>4

(* Concatenations of bytes regroup.                                        *)
LEMMA Regroup ==
    ASSUME NEW a \in Seq(Byte), NEW b \in Seq(Byte), NEW c \in Seq(Byte)
    PROVE  (a \o b) \o c = a \o (b \o c)
  BY ConcatAssociative
==============================================================================
