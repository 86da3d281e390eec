-------------------------- MODULE FrameBufferProofs --------------------------
(***************************************************************************)
(* What holds of ByteBuffer for every array size, read size, compaction    *)
(* limit and payload limit, and for every stream of bytes.                 *)
(***************************************************************************)
EXTENDS FrameBuffer, FrameCodecProofs

(* What BufferOK says of the parts of a buffer.                            *)
LEMMA BufferParts ==
    ASSUME NEW b, BufferOK(b)
    PROVE  /\ b.cells \in Seq(Byte)
           /\ b.readPos \in Nat /\ b.writePos \in Nat
           /\ Size(b) \in Nat /\ Available(b) \in Nat
           /\ b.readPos <= b.writePos /\ b.writePos <= Size(b)
           /\ \A i \in 1 .. Size(b) : b.cells[i] \in Byte
  <1>1. b.cells \in Seq(Byte) /\ b.readPos \in Nat /\ b.writePos \in Nat
    BY DEF BufferOK
  <1>2. Len(b.cells) \in Nat /\ \A i \in 1 .. Len(b.cells) : b.cells[i] \in Byte
    BY <1>1, LenProperties, ElementOfSeq
  <1> QED
    BY <1>1, <1>2 DEF BufferOK, Size, Available

(* The readable bytes, one by one.                                         *)
LEMMA ReadableParts ==
    ASSUME NEW b, BufferOK(b)
    PROVE  /\ Readable(b) \in Seq(Byte)
           /\ Len(Readable(b)) = Available(b)
           /\ \A i \in 1 .. Available(b) : Readable(b)[i] = b.cells[b.readPos + i]
  <1>1. \A i \in b.readPos + 1 .. b.writePos : b.cells[i] \in Byte
    BY BufferParts
  <1>2. b.readPos + 1 \in Int /\ b.writePos \in Int
    BY BufferParts
  <1>3. /\ SubSeq(b.cells, b.readPos + 1, b.writePos) \in Seq(Byte)
        /\ Len(SubSeq(b.cells, b.readPos + 1, b.writePos)) =
              IF b.readPos + 1 <= b.writePos THEN b.writePos - (b.readPos + 1) + 1 ELSE 0
        /\ \A i \in 1 .. b.writePos - (b.readPos + 1) + 1 :
              SubSeq(b.cells, b.readPos + 1, b.writePos)[i] = b.cells[b.readPos + 1 + i - 1]
    BY <1>1, <1>2, SubSeqProperties
  <1>4. Readable(b) \in Seq(Byte) /\ Len(Readable(b)) = Available(b)
    BY <1>3, BufferParts DEF Readable, Available
  <1>5. ASSUME NEW i \in 1 .. Available(b)
        PROVE  Readable(b)[i] = b.cells[b.readPos + i]
    <2>1. i \in 1 .. b.writePos - (b.readPos + 1) + 1
      BY BufferParts DEF Available
    <2>2. b.readPos + 1 + i - 1 = b.readPos + i
      BY BufferParts
    <2> QED
      BY <1>3, <2>1, <2>2 DEF Readable
  <1> QED
    BY <1>4, <1>5

(* Two buffers of which the same bytes can be read.                        *)
LEMMA SameReadable ==
    ASSUME NEW b, BufferOK(b), NEW d, BufferOK(d),
           Available(d) = Available(b),
           \A i \in 1 .. Available(b) : d.cells[d.readPos + i] = b.cells[b.readPos + i]
    PROVE  Readable(d) = Readable(b)
  <1>1. /\ Readable(b) \in Seq(Byte) /\ Readable(d) \in Seq(Byte)
        /\ Len(Readable(b)) = Available(b) /\ Len(Readable(d)) = Available(b)
    BY ReadableParts
  <1>2. \A i \in 1 .. Available(b) : Readable(d)[i] = Readable(b)[i]
    BY ReadableParts
  <1> QED
    BY <1>1, <1>2, SeqEqual

(* An array of bytes of any length is a sequence.                          *)
LEMMA ByteArray ==
    ASSUME NEW n \in Nat, NEW f, f = [i \in 1 .. n |-> f[i]],
           \A i \in 1 .. n : f[i] \in Byte
    PROVE  f \in Seq(Byte) /\ Len(f) = n
  <1>1. f \in [1 .. n -> Byte]
    OBVIOUS
  <1>2. f \in Seq(Byte)
    BY <1>1
  <1>3. DOMAIN f = 1 .. Len(f) /\ Len(f) \in Nat
    BY <1>2, LenProperties
  <1> QED
    BY <1>1, <1>2, <1>3

(* Compaction changes where the readable bytes are and nothing else.       *)
LEMMA CompactOK ==
    ASSUME NEW b, BufferOK(b)
    PROVE  BufferOK(Compact(b)) /\ Readable(Compact(b)) = Readable(b)
  <1> DEFINE cells == [i \in DOMAIN b.cells |->
                          IF i <= Available(b) THEN b.cells[b.readPos + i]
                                               ELSE b.cells[i]]
             d == [cells |-> cells, readPos |-> 0, writePos |-> Available(b)]
  <1>1. DOMAIN b.cells = 1 .. Size(b)
    BY BufferParts, LenProperties DEF Size
  <1>2. \A i \in 1 .. Size(b) : cells[i] \in Byte
    BY <1>1, BufferParts DEF Available
  <1>3. cells = [i \in 1 .. Size(b) |-> cells[i]]
    BY <1>1
  <1>4. cells \in Seq(Byte) /\ Len(cells) = Size(b)
    <2> HIDE DEF cells
    <2> QED
      BY <1>2, <1>3, BufferParts, ByteArray
  <1>5. BufferOK(d)
    <2> HIDE DEF cells
    <2> QED
      BY <1>4, BufferParts DEF BufferOK, Size, Available
  <1>6. Available(d) = Available(b)
    BY BufferParts DEF Available
  <1>7. \A i \in 1 .. Available(b) : d.cells[d.readPos + i] = b.cells[b.readPos + i]
    BY <1>1, BufferParts DEF Available
  <1>8. Readable(d) = Readable(b)
    <2> HIDE DEF d
    <2> QED
      BY <1>5, <1>6, <1>7, SameReadable
  <1>9. Compact(b) = d \/ Compact(b) = b
    BY DEF Compact
  <1> QED
    BY <1>5, <1>8, <1>9

(* Growth makes room for len bytes and keeps the readable ones.            *)
LEMMA GrowOK ==
    ASSUME NEW b, BufferOK(b), NEW len \in Nat
    PROVE  /\ BufferOK(Grow(b, len)) /\ Readable(Grow(b, len)) = Readable(b)
           /\ Grow(b, len).writePos = b.writePos
           /\ b.writePos + len <= Size(Grow(b, len))
  <1>1. CASE b.writePos + len <= Size(b)
    BY <1>1, BufferParts DEF Grow
  <1>2. CASE b.writePos + len > Size(b)
    <2> DEFINE needed == b.writePos + len
               size == IF 2 * Size(b) > needed THEN 2 * Size(b) ELSE needed
               cells == [i \in 1 .. size |-> IF i <= Size(b) THEN b.cells[i] ELSE 0]
               d == [b EXCEPT !.cells = cells]
    <2>1. size \in Nat /\ needed <= size /\ Size(b) <= size
      BY <1>2, BufferParts
    <2>2. Grow(b, len) = d
      BY <1>2 DEF Grow
    <2>3. /\ d.cells = cells /\ d.readPos = b.readPos /\ d.writePos = b.writePos
          /\ d = [cells |-> cells, readPos |-> b.readPos, writePos |-> b.writePos]
      <3> HIDE DEF cells
      <3> QED
        BY DEF BufferOK
    <2>4. cells = [i \in 1 .. size |-> cells[i]]
      BY <2>1
    <2>5. \A i \in 1 .. size : cells[i] \in Byte
      BY <2>1, BufferParts, CodecAssumption DEF Byte
    <2>6. cells \in Seq(Byte) /\ Len(cells) = size
      <3> HIDE DEF cells, size
      <3> QED
        BY <2>1, <2>4, <2>5, ByteArray
    <2>7. \A i \in 1 .. Available(b) : cells[b.readPos + i] = b.cells[b.readPos + i]
      <3> SUFFICES ASSUME NEW i \in 1 .. Available(b)
                   PROVE  cells[b.readPos + i] = b.cells[b.readPos + i]
        OBVIOUS
      <3> HIDE DEF size
      <3>1. b.readPos + i \in 1 .. size /\ b.readPos + i <= Size(b)
        BY <2>1, BufferParts DEF Available
      <3> QED
        BY <3>1
    <2> HIDE DEF cells, size, d
    <2>8. BufferOK(d) /\ needed <= Size(d)
      BY <2>1, <2>3, <2>6, BufferParts DEF BufferOK, Size
    <2>9. Available(d) = Available(b)
      BY <2>3 DEF Available
    <2>10. Readable(d) = Readable(b)
      BY <2>3, <2>7, <2>8, <2>9, SameReadable
    <2> QED
      BY <2>2, <2>3, <2>8, <2>10
  <1> QED
    BY <1>1, <1>2, BufferParts

(* What is stored can be read after what was there.                        *)
LEMMA StoreOK ==
    ASSUME NEW b, BufferOK(b), NEW bytes \in Seq(Byte),
           b.writePos + Len(bytes) <= Size(b)
    PROVE  BufferOK(Store(b, bytes)) /\ Readable(Store(b, bytes)) = Readable(b) \o bytes
  <1> DEFINE cells == [i \in 1 .. Size(b) |->
                          IF i > b.writePos /\ i <= b.writePos + Len(bytes)
                          THEN bytes[i - b.writePos] ELSE b.cells[i]]
             d == Store(b, bytes)
  <1>1. Len(bytes) \in Nat /\ \A i \in 1 .. Len(bytes) : bytes[i] \in Byte
    BY LenProperties, ElementOfSeq
  <1>2. d = [cells |-> cells, readPos |-> b.readPos, writePos |-> b.writePos + Len(bytes)]
    <2> HIDE DEF cells
    <2>1. d = [b EXCEPT !.cells = cells, !.writePos = @ + Len(bytes)]
      BY DEF Store, cells
    <2> HIDE DEF d
    <2> QED
      BY <2>1 DEF BufferOK
  <1>3. cells = [i \in 1 .. Size(b) |-> cells[i]]
    BY BufferParts
  <1>4. \A i \in 1 .. Size(b) : cells[i] \in Byte
    <2> SUFFICES ASSUME NEW i \in 1 .. Size(b)
                 PROVE  cells[i] \in Byte
      OBVIOUS
    <2>1. CASE i > b.writePos /\ i <= b.writePos + Len(bytes)
      <3>1. i - b.writePos \in 1 .. Len(bytes)
        BY <2>1, <1>1, BufferParts
      <3> QED
        BY <2>1, <3>1, <1>1
    <2>2. CASE ~(i > b.writePos /\ i <= b.writePos + Len(bytes))
      BY <2>2, BufferParts
    <2> QED
      BY <2>1, <2>2
  <1>5. cells \in Seq(Byte) /\ Len(cells) = Size(b)
    <2> HIDE DEF cells
    <2> QED
      BY <1>3, <1>4, BufferParts, ByteArray
  <1>6. \A i \in 1 .. Available(b) : cells[b.readPos + i] = b.cells[b.readPos + i]
    BY BufferParts DEF Available
  <1>7. \A i \in 1 .. Len(bytes) : cells[b.writePos + i] = bytes[i]
    <2> SUFFICES ASSUME NEW i \in 1 .. Len(bytes)
                 PROVE  cells[b.writePos + i] = bytes[i]
      OBVIOUS
    <2>1. /\ b.writePos + i \in 1 .. Size(b)
          /\ b.writePos + i > b.writePos /\ b.writePos + i <= b.writePos + Len(bytes)
          /\ (b.writePos + i) - b.writePos = i
      BY <1>1, BufferParts
    <2> QED
      BY <2>1
  <1> HIDE DEF cells, d
  <1>8. BufferOK(d)
    BY <1>1, <1>2, <1>5, BufferParts DEF BufferOK, Size
  <1>9. Available(d) = Available(b) + Len(bytes)
    BY <1>1, <1>2, BufferParts DEF Available
  <1>10. /\ Readable(b) \in Seq(Byte) /\ Readable(d) \in Seq(Byte)
         /\ Len(Readable(b)) = Available(b) /\ Len(Readable(d)) = Available(b) + Len(bytes)
    BY <1>8, <1>9, ReadableParts
  <1>11. /\ Readable(b) \o bytes \in Seq(Byte)
         /\ Len(Readable(b) \o bytes) = Available(b) + Len(bytes)
         /\ \A i \in 1 .. Available(b) + Len(bytes) : (Readable(b) \o bytes)[i] =
               IF i <= Available(b) THEN Readable(b)[i] ELSE bytes[i - Available(b)]
    BY <1>10, ConcatProperties
  <1>12. ASSUME NEW i \in 1 .. Available(b) + Len(bytes)
         PROVE  Readable(d)[i] = (Readable(b) \o bytes)[i]
    <2>1. Readable(d)[i] = cells[b.readPos + i]
      BY <1>2, <1>8, <1>9, ReadableParts
    <2>2. CASE i <= Available(b)
      <3>1. i \in 1 .. Available(b)
        BY <1>1, <2>2, BufferParts
      <3>2. Readable(d)[i] = Readable(b)[i]
        BY <2>1, <3>1, <1>6, ReadableParts
      <3> QED
        BY <2>2, <3>2, <1>11
    <2>3. CASE ~(i <= Available(b))
      <3>1. i - Available(b) \in 1 .. Len(bytes)
        BY <1>1, <2>3, BufferParts
      <3>2. b.readPos + i = b.writePos + (i - Available(b))
        BY <1>1, BufferParts DEF Available
      <3>3. Readable(d)[i] = bytes[i - Available(b)]
        BY <2>1, <3>1, <3>2, <1>7
      <3> QED
        BY <2>3, <3>3, <1>11
    <2> QED
      BY <2>2, <2>3
  <1>13. Readable(d) = Readable(b) \o bytes
    BY <1>10, <1>11, <1>12, SeqEqual
  <1> QED
    BY <1>8, <1>13 DEF d

(* append: what could be read, then what was appended.                     *)
LEMMA AppendOK ==
    ASSUME NEW b, BufferOK(b), NEW bytes \in Seq(Byte)
    PROVE  /\ BufferOK(AppendBytes(b, bytes))
           /\ Readable(AppendBytes(b, bytes)) = Readable(b) \o bytes
  <1> DEFINE c == Compact(b)
             g == Grow(c, Len(bytes))
  <1>1. Len(bytes) \in Nat
    BY LenProperties
  <1>2. BufferOK(c) /\ Readable(c) = Readable(b)
    BY CompactOK
  <1> HIDE DEF c
  <1>3. /\ BufferOK(g) /\ Readable(g) = Readable(c)
        /\ g.writePos + Len(bytes) <= Size(g)
    BY <1>1, <1>2, GrowOK
  <1> HIDE DEF g
  <1>4. BufferOK(Store(g, bytes)) /\ Readable(Store(g, bytes)) = Readable(g) \o bytes
    BY <1>3, StoreOK
  <1> QED
    BY <1>2, <1>3, <1>4 DEF AppendBytes, c, g

(* consume: what could be read, without its beginning.                     *)
LEMMA ConsumeOK ==
    ASSUME NEW b, BufferOK(b), NEW len \in Nat, len <= Available(b)
    PROVE  /\ BufferOK(Consume(b, len))
           /\ Readable(b) = SubSeq(Readable(b), 1, len) \o Readable(Consume(b, len))
  <1> DEFINE d == Consume(b, len)
             rest == SubSeq(Readable(b), len + 1, Available(b))
  <1>1. d = IF len >= Available(b)
            THEN [cells |-> b.cells, readPos |-> 0, writePos |-> 0]
            ELSE [cells |-> b.cells, readPos |-> b.readPos + len, writePos |-> b.writePos]
    <2>1. b \in [cells : Seq(Byte), readPos : Nat, writePos : Nat]
      BY DEF BufferOK
    <2>2. CASE len >= Available(b)
      <3>1. d = [b EXCEPT !.readPos = 0, !.writePos = 0]
        BY <2>2 DEF Consume
      <3> HIDE DEF d, rest
      <3>2. d = [cells |-> b.cells, readPos |-> 0, writePos |-> 0]
        BY <2>1, <3>1
      <3> QED
        BY <2>2, <3>2
    <2>3. CASE ~(len >= Available(b))
      BY <2>1, <2>3 DEF Consume
    <2> QED
      BY <2>2, <2>3
  <1> HIDE DEF d
  <1>2. BufferOK(d)
    BY <1>1, BufferParts DEF BufferOK, Size, Available
  <1>3. Available(d) = Available(b) - len
    BY <1>1, BufferParts DEF Available
  <1>4. Readable(b) \in Seq(Byte) /\ Len(Readable(b)) = Available(b)
    BY ReadableParts
  <1>5. \A i \in 1 .. Len(Readable(b)) : Readable(b)[i] \in Byte
    BY <1>4, ElementOfSeq
  <1>6. /\ rest \in Seq(Byte) /\ Len(rest) = Available(b) - len
        /\ \A i \in 1 .. Available(b) - len : rest[i] = Readable(b)[len + i]
    <2>1. /\ rest \in Seq(Byte)
          /\ Len(rest) = IF len + 1 <= Available(b) THEN Available(b) - (len + 1) + 1 ELSE 0
          /\ \A i \in 1 .. Available(b) - (len + 1) + 1 :
                rest[i] = Readable(b)[len + 1 + i - 1]
      <3>1. \A i \in len + 1 .. Available(b) : Readable(b)[i] \in Byte
        BY <1>4, <1>5, BufferParts
      <3> QED
        BY <3>1, BufferParts, SubSeqProperties
    <2> HIDE DEF rest
    <2>2. Available(b) - (len + 1) + 1 = Available(b) - len
      BY BufferParts
    <2>3. \A i \in 1 .. Available(b) - len : len + 1 + i - 1 = len + i
      BY BufferParts
    <2> QED
      BY <2>1, <2>2, <2>3, BufferParts
  <1>7. ASSUME NEW i \in 1 .. Available(b) - len
        PROVE  Readable(d)[i] = rest[i]
    <2>1. Readable(d)[i] = d.cells[d.readPos + i]
      BY <1>2, <1>3, ReadableParts
    <2>2. len + i \in 1 .. Available(b) /\ ~(len >= Available(b))
      BY BufferParts
    <2>3. d.cells = b.cells /\ d.readPos = b.readPos + len
      BY <1>1, <2>2
    <2>4. Readable(b)[len + i] = b.cells[b.readPos + (len + i)]
      BY <2>2, ReadableParts
    <2>5. d.readPos + i = b.readPos + (len + i)
      BY <2>3, BufferParts
    <2> QED
      BY <1>6, <2>1, <2>3, <2>4, <2>5
  <1>8. Readable(d) \in Seq(Byte) /\ Len(Readable(d)) = Available(b) - len
    BY <1>2, <1>3, ReadableParts
  <1>9. Readable(d) = rest
    <2> HIDE DEF rest
    <2> QED
      BY <1>6, <1>7, <1>8, SeqEqual
  <1>10. Readable(b) = SubSeq(Readable(b), 1, len) \o rest
    <2>1. 1 \in 1 .. Available(b) + 1 /\ len \in 1 - 1 .. Available(b)
      BY BufferParts
    <2>2. SubSeq(Readable(b), 1, len) \o SubSeq(Readable(b), len + 1, Available(b))
             = SubSeq(Readable(b), 1, Available(b))
      BY <1>4, <2>1, BufferParts, ConcatAdjacentSubSeq
    <2>3. SubSeq(Readable(b), 1, Available(b)) = Readable(b)
      BY <1>4, SubSeqFull
    <2> QED
      BY <2>2, <2>3
  <1> QED
    BY <1>2, <1>9, <1>10 DEF d

(* What the peer sends is made of frames.                                  *)
LEMMA SentFrame ==
    ASSUME NEW m \in Message
    PROVE  /\ Serialize(m) \in Seq(Byte)
           /\ Len(Serialize(m)) = HeaderSize + Len(m.payload)
           /\ Serialize(m)[1] = m.type
           /\ DecodeLength(Serialize(m)) = Len(m.payload)
           /\ SubSeq(Serialize(m), HeaderSize + 1, HeaderSize + Len(m.payload)) = m.payload
  <1>1. m \in Sendable /\ Fits(m)
    BY FrameAssumption, PeerAssumption DEF Sendable, Fits
  <1> QED
    BY <1>1, SerializeType, FrameParts

(* What follows a header does not make it another one.                     *)
LEMMA HeaderStays ==
    ASSUME NEW a \in Seq(Byte), NEW b \in Seq(Byte), Len(a) >= HeaderSize
    PROVE  /\ (a \o b)[1] = a[1] /\ DecodeLength(a \o b) = DecodeLength(a)
           /\ HeaderOK(a \o b) = HeaderOK(a)
  BY HeaderOfPrefix DEF HeaderOK


------------------------------------------------------------------------------
(* What a step of the reader relies on and keeps.                          *)
IInv == TypeOK /\ StreamKept

(* A whole frame in the buffer is no longer than what can be read.         *)
LEMMA FrameSize ==
    ASSUME BufferOK(buf), HasFrame
    PROVE  /\ HeaderSize + NextPayload \in Nat
           /\ HeaderSize + NextPayload <= Available(buf)
  <1>1. Readable(buf) \in Seq(Byte) /\ Len(Readable(buf)) >= HeaderSize
    BY ReadableParts DEF HasFrame, HasHeader
  <1>2. NextPayload \in Nat
    BY <1>1, DecodeLengthType DEF NextPayload
  <1> QED
    BY <1>2 DEF HasFrame, HeaderSize

(* The empty buffer.                                                       *)
LEMMA InitOK ==
    ASSUME Init
    PROVE  IInv /\ Available(buf) = 0
  <1> DEFINE cells == [i \in 1 .. InitialSize |-> 0]
  <1>1. cells \in Seq(Byte)
    <2>1. InitialSize \in Nat /\ 0 \in Byte
      BY FrameAssumption, CodecAssumption DEF Byte
    <2>2. \A i \in 1 .. InitialSize : cells[i] \in Byte
      BY <2>1
    <2>3. cells = [i \in 1 .. InitialSize |-> cells[i]]
      OBVIOUS
    <2> HIDE DEF cells
    <2> QED
      BY <2>1, <2>2, <2>3, ByteArray
  <1>2. buf = [cells |-> cells, readPos |-> 0, writePos |-> 0]
    BY DEF Init
  <1> HIDE DEF cells
  <1>3. BufferOK(buf)
    <2>1. Len(cells) \in Nat
      BY <1>1, LenProperties
    <2> QED
      BY <1>1, <1>2, <2>1 DEF BufferOK, Size
  <1>4. Available(buf) = 0
    BY <1>2 DEF Available
  <1>5. Readable(buf) = <<>>
    <2>1. Readable(buf) \in Seq(Byte) /\ Len(Readable(buf)) = 0
      BY <1>3, <1>4, ReadableParts
    <2> QED
      BY <2>1, EmptySeq
  <1>6. <<>> \in Seq(Byte)
    OBVIOUS
  <1>7. /\ wire = <<>> /\ stream = <<>> /\ consumed = <<>>
        /\ mode = "idle" /\ junk = FALSE
    BY DEF Init
  <1>8. TypeOK
    BY <1>3, <1>6, <1>7 DEF TypeOK
  <1>9. StreamKept
    <2>1. (<<>> \o <<>>) \o <<>> = <<>>
      BY <1>6, ConcatEmptySeq
    <2> QED
      BY <1>5, <1>7, <2>1 DEF StreamKept
  <1> QED
    BY <1>4, <1>8, <1>9 DEF IInv

(* Bytes sent are added at both ends of the equation.                      *)
LEMMA SendOK ==
    ASSUME IInv, NEW bytes \in Seq(Byte),
           wire' = wire \o bytes, stream' = stream \o bytes,
           UNCHANGED <<buf, mode, consumed>>, junk' \in BOOLEAN
    PROVE  IInv'
  <1>1. TypeOK'
    <2>1. wire' \in Seq(Byte) /\ stream' \in Seq(Byte)
      BY ConcatProperties DEF IInv, TypeOK
    <2> QED
      BY <2>1 DEF IInv, TypeOK, BufferOK, Size
  <1>2. StreamKept'
    <2> DEFINE front == consumed \o Readable(buf)
    <2>1. consumed \in Seq(Byte) /\ Readable(buf) \in Seq(Byte) /\ wire \in Seq(Byte)
      BY ReadableParts DEF IInv, TypeOK
    <2>2. front \in Seq(Byte)
      BY <2>1, ConcatProperties
    <2>3. front' = front
      BY DEF Readable
    <2> HIDE DEF front
    <2>4. (front \o wire) \o bytes = front \o (wire \o bytes)
      BY <2>1, <2>2, Regroup
    <2> QED
      BY <2>3, <2>4 DEF IInv, StreamKept, front
  <1> QED
    BY <1>1, <1>2 DEF IInv

(* Bytes received move from the wire to the end of the buffer.             *)
LEMMA ReceiveOK ==
    ASSUME IInv, NEW n, Receive(n)
    PROVE  IInv'
  <1> DEFINE x == SubSeq(wire, 1, n)
             rest == SubSeq(wire, n + 1, Len(wire))
  <1>1. BufferOK(buf) /\ wire \in Seq(Byte) /\ consumed \in Seq(Byte)
    BY DEF IInv, TypeOK
  <1>2. x \in Seq(Byte) /\ rest \in Seq(Byte) /\ wire = x \o rest
    <2>1. n \in 0 .. Len(wire)
      BY <1>1, LenProperties DEF Receive
    <2> QED
      BY <1>1, <2>1, Piece
  <1>3. /\ buf' = AppendBytes(buf, x) /\ wire' = rest /\ mode' = "reading"
        /\ UNCHANGED <<stream, consumed, junk>>
    BY DEF Receive
  <1> HIDE DEF x, rest
  <1>4. BufferOK(buf') /\ Readable(buf') = Readable(buf) \o x
    BY <1>1, <1>2, <1>3, AppendOK
  <1>5. TypeOK'
    BY <1>2, <1>3, <1>4 DEF IInv, TypeOK
  <1>6. StreamKept'
    <2> DEFINE r == Readable(buf)
    <2>1. r \in Seq(Byte)
      BY <1>1, ReadableParts
    <2> HIDE DEF r
    <2>2. /\ consumed \in Seq(Byte) /\ x \in Seq(Byte) /\ rest \in Seq(Byte)
          /\ consumed \o r \in Seq(Byte)
      BY <1>1, <1>2, <2>1, ConcatProperties
    <2>3. (consumed \o (r \o x)) \o rest = (consumed \o r) \o (x \o rest)
      <3>1. consumed \o (r \o x) = (consumed \o r) \o x
        BY <2>1, <2>2, Regroup
      <3>2. ((consumed \o r) \o x) \o rest = (consumed \o r) \o (x \o rest)
        BY <2>2, Regroup
      <3> QED
        BY <3>1, <3>2
    <2> QED
      BY <1>2, <1>3, <1>4, <2>3 DEF IInv, StreamKept, r
  <1> QED
    BY <1>5, <1>6 DEF IInv

(* A frame extracted moves from the front of the buffer to what was        *)
(* consumed.                                                               *)
LEMMA ExtractOK ==
    ASSUME IInv, ExtractFrame
    PROVE  IInv'
  <1> DEFINE size == HeaderSize + NextPayload
             x == SubSeq(Readable(buf), 1, size)
  <1>1. BufferOK(buf) /\ wire \in Seq(Byte) /\ consumed \in Seq(Byte)
    BY DEF IInv, TypeOK
  <1>2. size \in Nat /\ size <= Available(buf)
    BY <1>1, FrameSize DEF ExtractFrame
  <1>3. /\ buf' = Consume(buf, size) /\ consumed' = consumed \o x
        /\ mode' = "extracting" /\ UNCHANGED <<wire, stream, junk>>
    BY DEF ExtractFrame
  <1> HIDE DEF size
  <1>4. BufferOK(buf') /\ Readable(buf) = x \o Readable(buf')
    BY <1>1, <1>2, <1>3, ConsumeOK
  <1>5. Readable(buf') \in Seq(Byte)
    BY <1>4, ReadableParts
  <1>6. x \in Seq(Byte)
    <2>1. Readable(buf) \in Seq(Byte) /\ Len(Readable(buf)) = Available(buf)
      BY <1>1, ReadableParts
    <2>2. size \in 0 .. Len(Readable(buf))
      BY <1>1, <1>2, <2>1, BufferParts
    <2> QED
      BY <2>1, <2>2, Piece
  <1> HIDE DEF x
  <1>7. TypeOK'
    <2>1. consumed' \in Seq(Byte)
      BY <1>1, <1>3, <1>6, ConcatProperties
    <2> QED
      BY <1>3, <1>4, <2>1 DEF IInv, TypeOK
  <1>8. StreamKept'
    <2> DEFINE r == Readable(buf')
    <2>1. (consumed \o x) \o r = consumed \o (x \o r)
      BY <1>1, <1>5, <1>6, Regroup
    <2>2. consumed' \o r = consumed \o Readable(buf)
      BY <1>3, <1>4, <2>1
    <2> QED
      BY <1>3, <2>2 DEF IInv, StreamKept
  <1> QED
    BY <1>7, <1>8 DEF IInv

(* The invariant holds at first and every step keeps it.                   *)
LEMMA IInvHolds == Spec => []IInv
  <1>1. Init => IInv
    BY InitOK
  <1>2. IInv /\ [Next]_vars => IInv'
    <2> SUFFICES ASSUME IInv, [Next]_vars
                 PROVE  IInv'
      OBVIOUS
    <2>1. ASSUME NEW m \in Message, PeerSend(m)
          PROVE  IInv'
      <3>1. Serialize(m) \in Seq(Byte)
        BY SentFrame
      <3>2. junk' \in BOOLEAN
        BY <2>1 DEF PeerSend, IInv, TypeOK
      <3> QED
        BY <2>1, <3>1, <3>2, SendOK DEF PeerSend
    <2>2. ASSUME NEW bytes \in Junk, PeerSendJunk(bytes)
          PROVE  IInv'
      <3>1. bytes \in Seq(Byte)
        BY FrameAssumption
      <3> QED
        BY <2>2, <3>1, SendOK DEF PeerSendJunk
    <2>3. ASSUME NEW n \in 1 .. Len(wire), Receive(n)
          PROVE  IInv'
      BY <2>3, ReceiveOK
    <2>4. CASE ExtractFrame
      BY <2>4, ExtractOK
    <2>5. CASE NeedMore \/ Corrupted \/ UNCHANGED vars
      <3>1. /\ UNCHANGED <<wire, buf, stream, consumed, junk>>
            /\ mode' \in {mode, "idle", "closed"}
        BY <2>5 DEF NeedMore, Corrupted, vars
      <3>2. TypeOK'
        BY <3>1 DEF IInv, TypeOK, BufferOK, Size
      <3>3. StreamKept'
        BY <3>1 DEF IInv, StreamKept, Readable
      <3> QED
        BY <3>2, <3>3 DEF IInv
    <2> QED
      BY <2>1, <2>2, <2>3, <2>4, <2>5 DEF Next, Extract
  <1> QED
    BY <1>1, <1>2, PTL DEF Spec

(* The cursors stay in the array and in their order: no memcpy or memmove  *)
(* of the ByteBuffer reaches outside the vector, whatever sizes are        *)
(* received and consumed in whatever order.                                *)
THEOREM BufferTypeCorrect == Spec => []TypeOK
  <1>1. IInv => TypeOK
    BY DEF IInv
  <1> QED
    BY <1>1, IInvHolds, PTL

(* The ByteBuffer loses, doubles and moves no byte of the stream.          *)
THEOREM NoByteLost == Spec => []StreamKept
  <1>1. IInv => StreamKept
    BY DEF IInv
  <1> QED
    BY <1>1, IInvHolds, PTL

(* While the reader waits for a readiness event there is no whole frame in *)
(* the buffer.                                                             *)
THEOREM NoFrameForgotten == Spec => []IdleHasNoFrame
  <1>1. Init => IdleHasNoFrame
    <2> SUFFICES ASSUME Init
                 PROVE  ~HasHeader
      BY DEF IdleHasNoFrame, HasFrame
    <2> QED
      BY InitOK DEF HasHeader, HeaderSize
  <1>2. IdleHasNoFrame /\ [Next]_vars => IdleHasNoFrame'
    <2> SUFFICES ASSUME IdleHasNoFrame, [Next]_vars, mode' = "idle"
                 PROVE  ~HasFrame'
      BY DEF IdleHasNoFrame
    <2>1. buf' = buf /\ ~HasFrame
      BY DEF IdleHasNoFrame, Next, vars, PeerSend, PeerSendJunk, Receive,
             Extract, ExtractFrame, NeedMore, Corrupted
    <2> QED
      BY <2>1 DEF HasFrame, HasHeader, NextPayload
  <1> QED
    BY <1>1, <1>2, PTL DEF Spec

------------------------------------------------------------------------------
(* What the reader has not consumed is, from its first byte, the frames of *)
(* the messages it has not extracted, up to some junk, if there is any:    *)
(* rest[i] is what remains when the messages before the i-th are out, and  *)
(* after the last-th message comes the junk or nothing.                    *)
Unconsumed == Readable(buf) \o wire

FramedBy(rest, last) ==
    /\ Len(received) <= last /\ last <= Len(sent)
    /\ rest[Len(received) + 1] = Unconsumed
    /\ \A i \in Len(received) + 1 .. last :
          rest[i] = Serialize(sent[i]) \o rest[i + 1]
    /\ IF junk
       THEN Len(rest[last + 1]) >= HeaderSize /\ ~HeaderOK(rest[last + 1])
       ELSE last = Len(sent) /\ rest[last + 1] = <<>>

Framed == \E rest \in [Nat -> Seq(Byte)], last \in Nat : FramedBy(rest, last)

ChannelInv ==
    /\ IInv
    /\ sent \in Seq(Message) /\ received \in Seq(Message)
    /\ Framed

(* An element more at the end of a sequence.                               *)
LEMMA Appended ==
    ASSUME NEW S, NEW s \in Seq(S), NEW e \in S
    PROVE  /\ Append(s, e) \in Seq(S) /\ Len(Append(s, e)) = Len(s) + 1
           /\ \A i \in 1 .. Len(s) : Append(s, e)[i] = s[i]
           /\ Append(s, e)[Len(s) + 1] = e
  BY AppendProperties

(* A string of bytes added to what remains is added to every remainder.    *)
LEMMA AddedToRest ==
    ASSUME NEW rest \in [Nat -> Seq(Byte)], NEW last \in Nat, NEW bytes \in Seq(Byte)
    PROVE  \E new \in [Nat -> Seq(Byte)] :
              /\ \A i \in 0 .. last + 1 : new[i] = rest[i] \o bytes
              /\ new[last + 2] = <<>>
              /\ \A i \in 1 .. last, m \in Message :
                    rest[i] = Serialize(m) \o rest[i + 1] =>
                       new[i] = Serialize(m) \o new[i + 1]
  <1> DEFINE new == [i \in Nat |-> IF i <= last + 1 THEN rest[i] \o bytes ELSE <<>>]
  <1>1. \A i \in Nat : rest[i] \in Seq(Byte) /\ rest[i] \o bytes \in Seq(Byte)
    BY ConcatProperties
  <1>2. <<>> \in Seq(Byte)
    OBVIOUS
  <1>3. new \in [Nat -> Seq(Byte)]
    BY <1>1, <1>2
  <1>4. ASSUME NEW i \in 0 .. last + 1
        PROVE  new[i] = rest[i] \o bytes
    <2>1. i \in Nat /\ i <= last + 1
      OBVIOUS
    <2> QED
      BY <2>1
  <1>5. new[last + 2] = <<>>
    OBVIOUS
  <1>6. ASSUME NEW i \in 1 .. last, NEW m \in Message,
               rest[i] = Serialize(m) \o rest[i + 1]
        PROVE  new[i] = Serialize(m) \o new[i + 1]
    <2>1. i \in 0 .. last + 1 /\ i + 1 \in 0 .. last + 1 /\ i + 1 \in Nat
      OBVIOUS
    <2>2. new[i] = rest[i] \o bytes /\ new[i + 1] = rest[i + 1] \o bytes
      BY <1>4, <2>1
    <2>3. Serialize(m) \in Seq(Byte) /\ rest[i + 1] \in Seq(Byte)
      BY <1>1, <2>1, SentFrame
    <2>4. (Serialize(m) \o rest[i + 1]) \o bytes = Serialize(m) \o (rest[i + 1] \o bytes)
      BY <2>3, Regroup
    <2> QED
      BY <1>6, <2>2, <2>4
  <1> HIDE DEF new
  <1> QED
    BY <1>3, <1>4, <1>5, <1>6

(* At first nothing is unconsumed.                                         *)
LEMMA FramedAtFirst ==
    ASSUME Init
    PROVE  ChannelInv
  <1> DEFINE rest == [i \in Nat |-> <<>>]
  <1>1. /\ sent = <<>> /\ received = <<>> /\ ~junk /\ wire = <<>>
        /\ Len(sent) = 0 /\ Len(received) = 0
    BY DEF Init
  <1>2. IInv /\ Available(buf) = 0
    BY InitOK
  <1>3. Readable(buf) = <<>>
    <2>1. Readable(buf) \in Seq(Byte) /\ Len(Readable(buf)) = 0
      BY <1>2, ReadableParts DEF IInv, TypeOK
    <2> QED
      BY <2>1, EmptySeq
  <1>4. Unconsumed = <<>>
    BY <1>1, <1>3 DEF Unconsumed
  <1>5. rest \in [Nat -> Seq(Byte)]
    OBVIOUS
  <1>6. FramedBy(rest, 0)
    BY <1>1, <1>4 DEF FramedBy
  <1>7. Framed
    <2> HIDE DEF rest
    <2> QED
      BY <1>5, <1>6 DEF Framed
  <1> QED
    BY <1>1, <1>2, <1>7 DEF ChannelInv

(* Bytes sent come after whatever remains.                                 *)
LEMMA UnconsumedGrows ==
    ASSUME IInv, NEW bytes \in Seq(Byte), wire' = wire \o bytes, buf' = buf
    PROVE  Unconsumed' = Unconsumed \o bytes
  <1>1. Readable(buf) \in Seq(Byte) /\ wire \in Seq(Byte)
    BY ReadableParts DEF IInv, TypeOK
  <1>2. Readable(buf') = Readable(buf)
    OBVIOUS
  <1>3. (Readable(buf) \o wire) \o bytes = Readable(buf) \o (wire \o bytes)
    BY <1>1, Regroup
  <1> QED
    BY <1>2, <1>3 DEF Unconsumed

(* A frame sent is the last of the frames, or follows the junk.            *)
LEMMA FramedSend ==
    ASSUME ChannelInv, NEW m \in Message, PeerSend(m)
    PROVE  Framed' /\ sent' \in Seq(Message) /\ Len(sent') = Len(sent) + 1
  <1> DEFINE bytes == Serialize(m)
  <1>1. /\ sent' = Append(sent, m) /\ wire' = wire \o bytes
        /\ UNCHANGED <<buf, received, junk>>
    BY DEF PeerSend
  <1>2. IInv /\ sent \in Seq(Message) /\ received \in Seq(Message)
    BY DEF ChannelInv
  <1>3. bytes \in Seq(Byte)
    BY SentFrame
  <1> HIDE DEF bytes
  <1>4. Unconsumed' = Unconsumed \o bytes
    BY <1>1, <1>2, <1>3, UnconsumedGrows
  <1>5. /\ sent' \in Seq(Message) /\ Len(sent') = Len(sent) + 1
        /\ \A i \in 1 .. Len(sent) : sent'[i] = sent[i]
        /\ sent'[Len(sent) + 1] = m
    BY <1>1, <1>2, Appended
  <1>6. PICK rest \in [Nat -> Seq(Byte)], last \in Nat : FramedBy(rest, last)
    BY DEF ChannelInv, Framed
  <1>b. PICK end \in Nat : end = IF junk THEN last ELSE last + 1
    OBVIOUS
  <1>7. PICK new \in [Nat -> Seq(Byte)] :
           /\ \A i \in 0 .. last + 1 : new[i] = rest[i] \o bytes
           /\ new[last + 2] = <<>>
           /\ \A i \in 1 .. last, x \in Message :
                 rest[i] = Serialize(x) \o rest[i + 1] =>
                    new[i] = Serialize(x) \o new[i + 1]
    BY <1>3, AddedToRest
  <1>8. /\ Len(sent) \in Nat /\ Len(received) \in Nat
        /\ Len(received) <= last /\ last <= Len(sent)
        /\ rest[Len(received) + 1] = Unconsumed
        /\ \A i \in Len(received) + 1 .. last : rest[i] = Serialize(sent[i]) \o rest[i + 1]
    BY <1>2, <1>6, LenProperties DEF FramedBy
  <1>9. new[Len(received) + 1] = Unconsumed'
    <2>1. Len(received) + 1 \in 0 .. last + 1
      BY <1>8
    <2> QED
      BY <1>4, <1>7, <1>8, <2>1
  <1>10. ASSUME NEW i \in Len(received) + 1 .. last
         PROVE  new[i] = Serialize(sent'[i]) \o new[i + 1]
    <2>1. i \in 1 .. last /\ i \in 1 .. Len(sent)
      BY <1>8
    <2>2. sent[i] \in Message /\ sent'[i] = sent[i]
      BY <1>2, <1>5, <2>1, ElementOfSeq
    <2>3. rest[i] = Serialize(sent[i]) \o rest[i + 1]
      BY <1>8
    <2> QED
      BY <1>7, <2>1, <2>2, <2>3
  <1>11. FramedBy(new, end)'
    <2>1. CASE junk
      <3>1. Len(rest[last + 1]) >= HeaderSize /\ ~HeaderOK(rest[last + 1])
        BY <1>6, <2>1 DEF FramedBy
      <3>2. new[last + 1] = rest[last + 1] \o bytes /\ rest[last + 1] \in Seq(Byte)
        <4>1. last + 1 \in 0 .. last + 1 /\ last + 1 \in Nat
          OBVIOUS
        <4> QED
          BY <1>7, <4>1
      <3>3. ~HeaderOK(new[last + 1])
        BY <1>3, <3>1, <3>2, HeaderStays
      <3>4. Len(new[last + 1]) >= HeaderSize
        <4>1. Len(new[last + 1]) = Len(rest[last + 1]) + Len(bytes)
          BY <1>3, <3>2, ConcatProperties
        <4>2. Len(bytes) \in Nat /\ Len(rest[last + 1]) \in Nat
          BY <1>3, <3>2, LenProperties
        <4> QED
          BY <3>1, <4>1, <4>2 DEF HeaderSize
      <3>5. end = last
        BY <1>b, <2>1
      <3> QED
        <4>1. Len(received') <= end /\ end <= Len(sent')
          BY <1>1, <1>5, <1>8, <3>5
        <4>2. new[Len(received') + 1] = Unconsumed'
          BY <1>1, <1>9
        <4>3. \A i \in Len(received') + 1 .. end : new[i] = Serialize(sent'[i]) \o new[i + 1]
          BY <1>1, <1>10, <3>5
        <4>4. junk' /\ Len(new[end + 1]) >= HeaderSize /\ ~HeaderOK(new[end + 1])
          BY <1>1, <2>1, <3>3, <3>4, <3>5
        <4> QED
          BY <4>1, <4>2, <4>3, <4>4 DEF FramedBy
    <2>2. CASE ~junk
      <3>1. last = Len(sent) /\ rest[last + 1] = <<>>
        BY <1>6, <2>2 DEF FramedBy
      <3>2. new[last + 1] = bytes
        <4>1. last + 1 \in 0 .. last + 1
          OBVIOUS
        <4>2. <<>> \o bytes = bytes
          BY <1>3, ConcatEmptySeq
        <4> QED
          BY <1>7, <3>1, <4>1, <4>2
      <3>3. new[last + 1] = Serialize(sent'[last + 1]) \o new[last + 2]
        <4>1. bytes \o <<>> = bytes
          BY <1>3, ConcatEmptySeq
        <4> QED
          BY <1>5, <1>7, <3>1, <3>2, <4>1 DEF bytes
      <3>4. ASSUME NEW i \in Len(received) + 1 .. last + 1
            PROVE  new[i] = Serialize(sent'[i]) \o new[i + 1]
        <4>1. CASE i = last + 1
          <5>1. i + 1 = last + 2
            BY <4>1
          <5> QED
            BY <3>3, <4>1, <5>1
        <4>2. CASE i # last + 1
          <5>1. i \in Len(received) + 1 .. last
            BY <1>8, <4>2
          <5> QED
            BY <1>10, <5>1
        <4> QED
          BY <4>1, <4>2
      <3>5. end = last + 1 /\ (last + 1) + 1 = last + 2
        BY <1>b, <2>2
      <3> QED
        <4>1. Len(received') <= end /\ end = Len(sent')
          BY <1>1, <1>5, <1>8, <3>1, <3>5
        <4>2. new[Len(received') + 1] = Unconsumed'
          BY <1>1, <1>9
        <4>3. \A i \in Len(received') + 1 .. end : new[i] = Serialize(sent'[i]) \o new[i + 1]
          BY <1>1, <3>4, <3>5
        <4>4. ~junk' /\ new[end + 1] = <<>>
          BY <1>1, <1>7, <2>2, <3>5
        <4>5. end <= Len(sent')
          BY <4>1
        <4> QED
          BY <4>1, <4>2, <4>3, <4>4, <4>5 DEF FramedBy
    <2> QED
      BY <2>1, <2>2
  <1>12. Framed'
    BY <1>7, <1>11 DEF Framed
  <1> QED
    BY <1>5, <1>12

(* Junk comes after the last frame.                                        *)
LEMMA FramedJunk ==
    ASSUME ChannelInv, NEW bytes \in Junk, PeerSendJunk(bytes)
    PROVE  Framed'
  <1>1. /\ wire' = wire \o bytes /\ ~junk /\ junk'
        /\ UNCHANGED <<buf, sent, received>>
    BY DEF PeerSendJunk
  <1>2. IInv /\ sent \in Seq(Message) /\ received \in Seq(Message)
    BY DEF ChannelInv
  <1>3. bytes \in Seq(Byte) /\ Len(bytes) >= HeaderSize /\ ~HeaderOK(bytes)
    BY FrameAssumption, PeerAssumption
  <1>4. Unconsumed' = Unconsumed \o bytes
    BY <1>1, <1>2, <1>3, UnconsumedGrows
  <1>5. PICK rest \in [Nat -> Seq(Byte)], last \in Nat : FramedBy(rest, last)
    BY DEF ChannelInv, Framed
  <1>6. PICK new \in [Nat -> Seq(Byte)] :
           /\ \A i \in 0 .. last + 1 : new[i] = rest[i] \o bytes
           /\ new[last + 2] = <<>>
           /\ \A i \in 1 .. last, x \in Message :
                 rest[i] = Serialize(x) \o rest[i + 1] =>
                    new[i] = Serialize(x) \o new[i + 1]
    BY <1>3, AddedToRest
  <1>7. /\ Len(sent) \in Nat /\ Len(received) \in Nat
        /\ Len(received) <= last /\ last = Len(sent) /\ rest[last + 1] = <<>>
        /\ rest[Len(received) + 1] = Unconsumed
        /\ \A i \in Len(received) + 1 .. last : rest[i] = Serialize(sent[i]) \o rest[i + 1]
    BY <1>1, <1>2, <1>5, LenProperties DEF FramedBy
  <1>8. new[Len(received) + 1] = Unconsumed'
    <2>1. Len(received) + 1 \in 0 .. last + 1
      BY <1>7
    <2> QED
      BY <1>4, <1>6, <1>7, <2>1
  <1>9. ASSUME NEW i \in Len(received) + 1 .. last
        PROVE  new[i] = Serialize(sent[i]) \o new[i + 1]
    <2>1. i \in 1 .. last /\ i \in 1 .. Len(sent)
      BY <1>7
    <2>2. sent[i] \in Message
      BY <1>2, <2>1, ElementOfSeq
    <2>3. rest[i] = Serialize(sent[i]) \o rest[i + 1]
      BY <1>7
    <2> QED
      BY <1>6, <2>1, <2>2, <2>3
  <1>10. new[last + 1] = bytes
    <2>1. last + 1 \in 0 .. last + 1
      OBVIOUS
    <2>2. <<>> \o bytes = bytes
      BY <1>3, ConcatEmptySeq
    <2> QED
      BY <1>6, <1>7, <2>1, <2>2
  <1>11. FramedBy(new, last)'
    <2>1. Len(received') <= last /\ last <= Len(sent')
      BY <1>1, <1>7
    <2>2. new[Len(received') + 1] = Unconsumed'
      BY <1>1, <1>8
    <2>3. \A i \in Len(received') + 1 .. last : new[i] = Serialize(sent'[i]) \o new[i + 1]
      BY <1>1, <1>9
    <2>4. junk' /\ Len(new[last + 1]) >= HeaderSize /\ ~HeaderOK(new[last + 1])
      BY <1>1, <1>3, <1>10
    <2> QED
      BY <2>1, <2>2, <2>3, <2>4 DEF FramedBy
  <1> QED
    BY <1>6, <1>11 DEF Framed

(* Bytes received are unconsumed as before.                                *)
LEMMA FramedReceive ==
    ASSUME ChannelInv, NEW n, Receive(n)
    PROVE  Framed'
  <1> DEFINE x == SubSeq(wire, 1, n)
             tail == SubSeq(wire, n + 1, Len(wire))
  <1>1. BufferOK(buf) /\ wire \in Seq(Byte)
    BY DEF ChannelInv, IInv, TypeOK
  <1>2. x \in Seq(Byte) /\ tail \in Seq(Byte) /\ wire = x \o tail
    <2>1. n \in 0 .. Len(wire)
      BY <1>1, LenProperties DEF Receive
    <2> QED
      BY <1>1, <2>1, Piece
  <1>3. /\ buf' = AppendBytes(buf, x) /\ wire' = tail
        /\ UNCHANGED <<sent, received, junk>>
    BY DEF Receive
  <1> HIDE DEF x, tail
  <1>4. Readable(buf') = Readable(buf) \o x /\ Readable(buf) \in Seq(Byte)
    BY <1>1, <1>2, <1>3, AppendOK, ReadableParts
  <1>5. (Readable(buf) \o x) \o tail = Readable(buf) \o (x \o tail)
    BY <1>2, <1>4, Regroup
  <1>6. Unconsumed' = Unconsumed
    BY <1>2, <1>3, <1>4, <1>5 DEF Unconsumed
  <1> QED
    BY <1>3, <1>6 DEF ChannelInv, Framed, FramedBy

(* Where two ways to write a string put the same bytes first, the          *)
(* remainders are the same.                                                *)
LEMMA CancelFront ==
    ASSUME NEW a \in Seq(Byte), NEW b \in Seq(Byte), NEW c \in Seq(Byte),
           a \o b = a \o c
    PROVE  b = c
  BY ConcatSimplifications

(* A piece of a string that ends before more is added is the same piece.   *)
LEMMA PieceOfPrefix ==
    ASSUME NEW a \in Seq(Byte), NEW b \in Seq(Byte), NEW i \in 1 .. Len(a) + 1, NEW n \in Nat,
           n <= Len(a)
    PROVE  SubSeq(a \o b, i, n) = SubSeq(a, i, n)
  <1>1. Len(a) \in Nat /\ Len(b) \in Nat /\ \A k \in 1 .. Len(a) : a[k] \in Byte
    BY LenProperties, ElementOfSeq
  <1>2. \A k \in 1 .. Len(a) : (a \o b)[k] = a[k]
    <2>1. \A k \in 1 .. Len(a) : k \in 1 .. Len(a) + Len(b) /\ k <= Len(a)
      BY <1>1
    <2> QED
      BY <2>1, ConcatProperties
  <1> DEFINE c == a \o b
             x == SubSeq(c, i, n)
             y == SubSeq(a, i, n)
  <1>3. \A k \in 1 .. Len(a) : c[k] = a[k]
    BY <1>2
  <1> HIDE DEF c
  <1>4. \A k \in i .. n : a[k] \in Byte /\ c[k] \in Byte /\ c[k] = a[k]
    BY <1>1, <1>3
  <1>5. /\ x \in Seq(Byte) /\ Len(x) = IF i <= n THEN n - i + 1 ELSE 0
        /\ \A k \in 1 .. n - i + 1 : x[k] = c[i + k - 1]
    BY <1>4, SubSeqProperties
  <1>6. /\ y \in Seq(Byte) /\ Len(y) = IF i <= n THEN n - i + 1 ELSE 0
        /\ \A k \in 1 .. n - i + 1 : y[k] = a[i + k - 1]
    BY <1>4, SubSeqProperties
  <1>7. \A k \in 1 .. n - i + 1 : i + k - 1 \in i .. n
    BY <1>1
  <1> HIDE DEF x, y
  <1>8. \A k \in 1 .. n - i + 1 : x[k] = y[k]
    BY <1>4, <1>5, <1>6, <1>7
  <1>9. \A k \in 1 .. Len(x) : x[k] = y[k]
    BY <1>1, <1>5, <1>8
  <1>10. x = y
    BY <1>5, <1>6, <1>9, SeqEqual
  <1> QED
    BY <1>10 DEF c, x, y

(* The frame that the bytes begin with, and the message in it.             *)
FirstFrame(r) == SubSeq(r, 1, HeaderSize + DecodeLength(r))
FirstMessage(r) ==
    [type    |-> r[1],
     payload |-> SubSeq(r, HeaderSize + 1, HeaderSize + DecodeLength(r))]

(* The frame that HasFrame announces is the next message's.                *)
LEMMA NextIsExtracted ==
    ASSUME NEW r \in Seq(Byte), NEW w \in Seq(Byte), NEW t \in Seq(Byte), NEW m \in Message,
           Len(r) >= HeaderSize, Len(r) >= HeaderSize + DecodeLength(r),
           r \o w = Serialize(m) \o t
    PROVE  FirstFrame(r) = Serialize(m) /\ FirstMessage(r) = m
  <1> DEFINE s == Serialize(m)
             n == Len(m.payload)
  <1>1. s \in Seq(Byte)
    BY SentFrame
  <1>2. /\ Len(s) = HeaderSize + n /\ s[1] = m.type /\ DecodeLength(s) = n
        /\ SubSeq(s, HeaderSize + 1, HeaderSize + n) = m.payload
    BY SentFrame
  <1>3. n \in Nat /\ Len(r) \in Nat
    BY FrameAssumption, LenProperties
  <1>4. r \o w = s \o t
    OBVIOUS
  <1> HIDE DEF s, n
  <1>5. (r \o w)[1] = r[1] /\ DecodeLength(r \o w) = DecodeLength(r)
    BY HeaderStays
  <1>6. (s \o t)[1] = s[1] /\ DecodeLength(s \o t) = DecodeLength(s)
    BY <1>1, <1>2, <1>3, HeaderStays DEF HeaderSize
  <1>7. DecodeLength(r) = n /\ r[1] = m.type
    BY <1>2, <1>4, <1>5, <1>6
  <1>8. Len(r) >= HeaderSize + n
    BY <1>7
  <1>9. ASSUME NEW i \in 1 .. HeaderSize + 1
        PROVE  SubSeq(r, i, HeaderSize + n) = SubSeq(s, i, HeaderSize + n)
    <2>1. /\ i \in 1 .. Len(r) + 1 /\ i \in 1 .. Len(s) + 1 /\ HeaderSize + n \in Nat
          /\ HeaderSize + n <= Len(r) /\ HeaderSize + n <= Len(s)
      BY <1>2, <1>3, <1>8 DEF HeaderSize
    <2>2. SubSeq(r \o w, i, HeaderSize + n) = SubSeq(r, i, HeaderSize + n)
      BY <2>1, PieceOfPrefix
    <2>3. SubSeq(s \o t, i, HeaderSize + n) = SubSeq(s, i, HeaderSize + n)
      BY <1>1, <2>1, PieceOfPrefix
    <2> QED
      BY <1>4, <2>2, <2>3
  <1>10. SubSeq(r, 1, HeaderSize + n) = s
    <2>1. SubSeq(s, 1, Len(s)) = s
      BY <1>1, SubSeqFull
    <2>2. 1 \in 1 .. HeaderSize + 1
      BY DEF HeaderSize
    <2> QED
      BY <1>2, <1>9, <2>1, <2>2
  <1>11. SubSeq(r, HeaderSize + 1, HeaderSize + n) = m.payload
    <2>1. HeaderSize + 1 \in 1 .. HeaderSize + 1
      BY DEF HeaderSize
    <2> QED
      BY <1>2, <1>9, <2>1
  <1>12. m = [type |-> m.type, payload |-> m.payload]
    BY FrameAssumption
  <1> QED
    BY <1>7, <1>10, <1>11, <1>12 DEF s, n, FirstFrame, FirstMessage

(* What is extracted is the next message sent, and then the rest remains.  *)
LEMMA FramedExtract ==
    ASSUME ChannelInv, ExtractFrame
    PROVE  /\ Framed'
           /\ Len(received) < Len(sent)
           /\ received' = Append(received, sent[Len(received) + 1])
  <1> DEFINE r == Readable(buf)
             k == Len(received) + 1
             size == HeaderSize + DecodeLength(r)
  <1>1. /\ BufferOK(buf) /\ wire \in Seq(Byte) /\ r \in Seq(Byte) /\ Len(r) = Available(buf)
        /\ sent \in Seq(Message) /\ received \in Seq(Message)
    BY ReadableParts DEF ChannelInv, IInv, TypeOK
  <1>2. Len(sent) \in Nat /\ Len(received) \in Nat /\ k \in Nat
    BY <1>1, LenProperties
  <1>3. /\ Len(r) >= HeaderSize /\ HeaderOK(r) /\ Len(r) >= size
        /\ size \in Nat /\ size <= Available(buf)
    BY <1>1, FrameSize DEF ExtractFrame, HasFrame, HasHeader, NextPayload
  <1>4. /\ received' = Append(received, [type    |-> r[1],
                                         payload |-> SubSeq(r, HeaderSize + 1, size)])
        /\ buf' = Consume(buf, size)
        /\ UNCHANGED <<wire, sent, junk>>
    BY DEF ExtractFrame, NextPayload
  <1>5. PICK rest \in [Nat -> Seq(Byte)], last \in Nat : FramedBy(rest, last)
    BY DEF ChannelInv, Framed
  <1>6. /\ Len(received) <= last /\ last <= Len(sent)
        /\ rest[k] = r \o wire
        /\ \A i \in k .. last : rest[i] = Serialize(sent[i]) \o rest[i + 1]
        /\ IF junk
           THEN Len(rest[last + 1]) >= HeaderSize /\ ~HeaderOK(rest[last + 1])
           ELSE last = Len(sent) /\ rest[last + 1] = <<>>
    BY <1>5 DEF FramedBy, Unconsumed
  <1> HIDE DEF r
  <1>7. Len(received) < last
    <2>1. SUFFICES ASSUME last = Len(received)
                   PROVE  FALSE
      BY <1>2, <1>6
    <2>2. rest[last + 1] = r \o wire
      BY <1>6, <2>1
    <2>3. HeaderOK(r \o wire)
      BY <1>1, <1>3, HeaderStays
    <2>4. Len(r \o wire) = Len(r) + Len(wire) /\ Len(r) \in Nat /\ Len(wire) \in Nat
      BY <1>1, ConcatProperties, LenProperties
    <2>5. r \o wire # <<>>
      <3>1. Len(r \o wire) # 0
        BY <1>3, <2>4 DEF HeaderSize
      <3> QED
        BY <3>1
    <2> QED
      BY <1>6, <2>2, <2>3, <2>5
  <1> DEFINE m == sent[k]
             t == rest[k + 1]
  <1>8. k \in k .. last /\ k \in 1 .. Len(sent)
    <2>1. Len(received) < last /\ last <= Len(sent)
      BY <1>6, <1>7
    <2>2. k <= last
      BY <1>2, <2>1
    <2>3. k >= 1
      BY <1>2, <2>1
    <2>4. k <= Len(sent)
      BY <1>2, <2>1
    <2> QED
      BY <1>2, <2>2, <2>3, <2>4
  <1>9. m \in Message
    BY <1>1, <1>8, ElementOfSeq
  <1>10. r \o wire = Serialize(m) \o t /\ t \in Seq(Byte)
    <2>1. rest[k] = Serialize(sent[k]) \o rest[k + 1]
      BY <1>6, <1>8
    <2> QED
      BY <1>2, <1>6, <2>1
  <1> HIDE DEF m, t
  <1>11. FirstFrame(r) = Serialize(m) /\ FirstMessage(r) = m
    <2>1. Len(r) >= HeaderSize /\ Len(r) >= HeaderSize + DecodeLength(r)
      BY <1>3
    <2> QED
      BY <1>1, <1>9, <1>10, <2>1, NextIsExtracted
  <1>12. received' = Append(received, m) /\ SubSeq(r, 1, size) = Serialize(m)
    BY <1>4, <1>11 DEF FirstFrame, FirstMessage
  <1> HIDE DEF size
  <1>13. Unconsumed' = t
    <2> DEFINE q == Readable(buf')
    <2>1. BufferOK(buf') /\ r = Serialize(m) \o q
      BY <1>1, <1>3, <1>4, <1>12, ConsumeOK DEF r
    <2>2. q \in Seq(Byte)
      BY <2>1, ReadableParts
    <2> HIDE DEF q
    <2>3. Serialize(m) \in Seq(Byte)
      BY <1>9, SentFrame
    <2>4. (Serialize(m) \o q) \o wire = Serialize(m) \o (q \o wire)
      BY <1>1, <2>2, <2>3, Regroup
    <2>5. q \o wire \in Seq(Byte)
      BY <1>1, <2>2, ConcatProperties
    <2>6. Serialize(m) \o (q \o wire) = Serialize(m) \o t
      BY <1>10, <2>1, <2>4
    <2>7. q \o wire = t
      BY <1>10, <2>3, <2>5, <2>6, CancelFront
    <2> QED
      BY <1>4, <2>7 DEF Unconsumed, q
  <1>14. Len(received') = k
    BY <1>1, <1>9, <1>12, Appended
  <1>15. Framed'
    <2>1. Len(received') <= last /\ last <= Len(sent')
      BY <1>2, <1>4, <1>6, <1>7, <1>14
    <2>2. rest[Len(received') + 1] = Unconsumed'
      BY <1>13, <1>14 DEF t
    <2>3. \A i \in Len(received') + 1 .. last : rest[i] = Serialize(sent'[i]) \o rest[i + 1]
      <3>1. \A i \in k + 1 .. last : i \in k .. last
        BY <1>2
      <3> QED
        BY <1>4, <1>6, <1>14, <3>1
    <2>4. IF junk'
          THEN Len(rest[last + 1]) >= HeaderSize /\ ~HeaderOK(rest[last + 1])
          ELSE last = Len(sent') /\ rest[last + 1] = <<>>
      BY <1>4, <1>6
    <2>5. FramedBy(rest, last)'
      BY <2>1, <2>2, <2>3, <2>4 DEF FramedBy
    <2> QED
      BY <2>5 DEF Framed
  <1>16. Len(received) < Len(sent)
    BY <1>2, <1>6, <1>7
  <1> QED
    BY <1>12, <1>15, <1>16 DEF m

(* The invariant holds at first and every step keeps it.                   *)
LEMMA ChannelInvHolds == Spec => []ChannelInv
  <1>1. Init => ChannelInv
    BY FramedAtFirst
  <1>2. ChannelInv /\ IInv' /\ [Next]_vars => ChannelInv'
    <2> SUFFICES ASSUME ChannelInv, IInv', [Next]_vars
                 PROVE  sent' \in Seq(Message) /\ received' \in Seq(Message) /\ Framed'
      BY DEF ChannelInv
    <2>0. sent \in Seq(Message) /\ received \in Seq(Message)
      BY DEF ChannelInv
    <2>1. ASSUME NEW m \in Message, PeerSend(m)
          PROVE  sent' \in Seq(Message) /\ received' \in Seq(Message) /\ Framed'
      <3>1. received' = received
        BY <2>1 DEF PeerSend
      <3> QED
        BY <2>0, <2>1, <3>1, FramedSend
    <2>2. ASSUME NEW bytes \in Junk, PeerSendJunk(bytes)
          PROVE  sent' \in Seq(Message) /\ received' \in Seq(Message) /\ Framed'
      <3>1. sent' = sent /\ received' = received
        BY <2>2 DEF PeerSendJunk
      <3> QED
        BY <2>0, <2>2, <3>1, FramedJunk
    <2>3. ASSUME NEW n \in 1 .. Len(wire), Receive(n)
          PROVE  sent' \in Seq(Message) /\ received' \in Seq(Message) /\ Framed'
      <3>1. sent' = sent /\ received' = received
        BY <2>3 DEF Receive
      <3> QED
        BY <2>0, <2>3, <3>1, FramedReceive
    <2>4. CASE ExtractFrame
      <3>1. /\ Framed' /\ Len(received) < Len(sent)
            /\ received' = Append(received, sent[Len(received) + 1])
        BY <2>4, FramedExtract
      <3>2. sent[Len(received) + 1] \in Message
        <4>1. Len(received) + 1 \in 1 .. Len(sent)
          BY <2>0, <3>1, LenProperties
        <4> QED
          BY <2>0, <4>1, ElementOfSeq
      <3>3. received' \in Seq(Message) /\ sent' = sent
        BY <2>0, <2>4, <3>1, <3>2, Appended DEF ExtractFrame
      <3> QED
        BY <2>0, <3>1, <3>3
    <2>5. CASE NeedMore \/ Corrupted \/ UNCHANGED vars
      <3>1. UNCHANGED <<wire, buf, sent, received, junk>>
        BY <2>5 DEF NeedMore, Corrupted, vars
      <3> QED
        BY <2>0, <3>1 DEF ChannelInv, Framed, FramedBy, Unconsumed, Readable
    <2> QED
      BY <2>1, <2>2, <2>3, <2>4, <2>5 DEF Next, Extract
  <1> QED
    BY <1>1, <1>2, IInvHolds, PTL DEF Spec

(* The reader implements the channel: messages come out whole, in the      *)
(* order they went in, none lost, doubled or made up, whatever the sizes   *)
(* in which TCP delivers the bytes and wherever the buffer is compacted or *)
(* grown on the way, and nothing comes out of junk.                        *)
THEOREM BufferImplementsChannel == Spec => ImplementsChannel
  <1>1. Init => Channel!Init
    BY DEF Init, Channel!Init
  <1>2. ChannelInv /\ [Next]_vars => [Channel!Next]_<<sent, received>>
    <2> SUFFICES ASSUME ChannelInv, [Next]_vars
                 PROVE  Channel!Put \/ Channel!Get \/ UNCHANGED <<sent, received>>
      BY DEF Channel!Next
    <2>1. ASSUME NEW m \in Message, PeerSend(m)
          PROVE  Channel!Put
      BY <2>1 DEF PeerSend, Channel!Put
    <2>2. CASE ExtractFrame
      <3>1. /\ Len(received) < Len(sent)
            /\ received' = Append(received, sent[Len(received) + 1])
        BY <2>2, FramedExtract
      <3>2. sent' = sent
        BY <2>2 DEF ExtractFrame
      <3> QED
        BY <3>1, <3>2 DEF Channel!Get
    <2>3. ASSUME \/ \E bytes \in Junk : PeerSendJunk(bytes)
                 \/ \E n \in 1 .. Len(wire) : Receive(n)
                 \/ NeedMore \/ Corrupted \/ UNCHANGED vars
          PROVE  UNCHANGED <<sent, received>>
      BY <2>3 DEF PeerSendJunk, Receive, NeedMore, Corrupted, vars
    <2> QED
      BY <2>1, <2>2, <2>3 DEF Next, Extract
  <1> QED
    BY <1>1, <1>2, ChannelInvHolds, PTL DEF Spec, ImplementsChannel, Channel!Spec

==============================================================================
