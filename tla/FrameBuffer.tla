----------------------------- MODULE FrameBuffer -----------------------------
(***************************************************************************)
(* ByteBuffer and its use of the PCAP codec (src/core/buffer.cpp, src/     *)
(* core/protocol.cpp) at the receiving end of a TCP stream.                *)
(*                                                                         *)
(* The buffer is an array with a read and a write cursor.  It is slid to   *)
(* the front when the read cursor is far enough, and grown when it is too  *)
(* short; cells outside the cursors keep whatever was there.  The sizes    *)
(* are parameters, so that small arrays meet every case.                   *)
(***************************************************************************)
EXTENDS FrameCodec

CONSTANTS
    MaxPayload,     (* MAX_PAYLOAD_SIZE                                     *)
    InitialSize,    (* the vector's size at construction                    *)
    CompactAt,      (* the read cursor past which the buffer is compacted   *)
    ReadChunk,      (* READ_BUFFER_SIZE                                     *)
    Message,        (* messages the peer may send: [type, payload]          *)
    Junk,           (* byte strings that are no protocol header             *)
    MaxSent         (* messages sent in a run                               *)

ASSUME FrameAssumption ==
    /\ MaxPayload \in Nat /\ CompactAt \in Nat
    /\ InitialSize \in Nat \ {0} /\ ReadChunk \in Nat \ {0}
    /\ Message \subseteq [type : MessageType, payload : Seq(Byte)]
    /\ Junk \subseteq Seq(Byte)
    /\ MaxSent \in Nat

VARIABLES
    wire,       (* bytes sent and not yet returned by recv                  *)
    buf,        (* the ByteBuffer: [cells, readPos, writePos]               *)
    mode,       (* where the handler is: idle, reading, extracting, closed  *)
    sent,       (* messages sent                                            *)
    received,   (* messages extracted                                       *)
    stream,     (* every byte sent                                          *)
    consumed,   (* every byte consumed by extract_message                   *)
    junk        (* the peer has sent something that is no frame             *)

vars == <<wire, buf, mode, sent, received, stream, consumed, junk>>

------------------------------------------------------------------------------
(* (a mistake) The largest payload is refused, too.                        *)
BadHeaderOK(bytes) == bytes[1] \in MessageType /\ DecodeLength(bytes) < MaxPayload

(* decode_header                                                           *)
HeaderOK(bytes) == bytes[1] \in MessageType /\ DecodeLength(bytes) <= MaxPayload

(* What a peer sends: messages whose length fits the four bytes it is      *)
(* written in, and junk that is told from a message by its header.         *)
ASSUME PeerAssumption ==
    /\ \A m \in Message : Len(m.payload) < Base * Base * Base * Base
    /\ \A bytes \in Junk : Len(bytes) >= HeaderSize /\ ~HeaderOK(bytes)

------------------------------------------------------------------------------
(* ByteBuffer                                                              *)

Size(b) == Len(b.cells)
Available(b) == b.writePos - b.readPos
Readable(b) == SubSeq(b.cells, b.readPos + 1, b.writePos)

(* (a mistake) memmove to the front, but the write cursor stays.           *)
BadCompact(b) ==
    IF b.readPos > 0 /\ (b.readPos >= Size(b) \div 2 \/ b.readPos > CompactAt)
    THEN [cells    |-> [i \in DOMAIN b.cells |->
                          IF i <= Available(b) THEN b.cells[b.readPos + i]
                                               ELSE b.cells[i]],
          readPos  |-> 0,
          writePos |-> b.writePos]
    ELSE b

(* compact_if_needed                                                       *)
Compact(b) ==
    IF b.readPos > 0 /\ (b.readPos >= Size(b) \div 2 \/ b.readPos > CompactAt)
    THEN [cells    |-> [i \in DOMAIN b.cells |->
                          IF i <= Available(b) THEN b.cells[b.readPos + i]
                                               ELSE b.cells[i]],
          readPos  |-> 0,
          writePos |-> Available(b)]
    ELSE b

(* (a mistake) Doubling once is taken to be always enough.                 *)
BadGrow(b, len) ==
    IF b.writePos + len > Size(b)
    THEN [b EXCEPT !.cells = @ \o [i \in 1 .. Size(b) |-> 0]]
    ELSE b

(* The resize of append: double the size, or what is needed if more.       *)
Grow(b, len) ==
    IF b.writePos + len > Size(b)
    THEN LET needed == b.writePos + len
             size == IF 2 * Size(b) > needed THEN 2 * Size(b) ELSE needed
         IN  [b EXCEPT !.cells = [i \in 1 .. size |->
                                    IF i <= Size(b) THEN b.cells[i] ELSE 0]]
    ELSE b

(* The memcpy of append.                                                   *)
Store(b, bytes) ==
    [b EXCEPT !.cells = [i \in 1 .. Size(b) |->
                           IF i > b.writePos /\ i <= b.writePos + Len(bytes)
                           THEN bytes[i - b.writePos] ELSE b.cells[i]],
              !.writePos = @ + Len(bytes)]

AppendBytes(b, bytes) == Store(Grow(Compact(b), Len(bytes)), bytes)

(* (a mistake) Consuming everything leaves the cursors where they are and  *)
(* forgets one of them.                                                    *)
BadConsume(b, len) ==
    IF len >= Available(b)
    THEN [b EXCEPT !.readPos = 0]
    ELSE [b EXCEPT !.readPos = @ + len]

(* consume; an emptied buffer starts over at the front                     *)
Consume(b, len) ==
    IF len >= Available(b)
    THEN [b EXCEPT !.readPos = 0, !.writePos = 0]
    ELSE [b EXCEPT !.readPos = @ + len]

------------------------------------------------------------------------------
Init ==
    /\ wire = <<>> /\ stream = <<>> /\ consumed = <<>>
    /\ buf = [cells |-> [i \in 1 .. InitialSize |-> 0], readPos |-> 0, writePos |-> 0]
    /\ mode = "idle"
    /\ sent = <<>> /\ received = <<>>
    /\ junk = FALSE

PeerSend(m) ==
    /\ Len(sent) < MaxSent
    /\ sent' = Append(sent, m)
    /\ wire' = wire \o Serialize(m)
    /\ stream' = stream \o Serialize(m)
    /\ UNCHANGED <<buf, mode, received, consumed, junk>>

(* A peer that does not speak the protocol, or no longer does.  It may go  *)
(* on with anything; once is enough here.                                  *)
PeerSendJunk(bytes) ==
    /\ ~junk /\ junk' = TRUE
    /\ wire' = wire \o bytes
    /\ stream' = stream \o bytes
    /\ UNCHANGED <<buf, mode, sent, received, consumed>>

(* recv returns some of the bytes, cut anywhere; the loop of handle_read   *)
(* may call it again before it looks for frames.                           *)
Receive(n) ==
    /\ mode \in {"idle", "reading"}
    /\ n \in 1 .. Len(wire) /\ n <= ReadChunk
    /\ buf' = AppendBytes(buf, SubSeq(wire, 1, n))
    /\ wire' = SubSeq(wire, n + 1, Len(wire))
    /\ mode' = "reading"
    /\ UNCHANGED <<sent, received, stream, consumed, junk>>

(* extract_message, once around the loop of its callers.                   *)
NextPayload == DecodeLength(Readable(buf))
HasHeader == Available(buf) >= HeaderSize

HasFrame ==
    /\ HasHeader
    /\ HeaderOK(Readable(buf))
    /\ Available(buf) >= HeaderSize + NextPayload

ExtractFrame ==
    /\ mode \in {"reading", "extracting"}
    /\ HasFrame
    /\ LET size == HeaderSize + NextPayload
       IN  /\ received' = Append(received,
                            [type    |-> Readable(buf)[1],
                             payload |-> SubSeq(Readable(buf), HeaderSize + 1, size)])
           /\ consumed' = consumed \o SubSeq(Readable(buf), 1, size)
           /\ buf' = Consume(buf, size)
    /\ mode' = "extracting"
    /\ UNCHANGED <<wire, sent, stream, junk>>

Invalid == HasHeader /\ ~HeaderOK(Readable(buf))

(* (a mistake) One frame is taken out per read.                            *)
BadNeedMore ==
    /\ \/ mode = "extracting"
       \/ mode = "reading" /\ ~HasFrame /\ ~Invalid
    /\ mode' = "idle"
    /\ UNCHANGED <<wire, buf, sent, received, stream, consumed, junk>>

(* Nothing more to extract: wait for bytes.                                *)
NeedMore ==
    /\ mode \in {"reading", "extracting"}
    /\ ~HasFrame /\ ~Invalid
    /\ mode' = "idle"
    /\ UNCHANGED <<wire, buf, sent, received, stream, consumed, junk>>

(* An invalid header: the connection is closed.                            *)
Corrupted ==
    /\ mode \in {"reading", "extracting"}
    /\ Invalid
    /\ mode' = "closed"
    /\ UNCHANGED <<wire, buf, sent, received, stream, consumed, junk>>

Extract == ExtractFrame \/ NeedMore \/ Corrupted

Next ==
    \/ \E m \in Message : PeerSend(m)
    \/ \E bytes \in Junk : PeerSendJunk(bytes)
    \/ \E n \in 1 .. Len(wire) : Receive(n)
    \/ Extract

Spec == Init /\ [][Next]_vars

(* recv is called while bytes arrive, and the frame loop runs to its end.  *)
Fairness ==
    /\ WF_vars(\E n \in 1 .. Len(wire) : Receive(n))
    /\ WF_vars(Extract)

FairSpec == Spec /\ Fairness

------------------------------------------------------------------------------
BufferOK(b) ==
    /\ b \in [cells : Seq(Byte), readPos : Nat, writePos : Nat]
    /\ b.readPos <= b.writePos /\ b.writePos <= Size(b)

(* The cursors never cross and never leave the array, so every memcpy and  *)
(* memmove stays inside the vector, whatever sizes arrive in what order.   *)
TypeOK ==
    /\ BufferOK(buf)
    /\ wire \in Seq(Byte) /\ stream \in Seq(Byte) /\ consumed \in Seq(Byte)
    /\ mode \in {"idle", "reading", "extracting", "closed"}
    /\ junk \in BOOLEAN

(* Compaction, growth and consumption lose, double and move no byte: what  *)
(* was consumed, what is buffered and what is on its way are the stream.   *)
StreamKept == consumed \o Readable(buf) \o wire = stream

(* The handler does not go back to waiting for bytes while a whole frame   *)
(* is in the buffer: no readiness event would announce that frame again.   *)
IdleHasNoFrame == mode = "idle" => ~HasFrame

(* Messages come out as they went in (docs/protocol.md:3).                 *)
Channel == INSTANCE FrameChannel

ImplementsChannel == Channel!Spec

(* Every frame sent before any junk is extracted; none, of up to           *)
(* MaxPayload bytes, is taken for a violation of the protocol.             *)
AllReceived ==
    \A k \in 1 .. MaxSent :
        (Len(sent) >= k /\ ~junk) ~> (Len(received) >= k \/ junk)
==============================================================================
