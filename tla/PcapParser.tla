----------------------------- MODULE PcapParser -----------------------------
(***************************************************************************)
(* The gateway's frame parser (gateway/src/pcap.ts) at the end of a TCP    *)
(* stream.  Unlike the C++ codec it has no length limit, and on an unknown *)
(* opcode it goes on with the next byte instead of giving up.              *)
(***************************************************************************)
EXTENDS FrameCodec, SequencesExt

CONSTANTS
    MaxPayload,     (* MAX_PAYLOAD_SIZE, for comparison with the C++ codec  *)
    Message,        (* messages the server may send: [type, payload]        *)
    Junk,           (* byte strings that are not made of frames             *)
    MaxSent         (* messages sent in a run                               *)

ASSUME ParserAssumption ==
    /\ MaxPayload \in Nat /\ MaxSent \in Nat
    /\ Message \subseteq [type : MessageType, payload : Seq(Byte)]
    /\ Junk \subseteq Seq(Byte)

(* The server sends no payload longer than the four bytes can tell.        *)
ASSUME ServerAssumption ==
    \A m \in Message : Len(m.payload) < Base * Base * Base * Base

VARIABLES
    wire,       (* bytes sent and not yet delivered in a "data" event       *)
    buffer,     (* the parser's buffer                                      *)
    frames,     (* frames returned by push so far                           *)
    pushed,     (* all bytes delivered so far                               *)
    sent,       (* messages sent                                            *)
    junk        (* something else than messages has been sent               *)

vars == <<wire, buffer, frames, pushed, sent, junk>>

------------------------------------------------------------------------------
FrameAt(bytes, i, end) ==
    [type |-> bytes[i + 1], payload |-> SubSeq(bytes, i + HeaderSize + 1, end)]

(* The end of the frame that begins after i bytes, by its header.          *)
EndAt(bytes, i) ==
    i + HeaderSize + DecodeLength(SubSeq(bytes, i + 1, i + HeaderSize))

(* (a mistake) A header is looked at only when something follows it.       *)
BadHasHeader(bytes, i) == Len(bytes) - i > HeaderSize

HasHeader(bytes, i) == Len(bytes) - i >= HeaderSize

(* (a mistake) A length over the C++ codec's limit is skipped, too.        *)
BadUnknown(bytes, i) ==
    \/ bytes[i + 1] \notin MessageType
    \/ EndAt(bytes, i) > i + HeaderSize + MaxPayload

Unknown(bytes, i) == bytes[i + 1] \notin MessageType

Suffix(bytes, i) == SubSeq(bytes, i + 1, Len(bytes))

(* (a mistake) On an unknown opcode all that was buffered is dropped.      *)
BadScan(bytes) ==
    LET from[i \in 0 .. Len(bytes)] ==
            IF ~HasHeader(bytes, i)
            THEN [frames |-> <<>>, rest |-> Suffix(bytes, i)]
            ELSE IF Unknown(bytes, i)
            THEN [frames |-> <<>>, rest |-> <<>>]
            ELSE IF Len(bytes) < EndAt(bytes, i)
            THEN [frames |-> <<>>, rest |-> Suffix(bytes, i)]
            ELSE LET end == EndAt(bytes, i)
                 IN  [from[end] EXCEPT !.frames = <<FrameAt(bytes, i, end)>> \o @]
    IN  from[0]

(* The loop of push over the buffer with the new chunk in it: the frames   *)
(* it returns and what stays in the buffer.                                *)
Scan(bytes) ==
    LET from[i \in 0 .. Len(bytes)] ==
            IF ~HasHeader(bytes, i)
            THEN [frames |-> <<>>, rest |-> Suffix(bytes, i)]
            ELSE IF Unknown(bytes, i)
            THEN from[i + 1]
            ELSE IF Len(bytes) < EndAt(bytes, i)
            THEN [frames |-> <<>>, rest |-> Suffix(bytes, i)]
            ELSE LET end == EndAt(bytes, i)
                 IN  [from[end] EXCEPT !.frames = <<FrameAt(bytes, i, end)>> \o @]
    IN  from[0]

------------------------------------------------------------------------------
Init ==
    /\ wire = <<>> /\ pushed = <<>>
    /\ buffer = <<>>
    /\ frames = <<>> /\ sent = <<>>
    /\ junk = FALSE

ServerSend(m) ==
    /\ Len(sent) < MaxSent
    /\ sent' = Append(sent, m)
    /\ wire' = wire \o Serialize(m)
    /\ UNCHANGED <<buffer, frames, pushed, junk>>

(* Whatever else answers at the configured address.                        *)
OtherSend(bytes) ==
    /\ ~junk /\ junk' = TRUE
    /\ wire' = wire \o bytes
    /\ UNCHANGED <<buffer, frames, pushed, sent>>

(* A "data" event with the next n bytes.                                   *)
Push(n) ==
    /\ LET result == Scan(buffer \o SubSeq(wire, 1, n))
       IN  /\ frames' = frames \o result.frames
           /\ buffer' = result.rest
    /\ pushed' = pushed \o SubSeq(wire, 1, n)
    /\ wire' = SubSeq(wire, n + 1, Len(wire))
    /\ UNCHANGED <<sent, junk>>

Next ==
    \/ \E m \in Message : ServerSend(m)
    \/ \E bytes \in Junk : OtherSend(bytes)
    \/ \E n \in 1 .. Len(wire) : Push(n)

Spec == Init /\ [][Next]_vars

------------------------------------------------------------------------------
(* How TCP cuts the stream makes no difference, junk and resynchronisation *)
(* included: at any time the parser has returned, and keeps, what a single *)
(* push of everything so far would have left it with.                      *)
ChunkingIrrelevant ==
    /\ frames = Scan(pushed).frames
    /\ buffer = Scan(pushed).rest

(* What the server sends is returned in order and none of it is withheld,  *)
(* frames too long for the C++ codec included.                             *)
FramesInOrder ==
    ~junk => /\ IsPrefix(frames, sent)
             /\ wire = <<>> => frames = sent

(* The frames extract_message takes out of bytes, until a header that it   *)
(* refuses or the bytes run out.                                           *)
CodecFrames(bytes) ==
    LET from[i \in 0 .. Len(bytes)] ==
            IF \/ Len(bytes) - i < HeaderSize
               \/ bytes[i + 1] \notin MessageType
               \/ EndAt(bytes, i) > i + HeaderSize + MaxPayload
               \/ EndAt(bytes, i) > Len(bytes)
            THEN <<>>
            ELSE <<FrameAt(bytes, i, EndAt(bytes, i))>> \o from[EndAt(bytes, i)]
    IN  from[0]

(* The gateway sees every frame that the C++ codec finds in the same       *)
(* bytes, in the same order, before whatever else it makes of them.        *)
SeesCodecFrames == IsPrefix(CodecFrames(pushed), frames)
==============================================================================
