----------------------------- MODULE FrameCodec -----------------------------
(***************************************************************************)
(* The frame layout of PCAP, as the C++ codec (src/core/protocol.cpp) and  *)
(* the gateway's (gateway/src/pcap.ts) both write and read it: an opcode,  *)
(* the length of the payload in network byte order, the payload.           *)
(***************************************************************************)
EXTENDS Integers, Sequences

CONSTANTS
    Base,           (* values of a byte: 0 .. Base - 1                      *)
    MessageType     (* the opcodes                                          *)

Byte == 0 .. Base - 1
HeaderSize == 5

ASSUME CodecAssumption ==
    /\ Base \in Nat \ {0}
    /\ MessageType \subseteq Byte

(* The length is truncated to four bytes, as by the cast to uint32_t.      *)
EncodeHeader(type, len) ==
    <<type, (len \div (Base * Base * Base)) % Base, (len \div (Base * Base)) % Base,
      (len \div Base) % Base, len % Base>>

Serialize(m) == EncodeHeader(m.type, Len(m.payload)) \o m.payload

(* The length in the header that bytes begin with.                         *)
DecodeLength(bytes) ==
    ((bytes[2] * Base + bytes[3]) * Base + bytes[4]) * Base + bytes[5]
==============================================================================
