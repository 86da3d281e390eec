---------------------------- MODULE MCFrameBuffer ----------------------------
(* Bytes of two bits, payloads of up to three of them.                     *)
(* The array, the read and the compaction limit stand to each other as in  *)
(* the code, 1 : 2 : 1 (4096, 8192, 4096).                                 *)
EXTENDS FrameBuffer

MCMessageType == {1, 2}

(* An empty payload, and the largest one, with a header's bytes in it.     *)
MCMessage ==
    {[type |-> 1, payload |-> <<>>],
     [type |-> 2, payload |-> <<3, 1, 0>>]}

(* An unknown opcode, and a length over the limit.                         *)
MCJunk == {<<3, 0, 0, 0, 0>>, <<1, 0, 0, 1, 0>>}
==============================================================================
