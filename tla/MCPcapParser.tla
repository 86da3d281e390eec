---------------------------- MODULE MCPcapParser ----------------------------
(* Bytes of two bits; an empty payload, a full one, and one over the limit *)
(* that holds bytes of a header.                                           *)
EXTENDS PcapParser

MCMessageType == {1, 2}
MCMessage ==
    {[type |-> 1, payload |-> <<>>],
     [type |-> 1, payload |-> <<3, 0>>],
     [type |-> 2, payload |-> <<1, 0, 0, 0, 0>>]}

(* Unknown opcodes before a header, a header cut short, and a length that  *)
(* swallows what follows.                                                  *)
MCJunk == {<<0, 3>>, <<3, 1, 0, 0>>, <<2, 0, 0, 1, 1>>}
==============================================================================
