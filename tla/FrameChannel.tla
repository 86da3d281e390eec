---------------------------- MODULE FrameChannel ----------------------------
(***************************************************************************)
(* What framing promises over a byte stream: messages come out whole, in   *)
(* the order they went in, none lost, doubled or made up, however TCP cuts *)
(* the bytes ("guarantees clean message delineation", docs/protocol.md:3). *)
(***************************************************************************)
EXTENDS Naturals, Sequences

CONSTANT Message

VARIABLES
    sent,       (* messages the peer has written                            *)
    received    (* messages extracted from the stream                       *)

Init == sent = <<>> /\ received = <<>>

Put == \E m \in Message : sent' = Append(sent, m) /\ UNCHANGED received

Get ==
    /\ Len(received) < Len(sent)
    /\ received' = Append(received, sent[Len(received) + 1])
    /\ UNCHANGED sent

Next == Put \/ Get

Spec == Init /\ [][Next]_<<sent, received>>
==============================================================================
