------------------------------ MODULE MCGateway ------------------------------
(* Gateway with two connections, a name the server refuses beside a good   *)
(* one, one address beside guests, and three rooms, one of which the       *)
(* server refuses.                                                         *)
EXTENDS Gateway

CONSTANTS c1, c2
MCClient == {c1, c2}

MCUsername == {"Alice", "al ice"}
MCHandleOf == [u \in MCUsername |-> IF u = "Alice" THEN "alice" ELSE u]
MCEmail == {"a@x", ""}
SameEmail == [e \in MCEmail |-> e]
MCRoomName == {"general", "Lab", "x33"}
MCLowerRoom == [r \in MCRoomName |-> IF r = "Lab" THEN "lab" ELSE r]
==============================================================================
