---------------------------- MODULE MCRoomManager ----------------------------
(* RoomManager on three connections, two handles of which one has two      *)
(* spellings, and two rooms beside General.                                *)
EXTENDS RoomManager

MCUsername == {"alice", "Alice", "bob", "bad name"}
MCValidUsername == MCUsername \ {"bad name"}
MCNormalizeName ==
    [u \in MCUsername |-> IF u = "Alice" THEN "alice" ELSE u]
MCRoomName == {"general", "engineering", "gaming", ""}
MCValidRoomName == MCRoomName \ {""}

CONSTANTS f1, f2, f3
MCConnectionId == {f1, f2, f3}
==============================================================================
