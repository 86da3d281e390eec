---------------------------- MODULE RoomDirectory ----------------------------
(***************************************************************************)
(* What the chat registry promises, without saying how: a connection that  *)
(* has claimed a name is in exactly one room, and no two connections hold  *)
(* names that differ only in letter case.  RoomManager keeps three hash    *)
(* maps to provide this; RoomManager!Directory is the mapping.             *)
(***************************************************************************)

CONSTANTS
    ConnectionId,   (* identifiers of client connections                    *)
    Username,       (* every spelling a client may ask for                  *)
    NormalizeName,  (* [Username -> handle], two spellings of one handle    *)
    ValidRoomName,  (* the rooms that can be joined                         *)
    General         (* the room every user starts in                        *)

VARIABLE directory  (* connection |-> [username, currentRoom], partial      *)

(* Nobody, the asking connection included, holds this name in any case.    *)
Free(u) ==
    \A c \in DOMAIN directory :
        NormalizeName[directory[c].username] # NormalizeName[u]

Assign(c, entry) ==
    directory' = [d \in DOMAIN directory \cup {c} |->
                     IF d = c THEN entry ELSE directory[d]]

(* A connection claims a name, its first or another, and lands in General. *)
Claim(c, u) ==
    /\ Free(u)
    /\ Assign(c, [username |-> u, currentRoom |-> General])

(* A user moves to a room, General included.                               *)
Move(c, r) ==
    /\ c \in DOMAIN directory
    /\ Assign(c, [directory[c] EXCEPT !.currentRoom = r])

(* The connection ends and its name is free again.                         *)
Release(c) ==
    /\ c \in DOMAIN directory
    /\ directory' = [d \in DOMAIN directory \ {c} |-> directory[d]]

Init == directory = [c \in {} |-> [username |-> c, currentRoom |-> General]]

Next ==
    \E c \in ConnectionId :
        \/ \E u \in Username : Claim(c, u)
        \/ \E r \in ValidRoomName : Move(c, r)
        \/ Release(c)

Spec == Init /\ [][Next]_directory
==============================================================================
