----------------------------- MODULE RoomManager -----------------------------
(***************************************************************************)
(* The user and room registry of both servers (src/core/room_manager.cpp). *)
(* Every operation holds the registry's exclusive lock from its first read *)
(* to its last write, so each is one action here.  A refused call changes  *)
(* nothing and is not a step.                                              *)
(*                                                                         *)
(* A connection identifier is a file descriptor: it is free to come back   *)
(* for another client after UnregisterUser.                                *)
(***************************************************************************)

CONSTANTS
    ConnectionId,   (* file descriptors                                     *)
    Username,       (* spellings a client may send                          *)
    ValidUsername,  (* those of 1..32 characters of [A-Za-z0-9_-]           *)
    NormalizeName,  (* lower-casing: [Username -> handle]                   *)
    RoomName,       (* room names a client may send                         *)
    ValidRoomName,  (* those of 1..32 characters                            *)
    General         (* the default room, "general"                          *)

ASSUME RoomManagerAssumption ==
    /\ ValidUsername \subseteq Username
    /\ ValidRoomName \subseteq RoomName
    /\ General \in ValidRoomName

VARIABLES
    usersById,      (* users_by_id_: connection |-> [username, currentRoom] *)
    usersByName,    (* users_by_name_: normalized name |-> connection       *)
    rooms           (* rooms_: room name |-> set of member connections      *)

vars == <<usersById, usersByName, rooms>>

UserInfo == [username : Username, currentRoom : RoomName]

Init ==
    /\ usersById = [c \in {} |-> [username |-> c, currentRoom |-> General]]
    /\ usersByName = [n \in {} |-> n]
    /\ rooms = [r \in {General} |-> {}]

------------------------------------------------------------------------------
(* The map operations that the methods share.                              *)

Handle(c) == NormalizeName[usersById[c].username]

(* get_room_members, before the caller's own connection is taken out: a    *)
(* room that is not there has no members.                                  *)
MembersIn(rm, r) == IF r \in DOMAIN rm THEN rm[r] ELSE {}

RoomMembers(r) == MembersIn(rooms, r)

SetUser(c, info) ==
    usersById' = [d \in DOMAIN usersById \cup {c} |->
                     IF d = c THEN info ELSE usersById[d]]

(* rm[r].members.insert(c): operator[] makes the room when it is missing.  *)
Insert(rm, r, c) ==
    [q \in DOMAIN rm \cup {r} |->
        IF q = r THEN MembersIn(rm, r) \cup {c} ELSE rm[q]]

------------------------------------------------------------------------------
(* Mistakes the properties are tried against; none is part of Next.        *)

(* Every room left empty goes, General too.                                *)
BadEraseGeneral(rm, r, c) ==
    IF r \notin DOMAIN rm THEN rm
    ELSE IF rm[r] \subseteq {c} THEN [q \in DOMAIN rm \ {r} |-> rm[q]]
         ELSE [rm EXCEPT ![r] = @ \ {c}]

(* members.erase(c) in room r; a room left empty goes, but General stays.  *)
Erase(rm, r, c) ==
    IF r \notin DOMAIN rm THEN rm
    ELSE IF rm[r] \subseteq {c} /\ r # General
         THEN [q \in DOMAIN rm \ {r} |-> rm[q]]
         ELSE [rm EXCEPT ![r] = @ \ {c}]

(* The duplicate test looks the spelling up, not the lower-cased name.     *)
BadCanRegister(u) ==
    /\ u \in ValidUsername
    /\ \A c \in DOMAIN usersById : usersById[c].username # u

(* The previous name of a connection that registers again is kept.         *)
BadNamesAfterRegister(c, u) ==
    [n \in DOMAIN usersByName \cup {NormalizeName[u]} |->
        IF n = NormalizeName[u] THEN c ELSE usersByName[n]]

(* The room the user leaves is not told.                                   *)
BadJoinRoom(c, r) ==
    /\ c \in DOMAIN usersById
    /\ r \in ValidRoomName
    /\ usersById[c].currentRoom # r
    /\ rooms' = Insert(rooms, r, c)
    /\ SetUser(c, [usersById[c] EXCEPT !.currentRoom = r])
    /\ UNCHANGED usersByName

------------------------------------------------------------------------------
(* register_user                                                           *)

CanRegister(u) ==
    /\ u \in ValidUsername
    /\ NormalizeName[u] \notin DOMAIN usersByName

(* users_by_name_ once c has taken u and given back the name it had.       *)
NamesAfterRegister(c, u) ==
    LET kept == IF c \in DOMAIN usersById
                THEN DOMAIN usersByName \ {Handle(c)}
                ELSE DOMAIN usersByName
    IN  [n \in kept \cup {NormalizeName[u]} |->
            IF n = NormalizeName[u] THEN c ELSE usersByName[n]]

(* A connection that already has a name may register again: its record is  *)
(* replaced, General gains it, and no other room is looked at.             *)
RegisterUser(c, u) ==
    /\ CanRegister(u)
    /\ usersByName' = NamesAfterRegister(c, u)
    /\ SetUser(c, [username |-> u, currentRoom |-> General])
    /\ rooms' = Insert(rooms, General, c)

(* unregister_user                                                         *)
UnregisterUser(c) ==
    /\ c \in DOMAIN usersById
    /\ usersByName' = [n \in DOMAIN usersByName \ {Handle(c)} |-> usersByName[n]]
    /\ rooms' = Erase(rooms, usersById[c].currentRoom, c)
    /\ usersById' = [d \in DOMAIN usersById \ {c} |-> usersById[d]]

(* join_room, to a room other than the one the user is in                  *)
JoinRoom(c, r) ==
    /\ c \in DOMAIN usersById
    /\ r \in ValidRoomName
    /\ usersById[c].currentRoom # r
    /\ rooms' = Insert(Erase(rooms, usersById[c].currentRoom, c), r, c)
    /\ SetUser(c, [usersById[c] EXCEPT !.currentRoom = r])
    /\ UNCHANGED usersByName

(* leave_room                                                              *)
LeaveRoom(c) ==
    /\ c \in DOMAIN usersById
    /\ usersById[c].currentRoom # General
    /\ rooms' = Insert(Erase(rooms, usersById[c].currentRoom, c), General, c)
    /\ SetUser(c, [usersById[c] EXCEPT !.currentRoom = General])
    /\ UNCHANGED usersByName

Next ==
    \E c \in ConnectionId :
        \/ \E u \in Username : RegisterUser(c, u)
        \/ UnregisterUser(c)
        \/ \E r \in RoomName : JoinRoom(c, r)
        \/ LeaveRoom(c)

Spec == Init /\ [][Next]_vars

------------------------------------------------------------------------------
(* The three maps keep their shapes: partial functions over connections,   *)
(* handles and rooms.                                                      *)
TypeOK ==
    /\ DOMAIN usersById \subseteq ConnectionId
    /\ usersById \in [DOMAIN usersById -> UserInfo]
    /\ usersByName \in [DOMAIN usersByName -> ConnectionId]
    /\ DOMAIN rooms \subseteq RoomName
    /\ General \in DOMAIN rooms
    /\ rooms \in [DOMAIN rooms -> SUBSET ConnectionId]

(* users_by_name_ is exactly the inverse of users_by_id_ up to letter      *)
(* case, so a name resolves to its one owner, a free name resolves to      *)
(* nobody, and private messages cannot reach a connection that gave the    *)
(* name back (get_connection_id).                                          *)
NameIndexExact ==
    /\ \A n \in DOMAIN usersByName :
          /\ usersByName[n] \in DOMAIN usersById
          /\ Handle(usersByName[n]) = n
    /\ \A c \in DOMAIN usersById :
          /\ Handle(c) \in DOMAIN usersByName
          /\ usersByName[Handle(c)] = c

(* A user is a member of the room its record names, so it gets the room's  *)
(* broadcasts, its own messages included (broadcast_to_room).              *)
UserInOwnRoom ==
    \A c \in DOMAIN usersById : c \in RoomMembers(usersById[c].currentRoom)

(* Only General outlives its last member (list_rooms shows no dead room).  *)
NoEmptyRoom == \A r \in DOMAIN rooms : rooms[r] = {} => r = General

(* The three maps agree, whatever calls came in whatever order, of         *)
(* connections that register twice or whose identifier is used again.      *)
MapsConsistent == NameIndexExact /\ UserInOwnRoom /\ NoEmptyRoom

(* c is a member of r although its record, if any, says otherwise.         *)
Stray(c, r) ==
    /\ c \in RoomMembers(r)
    /\ ~(c \in DOMAIN usersById /\ usersById[c].currentRoom = r)

(* A membership that no record accounts for is born in one way only: a     *)
(* user outside General registers again.  Joining, leaving, disconnecting  *)
(* and the reuse of a connection identifier add none.                      *)
StrayOnlyByRename ==
    [][\A c \in ConnectionId, r \in RoomName :
          Stray(c, r)' /\ ~Stray(c, r) =>
             /\ r # General
             /\ c \in DOMAIN usersById
             /\ usersById[c].currentRoom = r
             /\ c \in DOMAIN usersById'
             /\ usersById'[c].username # usersById[c].username]_vars

(* The registry as RoomDirectory describes it: the uniqueness that the     *)
(* abstract Claim demands of all users is decided here by one look-up.     *)
Directory == INSTANCE RoomDirectory WITH directory <- usersById

ImplementsDirectory == Directory!Spec
==============================================================================
