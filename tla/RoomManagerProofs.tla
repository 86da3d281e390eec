-------------------------- MODULE RoomManagerProofs --------------------------
(***************************************************************************)
(* What holds of the registry for any number of connections, names and     *)
(* rooms.  TypeOK, NameIndexExact, UserInOwnRoom and NoEmptyRoom are       *)
(* inductive together; the other results follow from them.                 *)
(***************************************************************************)
EXTENDS RoomManager, TLAPS

IInv == TypeOK /\ NameIndexExact /\ UserInOwnRoom /\ NoEmptyRoom

RoomMap(rm) ==
    /\ DOMAIN rm \subseteq RoomName
    /\ General \in DOMAIN rm
    /\ rm \in [DOMAIN rm -> SUBSET ConnectionId]

NonEmptyBut(rm) == \A q \in DOMAIN rm : rm[q] = {} => q = General

------------------------------------------------------------------------------
(* What insert and erase do to a room map.                                 *)

(* Insertion keeps the shape of the map.                                   *)
LEMMA InsertType ==
    ASSUME NEW rm, RoomMap(rm), NEW r \in RoomName, NEW c \in ConnectionId
    PROVE  RoomMap(Insert(rm, r, c))
  BY DEF RoomMap, Insert, MembersIn

(* Insertion adds c to r and moves nobody else.                            *)
LEMMA InsertMembers ==
    ASSUME NEW rm, NEW r, NEW c, NEW q
    PROVE  MembersIn(Insert(rm, r, c), q) =
              IF q = r THEN MembersIn(rm, q) \cup {c} ELSE MembersIn(rm, q)
  BY DEF Insert, MembersIn

(* Insertion makes no empty room.                                          *)
LEMMA InsertNonEmpty ==
    ASSUME NEW rm, NonEmptyBut(rm), NEW r, NEW c
    PROVE  NonEmptyBut(Insert(rm, r, c))
  BY DEF NonEmptyBut, Insert

(* Erasure keeps the shape of the map, General included.                   *)
LEMMA EraseType ==
    ASSUME NEW rm, RoomMap(rm), NEW r, NEW c
    PROVE  RoomMap(Erase(rm, r, c))
  <1>1. CASE r \notin DOMAIN rm
    BY <1>1 DEF Erase
  <1>2. CASE r \in DOMAIN rm /\ rm[r] \subseteq {c} /\ r # General
    BY <1>2 DEF Erase, RoomMap
  <1>3. CASE r \in DOMAIN rm /\ ~(rm[r] \subseteq {c} /\ r # General)
    BY <1>3 DEF Erase, RoomMap
  <1> QED
    BY <1>1, <1>2, <1>3

(* Erasure takes c from r and moves nobody else, whether or not the room   *)
(* itself goes.                                                            *)
LEMMA EraseMembers ==
    ASSUME NEW rm, RoomMap(rm), NEW r, NEW c, NEW q
    PROVE  MembersIn(Erase(rm, r, c), q) =
              IF q = r THEN MembersIn(rm, q) \ {c} ELSE MembersIn(rm, q)
  <1>1. CASE r \notin DOMAIN rm
    BY <1>1 DEF Erase, MembersIn
  <1>2. CASE r \in DOMAIN rm /\ rm[r] \subseteq {c} /\ r # General
    BY <1>2 DEF Erase, MembersIn
  <1>3. CASE r \in DOMAIN rm /\ ~(rm[r] \subseteq {c} /\ r # General)
    BY <1>3 DEF Erase, MembersIn, RoomMap
  <1> QED
    BY <1>1, <1>2, <1>3

(* Erasure drops a room that it empties.                                   *)
LEMMA EraseNonEmpty ==
    ASSUME NEW rm, RoomMap(rm), NonEmptyBut(rm), NEW r, NEW c
    PROVE  NonEmptyBut(Erase(rm, r, c))
  <1>1. CASE r \notin DOMAIN rm
    BY <1>1 DEF Erase
  <1>2. CASE r \in DOMAIN rm /\ rm[r] \subseteq {c} /\ r # General
    BY <1>2 DEF Erase, NonEmptyBut
  <1>3. CASE r \in DOMAIN rm /\ ~(rm[r] \subseteq {c} /\ r # General)
    BY <1>3 DEF Erase, RoomMap, NonEmptyBut
  <1> QED
    BY <1>1, <1>2, <1>3

------------------------------------------------------------------------------
(* IInv holds of the empty registry.                                       *)
LEMMA InitIInv == Init => IInv
  BY RoomManagerAssumption
  DEF Init, IInv, TypeOK, NameIndexExact, UserInOwnRoom, NoEmptyRoom, UserInfo

(* A first registration, and one that replaces an earlier name.            *)
LEMMA RegisterUserIInv ==
    ASSUME IInv, NEW c \in ConnectionId, NEW u \in Username, RegisterUser(c, u)
    PROVE  IInv'
  <1> USE DEF IInv
  <1>1. General \in RoomName
    BY RoomManagerAssumption
  <1>2. RoomMap(rooms) /\ NonEmptyBut(rooms)
    BY DEF TypeOK, NoEmptyRoom, RoomMap, NonEmptyBut
  <1>3. /\ DOMAIN usersById' = DOMAIN usersById \cup {c}
        /\ usersById'[c] = [username |-> u, currentRoom |-> General]
        /\ \A d \in DOMAIN usersById : d # c => usersById'[d] = usersById[d]
    BY DEF RegisterUser, SetUser
  <1>4. RoomMap(rooms') /\ NonEmptyBut(rooms')
    BY <1>1, <1>2, InsertType, InsertNonEmpty DEF RegisterUser
  <1>5. TypeOK'
    <2>1. usersById' \in [DOMAIN usersById' -> UserInfo]
      BY <1>1 DEF RegisterUser, SetUser, TypeOK, UserInfo
    <2>2. usersByName' \in [DOMAIN usersByName' -> ConnectionId]
      BY DEF RegisterUser, NamesAfterRegister, TypeOK
    <2> QED
      BY <1>3, <1>4, <2>1, <2>2 DEF TypeOK, RoomMap
  <1>6. NameIndexExact'
    <2> DEFINE given == NormalizeName[u]
               kept == IF c \in DOMAIN usersById
                       THEN DOMAIN usersByName \ {Handle(c)}
                       ELSE DOMAIN usersByName
    <2>1. given \notin DOMAIN usersByName
      BY DEF RegisterUser, CanRegister
    <2>2. /\ DOMAIN usersByName' = kept \cup {given}
          /\ usersByName'[given] = c
          /\ \A n \in kept : n # given => usersByName'[n] = usersByName[n]
      BY DEF RegisterUser, NamesAfterRegister
    <2>3. /\ NormalizeName[usersById'[c].username] = given
          /\ \A d \in DOMAIN usersById : d # c =>
                NormalizeName[usersById'[d].username] = Handle(d)
      BY <1>3 DEF Handle
    <2>4. ASSUME NEW n \in DOMAIN usersByName'
          PROVE  /\ usersByName'[n] \in DOMAIN usersById'
                 /\ NormalizeName[usersById'[usersByName'[n]].username] = n
      <3>1. CASE n = given
        BY <1>3, <2>2, <2>3, <3>1
      <3>2. CASE n # given
        <4>1. n \in kept /\ n \in DOMAIN usersByName /\ usersByName'[n] = usersByName[n]
          BY <2>2, <3>2
        <4>2. usersByName[n] \in DOMAIN usersById /\ Handle(usersByName[n]) = n
          BY <4>1 DEF NameIndexExact
        <4>3. usersByName[n] # c
          BY <4>1, <4>2
        <4> QED
          BY <1>3, <2>3, <4>1, <4>2, <4>3
      <3> QED
        BY <3>1, <3>2
    <2>5. ASSUME NEW d \in DOMAIN usersById'
          PROVE  /\ NormalizeName[usersById'[d].username] \in DOMAIN usersByName'
                 /\ usersByName'[NormalizeName[usersById'[d].username]] = d
      <3>1. CASE d = c
        BY <2>2, <2>3, <3>1
      <3>2. CASE d # c
        <4>1. d \in DOMAIN usersById /\ NormalizeName[usersById'[d].username] = Handle(d)
          BY <1>3, <2>3, <3>2
        <4>2. Handle(d) \in DOMAIN usersByName /\ usersByName[Handle(d)] = d
          BY <4>1 DEF NameIndexExact
        <4>3. Handle(d) \in kept
          BY <3>2, <4>2 DEF NameIndexExact
        <4> QED
          BY <2>1, <2>2, <4>1, <4>2, <4>3
      <3> QED
        BY <3>1, <3>2
    <2> QED
      BY <2>4, <2>5 DEF NameIndexExact, Handle
  <1>7. UserInOwnRoom'
    <2>1. \A q : MembersIn(rooms', q) =
                    IF q = General THEN MembersIn(rooms, q) \cup {c}
                                   ELSE MembersIn(rooms, q)
      BY InsertMembers DEF RegisterUser
    <2> QED
      BY <1>3, <2>1 DEF UserInOwnRoom, RoomMembers
  <1>8. NoEmptyRoom'
    BY <1>4 DEF NoEmptyRoom, NonEmptyBut
  <1> QED
    BY <1>5, <1>6, <1>7, <1>8

(* The connection's name, record and membership of its own room go.        *)
LEMMA UnregisterUserIInv ==
    ASSUME IInv, NEW c \in ConnectionId, UnregisterUser(c)
    PROVE  IInv'
  <1> USE DEF IInv
  <1>1. RoomMap(rooms) /\ NonEmptyBut(rooms)
    BY DEF TypeOK, NoEmptyRoom, RoomMap, NonEmptyBut
  <1>2. RoomMap(rooms') /\ NonEmptyBut(rooms')
    BY <1>1, EraseType, EraseNonEmpty DEF UnregisterUser
  <1>3. /\ c \in DOMAIN usersById
        /\ DOMAIN usersById' = DOMAIN usersById \ {c}
        /\ \A d \in DOMAIN usersById' : usersById'[d] = usersById[d]
    BY DEF UnregisterUser
  <1>4. /\ DOMAIN usersByName' = DOMAIN usersByName \ {Handle(c)}
        /\ \A n \in DOMAIN usersByName' : usersByName'[n] = usersByName[n]
    BY DEF UnregisterUser
  <1>5. TypeOK'
    <2>1. usersById' \in [DOMAIN usersById' -> UserInfo]
      BY DEF UnregisterUser, TypeOK
    <2>2. usersByName' \in [DOMAIN usersByName' -> ConnectionId]
      BY DEF UnregisterUser, TypeOK
    <2> QED
      BY <1>2, <1>3, <2>1, <2>2 DEF TypeOK, RoomMap
  <1>6. NameIndexExact'
    <2>1. ASSUME NEW n \in DOMAIN usersByName'
          PROVE  /\ usersByName'[n] \in DOMAIN usersById'
                 /\ NormalizeName[usersById'[usersByName'[n]].username] = n
      BY <1>3, <1>4 DEF NameIndexExact, Handle
    <2>2. ASSUME NEW d \in DOMAIN usersById'
          PROVE  /\ NormalizeName[usersById'[d].username] \in DOMAIN usersByName'
                 /\ usersByName'[NormalizeName[usersById'[d].username]] = d
      BY <1>3, <1>4 DEF NameIndexExact, Handle
    <2> QED
      BY <2>1, <2>2 DEF NameIndexExact, Handle
  <1>7. UserInOwnRoom'
    <2>1. \A d, q : d \in MembersIn(rooms, q) /\ d # c => d \in MembersIn(rooms', q)
      BY <1>1, EraseMembers DEF UnregisterUser
    <2> QED
      BY <1>3, <2>1 DEF UserInOwnRoom, RoomMembers
  <1>8. NoEmptyRoom'
    BY <1>2 DEF NoEmptyRoom, NonEmptyBut
  <1> QED
    BY <1>5, <1>6, <1>7, <1>8

(* What JoinRoom and LeaveRoom have in common.                             *)
Moves(c, r) ==
    /\ c \in DOMAIN usersById
    /\ usersById[c].currentRoom # r
    /\ rooms' = Insert(Erase(rooms, usersById[c].currentRoom, c), r, c)
    /\ SetUser(c, [usersById[c] EXCEPT !.currentRoom = r])
    /\ UNCHANGED usersByName

(* join_room is a move to the room asked for.                              *)
LEMMA JoinRoomMoves ==
    ASSUME NEW c, NEW r, JoinRoom(c, r)
    PROVE  Moves(c, r) /\ r \in ValidRoomName
  BY DEF JoinRoom, Moves

(* leave_room is a move to General.                                        *)
LEMMA LeaveRoomMoves ==
    ASSUME NEW c, LeaveRoom(c)
    PROVE  Moves(c, General)
  BY DEF LeaveRoom, Moves

(* A move changes the mover's current room, and nothing else of any user.  *)
LEMMA MovesRecord ==
    ASSUME TypeOK, NEW c, NEW r, Moves(c, r)
    PROVE  /\ DOMAIN usersById' = DOMAIN usersById
           /\ usersById'[c] = [usersById[c] EXCEPT !.currentRoom = r]
           /\ usersById'[c].username = usersById[c].username
           /\ usersById'[c].currentRoom = r
           /\ \A d \in DOMAIN usersById : d # c => usersById'[d] = usersById[d]
  <1>1. /\ DOMAIN usersById' = DOMAIN usersById
        /\ usersById'[c] = [usersById[c] EXCEPT !.currentRoom = r]
        /\ \A d \in DOMAIN usersById : d # c => usersById'[d] = usersById[d]
    BY DEF Moves, SetUser
  <1>2. usersById[c] \in UserInfo
    BY DEF Moves, TypeOK
  <1> QED
    BY <1>1, <1>2 DEF UserInfo

(* A move leaves the maps consistent: out of one room, into the other.     *)
LEMMA MovesIInv ==
    ASSUME IInv, NEW c \in ConnectionId, NEW r \in RoomName, Moves(c, r)
    PROVE  IInv'
  <1> USE DEF IInv
  <1> DEFINE left == Erase(rooms, usersById[c].currentRoom, c)
  <1>1. RoomMap(rooms) /\ NonEmptyBut(rooms)
    BY DEF TypeOK, NoEmptyRoom, RoomMap, NonEmptyBut
  <1>2. RoomMap(left) /\ NonEmptyBut(left)
    BY <1>1, EraseType, EraseNonEmpty
  <1>3. RoomMap(rooms') /\ NonEmptyBut(rooms')
    <2>1. rooms' = Insert(left, r, c)
      BY DEF Moves
    <2> HIDE DEF left
    <2> QED
      BY <1>2, <2>1, InsertType, InsertNonEmpty
  <1>4. /\ DOMAIN usersById' = DOMAIN usersById
        /\ usersById'[c].username = usersById[c].username
        /\ usersById'[c].currentRoom = r
        /\ \A d \in DOMAIN usersById : d # c => usersById'[d] = usersById[d]
    BY MovesRecord
  <1>5. TypeOK'
    <2>1. usersById[c] \in UserInfo
      BY DEF Moves, TypeOK
    <2>2. [usersById[c] EXCEPT !.currentRoom = r] \in UserInfo
      BY <2>1 DEF UserInfo
    <2>3. usersById' \in [DOMAIN usersById' -> UserInfo]
      BY <2>2 DEF Moves, SetUser, TypeOK
    <2> QED
      BY <1>3, <1>4, <2>3 DEF TypeOK, RoomMap, Moves
  <1>6. NameIndexExact'
    <2>1. \A d \in DOMAIN usersById :
             NormalizeName[usersById'[d].username] = Handle(d)
      BY <1>4 DEF Handle
    <2>2. usersByName' = usersByName
      BY DEF Moves
    <2> QED
      BY <1>4, <2>1, <2>2 DEF NameIndexExact, Handle
  <1>7. UserInOwnRoom'
    <2>1. \A d, q : d \in MembersIn(rooms, q) /\ d # c => d \in MembersIn(left, q)
      BY <1>1, EraseMembers
    <2>2. /\ c \in MembersIn(rooms', r)
          /\ \A d, q : d \in MembersIn(left, q) => d \in MembersIn(rooms', q)
      <3>1. rooms' = Insert(left, r, c)
        BY DEF Moves
      <3> HIDE DEF left
      <3> QED
        BY <3>1, InsertMembers
    <2> HIDE DEF left
    <2> QED
      BY <1>4, <2>1, <2>2 DEF UserInOwnRoom, RoomMembers
  <1>8. NoEmptyRoom'
    BY <1>3 DEF NoEmptyRoom, NonEmptyBut
  <1> QED
    BY <1>5, <1>6, <1>7, <1>8

(* No operation of the registry breaks IInv.                               *)
LEMMA NextIInv == IInv /\ [Next]_vars => IInv'
  <1> SUFFICES ASSUME IInv, [Next]_vars
               PROVE  IInv'
    OBVIOUS
  <1>1. ASSUME NEW c \in ConnectionId, NEW u \in Username, RegisterUser(c, u)
        PROVE  IInv'
    BY <1>1, RegisterUserIInv
  <1>2. ASSUME NEW c \in ConnectionId, UnregisterUser(c)
        PROVE  IInv'
    BY <1>2, UnregisterUserIInv
  <1>3. ASSUME NEW c \in ConnectionId, NEW r \in RoomName, JoinRoom(c, r)
        PROVE  IInv'
    BY <1>3, JoinRoomMoves, MovesIInv
  <1>4. ASSUME NEW c \in ConnectionId, LeaveRoom(c)
        PROVE  IInv'
    BY <1>4, LeaveRoomMoves, MovesIInv, RoomManagerAssumption
  <1>5. CASE UNCHANGED vars
    BY <1>5 DEF vars, IInv, TypeOK, NameIndexExact, Handle, UserInOwnRoom,
                RoomMembers, MembersIn, NoEmptyRoom
  <1> QED
    BY <1>1, <1>2, <1>3, <1>4, <1>5 DEF Next

------------------------------------------------------------------------------
(* The maps of the registry keep their types in every execution.           *)
THEOREM TypeCorrect == Spec => []TypeOK
  BY InitIInv, NextIInv, PTL DEF Spec, IInv

(* In every execution the name index is the exact inverse of the records,  *)
(* each user is a member of its room, and only General can be empty.       *)
THEOREM RegistryConsistent == Spec => []MapsConsistent
  BY InitIInv, NextIInv, PTL DEF Spec, IInv, MapsConsistent

(* The member lists, step by step: who can appear where.                   *)
LEMMA MembersAfter ==
    ASSUME TypeOK, NEW c, NEW q
    PROVE  /\ \A u : RegisterUser(c, u) =>
                 RoomMembers(q)' = IF q = General THEN RoomMembers(q) \cup {c}
                                                  ELSE RoomMembers(q)
           /\ UnregisterUser(c) =>
                 RoomMembers(q)' = IF q = usersById[c].currentRoom
                                   THEN RoomMembers(q) \ {c} ELSE RoomMembers(q)
           /\ \A r : Moves(c, r) =>
                 RoomMembers(q)' =
                    IF q = r THEN RoomMembers(q) \cup {c}
                    ELSE IF q = usersById[c].currentRoom
                         THEN RoomMembers(q) \ {c} ELSE RoomMembers(q)
  <1>1. RoomMap(rooms)
    BY DEF TypeOK, RoomMap
  <1>2. ASSUME NEW u, RegisterUser(c, u)
        PROVE  RoomMembers(q)' = IF q = General THEN RoomMembers(q) \cup {c}
                                                ELSE RoomMembers(q)
    BY <1>2, InsertMembers DEF RegisterUser, RoomMembers
  <1>3. ASSUME UnregisterUser(c)
        PROVE  RoomMembers(q)' = IF q = usersById[c].currentRoom
                                 THEN RoomMembers(q) \ {c} ELSE RoomMembers(q)
    BY <1>1, <1>3, EraseMembers DEF UnregisterUser, RoomMembers
  <1>4. ASSUME NEW r, Moves(c, r)
        PROVE  RoomMembers(q)' =
                  IF q = r THEN RoomMembers(q) \cup {c}
                  ELSE IF q = usersById[c].currentRoom
                       THEN RoomMembers(q) \ {c} ELSE RoomMembers(q)
    <2> DEFINE left == Erase(rooms, usersById[c].currentRoom, c)
    <2>1. MembersIn(left, q) = IF q = usersById[c].currentRoom
                               THEN RoomMembers(q) \ {c} ELSE RoomMembers(q)
      BY <1>1, EraseMembers DEF RoomMembers
    <2>2. rooms' = Insert(left, r, c) /\ usersById[c].currentRoom # r
      BY <1>4 DEF Moves
    <2> HIDE DEF left
    <2>3. MembersIn(rooms', q) = IF q = r THEN MembersIn(left, q) \cup {c}
                                          ELSE MembersIn(left, q)
      BY <2>2, InsertMembers
    <2> QED
      BY <2>1, <2>2, <2>3 DEF RoomMembers
  <1> QED
    BY <1>2, <1>3, <1>4

(* The only step that makes d a stray member of q.                         *)
RenamesIn(d, q) ==
    /\ q # General
    /\ d \in DOMAIN usersById
    /\ usersById[d].currentRoom = q
    /\ d \in DOMAIN usersById'
    /\ usersById'[d].username # usersById[d].username

(* One step: a new stray membership is that of a renamed user in the room  *)
(* it was in.                                                              *)
LEMMA StrayStep ==
    ASSUME IInv, [Next]_vars, NEW d \in ConnectionId, NEW q \in RoomName,
           Stray(d, q)', ~Stray(d, q)
    PROVE  RenamesIn(d, q)
  <1> USE DEF IInv
  <1>1. ASSUME NEW c \in ConnectionId, NEW u \in Username, RegisterUser(c, u)
        PROVE  RenamesIn(d, q)
    <2>1. /\ DOMAIN usersById' = DOMAIN usersById \cup {c}
          /\ usersById'[c] = [username |-> u, currentRoom |-> General]
          /\ \A e \in DOMAIN usersById : e # c => usersById'[e] = usersById[e]
      BY <1>1 DEF RegisterUser, SetUser
    <2>2. RoomMembers(q)' = IF q = General THEN RoomMembers(q) \cup {c}
                                           ELSE RoomMembers(q)
      BY <1>1, MembersAfter
    <2>3. d = c /\ q # General /\ d \in DOMAIN usersById
          /\ usersById[d].currentRoom = q
      BY <2>1, <2>2 DEF Stray
    <2>4. Handle(c) \in DOMAIN usersByName /\ NormalizeName[u] \notin DOMAIN usersByName
      BY <1>1, <2>3 DEF NameIndexExact, RegisterUser, CanRegister
    <2> QED
      BY <2>1, <2>3, <2>4 DEF RenamesIn, Handle
  <1>2. ASSUME NEW c \in ConnectionId, UnregisterUser(c)
        PROVE  FALSE
    <2>1. RoomMembers(q)' = IF q = usersById[c].currentRoom
                            THEN RoomMembers(q) \ {c} ELSE RoomMembers(q)
      BY <1>2, MembersAfter
    <2>2. /\ DOMAIN usersById' = DOMAIN usersById \ {c}
          /\ \A e \in DOMAIN usersById' : usersById'[e] = usersById[e]
      BY <1>2 DEF UnregisterUser
    <2> QED
      BY <2>1, <2>2 DEF Stray
  <1>3. ASSUME NEW c, NEW r, Moves(c, r)
        PROVE  FALSE
    <2>1. RoomMembers(q)' =
             IF q = r THEN RoomMembers(q) \cup {c}
             ELSE IF q = usersById[c].currentRoom
                  THEN RoomMembers(q) \ {c} ELSE RoomMembers(q)
      BY <1>3, MembersAfter
    <2>2. /\ c \in DOMAIN usersById
          /\ DOMAIN usersById' = DOMAIN usersById
          /\ usersById'[c].currentRoom = r
          /\ \A e \in DOMAIN usersById : e # c => usersById'[e] = usersById[e]
      BY <1>3, MovesRecord DEF Moves
    <2> QED
      BY <2>1, <2>2 DEF Stray
  <1>4. CASE UNCHANGED vars
    BY <1>4 DEF vars, Stray, RoomMembers, MembersIn
  <1> QED
    BY <1>1, <1>2, <1>3, <1>4, JoinRoomMoves, LeaveRoomMoves DEF Next

(* A membership that no record accounts for is born only when a user       *)
(* outside General registers again.                                        *)
THEOREM StraysComeFromRenames == Spec => StrayOnlyByRename
  <1>1. IInv /\ [Next]_vars =>
           [\A c \in ConnectionId, r \in RoomName :
               Stray(c, r)' /\ ~Stray(c, r) =>
                  /\ r # General
                  /\ c \in DOMAIN usersById
                  /\ usersById[c].currentRoom = r
                  /\ c \in DOMAIN usersById'
                  /\ usersById'[c].username # usersById[c].username]_vars
    BY StrayStep DEF RenamesIn
  <1> QED
    BY <1>1, InitIInv, NextIInv, PTL DEF Spec, StrayOnlyByRename

------------------------------------------------------------------------------
(* The refinement.                                                         *)

(* One step of the registry is one step of the directory, or none.         *)
LEMMA DirectoryStep ==
    ASSUME IInv, [Next]_vars
    PROVE  [Directory!Next]_usersById
  <1> USE DEF IInv
  <1>1. ASSUME NEW c \in ConnectionId, NEW u \in Username, RegisterUser(c, u)
        PROVE  Directory!Claim(c, u)
    <2>1. Directory!Free(u)
      BY <1>1 DEF Directory!Free, RegisterUser, CanRegister, NameIndexExact, Handle
    <2> QED
      BY <1>1, <2>1 DEF Directory!Claim, Directory!Assign, RegisterUser, SetUser
  <1>2. ASSUME NEW c \in ConnectionId, UnregisterUser(c)
        PROVE  Directory!Release(c)
    BY <1>2 DEF Directory!Release, UnregisterUser
  <1>3. ASSUME NEW c \in ConnectionId, NEW r \in ValidRoomName, Moves(c, r)
        PROVE  Directory!Move(c, r)
    BY <1>3 DEF Directory!Move, Directory!Assign, Moves, SetUser
  <1>4. CASE UNCHANGED vars
    BY <1>4 DEF vars
  <1> QED
    BY <1>1, <1>2, <1>3, <1>4, JoinRoomMoves, LeaveRoomMoves, RoomManagerAssumption
    DEF Next, Directory!Next

(* The three maps implement the directory of the abstract specification:   *)
(* one look-up in the name index decides what the directory asks of every  *)
(* user.                                                                   *)
THEOREM RegistryImplementsDirectory == Spec => ImplementsDirectory
  <1>1. Init => Directory!Init
    BY DEF Init, Directory!Init
  <1>2. IInv /\ [Next]_vars => [Directory!Next]_usersById
    BY DirectoryStep
  <1> QED
    BY <1>1, <1>2, InitIInv, NextIInv, PTL DEF Spec, ImplementsDirectory, Directory!Spec
==============================================================================
