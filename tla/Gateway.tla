------------------------------- MODULE Gateway -------------------------------
(***************************************************************************)
(* The WebSocket-to-TCP gateway (gateway/src/server.ts) between browsers   *)
(* and the chat server.  Each WebSocket has a TCP connection of its own;   *)
(* what a browser asks for is first done to the gateway's own records (the *)
(* session, the presence map, the store) and then written to that          *)
(* connection as a frame, which the server takes up later and may refuse.  *)
(*                                                                         *)
(* A Node handler runs to its end, so each is one action here.  The server *)
(* is its registry and the frames it has still to read; what it answers is *)
(* forwarded unread and does not matter to the gateway (ChatClient follows *)
(* it to a browser).  The store's file is MessageStore's subject: here it  *)
(* is never lost.                                                          *)
(***************************************************************************)
EXTENDS StoreData, FiniteSets

CONSTANTS
    Client,       (* connections: a WebSocket, its TCP socket and the       *)
                  (* server's descriptor, reused together                   *)
    Status,       (* what a user may call himself                           *)
    Online,       (* the one a session begins with                          *)
    ValidHandle,  (* handles the server accepts: [a-z0-9_-], at most 32     *)
    ValidRoomName,(* rooms the server accepts: 1 to 32 characters           *)
    General,      (* the default room                                       *)
    Query,        (* LIST_ROOMS, LIST_USERS, HEARTBEAT, GET_METRICS         *)
    MaxQueue,     (* bound on the frames under way on a connection          *)
    MaxActions    (* bound on what all browsers together ask for            *)

ASSUME GatewayAssumption ==
    /\ ValidHandle \subseteq Handle
    /\ ValidRoomName \subseteq RoomName \ {NoRoom}
    /\ General \in ValidRoomName
    /\ NoRoom \in RoomName => StoredRoom[NoRoom] = NoRoom
    /\ Online \in Status
    /\ Query \cap {"USER_REGISTER", "JOIN_ROOM", "LEAVE_ROOM", "CHAT_MESSAGE",
                   "PRIVATE_MESSAGE", "DISCONNECT"} = {}
    /\ MaxQueue \in Nat /\ MaxActions \in Nat

VARIABLES
    store,        (* db.data                                                *)
    session,      (* each handler's session: [open, username, owner, room,  *)
                  (* status]; open: it is in activeSessions; owner is       *)
                  (* history: the address that logged in                    *)
    presence,     (* userPresenceMap: handle |-> [room, status]             *)
    tcp,          (* the gateway's sockets: "open" (or connecting),         *)
                  (* "ended" or "destroyed"                                 *)
    toServer,     (* frames written and not yet taken up, per connection    *)
    conn,         (* connections the server has open                        *)
    usersById, usersByName, rooms,  (* the server's registry                *)
    drifted,      (* history: connections on which the server has refused   *)
                  (* what the gateway had done, or the two have differed    *)
    asked         (* bound: how often browsers have asked for something     *)

RM == INSTANCE RoomManager
        WITH ConnectionId <- Client, Username <- Handle,
             ValidUsername <- ValidHandle,
             NormalizeName <- [h \in Handle |-> h]

registry == <<usersById, usersByName, rooms>>
bridge == <<tcp, toServer, conn>>
vars == <<store, session, presence, bridge, registry, drifted, asked>>

Closed == [open |-> FALSE, username |-> NoHandle, owner |-> NoEmail,
           room |-> General, status |-> Online]

Init ==
    /\ store = Defaults
    /\ session = [c \in Client |-> Closed]
    /\ presence = [h \in {} |-> [room |-> General, status |-> Online]]
    /\ tcp = [c \in Client |-> "destroyed"]
    /\ toServer = [c \in Client |-> << >>]
    /\ conn = {}
    /\ RM!Init
    /\ drifted = {}
    /\ asked = 0

------------------------------------------------------------------------------
(* What the server will make of a connection once it has taken up all that *)
(* is under way, if it refuses nothing: [username, room].                  *)

NotRegistered == [username |-> NoHandle, room |-> General]

Taken(who, frame) ==
    CASE frame.type = "USER_REGISTER" -> [username |-> frame.arg, room |-> General]
      [] frame.type = "JOIN_ROOM" /\ who.username # NoHandle ->
            [who EXCEPT !.room = frame.arg]
      [] frame.type = "LEAVE_ROOM" -> [who EXCEPT !.room = General]
      [] OTHER -> who

Headed(users, queue, c) ==
    LET now == IF c \in DOMAIN users
               THEN [username |-> users[c].username, room |-> users[c].currentRoom]
               ELSE NotRegistered
        after[i \in 0 .. Len(queue)] ==
            IF i = 0 THEN now ELSE Taken(after[i - 1], queue[i])
    IN  after[Len(queue)]

(* Gateway and server disagree, or will, about who speaks on a connection  *)
(* and in which room.                                                      *)
Drift(c) ==
    /\ c \in conn
    /\ session[c].username # NoHandle
    /\ Headed(usersById, toServer[c], c) #
          [username |-> session[c].username, room |-> session[c].room]

(* Every action updates the history of it: odd are the connections that    *)
(* the step itself puts there.                                             *)
Watch(odd) == drifted' = drifted \cup odd \cup {c \in Client : Drift(c)'}

------------------------------------------------------------------------------
(* The WebSocket handlers.                                                 *)

(* tcpSocket.write: a socket that is not destroyed takes the frame, but if *)
(* the server has closed its end nobody will.                              *)
Write(c, frame) ==
    IF tcp[c] = "open" /\ c \in conn
    THEN toServer' = [toServer EXCEPT ![c] = Append(@, frame)]
    ELSE UNCHANGED toServer

Frame(type, arg) == [type |-> type, arg |-> arg]

Asks(c) ==
    /\ session[c].open
    /\ asked < MaxActions /\ asked' = asked + 1
    /\ Len(toServer[c]) < MaxQueue

(* Every handler but those below leaves these alone.                       *)
Keep == UNCHANGED <<tcp, conn, registry>> /\ Watch({})

SetPresence(h, entry) ==
    presence' = [x \in DOMAIN presence \cup {h} |->
                    IF x = h THEN entry ELSE presence[x]]

(* The entry of the session's user, if it is still there, gets the value.  *)
Present(c) == session[c].username \in DOMAIN presence

(* A new WebSocket, and the TCP connection the server accepts or refuses.  *)
Connect(c) ==
    /\ ~session[c].open /\ tcp[c] = "destroyed" /\ c \notin conn
    /\ session' = [session EXCEPT ![c] = [Closed EXCEPT !.open = TRUE]]
    /\ tcp' = [tcp EXCEPT ![c] = "open"]
    /\ conn' \in {conn, conn \cup {c}}
    /\ drifted' = drifted \ {c}
    /\ UNCHANGED <<store, presence, toServer, registry, asked>>

Register(c, u, e, s) ==
    /\ Asks(c)
    /\ AccountGranted(store, u, e)
    /\ store' = WithAccount(store, u, e)
    /\ LET h == HandleOf[u]
       IN  /\ session' = [session EXCEPT ![c].username = h,
                                         ![c].owner = CleanEmail[e],
                                         ![c].status = s]
           /\ SetPresence(h, [room |-> session[c].room, status |-> s])
           /\ Write(c, Frame("USER_REGISTER", h))
    /\ Keep

UpdateStatus(c, s) ==
    /\ Asks(c)
    /\ session[c].username # NoHandle
    /\ session' = [session EXCEPT ![c].status = s]
    /\ presence' = IF Present(c)
                   THEN [presence EXCEPT ![session[c].username].status = s]
                   ELSE presence
    /\ UNCHANGED <<store, toServer>>
    /\ Keep

(* What is said outside General is stored under General too.               *)
BadChat(c, x) ==
    /\ Asks(c)
    /\ session[c].username # NoHandle
    /\ store' = WithRoomMessage(store, RoomMessage(General, session[c].username, x))
    /\ Write(c, [type |-> "CHAT_MESSAGE", arg |-> x, room |-> General])
    /\ UNCHANGED <<session, presence>>
    /\ Keep

(* The frame remembers, as history, the room the message is stored under.  *)
Chat(c, x) ==
    /\ Asks(c)
    /\ session[c].username # NoHandle
    /\ store' = WithRoomMessage(store, RoomMessage(session[c].room, session[c].username, x))
    /\ Write(c, [type |-> "CHAT_MESSAGE", arg |-> x, room |-> session[c].room])
    /\ UNCHANGED <<session, presence>>
    /\ Keep

(* Only the others are shown the new room.                                 *)
BadGoTo(c, r) ==
    /\ UNCHANGED session
    /\ presence' = IF Present(c)
                   THEN [presence EXCEPT ![session[c].username].room = r]
                   ELSE presence

(* The session's room, and the room others see the user in.                *)
GoTo(c, r) ==
    /\ session' = [session EXCEPT ![c].room = r]
    /\ presence' = IF Present(c)
                   THEN [presence EXCEPT ![session[c].username].room = r]
                   ELSE presence

(* A protected room's password is asked for of everybody, with a name or   *)
(* without, on every join; a room that nobody has made yet is made, and    *)
(* protected if a password comes with the request.                         *)
JoinRoom(c, r, p) ==
    /\ Asks(c)
    /\ RoomGranted(store, r, p)
    /\ store' = WithRoom(store, r, p)
    /\ GoTo(c, r)
    /\ Write(c, Frame("JOIN_ROOM", r))
    /\ Keep

LeaveRoom(c) ==
    /\ Asks(c)
    /\ GoTo(c, General)
    /\ Write(c, Frame("LEAVE_ROOM", NoRoom))
    /\ UNCHANGED store
    /\ Keep

PrivateMessage(c, t, x) ==
    /\ Asks(c)
    /\ session[c].username # NoHandle
    /\ store' = WithDirectMessage(store, DirectMessage(session[c].username, t, x))
    /\ Write(c, [type |-> "PRIVATE_MESSAGE", arg |-> x, target |-> t])
    /\ UNCHANGED <<session, presence>>
    /\ Keep

(* list_rooms, list_users, heartbeat, get_metrics: passed on.              *)
PassOn(c, q) ==
    /\ Asks(c)
    /\ Write(c, Frame(q, NoRoom))
    /\ UNCHANGED <<store, session, presence>>
    /\ Keep

(* The socket is left to itself: nothing is sent, and it is not ended.     *)
BadWsClose(c) ==
    /\ session[c].open
    /\ session' = [session EXCEPT ![c].open = FALSE]
    /\ presence' = [h \in DOMAIN presence \ {session[c].username} |-> presence[h]]
    /\ UNCHANGED <<store, bridge, registry, asked>>
    /\ Watch({})

(* The user stays listed.                                                  *)
BadWsCloseKeepsEntry(c) ==
    /\ session[c].open
    /\ session' = [session EXCEPT ![c].open = FALSE]
    /\ Write(c, Frame("DISCONNECT", NoRoom))
    /\ tcp' = [tcp EXCEPT ![c] = IF @ = "open" THEN "ended" ELSE @]
    /\ UNCHANGED <<store, presence, conn, registry, asked>>
    /\ Watch({})

(* The entry of the user goes, whoever else uses the name.  The server is  *)
(* told, after all that is still to be sent.                               *)
WsClose(c) ==
    /\ session[c].open
    /\ session' = [session EXCEPT ![c].open = FALSE]
    /\ presence' = [h \in DOMAIN presence \ {session[c].username} |-> presence[h]]
    /\ Write(c, Frame("DISCONNECT", NoRoom))
    /\ tcp' = [tcp EXCEPT ![c] = IF @ = "open" THEN "ended" ELSE @]
    /\ UNCHANGED <<store, conn, registry, asked>>
    /\ Watch({})

(* The TCP socket's close event.  Nothing connects it again: the WebSocket *)
(* goes on, and what it asks for is done by the gateway alone.             *)
TcpClose(c) ==
    /\ tcp[c] # "destroyed" /\ c \notin conn
    /\ tcp' = [tcp EXCEPT ![c] = "destroyed"]
    /\ UNCHANGED <<store, session, presence, toServer, conn, registry, asked>>
    /\ Watch({})

------------------------------------------------------------------------------
(* The server: process_message for the next frame of a connection, and the *)
(* end of a connection.                                                    *)

TakeRegister(c, f) ==
    /\ f.type = "USER_REGISTER"
    /\ \/ RM!RegisterUser(c, f.arg)
       \/ ~RM!CanRegister(f.arg) /\ UNCHANGED registry

CanJoin(c, r) == c \in DOMAIN usersById /\ r \in ValidRoomName

(* The server answers with an error; the gateway has already acted.        *)
Refuses(c, f) ==
    \/ f.type = "USER_REGISTER" /\ ~RM!CanRegister(f.arg)
    \/ f.type = "JOIN_ROOM" /\ ~CanJoin(c, f.arg)

TakeJoin(c, f) ==
    /\ f.type = "JOIN_ROOM"
    /\ \/ RM!JoinRoom(c, f.arg)
       \/ /\ CanJoin(c, f.arg) => usersById[c].currentRoom = f.arg
          /\ UNCHANGED registry

TakeLeave(c, f) ==
    /\ f.type = "LEAVE_ROOM"
    /\ \/ RM!LeaveRoom(c)
       \/ /\ c \in DOMAIN usersById => usersById[c].currentRoom = General
          /\ UNCHANGED registry

TakeOther(f) ==
    /\ f.type \in {"CHAT_MESSAGE", "PRIVATE_MESSAGE"} \cup Query
    /\ UNCHANGED registry

Take(c) ==
    /\ c \in conn /\ toServer[c] # << >>
    /\ LET f == Head(toServer[c])
       IN  TakeRegister(c, f) \/ TakeJoin(c, f) \/ TakeLeave(c, f) \/ TakeOther(f)
    /\ toServer' = [toServer EXCEPT ![c] = Tail(@)]
    /\ UNCHANGED <<store, session, presence, tcp, conn, asked>>
    /\ Watch({d \in {c} : Refuses(c, Head(toServer[c]))})

(* The user stays in the registry.                                         *)
BadHangs(c) ==
    /\ conn' = conn \ {c}
    /\ toServer' = [toServer EXCEPT ![c] = << >>]
    /\ UNCHANGED <<store, session, presence, tcp, asked, registry>>
    /\ Watch({})

(* handle_close: the user leaves the registry, unread frames are lost.     *)
Hangs(c) ==
    /\ \/ RM!UnregisterUser(c)
       \/ c \notin DOMAIN usersById /\ UNCHANGED registry
    /\ conn' = conn \ {c}
    /\ toServer' = [toServer EXCEPT ![c] = << >>]
    /\ UNCHANGED <<store, session, presence, tcp, asked>>
    /\ Watch({})

TakeDisconnect(c) ==
    /\ c \in conn /\ toServer[c] # << >>
    /\ Head(toServer[c]).type = "DISCONNECT"
    /\ Hangs(c)

(* A timeout, an error, or the end of the server.                          *)
Drop(c) == c \in conn /\ Hangs(c)

------------------------------------------------------------------------------
BrowserAsks(c) ==
    \/ \E u \in Username, e \in Email, s \in Status : Register(c, u, e, s)
    \/ \E s \in Status : UpdateStatus(c, s)
    \/ \E x \in Text : Chat(c, x) \/ \E t \in Handle : PrivateMessage(c, t, x)
    \/ \E r \in RoomName, p \in Password \cup {NoPassword} : JoinRoom(c, r, p)
    \/ LeaveRoom(c)
    \/ \E q \in Query : PassOn(c, q)

Next ==
    \E c \in Client :
        \/ Connect(c) \/ BrowserAsks(c) \/ WsClose(c) \/ TcpClose(c)
        \/ Take(c) \/ TakeDisconnect(c) \/ Drop(c)

(* Node runs the events that are due, the server takes up what it is sent. *)
Fairness ==
    \A c \in Client : WF_vars(Take(c) \/ TakeDisconnect(c)) /\ WF_vars(TcpClose(c))

Spec == Init /\ [][Next]_vars /\ Fairness

------------------------------------------------------------------------------
TypeOK ==
    /\ \A c \in Client :
          /\ session[c].username \in Handle \cup {NoHandle}
          /\ session[c].room \in RoomName \ {NoRoom}
          /\ tcp[c] \in {"open", "ended", "destroyed"}
          /\ session[c].open => tcp[c] # "ended"
          /\ Len(toServer[c]) <= MaxQueue + 1
          /\ toServer[c] # << >> => c \in conn
    /\ DOMAIN presence \subseteq Handle
    /\ DOMAIN usersById \subseteq conn
    /\ RM!TypeOK

(* A session of this user.                                                 *)
Of(c, h) == session[c].open /\ session[c].username = h

(* Whoever is logged in is listed as present, except those whose name was  *)
(* also used by a session that has ended or moved on; and nobody is listed *)
(* without a session except under a name that a session has changed.       *)
PresenceFollowsSessions ==
    [][\A h \in Handle :
          LET here == {c \in Client : Of(c, h)}
              stays == {c \in here : Of(c, h)'}
          IN  /\ h \in DOMAIN presence /\ h \notin DOMAIN presence' /\ stays # {} =>
                    \E c \in here \ stays : ~session'[c].open
              /\ h \in DOMAIN presence' /\ (\A d \in Client : ~Of(d, h)') /\ here # {} =>
                    \E c \in here : session'[c].open]_vars

(* The account of the name that a session uses is its owner's.             *)
Holds(c, h) ==
    Of(c, h) /\ h \in DOMAIN store.users /\ store.users[h] = session[c].owner

(* Nobody loses the account of a name he is using, so that others can take *)
(* the name and speak under it too, unless his own address claims another  *)
(* name, on whatever connection (validateAndRegisterUser's Case B).        *)
NameLostOnlyByOwnClaim ==
    [][\A c \in Client, h \in Handle :
          Holds(c, h) /\ Of(c, h)' /\ ~Holds(c, h)' =>
             /\ session[c].owner # NoEmail
             /\ \E g \in Owners(store', session[c].owner) : g \notin DOMAIN store.users]_vars

(* Gateway and server come to differ in two ways only: the server refuses  *)
(* what the gateway has already done, or a session that is not in General  *)
(* registers.                                                              *)
DriftOnlyByRefusal ==
    [][\A c \in Client : Drift(c)' /\ ~Drift(c) =>
          \/ /\ toServer[c] # << >> /\ toServer'[c] = Tail(toServer[c])
             /\ Refuses(c, Head(toServer[c]))
          \/ /\ session'[c].room # General
             /\ Len(toServer'[c]) > Len(toServer[c])
             /\ toServer'[c][Len(toServer'[c])].type = "USER_REGISTER"]_vars

(* As long as nothing was refused and they have not differed, a message is *)
(* heard where it is stored: the room the server broadcasts to when it     *)
(* takes the frame up is the one its history was saved under when the      *)
(* gateway wrote it.                                                       *)
HeardWhereStored ==
    [][\A c \in Client \ drifted :
          toServer[c] # << >> /\ toServer'[c] = Tail(toServer[c]) =>
             LET f == Head(toServer[c])
             IN  f.type = "CHAT_MESSAGE" =>
                    /\ c \in DOMAIN usersById
                    /\ usersById[c].currentRoom = f.room]_vars

(* A browser that goes away does not leave its connection, or its name at  *)
(* the server, behind.                                                     *)
GoneIsGone ==
    \A c \in Client : ~session[c].open ~> (session[c].open \/ c \notin conn)
==============================================================================
